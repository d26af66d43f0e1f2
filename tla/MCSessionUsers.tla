--------------------------- MODULE MCSessionUsers ---------------------------
(* Instances of SessionUsers for TLC: two accounts, or one account and the  *)
(* live image's user; up to three sessions, of which "c3" is on another     *)
(* seat.                                                                    *)
EXTENDS SessionUsers

OneUid == {1}
TwoUids == {1, 2}
LiveUids == {1, 999}
OneSessionUid == [s \in {"c1"} |-> 1]
TwoSessionUid == [s \in {"c1", "c2"} |-> IF s = "c1" THEN 1 ELSE 2]
LiveSessionUid == [s \in {"c1", "c2", "c3"} |-> IF s = "c1" THEN 999 ELSE 1]
=============================================================================
