------------------------------ MODULE Startup -------------------------------
(***************************************************************************)
(* What backend_get promises its caller: each backend object it returns is *)
(* given its D-Bus proxies exactly once, all objects at the same moment,   *)
(* or never if the caller cancels first.                                   *)
(***************************************************************************)
VARIABLES
  gone,      \* the caller has cancelled and dropped the objects
  outcome    \* "waiting", then "given" or "dropped"
vars == <<gone, outcome>>

Init == gone = FALSE /\ outcome = "waiting"

Give == outcome = "waiting" /\ ~gone /\ outcome' = "given" /\ UNCHANGED gone
Drop == outcome = "waiting" /\ gone /\ outcome' = "dropped" /\ UNCHANGED gone
Leave == ~gone /\ gone' = TRUE /\ UNCHANGED outcome

Next == Give \/ Drop \/ Leave

Spec == Init /\ [][Next]_vars /\ WF_vars(Give \/ Drop)
=============================================================================
