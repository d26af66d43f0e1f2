-------------------------- MODULE MCSessionService --------------------------
(* Instances of SessionService for TLC.  Each run lets some inputs change   *)
(* and leaves the others at a value under which those matter.               *)
EXTENDS SessionService, TLC

AllBut(off) == [key \in Inputs |-> key \notin off]

\* a local desktop with every item, no guest session active, no live session
Desktop == AllBut({"is-live-session", "guest-is-active-session", "guest-is-logged-in",
                   "suppress-logout-restart-shutdown", "suppress-logout-menuitem",
                   "suppress-shutdown-menuitem", "has-online-account-error"})

\* what decides which users are listed
ShowMenu == {"user-show-menu"}
\* who is named in the panel
NameInputs == {"user-show-menu", "guest-is-active-session"}
\* settings read by one section, by several and by another input, and a property
\* that both a setting and the seat decide
MixedInputs == {"custom-item-uri", "suppress-logout-restart-shutdown", "suppress-logout-menuitem",
                "can-switch"}

Symmetry == Permutations(Uids)

\* a user who logs in often and one without any name
TwoInfos == {"often", "nameless"}
TwoLabels == [i \in TwoInfos |-> IF i = "nameless" THEN "" ELSE i]
TwoFrequencies == [i \in TwoInfos |-> IF i = "often" THEN 2 ELSE 1]

One == {"ann"}
OneLabel == [i \in One |-> "Ann"]
Zero == [i \in One |-> 0]
=============================================================================
