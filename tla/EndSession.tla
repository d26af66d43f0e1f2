----------------------------- MODULE EndSession -----------------------------
(***************************************************************************)
(* Logging out, restarting and shutting down, as backend-dbus/actions.c    *)
(* does it: which prompt asks the user, what a Lomiri end-session dialog   *)
(* answers and which service is finally told.                              *)
(*                                                                         *)
(* The dialog is an object of the shell: it is opened by a call, answers   *)
(* by signals, and both the reply and the signals come over the shell's    *)
(* connection in the order they were sent.  Each call of                   *)
(* show_lomiri_end_session_dialog connects one more set of handlers to it; *)
(* "canceled" and "closed" disconnect all of them.                         *)
(***************************************************************************)
EXTENDS Naturals, Sequences, FiniteSets

CONSTANTS
  Desktops,     \* where the program runs; program: the MATE, Budgie or XFCE logout
                \* program is there, unity: is_unity or is_lomiri, manager: the GNOME
                \* session manager owns its name
  MaxRequests   \* bound: how often the user asks

ASSUME DesktopsAssumption ==
  Desktops \subseteq [program: BOOLEAN, unity: BOOLEAN, manager: BOOLEAN]
ASSUME BoundAssumption == MaxRequests \in Nat

Kinds == {"logout", "reboot", "shutdown"}   \* also the type a dialog is opened with
NoDialog == "none"
Proxies == {"dialog", "lomiri", "manager"}

VARIABLES
  desktop,      \* the one of Desktops we run on
  alive,        \* between init and my_dispose
  suppress,     \* the setting "suppress-logout-restart-shutdown"
  proxies,      \* which of the session bus proxies are there
  creating,     \* which are being created
  shell_owned,  \* the shell's name has an owner, as our proxies know it
  handlers,     \* sets of handlers connected to the dialog
  called,       \* how often logout_now, reboot_now, power_off_now ran
  \* ---- the shell
  running,      \* the shell is there
  opening,      \* Open calls on their way to it
  shown,        \* the type of the dialog shown
  dialogmsg,    \* replies and signals on their way to us
  logouts,      \* RequestLogout calls not answered yet
  \* ---- the session manager
  manager_logouts,  \* Logout calls not answered yet
  \* ---- what happened
  requests,     \* how often the user asked
  confirmed,    \* [Kinds -> Nat]: how often the user said yes
  failed,       \* [Kinds -> Nat]: how often the dialog for it did not open
  overlapped,   \* the user asked again before the last dialog was done
  broken,       \* a call of the shell failed or the shell vanished
  accepted,     \* how many logout calls were accepted
  refused       \* how many the session manager answered with an error

objectVars == <<proxies, creating, shell_owned, handlers, called>>
shellVars == <<running, opening, shown, dialogmsg, logouts>>
historyVars == <<requests, confirmed, failed, overlapped, broken>>
logoutVars == <<manager_logouts, accepted, refused>>
vars == <<desktop, alive, suppress, objectVars, shellVars, historyVars, logoutVars>>

Msgs == [type: {"opened", "failed", "confirmed"}, kind: Kinds] \cup
        [type: {"canceled", "closed", "vanished", "appeared"}]

Plus(count, kind, n) == [count EXCEPT ![kind] = @ + n]

\* Nothing is being asked and nothing is on its way.
Quiet == opening = << >> /\ shown = NoDialog /\ dialogmsg = << >> /\ logouts = 0

-----------------------------------------------------------------------------
(* The calls that end the session. *)

\* is_owned_proxy of the session manager
ManagerOwned == "manager" \in proxies /\ desktop.manager

\* logout_now, reboot_now or power_off_now, run n times: a logout is sent to the
\* Lomiri shell if our proxy knows an owner, else to the session manager if it is
\* there, else to nobody.
EndNow(kind, n) ==
  LET lomiri == kind = "logout" /\ "lomiri" \in proxies /\ shell_owned
      gnome == kind = "logout" /\ ~lomiri /\ ManagerOwned
  IN /\ called' = Plus(called, kind, n)
     /\ logouts' = logouts + IF lomiri THEN n ELSE 0
     /\ manager_logouts' = manager_logouts + IF gnome THEN n ELSE 0
     /\ UNCHANGED <<accepted, refused>>

\* get_prompt_status
Prompt == CASE suppress -> "NONE"
            [] ~suppress /\ desktop.program -> "PROGRAM"
            [] OTHER -> IF "dialog" \in proxies /\ shell_owned THEN "LOMIRI" ELSE "UTILS"

\* show_lomiri_end_session_dialog
ShowDialog(type) ==
  /\ handlers' = handlers + 1
  /\ opening' = Append(opening, type)

\* my_power_off: "TYPE_REBOOT instead of TYPE_SHUTDOWN" in Unity and Lomiri
DialogType(kind) == IF kind = "shutdown" /\ desktop.unity THEN "reboot" ELSE kind

\* my_logout, my_reboot, my_power_off.  A program of the desktop takes over
\* entirely; the zenity question blocks until the user answers.
Ask(kind) ==
  /\ alive /\ requests < MaxRequests
  /\ overlapped' = (overlapped \/ ~Quiet)
  /\ requests' = requests + 1
  /\ CASE Prompt = "NONE" -> /\ EndNow(kind, 1)
                             /\ confirmed' = Plus(confirmed, kind, 1)
                             /\ UNCHANGED <<handlers, opening>>
       [] Prompt = "PROGRAM" -> UNCHANGED <<called, logouts, logoutVars, confirmed, handlers, opening>>
       [] Prompt = "LOMIRI" -> /\ ShowDialog(DialogType(kind))
                               /\ UNCHANGED <<called, logouts, logoutVars, confirmed>>
       [] Prompt = "UTILS" -> \E n \in {0, 1} : /\ EndNow(kind, n)
                                                /\ confirmed' = Plus(confirmed, kind, n)
                                                /\ UNCHANGED <<handlers, opening>>
  /\ UNCHANGED <<desktop, alive, suppress, proxies, creating, shell_owned, running, shown,
                 dialogmsg, failed, broken>>

-----------------------------------------------------------------------------
(* The shell (external). *)

Send(msgs) == dialogmsg' = dialogmsg \o msgs
Reply(type, kind) == <<[type |-> type, kind |-> kind]>>
Signals(types) == [i \in DOMAIN types |-> [type |-> types[i]]]

\* what a dialog of each type lets the user choose
Offers(type) == CASE type = "logout" -> {"logout"}
                  [] type = "reboot" -> {"reboot", "shutdown"}
                  [] OTHER -> Kinds

\* a second dialog replaces the first
AnswerOpen ==
  /\ running /\ opening # << >>
  /\ opening' = Tail(opening)
  /\ \/ shown' = Head(opening) /\ Send(Reply("opened", Head(opening))) /\ UNCHANGED <<failed, broken>>
     \/ /\ Send(Reply("failed", Head(opening)))
        /\ failed' = Plus(failed, Head(opening), 1) /\ broken' = TRUE
        /\ UNCHANGED shown
  /\ UNCHANGED <<desktop, alive, suppress, objectVars, running, logouts, requests, confirmed,
                 overlapped, logoutVars>>

UserConfirms(kind) ==
  /\ shown # NoDialog /\ kind \in Offers(shown)
  /\ shown' = NoDialog
  /\ Send(Reply("confirmed", kind) \o Signals(<<"closed">>))
  /\ confirmed' = Plus(confirmed, kind, 1)
  /\ UNCHANGED <<desktop, alive, suppress, objectVars, running, opening, logouts, requests, failed,
                 overlapped, broken, logoutVars>>

UserCancels ==
  /\ shown # NoDialog
  /\ shown' = NoDialog
  /\ \/ Send(Signals(<<"canceled", "closed">>))
     \/ Send(Signals(<<"closed">>))
  /\ UNCHANGED <<desktop, alive, suppress, objectVars, running, opening, logouts, historyVars,
                 logoutVars>>

AnswerLogout ==
  /\ running /\ logouts > 0
  /\ logouts' = logouts - 1
  /\ accepted' = accepted + 1
  /\ UNCHANGED <<desktop, alive, suppress, objectVars, running, opening, shown, dialogmsg,
                 historyVars, manager_logouts, refused>>

\* The shell goes away: open calls fail and the dialog is gone without a signal.
ShellVanishes ==
  /\ running
  /\ running' = FALSE /\ broken' = TRUE
  /\ shown' = NoDialog /\ opening' = << >>
  /\ Send([i \in DOMAIN opening |-> [type |-> "failed", kind |-> opening[i]]]
            \o Signals(<<"vanished">>))
  /\ failed' = [k \in Kinds |-> failed[k] + Cardinality({i \in DOMAIN opening : opening[i] = k})]
  /\ UNCHANGED <<desktop, alive, suppress, objectVars, logouts, requests, confirmed, overlapped,
                 logoutVars>>

ShellAppears ==
  /\ ~running /\ dialogmsg = << >> /\ logouts = 0
  /\ running' = TRUE
  /\ Send(Signals(<<"appeared">>))
  /\ UNCHANGED <<desktop, alive, suppress, objectVars, opening, shown, logouts, historyVars,
                 logoutVars>>

\* an Open call that leaves when the shell is gone comes back at once
OpenFails ==
  /\ ~running /\ opening # << >>
  /\ opening' = Tail(opening)
  /\ Send(Reply("failed", Head(opening)))
  /\ failed' = Plus(failed, Head(opening), 1) /\ broken' = TRUE
  /\ UNCHANGED <<desktop, alive, suppress, objectVars, running, shown, logouts, requests,
                 confirmed, overlapped, logoutVars>>

Shell ==
  \/ AnswerOpen \/ OpenFails \/ AnswerLogout \/ UserCancels \/ ShellVanishes \/ ShellAppears
  \/ \E kind \in Kinds : UserConfirms(kind)

\* The session manager (external) answers a Logout call.
AnswerManager ==
  /\ manager_logouts > 0
  /\ manager_logouts' = manager_logouts - 1
  /\ accepted' = accepted + 1
  /\ UNCHANGED <<desktop, alive, suppress, objectVars, shellVars, historyVars, refused>>

-----------------------------------------------------------------------------
(* Callbacks of the object. *)

NextMsg(type) == alive /\ dialogmsg # << >> /\ Head(dialogmsg).type = type

\* on_end_session_dialog_proxy_ready and its sisters
OnProxyReady(proxy) ==
  /\ alive /\ proxy \in creating
  /\ creating' = creating \ {proxy}
  /\ \/ proxies' = proxies \cup {proxy} /\ UNCHANGED broken
     \/ UNCHANGED proxies /\ broken' = TRUE
  /\ UNCHANGED <<desktop, alive, suppress, shell_owned, handlers, called, shellVars,
                 requests, confirmed, failed, overlapped, logoutVars>>

\* Mistaken on_open_end_session_dialog_ready: an error confirms what was asked.
OnOpenFailedDoesIt ==
  /\ NextMsg("failed")
  /\ EndNow(Head(dialogmsg).kind, 1)
  /\ dialogmsg' = Tail(dialogmsg)
  /\ UNCHANGED <<desktop, alive, suppress, proxies, creating, shell_owned, handlers,
                 running, opening, shown, historyVars>>

\* on_open_end_session_dialog_ready: an error counts as a confirmed logout, and
\* the handlers stay connected.
OnOpened ==
  /\ NextMsg("opened")
  /\ dialogmsg' = Tail(dialogmsg)
  /\ UNCHANGED <<desktop, alive, suppress, objectVars, running, opening, shown, logouts, historyVars,
                 logoutVars>>
OnOpenFailed ==
  /\ NextMsg("failed")
  /\ EndNow("logout", 1)
  /\ dialogmsg' = Tail(dialogmsg)
  /\ UNCHANGED <<desktop, alive, suppress, proxies, creating, shell_owned, handlers,
                 running, opening, shown, historyVars>>

\* confirmed-logout, confirmed-reboot, confirmed-shutdown: every connected
\* handler runs
OnConfirmed ==
  /\ NextMsg("confirmed")
  /\ EndNow(Head(dialogmsg).kind, handlers)
  /\ dialogmsg' = Tail(dialogmsg)
  /\ UNCHANGED <<desktop, alive, suppress, proxies, creating, shell_owned, handlers,
                 running, opening, shown, historyVars>>

\* Mistaken stop_listening_to_dialog: "closed" does not call it, or it
\* disconnects one set of handlers only.
OnDialogDoneCanceledOnly ==
  /\ NextMsg("canceled") \/ NextMsg("closed")
  /\ handlers' = IF Head(dialogmsg).type = "canceled" THEN 0 ELSE handlers
  /\ dialogmsg' = Tail(dialogmsg)
  /\ UNCHANGED <<desktop, alive, suppress, proxies, creating, shell_owned, called,
                 running, opening, shown, logouts, historyVars, logoutVars>>
OnDialogDoneOneSet ==
  /\ NextMsg("canceled") \/ NextMsg("closed")
  /\ handlers' = handlers - 1
  /\ dialogmsg' = Tail(dialogmsg)
  /\ UNCHANGED <<desktop, alive, suppress, proxies, creating, shell_owned, called,
                 running, opening, shown, logouts, historyVars, logoutVars>>

\* stop_listening_to_dialog
OnDialogDone ==
  /\ NextMsg("canceled") \/ NextMsg("closed")
  /\ handlers' = 0
  /\ dialogmsg' = Tail(dialogmsg)
  /\ UNCHANGED <<desktop, alive, suppress, proxies, creating, shell_owned, called,
                 running, opening, shown, logouts, historyVars, logoutVars>>

OnNameOwner ==
  /\ NextMsg("vanished") \/ NextMsg("appeared")
  /\ shell_owned' = (Head(dialogmsg).type = "appeared")
  /\ dialogmsg' = Tail(dialogmsg)
  /\ UNCHANGED <<desktop, alive, suppress, proxies, creating, handlers, called,
                 running, opening, shown, logouts, historyVars, logoutVars>>

\* Mistaken on_lomiri_logout_response: the error is only logged.
OnLogoutFailedGivesUp ==
  /\ alive /\ logouts > 0
  /\ logouts' = logouts - 1
  /\ broken' = TRUE
  /\ UNCHANGED <<desktop, alive, suppress, objectVars, running, opening, shown, dialogmsg,
                 requests, confirmed, failed, overlapped, logoutVars>>

\* on_lomiri_logout_response with an error: fall back on the session manager, if
\* it is there
OnLogoutFailed ==
  /\ alive /\ logouts > 0
  /\ logouts' = logouts - 1
  /\ manager_logouts' = manager_logouts + IF ManagerOwned THEN 1 ELSE 0
  /\ broken' = TRUE
  /\ UNCHANGED <<desktop, alive, suppress, objectVars, running, opening, shown, dialogmsg,
                 requests, confirmed, failed, overlapped, accepted, refused>>

\* on_gnome_logout_response with an error, which is logged: nobody else is asked
OnManagerRefuses ==
  /\ alive /\ manager_logouts > 0
  /\ manager_logouts' = manager_logouts - 1
  /\ refused' = refused + 1
  /\ UNCHANGED <<desktop, alive, suppress, objectVars, shellVars, historyVars, accepted>>

ToggleSuppress ==
  /\ alive /\ suppress' = ~suppress
  /\ UNCHANGED <<desktop, alive, objectVars, shellVars, historyVars, logoutVars>>

\* my_dispose: calls are cancelled, handlers disconnected, proxies dropped.  The
\* program disposes after its main loop has ended, so no reply is dispatched.
Dispose ==
  /\ alive /\ alive' = FALSE
  /\ proxies' = {} /\ creating' = {} /\ handlers' = 0 /\ dialogmsg' = << >>
  /\ UNCHANGED <<desktop, suppress, shell_owned, called, running, opening, shown, logouts,
                 historyVars, logoutVars>>

Object ==
  \/ \E proxy \in Proxies : OnProxyReady(proxy)
  \/ OnOpened \/ OnOpenFailed \/ OnConfirmed \/ OnDialogDone \/ OnNameOwner \/ OnLogoutFailed
  \/ OnManagerRefuses

Init ==
  /\ desktop \in Desktops
  /\ alive = TRUE /\ suppress \in BOOLEAN
  /\ proxies = {} /\ creating = Proxies
  /\ running \in BOOLEAN /\ shell_owned = running
  /\ handlers = 0 /\ called = [k \in Kinds |-> 0]
  /\ opening = << >> /\ shown = NoDialog /\ dialogmsg = << >> /\ logouts = 0
  /\ requests = 0 /\ confirmed = [k \in Kinds |-> 0] /\ failed = [k \in Kinds |-> 0]
  /\ overlapped = FALSE /\ broken = FALSE
  /\ manager_logouts = 0 /\ accepted = 0 /\ refused = 0

Next ==
  \/ \E kind \in Kinds : Ask(kind)
  \/ Shell \/ AnswerManager \/ Object
  \/ ToggleSuppress \/ Dispose

Spec == Init /\ [][Next]_vars

\* The main loop dispatches what is queued, proxies get created and every call
\* that is on its way comes back, answered or failed.  The user, the setting
\* and the shell's comings and goings are free.
FairSpec ==
  /\ Spec
  /\ WF_vars(Object)
  /\ WF_vars(AnswerLogout \/ OnLogoutFailed)
  /\ WF_vars(AnswerManager \/ OnManagerRefuses)
  /\ WF_vars(AnswerOpen \/ OpenFails)

-----------------------------------------------------------------------------
(* Properties. *)

\* Every variable has its type.
TypeOK ==
  /\ desktop \in Desktops /\ alive \in BOOLEAN /\ suppress \in BOOLEAN
  /\ proxies \subseteq Proxies /\ creating \subseteq Proxies
  /\ shell_owned \in BOOLEAN /\ running \in BOOLEAN
  /\ manager_logouts \in Nat /\ accepted \in Nat /\ refused \in Nat
  /\ handlers \in Nat /\ logouts \in Nat
  /\ opening \in Seq(Kinds) /\ shown \in Kinds \cup {NoDialog}
  /\ dialogmsg \in Seq(Msgs)
  /\ requests \in 0..MaxRequests
  /\ called \in [Kinds -> Nat] /\ confirmed \in [Kinds -> Nat] /\ failed \in [Kinds -> Nat]
  /\ overlapped \in BOOLEAN /\ broken \in BOOLEAN

\* "No action is taken when the user cancels the dialog" (test-actions.cc:200):
\* nothing ends the session unless the user said yes to exactly that, in a
\* dialog, in a question or through the setting, however requests, dialogs and
\* their signals overlap; only a dialog that failed to open logs out unasked.
CancelIsHeeded ==
  \A k \in Kinds :
    called[k] > 0 => confirmed[k] > 0 \/ (k = "logout" /\ \E t \in Kinds : failed[t] > 0)

\* As long as the user waits for one dialog to be done before asking again and
\* nothing fails, every yes is acted on once: no confirmation is lost, and no
\* handler that an earlier dialog left behind acts on it a second time.
OneAnswerOneCall == alive /\ Quiet /\ ~overlapped /\ ~broken => called = confirmed

Closing == \E i \in DOMAIN dialogmsg : dialogmsg[i].type = "closed"

\* As long as nothing fails, handlers are only connected while a dialog is being
\* opened, is shown or is about to report that it is closed, so a dialog that
\* somebody else opens later finds nobody listening.
ListensOnlyWhileOpen ==
  handlers > 0 /\ ~broken => opening # << >> \/ shown # NoDialog \/ Closing

\* "logout is called when user confirms the logout dialog"
\* (test-actions.cc:284), and likewise for the others: what the user
\* confirmed is called at least once.
ConfirmedIsDone ==
  alive /\ Quiet /\ ~broken => \A k \in Kinds : confirmed[k] > 0 => called[k] > 0

\* As many logouts as were called are accepted by the shell or by the session
\* manager, or the session manager refuses them, as long as it is there to fall
\* back on: neither a shell that fails the call nor one that has gone makes a
\* logout vanish before everybody was asked.  A refusal of the session manager is
\* the end of it.
LogoutGetsThrough ==
  [](alive /\ (called["logout"] > 0 => "manager" \in proxies)) /\ desktop.manager
    => \A n \in 1..MaxRequests : called["logout"] >= n ~> accepted + refused >= n
=============================================================================
