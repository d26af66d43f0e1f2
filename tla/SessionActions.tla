--------------------------- MODULE SessionActions ---------------------------
(***************************************************************************)
(* What the user may do: the eight properties of the D-Bus actions object  *)
(* (src/src/backend-dbus/actions.c), the sources each is computed from and *)
(* the notifications that announce its changes.  Most are computed anew on *)
(* every read, from GSettings, from a proxy or from what logind answered;  *)
(* a listener that keeps what it read relies on a notify for every change. *)
(* The listener here is the menu service, which has to watch one setting   *)
(* itself because the object announces nothing when it changes.            *)
(***************************************************************************)
EXTENDS Naturals, Sequences, FiniteSets

CONSTANTS
  Desktops,     \* where the program may find itself, see AllDesktops
  Answers,      \* what logind may say of suspending and hibernating
  Mutable,      \* the settings that may be on and may change; the others are off
  MaxMsgs       \* bound: property changes on their way to us

LockdownKeys == {"disable-lock-screen", "disable-log-out", "disable-user-switching"}
IndicatorKeys == {"suppress-logout-restart-shutdown", "suppress-logout-menuitem",
                  "suppress-restart-menuitem", "suppress-shutdown-menuitem",
                  "force-restart-menuitem"}
Keys == LockdownKeys \cup IndicatorKeys
Properties == {"can-lock", "can-logout", "can-reboot", "can-switch", "can-suspend",
               "can-hibernate", "can-prompt", "has-online-account-error"}

Powers == {"can-suspend", "can-hibernate"}

\* lockdown: GNOME, Budgie or MATE, which have a lockdown schema; unity:
\* ayatana_common_utils_is_unity or is_lomiri; program: the MATE, Budgie or XFCE
\* logout program is there
AllDesktops == [lockdown: BOOLEAN, unity: BOOLEAN, program: BOOLEAN]

ASSUME ActionsAssumption ==
  /\ Desktops \subseteq AllDesktops /\ Answers \subseteq {"yes", "no", "challenge"}
  /\ Mutable \subseteq Keys /\ MaxMsgs \in Nat

VARIABLES
  desktop,                \* one of Desktops
  alive,                  \* between init and my_dispose
  settings,               \* the settings as a read returns them
  unseen,                 \* settings whose "changed" signal is still to come
  proxies,                \* which proxies are there
  creating,               \* which are being created
  power,                  \* can_suspend and can_hibernate
  seat_allows_activation,
  error_status,           \* the web credentials proxy's cached error-status
  dialog_owned,           \* the end-session dialog's name has an owner
  \* ---- the services (external)
  answer,                 \* what logind will say of suspending and hibernating
  asked,                  \* the CanSuspend and CanHibernate calls not answered yet
  can_multi_session,      \* the seat's property
  web_error,              \* the web credentials' property
  changes,                \* property changes on their way to us
  unanswered,             \* history: the power calls that failed
  seat_told,              \* history: the seat has announced a change to us
  \* ---- a listener
  mirror                  \* each property as it was when it was last read

objectVars == <<alive, proxies, creating, power, seat_allows_activation, error_status,
                dialog_owned>>
serviceVars == <<desktop, answer, asked, can_multi_session, web_error, unanswered, seat_told>>
vars == <<settings, unseen, objectVars, serviceVars, changes, mirror>>

SessionProxies == {"webcredentials", "dialog"}
SystemProxies == {"login1", "seat"}
Changes == [of: {"seat", "webcredentials", "dialog"}, value: BOOLEAN]

-----------------------------------------------------------------------------
(* Reading the properties. *)

Locked(key) == desktop.lockdown /\ settings[key]

\* get_prompt_status: who would ask before the session ends; zenity always can
PromptStatus ==
  CASE settings["suppress-logout-restart-shutdown"] -> "NONE"
    [] ~settings["suppress-logout-restart-shutdown"] /\ desktop.program -> "PROGRAM"
    [] OTHER -> IF "dialog" \in proxies /\ dialog_owned THEN "LOMIRI" ELSE "UTILS"

\* my_can_reboot
CanReboot ==
  /\ ~settings["suppress-restart-menuitem"]
  /\ \/ settings["force-restart-menuitem"]
     \/ settings["suppress-shutdown-menuitem"]
     \/ ~desktop.unity

\* my_can_lock and its sisters
Now ==
  [p \in Properties |->
     CASE p = "can-lock" -> ~Locked("disable-lock-screen")
       [] p = "can-logout" -> ~settings["suppress-logout-menuitem"] /\ ~Locked("disable-log-out")
       [] p = "can-reboot" -> CanReboot
       [] p = "can-switch" -> ~Locked("disable-user-switching") /\ seat_allows_activation
       [] p = "can-prompt" -> PromptStatus # "NONE"
       [] p = "has-online-account-error" -> "webcredentials" \in proxies /\ error_status
       [] OTHER -> power[p]]

\* Mistaken listener: it keeps nothing but what it was just notified of.
NotifyForgets(props) == mirror' = [p \in props |-> Now'[p]]

\* A notify for each of the properties: the listener reads them at once.
Notify(props) == mirror' = [p \in Properties |-> IF p \in props THEN Now'[p] ELSE mirror[p]]

-----------------------------------------------------------------------------
(* Settings. *)

\* Mistaken connections: one of the two of "suppress-logout-restart-shutdown" is
\* missing.
NotifiedRebootOnly(key) ==
  CASE key = "disable-lock-screen" -> {"can-lock"}
    [] key = "disable-log-out" -> {"can-logout"}
    [] key = "disable-user-switching" -> {"can-switch"}
    [] key = "suppress-logout-menuitem" -> {}
    [] OTHER -> {"can-reboot"}

\* indicator_session_actions_dbus_init: the properties each setting's "changed"
\* notifies.  "suppress-logout-menuitem", which my_can_logout reads, has no
\* connection.
Notified(key) ==
  CASE key = "disable-lock-screen" -> {"can-lock"}
    [] key = "disable-log-out" -> {"can-logout"}
    [] key = "disable-user-switching" -> {"can-switch"}
    [] key = "suppress-logout-restart-shutdown" -> {"can-prompt", "can-reboot"}
    [] key = "suppress-logout-menuitem" -> {}
    [] OTHER -> {"can-reboot"}

\* indicator_session_service_init: the listener connects to that setting itself
\* and reads can-logout again.  What its connections to other settings read
\* again, a notify of the object reads again too.
ListenedTo(key) == IF key = "suppress-logout-menuitem" THEN {"can-logout"} ELSE {}

\* What the listener reads again when a setting's "changed" signal comes.
Heard(key) == Notified(key) \cup ListenedTo(key)

Present(key) == key \in IndicatorKeys \/ desktop.lockdown

WriteSetting(key) ==
  /\ alive /\ Present(key)
  /\ settings' = [settings EXCEPT ![key] = ~@]
  /\ unseen' = unseen \cup {key}
  /\ UNCHANGED <<objectVars, serviceVars, changes, mirror>>

SettingChanged(key) ==
  /\ alive /\ key \in unseen
  /\ unseen' = unseen \ {key}
  /\ UNCHANGED <<settings, objectVars, serviceVars, changes>>
  /\ Notify(Heard(key))

-----------------------------------------------------------------------------
(* The services (external). *)

Room == Len(changes) < MaxMsgs
Tell(of, value) ==
  changes' = IF of \in proxies THEN Append(changes, [of |-> of, value |-> value]) ELSE changes

SeatChanges ==
  /\ alive /\ Room
  /\ can_multi_session' = ~can_multi_session
  /\ Tell("seat", can_multi_session')
  /\ seat_told' = (seat_told \/ "seat" \in proxies)
  /\ UNCHANGED <<settings, unseen, objectVars, desktop, answer, asked, web_error, unanswered, mirror>>

WebErrorChanges ==
  /\ alive /\ Room
  /\ web_error' = ~web_error
  /\ Tell("webcredentials", web_error')
  /\ UNCHANGED <<settings, unseen, objectVars, desktop, answer, asked, can_multi_session,
                 unanswered, seat_told, mirror>>

DialogOwnerChanges ==
  /\ alive /\ Room /\ "dialog" \in proxies
  /\ \A i \in DOMAIN changes : changes[i].of # "dialog"
  /\ Tell("dialog", ~dialog_owned)
  /\ UNCHANGED <<settings, unseen, objectVars, serviceVars, mirror>>

-----------------------------------------------------------------------------
(* Callbacks of the object. *)

\* set_login1_manager, set_login1_seat, set_dm_seat: ask logind what it can do,
\* and listen to the seat without reading it
SetProxies(got) ==
  /\ alive /\ creating \cap SystemProxies # {}
  /\ creating' = creating \ SystemProxies
  /\ proxies' = proxies \cup got
  /\ asked' = IF "login1" \in got THEN Powers ELSE {}
  /\ UNCHANGED <<settings, unseen, alive, power, seat_allows_activation, error_status,
                 dialog_owned, desktop, answer, can_multi_session, web_error, changes,
                 unanswered, seat_told, mirror>>

\* on_can_suspend_ready, on_can_hibernate_ready
OnPowerReady(p) ==
  /\ alive /\ p \in asked
  /\ asked' = asked \ {p}
  /\ \/ power' = [power EXCEPT ![p] = (answer[p] = "yes")] /\ UNCHANGED unanswered
     \/ UNCHANGED power /\ unanswered' = unanswered \cup {p}
  /\ UNCHANGED <<settings, unseen, alive, proxies, creating, seat_allows_activation,
                 error_status, dialog_owned, desktop, answer, can_multi_session, web_error,
                 seat_told, changes>>
  /\ Notify(IF power' # power THEN {p} ELSE {})

\* on_webcredentials_proxy_ready: it announces an error only
OnWebcredentialsReady ==
  /\ alive /\ "webcredentials" \in creating
  /\ creating' = creating \ {"webcredentials"}
  /\ UNCHANGED <<settings, unseen, alive, power, seat_allows_activation, dialog_owned,
                 serviceVars, changes>>
  /\ \/ /\ proxies' = proxies \cup {"webcredentials"}
        /\ error_status' = web_error
        /\ Notify(IF web_error THEN {"has-online-account-error"} ELSE {})
     \/ UNCHANGED <<proxies, error_status, mirror>>

\* on_end_session_dialog_proxy_ready
OnDialogReady ==
  /\ alive /\ "dialog" \in creating
  /\ creating' = creating \ {"dialog"}
  /\ UNCHANGED <<settings, unseen, alive, power, seat_allows_activation, error_status,
                 serviceVars, changes>>
  /\ \/ /\ proxies' = proxies \cup {"dialog"}
        /\ dialog_owned' \in BOOLEAN
        /\ Notify({"can-prompt", "can-reboot"})
     \/ UNCHANGED <<proxies, dialog_owned, mirror>>

NextChange(of) == alive /\ changes # << >> /\ Head(changes).of = of

\* on_seat_notify_multi_session
OnSeatChange ==
  /\ NextChange("seat")
  /\ seat_allows_activation' = Head(changes).value
  /\ changes' = Tail(changes)
  /\ UNCHANGED <<settings, unseen, alive, proxies, creating, power, error_status,
                 dialog_owned, serviceVars>>
  /\ Notify(IF seat_allows_activation' # seat_allows_activation THEN {"can-switch"} ELSE {})

\* Mistaken error-status: an error is noted, its end is not.
OnWebErrorChangeSticks ==
  /\ NextChange("webcredentials")
  /\ error_status' = (error_status \/ Head(changes).value)
  /\ changes' = Tail(changes)
  /\ UNCHANGED <<settings, unseen, alive, proxies, creating, power, seat_allows_activation,
                 dialog_owned, serviceVars>>
  /\ Notify({"has-online-account-error"})

\* notify::error-status
OnWebErrorChange ==
  /\ NextChange("webcredentials")
  /\ error_status' = Head(changes).value
  /\ changes' = Tail(changes)
  /\ UNCHANGED <<settings, unseen, alive, proxies, creating, power, seat_allows_activation,
                 dialog_owned, serviceVars>>
  /\ Notify({"has-online-account-error"})

\* notify::g-name-owner of the dialog is connected to notify_can_switch, until
\* stop_listening_to_dialog, which disconnects by data only, takes that with it
OnDialogOwner ==
  /\ NextChange("dialog")
  /\ dialog_owned' = Head(changes).value
  /\ changes' = Tail(changes)
  /\ UNCHANGED <<settings, unseen, alive, proxies, creating, power, seat_allows_activation,
                 error_status, serviceVars>>
  /\ \E heard \in {{"can-switch"}, {}} : Notify(heard)

\* my_dispose
Dispose ==
  /\ alive /\ alive' = FALSE
  /\ proxies' = {} /\ creating' = {} /\ asked' = {} /\ unseen' = {} /\ changes' = << >>
  /\ UNCHANGED <<settings, power, seat_allows_activation, error_status, dialog_owned,
                 desktop, answer, can_multi_session, web_error, unanswered, seat_told, mirror>>

Init ==
  /\ desktop \in Desktops /\ alive = TRUE
  /\ \E on \in SUBSET {k \in Mutable : Present(k)} : settings = [k \in Keys |-> k \in on]
  /\ unseen = {} /\ proxies = {} /\ creating = SessionProxies \cup SystemProxies
  /\ power = [p \in Powers |-> FALSE] /\ seat_allows_activation = TRUE
  /\ error_status = FALSE /\ dialog_owned = FALSE
  /\ answer \in [Powers -> Answers] /\ asked = {} /\ unanswered = {}
  /\ seat_told = FALSE
  /\ can_multi_session \in BOOLEAN /\ web_error \in BOOLEAN /\ changes = << >>
  /\ mirror = Now

Next ==
  \/ \E key \in Mutable : WriteSetting(key)
  \/ \E key \in Keys : SettingChanged(key)
  \/ SeatChanges \/ WebErrorChanges \/ DialogOwnerChanges
  \/ \E got \in SUBSET SystemProxies : SetProxies(got)
  \/ \E p \in Powers : OnPowerReady(p)
  \/ OnWebcredentialsReady \/ OnDialogReady
  \/ OnSeatChange \/ OnWebErrorChange \/ OnDialogOwner
  \/ Dispose

Spec == Init /\ [][Next]_vars

-----------------------------------------------------------------------------
(* Properties of the object. *)

\* Every variable has its type.
TypeOK ==
  /\ desktop \in Desktops /\ alive \in BOOLEAN
  /\ settings \in [Keys -> BOOLEAN] /\ unseen \subseteq Keys
  /\ proxies \subseteq SessionProxies \cup SystemProxies
  /\ creating \subseteq SessionProxies \cup SystemProxies
  /\ power \in [Powers -> BOOLEAN] /\ seat_allows_activation \in BOOLEAN
  /\ error_status \in BOOLEAN /\ dialog_owned \in BOOLEAN
  /\ answer \in [Powers -> Answers] /\ asked \subseteq Powers
  /\ unanswered \subseteq Powers /\ seat_told \in BOOLEAN
  /\ can_multi_session \in BOOLEAN /\ web_error \in BOOLEAN
  /\ changes \in Seq(Changes)
  /\ mirror \in [Properties -> BOOLEAN]

\* What the menu service last read of a property is still what a read returns,
\* unless the signal of a setting that will make it read again is on its way:
\* no source of a property changes unheard, though the sources of one property
\* are several, one of them is watched by the service only, the dialog's owner
\* notifies another property than can-prompt and closing a dialog ends even
\* that.  By the object's notifies alone can-logout would go stale.
PropertiesMirrored ==
  alive => \A p \in Properties :
             mirror[p] = Now[p] \/ \E key \in unseen : p \in Heard(key)

\* Once the services' messages are handled, the flags the object keeps follow
\* the services: the credentials' error status; logind's "yes", and nothing else
\* it may say, unless the call failed; and the seat's latest change, but TRUE as
\* it was at the start until the seat announces one, as nobody reads the seat.
ServicesReflected ==
  alive /\ changes = << >> =>
    /\ "webcredentials" \in proxies => error_status = web_error
    /\ "login1" \in proxies =>
         \A p \in Powers \ (asked \cup unanswered) : power[p] = (answer[p] = "yes")
    /\ seat_allows_activation = (~seat_told \/ can_multi_session)

\* "ASSERT_EQ (b, can_suspend=="yes" || can_suspend=="challenge")"
\* (test-actions.cc:184, and 191 for hibernating): when logind has answered, the
\* flag is set if it would suspend at once or after asking for a password.
ChallengeIsAYes ==
  alive /\ "login1" \in proxies =>
    \A p \in Powers \ (asked \cup unanswered) : power[p] = (answer[p] \in {"yes", "challenge"})
=============================================================================
