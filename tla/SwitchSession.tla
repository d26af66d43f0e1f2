---------------------------- MODULE SwitchSession ----------------------------
(***************************************************************************)
(* Locking the screen and switching to another session                     *)
(* (src/src/backend-dbus/actions.c), from the start of the program on: the *)
(* menu's actions are never disabled, so a click may come before, while    *)
(* and after ProxyGather hands over the proxies.                           *)
(*                                                                         *)
(* A switch sends two calls one after the other and waits for neither: the *)
(* lock to a screen locker of the session, the switch to the display       *)
(* manager over the system bus.  They arrive in any order, and each may be *)
(* refused.                                                                *)
(***************************************************************************)
EXTENDS ProxyGather

CONSTANTS
  Unhurried,        \* TRUE: nobody unlocks the screen while a call of theirs is on its way
  MaxClicks         \* bound: clicks on the items that lock or switch

ASSUME ClicksAssumption == Unhurried \in BOOLEAN /\ MaxClicks \in Nat

SessionProxies == {"lomiri_session", "screen_saver"}
Lockers == SessionProxies \cup {"program"}
Targets == {"greeter", "guest", "user"}

VARIABLES
  session_asked,    \* the session-bus proxies being created
  session_proxies,  \* those of the actions object that are not NULL
  lock_program,     \* the desktop's own lock program is installed
  shell_owned,      \* somebody owns the name com.lomiri.Shell
  locking,          \* lock requests on their way, per locker
  switching,        \* switch calls on their way to the display manager
  locked,           \* the screen of our session
  away,             \* another session is in front
  in_vain,          \* a lock was asked for in vain since the screen was last locked
  clicks

callVars == <<locking, switching>>
screenVars == <<locked, away>>
sessionVars ==
  <<session_asked, session_proxies, lock_program, shell_owned, callVars, screenVars, in_vain, clicks>>

-----------------------------------------------------------------------------
(* The actions object. *)

\* on_screensaver_proxy_ready, on_lomiri_proxy_ready: an error leaves NULL, and
\* after my_dispose there is nothing but a cancelled error.
OnSessionProxyReady(p) ==
  /\ p \in session_asked
  /\ session_asked' = session_asked \ {p}
  /\ session_proxies' \in {session_proxies} \cup IF cancelled THEN {} ELSE {session_proxies \cup {p}}
  /\ UNCHANGED <<vars, lock_program, shell_owned, callVars, screenVars, in_vain, clicks>>

\* is_owned_proxy, then the desktops' programs, then the screen saver
Chosen ==
  IF "lomiri_session" \in session_proxies /\ shell_owned THEN {"lomiri_session"}
  ELSE IF lock_program THEN {"program"}
  ELSE session_proxies \cap {"screen_saver"}

\* Mistaken lock_current_session: the screen saver is asked whatever came before.
LockCurrentSessionAndSaver ==
  /\ locking' = [l \in Lockers |-> locking[l] + (IF l \in Chosen THEN 1 ELSE 0)
                                   + (IF l \in session_proxies \cap {"screen_saver"} THEN 1 ELSE 0)]
  /\ in_vain' = (in_vain \/ Chosen = {})

\* lock_current_session: without any locker nothing is sent
LockCurrentSession ==
  /\ locking' = [l \in Lockers |-> locking[l] + IF l \in Chosen THEN 1 ELSE 0]
  /\ in_vain' = (in_vain \/ Chosen = {})

Click ==
  /\ "actions" \in living /\ clicks < MaxClicks
  /\ clicks' = clicks + 1
  /\ UNCHANGED <<vars, session_asked, session_proxies, lock_program, shell_owned, screenVars>>

SwitchToScreensaver == Click /\ LockCurrentSession /\ UNCHANGED switching

HasDmSeat == \E i \in DOMAIN given["actions"] : "dm" \in given["actions"][i]

\* Mistaken my_switch_to_username: it does not lock.
SwitchToUserUnlocked(target) ==
  /\ Click
  /\ IF ~HasDmSeat THEN UNCHANGED <<callVars, in_vain>>
     ELSE /\ IF target = "user" THEN UNCHANGED <<locking, in_vain>> ELSE LockCurrentSession
          /\ switching' = Append(switching, target)

\* my_switch_to_greeter, my_switch_to_guest, my_switch_to_username: without the
\* display manager's seat nothing at all happens.
SwitchTo(target) ==
  /\ Click
  /\ IF HasDmSeat
     THEN LockCurrentSession /\ switching' = Append(switching, target)
     ELSE UNCHANGED <<callVars, in_vain>>

\* the service's my_dispose and with it that of the actions object; calls that
\* were sent are not taken back
DisposeAll ==
  /\ DisposeService
  /\ session_proxies' = {}
  /\ UNCHANGED <<session_asked, lock_program, shell_owned, callVars, screenVars, in_vain, clicks>>

-----------------------------------------------------------------------------
(* The lockers, the display manager and the user (external). *)

\* A locker gets a request.  The shell may have gone since it was chosen, the
\* other lockers may fail.
HandleLock(l) ==
  /\ locking[l] > 0
  /\ locking' = [locking EXCEPT ![l] = @ - 1]
  /\ \/ /\ l = "lomiri_session" => shell_owned
        /\ locked' = TRUE /\ in_vain' = FALSE
     \/ /\ l = "lomiri_session" => ~shell_owned
        /\ in_vain' = TRUE /\ UNCHANGED locked
  /\ UNCHANGED <<vars, session_asked, session_proxies, lock_program, shell_owned, switching, away, clicks>>

\* The display manager shows another session, or refuses.
HandleSwitch ==
  /\ switching # <<>>
  /\ switching' = Tail(switching)
  /\ away' \in {away, TRUE}
  /\ UNCHANGED <<vars, session_asked, session_proxies, lock_program, shell_owned, locking, locked, in_vain, clicks>>

ComeBack ==
  /\ away
  /\ away' = FALSE
  /\ UNCHANGED <<vars, session_asked, session_proxies, lock_program, shell_owned, callVars, locked, in_vain, clicks>>

Unlock ==
  /\ locked /\ ~away
  /\ Unhurried => switching = <<>> /\ \A l \in Lockers : locking[l] = 0
  /\ locked' = FALSE
  /\ UNCHANGED <<vars, session_asked, session_proxies, lock_program, shell_owned, callVars, away, in_vain, clicks>>

ShellComesOrGoes ==
  /\ shell_owned' = ~shell_owned
  /\ UNCHANGED <<vars, session_asked, session_proxies, lock_program, callVars, screenVars, in_vain, clicks>>

-----------------------------------------------------------------------------
(* indicator_session_actions_dbus_init asks for the session's proxies. *)
SwitchInit ==
  /\ Init
  /\ session_asked = SessionProxies /\ session_proxies = {}
  /\ lock_program \in BOOLEAN /\ shell_owned \in BOOLEAN
  /\ locking = [l \in Lockers |-> 0] /\ switching = <<>>
  /\ locked = FALSE /\ away = FALSE /\ in_vain = FALSE /\ clicks = 0

SwitchNext ==
  \/ AnyReady /\ UNCHANGED sessionVars
  \/ \E p \in SessionProxies : OnSessionProxyReady(p)
  \/ SwitchToScreensaver
  \/ \E target \in Targets : SwitchTo(target)
  \/ DisposeAll
  \/ \E l \in Lockers : HandleLock(l)
  \/ HandleSwitch \/ ComeBack \/ Unlock \/ ShellComesOrGoes

allVars == <<vars, sessionVars>>

SwitchSpec == SwitchInit /\ [][SwitchNext]_allVars /\ WF_allVars(AnyReady /\ UNCHANGED sessionVars)

-----------------------------------------------------------------------------
(* Properties. *)

\* Every variable of this module has its type.
SwitchTypeOK ==
  /\ session_asked \subseteq SessionProxies /\ session_proxies \subseteq SessionProxies
  /\ lock_program \in BOOLEAN /\ shell_owned \in BOOLEAN
  /\ locking \in [Lockers -> 0..MaxClicks] /\ switching \in Seq(Targets)
  /\ locked \in BOOLEAN /\ away \in BOOLEAN /\ in_vain \in BOOLEAN
  /\ clicks \in 0..MaxClicks

\* A session that the indicator left for another one is locked, or a lock of it is
\* still on its way, or one was asked for in vain, whichever of the two calls of
\* a switch arrives first, whatever became of earlier clicks, and though the
\* locker is chosen from what the object knew at the click.
AwayIsLocked == away => locked \/ in_vain \/ \E l \in Lockers : locking[l] > 0
=============================================================================
