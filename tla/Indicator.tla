------------------------------ MODULE Indicator ------------------------------
(***************************************************************************)
(* The user directory (SessionUsers) and the menu service (SessionService) *)
(* in one process, as backend_get and indicator_session_service_init wire  *)
(* them: every signal of the directory is handled by the service before    *)
(* the emission returns, so a step of the directory that tells something   *)
(* is one step of both.                                                    *)
(*                                                                         *)
(* SessionService assumes that the backend announces whatever it changes.  *)
(* Here the backend is the directory: what it answers is its view of       *)
(* AccountsService and logind, what it announces is what it emits, and the *)
(* question is whether the menus end up saying what is true of the two     *)
(* system services.                                                        *)
(***************************************************************************)
EXTENDS Naturals, Sequences, FiniteSets

CONSTANTS
  \* ---- as in SessionUsers, with its Uids and Infos
  AccountUids, SystemUids, AccountInfos, NoInfo, Sessions, SessionUid, SeatSessions, FirstSession, LiveUid,
  RefreshTicks, LingerTicks, MaxAccountMsgs, MaxLogin1Msgs, CurrentMoves, SpacedRemovals, MayFail,
  \* ---- as in SessionService, LabelOf and Frequency for NoInfo as well
  LabelOf, NoLabel, NoMenu, Frequency, MaxUsersChoices, bLocal, RemoteSuspendable, HasUsageMode,
  Defaults, MutableInputs

VARIABLES
  life, proxies, uid_to_account, logins, active_uid, is_live, update_list_tag,
  accts, list_asked, asked, acctmsg, listed, ghosts, current, sessions_asked, login1msg,
  mirror, faulty,
  alive, env, unseen, max_users, users, reported_users, rebuild_flags, rebuild_id,
  menus, exported, bus

U == INSTANCE SessionUsers WITH Uids <- AccountUids, Infos <- AccountInfos

\* The service's backend is the directory, phantom user included.
S == INSTANCE SessionService WITH
       Uids <- AccountUids \cup {U!PhantomUid}, Infos <- AccountInfos \cup {NoInfo},
       Mutable <- MutableInputs \cup {"is-live-session"}, backend <- U!View

\* The parts' own assumptions, and that both begin without a live session.
ASSUME DirectoryAssumption ==
  U!UidsAssumption /\ U!SessionsAssumption /\ U!TicksAssumption /\ U!BoundsAssumption
ASSUME ServiceAssumption ==
  S!UsersAssumption /\ S!InputsAssumption /\ S!MenuAssumption /\ ~Defaults["is-live-session"]
\* a proxy without properties has neither a real name nor a user name
ASSUME PhantomAssumption == LabelOf[NoInfo] = NoLabel

directoryVars ==
  <<life, proxies, uid_to_account, logins, active_uid, is_live, update_list_tag,
    accts, list_asked, asked, acctmsg, listed, ghosts, current, sessions_asked, login1msg,
    mirror, faulty>>
priv == <<users, reported_users, rebuild_flags, rebuild_id, menus, exported, bus>>
serviceVars == <<alive, env, unseen, max_users, priv>>
vars == <<directoryVars, serviceVars>>

-----------------------------------------------------------------------------
(* Steps of both. *)

\* The service handles user-added and user-changed for every user of said, with
\* the snapshots the directory gives at that moment, and notify::is-live-session
\* if the flag changes.
Hear(said, live) ==
  /\ users' = S!Added(users, DOMAIN said, said)
  /\ env' = [env EXCEPT !["is-live-session"] = live]
  /\ S!RebuildSoon(S!AddFlags(DOMAIN said, said) \cup
                   IF live # is_live THEN S!Affected("is-live-session") ELSE {})
  /\ UNCHANGED <<alive, unseen, max_users, reported_users, menus, exported, bus>>

OnUserProxyReady ==
  /\ U!OnUserProxyReady
  /\ LET msg == Head(acctmsg)
     IN Hear(IF msg.system THEN << >>
             ELSE U!Emitted({msg.uid}, uid_to_account', active_uid, logins), is_live)

\* set_active_uid speaks first, then set_logins
OnSessionListReady ==
  /\ U!OnSessionListReady
  /\ LET ids == Head(login1msg).ids
         active == U!ActiveAfter(ids)
     IN Hear(U!Override(U!SetActiveUid(active), U!SetLogins(active, U!OwnersOf(ids))),
             U!LiveIn(ids))

\* Mistaken wiring: the service does not listen to user-removed.
OnUserDeletedUnheard ==
  /\ U!OnUserDeleted
  /\ UNCHANGED serviceVars

OnUserDeleted ==
  /\ U!OnUserDeleted
  /\ LET gone == DOMAIN uid_to_account \ DOMAIN uid_to_account'
     IN IF gone = {} THEN UNCHANGED <<users, rebuild_flags, rebuild_id>>
        ELSE \E uid \in gone : S!OnUserRemoved(uid)
  /\ UNCHANGED <<alive, env, unseen, max_users, reported_users, menus, exported, bus>>

\* my_dispose of the service drops the last reference to the directory
Dispose == U!Dispose /\ S!Dispose

\* The directory listens, asks and waits without a word to the service.
Quietly(step) == step /\ UNCHANGED serviceVars
DirectoryAlone ==
  Quietly(\/ U!OnUserListReady \/ U!OnUserAdded \/ U!OnUserChanged \/ U!OnAccountsError
          \/ U!OnSessionNew \/ U!OnSessionRemoved \/ U!OnRefreshTimer \/ U!OnSessionsError)

\* The service handles its own timer, settings and bus.
ServiceInput ==
  \/ \E key \in S!Notifying \cap MutableInputs : S!BackendNotify(key)
  \/ \E key \in S!Written \cap MutableInputs : S!WriteSetting(key)
  \/ \E n \in MaxUsersChoices : n # max_users /\ S!SetMaxUsers(n)
ServiceHandler == (\E key \in S!Written : S!SettingChanged(key)) \/ S!RebuildTimeout
ServiceAlone ==
  /\ UNCHANGED directoryVars
  /\ ServiceInput \/ ServiceHandler \/ S!OnBusAcquired \/ S!OnNameLost

Handler == OnUserProxyReady \/ OnSessionListReady \/ OnUserDeleted \/ DirectoryAlone

Init == U!Init /\ S!Init

Next ==
  \/ Quietly(U!Start)
  \/ Handler
  \/ Quietly(U!Started /\ U!World)
  \/ ServiceAlone
  \/ Dispose

Spec == Init /\ [][Next]_vars

\* Everything that follows from what has happened: the main loop dispatches what
\* is due, the two services answer, dead sessions leave the list, time passes.
Progress ==
  \/ Quietly(U!Start)
  \/ Handler
  \/ Quietly(/\ U!Running
             /\ \/ U!AnswerList \/ U!AnswerSessions \/ U!Tick
                \/ \E u \in AccountUids : U!AnswerProps(u)
                \/ \E s \in Sessions : U!GhostGone(s))
  \/ UNCHANGED directoryVars /\ ServiceHandler

\* As long as something of it can happen, something does.  No single message or
\* timer is promised anything.
FairSpec == Spec /\ WF_vars(Progress)

-----------------------------------------------------------------------------
(* Properties. *)

\* The directory as it is keeps the promise the service is built on: whatever
\* it answers differently after a step it announces in that step, at most one
\* user owns the session, and a removed user is gone at once.  So all that is
\* shown of SessionService holds of the indicator.
KeepsTheServicesPromise == S!OpenSpec

\* Nothing is on its way any more, from the system services or inside.
Quiet ==
  /\ alive /\ U!AccountsQuiet /\ U!LoginsQuiet /\ ~faulty
  /\ unseen = {} /\ ~rebuild_id

People == DOMAIN accts \ SystemUids
Label(u) == LabelOf[accts[u]]
Named(some) == {<<u, Label(u)>> : u \in {v \in some : Label(v) # NoLabel}}
OwnerKnown == current \in U!OnSeat(listed)
Owner == SessionUid[current]
Shown(profile) == menus[<<profile, "switch">>]

ListsAreTrue ==
  Cardinality(DOMAIN users) <= max_users =>
    /\ Shown("desktop") # NoMenu => Shown("desktop").users = Named(People)
    /\ Shown("lockscreen") # NoMenu /\ OwnerKnown =>
         Shown("lockscreen").users = Named(People \ {Owner})
SwitcherIsTrue ==
  OwnerKnown => menus[<<"user-switcher", "switch">>] =
                  <<People \cap {Owner}, People \cap U!OwnersOf(listed)>>
HeaderIsTrue ==
  OwnerKnown /\ Owner \in People /\ Label(Owner) # NoLabel /\ S!On("show-real-name-on-panel")
    /\ ~S!On("guest-is-active-session")
      => menus[S!Header] = {Label(Owner)}
LockIsTrue ==
  \A profile \in {"desktop", "lockscreen"} :
    Shown(profile) # NoMenu =>
      ((\E i \in Shown(profile).lock : i[1] = "Start Screen Saver") <=> bLocal /\ U!LiveIn(listed))

\* Once everything on its way has arrived, the menus say what is true of the
\* accounts and sessions that exist: the list names the human accounts that
\* have a label, by their current labels and without the owner on the lock
\* screen; the switcher state has the owner and who is logged in on our seat;
\* the panel names the owner; the live image offers the screen saver only.
MenusTellTheTruth ==
  Quiet => /\ S!ListsUsers => ListsAreTrue /\ SwitcherIsTrue /\ HeaderIsTrue
           /\ ~S!ListsUsers => \A profile \in {"desktop", "lockscreen"} :
                                  Shown(profile) # NoMenu => Shown(profile).users = {}
           /\ LockIsTrue

\* If accounts, sessions and settings stop changing, the menus end up telling
\* the truth, every other section shows what its inputs say, and both stays so.
Churn == U!Churn \/ ServiceInput
MenusFollowTheWorld ==
  (<>[][~Churn]_vars /\ []alive /\ []~faulty) => <>[](Quiet /\ MenusTellTheTruth /\ S!Settled)
=============================================================================
