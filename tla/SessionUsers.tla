---------------------------- MODULE SessionUsers ----------------------------
(***************************************************************************)
(* The D-Bus user directory of ayatana-indicator-session                   *)
(* (src/src/backend-dbus/users.c): which human accounts exist, which of    *)
(* them are logged in on our seat, which one owns our session and whether  *)
(* this is the live-image session.                                         *)
(*                                                                         *)
(* Two system services feed it, each over its own first-in first-out       *)
(* connection: AccountsService (user-added, user-deleted, Changed, the     *)
(* cached-user list and the properties of each account object) and logind  *)
(* (session-new, session-removed, the seat's active-session, and the       *)
(* replies to ListSessions).  The program is one GLib main loop, so every  *)
(* callback is one atomic action.                                          *)
(***************************************************************************)
EXTENDS Naturals, Sequences, FiniteSets

CONSTANTS
  Uids,             \* uids that may have an account; never 0
  SystemUids,       \* those whose account object says SystemAccount = TRUE
  Infos,            \* what an account object says: names, icon, login frequency
  NoInfo,           \* what a proxy for a vanished object says: nothing
  Sessions,         \* logind session ids
  SessionUid,       \* [Sessions -> Uids], the owner of each session
  SeatSessions,     \* the sessions on the seat named by XDG_SEAT
  FirstSession,     \* XDG_SESSION_ID when the program starts
  LiveUid,          \* 999, the uid of the live image's "ayatana" user
  RefreshTicks,     \* the 5 seconds of update_session_list_twice, in ticks
  LingerTicks,      \* how long logind may still list a dead session, in ticks
  MaxAccountMsgs,   \* bound: messages on their way from AccountsService
  MaxLogin1Msgs,    \* bound: messages and calls on their way from and to logind
  CurrentMoves,     \* TRUE: XDG_SESSION_ID follows the active session, as in the tests
  SpacedRemovals,   \* TRUE: no session is removed while an earlier removal is still awaiting its refresh
  MayFail           \* TRUE: proxies may be missing, calls may return errors; see faulty

ASSUME UidsAssumption ==
  /\ Uids \subseteq Nat \ {0} /\ IsFiniteSet(Uids)
  /\ SystemUids \subseteq Uids
  /\ NoInfo \notin Infos
ASSUME SessionsAssumption ==
  /\ SessionUid \in [Sessions -> Uids]
  /\ SeatSessions \subseteq Sessions
  /\ FirstSession \in Sessions
ASSUME TicksAssumption ==
  /\ RefreshTicks \in Nat /\ LingerTicks \in Nat
  /\ LingerTicks < RefreshTicks
ASSUME BoundsAssumption ==
  /\ MaxAccountMsgs \in Nat /\ MaxLogin1Msgs \in Nat
  /\ CurrentMoves \in BOOLEAN /\ SpacedRemovals \in BOOLEAN /\ MayFail \in BOOLEAN

VARIABLES
  \* ---- the object (IndicatorSessionUsersDbusPrivate)
  life,             \* "init" before set_proxies, then "running", "disposed" at last
  proxies,          \* which of the proxies set_proxies was given are not NULL
  uid_to_account,   \* the tracked accounts: uid -> object path and properties
  logins,           \* uids logged in on our seat
  active_uid,       \* uid of the owner of our session, 0 until known
  is_live,
  update_list_tag,  \* 0: no timer; n: the refresh timer is due when n = 1
  \* ---- AccountsService and its connection
  accts,            \* the accounts that exist: uid -> properties
  list_asked,       \* ListCachedUsers called, not answered yet
  asked,            \* per account, the proxies being created for its object
  acctmsg,          \* messages on their way to us
  \* ---- logind and its connection
  listed,           \* the sessions ListSessions returns
  ghosts,           \* those of them already removed: session -> age in ticks
  current,          \* XDG_SESSION_ID
  sessions_asked,   \* ListSessions calls not answered yet
  login1msg,        \* messages on their way to us
  \* ---- a listener of the object's signals
  mirror,           \* what a listener that reads get_user on each signal has seen
  \* ---- what happened
  faulty            \* a proxy was missing or a call failed

objectVars == <<life, proxies, uid_to_account, logins, active_uid, is_live, update_list_tag>>
accountVars == <<accts, list_asked, asked, acctmsg>>
login1Vars == <<listed, ghosts, current, sessions_asked, login1msg>>
vars == <<objectVars, accountVars, login1Vars, mirror, faulty>>

-----------------------------------------------------------------------------
(* Records and messages. *)

PhantomUid == 0      \* the uid a proxy without properties reports

Records == [path: Uids, info: Infos \cup {NoInfo}]
Users == [info: Infos \cup {NoInfo}, is_logged_in: BOOLEAN, is_current_user: BOOLEAN]
TrackableUids == Uids \cup {PhantomUid}

AccountMsgs ==
       [type: {"user-added", "user-deleted", "Changed"}, path: Uids]
  \cup [type: {"list"}, paths: SUBSET Uids]
  \cup [type: {"props"}, path: Uids, uid: TrackableUids, info: Infos \cup {NoInfo}, system: BOOLEAN]
  \cup [type: {"error"}]
Login1Msgs ==
       [type: {"session-new", "session-removed", "active-session", "error"}]
  \cup [type: {"sessions"}, ids: SUBSET Sessions]

IsPartial(f, D, R) == DOMAIN f \subseteq D /\ f \in [DOMAIN f -> R]
Extend(f, x, v) == [y \in DOMAIN f \cup {x} |-> IF y = x THEN v ELSE f[y]]
Without(f, x) == [y \in DOMAIN f \ {x} |-> f[y]]
Override(f, g) == [y \in DOMAIN f \cup DOMAIN g |-> IF y \in DOMAIN g THEN g[y] ELSE f[y]]
SymDiff(S, T) == (S \ T) \cup (T \ S)

-----------------------------------------------------------------------------
(* What the object tells its listeners. *)

\* my_get_user: the snapshot of one tracked user.
UserOf(tracked, active, in, uid) ==
  [info |-> tracked[uid].info,
   is_logged_in |-> uid \in in,
   is_current_user |-> uid = active]

\* emit_user_added / emit_user_changed for the uids of S: untracked ones are
\* skipped, and a listener reads get_user for each of the others at once.
Emitted(S, tracked, active, in) ==
  [uid \in S \cap DOMAIN tracked |-> UserOf(tracked, active, in, uid)]

View == Emitted(DOMAIN uid_to_account, uid_to_account, active_uid, logins)

-----------------------------------------------------------------------------
(* AccountsService (external): its accounts and what it sends. *)

AccountRoom == Len(acctmsg) < MaxAccountMsgs /\ \A u \in Uids : asked[u] < MaxAccountMsgs
Deliver(msg) == acctmsg' = Append(acctmsg, msg)
\* a signal reaches us only through a proxy that listens for it
Announce(msg) == IF "accounts" \in proxies THEN Deliver(msg) ELSE UNCHANGED acctmsg

AccountAdded(u, info) ==
  /\ u \notin DOMAIN accts
  /\ AccountRoom
  /\ accts' = Extend(accts, u, info)
  /\ Announce([type |-> "user-added", path |-> u])
  /\ UNCHANGED <<objectVars, list_asked, asked, login1Vars, mirror, faulty>>

AccountDeleted(u) ==
  /\ u \in DOMAIN accts
  /\ AccountRoom
  /\ accts' = Without(accts, u)
  /\ Announce([type |-> "user-deleted", path |-> u])
  /\ UNCHANGED <<objectVars, list_asked, asked, login1Vars, mirror, faulty>>

AccountChanged(u, info) ==
  /\ u \in DOMAIN accts /\ accts[u] # info
  /\ AccountRoom
  /\ accts' = Extend(accts, u, info)
  /\ Announce([type |-> "Changed", path |-> u])
  /\ UNCHANGED <<objectVars, list_asked, asked, login1Vars, mirror, faulty>>

AnswerList ==
  /\ list_asked
  /\ list_asked' = FALSE
  /\ \/ /\ Deliver([type |-> "list", paths |-> DOMAIN accts])
        /\ UNCHANGED faulty
     \/ MayFail /\ Deliver([type |-> "error"]) /\ faulty' = TRUE
  /\ UNCHANGED <<objectVars, accts, asked, login1Vars, mirror>>

\* The GetAll behind accounts_user_proxy_new_for_bus.  GDBusProxy ignores its
\* failure, so an object that has just been deleted gives a proxy without
\* properties: uid 0, not a system account, no names.
AnswerProps(u) ==
  /\ asked[u] > 0
  /\ asked' = [asked EXCEPT ![u] = @ - 1]
  /\ \/ /\ Deliver(IF u \in DOMAIN accts
                THEN [type |-> "props", path |-> u, uid |-> u, info |-> accts[u],
                      system |-> u \in SystemUids]
                ELSE [type |-> "props", path |-> u, uid |-> PhantomUid, info |-> NoInfo,
                      system |-> FALSE])
        /\ UNCHANGED faulty
     \/ MayFail /\ Deliver([type |-> "error"]) /\ faulty' = TRUE
  /\ UNCHANGED <<objectVars, accts, list_asked, login1Vars, mirror>>

AccountsService ==
  \/ \E u \in Uids : \/ AccountDeleted(u)
                     \/ \E info \in Infos : AccountAdded(u, info) \/ AccountChanged(u, info)
  \/ AnswerList
  \/ \E u \in Uids : AnswerProps(u)

-----------------------------------------------------------------------------
(* logind (external): its sessions and what it sends. *)

Login1Room == Len(login1msg) + sessions_asked < MaxLogin1Msgs
Signal(proxy, type) ==
  IF proxy \in proxies THEN login1msg' = Append(login1msg, [type |-> type])
                       ELSE UNCHANGED login1msg

SessionNew(s) ==
  /\ s \notin listed
  /\ Login1Room
  /\ listed' = listed \cup {s}
  /\ Signal("login1", "session-new")
  /\ UNCHANGED <<objectVars, accountVars, ghosts, current, sessions_asked, mirror, faulty>>

RemovalPending ==
  \/ update_list_tag > 0
  \/ \E i \in DOMAIN login1msg : login1msg[i].type = "session-removed"

\* logind announces the end of a session it may still list for a while.
SessionRemoved(s) ==
  /\ s \in listed \ DOMAIN ghosts
  /\ SpacedRemovals => ~RemovalPending
  /\ Login1Room
  /\ \/ listed' = listed \ {s} /\ UNCHANGED ghosts
     \/ ghosts' = Extend(ghosts, s, 0) /\ UNCHANGED listed
  /\ Signal("login1", "session-removed")
  /\ UNCHANGED <<objectVars, accountVars, current, sessions_asked, mirror, faulty>>

\* the dead session leaves the list; nothing is announced.
GhostGone(s) ==
  /\ s \in DOMAIN ghosts
  /\ listed' = listed \ {s}
  /\ ghosts' = Without(ghosts, s)
  /\ UNCHANGED <<objectVars, accountVars, current, sessions_asked, login1msg, mirror, faulty>>

ActiveSession(s) ==
  /\ s \in listed
  /\ Login1Room
  /\ current' = IF CurrentMoves THEN s ELSE current
  /\ Signal("seat", "active-session")
  /\ UNCHANGED <<objectVars, accountVars, listed, ghosts, sessions_asked, mirror, faulty>>

AnswerSessions ==
  /\ sessions_asked > 0
  /\ sessions_asked' = sessions_asked - 1
  /\ \/ /\ login1msg' = Append(login1msg, [type |-> "sessions", ids |-> listed])
        /\ UNCHANGED faulty
     \/ MayFail /\ Signal("login1", "error") /\ faulty' = TRUE
  /\ UNCHANGED <<objectVars, accountVars, listed, ghosts, current, mirror>>

\* A tick of the clock.  A ghost never outlives LingerTicks, and a timer that
\* is due fires before time moves on.
Tick ==
  /\ update_list_tag # 1
  /\ update_list_tag > 0 \/ ghosts # << >>
  /\ \A s \in DOMAIN ghosts : ghosts[s] < LingerTicks
  /\ ghosts' = [s \in DOMAIN ghosts |-> ghosts[s] + 1]
  /\ update_list_tag' = IF update_list_tag > 0 THEN update_list_tag - 1 ELSE 0
  /\ UNCHANGED <<life, proxies, uid_to_account, logins, active_uid, is_live,
                 accountVars, listed, current, sessions_asked, login1msg, mirror, faulty>>

Login1 ==
  \/ \E s \in Sessions : SessionNew(s) \/ SessionRemoved(s) \/ GhostGone(s) \/ ActiveSession(s)
  \/ AnswerSessions
  \/ Tick

-----------------------------------------------------------------------------
(* The object: account tracking. *)

Running == life = "running"
NextAccountMsg(type) == Running /\ acctmsg # << >> /\ Head(acctmsg).type = type

\* Mistaken track_user: a proxy that replaces another is not announced.
TrackQuietly(msg) ==
  /\ uid_to_account' = Extend(uid_to_account, msg.uid, [path |-> msg.path, info |-> msg.info])
  /\ mirror' = IF msg.uid \in DOMAIN uid_to_account THEN mirror
               ELSE Override(mirror, Emitted({msg.uid}, uid_to_account', active_uid, logins))

\* track_user: remember the proxy under the uid it reports and tell listeners.
Track(msg) ==
  /\ uid_to_account' = Extend(uid_to_account, msg.uid, [path |-> msg.path, info |-> msg.info])
  /\ mirror' = Override(mirror, Emitted({msg.uid}, uid_to_account', active_uid, logins))

\* on_user_proxy_ready
OnUserProxyReady ==
  /\ NextAccountMsg("props")
  /\ IF Head(acctmsg).system THEN UNCHANGED <<uid_to_account, mirror>> ELSE Track(Head(acctmsg))
  /\ acctmsg' = Tail(acctmsg)
  /\ UNCHANGED <<life, proxies, logins, active_uid, is_live, update_list_tag,
                 accts, list_asked, asked, login1Vars, faulty>>

\* on_user_list_ready: a proxy for each path of the list
OnUserListReady ==
  /\ NextAccountMsg("list")
  /\ asked' = [u \in Uids |-> asked[u] + IF u \in Head(acctmsg).paths THEN 1 ELSE 0]
  /\ acctmsg' = Tail(acctmsg)
  /\ UNCHANGED <<objectVars, accts, list_asked, login1Vars, mirror, faulty>>

\* the "user-added" signal: create_user_proxy_for_path
OnUserAdded ==
  /\ NextAccountMsg("user-added")
  /\ asked' = [asked EXCEPT ![Head(acctmsg).path] = @ + 1]
  /\ acctmsg' = Tail(acctmsg)
  /\ UNCHANGED <<objectVars, accts, list_asked, login1Vars, mirror, faulty>>

RecordsAt(path) == {u \in DOMAIN uid_to_account : uid_to_account[u].path = path}

\* Mistaken on_user_changed: the old proxy is trusted to hold the new values.
OnUserChangedKeepsProxy ==
  /\ NextAccountMsg("Changed")
  /\ acctmsg' = Tail(acctmsg)
  /\ UNCHANGED <<objectVars, accts, list_asked, asked, login1Vars, mirror, faulty>>

\* on_user_changed: each tracked proxy of the object is re-created
OnUserChanged ==
  /\ NextAccountMsg("Changed")
  /\ LET path == Head(acctmsg).path
     IN asked' = [asked EXCEPT ![path] = @ + Cardinality(RecordsAt(path))]
  /\ acctmsg' = Tail(acctmsg)
  /\ UNCHANGED <<objectVars, accts, list_asked, login1Vars, mirror, faulty>>

\* untrack_user: the uid is looked up by path, and 0 means "not found"
OnUserDeleted ==
  /\ NextAccountMsg("user-deleted")
  /\ LET found == RecordsAt(Head(acctmsg).path) \ {0}
     IN IF found = {}
        THEN UNCHANGED <<uid_to_account, mirror>>
        ELSE \E uid \in found : /\ uid_to_account' = Without(uid_to_account, uid)
                                /\ mirror' = Without(mirror, uid)
  /\ acctmsg' = Tail(acctmsg)
  /\ UNCHANGED <<life, proxies, logins, active_uid, is_live, update_list_tag,
                 accts, list_asked, asked, login1Vars, faulty>>

\* a failed call is logged and forgotten
OnAccountsError ==
  /\ NextAccountMsg("error")
  /\ acctmsg' = Tail(acctmsg)
  /\ UNCHANGED <<objectVars, accts, list_asked, asked, login1Vars, mirror, faulty>>

-----------------------------------------------------------------------------
(* The object: session tracking. *)

NextLogin1Msg(types) == Running /\ login1msg # << >> /\ Head(login1msg).type \in types
\* update_session_list: no call without the manager proxy
CallListSessions == sessions_asked' = sessions_asked + IF "login1" \in proxies THEN 1 ELSE 0
Timer == RefreshTicks + 1

\* session-new and user-new; the seat's notify::active-session
OnSessionNew ==
  /\ NextLogin1Msg({"session-new", "active-session"})
  /\ CallListSessions
  /\ login1msg' = Tail(login1msg)
  /\ UNCHANGED <<objectVars, accountVars, listed, ghosts, current, mirror, faulty>>

\* Mistaken update_session_list_twice: the timer is a tick too long.
OnSessionRemovedLate ==
  /\ NextLogin1Msg({"session-removed"})
  /\ CallListSessions
  /\ update_list_tag' = IF update_list_tag = 0 THEN Timer + 1 ELSE update_list_tag
  /\ login1msg' = Tail(login1msg)
  /\ UNCHANGED <<life, proxies, uid_to_account, logins, active_uid, is_live,
                 accountVars, listed, ghosts, current, mirror, faulty>>

\* session-removed and user-removed: update_session_list_twice
OnSessionRemoved ==
  /\ NextLogin1Msg({"session-removed"})
  /\ CallListSessions
  /\ update_list_tag' = IF update_list_tag = 0 THEN Timer ELSE update_list_tag
  /\ login1msg' = Tail(login1msg)
  /\ UNCHANGED <<life, proxies, uid_to_account, logins, active_uid, is_live,
                 accountVars, listed, ghosts, current, mirror, faulty>>

\* Mistaken timers: one that does not ask again, one that never ends.
OnRefreshTimerAsksNothing ==
  /\ update_list_tag = 1
  /\ update_list_tag' = 0
  /\ UNCHANGED <<life, proxies, uid_to_account, logins, active_uid, is_live,
                 accountVars, login1Vars, mirror, faulty>>
OnRefreshTimerContinues ==
  /\ update_list_tag = 1
  /\ CallListSessions
  /\ update_list_tag' = Timer
  /\ UNCHANGED <<life, proxies, uid_to_account, logins, active_uid, is_live,
                 accountVars, listed, ghosts, current, login1msg, mirror, faulty>>

\* on_update_session_list_timer: whatever has become of the object meanwhile
OnRefreshTimer ==
  /\ update_list_tag = 1
  /\ CallListSessions
  /\ update_list_tag' = 0
  /\ UNCHANGED <<life, proxies, uid_to_account, logins, active_uid, is_live,
                 accountVars, listed, ghosts, current, login1msg, mirror, faulty>>

\* Mistaken set_active_uid: only the new owner is announced.
SetActiveUidForgetsOld(uid) ==
  IF uid = active_uid THEN << >> ELSE Emitted({uid}, uid_to_account, uid, logins)

\* Mistaken set_logins: those who logged out are not announced.
SetLoginsForgetsLogouts(active, in) == Emitted(in \ logins, uid_to_account, active, in)

\* set_active_uid emits "changed" for the old and the new owner while logins
\* still holds the previous set; set_logins emits for those who came or went.
SetActiveUid(uid) ==
  IF uid = active_uid THEN << >> ELSE Emitted({active_uid, uid}, uid_to_account, uid, logins)
SetLogins(active, in) == Emitted(SymDiff(logins, in), uid_to_account, active, in)

OnSeat(ids) == ids \cap SeatSessions
OwnersOf(ids) == {SessionUid[s] : s \in OnSeat(ids)}
ActiveAfter(ids) == IF current \in OnSeat(ids) THEN SessionUid[current] ELSE active_uid
LiveIn(ids) == current \in OnSeat(ids) /\ SessionUid[current] = LiveUid

\* on_login1_manager_session_list_ready
OnSessionListReady ==
  /\ NextLogin1Msg({"sessions"})
  /\ LET ids == Head(login1msg).ids
     IN /\ active_uid' = ActiveAfter(ids)
        /\ is_live' = LiveIn(ids)
        /\ logins' = OwnersOf(ids)
        /\ mirror' = Override(Override(mirror, SetActiveUid(ActiveAfter(ids))),
                              SetLogins(ActiveAfter(ids), OwnersOf(ids)))
  /\ login1msg' = Tail(login1msg)
  /\ UNCHANGED <<life, proxies, uid_to_account, update_list_tag,
                 accountVars, listed, ghosts, current, sessions_asked, faulty>>

OnSessionsError ==
  /\ NextLogin1Msg({"error"})
  /\ login1msg' = Tail(login1msg)
  /\ UNCHANGED <<objectVars, accountVars, listed, ghosts, current, sessions_asked, mirror, faulty>>

-----------------------------------------------------------------------------
(* The object: life cycle. *)

AllProxies == {"login1", "seat", "accounts"}

\* indicator_session_users_dbus_set_proxies, called once: any proxy may be NULL
SetProxies(got) ==
  /\ life = "init"
  /\ life' = "running"
  /\ proxies' = got
  /\ sessions_asked' = IF "login1" \in got THEN Cardinality(got \ {"accounts"}) ELSE 0
  /\ list_asked' = ("accounts" \in got)
  /\ faulty' = (got # AllProxies)
  /\ UNCHANGED <<uid_to_account, logins, active_uid, is_live, update_list_tag,
                 accts, asked, acctmsg, listed, ghosts, current, login1msg, mirror>>

\* Mistaken my_dispose: the refresh timer is left behind.
DisposeKeepsTimer ==
  /\ life # "disposed"
  /\ life' = "disposed"
  /\ proxies' = {}
  /\ uid_to_account' = << >>
  /\ list_asked' = FALSE /\ asked' = [u \in Uids |-> 0] /\ acctmsg' = << >>
  /\ sessions_asked' = 0 /\ login1msg' = << >>
  /\ UNCHANGED <<logins, active_uid, is_live, update_list_tag, accts, listed, ghosts, current,
                 mirror, faulty>>

\* my_dispose: the timer is removed, the calls are cancelled, the signals are
\* disconnected and the accounts are dropped without a signal.
Dispose ==
  /\ life # "disposed"
  /\ life' = "disposed"
  /\ update_list_tag' = 0
  /\ proxies' = {}
  /\ uid_to_account' = << >>
  /\ list_asked' = FALSE /\ asked' = [u \in Uids |-> 0] /\ acctmsg' = << >>
  /\ sessions_asked' = 0 /\ login1msg' = << >>
  /\ UNCHANGED <<logins, active_uid, is_live, accts, listed, ghosts, current, mirror, faulty>>

Object ==
  \/ OnUserProxyReady \/ OnUserListReady \/ OnUserAdded \/ OnUserChanged \/ OnUserDeleted
  \/ OnAccountsError
  \/ OnSessionNew \/ OnSessionRemoved \/ OnRefreshTimer \/ OnSessionListReady \/ OnSessionsError

Start == \E got \in SUBSET AllProxies : (MayFail \/ got = AllProxies) /\ SetProxies(got)

\* The two services go on when the object is disposed of; before set_proxies
\* nothing of them reaches it.
World == AccountsService \/ Login1
Started == life # "init"

Init ==
  /\ life = "init" /\ proxies = {}
  /\ uid_to_account = << >> /\ logins = {} /\ active_uid = 0 /\ is_live = FALSE
  /\ update_list_tag = 0
  /\ \E S \in SUBSET Uids : accts \in [S -> Infos]
  /\ list_asked = FALSE /\ asked = [u \in Uids |-> 0] /\ acctmsg = << >>
  /\ listed \in SUBSET Sessions /\ ghosts = << >> /\ current = FirstSession
  /\ sessions_asked = 0 /\ login1msg = << >>
  /\ mirror = << >> /\ faulty = FALSE

Next == Start \/ Object \/ Dispose \/ (Started /\ World)

Spec == Init /\ [][Next]_vars

-----------------------------------------------------------------------------
(* Fairness: the main loop dispatches what is queued, the two services answer *)
(* the calls they got, dead sessions leave the list and time passes.  Nothing *)
(* forces accounts or sessions to come and go.                                *)
FairSpec ==
  /\ Spec
  /\ WF_vars(Start)
  /\ WF_vars(Object)
  /\ WF_vars(Running /\ (AnswerList \/ AnswerSessions \/ \E u \in Uids : AnswerProps(u)))
  /\ WF_vars(Running /\ (Tick \/ \E s \in Sessions : GhostGone(s)))

-----------------------------------------------------------------------------
(* Properties. *)

ObjectTypes ==
  /\ life \in {"init", "running", "disposed"}
  /\ proxies \subseteq AllProxies
  /\ IsPartial(uid_to_account, TrackableUids, Records)
  /\ logins \subseteq Uids
  /\ active_uid \in TrackableUids
  /\ is_live \in BOOLEAN
  /\ update_list_tag \in 0..Timer
  /\ IsPartial(mirror, TrackableUids, Users)
AccountTypes ==
  /\ IsPartial(accts, Uids, Infos)
  /\ list_asked \in BOOLEAN
  /\ asked \in [Uids -> Nat]
  /\ acctmsg \in Seq(AccountMsgs)
Login1Types ==
  /\ listed \subseteq Sessions
  /\ IsPartial(ghosts, Sessions, Nat)
  /\ current \in Sessions
  /\ sessions_asked \in Nat
  /\ login1msg \in Seq(Login1Msgs)

\* Every variable has its type.
TypeOK == ObjectTypes /\ AccountTypes /\ Login1Types /\ faulty \in BOOLEAN

\* A listener that reads get_user on every signal is never out of date: each
\* change of a user's properties, of the session owner or of the logins is
\* announced for every user it touches (set_active_uid announces the old and
\* the new owner, set_logins those who came and those who went, track_user and
\* untrack_user the user itself), though set_active_uid speaks before logins
\* is up to date.
MirrorFresh == life # "disposed" => mirror = View

\* From my_dispose on nothing happens to the object any more, though accounts and
\* sessions still come and go: no timer fires, no call it made is answered and no
\* signal is delivered to it, whatever was pending.
SilentOnceDisposed ==
  [][life = "disposed" =>
       UNCHANGED <<objectVars, list_asked, asked, acctmsg, sessions_asked, login1msg, mirror>>]_vars

\* Nothing is queued or unanswered between AccountsService and us.
AccountsQuiet == Running /\ acctmsg = << >> /\ ~list_asked /\ \A u \in Uids : asked[u] = 0
Known == {u \in DOMAIN uid_to_account : u # PhantomUid}

\* Once the traffic with AccountsService is over, without errors, the tracked users are the
\* human accounts that exist, each with its current properties, whatever the
\* order in which they were added, changed and deleted while proxies for them
\* were being created.
AccountsSettle ==
  AccountsQuiet /\ ~faulty =>
    /\ Known = DOMAIN accts \ SystemUids
    /\ \A u \in Known : uid_to_account[u] = [path |-> u, info |-> accts[u]]

LoginsQuiet ==
  /\ Running /\ login1msg = << >> /\ sessions_asked = 0
  /\ update_list_tag = 0 /\ ghosts = << >>
LoginsAccurate ==
  /\ logins = OwnersOf(listed)
  /\ active_uid = ActiveAfter(listed)
  /\ is_live = LiveIn(listed)

\* Once the traffic with logind is over and the refresh timer has run, logins,
\* active_uid and is_live are those of the sessions that exist: no dead session
\* a reply still listed is remembered.  (users.c:442: "A dead session can still
\* show up in list-sessions for a few seconds.  So just to be safe, queue up a
\* rebuild for a few seconds from now".)
LoginsSettle == LoginsQuiet /\ ~faulty => LoginsAccurate

\* If from some point on no account and no session comes, goes or changes, the
\* directory ends up right and stays so: no refresh is lost and none loops.
Churn ==
  \/ \E u \in Uids : \/ AccountDeleted(u)
                     \/ \E info \in Infos : AccountAdded(u, info) \/ AccountChanged(u, info)
  \/ \E s \in Sessions : SessionNew(s) \/ SessionRemoved(s) \/ ActiveSession(s)
Converges ==
  (<>[][~Churn]_vars /\ [](life # "disposed" /\ ~faulty))
     => <>[](AccountsQuiet /\ AccountsSettle /\ LoginsQuiet /\ LoginsAccurate)
=============================================================================
