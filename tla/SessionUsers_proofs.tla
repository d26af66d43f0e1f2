------------------------- MODULE SessionUsers_proofs -------------------------
(***************************************************************************)
(* Proofs about SessionUsers, for every set of uids and sessions: TypeOK   *)
(* and, on top of it, MirrorFresh (a listener that reads get_user on each  *)
(* signal always has the directory's current picture), LoginsSettle and    *)
(* AccountsSettle (the directory is right once all messages are handled).  *)
(***************************************************************************)
EXTENDS SessionUsers, FiniteSetTheorems, SequenceTheorems, TLAPS

-----------------------------------------------------------------------------
(* Partial functions. *)

LEMMA ExtendType ==
  ASSUME NEW D, NEW R, NEW f, IsPartial(f, D, R), NEW x \in D, NEW v \in R
  PROVE  IsPartial(Extend(f, x, v), D, R)
BY DEF IsPartial, Extend

LEMMA WithoutType ==
  ASSUME NEW D, NEW R, NEW f, IsPartial(f, D, R), NEW x
  PROVE  IsPartial(Without(f, x), D, R)
BY DEF IsPartial, Without

LEMMA OverrideType ==
  ASSUME NEW D, NEW R, NEW f, IsPartial(f, D, R), NEW g, IsPartial(g, D, R)
  PROVE  IsPartial(Override(f, g), D, R)
BY DEF IsPartial, Override

LEMMA EmptyType ==
  ASSUME NEW D, NEW R
  PROVE  IsPartial(<< >>, D, R)
BY DEF IsPartial

\* A snapshot the object emits is a partial function from uids to users.
LEMMA EmittedType ==
  ASSUME NEW tracked, IsPartial(tracked, TrackableUids, Records),
         NEW active, NEW in, NEW S
  PROVE  IsPartial(Emitted(S, tracked, active, in), TrackableUids, Users)
BY DEF IsPartial, Emitted, UserOf, Users, Records

-----------------------------------------------------------------------------
(* Messages: the fields of a message of each type. *)

LEMMA AccountMsgFields ==
  ASSUME NEW m \in AccountMsgs
  PROVE  /\ m.type \in {"user-added", "user-deleted", "Changed"} => m.path \in Uids
         /\ m.type = "list" => m.paths \subseteq Uids
         /\ m.type = "props" => /\ m.uid \in TrackableUids
                                /\ [path |-> m.path, info |-> m.info] \in Records
BY DEF AccountMsgs, Records

LEMMA Login1MsgFields ==
  ASSUME NEW m \in Login1Msgs, m.type = "sessions"
  PROVE  m.ids \subseteq Sessions
BY DEF Login1Msgs

LEMMA QueueOps ==
  ASSUME NEW M, NEW q \in Seq(M)
  PROVE  /\ \A m \in M : Append(q, m) \in Seq(M)
         /\ q # << >> => Head(q) \in M /\ Tail(q) \in Seq(M)
OBVIOUS

-----------------------------------------------------------------------------
(* Types are preserved: AccountsService. *)

LEMMA AccountsServiceType ==
  ASSUME TypeOK, AccountsService
  PROVE  TypeOK'
<1> USE DEF TypeOK, AccountTypes
<1>1. ASSUME NEW u \in Uids, AccountDeleted(u)  PROVE TypeOK'
  <2>1. [type |-> "user-deleted", path |-> u] \in AccountMsgs  BY DEF AccountMsgs
  <2>2. AccountTypes'
    BY <1>1, <2>1, QueueOps, WithoutType DEF AccountDeleted, Announce, Deliver
  <2> QED BY <1>1, <2>2
      DEF AccountDeleted, ObjectTypes, Login1Types, objectVars, login1Vars
<1>2. ASSUME NEW u \in Uids, NEW info \in Infos, AccountAdded(u, info)  PROVE TypeOK'
  <2>1. [type |-> "user-added", path |-> u] \in AccountMsgs  BY DEF AccountMsgs
  <2>2. AccountTypes'
    BY <1>2, <2>1, QueueOps, ExtendType, SMTT(30) DEF AccountAdded, Announce, Deliver
  <2> QED BY <1>2, <2>2
      DEF AccountAdded, ObjectTypes, Login1Types, objectVars, login1Vars
<1>3. ASSUME NEW u \in Uids, NEW info \in Infos, AccountChanged(u, info)  PROVE TypeOK'
  <2>1. [type |-> "Changed", path |-> u] \in AccountMsgs  BY DEF AccountMsgs
  <2>2. AccountTypes'
    BY <1>3, <2>1, QueueOps, ExtendType DEF AccountChanged, Announce, Deliver
  <2> QED BY <1>3, <2>2
      DEF AccountChanged, ObjectTypes, Login1Types, objectVars, login1Vars
<1>4. CASE AnswerList
  <2>1. [type |-> "list", paths |-> DOMAIN accts] \in AccountMsgs  BY DEF AccountMsgs, IsPartial
  <2>2. [type |-> "error"] \in AccountMsgs  BY DEF AccountMsgs
  <2>3. AccountTypes'  BY <1>4, <2>1, <2>2, QueueOps DEF AnswerList, Deliver
  <2> QED BY <1>4, <2>3 DEF AnswerList, ObjectTypes, Login1Types, objectVars, login1Vars
<1>5. ASSUME NEW u \in Uids, AnswerProps(u)  PROVE TypeOK'
  <2>1. u \in DOMAIN accts =>
          [type |-> "props", path |-> u, uid |-> u, info |-> accts[u], system |-> u \in SystemUids]
             \in AccountMsgs
    BY DEF AccountMsgs, IsPartial, TrackableUids
  <2>2. [type |-> "props", path |-> u, uid |-> PhantomUid, info |-> NoInfo, system |-> FALSE]
             \in AccountMsgs
    BY DEF AccountMsgs, TrackableUids
  <2>3. [type |-> "error"] \in AccountMsgs  BY DEF AccountMsgs
  <2>4. acctmsg' \in Seq(AccountMsgs)
    BY <1>5, <2>1, <2>2, <2>3, QueueOps DEF AnswerProps, Deliver
  <2>5. asked' \in [Uids -> Nat]  BY <1>5 DEF AnswerProps
  <2> QED BY <1>5, <2>4, <2>5
      DEF AnswerProps, ObjectTypes, Login1Types, objectVars, login1Vars
<1> QED BY <1>1, <1>2, <1>3, <1>4, <1>5 DEF AccountsService

-----------------------------------------------------------------------------
(* Types are preserved: logind. *)

LEMMA Signalled ==
  ASSUME login1msg \in Seq(Login1Msgs), NEW proxy,
         NEW type \in {"session-new", "session-removed", "active-session", "error"},
         Signal(proxy, type)
  PROVE  login1msg' \in Seq(Login1Msgs)
<1>1. [type |-> type] \in Login1Msgs  BY DEF Login1Msgs
<1> QED BY <1>1, QueueOps DEF Signal

LEMMA Login1Type ==
  ASSUME TypeOK, Login1
  PROVE  TypeOK'
<1> USE DEF TypeOK, Login1Types
<1>1. ASSUME NEW s \in Sessions, SessionNew(s)  PROVE TypeOK'
  <2>1. Login1Types'  BY <1>1, Signalled DEF SessionNew
  <2> QED BY <1>1, <2>1 DEF SessionNew, ObjectTypes, AccountTypes, objectVars, accountVars
<1>2. ASSUME NEW s \in Sessions, SessionRemoved(s)  PROVE TypeOK'
  <2>1. IsPartial(ghosts', Sessions, Nat)  BY <1>2, ExtendType DEF SessionRemoved
  <2>2. Login1Types'  BY <1>2, <2>1, Signalled DEF SessionRemoved
  <2> QED BY <1>2, <2>2 DEF SessionRemoved, ObjectTypes, AccountTypes, objectVars, accountVars
<1>3. ASSUME NEW s \in Sessions, GhostGone(s)  PROVE TypeOK'
  <2>1. IsPartial(ghosts', Sessions, Nat)  BY <1>3, WithoutType DEF GhostGone
  <2> QED BY <1>3, <2>1 DEF GhostGone, ObjectTypes, AccountTypes, objectVars, accountVars
<1>4. ASSUME NEW s \in Sessions, ActiveSession(s)  PROVE TypeOK'
  <2>1. Login1Types'  BY <1>4, Signalled DEF ActiveSession
  <2> QED BY <1>4, <2>1 DEF ActiveSession, ObjectTypes, AccountTypes, objectVars, accountVars
<1>5. CASE AnswerSessions
  <2>1. [type |-> "sessions", ids |-> listed] \in Login1Msgs  BY DEF Login1Msgs
  <2>2. login1msg' \in Seq(Login1Msgs)  BY <1>5, <2>1, QueueOps, Signalled DEF AnswerSessions
  <2>3. faulty' \in BOOLEAN  BY <1>5 DEF AnswerSessions
  <2>4. Login1Types'  BY <1>5, <2>2 DEF AnswerSessions
  <2> QED BY <1>5, <2>3, <2>4
      DEF AnswerSessions, ObjectTypes, AccountTypes, objectVars, accountVars
<1>6. CASE Tick
  <2>1. IsPartial(ghosts', Sessions, Nat)  BY <1>6 DEF Tick, IsPartial
  <2>2. update_list_tag' \in 0..Timer
    BY <1>6, TicksAssumption DEF Tick, ObjectTypes, Timer
  <2> QED BY <1>6, <2>1, <2>2 DEF Tick, ObjectTypes, AccountTypes, accountVars
<1> QED BY <1>1, <1>2, <1>3, <1>4, <1>5, <1>6 DEF Login1

-----------------------------------------------------------------------------
(* Types are preserved: the object's own steps. *)

LEMMA RecordsAtFinite ==
  ASSUME TypeOK, NEW path
  PROVE  IsFiniteSet(RecordsAt(path)) /\ Cardinality(RecordsAt(path)) \in Nat
<1>1. IsFiniteSet(TrackableUids)
  BY UidsAssumption, FS_Singleton, FS_Union DEF TrackableUids
<1>2. RecordsAt(path) \subseteq TrackableUids
  BY DEF RecordsAt, TypeOK, ObjectTypes, IsPartial
<1> QED BY <1>1, <1>2, FS_Subset, FS_CardinalityType

LEMMA AccountStepType ==
  ASSUME TypeOK,
         \/ OnUserProxyReady \/ OnUserListReady \/ OnUserAdded
         \/ OnUserChanged \/ OnUserDeleted \/ OnAccountsError
  PROVE  TypeOK'
<1> DEFINE msg == Head(acctmsg)
<1>1. msg \in AccountMsgs /\ acctmsg' = Tail(acctmsg) /\ acctmsg' \in Seq(AccountMsgs)
  BY QueueOps DEF TypeOK, AccountTypes, NextAccountMsg, OnUserProxyReady, OnUserListReady,
     OnUserAdded, OnUserChanged, OnUserDeleted, OnAccountsError
<1>2. CASE OnUserProxyReady
  <2>1. msg.uid \in TrackableUids /\ [path |-> msg.path, info |-> msg.info] \in Records
    BY <1>1, <1>2, AccountMsgFields DEF OnUserProxyReady, NextAccountMsg
  <2>2. IsPartial(uid_to_account', TrackableUids, Records)
    BY <1>2, <2>1, ExtendType DEF OnUserProxyReady, Track, TypeOK, ObjectTypes
  <2>3. IsPartial(mirror', TrackableUids, Users)
    BY <1>2, <2>2, EmittedType, OverrideType DEF OnUserProxyReady, Track, TypeOK, ObjectTypes
  <2> QED BY <1>1, <1>2, <2>2, <2>3
      DEF OnUserProxyReady, TypeOK, ObjectTypes, AccountTypes, Login1Types, login1Vars
<1>3. CASE OnUserListReady
  <2>1. asked' \in [Uids -> Nat]  BY <1>3 DEF OnUserListReady, TypeOK, AccountTypes
  <2> QED BY <1>1, <1>3, <2>1
      DEF OnUserListReady, TypeOK, ObjectTypes, AccountTypes, Login1Types, objectVars, login1Vars
<1>4. CASE OnUserAdded
  <2>1. msg.path \in Uids
    BY <1>1, <1>4, AccountMsgFields DEF OnUserAdded, NextAccountMsg
  <2>2. asked' \in [Uids -> Nat]  BY <1>4, <2>1 DEF OnUserAdded, TypeOK, AccountTypes
  <2> QED BY <1>1, <1>4, <2>2
      DEF OnUserAdded, TypeOK, ObjectTypes, AccountTypes, Login1Types, objectVars, login1Vars
<1>5. CASE OnUserChanged
  <2>1. Cardinality(RecordsAt(msg.path)) \in Nat  BY RecordsAtFinite
  <2>2. msg.path \in Uids
    BY <1>1, <1>5, AccountMsgFields DEF OnUserChanged, NextAccountMsg
  <2>3. asked' \in [Uids -> Nat]
    BY <1>5, <2>1, <2>2 DEF OnUserChanged, TypeOK, AccountTypes
  <2> QED BY <1>1, <1>5, <2>3
      DEF OnUserChanged, TypeOK, ObjectTypes, AccountTypes, Login1Types, objectVars, login1Vars
<1>6. CASE OnUserDeleted
  <2>1. IsPartial(uid_to_account', TrackableUids, Records) /\ IsPartial(mirror', TrackableUids, Users)
    BY <1>6, WithoutType DEF OnUserDeleted, TypeOK, ObjectTypes
  <2> QED BY <1>1, <1>6, <2>1
      DEF OnUserDeleted, TypeOK, ObjectTypes, AccountTypes, Login1Types, login1Vars
<1>7. CASE OnAccountsError
  BY <1>1, <1>7
     DEF OnAccountsError, TypeOK, ObjectTypes, AccountTypes, Login1Types, objectVars, login1Vars
<1> QED BY <1>2, <1>3, <1>4, <1>5, <1>6, <1>7

LEMMA SessionStepType ==
  ASSUME TypeOK,
         OnSessionNew \/ OnSessionRemoved \/ OnRefreshTimer \/ OnSessionListReady \/ OnSessionsError
  PROVE  TypeOK'
<1> DEFINE msg == Head(login1msg)
<1>1. login1msg # << >> => msg \in Login1Msgs /\ Tail(login1msg) \in Seq(Login1Msgs)
  BY QueueOps DEF TypeOK, Login1Types
<1>2. CASE OnSessionNew
  BY <1>1, <1>2 DEF OnSessionNew, NextLogin1Msg, CallListSessions,
     TypeOK, ObjectTypes, AccountTypes, Login1Types, objectVars, accountVars
<1>3. CASE OnSessionRemoved
  <2>1. update_list_tag' \in 0..Timer
    BY <1>3, TicksAssumption DEF OnSessionRemoved, Timer, TypeOK, ObjectTypes
  <2> QED BY <1>1, <1>3, <2>1 DEF OnSessionRemoved, NextLogin1Msg, CallListSessions,
      TypeOK, ObjectTypes, AccountTypes, Login1Types, accountVars
<1>4. CASE OnRefreshTimer
  BY <1>4, TicksAssumption DEF OnRefreshTimer, CallListSessions, Timer,
     TypeOK, ObjectTypes, AccountTypes, Login1Types, accountVars
<1>5. CASE OnSessionListReady
  <2> DEFINE ids == msg.ids
  <2>1. ids \subseteq Sessions
    BY <1>1, <1>5, Login1MsgFields DEF OnSessionListReady, NextLogin1Msg
  <2>2. OwnersOf(ids) \subseteq Uids
    BY <2>1, SessionsAssumption DEF OwnersOf, OnSeat
  <2>3. ActiveAfter(ids) \in TrackableUids
    BY <2>1, SessionsAssumption DEF ActiveAfter, OnSeat, TrackableUids, TypeOK, ObjectTypes, Login1Types
  <2>4. LiveIn(ids) \in BOOLEAN  BY DEF LiveIn
  <2>5. IsPartial(SetActiveUid(ActiveAfter(ids)), TrackableUids, Users)
    BY EmittedType, EmptyType DEF SetActiveUid, TypeOK, ObjectTypes
  <2>6. IsPartial(SetLogins(ActiveAfter(ids), OwnersOf(ids)), TrackableUids, Users)
    BY EmittedType DEF SetLogins, TypeOK, ObjectTypes
  <2>7. IsPartial(mirror', TrackableUids, Users)
    BY <1>5, <2>5, <2>6, OverrideType DEF OnSessionListReady, TypeOK, ObjectTypes
  <2> QED BY <1>1, <1>5, <2>2, <2>3, <2>4, <2>7 DEF OnSessionListReady, NextLogin1Msg,
      TypeOK, ObjectTypes, AccountTypes, Login1Types, accountVars
<1>6. CASE OnSessionsError
  BY <1>1, <1>6 DEF OnSessionsError, NextLogin1Msg,
     TypeOK, ObjectTypes, AccountTypes, Login1Types, objectVars, accountVars
<1> QED BY <1>2, <1>3, <1>4, <1>5, <1>6

LEMMA LifeStepType ==
  ASSUME TypeOK, Start \/ Dispose
  PROVE  TypeOK'
<1>1. CASE Start
  <2>1. PICK got \in SUBSET AllProxies : SetProxies(got)  BY <1>1 DEF Start
  <2>2. IsFiniteSet(AllProxies)
    <3>1. IsFiniteSet({"login1"}) /\ IsFiniteSet({"seat"}) /\ IsFiniteSet({"accounts"})
      BY FS_Singleton
    <3>2. AllProxies = ({"login1"} \cup {"seat"}) \cup {"accounts"}  BY DEF AllProxies
    <3> QED BY <3>1, <3>2, FS_Union
  <2>3. Cardinality(got \ {"accounts"}) \in Nat
    BY <2>2, FS_Subset, FS_CardinalityType
  <2> QED BY <2>1, <2>3
      DEF SetProxies, TypeOK, ObjectTypes, AccountTypes, Login1Types
<1>2. CASE Dispose
  <2>1. IsPartial(uid_to_account', TrackableUids, Records)
    BY <1>2, EmptyType DEF Dispose
  <2>2. 0 \in 0..Timer  BY TicksAssumption DEF Timer
  <2>3. ObjectTypes'  BY <1>2, <2>1, <2>2 DEF Dispose, TypeOK, ObjectTypes
  <2>4. asked' \in [Uids -> Nat] /\ list_asked' \in BOOLEAN  BY <1>2 DEF Dispose
  <2>5. acctmsg' \in Seq(AccountMsgs) /\ login1msg' \in Seq(Login1Msgs)
    BY <1>2 DEF Dispose
  <2> QED BY <1>2, <2>3, <2>4, <2>5
      DEF Dispose, TypeOK, AccountTypes, Login1Types
<1> QED BY <1>1, <1>2

LEMMA TypeInit == Init => TypeOK
<1> SUFFICES ASSUME Init PROVE TypeOK  OBVIOUS
<1>1. IsPartial(uid_to_account, TrackableUids, Records) /\ IsPartial(mirror, TrackableUids, Users)
      /\ IsPartial(ghosts, Sessions, Nat)
  BY EmptyType DEF Init
<1>2. IsPartial(accts, Uids, Infos)  BY DEF Init, IsPartial
<1>3. 0 \in 0..Timer  BY TicksAssumption DEF Timer
<1>4. ObjectTypes  BY <1>1, <1>3 DEF Init, ObjectTypes, TrackableUids, PhantomUid
<1>5. acctmsg \in Seq(AccountMsgs) /\ login1msg \in Seq(Login1Msgs)  BY DEF Init
<1>6. asked \in [Uids -> Nat] /\ list_asked \in BOOLEAN  BY DEF Init
<1> QED BY <1>1, <1>2, <1>4, <1>5, <1>6, SessionsAssumption
    DEF Init, TypeOK, AccountTypes, Login1Types

LEMMA TypeNext == TypeOK /\ [Next]_vars => TypeOK'
<1> SUFFICES ASSUME TypeOK, [Next]_vars PROVE TypeOK'  OBVIOUS
<1>1. CASE UNCHANGED vars
  BY <1>1 DEF vars, objectVars, accountVars, login1Vars, TypeOK, ObjectTypes, AccountTypes, Login1Types
<1>2. CASE Next
  BY <1>2, AccountsServiceType, Login1Type, AccountStepType, SessionStepType, LifeStepType
     DEF Next, Object, World
<1> QED BY <1>1, <1>2

\* The types of the users directory hold in every reachable state, for every
\* set of accounts and sessions.
THEOREM TypeCorrect == Spec => []TypeOK
BY TypeInit, TypeNext, PTL DEF Spec

-----------------------------------------------------------------------------
(* MirrorFresh. *)

\* What the directory reports depends on four variables only.
LEMMA SameView ==
  ASSUME UNCHANGED <<uid_to_account, active_uid, logins>>
  PROVE  View' = View
BY DEF View, Emitted, UserOf

\* track_user: one more or one replaced record, announced at once.
LEMMA TrackIsSeen ==
  ASSUME TypeOK, NEW uid, NEW record,
         uid_to_account' = Extend(uid_to_account, uid, record),
         UNCHANGED <<active_uid, logins>>
  PROVE  Override(View, Emitted({uid}, uid_to_account', active_uid, logins)) = View'
BY DEF Override, Emitted, View, UserOf, Extend

\* untrack_user: the record leaves, its removal is announced.
LEMMA UntrackIsSeen ==
  ASSUME NEW uid, uid_to_account' = Without(uid_to_account, uid),
         UNCHANGED <<active_uid, logins>>
  PROVE  Without(View, uid) = View'
BY DEF Emitted, View, UserOf, Without

\* set_active_uid, then set_logins: together they announce every tracked user
\* whose snapshot changed, and the last announcement carries the final value.
LEMMA SessionListIsSeen ==
  ASSUME NEW active, NEW in,
         active_uid' = active, logins' = in, UNCHANGED uid_to_account
  PROVE  Override(Override(View, SetActiveUid(active)), SetLogins(active, in)) = View'
<1> DEFINE first == SetActiveUid(active)
           second == SetLogins(active, in)
           seen == Override(Override(View, first), second)
<1>1. DOMAIN View = DOMAIN uid_to_account /\ DOMAIN View' = DOMAIN uid_to_account
  BY DEF View, Emitted
<1>2. DOMAIN first = IF active = active_uid THEN {}
                     ELSE {active_uid, active} \cap DOMAIN uid_to_account
  BY DEF SetActiveUid, Emitted
<1>3. DOMAIN second = SymDiff(logins, in) \cap DOMAIN uid_to_account
  BY DEF SetLogins, Emitted
<1>4. DOMAIN seen = DOMAIN uid_to_account
  BY <1>1, <1>2, <1>3 DEF Override
<1>5. ASSUME NEW uid \in DOMAIN uid_to_account
      PROVE  seen[uid] = UserOf(uid_to_account, active, in, uid)
  <2>1. CASE uid \in SymDiff(logins, in)
    <3>1. seen[uid] = second[uid]  BY <1>3, <1>4, <1>5, <2>1 DEF Override
    <3> QED BY <3>1, <1>5, <2>1 DEF SetLogins, Emitted
  <2>2. CASE uid \notin SymDiff(logins, in)
    <3>1. uid \in in <=> uid \in logins  BY <2>2 DEF SymDiff
    <3>2. seen[uid] = Override(View, first)[uid]
      BY <1>1, <1>2, <1>3, <1>4, <1>5, <2>2 DEF Override
    <3>3. CASE uid \in DOMAIN first
      <4>1. seen[uid] = first[uid]  BY <3>2, <3>3 DEF Override
      <4>2. first[uid] = UserOf(uid_to_account, active, logins, uid)
        BY <1>2, <1>5, <3>3 DEF SetActiveUid, Emitted
      <4> QED BY <3>1, <4>1, <4>2 DEF UserOf
    <3>4. CASE uid \notin DOMAIN first
      <4>1. seen[uid] = View[uid]  BY <1>1, <1>5, <3>2, <3>4 DEF Override
      <4>2. uid = active <=> uid = active_uid  BY <1>2, <1>5, <3>4
      <4> QED BY <1>5, <3>1, <4>1, <4>2 DEF View, Emitted, UserOf
    <3> QED BY <3>3, <3>4
  <2> QED BY <2>1, <2>2
<1>6. View' = [uid \in DOMAIN uid_to_account |-> UserOf(uid_to_account, active, in, uid)]
  BY DEF View, Emitted, UserOf
<1>7. seen = [uid \in DOMAIN seen |-> seen[uid]]  BY DEF Override
<1> QED BY <1>4, <1>5, <1>6, <1>7

\* Nothing revives the object.
LEMMA StaysDisposed ==
  ASSUME Next, life = "disposed"
  PROVE  life' = "disposed"
<1>1. CASE Object
  BY <1>1 DEF Object, OnUserProxyReady, OnUserListReady, OnUserAdded, OnUserChanged,
     OnUserDeleted, OnAccountsError, OnSessionNew, OnSessionRemoved, OnRefreshTimer,
     OnSessionListReady, OnSessionsError, objectVars
<1>2. CASE AccountsService
  BY <1>2 DEF AccountsService, AccountAdded, AccountDeleted, AccountChanged, AnswerList,
     AnswerProps, objectVars
<1>3. CASE Login1
  BY <1>3 DEF Login1, SessionNew, SessionRemoved, GhostGone, ActiveSession, AnswerSessions,
     Tick, objectVars
<1>4. ~Start /\ ~Dispose  BY DEF Start, SetProxies, Dispose
<1> QED BY <1>1, <1>2, <1>3, <1>4 DEF Next, World

LEMMA MirrorNext == TypeOK /\ MirrorFresh /\ [Next]_vars => MirrorFresh'
<1> SUFFICES ASSUME TypeOK, MirrorFresh, [Next]_vars, life' # "disposed"
             PROVE  mirror' = View'
  BY DEF MirrorFresh
<1>1. life # "disposed"
  BY StaysDisposed DEF vars, objectVars
<1>2. mirror = View  BY <1>1 DEF MirrorFresh
<1>3. CASE UNCHANGED <<mirror, uid_to_account, active_uid, logins>>
  BY <1>2, <1>3, SameView
<1>4. CASE OnUserProxyReady
  <2>1. CASE Head(acctmsg).system  BY <1>3, <1>4, <2>1 DEF OnUserProxyReady
  <2>2. CASE ~Head(acctmsg).system
    BY <1>2, <1>4, <2>2, TrackIsSeen DEF OnUserProxyReady, Track
  <2> QED BY <2>1, <2>2
<1>5. CASE OnUserDeleted
  <2> DEFINE found == RecordsAt(Head(acctmsg).path) \ {0}
  <2>1. CASE found = {}  BY <1>3, <1>5, <2>1 DEF OnUserDeleted
  <2>2. CASE found # {}
    <3>1. PICK uid \in found : /\ uid_to_account' = Without(uid_to_account, uid)
                               /\ mirror' = Without(mirror, uid)
      BY <1>5, <2>2 DEF OnUserDeleted
    <3> QED BY <1>2, <1>5, <3>1, UntrackIsSeen DEF OnUserDeleted
  <2> QED BY <2>1, <2>2
<1>6. CASE OnSessionListReady
  BY <1>2, <1>6, SessionListIsSeen DEF OnSessionListReady
<1>7. CASE Dispose  BY <1>7 DEF Dispose
<1>8. CASE Start  BY <1>3, <1>8 DEF Start, SetProxies
<1>9. CASE \/ OnUserListReady \/ OnUserAdded \/ OnUserChanged \/ OnAccountsError
           \/ OnSessionNew \/ OnSessionRemoved \/ OnRefreshTimer \/ OnSessionsError
  BY <1>3, <1>9 DEF OnUserListReady, OnUserAdded, OnUserChanged, OnAccountsError,
     OnSessionNew, OnSessionRemoved, OnRefreshTimer, OnSessionsError, objectVars
<1>10. CASE AccountsService
  BY <1>3, <1>10 DEF AccountsService, AccountAdded, AccountDeleted, AccountChanged,
     AnswerList, AnswerProps, objectVars
<1>11. CASE Login1
  BY <1>3, <1>11 DEF Login1, SessionNew, SessionRemoved, GhostGone, ActiveSession,
     AnswerSessions, Tick, objectVars
<1>12. CASE UNCHANGED vars  BY <1>3, <1>12 DEF vars, objectVars
<1> QED BY <1>4, <1>5, <1>6, <1>7, <1>8, <1>9, <1>10, <1>11, <1>12 DEF Next, Object, World

\* MirrorFresh for every set of accounts and sessions: no change of a user's
\* properties, of the session's owner or of the logins goes unannounced.
THEOREM ListenersAreFresh == Spec => []MirrorFresh
<1>1. Init => MirrorFresh  BY DEF Init, MirrorFresh, View, Emitted
<1>2. QED BY <1>1, TypeCorrect, MirrorNext, PTL DEF Spec

-----------------------------------------------------------------------------
(* LoginsSettle: until the logins are right, something that puts them      *)
(* right is on its way.  The refresh timer is what covers the sessions     *)
(* logind still lists though they are gone: it outlives every one of them. *)

LoginNotices == {"session-new", "session-removed", "active-session"}
LoginsComing ==
  \/ sessions_asked > 0 \/ update_list_tag > 0
  \/ \E i \in 1..Len(login1msg) : login1msg[i].type \in LoginNotices
LoginsTold ==
  IF login1msg = << >> THEN LoginsAccurate
  ELSE login1msg[Len(login1msg)].type = "sessions" /\ login1msg[Len(login1msg)].ids = listed

RemovalAt(i) == i \in 1..Len(login1msg) /\ login1msg[i].type = "session-removed"

\* One removal at a time: announced, then timed, and the timer outlives its ghosts.
OneRemoval ==
  \A i \in 1..Len(login1msg) : RemovalAt(i) =>
     update_list_tag = 0 /\ \A j \in 1..Len(login1msg) : RemovalAt(j) => j = i
GhostsAreTimed ==
  /\ DOMAIN ghosts # {} => update_list_tag > 0 \/ \E i \in 1..Len(login1msg) : RemovalAt(i)
  /\ \A s \in DOMAIN ghosts :
       /\ ghosts[s] <= LingerTicks
       /\ update_list_tag > 0 => ghosts[s] + update_list_tag > LingerTicks + 1

LoginsSettling ==
  /\ life = "init" => login1msg = << >> /\ update_list_tag = 0 /\ ghosts = << >>
  /\ Running /\ ~faulty =>
       proxies = AllProxies /\ OneRemoval /\ GhostsAreTimed /\ (LoginsComing \/ LoginsTold)

\* The places of a queue when its head is taken and when a message joins it.
LEMMA TailPlaces ==
  ASSUME NEW M, NEW q \in Seq(M), q # << >>
  PROVE  /\ Len(Tail(q)) = Len(q) - 1 /\ Len(q) \in Nat \ {0}
         /\ Tail(q) = << >> <=> Len(q) = 1
         /\ Head(q) = q[1]
         /\ \A j \in 1..Len(Tail(q)) : Tail(q)[j] = q[j + 1]
         /\ \A i \in 2..Len(q) : i - 1 \in 1..Len(Tail(q)) /\ Tail(q)[i - 1] = q[i]
<1>1. Len(Tail(q)) = Len(q) - 1 /\ \A j \in 1..Len(Tail(q)) : Tail(q)[j] = q[j + 1]
  OBVIOUS
<1>2. Head(q) = q[1] /\ Len(q) \in Nat \ {0}
  OBVIOUS
<1>3. Tail(q) = << >> <=> Len(Tail(q)) = 0
  <2>1. Tail(q) \in Seq(M)  OBVIOUS
  <2> QED BY <2>1, EmptySeq
<1>4. \A i \in 2..Len(q) : i - 1 \in 1..Len(Tail(q)) /\ Tail(q)[i - 1] = q[i]
  BY <1>1, <1>2
<1> QED BY <1>1, <1>2, <1>3, <1>4

LEMMA AppendPlaces ==
  ASSUME NEW M, NEW q \in Seq(M), NEW m \in M
  PROVE  /\ Append(q, m) # << >> /\ Len(q) \in Nat /\ Len(Append(q, m)) = Len(q) + 1
         /\ Append(q, m)[Len(q) + 1] = m
         /\ \A i \in 1..Len(q) : Append(q, m)[i] = q[i]
OBVIOUS

LEMMA Queued ==
  ASSUME TypeOK, NEW m \in Login1Msgs, m.type # "session-removed",
         login1msg' = Append(login1msg, m), UNCHANGED <<update_list_tag, ghosts>>,
         OneRemoval, GhostsAreTimed
  PROVE  OneRemoval' /\ GhostsAreTimed'
<1>1. login1msg \in Seq(Login1Msgs)  BY DEF TypeOK, Login1Types
<1>2. /\ Len(login1msg) \in Nat /\ Len(login1msg') = Len(login1msg) + 1
      /\ login1msg'[Len(login1msg) + 1] = m
      /\ \A i \in 1..Len(login1msg) : login1msg'[i] = login1msg[i]
  BY <1>1, AppendPlaces
<1>3. \A i : RemovalAt(i)' <=> RemovalAt(i)
  BY <1>2 DEF RemovalAt
<1>4. \A i : RemovalAt(i) => i \in 1..Len(login1msg) /\ i \in 1..Len(login1msg')
  BY <1>2 DEF RemovalAt
<1>5. OneRemoval'  BY <1>3, <1>4 DEF OneRemoval
<1>6. GhostsAreTimed'  BY <1>3, <1>4 DEF GhostsAreTimed
<1> QED BY <1>5, <1>6

LEMMA Taken ==
  ASSUME TypeOK, login1msg # << >>, Head(login1msg).type # "session-removed",
         login1msg' = Tail(login1msg), UNCHANGED <<update_list_tag, ghosts>>,
         OneRemoval, GhostsAreTimed
  PROVE  OneRemoval' /\ GhostsAreTimed'
<1>1. login1msg \in Seq(Login1Msgs)  BY DEF TypeOK, Login1Types
<1>2. /\ Len(login1msg') = Len(login1msg) - 1 /\ Len(login1msg) \in Nat \ {0}
      /\ Head(login1msg) = login1msg[1]
      /\ \A j \in 1..Len(login1msg') : login1msg'[j] = login1msg[j + 1]
      /\ \A i \in 2..Len(login1msg) :
           i - 1 \in 1..Len(login1msg') /\ login1msg'[i - 1] = login1msg[i]
  BY <1>1, TailPlaces
<1>3. \A i : RemovalAt(i)' => i \in 1..Len(login1msg') /\ i + 1 \in 1..Len(login1msg) /\ RemovalAt(i + 1)
  BY <1>2 DEF RemovalAt
<1>4. \A i : RemovalAt(i) => i - 1 \in 1..Len(login1msg') /\ RemovalAt(i - 1)'
  BY <1>2 DEF RemovalAt
<1>5. OneRemoval'
  <2> SUFFICES ASSUME NEW i \in 1..Len(login1msg'), RemovalAt(i)'
               PROVE  /\ update_list_tag' = 0
                      /\ \A j \in 1..Len(login1msg') : RemovalAt(j)' => j = i
    BY DEF OneRemoval
  <2>1. /\ update_list_tag = 0
        /\ \A j \in 1..Len(login1msg) : RemovalAt(j) => j = i + 1
    BY <1>3 DEF OneRemoval
  <2>2. ASSUME NEW j \in 1..Len(login1msg'), RemovalAt(j)'  PROVE j = i
    <3>1. j + 1 = i + 1  BY <1>3, <2>1, <2>2
    <3> QED BY <3>1
  <2> QED BY <2>1, <2>2
<1>6. GhostsAreTimed'
  <2>1. (\E i \in 1..Len(login1msg) : RemovalAt(i)) => \E i \in 1..Len(login1msg') : RemovalAt(i)'
    BY <1>4
  <2> QED BY <2>1 DEF GhostsAreTimed
<1> QED BY <1>5, <1>6

\* A ghost dies before the timer that was started for it rings.
LEMMA NoGhostAtTheRing ==
  ASSUME TypeOK, GhostsAreTimed, update_list_tag = 1
  PROVE  DOMAIN ghosts = {}
<1> SUFFICES ASSUME NEW s \in DOMAIN ghosts PROVE FALSE  OBVIOUS
<1>1. ghosts[s] \in Nat /\ ghosts[s] <= LingerTicks /\ ghosts[s] + 1 > LingerTicks + 1
  BY DEF TypeOK, Login1Types, IsPartial, GhostsAreTimed
<1> QED BY <1>1, TicksAssumption

\* What logind does.
LEMMA LoginsSettleWorld ==
  ASSUME SpacedRemovals, TypeOK, Login1, Running, proxies = AllProxies, ~faulty', OneRemoval, GhostsAreTimed,
         LoginsComing \/ LoginsTold
  PROVE  OneRemoval' /\ GhostsAreTimed' /\ (LoginsComing \/ LoginsTold)'
<1>0. /\ login1msg \in Seq(Login1Msgs) /\ update_list_tag \in 0..Timer
      /\ IsPartial(ghosts, Sessions, Nat) /\ sessions_asked \in Nat
  BY DEF TypeOK, ObjectTypes, Login1Types
<1>1. ASSUME NEW type \in {"session-new", "active-session"},
             login1msg' = Append(login1msg, [type |-> type]), UNCHANGED <<update_list_tag, ghosts>>
      PROVE  OneRemoval' /\ GhostsAreTimed' /\ LoginsComing'
  <2>1. [type |-> type] \in Login1Msgs  BY DEF Login1Msgs
  <2>2. OneRemoval' /\ GhostsAreTimed'  BY <1>1, <2>1, Queued
  <2>3. /\ Len(login1msg) + 1 \in 1..Len(login1msg')
        /\ login1msg'[Len(login1msg) + 1] = [type |-> type]
    BY <1>0, <1>1, <2>1, AppendPlaces
  <2>4. LoginsComing'  BY <2>3 DEF LoginsComing, LoginNotices
  <2> QED BY <2>2, <2>4
<1>2. ASSUME NEW s \in Sessions, SessionNew(s) \/ ActiveSession(s)
      PROVE  OneRemoval' /\ GhostsAreTimed' /\ LoginsComing'
  <2>1. /\ \E type \in {"session-new", "active-session"} :
             login1msg' = Append(login1msg, [type |-> type])
        /\ UNCHANGED <<update_list_tag, ghosts>>
    BY <1>2 DEF SessionNew, ActiveSession, Signal, AllProxies, objectVars
  <2> QED BY <2>1, <1>1
<1>3. ASSUME NEW s \in Sessions, SessionRemoved(s)
      PROVE  OneRemoval' /\ GhostsAreTimed' /\ LoginsComing'
  <2>1. /\ ~RemovalPending /\ update_list_tag' = update_list_tag
        /\ login1msg' = Append(login1msg, [type |-> "session-removed"])
        /\ ghosts' = ghosts \/ ghosts' = Extend(ghosts, s, 0)
    BY <1>3 DEF SessionRemoved, Signal, AllProxies, objectVars
  <2>2. update_list_tag = 0 /\ \A i : ~RemovalAt(i)
    <3>1. DOMAIN login1msg = 1..Len(login1msg)  BY <1>0
    <3> QED BY <1>0, <2>1, <3>1 DEF RemovalPending, RemovalAt, Timer
  <2>3. PICK last \in Nat :
          /\ last = Len(login1msg) + 1 /\ Len(login1msg') = last
          /\ login1msg'[last].type = "session-removed"
          /\ \A i \in 1..Len(login1msg) : login1msg'[i] = login1msg[i]
    <3>1. [type |-> "session-removed"] \in Login1Msgs  BY DEF Login1Msgs
    <3>2. Len(login1msg) + 1 \in Nat  BY <1>0
    <3> QED BY <1>0, <2>1, <3>1, <3>2, AppendPlaces
  <2>4. last \in 1..Len(login1msg') /\ RemovalAt(last)' /\ \A i : RemovalAt(i)' => i = last
    <3>1. last \in 1..Len(login1msg') /\ RemovalAt(last)'  BY <1>0, <2>3 DEF RemovalAt
    <3>2. ASSUME NEW i, RemovalAt(i)'  PROVE i = last
      <4>1. i \in 1..Len(login1msg) => RemovalAt(i)  BY <2>3, <3>2 DEF RemovalAt
      <4>2. i \in 1..(Len(login1msg) + 1)  BY <2>3, <3>2 DEF RemovalAt
      <4> QED BY <1>0, <2>2, <2>3, <4>1, <4>2
    <3> QED BY <3>1, <3>2
  <2>5. OneRemoval'  BY <2>1, <2>2, <2>4 DEF OneRemoval
  <2>6. DOMAIN ghosts = {}  BY <2>2 DEF GhostsAreTimed
  <2>7. \A g \in DOMAIN ghosts' : ghosts'[g] = 0
    BY <2>1, <2>6 DEF Extend
  <2>8. GhostsAreTimed'
    BY <2>1, <2>2, <2>4, <2>7, TicksAssumption DEF GhostsAreTimed
  <2>9. LoginsComing'  BY <2>3, <2>4 DEF LoginsComing, LoginNotices
  <2> QED BY <2>5, <2>8, <2>9
<1>4. ASSUME NEW s \in Sessions, GhostGone(s)
      PROVE  OneRemoval' /\ GhostsAreTimed' /\ LoginsComing'
  <2>1. /\ s \in DOMAIN ghosts /\ ghosts' = Without(ghosts, s)
        /\ UNCHANGED <<update_list_tag, login1msg, sessions_asked>>
    BY <1>4 DEF GhostGone, objectVars
  <2>2. \A i : RemovalAt(i)' <=> RemovalAt(i)  BY <2>1 DEF RemovalAt
  <2>3. OneRemoval'  BY <2>1, <2>2 DEF OneRemoval
  <2>4. DOMAIN ghosts' \subseteq DOMAIN ghosts /\ \A g \in DOMAIN ghosts' : ghosts'[g] = ghosts[g]
    BY <2>1 DEF Without
  <2>5. GhostsAreTimed'  BY <2>1, <2>2, <2>4 DEF GhostsAreTimed
  <2>6. update_list_tag > 0 \/ \E i \in 1..Len(login1msg) : RemovalAt(i)
    BY <2>1 DEF GhostsAreTimed
  <2>7. LoginsComing'  BY <2>1, <2>6 DEF LoginsComing, LoginNotices, RemovalAt
  <2> QED BY <2>3, <2>5, <2>7
<1>5. CASE AnswerSessions
  <2>1. /\ login1msg' = Append(login1msg, [type |-> "sessions", ids |-> listed])
        /\ UNCHANGED <<update_list_tag, ghosts, listed>>
    BY <1>5 DEF AnswerSessions, objectVars
  <2>2. [type |-> "sessions", ids |-> listed] \in Login1Msgs
    BY DEF Login1Msgs, TypeOK, Login1Types
  <2>3. OneRemoval' /\ GhostsAreTimed'  BY <2>1, <2>2, Queued
  <2>4. login1msg' # << >> /\ login1msg'[Len(login1msg')] = [type |-> "sessions", ids |-> listed]
    BY <1>0, <2>1, <2>2, AppendPlaces
  <2>5. LoginsTold'  BY <2>1, <2>4 DEF LoginsTold
  <2> QED BY <2>3, <2>5
<1>6. CASE Tick
  <2>1. /\ update_list_tag # 1 /\ \A s \in DOMAIN ghosts : ghosts[s] < LingerTicks
        /\ ghosts' = [s \in DOMAIN ghosts |-> ghosts[s] + 1]
        /\ update_list_tag' = IF update_list_tag > 0 THEN update_list_tag - 1 ELSE 0
        /\ UNCHANGED <<logins, active_uid, is_live, listed, current, sessions_asked, login1msg>>
    BY <1>6 DEF Tick
  <2>2. \A i : RemovalAt(i)' <=> RemovalAt(i)  BY <2>1 DEF RemovalAt
  <2>3. OneRemoval'  BY <2>1, <2>2 DEF OneRemoval
  <2>4. update_list_tag > 0 => update_list_tag' > 0 /\ update_list_tag' = update_list_tag - 1
    BY <1>0, <2>1
  <2>5. \A s \in DOMAIN ghosts' : s \in DOMAIN ghosts /\ ghosts[s] \in Nat /\ ghosts'[s] = ghosts[s] + 1
    BY <1>0, <2>1 DEF IsPartial
  <2>6. GhostsAreTimed'
    <3>1. ASSUME NEW s \in DOMAIN ghosts'
          PROVE  /\ ghosts'[s] <= LingerTicks
                 /\ update_list_tag' > 0 => ghosts'[s] + update_list_tag' > LingerTicks + 1
      BY <1>0, <2>1, <2>4, <2>5, TicksAssumption DEF GhostsAreTimed
    <3>2. DOMAIN ghosts' # {} => update_list_tag' > 0 \/ \E i \in 1..Len(login1msg') : RemovalAt(i)'
      BY <2>1, <2>2, <2>4 DEF GhostsAreTimed
    <3> QED BY <3>1, <3>2 DEF GhostsAreTimed
  <2>7. (LoginsComing \/ LoginsTold)'
    BY <2>1, <2>4
    DEF LoginsComing, LoginsTold, LoginsAccurate, ActiveAfter, LiveIn, OwnersOf, OnSeat
  <2> QED BY <2>3, <2>6, <2>7
<1> QED BY <1>2, <1>3, <1>4, <1>5, <1>6 DEF Login1

\* A message leaves the queue without being a notice.
LEMMA LoginsPass ==
  ASSUME TypeOK, login1msg # << >>, login1msg' = Tail(login1msg),
         Head(login1msg).type \notin LoginNotices,
         UNCHANGED <<sessions_asked, update_list_tag, listed>>,
         LoginsComing \/ LoginsTold
  PROVE  \/ LoginsComing'
         \/ LoginsTold'
         \/ /\ Head(login1msg).type = "sessions" /\ Head(login1msg).ids = listed
            /\ login1msg' = << >>
<1>1. login1msg \in Seq(Login1Msgs)  BY DEF TypeOK, Login1Types
<1>2. /\ Len(login1msg') = Len(login1msg) - 1 /\ Len(login1msg) \in Nat \ {0}
      /\ login1msg' = << >> <=> Len(login1msg) = 1
      /\ Head(login1msg) = login1msg[1]
      /\ \A i \in 2..Len(login1msg) :
           i - 1 \in 1..Len(login1msg') /\ login1msg'[i - 1] = login1msg[i]
  BY <1>1, TailPlaces
<1>3. CASE sessions_asked > 0 \/ update_list_tag > 0
  BY <1>3 DEF LoginsComing
<1>4. CASE \E i \in 1..Len(login1msg) : login1msg[i].type \in LoginNotices
  <2>1. PICK i \in 1..Len(login1msg) : login1msg[i].type \in LoginNotices  BY <1>4
  <2>2. i \in 2..Len(login1msg)  BY <1>2, <2>1
  <2> QED BY <1>2, <2>1, <2>2 DEF LoginsComing
<1>5. CASE login1msg[Len(login1msg)].type = "sessions" /\ login1msg[Len(login1msg)].ids = listed
  <2>1. CASE Len(login1msg) = 1  BY <1>2, <1>5, <2>1
  <2>2. CASE Len(login1msg) # 1
    <3>1. Len(login1msg) \in 2..Len(login1msg)  BY <1>2, <2>2
    <3> QED BY <1>2, <1>5, <2>2, <3>1 DEF LoginsTold
  <2> QED BY <2>1, <2>2
<1> QED BY <1>3, <1>4, <1>5 DEF LoginsComing, LoginsTold

\* What the object does with it.
LEMMA LoginsSettleObject ==
  ASSUME TypeOK, Running, proxies = AllProxies, OneRemoval, GhostsAreTimed,
         LoginsComing \/ LoginsTold,
         OnSessionNew \/ OnSessionRemoved \/ OnRefreshTimer \/ OnSessionListReady \/ OnSessionsError
  PROVE  OneRemoval' /\ GhostsAreTimed' /\ (LoginsComing \/ LoginsTold)'
<1>0. /\ login1msg \in Seq(Login1Msgs) /\ update_list_tag \in 0..Timer
      /\ IsPartial(ghosts, Sessions, Nat) /\ sessions_asked \in Nat
  BY DEF TypeOK, ObjectTypes, Login1Types
<1>1. CallListSessions => sessions_asked' > 0
  BY <1>0 DEF CallListSessions, AllProxies
<1>2. CASE OnSessionNew
  <2>1. /\ login1msg # << >> /\ Head(login1msg).type # "session-removed"
        /\ login1msg' = Tail(login1msg) /\ UNCHANGED <<update_list_tag, ghosts>>
        /\ CallListSessions
    BY <1>2 DEF OnSessionNew, NextLogin1Msg, objectVars
  <2>2. OneRemoval' /\ GhostsAreTimed'  BY <2>1, Taken
  <2> QED BY <1>1, <2>1, <2>2 DEF LoginsComing
<1>3. CASE OnSessionRemoved
  <2>1. /\ login1msg # << >> /\ Head(login1msg).type = "session-removed"
        /\ login1msg' = Tail(login1msg) /\ CallListSessions /\ ghosts' = ghosts
        /\ update_list_tag' = IF update_list_tag = 0 THEN Timer ELSE update_list_tag
    BY <1>3 DEF OnSessionRemoved, NextLogin1Msg
  <2>2. /\ Len(login1msg') = Len(login1msg) - 1 /\ Len(login1msg) \in Nat \ {0}
        /\ Head(login1msg) = login1msg[1]
        /\ \A j \in 1..Len(login1msg') : login1msg'[j] = login1msg[j + 1]
    BY <1>0, <2>1, TailPlaces
  <2>3. RemovalAt(1)  BY <2>1, <2>2 DEF RemovalAt
  <2>4. update_list_tag = 0 /\ \A j \in 1..Len(login1msg) : RemovalAt(j) => j = 1
    BY <2>2, <2>3 DEF OneRemoval
  <2>5. \A i : ~RemovalAt(i)'
    <3> SUFFICES ASSUME NEW i, RemovalAt(i)' PROVE FALSE  OBVIOUS
    <3>1. i \in 1..Len(login1msg') /\ login1msg[i + 1].type = "session-removed"
      BY <2>2 DEF RemovalAt
    <3>2. i + 1 \in 1..Len(login1msg)  BY <2>2, <3>1
    <3>3. RemovalAt(i + 1)  BY <3>1, <3>2 DEF RemovalAt
    <3>4. i + 1 = 1  BY <2>4, <3>2, <3>3
    <3> QED BY <3>1, <3>4
  <2>6. update_list_tag' = RefreshTicks + 1  BY <2>1, <2>4 DEF Timer
  <2>7. \A s \in DOMAIN ghosts : ghosts[s] \in Nat  BY <1>0 DEF IsPartial
  <2>8. GhostsAreTimed'
    BY <2>1, <2>6, <2>7, TicksAssumption DEF GhostsAreTimed
  <2> QED BY <1>1, <2>1, <2>5, <2>8 DEF OneRemoval, LoginsComing
<1>4. CASE OnRefreshTimer
  <2>1. update_list_tag = 1 /\ update_list_tag' = 0 /\ UNCHANGED <<ghosts, login1msg>>
        /\ CallListSessions
    BY <1>4 DEF OnRefreshTimer
  <2>2. DOMAIN ghosts = {}  BY <2>1, NoGhostAtTheRing
  <2>3. \A i : RemovalAt(i)' <=> RemovalAt(i)  BY <2>1 DEF RemovalAt
  <2>4. OneRemoval'  BY <2>1, <2>3 DEF OneRemoval
  <2>5. GhostsAreTimed'  BY <2>1, <2>2 DEF GhostsAreTimed
  <2> QED BY <1>1, <2>1, <2>4, <2>5 DEF LoginsComing
<1>5. CASE OnSessionListReady
  <2>1. /\ login1msg # << >> /\ Head(login1msg).type = "sessions"
        /\ login1msg' = Tail(login1msg)
        /\ UNCHANGED <<sessions_asked, update_list_tag, listed, ghosts, current>>
        /\ active_uid' = ActiveAfter(Head(login1msg).ids)
        /\ is_live' = LiveIn(Head(login1msg).ids) /\ logins' = OwnersOf(Head(login1msg).ids)
    BY <1>5 DEF OnSessionListReady, NextLogin1Msg
  <2>2. OneRemoval' /\ GhostsAreTimed'  BY <2>1, Taken
  <2>3. \/ LoginsComing' \/ LoginsTold'
        \/ Head(login1msg).ids = listed /\ login1msg' = << >>
    BY <2>1, LoginsPass DEF LoginNotices
  <2>4. CASE Head(login1msg).ids = listed /\ login1msg' = << >>
    <3>1. LoginsAccurate'
      BY <2>1, <2>4 DEF LoginsAccurate, ActiveAfter, LiveIn, OwnersOf, OnSeat
    <3> QED BY <2>2, <2>4, <3>1 DEF LoginsTold
  <2> QED BY <2>2, <2>3, <2>4
<1>6. CASE OnSessionsError
  <2>1. /\ login1msg # << >> /\ Head(login1msg).type = "error"
        /\ login1msg' = Tail(login1msg)
        /\ UNCHANGED <<sessions_asked, update_list_tag, listed, ghosts>>
    BY <1>6 DEF OnSessionsError, NextLogin1Msg, objectVars
  <2>2. OneRemoval' /\ GhostsAreTimed'  BY <2>1, Taken
  <2>3. LoginsComing' \/ LoginsTold'  BY <2>1, LoginsPass DEF LoginNotices
  <2> QED BY <2>2, <2>3
<1> QED BY <1>2, <1>3, <1>4, <1>5, <1>6

LEMMA StartAsksTwice ==
  ASSUME life = "init", Start, ~faulty'
  PROVE  proxies' = AllProxies /\ sessions_asked' > 0 /\ list_asked'
<1>1. SetProxies(AllProxies)  BY DEF Start, SetProxies
<1>2. AllProxies \ {"accounts"} # {} /\ IsFiniteSet(AllProxies \ {"accounts"})
  <2>1. IsFiniteSet({"login1"}) /\ IsFiniteSet({"seat"})  BY FS_Singleton
  <2>2. IsFiniteSet({"login1"} \cup {"seat"})  BY <2>1, FS_Union
  <2>3. AllProxies \ {"accounts"} = {"login1"} \cup {"seat"}  BY DEF AllProxies
  <2> QED BY <2>2, <2>3
<1>3. Cardinality(AllProxies \ {"accounts"}) > 0
  BY <1>2, FS_CardinalityType, FS_EmptySet
<1> QED BY <1>1, <1>3 DEF SetProxies, AllProxies

LEMMA StaysFaulty ==
  ASSUME life # "init", Running', ~faulty', Next
  PROVE  Running /\ ~faulty /\ proxies' = proxies
<1>1. CASE Object
  BY <1>1 DEF Object, Running, OnUserProxyReady, OnUserListReady, OnUserAdded, OnUserChanged,
     OnUserDeleted, OnAccountsError, OnSessionNew, OnSessionRemoved, OnRefreshTimer,
     OnSessionListReady, OnSessionsError, objectVars
<1>2. CASE AccountsService
  <2>1. \A u : AnswerProps(u) => UNCHANGED objectVars /\ (faulty' = faulty \/ faulty' = TRUE)
    BY Zenon DEF AnswerProps
  <2>2. AnswerList => UNCHANGED objectVars /\ (faulty' = faulty \/ faulty' = TRUE)
    BY Zenon DEF AnswerList
  <2>3. UNCHANGED objectVars /\ (faulty' = faulty \/ faulty' = TRUE)
    BY <1>2, <2>1, <2>2, Zenon DEF AccountsService, AccountAdded, AccountDeleted, AccountChanged
  <2> QED BY <2>3 DEF objectVars, Running
<1>3. CASE Login1
  BY <1>3 DEF Login1, SessionNew, SessionRemoved, GhostGone, ActiveSession, AnswerSessions,
     Tick, objectVars, Running
<1>4. ~Start /\ ~Dispose  BY DEF Start, SetProxies, Dispose, Running
<1> QED BY <1>1, <1>2, <1>3, <1>4 DEF Next, World

\* set_proxies comes first: before it there is no timer and nothing is heard.
LEMMA StartsFirst ==
  ASSUME Next, life = "init" => update_list_tag = 0
  PROVE  life' # "init" /\ (life = "init" => Start \/ Dispose)
<1>1. CASE life = "init"
  <2>1. ~Object
    BY <1>1 DEF Object, Running, NextAccountMsg, NextLogin1Msg, OnUserProxyReady,
       OnUserListReady, OnUserAdded, OnUserChanged, OnUserDeleted, OnAccountsError,
       OnSessionNew, OnSessionRemoved, OnRefreshTimer, OnSessionListReady, OnSessionsError
  <2>2. Start \/ Dispose  BY <1>1, <2>1 DEF Next, Started
  <2> QED BY <2>2 DEF Start, SetProxies, Dispose
<1>2. CASE life # "init"
  <2>1. CASE Object
    BY <1>2, <2>1 DEF Object, OnUserProxyReady, OnUserListReady, OnUserAdded, OnUserChanged,
       OnUserDeleted, OnAccountsError, OnSessionNew, OnSessionRemoved, OnRefreshTimer,
       OnSessionListReady, OnSessionsError, objectVars
  <2>2. CASE World
    BY <1>2, <2>2 DEF World, AccountsService, AccountAdded, AccountDeleted, AccountChanged,
       AnswerList, AnswerProps, Login1, SessionNew, SessionRemoved, GhostGone, ActiveSession,
       AnswerSessions, Tick, objectVars
  <2>3. CASE Start \/ Dispose  BY <2>3 DEF Start, SetProxies, Dispose
  <2> QED BY <1>2, <2>1, <2>2, <2>3 DEF Next
<1> QED BY <1>1, <1>2

loginsVars == <<life, proxies, faulty, logins, active_uid, is_live, update_list_tag, login1Vars>>

LEMMA LoginsSettlingNext ==
  ASSUME SpacedRemovals
  PROVE  TypeOK /\ LoginsSettling /\ [Next]_vars => LoginsSettling'
<1> SUFFICES ASSUME TypeOK, LoginsSettling, [Next]_vars PROVE LoginsSettling'  OBVIOUS
<1>1. UNCHANGED loginsVars => LoginsSettling'
  BY DEF loginsVars, login1Vars, LoginsSettling, Running, OneRemoval, GhostsAreTimed, RemovalAt,
     LoginsComing, LoginsTold, LoginsAccurate, ActiveAfter, LiveIn, OwnersOf, OnSeat
<1>2. CASE UNCHANGED vars  BY <1>1, <1>2 DEF vars, objectVars, loginsVars
<1>3. CASE Next
  <2>1. life' # "init" /\ (life = "init" => Start \/ Dispose)
    BY <1>3, StartsFirst DEF LoginsSettling
  <2> SUFFICES ASSUME Running', ~faulty'
               PROVE  /\ proxies' = AllProxies /\ OneRemoval' /\ GhostsAreTimed'
                      /\ (LoginsComing \/ LoginsTold)'
    BY <2>1 DEF LoginsSettling
  <2>2. CASE life = "init"
    <3>1. Start  BY <2>1, <2>2 DEF Dispose, Running
    <3>2. UNCHANGED <<update_list_tag, ghosts, login1msg>>  BY <3>1 DEF Start, SetProxies
    <3>3. login1msg' = << >> /\ update_list_tag' = 0 /\ ghosts' = << >>
      BY <2>2, <3>2 DEF LoginsSettling
    <3>4. OneRemoval' /\ GhostsAreTimed'  BY <3>3 DEF OneRemoval, GhostsAreTimed, RemovalAt
    <3>5. proxies' = AllProxies /\ LoginsComing'  BY <2>2, <3>1, StartAsksTwice DEF LoginsComing
    <3> QED BY <3>4, <3>5
  <2>3. CASE life # "init"
    <3>1. /\ Running /\ ~faulty /\ proxies' = proxies /\ proxies = AllProxies
          /\ OneRemoval /\ GhostsAreTimed /\ (LoginsComing \/ LoginsTold)
      BY <1>3, <2>3, StaysFaulty DEF LoginsSettling
    <3>2. CASE Login1  BY <3>1, <3>2, LoginsSettleWorld
    <3>3. CASE OnSessionNew \/ OnSessionRemoved \/ OnRefreshTimer \/ OnSessionListReady \/ OnSessionsError
      BY <3>1, <3>3, LoginsSettleObject
    <3>4. CASE AccountsService \/ OnUserProxyReady \/ OnUserListReady \/ OnUserAdded
               \/ OnUserChanged \/ OnUserDeleted \/ OnAccountsError
      <4>1. UNCHANGED <<life, proxies, logins, active_uid, is_live, update_list_tag, login1Vars>>
        BY <3>4 DEF AccountsService, OnUserProxyReady, OnUserListReady, OnUserAdded,
           OnUserChanged, OnUserDeleted, OnAccountsError, AccountAdded, AccountDeleted,
           AccountChanged, AnswerList, AnswerProps, objectVars
      <4> QED BY <3>1, <4>1 DEF login1Vars, OneRemoval, GhostsAreTimed, RemovalAt,
          LoginsComing, LoginsTold, LoginsAccurate, ActiveAfter, LiveIn, OwnersOf, OnSeat
    <3>5. ~Dispose /\ ~Start  BY <2>3 DEF Dispose, Start, SetProxies, Running
    <3> QED BY <1>3, <3>1, <3>2, <3>3, <3>4, <3>5 DEF Next, Object, World
  <2> QED BY <2>2, <2>3
<1> QED BY <1>2, <1>3

LEMMA LoginsSettlingInit == Init => LoginsSettling
BY DEF Init, LoginsSettling, Running

LEMMA LoginsSettled == LoginsSettling => LoginsSettle
BY DEF LoginsSettling, LoginsSettle, LoginsQuiet, LoginsComing, LoginsTold

\* update_session_list_twice (users.c:442): provided no session ends while an
\* earlier end still awaits its refresh, the logins, the owner of our session and
\* is_live are right once all messages are handled, whatever sessions came and
\* went while replies were on their way and however long, below the timer's
\* five seconds, logind goes on listing those that ended.
THEOREM LoginsAreSettled == SpacedRemovals => (Spec => []LoginsSettle)
<1> SUFFICES ASSUME SpacedRemovals PROVE Spec => []LoginsSettle  OBVIOUS
<1>1. TypeOK /\ LoginsSettling /\ [Next]_vars => LoginsSettling'  BY LoginsSettlingNext
<1> QED BY <1>1, LoginsSettlingInit, LoginsSettled, TypeCorrect, PTL DEF Spec

-----------------------------------------------------------------------------
(* AccountsSettle: an account that exists is on its way, or the last thing *)
(* said of it is kept or queued; one that does not exist is not kept, or   *)
(* its deletion is still to be heard.                                      *)

IsProps(m, u) == m.type = "props" /\ m.uid = u
IsDeleted(m, u) == m.type = "user-deleted" /\ m.path = u
IsChanged(m, u) == m.type = "Changed" /\ m.path = u
IsNews(m, u) == (m.type = "user-added" /\ m.path = u) \/ (m.type = "list" /\ u \in m.paths)

\* What the queue q says of u after its place j.
NoProps(q, u, j) == \A k \in 1..Len(q) : k > j => ~IsProps(q[k], u)
NoDeletion(q, u, j) == \A k \in 1..Len(q) : k > j => ~IsDeleted(q[k], u)
SaysChanged(q, u, j) == \E k \in 1..Len(q) : k > j /\ IsChanged(q[k], u)
SaysNews(q, u) == \E k \in 1..Len(q) : IsNews(q[k], u)

Coming(u) == list_asked \/ asked[u] > 0 \/ SaysNews(acctmsg, u)

\* Place 0 is the directory itself, place j the j-th message.
Gives(u, j) == IF j = 0 THEN u \in DOMAIN uid_to_account ELSE IsProps(acctmsg[j], u)
InfoAt(u, j) == IF j = 0 THEN uid_to_account[u].info ELSE acctmsg[j].info
Held(u) ==
  \E j \in 0..Len(acctmsg) :
     /\ Gives(u, j) /\ NoProps(acctmsg, u, j) /\ NoDeletion(acctmsg, u, j)
     /\ InfoAt(u, j) = accts[u] \/ SaysChanged(acctmsg, u, j)
Leaves(u, j) == IF j = 0 THEN u \notin DOMAIN uid_to_account ELSE IsDeleted(acctmsg[j], u)
Left(u) == \E j \in 0..Len(acctmsg) : Leaves(u, j) /\ NoProps(acctmsg, u, j)

Told(u) == IF u \in DOMAIN accts THEN u \in SystemUids \/ Coming(u) \/ Held(u) ELSE Left(u)

\* Properties come from the account's own object, or from an object that is gone,
\* which gives none.
Own(m) ==
  m.type = "props" =>
    IF m.uid = PhantomUid THEN m.info = NoInfo
    ELSE m.path = m.uid /\ (m.system <=> m.uid \in SystemUids)
PropsAreOwn == \A i \in 1..Len(acctmsg) : Own(acctmsg[i])
RecordsAreOwn ==
  \A u \in DOMAIN uid_to_account :
     IF u = PhantomUid THEN uid_to_account[u].info = NoInfo
     ELSE uid_to_account[u].path = u /\ u \notin SystemUids

AccountsSettling ==
  /\ PropsAreOwn /\ RecordsAreOwn
  /\ life = "init" => acctmsg = << >> /\ uid_to_account = << >> /\ update_list_tag = 0
  /\ Running /\ ~faulty =>
       /\ proxies = AllProxies
       /\ \A u \in Uids : Told(u)

\* What a queue says when its head is taken, and when a message joins it.
LEMMA TailSays ==
  ASSUME NEW M, NEW q \in Seq(M), q # << >>, NEW u
  PROVE  /\ \A j \in Nat \ {0} :
              /\ NoProps(q, u, j) => NoProps(Tail(q), u, j - 1)
              /\ NoDeletion(q, u, j) => NoDeletion(Tail(q), u, j - 1)
              /\ SaysChanged(q, u, j) => SaysChanged(Tail(q), u, j - 1)
         /\ NoProps(q, u, 0) => ~IsProps(Head(q), u) /\ NoProps(Tail(q), u, 0)
         /\ NoDeletion(q, u, 0) => ~IsDeleted(Head(q), u) /\ NoDeletion(Tail(q), u, 0)
         /\ SaysChanged(q, u, 0) => IsChanged(Head(q), u) \/ SaysChanged(Tail(q), u, 0)
         /\ SaysNews(q, u) => IsNews(Head(q), u) \/ SaysNews(Tail(q), u)
<1> DEFINE t == Tail(q)
<1>1. /\ Len(t) = Len(q) - 1 /\ Len(q) \in Nat \ {0} /\ Head(q) = q[1]
      /\ \A k \in 1..Len(t) : t[k] = q[k + 1]
      /\ \A k \in 2..Len(q) : k - 1 \in 1..Len(t) /\ t[k - 1] = q[k]
  BY TailPlaces
<1> HIDE DEF t
<1>2. ASSUME NEW j \in Nat \ {0}
      PROVE  /\ NoProps(q, u, j) => NoProps(t, u, j - 1)
             /\ NoDeletion(q, u, j) => NoDeletion(t, u, j - 1)
             /\ SaysChanged(q, u, j) => SaysChanged(t, u, j - 1)
  <2>1. \A k \in 1..Len(t) : k > j - 1 => k + 1 \in 1..Len(q) /\ k + 1 > j /\ t[k] = q[k + 1]
    BY <1>1
  <2>2. \A k \in 1..Len(q) : k > j => k - 1 \in 1..Len(t) /\ k - 1 > j - 1 /\ t[k - 1] = q[k]
    BY <1>1
  <2> QED BY <2>1, <2>2 DEF NoProps, NoDeletion, SaysChanged
<1>3. \A k \in 1..Len(t) : k > 0 /\ k + 1 \in 1..Len(q) /\ k + 1 > 0 /\ t[k] = q[k + 1]
  BY <1>1
<1>4. \A k \in 1..Len(q) : q[k] = Head(q) \/ (k - 1 \in 1..Len(t) /\ k - 1 > 0 /\ t[k - 1] = q[k])
  <2> SUFFICES ASSUME NEW k \in 1..Len(q), q[k] # Head(q)
               PROVE  k - 1 \in 1..Len(t) /\ k - 1 > 0 /\ t[k - 1] = q[k]
    OBVIOUS
  <2>1. k \in 2..Len(q)  BY <1>1
  <2> QED BY <1>1, <2>1
<1>5. 1 \in 1..Len(q) /\ 1 > 0 /\ q[1] = Head(q)  BY <1>1
<1>6. NoProps(q, u, 0) => ~IsProps(Head(q), u) /\ NoProps(t, u, 0)
  BY <1>3, <1>5 DEF NoProps
<1>7. NoDeletion(q, u, 0) => ~IsDeleted(Head(q), u) /\ NoDeletion(t, u, 0)
  BY <1>3, <1>5 DEF NoDeletion
<1>8. SaysChanged(q, u, 0) => IsChanged(Head(q), u) \/ SaysChanged(t, u, 0)
  BY <1>4 DEF SaysChanged
<1>9. SaysNews(q, u) => IsNews(Head(q), u) \/ SaysNews(t, u)
  BY <1>4 DEF SaysNews
<1> QED BY <1>2, <1>6, <1>7, <1>8, <1>9 DEF t

LEMMA AppendSays ==
  ASSUME NEW M, NEW q \in Seq(M), NEW m \in M, NEW u
  PROVE  /\ \A j \in 0..Len(q) :
              /\ NoProps(q, u, j) /\ ~IsProps(m, u) => NoProps(Append(q, m), u, j)
              /\ NoDeletion(q, u, j) /\ ~IsDeleted(m, u) => NoDeletion(Append(q, m), u, j)
              /\ SaysChanged(q, u, j) \/ IsChanged(m, u) => SaysChanged(Append(q, m), u, j)
         /\ SaysNews(q, u) \/ IsNews(m, u) => SaysNews(Append(q, m), u)
         /\ NoProps(Append(q, m), u, Len(q) + 1) /\ NoDeletion(Append(q, m), u, Len(q) + 1)
<1> DEFINE a == Append(q, m)
<1>1. /\ Len(q) \in Nat /\ Len(a) = Len(q) + 1 /\ a[Len(q) + 1] = m
      /\ \A k \in 1..Len(q) : a[k] = q[k]
  BY AppendPlaces
<1> HIDE DEF a
<1>2. \A k \in 1..Len(a) : (k \in 1..Len(q) /\ a[k] = q[k]) \/ (k = Len(q) + 1 /\ a[k] = m)
  BY <1>1
<1>3. \A k \in 1..Len(q) : k \in 1..Len(a) /\ a[k] = q[k]  BY <1>1
<1>4. Len(q) + 1 \in 1..Len(a) /\ \A j \in 0..Len(q) : Len(q) + 1 > j  BY <1>1
<1>5. ASSUME NEW j \in 0..Len(q)
      PROVE  /\ NoProps(q, u, j) /\ ~IsProps(m, u) => NoProps(a, u, j)
             /\ NoDeletion(q, u, j) /\ ~IsDeleted(m, u) => NoDeletion(a, u, j)
             /\ SaysChanged(q, u, j) \/ IsChanged(m, u) => SaysChanged(a, u, j)
  BY <1>1, <1>2, <1>3, <1>4 DEF NoProps, NoDeletion, SaysChanged
<1>6. SaysNews(q, u) \/ IsNews(m, u) => SaysNews(a, u)
  BY <1>1, <1>3, <1>4 DEF SaysNews
<1>7. NoProps(a, u, Len(q) + 1) /\ NoDeletion(a, u, Len(q) + 1)
  BY <1>1 DEF NoProps, NoDeletion
<1> QED BY <1>5, <1>6, <1>7 DEF a

\* The head is taken: an account that was held is held still.
LEMMA HeldTaken ==
  ASSUME TypeOK, NEW u, acctmsg # << >>, acctmsg' = Tail(acctmsg), accts' = accts, Held(u),
         IsProps(Head(acctmsg), u) =>
           u \in DOMAIN uid_to_account' /\ uid_to_account'[u].info = Head(acctmsg).info,
         ~IsDeleted(Head(acctmsg), u) /\ ~IsProps(Head(acctmsg), u) /\ u \in DOMAIN uid_to_account =>
           /\ u \in DOMAIN uid_to_account' /\ uid_to_account'[u].info = uid_to_account[u].info
           /\ ~IsChanged(Head(acctmsg), u)
  PROVE  Held(u)'
<1>1. acctmsg \in Seq(AccountMsgs)  BY DEF TypeOK, AccountTypes
<1>2. /\ Len(acctmsg') = Len(acctmsg) - 1 /\ Len(acctmsg) \in Nat \ {0}
      /\ Head(acctmsg) = acctmsg[1]
      /\ \A k \in 2..Len(acctmsg) : k - 1 \in 1..Len(acctmsg') /\ acctmsg'[k - 1] = acctmsg[k]
  BY <1>1, TailPlaces
<1>3. PICK j \in 0..Len(acctmsg) :
        /\ Gives(u, j) /\ NoProps(acctmsg, u, j) /\ NoDeletion(acctmsg, u, j)
        /\ InfoAt(u, j) = accts[u] \/ SaysChanged(acctmsg, u, j)
  BY DEF Held
<1>4. CASE j = 0
  <2>1. /\ u \in DOMAIN uid_to_account
        /\ ~IsProps(Head(acctmsg), u) /\ NoProps(acctmsg', u, 0)
        /\ ~IsDeleted(Head(acctmsg), u) /\ NoDeletion(acctmsg', u, 0)
    BY <1>1, <1>3, <1>4, TailSays DEF Gives
  <2>2. /\ u \in DOMAIN uid_to_account' /\ uid_to_account'[u].info = uid_to_account[u].info
        /\ ~IsChanged(Head(acctmsg), u)
    BY <2>1
  <2>3. uid_to_account[u].info = accts[u] \/ SaysChanged(acctmsg, u, 0)
    BY <1>3, <1>4 DEF InfoAt
  <2>4. SaysChanged(acctmsg, u, 0) => SaysChanged(acctmsg', u, 0)
    BY <1>1, <2>2, TailSays
  <2>5. 0 \in 0..Len(acctmsg')  BY <1>2
  <2> QED BY <2>1, <2>2, <2>3, <2>4, <2>5 DEF Held, Gives, InfoAt
<1>5. CASE j # 0
  <2>1. j \in Nat \ {0} /\ j - 1 \in 0..Len(acctmsg')  BY <1>2, <1>3, <1>5
  <2>2. /\ NoProps(acctmsg', u, j - 1) /\ NoDeletion(acctmsg', u, j - 1)
        /\ SaysChanged(acctmsg, u, j) => SaysChanged(acctmsg', u, j - 1)
    BY <1>1, <1>3, <2>1, TailSays
  <2>3. IsProps(acctmsg[j], u) /\ InfoAt(u, j) = acctmsg[j].info  BY <1>3, <1>5 DEF Gives, InfoAt
  <2>4. PICK i \in 0..Len(acctmsg') : i = j - 1  BY <2>1
  <2>5. CASE j = 1
    <3>1. i = 0  BY <2>4, <2>5
    <3>2. u \in DOMAIN uid_to_account' /\ uid_to_account'[u].info = acctmsg[j].info
      BY <1>2, <2>3, <2>5
    <3> QED BY <1>3, <2>2, <2>3, <2>4, <3>1, <3>2 DEF Held, Gives, InfoAt
  <2>6. CASE j # 1
    <3>1. i # 0 /\ acctmsg'[i] = acctmsg[j]  BY <1>2, <1>3, <1>5, <2>4, <2>6
    <3> QED BY <1>3, <2>2, <2>3, <2>4, <3>1 DEF Held, Gives, InfoAt
  <2> QED BY <2>5, <2>6
<1> QED BY <1>4, <1>5

LEMMA HeldQueued ==
  ASSUME TypeOK, NEW u, NEW m \in AccountMsgs, acctmsg' = Append(acctmsg, m),
         uid_to_account' = uid_to_account, ~IsProps(m, u), ~IsDeleted(m, u),
         accts'[u] = accts[u] \/ IsChanged(m, u), Held(u)
  PROVE  Held(u)'
<1>1. acctmsg \in Seq(AccountMsgs)  BY DEF TypeOK, AccountTypes
<1>2. /\ Len(acctmsg') = Len(acctmsg) + 1 /\ Len(acctmsg) \in Nat
      /\ \A k \in 1..Len(acctmsg) : acctmsg'[k] = acctmsg[k]
  BY <1>1, AppendPlaces
<1>3. PICK j \in 0..Len(acctmsg) :
        /\ Gives(u, j) /\ NoProps(acctmsg, u, j) /\ NoDeletion(acctmsg, u, j)
        /\ InfoAt(u, j) = accts[u] \/ SaysChanged(acctmsg, u, j)
  BY DEF Held
<1>4. /\ NoProps(acctmsg', u, j) /\ NoDeletion(acctmsg', u, j)
      /\ SaysChanged(acctmsg, u, j) \/ IsChanged(m, u) => SaysChanged(acctmsg', u, j)
  BY <1>1, <1>3, AppendSays
<1>5. j \in 0..Len(acctmsg') /\ (j # 0 => acctmsg'[j] = acctmsg[j])  BY <1>2
<1>6. Gives(u, j)' /\ InfoAt(u, j)' = InfoAt(u, j)  BY <1>3, <1>5 DEF Gives, InfoAt
<1> QED BY <1>3, <1>4, <1>5, <1>6 DEF Held

LEMMA LeftTaken ==
  ASSUME TypeOK, NEW u, acctmsg # << >>, acctmsg' = Tail(acctmsg), Left(u),
         IsDeleted(Head(acctmsg), u) => u \notin DOMAIN uid_to_account',
         u \notin DOMAIN uid_to_account /\ ~IsProps(Head(acctmsg), u) =>
           u \notin DOMAIN uid_to_account'
  PROVE  Left(u)'
<1>1. acctmsg \in Seq(AccountMsgs)  BY DEF TypeOK, AccountTypes
<1>2. /\ Len(acctmsg') = Len(acctmsg) - 1 /\ Len(acctmsg) \in Nat \ {0}
      /\ Head(acctmsg) = acctmsg[1]
      /\ \A k \in 2..Len(acctmsg) : k - 1 \in 1..Len(acctmsg') /\ acctmsg'[k - 1] = acctmsg[k]
  BY <1>1, TailPlaces
<1>3. PICK j \in 0..Len(acctmsg) : Leaves(u, j) /\ NoProps(acctmsg, u, j)
  BY DEF Left
<1>4. CASE j = 0
  <2>1. u \notin DOMAIN uid_to_account /\ ~IsProps(Head(acctmsg), u) /\ NoProps(acctmsg', u, 0)
    BY <1>1, <1>3, <1>4, TailSays DEF Leaves
  <2>2. 0 \in 0..Len(acctmsg')  BY <1>2
  <2> QED BY <2>1, <2>2 DEF Left, Leaves
<1>5. CASE j # 0
  <2>1. PICK i \in 0..Len(acctmsg') : i = j - 1  BY <1>2, <1>3, <1>5
  <2>2. NoProps(acctmsg', u, i)
    <3>1. j \in Nat \ {0}  BY <1>3, <1>5
    <3> QED BY <1>1, <1>3, <2>1, <3>1, TailSays
  <2>3. IsDeleted(acctmsg[j], u)  BY <1>3, <1>5 DEF Leaves
  <2>4. CASE j = 1
    <3>1. i = 0 /\ u \notin DOMAIN uid_to_account'  BY <1>2, <2>1, <2>3, <2>4
    <3> QED BY <2>2, <3>1 DEF Left, Leaves
  <2>5. CASE j # 1
    <3>1. i # 0 /\ acctmsg'[i] = acctmsg[j]  BY <1>2, <1>3, <1>5, <2>1, <2>5
    <3> QED BY <2>2, <2>3, <3>1 DEF Left, Leaves
  <2> QED BY <2>4, <2>5
<1> QED BY <1>4, <1>5

LEMMA LeftQueued ==
  ASSUME TypeOK, NEW u, NEW m \in AccountMsgs, acctmsg' = Append(acctmsg, m),
         uid_to_account' = uid_to_account, ~IsProps(m, u), Left(u)
  PROVE  Left(u)'
<1>1. acctmsg \in Seq(AccountMsgs)  BY DEF TypeOK, AccountTypes
<1>2. /\ Len(acctmsg') = Len(acctmsg) + 1 /\ Len(acctmsg) \in Nat
      /\ \A k \in 1..Len(acctmsg) : acctmsg'[k] = acctmsg[k]
  BY <1>1, AppendPlaces
<1>3. PICK j \in 0..Len(acctmsg) : Leaves(u, j) /\ NoProps(acctmsg, u, j)
  BY DEF Left
<1>4. NoProps(acctmsg', u, j)  BY <1>1, <1>3, AppendSays
<1>5. j \in 0..Len(acctmsg') /\ (j # 0 => acctmsg'[j] = acctmsg[j])  BY <1>2
<1>6. Leaves(u, j)'  BY <1>3, <1>5 DEF Leaves
<1> QED BY <1>4, <1>5, <1>6 DEF Left

LEMMA OwnTaken ==
  ASSUME TypeOK, PropsAreOwn, acctmsg # << >>
  PROVE  /\ Own(Head(acctmsg))
         /\ acctmsg' = Tail(acctmsg) => PropsAreOwn'
<1>1. acctmsg \in Seq(AccountMsgs)  BY DEF TypeOK, AccountTypes
<1>2. /\ Len(Tail(acctmsg)) = Len(acctmsg) - 1 /\ Len(acctmsg) \in Nat \ {0}
      /\ Head(acctmsg) = acctmsg[1]
      /\ \A j \in 1..Len(Tail(acctmsg)) : Tail(acctmsg)[j] = acctmsg[j + 1]
  BY <1>1, TailPlaces
<1>3. 1 \in 1..Len(acctmsg) /\ \A j \in 1..Len(Tail(acctmsg)) : j + 1 \in 1..Len(acctmsg)
  BY <1>2
<1> QED BY <1>2, <1>3 DEF PropsAreOwn

LEMMA OwnQueued ==
  ASSUME TypeOK, PropsAreOwn, NEW m \in AccountMsgs, Own(m), acctmsg' = Append(acctmsg, m)
  PROVE  PropsAreOwn'
<1>1. acctmsg \in Seq(AccountMsgs)  BY DEF TypeOK, AccountTypes
<1>2. /\ Len(acctmsg') = Len(acctmsg) + 1 /\ Len(acctmsg) \in Nat
      /\ acctmsg'[Len(acctmsg) + 1] = m
      /\ \A j \in 1..Len(acctmsg) : acctmsg'[j] = acctmsg[j]
  BY <1>1, AppendPlaces
<1>3. \A j \in 1..Len(acctmsg') : j \in 1..Len(acctmsg) \/ j = Len(acctmsg) + 1
  BY <1>2
<1> QED BY <1>2, <1>3 DEF PropsAreOwn

\* AccountsService: each step's message speaks for the account it is about.
LEMMA ToldQueued ==
  ASSUME TypeOK, NEW u, NEW m \in AccountMsgs, acctmsg' = Append(acctmsg, m),
         uid_to_account' = uid_to_account, ~IsProps(m, u), ~IsDeleted(m, u),
         u \in DOMAIN accts' <=> u \in DOMAIN accts,
         u \in DOMAIN accts =>
           /\ accts'[u] = accts[u] \/ IsChanged(m, u)
           /\ asked'[u] = asked[u]
           /\ list_asked' = list_asked \/ IsNews(m, u),
         Told(u)
  PROVE  Told(u)'
<1>1. acctmsg \in Seq(AccountMsgs)  BY DEF TypeOK, AccountTypes
<1>2. SaysNews(acctmsg, u) \/ IsNews(m, u) => SaysNews(acctmsg', u)  BY <1>1, AppendSays
<1>3. u \in DOMAIN accts /\ Coming(u) => Coming(u)'  BY <1>2 DEF Coming
<1>4. u \in DOMAIN accts /\ Held(u) => Held(u)'  BY HeldQueued
<1>5. Left(u) => Left(u)'  BY LeftQueued
<1> QED BY <1>3, <1>4, <1>5 DEF Told

LEMMA ToldByService ==
  ASSUME TypeOK, AccountsService, proxies = AllProxies, ~faulty', NEW u \in Uids, Told(u)
  PROVE  Told(u)'
<1>0. /\ u # PhantomUid /\ acctmsg \in Seq(AccountMsgs) /\ asked \in [Uids -> Nat]
      /\ IsPartial(accts, Uids, Infos)
  BY UidsAssumption DEF PhantomUid, TypeOK, AccountTypes
<1>1. ASSUME NEW v \in Uids, NEW info \in Infos, AccountAdded(v, info)  PROVE Told(u)'
  <2>1. PICK m \in AccountMsgs : m = [type |-> "user-added", path |-> v]
    BY DEF AccountMsgs
  <2>2. /\ acctmsg' = Append(acctmsg, m) /\ accts' = Extend(accts, v, info)
        /\ UNCHANGED <<uid_to_account, asked, list_asked>>
    BY <1>1, <2>1 DEF AccountAdded, Announce, Deliver, AllProxies, objectVars
  <2>3. CASE u = v
    <3>1. IsNews(m, u)  BY <2>1, <2>3 DEF IsNews
    <3>2. SaysNews(acctmsg', u)  BY <1>0, <2>2, <3>1, AppendSays
    <3> QED BY <2>2, <2>3, <3>2 DEF Extend, Told, Coming
  <2>4. CASE u # v
    <3>1. ~IsProps(m, u) /\ ~IsDeleted(m, u)  BY <2>1 DEF IsProps, IsDeleted
    <3>2. (u \in DOMAIN accts' <=> u \in DOMAIN accts) /\ (u \in DOMAIN accts => accts'[u] = accts[u])
      BY <2>2, <2>4 DEF Extend
    <3> QED BY <2>2, <3>1, <3>2, ToldQueued
  <2> QED BY <2>3, <2>4
<1>2. ASSUME NEW v \in Uids, AccountDeleted(v)  PROVE Told(u)'
  <2>1. PICK m \in AccountMsgs : m = [type |-> "user-deleted", path |-> v]
    BY DEF AccountMsgs
  <2>2. /\ acctmsg' = Append(acctmsg, m) /\ accts' = Without(accts, v)
        /\ UNCHANGED <<uid_to_account, asked, list_asked>>
    BY <1>2, <2>1 DEF AccountDeleted, Announce, Deliver, AllProxies, objectVars
  <2>3. CASE u = v
    <3>1. PICK n \in Nat : n = Len(acctmsg) + 1  BY <1>0
    <3>2. n \in 0..Len(acctmsg') /\ n # 0 /\ acctmsg'[n] = m
      BY <1>0, <2>2, <3>1, AppendPlaces
    <3>3. NoProps(acctmsg', u, n)  BY <1>0, <2>2, <3>1, AppendSays
    <3>4. Left(u)'  BY <2>1, <2>3, <3>2, <3>3 DEF Left, Leaves, IsDeleted
    <3> QED BY <2>2, <2>3, <3>4 DEF Without, Told
  <2>4. CASE u # v
    <3>1. ~IsProps(m, u) /\ ~IsDeleted(m, u)  BY <2>1, <2>4 DEF IsProps, IsDeleted
    <3>2. (u \in DOMAIN accts' <=> u \in DOMAIN accts) /\ (u \in DOMAIN accts => accts'[u] = accts[u])
      BY <2>2, <2>4 DEF Without
    <3> QED BY <2>2, <3>1, <3>2, ToldQueued
  <2> QED BY <2>3, <2>4
<1>3. ASSUME NEW v \in Uids, NEW info \in Infos, AccountChanged(v, info)  PROVE Told(u)'
  <2>1. PICK m \in AccountMsgs : m = [type |-> "Changed", path |-> v]
    BY DEF AccountMsgs
  <2>2. /\ acctmsg' = Append(acctmsg, m) /\ accts' = Extend(accts, v, info) /\ v \in DOMAIN accts
        /\ UNCHANGED <<uid_to_account, asked, list_asked>>
    BY <1>3, <2>1 DEF AccountChanged, Announce, Deliver, AllProxies, objectVars
  <2>3. ~IsProps(m, u) /\ ~IsDeleted(m, u)  BY <2>1 DEF IsProps, IsDeleted
  <2>4. u \in DOMAIN accts' <=> u \in DOMAIN accts  BY <2>2 DEF Extend
  <2>5. u \in DOMAIN accts => accts'[u] = accts[u] \/ IsChanged(m, u)
    BY <2>1, <2>2 DEF Extend, IsChanged
  <2> QED BY <2>2, <2>3, <2>4, <2>5, ToldQueued
<1>4. CASE AnswerList
  <2>1. PICK m \in AccountMsgs : m = [type |-> "list", paths |-> DOMAIN accts]
    BY <1>0 DEF AccountMsgs, IsPartial
  <2>2. /\ acctmsg' = Append(acctmsg, m) /\ UNCHANGED <<uid_to_account, accts, asked>>
    BY <1>4, <2>1 DEF AnswerList, Deliver, objectVars
  <2>3. /\ ~IsProps(m, u) /\ ~IsDeleted(m, u)
        /\ u \in DOMAIN accts => IsNews(m, u)
    BY <2>1 DEF IsProps, IsDeleted, IsNews
  <2> QED BY <2>2, <2>3, ToldQueued
<1>5. ASSUME NEW v \in Uids, AnswerProps(v)  PROVE Told(u)'
  <2>1. /\ v \in DOMAIN accts =>
             acctmsg' = Append(acctmsg, [type |-> "props", path |-> v, uid |-> v,
                                         info |-> accts[v], system |-> v \in SystemUids])
        /\ v \notin DOMAIN accts =>
             acctmsg' = Append(acctmsg, [type |-> "props", path |-> v, uid |-> PhantomUid,
                                         info |-> NoInfo, system |-> FALSE])
        /\ asked' = [asked EXCEPT ![v] = @ - 1]
        /\ UNCHANGED <<uid_to_account, accts, list_asked>>
    BY <1>5 DEF AnswerProps, Deliver, objectVars
  <2>2. CASE v \in DOMAIN accts
    <3>1. PICK m \in AccountMsgs : m = [type |-> "props", path |-> v, uid |-> v,
                                        info |-> accts[v], system |-> v \in SystemUids]
      <4>1. [type |-> "props", path |-> v, uid |-> v, info |-> accts[v], system |-> v \in SystemUids]
               \in AccountMsgs
        BY <1>0, <2>2 DEF AccountMsgs, IsPartial, TrackableUids
      <4> QED BY <4>1, Zenon
    <3>2. m.type = "props" /\ m.uid = v /\ m.info = accts[v]  BY <3>1
    <3>3. acctmsg' = Append(acctmsg, m)  BY <2>1, <2>2, <3>1
    <3>4. CASE u = v
      <4>1. PICK n \in Nat : n = Len(acctmsg) + 1  BY <1>0
      <4>2. n \in 0..Len(acctmsg') /\ n # 0 /\ acctmsg'[n] = m
        BY <1>0, <3>3, <4>1, AppendPlaces
      <4>3. NoProps(acctmsg', u, n) /\ NoDeletion(acctmsg', u, n)
        BY <1>0, <3>3, <4>1, AppendSays
      <4>4. Held(u)'
        BY <2>1, <3>2, <3>4, <4>2, <4>3 DEF Held, Gives, InfoAt, IsProps
      <4> QED BY <2>1, <2>2, <3>4, <4>4 DEF Told
    <3>5. CASE u # v
      <4>1. ~IsProps(m, u) /\ ~IsDeleted(m, u)  BY <3>2, <3>5 DEF IsProps, IsDeleted
      <4>2. asked'[u] = asked[u]  BY <1>0, <2>1, <3>5
      <4> QED BY <2>1, <3>3, <4>1, <4>2, ToldQueued
    <3> QED BY <3>4, <3>5
  <2>3. CASE v \notin DOMAIN accts
    <3>1. PICK m \in AccountMsgs : m = [type |-> "props", path |-> v, uid |-> PhantomUid,
                                        info |-> NoInfo, system |-> FALSE]
      BY DEF AccountMsgs, TrackableUids
    <3>2. m.type = "props" /\ m.uid = PhantomUid  BY <3>1
    <3>3. acctmsg' = Append(acctmsg, m)  BY <2>1, <2>3, <3>1
    <3>4. ~IsProps(m, u) /\ ~IsDeleted(m, u)  BY <1>0, <3>2 DEF IsProps, IsDeleted
    <3>5. u \in DOMAIN accts => asked'[u] = asked[u]
      <4>1. u \in DOMAIN accts => u # v  BY <2>3
      <4> QED BY <1>0, <2>1, <4>1
    <3> QED BY <2>1, <3>3, <3>4, <3>5, ToldQueued
  <2> QED BY <2>2, <2>3
<1> QED BY <1>1, <1>2, <1>3, <1>4, <1>5 DEF AccountsService

\* The object: what it takes from the queue it keeps or asks about.
LEMMA ToldTaken ==
  ASSUME TypeOK, PropsAreOwn, RecordsAreOwn, NEW u \in Uids, Told(u),
         \/ OnUserProxyReady \/ OnUserListReady \/ OnUserAdded
         \/ OnUserChanged \/ OnUserDeleted \/ OnAccountsError
  PROVE  Told(u)'
<1> DEFINE head == Head(acctmsg)
<1>0. /\ u # PhantomUid /\ acctmsg \in Seq(AccountMsgs) /\ asked \in [Uids -> Nat]
      /\ IsPartial(uid_to_account, TrackableUids, Records)
  BY UidsAssumption DEF PhantomUid, TypeOK, ObjectTypes, AccountTypes
<1>1. /\ acctmsg # << >> /\ acctmsg' = Tail(acctmsg) /\ UNCHANGED <<accts, list_asked>>
  BY DEF NextAccountMsg, OnUserProxyReady, OnUserListReady,
     OnUserAdded, OnUserChanged, OnUserDeleted, OnAccountsError
<1>2. head \in AccountMsgs /\ Own(head)  BY <1>0, <1>1, OwnTaken
<1>3. ASSUME ~IsNews(head, u), asked'[u] = asked[u], Coming(u)  PROVE Coming(u)'
  <2>1. SaysNews(acctmsg, u) => SaysNews(acctmsg', u)  BY <1>0, <1>1, <1>3, TailSays
  <2> QED BY <1>1, <1>3, <2>1 DEF Coming
<1>4. ASSUME UNCHANGED uid_to_account, ~IsProps(head, u), ~IsDeleted(head, u), Left(u)
      PROVE  Left(u)'
  BY <1>1, <1>4, LeftTaken
<1>5. ASSUME UNCHANGED uid_to_account, ~IsProps(head, u), ~IsChanged(head, u), Held(u)
      PROVE  Held(u)'
  BY <1>1, <1>5, HeldTaken
<1> HIDE DEF head
<1>6. CASE OnUserProxyReady
  <2>1. /\ head.type = "props" /\ asked' = asked
        /\ IF head.system THEN UNCHANGED uid_to_account
           ELSE uid_to_account' = Extend(uid_to_account, head.uid, [path |-> head.path, info |-> head.info])
    BY <1>6 DEF OnUserProxyReady, NextAccountMsg, Track, head
  <2>2. ~IsNews(head, u) /\ ~IsDeleted(head, u) /\ ~IsChanged(head, u)
    BY <2>1 DEF IsNews, IsDeleted, IsChanged
  <2>3. CASE IsProps(head, u)
    <3>1. head.uid = u /\ (head.system <=> u \in SystemUids)
      BY <1>0, <1>2, <2>3 DEF IsProps, Own
    <3>2. u \notin SystemUids =>
            u \in DOMAIN uid_to_account' /\ uid_to_account'[u].info = head.info
      BY <2>1, <3>1 DEF Extend
    <3>3. u \notin SystemUids /\ Held(u) => Held(u)'
      BY <1>1, <2>2, <2>3, <3>2, HeldTaken DEF head
    <3>4. Left(u) => Left(u)'
      BY <1>1, <2>2, <2>3, LeftTaken DEF head
    <3> QED BY <1>1, <1>3, <2>1, <2>2, <3>3, <3>4 DEF Told
  <2>4. CASE ~IsProps(head, u)
    <3>1. head.uid # u  BY <2>1, <2>4 DEF IsProps
    <3>2. /\ u \in DOMAIN uid_to_account <=> u \in DOMAIN uid_to_account'
          /\ u \in DOMAIN uid_to_account => uid_to_account'[u].info = uid_to_account[u].info
      BY <2>1, <3>1 DEF Extend
    <3>3. Held(u) => Held(u)'
      BY <1>1, <2>2, <2>4, <3>2, HeldTaken DEF head
    <3>4. Left(u) => Left(u)'
      BY <1>1, <2>2, <2>4, <3>2, LeftTaken DEF head
    <3> QED BY <1>1, <1>3, <2>1, <2>2, <3>3, <3>4 DEF Told
  <2> QED BY <2>3, <2>4
<1>7. CASE OnUserListReady \/ OnUserAdded
  <2>1. /\ UNCHANGED uid_to_account
        /\ ~IsProps(head, u) /\ ~IsDeleted(head, u) /\ ~IsChanged(head, u)
    BY <1>7 DEF OnUserListReady, OnUserAdded, NextAccountMsg, objectVars, head,
       IsProps, IsDeleted, IsChanged
  <2>2. IF IsNews(head, u) THEN asked'[u] = asked[u] + 1 ELSE asked'[u] = asked[u]
    <3>1. CASE OnUserListReady
      BY <1>0, <3>1 DEF OnUserListReady, NextAccountMsg, IsNews, head
    <3>2. CASE OnUserAdded
      BY <1>0, <3>2 DEF OnUserAdded, NextAccountMsg, IsNews, head
    <3> QED BY <1>7, <3>1, <3>2
  <2>3. IsNews(head, u) => Coming(u)'  BY <1>0, <2>2 DEF Coming
  <2> QED BY <1>1, <1>3, <1>4, <1>5, <2>1, <2>2, <2>3 DEF Told
<1>8. CASE OnUserChanged
  <2>1. /\ UNCHANGED uid_to_account /\ head.type = "Changed"
        /\ asked' = [asked EXCEPT ![head.path] = @ + Cardinality(RecordsAt(head.path))]
    BY <1>8 DEF OnUserChanged, NextAccountMsg, objectVars, head
  <2>2. ~IsNews(head, u) /\ ~IsProps(head, u) /\ ~IsDeleted(head, u)
    BY <2>1 DEF IsNews, IsProps, IsDeleted
  <2>3. Left(u) => Left(u)'  BY <1>4, <2>1, <2>2
  <2>4. CASE ~IsChanged(head, u)
    <3>1. head.path # u  BY <2>1, <2>4 DEF IsChanged
    <3>2. asked'[u] = asked[u]  BY <1>0, <2>1, <3>1
    <3> QED BY <1>1, <1>3, <1>5, <2>1, <2>2, <2>3, <2>4, <3>2 DEF Told
  <2>5. CASE IsChanged(head, u)
    <3>1. head.path = u /\ asked'[u] = asked[u] + Cardinality(RecordsAt(u))
      BY <1>0, <2>1, <2>5 DEF IsChanged
    <3>2. Cardinality(RecordsAt(u)) \in Nat  BY RecordsAtFinite
    <3>3. Coming(u) => Coming(u)'
      <4>1. SaysNews(acctmsg, u) => SaysNews(acctmsg', u)
        BY <1>0, <1>1, <2>2, TailSays DEF head
      <4>2. asked[u] > 0 => asked'[u] > 0  BY <1>0, <3>1, <3>2
      <4> QED BY <1>1, <4>1, <4>2 DEF Coming
    <3>4. CASE u \in DOMAIN uid_to_account
      <4>1. u \in RecordsAt(u)  BY <1>0, <3>4 DEF RecordsAreOwn, RecordsAt
      <4>2. IsFiniteSet(RecordsAt(u))  BY RecordsAtFinite
      <4>3. Cardinality(RecordsAt(u)) # 0  BY <4>1, <4>2, FS_EmptySet
      <4>4. Coming(u)'  BY <1>0, <3>1, <3>2, <4>3 DEF Coming
      <4> QED BY <1>1, <2>3, <4>4 DEF Told
    <3>5. CASE u \notin DOMAIN uid_to_account
      <4>1. Held(u) => Held(u)'  BY <1>1, <2>1, <2>2, <3>5, HeldTaken DEF head
      <4> QED BY <1>1, <2>3, <3>3, <4>1 DEF Told
    <3> QED BY <3>4, <3>5
  <2> QED BY <2>4, <2>5
<1>9. CASE OnUserDeleted
  <2> DEFINE found == RecordsAt(head.path) \ {0}
  <2>1. /\ head.type = "user-deleted" /\ asked' = asked
        /\ IF found = {} THEN UNCHANGED uid_to_account
           ELSE \E uid \in found : uid_to_account' = Without(uid_to_account, uid)
    BY <1>9 DEF OnUserDeleted, NextAccountMsg, head
  <2>2. ~IsNews(head, u) /\ ~IsProps(head, u) /\ ~IsChanged(head, u)
    BY <2>1 DEF IsNews, IsProps, IsChanged
  <2>3. found \subseteq {head.path} /\ (u \in DOMAIN uid_to_account /\ u = head.path => u \in found)
    BY <1>0 DEF RecordsAreOwn, RecordsAt, PhantomUid
  <2>4. /\ IsDeleted(head, u) => u \notin DOMAIN uid_to_account'
        /\ u \notin DOMAIN uid_to_account => u \notin DOMAIN uid_to_account'
        /\ ~IsDeleted(head, u) /\ u \in DOMAIN uid_to_account =>
             u \in DOMAIN uid_to_account' /\ uid_to_account'[u] = uid_to_account[u]
    <3>1. IsDeleted(head, u) <=> u = head.path  BY <2>1 DEF IsDeleted
    <3>2. CASE found = {}  BY <2>1, <2>3, <3>1, <3>2
    <3>3. CASE found # {}
      <4>1. uid_to_account' = Without(uid_to_account, head.path)  BY <2>1, <2>3, <3>3
      <4> QED BY <3>1, <4>1 DEF Without
    <3> QED BY <3>2, <3>3
  <2>5. Held(u) => Held(u)'  BY <1>1, <2>2, <2>4, HeldTaken DEF head
  <2>6. Left(u) => Left(u)'  BY <1>1, <2>2, <2>4, LeftTaken DEF head
  <2> QED BY <1>1, <1>3, <2>1, <2>2, <2>5, <2>6 DEF Told
<1>10. CASE OnAccountsError
  <2>1. /\ UNCHANGED <<uid_to_account, asked>> /\ ~IsNews(head, u)
        /\ ~IsProps(head, u) /\ ~IsDeleted(head, u) /\ ~IsChanged(head, u)
    BY <1>10 DEF OnAccountsError, NextAccountMsg, objectVars, head,
       IsNews, IsProps, IsDeleted, IsChanged
  <2> QED BY <1>1, <1>3, <1>4, <1>5, <2>1 DEF Told
<1> QED BY <1>6, <1>7, <1>8, <1>9, <1>10

\* Records and properties stay their own account's.
LEMMA OwnNext ==
  ASSUME TypeOK, PropsAreOwn, RecordsAreOwn, Next
  PROVE  PropsAreOwn' /\ RecordsAreOwn'
<1>0. acctmsg \in Seq(AccountMsgs) /\ IsPartial(accts, Uids, Infos)  BY DEF TypeOK, AccountTypes
<1>1. CASE UNCHANGED <<uid_to_account, acctmsg>>
  BY <1>1 DEF PropsAreOwn, RecordsAreOwn
<1>2. CASE Dispose
  BY <1>2 DEF Dispose, PropsAreOwn, RecordsAreOwn
<1>3. CASE /\ acctmsg # << >> /\ acctmsg' = Tail(acctmsg)
           /\ \A u \in DOMAIN uid_to_account' :
                u \in DOMAIN uid_to_account /\ uid_to_account'[u] = uid_to_account[u]
  <2>1. PropsAreOwn'  BY <1>3, OwnTaken
  <2> QED BY <1>3, <2>1 DEF RecordsAreOwn
<1>4. CASE OnUserProxyReady /\ ~Head(acctmsg).system
  <2>1. /\ acctmsg # << >> /\ acctmsg' = Tail(acctmsg) /\ Head(acctmsg).type = "props"
        /\ uid_to_account' = Extend(uid_to_account, Head(acctmsg).uid,
                                    [path |-> Head(acctmsg).path, info |-> Head(acctmsg).info])
    BY <1>4 DEF OnUserProxyReady, NextAccountMsg, Track
  <2>2. PropsAreOwn' /\ Own(Head(acctmsg))  BY <2>1, OwnTaken
  <2>3. IF Head(acctmsg).uid = PhantomUid THEN Head(acctmsg).info = NoInfo
        ELSE Head(acctmsg).path = Head(acctmsg).uid /\ Head(acctmsg).uid \notin SystemUids
    BY <1>4, <2>1, <2>2 DEF Own
  <2> QED BY <2>1, <2>2, <2>3 DEF RecordsAreOwn, Extend
<1>5. CASE \/ OnUserListReady \/ OnUserAdded \/ OnUserChanged \/ OnAccountsError \/ OnUserDeleted
           \/ OnUserProxyReady
  <2>1. acctmsg # << >> /\ acctmsg' = Tail(acctmsg)
    BY <1>5 DEF OnUserListReady, OnUserAdded, OnUserChanged, OnAccountsError, OnUserDeleted,
       OnUserProxyReady, NextAccountMsg
  <2>2. \/ UNCHANGED uid_to_account \/ \E uid : uid_to_account' = Without(uid_to_account, uid)
        \/ OnUserProxyReady /\ ~Head(acctmsg).system
    BY <1>5 DEF OnUserListReady, OnUserAdded, OnUserChanged, OnAccountsError, OnUserDeleted,
       OnUserProxyReady, objectVars
  <2> QED BY <1>3, <1>4, <2>1, <2>2 DEF Without
<1>6. CASE AccountsService
  <2>1. uid_to_account' = uid_to_account
    <3>1. UNCHANGED objectVars
      BY <1>6, Zenon DEF AccountsService, AccountAdded, AccountDeleted, AccountChanged, AnswerList,
         AnswerProps
    <3> QED BY <3>1 DEF objectVars
  <2>2. \A m \in AccountMsgs : m.type # "props" => Own(m)  BY DEF Own
  <2>3. ASSUME NEW m \in AccountMsgs, Own(m), acctmsg' = Append(acctmsg, m)  PROVE PropsAreOwn'
    BY <2>3, OwnQueued
  <2>4. ASSUME NEW v \in Uids, AnswerProps(v)  PROVE PropsAreOwn'
    <3>1. CASE v \in DOMAIN accts /\
               acctmsg' = Append(acctmsg, [type |-> "props", path |-> v, uid |-> v,
                                           info |-> accts[v], system |-> v \in SystemUids])
      <4>1. [type |-> "props", path |-> v, uid |-> v, info |-> accts[v], system |-> v \in SystemUids]
               \in AccountMsgs
        BY <1>0, <3>1 DEF AccountMsgs, IsPartial, TrackableUids
      <4>2. Own([type |-> "props", path |-> v, uid |-> v, info |-> accts[v],
                 system |-> v \in SystemUids])
        BY UidsAssumption DEF Own, PhantomUid
      <4> QED BY <2>3, <3>1, <4>1, <4>2
    <3>2. CASE acctmsg' = Append(acctmsg, [type |-> "props", path |-> v, uid |-> PhantomUid,
                                           info |-> NoInfo, system |-> FALSE])
      <4>1. [type |-> "props", path |-> v, uid |-> PhantomUid, info |-> NoInfo, system |-> FALSE]
               \in AccountMsgs
        BY DEF AccountMsgs, TrackableUids
      <4>2. Own([type |-> "props", path |-> v, uid |-> PhantomUid, info |-> NoInfo, system |-> FALSE])
        BY DEF Own
      <4> QED BY <2>3, <3>2, <4>1, <4>2
    <3>3. CASE acctmsg' = Append(acctmsg, [type |-> "error"])
      <4>1. [type |-> "error"] \in AccountMsgs  BY DEF AccountMsgs
      <4> QED BY <2>2, <2>3, <3>3, <4>1
    <3> QED BY <2>4, <3>1, <3>2, <3>3 DEF AnswerProps, Deliver
  <2>5. ASSUME AnswerList  PROVE PropsAreOwn'
    <3>1. [type |-> "list", paths |-> DOMAIN accts] \in AccountMsgs /\ [type |-> "error"] \in AccountMsgs
      BY <1>0 DEF AccountMsgs, IsPartial
    <3>2. Own([type |-> "list", paths |-> DOMAIN accts]) /\ Own([type |-> "error"])
      BY DEF Own
    <3>3. \/ acctmsg' = Append(acctmsg, [type |-> "list", paths |-> DOMAIN accts])
          \/ acctmsg' = Append(acctmsg, [type |-> "error"])
      BY <2>5 DEF AnswerList, Deliver
    <3>4. CASE acctmsg' = Append(acctmsg, [type |-> "list", paths |-> DOMAIN accts])
      BY <2>3, <3>1, <3>2, <3>4
    <3>5. CASE acctmsg' = Append(acctmsg, [type |-> "error"])
      BY <2>3, <3>1, <3>2, <3>5
    <3> QED BY <3>3, <3>4, <3>5
  <2>6. ASSUME NEW v \in Uids,
               AccountDeleted(v) \/ \E info \in Infos : AccountAdded(v, info) \/ AccountChanged(v, info)
        PROVE  PropsAreOwn'
    <3>1. \/ UNCHANGED acctmsg
          \/ \E type \in {"user-added", "user-deleted", "Changed"} :
               acctmsg' = Append(acctmsg, [type |-> type, path |-> v])
      BY <2>6 DEF AccountDeleted, AccountAdded, AccountChanged, Announce, Deliver
    <3>2. \A type \in {"user-added", "user-deleted", "Changed"} :
            [type |-> type, path |-> v] \in AccountMsgs
      BY DEF AccountMsgs
    <3>3. CASE UNCHANGED acctmsg  BY <3>3 DEF PropsAreOwn
    <3> QED BY <2>2, <2>3, <3>1, <3>2, <3>3
  <2>7. RecordsAreOwn'  BY <2>1 DEF RecordsAreOwn
  <2> QED BY <1>6, <2>4, <2>5, <2>6, <2>7 DEF AccountsService
<1>7. CASE Start \/ Login1 \/ OnSessionNew \/ OnSessionRemoved \/ OnRefreshTimer
           \/ OnSessionListReady \/ OnSessionsError
  <2>1. UNCHANGED <<uid_to_account, acctmsg>>
    BY <1>7 DEF Start, SetProxies, Login1, SessionNew, SessionRemoved, GhostGone, ActiveSession,
       AnswerSessions, Tick, OnSessionNew, OnSessionRemoved, OnRefreshTimer,
       OnSessionListReady, OnSessionsError, objectVars, accountVars
  <2> QED BY <1>1, <2>1
<1> QED BY <1>2, <1>5, <1>6, <1>7 DEF Next, Object, World

LEMMA AccountsSettlingNext == TypeOK /\ AccountsSettling /\ [Next]_vars => AccountsSettling'
<1> SUFFICES ASSUME TypeOK, AccountsSettling, [Next]_vars PROVE AccountsSettling'  OBVIOUS
<1>1. CASE UNCHANGED vars
  <2>1. UNCHANGED <<life, proxies, uid_to_account, update_list_tag, faulty, accts, list_asked,
                    asked, acctmsg>>
    BY <1>1 DEF vars, objectVars, accountVars
  <2> QED BY <2>1 DEF AccountsSettling, PropsAreOwn, RecordsAreOwn, Running, Told, Coming, Held, Left,
      Gives, InfoAt, Leaves
<1>2. CASE Next
  <2>1. PropsAreOwn' /\ RecordsAreOwn'  BY <1>2, OwnNext DEF AccountsSettling
  <2>2. life' # "init" /\ (life = "init" => Start \/ Dispose)
    BY <1>2, StartsFirst DEF AccountsSettling
  <2> SUFFICES ASSUME Running', ~faulty'
               PROVE  proxies' = AllProxies /\ \A u \in Uids : Told(u)'
    BY <2>1, <2>2 DEF AccountsSettling
  <2>3. CASE life = "init"
    <3>1. Start  BY <2>2, <2>3 DEF Dispose, Running
    <3>2. acctmsg' = << >> /\ uid_to_account' = << >>
      BY <2>3, <3>1 DEF AccountsSettling, Start, SetProxies
    <3>3. proxies' = AllProxies /\ list_asked'  BY <2>3, <3>1, StartAsksTwice
    <3>4. \A u \in Uids : Coming(u)' /\ Left(u)'
      BY <3>2, <3>3 DEF Coming, Left, Leaves, NoProps
    <3> QED BY <3>3, <3>4 DEF Told
  <2>4. CASE life # "init"
    <3>1. /\ Running /\ ~faulty /\ proxies' = proxies /\ proxies = AllProxies
          /\ PropsAreOwn /\ RecordsAreOwn /\ \A u \in Uids : Told(u)
      BY <1>2, <2>4, StaysFaulty DEF AccountsSettling
    <3>2. CASE AccountsService  BY <3>1, <3>2, ToldByService
    <3>3. CASE OnUserProxyReady \/ OnUserListReady \/ OnUserAdded
               \/ OnUserChanged \/ OnUserDeleted \/ OnAccountsError
      BY <3>1, <3>3, ToldTaken
    <3>4. CASE Login1 \/ OnSessionNew \/ OnSessionRemoved \/ OnRefreshTimer
               \/ OnSessionListReady \/ OnSessionsError
      <4>1. UNCHANGED <<uid_to_account, accountVars>>
        BY <3>4 DEF Login1, SessionNew, SessionRemoved, GhostGone, ActiveSession,
           AnswerSessions, Tick, OnSessionNew, OnSessionRemoved, OnRefreshTimer,
           OnSessionListReady, OnSessionsError, objectVars
      <4>2. UNCHANGED <<uid_to_account, accts, list_asked, asked, acctmsg>>
        BY <4>1 DEF accountVars
      <4> QED BY <3>1, <4>2 DEF Told, Coming, Held, Left, Gives, InfoAt, Leaves
    <3>5. ~Dispose /\ ~Start  BY <2>4 DEF Dispose, Start, SetProxies, Running
    <3> QED BY <1>2, <3>2, <3>3, <3>4, <3>5 DEF Next, Object, World
  <2> QED BY <2>3, <2>4
<1> QED BY <1>1, <1>2

LEMMA AccountsSettlingInit == Init => AccountsSettling
BY DEF Init, AccountsSettling, Running, PropsAreOwn, RecordsAreOwn

LEMMA AccountsSettled == TypeOK /\ AccountsSettling => AccountsSettle
<1> SUFFICES ASSUME TypeOK, AccountsSettling, AccountsQuiet, ~faulty
             PROVE  /\ Known = DOMAIN accts \ SystemUids
                    /\ \A u \in Known : uid_to_account[u] = [path |-> u, info |-> accts[u]]
  BY DEF AccountsSettle
<1>1. /\ Running /\ acctmsg = << >> /\ ~list_asked /\ \A u \in Uids : asked[u] = 0
      /\ IsPartial(uid_to_account, TrackableUids, Records) /\ IsPartial(accts, Uids, Infos)
      /\ RecordsAreOwn /\ \A u \in Uids : Told(u)
  BY DEF AccountsQuiet, AccountsSettling, TypeOK, ObjectTypes, AccountTypes
<1>2. \A u \in Uids : /\ ~Coming(u)
                      /\ Left(u) => u \notin DOMAIN uid_to_account
                      /\ Held(u) => u \in DOMAIN uid_to_account /\ uid_to_account[u].info = accts[u]
  BY <1>1 DEF Coming, Left, Held, Leaves, Gives, InfoAt, SaysNews, SaysChanged
<1>3. Known \subseteq Uids /\ PhantomUid \notin Uids /\ DOMAIN accts \subseteq Uids
  BY <1>1, UidsAssumption DEF Known, TrackableUids, IsPartial, PhantomUid
<1>4. ASSUME NEW u \in Uids  PROVE u \in Known <=> u \in DOMAIN accts \ SystemUids
  BY <1>1, <1>2, <1>3 DEF Told, Known, RecordsAreOwn
<1>5. ASSUME NEW u \in Known  PROVE uid_to_account[u] = [path |-> u, info |-> accts[u]]
  <2>1. u \in DOMAIN accts /\ u \notin SystemUids /\ u \in Uids  BY <1>3, <1>4
  <2>2. uid_to_account[u].info = accts[u]  BY <1>1, <1>2, <2>1 DEF Told
  <2>3. uid_to_account[u].path = u  BY <1>1, <1>3, <2>1 DEF RecordsAreOwn, Known
  <2>4. uid_to_account[u] \in Records  BY <1>1 DEF Known, IsPartial
  <2> QED BY <2>2, <2>3, <2>4 DEF Records
<1>6. Known = DOMAIN accts \ SystemUids  BY <1>3, <1>4
<1> QED BY <1>5, <1>6

\* users.c: for any accounts and any number of messages on their way, the tracked
\* users are the human accounts that exist, each with its current properties, once
\* all is heard and answered, in whatever order accounts came, went and changed
\* while proxies for them were being created.
THEOREM AccountsAreSettled == Spec => []AccountsSettle
BY AccountsSettlingInit, AccountsSettlingNext, AccountsSettled, TypeCorrect, PTL DEF Spec

-----------------------------------------------------------------------------
(* SilentOnceDisposed: my_dispose leaves nothing that could call back.     *)

Silenced ==
  life = "disposed" =>
    /\ proxies = {} /\ update_list_tag = 0
    /\ ~list_asked /\ (\A u \in Uids : asked[u] = 0) /\ acctmsg = << >>
    /\ sessions_asked = 0 /\ login1msg = << >>

Reached == <<objectVars, list_asked, asked, acctmsg, sessions_asked, login1msg, mirror>>

LEMMA SilentStep ==
  ASSUME TypeOK, Silenced, life = "disposed", [Next]_vars
  PROVE  UNCHANGED Reached
<1>1. /\ proxies = {} /\ update_list_tag = 0 /\ ~list_asked
      /\ \A u \in Uids : ~(asked[u] > 0)
      /\ ~(sessions_asked > 0)
  BY DEF Silenced
<1>2. ~Object
  BY <1>1 DEF Object, Running, NextAccountMsg, NextLogin1Msg, OnUserProxyReady, OnUserListReady,
     OnUserAdded, OnUserChanged, OnUserDeleted, OnAccountsError, OnSessionNew,
     OnSessionRemoved, OnRefreshTimer, OnSessionListReady, OnSessionsError
<1>3. ~Start /\ ~Dispose  BY DEF Start, SetProxies, Dispose
<1>4. CASE AccountsService
  BY <1>1, <1>4 DEF AccountsService, AccountAdded, AccountDeleted, AccountChanged, Announce,
     AnswerList, AnswerProps, login1Vars, Reached
<1>5. CASE Tick  BY <1>1, <1>5 DEF Tick, objectVars, accountVars, Reached
<1>6. CASE Login1 /\ ~Tick
  BY <1>1, <1>6 DEF Login1, SessionNew, SessionRemoved, GhostGone, ActiveSession,
     AnswerSessions, Signal, accountVars, Reached
<1>7. CASE UNCHANGED vars  BY <1>7 DEF vars, accountVars, login1Vars, Reached
<1> QED BY <1>2, <1>3, <1>4, <1>5, <1>6, <1>7 DEF Next, World

LEMMA SilencedNext == TypeOK /\ Silenced /\ [Next]_vars => Silenced'
<1> SUFFICES ASSUME TypeOK, Silenced, [Next]_vars, life' = "disposed" PROVE Silenced'
  BY DEF Silenced
<1>1. CASE life = "disposed"
  <2>1. UNCHANGED Reached  BY <1>1, SilentStep
  <2> QED BY <1>1, <2>1 DEF Reached, objectVars, Silenced
<1>2. CASE Dispose  BY <1>2 DEF Dispose, Silenced
<1>3. CASE life # "disposed" /\ ~Dispose
  <2>1. ~Start /\ ~UNCHANGED vars
    BY <1>3 DEF Start, SetProxies, vars, objectVars
  <2>2. ~Object
    BY <1>3 DEF Object, OnUserProxyReady, OnUserListReady, OnUserAdded, OnUserChanged,
       OnUserDeleted, OnAccountsError, OnSessionNew, OnSessionRemoved, OnRefreshTimer,
       OnSessionListReady, OnSessionsError, objectVars
  <2>3. ~AccountsService
    BY <1>3 DEF AccountsService, AccountAdded, AccountDeleted, AccountChanged, AnswerList,
       AnswerProps, objectVars
  <2>4. ~Login1
    BY <1>3 DEF Login1, SessionNew, SessionRemoved, GhostGone, ActiveSession, AnswerSessions,
       Tick, objectVars
  <2> QED BY <1>3, <2>1, <2>2, <2>3, <2>4 DEF Next, World
<1> QED BY <1>1, <1>2, <1>3

\* my_dispose (users.c:603): whatever was pending when the object was disposed of, a
\* refresh timer, calls without an answer or undelivered signals, nothing of it
\* reaches the object afterwards.
THEOREM DisposedIsSilent == Spec => SilentOnceDisposed
<1>1. Init => Silenced  BY DEF Init, Silenced
<1>2. TypeOK /\ Silenced /\ [Next]_vars => [life = "disposed" => UNCHANGED Reached]_vars
  BY SilentStep
<1>3. SilentOnceDisposed <=> [][life = "disposed" => UNCHANGED Reached]_vars
  BY DEF SilentOnceDisposed, Reached
<1> QED BY <1>1, <1>2, <1>3, SilencedNext, TypeCorrect, PTL DEF Spec
=============================================================================
