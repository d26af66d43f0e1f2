--------------------------- MODULE Indicator_proofs ---------------------------
(***************************************************************************)
(* The composition of the user directory and the menu service implements   *)
(* the service's open specification: whatever the directory answers        *)
(* differently after a step, it announces in that step, for every set of   *)
(* accounts, sessions, settings and users.                                 *)
(*                                                                         *)
(* The argument needs little of the directory: its table is well typed,    *)
(* which SessionUsers_proofs shows; the service ends with it; and the      *)
(* service's live flag is the directory's.                                 *)
(*                                                                         *)
(* From this, and from what the two parts settle to on their own, follows  *)
(* that the menus tell the truth about the services behind them once       *)
(* nothing is on its way (MenusAreTrue).                                   *)
(***************************************************************************)
EXTENDS Indicator, TLAPS

\* The directory again, with what is proved of it.
D == INSTANCE SessionUsers_proofs WITH Uids <- AccountUids, Infos <- AccountInfos

\* The service again, likewise.
B == INSTANCE SessionService_proofs WITH
       Uids <- AccountUids \cup {U!PhantomUid}, Infos <- AccountInfos \cup {NoInfo},
       Mutable <- MutableInputs \cup {"is-live-session"}, backend <- U!View

-----------------------------------------------------------------------------
(* D and U are the same module with the same substitutions. *)

LEMMA SameAssumptions ==
  D!UidsAssumption /\ D!SessionsAssumption /\ D!TicksAssumption /\ D!BoundsAssumption
BY DirectoryAssumption
   DEF U!UidsAssumption, U!SessionsAssumption, U!TicksAssumption, U!BoundsAssumption,
       D!UidsAssumption, D!SessionsAssumption, D!TicksAssumption, D!BoundsAssumption,
       U!IsFiniteSet, D!IsFiniteSet

LEMMA SameInit == U!Init => D!Init
BY DEF U!Init, D!Init

LEMMA SameTypes == D!TypeOK => U!IsPartial(uid_to_account, U!TrackableUids, U!Records)
BY DEF D!TypeOK, D!ObjectTypes, D!IsPartial, U!IsPartial, D!Records, U!Records,
       D!TrackableUids, U!TrackableUids, D!PhantomUid, U!PhantomUid

LEMMA SameSteps == [U!Next]_(U!vars) => [D!Next]_(D!vars)
BY DEF D!objectVars, U!objectVars, D!accountVars, U!accountVars, D!login1Vars,
   U!login1Vars, D!vars, U!vars, D!PhantomUid, U!PhantomUid, D!Extend, U!Extend,
   D!Without, U!Without, D!Override, U!Override, D!SymDiff, U!SymDiff, D!UserOf,
   U!UserOf, D!Emitted, U!Emitted, D!AccountRoom, U!AccountRoom, D!Deliver, U!Deliver,
   D!Announce, U!Announce, D!AccountAdded, U!AccountAdded, D!AccountDeleted,
   U!AccountDeleted, D!AccountChanged, U!AccountChanged, D!AnswerList, U!AnswerList,
   D!AnswerProps, U!AnswerProps, D!AccountsService, U!AccountsService, D!Login1Room,
   U!Login1Room, D!Signal, U!Signal, D!SessionNew, U!SessionNew, D!RemovalPending,
   U!RemovalPending, D!SessionRemoved, U!SessionRemoved, D!GhostGone, U!GhostGone,
   D!ActiveSession, U!ActiveSession, D!AnswerSessions, U!AnswerSessions, D!Tick, U!Tick,
   D!Login1, U!Login1, D!Running, U!Running, D!Started, U!Started, D!NextAccountMsg,
   U!NextAccountMsg,
   D!Track, U!Track, D!OnUserProxyReady, U!OnUserProxyReady, D!OnUserListReady,
   U!OnUserListReady, D!OnUserAdded, U!OnUserAdded, D!RecordsAt, U!RecordsAt,
   D!OnUserChanged, U!OnUserChanged, D!OnUserDeleted, U!OnUserDeleted,
   D!OnAccountsError, U!OnAccountsError, D!NextLogin1Msg, U!NextLogin1Msg,
   D!CallListSessions, U!CallListSessions, D!Timer, U!Timer, D!OnSessionNew,
   U!OnSessionNew, D!OnSessionRemoved, U!OnSessionRemoved, D!OnRefreshTimer,
   U!OnRefreshTimer, D!SetActiveUid, U!SetActiveUid, D!SetLogins, U!SetLogins, D!OnSeat,
   U!OnSeat, D!OwnersOf, U!OwnersOf, D!ActiveAfter, U!ActiveAfter, D!LiveIn, U!LiveIn,
   D!OnSessionListReady, U!OnSessionListReady, D!OnSessionsError, U!OnSessionsError,
   D!AllProxies, U!AllProxies, D!SetProxies, U!SetProxies, D!Dispose, U!Dispose,
   D!Object, U!Object, D!Start, U!Start, D!World, U!World, D!Next, U!Next,
   D!Cardinality, U!Cardinality

-----------------------------------------------------------------------------
(* B and S are the same module with the same substitutions. *)

LEMMA SameServiceAssumptions ==
  B!UsersAssumption /\ B!InputsAssumption /\ B!MenuAssumption
BY ServiceAssumption
   DEF S!UsersAssumption, S!InputsAssumption, S!MenuAssumption,
       B!UsersAssumption, B!InputsAssumption, B!MenuAssumption, S!IsFiniteSet, B!IsFiniteSet,
       S!Inputs, B!Inputs, S!Settings, B!Settings, S!AdminKeys, B!AdminKeys,
       S!GuestProperties, B!GuestProperties, S!ActionProperties, B!ActionProperties,
       S!PlainItems, B!PlainItems, S!AskingItems, B!AskingItems, S!LockItems, B!LockItems,
       S!SwitchMenus, B!SwitchMenus

LEMMA SameNames ==
  /\ B!Inputs = S!Inputs /\ B!Written = S!Written /\ B!Notifying = S!Notifying
  /\ B!Settings = S!Settings /\ B!Slots = S!Slots /\ B!MenuSlots = S!MenuSlots
  /\ B!ActionSlots = S!ActionSlots /\ B!Profiles = S!Profiles
  /\ \A slot : B!Section(slot) = S!Section(slot) /\ B!Place(slot) = S!Place(slot)
  /\ \A key : B!Affected(key) = S!Affected(key) /\ B!On(key) = S!On(key)
  /\ B!Sections = S!Sections /\ B!Header = S!Header /\ B!User = S!User
BY DEF S!AdminKeys, B!AdminKeys, S!Settings, B!Settings, S!GuestProperties, B!GuestProperties,
       S!ActionProperties, B!ActionProperties, S!SettingBacked, B!SettingBacked, S!Written,
       B!Written, S!Notifying, B!Notifying, S!Inputs, B!Inputs, S!Sections, B!Sections,
       S!Header, B!Header, S!ActionSlots, B!ActionSlots, S!MenuSlots, B!MenuSlots, S!Slots,
       B!Slots, S!Place, B!Place, S!Section, B!Section, S!User, B!User, S!On, B!On,
       S!Affected, B!Affected, S!Profiles, B!Profiles

LEMMA SameSwitch ==
  /\ \A profile : B!LockItem(profile) = S!LockItem(profile)
  /\ \A profile, kept : B!Unusable(profile, kept) = S!Unusable(profile, kept)
  /\ \A profile, kept : B!SwitchItems(profile, kept) = S!SwitchItems(profile, kept)
  /\ B!ListsUsers = S!ListsUsers /\ B!Culls = S!Culls
BY DEF S!On, B!On, S!Ellipsis, B!Ellipsis, S!LockItem, B!LockItem, S!ListsUsers, B!ListsUsers,
       S!Candidates, B!Candidates, S!Unusable, B!Unusable, S!Listed, B!Listed, S!SwitchItems,
       B!SwitchItems, S!MoreUseful, B!MoreUseful, S!Culls, B!Culls, S!Cardinality, B!Cardinality

LEMMA SameContent == \A slot, kept : B!Content(slot, kept) = S!Content(slot, kept)
<1>1. /\ B!HeaderLabel = S!HeaderLabel /\ B!AdminItems = S!AdminItems
      /\ B!SettingsItems = S!SettingsItems /\ B!LogoutItems = S!LogoutItems
      /\ \A profile : B!SessionItems(profile) = S!SessionItems(profile)
      /\ B!GuestSwitcher = S!GuestSwitcher /\ B!UserSwitcher = S!UserSwitcher
  BY DEF S!On, B!On, S!Items, B!Items, S!CurrentUsers, B!CurrentUsers, S!CurrentNames,
         B!CurrentNames, S!HeaderLabel, B!HeaderLabel, S!AdminItems, B!AdminItems,
         S!SettingsItems, B!SettingsItems, S!Ellipsis, B!Ellipsis, S!LogoutItems, B!LogoutItems,
         S!SessionItems, B!SessionItems, S!GuestSwitcher, B!GuestSwitcher, S!UserSwitcher,
         B!UserSwitcher
<1> QED BY <1>1, SameNames, SameSwitch DEF S!Content, B!Content

LEMMA SameServiceInit == S!Init => B!Init
BY SameNames, SameContent DEF S!Init, B!Init

LEMMA SameRebuild == \A slots : S!Rebuild(slots) => B!Rebuild(slots)
BY SameNames, SameSwitch, SameContent DEF S!Rebuild, B!Rebuild

LEMMA SameFlags ==
  /\ \A sections : S!RebuildSoon(sections) => B!RebuildSoon(sections)
  /\ \A table, some, now : B!Added(table, some, now) = S!Added(table, some, now)
  /\ \A some, now : B!AddFlags(some, now) = S!AddFlags(some, now)
  /\ S!UserShowMenuChanged => B!UserShowMenuChanged
  /\ \A uid : S!OnUserRemoved(uid) => B!OnUserRemoved(uid)
BY DEF S!RebuildSoon, B!RebuildSoon, S!Added, B!Added, S!AddFlags, B!AddFlags,
       S!UserShowMenuChanged, B!UserShowMenuChanged, S!OnUserRemoved, B!OnUserRemoved,
       S!On, B!On

LEMMA SameAnnounced == \A some : S!UsersAnnounced(some) => B!UsersAnnounced(some)
BY SameNames, SameFlags DEF S!UsersAnnounced, B!UsersAnnounced, S!menuVars, B!menuVars

LEMMA SameServiceSteps == [S!OpenNext]_(S!vars) => [B!OpenNext]_(B!vars)
<1> SUFFICES ASSUME [S!OpenNext]_(S!vars) PROVE [B!OpenNext]_(B!vars)
  OBVIOUS
<1> USE SameNames, SameFlags
<1>1. UNCHANGED S!vars => UNCHANGED B!vars
  BY DEF S!vars, B!vars, S!inputVars, B!inputVars, S!menuVars, B!menuVars
<1>2. \A key : S!BackendNotify(key) => B!BackendNotify(key)
  BY DEF S!BackendNotify, B!BackendNotify, S!menuVars, B!menuVars
<1>3. \A key : S!WriteSetting(key) => B!WriteSetting(key)
  BY DEF S!WriteSetting, B!WriteSetting, S!menuVars, B!menuVars, S!CanLogoutAfter,
         B!CanLogoutAfter
<1>4. \A n : S!SetMaxUsers(n) => B!SetMaxUsers(n)
  BY DEF S!SetMaxUsers, B!SetMaxUsers, S!menuVars, B!menuVars
<1>5. S!UsersChange => B!UsersChange
  <2>1. \A now, u, user : B!WithUser(now, u, user) = S!WithUser(now, u, user)
    BY DEF S!WithUser, B!WithUser
  <2>2. B!NextBackends = S!NextBackends
    BY <2>1 DEF S!NextBackends, B!NextBackends
  <2>3. \A b : B!OneOwner(b) <=> S!OneOwner(b)
    BY DEF S!OneOwner, B!OneOwner
  <2> QED BY <2>2, <2>3, SameAnnounced DEF S!UsersChange, B!UsersChange
<1>6. S!AnyUsersChange => B!AnyUsersChange
  BY SameAnnounced DEF S!AnyUsersChange, B!AnyUsersChange, S!OneOwner, B!OneOwner, S!IsTable,
     B!IsTable
<1>7. \A uid : S!UserRemoved(uid) => B!UserRemoved(uid)
  BY DEF S!UserRemoved, B!UserRemoved, S!menuVars, B!menuVars
<1>8. \A key : S!SettingChanged(key) => B!SettingChanged(key)
  BY DEF S!SettingChanged, B!SettingChanged, S!menuVars, B!menuVars
<1>9. S!RebuildTimeout => B!RebuildTimeout
  BY SameRebuild DEF S!RebuildTimeout, B!RebuildTimeout, S!inputVars, B!inputVars
<1>10. S!OnBusAcquired => B!OnBusAcquired
  BY SameRebuild DEF S!OnBusAcquired, B!OnBusAcquired, S!inputVars, B!inputVars
<1>11. S!OnNameLost => B!OnNameLost
  BY DEF S!OnNameLost, B!OnNameLost, S!inputVars, B!inputVars
<1>12. S!Dispose => B!Dispose
  BY DEF S!Dispose, B!Dispose
<1>13. S!InputStep => B!InputStep
  BY <1>2, <1>3, <1>4, <1>5, <1>7 DEF S!InputStep, B!InputStep
<1>14. S!Next => B!Next
  BY <1>8, <1>9, <1>10, <1>11, <1>12, <1>13 DEF S!Next, B!Next
<1> QED BY <1>1, <1>6, <1>14 DEF S!OpenNext, B!OpenNext

-----------------------------------------------------------------------------
(* What the two parts know of each other. *)

IsPerson == U!IsPartial(uid_to_account, U!TrackableUids, U!Records)

\* They end together, and until then have the same live flag.
Together ==
  /\ alive <=> life # "disposed"
  /\ "is-live-session" \in DOMAIN env
  /\ alive => env["is-live-session"] = is_live

IInv == D!TypeOK /\ Together

-----------------------------------------------------------------------------
(* What the directory answers, as the service's table of users. *)

LEMMA ViewIs ==
  /\ DOMAIN U!View = DOMAIN uid_to_account
  /\ \A u \in DOMAIN uid_to_account :
       U!View[u] = U!UserOf(uid_to_account, active_uid, logins, u)
BY DEF U!View, U!Emitted

LEMMA ViewIsTable == IsPerson => S!IsTable(U!View) /\ S!OneOwner(U!View)
<1> SUFFICES ASSUME IsPerson PROVE S!IsTable(U!View) /\ S!OneOwner(U!View)
  OBVIOUS
<1>1. ASSUME NEW u \in DOMAIN uid_to_account  PROVE U!View[u] \in S!User
  <2>1. uid_to_account[u].info \in AccountInfos \cup {NoInfo}
    BY DEF IsPerson, U!IsPartial, U!Records
  <2>2. (u \in logins) \in BOOLEAN /\ (u = active_uid) \in BOOLEAN
    OBVIOUS
  <2>3. U!UserOf(uid_to_account, active_uid, logins, u) \in S!User
    BY <2>1, <2>2 DEF U!UserOf, S!User
  <2> QED BY <2>3, ViewIs
<1>2. U!View = [u \in DOMAIN U!View |-> U!View[u]]
  BY DEF U!View, U!Emitted
<1>3. DOMAIN U!View \subseteq AccountUids \cup {U!PhantomUid}
  BY ViewIs DEF IsPerson, U!IsPartial, U!TrackableUids
<1>4. S!IsTable(U!View)
  BY <1>1, <1>2, <1>3, ViewIs DEF S!IsTable
<1>5. ASSUME NEW u \in DOMAIN U!View, U!View[u].is_current_user  PROVE u = active_uid
  <2>1. U!UserOf(uid_to_account, active_uid, logins, u).is_current_user = (u = active_uid)
    BY DEF U!UserOf
  <2> QED BY <1>5, <2>1, ViewIs
<1>6. S!OneOwner(U!View)
  BY <1>5 DEF S!OneOwner
<1> QED BY <1>4, <1>6

LEMMA SameView ==
  ASSUME UNCHANGED <<uid_to_account, active_uid, logins>>
  PROVE  U!View' = U!View
BY DEF U!View, U!Emitted, U!UserOf

\* What the service hears is an announcement, if it is true and complete.
LEMMA HeardIsAnnounced ==
  ASSUME alive, IsPerson', env["is-live-session"] = is_live,
         NEW said, NEW live \in BOOLEAN, Hear(said, live),
         DOMAIN U!View \subseteq DOMAIN U!View',
         DOMAIN said \subseteq DOMAIN U!View',
         \A u \in DOMAIN said : said[u] = U!View'[u],
         \A u \in DOMAIN U!View' \ DOMAIN said :
            u \in DOMAIN U!View /\ U!View'[u] = U!View[u]
  PROVE  S!AnyUsersChange
<1> DEFINE some == DOMAIN said
<1>a. (S!IsTable(U!View) /\ S!OneOwner(U!View))'
  BY ViewIsTable, PTL
<1>1. S!IsTable(U!View') /\ S!OneOwner(U!View')
  BY <1>a DEF S!IsTable, S!OneOwner
<1>2. some \in SUBSET (AccountUids \cup {U!PhantomUid})
  BY <1>1 DEF S!IsTable
<1>3. S!Added(users, some, said) = S!Added(users, some, U!View')
  BY DEF S!Added
<1>4. S!AddFlags(some, said) = S!AddFlags(some, U!View')
  BY DEF S!AddFlags
<1>5. S!UsersAnnounced(some)
  BY <1>3, <1>4 DEF S!UsersAnnounced, S!On, Hear, S!menuVars
<1> QED BY <1>1, <1>2, <1>5 DEF S!AnyUsersChange

-----------------------------------------------------------------------------
(* The steps of both. *)

LEMMA ProxyReadyIsAnnounced ==
  ASSUME IsPerson', Together, is_live \in BOOLEAN, OnUserProxyReady  PROVE S!OpenNext
<1> DEFINE msg == Head(acctmsg)
           said == IF msg.system THEN << >>
                   ELSE U!Emitted({msg.uid}, uid_to_account', active_uid, logins)
<1>1. /\ alive /\ env["is-live-session"] = is_live
      /\ Hear(said, is_live) /\ UNCHANGED <<active_uid, logins>>
  BY DEF Together, OnUserProxyReady, U!OnUserProxyReady, U!NextAccountMsg, U!Running
<1>2. CASE msg.system
  <2>1. U!View' = U!View
    BY <1>1, <1>2, SameView DEF OnUserProxyReady, U!OnUserProxyReady
  <2>2. DOMAIN said = {}
    BY <1>2
  <2> HIDE DEF said
  <2>3. /\ DOMAIN said \subseteq DOMAIN U!View'
        /\ \A u \in DOMAIN said : said[u] = U!View'[u]
        /\ DOMAIN U!View \subseteq DOMAIN U!View'
        /\ \A u \in DOMAIN U!View' \ DOMAIN said : u \in DOMAIN U!View /\ U!View'[u] = U!View[u]
    BY <2>1, <2>2
  <2>4. S!AnyUsersChange
    BY <1>1, <2>3, HeardIsAnnounced
  <2> QED BY <2>4 DEF S!OpenNext
<1>3. CASE ~msg.system
  <2>1. uid_to_account' = U!Extend(uid_to_account, msg.uid, [path |-> msg.path, info |-> msg.info])
    BY <1>3 DEF OnUserProxyReady, U!OnUserProxyReady, U!Track
  <2>2. /\ DOMAIN U!View = DOMAIN uid_to_account
        /\ DOMAIN U!View' = DOMAIN uid_to_account \cup {msg.uid}
        /\ DOMAIN said = {msg.uid}
    BY <1>3, <2>1 DEF U!View, U!Emitted, U!Extend
  <2>3. said[msg.uid] = U!View'[msg.uid]
    BY <1>1, <1>3, <2>1 DEF U!View, U!Emitted, U!Extend
  <2>4. \A u \in DOMAIN uid_to_account \ {msg.uid} : U!View'[u] = U!View[u]
    BY <1>1, <2>1 DEF U!View, U!Emitted, U!Extend, U!UserOf
  <2> HIDE DEF said
  <2>5. \A u \in DOMAIN said : said[u] = U!View'[u]
    BY <2>2, <2>3
  <2>6. \A u \in DOMAIN U!View' \ DOMAIN said : u \in DOMAIN U!View /\ U!View'[u] = U!View[u]
    BY <2>2, <2>4
  <2>7. S!AnyUsersChange
    BY <1>1, <2>2, <2>5, <2>6, HeardIsAnnounced
  <2> QED BY <2>7 DEF S!OpenNext
<1> QED BY <1>2, <1>3

LEMMA SessionsAreAnnounced ==
  ASSUME IsPerson', Together, OnSessionListReady  PROVE S!OpenNext
<1> DEFINE ids == Head(login1msg).ids
           active == U!ActiveAfter(ids)
           in == U!OwnersOf(ids)
           first == U!SetActiveUid(active)
           second == U!SetLogins(active, in)
           said == U!Override(first, second)
<1>1. /\ alive /\ env["is-live-session"] = is_live
      /\ Hear(said, U!LiveIn(ids)) /\ U!LiveIn(ids) \in BOOLEAN
      /\ active_uid' = active /\ logins' = in /\ UNCHANGED uid_to_account
  BY DEF Together, OnSessionListReady, U!OnSessionListReady, U!NextLogin1Msg, U!Running, U!LiveIn
<1>2. /\ DOMAIN U!View = DOMAIN uid_to_account
      /\ \A u \in DOMAIN uid_to_account :
           U!View[u] = U!UserOf(uid_to_account, active_uid, logins, u)
  BY ViewIs
<1>3. /\ DOMAIN U!View' = DOMAIN uid_to_account
      /\ \A u \in DOMAIN uid_to_account :
           U!View'[u] = U!UserOf(uid_to_account, active, in, u)
  BY <1>1 DEF U!View, U!Emitted, U!UserOf
<1>4. /\ DOMAIN first = IF active = active_uid THEN {} ELSE {active_uid, active} \cap DOMAIN uid_to_account
      /\ \A u \in DOMAIN first : first[u] = U!UserOf(uid_to_account, active, logins, u)
  BY DEF U!SetActiveUid, U!Emitted
<1>5. /\ DOMAIN second = U!SymDiff(logins, in) \cap DOMAIN uid_to_account
      /\ \A u \in DOMAIN second : second[u] = U!UserOf(uid_to_account, active, in, u)
  BY DEF U!SetLogins, U!Emitted
<1>6. DOMAIN said = DOMAIN first \cup DOMAIN second
  BY DEF U!Override
<1>7. ASSUME NEW u \in DOMAIN said  PROVE said[u] = U!View'[u]
  <2>1. CASE u \in DOMAIN second
    <3>1. said[u] = second[u]  BY <1>6, <1>7, <2>1 DEF U!Override
    <3> QED BY <1>3, <1>5, <2>1, <3>1
  <2>2. CASE u \notin DOMAIN second
    <3>1. said[u] = first[u] /\ u \in DOMAIN first  BY <1>6, <1>7, <2>2 DEF U!Override
    <3>2. u \in DOMAIN uid_to_account  BY <1>4, <3>1
    <3>3. u \in in <=> u \in logins  BY <1>5, <2>2, <3>2 DEF U!SymDiff
    <3> QED BY <1>3, <1>4, <3>1, <3>2, <3>3 DEF U!UserOf
  <2> QED BY <2>1, <2>2
<1>8. ASSUME NEW u \in DOMAIN uid_to_account, u \notin DOMAIN said  PROVE U!View'[u] = U!View[u]
  <2>1. u \in in <=> u \in logins  BY <1>5, <1>6, <1>8 DEF U!SymDiff
  <2>2. u = active <=> u = active_uid  BY <1>4, <1>6, <1>8
  <2> QED BY <1>2, <1>3, <1>8, <2>1, <2>2 DEF U!UserOf
<1>9. DOMAIN said \subseteq DOMAIN uid_to_account  BY <1>4, <1>5, <1>6
<1>10. S!AnyUsersChange
  BY <1>1, <1>2, <1>3, <1>7, <1>8, <1>9, HeardIsAnnounced
<1> QED BY <1>10 DEF S!OpenNext

\* untrack_user takes out one user or none.
LEMMA DeletionIsRemoval ==
  ASSUME IsPerson, Together, OnUserDeleted
  PROVE  S!OpenNext \/ UNCHANGED S!vars
<1> DEFINE found == U!RecordsAt(Head(acctmsg).path) \ {0}
           gone == DOMAIN uid_to_account \ DOMAIN uid_to_account'
<1>1. alive /\ UNCHANGED <<active_uid, logins, alive, env, unseen, max_users, reported_users,
                           menus, exported, bus>>
  BY DEF Together, OnUserDeleted, U!OnUserDeleted, U!NextAccountMsg, U!Running
<1>2. /\ found = {} => UNCHANGED uid_to_account
      /\ found # {} => \E uid \in found : uid_to_account' = U!Without(uid_to_account, uid)
  BY DEF OnUserDeleted, U!OnUserDeleted
<1>3. /\ gone = {} => UNCHANGED <<users, rebuild_flags, rebuild_id>>
      /\ gone # {} => \E uid \in gone : S!OnUserRemoved(uid)
  BY DEF OnUserDeleted
<1>4. found \subseteq DOMAIN uid_to_account
  BY DEF U!RecordsAt
<1>5. CASE found = {}
  <2>1. UNCHANGED uid_to_account /\ gone = {}
    BY <1>2, <1>5
  <2>2. UNCHANGED <<users, rebuild_flags, rebuild_id>>
    BY <1>3, <2>1
  <2>3. U!View' = U!View
    BY <1>1, <2>1, SameView
  <2> QED BY <1>1, <2>2, <2>3 DEF S!vars, S!inputVars, S!menuVars
<1>6. CASE found # {}
  <2>1. PICK uid \in found : uid_to_account' = U!Without(uid_to_account, uid)
    BY <1>2, <1>6
  <2>2. uid \in DOMAIN uid_to_account /\ gone = {uid}
    BY <1>4, <2>1 DEF U!Without
  <2>3. S!OnUserRemoved(uid)
    BY <1>3, <2>2
  <2>4. U!View' = [u \in DOMAIN U!View \ {uid} |-> U!View[u]]
    BY <1>1, <2>1 DEF U!View, U!Emitted, U!UserOf, U!Without
  <2>5. uid \in DOMAIN U!View
    BY <2>2, ViewIs
  <2>6. uid \in AccountUids \cup {U!PhantomUid}
    BY <2>2 DEF IsPerson, U!IsPartial, U!TrackableUids
  <2>7. S!UserRemoved(uid)
    BY <1>1, <2>3, <2>4, <2>5 DEF S!UserRemoved, S!menuVars
  <2> QED BY <2>6, <2>7 DEF S!OpenNext, S!Next, S!InputStep
<1> QED BY <1>5, <1>6

-----------------------------------------------------------------------------
(* The steps of one part. *)

\* Nothing but the steps of both touches what the directory answers.
LEMMA QuietSteps ==
  \/ U!Start \/ U!World
  \/ U!OnUserListReady \/ U!OnUserAdded \/ U!OnUserChanged \/ U!OnAccountsError
  \/ U!OnSessionNew \/ U!OnSessionRemoved \/ U!OnRefreshTimer \/ U!OnSessionsError
  => UNCHANGED <<uid_to_account, active_uid, logins, is_live>>
BY DEF U!Start, U!SetProxies, U!World, U!AccountsService, U!AccountDeleted, U!AccountAdded,
       U!AccountChanged, U!AnswerList, U!AnswerProps, U!Login1, U!SessionNew, U!SessionRemoved,
       U!GhostGone, U!ActiveSession, U!AnswerSessions, U!Tick, U!objectVars, U!OnUserListReady,
       U!OnUserAdded, U!OnUserChanged, U!OnAccountsError, U!OnSessionNew, U!OnSessionRemoved,
       U!OnRefreshTimer, U!OnSessionsError

LEMMA UnseenByService ==
  ASSUME UNCHANGED <<uid_to_account, active_uid, logins, serviceVars>>
  PROVE  UNCHANGED S!vars
<1>1. U!View' = U!View
  BY SameView
<1> QED BY <1>1 DEF serviceVars, priv, S!vars, S!inputVars, S!menuVars

\* What the service does on its own it may do in its own specification.
LEMMA ServiceSteps == ServiceAlone => S!OpenNext
<1> SUFFICES ASSUME ServiceAlone PROVE S!Next
  BY DEF S!OpenNext
<1>1. CASE ServiceInput
  BY <1>1 DEF ServiceInput, S!Next, S!InputStep
<1>2. CASE ServiceHandler
  BY <1>2 DEF ServiceHandler, S!Next
<1>3. CASE S!OnBusAcquired \/ S!OnNameLost
  BY <1>3 DEF S!Next
<1> QED BY <1>1, <1>2, <1>3 DEF ServiceAlone

\* Every step is one of the service's specification, or not a step of it.
LEMMA StepKeepsPromise ==
  ASSUME IsPerson, IsPerson', Together, is_live \in BOOLEAN, [Next]_vars
  PROVE  [S!OpenNext]_(S!vars)
<1>1. CASE UNCHANGED vars
  BY <1>1, UnseenByService DEF vars, directoryVars
<1>2. CASE Quietly(U!Start)
  BY <1>2, QuietSteps, UnseenByService DEF Quietly
<1>3. CASE OnUserProxyReady
  BY <1>3, ProxyReadyIsAnnounced
<1>4. CASE OnSessionListReady
  BY <1>4, SessionsAreAnnounced
<1>5. CASE OnUserDeleted
  BY <1>5, DeletionIsRemoval
<1>6. CASE DirectoryAlone
  BY <1>6, QuietSteps, UnseenByService DEF DirectoryAlone, Quietly
<1>7. CASE Quietly(U!Started /\ U!World)
  BY <1>7, QuietSteps, UnseenByService DEF Quietly
<1>8. CASE ServiceAlone
  BY <1>8, ServiceSteps
<1>9. CASE Dispose
  BY <1>9 DEF Dispose, S!OpenNext, S!Next
<1> QED BY <1>1, <1>2, <1>3, <1>4, <1>5, <1>6, <1>7, <1>8, <1>9 DEF Next, Handler
-----------------------------------------------------------------------------
(* The invariant. *)

LEMMA DirectorySteps == [Next]_vars => [U!Next]_(U!vars)
<1>1. UNCHANGED directoryVars => UNCHANGED U!vars
  BY DEF directoryVars, U!vars, U!objectVars, U!accountVars, U!login1Vars
<1>2. Handler => U!Object
  BY DEF Handler, OnUserProxyReady, OnSessionListReady, OnUserDeleted, DirectoryAlone, Quietly,
         U!Object
<1> QED BY <1>1, <1>2 DEF Next, Quietly, ServiceAlone, Dispose, vars, U!Next

\* The service has no way to change the live flag but to hear of it.
LEMMA ServiceLeavesFlag ==
  ASSUME Together, ServiceAlone  PROVE Together'
<1>1. UNCHANGED <<life, is_live>>
  BY DEF ServiceAlone, directoryVars
<1>2. "is-live-session" \notin S!Notifying \cup S!Written \cup {"can-logout"}
  BY DEF S!Notifying, S!Written, S!GuestProperties, S!ActionProperties, S!SettingBacked,
         S!Settings, S!AdminKeys
<1>3. CASE UNCHANGED <<alive, env>>
  BY <1>1, <1>3 DEF Together
<1>4. ASSUME NEW key \in S!Notifying, S!BackendNotify(key)  PROVE Together'
  BY <1>1, <1>2, <1>4 DEF Together, S!BackendNotify
<1>5. ASSUME NEW key \in S!Written, S!WriteSetting(key)  PROVE Together'
  <2>1. alive' = alive /\ DOMAIN env' = DOMAIN env
        /\ env'["is-live-session"] = env["is-live-session"]
    BY <1>2, <1>5 DEF Together, S!WriteSetting
  <2> QED BY <1>1, <2>1 DEF Together
<1>6. CASE ServiceHandler \/ S!OnBusAcquired \/ S!OnNameLost
  BY <1>3, <1>6 DEF ServiceHandler, S!SettingChanged, S!RebuildTimeout, S!OnBusAcquired,
     S!OnNameLost, S!inputVars
<1>7. ASSUME NEW n \in MaxUsersChoices, S!SetMaxUsers(n)  PROVE Together'
  BY <1>3, <1>7 DEF S!SetMaxUsers
<1> QED BY <1>4, <1>5, <1>6, <1>7 DEF ServiceAlone, ServiceInput

LEMMA TogetherNext ==
  ASSUME Together, is_live' \in BOOLEAN, [Next]_vars  PROVE Together'
<1>1. CASE UNCHANGED <<life, is_live, alive, env>>
  BY <1>1 DEF Together
<1>2. ASSUME NEW said, NEW live, Hear(said, live), is_live' = live, UNCHANGED life
      PROVE  Together'
  BY <1>2 DEF Hear, Together
<1>3. CASE Quietly(U!Start)
  BY <1>3 DEF Quietly, U!Start, U!SetProxies, serviceVars, Together
<1>4. CASE OnUserProxyReady
  BY <1>2, <1>4 DEF OnUserProxyReady, U!OnUserProxyReady
<1>5. CASE OnSessionListReady
  BY <1>2, <1>5 DEF OnSessionListReady, U!OnSessionListReady
<1>6. CASE OnUserDeleted
  BY <1>1, <1>6 DEF OnUserDeleted, U!OnUserDeleted
<1>7. CASE DirectoryAlone
  BY <1>1, <1>7 DEF DirectoryAlone, Quietly, serviceVars, U!objectVars, U!OnUserListReady,
     U!OnUserAdded, U!OnUserChanged, U!OnAccountsError, U!OnSessionNew, U!OnSessionRemoved,
     U!OnRefreshTimer, U!OnSessionsError
<1>8. CASE Quietly(U!Started /\ U!World)
  BY <1>1, <1>8 DEF Quietly, serviceVars, U!World, U!AccountsService, U!AccountDeleted,
     U!AccountAdded, U!AccountChanged, U!AnswerList, U!AnswerProps, U!Login1, U!SessionNew,
     U!SessionRemoved, U!GhostGone, U!ActiveSession, U!AnswerSessions, U!Tick, U!objectVars
<1>9. CASE Dispose
  BY <1>9 DEF Dispose, U!Dispose, S!Dispose, Together
<1>10. CASE UNCHANGED vars
  BY <1>1, <1>10 DEF vars, directoryVars, serviceVars
<1> QED BY <1>3, <1>4, <1>5, <1>6, <1>7, <1>8, <1>9, <1>10, ServiceLeavesFlag DEF Next, Handler

LEMMA InvInit == Init => IInv
<1> SUFFICES ASSUME Init PROVE IInv  OBVIOUS
<1>1. D!TypeOK
  BY SameInit, SameAssumptions, D!TypeInit DEF Init
<1>2. /\ "is-live-session" \in S!Inputs
      /\ "is-live-session" \notin S!Settings
  BY DEF S!Inputs, S!Settings, S!AdminKeys, S!GuestProperties, S!ActionProperties
<1>3. "is-live-session" \in DOMAIN env /\ ~env["is-live-session"] /\ env["is-live-session"] \in BOOLEAN
  BY <1>2, ServiceAssumption DEF Init, S!Init, S!InputsAssumption
<1>4. Together
  BY <1>3 DEF Init, U!Init, S!Init, Together
<1> QED BY <1>1, <1>4 DEF IInv

LEMMA InvNext == IInv /\ [Next]_vars => IInv'
<1> SUFFICES ASSUME IInv, [Next]_vars PROVE IInv'  OBVIOUS
<1>1. D!TypeOK'
  BY DirectorySteps, SameSteps, SameAssumptions, D!TypeNext DEF IInv
<1>2. is_live' \in BOOLEAN
  BY <1>1 DEF D!TypeOK, D!ObjectTypes
<1>3. Together'
  BY <1>2, TogetherNext DEF IInv
<1> QED BY <1>1, <1>3 DEF IInv

-----------------------------------------------------------------------------
(* The refinement. *)

LEMMA InitKeepsPromise == Init => S!Init
BY DEF Init

LEMMA NextKeepsPromise == IInv /\ IInv' /\ [Next]_vars => [S!OpenNext]_(S!vars)
<1>1. IInv => IsPerson /\ is_live \in BOOLEAN
  BY SameTypes DEF IInv, IsPerson, D!TypeOK, D!ObjectTypes
<1>2. IInv' => IsPerson'
  BY <1>1, PTL
<1> QED BY <1>1, <1>2, StepKeepsPromise DEF IInv

\* The directory and the service, wired as they are, do only what the service's
\* open specification allows: what indicator_session_users_get_user answers
\* differently after a callback of users.c has been announced by a signal that
\* service.c handled in that callback, never has two owners of the session, and
\* a removed user is removed from the menus' table at once.  So the theorems of
\* SessionService_proofs hold of the program with its real directory.
THEOREM ServicePromiseKept == Spec => KeepsTheServicesPromise
BY InvInit, InvNext, InitKeepsPromise, NextKeepsPromise, PTL
   DEF Spec, KeepsTheServicesPromise, S!OpenSpec

-----------------------------------------------------------------------------
(* What the menus say when nothing is on its way.                          *)
(*                                                                         *)
(* The directory at rest knows the accounts and the sessions; the service  *)
(* at rest shows what the directory answers.                               *)

IndicatorInv == IInv /\ D!AccountsSettling /\ B!ServiceInv

LEMMA IndicatorInvInit == Init => IndicatorInv /\ D!LoginsSettling
<1> SUFFICES ASSUME Init PROVE IndicatorInv /\ D!LoginsSettling  OBVIOUS
<1>1. D!AccountsSettling /\ D!LoginsSettling
  BY SameInit, SameAssumptions, D!AccountsSettlingInit, D!LoginsSettlingInit DEF Init
<1>2. B!ServiceInv
  BY SameServiceInit, SameServiceAssumptions, B!ServiceInvInit DEF Init
<1> QED BY <1>1, <1>2, InvInit DEF IndicatorInv

LEMMA IndicatorInvNext == IndicatorInv /\ [Next]_vars => IndicatorInv'
<1> SUFFICES ASSUME IndicatorInv, [Next]_vars PROVE IndicatorInv'  OBVIOUS
<1>1. IInv /\ IInv'
  BY InvNext DEF IndicatorInv
<1>2. D!AccountsSettling'
  BY DirectorySteps, SameSteps, SameAssumptions, D!AccountsSettlingNext DEF IndicatorInv, IInv
<1>3. B!ServiceInv'
  BY <1>1, NextKeepsPromise, SameServiceSteps, SameServiceAssumptions, B!ServiceInvNext
     DEF IndicatorInv
<1> QED BY <1>1, <1>2, <1>3 DEF IndicatorInv

LEMMA LoginsNext ==
  ASSUME SpacedRemovals
  PROVE  IndicatorInv /\ D!LoginsSettling /\ [Next]_vars => D!LoginsSettling'
BY DirectorySteps, SameSteps, SameAssumptions, D!LoginsSettlingNext DEF IndicatorInv, IInv

\* The directory at rest has the human accounts, and maybe the phantom.
LEMMA AccountsAtRest ==
  ASSUME D!TypeOK, D!AccountsSettling, U!AccountsQuiet, ~faulty
  PROVE  /\ People = DOMAIN uid_to_account \ {U!PhantomUid}
         /\ \A u \in People : uid_to_account[u].info = accts[u]
         /\ U!PhantomUid \in DOMAIN uid_to_account => uid_to_account[U!PhantomUid].info = NoInfo
<1>1. D!AccountsQuiet
  BY DEF U!AccountsQuiet, D!AccountsQuiet, U!Running, D!Running
<1>2. D!AccountsSettle
  BY SameAssumptions, D!AccountsSettled
<1>3. D!Known = DOMAIN accts \ SystemUids
      /\ \A u \in D!Known : uid_to_account[u] = [path |-> u, info |-> accts[u]]
  BY <1>1, <1>2 DEF D!AccountsSettle
<1>4. People = DOMAIN uid_to_account \ {U!PhantomUid}
      /\ \A u \in People : uid_to_account[u].info = accts[u]
  BY <1>3 DEF People, D!Known, D!PhantomUid, U!PhantomUid
<1>5. U!PhantomUid \in DOMAIN uid_to_account => uid_to_account[U!PhantomUid].info = NoInfo
  BY DEF D!AccountsSettling, D!RecordsAreOwn, D!PhantomUid, U!PhantomUid
<1> QED BY <1>4, <1>5

\* It has the logins of the sessions there are.
LEMMA SessionsAtRest ==
  ASSUME D!TypeOK, D!LoginsSettling, U!LoginsQuiet, ~faulty
  PROVE  /\ logins = U!OwnersOf(listed) /\ U!PhantomUid \notin logins
         /\ is_live = U!LiveIn(listed)
         /\ Owner # U!PhantomUid
         /\ OwnerKnown => active_uid = Owner
<1>1. D!LoginsQuiet
  BY DEF U!LoginsQuiet, D!LoginsQuiet, U!Running, D!Running
<1>2. D!LoginsAccurate
  BY <1>1, SameAssumptions, D!LoginsSettled DEF D!LoginsSettle
<1>3. logins = U!OwnersOf(listed) /\ is_live = U!LiveIn(listed)
      /\ active_uid = U!ActiveAfter(listed)
  BY <1>2 DEF D!LoginsAccurate, D!OwnersOf, U!OwnersOf, D!LiveIn, U!LiveIn, D!ActiveAfter,
     U!ActiveAfter, D!OnSeat, U!OnSeat
<1>4. U!PhantomUid \notin AccountUids /\ logins \subseteq AccountUids /\ Owner \in AccountUids
  BY SameAssumptions DEF D!TypeOK, D!ObjectTypes, D!Login1Types, U!PhantomUid, Owner,
     D!UidsAssumption, D!SessionsAssumption
<1> QED BY <1>3, <1>4 DEF OwnerKnown, Owner, U!ActiveAfter

\* What the service at rest shows, in terms of what the directory has.
LEMMA ServiceAtRest ==
  ASSUME B!ServiceInv, alive, unseen = {}, ~rebuild_id
  PROVE  /\ \A profile \in {"desktop", "lockscreen"} :
              Shown(profile) # NoMenu =>
                \E kept \in B!Culls : Shown(profile) = B!SwitchItems(profile, kept)
         /\ menus[<<"user-switcher", "switch">>] = B!UserSwitcher
         /\ B!CurrentNames # {} => menus[B!Header] = B!HeaderLabel
         /\ \A u \in DOMAIN users :
              /\ u \in DOMAIN uid_to_account
              /\ users[u].info = uid_to_account[u].info
              /\ users[u].is_logged_in <=> u \in logins
              /\ users[u].is_current_user <=> u = active_uid
         /\ B!On("user-show-menu") => DOMAIN users = DOMAIN uid_to_account
<1>1. /\ \A profile \in {"desktop", "lockscreen"} :
           menus[<<profile, "switch">>] # NoMenu =>
             \E kept \in B!Culls : menus[<<profile, "switch">>] = B!SwitchItems(profile, kept)
      /\ menus[<<"user-switcher", "switch">>] = B!UserSwitcher
      /\ B!CurrentNames # {} => menus[B!Header] = B!HeaderLabel
      /\ \A u \in DOMAIN users : u \in DOMAIN U!View /\ users[u] = U!View[u]
      /\ B!On("user-show-menu") => DOMAIN users = DOMAIN U!View
  BY SameServiceAssumptions, B!AtRest
<1>2. \A u \in DOMAIN uid_to_account :
        /\ U!View[u].info = uid_to_account[u].info
        /\ U!View[u].is_logged_in <=> u \in logins
        /\ U!View[u].is_current_user <=> u = active_uid
  <2> SUFFICES ASSUME NEW u \in DOMAIN uid_to_account
               PROVE  /\ U!View[u].info = uid_to_account[u].info
                      /\ U!View[u].is_logged_in <=> u \in logins
                      /\ U!View[u].is_current_user <=> u = active_uid
    OBVIOUS
  <2>1. LET user == U!UserOf(uid_to_account, active_uid, logins, u)
        IN /\ user.info = uid_to_account[u].info
           /\ user.is_logged_in = (u \in logins)
           /\ user.is_current_user = (u = active_uid)
    BY DEF U!UserOf
  <2>2. U!View[u] = U!UserOf(uid_to_account, active_uid, logins, u)
    BY ViewIs
  <2> QED BY <2>1, <2>2
<1> QED BY <1>1, <1>2, ViewIs DEF Shown

\* The lists, if they have room for everybody.
LEMMA ListsTell ==
  ASSUME People = DOMAIN uid_to_account \ {U!PhantomUid},
         \A u \in People : uid_to_account[u].info = accts[u],
         U!PhantomUid \in DOMAIN uid_to_account => uid_to_account[U!PhantomUid].info = NoInfo,
         DOMAIN users = DOMAIN uid_to_account,
         \A u \in DOMAIN users :
            /\ users[u].info = uid_to_account[u].info
            /\ users[u].is_current_user <=> u = active_uid,
         \A profile \in {"desktop", "lockscreen"} :
            Shown(profile) # NoMenu =>
              \E kept \in B!Culls : Shown(profile) = B!SwitchItems(profile, kept),
         B!ListsUsers, Cardinality(DOMAIN users) <= max_users
  PROVE  /\ Shown("desktop") # NoMenu => Shown("desktop").users = Named(People)
         /\ Shown("lockscreen") # NoMenu =>
              Shown("lockscreen").users = Named(People \ {active_uid})
<1>1. B!Culls = {DOMAIN users}
  BY DEF B!Culls, B!Cardinality, Cardinality
<1>2. \A u \in DOMAIN users :
        /\ u \in People => LabelOf[users[u].info] = Label(u)
        /\ u \notin People => LabelOf[users[u].info] = NoLabel
  BY PhantomAssumption DEF Label
<1>3. People \subseteq DOMAIN users
  OBVIOUS
<1>4. ASSUME NEW profile, NEW some \in SUBSET People,
             B!Candidates(profile, DOMAIN users) \cap People = some
      PROVE  B!SwitchItems(profile, DOMAIN users).users = Named(some)
  <2>1. B!Listed(profile, DOMAIN users) = {u \in some : Label(u) # NoLabel}
    BY <1>2, <1>3, <1>4 DEF B!Listed, B!Unusable, B!Candidates
  <2>2. B!SwitchItems(profile, DOMAIN users).users =
          {<<u, LabelOf[users[u].info]>> : u \in B!Listed(profile, DOMAIN users)}
    BY DEF B!SwitchItems
  <2> QED BY <1>2, <1>3, <2>1, <2>2 DEF Named
<1>5. B!Candidates("desktop", DOMAIN users) \cap People = People
  BY <1>3 DEF B!Candidates
<1>6. B!Candidates("lockscreen", DOMAIN users) \cap People = People \ {active_uid}
  BY <1>3 DEF B!Candidates
<1>7. \A profile \in {"desktop", "lockscreen"} :
        Shown(profile) # NoMenu => Shown(profile) = B!SwitchItems(profile, DOMAIN users)
  BY <1>1
<1>8. People \ {active_uid} \in SUBSET People
  OBVIOUS
<1> QED BY <1>4, <1>5, <1>6, <1>7, <1>8

\* The state of the user switcher and the name in the panel.
LEMMA OwnerTells ==
  ASSUME People = DOMAIN uid_to_account \ {U!PhantomUid},
         \A u \in People : uid_to_account[u].info = accts[u],
         logins = U!OwnersOf(listed), U!PhantomUid \notin logins,
         Owner # U!PhantomUid, OwnerKnown => active_uid = Owner,
         DOMAIN users = DOMAIN uid_to_account,
         \A u \in DOMAIN users :
            /\ users[u].info = uid_to_account[u].info
            /\ users[u].is_logged_in <=> u \in logins
            /\ users[u].is_current_user <=> u = active_uid,
         menus[<<"user-switcher", "switch">>] = B!UserSwitcher,
         B!CurrentNames # {} => menus[B!Header] = B!HeaderLabel
  PROVE  SwitcherIsTrue /\ HeaderIsTrue
<1>1. {u \in DOMAIN users : users[u].is_logged_in} = People \cap U!OwnersOf(listed)
  OBVIOUS
<1>2. OwnerKnown => B!CurrentUsers = People \cap {Owner}
  BY DEF B!CurrentUsers
<1>3. SwitcherIsTrue
  BY <1>1, <1>2 DEF SwitcherIsTrue, B!UserSwitcher
<1>4. ASSUME OwnerKnown, Owner \in People, Label(Owner) # NoLabel,
             B!On("show-real-name-on-panel"), ~B!On("guest-is-active-session")
      PROVE  menus[B!Header] = {Label(Owner)}
  <2>1. B!CurrentUsers = {Owner}
    BY <1>2, <1>4
  <2>2. LabelOf[users[Owner].info] = Label(Owner)
    BY <1>4 DEF Label
  <2>3. B!CurrentNames = {Label(Owner)}
    BY <1>4, <2>1, <2>2 DEF B!CurrentNames
  <2> QED BY <1>4, <2>3 DEF B!HeaderLabel
<1>5. HeaderIsTrue
  BY <1>4, SameNames DEF HeaderIsTrue
<1> QED BY <1>3, <1>5

\* The live image's lock item.
LEMMA LockTells ==
  ASSUME env["is-live-session"] = is_live, is_live = U!LiveIn(listed),
         \A profile \in {"desktop", "lockscreen"} :
            Shown(profile) # NoMenu =>
              \E kept \in B!Culls : Shown(profile) = B!SwitchItems(profile, kept)
  PROVE  LockIsTrue
<1> SUFFICES ASSUME NEW profile \in {"desktop", "lockscreen"}, Shown(profile) # NoMenu
             PROVE  (\E i \in Shown(profile).lock : i[1] = "Start Screen Saver")
                      <=> bLocal /\ U!LiveIn(listed)
  BY DEF LockIsTrue
<1>1. Shown(profile).lock = IF bLocal THEN B!LockItem(profile) ELSE {}
  <2>1. PICK kept \in B!Culls : Shown(profile) = B!SwitchItems(profile, kept)
    OBVIOUS
  <2>2. B!SwitchItems(profile, kept).lock = IF bLocal THEN B!LockItem(profile) ELSE {}
    BY DEF B!SwitchItems
  <2> QED BY <2>1, <2>2
<1>2. B!On("is-live-session") <=> U!LiveIn(listed)
  BY DEF B!On
<1>3. (\E i \in B!LockItem(profile) : i[1] = "Start Screen Saver") <=> B!On("is-live-session")
  <2>1. B!On("is-live-session") =>
          B!LockItem(profile) =
            {<<"Start Screen Saver", "screensaver", FALSE, B!On("screensaver")>>}
    BY DEF B!LockItem
  <2>2. ~B!On("is-live-session") =>
          B!LockItem(profile) = {} \/
          \E label \in {"Switch Account", "Lock/Switch Account", "Lock"} :
             \E action, asks, saves : B!LockItem(profile) = {<<label, action, asks, saves>>}
    BY DEF B!LockItem
  <2>3. ASSUME B!On("is-live-session")
        PROVE  \E i \in B!LockItem(profile) : i[1] = "Start Screen Saver"
    <3> DEFINE item == <<"Start Screen Saver", "screensaver", FALSE, B!On("screensaver")>>
    <3>1. item[1] = "Start Screen Saver"
      OBVIOUS
    <3>2. B!LockItem(profile) = {item}
      BY <2>1, <2>3
    <3> HIDE DEF item
    <3> QED BY <3>1, <3>2, Zenon
  <2>4. ASSUME ~B!On("is-live-session"), NEW i \in B!LockItem(profile)
        PROVE  i[1] # "Start Screen Saver"
    <3>1. B!LockItem(profile) # {}
      BY <2>4
    <3>2. PICK label \in {"Switch Account", "Lock/Switch Account", "Lock"} :
             \E action, asks, saves : B!LockItem(profile) = {<<label, action, asks, saves>>}
      BY <2>2, <2>4, <3>1, Zenon
    <3>3. PICK action, asks, saves : B!LockItem(profile) = {<<label, action, asks, saves>>}
      BY <3>2, Zenon
    <3>4. i = <<label, action, asks, saves>>
      BY <2>4, <3>3
    <3>5. <<label, action, asks, saves>>[1] = label
      OBVIOUS
    <3> QED BY <3>4, <3>5
  <2> QED BY <2>3, <2>4
<1> QED BY <1>1, <1>2, <1>3

LEMMA QuietTellsTheTruth == IndicatorInv /\ D!LoginsSettling => MenusTellTheTruth
<1> SUFFICES ASSUME IndicatorInv, D!LoginsSettling, Quiet
             PROVE  /\ S!ListsUsers => ListsAreTrue /\ SwitcherIsTrue /\ HeaderIsTrue
                    /\ ~S!ListsUsers => \A profile \in {"desktop", "lockscreen"} :
                                           Shown(profile) # NoMenu => Shown(profile).users = {}
                    /\ LockIsTrue
  BY DEF MenusTellTheTruth
<1>1. /\ People = DOMAIN uid_to_account \ {U!PhantomUid}
      /\ \A u \in People : uid_to_account[u].info = accts[u]
      /\ U!PhantomUid \in DOMAIN uid_to_account => uid_to_account[U!PhantomUid].info = NoInfo
      /\ logins = U!OwnersOf(listed) /\ U!PhantomUid \notin logins
      /\ is_live = U!LiveIn(listed)
      /\ Owner # U!PhantomUid
      /\ OwnerKnown => active_uid = Owner
  BY AccountsAtRest, SessionsAtRest DEF IndicatorInv, IInv, Quiet
<1>2. /\ \A profile \in {"desktop", "lockscreen"} :
           Shown(profile) # NoMenu =>
             \E kept \in B!Culls : Shown(profile) = B!SwitchItems(profile, kept)
      /\ menus[<<"user-switcher", "switch">>] = B!UserSwitcher
      /\ B!CurrentNames # {} => menus[B!Header] = B!HeaderLabel
      /\ \A u \in DOMAIN users :
           /\ u \in DOMAIN uid_to_account
           /\ users[u].info = uid_to_account[u].info
           /\ users[u].is_logged_in <=> u \in logins
           /\ users[u].is_current_user <=> u = active_uid
      /\ B!On("user-show-menu") => DOMAIN users = DOMAIN uid_to_account
  BY ServiceAtRest DEF IndicatorInv, Quiet
<1>3. env["is-live-session"] = is_live
  BY DEF IndicatorInv, IInv, Together, Quiet
<1>4. ASSUME S!ListsUsers  PROVE ListsAreTrue /\ SwitcherIsTrue /\ HeaderIsTrue
  <2>1. B!ListsUsers /\ B!On("user-show-menu")
    BY <1>4, SameSwitch DEF B!ListsUsers
  <2>2. DOMAIN users = DOMAIN uid_to_account
    BY <1>2, <2>1
  <2>3. ListsAreTrue
    <3>1. Cardinality(DOMAIN users) <= max_users =>
            /\ Shown("desktop") # NoMenu => Shown("desktop").users = Named(People)
            /\ Shown("lockscreen") # NoMenu =>
                 Shown("lockscreen").users = Named(People \ {active_uid})
      BY <1>1, <1>2, <2>1, <2>2, ListsTell
    <3> QED BY <1>1, <3>1 DEF ListsAreTrue
  <2>4. SwitcherIsTrue /\ HeaderIsTrue
    BY <1>1, <1>2, <2>2, OwnerTells
  <2> QED BY <2>3, <2>4
<1>5. ASSUME ~S!ListsUsers, NEW profile \in {"desktop", "lockscreen"}, Shown(profile) # NoMenu
      PROVE  Shown(profile).users = {}
  <2>1. PICK kept \in B!Culls : Shown(profile) = B!SwitchItems(profile, kept)
    BY <1>2, <1>5
  <2>2. B!Listed(profile, kept) = {}
    BY <1>5, SameSwitch DEF B!Listed, B!Candidates
  <2> QED BY <2>1, <2>2 DEF B!SwitchItems
<1>6. LockIsTrue
  BY <1>1, <1>2, <1>3, LockTells
<1> QED BY <1>4, <1>5, <1>6

\* The program from end to end: when the traffic with AccountsService and logind
\* is over, the settings have been heard and no timer runs, the menus, the
\* switcher and the panel name the accounts, the logins and the owner there
\* really are, for any accounts, sessions and settings and whatever order all
\* their changes came in, as long as no session ends while an earlier end still
\* awaits its refresh (users.c:442).
THEOREM MenusAreTrue == SpacedRemovals => (Spec => []MenusTellTheTruth)
<1> SUFFICES ASSUME SpacedRemovals PROVE Spec => []MenusTellTheTruth  OBVIOUS
<1>1. IndicatorInv /\ D!LoginsSettling /\ [Next]_vars => (IndicatorInv /\ D!LoginsSettling)'
  BY IndicatorInvNext, LoginsNext
<1> QED BY <1>1, IndicatorInvInit, QuietTellsTheTruth, PTL DEF Spec

\* Who is listed does not depend on logind: once the traffic with AccountsService
\* is over, the settings have been heard and no rebuild is due, the desktop's list
\* names the accounts there are, whatever sessions come, go and linger meanwhile.
PeopleListed ==
  (/\ alive /\ U!AccountsQuiet /\ ~faulty
   /\ unseen = {} /\ ~rebuild_id
   /\ S!ListsUsers /\ Cardinality(DOMAIN users) <= max_users
   /\ Shown("desktop") # NoMenu)
  => Shown("desktop").users = Named(People)

LEMMA AccountsListed == IndicatorInv => PeopleListed
<1> SUFFICES ASSUME IndicatorInv, alive, U!AccountsQuiet, ~faulty, unseen = {}, ~rebuild_id,
                    S!ListsUsers, Cardinality(DOMAIN users) <= max_users,
                    Shown("desktop") # NoMenu
             PROVE  Shown("desktop").users = Named(People)
  BY DEF PeopleListed
<1>1. /\ People = DOMAIN uid_to_account \ {U!PhantomUid}
      /\ \A u \in People : uid_to_account[u].info = accts[u]
      /\ U!PhantomUid \in DOMAIN uid_to_account => uid_to_account[U!PhantomUid].info = NoInfo
  BY AccountsAtRest DEF IndicatorInv, IInv
<1>2. /\ \A profile \in {"desktop", "lockscreen"} :
           Shown(profile) # NoMenu =>
             \E kept \in B!Culls : Shown(profile) = B!SwitchItems(profile, kept)
      /\ \A u \in DOMAIN users :
           /\ u \in DOMAIN uid_to_account
           /\ users[u].info = uid_to_account[u].info
           /\ users[u].is_current_user <=> u = active_uid
      /\ B!On("user-show-menu") => DOMAIN users = DOMAIN uid_to_account
  BY ServiceAtRest DEF IndicatorInv
<1>3. B!ListsUsers /\ DOMAIN users = DOMAIN uid_to_account
  BY <1>2, SameSwitch DEF B!ListsUsers
<1> QED BY <1>1, <1>2, <1>3, ListsTell

\* No change of an account is lost on its way to the menu, for any accounts and
\* any sessions, and however the removals of sessions fall: here no assumption
\* like SpacedRemovals is needed.
THEOREM PeopleAreListed == Spec => []PeopleListed
<1>1. Init => IndicatorInv
  BY IndicatorInvInit
<1> QED BY <1>1, IndicatorInvNext, AccountsListed, PTL DEF Spec
=============================================================================
