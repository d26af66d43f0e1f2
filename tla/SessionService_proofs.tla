------------------------ MODULE SessionService_proofs ------------------------
(***************************************************************************)
(* Proofs about SessionService, for every set of users and every choice of *)
(* settings: TypeOK; that no menu section or switcher state is ever stale  *)
(* without its rebuild being on its way (StaleIsScheduled); that the table *)
(* of users is current and the owner listed; and the same for the panel    *)
(* header (HeaderIsScheduled), which rests on there being one owner; and   *)
(* that what is on the bus exists until dispose takes it all back          *)
(* (CleanShutdown).                                                        *)
(***************************************************************************)
EXTENDS SessionService, FiniteSetTheorems, TLAPS

-----------------------------------------------------------------------------
(* Which inputs each section reads. *)

Reads(section) ==
  CASE section = "header" -> {"show-real-name-on-panel", "guest-is-active-session"}
    [] section = "admin" -> AdminKeys \ {"usage-mode"}
    [] section = "settings" -> {"has-online-account-error"}
    [] section = "logout" -> {"can-logout", "can-prompt", "suppress-logout-restart-shutdown"}
    [] section = "session" -> {"can-suspend", "can-hibernate", "can-reboot", "can-prompt",
                               "suppress-logout-restart-shutdown", "suppress-shutdown-menuitem"}
    [] OTHER -> {"is-live-session", "guest-is-active-session", "guest-is-logged-in",
                 "guest-is-allowed", "can-switch", "can-lock", "can-prompt", "user-show-menu",
                 "suppress-logout-restart-shutdown", "screensaver"}

\* Every input a section reads is connected to a rebuild of that section.
LEMMA ReadsAreConnected ==
  ASSUME NEW section \in Sections, NEW key \in Reads(section)
  PROVE  key \in Inputs /\ section \in Affected(key)
BY DEF Sections, Reads, Affected, Inputs, Settings, Notifying, GuestProperties,
   ActionProperties, SettingBacked, Written, AdminKeys

\* The places and sections of the slots.
LEMMA SlotParts ==
  ASSUME NEW slot \in Slots
  PROVE  /\ Section(slot) \in Sections
         /\ slot # Header => Section(slot) # "header"
         /\ slot = Header => Section(slot) = "header"
         /\ Place(slot) \in {"guest-switcher", "user-switcher"} => Section(slot) = "switch"
BY DEF Slots, ActionSlots, MenuSlots, Header, Section, Place, Sections

\* A section that is neither the header nor the switch section does not read
\* the users table; no section shows anything else than its Reads, the table
\* and max-users.
LEMMA ContentReads ==
  ASSUME NEW slot \in Slots,
         \A key \in Reads(Section(slot)) : env'[key] = env[key],
         Section(slot) \in {"header", "switch"} => UNCHANGED <<users, max_users>>
  PROVE  \A kept : Content(slot, kept)' = Content(slot, kept)
<1> SUFFICES ASSUME NEW kept PROVE Content(slot, kept)' = Content(slot, kept)
  OBVIOUS
<1>1. CASE Section(slot) = "header"
  <2>1. On("show-real-name-on-panel")' = On("show-real-name-on-panel")
        /\ On("guest-is-active-session")' = On("guest-is-active-session")
    BY <1>1 DEF Reads, On
  <2>2. CurrentNames' = CurrentNames  BY <1>1, <2>1 DEF CurrentNames, CurrentUsers
  <2>3. HeaderLabel' = HeaderLabel  BY <2>1, <2>2 DEF HeaderLabel
  <2> QED BY <1>1, <2>3, SlotParts DEF Content
<1>2. CASE Section(slot) = "admin"
  <2>1. \A key \in AdminKeys \ {"usage-mode"} : On(key)' = On(key)
    BY <1>2 DEF Reads, On
  <2>2. AdminItems' = AdminItems
    BY <2>1 DEF AdminItems, AdminKeys
  <2> QED BY <1>2, <2>2, SlotParts DEF Content
<1>3. CASE Section(slot) = "settings"
  <2>1. On("has-online-account-error")' = On("has-online-account-error")
    BY <1>3 DEF Reads, On
  <2>2. SettingsItems' = SettingsItems  BY <2>1 DEF SettingsItems
  <2> QED BY <1>3, <2>2, SlotParts DEF Content
<1>4. CASE Section(slot) = "logout"
  <2>1. /\ On("can-logout")' = On("can-logout")
        /\ Ellipsis' = Ellipsis
    BY <1>4 DEF Reads, On, Ellipsis
  <2>2. LogoutItems' = LogoutItems  BY <2>1 DEF LogoutItems
  <2> QED BY <1>4, <2>2, SlotParts DEF Content
<1>5. CASE Section(slot) = "session"
  <2>1. /\ On("can-suspend")' = On("can-suspend")
        /\ On("can-hibernate")' = On("can-hibernate")
        /\ On("can-reboot")' = On("can-reboot")
        /\ On("suppress-shutdown-menuitem")' = On("suppress-shutdown-menuitem")
        /\ Ellipsis' = Ellipsis
    BY <1>5 DEF Reads, On, Ellipsis
  <2>2. SessionItems(Place(slot))' = SessionItems(Place(slot))
    BY <2>1 DEF SessionItems
  <2> QED BY <1>5, <2>2, SlotParts DEF Content
<1>6. CASE Section(slot) = "switch"
  <2>1. /\ On("is-live-session")' = On("is-live-session")
        /\ On("guest-is-active-session")' = On("guest-is-active-session")
        /\ On("guest-is-logged-in")' = On("guest-is-logged-in")
        /\ On("guest-is-allowed")' = On("guest-is-allowed")
        /\ On("can-switch")' = On("can-switch")
        /\ On("can-lock")' = On("can-lock")
        /\ On("user-show-menu")' = On("user-show-menu")
        /\ On("screensaver")' = On("screensaver")
        /\ Ellipsis' = Ellipsis
    BY <1>6 DEF Reads, On, Ellipsis
  <2>2. UNCHANGED <<users, max_users>>  BY <1>6
  <2>3. GuestSwitcher' = GuestSwitcher  BY <2>1 DEF GuestSwitcher
  <2>4. UserSwitcher' = UserSwitcher  BY <2>2 DEF UserSwitcher, CurrentUsers
  <2>5. LockItem(Place(slot))' = LockItem(Place(slot))
    BY <2>1, <2>2 DEF LockItem
  <2>6. Listed(Place(slot), kept)' = Listed(Place(slot), kept)
    BY <2>1, <2>2 DEF Listed, Candidates, Unusable, ListsUsers
  <2>7. SwitchItems(Place(slot), kept)' = SwitchItems(Place(slot), kept)
    BY <2>1, <2>2, <2>5, <2>6 DEF SwitchItems
  <2> QED BY <1>6, <2>3, <2>4, <2>7, SlotParts DEF Content
<1> QED BY <1>1, <1>2, <1>3, <1>4, <1>5, <1>6, SlotParts DEF Sections

\* Outside the switch section the choice of the users kept does not matter.
LEMMA KeptMatters ==
  ASSUME NEW slot \in Slots, Section(slot) # "switch", NEW kept
  PROVE  Content(slot, kept) = Content(slot, {})
BY SlotParts DEF Content, Sections

\* What is up to date stays so while its section's inputs stay the same: for
\* the menus and switchers, only the switch section reads the table.
LEMMA FreshStays ==
  ASSUME NEW slot \in Slots,
         \A key \in Reads(Section(slot)) : env'[key] = env[key],
         Section(slot) \in {"header", "switch"} => UNCHANGED <<users, max_users>>,
         menus'[slot] = menus[slot],
         Stale(slot)'
  PROVE  Stale(slot)
<1>1. \A kept : Content(slot, kept)' = Content(slot, kept)  BY ContentReads
<1>2. CASE Section(slot) = "switch"
  <2>1. Culls' = Culls  BY <1>2 DEF Culls
  <2> QED BY <1>1, <1>2, <2>1 DEF Stale, Shows
<1>3. CASE Section(slot) # "switch"
  BY <1>1, <1>3 DEF Stale, Shows
<1> QED BY <1>2, <1>3

\* What Rebuild has just rebuilt is up to date.
LEMMA RebuiltIsFresh ==
  ASSUME NEW slots \in SUBSET Slots, Rebuild(slots), NEW slot \in slots,
         UNCHANGED <<env, users, max_users>>
  PROVE  ~Stale(slot)'
<1>1. PICK kept \in Culls : menus'[slot] = Content(slot, kept)  BY DEF Rebuild
<1>2. Content(slot, kept)' = Content(slot, kept)  BY ContentReads
<1>3. Culls' = Culls  BY DEF Culls
<1>4. CASE Section(slot) = "switch"
  BY <1>1, <1>2, <1>3, <1>4 DEF Stale, Shows
<1>5. CASE Section(slot) # "switch"
  <2>1. Content(slot, kept) = Content(slot, {})  BY <1>5, KeptMatters
  <2>2. Content(slot, {})' = Content(slot, {})  BY ContentReads
  <2> QED BY <1>1, <1>5, <2>1, <2>2 DEF Stale, Shows
<1> QED BY <1>4, <1>5

\* What a step that rebuilds nothing owes: a rebuild under way stays so, and
\* what changes for the slot's section is flagged or will be.
LEMMA StepOwes ==
  ASSUME NEW slot \in Slots \ {Header},
         alive, StaleIsScheduled, menus' = menus,
         Scheduled(slot) => Scheduled(slot)',
         Awaited(slot) => Scheduled(slot)' \/ Awaited(slot)',
         \A key \in Reads(Section(slot)) :
            env'[key] # env[key] => Scheduled(slot)' \/ Awaited(slot)',
         Section(slot) = "switch" => UNCHANGED <<users, max_users>> \/ Scheduled(slot)',
         Stale(slot)'
  PROVE  Scheduled(slot)' \/ Awaited(slot)'
<1> SUFFICES ASSUME ~Scheduled(slot)', ~Awaited(slot)'  PROVE FALSE
  OBVIOUS
<1>1. \A key \in Reads(Section(slot)) : env'[key] = env[key]  OBVIOUS
<1>2. Section(slot) # "header"  BY SlotParts
<1>3. Stale(slot)  BY <1>1, <1>2, FreshStays
<1>4. Scheduled(slot) \/ Awaited(slot)  BY <1>3 DEF StaleIsScheduled
<1> QED BY <1>4

-----------------------------------------------------------------------------
(* Types. *)

LEMMA WrittenAreInputs == Written \subseteq Inputs /\ Notifying \subseteq Inputs
                          /\ "can-logout" \in Inputs
BY DEF Written, Notifying, Inputs, SettingBacked, GuestProperties, ActionProperties

LEMMA AffectedType ==
  ASSUME NEW key \in Inputs  PROVE Affected(key) \subseteq Sections
BY DEF Affected, Sections

LEMMA AddedType ==
  ASSUME NEW table, NEW now, IsTable(table), IsTable(now), NEW some \in SUBSET DOMAIN now
  PROVE  IsTable(Added(table, some, now))
BY DEF IsTable, Added

LEMMA NextBackendsType ==
  ASSUME IsTable(backend), NEW now \in NextBackends  PROVE IsTable(now)
<1>1. ASSUME NEW u \in Uids, NEW user \in User, now = WithUser(backend, u, user)
      PROVE  IsTable(now)
  BY <1>1 DEF IsTable, WithUser
<1>2. ASSUME NEW owner \in DOMAIN backend,
             now = [u \in DOMAIN backend |-> [backend[u] EXCEPT !.is_current_user = (u = owner)]]
      PROVE  IsTable(now)
  BY <1>2 DEF IsTable, User
<1> QED BY <1>1, <1>2 DEF NextBackends

LEMMA InitType == Init => TypeOK
<1> SUFFICES ASSUME Init PROVE TypeOK
  OBVIOUS
<1>1. env \in [Inputs -> BOOLEAN]
  <2>1. PICK on \in SUBSET (Settings \cap Mutable) :
          env = [key \in Inputs |->
             IF key \in Settings \cap Mutable THEN key \in on
             ELSE Defaults[key] /\ ~(key = "can-logout" /\ "suppress-logout-menuitem" \in on)]
    BY DEF Init
  <2>2. \A key \in Inputs : Defaults[key] \in BOOLEAN  BY InputsAssumption
  <2>3. \A key \in Inputs : (key \in on) \in BOOLEAN  OBVIOUS
  <2>4. \A key \in Inputs :
           env[key] = IF key \in Settings \cap Mutable THEN key \in on
             ELSE Defaults[key] /\ ~(key = "can-logout" /\ "suppress-logout-menuitem" \in on)
    BY <2>1, Zenon
  <2>5. \A key \in Inputs : env[key] \in BOOLEAN  BY <2>2, <2>3, <2>4, Zenon
  <2> QED BY <2>1, <2>5
<1>2. IsTable(<< >>)  BY DEF IsTable
<1> QED BY <1>1, <1>2 DEF Init, TypeOK, Sections

\* Every step keeps the types.
LEMMA NextType == TypeOK /\ [OpenNext]_vars => TypeOK'
<1> SUFFICES ASSUME TypeOK, [OpenNext]_vars PROVE TypeOK'
  OBVIOUS
<1> USE DEF TypeOK
<1>1. ASSUME NEW key \in Notifying \cap Mutable, BackendNotify(key) PROVE TypeOK'
  BY <1>1, AffectedType, WrittenAreInputs DEF BackendNotify, RebuildSoon, menuVars
<1>2. ASSUME NEW key \in Written \cap Mutable, WriteSetting(key) PROVE TypeOK'
  BY <1>2, WrittenAreInputs DEF WriteSetting, CanLogoutAfter, On, menuVars
<1>3. ASSUME NEW n \in MaxUsersChoices, SetMaxUsers(n) PROVE TypeOK'
  BY <1>3 DEF SetMaxUsers, RebuildSoon, menuVars, Sections
<1>4. ASSUME UsersChange \/ AnyUsersChange PROVE TypeOK'
  <2>1. IsTable(backend') /\ \E some \in SUBSET DOMAIN backend' : UsersAnnounced(some)
    <3>1. CASE UsersChange
      <4>1. PICK now \in NextBackends :
              backend' = now /\ \E some \in SUBSET DOMAIN now : UsersAnnounced(some)
        BY <3>1 DEF UsersChange
      <4> QED BY <4>1, NextBackendsType
    <3>2. CASE AnyUsersChange
      BY <3>2 DEF AnyUsersChange, UsersAnnounced
    <3> QED BY <1>4, <3>1, <3>2
  <2>a. PICK some \in SUBSET DOMAIN backend' : UsersAnnounced(some)  BY <2>1
  <2>2. IsTable(backend')  BY <2>1
  <2>3. IsTable(users')  BY <2>a, <2>2, AddedType DEF UsersAnnounced
  <2>4. PICK live \in BOOLEAN :
           /\ env' = [env EXCEPT !["is-live-session"] = live]
           /\ RebuildSoon(AddFlags(some, backend') \cup
                IF live # On("is-live-session") THEN Affected("is-live-session") ELSE {})
    BY <2>a DEF UsersAnnounced
  <2>5. AddFlags(some, backend') \subseteq Sections  BY DEF AddFlags, Sections
  <2>6. Affected("is-live-session") \subseteq Sections  BY AffectedType DEF Inputs
  <2>7. rebuild_flags' \subseteq Sections /\ rebuild_id' \in BOOLEAN
    BY <2>4, <2>5, <2>6 DEF RebuildSoon
  <2>8. env' \in [Inputs -> BOOLEAN]  BY <2>4
  <2> QED BY <2>a, <2>2, <2>3, <2>7, <2>8 DEF UsersAnnounced, menuVars
<1>5. ASSUME NEW uid \in Uids, UserRemoved(uid) PROVE TypeOK'
  BY <1>5 DEF UserRemoved, OnUserRemoved, RebuildSoon, menuVars, Sections, IsTable
<1>6. ASSUME NEW key \in Written, SettingChanged(key) PROVE TypeOK'
  <2>1. CASE key = "user-show-menu"
    <3>1. IsTable(<< >>)  BY DEF IsTable
    <3>2. IsTable(users')
      BY <1>6, <2>1, <3>1, AddedType DEF SettingChanged, UserShowMenuChanged
    <3>3. AddFlags(DOMAIN backend, backend) \subseteq Sections  BY DEF AddFlags, Sections
    <3>4. rebuild_flags' \subseteq Sections /\ rebuild_id' \in BOOLEAN
      BY <1>6, <2>1, <3>3 DEF SettingChanged, UserShowMenuChanged, RebuildSoon, Sections
    <3> QED BY <1>6, <3>2, <3>4 DEF SettingChanged, menuVars
  <2>2. CASE key # "user-show-menu"
    BY <1>6, <2>2, AffectedType, WrittenAreInputs DEF SettingChanged, RebuildSoon, menuVars
  <2> QED BY <2>1, <2>2
<1>7. ASSUME NEW slots \in SUBSET Slots, Rebuild(slots)
      PROVE  DOMAIN menus' = Slots /\ reported_users' \subseteq Uids
  <2>1. PICK kept \in Culls :
          /\ menus' = [slot \in Slots |-> IF slot \in slots THEN Content(slot, kept)
                                                             ELSE menus[slot]]
          /\ reported_users' = reported_users \cup
               UNION {Unusable(Place(slot), kept) :
                  slot \in slots \cap {<<"desktop", "switch">>, <<"lockscreen", "switch">>}}
    BY <1>7 DEF Rebuild
  <2>2. kept \subseteq DOMAIN users
    BY DEF Culls
  <2>3. \A profile : Unusable(profile, kept) \subseteq Uids
    BY <2>2 DEF Unusable, Candidates, IsTable
  <2> QED BY <2>1, <2>3
<1>8. ASSUME RebuildTimeout PROVE TypeOK'
  <2>1. {slot \in Slots : Section(slot) \in rebuild_flags /\ menus[slot] # NoMenu} \in SUBSET Slots
    OBVIOUS
  <2> QED BY <1>7, <1>8, <2>1 DEF RebuildTimeout, inputVars
<1>9. ASSUME OnBusAcquired PROVE TypeOK'
  <2>1. MenuSlots \in SUBSET Slots  BY DEF Slots
  <2> QED BY <1>7, <1>9, <2>1 DEF OnBusAcquired, inputVars
<1>10. ASSUME OnNameLost PROVE TypeOK'
  BY <1>10 DEF OnNameLost, inputVars
<1>11. ASSUME Dispose PROVE TypeOK'
  <2>1. IsTable(users')  BY <1>11 DEF Dispose, IsTable
  <2>2. IsTable(backend)'  BY <1>11 DEF Dispose, IsTable
  <2> QED BY <1>11, <2>1, <2>2 DEF Dispose
<1>12. CASE UNCHANGED vars
  <2>1. IsTable(users)' /\ IsTable(backend)'  BY <1>12 DEF vars, inputVars, IsTable
  <2> QED BY <1>12, <2>1 DEF vars, inputVars, menuVars
<1> QED BY <1>1, <1>2, <1>3, <1>4, <1>5, <1>6, <1>8, <1>9, <1>10, <1>11, <1>12
       DEF OpenNext, Next, InputStep

\* Every variable of the service has its type in every behaviour.
THEOREM TypeCorrect == Spec => []TypeOK
<1>1. [Next]_vars => [OpenNext]_vars  BY DEF OpenNext
<1> QED BY <1>1, InitType, NextType, PTL DEF Spec

-----------------------------------------------------------------------------
(* No section is stale without its rebuild being on its way. *)

LEMMA InitScheduled == Init => StaleIsScheduled
<1> SUFFICES ASSUME Init, NEW slot \in Slots \ {Header}, Stale(slot)
             PROVE  Scheduled(slot)
  BY DEF StaleIsScheduled
<1>1. slot \in ActionSlots  BY DEF Init, Stale
<1>2. Section(slot) = "switch"  BY <1>1 DEF ActionSlots, Header, Section
<1> QED BY <1>2 DEF Init, Scheduled

\* A step that adds flags and rebuilds nothing leaves a pending rebuild pending.
LEMMA FlagsStay ==
  ASSUME TypeOK, NEW sections, RebuildSoon(sections), NEW slot \in Slots
  PROVE  /\ Scheduled(slot) => Scheduled(slot)'
         /\ Section(slot) \in sections => Scheduled(slot)'
BY DEF RebuildSoon, Scheduled, TypeOK

LEMMA NextScheduled == TypeOK /\ StaleIsScheduled /\ [OpenNext]_vars => StaleIsScheduled'
<1> SUFFICES ASSUME TypeOK, StaleIsScheduled, [OpenNext]_vars, alive',
                    NEW slot \in Slots \ {Header}, Stale(slot)'
             PROVE  Scheduled(slot)' \/ Awaited(slot)'
  BY DEF StaleIsScheduled
<1>r. \A key \in Reads(Section(slot)) : key \in Inputs /\ Section(slot) \in Affected(key)
  BY SlotParts, ReadsAreConnected
<1>1. ASSUME NEW key \in Notifying \cap Mutable, BackendNotify(key)
      PROVE  Scheduled(slot)' \/ Awaited(slot)'
  <2>1. \A k \in Reads(Section(slot)) : env'[k] # env[k] => k = key
    BY <1>1, <1>r DEF BackendNotify, TypeOK
  <2>2. \A k \in Reads(Section(slot)) : env'[k] # env[k] => Scheduled(slot)'
    BY <1>1, <1>r, <2>1, FlagsStay DEF BackendNotify
  <2>3. Scheduled(slot) => Scheduled(slot)'  BY <1>1, FlagsStay DEF BackendNotify
  <2>4. Awaited(slot) => Awaited(slot)'  BY <1>1 DEF BackendNotify, Awaited
  <2>5. alive /\ menus' = menus /\ UNCHANGED <<users, max_users>>
    BY <1>1 DEF BackendNotify, menuVars
  <2> QED BY <2>2, <2>3, <2>4, <2>5, StepOwes
<1>2. ASSUME NEW key \in Written \cap Mutable, WriteSetting(key)
      PROVE  Scheduled(slot)' \/ Awaited(slot)'
  <2>1. \A k \in Reads(Section(slot)) :
          env'[k] # env[k] => k = key \/ (k = "can-logout" /\ key = "suppress-logout-menuitem")
    BY <1>2, <1>r DEF WriteSetting, CanLogoutAfter, TypeOK, On
  <2>a. "can-logout" \in Reads(Section(slot)) => Section(slot) = "logout"
    BY DEF Reads, AdminKeys
  <2>b. Affected("suppress-logout-menuitem") = {"logout"}
    BY DEF Affected, AdminKeys, GuestProperties
  <2>c. key \in unseen'  BY <1>2 DEF WriteSetting
  <2>2. \A k \in Reads(Section(slot)) : env'[k] # env[k] => Awaited(slot)'
    BY <1>r, <2>1, <2>a, <2>b, <2>c DEF Awaited
  <2>3. Scheduled(slot) => Scheduled(slot)'  BY <1>2 DEF WriteSetting, Scheduled
  <2>4. Awaited(slot) => Awaited(slot)'  BY <1>2 DEF WriteSetting, Awaited
  <2>5. alive /\ menus' = menus /\ UNCHANGED <<users, max_users>>
    BY <1>2 DEF WriteSetting, menuVars
  <2> QED BY <2>2, <2>3, <2>4, <2>5, StepOwes
<1>3. ASSUME NEW n \in MaxUsersChoices, SetMaxUsers(n)
      PROVE  Scheduled(slot)' \/ Awaited(slot)'
  <2>1. \A k \in Reads(Section(slot)) : env'[k] = env[k]  BY <1>3 DEF SetMaxUsers
  <2>2. Scheduled(slot) => Scheduled(slot)'  BY <1>3, FlagsStay DEF SetMaxUsers
  <2>3. Section(slot) = "switch" => Scheduled(slot)'  BY <1>3, FlagsStay DEF SetMaxUsers
  <2>4. Awaited(slot) => Awaited(slot)'  BY <1>3 DEF SetMaxUsers, Awaited
  <2>5. alive /\ menus' = menus  BY <1>3 DEF SetMaxUsers, menuVars
  <2> QED BY <2>1, <2>2, <2>3, <2>4, <2>5, StepOwes
<1>4. ASSUME UsersChange \/ AnyUsersChange  PROVE Scheduled(slot)' \/ Awaited(slot)'
  <2>1. PICK some : UsersAnnounced(some)  BY <1>4 DEF UsersChange, AnyUsersChange
  <2>2. PICK live \in BOOLEAN :
           /\ env' = [env EXCEPT !["is-live-session"] = live]
           /\ RebuildSoon(AddFlags(some, backend') \cup
                IF live # On("is-live-session") THEN Affected("is-live-session") ELSE {})
    BY <2>1 DEF UsersAnnounced
  <2>3. Scheduled(slot) => Scheduled(slot)'  BY <2>2, FlagsStay
  <2>4. \A k \in Reads(Section(slot)) : env'[k] # env[k] => Scheduled(slot)'
    <3> SUFFICES ASSUME NEW k \in Reads(Section(slot)), env'[k] # env[k]
                 PROVE  Scheduled(slot)'
      OBVIOUS
    <3>1. k = "is-live-session" /\ live # On("is-live-session")
      BY <1>r, <2>2 DEF TypeOK, On
    <3> QED BY <1>r, <2>2, <3>1, FlagsStay
  <2>5. Section(slot) = "switch" => UNCHANGED <<users, max_users>> \/ Scheduled(slot)'
    <3>1. CASE some = {}
      <4>1. users' = users  BY <2>1, <3>1 DEF UsersAnnounced, Added, TypeOK, IsTable
      <4> QED BY <2>1, <4>1 DEF UsersAnnounced
    <3>2. CASE some # {}
      <4>1. "switch" \in AddFlags(some, backend')  BY <3>2 DEF AddFlags
      <4> QED BY <2>2, <4>1, FlagsStay
    <3> QED BY <3>1, <3>2
  <2>6. Awaited(slot) => Awaited(slot)'  BY <2>1 DEF UsersAnnounced, Awaited
  <2>7. alive /\ menus' = menus  BY <2>1 DEF UsersAnnounced, menuVars
  <2> QED BY <2>3, <2>4, <2>5, <2>6, <2>7, StepOwes
<1>5. ASSUME NEW uid \in Uids, UserRemoved(uid)  PROVE Scheduled(slot)' \/ Awaited(slot)'
  <2>1. \A k \in Reads(Section(slot)) : env'[k] = env[k]  BY <1>5 DEF UserRemoved, OnUserRemoved
  <2>2. Scheduled(slot) => Scheduled(slot)'  BY <1>5, FlagsStay DEF UserRemoved, OnUserRemoved
  <2>3. Section(slot) = "switch" => Scheduled(slot)'  BY <1>5, FlagsStay DEF UserRemoved, OnUserRemoved
  <2>4. Awaited(slot) => Awaited(slot)'  BY <1>5 DEF UserRemoved, OnUserRemoved, Awaited
  <2>5. alive /\ menus' = menus  BY <1>5 DEF UserRemoved, OnUserRemoved, menuVars
  <2> QED BY <2>1, <2>2, <2>3, <2>4, <2>5, StepOwes
<1>6. ASSUME NEW key \in Written, SettingChanged(key)
      PROVE  Scheduled(slot)' \/ Awaited(slot)'
  <2>1. PICK sections : /\ RebuildSoon(sections) /\ Affected(key) \subseteq sections
                        /\ users' = users \/ "switch" \in sections
    <3>1. CASE key = "user-show-menu"
      <4>1. Affected(key) = {"switch"}  BY <3>1 DEF Affected, AdminKeys
      <4> QED BY <1>6, <3>1, <4>1 DEF SettingChanged, UserShowMenuChanged
    <3>2. CASE key # "user-show-menu"
      BY <1>6, <3>2 DEF SettingChanged
    <3> QED BY <3>1, <3>2
  <2>2. Scheduled(slot) => Scheduled(slot)'  BY <2>1, FlagsStay
  <2>3. Section(slot) \in Affected(key) => Scheduled(slot)'  BY <2>1, FlagsStay
  <2>4. Awaited(slot) => Scheduled(slot)' \/ Awaited(slot)'
    BY <1>6, <2>3 DEF SettingChanged, Awaited
  <2>5. \A k \in Reads(Section(slot)) : env'[k] = env[k]  BY <1>6 DEF SettingChanged
  <2>6. Section(slot) = "switch" => UNCHANGED <<users, max_users>> \/ Scheduled(slot)'
    BY <1>6, <2>1, FlagsStay DEF SettingChanged
  <2>7. alive /\ menus' = menus  BY <1>6 DEF SettingChanged, menuVars
  <2> QED BY <2>2, <2>4, <2>5, <2>6, <2>7, StepOwes
<1>7. ASSUME RebuildTimeout  PROVE Scheduled(slot)' \/ Awaited(slot)'
  <2> DEFINE slots == {s \in Slots : Section(s) \in rebuild_flags /\ menus[s] # NoMenu}
  <2>1. Rebuild(slots) /\ UNCHANGED <<env, unseen, users, max_users>> /\ alive /\ rebuild_id
    BY <1>7 DEF RebuildTimeout, inputVars
  <2>2. slot \notin slots  BY <2>1, RebuiltIsFresh
  <2>3. menus'[slot] = menus[slot]  BY <2>1, <2>2 DEF Rebuild
  <2>4. Section(slot) \notin rebuild_flags  BY <2>2, <2>3 DEF Stale
  <2>5. Stale(slot)  BY <2>1, <2>3, FreshStays
  <2>6. Awaited(slot)  BY <2>1, <2>4, <2>5 DEF StaleIsScheduled, Scheduled
  <2> QED BY <2>1, <2>6 DEF Awaited
<1>8. ASSUME OnBusAcquired  PROVE Scheduled(slot)' \/ Awaited(slot)'
  <2>1. /\ Rebuild(MenuSlots) /\ alive
        /\ UNCHANGED <<env, unseen, users, max_users, rebuild_flags, rebuild_id>>
    BY <1>8 DEF OnBusAcquired, inputVars
  <2>2. MenuSlots \in SUBSET Slots  BY DEF Slots
  <2>3. slot \notin MenuSlots  BY <2>1, <2>2, RebuiltIsFresh
  <2>4. menus'[slot] = menus[slot]  BY <2>1, <2>3 DEF Rebuild
  <2>5. Stale(slot)  BY <2>1, <2>4, FreshStays
  <2>6. Scheduled(slot) \/ Awaited(slot)  BY <2>1, <2>5 DEF StaleIsScheduled
  <2> QED BY <2>1, <2>6 DEF Awaited, Scheduled
<1>9. CASE OnNameLost \/ UNCHANGED vars
  <2>1. /\ menus' = menus /\ alive
        /\ UNCHANGED <<env, unseen, users, max_users, rebuild_flags, rebuild_id>>
    BY <1>9 DEF OnNameLost, vars, inputVars, menuVars
  <2>2. Stale(slot)  BY <2>1, FreshStays
  <2>3. Scheduled(slot) \/ Awaited(slot)  BY <2>1, <2>2 DEF StaleIsScheduled
  <2> QED BY <2>1, <2>3 DEF Awaited, Scheduled
<1>10. CASE Dispose
  BY <1>10 DEF Dispose
<1> QED BY <1>1, <1>2, <1>3, <1>4, <1>5, <1>6, <1>7, <1>8, <1>9, <1>10
       DEF OpenNext, Next, InputStep

\* No menu section or switcher state is ever out of date without the timer
\* running for its section or a signal that will start it being on its way:
\* every value create_*_section reads is connected to its rebuild.  This holds
\* however many users change at once (OpenSpec).
THEOREM NothingStaleIsForgotten == OpenSpec => []StaleIsScheduled
<1>1. Init => TypeOK /\ StaleIsScheduled  BY InitType, InitScheduled
<1>2. (TypeOK /\ StaleIsScheduled) /\ [OpenNext]_vars => (TypeOK /\ StaleIsScheduled)'
  BY NextType, NextScheduled
<1> QED BY <1>1, <1>2, PTL DEF OpenSpec

-----------------------------------------------------------------------------
(* The table of users. *)

LEMMA ShowMenuKey == "user-show-menu" \in Inputs \ (Notifying \cup {"can-logout", "is-live-session"})
BY DEF Inputs, Settings, Notifying, GuestProperties, ActionProperties, SettingBacked, AdminKeys

LEMMA InitTable == Init => TableIsCurrent
BY DEF Init, TableIsCurrent

\* Announced users are in the table as they are now, the others have not changed.
LEMMA AnnouncedIsCurrent ==
  ASSUME TypeOK, TableIsCurrent, NEW some, UsersAnnounced(some)
  PROVE  TableIsCurrent'
<1>1. /\ alive /\ unseen' = unseen /\ users' = Added(users, some, backend')
      /\ DOMAIN backend \subseteq DOMAIN backend' /\ some \subseteq DOMAIN backend'
      /\ \A u \in DOMAIN backend' \ some : u \in DOMAIN backend /\ backend'[u] = backend[u]
  BY DEF UsersAnnounced
<1>2. On("user-show-menu")' = On("user-show-menu")
  BY ShowMenuKey DEF UsersAnnounced, On, TypeOK
<1>3. DOMAIN users' = DOMAIN users \cup some  BY <1>1 DEF Added
<1>4. ASSUME NEW u \in DOMAIN users'  PROVE u \in DOMAIN backend' /\ users'[u] = backend'[u]
  <2>1. CASE u \in some
    BY <1>1, <1>3, <2>1 DEF Added
  <2>2. CASE u \notin some
    <3>1. u \in DOMAIN users /\ users'[u] = users[u]  BY <1>1, <1>3, <2>2 DEF Added
    <3> QED BY <1>1, <2>2, <3>1 DEF TableIsCurrent
  <2> QED BY <2>1, <2>2
<1>5. ASSUME On("user-show-menu")', "user-show-menu" \notin unseen'
      PROVE  DOMAIN users' = DOMAIN backend'
  <2>1. DOMAIN users = DOMAIN backend  BY <1>1, <1>2, <1>5 DEF TableIsCurrent
  <2> QED BY <1>1, <1>3, <2>1
<1> QED BY <1>4, <1>5 DEF TableIsCurrent

LEMMA NextTable == TypeOK /\ TableIsCurrent /\ [OpenNext]_vars => TableIsCurrent'
<1> SUFFICES ASSUME TypeOK, TableIsCurrent, [OpenNext]_vars PROVE TableIsCurrent'
  OBVIOUS
<1>1. ASSUME NEW key \in Notifying \cap Mutable, BackendNotify(key) PROVE TableIsCurrent'
  BY <1>1, ShowMenuKey DEF BackendNotify, TableIsCurrent, On, TypeOK
<1>2. ASSUME NEW key \in Written \cap Mutable, WriteSetting(key) PROVE TableIsCurrent'
  BY <1>2, ShowMenuKey DEF WriteSetting, TableIsCurrent, On, TypeOK
<1>3. ASSUME NEW n \in MaxUsersChoices, SetMaxUsers(n) PROVE TableIsCurrent'
  BY <1>3 DEF SetMaxUsers, TableIsCurrent, On
<1>4. ASSUME UsersChange \/ AnyUsersChange PROVE TableIsCurrent'
  <2>1. PICK some : UsersAnnounced(some)  BY <1>4 DEF UsersChange, AnyUsersChange
  <2> QED BY <2>1, AnnouncedIsCurrent
<1>5. ASSUME NEW uid \in Uids, UserRemoved(uid) PROVE TableIsCurrent'
  BY <1>5 DEF UserRemoved, OnUserRemoved, TableIsCurrent, On
<1>6. ASSUME NEW key \in Written, SettingChanged(key) PROVE TableIsCurrent'
  <2>1. CASE key = "user-show-menu" /\ On("user-show-menu")
    <3>1. users' = Added(users, DOMAIN backend, backend) /\ UNCHANGED <<env, backend>> /\ alive
      BY <1>6, <2>1 DEF SettingChanged, UserShowMenuChanged
    <3>2. DOMAIN users \subseteq DOMAIN backend  BY <3>1 DEF TableIsCurrent
    <3> QED BY <3>1, <3>2 DEF TableIsCurrent, Added
  <2>2. CASE key = "user-show-menu" /\ ~On("user-show-menu")
    BY <1>6, <2>2 DEF SettingChanged, UserShowMenuChanged, TableIsCurrent, On
  <2>3. CASE key # "user-show-menu"
    BY <1>6, <2>3 DEF SettingChanged, TableIsCurrent, On
  <2> QED BY <2>1, <2>2, <2>3
<1>7. ASSUME RebuildTimeout \/ OnBusAcquired \/ OnNameLost \/ UNCHANGED vars PROVE TableIsCurrent'
  BY <1>7 DEF RebuildTimeout, OnBusAcquired, OnNameLost, vars, inputVars, TableIsCurrent, On
<1>8. ASSUME Dispose PROVE TableIsCurrent'
  BY <1>8 DEF Dispose, TableIsCurrent
<1> QED BY <1>1, <1>2, <1>3, <1>4, <1>5, <1>6, <1>7, <1>8 DEF OpenNext, Next, InputStep

\* The service's table of users never holds a snapshot the backend would not give
\* now nor a user it has dropped, and misses none while the list is shown, however
\* many users change at once and however often the list is switched off and on.
THEOREM TableFollows == OpenSpec => []TableIsCurrent
BY InitType, InitTable, NextType, NextTable, PTL DEF OpenSpec

-----------------------------------------------------------------------------
(* The owner of the session. *)

LEMMA InitOwner == Init => OneOwner(backend)
BY DEF Init, OneOwner

LEMMA NextOwner == OneOwner(backend) /\ [OpenNext]_vars => OneOwner(backend')
<1> SUFFICES ASSUME OneOwner(backend), [OpenNext]_vars, backend' # backend PROVE OneOwner(backend')
  OBVIOUS
<1>1. CASE UsersChange
  BY <1>1 DEF UsersChange
<1>2. CASE AnyUsersChange
  BY <1>2 DEF AnyUsersChange
<1>3. ASSUME NEW uid \in Uids, UserRemoved(uid) PROVE OneOwner(backend')
  BY <1>3 DEF UserRemoved, OneOwner
<1>4. CASE Dispose
  BY <1>4 DEF Dispose, OneOwner
<1> QED
  BY <1>1, <1>2, <1>3, <1>4
     DEF OpenNext, Next, InputStep, BackendNotify, WriteSetting, SetMaxUsers, SettingChanged,
         RebuildTimeout, OnBusAcquired, OnNameLost, vars, inputVars

\* The table has one owner, as the backend has.
LEMMA TableOwner ==
  ASSUME alive, TableIsCurrent, OneOwner(backend)  PROVE OneOwner(users)
BY DEF TableIsCurrent, OneOwner

\* The culling never drops the owner while there is room for anybody.
LEMMA OwnerIsKept ==
  ASSUME TypeOK, OneOwner(users), max_users > 0, NEW kept \in Culls, NEW owner \in CurrentUsers
  PROVE  owner \in kept
<1>1. owner \in DOMAIN users /\ users[owner].is_current_user  BY DEF CurrentUsers
<1>2. CASE Cardinality(DOMAIN users) <= max_users
  BY <1>1, <1>2 DEF Culls
<1>3. CASE ~(Cardinality(DOMAIN users) <= max_users)
  <2>1. /\ kept \subseteq DOMAIN users /\ Cardinality(kept) = max_users
        /\ \A u \in kept, v \in DOMAIN users \ kept : ~MoreUseful(users[v], users[u])
    BY <1>3 DEF Culls
  <2>2. PICK other \in kept : TRUE  BY <2>1, FS_EmptySet
  <2>3. owner \notin kept => ~users[other].is_current_user
    BY <1>1, <2>1, <2>2 DEF OneOwner
  <2> QED BY <1>1, <2>1, <2>2, <2>3 DEF MoreUseful
<1> QED BY <1>2, <1>3

LEMMA OwnerShows == TypeOK /\ TableIsCurrent /\ OneOwner(backend) => OwnerIsListed
<1> DEFINE slot == <<"desktop", "switch">>
<1> SUFFICES ASSUME TypeOK, TableIsCurrent, OneOwner(backend),
                    alive, menus[slot] # NoMenu, ~Stale(slot), ListsUsers, max_users > 0,
                    NEW u \in CurrentUsers, LabelOf[users[u].info] # NoLabel
             PROVE  <<u, LabelOf[users[u].info]>> \in menus[slot].users
  BY DEF OwnerIsListed
<1>1. Place(slot) = "desktop" /\ Section(slot) = "switch"  BY DEF Place, Section
<1>2. PICK kept \in Culls : menus[slot] = Content(slot, kept)
  BY <1>1 DEF Stale, Shows
<1>3. Content(slot, kept) = SwitchItems("desktop", kept)  BY <1>1 DEF Content
<1>4. u \in kept  BY TableOwner, OwnerIsKept
<1>5. u \in Listed("desktop", kept)
  BY <1>4 DEF Listed, Unusable, Candidates
<1> QED BY <1>2, <1>3, <1>5 DEF SwitchItems

\* An up-to-date desktop menu lists the owner of the session, if the owner has a
\* label and max-users is not 0, for any number of users, logins and frequencies.
THEOREM OwnerStaysListed == OpenSpec => []OwnerIsListed
<1>1. Init => TypeOK /\ TableIsCurrent /\ OneOwner(backend)
  BY InitType, InitTable, InitOwner
<1>2. TypeOK /\ TableIsCurrent /\ OneOwner(backend) /\ [OpenNext]_vars
        => (TypeOK /\ TableIsCurrent /\ OneOwner(backend))'
  BY NextType, NextTable, NextOwner
<1> QED BY <1>1, <1>2, OwnerShows, PTL DEF OpenSpec

-----------------------------------------------------------------------------
(* The panel header. *)

HeaderSafe == Scheduled(Header) \/ Awaited(Header) \/ CurrentNames = {}

LEMMA HeaderParts ==
  /\ Header \in Slots /\ Section(Header) = "header"
  /\ \A key : "header" \in Affected(key) => key # "suppress-logout-menuitem"
BY DEF Slots, ActionSlots, Header, Section, Affected, AdminKeys, GuestProperties

LEMMA InitHeader == Init => HeaderIsScheduled
<1> SUFFICES ASSUME Init PROVE ~Stale(Header)
  BY DEF HeaderIsScheduled
<1>1. menus[Header] = Content(Header, {})
  BY HeaderParts DEF Init, ActionSlots
<1> QED BY <1>1, HeaderParts DEF Stale, Shows

\* What a step that rebuilds nothing owes the header: unless it flags the header
\* or leaves nobody to name, what the header reads stays as it was.
LEMMA HeaderOwes ==
  ASSUME alive, HeaderIsScheduled, menus' = menus,
         Scheduled(Header) => Scheduled(Header)',
         Awaited(Header) => Scheduled(Header)' \/ Awaited(Header)',
         HeaderSafe' \/ UNCHANGED <<HeaderLabel, CurrentNames>>,
         Stale(Header)'
  PROVE  HeaderSafe'
<1> SUFFICES ASSUME UNCHANGED <<HeaderLabel, CurrentNames>> PROVE HeaderSafe'
  OBVIOUS
<1>1. Content(Header, {})' = Content(Header, {})
  <2>1. Content(Header, {}) = HeaderLabel  BY HeaderParts, SlotParts DEF Content
  <2>2. Content(Header, {})' = HeaderLabel'  BY HeaderParts, SlotParts DEF Content
  <2> QED BY <2>1, <2>2
<1>2. Stale(Header)  BY <1>1, HeaderParts DEF Stale, Shows
<1> QED BY <1>2 DEF HeaderIsScheduled, HeaderSafe

\* As long as the two inputs and the table do not change, nor does the label.
LEMMA LabelReads ==
  ASSUME \A key \in Reads("header") : env'[key] = env[key]
  PROVE  /\ UNCHANGED CurrentUsers /\ (\A u \in CurrentUsers : users'[u].info = users[u].info)
              => UNCHANGED <<HeaderLabel, CurrentNames>>
         /\ CurrentUsers' = {} => UNCHANGED <<HeaderLabel, CurrentNames>> \/ CurrentNames' = {}
<1>1. UNCHANGED <<On("show-real-name-on-panel"), On("guest-is-active-session")>>
  BY DEF Reads, On
<1>2. ASSUME UNCHANGED CurrentUsers, \A u \in CurrentUsers : users'[u].info = users[u].info
      PROVE  UNCHANGED <<HeaderLabel, CurrentNames>>
  <2>1. UNCHANGED CurrentNames  BY <1>1, <1>2 DEF CurrentNames
  <2> QED BY <1>1, <2>1 DEF HeaderLabel
<1>3. ASSUME CurrentUsers' = {}
      PROVE  UNCHANGED <<HeaderLabel, CurrentNames>> \/ CurrentNames' = {}
  <2>1. CASE On("guest-is-active-session")
    <3>1. UNCHANGED CurrentNames  BY <1>1, <2>1 DEF CurrentNames
    <3> QED BY <1>1, <3>1 DEF HeaderLabel
  <2>2. CASE ~On("guest-is-active-session")
    BY <1>1, <1>3, <2>2 DEF CurrentNames
  <2> QED BY <2>1, <2>2
<1> QED BY <1>2, <1>3

\* Adding users to the table flags the header, or changes nothing about who is
\* named, or leaves nobody to name.
LEMMA AddedNames ==
  ASSUME TypeOK, OneOwner(users), NEW some, NEW now, some \subseteq DOMAIN now,
         users' = Added(users, some, now),
         \A key \in Reads("header") : env'[key] = env[key]
  PROVE  \/ "header" \in AddFlags(some, now)
         \/ UNCHANGED <<HeaderLabel, CurrentNames>> \/ CurrentNames' = {}
<1> SUFFICES ASSUME \A u \in some : ~now[u].is_current_user
             PROVE  UNCHANGED <<HeaderLabel, CurrentNames>> \/ CurrentNames' = {}
  BY DEF AddFlags
<1>1. CurrentUsers' = CurrentUsers \ some
  BY DEF CurrentUsers, Added
<1>2. CASE CurrentUsers \cap some = {}
  <2>1. CurrentUsers' = CurrentUsers  BY <1>1, <1>2
  <2>2. \A u \in CurrentUsers : users'[u] = users[u]  BY <1>2 DEF CurrentUsers, Added
  <2> QED BY <2>1, <2>2, LabelReads
<1>3. CASE CurrentUsers \cap some # {}
  <2>1. CurrentUsers' = {}  BY <1>1, <1>3 DEF CurrentUsers, OneOwner
  <2> QED BY <2>1, LabelReads
<1> QED BY <1>2, <1>3

LEMMA HeaderInputs ==
  /\ Reads("header") \subseteq Inputs \ {"is-live-session", "can-logout"}
  /\ \A key \in Reads("header") : "header" \in Affected(key)
BY DEF Reads, Inputs, Settings, GuestProperties, Affected, AdminKeys

LEMMA NextHeader ==
  TypeOK /\ TableIsCurrent /\ OneOwner(backend) /\ HeaderIsScheduled /\ [OpenNext]_vars
    => HeaderIsScheduled'
<1> SUFFICES ASSUME TypeOK, TableIsCurrent, OneOwner(backend), HeaderIsScheduled, [OpenNext]_vars,
                    alive', Stale(Header)'
             PROVE  HeaderSafe'
  BY DEF HeaderIsScheduled, HeaderSafe
<1>a. alive
  BY DEF OpenNext, Next, InputStep, BackendNotify, WriteSetting, SetMaxUsers, SettingChanged,
         UsersChange, AnyUsersChange, UsersAnnounced, UserRemoved, RebuildTimeout,
         OnBusAcquired, OnNameLost, Dispose, vars
<1>o. OneOwner(users)  BY <1>a, TableOwner
<1>1. ASSUME NEW key \in Notifying \cap Mutable, BackendNotify(key) PROVE HeaderSafe'
  <2>1. Scheduled(Header) => Scheduled(Header)'  BY <1>1, HeaderParts, FlagsStay DEF BackendNotify
  <2>2. Awaited(Header) => Awaited(Header)'  BY <1>1 DEF BackendNotify, Awaited
  <2>3. CASE key \in Reads("header")
    BY <1>1, <2>3, HeaderInputs, HeaderParts, FlagsStay DEF BackendNotify, HeaderSafe
  <2>4. CASE key \notin Reads("header")
    <3>1. \A k \in Reads("header") : env'[k] = env[k]
      BY <1>1, <2>4, HeaderInputs DEF BackendNotify, TypeOK
    <3>2. users' = users  BY <1>1 DEF BackendNotify
    <3>3. UNCHANGED <<HeaderLabel, CurrentNames>>  BY <3>1, <3>2, LabelReads DEF CurrentUsers
    <3> QED BY <1>a, <1>1, <2>1, <2>2, <3>3, HeaderOwes DEF BackendNotify, menuVars
  <2> QED BY <2>3, <2>4
<1>2. ASSUME NEW key \in Written \cap Mutable, WriteSetting(key) PROVE HeaderSafe'
  <2>1. Scheduled(Header) => Scheduled(Header)'  BY <1>2 DEF WriteSetting, Scheduled
  <2>2. Awaited(Header) => Awaited(Header)'  BY <1>2 DEF WriteSetting, Awaited
  <2>3. CASE key \in Reads("header")
    BY <1>2, <2>3, HeaderInputs, HeaderParts DEF WriteSetting, HeaderSafe, Awaited
  <2>4. CASE key \notin Reads("header")
    <3>1. \A k \in Reads("header") : env'[k] = env[k]
      BY <1>2, <2>4, HeaderInputs DEF WriteSetting, TypeOK
    <3>2. users' = users  BY <1>2 DEF WriteSetting
    <3>3. UNCHANGED <<HeaderLabel, CurrentNames>>  BY <3>1, <3>2, LabelReads DEF CurrentUsers
    <3> QED BY <1>a, <1>2, <2>1, <2>2, <3>3, HeaderOwes DEF WriteSetting, menuVars
  <2> QED BY <2>3, <2>4
<1>3. ASSUME NEW n \in MaxUsersChoices, SetMaxUsers(n) PROVE HeaderSafe'
  <2>1. Scheduled(Header) => Scheduled(Header)'  BY <1>3, HeaderParts, FlagsStay DEF SetMaxUsers
  <2>2. Awaited(Header) => Awaited(Header)'  BY <1>3 DEF SetMaxUsers, Awaited
  <2>3. UNCHANGED <<HeaderLabel, CurrentNames>>  BY <1>3, LabelReads DEF SetMaxUsers, CurrentUsers
  <2> QED BY <1>a, <1>3, <2>1, <2>2, <2>3, HeaderOwes DEF SetMaxUsers, menuVars
<1>4. ASSUME UsersChange \/ AnyUsersChange PROVE HeaderSafe'
  <2>1. PICK some : UsersAnnounced(some)  BY <1>4 DEF UsersChange, AnyUsersChange
  <2>2. PICK live \in BOOLEAN :
           /\ env' = [env EXCEPT !["is-live-session"] = live]
           /\ RebuildSoon(AddFlags(some, backend') \cup
                IF live # On("is-live-session") THEN Affected("is-live-session") ELSE {})
    BY <2>1 DEF UsersAnnounced
  <2>3. Scheduled(Header) => Scheduled(Header)'  BY <2>2, HeaderParts, FlagsStay
  <2>4. Awaited(Header) => Awaited(Header)'  BY <2>1 DEF UsersAnnounced, Awaited
  <2>5. \A k \in Reads("header") : env'[k] = env[k]  BY <2>2, HeaderInputs DEF TypeOK
  <2>6. \/ "header" \in AddFlags(some, backend')
        \/ UNCHANGED <<HeaderLabel, CurrentNames>> \/ CurrentNames' = {}
    BY <1>o, <2>1, <2>5, AddedNames DEF UsersAnnounced
  <2>7. HeaderSafe' \/ UNCHANGED <<HeaderLabel, CurrentNames>>
    BY <2>2, <2>6, HeaderParts, FlagsStay DEF HeaderSafe
  <2> QED BY <1>a, <2>1, <2>3, <2>4, <2>7, HeaderOwes DEF UsersAnnounced, menuVars
<1>5. ASSUME NEW uid \in Uids, UserRemoved(uid) PROVE HeaderSafe'
  <2>1. Scheduled(Header) => Scheduled(Header)'
    BY <1>5, HeaderParts, FlagsStay DEF UserRemoved, OnUserRemoved
  <2>2. Awaited(Header) => Awaited(Header)'  BY <1>5 DEF UserRemoved, Awaited
  <2>3. users' = [u \in DOMAIN users \ {uid} |-> users[u]] /\ env' = env
    BY <1>5 DEF UserRemoved, OnUserRemoved
  <2>4. UNCHANGED CurrentUsers \/ CurrentUsers' = {}
    BY <1>o, <2>3 DEF CurrentUsers, OneOwner
  <2>5. \A u \in CurrentUsers' : users'[u] = users[u]  BY <2>3 DEF CurrentUsers
  <2>6. HeaderSafe' \/ UNCHANGED <<HeaderLabel, CurrentNames>>
    BY <2>3, <2>4, <2>5, LabelReads DEF HeaderSafe
  <2> QED BY <1>a, <1>5, <2>1, <2>2, <2>6, HeaderOwes DEF UserRemoved, menuVars
<1>6. ASSUME NEW key \in Written, SettingChanged(key) PROVE HeaderSafe'
  <2>1. PICK sections : RebuildSoon(sections)
                        /\ (key # "user-show-menu" => sections = Affected(key))
    BY <1>6 DEF SettingChanged, UserShowMenuChanged
  <2>2. Scheduled(Header) => Scheduled(Header)'  BY <2>1, HeaderParts, FlagsStay
  <2>3. Awaited(Header) => Scheduled(Header)' \/ Awaited(Header)'
    <3>1. "header" \notin Affected("user-show-menu")
      BY DEF Affected, AdminKeys
    <3> QED BY <1>6, <2>1, <3>1, HeaderParts, FlagsStay DEF SettingChanged, Awaited
  <2>4. HeaderSafe' \/ UNCHANGED <<HeaderLabel, CurrentNames>>
    <3>1. \A k \in Reads("header") : env'[k] = env[k]  BY <1>6 DEF SettingChanged
    <3>2. CASE key # "user-show-menu"
      BY <1>6, <3>1, <3>2, LabelReads DEF SettingChanged, CurrentUsers
    <3>3. CASE key = "user-show-menu" /\ ~On("user-show-menu")
      <4>1. CurrentUsers' = {}
        BY <1>6, <3>3 DEF SettingChanged, UserShowMenuChanged, CurrentUsers
      <4> QED BY <3>1, <4>1, LabelReads DEF HeaderSafe
    <3>4. CASE key = "user-show-menu" /\ On("user-show-menu")
      <4>1. /\ users' = Added(users, DOMAIN backend, backend)
            /\ RebuildSoon({"switch"} \cup AddFlags(DOMAIN backend, backend))
        BY <1>6, <3>4 DEF SettingChanged, UserShowMenuChanged
      <4>2. \/ "header" \in AddFlags(DOMAIN backend, backend)
            \/ UNCHANGED <<HeaderLabel, CurrentNames>> \/ CurrentNames' = {}
        BY <1>o, <3>1, <4>1, AddedNames
      <4> QED BY <4>1, <4>2, HeaderParts, FlagsStay DEF HeaderSafe
    <3> QED BY <3>2, <3>3, <3>4
  <2> QED BY <1>a, <1>6, <2>2, <2>3, <2>4, HeaderOwes DEF SettingChanged, menuVars
<1>7. ASSUME RebuildTimeout  PROVE HeaderSafe'
  <2> DEFINE slots == {s \in Slots : Section(s) \in rebuild_flags /\ menus[s] # NoMenu}
  <2>1. Rebuild(slots) /\ UNCHANGED <<env, unseen, users, max_users>> /\ rebuild_id
    BY <1>7 DEF RebuildTimeout, inputVars
  <2>2. Header \notin slots  BY <2>1, RebuiltIsFresh
  <2>3. menus'[Header] = menus[Header]  BY <2>1, <2>2, HeaderParts DEF Rebuild
  <2>4. Section(Header) \notin rebuild_flags
    BY <2>2, <2>3, HeaderParts DEF Stale
  <2>5. Stale(Header)  BY <2>1, <2>3, HeaderParts, FreshStays
  <2>6. Awaited(Header) \/ CurrentNames = {}
    BY <1>a, <2>4, <2>5 DEF HeaderIsScheduled, Scheduled
  <2> QED BY <2>1, <2>6 DEF HeaderSafe, Awaited, CurrentNames, CurrentUsers, On
<1>8. ASSUME OnBusAcquired  PROVE HeaderSafe'
  <2>1. Rebuild(MenuSlots) /\ UNCHANGED <<env, unseen, users, max_users, rebuild_flags, rebuild_id>>
    BY <1>8 DEF OnBusAcquired, inputVars
  <2>2. Header \notin MenuSlots  BY DEF Header, MenuSlots, Sections
  <2>3. menus'[Header] = menus[Header]  BY <2>1, <2>2, HeaderParts DEF Rebuild
  <2>4. Stale(Header)  BY <2>1, <2>3, HeaderParts, FreshStays
  <2> QED BY <1>a, <2>1, <2>4
          DEF HeaderIsScheduled, HeaderSafe, Scheduled, Awaited, CurrentNames, CurrentUsers, On
<1>9. CASE OnNameLost \/ UNCHANGED vars
  <2>1. menus' = menus /\ UNCHANGED <<env, unseen, users, max_users, rebuild_flags, rebuild_id>>
    BY <1>9 DEF OnNameLost, vars, inputVars, menuVars
  <2>2. Stale(Header)  BY <2>1, HeaderParts, FreshStays
  <2> QED BY <1>a, <2>1, <2>2
          DEF HeaderIsScheduled, HeaderSafe, Scheduled, Awaited, CurrentNames, CurrentUsers, On
<1>10. CASE Dispose
  BY <1>10 DEF Dispose
<1> QED BY <1>1, <1>2, <1>3, <1>4, <1>5, <1>6, <1>7, <1>8, <1>9, <1>10
       DEF OpenNext, Next, InputStep

\* The panel header is never out of date without its rebuild being on its way,
\* unless there is nobody to name: add_user flags it only for a user who owns
\* the session, and this is enough because there is one owner at most.
THEOREM HeaderFollows == OpenSpec => []HeaderIsScheduled
<1>1. Init => TypeOK /\ TableIsCurrent /\ OneOwner(backend) /\ HeaderIsScheduled
  BY InitType, InitTable, InitOwner, InitHeader
<1>2. TypeOK /\ TableIsCurrent /\ OneOwner(backend) /\ HeaderIsScheduled /\ [OpenNext]_vars
        => (TypeOK /\ TableIsCurrent /\ OneOwner(backend) /\ HeaderIsScheduled)'
  BY NextType, NextTable, NextOwner, NextHeader
<1> QED BY <1>1, <1>2, PTL DEF OpenSpec
-----------------------------------------------------------------------------
(* The end of the service.                                                 *)
(*                                                                         *)
(* What is exported was created when the bus came and is only rebuilt      *)
(* since, and a rebuilt menu is a menu: no menu is NoMenu.                 *)

Exist(slots) == \A slot \in slots : menus[slot] # NoMenu

\* The actions have a state from the start; until the bus comes nothing is
\* exported, and what is exported exists.
Exporting ==
  /\ alive => Exist(ActionSlots)
  /\ bus = "none" \/ bus = "lost" \/ ~alive => exported = {}
  /\ ~alive => ~rebuild_id
  /\ exported # {} => Exist(MenuSlots)

\* An item that is shown or not is one of the items there are.
LEMMA ItemsAre ==
  ASSUME NEW choices, NEW types, \A c \in choices : c[1] \in types
  PROVE  Items(choices) \in SUBSET types
BY DEF Items

LEMMA AdminItemsAre == AdminItems \in SUBSET PlainItems
<1> DEFINE choices ==
      {<<"custom", On("show-custom-item") /\ On("custom-item-label") /\ On("custom-item-uri")>>,
       <<"about", On("show-device-info")>>,
       <<"desktop_help", On("show-desktop-help")>>,
       <<"distro_help", On("show-distro-help")>>,
       <<"usage-mode", HasUsageMode>>,
       <<"bug", On("show-bug-report")>>}
<1>1. \A c \in choices : c[1] \in PlainItems
  BY DEF PlainItems
<1>2. AdminItems = Items(choices)
  BY DEF AdminItems
<1> HIDE DEF choices
<1> QED BY <1>1, <1>2, ItemsAre

LEMMA SettingsItemsAre == SettingsItems \in SUBSET PlainItems
<1> DEFINE choices == {<<"online-accounts", On("has-online-account-error")>>}
<1>1. \A c \in choices : c[1] \in PlainItems
  BY DEF PlainItems
<1>2. SettingsItems = {"settings"} \cup Items(choices) /\ "settings" \in PlainItems
  BY DEF SettingsItems, PlainItems
<1> HIDE DEF choices
<1> QED BY <1>1, <1>2, ItemsAre

LEMMA LogoutItemsAre == LogoutItems \in SUBSET AskingItems
<1>1. (bLocal /\ Ellipsis) \in BOOLEAN
  OBVIOUS
<1>2. <<"logout", bLocal /\ Ellipsis>> \in AskingItems
  BY <1>1, Zenon DEF AskingItems
<1>3. LogoutItems = {} \/ LogoutItems = {<<"logout", bLocal /\ Ellipsis>>}
  BY DEF LogoutItems
<1> QED BY <1>2, <1>3, Zenon

LEMMA SessionItemsAre ==
  ASSUME NEW profile  PROVE SessionItems(profile) \in SUBSET AskingItems
<1> DEFINE local ==
             {<<<<"suspend", FALSE>>, On("can-suspend")>>,
              <<<<"hibernate", FALSE>>, On("can-hibernate")>>,
              <<<<"reboot", Ellipsis>>, profile # "lockscreen" /\ On("can-reboot")>>,
              <<<<"power-off", Ellipsis>>,
                profile # "lockscreen" /\ ~On("suppress-shutdown-menuitem")>>}
           remote == {<<<<"remotesuspend", FALSE>>, RemoteSuspendable>>}
<1>1. Ellipsis \in BOOLEAN
  BY DEF Ellipsis
<1>2. /\ <<"suspend", FALSE>> \in AskingItems /\ <<"hibernate", FALSE>> \in AskingItems
      /\ <<"reboot", Ellipsis>> \in AskingItems /\ <<"power-off", Ellipsis>> \in AskingItems
      /\ <<"remotesuspend", FALSE>> \in AskingItems
  BY <1>1 DEF AskingItems
<1>3. \A item, wanted, c : c = <<item, wanted>> => c[1] = item
  OBVIOUS
<1>4. ASSUME NEW c \in local \cup remote  PROVE c[1] \in AskingItems
  <2>1. \E item \in {<<"suspend", FALSE>>, <<"hibernate", FALSE>>, <<"reboot", Ellipsis>>,
                     <<"power-off", Ellipsis>>, <<"remotesuspend", FALSE>>} :
           \E wanted : c = <<item, wanted>>
    BY <1>4, Zenon
  <2>2. PICK item \in AskingItems : \E wanted : c = <<item, wanted>>
    BY <1>2, <2>1, Zenon
  <2>3. c[1] = item
    BY <1>3, <2>2, Zenon
  <2> QED BY <2>3, Zenon
<1>5. SessionItems(profile) = Items(local) \/ SessionItems(profile) = Items(remote)
  BY DEF SessionItems
<1> HIDE DEF local, remote
<1> QED BY <1>4, <1>5, ItemsAre

LEMMA LockIsItem ==
  ASSUME TypeOK, NEW profile
  PROVE  LockItem(profile) \in {{}} \cup {{item} : item \in LockItems}
<1> DEFINE Labels == {"Start Screen Saver", "Switch Account", "Lock/Switch Account", "Lock"}
<1>1. Ellipsis \in BOOLEAN /\ On("screensaver") \in BOOLEAN
  <2>1. "screensaver" \in Inputs  BY DEF Inputs, Settings
  <2> QED BY <2>1 DEF Ellipsis, On, TypeOK
<1>2. \A label \in Labels, action \in {"screensaver", "greeter"}, asks, saves \in BOOLEAN :
        <<label, action, asks, saves>> \in LockItems
  BY Zenon DEF LockItems
<1>3. LockItem(profile) = {} \/ \E label \in Labels, action \in {"screensaver", "greeter"},
                                   asks \in {FALSE, Ellipsis}, saves \in {FALSE, On("screensaver")} :
        LockItem(profile) = {<<label, action, asks, saves>>}
  BY DEF LockItem
<1>4. ASSUME NEW label \in Labels, NEW action \in {"screensaver", "greeter"},
             NEW asks \in {FALSE, Ellipsis}, NEW saves \in {FALSE, On("screensaver")},
             LockItem(profile) = {<<label, action, asks, saves>>}
      PROVE  \E item \in LockItems : LockItem(profile) = {item}
  <2>1. asks \in BOOLEAN /\ saves \in BOOLEAN
    BY <1>1, Zenon
  <2> QED BY <1>2, <1>4, <2>1, Zenon
<1> QED BY <1>3, <1>4, Zenon

LEMMA SwitchIsMenu ==
  ASSUME TypeOK, NEW profile, NEW kept \in SUBSET DOMAIN users
  PROVE  SwitchItems(profile, kept) \in SwitchMenus
<1>1. (IF bLocal THEN LockItem(profile) ELSE {}) \in {{}} \cup {{item} : item \in LockItems}
  BY LockIsItem
<1>2. (bLocal /\ On("can-switch") /\ On("guest-is-allowed")) \in BOOLEAN
  OBVIOUS
<1>3. Listed(profile, kept) \subseteq DOMAIN users
  BY DEF Listed, Candidates
<1>4. \A u \in DOMAIN users : u \in Uids /\ users[u].info \in Infos
  BY DEF TypeOK, IsTable, User
<1>5. {<<u, LabelOf[users[u].info]>> : u \in Listed(profile, kept)}
        \in SUBSET (Uids \X {LabelOf[i] : i \in Infos})
  BY <1>3, <1>4
<1> QED BY <1>1, <1>2, <1>5 DEF SwitchItems, SwitchMenus

LEMMA HeaderIsState ==
  ASSUME TypeOK  PROVE HeaderLabel \in SUBSET ({"Guest"} \cup {LabelOf[i] : i \in Infos})
<1>1. \A u \in CurrentUsers : users[u].info \in Infos
  BY DEF CurrentUsers, TypeOK, IsTable, User
<1> QED BY <1>1 DEF HeaderLabel, CurrentNames

LEMMA GuestSwitcherIsState ==
  ASSUME TypeOK  PROVE GuestSwitcher \in BOOLEAN \X BOOLEAN
<1>1. "guest-is-active-session" \in Inputs /\ "guest-is-logged-in" \in Inputs
  BY DEF Inputs, GuestProperties
<1>2. On("guest-is-active-session") \in BOOLEAN /\ On("guest-is-logged-in") \in BOOLEAN
  BY <1>1 DEF On, TypeOK
<1> QED BY <1>2, Zenon DEF GuestSwitcher

LEMMA UserSwitcherIsState ==
  ASSUME TypeOK  PROVE UserSwitcher \in (SUBSET Uids) \X (SUBSET Uids)
BY DEF UserSwitcher, CurrentUsers, TypeOK, IsTable

\* Whatever is made for a slot exists.
LEMMA ContentExists ==
  ASSUME TypeOK, NEW slot \in Slots, NEW kept \in SUBSET DOMAIN users
  PROVE  Content(slot, kept) # NoMenu
<1>1. /\ Section(slot) \in Sections
      /\ Place(slot) \in {"guest-switcher", "user-switcher"} => Section(slot) = "switch"
  BY SlotParts
<1>2. CASE Section(slot) = "admin"
  <2>1. Content(slot, kept) = AdminItems  BY <1>1, <1>2 DEF Content
  <2> QED BY <2>1, AdminItemsAre, MenuAssumption
<1>3. CASE Section(slot) = "settings"
  <2>1. Content(slot, kept) = SettingsItems  BY <1>1, <1>3 DEF Content
  <2> QED BY <2>1, SettingsItemsAre, MenuAssumption
<1>4. CASE Section(slot) = "logout"
  <2>1. Content(slot, kept) = LogoutItems  BY <1>1, <1>4 DEF Content
  <2> QED BY <2>1, LogoutItemsAre, MenuAssumption
<1>5. CASE Section(slot) = "session"
  <2>1. Content(slot, kept) = SessionItems(Place(slot))  BY <1>1, <1>5 DEF Content
  <2> QED BY <2>1, SessionItemsAre, MenuAssumption
<1>6. CASE Section(slot) = "header"
  <2>1. Content(slot, kept) = HeaderLabel  BY <1>1, <1>6 DEF Content
  <2> QED BY <2>1, HeaderIsState, MenuAssumption
<1>7. CASE Section(slot) = "switch"
  <2>1. CASE Place(slot) = "guest-switcher"
    <3>1. Content(slot, kept) = GuestSwitcher  BY <1>7, <2>1 DEF Content
    <3> QED BY <3>1, GuestSwitcherIsState, MenuAssumption
  <2>2. CASE Place(slot) = "user-switcher"
    <3>1. Content(slot, kept) = UserSwitcher  BY <1>7, <2>2 DEF Content
    <3> QED BY <3>1, UserSwitcherIsState, MenuAssumption
  <2>3. CASE Place(slot) \notin {"guest-switcher", "user-switcher"}
    <3>1. Content(slot, kept) = SwitchItems(Place(slot), kept)  BY <1>7, <2>3 DEF Content
    <3> QED BY <3>1, SwitchIsMenu, MenuAssumption
  <2> QED BY <2>1, <2>2, <2>3
<1> QED BY <1>1, <1>2, <1>3, <1>4, <1>5, <1>6, <1>7 DEF Sections

\* Rebuilding makes menus and unmakes none.
LEMMA RebuiltExists ==
  ASSUME TypeOK, NEW slots, Rebuild(slots), NEW slot \in Slots,
         slot \in slots \/ menus[slot] # NoMenu
  PROVE  menus'[slot] # NoMenu
<1>1. PICK kept \in Culls :
        menus' = [s \in Slots |-> IF s \in slots THEN Content(s, kept) ELSE menus[s]]
  BY DEF Rebuild
<1>2. kept \in SUBSET DOMAIN users  BY DEF Culls
<1> QED BY <1>1, <1>2, ContentExists

LEMMA InitExporting == Init => Exporting
<1> SUFFICES ASSUME Init PROVE Exporting
  OBVIOUS
<1>1. TypeOK /\ {} \in SUBSET DOMAIN users
  BY InitType
<1>2. Exist(ActionSlots)
  <2> SUFFICES ASSUME NEW slot \in ActionSlots PROVE menus[slot] # NoMenu
    BY DEF Exist
  <2>1. slot \in Slots /\ menus[slot] = Content(slot, {})
    BY DEF Init, Slots
  <2> QED BY <1>1, <2>1, ContentExists
<1> QED BY <1>2 DEF Init, Exporting

LEMMA NextExporting == TypeOK /\ Exporting /\ [OpenNext]_vars => Exporting'
<1> SUFFICES ASSUME TypeOK, Exporting, [OpenNext]_vars PROVE Exporting'
  OBVIOUS
<1>1. ASSUME UNCHANGED menuVars, alive, alive'  PROVE Exporting'
  BY <1>1 DEF Exporting, Exist, menuVars
<1>2. CASE UNCHANGED vars
  BY <1>2 DEF vars, menuVars, Exporting, Exist
<1>3. CASE InputStep \/ \E key \in Written : SettingChanged(key)
  <2>1. UNCHANGED menuVars /\ alive /\ alive'
    <3>1. ASSUME NEW some, UsersAnnounced(some)  PROVE UNCHANGED menuVars /\ alive /\ alive'
      BY <3>1 DEF UsersAnnounced
    <3>2. CASE UsersChange
      BY <3>1, <3>2 DEF UsersChange
    <3>3. ASSUME NEW key, BackendNotify(key) \/ WriteSetting(key)
          PROVE  UNCHANGED menuVars /\ alive /\ alive'
      BY <3>3 DEF BackendNotify, WriteSetting
    <3>4. ASSUME NEW n, SetMaxUsers(n) \/ UserRemoved(n)
          PROVE  UNCHANGED menuVars /\ alive /\ alive'
      BY <3>4 DEF SetMaxUsers, UserRemoved
    <3>5. CASE \E key \in Written : SettingChanged(key)
      BY <3>5 DEF SettingChanged
    <3> QED BY <1>3, <3>2, <3>3, <3>4, <3>5 DEF InputStep
  <2> QED BY <1>1, <2>1
<1>4. CASE AnyUsersChange
  <2>1. UNCHANGED menuVars /\ alive /\ alive'
    BY <1>4 DEF AnyUsersChange, UsersAnnounced
  <2> QED BY <1>1, <2>1
<1>5. CASE RebuildTimeout
  <2>1. /\ Rebuild({slot \in Slots : Section(slot) \in rebuild_flags /\ menus[slot] # NoMenu})
        /\ alive /\ alive' /\ UNCHANGED <<exported, bus>>
    BY <1>5 DEF RebuildTimeout
  <2>2. (Exist(ActionSlots) => Exist(ActionSlots)') /\ (Exist(MenuSlots) => Exist(MenuSlots)')
    BY <2>1, RebuiltExists DEF Exist, Slots
  <2> QED BY <2>1, <2>2 DEF Exporting
<1>6. CASE OnBusAcquired
  <2>1. Rebuild(MenuSlots) /\ alive /\ alive' /\ bus' = "acquired"
    BY <1>6 DEF OnBusAcquired
  <2>2. (Exist(ActionSlots) => Exist(ActionSlots)') /\ Exist(MenuSlots)'
    BY <2>1, RebuiltExists DEF Exist, Slots
  <2> QED BY <2>1, <2>2 DEF Exporting
<1>7. CASE OnNameLost
  BY <1>7 DEF OnNameLost, Exporting, Exist
<1>8. CASE Dispose
  BY <1>8 DEF Dispose, Exporting
<1> QED BY <1>2, <1>3, <1>4, <1>5, <1>6, <1>7, <1>8 DEF OpenNext, Next

\* Once the name is lost or the service disposed of nothing is exported and no
\* timer is left, and until then every profile on the bus has all its sections,
\* also when exporting failed in part: on_bus_acquired creates the menus before
\* it exports them, and neither rebuild_now nor a signal takes one away.
THEOREM ShutdownIsClean == OpenSpec => []CleanShutdown
<1>1. Init => TypeOK /\ Exporting
  BY InitType, InitExporting
<1>2. TypeOK /\ Exporting /\ [OpenNext]_vars => (TypeOK /\ Exporting)'
  BY NextType, NextExporting
<1>3. Exporting => CleanShutdown
  BY DEF Exporting, Exist, CleanShutdown
<1> QED BY <1>1, <1>2, <1>3, PTL DEF OpenSpec

-----------------------------------------------------------------------------
(* A service at rest. *)

\* All that is known of the service in every state.
ServiceInv ==
  /\ TypeOK /\ Exporting
  /\ TableIsCurrent /\ OneOwner(backend)
  /\ StaleIsScheduled /\ HeaderIsScheduled

LEMMA ServiceInvInit == Init => ServiceInv
BY InitType, InitExporting, InitTable, InitOwner, InitScheduled, InitHeader DEF ServiceInv

LEMMA ServiceInvNext == ServiceInv /\ [OpenNext]_vars => ServiceInv'
<1> SUFFICES ASSUME ServiceInv, [OpenNext]_vars PROVE ServiceInv'  OBVIOUS
<1>1. TypeOK' /\ Exporting' /\ TableIsCurrent' /\ StaleIsScheduled' /\ HeaderIsScheduled'
  BY NextType, NextExporting, NextTable, NextScheduled, NextHeader DEF ServiceInv
<1>2. OneOwner(backend)'
  BY NextOwner DEF ServiceInv
<1> QED BY <1>1, <1>2 DEF ServiceInv

\* With no signal and no timer on its way, what is shown is what there is to show.
LEMMA AtRest ==
  ASSUME ServiceInv, alive, unseen = {}, ~rebuild_id
  PROVE  /\ \A profile \in {"desktop", "lockscreen"} :
              menus[<<profile, "switch">>] # NoMenu =>
                \E kept \in Culls : menus[<<profile, "switch">>] = SwitchItems(profile, kept)
         /\ menus[<<"user-switcher", "switch">>] = UserSwitcher
         /\ CurrentNames # {} => menus[Header] = HeaderLabel
         /\ \A u \in DOMAIN users : u \in DOMAIN backend /\ users[u] = backend[u]
         /\ On("user-show-menu") => DOMAIN users = DOMAIN backend
<1>1. \A slot \in Slots : ~Scheduled(slot) /\ ~Awaited(slot)
  BY DEF Scheduled, Awaited
<1>2. \A slot \in Slots \ {Header} : ~Stale(slot)
  BY <1>1 DEF ServiceInv, StaleIsScheduled
<1>3. ASSUME NEW profile \in {"desktop", "lockscreen"}, menus[<<profile, "switch">>] # NoMenu
      PROVE  \E kept \in Culls : menus[<<profile, "switch">>] = SwitchItems(profile, kept)
  <2> DEFINE slot == <<profile, "switch">>
  <2>1. slot \in Slots /\ slot # Header /\ Place(slot) = profile /\ Section(slot) = "switch"
    BY DEF Slots, MenuSlots, Sections, Header, Place, Section
  <2>2. PICK kept \in Culls : menus[slot] = Content(slot, kept)
    BY <1>2, <1>3, <2>1 DEF Stale, Shows
  <2>3. Content(slot, kept) = SwitchItems(profile, kept)
    BY <2>1 DEF Content
  <2> QED BY <2>2, <2>3
<1>4. menus[<<"user-switcher", "switch">>] = UserSwitcher
  <2> DEFINE slot == <<"user-switcher", "switch">>
  <2>1. /\ slot \in Slots /\ slot \in ActionSlots /\ slot # Header
        /\ Place(slot) = "user-switcher" /\ Section(slot) = "switch"
    BY DEF Slots, ActionSlots, Header, Place, Section
  <2>2. menus[slot] # NoMenu
    BY <2>1 DEF ServiceInv, Exporting, Exist
  <2>3. PICK kept \in Culls : menus[slot] = Content(slot, kept)
    BY <1>2, <2>1, <2>2 DEF Stale, Shows
  <2>4. Content(slot, kept) = UserSwitcher
    BY <2>1 DEF Content
  <2> QED BY <2>3, <2>4
<1>5. ASSUME CurrentNames # {}  PROVE menus[Header] = HeaderLabel
  <2>1. Header \in Slots /\ Header \in ActionSlots /\ Section(Header) = "header"
        /\ Place(Header) = "panel"
    BY DEF Slots, ActionSlots, Header, Section, Place
  <2>2. menus[Header] # NoMenu
    BY <2>1 DEF ServiceInv, Exporting, Exist
  <2>3. ~Stale(Header)
    BY <1>1, <1>5, <2>1 DEF ServiceInv, HeaderIsScheduled
  <2>4. Content(Header, {}) = HeaderLabel
    BY <2>1 DEF Content
  <2> QED BY <2>1, <2>2, <2>3, <2>4 DEF Stale, Shows
<1>6. /\ \A u \in DOMAIN users : u \in DOMAIN backend /\ users[u] = backend[u]
      /\ On("user-show-menu") => DOMAIN users = DOMAIN backend
  BY DEF ServiceInv, TableIsCurrent
<1> QED BY <1>3, <1>4, <1>5, <1>6
=============================================================================
