--------------------------- MODULE SessionService ---------------------------
(***************************************************************************)
(* The menu service of ayatana-indicator-session (src/src/service.c): it   *)
(* turns what its backends report and what GSettings says into one panel   *)
(* header, two action states and the menus of three profiles, and exports  *)
(* them on the session bus.                                                *)
(*                                                                         *)
(* Nothing is rebuilt when an input changes.  Each change signal adds the  *)
(* sections it affects to rebuild_flags and, if none is pending, starts    *)
(* one timer; the timer rebuilds all flagged sections from the values of   *)
(* that moment.  So a section shows old values for a while, and the        *)
(* question is whether every value it reads leads to a rebuild of it.      *)
(***************************************************************************)
EXTENDS Naturals, FiniteSets

CONSTANTS
  Uids,             \* uids the users backend may report
  Infos,            \* what it reports of a user: names, icon, login frequency
  LabelOf,          \* [Infos -> labels]: get_user_label, NoLabel if it is empty
  NoLabel,
  NoMenu,           \* stands for a menu that does not exist
  Frequency,        \* [Infos -> Nat]: login_frequency
  MaxUsersChoices,  \* the values of the "max-users" property
  bLocal,           \* FALSE: the session is a remote desktop session
  RemoteSuspendable,\* rda_session_can_be_suspended, for a remote session
  HasUsageMode,     \* Lomiri with its usage-mode schema
  Defaults,         \* [Inputs -> BOOLEAN]: the inputs as they are at first
  Mutable,          \* the inputs a run lets change
  MayFail           \* TRUE: exporting on the bus may fail

\* GSettings keys that are on or off (a string counts as on when not empty).
AdminKeys == {"show-custom-item", "custom-item-label", "custom-item-uri", "show-device-info",
              "show-desktop-help", "show-distro-help", "show-bug-report", "usage-mode"}
Settings == AdminKeys \cup
  {"show-real-name-on-panel", "user-show-menu", "suppress-logout-restart-shutdown",
   "suppress-logout-menuitem", "suppress-shutdown-menuitem", "screensaver"}

\* Properties of the three backend objects.
GuestProperties == {"guest-is-active-session", "guest-is-logged-in", "guest-is-allowed"}
ActionProperties == {"can-lock", "can-logout", "can-reboot", "can-switch", "can-suspend",
                     "can-hibernate", "can-prompt", "has-online-account-error"}
\* The actions object computes these from GSettings: they have their new value
\* as soon as a setting is written and notify when its "changed" comes.
SettingBacked == {"can-lock", "can-logout", "can-reboot", "can-switch", "can-prompt"}
Written == Settings \cup SettingBacked
Notifying == GuestProperties \cup (ActionProperties \ SettingBacked) \cup {"can-switch"}

Inputs == Settings \cup GuestProperties \cup ActionProperties \cup {"is-live-session"}

ASSUME UsersAssumption ==
  /\ IsFiniteSet(Uids)
  /\ Frequency \in [Infos -> Nat] /\ DOMAIN LabelOf = Infos
  /\ MaxUsersChoices \subseteq Nat /\ MaxUsersChoices # {}
ASSUME InputsAssumption ==
  /\ Defaults \in [Inputs -> BOOLEAN] /\ Mutable \subseteq Inputs
  /\ bLocal \in BOOLEAN /\ RemoteSuspendable \in BOOLEAN
  /\ HasUsageMode \in BOOLEAN /\ MayFail \in BOOLEAN

VARIABLES
  alive,            \* between indicator_session_service_init and my_dispose
  \* ---- inputs
  env,              \* the value of each input as a read returns it
  unseen,           \* what was written whose "changed" signal is still to come
  backend,          \* what indicator_session_users_get_user returns: uid -> user
  max_users,
  \* ---- priv
  users,            \* the service's own table of user snapshots
  reported_users,
  rebuild_flags,
  rebuild_id,       \* TRUE: the rebuild timer is pending
  menus,            \* what each slot shows; NoMenu before it is created
  exported,         \* what is exported on the bus
  bus               \* "none", then "acquired", then "lost"

inputVars == <<env, unseen, backend, max_users>>
menuVars == <<menus, exported, bus>>
vars == <<alive, inputVars, users, reported_users, rebuild_flags, rebuild_id, menuVars>>

-----------------------------------------------------------------------------
(* Slots: the places that show something, each built from one section. *)

Sections == {"header", "admin", "settings", "switch", "logout", "session"}
Profiles == {"desktop", "greeter", "lockscreen"}

Header == <<"panel", "header">>
ActionSlots == {Header, <<"guest-switcher", "switch">>, <<"user-switcher", "switch">>}
MenuSlots ==
  {<<"desktop", s>> : s \in Sections \ {"header"}} \cup
  {<<"greeter", "session">>, <<"lockscreen", "switch">>, <<"lockscreen", "session">>}
Slots == ActionSlots \cup MenuSlots
Place(slot) == slot[1]
Section(slot) == slot[2]

User == [info: Infos, is_logged_in: BOOLEAN, is_current_user: BOOLEAN]
IsTable(f) == DOMAIN f \subseteq Uids /\ f \in [DOMAIN f -> User]

\* What the menus are made of: plain items, items that may ask first, or the
\* three parts of the switch section.
PlainItems ==
  {"custom", "about", "desktop_help", "distro_help", "usage-mode", "bug",
   "settings", "online-accounts"}
AskingItems ==
  {"logout", "suspend", "hibernate", "reboot", "power-off", "remotesuspend"} \X BOOLEAN
LockItems ==
  {"Start Screen Saver", "Switch Account", "Lock/Switch Account", "Lock"} \X
  {"screensaver", "greeter"} \X BOOLEAN \X BOOLEAN
SwitchMenus ==
  [lock: {{}} \cup {{item} : item \in LockItems}, guest: BOOLEAN,
   users: SUBSET (Uids \X {LabelOf[i] : i \in Infos})]

\* A menu without items is one all the same: NoMenu is none of them, nor is it
\* the state of an action: the names in the panel, a pair of flags, of sets of users.
ASSUME MenuAssumption ==
  /\ \A menu \in SUBSET PlainItems : menu # NoMenu
  /\ \A menu \in SUBSET AskingItems : menu # NoMenu
  /\ \A menu \in SwitchMenus : menu # NoMenu
  /\ \A state \in SUBSET ({"Guest"} \cup {LabelOf[i] : i \in Infos}) : state # NoMenu
  /\ \A state \in BOOLEAN \X BOOLEAN : state # NoMenu
  /\ \A state \in (SUBSET Uids) \X (SUBSET Uids) : state # NoMenu

-----------------------------------------------------------------------------
(* What each slot shows, from the values of the moment. *)

On(key) == env[key]
Items(choices) == {c[1] : c \in {d \in choices : d[2]}}   \* the <<item, wanted>> pairs wanted

\* get_current_real_name and action_state_for_header: the label, {} for none.
CurrentUsers == {u \in DOMAIN users : users[u].is_current_user}
CurrentNames == IF On("guest-is-active-session") THEN {"Guest"}
                ELSE {LabelOf[users[u].info] : u \in CurrentUsers} \ {NoLabel}
HeaderLabel == IF On("show-real-name-on-panel") THEN CurrentNames ELSE {}

\* create_admin_section
AdminItems == Items(
  {<<"custom", On("show-custom-item") /\ On("custom-item-label") /\ On("custom-item-uri")>>,
   <<"about", On("show-device-info")>>,
   <<"desktop_help", On("show-desktop-help")>>,
   <<"distro_help", On("show-distro-help")>>,
   <<"usage-mode", HasUsageMode>>,
   <<"bug", On("show-bug-report")>>})

\* create_settings_section
SettingsItems == {"settings"} \cup Items({<<"online-accounts", On("has-online-account-error")>>})

\* use_ellipsis
Ellipsis == On("can-prompt") /\ ~On("suppress-logout-restart-shutdown")

\* create_logout_section
LogoutItems ==
  IF ~bLocal \/ On("can-logout") THEN {<<"logout", bLocal /\ Ellipsis>>} ELSE {}

\* create_session_section
SessionItems(profile) ==
  IF bLocal
  THEN Items({<<<<"suspend", FALSE>>, On("can-suspend")>>,
              <<<<"hibernate", FALSE>>, On("can-hibernate")>>,
              <<<<"reboot", Ellipsis>>, profile # "lockscreen" /\ On("can-reboot")>>,
              <<<<"power-off", Ellipsis>>,
                profile # "lockscreen" /\ ~On("suppress-shutdown-menuitem")>>})
  ELSE Items({<<<<"remotesuspend", FALSE>>, RemoteSuspendable>>})

\* The first item of create_switch_section: its label and action, the
\* keybinding it shows and whether it asks first; {} if there is none.
LockItem(profile) ==
  LET item(label, action, asks) == {<<label, action, asks, On("screensaver")>>}
      plain(label, action, asks) == {<<label, action, asks, FALSE>>}
  IN CASE On("is-live-session") -> item("Start Screen Saver", "screensaver", FALSE)
       [] ~On("is-live-session") /\ (profile = "lockscreen" \/ On("guest-is-active-session")) ->
            IF On("can-switch") THEN plain("Switch Account", "greeter", Ellipsis) ELSE {}
       [] OTHER ->
            IF Cardinality(DOMAIN users) > 1 /\ On("can-switch")
            THEN IF On("can-lock") THEN item("Lock/Switch Account", "screensaver", Ellipsis)
                                   ELSE item("Switch Account", "greeter", Ellipsis)
            ELSE IF On("can-lock") THEN item("Lock", "screensaver", FALSE) ELSE {}

\* Mistaken compare_users_by_usefulness: the owner of the session is like others.
MoreUsefulByLogin(a, b) ==
  \/ a.is_logged_in /\ ~b.is_logged_in
  \/ a.is_logged_in = b.is_logged_in /\ Frequency[a.info] > Frequency[b.info]

\* compare_users_by_usefulness: a must stay if b does
MoreUseful(a, b) ==
  \/ a.is_current_user /\ ~b.is_current_user
  \/ /\ a.is_current_user = b.is_current_user
     /\ \/ a.is_logged_in /\ ~b.is_logged_in
        \/ /\ a.is_logged_in = b.is_logged_in
           /\ Frequency[a.info] > Frequency[b.info]

\* The users that survive the culling.  The sort is not stable and the table is
\* unordered, so between equally useful users any choice is possible.
Culls ==
  IF Cardinality(DOMAIN users) <= max_users THEN {DOMAIN users}
  ELSE {kept \in SUBSET DOMAIN users :
          /\ Cardinality(kept) = max_users
          /\ \A u \in kept, v \in DOMAIN users \ kept : ~MoreUseful(users[v], users[u])}

\* create_switch_section: "users" are the uids listed and the labels they have.
\* Their order in the menu is that of the labels.
ListsUsers == bLocal /\ On("can-switch") /\ On("user-show-menu")
Candidates(profile, kept) ==
  IF ~ListsUsers THEN {}
  ELSE {u \in kept : ~(profile = "lockscreen" /\ users[u].is_current_user)}
Unusable(profile, kept) ==
  {u \in Candidates(profile, kept) : LabelOf[users[u].info] = NoLabel}
Listed(profile, kept) == Candidates(profile, kept) \ Unusable(profile, kept)
SwitchItems(profile, kept) ==
  [lock |-> IF bLocal THEN LockItem(profile) ELSE {},
   guest |-> bLocal /\ On("can-switch") /\ On("guest-is-allowed"),
   users |-> {<<u, LabelOf[users[u].info]>> : u \in Listed(profile, kept)}]

\* create_guest_switcher_state, create_user_switcher_state
GuestSwitcher == <<On("guest-is-active-session"), On("guest-is-logged-in")>>
UserSwitcher == <<CurrentUsers, {u \in DOMAIN users : users[u].is_logged_in}>>

Content(slot, kept) ==
  CASE Section(slot) = "header" -> HeaderLabel
    [] Section(slot) = "admin" -> AdminItems
    [] Section(slot) = "settings" -> SettingsItems
    [] Section(slot) = "logout" -> LogoutItems
    [] Section(slot) = "session" -> SessionItems(Place(slot))
    [] Place(slot) = "guest-switcher" -> GuestSwitcher
    [] Place(slot) = "user-switcher" -> UserSwitcher
    [] OTHER -> SwitchItems(Place(slot), kept)

\* The slots of the given set rebuilt at once, from one ordering of the users.
\* A user without a label is reported the first time it is met.
Rebuild(slots) ==
  \E kept \in Culls :
    /\ menus' = [slot \in Slots |-> IF slot \in slots THEN Content(slot, kept) ELSE menus[slot]]
    /\ reported_users' = reported_users \cup
         UNION {Unusable(Place(slot), kept) :
                  slot \in slots \cap {<<"desktop", "switch">>, <<"lockscreen", "switch">>}}

-----------------------------------------------------------------------------
(* rebuild_soon and the timer. *)

\* rebuild_soon for each of the sections: the timer is started, never restarted.
RebuildSoon(sections) ==
  /\ rebuild_flags' = rebuild_flags \cup sections
  /\ rebuild_id' = (rebuild_id \/ sections # {})

\* Mistaken rebuild_now: as long as nothing is exported nothing is rebuilt.
RebuildTimeoutNeedsBus ==
  /\ alive /\ rebuild_id
  /\ Rebuild({slot \in Slots :
                bus = "acquired" /\ Section(slot) \in rebuild_flags /\ menus[slot] # NoMenu})
  /\ rebuild_flags' = {}
  /\ rebuild_id' = FALSE
  /\ UNCHANGED <<alive, inputVars, users, exported, bus>>

\* rebuild_timeout_func and rebuild_now.  A menu that does not exist yet is
\* skipped, and the flags are cleared all the same.
RebuildTimeout ==
  /\ alive /\ rebuild_id
  /\ Rebuild({slot \in Slots : Section(slot) \in rebuild_flags /\ menus[slot] # NoMenu})
  /\ rebuild_flags' = {}
  /\ rebuild_id' = FALSE
  /\ UNCHANGED <<alive, inputVars, users, exported, bus>>

-----------------------------------------------------------------------------
(* Change signals: which sections each of them asks to rebuild. *)

Affected(key) ==
  CASE key \in AdminKeys -> {"admin"}
    [] key = "show-real-name-on-panel" -> {"header"}
    [] key = "user-show-menu" -> {"switch"}
    [] key = "suppress-logout-restart-shutdown" -> {"switch", "logout", "session"}
    [] key = "suppress-logout-menuitem" -> {"logout"}
    [] key = "suppress-shutdown-menuitem" -> {"session"}
    [] key = "screensaver" -> {"switch"}
    [] key = "is-live-session" -> {"switch"}
    [] key = "guest-is-active-session" -> {"header", "switch"}
    [] key \in GuestProperties \ {"guest-is-active-session"} -> {"switch"}
    [] key = "has-online-account-error" ->
         {"switch", "logout", "session", "header", "settings"}
    [] OTHER -> {"switch", "logout", "session"}

\* A backend property changes and its notify signal is handled at once.
BackendNotify(key) ==
  /\ alive
  /\ env' = [env EXCEPT ![key] = ~@]
  /\ RebuildSoon(Affected(key))
  /\ UNCHANGED <<alive, unseen, backend, max_users, users, reported_users, menuVars>>

\* my_can_logout says no under "suppress-logout-menuitem", for which the actions
\* object has no signal; without it the desktop's lockdown decides.
CanLogoutAfter(key) ==
  IF key # "suppress-logout-menuitem" THEN {On("can-logout")}
  ELSE IF On(key) THEN BOOLEAN ELSE {FALSE}

\* Another program writes a setting: reads see the new value at once, the
\* "changed" signal is dispatched later.
WriteSetting(key) ==
  /\ alive
  /\ key = "can-logout" => ~On("suppress-logout-menuitem")
  /\ IF key = "can-logout" THEN env' = [env EXCEPT ![key] = ~@]
     ELSE \E can \in CanLogoutAfter(key) :
            env' = [env EXCEPT ![key] = ~@, !["can-logout"] = can]
  /\ unseen' = unseen \cup {key}
  /\ UNCHANGED <<alive, backend, max_users, users, reported_users,
                 rebuild_flags, rebuild_id, menuVars>>

\* Mistaken add_user: the header instead of the switch section, never the header,
\* or one section too many.
AddFlagsEither(some, now) ==
  IF some = {} THEN {}
  ELSE IF \E u \in some : now[u].is_current_user THEN {"header"} ELSE {"switch"}
AddFlagsNoHeader(some, now) == IF some = {} THEN {} ELSE {"switch"}
AddFlagsOffByOne(some, now) == IF some = {} THEN {} ELSE {"switch", "N_SECTIONS"}

\* add_user for each uid of some, with the snapshots the backend has now.
Added(table, some, now) ==
  [u \in DOMAIN table \cup some |-> IF u \in some THEN now[u] ELSE table[u]]
AddFlags(some, now) ==
  IF some = {} THEN {}
  ELSE {"switch"} \cup IF \E u \in some : now[u].is_current_user THEN {"header"} ELSE {}

\* Mistaken user_show_menu_changed: users found while the list was off stay out.
UserShowMenuChangedNoRefill ==
  /\ users' = IF On("user-show-menu") THEN users ELSE << >>
  /\ RebuildSoon({"switch"})

\* user_show_menu_changed: fill the table or empty it
UserShowMenuChanged ==
  IF On("user-show-menu")
  THEN /\ users' = Added(users, DOMAIN backend, backend)
       /\ RebuildSoon({"switch"} \cup AddFlags(DOMAIN backend, backend))
  ELSE /\ users' = << >>
       /\ RebuildSoon({"switch"})

\* Mistaken connections: the switch section, where "Lock/Switch Account" may ask
\* first, does not follow the settings.
SettingChangedSwitchUnheard(key) ==
  /\ alive /\ key \in unseen
  /\ unseen' = unseen \ {key}
  /\ RebuildSoon(Affected(key) \ {"switch"}) /\ UNCHANGED users
  /\ UNCHANGED <<alive, env, backend, max_users, reported_users, menuVars>>

SettingChanged(key) ==
  /\ alive /\ key \in unseen
  /\ unseen' = unseen \ {key}
  /\ IF key = "user-show-menu" THEN UserShowMenuChanged
     ELSE RebuildSoon(Affected(key)) /\ UNCHANGED users
  /\ UNCHANGED <<alive, env, backend, max_users, reported_users, menuVars>>

\* my_set_property
SetMaxUsers(n) ==
  /\ alive
  /\ max_users' = n
  /\ RebuildSoon({"switch"})
  /\ UNCHANGED <<alive, env, unseen, backend, users, reported_users, menuVars>>

-----------------------------------------------------------------------------
(* The users backend.  It may change several users in one go and announces  *)
(* (user-added, user-changed) a set that includes every user it changed;    *)
(* at most one user owns the session.                                       *)

OneOwner(now) == \A u, v \in DOMAIN now :
  now[u].is_current_user /\ now[v].is_current_user => u = v

\* on_user_added and on_user_changed, whatever user-show-menu says, and
\* notify::is-live-session when the flag changes.
UsersAnnounced(some) ==
  /\ alive
  /\ DOMAIN backend \subseteq DOMAIN backend' /\ some \subseteq DOMAIN backend'
  /\ \A u \in DOMAIN backend' \ some : u \in DOMAIN backend /\ backend'[u] = backend[u]
  /\ users' = Added(users, some, backend')
  /\ \E live \in BOOLEAN :
       /\ live = On("is-live-session") \/ "is-live-session" \in Mutable
       /\ env' = [env EXCEPT !["is-live-session"] = live]
       /\ RebuildSoon(AddFlags(some, backend') \cup
                      IF live # On("is-live-session") THEN Affected("is-live-session") ELSE {})
  /\ UNCHANGED <<alive, unseen, max_users, reported_users, menuVars>>

\* on_user_removed
OnUserRemoved(uid) ==
  /\ users' = [u \in DOMAIN users \ {uid} |-> users[u]]
  /\ RebuildSoon({"switch"})

UserRemoved(uid) ==
  /\ alive
  /\ uid \in DOMAIN backend
  /\ backend' = [u \in DOMAIN backend \ {uid} |-> backend[u]]
  /\ OnUserRemoved(uid)
  /\ UNCHANGED <<alive, env, unseen, max_users, reported_users, menuVars>>

\* What the users backend may report next: one user is added or changes, or
\* the session passes from one user to another.
WithUser(now, uid, user) == [u \in DOMAIN now \cup {uid} |-> IF u = uid THEN user ELSE now[u]]
NextBackends ==
  {WithUser(backend, u, user) : u \in Uids, user \in User} \cup
  {[u \in DOMAIN backend |-> [backend[u] EXCEPT !.is_current_user = (u = owner)]] :
     owner \in DOMAIN backend}

UsersChange ==
  \E now \in {b \in NextBackends : OneOwner(b)} :
    /\ backend' = now
    /\ \E some \in SUBSET DOMAIN now : UsersAnnounced(some)

\* All that the service relies on: whatever the backend does to its users at
\* once, it announces.
AnyUsersChange ==
  /\ IsTable(backend') /\ OneOwner(backend')
  /\ \E some \in SUBSET Uids : UsersAnnounced(some)

-----------------------------------------------------------------------------
(* The bus and the life cycle. *)

\* on_bus_acquired: create what does not exist yet, then export it piece by
\* piece; a failure is logged and the rest goes on.
OnBusAcquired ==
  /\ alive /\ bus = "none"
  /\ bus' = "acquired"
  /\ Rebuild(MenuSlots)
  /\ exported' \in SUBSET ({"actions"} \cup Profiles)
  /\ ~MayFail => exported' = {"actions"} \cup Profiles
  /\ UNCHANGED <<alive, inputVars, users, rebuild_flags, rebuild_id>>

\* on_name_lost: unexport everything; main leaves its loop
OnNameLost ==
  /\ alive /\ bus # "lost"
  /\ bus' = "lost"
  /\ exported' = {}
  /\ UNCHANGED <<alive, inputVars, users, reported_users, rebuild_flags, rebuild_id, menus>>

\* Mistaken my_dispose: the timer stays.
DisposeKeepsTimer ==
  /\ alive
  /\ alive' = FALSE
  /\ exported' = {}
  /\ users' = << >> /\ reported_users' = {}
  /\ menus' = [slot \in Slots |-> NoMenu]
  /\ backend' = << >>
  /\ UNCHANGED <<env, unseen, max_users, rebuild_flags, rebuild_id, bus>>

\* my_dispose; rebuild_flags keeps its value, the timer goes, and so do the
\* backend objects
Dispose ==
  /\ alive
  /\ alive' = FALSE
  /\ exported' = {}
  /\ rebuild_id' = FALSE
  /\ users' = << >> /\ reported_users' = {}
  /\ menus' = [slot \in Slots |-> NoMenu]
  /\ backend' = << >>
  /\ UNCHANGED <<env, unseen, max_users, rebuild_flags, bus>>

\* indicator_session_service_init, then the construction property max-users.
\* The backends have no proxies yet, so they report no users.
Init ==
  /\ alive = TRUE
  /\ \E on \in SUBSET (Settings \cap Mutable) :
       env = [key \in Inputs |->
                IF key \in Settings \cap Mutable THEN key \in on
                ELSE Defaults[key] /\ ~(key = "can-logout" /\ "suppress-logout-menuitem" \in on)]
  /\ unseen = {} /\ backend = << >> /\ max_users \in MaxUsersChoices
  /\ users = << >> /\ reported_users = {}
  /\ rebuild_flags = {"switch"} /\ rebuild_id = TRUE
  /\ menus = [slot \in Slots |-> IF slot \in ActionSlots THEN Content(slot, {}) ELSE NoMenu]
  /\ exported = {} /\ bus = "none"

InputStep ==
  \/ \E key \in Notifying \cap Mutable : BackendNotify(key)
  \/ \E key \in Written \cap Mutable : WriteSetting(key)
  \/ \E n \in MaxUsersChoices : n # max_users /\ SetMaxUsers(n)
  \/ UsersChange
  \/ \E uid \in Uids : UserRemoved(uid)

Next ==
  \/ InputStep
  \/ \E key \in Written : SettingChanged(key)
  \/ RebuildTimeout
  \/ OnBusAcquired \/ OnNameLost \/ Dispose

Spec == Init /\ [][Next]_vars

\* The service among users that change in any number at once.
OpenNext == Next \/ AnyUsersChange
OpenSpec == Init /\ [][OpenNext]_vars

-----------------------------------------------------------------------------
(* Properties. *)

\* Every variable has its type.
TypeOK ==
  /\ alive \in BOOLEAN
  /\ env \in [Inputs -> BOOLEAN]
  /\ unseen \subseteq Written
  /\ IsTable(backend)
  /\ max_users \in MaxUsersChoices
  /\ IsTable(users)
  /\ reported_users \subseteq Uids
  /\ rebuild_flags \subseteq Sections
  /\ rebuild_id \in BOOLEAN
  /\ DOMAIN menus = Slots
  /\ exported \subseteq {"actions"} \cup Profiles
  /\ bus \in {"none", "acquired", "lost"}

\* only the switch section depends on which users survive the culling
Shows(slot) == IF Section(slot) = "switch"
               THEN \E kept \in Culls : menus[slot] = Content(slot, kept)
               ELSE menus[slot] = Content(slot, {})
Stale(slot) == menus[slot] # NoMenu /\ ~Shows(slot)
Scheduled(slot) == Section(slot) \in rebuild_flags /\ rebuild_id
\* a setting the slot's section depends on was written, its signal is on its way
Awaited(slot) == \E key \in unseen : Section(slot) \in Affected(key)

\* Whatever a menu section or switcher state shows that the current inputs would
\* not give any more is about to be rebuilt: the timer runs with its flag set, or
\* the signal that sets it is on its way.  This is the promise behind every
\* g_signal_connect of indicator_session_service_init: no value that a
\* create_*_section function reads can change without its section being flagged,
\* in whatever order users, settings, the timer and the bus come.
StaleIsScheduled ==
  alive => \A slot \in Slots \ {Header} : Stale(slot) => Scheduled(slot) \/ Awaited(slot)

\* The panel header is up to date in the same way, except that it may keep a
\* name when there is nobody to name any more: on_user_removed and
\* user_show_menu_changed flag the switch section only.
HeaderIsScheduled ==
  alive => (Stale(Header) => Scheduled(Header) \/ Awaited(Header) \/ CurrentNames = {})

\* The service's table never holds an out-of-date snapshot or a user the backend
\* dropped, though it is filled by signals as well as by user_show_menu_changed;
\* and while the user list is shown no user is missing from it.
TableIsCurrent ==
  alive => /\ \A u \in DOMAIN users : u \in DOMAIN backend /\ users[u] = backend[u]
           /\ On("user-show-menu") /\ "user-show-menu" \notin unseen
                => DOMAIN users = DOMAIN backend

\* With the user list on and room for at least one user, an up-to-date desktop
\* menu always lists the owner of the session, if the owner has a label: the
\* culling keeps the owner whatever the others' logins and frequencies.
OwnerIsListed ==
  LET slot == <<"desktop", "switch">>
  IN alive /\ menus[slot] # NoMenu /\ ~Stale(slot) /\ ListsUsers /\ max_users > 0 =>
       \A u \in CurrentUsers :
          LabelOf[users[u].info] # NoLabel => <<u, LabelOf[users[u].info]>> \in menus[slot].users

\* After the name is lost or the service disposed of, nothing stays exported, and
\* a disposed service has no timer left that would rebuild freed menus.
CleanShutdown ==
  /\ bus = "lost" \/ ~alive => exported = {}
  /\ ~alive => ~rebuild_id
  /\ \A profile \in exported \cap Profiles :
       \A slot \in MenuSlots : Place(slot) = profile => menus[slot] # NoMenu

\* Everything but a header without anybody to name shows what the inputs say.
Settled == \A slot \in Slots : Stale(slot) => slot = Header /\ CurrentNames = {}
=============================================================================
