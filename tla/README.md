# A formal model of ayatana-indicator-session

`ayatana-indicator-session-service` is the program behind the session menu of
the panel: lock, switch user, log out, restart, shut down. It is one process
with one GLib main loop. Everything it knows comes from D-Bus services
(AccountsService, logind, the display manager, the Lomiri shell, the GNOME
session manager, the web credentials service) and from GSettings, and everything
it shows leaves as a GMenu and actions exported on the session bus.

Within the process nothing runs in parallel: a callback is one atomic step. What
is hard is outside: replies describe a moment that has passed, signals overtake
or follow them, objects vanish while a proxy for them is being created, services
are missing or fail, and the program keeps copies (tables of users, logins,
cached flags, menus) which it must bring up to date by reacting to the right
signals. Nearly every property here asks the same question of another copy: *can
it be out of date with nothing on its way that would correct it?*

## 1. Inventory

| Component | Source (`src/src/…`) | State | Operations | What makes it correct |
|---|---|---|---|---|
| Menu service | `service.c` | table of user snapshots, rebuild flags and timer, header and action states, three menus, bus exports | change signals of three backends and two GSettings, rebuild timer, name acquired / lost, max-users, dispose, menu activations | what is shown is what the inputs say, or a rebuild is coming; the table is current; nothing outlives dispose |
| User directory | `backend-dbus/users.c` | uid → account proxy, logins, owner of the session, live flag, refresh timer | AccountsService signals and replies, logind signals and replies, `set_proxies`, dispose, `activate_user` | listeners are told of every change; the directory converges on the accounts and sessions there are |
| Guest account | `backend-dbus/guest.c` | allowed, logged in, active | logind and display manager signals and replies, `set_proxies`, dispose, `switch_to_guest` | as above, for three flags |
| Permissions | `backend-dbus/actions.c` | eight properties, computed or cached | lockdown and indicator settings, CanSuspend / CanHibernate, seat, web credentials, dialog owner | a notify for each change; cached flags follow the services |
| Ending the session | `backend-dbus/actions.c` | dialog handlers, calls on their way | logout, reboot, power off; dialog signals and replies | nothing unasked, no answer lost or doubled, a logout reaches somebody who answers it |
| Lock and switch | `backend-dbus/actions.c` | shell, screen saver and display manager proxies | lock, switch to greeter / guest / user | a session that is left is locked |
| Suspend, hibernate, launchers | `backend-dbus/actions.c` | none | one call, or one program started | – |
| Start-up | `backend-dbus/utils.c`, `backend-dbus.c` | a counter and four members shared by four calls | ask, reply, cancel | proxies handed over once, together, never to freed objects |
| Abstract classes | `actions.c`, `users.c`, `guest.c` | none | virtual calls, notify, signals | – |
| Main program | `main.c` | none | run until the name is lost | – |
| Problem reports, helpers | `recoverable-problem.c`, `utils.c` | none | run programs | – |

How they interact: `main` creates the service; its `init` calls `backend_get`,
which creates the three backend objects and starts the gathering of proxies. The
objects emit signals and property notifications, which the service handles in
the same main-loop step; the service calls their getters when it builds menus and
their methods when a menu item is activated. Settings are read by both.

`PROJECT.json` lists the hazards with their lines.

## 2. Modules

| Module | Models | Abstracts |
|---|---|---|
| `SessionService` | `service.c` | labels, icons and widgets: a menu is what is in it and what each entry depends on |
| `SessionUsers` | `backend-dbus/users.c` with AccountsService and logind | an account is a uid (its object path) and one value for all its text properties |
| `SessionGuest` | `backend-dbus/guest.c` with logind and the display manager | sessions are on our seat; being the guest is a set |
| `SessionActions` | properties in `backend-dbus/actions.c` (38–479, 1126–1239) | desktops are three switches |
| `EndSession` | `backend-dbus/actions.c` (513–849) with the user and the shell | launching of desktop programs; zenity is an answer |
| `ProxyGather` | `backend-dbus/utils.c`, `backend-dbus.c` | a proxy is its name |
| `Startup` | nothing: what `backend_get` promises its caller, implemented by `ProxyGather` | |
| `SwitchSession` | lock and switch in `backend-dbus/actions.c` (204–234, 513–530, 944–1030) and the activations that lead there; extends `ProxyGather` | a call is its kind; lockers succeed or fail |
| `Indicator` | `SessionUsers` and `SessionService` wired as `backend_get` and `indicator_session_service_init` wire them | other backends are inputs |
| `MC…` | instances for TLC | |
| `…_proofs` | theorems | |

The operators introduced by a comment "Mistaken …" are plausible wrong versions of
the definition that follows them; each is used to confirm that the runs notice
such a mistake, and none is used by a specification.

### SessionService

The inputs are `env`, one Boolean per setting or backend property as a *read*
returns it, `backend`, the users a read of the backend returns, and `max_users`.
A setting another program writes has its new value at once but its `changed`
signal comes later, in any order (`unseen`); the properties that the actions
object computes from settings (`SettingBacked`) behave like settings. Other
backend properties change and notify in one step. `users`, `rebuild_flags`,
`rebuild_id`, `reported_users` are the members of the same name in `priv_t`.
`menus` maps each *slot* (a section of a profile's menu, the header, the two
switcher states) to what it was last built from, `NoMenu` before `create_menu`.

`Content` translates the `create_*_section` functions: the set of entries with
what each depends on. `Affected` is the table of `g_signal_connect` calls in
`indicator_session_service_init` (1455–1515). `RebuildSoon` sets flags and
starts the timer if there is none; `RebuildTimeout` rebuilds the flagged slots that
exist and clears all flags. `Culls` yields every set of users the unstable sort
may keep. `UsersAnnounced` lets the backend change several users in one go, as
`set_active_uid` and `set_logins` do, and announces a superset of those changed:
what `MirrorFresh` of `SessionUsers` promises and `Indicator` checks of the two
together. `Spec` lets the users change in the ways one session and one account
at a time can; `OpenSpec` lets them change in any way that is announced
(`AnyUsersChange`), and is the specification the main theorem is about.

Like the code, `can-logout` follows `suppress-logout-menuitem` without a
notification of the actions object; the service listens to that key itself.

The individual unexports of `unexport` are one assignment, `exported' = {}`: each id is
tested and cleared in the same callback, and no id can fail to be unexported.

### SessionUsers

`acctmsg` and `login1msg` are the connections: replies and signals of one
service arrive in the order it sent them. `asked` counts, per account, the
proxies being created; the reply carries the properties of the moment
AccountsService answers. If the account has gone by then, GDBusProxy ignores the
error of `GetAll` and delivers a proxy whose uid is 0: `PhantomUid`.

ListSessions is answered from `listed`, which may still contain a session whose
removal was announced (`ghosts`) for `LingerTicks`; `update_list_tag` is the five
second timer in ticks. `current` is the environment variable `XDG_SESSION_ID`,
read when a reply is handled; it moves only in the tests
(`tests/backend-dbus/mock-login1-seat.cc:189`), hence the constant
`CurrentMoves`. `mirror` is the history of a listener that reads `get_user` on
every signal. `faulty` records that a proxy was missing or a call failed, after
which the directory is not expected to be complete.

`World`, the two services, goes on after `Dispose`, and the refresh timer is guarded by
nothing but its own `update_list_tag`: what keeps a disposed object silent is what
`my_dispose` takes back, as `SilentOnceDisposed` checks. Replies to the calls it cancels
come back as a cancelled error, on which the callbacks return; they are dropped.

An account's properties change with its "Changed" signal: the code creates a new
proxy for each, and this is what is modelled; that the old proxy may itself see
the new values a little earlier is not.

### SessionGuest

As the session part of `SessionUsers`, without a second look after a removal.
`ActiveAfter` says that the last guest session of a reply, which has no order,
decides. `misled` records that a call failed or a dead session was listed.

### SessionActions

`Now` is what a read of each property returns; `Notified` is the table of
connections in `indicator_session_actions_dbus_init`. That table has a gap: `can-logout`
is read from `suppress-logout-menuitem` too, which has no connection there
(`actions.c:1162-1173`, against `403`). A listener of the object alone would keep an old `can-logout`.
The listener that matters is the menu service, which watches that one setting itself
(`service.c:1493`): `ListenedTo`. `mirror` is what this listener last read of each property,
reading again on what it `Heard`. (It reads when the rebuild timer fires rather than
at once; that the rebuild comes is the business of `SessionService`.)

`SetProxies` asks logind what it can do and connects to the seat *without reading
it*, so the flag is TRUE until the seat announces a change to us (`seat_told`).
`unanswered` records failed power calls.
Closing a dialog disconnects handlers by their user data and so drops the
connection to the owner of the shell's name too (`actions.c:658`); hence
`OnDialogOwner` may notify or not, and no property may depend on it.

### EndSession

`opening`, `shown` and `dialogmsg` are the shell's dialog: `Open` calls on their
way, the dialog shown, and replies and signals coming back in order. `handlers`
counts the sets of five handlers that `show_lomiri_end_session_dialog` connects;
`canceled` and `closed` drop all of them. `called` counts runs of `logout_now`,
`reboot_now`, `power_off_now`; `reboot_now` and `power_off_now` need logind's
proxy to do anything, which is not distinguished. A logout is a call to the shell
(`logouts`) or to the session manager (`manager_logouts`) and counts as `accepted` when
its *reply* says so, not when it is sent. The shell's error leads to the session manager
(`OnLogoutFailed`); the session manager's own error is only logged
(`OnManagerRefuses`, `actions.c:532-540`), and that logout is `refused` for good.
The history variables say what the user did (`confirmed`, `overlapped`) and what
failed (`failed`, `broken`).

`Dispose` drops pending messages. The reply callback of the dialog would call
`logout_now` on a disposed object even when its call was cancelled
(`actions.c:670-688`), but the program disposes of its objects after the main
loop has ended, so that is never dispatched.

### ProxyGather and Startup

Each of up to four replies decrements `pending`; the last one runs
`on_proxies_ready` and frees the struct. `given` lists what each object received.
`Startup` is the promise to the caller: `waiting`, then once `given` or `dropped`,
the latter only if the caller has gone. `KeepsPromise` is the refinement under
`Outcome`.

### SwitchSession

It starts with the program, because the menu's actions are never disabled: a
click may come before, while and after `ProxyGather` hands over the seat's proxy,
and while the two session-bus proxies of the actions object are being created.
`LockCurrentSession` chooses one locker as `lock_current_session` does: the shell
if its name has an owner at the click, else the desktop's own program, else the
screen saver, else none. `SwitchTo` returns early without the seat's proxy, and
otherwise sends a lock (`locking`, per locker) and a switch (`switching`, in order)
without waiting for either. The shell may go before the lock reaches it; the
other lockers and the display manager may refuse. `in_vain` remembers a lock
that was asked for and not obtained since the screen was last locked.

`AwayIsLocked` needs `Unhurried`: nobody unlocks the screen while a call of
their own click is still on its way. Without it TLC finds the lock arriving, the
user unlocking, and the delayed switch leaving an unlocked session behind; the
code has no remedy for this, as it does not wait for the lock.

### Indicator

Two named instances, `U` of `SessionUsers` and `S` of `SessionService`. The
service's variable `backend` is replaced by `U!View`, what the directory answers
at that moment; so it is not a copy that could be wrong. A step of the directory
that emits signals is one step of both (`OnUserProxyReady`, `OnSessionListReady`,
`OnUserDeleted`): `Hear` is `on_user_added` / `on_user_changed` for exactly the
users the directory emits, with the snapshots it has then. `Quietly` marks the
steps of the directory that emit nothing, `ServiceAlone` those of the service that
do not concern users.

`Indicator` has the parts' assumptions as its own (`DirectoryAssumption`,
`ServiceAssumption`), and that the service's live flag is off at first, as the
directory's is. `MenuAssumption` of `SessionService` says that `NoMenu` is none of the
contents a menu or an action's state can have: a menu without items is a `GMenu` all the
same. `PhantomAssumption` says that a proxy without properties has no label, as
`get_user_label` finds neither a real name nor a user name in it (`service.c:309-329`).
`LockIsTrue` speaks of a local session: a remote one has no switch section at all.

The phantom user (uid 0, section 6) is one of the service's users: it counts for
"Switch Account", for the culling and for `max_users`, and while the directory
knows no owner (`active_uid` is 0 then) it is reported as the owner. The
properties of `Indicator` speak of the accounts that exist, and of the lists only
while there is room for all users the table has.

## 3. Runs

All passing runs explore their full state space.

| Run | Bounds | Shows |
|---|---|---|
| `users_accounts` | 1 account, 2 values of its properties, 3 messages on their way, missing proxies and errors | `MirrorFresh`, `AccountsSettle` |
| `users_logins` | 2 users, one of them the live image's; 3 sessions, one on another seat; 2 messages on their way | `TypeOK`, `MirrorFresh`, `LoginsSettle`, `SilentOnceDisposed`, `Converges` |
| `service_users` | 2 users, 2 values of their properties, room for one in the menu, user list on and off | staleness, table, culling |
| `service_bus` | no users, a choice of settings and backend properties, failing exports | staleness, shutdown |
| `indicator` | 1 user (the live image's) with 1 account and 1 session, 1 message of each service on its way, room for 1 user | `MenusTellTheTruth`, `KeepsTheServicesPromise`, `MenusFollowTheWorld` |
| `end_session` | 2 requests; Lomiri, GNOME and MATE | see below |
| `actions` | GNOME and Lomiri, 3 settings, 1 property change on its way, answers yes and challenge | mirror and cached flags |
| `guest` | 3 sessions, two of them guests', 2 messages on their way | `ListenerIsFresh`, `GuestSettles`, `GuestConverges` |
| `gather` | every choice of the optional proxies, 3 clicks, every choice of lockers | promise, memory, dead objects, lock and switch |
| `users_ghost`, `end_lost`, `actions_challenge` | violations, section 6 | |

Why the bounds are enough. One account suffices for its own life, as accounts
do not interact; three messages allow an addition, a change and a deletion to
overlap with a proxy's creation and its re-creation. Two users are needed where
they interact: ownership passing from one to another, one joining the logins as
another leaves, culling. A second session of one user distinguishes a set of
users from a set of sessions. The staleness property relates one slot to its
inputs, so inputs can be explored a group at a time; its proof covers all of them
together. Two requests are what it takes for dialogs to overlap; a third adds no
new pair. `MaxMsgs = 1` in `actions` bounds changes to one on its way: they are
handled one by one and each carries its own value, so a longer queue only delays.
One user is enough for `indicator`, as what users do to each other is the
business of `users_logins` and `service_users`; the settings keep their values there, as
`service_users` and `service_bus` vary them (the theorem about `MenusTellTheTruth` covers
any of them changing); with one message per service on
its way a proxy creation or a `ListSessions` call still overlaps with the next change.
(With two messages of AccountsService, where an account can go while its proxy is
created, `MenusTellTheTruth` also holds; that takes too long for a regular run.)
Three clicks allow a lock and two switches to be on their way at once; the
theorem covers any number. `service_bus` has two values of max-users so that the
property is set; the other runs have one or two as their culling needs.
`users_accounts` checks no system accounts; the proofs cover any set of them.

`CHECK_DEADLOCK FALSE` everywhere: after dispose, or when nobody does anything,
the program rests.

### Properties

* **Nothing stale is forgotten** (`StaleIsScheduled`, `HeaderIsScheduled`): if a
  slot shows what the inputs would not give any more, its section is flagged and
  the timer runs, or a setting it depends on has a `changed` signal on its way.
  The header has an exception, see section 6.
* `TableIsCurrent`, `OwnerIsListed`, `CleanShutdown`.
* `MirrorFresh`, `ListenerIsFresh`: a listener that keeps what it reads at each
  notification is current. `PropertiesMirrored`: the menu service, with the one setting it
  watches besides the actions object's notifications, is current unless a setting's
  signal is on its way.
* `SilentOnceDisposed`: nothing that was pending reaches a disposed directory.
* `AccountsSettle`, `LoginsSettle`, `GuestSettles`, `ServicesReflected`: when all
  messages are handled, what the object says is what the services say. The last is
  about what the code does with the services' answers, which is not always what one would
  expect: "challenge" is no "yes", and a seat that has announced nothing is taken to
  allow switching (section 6).
* `Converges`, `GuestConverges`: if the world stops changing, that state is reached
  and kept.
* `CancelIsHeeded`: nothing ends the session unless the user said yes to
  exactly that; only a dialog that failed to open logs out unasked.
  `OneAnswerOneCall`: undisturbed, each yes is acted on once.
  `ListensOnlyWhileOpen`: no handler is left behind. `LogoutGetsThrough`: with a
  session manager to fall back on, each called logout is accepted by somebody, or
  refused by the session manager; a failure of the shell alone never loses it.
* `FreedAfterLastReply`, `AllGivenTogether`, `NeverGivenToTheDead`, `KeepsPromise`.
* `AwayIsLocked`: when another session is in front because of a switch, ours is
  locked, a lock of it is on its way, or was asked for in vain.
* `KeepsTheServicesPromise`: the composition behaves as `SessionService!OpenSpec`
  under the refinement mapping of `Indicator`, so that the directory announces in
  each step whatever it answers differently after it, and the theorems about
  `OpenSpec` hold of the whole.
* `MenusTellTheTruth`: when nothing is on its way, lists, labels, switcher state,
  panel header and screen saver item agree with AccountsService and logind
  themselves, not with any copy. `MenusFollowTheWorld`: this state, with every other
  slot up to date (`Settled`), is reached and kept once the world rests.

### Fairness

The main loop dispatches what is queued and runs a timer that is due: weak
fairness of the object's callbacks and of each setting's signal. D-Bus answers
every call, with an error if the peer has gone: weak fairness of the replies, be they
acceptances or errors (`AnswerManager \/ OnManagerRefuses`).
logind eventually forgets dead sessions and time passes. Nothing forces users,
sessions, settings or the bus to do anything. `MenusFollowTheWorld`, `Converges` and
`GuestConverges` assume instead that from some point on the inputs rest.
`Indicator` states one weak fairness of everything together (`Progress`): as long
as something that follows from what happened is possible, something is done. That
is a main loop that dispatches while anything is due, and services that answer;
it promises nothing about any one message or timer.

## 4. Proofs

Checked by TLAPS, for all values of the constants that satisfy the `ASSUME`s of
the modules:

* `SessionService_proofs`: `TypeCorrect` and **`NothingStaleIsForgotten`**
  (`[]StaleIsScheduled`). The property is inductive together with the types. It
  rests on a table, `Reads`, of the inputs each section reads: `ReadsAreConnected`
  says that each of them is connected to a rebuild of that section, `ContentReads`
  that nothing else (but the users and max-users) changes a slot's content,
  `RebuiltIsFresh` that a rebuilt slot shows its content. Each action then either
  leaves a slot's content alone or flags its section (`StepOwes`). This is the claim behind every `g_signal_connect` in `init`,
  for all settings together, which no run explores at once. It is proved of
  `OpenSpec`, with any number of users changing at once. The same module proves,
  of `OpenSpec` too:
  * `TableFollows` (`[]TableIsCurrent`): inductive with the types. The delicate step is
    `UserShowMenuChanged`, which fills the table or empties it while `user-added`
    and `user-changed` go on filling it; `AnnouncedIsCurrent` says that an
    announcement leaves no old snapshot behind.
  * `OwnerStaysListed` (`[]OwnerIsListed`): from the table, from `OneOwner` (at most one
    user of the backend owns the session, which is inductive by itself), and from
    `OwnerIsKept`: every set `Culls` allows contains the owner if it may contain
    anybody.
  * **`ShutdownIsClean`** (`[]CleanShutdown`). Its strengthening `Exporting` says that nothing
    is exported before the bus comes, and that from the first export on every menu
    slot has a content. `ContentExists` shows, section by section, that no
    `create_*_section` yields `NoMenu`, and `RebuiltExists` that a rebuild takes nothing away.
  * `HeaderFollows` (`[]HeaderIsScheduled`): `add_user` flags the header only for a
    user who owns the session *now*. That the name of the previous owner goes too
    is no consequence of it: `AddedNames` shows that the names change without the
    flag only by becoming none, and needs `TableIsCurrent` and `OneOwner`.
* `SessionUsers_proofs`: `TypeCorrect` and **`ListenersAreFresh`**
  (`[]MirrorFresh`). `MirrorFresh` is inductive with the types. The delicate case is
  `OnSessionListReady`: `set_active_uid` announces two users while `logins` is old,
  and `set_logins` then announces those who came or went; the proof shows that the
  two announcements together cover every user whose snapshot changed.
  * **`AccountsAreSettled`** (`[]AccountsSettle`). The property only speaks of an empty
    queue; `AccountsSettling` says for every uid and any queue what is still to be heard
    (`Told`). An account that exists and is no system account is either `Coming`
    (a list, an addition or an answer is on its way or asked for, which leads to its
    current properties) or `Held`: the table, or an answer on its way, has a record of it, nothing later
    deletes or replaces it, and that record is current or a "Changed" follows it. An account that
    does not exist is `Left`: the last that the queue says of it is a
    deletion, or nothing is said and the table has none. The delicate case is `OnUserProxyReady`: a
    late answer may carry old properties, and then the "Changed" that makes them old is
    behind it in the queue. `Own` says that properties come from the account's own
    object, or are the phantom's, which are none.
  * **`LoginsAreSettled`**: `SpacedRemovals => (Spec => []LoginsSettle)`. `LoginsSettling` has
    three parts. `LoginsComing` or `LoginsTold`: a refresh will follow, or the last reply on
    its way, or the tables if there is none, have the sessions logind lists. `OneRemoval`: a
    removal is on its way only while no refresh is pending. `GhostsAreTimed`: while logind
    still lists a dead session, its removal is on its way or the
    timer runs, and the timer outlives it. The last two are what fails
    when a second session ends while the first one's timer runs; `users_ghost`
    shows that `LoginsSettle` is then false, so the hypothesis cannot be dropped. A desktop where
    one session at most ends within five seconds satisfies it.
  * `DisposedIsSilent` (`[][...]_vars`, `SilentOnceDisposed`): from `Silenced`, which says that a
    disposed object has no proxy, no timer, no call without an answer and no message on its way.
* `ProxyGather_proofs`: `TypeCorrect`, `NoReplyAfterFree`, `GivenTogether`,
  `DeadAreLeftAlone`, and `StepsKeepThePromise`, the step simulation of `Startup`.
  The strengthening is that `pending` equals the number of unanswered calls and
  that cancelling and dropping the objects go together.

* `SwitchSession_proofs`: `SwitchTypesHold` and **`LeftIsLocked`**, that is
  `[]AwayIsLocked` for any number of clicks, assuming `Unhurried`. `AwayIsLocked`
  is not inductive, as the switch was sent before: `IInv` says the same from the
  click on, while a switch is on its way. `LockCovers` is the one fact about
  `lock_current_session` it needs: it always leaves a request on its way or a
  trace that there was no locker.
* `Indicator_proofs`: **`ServicePromiseKept`**, the refinement
  `Spec => KeepsTheServicesPromise` (that is `S!OpenSpec` under the mapping), for any
  accounts, sessions, settings and bounds. So what `SessionService_proofs` shows of
  `OpenSpec`, users that change as they please as long as they are announced, is
  true of the service with its real directory. The strengthening is small: the
  directory's types, taken from `SessionUsers_proofs` through a second instance `D`
  (`SameSteps` says that `U` and `D` are the same module), and `Together`: the two
  parts are disposed of together, and the live flag the service reads is the
  directory's. `HeardIsAnnounced` states what the emission of a signal
  must fulfil; `SessionsAreAnnounced` is the case that is not obvious, where
  the two emissions of one reply together have to cover everybody who changed.
  * **`MenusAreTrue`**: `SpacedRemovals => (Spec => []MenusTellTheTruth)`, the program from
    end to end. `IndicatorInv` puts the parts' invariants together: `IInv`, and through the second
    instances `D` and `B` of the proof modules `AccountsSettling` and the service's
    `ServiceInv`, the conjunction of its inductive invariants; `LoginsSettling` is added for what concerns sessions.
    Each is preserved because a step of the whole is a step of the part: for `D` by
    `DirectorySteps`, for `B` by the refinement just proved. At rest the argument goes
    backwards along the data: `AccountsAtRest` and `SessionsAtRest` (the directory has what the services have),
    `ServiceAtRest` (the menus show what the directory has), then `ListsTell`, `OwnerTells`
    and `LockTells` for each thing shown.
  * `PeopleAreListed`: the desktop's list alone, without `SpacedRemovals` and whatever is
    on its way from logind: the defect of section 6 never costs an account its entry.
* `SessionActions_proofs`: `TypeCorrect`, **`EveryChangeIsHeard`**
  (`[]PropertiesMirrored`) and **`FlagsFollow`** (`[]ServicesReflected`). The first rests on
  a table, `NowTable`, of what a read of each property is computed from: `WrittenIsAwaited`
  shows that writing a setting leaves a signal on its way for every property it
  changes, `SignalIsEnough` that this signal makes the service read them again. `CreatedOnce` (a proxy arrives once)
  is needed because a second arrival would change `error_status` unannounced.
  `ServicesReflected` only speaks of an empty queue; `Reflected` says for any queue that the last
  error status on its way, or the flag if there is none, is what the credentials say, and
  the same of the seat once it has announced anything.
* `EndSession_proofs`: `TypeCorrect` and **`NothingUnconfirmed`** (`[]CancelIsHeeded`).
  `CancelIsHeeded` relates calls to answers that may lie many messages apart; `MessagesExpected`
  says of every message on its way that what it reports was recorded when it was
  sent, and `Grow` that these records are never taken back. **`EachYesIsDone`**
  (`[]OneAnswerOneCall`) needs the shape of the whole conversation: `OneAtATime` lists
  the five phases of a dialog's round with the exact messages on their way in each
  (`Idle`, `AskedFor`, `Showing`, `Dismissed`, `Confirming`); only in the last do calls and
  answers differ, and there one set of handlers is connected. **`NobodyListensOn`**
  (`[]ListensOnlyWhileOpen`) is inductive with the types and holds with overlaps too.
* `SessionGuest_proofs`: `TypeCorrect` and `FlagsAreHeard` (`[]ListenerIsFresh`), inductive
  with the types; and **`GuestFlagsSettle`** (`[]GuestSettles`), from `Settling`: a look at the
  sessions will follow, or the last reply or the flags have them (`LoginComing`,
  `LoginTold`), and the last value on its way from the display manager, or the flag if
  there is none, is the current one (`AllowedTold`). A dead session that is still listed
  implies `misled`: there is no second look here.

## 5. Only model-checked

Every safety property of the passing runs is a theorem. What stays with TLC is liveness,
which is out of the prover's reach: `MenusFollowTheWorld`, `Converges`,
`GuestConverges`, `LogoutGetsThrough` and the fairness part of `KeepsPromise` (its safety
part is `StepsKeepThePromise`). The theorems say that the state at rest is right; that
rest is reached is what these runs show. The properties of the three
runs that end in a violation are false, and so not theorems either.

## 6. Where the code and its texts disagree

With a run:

* `users_ghost`: `users.c:442-455`. The timer that takes the second look at the
  sessions is not started again by a removal that comes while it is pending; the
  only later look may come before logind has forgotten the dead session.
  `LoginsSettle` holds in `users_logins`, where removals are spaced
  (`SpacedRemovals`).
* `end_lost`: `actions.c:654-668`. A late `closed` of one dialog disconnects the
  handlers of the next one, whose confirmation is lost. Hence the condition
  `~overlapped` in `OneAnswerOneCall`.
* `actions_challenge`: `actions.c:249, 276`. Only "yes" enables suspend and hibernate, though
  `test-actions.cc:184, 191` asserts that "challenge" does so too. The tests' logind never
  gives that answer, so they pass.

Seen while modelling, and visible in the models, without a run:

* `service.c:294-307`: removing the current user, or switching the user list off,
  does not flag the header, which may go on showing the name
  (exception in `HeaderIsScheduled`).
* `users.c:249-275`: an account deleted while its proxy is created leaves a user
  with uid 0 and no name, which the table cannot get rid of; `service.c:801-803`
  meets it as a "bus hiccup" (`Known` in `AccountsSettle`).
* `guest.c:142`: with several guest sessions the last one listed decides whether
  the guest is active (`Accurate`); a dead guest session still listed stays
  logged in, there being no second look (`misled`).
* `actions.c:161-179, 1135`: the seat's `can-multi-session` is listened to and never read, so a
  seat that does not allow switching from the start is taken to allow it
  (`seat_told` in `ServicesReflected`).
* `actions.c:1162-1173`: no `can-logout` notification for `suppress-logout-menuitem`
  (`ListenedTo` in `PropertiesMirrored`).
* `actions.c:532-540`: a logout that the session manager refuses is only logged
  (`refused` in `LogoutGetsThrough`).
* `actions.c:682-684`: a dialog that fails to open "counts as confirmation", but of
  a logout, whatever was asked for (`CancelIsHeeded`).
* `actions.c:978`: before the screen saver's proxy has arrived, or without one, a
  lock is dropped with a warning on the console, and the switch that follows it is
  sent all the same (`in_vain`).

## 7. Not modelled

* Suspend, hibernate (`actions.c:481-507`): one call to logind whose answer nobody
  reads. Launchers (`actions.c:851-942`, `on_custom_activated`, the remote session's
  calls): one program started, by desktop. The activation handlers that forward to
  them. None keeps state, so there is nothing to get wrong in an order of steps.
* `my_activate_user` of `users.c` and `my_switch_to_guest` of `guest.c`, which the
  service does not call: it goes through the actions object instead.
* The GObject boilerplate of the abstract classes; `main.c`, whose only decision
  is to leave the loop when the name is lost; `recoverable-problem.c` and `utils.c`,
  which start programs; the generated D-Bus code; tests, data, translations and
  packaging.

## 8. Plan

1. Done: the modules of section 2 with the runs of section 3 and the theorems of
   section 4, which cover every safety property of the passing runs.
2. logind shared by the user directory and the guest object, one reply each:
   whether the two ever disagree when quiet.
