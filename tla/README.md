# Verification of ayatana-indicator-messages

The messaging menu lists applications that receive messages, their *sources*
(an inbox, a contact) and their *messages*, and shows an icon in the panel that
tells whether one of them asks for attention. This directory holds TLA+
modules that model the program, the TLC runs that check them on small
instances, and proofs about them for every instance. Paths such as `src/...` are relative to
the repository's root; in `PROJECT.json` they are one level deeper
(`src/src/...`).

Contents: [inventory](#inventory), [modules](#modules-and-the-code),
[decisions](#modelling-decisions), [runs](#runs), [findings](#findings),
[proofs](#proofs), [what is not modelled](#not-modelled), [plan](#plan).

## Inventory

The program is two processes and more: the *service* (`src/`, one process per
session), any number of *clients* that link `libmessaging-menu/`, and a panel
that shows the menus and the actions which the service exports on D-Bus. Every
process runs one GLib main loop. Nothing is threaded, so a handler or callback is
atomic; what interleaves is the order in which method calls, replies, signals
and changes of name owners arrive.

| Component | State | Operations | What makes it correct |
|---|---|---|---|
| Application list, `src/im-application-list.c` | a record per application: proxy, cancellable, action groups of sources and messages, `draws_attention`; the exported root action; statuses | register, unregister, stop; callbacks of proxy creation and of the two list calls; item signals; activations; remove-all | items live as long as a proxy; what was cancelled stays so; the icon and remove-all agree with the items |
| Service, `src/messages-service.c` | the exported interface, the settings | the four D-Bus methods, start, SIGTERM, loss of the name | a section is durable; a registered client is running under every process |
| Stored list, `src/gsettingsstrv.c` | the key `applications` | append unique, remove | a set of ids |
| Phone menu, `src/im-phone-menu.c` | messages, newest first; the clear section | add, remove, remove application, remove all | sorted; an entry per message and no other; "Clear All" while there are entries |
| Desktop menu, `src/im-desktop-menu.c` with `src/im-menu.c` | a section per application with its source entries | application added, source added, changed, removed, stopped, remove all | an entry per visible source and no other; sections sorted |
| Chat status, in `im-application-list.c` and the library | a status per application, the panel's status | SetStatus, the user's choice, its signal to the clients | the most available status of the applications; the user's last choice wins |
| Client library, `libmessaging-menu/messaging-menu-app.c` | registration and status, the proxy of the service, sources, messages | the API; handlers of the service's calls; the service appearing and vanishing; dispose | what was asked for reaches every new service |
| Client message, `libmessaging-menu/messaging-menu-message.c` | a value with actions | setters, serialisation | sequential |
| Accounts service, `src/im-accounts-service.c` | a proxy per change of user | set attention, read a setting | an old reply does not replace a newer proxy |
| Action muxer, `src/gactionmuxer.c` | groups by prefix and prefixes by group | insert, remove, look up, forward signals | an action is found under the name it is announced with |
| Desktop shortcuts, `src/indicator-desktop-shortcuts.c` | none that changes | parse, launch | sequential |

How they interact:

- A client's `RegisterApplication` makes the service create a proxy for the
  client's object; once that is ready it calls `ListSources` and
  `ListMessages` on it, connects to its five signals and watches the name of
  its owner. All of these complete later, in callbacks that hold a pointer to
  the application's record.
- The list tells the menus of changes by GObject signals, synchronously. The
  menus name actions; activating one reaches the list through the muxer, which
  removes the item and calls the client.
- A client watches the service's well-known name. When it appears the client creates a
  proxy, and repeats its registration and status when that is ready.
- The service starts from the stored list and is restarted by systemd when it
  fails (`data/ayatana-indicator-messages.service.in`).

The hard behaviours follow from this: callbacks that outlive what they were
started for; a state read when a call is finished that is not the one when it
was made; replies that overlap with signals; an activation under way while the item
changes; a process that ends between two steps, or with calls under way; and
a root action that only some of the handlers refresh. `PROJECT.json` lists each
under `hazards` with its line.

## Modules and the code

**`ApplicationList.tla`** is the core: the application list driven by the method
handlers of the service, in an open environment. `Next` has these parts.

| Part | Actions | Code |
|---|---|---|
| `Method` | `Register`, `Unregister`, `ApplicationStopped` | the handlers in `messages-service.c` with `_add`, `_remove`, `_set_remote`, `_unset_remote` and the setting |
| `Callback` | `ProxyCreated` (`Connected`, `CreationCancelled`); `SourcesListed`, `MessagesListed`, `ListFailed`, `ListCrashed`; `Vanished` | `_proxy_created`, `_sources_listed`, `_messages_listed`, `_app_vanished` |
| `ClientSignal` | `SourceAdded`, `SourceChanged`, `SourceRemoved`, `MessageAdded`, `MessageRemoved` | the handlers connected in `_proxy_created` |
| `User` | `SourceActivated`, `MessageActivated`, `RemoveAll` | the actions' handlers |
| `Environment` | `Disconnect`, `Restart` | a client leaves the bus; a new process |

| Variable | Code |
|---|---|
| `app` | the `Application` records: `proxy` and `cancellable` (0 is NULL), the state of `launch`, `draws_attention`, the two action groups |
| `listed`, `stored` | the keys of `list->applications`; the setting |
| `root` | the state of the exported `messages` action and the enabledness of `remove-all` |
| `request` | a history of registrations; its index names the cancellable and proxy made for one |
| `pending` | asynchronous calls whose callback has not run, in issue order |
| `cancelled`, `leaked`, `watch` | cancellables that were cancelled; proxies overwritten without an unref; name watches that have not fired |
| `alive`, `crashed` | connections on the bus; a NULL `GError` was read |

**`MessagingMenuApp.tla`** is one client of the library: the program's calls, the
handlers of the service's calls, and the life of its proxy. `up` and `down` are
the messages under way in each direction.

**`Session.tla`** closes the environment of the core with this client
(`EXTENDS ApplicationList`, `Client == INSTANCE MessagingMenuApp`): the
messages of `up` drive the core's actions, whose calls go to `down`; a user
activates items and the service is restarted.

**`MessagingMenu.tla`** is the abstract specification of the core: sections,
items, running applications and the icon, without connections, proxies and
callbacks. It is what the documentation of the library promises, unregistering
included: that removes the application's section with all it shows.
`ApplicationList` implements it (`Menu == INSTANCE MessagingMenu WITH ...`) but for
one step that the code gets wrong: `ImplementsMenu` says that every step is one of
`Menu!Next`, or is `UnregistersLater`, by which an application leaves the setting and stays in
the menu ([observations](#findings)). A corrected program, whose `Unregister`
is the abstract one, satisfies it as well.

| Abstract | `ApplicationList` |
|---|---|
| `section`, `durable` | `listed`, `stored` |
| `running` | applications whose `launch` action has the state TRUE |
| `items[a]` | the sources and messages of `app[a]` that are in its action groups |
| `drawing[a]` | those that draw attention |
| `attention` | the icon in `root` |

**`PhoneMenu.tla`** and **`DesktopMenu.tla`** hold the state of one menu each
(`phone`: the section of messages, "Clear All"; `desktop`: the toplevel
sections, the chat status entries, the default clients' places and the table
`source_sections`) and one operator per signal handler. `InsertSorted` is
`im_menu_insert_item_sorted`. **`Menus.tla`** composes both with the core
(`EXTENDS ApplicationList`): every action of the list is conjoined with
what its signals make of the menus, `APP_ADDED`, `SOURCES_ADDED` and so on, in
the names of the signals.

**`ChatStatus.tla`** stands beside these: the handler of `SetStatus`
(`StatusReported`), the user's choice (`StatusActivated`), the restart of the
service, and clients that report a status of their own (`SetStatus`) or the
user's when they are told of it (`GlobalStatusChanged`), and lose and regain
the service (`Vanished`, `Appeared`, `CreatedMessagesService`). `appStatus` and
`panel` are the table `list->app_status` and the state of the `status` action;
`mine`, `proxy` and `connecting` are the client's `status`, `messages_service`
and the creations under way; `heard` counts the proxies that have the handler
of StatusChanged connected, among them one that was replaced without
being disconnected.

**`AccountsService.tla`** is `ImAccountsService`: a proxy per change of the
user, made asynchronously, and the calls of `SetXHasMessages`.
**`ActionMuxer.tla`** is `GActionMuxer` with what a watcher learns from its
signals.

**`MCApplicationList.tla`**, **`MCSession.tla`**, **`MCChatStatus.tla`** and
**`MCMenus.tla`** hold what TLC needs besides.
**`ApplicationList_proofs.tla`**, **`MessagingMenu_proofs.tla`**,
**`Session_proofs.tla`**, **`Menus_proofs.tla`**, **`ChatStatus_proofs.tla`**,
**`AccountsService_proofs.tla`** and **`ActionMuxer_proofs.tla`** hold the
theorems, and **`SequenceLemmas.tla`** what the proofs about queues and
sections need of sequences, ranks and folds.

Definitions whose comment begins with "Mutant:" are variants with a plausible
bug that no specification uses. They show that the properties can fail: with a
definition replaced by its variant, TLC finds the property violated.

## Modelling decisions

- **Items.** A source is absent, `hidden` (no count, time or string), `quiet` or
  `drawing`; a message is absent, `quiet` or `drawing`. Nothing else of an item
  decides control.
- **Callback order** (`Blocks`, `Due`). Replies of one connection arrive in the
  order of the calls. A cancelled call completes from an idle handler, before
  any call made afterwards can make its round trip. Between connections there
  is no order.
- **Creation of a proxy** always succeeds unless it is cancelled: GDBus ignores an
  error of the `GetAll` that it makes, also for a name whose owner has left.
  List calls may fail.
- **`_finish` on another proxy.** The generated finish function is called on
  `app->proxy`. When that is not the proxy of the call, it returns FALSE
  without an error, and the callback reads `error->message`: `ListCrashed`. A
  crashed service does nothing until `Restart`.
- **Unregistering.** Every client of the library passes an id that ends in
  ".desktop". The record is removed under that raw id, which is no key, so it
  stays. The paths on which a record is freed while callbacks hold it exist
  only for other callers and are left out.
- **Applications** have a desktop file. `RegisterApplication` of one that has
  none answers with an error and changes nothing.
- **Restart** stands for a crash, SIGTERM and `--replace`, at any step. The setting
  is durable when it is written. In `Session` what is on the way may be lost
  with the old process, up to any point. A proxy calls the owner of the name that it
  knows, so until the client is told that this one has gone its further calls may
  be lost, too (`SendCalls`).
- **Signals** reach every proxy object that still exists, so a leaked proxy
  takes part. The handlers set items to given states and are idempotent on the
  modelled state; in `Session` one delivery stands for all.
- **Chat status.** A status is its index in `status_ids`, and both sides check
  that it is one. That a client reports the user's choice back is an assumption on
  programs (`ChangeLog`: "assume they're all listening and adjust themselves or
  tell us otherwise"); one that adjusts silently would let an older report of its
  own, still under way, prevail over the user. Clients stay. A call made
  on a service that is gone, before the client is told, is lost or reaches the new
  one. `choice` records only what the user chose while every client had a proxy;
  see the observations below for the others.
- **Menus.** An emission of a GObject signal runs its handlers before it
  returns, so a step of the list and of the menus is one. `main` builds each menu
  twice, for the session and for the greeter; both get the same signals, and one stands
  for both. An item that draws attention is no other to the menus than one that
  does not, so only the latter occur (`Calmly`). `forgotten` is a
  history of what `UnregisterApplication` withdrew from the menus although the list
  kept it. Whether an application is the default mail client is any choice at
  the moment it is added.
- **The walk in `RemoveMessage`** goes over as many positions as the section had
  before, so it skips the entry after a removed one and reads behind the end.
  What it finds there is the entry that was last, possibly freed: reading it is
  either harmless or the end of the process (`dead`).
- **Accounts service.** The user manager's signals about other users return at
  once. A creation that was cancelled reports so even when it had completed.
  The user manager is loaded after `_init`.
- **Action muxer.** A group is under one prefix at a time, as the callers have
  it. Groups change at any time, those in the muxer or not.
- **The client** begins once its bus connection was made and its object exported.

## Runs

| Run | Checks | Shows |
|---|---|---|
| `lifecycle` | `TypeOK`, `IndInv`, `CancelledNeverRemote`, `ItemsHaveAProxy`, `RegistrationCompletes`, `QuietWhenAlone` | two connections race for one application: whatever the order of callbacks, a registration that was cancelled never becomes a remote (one that a registration by the connected name overwrites is not cancelled, see the observations) and items never outlive the proxies; a registration becomes the remote or was superseded; when the last client has left, the menu comes to rest |
| `attention` | `AttentionNotMissed`, `RootReflectsApps`, `ClearOnlyWithItems`, `SectionsStay`, `ImplementsMenu` | two applications: the icon misses nothing although few handlers refresh it; what appears in the menu is stored at once and stays while it is stored, so that it survives a crash at any step; the list implements the abstract menu but for unregistering |
| `session` | `SessionTypeOK`, `NothingLost` | with a user, what a running client holds ends up in the menu |
| `undisturbed` | `Converged`, `RegisteredRuns` | without activations and with a restart the menu ends up equal to what the client holds, and a registered client ends up running, whatever was lost with the old process or called on it before the client heard that it had gone |
| `chat` | `ChatTypeOK`, `PanelIsMostAvailable`, `UserChoiceWins`, `StatusArrives` | whatever reports and choices cross on the bus and whatever a restart loses, the panel shows the most available status, every client's last status arrives, and in the end the panel shows what the user chose unless a program chose since |
| `menus` | `MenusTypeOK`, `NewestFirst`, `ItemsShown`, `StoppedLeavesNothing`, `EntriesHaveAProxy` | the list with both menus and two connections: what can be activated has an entry, messages are newest first; an application that loses its remote, by a call, a vanished name, a registration that replaces it or with the process, leaves nothing behind, but for the late callback of a cancelled creation; and entries are only where a proxy of their application is connected |
| `sections` | `SectionsInOrder`, `SectionOfEach` | four applications, one with a chat status and one the default chat client, are added in any order, as a process starts or by registering, under any default mail client: each has its section in its place |
| `accounts` | `AccountsInv`, `LatestUser`, `FlagOnItsWay`, `ProxyReturns` | the user changes while proxies are being created: the one in use is the latest user's, there is one again in the end or an error, and what was told arrives |
| `muxer` | `MuxerInv`, `MirrorIsList`, `GroupsLetGo` | who follows the signals knows what listing gives, and a group that was removed is let go |
| `stale_watch`, `null_error`, `duplicate_entry` | one property each | [findings](#findings) |

**Bounds.** `MaxRequest` bounds registrations in a behaviour. Three
(`lifecycle`) are the least with which a registration is superseded while an
earlier one is cancelled and a still earlier one leaked; two connections are
the least that can race; one application suffices there since records of
different applications share only the root action, whose composition
`attention` checks with two. One source and one message
suffice: an item's handlers touch no other item, and the quantifiers over items
in `Root` are exercised by one of each kind. In `Session`, `MaxInFlight`
bounds how much the program and the user have under way (2: enough for one
message to overtake a decision made upon another), `MaxConnecting` the
creations of a service proxy at once, `MaxRestart` the restarts. A restart at any
step and two creations at once are explored in `undisturbed`; `session` explores
the user's activations under one process of the service.

`chat` has two applications that choose among three of the five statuses, of
which only the order matters. Nobody starts anything for a client while
`MaxInFlight` (2) things are under way for it, so a choice and a report cross; what follows
(answers, news of a restart, repeated reports) comes on top. One restart makes two
creations of a proxy overlap and a replaced proxy go on listening.
In `menus`, `MaxEntries` (3) bounds the entries of one section: three are the least
with which the removal of one message skips an entry between two it removes,
and two times make messages older, newer and equal; two registrations are the least with which one
replaces the other, or leaks its proxy. `sections` has four
applications whose names sort differently from their ids, enough for two in
sorted places besides the two default clients. `accounts` changes the user three times, so a
creation that was cancelled and one that was superseded since are under way
besides the latest. `muxer` has two prefixes and the global group, and three groups, so that
each place can be taken from a group by another.

`lifecycle` uses no symmetry, because of its liveness properties; `attention` and `chat` use
that of the applications, which no definition tells apart.

**Fairness** (`FairSpec`, and `Spec` of `AccountsService`). Only the main
loop's own callbacks are weakly fair: a proxy's creation, the list calls and a name
watch. Each has a cause that the
code does not control but GDBus guarantees: a call is answered, by the bus in
place of a peer that is gone, or times out; a name watch is notified. Nothing is
assumed of clients, users, the accounts daemon or restarts. In `lifecycle` a crash of the service
fulfils the promises, as the crash is a finding of its own.

**Deadlock** is checked in the other passing runs. In `Session` it is not:
the system really stops when the client is disposed and everything was taken.

## Findings

Each is a violation run, with the line that is contradicted in `PROJECT.json`.

1. `stale_watch`: the watch of an older registration stops an application
   whose newer connection is alive.
2. `null_error`: a list reply after a stop or replacement reads an error that
   was never set, and the service crashes.
3. `duplicate_entry`: a source that is added while it is already known gets a
   second entry in the desktop menu, and activating it removes only the first.

Other observations, made while modelling, that the models contain but no run is
spent on:

- Unregistering leaves the section in the menu, against the documentation ("If
  messaging_menu_app_unregister() is called, the application section is removed completely",
  `libmessaging-menu/messaging-menu-app.c:86`; "Completely removes the @app from the
  Messaging Menu", `:717`): the record is removed under the raw id, which is not its
  key (`src/im-application-list.c:889`), while the entries are withdrawn from the
  menus; the items stay in the list (`forgotten`). It goes with the next process, as it is
  not stored any more. This is the step `UnregistersLater` that `ImplementsMenu` excepts.
- A registration by the connection whose proxy is the remote overwrites the
  cancellable without cancelling it (`src/im-application-list.c:1340`; as long as the first
  proxy is not ready its owner is unknown, and `:1324` does cancel the earlier creation). With
  three registrations by one connection, of which the first is connected, a stop
  cancels the third only. The creation for the second completes and marks the stopped
  application as running, until its connection is closed (`QuietWhenAlone`).
- If the callback of the third, cancelled, creation comes after that one, it sets the proxy
  to NULL (`:1270`). The application is no longer running and was not
  reported as stopped: its items and entries stay. `StoppedLeavesNothing` excepts
  this step (`Nullified`); its proof brought it to light, since a run with fewer than three
  registrations does not reach it.
- A proxy that was overwritten (`:1270`) stays connected. After the application has stopped its
  signals still add items and entries; the application has neither a remote nor a
  cancellable then, so no app-stopped is emitted when the connection is closed (`:1249`), and the
  entries stay. `EntriesHaveAProxy` says that this takes a leaked proxy: an application that
  has none of its proxies connected has no entry.
- A source that is removed and inserted again while its activation is under way
  remains in the menu only.
- A client that is disposed between two services cannot tell the new one
  (`libmessaging-menu/messaging-menu-app.c:308`), which marks it as running
  if its registration arrives.
- The status of an application stays in the table when it stops or leaves, and the
  panel goes on showing it.
- A status that the user chooses while a client has no proxy is not heard by it, and
  is overridden by the one it reports when it has one again.
- A proxy of the service that is replaced while two are being created stays connected, so
  the program is told of each choice twice (`CreatedMessagesService`).
- A first message that does not draw attention does not refresh the root action
  (`_message_added`), so "remove-all" stays disabled over a menu that has items,
  while the phone menu offers "Clear All". `ClearOnlyWithItems` is for this reason one
  direction only.
- In the desktop menu, an application that is the default mail client when it is added
  displaces the section of an earlier one until the next start.
- `im_accounts_service_set_draws_attention` is dropped without a proxy and not repeated.
- Whether an entry shows its text on the greeter is decided when it is added.
- `on_user_manager_loaded` would be called without its object if the manager were
  loaded at `_init`; `canonical_id` maps ids that differ in "." and "_" to one key; a
  group under two prefixes of a muxer would be withdrawn under the wrong names.
  None of these is met by the rest of the program in practice.

## Proofs

`ApplicationList_proofs.tla` proves, for all sets of applications, connections
and items and every `MaxRequest`, from the one assumption
`MaxRequestAssumption` (it is a natural number):

| Theorem | Property |
|---|---|
| `Inductive` | `IndInv` |
| `TypeCorrect` | `TypeOK` |
| `AttentionCorrect` | `AttentionNotMissed` |
| `RootCorrect` | `RootReflectsApps` |
| `ClearCorrect` | `ClearOnlyWithItems` |
| `CancellationCorrect` | `CancelledNeverRemote` |
| `ItemsCorrect` | `ItemsHaveAProxy` |
| `SectionsCorrect` | `SectionsStay` |

None of the safety invariants is inductive alone. `AttentionNotMissed` needs that
an application's flag covers its items (`Flagged`), that the root state is the
disjunction of the flags (`RootReflectsApps`), and that what is not listed
is at rest (`Known`), or an unlisted application could draw attention.
`CancelledNeverRemote` needs that an application refers only to registrations
of its own (`Own`), or cancelling one would hit another application's, and that
all references are to registrations that were made (`Issued`), or a new one
could find its number cancelled already. `ItemsHaveAProxy` needs `Own` and
the removal of one call from `pending` to keep the others, for which there are
lemmas on `RemoveAt`. `IndInv` is their conjunction; `lifecycle` checks it too.

The proof that a step preserves it goes by kind of step: those that edit the
items of one application (`InvEdit`), leave the applications alone (`InvIdle`), or unset
a remote (`InvUnset`), with `InvRegister`, `InvProxyCreated`, `InvRemoveAll`
and `InvStart` for the rest. `SectionsCorrect` then looks at each action once.

`MessagingMenu_proofs.tla` proves `Implements` (`Spec => ImplementsMenu`): the initial
states map to abstract ones, and each step to an abstract step, the one excepted
step of unregistering, or a stutter.
The argument needs `IndInv` in every step that refreshes the root action or
touches an item: `IconFollows` from the flags that cover the items
(`FlagFits`, `Flagged`) and the root state that is their disjunction, and that a
step touches only its own application, from `Own`. Steps are grouped by kind:
those the abstract specification does not see (replies to cancelled calls,
clients that leave), edits, stops, registrations, unregistering, clearing and restart.

`ChatStatus_proofs.tla` proves, for all applications and bounds, from
`StatusAssumption` (statuses are indices of `status_ids`) and
`MaxRestartAssumption`:

| Theorem | Property |
|---|---|
| `ChatTypeCorrect` | `ChatTypeOK` |
| `StatusCorrect` | `PanelIsMostAvailable` |
| `StatusArrivesCorrect` | `StatusArrives` |
| `UserChoiceCorrect` | `UserChoiceWins` |

The invariant `ChatInv` adds two parts about the queues. `Synced` extends
`StatusArrives` to clients that have nothing but the appearance of the service
left to be told (`AllBack`): a client may have a proxy before it is told.
`ChoiceHeld` says that the user's choice is the last status that each client is
still told, or is its own status by now (`Heeded`), and that the panel shows it while no
application has reported any. When all is settled, each client's own status is
the choice, by `Synced` it is what the service has, and so the most
available of them is the choice.

`AccountsService_proofs.tla` proves `AccountsCorrect` (`AccountsInv`),
`LatestUserCorrect` and `FlagCorrect` (`FlagOnItsWay`) for any number of changes
and calls: `OneCreation` says that the cancellables of all earlier
changes are cancelled, so that only the latest creation can succeed.

`ActionMuxer_proofs.tla` proves `MuxerCorrect` (`MuxerInv`), `MirrorCorrect`
(`MirrorIsList`) and `LetGoCorrect` (`GroupsLetGo`) for all groups, prefixes and
names: the two tables are inverse to each other, so what is withdrawn under the
name in one is what was listed under the prefix in the other.

`Menus_proofs.tla` proves, for any finite sets of applications, sources and
messages, any times and names, and all bounds:

| Theorem | Property |
|---|---|
| `MenusFollow` | the list with both menus is a behaviour of the list (`Spec`) |
| `MenusInductive` | `MenusInv` |
| `MenusTypeCorrect` | `MenusTypeOK` |
| `NewestFirstCorrect` | `NewestFirst` |
| `SectionsInOrderCorrect` | `SectionsInOrder` |
| `ItemsShownCorrect` | `ItemsShown` |
| `SectionOfEachCorrect` | `SectionOfEach` |
| `StoppedCorrect` | `StoppedLeavesNothing` |
| `EntriesCorrect` | `EntriesHaveAProxy` |

Its assumptions are `MaxEntriesAssumption` (a natural number), `MenusAssumption` (names
and times are ordered; one of the applications at most is the chat client that the code
names; the sets are finite, since a reply is a message of finite length) and `SectionAssumption` (the
id of an application is none of the fixed sections). By `MenusFollow` the
invariant of the list holds, and `MenusInv` adds what each menu's handlers preserve: the
messages are in descending order of time (`PhoneRecord`), the desktop's sections are the
fixed ones with the listed applications sorted between them, each with its entries
(`WellFormed`), and what can be activated has an entry (`Follows`). The walk of
`RemoveMessage`, which skips entries, is handled by what it removes being entries
of the removed message only, and by `Keep` preserving the order of any entries it
keeps. A whole reply is a fold over its items. What a fold preserves
is proved from the definition of the library's fold: `SequenceLemmas` shows by the
well-foundedness of the natural numbers that a function satisfying its equations
exists (`FoldExists`), without an induction theorem that takes an operator.
`StoppedCorrect` looks at each way to lose a remote, or the registration that one is
awaited for. `EntriesCorrect` needs more than `MenusInv`: `EntriesOwned`, the same for all
applications (one that is not listed has no entry), is preserved because entries are added by
the signals and replies of a proxy only, which is connected after the step, too
(`LiveKept`, `LiveCompletes`), because a completed creation leaks the proxy that it replaces
(`LiveCreated`), and because the steps that take a remote emit app-stopped.

`Session_proofs.tla` proves, for any sources, messages and statuses and any
`MaxRequest`, `MaxInFlight`, `MaxConnecting` and `MaxRestart`:

| Theorem | Property |
|---|---|
| `SessionFollows` | `SessionSpec => Spec`: the client of the library is one of the environments for which the list is proved correct |
| `SessionImplements` | `ImplementsMenu`: the session implements the abstract menu, but for the same step |
| `UndisturbedIsSession` | `UndisturbedSpec => SessionSpec` |
| `SessionInductive` | `SessionInv` |
| `SessionTypeCorrect` | `SessionTypeOK` |
| `RegistrationCorrect` | `RegisteredRuns` |
| `NothingLostCorrect` | `NothingLost` |
| `ConvergedCorrect` | `Converged`, under `UndisturbedSpec` |

Its assumptions are `SelfAssumption` (the client is one of the applications and
connections), `SessionBoundsAssumption` and `MaxRequestAssumption` (bounds are natural
numbers) and `StatusAssumption` (a chat status is not named like another message of the
model). `SessionInv` is built up in four parts, each proved on top of those before:

- `Wired`: `IndInv`, and each message on the bus is one its handler expects and names a
  registration that was made.
- `Phased`: there is at most one call of a kind under way for a registration,
  its request or its answer is on the bus, and as long as the client lives,
  nothing fails. Without a remote either nothing is under way, or only creations, of which
  all but the last are cancelled; with one, no call under way is cancelled.
- `Registering`: the last news of the service is that it appeared, and a registered
  client has a remote or awaits one (its cancellable is set), has its registration
  under way, or will repeat it when the service is back: a call that is lost with a process is made
  while the news of its successor is still to come (`UnheardComes`). `RegisteredRuns` follows once
  nothing is under way.
- `Carried`: for each item that the client holds, the user's activation is on its way
  back, or the list has been asked for and the client has not answered, or the
  messages under way, applied in their order to what the menu shows, lead to what the
  client holds (`Leads`). This is what makes an old reply that overlaps with a newer
  signal harmless: the reply was sent before the signal.

When the queues are empty, `Leads` is equality, hence `NothingLost`. `Converged` also says
that nothing is in the menu that the client does not hold. For that, `Faithful` adds that nothing
is dismissed, and that for an item the client has removed the messages under way lead
from absent to absent (`Goes`), so that no reply still to come brings it back.

Together these theorems state every safety property of the passing runs.
Only model-checked are the liveness properties (`RegistrationCompletes`,
`QuietWhenAlone`, `ProxyReturns`), since the prover does not reason about
fairness, and the three properties that the code violates.

## Not modelled

- The message object and the desktop shortcuts: sequential, no interaction.
- The launch action and the counts, labels, icons and times of sources, which reach no
  property; the launcher and shortcut entries of a section, fixed from its creation.
- The export of a menu on D-Bus and the text shown on the greeter.
- The disposal of the accounts service, which never happens while a menu exists, and
  the privacy setting it caches.
- The states, queries and activations that a muxer forwards: each looks a group
  up by its prefix and changes nothing in the muxer.
- Clients that leave, in `ChatStatus`, and several clients of one application, in `Session`.
- The generated D-Bus code, wording, packaging, translations, and the tests.

Real time does not occur in the program's control.

## Plan

1. *Done:* `ApplicationList`, `MessagingMenuApp`, `Session`, `ChatStatus`,
   `PhoneMenu`, `DesktopMenu`, `Menus`, `AccountsService`, `ActionMuxer` and the
   abstract `MessagingMenu`, with the proofs above.
2. *Done:* the proofs about `Session` and `Menus`.
3. `Session` with two clients of one application, and which of its theorems survive.
4. An abstract specification of what a session promises the program: registered or not, and
   the items it holds.
