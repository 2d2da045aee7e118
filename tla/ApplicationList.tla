-------------------------- MODULE ApplicationList --------------------------
(***************************************************************************)
(* The application list of the messaging-menu service                      *)
(* (src/im-application-list.c), driven by the D-Bus method handlers of     *)
(* src/messages-service.c.                                                 *)
(*                                                                         *)
(* The environment is open: any client connection may call any method at   *)
(* any time, emit any signal from an object the service holds a proxy for, *)
(* and leave the bus.  Everything the service does runs on one main loop,  *)
(* so a handler or a callback is one atomic step; what interleaves is the  *)
(* order in which D-Bus calls, replies, signals and name-owner changes     *)
(* reach that loop.                                                        *)
(*                                                                         *)
(* Data is abstracted to what decides control: an item of an application   *)
(* is absent, or present and then drawing attention or not ("hidden" is a  *)
(* source whose count, time and string are all empty).  Labels, icons and  *)
(* message bodies are left out.                                            *)
(***************************************************************************)
EXTENDS Naturals, SequencesExt

CONSTANTS App,         \* installed applications (their desktop files exist)
          Conn,        \* client connections, i.e. unique bus names
          Source,      \* escaped ids of message sources
          Message,     \* escaped ids of messages
          MaxRequest   \* bound: RegisterApplication calls in one behaviour

ASSUME MaxRequestAssumption == MaxRequest \in Nat

SourceState == {"absent", "hidden", "quiet", "drawing"}
MessageState == {"absent", "quiet", "drawing"}

\* What a list reply or an "added" signal reports: some ids, none absent.
SourceReply == UNION {[S -> SourceState \ {"absent"}] : S \in SUBSET Source}
MessageReply == UNION {[M -> MessageState \ {"absent"}] : M \in SUBSET Message}

(***************************************************************************)
(* A registration is known by its number in `request'.  It numbers the     *)
(* GCancellable and the proxy that im_application_list_set_remote makes    *)
(* for it; 0 is NULL.                                                      *)
(***************************************************************************)
RequestId == 1..MaxRequest
RequestOrNull == 0..MaxRequest

Application == [proxy       : RequestOrNull,
                cancellable : RequestOrNull,
                launch      : BOOLEAN,
                draws       : BOOLEAN,
                sources     : [Source -> SourceState],
                messages    : [Message -> MessageState]]

Operation == [kind : {"create", "sources", "messages"},
              req  : RequestId,
              canc : RequestOrNull]

VARIABLES
  app,        \* the Application records
  listed,     \* the keys of list->applications
  stored,     \* the GSettings key "applications"
  root,       \* the exported "messages" state and "remove-all" enabledness
  request,    \* registrations so far: application and sender
  pending,    \* asynchronous calls whose callback has not run, in issue order
  cancelled,  \* cancellables that were cancelled
  leaked,     \* proxies overwritten without an unref: still connected
  watch,      \* registrations with a bus name watch that has not fired
  alive,      \* connections that are on the bus
  crashed     \* the service dereferenced a NULL GError

vars == <<app, listed, stored, root, request, pending, cancelled, leaked,
          watch, alive, crashed>>

calls == <<request, pending, cancelled, leaked, watch>>

Owner(k) == request[k].owner
Requester(k) == request[k].app

-----------------------------------------------------------------------------
(* One application: its action groups and its draws_attention flag.        *)

Stopped == [proxy       |-> 0,
            cancellable |-> 0,
            launch      |-> FALSE,
            draws       |-> FALSE,
            sources     |-> [s \in Source |-> "absent"],
            messages    |-> [m \in Message |-> "absent"]]

Drawing(x) == \/ \E s \in Source : x.sources[s] = "drawing"
              \/ \E m \in Message : x.messages[m] = "drawing"

HasItems(x) == \/ \E s \in Source : x.sources[s] # "absent"
               \/ \E m \in Message : x.messages[m] # "absent"

Recomputed(x) == [x EXCEPT !.draws = Drawing(x)]

\* Mutant: an added source does not raise the flag.
AddSourcesQuietly(x, items) ==
  [x EXCEPT !.sources = [s \in Source |-> IF s \in DOMAIN items
                                          THEN items[s] ELSE x.sources[s]]]

\* Mutant: an added message does not raise the flag.
AddMessagesQuietly(x, items) ==
  [x EXCEPT !.messages = [m \in Message |-> IF m \in DOMAIN items
                                            THEN items[m] ELSE x.messages[m]]]

\* An added item replaces one of the same name; the flag is only ever raised.
AddSources(x, items) ==
  [x EXCEPT !.sources = [s \in Source |-> IF s \in DOMAIN items
                                          THEN items[s] ELSE x.sources[s]],
            !.draws = @ \/ \E s \in DOMAIN items : items[s] = "drawing"]

AddMessages(x, items) ==
  [x EXCEPT !.messages = [m \in Message |-> IF m \in DOMAIN items
                                            THEN items[m] ELSE x.messages[m]],
            !.draws = @ \/ \E m \in DOMAIN items : items[m] = "drawing"]

\* Changing the state of an action that is not there does nothing.
ChangeSource(x, s, v) ==
  Recomputed([x EXCEPT !.sources[s] = IF @ = "absent" THEN @ ELSE v])

RemoveSource(x, s) == Recomputed([x EXCEPT !.sources[s] = "absent"])

RemoveMessage(x, m) == Recomputed([x EXCEPT !.messages[m] = "absent"])

ClearItems(x) == [x EXCEPT !.sources  = Stopped.sources,
                           !.messages = Stopped.messages,
                           !.draws    = FALSE]

-----------------------------------------------------------------------------
(* The panel's view, and the bookkeeping of asynchronous calls.            *)

Root(apps, shown) ==
  [draws   |-> \E a \in shown : apps[a].draws,
   visible |-> shown # {},
   clear   |-> \E a \in shown : HasItems(apps[a])]

\* Mutant: cancels the cancellable without checking that there is one.
CancelNull(k) == cancelled \cup {k}

Cancel(k) == cancelled \cup ({k} \ {0})

\* Mutant: refreshes the root action before the items are gone.
UnsetRemoteEarly(a) ==
  /\ app' = [app EXCEPT ![a] = Stopped]
  /\ cancelled' = Cancel(app[a].cancellable)
  /\ root' = Root(app, listed)

\* Mutant: does not override the action groups.
UnsetRemoteKeepsItems(a) ==
  /\ app' = [app EXCEPT ![a] = [@ EXCEPT !.proxy = 0, !.cancellable = 0,
                                         !.launch = FALSE]]
  /\ cancelled' = Cancel(app[a].cancellable)
  /\ root' = Root(app', listed)

UnsetRemote(a) ==
  /\ app' = [app EXCEPT ![a] = Stopped]
  /\ cancelled' = Cancel(app[a].cancellable)
  /\ root' = Root(app', listed)

Call(kind, k, c) == [kind |-> kind, req |-> k, canc |-> c]

(***************************************************************************)
(* Which callback may run next.  Replies of one connection arrive in the   *)
(* order of the calls; a cancelled call completes from an idle handler,    *)
(* before the round trip of any call made after the cancellation.          *)
(***************************************************************************)
Blocks(j, i) ==
  /\ Requester(pending[j].req) = Requester(pending[i].req)
  /\ \/ pending[j].canc \in cancelled
     \/ /\ pending[i].canc \notin cancelled
        /\ Owner(pending[j].req) = Owner(pending[i].req)

Due(kind, k) == {i \in DOMAIN pending :
                   /\ pending[i].kind = kind
                   /\ pending[i].req = k
                   /\ \A j \in 1..(i - 1) : ~Blocks(j, i)}

\* A proxy object still exists, and so do its signal handlers.
Live(k) == \/ app[Requester(k)].proxy = k
           \/ k \in leaked
           \/ \E i \in DOMAIN pending : /\ pending[i].req = k
                                        /\ pending[i].kind # "create"

-----------------------------------------------------------------------------
(* Initial state: the service starts from the stored list, alone.          *)

Start == /\ listed = stored
         /\ app = [a \in App |-> Stopped]
         /\ root = Root(app, listed)
         /\ pending = << >>
         /\ cancelled = {} /\ leaked = {} /\ watch = {}
         /\ crashed = FALSE

Init == /\ stored \in SUBSET App
        /\ request = << >>
        /\ alive = Conn
        /\ Start

-----------------------------------------------------------------------------
(* Handlers of the D-Bus methods (messages-service.c).                     *)

(***************************************************************************)
(* im_application_list_set_remote for the name c: stop the old remote      *)
(* unless that is a proxy for the same name, then start a new proxy.  The  *)
(* comparison only happens while there is a cancellable, and a             *)
(* registration by the same name overwrites it without cancelling.         *)
(***************************************************************************)
KeepsRemote(a, c) ==
  \/ app[a].cancellable = 0
  \/ app[a].proxy # 0 /\ Owner(app[a].proxy) = c

SetRemote(a, c, k) ==
  LET keep == KeepsRemote(a, c) IN
  /\ app' = [app EXCEPT ![a] = [(IF keep THEN @ ELSE Stopped)
                                  EXCEPT !.cancellable = k]]
  /\ cancelled' = IF keep THEN cancelled ELSE Cancel(app[a].cancellable)
  /\ pending' = Append(pending, Call("create", k, k))

ListAdd(a) == listed' = listed \cup {a}

\* Mutant: the record is removed, and the menus are not told.
ListRemoveKey(a) == /\ app' = [app EXCEPT ![a] = Stopped]
                    /\ listed' = listed \ {a}
                    /\ root' = Root(app', listed')

(***************************************************************************)
(* The record is looked up under its canonical id, which has no            *)
(* ".desktop", but removed under the raw id, which is no key of the table: *)
(* it stays.                                                               *)
(***************************************************************************)
ListRemove(a) == /\ root' = IF a \in listed THEN Root(app, listed) ELSE root
                 /\ UNCHANGED <<app, listed>>

\* Mutant: the id is not appended to the setting.
StoreNothing(a) == UNCHANGED stored

Store(a) == stored' = stored \cup {a}
Unstore(a) == stored' = stored \ {a}

\* RegisterApplication from c, for an installed application.
Register(a, c) ==
  LET k == Len(request) + 1 IN
  /\ ~crashed /\ c \in alive /\ k \in RequestId
  /\ ListAdd(a) /\ SetRemote(a, c, k) /\ Store(a)
  /\ request' = Append(request, [app |-> a, owner |-> c])
  /\ root' = IF a \in listed /\ KeepsRemote(a, c) THEN root ELSE Root(app', listed')
  /\ UNCHANGED <<leaked, watch, alive, crashed>>

\* UnregisterApplication, with the desktop id that every client passes.
Unregister(a) ==
  /\ ~crashed /\ alive # {}
  /\ ListRemove(a) /\ Unstore(a)
  /\ UNCHANGED <<alive, crashed, calls>>

\* ApplicationStoppedRunning: set_remote without a connection.
ApplicationStopped(a) ==
  /\ ~crashed /\ alive # {} /\ a \in listed
  /\ UnsetRemote(a)
  /\ UNCHANGED <<listed, stored, request, pending, leaked, watch, alive, crashed>>

-----------------------------------------------------------------------------
(* Callbacks of the service's own asynchronous calls.                      *)

(***************************************************************************)
(* The callback of proxy k, for pending call i.  Both lists are requested  *)
(* under the application's current cancellable, and the name watch is      *)
(* never removed.                                                          *)
(***************************************************************************)
ListBoth(k, c) == <<Call("sources", k, c), Call("messages", k, c)>>

\* Mutant: the owner of the proxy's name is not watched.
ConnectedUnwatched(k, a, i) ==
  /\ app' = [app EXCEPT ![a].proxy = k, ![a].launch = TRUE]
  /\ pending' = RemoveAt(pending, i) \o ListBoth(k, app[a].cancellable)
  /\ UNCHANGED watch

\* Mutant: an application that has a proxy keeps that one.
ConnectedOnce(k, a, i) ==
  IF app[a].proxy # 0
  THEN pending' = RemoveAt(pending, i) /\ UNCHANGED <<app, watch>>
  ELSE /\ app' = [app EXCEPT ![a].proxy = k, ![a].launch = TRUE]
       /\ pending' = RemoveAt(pending, i) \o ListBoth(k, app[a].cancellable)
       /\ watch' = watch \cup {k}

\* Mutant: what the application has already is not asked for.
ConnectedUnlisted(k, a, i) ==
  /\ app' = [app EXCEPT ![a].proxy = k, ![a].launch = TRUE]
  /\ pending' = RemoveAt(pending, i)
  /\ watch' = watch \cup {k}

Connected(k, a, i) ==
  /\ app' = [app EXCEPT ![a].proxy = k, ![a].launch = TRUE]
  /\ pending' = RemoveAt(pending, i) \o ListBoth(k, app[a].cancellable)
  /\ watch' = watch \cup {k}

\* Mutant: the callback does not look at the error.
CreationUnchecked(k, a, i) == Connected(k, a, i)

\* A cancelled creation stores NULL in app->proxy.
CreationCancelled(k, a, i) ==
  /\ app' = [app EXCEPT ![a].proxy = 0]
  /\ pending' = RemoveAt(pending, i)
  /\ UNCHANGED watch

\* Whichever proxy was there before is overwritten without an unref.
ProxyCreated(k) ==
  LET a == Requester(k) IN
  /\ ~crashed
  /\ \E i \in Due("create", k) :
       IF k \in cancelled THEN CreationCancelled(k, a, i) ELSE Connected(k, a, i)
  /\ leaked' = leaked \cup ({app[a].proxy} \ {0})
  /\ UNCHANGED <<listed, stored, root, request, cancelled, alive, crashed>>

(***************************************************************************)
(* The callback of a ListSources or ListMessages call made on proxy k.  It *)
(* finishes the call on app->proxy: when that is not k any more, _finish   *)
(* returns FALSE and sets no error, whose message is then read.            *)
(***************************************************************************)
Listing(kind, k) == ~crashed /\ Due(kind, k) # {}
Current(k) == app[Requester(k)].proxy = k

ListCrashed(kind, k) ==
  /\ Listing(kind, k) /\ ~Current(k)
  /\ crashed' = TRUE
  /\ UNCHANGED <<app, listed, stored, root, alive, calls>>

Completes(kind, k) ==
  /\ Listing(kind, k) /\ Current(k)
  /\ \E i \in Due(kind, k) : pending' = RemoveAt(pending, i)
  /\ UNCHANGED <<listed, stored, request, cancelled, leaked, watch, alive, crashed>>

ListFailed(kind, k) == Completes(kind, k) /\ UNCHANGED <<app, root>>

SourcesListed(k, items) ==
  LET a == Requester(k) IN
  /\ Completes("sources", k)
  /\ app' = [app EXCEPT ![a] = AddSources(@, items)]
  /\ root' = IF DOMAIN items = {} THEN root ELSE Root(app', listed)

\* Mutant: an added message leaves the root action alone.
RootUnrefreshed(a, old) == old

\* A message refreshes the root action only when it raises the flag.
RootAfterMessages(a, old) ==
  IF app'[a].draws /\ ~app[a].draws THEN Root(app', listed) ELSE old

MessagesListed(k, items) ==
  LET a == Requester(k) IN
  /\ Completes("messages", k)
  /\ app' = [app EXCEPT ![a] = AddMessages(@, items)]
  /\ root' = RootAfterMessages(a, root)

\* The owner of a watched name left the bus: stop whatever is the remote now.
Vanished(k) ==
  /\ ~crashed /\ k \in watch /\ Owner(k) \notin alive
  /\ UnsetRemote(Requester(k))
  /\ watch' = watch \ {k}
  /\ UNCHANGED <<listed, stored, request, pending, leaked, alive, crashed>>

-----------------------------------------------------------------------------
(* Signals of the application's D-Bus object, received through proxy k.    *)

Signal(k) == ~crashed /\ Owner(k) \in alive /\ Live(k)

Update(a, x) ==
  /\ app' = [app EXCEPT ![a] = x]
  /\ root' = Root(app', listed)
  /\ UNCHANGED <<listed, stored, alive, crashed, calls>>

SourceAdded(k, s, v) ==
  Signal(k) /\ Update(Requester(k), AddSources(app[Requester(k)], [t \in {s} |-> v]))

SourceChanged(k, s, v) ==
  Signal(k) /\ Update(Requester(k), ChangeSource(app[Requester(k)], s, v))

SourceRemoved(k, s) ==
  Signal(k) /\ Update(Requester(k), RemoveSource(app[Requester(k)], s))

MessageAdded(k, m, v) ==
  LET a == Requester(k) IN
  /\ Signal(k)
  /\ app' = [app EXCEPT ![a] = AddMessages(@, [n \in {m} |-> v])]
  /\ root' = RootAfterMessages(a, root)
  /\ UNCHANGED <<listed, stored, alive, crashed, calls>>

MessageRemoved(k, m) ==
  Signal(k) /\ Update(Requester(k), RemoveMessage(app[Requester(k)], m))

-----------------------------------------------------------------------------
(* Activations by the user, through the exported action group.  Activating *)
(* or dismissing an item removes it without waiting for the application.   *)

SourceActivated(a, s) ==
  /\ ~crashed /\ app[a].sources[s] # "absent"
  /\ Update(a, RemoveSource(app[a], s))

\* A message, or one of its sub-actions.
MessageActivated(a, m) ==
  /\ ~crashed /\ app[a].messages[m] # "absent"
  /\ Update(a, RemoveMessage(app[a], m))

\* A disabled action ignores its activation.
RemoveAll ==
  /\ ~crashed /\ root.clear
  /\ app' = [a \in App |-> IF a \in listed THEN ClearItems(app[a]) ELSE app[a]]
  /\ root' = Root(app', listed)
  /\ UNCHANGED <<listed, stored, alive, crashed, calls>>

-----------------------------------------------------------------------------
(* The environment.                                                        *)

Disconnect(c) ==
  /\ c \in alive
  /\ alive' = alive \ {c}
  /\ UNCHANGED <<app, listed, stored, root, crashed, calls>>

\* The service stops (a crash, SIGTERM, --replace) and a new process starts.
Restart ==
  /\ listed' = stored
  /\ app' = [a \in App |-> Stopped]
  /\ root' = Root(app', listed')
  /\ pending' = << >>
  /\ cancelled' = {} /\ leaked' = {} /\ watch' = {}
  /\ crashed' = FALSE
  /\ UNCHANGED <<stored, request, alive>>

-----------------------------------------------------------------------------
Requests == 1..Len(request)

Method == \E a \in App : \/ \E c \in Conn : Register(a, c)
                         \/ Unregister(a)
                         \/ ApplicationStopped(a)

Sources(k) == \/ ListCrashed("sources", k) \/ ListFailed("sources", k)
              \/ \E items \in SourceReply : SourcesListed(k, items)
Messages(k) == \/ ListCrashed("messages", k) \/ ListFailed("messages", k)
               \/ \E items \in MessageReply : MessagesListed(k, items)

Callback == \E k \in Requests : \/ ProxyCreated(k)
                                \/ Sources(k)
                                \/ Messages(k)
                                \/ Vanished(k)

ClientSignal == \E k \in Requests :
  \/ \E s \in Source : \/ \E v \in SourceState \ {"absent"} :
                            SourceAdded(k, s, v) \/ SourceChanged(k, s, v)
                       \/ SourceRemoved(k, s)
  \/ \E m \in Message : \/ \E v \in MessageState \ {"absent"} : MessageAdded(k, m, v)
                        \/ MessageRemoved(k, m)

User == \/ \E a \in App : \/ \E s \in Source : SourceActivated(a, s)
                          \/ \E m \in Message : MessageActivated(a, m)
        \/ RemoveAll

Environment == Restart \/ \E c \in Conn : Disconnect(c)

Next == Method \/ Callback \/ ClientSignal \/ User \/ Environment

Spec == Init /\ [][Next]_vars

(***************************************************************************)
(* The main loop runs every callback that is due: replies arrive (the bus  *)
(* answers for a dead or silent peer) and a name watch is always notified. *)
(* Nothing is assumed of clients, of the user or of restarts.              *)
(***************************************************************************)
Fairness == \A k \in RequestId :
  /\ WF_vars(k \in Requests /\ ProxyCreated(k))
  /\ WF_vars(k \in Requests /\ Sources(k))
  /\ WF_vars(k \in Requests /\ Messages(k))
  /\ WF_vars(k \in Requests /\ Vanished(k))

FairSpec == Spec /\ Fairness

-----------------------------------------------------------------------------
(* Properties.                                                             *)

TypeOK ==
  /\ app \in [App -> Application]
  /\ listed \in SUBSET App
  /\ stored \in SUBSET App
  /\ root \in [draws : BOOLEAN, visible : BOOLEAN, clear : BOOLEAN]
  /\ request \in Seq([app : App, owner : Conn])
  /\ Len(request) <= MaxRequest
  /\ pending \in Seq(Operation)
  /\ cancelled \in SUBSET RequestId
  /\ leaked \in SUBSET RequestId
  /\ watch \in SUBSET RequestId
  /\ alive \in SUBSET Conn
  /\ crashed \in BOOLEAN

(***************************************************************************)
(* The indicator icon never misses an item: while some application has a   *)
(* source or message that draws attention, the exported root state says    *)
(* "new messages", whatever the order of list replies, signals,            *)
(* activations, re-registrations and disconnections.                       *)
(***************************************************************************)
AttentionNotMissed == (\E a \in App : Drawing(app[a])) => root.draws

(***************************************************************************)
(* The icon is the disjunction of the applications' flags and is visible   *)
(* exactly when an application is listed, although only some of the        *)
(* handlers refresh it.                                                    *)
(***************************************************************************)
RootReflectsApps == /\ root.draws = \E a \in listed : app[a].draws
                    /\ root.visible = (listed # {})

\* "remove-all" is never enabled over an empty menu.
ClearOnlyWithItems == root.clear => \E a \in listed : HasItems(app[a])

(***************************************************************************)
(* A registration that was cancelled is over: its cancellable is not in    *)
(* use any more and its proxy is no application's remote, neither then nor *)
(* later, however late the callback that creates it.  Cancelled are the    *)
(* latest registration of an application that stops, and the one that      *)
(* another registration finds, unless a proxy for the same name is         *)
(* connected: that one is overwritten and not cancelled (KeepsRemote), its *)
(* creation goes on, and nothing is said of it here.                       *)
(***************************************************************************)
CancelledNeverRemote ==
  \A a \in App : app[a].proxy \notin cancelled /\ app[a].cancellable \notin cancelled

(***************************************************************************)
(* An application has menu items only while some proxy that was made for   *)
(* it is still connected: items do not outlive the remote they came from.  *)
(***************************************************************************)
ItemsHaveAProxy ==
  \A a \in App : HasItems(app[a]) =>
    \E k \in Requests : Requester(k) = a /\ Live(k)

(***************************************************************************)
(* Sections are durable: one that appears is stored in the same step, only *)
(* UnregisterApplication takes it from the setting, and one that leaves    *)
(* the menu is not stored any more.  So the section of an application that *)
(* registered and did not unregister survives a crash or replacement of    *)
(* the service between any two of its steps.                               *)
(***************************************************************************)
SectionsStay == [][/\ listed' \ listed \subseteq stored'
                   /\ \A a \in stored \ stored' : Unregister(a)
                   /\ listed \ listed' \subseteq App \ stored']_vars

(***************************************************************************)
(* A registration becomes the remote of its application, unless it is      *)
(* stopped, superseded or lost in a crash first.                           *)
(***************************************************************************)
Outstanding(k) == /\ k \in Requests
                  /\ app[Requester(k)].cancellable = k
                  /\ app[Requester(k)].proxy # k
RegistrationCompletes ==
  \A k \in RequestId : Outstanding(k) ~> (crashed \/ ~Outstanding(k))

(***************************************************************************)
(* When the last client has left the bus the menu comes to rest: no        *)
(* application is marked as running, none has items and the icon is calm,  *)
(* whatever calls were under way; or the service has crashed.              *)
(***************************************************************************)
Calm == /\ pending = << >>
        /\ \A a \in App : ~app[a].launch /\ ~HasItems(app[a])
        /\ ~root.draws /\ ~root.clear
QuietWhenAlone == (alive = {}) ~> (crashed \/ Calm)

(***************************************************************************)
(* The inductive invariant behind the safety properties: references name   *)
(* registrations that were made, an application refers only to its own,    *)
(* one that is not listed is at rest and has nothing under way, and its    *)
(* flag fits its items.                                                    *)
(***************************************************************************)
Issued == /\ \A a \in App : /\ app[a].proxy \in Requests \cup {0}
                            /\ app[a].cancellable \in Requests \cup {0}
          /\ \A i \in DOMAIN pending : /\ pending[i].req \in Requests
                                       /\ pending[i].canc \in Requests \cup {0}
          /\ cancelled \subseteq Requests
          /\ leaked \subseteq Requests
          /\ watch \subseteq Requests

Own == \A a \in App :
  /\ app[a].proxy # 0 => Requester(app[a].proxy) = a
  /\ app[a].cancellable # 0 => Requester(app[a].cancellable) = a

Known == /\ \A a \in App \ listed : app[a] = Stopped
         /\ \A i \in DOMAIN pending : Requester(pending[i].req) \in listed
         /\ \A k \in leaked \cup watch : Requester(k) \in listed

\* The flag of an application is raised for every item that draws, and never
\* without an item.
FlagFits(x) == (Drawing(x) => x.draws) /\ (x.draws => HasItems(x))
Flagged == \A a \in App : FlagFits(app[a])

IndInv == /\ TypeOK /\ Issued /\ Own /\ Known /\ Flagged
          /\ RootReflectsApps /\ ClearOnlyWithItems
          /\ CancelledNeverRemote /\ ItemsHaveAProxy

-----------------------------------------------------------------------------
(***************************************************************************)
(* The list implements the abstract menu.  What the abstraction hides is    *)
(* how a section comes to its items: proxies, calls, their cancellation    *)
(* and their callbacks.                                                    *)
(***************************************************************************)
Shown(x) == {s \in Source : x.sources[s] # "absent"}
              \cup {m \in Message : x.messages[m] # "absent"}
Alerting(x) == {s \in Source : x.sources[s] = "drawing"}
                 \cup {m \in Message : x.messages[m] = "drawing"}

Menu == INSTANCE MessagingMenu WITH
          Item      <- Source \cup Message,
          section   <- listed,
          durable   <- stored,
          running   <- {a \in App : app[a].launch},
          items     <- [a \in App |-> Shown(app[a])],
          drawing   <- [a \in App |-> Alerting(app[a])],
          attention <- root.draws

(***************************************************************************)
(* Every step of the list is one the abstract menu allows: whatever the    *)
(* order of callbacks and signals, a step changes the items of one         *)
(* application only, unless all are cleared or the process is replaced; an *)
(* application that stops takes all of its items along in the same step;   *)
(* and the icon follows at once.  One handler breaks a promise, that when  *)
(* messaging_menu_app_unregister is called "the application section is     *)
(* removed completely" (messaging-menu-app.c:86, Menu!Unregister): the     *)
(* code takes the application from the setting and leaves its section,     *)
(* running or not, as it is.  This step is excepted, and no other.         *)
(***************************************************************************)
UnregistersLater(a) == /\ Unregister(a)
                       /\ UNCHANGED <<listed, app>> /\ root'.draws = root.draws

MenuNext == Menu!Next \/ \E a \in App : UnregistersLater(a)

ImplementsMenu == Menu!Init /\ [][MenuNext]_(Menu!menuVars)

-----------------------------------------------------------------------------
(* What the documentation says and the code does not do.                   *)

(***************************************************************************)
(* An application is "not running" once it is gone; one whose connection   *)
(* is alive is not stopped by another connection leaving the bus.          *)
(***************************************************************************)
VanishSparesOthers ==
  [][\A k \in Requests :
       LET p == app[Requester(k)].proxy IN
       Vanished(k) /\ p # 0 => Owner(p) \notin alive]_vars

\* An application that stops running costs its own items, not the service.
NeverCrashes == ~crashed

=============================================================================
