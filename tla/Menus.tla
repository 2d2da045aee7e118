--------------------------------- MODULE Menus ---------------------------------
(***************************************************************************)
(* The application list together with the menus that follow its GObject    *)
(* signals.  A signal runs its handlers before the emission returns, so a  *)
(* step of the list and what it makes of the menus is one step.            *)
(*                                                                         *)
(* main builds the menus twice, for the session and for the greeter; the   *)
(* two of a kind get the same signals, and one stands for both.  Whether   *)
(* an item draws attention makes no difference to the menus.               *)
(***************************************************************************)
EXTENDS ApplicationList

CONSTANTS Time,         \* times of messages
          SortName,     \* the rank of an application's name
          ChatApp, Empathy,
          MaxEntries    \* bound: entries of one section

ASSUME MaxEntriesAssumption == MaxEntries \in Nat

\* There is one hard-coded chat client at most; names and times are ordered.
ASSUME MenusAssumption ==
  /\ \A a, b \in Empathy : a = b
  /\ \A a \in App : SortName[a] \in Int
  /\ Time \subseteq Int
  /\ IsFiniteSet(App) /\ IsFiniteSet(Source) /\ IsFiniteSet(Message)

VARIABLES phone, desktop,
          forgotten   \* history: applications whose items were withdrawn
                      \* from the menus by UnregisterApplication, yet stay

Phone == INSTANCE PhoneMenu
Desktop == INSTANCE DesktopMenu

\* An application is none of the fixed sections.
ASSUME SectionAssumption == App \cap (Desktop!Fixed \cup {Desktop!Nobody}) = {}

menus == <<phone, desktop>>
menusVars == <<vars, phone, desktop, forgotten>>

Running(a) == app[a].proxy # 0 \/ app[a].cancellable # 0

-----------------------------------------------------------------------------
(* The signals of the list, as the menus handle them.                      *)

APP_ADDED(a) == /\ \E mailer \in BOOLEAN : Desktop!DesktopAppAdded(a, mailer)
                /\ UNCHANGED phone

APP_STOPPED(a) == /\ Phone!RemoveApplication(a)
                  /\ Desktop!AppStopped(a)

\* Mutant: an application that is only registering does not stop.
StoppedIfConnected(a) == IF app[a].proxy # 0 THEN APP_STOPPED(a) ELSE UNCHANGED menus

\* Mutant: looks at the remote when it has been reset.
StoppedIfStillRunning(a) == IF Running(a)' THEN APP_STOPPED(a) ELSE UNCHANGED menus

\* Only an application that has a remote, or is getting one, can stop.
StoppedIfRunning(a) == IF Running(a) THEN APP_STOPPED(a) ELSE UNCHANGED menus

SOURCES_ADDED(a, items, order) ==
  /\ ToSet(order) = {s \in DOMAIN items : items[s] # "hidden"}
  /\ Len(desktop.entries[a]) + Len(order) <= MaxEntries
  /\ Desktop!SourcesAdded(a, order)
  /\ UNCHANGED phone

\* Mutant: the desktop menu puts messages among the sources.
MESSAGES_ADDED_everywhere(a, items, order) ==
  /\ {e.id : e \in ToSet(order)} = DOMAIN items
  /\ Len(phone.messages) + Len(order) <= MaxEntries
  /\ Phone!AddMessages(a, order)
  /\ Desktop!SourcesAdded(a, [i \in DOMAIN order |-> order[i].id])

MESSAGES_ADDED(a, items, order) ==
  /\ {e.id : e \in ToSet(order)} = DOMAIN items
  /\ Len(phone.messages) + Len(order) <= MaxEntries
  /\ Phone!AddMessages(a, order)
  /\ UNCHANGED desktop

SOURCE_REMOVED(a, s) == Desktop!SourceRemoved(a, s) /\ UNCHANGED phone

SOURCE_CHANGED(a, s, v) ==
  /\ Len(desktop.entries[a]) < MaxEntries \/ s \in ToSet(desktop.entries[a])
  /\ Desktop!SourceChanged(a, s, v # "hidden")
  /\ UNCHANGED phone

MESSAGE_REMOVED(a, m) == Phone!RemoveMessage(a, m) /\ UNCHANGED desktop

REMOVE_ALL == Phone!ClearPhone /\ Desktop!ClearDesktop

\* The lists in which a reply can bring some sources, or messages with times.
SourceOrder == UNION {SetToSeqs(S) : S \in SUBSET Source}
MessageOrder ==
  UNION {{[i \in DOMAIN o |-> [id |-> o[i], time |-> t[o[i]]]] :
            o \in SetToSeqs(M), t \in [M -> Time]} : M \in SUBSET Message}

-----------------------------------------------------------------------------
(* The menus of a process that starts with the stored applications.        *)

MenusStart(known) ==
  /\ phone' = Phone!EmptyPhone
  /\ \E order \in SetToSeqs(known) : \E mailers \in {{}} \cup {{a} : a \in known} :
       desktop' = Desktop!Constructed(order, mailers)

MenusInit ==
  /\ Init
  /\ Phone!PhoneInit
  /\ \E order \in SetToSeqs(listed) : \E mailers \in {{}} \cup {{a} : a \in listed} :
       desktop = Desktop!Constructed(order, mailers)
  /\ forgotten = {}

-----------------------------------------------------------------------------
(* Every step of the list with its signals.                                *)

\* Withdrawn items are forgotten until the application has none any more.
Remembered(more) == forgotten' = {a \in forgotten \cup more : HasItems(app'[a])}

MenusRegister(a, c) ==
  /\ Register(a, c)
  /\ \/ a \notin listed /\ APP_ADDED(a)
     \/ a \in listed /\ KeepsRemote(a, c) /\ UNCHANGED menus
     \/ a \in listed /\ ~KeepsRemote(a, c) /\ APP_STOPPED(a)
  /\ Remembered({})

\* The signal withdraws the items of a record that stays.
MenusUnregister(a) ==
  /\ Unregister(a)
  /\ StoppedIfRunning(a)
  /\ Remembered(IF Running(a) THEN {a} ELSE {})

MenusApplicationStopped(a) ==
  ApplicationStopped(a) /\ StoppedIfRunning(a) /\ Remembered({})

MenusVanished(k) ==
  Vanished(k) /\ StoppedIfRunning(Requester(k)) /\ Remembered({})

\* Replies of items that do not draw attention stand for all.
Calmly(replies) == {items \in replies : "drawing" \notin Range(items)}

MenusSourcesListed(k) ==
  \E items \in Calmly(SourceReply), order \in SourceOrder :
    /\ SourcesListed(k, items)
    /\ SOURCES_ADDED(Requester(k), items, order)
    /\ Remembered({})

MenusMessagesListed(k) ==
  \E items \in Calmly(MessageReply), order \in MessageOrder :
    /\ MessagesListed(k, items)
    /\ MESSAGES_ADDED(Requester(k), items, order)
    /\ Remembered({})

MenusSourceAdded(k, s, v) ==
  /\ SourceAdded(k, s, v)
  /\ \E order \in SourceOrder : SOURCES_ADDED(Requester(k), [t \in {s} |-> v], order)
  /\ Remembered({})

MenusSourceChanged(k, s, v) ==
  /\ SourceChanged(k, s, v)
  /\ SOURCE_CHANGED(Requester(k), s, v)
  /\ Remembered({})

MenusSourceRemoved(k, s) ==
  SourceRemoved(k, s) /\ SOURCE_REMOVED(Requester(k), s) /\ Remembered({})

MenusMessageAdded(k, m, v, t) ==
  /\ MessageAdded(k, m, v)
  /\ MESSAGES_ADDED(Requester(k), [n \in {m} |-> v], <<[id |-> m, time |-> t]>>)
  /\ Remembered({})

MenusMessageRemoved(k, m) ==
  MessageRemoved(k, m) /\ MESSAGE_REMOVED(Requester(k), m) /\ Remembered({})

MenusSourceActivated(a, s) ==
  SourceActivated(a, s) /\ SOURCE_REMOVED(a, s) /\ Remembered({})

MenusMessageActivated(a, m) ==
  MessageActivated(a, m) /\ MESSAGE_REMOVED(a, m) /\ Remembered({})

\* The removals of single items that follow find nothing in the menus.
MenusRemoveAll == RemoveAll /\ REMOVE_ALL /\ Remembered({})

MenusRestart == Restart /\ MenusStart(stored) /\ forgotten' = {}

\* Creations of proxies, failed calls and clients that leave send no signal.
Unsignalled ==
  /\ \/ \E k \in Requests : \/ ProxyCreated(k)
                            \/ ListCrashed("sources", k) \/ ListFailed("sources", k)
                            \/ ListCrashed("messages", k) \/ ListFailed("messages", k)
     \/ \E c \in Conn : Disconnect(c)
  /\ UNCHANGED <<phone, desktop, forgotten>>

-----------------------------------------------------------------------------
MenusSignal == \E k \in Requests :
  \/ \E s \in Source : \/ \E v \in SourceState \ {"absent", "drawing"} :
                            MenusSourceAdded(k, s, v) \/ MenusSourceChanged(k, s, v)
                       \/ MenusSourceRemoved(k, s)
  \/ \E m \in Message : \/ \E t \in Time : MenusMessageAdded(k, m, "quiet", t)
                        \/ MenusMessageRemoved(k, m)

MenusUser == \/ \E a \in App : \/ \E s \in Source : MenusSourceActivated(a, s)
                               \/ \E m \in Message : MenusMessageActivated(a, m)
             \/ MenusRemoveAll

MenusNext ==
  \/ /\ ~phone.dead
     /\ \/ \E a \in App : \/ \E c \in Conn : MenusRegister(a, c)
                          \/ MenusUnregister(a) \/ MenusApplicationStopped(a)
        \/ \E k \in Requests : \/ MenusVanished(k)
                               \/ MenusSourcesListed(k) \/ MenusMessagesListed(k)
        \/ MenusSignal \/ MenusUser \/ Unsignalled
  \/ MenusRestart

MenusSpec == MenusInit /\ [][MenusNext]_menusVars

-----------------------------------------------------------------------------
(* Properties.                                                             *)

MenusTypeOK == /\ Phone!PhoneTypeOK
               /\ Desktop!DesktopTypeOK
               /\ forgotten \subseteq listed

\* What the menus of the two profiles promise of themselves.
NewestFirst == Phone!NewestFirst
SectionsInOrder == Desktop!SectionsInOrder

(***************************************************************************)
(* Both menus show what there is: a message that can be activated has an   *)
(* entry on the phone and a visible source one on the desktop, whatever    *)
(* was listed, signalled, changed, stopped or registered again before;     *)
(* only what UnregisterApplication has withdrawn is missing.               *)
(***************************************************************************)
ItemsShown == \A a \in listed \ forgotten :
  /\ \A m \in Message : app[a].messages[m] # "absent" =>
       \E e \in ToSet(phone.messages) : e.app = a /\ e.id = m
  /\ \A s \in Source : app[a].sources[s] \notin {"absent", "hidden"} =>
       s \in ToSet(desktop.entries[a])

(***************************************************************************)
(* Every listed application has a source section, and its own section is   *)
(* in the menu in one place, unless another mail client became the default *)
(* one and took the place.                                                 *)
(***************************************************************************)
Places(a) == [sorted |-> a \in ToSet(desktop.sections),
              chat   |-> a = desktop.chat,
              mail   |-> a = desktop.mail]
SectionOfEach ==
  /\ DOMAIN desktop.entries = listed
  /\ \A a \in listed :
       LET in == {p \in {"sorted", "chat", "mail"} : Places(a)[p]} IN
       Cardinality(in) = 1 \/ (in = {} /\ desktop.mail # Desktop!Nobody)

(***************************************************************************)
(* A creation that was cancelled completes.  The remote that an earlier    *)
(* registration has made in the meantime is given up without a signal.     *)
(***************************************************************************)
Nullified(a) == \E k \in cancelled : Requester(k) = a /\ ProxyCreated(k)

(***************************************************************************)
(* An application loses the remote that it has, or the registration that   *)
(* it is getting one for: by its own call, by a connection that leaves the *)
(* bus, by another registration that replaces it and waits for a remote of *)
(* its own, or with the process.                                           *)
(***************************************************************************)
LosesRemote(a) ==
  /\ Running(a) /\ app'[a].proxy = 0
  /\ app[a].proxy # 0 \/ app'[a].cancellable # app[a].cancellable

(***************************************************************************)
(* Whichever of these ways it goes, a remote that is lost leaves nothing   *)
(* of its application in either menu; only a cancelled creation that comes *)
(* late takes the remote and leaves the entries.                           *)
(***************************************************************************)
StoppedLeavesNothing ==
  [][\A a \in listed : LosesRemote(a) /\ ~Nullified(a) =>
       /\ a \notin {e.app : e \in ToSet(phone'.messages)}
       /\ a \in listed' => desktop'.entries[a] = << >>]_menusVars

(***************************************************************************)
(* Entries do not outlive the proxies they came from: an application that  *)
(* has any in the menus has a remote, or another proxy that still receives *)
(* its signals.  app-stopped is not emitted for an application without a   *)
(* remote; so entries stay without an owner only where a proxy was         *)
(* overwritten (leaked), or while a list call keeps one.                   *)
(***************************************************************************)
HasEntries(a) == \/ a \in {e.app : e \in ToSet(phone.messages)}
                 \/ desktop.entries[a] # << >>
EntriesHaveAProxy ==
  \A a \in listed : HasEntries(a) => \E k \in Requests : Requester(k) = a /\ Live(k)

(***************************************************************************)
(* "When the user activates a source, the source is immediately removed    *)
(* from the menu": so is every entry of it.                                *)
(***************************************************************************)
ActivationRemovesEntry ==
  [][\A a \in App, s \in Source :
       MenusSourceActivated(a, s) => s \notin ToSet(desktop'.entries[a])]_menusVars

=============================================================================
