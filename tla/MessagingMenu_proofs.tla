------------------------- MODULE MessagingMenu_proofs -------------------------
(***************************************************************************)
(* The application list implements the abstract menu, for every set of     *)
(* applications, connections and items and every number of registrations:  *)
(* its initial states are initial states of the menu, and each of its      *)
(* steps is a step of the menu or leaves the menu unchanged.               *)
(***************************************************************************)
EXTENDS ApplicationList_proofs

(***************************************************************************)
(* In a state of the invariant the icon is raised for every item that asks *)
(* for attention, and only over a section that shows something.            *)
(***************************************************************************)
IconFits == /\ \A a \in App : Alerting(app[a]) # {} => root.draws
            /\ root.draws => \E a \in listed : Shown(app[a]) # {}

LEMMA InvIconFits == IndInv => IconFits
<1> SUFFICES ASSUME IndInv PROVE IconFits
  OBVIOUS
<1> USE DEF IndInv
<1>1. ASSUME NEW a \in App, Alerting(app[a]) # {}
      PROVE  root.draws
  <2>1. Drawing(app[a])
    BY <1>1 DEF Alerting, Drawing
  <2>2. a \in listed
    BY <2>1, StoppedIsEmpty DEF Known
  <2>3. QED
    BY <2>1, <2>2 DEF Flagged, FlagFits, RootReflectsApps
<1>2. ASSUME root.draws
      PROVE  \E a \in listed : Shown(app[a]) # {}
  <2>1. PICK a \in listed : app[a].draws
    BY <1>2 DEF RootReflectsApps
  <2>2. a \in App /\ HasItems(app[a])
    BY <2>1 DEF Flagged, FlagFits, TypeOK
  <2>3. Shown(app[a]) # {}
    BY <2>2 DEF HasItems, Shown
  <2>4. QED
    BY <2>3
<1>3. QED
  BY <1>1, <1>2 DEF IconFits

\* The same of the state that a step leads to, in the terms of the menu.
LEMMA IconFollows ==
  ASSUME IndInv'
  PROVE  Menu!IconFollows
<1>1. IconFits'
  BY InvIconFits, PTL
<1>2. listed' \subseteq App
  BY DEF IndInv, TypeOK
<1>3. QED
  BY <1>1, <1>2 DEF IconFits, Menu!IconFollows

\* What draws attention in an application is among what it shows.
LEMMA AlertingIsShown ==
  ASSUME NEW x
  PROVE  /\ Shown(x) \in SUBSET (Source \cup Message)
         /\ Alerting(x) \in SUBSET Shown(x)
BY DEF Shown, Alerting

\* An application at rest shows nothing.
LEMMA StoppedShowsNothing ==
  Shown(Stopped) = {} /\ Alerting(Stopped) = {} /\ ~Stopped.launch /\ ~Stopped.draws
BY DEF Shown, Alerting, Stopped

-----------------------------------------------------------------------------
(* Steps by their shape.                                                   *)

\* A step that keeps what applications show, and the icon, is a stutter.
LEMMA MenuIdle ==
  ASSUME \A a \in App : /\ app'[a].launch = app[a].launch
                        /\ app'[a].sources = app[a].sources
                        /\ app'[a].messages = app[a].messages,
         root'.draws = root.draws,
         UNCHANGED <<listed, stored>>
  PROVE  UNCHANGED Menu!menuVars
BY DEF Menu!menuVars, Shown, Alerting

\* A step that edits the items of one listed application is an Edit.
LEMMA MenuEdit ==
  ASSUME IndInv, IndInv', NEW a \in App, NEW y \in Application,
         a \in listed,
         app' = [app EXCEPT ![a] = y], y.launch = app[a].launch,
         UNCHANGED <<listed, stored>>
  PROVE  Menu!Edit(a)
<1>1. /\ app'[a] = y
      /\ \A b \in App \ {a} : app'[b] = app[b]
  BY DEF IndInv, TypeOK
<1>2. [b \in App |-> Shown(app'[b])]
        = [[b \in App |-> Shown(app[b])] EXCEPT ![a] = Shown(y)]
  <2>1. /\ Shown(app'[a]) = Shown(y)
        /\ \A b \in App \ {a} : Shown(app'[b]) = Shown(app[b])
    BY <1>1
  <2>2. QED
    BY <2>1
<1>3. [b \in App |-> Alerting(app'[b])]
        = [[b \in App |-> Alerting(app[b])] EXCEPT ![a] = Alerting(y)]
  <2>1. /\ Alerting(app'[a]) = Alerting(y)
        /\ \A b \in App \ {a} : Alerting(app'[b]) = Alerting(app[b])
    BY <1>1
  <2>2. QED
    BY <2>1
<1>4. {b \in App : app'[b].launch} = {b \in App : app[b].launch}
  BY <1>1
<1>5. QED
  BY <1>2, <1>3, <1>4, IconFollows, AlertingIsShown DEF Menu!Edit

\* A step that puts one application to rest.
LEMMA MenuRests ==
  ASSUME IndInv, IndInv', NEW a \in App, NEW y \in Application,
         app' = [app EXCEPT ![a] = y],
         ~y.launch, Shown(y) = {}, Alerting(y) = {}
  PROVE  Menu!Rests(a)
<1>1. /\ app'[a] = y
      /\ \A b \in App \ {a} : app'[b] = app[b]
  BY DEF IndInv, TypeOK
<1>2. [b \in App |-> Shown(app'[b])]
        = [[b \in App |-> Shown(app[b])] EXCEPT ![a] = {}]
  <2>1. /\ Shown(app'[a]) = {}
        /\ \A b \in App \ {a} : Shown(app'[b]) = Shown(app[b])
    BY <1>1
  <2>2. QED
    BY <2>1
<1>3. [b \in App |-> Alerting(app'[b])]
        = [[b \in App |-> Alerting(app[b])] EXCEPT ![a] = {}]
  <2>1. /\ Alerting(app'[a]) = {}
        /\ \A b \in App \ {a} : Alerting(app'[b]) = Alerting(app[b])
    BY <1>1
  <2>2. QED
    BY <2>1
<1>4. {b \in App : app'[b].launch} = {b \in App : app[b].launch} \ {a}
  BY <1>1
<1>5. QED
  BY <1>2, <1>3, <1>4, IconFollows DEF Menu!Rests

\* im_application_list_unset_remote of a listed application is a Stop.
LEMMA MenuStop ==
  ASSUME IndInv, IndInv', NEW a \in App, UnsetRemote(a), a \in listed,
         UNCHANGED <<listed, stored>>
  PROVE  Menu!Stop(a)
<1>1. Menu!Rests(a)
  BY StoppedType, StoppedShowsNothing, MenuRests DEF UnsetRemote
<1>2. QED
  BY <1>1 DEF Menu!Stop

-----------------------------------------------------------------------------
(* Every step is one of the menu.                                          *)

\* RegisterApplication: the section appears, and is at rest if a remote gave way.
LEMMA MenuRegister ==
  ASSUME IndInv, IndInv', NEW a \in App, NEW c \in Conn, Register(a, c)
  PROVE  Menu!Register(a)
<1> DEFINE k == Len(request) + 1
           y == [(IF KeepsRemote(a, c) THEN app[a] ELSE Stopped) EXCEPT !.cancellable = k]
<1>1. /\ listed' = listed \cup {a} /\ stored' = stored \cup {a}
      /\ app' = [app EXCEPT ![a] = y]
      /\ root' = IF a \in listed /\ KeepsRemote(a, c) THEN root ELSE Root(app', listed')
  BY DEF Register, ListAdd, Store, SetRemote, IndInv, TypeOK
<1>2. app \in [App -> Application] /\ app[a] \in Application
  BY DEF IndInv, TypeOK
<1>3. CASE KeepsRemote(a, c)
  <2>1. /\ y.launch = app[a].launch /\ y.sources = app[a].sources
        /\ y.messages = app[a].messages /\ y.draws = app[a].draws
    BY <1>2, <1>3 DEF Application
  <2> HIDE DEF y
  <2>2. \A b \in App : /\ app'[b].launch = app[b].launch
                       /\ app'[b].sources = app[b].sources
                       /\ app'[b].messages = app[b].messages
                       /\ app'[b].draws = app[b].draws
    BY <1>1, <1>2, <2>1
  <2>3. root'.draws = root.draws
    <3>1. CASE a \in listed
      BY <1>1, <1>3, <3>1
    <3>2. CASE a \notin listed
      <4>1. ~app[a].draws
        BY <3>2, StoppedIsEmpty DEF IndInv, Known
      <4>2. root.draws = \E b \in listed : app[b].draws
        BY DEF IndInv, RootReflectsApps
      <4>3. root'.draws = \E b \in listed' : app'[b].draws
        BY DEF IndInv, RootReflectsApps
      <4>4. listed \subseteq App
        BY DEF IndInv, TypeOK
      <4>5. (\E b \in listed' : app'[b].draws) = \E b \in listed : app[b].draws
        BY <1>1, <2>2, <4>1, <4>4
      <4>6. QED
        BY <4>2, <4>3, <4>5
    <3>3. QED
      BY <3>1, <3>2
  <2>4. /\ {b \in App : app'[b].launch} = {b \in App : app[b].launch}
        /\ [b \in App |-> Shown(app'[b])] = [b \in App |-> Shown(app[b])]
        /\ [b \in App |-> Alerting(app'[b])] = [b \in App |-> Alerting(app[b])]
    BY <2>2 DEF Shown, Alerting
  <2>5. QED
    BY <1>1, <2>3, <2>4 DEF Menu!Register
<1>4. CASE ~KeepsRemote(a, c)
  <2>1. /\ y.launch = Stopped.launch /\ y.sources = Stopped.sources
        /\ y.messages = Stopped.messages
    <3>1. y = [Stopped EXCEPT !.cancellable = k]
      BY <1>4
    <3>2. QED
      BY <3>1 DEF Stopped
  <2>2. y = app'[a]
    BY <1>1, <1>2
  <2> HIDE DEF y
  <2>3. y \in Application
    BY <2>2 DEF IndInv, TypeOK
  <2>4. ~y.launch /\ Shown(y) = {} /\ Alerting(y) = {}
    BY <2>1, StoppedShowsNothing DEF Shown, Alerting
  <2>5. Menu!Rests(a)
    BY <1>1, <2>3, <2>4, MenuRests
  <2>6. QED
    BY <1>1, <2>5 DEF Menu!Register
<1>5. QED
  BY <1>3, <1>4

\* UnregisterApplication: the section is not durable any more, but stays.
LEMMA MenuUnregister ==
  ASSUME IndInv, IndInv', NEW a \in App, Unregister(a)
  PROVE  UnregistersLater(a)
<1>1. UNCHANGED <<app, listed>> /\ stored' = stored \ {a}
  BY DEF Unregister, ListRemove, Unstore
<1>2. root'.draws = root.draws
  <2>1. root.draws = \E b \in listed : app[b].draws
    BY DEF IndInv, RootReflectsApps
  <2>2. root'.draws = \E b \in listed' : app'[b].draws
    BY DEF IndInv, RootReflectsApps
  <2>3. QED
    BY <1>1, <2>1, <2>2
<1>3. QED
  BY <1>1, <1>2 DEF UnregistersLater

\* The creation of a proxy starts the application, unless it was cancelled.
LEMMA MenuProxyCreated ==
  ASSUME IndInv, IndInv', NEW k \in Requests, NEW a \in App, a = Requester(k),
         ProxyCreated(k)
  PROVE  Menu!Start(a) \/ UNCHANGED Menu!menuVars
<1>1. PICK i \in Due("create", k) :
        IF k \in cancelled THEN CreationCancelled(k, a, i) ELSE Connected(k, a, i)
  BY DEF ProxyCreated
<1>2. UNCHANGED <<listed, stored, root>>
  BY DEF ProxyCreated
<1>3. a \in App /\ a \in listed
  BY <1>1, RequestType DEF IndInv, Known, Due
<1>4. app \in [App -> Application]
  BY DEF IndInv, TypeOK
<1>5. CASE k \in cancelled
  <2>1. app' = [app EXCEPT ![a].proxy = 0]
    BY <1>1, <1>5 DEF CreationCancelled
  <2>2. \A b \in App : /\ app'[b].launch = app[b].launch
                       /\ app'[b].sources = app[b].sources
                       /\ app'[b].messages = app[b].messages
    BY <1>3, <1>4, <2>1 DEF Application
  <2>3. QED
    BY <1>2, <2>2, MenuIdle
<1>6. CASE k \notin cancelled
  <2>1. app' = [app EXCEPT ![a].proxy = k, ![a].launch = TRUE]
    BY <1>1, <1>6 DEF Connected
  <2>2. \A b \in App : /\ app'[b].launch = (b = a \/ app[b].launch)
                       /\ app'[b].sources = app[b].sources
                       /\ app'[b].messages = app[b].messages
    BY <1>3, <1>4, <2>1 DEF Application
  <2>3. {b \in App : app'[b].launch} = {b \in App : app[b].launch} \cup {a}
    BY <1>3, <2>2
  <2>4. /\ [b \in App |-> Shown(app'[b])] = [b \in App |-> Shown(app[b])]
        /\ [b \in App |-> Alerting(app'[b])] = [b \in App |-> Alerting(app[b])]
    BY <2>2 DEF Shown, Alerting
  <2>5. QED
    BY <1>2, <1>3, <2>3, <2>4 DEF Menu!Start
<1>7. QED
  BY <1>5, <1>6

\* Every D-Bus method but UnregisterApplication is a step of the menu.
LEMMA MenuMethod ==
  ASSUME IndInv, IndInv', Method
  PROVE  [MenuNext]_(Menu!menuVars)
<1>1. ASSUME NEW a \in App, NEW c \in Conn, Register(a, c)
      PROVE  Menu!Next
  BY <1>1, MenuRegister DEF Menu!Next
<1>2. ASSUME NEW a \in App, Unregister(a)
      PROVE  MenuNext
  BY <1>2, MenuUnregister DEF MenuNext
<1>3. ASSUME NEW a \in App, ApplicationStopped(a)
      PROVE  Menu!Next
  <2>1. UnsetRemote(a) /\ a \in listed /\ UNCHANGED <<listed, stored>>
    BY <1>3 DEF ApplicationStopped
  <2>2. QED
    BY <2>1, MenuStop DEF Menu!Next
<1>4. QED
  BY <1>1, <1>2, <1>3 DEF Method, MenuNext

\* A list reply edits the section of the application whose proxy was asked.
LEMMA MenuListed ==
  ASSUME IndInv, IndInv', NEW k \in Requests, Sources(k) \/ Messages(k)
  PROVE  [Menu!Next]_(Menu!menuVars)
<1> DEFINE a == Requester(k)
<1> USE DEF IndInv
<1>1. ASSUME NEW kind, ListCrashed(kind, k) \/ ListFailed(kind, k)
      PROVE  UNCHANGED Menu!menuVars
  <2>1. UNCHANGED <<app, root, listed, stored>>
    BY <1>1 DEF ListCrashed, ListFailed, Completes
  <2>2. QED
    BY <2>1, MenuIdle
<1>2. ASSUME NEW kind, Completes(kind, k)
      PROVE  /\ a \in App /\ a \in listed /\ app[a] \in Application
             /\ UNCHANGED <<listed, stored>>
  <2>1. UNCHANGED <<listed, stored>> /\ Due(kind, k) # {}
    BY <1>2 DEF Completes, Listing
  <2>2. \E i \in DOMAIN pending : pending[i].req = k
    BY <2>1 DEF Due
  <2>3. QED
    BY <2>1, <2>2, RequestType DEF Known, TypeOK
<1>3. ASSUME NEW items \in SourceReply, SourcesListed(k, items)
      PROVE  Menu!Next
  <2> DEFINE y == AddSources(app[a], items)
  <2>1. PICK S \in SUBSET Source : items \in [S -> SourceState \ {"absent"}]
    BY DEF SourceReply
  <2>2. Completes("sources", k) /\ app' = [app EXCEPT ![a] = y]
    BY <1>3 DEF SourcesListed
  <2>3. a \in App /\ a \in listed /\ app[a] \in Application /\ UNCHANGED <<listed, stored>>
    BY <1>2, <2>2
  <2>4. FlagFits(app[a])
    BY <2>3 DEF Flagged
  <2>5. y \in Application /\ y.launch = app[a].launch
    BY <2>1, <2>3, <2>4, AddSourcesFacts
  <2> HIDE DEF y, a
  <2>6. Menu!Edit(a)
    BY <2>2, <2>3, <2>5, MenuEdit
  <2>7. QED
    BY <2>3, <2>6 DEF Menu!Next
<1>4. ASSUME NEW items \in MessageReply, MessagesListed(k, items)
      PROVE  Menu!Next
  <2> DEFINE y == AddMessages(app[a], items)
  <2>1. PICK M \in SUBSET Message : items \in [M -> MessageState \ {"absent"}]
    BY DEF MessageReply
  <2>2. Completes("messages", k) /\ app' = [app EXCEPT ![a] = y]
    BY <1>4 DEF MessagesListed
  <2>3. a \in App /\ a \in listed /\ app[a] \in Application /\ UNCHANGED <<listed, stored>>
    BY <1>2, <2>2
  <2>4. FlagFits(app[a])
    BY <2>3 DEF Flagged
  <2>5. y \in Application /\ y.launch = app[a].launch
    BY <2>1, <2>3, <2>4, AddMessagesFacts
  <2> HIDE DEF y, a
  <2>6. Menu!Edit(a)
    BY <2>2, <2>3, <2>5, MenuEdit
  <2>7. QED
    BY <2>3, <2>6 DEF Menu!Next
<1>5. QED
  BY <1>1, <1>3, <1>4 DEF Sources, Messages

\* Every callback is a step of the menu, or hidden from it.
LEMMA MenuCallback ==
  ASSUME IndInv, IndInv', Callback
  PROVE  [Menu!Next]_(Menu!menuVars)
<1>1. PICK k \in Requests : ProxyCreated(k) \/ Sources(k) \/ Messages(k) \/ Vanished(k)
  BY DEF Callback
<1>2. Requester(k) \in App
  BY RequestType DEF IndInv
<1>3. CASE ProxyCreated(k)
  <2>1. PICK a \in App : a = Requester(k)
    BY <1>2
  <2>2. QED
    BY <1>3, <2>1, MenuProxyCreated DEF Menu!Next
<1>4. CASE Sources(k) \/ Messages(k)
  BY <1>4, MenuListed
<1>5. CASE Vanished(k)
  <2>1. /\ UnsetRemote(Requester(k)) /\ Requester(k) \in listed
        /\ UNCHANGED <<listed, stored>>
    BY <1>5 DEF Vanished, IndInv, Known
  <2>2. QED
    BY <1>2, <2>1, MenuStop DEF Menu!Next
<1>6. QED
  BY <1>1, <1>3, <1>4, <1>5

\* A signal edits the section of the application it comes from.
LEMMA MenuSignal ==
  ASSUME IndInv, IndInv', ClientSignal
  PROVE  [Menu!Next]_(Menu!menuVars)
<1> SUFFICES ASSUME NEW k \in Requests,
                    \/ \E s \in Source :
                         \/ \E v \in SourceState \ {"absent"} :
                              SourceAdded(k, s, v) \/ SourceChanged(k, s, v)
                         \/ SourceRemoved(k, s)
                    \/ \E m \in Message :
                         \/ \E v \in MessageState \ {"absent"} : MessageAdded(k, m, v)
                         \/ MessageRemoved(k, m)
             PROVE  [Menu!Next]_(Menu!menuVars)
  BY DEF ClientSignal
<1> DEFINE a == Requester(k)
<1>1. Live(k)
  BY DEF SourceAdded, SourceChanged, SourceRemoved, MessageAdded, MessageRemoved, Signal
<1>2. a \in App /\ a \in listed
  BY <1>1, LiveIsListed
<1>3. app[a] \in Application /\ FlagFits(app[a])
  BY <1>2 DEF IndInv, TypeOK, Flagged
<1>4. ASSUME NEW s \in Source, NEW v \in SourceState \ {"absent"}, SourceAdded(k, s, v)
      PROVE  [Menu!Next]_(Menu!menuVars)
  <2> DEFINE y == AddSources(app[a], [t \in {s} |-> v])
  <2>1. y \in Application /\ y.launch = app[a].launch
    BY <1>3, AddSourcesFacts
  <2>2. app' = [app EXCEPT ![a] = y] /\ UNCHANGED <<listed, stored>>
    BY <1>4 DEF SourceAdded, Update
  <2> HIDE DEF y, a
  <2>3. QED
    BY <1>2, <2>1, <2>2, MenuEdit DEF Menu!Next
<1>5. ASSUME NEW s \in Source, NEW v \in SourceState \ {"absent"}, SourceChanged(k, s, v)
      PROVE  [Menu!Next]_(Menu!menuVars)
  <2> DEFINE y == ChangeSource(app[a], s, v)
  <2>1. y \in Application /\ y.launch = app[a].launch
    BY <1>3, ChangeSourceFacts
  <2>2. app' = [app EXCEPT ![a] = y] /\ UNCHANGED <<listed, stored>>
    BY <1>5 DEF SourceChanged, Update
  <2> HIDE DEF y, a
  <2>3. QED
    BY <1>2, <2>1, <2>2, MenuEdit DEF Menu!Next
<1>6. ASSUME NEW s \in Source, SourceRemoved(k, s)
      PROVE  [Menu!Next]_(Menu!menuVars)
  <2> DEFINE y == RemoveSource(app[a], s)
  <2>1. y \in Application /\ y.launch = app[a].launch
    BY <1>3, RemoveSourceFacts
  <2>2. app' = [app EXCEPT ![a] = y] /\ UNCHANGED <<listed, stored>>
    BY <1>6 DEF SourceRemoved, Update
  <2> HIDE DEF y, a
  <2>3. QED
    BY <1>2, <2>1, <2>2, MenuEdit DEF Menu!Next
<1>7. ASSUME NEW m \in Message, NEW v \in MessageState \ {"absent"}, MessageAdded(k, m, v)
      PROVE  [Menu!Next]_(Menu!menuVars)
  <2> DEFINE y == AddMessages(app[a], [n \in {m} |-> v])
  <2>1. y \in Application /\ y.launch = app[a].launch
    BY <1>3, AddMessagesFacts
  <2>2. app' = [app EXCEPT ![a] = y] /\ UNCHANGED <<listed, stored>>
    BY <1>7 DEF MessageAdded, Update
  <2> HIDE DEF y, a
  <2>3. QED
    BY <1>2, <2>1, <2>2, MenuEdit DEF Menu!Next
<1>8. ASSUME NEW m \in Message, MessageRemoved(k, m)
      PROVE  [Menu!Next]_(Menu!menuVars)
  <2> DEFINE y == RemoveMessage(app[a], m)
  <2>1. y \in Application /\ y.launch = app[a].launch
    BY <1>3, RemoveMessageFacts
  <2>2. app' = [app EXCEPT ![a] = y] /\ UNCHANGED <<listed, stored>>
    BY <1>8 DEF MessageRemoved, Update
  <2> HIDE DEF y, a
  <2>3. QED
    BY <1>2, <2>1, <2>2, MenuEdit DEF Menu!Next
<1>9. QED
  BY <1>4, <1>5, <1>6, <1>7, <1>8

\* An activation edits one section; clearing empties every one.
LEMMA MenuUser ==
  ASSUME IndInv, IndInv', User
  PROVE  [Menu!Next]_(Menu!menuVars)
<1>1. ASSUME NEW a \in App, HasItems(app[a])
      PROVE  a \in listed /\ app[a] \in Application
  BY <1>1, StoppedIsEmpty DEF IndInv, Known, TypeOK
<1>2. ASSUME NEW a \in App, NEW s \in Source, SourceActivated(a, s)
      PROVE  Menu!Next
  <2> DEFINE y == RemoveSource(app[a], s)
  <2>1. /\ HasItems(app[a])
        /\ app' = [app EXCEPT ![a] = y] /\ UNCHANGED <<listed, stored>>
    BY <1>2 DEF SourceActivated, HasItems, Update
  <2>2. y \in Application /\ y.launch = app[a].launch
    BY <1>1, <2>1, RemoveSourceFacts
  <2> HIDE DEF y
  <2>3. QED
    BY <1>1, <2>1, <2>2, MenuEdit DEF Menu!Next
<1>3. ASSUME NEW a \in App, NEW m \in Message, MessageActivated(a, m)
      PROVE  Menu!Next
  <2> DEFINE y == RemoveMessage(app[a], m)
  <2>1. /\ HasItems(app[a])
        /\ app' = [app EXCEPT ![a] = y] /\ UNCHANGED <<listed, stored>>
    BY <1>3 DEF MessageActivated, HasItems, Update
  <2>2. y \in Application /\ y.launch = app[a].launch
    BY <1>1, <2>1, RemoveMessageFacts
  <2> HIDE DEF y
  <2>3. QED
    BY <1>1, <2>1, <2>2, MenuEdit DEF Menu!Next
<1>4. ASSUME RemoveAll
      PROVE  Menu!ClearAll
  <2>1. UNCHANGED <<listed, stored>>
    BY <1>4 DEF RemoveAll
  <2>2. ASSUME NEW a \in App
        PROVE  /\ app'[a].launch = app[a].launch
               /\ Shown(app'[a]) = {} /\ Alerting(app'[a]) = {}
               /\ ~app'[a].draws
    <3>1. app[a] \in Application
      BY DEF IndInv, TypeOK
    <3>2. CASE a \in listed
      <4>1. app'[a] = ClearItems(app[a])
        BY <1>4, <3>2 DEF RemoveAll
      <4>2. app'[a].launch = app[a].launch /\ ~HasItems(app'[a]) /\ FlagFits(app'[a])
        BY <3>1, <4>1, ClearItemsFacts
      <4>3. QED
        BY <4>2 DEF HasItems, FlagFits, Shown, Alerting
    <3>3. CASE a \notin listed
      <4>1. app[a] = Stopped /\ app'[a] = app[a]
        BY <1>4, <3>3 DEF RemoveAll, IndInv, Known
      <4>2. QED
        BY <4>1, StoppedShowsNothing
    <3>4. QED
      BY <3>2, <3>3
  <2>3. root'.draws = \E a \in listed' : app'[a].draws
    BY DEF IndInv, RootReflectsApps
  <2>4. root'.draws = FALSE
    BY <2>1, <2>2, <2>3 DEF IndInv, TypeOK
  <2>5. {a \in App : app'[a].launch} = {a \in App : app[a].launch}
    BY <2>2
  <2>6. QED
    BY <2>1, <2>2, <2>4, <2>5 DEF Menu!ClearAll, Menu!None
<1>5. QED
  BY <1>2, <1>3, <1>4 DEF User, Menu!Next

\* A new process is a new menu; a client leaving the bus changes nothing yet.
LEMMA MenuEnvironment ==
  ASSUME IndInv, IndInv', Environment
  PROVE  [Menu!Next]_(Menu!menuVars)
<1>1. ASSUME NEW c \in Conn, Disconnect(c)
      PROVE  UNCHANGED Menu!menuVars
  BY <1>1, MenuIdle DEF Disconnect
<1>2. ASSUME Restart
      PROVE  Menu!Restart
  <2>1. /\ listed' = stored /\ stored' = stored
        /\ \A a \in App : app'[a] = Stopped
    BY <1>2 DEF Restart
  <2>2. \A a \in App : /\ ~app'[a].launch /\ ~app'[a].draws
                       /\ Shown(app'[a]) = {} /\ Alerting(app'[a]) = {}
    BY <2>1, StoppedShowsNothing
  <2>3. root'.draws = \E a \in listed' : app'[a].draws
    BY DEF IndInv, RootReflectsApps
  <2>4. root'.draws = FALSE
    BY <2>1, <2>2, <2>3 DEF IndInv, TypeOK
  <2>5. QED
    BY <2>1, <2>2, <2>4 DEF Menu!Restart, Menu!None
<1>3. QED
  BY <1>1, <1>2 DEF Environment, Menu!Next

\* The service starts as an empty menu of the stored sections.
LEMMA MenuInit ==
  ASSUME Init
  PROVE  Menu!Init
<1>1. /\ listed = stored /\ stored \in SUBSET App
      /\ \A a \in App : app[a] = Stopped
      /\ root = Root(app, listed)
  BY DEF Init, Start
<1>2. \A a \in App : /\ ~app[a].launch /\ ~app[a].draws
                     /\ Shown(app[a]) = {} /\ Alerting(app[a]) = {}
  BY <1>1, StoppedShowsNothing
<1>3. root.draws = FALSE
  BY <1>1, <1>2 DEF Root
<1>4. QED
  BY <1>1, <1>2, <1>3 DEF Menu!Init, Menu!None

\* Every step of the list, a stuttering one included.
LEMMA MenuStep ==
  ASSUME IndInv, IndInv', [Next]_vars
  PROVE  [MenuNext]_(Menu!menuVars)
<1>1. CASE UNCHANGED vars
  BY <1>1, MenuIdle DEF vars
<1>2. CASE Next
  BY <1>2, MenuMethod, MenuCallback, MenuSignal, MenuUser, MenuEnvironment DEF Next, MenuNext
<1>3. QED
  BY <1>1, <1>2

(***************************************************************************)
(* The application list implements the abstract menu, whatever the order   *)
(* of calls, callbacks, signals, activations, disconnections and restarts, *)
(* except that unregistering leaves the section: a step of one application *)
(* leaves the items of the others alone, one that stops takes all of its   *)
(* items along, and the icon follows at once.                              *)
(***************************************************************************)
THEOREM Implements == Spec => ImplementsMenu
<1>1. Init => Menu!Init
  BY MenuInit
<1>2. IndInv /\ IndInv' /\ [Next]_vars => [MenuNext]_(Menu!menuVars)
  BY MenuStep
<1>3. QED
  BY <1>1, <1>2, Inductive, PTL DEF Spec, ImplementsMenu

=============================================================================
