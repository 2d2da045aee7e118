---------------------------- MODULE Session_proofs ----------------------------
(***************************************************************************)
(* Proofs about Session: the client and the service with the bus between   *)
(* them.  Every step of the session is a step of the application list, or  *)
(* none, so the list's invariant holds here, too; on top of it come, in    *)
(* this order, the messages on the bus (Wired), the calls that are under   *)
(* way (Phased), the registration (Registering) and the items (Carried).   *)
(***************************************************************************)
EXTENDS Session, MessagingMenu_proofs, SequenceLemmas

-----------------------------------------------------------------------------
(* What is on the bus, when n registrations were made.                     *)

UpRecord == [type  : MessageType \cup Status,
             req   : Nat,
             items : UNION {[D -> SourceState] : D \in SUBSET (Source \cup Message)}]

\* Every type of message carries what its handler expects.
Sent(u, n) ==
  \/ u.type \in {"register", "unregister", "stopped"} \cup Status /\ u.items = << >>
  \/ /\ u.type \in {"source-added", "source-changed"}
     /\ \E s \in Source, v \in SourceState \ {"absent"} : u.items = [t \in {s} |-> v]
  \/ /\ u.type = "source-removed"
     /\ \E s \in Source : u.items = [t \in {s} |-> "absent"]
  \/ /\ u.type = "message-added"
     /\ \E m \in Message, v \in MessageState \ {"absent"} : u.items = [t \in {m} |-> v]
  \/ /\ u.type = "message-removed"
     /\ \E m \in Message : u.items = [t \in {m} |-> "absent"]
  \/ /\ u.type \in {"proxy", "sources-failed", "messages-failed"}
     /\ u.req \in 1..n /\ u.items = << >>
  \/ u.type = "sources" /\ u.req \in 1..n /\ u.items \in SourceReply
  \/ u.type = "messages" /\ u.req \in 1..n /\ u.items \in MessageReply

UpMessage(n) == {u \in UpRecord : u.req \in 0..n /\ Sent(u, n)}

DownMessage(n) ==
  {d \in [type : {"get-all", "list-sources", "list-messages", "dismiss"}, req : 0..n,
          sources : SUBSET Source, messages : SUBSET Message] :
     d.type # "dismiss" => d.req \in 1..n}

ClientSource == {x \in [present : BOOLEAN, shown : BOOLEAN, draws : BOOLEAN] :
                   x.present \/ x = Client!NoSource}

ClientTyped ==
  /\ registered \in {"unknown", "yes", "no"}
  /\ status \in Status \cup {"unset"}
  /\ service \in BOOLEAN /\ disposed \in BOOLEAN
  /\ connecting \in 0..MaxConnecting
  /\ sources \in [Source -> ClientSource]
  /\ messages \in [Message -> MessageState]

BusTyped ==
  /\ up \in Seq(UpMessage(Len(request)))
  /\ down \in Seq(DownMessage(Len(request)))
  /\ notice \in Seq({"vanished", "appeared"})
  /\ restarts \in 0..MaxRestart

\* All registrations are the client's.
OneClient == \A k \in Requests : request[k] = [app |-> Self, owner |-> Bus]

Wired == IndInv /\ ClientTyped /\ BusTyped /\ OneClient

-----------------------------------------------------------------------------
(* The calls that are under way.                                           *)

Proxy == app[Self].proxy
Cancellable == app[Self].cancellable

\* The proxies with a call of a kind under way: those that are being created,
\* and those whose list is asked for.
Underway(p, kind) == {p[i].req : i \in {i \in DOMAIN p : p[i].kind = kind}}
Creating == Underway(pending, "create")
Awaiting(kind) == Underway(pending, kind)

Kinds == {"sources", "messages"}
ListCall(kind) == IF kind = "sources" THEN "list-sources" ELSE "list-messages"

\* At most one list call, or its reply, is on the bus for a proxy, and none
\* while the proxy is being created.
Once(q, d, creating, kind) ==
  /\ \A i, j \in DOMAIN q : /\ q[i].type = kind /\ q[j].type = kind
                            /\ q[i].req = q[j].req
                            => i = j
  /\ \A i, j \in DOMAIN d : /\ d[i].type = ListCall(kind) /\ d[j].type = ListCall(kind)
                            /\ d[i].req = d[j].req
                            => i = j
  /\ \A i \in DOMAIN q, j \in DOMAIN d :
       ~(q[i].type = kind /\ d[j].type = ListCall(kind) /\ q[i].req = d[j].req)
  /\ \A i \in DOMAIN q : q[i].type = kind => q[i].req \notin creating
  /\ \A j \in DOMAIN d : d[j].type = ListCall(kind) => d[j].req \notin creating

\* A creation is the first call for its registration, under its own cancellable.
CreatesOnce(p) ==
  /\ \A i, j \in DOMAIN p : p[i].kind = "create" /\ p[i].req = p[j].req => i = j
  /\ \A i \in DOMAIN p : p[i].kind = "create" => p[i].canc = p[i].req

\* Every pending call has its place among the others.
CallsOnce == /\ \A kind \in Kinds : Once(up, down, Creating, kind)
             /\ CreatesOnce(pending)

\* The client is asked for the properties of a proxy, or has answered.
Introducing(k) == \/ \E i \in DOMAIN down : down[i].type = "get-all" /\ down[i].req = k
                  \/ \E i \in DOMAIN up : up[i].type = "proxy" /\ up[i].req = k

\* While there is no proxy: nothing, or creations of which only the last counts.
Unconnected ==
  /\ leaked = {}
  /\ \/ Cancellable = 0 /\ pending = << >>
     \/ /\ Cancellable # 0 /\ pending # << >>
        /\ pending[Len(pending)] = Call("create", Cancellable, Cancellable)
        /\ \A i \in 1..(Len(pending) - 1) : /\ pending[i].kind = "create"
                                            /\ pending[i].req \in cancelled
        /\ Introducing(Cancellable)

\* While there is one, no call under way is cancelled.
Uncancelled ==
  /\ Cancellable # 0 /\ app[Self].launch
  /\ \A i \in DOMAIN pending : pending[i].canc \notin cancelled

NothingFailed == \A i \in DOMAIN up :
  up[i].type \notin {"stopped", "sources-failed", "messages-failed"}

Phased == /\ CallsOnce
          /\ disposed => /\ sources = [s \in Source |-> Client!NoSource]
                         /\ messages = [m \in Message |-> "absent"]
          /\ ~disposed => /\ NothingFailed
                          /\ Proxy = 0 => Unconnected
                          /\ Proxy # 0 => Uncancelled

-----------------------------------------------------------------------------
(* The registration.                                                       *)

Coming == connecting > 0 \/ \E i \in DOMAIN notice : notice[i] = "appeared"

Registering ==
  /\ notice = << >> \/ notice[Len(notice)] = "appeared"
  /\ ~disposed =>
       /\ service \/ Coming
       /\ registered = "yes" =>
            \/ Coming \/ Cancellable # 0
            \/ \E i \in DOMAIN up : up[i].type = "register"

-----------------------------------------------------------------------------
(* The items.                                                              *)

\* What a message does to an item, when the lists of the proxies in W are awaited.
Nothing == [how |-> "nothing", to |-> "absent"]
News(u, kind, x, W) ==
  IF x \notin DOMAIN u.items THEN Nothing
  ELSE IF \/ u.type = kind /\ u.req \in W
          \/ kind = "sources" /\ u.type \in {"source-added", "source-removed"}
          \/ kind = "messages" /\ u.type \in {"message-added", "message-removed"}
       THEN [how |-> "set", to |-> u.items[x]]
  ELSE IF kind = "sources" /\ u.type = "source-changed"
       THEN [how |-> "change", to |-> u.items[x]]
  ELSE Nothing

Applied(v, w) == IF w.how = "set" \/ (w.how = "change" /\ v # "absent") THEN w.to ELSE v

\* The news of a queue lead from one value to another.
Leads(q, kind, x, W, from, to) ==
  \E run \in [0..Len(q) -> SourceState] :
    /\ run[0] = from /\ run[Len(q)] = to
    /\ \A i \in 1..Len(q) : run[i] = Applied(run[i - 1], News(q[i], kind, x, W))

Items(kind) == IF kind = "sources" THEN Source ELSE Message
Held(kind, x) == IF kind = "sources" THEN Client!SourceToVariant(sources[x]) ELSE messages[x]
Seen(kind, x) == IF kind = "sources" THEN app[Self].sources[x] ELSE app[Self].messages[x]

\* The list of the current proxy was asked for, and the client has not heard of it.
Asked(kind) == /\ Proxy \in Awaiting(kind)
               /\ \E i \in DOMAIN down : /\ down[i].type = ListCall(kind)
                                         /\ down[i].req = Proxy

\* The user has activated the item, and the client has not heard of it.
Names(d, kind, x) == /\ d.type = "dismiss"
                     /\ x \in IF kind = "sources" THEN d.sources ELSE d.messages
Dismissed(kind, x) == \E i \in DOMAIN down : Names(down[i], kind, x)

Settles(kind, x) == \/ Held(kind, x) # "absent" /\ Asked(kind)
                    \/ Leads(up, kind, x, Awaiting(kind), Seen(kind, x), Held(kind, x))

\* A list call of a proxy that is not the remote any more crashes the service.
Doomed == \E i \in DOMAIN pending : pending[i].kind # "create" /\ pending[i].req # Proxy
Healthy == ~disposed /\ Proxy # 0 /\ ~Doomed

Carried == Healthy => \A kind \in Kinds : \A x \in Items(kind) :
             Held(kind, x) = "absent" \/ Dismissed(kind, x) \/ Settles(kind, x)

SessionInv == Wired /\ Phased /\ Registering /\ Carried

\* Without a user: nothing is dismissed, and what the client does not hold goes.
Undismissed == \A i \in DOMAIN down : down[i].type # "dismiss"
Goes(kind, x) == Leads(up, kind, x, {}, "absent", "absent")
Faithful ==
  /\ Undismissed
  /\ ~disposed => \A kind \in Kinds : \A x \in Items(kind) : Held(kind, x) = "absent" => Goes(kind, x)
  /\ Healthy => \A kind \in Kinds : \A x \in Items(kind) : Settles(kind, x)

-----------------------------------------------------------------------------
(* Messages and queues.                                                    *)

\* A chat status has no other meaning.
LEMMA StatusIsNoType == \A x \in Status : x \notin MessageType
BY StatusAssumption

\* A message that no item is in.
LEMMA PlainMessage ==
  ASSUME NEW n \in Nat, NEW type, NEW k \in 0..n,
         \/ type \in {"register", "unregister", "stopped"} \cup Status
         \/ type \in {"proxy", "sources-failed", "messages-failed"} /\ k \in 1..n
  PROVE  Client!Up(type, k, Client!NoItems) \in UpMessage(n)
<1> DEFINE u == [type |-> type, req |-> k, items |-> << >>]
<1>1. << >> \in UNION {[D -> SourceState] : D \in SUBSET (Source \cup Message)}
  <2>1. << >> \in [{} -> SourceState]
    OBVIOUS
  <2>2. QED
    BY <2>1
<1>2. type \in MessageType \cup Status /\ k \in Nat
  BY DEF MessageType
<1>3. u \in UpRecord
  <2> HIDE DEF u
  <2>1. u = [type |-> type, req |-> k, items |-> << >>]
    BY DEF u
  <2>2. QED
    BY <1>1, <1>2, <2>1 DEF UpRecord
<1>4. Sent(u, n)
  BY DEF Sent
<1>5. QED
  BY <1>3, <1>4 DEF UpMessage, Client!Up, Client!NoItems

\* A message about one item.
About(u, type, x, v) == u = Client!Up(type, 0, [t \in {x} |-> v])

\* Such a message is well-formed, if the item is of the message's kind.
LEMMA ItemMessage ==
  ASSUME NEW n \in Nat, NEW type, NEW x, NEW v, NEW m, About(m, type, x, v),
         \/ /\ type \in {"source-added", "source-changed"}
            /\ x \in Source /\ v \in SourceState \ {"absent"}
         \/ type = "source-removed" /\ x \in Source /\ v = "absent"
         \/ type = "message-added" /\ x \in Message /\ v \in MessageState \ {"absent"}
         \/ type = "message-removed" /\ x \in Message /\ v = "absent"
  PROVE  m \in UpMessage(n)
<1> DEFINE u == [type |-> type, req |-> 0, items |-> [t \in {x} |-> v]]
<1>1. [t \in {x} |-> v] \in UNION {[D -> SourceState] : D \in SUBSET (Source \cup Message)}
  <2>1. v \in SourceState /\ {x} \in SUBSET (Source \cup Message)
    BY DEF SourceState, MessageState
  <2>2. [t \in {x} |-> v] \in [{x} -> SourceState]
    BY <2>1
  <2>3. QED
    BY <2>1, <2>2
<1>2. type \in MessageType \cup Status
  BY DEF MessageType
<1>3. u \in UpRecord
  BY <1>1, <1>2 DEF UpRecord
<1>4. Sent(u, n)
  BY DEF Sent
<1>5. QED
  BY <1>3, <1>4 DEF UpMessage, Client!Up, About

\* A reply with a list of items.
LEMMA ReplyMessage ==
  ASSUME NEW n \in Nat, NEW k \in 1..n, NEW type, NEW items,
         \/ type = "sources" /\ items \in SourceReply
         \/ type = "messages" /\ items \in MessageReply
  PROVE  Client!Up(type, k, items) \in UpMessage(n)
<1> DEFINE u == [type |-> type, req |-> k, items |-> items]
<1>1. items \in UNION {[D -> SourceState] : D \in SUBSET (Source \cup Message)}
  <2>1. PICK D \in SUBSET (Source \cup Message) : items \in [D -> SourceState]
    <3>1. CASE items \in SourceReply
      <4>1. PICK S \in SUBSET Source : items \in [S -> SourceState \ {"absent"}]
        BY <3>1 DEF SourceReply
      <4>2. items \in [S -> SourceState] /\ S \in SUBSET (Source \cup Message)
        BY <4>1
      <4>3. QED
        BY <4>2
    <3>2. CASE items \in MessageReply
      <4>1. PICK M \in SUBSET Message : items \in [M -> MessageState \ {"absent"}]
        BY <3>2 DEF MessageReply
      <4>2. items \in [M -> SourceState] /\ M \in SUBSET (Source \cup Message)
        BY <4>1 DEF MessageState, SourceState
      <4>3. QED
        BY <4>2
    <3>3. QED
      BY <3>1, <3>2
  <2>2. QED
    BY <2>1
<1>2. type \in MessageType \cup Status
  BY DEF MessageType
<1>3. u \in UpRecord
  BY <1>1, <1>2 DEF UpRecord
<1>4. Sent(u, n)
  BY DEF Sent
<1>5. QED
  BY <1>3, <1>4 DEF UpMessage, Client!Up

\* The items that are there form a list.
LEMMA PresentIsReply ==
  /\ \A f \in [Source -> SourceState] : Client!Present(Source, f) \in SourceReply
  /\ \A f \in [Message -> MessageState] : Client!Present(Message, f) \in MessageReply
<1>1. ASSUME NEW f \in [Source -> SourceState]
      PROVE  Client!Present(Source, f) \in SourceReply
  <2> DEFINE S == {x \in Source : f[x] # "absent"}
  <2>1. S \in SUBSET Source /\ [x \in S |-> f[x]] \in [S -> SourceState \ {"absent"}]
    OBVIOUS
  <2>2. QED
    BY <2>1 DEF SourceReply, Client!Present
<1>2. ASSUME NEW f \in [Message -> MessageState]
      PROVE  Client!Present(Message, f) \in MessageReply
  <2> DEFINE M == {x \in Message : f[x] # "absent"}
  <2>1. M \in SUBSET Message /\ [x \in M |-> f[x]] \in [M -> MessageState \ {"absent"}]
    OBVIOUS
  <2>2. QED
    BY <2>1 DEF MessageReply, Client!Present
<1>3. QED
  BY <1>1, <1>2

\* What is on the bus stays well-formed when registrations are added.
LEMMA MessagesGrow ==
  ASSUME NEW n \in Nat, NEW m \in Nat, n <= m
  PROVE  UpMessage(n) \subseteq UpMessage(m) /\ DownMessage(n) \subseteq DownMessage(m)
<1>1. 0..n \subseteq 0..m /\ 1..n \subseteq 1..m
  OBVIOUS
<1>2. ASSUME NEW u \in UpMessage(n) PROVE u \in UpMessage(m)
  <2>1. Sent(u, m)
    <3>1. Sent(u, n)
      BY DEF UpMessage
    <3>2. QED
      BY <1>1, <3>1 DEF Sent
  <2>2. QED
    BY <1>1, <2>1 DEF UpMessage
<1>3. ASSUME NEW d \in DownMessage(n) PROVE d \in DownMessage(m)
  BY <1>1 DEF DownMessage
<1>4. QED
  BY <1>2, <1>3

\* A message and the handlers that take it.
LEMMA TakenMessage ==
  ASSUME NEW n \in Nat, NEW u \in UpMessage(n)
  PROVE  /\ u.req \in 0..n
         /\ u.type \in {"source-added", "source-changed"} =>
              \E s \in Source, v \in SourceState \ {"absent"} : u.items = [t \in {s} |-> v]
         /\ u.type = "source-removed" => \E s \in Source : u.items = [t \in {s} |-> "absent"]
         /\ u.type = "message-added" =>
              \E m \in Message, v \in MessageState \ {"absent"} : u.items = [t \in {m} |-> v]
         /\ u.type = "message-removed" =>
              \E m \in Message : u.items = [t \in {m} |-> "absent"]
         /\ u.type \in {"proxy", "sources-failed", "messages-failed", "sources", "messages"}
              => u.req \in 1..n
         /\ u.type = "sources" => u.items \in SourceReply
         /\ u.type = "messages" => u.items \in MessageReply
<1>1. u.req \in 0..n /\ Sent(u, n)
  BY DEF UpMessage
<1>2. u.type \in MessageType => u.type \notin Status
  BY StatusIsNoType
<1>3. QED
  BY <1>1, <1>2 DEF Sent, MessageType

-----------------------------------------------------------------------------
(* Queues of messages and the value of an item.                            *)

\* Applying news to a value of an item gives one.
LEMMA AppliedType ==
  ASSUME NEW u \in UpRecord, NEW kind, NEW x, NEW W, NEW v \in SourceState
  PROVE  /\ News(u, kind, x, W).to \in SourceState
         /\ Applied(v, News(u, kind, x, W)) \in SourceState
<1>1. x \in DOMAIN u.items => u.items[x] \in SourceState
  <2>1. PICK D \in SUBSET (Source \cup Message) : u.items \in [D -> SourceState]
    BY DEF UpRecord
  <2>2. QED
    BY <2>1
<1>2. "absent" \in SourceState
  BY DEF SourceState
<1>3. News(u, kind, x, W).to \in SourceState
  BY <1>1, <1>2 DEF News, Nothing
<1> HIDE DEF News
<1>4. QED
  BY <1>3 DEF Applied

\* An empty queue changes nothing.
LEMMA LeadsNone ==
  ASSUME NEW kind, NEW x, NEW W, NEW a, NEW b
  PROVE  /\ a \in SourceState => Leads(<< >>, kind, x, W, a, a)
         /\ Leads(<< >>, kind, x, W, a, b) => a = b
<1>1. Len(<< >>) = 0 /\ 0..0 = {0} /\ 1..0 = {}
  BY EmptySeq
<1>2. ASSUME a \in SourceState PROVE Leads(<< >>, kind, x, W, a, a)
  <2>1. PICK run \in [{0} -> SourceState] : run[0] = a
    <3>1. [i \in {0} |-> a] \in [{0} -> SourceState] /\ [i \in {0} |-> a][0] = a
      BY <1>2
    <3>2. QED
      BY <3>1
  <2>2. \A i \in 1..Len(<< >>) :
          run[i] = Applied(run[i - 1], News(<< >>[i], kind, x, W))
    BY <1>1
  <2>3. QED
    BY <1>1, <2>1, <2>2 DEF Leads
<1>3. ASSUME Leads(<< >>, kind, x, W, a, b) PROVE a = b
  BY <1>1, <1>3 DEF Leads
<1>4. QED
  BY <1>2, <1>3

\* A queue of one message.
LEMMA LeadsOne ==
  ASSUME NEW u \in UpRecord, NEW kind, NEW x, NEW W, NEW a \in SourceState
  PROVE  Leads(<<u>>, kind, x, W, a, Applied(a, News(u, kind, x, W)))
<1> DEFINE b == Applied(a, News(u, kind, x, W))
           run == [i \in 0..1 |-> IF i = 0 THEN a ELSE b]
<1>1. Len(<<u>>) = 1 /\ <<u>>[1] = u
  OBVIOUS
<1>2. b \in SourceState
  BY AppliedType
<1> HIDE DEF b
<1>3. run \in [0..1 -> SourceState] /\ run[0] = a /\ run[1] = b
  BY <1>2
<1>4. \A i \in 1..1 : run[i] = Applied(run[i - 1], News(<<u>>[i], kind, x, W))
  BY <1>1, <1>3 DEF b
<1> HIDE DEF run
<1>5. Leads(<<u>>, kind, x, W, a, b)
  BY <1>1, <1>3, <1>4 DEF Leads
<1>6. QED
  BY <1>5 DEF b

\* One queue after the other.
LEMMA LeadsConcat ==
  ASSUME NEW q \in Seq(UpRecord), NEW r \in Seq(UpRecord), NEW kind, NEW x, NEW W,
         NEW a, NEW b, NEW c,
         Leads(q, kind, x, W, a, b), Leads(r, kind, x, W, b, c)
  PROVE  Leads(q \o r, kind, x, W, a, c)
<1> DEFINE n == Len(q)
           m == Len(r)
<1>1. n \in Nat /\ m \in Nat
  BY LenProperties
<1>2. /\ Len(q \o r) = n + m
      /\ \A i \in 1..(n + m) : (q \o r)[i] = IF i <= n THEN q[i] ELSE r[i - n]
  BY ConcatProperties
<1>3. PICK f \in [0..n -> SourceState] :
        /\ f[0] = a /\ f[n] = b
        /\ \A i \in 1..n : f[i] = Applied(f[i - 1], News(q[i], kind, x, W))
  BY DEF Leads
<1>4. PICK g \in [0..m -> SourceState] :
        /\ g[0] = b /\ g[m] = c
        /\ \A i \in 1..m : g[i] = Applied(g[i - 1], News(r[i], kind, x, W))
  BY DEF Leads
<1> HIDE DEF n, m
<1> DEFINE h == [i \in 0..(n + m) |-> IF i <= n THEN f[i] ELSE g[i - n]]
<1>5. h \in [0..(n + m) -> SourceState]
  <2>1. ASSUME NEW i \in 0..(n + m)
        PROVE  (IF i <= n THEN f[i] ELSE g[i - n]) \in SourceState
    <3>1. CASE i <= n
      BY <1>1, <1>3, <3>1
    <3>2. CASE ~(i <= n)
      <4>1. i - n \in 0..m
        BY <1>1, <3>2
      <4>2. QED
        BY <1>4, <3>2, <4>1
    <3>3. QED
      BY <3>1, <3>2
  <2>2. QED
    BY <2>1
<1>6. \A i \in 0..(n + m) : h[i] = IF i <= n THEN f[i] ELSE g[i - n]
  OBVIOUS
<1> HIDE DEF h
<1>7. h[0] = a
  BY <1>1, <1>3, <1>6
<1>8. h[n + m] = c
  <2>1. CASE m = 0
    BY <1>1, <1>3, <1>4, <1>6, <2>1
  <2>2. CASE m # 0
    <3>1. n + m \in 0..(n + m) /\ ~(n + m <= n) /\ (n + m) - n = m
      BY <1>1, <2>2
    <3>2. QED
      BY <1>4, <1>6, <3>1
  <2>3. QED
    BY <2>1, <2>2
<1>9. ASSUME NEW i \in 1..(n + m)
      PROVE  h[i] = Applied(h[i - 1], News((q \o r)[i], kind, x, W))
  <2>1. CASE i <= n
    <3>1. /\ i \in 1..n /\ i \in 0..(n + m) /\ i - 1 \in 0..(n + m) /\ i - 1 <= n
      BY <1>1, <2>1
    <3>2. h[i] = f[i] /\ h[i - 1] = f[i - 1] /\ (q \o r)[i] = q[i]
      BY <1>2, <1>6, <2>1, <3>1
    <3>3. QED
      BY <1>3, <3>1, <3>2
  <2>2. CASE ~(i <= n)
    <3>1. /\ i - n \in 1..m /\ i \in 0..(n + m) /\ i - 1 \in 0..(n + m)
          /\ (i - n) - 1 = (i - 1) - n
      BY <1>1, <2>2
    <3>2. h[i] = g[i - n] /\ (q \o r)[i] = r[i - n]
      BY <1>2, <1>6, <2>2, <3>1
    <3>3. h[i - 1] = g[(i - n) - 1]
      <4>1. CASE i - 1 <= n
        <5>1. i - 1 = n /\ (i - n) - 1 = 0
          BY <1>1, <2>2, <4>1
        <5>2. QED
          BY <1>3, <1>4, <1>6, <3>1, <4>1, <5>1
      <4>2. CASE ~(i - 1 <= n)
        BY <1>6, <3>1, <4>2
      <4>3. QED
        BY <4>1, <4>2
    <3>4. QED
      BY <1>4, <3>1, <3>2, <3>3
  <2>3. QED
    BY <2>1, <2>2
<1>10. QED
  BY <1>2, <1>5, <1>7, <1>8, <1>9 DEF Leads

\* The head of a queue is taken.
LEMMA LeadsTail ==
  ASSUME NEW q \in Seq(UpRecord), q # << >>, NEW kind, NEW x, NEW W, NEW a, NEW b,
         Leads(q, kind, x, W, a, b)
  PROVE  Leads(Tail(q), kind, x, W, Applied(a, News(Head(q), kind, x, W)), b)
<1> DEFINE n == Len(q)
           t == Tail(q)
           c == Applied(a, News(Head(q), kind, x, W))
<1>1. n \in Nat /\ n > 0
  BY LenProperties, EmptySeq
<1>2. Len(t) = n - 1 /\ \A i \in 1..(n - 1) : t[i] = q[i + 1]
  BY HeadTailProperties
<1>3. Head(q) = q[1]
  OBVIOUS
<1>4. PICK f \in [0..n -> SourceState] :
        /\ f[0] = a /\ f[n] = b
        /\ \A i \in 1..n : f[i] = Applied(f[i - 1], News(q[i], kind, x, W))
  BY DEF Leads
<1>5. f[1] = c
  BY <1>1, <1>3, <1>4
<1> HIDE DEF n, t, c
<1> DEFINE h == [i \in 0..(n - 1) |-> f[i + 1]]
<1>6. h \in [0..(n - 1) -> SourceState]
  <2>1. ASSUME NEW i \in 0..(n - 1) PROVE f[i + 1] \in SourceState
    <3>1. i + 1 \in 0..n
      BY <1>1
    <3>2. QED
      BY <3>1
  <2>2. QED
    BY <2>1
<1>7. \A i \in 0..(n - 1) : h[i] = f[i + 1]
  OBVIOUS
<1> HIDE DEF h
<1>8. h[0] = c /\ h[n - 1] = b
  BY <1>1, <1>4, <1>5, <1>7
<1>9. ASSUME NEW i \in 1..(n - 1)
      PROVE  h[i] = Applied(h[i - 1], News(t[i], kind, x, W))
  <2>1. i + 1 \in 1..n /\ i - 1 \in 0..(n - 1) /\ (i + 1) - 1 = i /\ (i - 1) + 1 = i
        /\ i \in 0..(n - 1)
    BY <1>1
  <2>2. h[i] = f[i + 1] /\ h[i - 1] = f[i] /\ t[i] = q[i + 1]
    BY <1>2, <1>7, <2>1
  <2>3. QED
    BY <1>4, <2>1, <2>2
<1>10. Leads(t, kind, x, W, c, b)
  BY <1>2, <1>6, <1>8, <1>9 DEF Leads
<1>11. QED
  BY <1>10 DEF t, c

\* Only the news count.
LEMMA LeadsSame ==
  ASSUME NEW q, NEW kind, NEW x, NEW W, NEW V, NEW a, NEW b,
         \A i \in 1..Len(q) : News(q[i], kind, x, W) = News(q[i], kind, x, V),
         Leads(q, kind, x, W, a, b)
  PROVE  Leads(q, kind, x, V, a, b)
<1> HIDE DEF News
<1>1. QED
  BY DEF Leads

\* A queue leads from every value to some value.
LEMMA LeadsSomewhere ==
  ASSUME NEW q \in Seq(UpRecord), NEW kind, NEW x, NEW W, NEW a \in SourceState
  PROVE  \E b \in SourceState : Leads(q, kind, x, W, a, b)
<1> DEFINE T == {n \in Nat : n <= Len(q) =>
                   \E f \in [0..n -> SourceState] :
                     /\ f[0] = a
                     /\ \A i \in 1..n : f[i] = Applied(f[i - 1], News(q[i], kind, x, W))}
<1>1. Len(q) \in Nat
  BY LenProperties
<1>2. 0 \in T
  <2>1. [i \in {0} |-> a] \in [0..0 -> SourceState] /\ 0..0 = {0} /\ 1..0 = {}
    OBVIOUS
  <2>2. QED
    BY <2>1
<1>3. ASSUME NEW n \in Nat, n \in T PROVE n + 1 \in T
  <2>1. SUFFICES ASSUME n + 1 <= Len(q)
                 PROVE  \E f \in [0..(n + 1) -> SourceState] :
                          /\ f[0] = a
                          /\ \A i \in 1..(n + 1) :
                               f[i] = Applied(f[i - 1], News(q[i], kind, x, W))
    OBVIOUS
  <2>2. PICK g \in [0..n -> SourceState] :
          /\ g[0] = a
          /\ \A i \in 1..n : g[i] = Applied(g[i - 1], News(q[i], kind, x, W))
    BY <1>1, <1>3, <2>1
  <2>3. PICK c : c = Applied(g[n], News(q[n + 1], kind, x, W))
    OBVIOUS
  <2>4. c \in SourceState
    <3>1. n + 1 \in 1..Len(q)
      BY <1>1, <2>1
    <3>2. q[n + 1] \in UpRecord
      BY <3>1, ElementOfSeq
    <3>3. QED
      BY <2>3, <3>2, AppliedType
  <2> DEFINE h == [i \in 0..(n + 1) |-> IF i <= n THEN g[i] ELSE c]
  <2>5. h \in [0..(n + 1) -> SourceState]
    BY <2>4
  <2>6. \A i \in 0..(n + 1) : h[i] = IF i <= n THEN g[i] ELSE c
    OBVIOUS
  <2> HIDE DEF h
  <2>7. h[0] = a
    BY <2>2, <2>6
  <2>8. ASSUME NEW i \in 1..(n + 1)
        PROVE  h[i] = Applied(h[i - 1], News(q[i], kind, x, W))
    <3>1. i \in 0..(n + 1) /\ i - 1 \in 0..(n + 1) /\ i - 1 <= n
      OBVIOUS
    <3>2. h[i - 1] = g[i - 1]
      BY <2>6, <3>1
    <3>3. CASE i <= n
      BY <2>2, <2>6, <3>1, <3>2, <3>3
    <3>4. CASE ~(i <= n)
      <4>1. i = n + 1 /\ i - 1 = n
        BY <3>4
      <4>2. QED
        BY <2>3, <2>6, <3>1, <3>2, <3>4, <4>1
    <3>5. QED
      BY <3>3, <3>4
  <2>9. QED
    BY <2>5, <2>7, <2>8
<1>4. Len(q) \in T
  <2> HIDE DEF T
  <2>1. Nat \subseteq T
    BY <1>2, <1>3, Induction
  <2>2. QED
    BY <1>1, <2>1
<1>5. PICK f \in [0..Len(q) -> SourceState] :
        /\ f[0] = a
        /\ \A i \in 1..Len(q) : f[i] = Applied(f[i - 1], News(q[i], kind, x, W))
  BY <1>1, <1>4
<1>6. f[Len(q)] \in SourceState
  BY <1>1
<1>7. QED
  BY <1>5, <1>6 DEF Leads

\* Two values that a queue leads on together stay in a relation that all news keep.
LEMMA LeadsTogether ==
  ASSUME NEW q \in Seq(UpRecord), NEW kind, NEW x, NEW W, NEW R, NEW a, NEW b, NEW c, NEW d,
         \A v, w \in SourceState : \A news : news.to \in SourceState /\ <<v, w>> \in R =>
           <<Applied(v, news), Applied(w, news)>> \in R,
         Leads(q, kind, x, W, a, c), Leads(q, kind, x, W, b, d), <<a, b>> \in R
  PROVE  <<c, d>> \in R
<1> DEFINE n == Len(q)
<1>1. n \in Nat
  BY LenProperties
<1>2. PICK f \in [0..n -> SourceState] :
        /\ f[0] = a /\ f[n] = c
        /\ \A i \in 1..n : f[i] = Applied(f[i - 1], News(q[i], kind, x, W))
  BY DEF Leads
<1>3. PICK g \in [0..n -> SourceState] :
        /\ g[0] = b /\ g[n] = d
        /\ \A i \in 1..n : g[i] = Applied(g[i - 1], News(q[i], kind, x, W))
  BY DEF Leads
<1> DEFINE T == {i \in Nat : i <= n => <<f[i], g[i]>> \in R}
<1>4. 0 \in T
  BY <1>2, <1>3
<1>5. ASSUME NEW i \in Nat, i \in T PROVE i + 1 \in T
  <2>1. SUFFICES ASSUME i + 1 <= n PROVE <<f[i + 1], g[i + 1]>> \in R
    OBVIOUS
  <2>2. PICK w : w = News(q[i + 1], kind, x, W)
    OBVIOUS
  <2>3. i + 1 \in 1..n /\ (i + 1) - 1 = i /\ i \in 0..n
    BY <1>1, <2>1
  <2>4. f[i + 1] = Applied(f[i], w) /\ g[i + 1] = Applied(g[i], w)
    <3> HIDE DEF News, n, Applied
    <3>1. QED
      BY <1>2, <1>3, <2>2, <2>3
  <2>5. <<f[i], g[i]>> \in R /\ f[i] \in SourceState /\ g[i] \in SourceState
    BY <1>1, <1>5, <2>1, <2>3
  <2>6. w.to \in SourceState
    <3>1. q[i + 1] \in UpRecord
      BY <2>3, ElementOfSeq
    <3> HIDE DEF News
    <3>2. QED
      BY <2>2, <2>5, <3>1, AppliedType
  <2> HIDE DEF Applied
  <2>7. QED
    BY <2>4, <2>5, <2>6
<1>6. n \in T
  <2> HIDE DEF T
  <2>1. Nat \subseteq T
    BY <1>4, <1>5, Induction
  <2>2. QED
    BY <1>1, <2>1
<1>7. QED
  BY <1>1, <1>2, <1>3, <1>6

\* An item that is not there at the end is not there either when it was not
\* there at the beginning: a change needs an item, and nothing else depends on it.
LEMMA LeadsAway ==
  ASSUME NEW q \in Seq(UpRecord), NEW kind, NEW x, NEW W, NEW a \in SourceState,
         Leads(q, kind, x, W, a, "absent")
  PROVE  Leads(q, kind, x, W, "absent", "absent")
<1>1. PICK b \in SourceState : Leads(q, kind, x, W, "absent", b)
  BY LeadsSomewhere DEF SourceState
<1>2. PICK R : R = {z \in SourceState \X SourceState : z[2] = z[1] \/ z[2] = "absent"}
  OBVIOUS
<1>3. \A v, w \in SourceState : \A news : news.to \in SourceState /\ <<v, w>> \in R =>
        <<Applied(v, news), Applied(w, news)>> \in R
  BY <1>2 DEF Applied
<1>4. <<a, "absent">> \in R
  BY <1>2 DEF SourceState
<1>5. <<"absent", b>> \in R
  BY <1>1, <1>3, <1>4, LeadsTogether
<1>6. b = "absent"
  BY <1>2, <1>5
<1>7. QED
  BY <1>1, <1>6

\* An item that was not there and is at the end was set: it is there whatever
\* it was before.
LEMMA LeadsPresent ==
  ASSUME NEW q \in Seq(UpRecord), NEW kind, NEW x, NEW W, NEW a \in SourceState,
         NEW v, v # "absent", Leads(q, kind, x, W, "absent", v)
  PROVE  Leads(q, kind, x, W, a, v)
<1>1. PICK b \in SourceState : Leads(q, kind, x, W, a, b)
  BY LeadsSomewhere
<1>2. PICK R : R = {z \in SourceState \X SourceState : z[1] = z[2] \/ z[1] = "absent"}
  OBVIOUS
<1>3. \A w, z \in SourceState : \A news : news.to \in SourceState /\ <<w, z>> \in R =>
        <<Applied(w, news), Applied(z, news)>> \in R
  BY <1>2 DEF Applied
<1>4. <<"absent", a>> \in R
  BY <1>2 DEF SourceState
<1>5. <<v, b>> \in R
  BY <1>1, <1>3, <1>4, LeadsTogether
<1>6. b = v
  BY <1>2, <1>5
<1>7. QED
  BY <1>1, <1>6

\* An item that was there and is not at the end was removed: it is gone
\* whatever it was before.
LEMMA LeadsGone ==
  ASSUME NEW q \in Seq(UpRecord), NEW kind, NEW x, NEW W, NEW a \in SourceState,
         NEW v \in SourceState, v # "absent", Leads(q, kind, x, W, v, "absent")
  PROVE  Leads(q, kind, x, W, a, "absent")
<1>1. PICK b \in SourceState : Leads(q, kind, x, W, a, b)
  BY LeadsSomewhere
<1>2. PICK R : R = {z \in SourceState \X SourceState : z[1] = "absent" => z[2] = "absent"}
  OBVIOUS
<1>3. \A w, z \in SourceState : \A news : news.to \in SourceState /\ <<w, z>> \in R =>
        <<Applied(w, news), Applied(z, news)>> \in R
  BY <1>2 DEF Applied
<1>4. <<v, a>> \in R
  BY <1>2
<1>5. <<"absent", b>> \in R
  BY <1>1, <1>3, <1>4, LeadsTogether
<1>6. b = "absent"
  BY <1>2, <1>5
<1>7. QED
  BY <1>1, <1>6

\* The same for what is left of a queue when its beginning is lost.
LEMMA LeadsRest ==
  ASSUME NEW q \in Seq(UpRecord), NEW k \in 0..Len(q), NEW kind, NEW x, NEW W, NEW a,
         Leads(q, kind, x, W, a, "absent")
  PROVE  Leads(SubSeq(q, k + 1, Len(q)), kind, x, W, "absent", "absent")
<1> DEFINE n == Len(q)
           t == SubSeq(q, k + 1, n)
<1>1. n \in Nat /\ k \in Nat /\ k <= n
  BY LenProperties
<1>2. /\ t \in Seq(UpRecord) /\ Len(t) = n - k
      /\ \A i \in 1..(n - k) : t[i] = q[k + i]
  <2>1. \A i \in (k + 1)..n : q[i] \in UpRecord
    BY <1>1, ElementOfSeq
  <2>2. k + 1 \in Int /\ n \in Int /\ (IF k + 1 <= n THEN n - (k + 1) + 1 ELSE 0) = n - k
    BY <1>1
  <2>3. /\ t \in Seq(UpRecord) /\ Len(t) = n - k
        /\ \A i \in 1..(n - (k + 1) + 1) : t[i] = q[(k + 1) + i - 1]
    BY <2>1, <2>2, SubSeqProperties
  <2>4. n - (k + 1) + 1 = n - k /\ \A i \in 1..(n - k) : (k + 1) + i - 1 = k + i
    BY <1>1
  <2>5. QED
    BY <2>3, <2>4
<1>3. PICK f \in [0..n -> SourceState] :
        /\ f[n] = "absent"
        /\ \A i \in 1..n : f[i] = Applied(f[i - 1], News(q[i], kind, x, W))
  BY DEF Leads
<1> HIDE DEF n, t
<1> DEFINE h == [i \in 0..(n - k) |-> f[k + i]]
<1>4. h \in [0..(n - k) -> SourceState]
  <2>1. ASSUME NEW i \in 0..(n - k) PROVE f[k + i] \in SourceState
    <3>1. k + i \in 0..n
      BY <1>1
    <3>2. QED
      BY <3>1
  <2>2. QED
    BY <2>1
<1>5. \A i \in 0..(n - k) : h[i] = f[k + i]
  OBVIOUS
<1> HIDE DEF h
<1>6. h[n - k] = "absent"
  BY <1>1, <1>3, <1>5
<1>7. ASSUME NEW i \in 1..(n - k)
      PROVE  h[i] = Applied(h[i - 1], News(t[i], kind, x, W))
  <2>1. k + i \in 1..n /\ i - 1 \in 0..(n - k) /\ (k + i) - 1 = k + (i - 1)
        /\ i \in 0..(n - k)
    BY <1>1
  <2>2. h[i] = f[k + i] /\ h[i - 1] = f[(k + i) - 1] /\ t[i] = q[k + i]
    BY <1>2, <1>5, <2>1
  <2>3. QED
    BY <1>3, <2>1, <2>2
<1>8. Leads(t, kind, x, W, h[0], "absent")
  BY <1>2, <1>4, <1>6, <1>7 DEF Leads
<1>9. Leads(t, kind, x, W, "absent", "absent")
  <2>1. h[0] \in SourceState
    BY <1>1, <1>4
  <2>2. QED
    BY <1>2, <1>8, <2>1, LeadsAway
<1>10. QED
  BY <1>9 DEF t, n

-----------------------------------------------------------------------------
(* The program's calls.                                                    *)

\* The signals and the kinds of their items.
SignalOf(kind, type) == \/ kind = "sources" /\ type \in {"source-added", "source-changed", "source-removed"}
                        \/ kind = "messages" /\ type \in {"message-added", "message-removed"}

\* A message with no item in it is no news.
LEMMA PlainLeads ==
  ASSUME NEW u \in UpRecord, u.items = << >>,
         NEW kind, NEW x, NEW W, NEW a \in SourceState
  PROVE  News(u, kind, x, W) = Nothing /\ Leads(<<u>>, kind, x, W, a, a)
<1>1. x \notin DOMAIN u.items
  OBVIOUS
<1>2. News(u, kind, x, W) = Nothing
  BY <1>1 DEF News
<1>3. Applied(a, Nothing) = a
  BY DEF Applied, Nothing
<1> HIDE DEF News, Nothing, Applied
<1>4. QED
  BY <1>2, <1>3, LeadsOne

\* A signal gives the item it names its value, and leaves the others alone.
LEMMA SignalLeads ==
  ASSUME NEW kind \in Kinds, NEW type, SignalOf(kind, type),
         NEW y, NEW v, NEW u \in UpRecord, About(u, type, y, v),
         NEW k \in Kinds, NEW x, NEW W, NEW a \in SourceState,
         type = "source-changed" /\ k = kind /\ x = y => a # "absent",
         NEW b, b = IF k = kind /\ x = y THEN v ELSE a
  PROVE  Leads(<<u>>, k, x, W, a, b)
<1>1. u.type = type /\ u.items = [t \in {y} |-> v]
  BY DEF Client!Up, About
<1>2. DOMAIN u.items = {y} /\ u.items[y] = v
  BY <1>1
<1>3. type \notin Kinds
  BY DEF SignalOf, Kinds
<1>4. Applied(a, News(u, k, x, W)) = IF k = kind /\ x = y THEN v ELSE a
  <2>1. CASE x # y
    BY <1>2, <2>1 DEF News, Applied, Nothing
  <2>2. CASE x = y /\ k # kind
    BY <1>1, <1>2, <1>3, <2>2 DEF News, Applied, Nothing, SignalOf, Kinds
  <2>3. CASE x = y /\ k = kind
    BY <1>1, <1>2, <1>3, <2>3 DEF News, Applied, Nothing, SignalOf, Kinds
  <2>4. QED
    BY <2>1, <2>2, <2>3
<1> HIDE DEF Applied, News
<1>5. QED
  BY <1>4, LeadsOne

\* What the client holds of an item is one of its states.
LEMMA HeldType == ClientTyped => \A kind \in Kinds : \A x \in Items(kind) :
                    Held(kind, x) \in SourceState
<1> SUFFICES ASSUME ClientTyped, NEW kind \in Kinds, NEW x \in Items(kind)
             PROVE  Held(kind, x) \in SourceState
  OBVIOUS
<1>1. CASE kind = "sources"
  BY <1>1 DEF Held, Client!SourceToVariant, SourceState
<1>2. CASE kind = "messages"
  BY <1>2 DEF Held, Items, ClientTyped, MessageState, SourceState
<1>3. QED
  BY <1>1, <1>2 DEF Kinds

\* The client's items follow what it sends, whichever proxies wait for lists.
ItemsFollow(sent) == \A kind \in Kinds : \A x \in Items(kind) : \A W \in SUBSET Nat :
                       Leads(sent, kind, x, W, Held(kind, x), Held(kind, x)')

\* What a call of the API does, seen from the bus.
Programmed(sent) ==
  /\ ~disposed
  /\ sent \in Seq(UpMessage(Len(request)))
  /\ up' = up \o sent /\ down' = down
  /\ ClientTyped'
  /\ \A i \in DOMAIN sent : sent[i].type \notin {"proxy", "sources", "messages",
                                                 "sources-failed", "messages-failed"}
  /\ disposed' => /\ sources' = [s \in Source |-> Client!NoSource]
                  /\ messages' = [m \in Message |-> "absent"]
  /\ ~disposed' =>
       /\ service' = service /\ connecting' = connecting
       /\ \A i \in DOMAIN sent : sent[i].type # "stopped"
       /\ registered' = "yes" => \/ registered = "yes" \/ ~service \/ Client!Unheard
                                 \/ \E i \in DOMAIN sent : sent[i].type = "register"
       /\ ItemsFollow(sent)

\* A call on the service is made only if there is one, may be lost with a process
\* that the client does not know to be gone, and has no items.
LEMMA CallsService ==
  ASSUME NEW n \in Nat, NEW name \in {"register", "unregister", "stopped"} \cup Status,
         Client!CallService(name)
  PROVE  \E sent :
           /\ up' = up \o sent
           /\ sent \in Seq(UpMessage(n))
           /\ \A i \in DOMAIN sent : sent[i].type = name
           /\ service => Client!Unheard \/ \E i \in DOMAIN sent : sent[i].type = name
           /\ \A kind, x, W : \A a \in SourceState : Leads(sent, kind, x, W, a, a)
<1> DEFINE u == Client!MethodCall(name)
<1>1. u \in UpMessage(n) /\ u.type = name /\ u.items = << >>
  <2>1. 0 \in 0..n
    OBVIOUS
  <2>2. Client!Up(name, 0, Client!NoItems) \in UpMessage(n)
    BY <2>1, PlainMessage
  <2>3. QED
    BY <2>2 DEF Client!MethodCall, Client!Up, Client!NoItems
<1>2. u \in UpRecord
  BY <1>1 DEF UpMessage
<1>6. PICK sent : /\ up' = up \o sent
                  /\ \/ service /\ sent = <<u>>
                     \/ sent = << >> /\ (~service \/ Client!Unheard)
  BY DEF Client!CallService, Client!SendCalls, Client!Send, u
<1> HIDE DEF u
<1>3. CASE sent = <<u>>
  <2>1. sent = <<u>>
    BY <1>3
  <2>2. sent \in Seq(UpMessage(n)) /\ DOMAIN sent = {1} /\ sent[1] = u
    BY <1>1, <2>1
  <2>3. \A kind, x, W : \A a \in SourceState : Leads(sent, kind, x, W, a, a)
    BY <1>1, <1>2, <2>1, PlainLeads
  <2>4. QED
    BY <1>1, <1>6, <2>2, <2>3
<1>4. CASE sent = << >> /\ (~service \/ Client!Unheard)
  <2>1. sent = << >>
    BY <1>4
  <2>2. sent \in Seq(UpMessage(n)) /\ DOMAIN sent = {}
    BY <2>1
  <2>3. \A kind, x, W : \A a \in SourceState : Leads(sent, kind, x, W, a, a)
    BY <2>1, LeadsNone
  <2>4. QED
    BY <1>4, <1>6, <2>2, <2>3
<1>5. QED
  BY <1>3, <1>4, <1>6

\* Calls that leave the items alone.
LEMMA PlainProgram ==
  ASSUME Wired,
         \/ Client!Register \/ Client!Unregister \/ Client!Dispose
         \/ \E x \in Status : Client!SetStatus(x)
  PROVE  \E sent : Programmed(sent)
<1> DEFINE n == Len(request)
<1>1. n \in Nat
  BY LenProperties DEF Wired, IndInv, TypeOK
<1>2. \A x \in Status \cup {"register", "unregister", "stopped"} :
        x \notin {"proxy", "sources", "messages", "sources-failed", "messages-failed"}
  BY StatusIsNoType DEF MessageType
<1>3. "stopped" \notin Status
  BY StatusIsNoType DEF MessageType
<1> HIDE DEF n
<1>4. ASSUME NEW name \in {"register", "unregister"} \cup Status,
             Client!Api, Client!CallService(name),
             UNCHANGED <<service, connecting, disposed, sources, messages, down>>,
             ClientTyped', registered' = "yes" => registered = "yes" \/ name = "register"
      PROVE  \E sent : Programmed(sent)
  <2>2. PICK sent :
          /\ up' = up \o sent
          /\ sent \in Seq(UpMessage(n))
          /\ \A i \in DOMAIN sent : sent[i].type = name
          /\ service => Client!Unheard \/ \E i \in DOMAIN sent : sent[i].type = name
          /\ \A kind, x, W : \A a \in SourceState : Leads(sent, kind, x, W, a, a)
    BY <1>1, <1>4, CallsService
  <2>3. up' = up \o sent /\ ~disposed
    BY <1>4, <2>2 DEF Client!Api
  <2>4. ItemsFollow(sent)
    <3>1. \A kind \in Kinds : \A x \in Items(kind) : Held(kind, x)' = Held(kind, x)
      BY <1>4 DEF Held
    <3>2. QED
      BY <2>2, <3>1, HeldType DEF ItemsFollow, Wired
  <2>5. name # "stopped"
    BY <1>3
  <2>6. \A i \in DOMAIN sent :
          sent[i].type \notin {"proxy", "sources", "messages", "sources-failed", "messages-failed"}
    BY <1>2, <2>2
  <2>7. registered' = "yes" => \/ registered = "yes" \/ ~service \/ Client!Unheard
                               \/ \E i \in DOMAIN sent : sent[i].type = "register"
    BY <1>4, <2>2
  <2>8. QED
    BY <1>4, <2>2, <2>3, <2>4, <2>5, <2>6, <2>7 DEF Programmed, n
<1>5. CASE Client!Register
  <2>1. ClientTyped'
    BY <1>5 DEF Client!Register, ClientTyped, Wired
  <2>2. QED
    BY <1>4, <1>5, <2>1 DEF Client!Register
<1>6. CASE Client!Unregister
  <2>1. ClientTyped' /\ registered' # "yes"
    BY <1>6 DEF Client!Unregister, ClientTyped, Wired
  <2>2. QED
    BY <1>4, <1>6, <2>1 DEF Client!Unregister
<1>7. ASSUME NEW x \in Status, Client!SetStatus(x) PROVE \E sent : Programmed(sent)
  <2>1. ClientTyped' /\ registered' = registered
    BY <1>7 DEF Client!SetStatus, ClientTyped, Wired
  <2>2. QED
    BY <1>4, <1>7, <2>1 DEF Client!SetStatus
<1>8. CASE Client!Dispose
  <2>1. Client!CallService("stopped")
    BY <1>8 DEF Client!Dispose
  <2>2. PICK sent :
          /\ up' = up \o sent
          /\ sent \in Seq(UpMessage(n))
          /\ \A i \in DOMAIN sent : sent[i].type = "stopped"
          /\ service => Client!Unheard \/ \E i \in DOMAIN sent : sent[i].type = "stopped"
          /\ \A kind, x, W : \A a \in SourceState : Leads(sent, kind, x, W, a, a)
    BY <1>1, <2>1, CallsService
  <2>3. up' = up \o sent /\ ~disposed /\ down' = down
    BY <1>8, <2>2 DEF Client!Dispose, Client!Api
  <2>4. ClientTyped'
    <3>1. registered' = registered /\ status' = status /\ ~service' /\ disposed' /\ connecting' = 0
      BY <1>8 DEF Client!Dispose
    <3>2. 0 \in 0..MaxConnecting
      BY SessionBoundsAssumption
    <3>3. Client!NoSource \in ClientSource /\ "absent" \in MessageState
      BY DEF ClientSource, Client!NoSource, MessageState
    <3>4. sources' \in [Source -> ClientSource] /\ messages' \in [Message -> MessageState]
      BY <1>8, <3>3 DEF Client!Dispose
    <3>5. service' \in BOOLEAN /\ disposed' \in BOOLEAN
      BY <1>8 DEF Client!Dispose
    <3>6. QED
      BY <3>1, <3>2, <3>4, <3>5 DEF ClientTyped, Wired
  <2>5. /\ disposed' /\ sources' = [s \in Source |-> Client!NoSource]
        /\ messages' = [m \in Message |-> "absent"]
    BY <1>8 DEF Client!Dispose
  <2>6. QED
    BY <1>2, <2>2, <2>3, <2>4, <2>5 DEF Programmed, n
<1>9. QED
  BY <1>5, <1>6, <1>7, <1>8

\* A call that sets one item and emits the signal for it.
LEMMA SignalProgram ==
  ASSUME Wired, NEW kind \in Kinds, NEW type, SignalOf(kind, type),
         NEW y \in Items(kind), NEW v,
         Client!Api, NEW u, About(u, type, y, v), Client!Send(<<u>>),
         Client!UnchangedButItems,
         type \in {"source-added", "source-changed", "message-added"} => v # "absent",
         type \in {"source-removed", "message-removed"} => v = "absent",
         type = "source-changed" => Held(kind, y) # "absent",
         Held(kind, y)' = v,
         \A k \in Kinds : \A x \in Items(k) : (k # kind \/ x # y) => Held(k, x)' = Held(k, x),
         sources' \in [Source -> ClientSource], messages' \in [Message -> MessageState]
  PROVE  \E sent : Programmed(sent)
<1> DEFINE n == Len(request)
<1>1. n \in Nat
  BY LenProperties DEF Wired, IndInv, TypeOK
<1>2. ClientTyped'
  BY DEF Client!UnchangedButItems, ClientTyped, Wired
<1>3. ClientTyped' => v \in SourceState /\ (kind = "messages" => v \in MessageState)
  <2>1. CASE kind = "sources"
    BY <2>1 DEF Held, Client!SourceToVariant, SourceState
  <2>2. CASE kind = "messages"
    BY <2>2 DEF Held, Items, MessageState, SourceState
  <2>3. QED
    BY <2>1, <2>2 DEF Kinds
<1>4. u \in UpMessage(n)
  <2>1. v \in SourceState /\ (kind = "messages" => v \in MessageState)
    BY <1>2, <1>3
  <2>2. CASE kind = "sources"
    <3>1. type \in {"source-added", "source-changed", "source-removed"} /\ y \in Source
      BY <2>2 DEF SignalOf, Items
    <3>2. \/ /\ type \in {"source-added", "source-changed"}
             /\ y \in Source /\ v \in SourceState \ {"absent"}
          \/ type = "source-removed" /\ y \in Source /\ v = "absent"
      BY <2>1, <3>1
    <3>3. QED
      BY <1>1, <3>2, ItemMessage
  <2>3. CASE kind = "messages"
    <3>1. type \in {"message-added", "message-removed"} /\ y \in Message
      BY <2>3 DEF SignalOf, Items
    <3>2. \/ type = "message-added" /\ y \in Message /\ v \in MessageState \ {"absent"}
          \/ type = "message-removed" /\ y \in Message /\ v = "absent"
      BY <2>1, <2>3, <3>1
    <3>3. QED
      BY <1>1, <3>2, ItemMessage
  <2>4. QED
    BY <2>2, <2>3 DEF Kinds
<1>5. u \in UpRecord /\ u.type = type
  BY <1>4 DEF UpMessage, Client!Up, About
<1>6. ItemsFollow(<<u>>)
  <2> SUFFICES ASSUME NEW k \in Kinds, NEW x \in Items(k), NEW W \in SUBSET Nat
               PROVE  Leads(<<u>>, k, x, W, Held(k, x), Held(k, x)')
    BY DEF ItemsFollow
  <2>1. Held(k, x)' = IF k = kind /\ x = y THEN v ELSE Held(k, x)
    OBVIOUS
  <2>2. PICK a \in SourceState : a = Held(k, x)
    BY HeldType DEF Wired
  <2>3. PICK b : b = IF k = kind /\ x = y THEN v ELSE a
    OBVIOUS
  <2>4. type = "source-changed" /\ k = kind /\ x = y => a # "absent"
    BY <2>2
  <2>5. u \in UpRecord
    BY <1>5
  <2>6. Leads(<<u>>, k, x, W, a, b)
    BY <2>3, <2>4, <2>5, SignalLeads
  <2>7. QED
    BY <2>1, <2>2, <2>3, <2>6
<1>7. type \notin {"proxy", "sources", "messages", "sources-failed", "messages-failed", "stopped"}
  BY DEF SignalOf
<1>8. up' = up \o <<u>> /\ down' = down /\ ~disposed /\ UNCHANGED <<service, connecting, registered, disposed>>
  BY DEF Client!Send, Client!UnchangedButItems, Client!Api
<1>9. <<u>> \in Seq(UpMessage(n)) /\ DOMAIN <<u>> = {1} /\ <<u>>[1] = u
  BY <1>4
<1>10. QED
  BY <1>2, <1>5, <1>6, <1>7, <1>8, <1>9 DEF Programmed, n

\* A source changes alone.
LEMMA OneSource ==
  ASSUME Wired, NEW s \in Source, NEW z \in ClientSource,
         sources' = [sources EXCEPT ![s] = z], messages' = messages
  PROVE  /\ sources' \in [Source -> ClientSource]
         /\ messages' \in [Message -> MessageState]
         /\ s \in Items("sources") /\ Held("sources", s)' = Client!SourceToVariant(z)
         /\ \A k \in Kinds : \A x \in Items(k) :
              (k # "sources" \/ x # s) => Held(k, x)' = Held(k, x)
<1>1. sources \in [Source -> ClientSource] /\ messages \in [Message -> MessageState]
  BY DEF Wired, ClientTyped
<1>2. sources'[s] = z /\ \A x \in Source : x # s => sources'[x] = sources[x]
  BY <1>1
<1>3. Held("sources", s)' = Client!SourceToVariant(z)
  BY <1>2 DEF Held, Client!SourceToVariant
<1>4. ASSUME NEW k \in Kinds, NEW x \in Items(k), k # "sources" \/ x # s
      PROVE  Held(k, x)' = Held(k, x)
  <2>1. CASE k = "sources"
    BY <1>2, <1>4, <2>1 DEF Held, Items, Client!SourceToVariant
  <2>2. CASE k # "sources"
    BY <2>2 DEF Held
  <2>3. QED
    BY <2>1, <2>2
<1>5. s \in Items("sources")
  BY DEF Items
<1>6. QED
  BY <1>1, <1>3, <1>4, <1>5

\* A source is added, changed or removed.
LEMMA SourceProgram ==
  ASSUME Wired, NEW s \in Source,
         \/ \E b \in BOOLEAN : \/ Client!InsertSource(s, b) \/ Client!SetSourceShown(s, b)
                               \/ Client!SetSourceDraws(s, b)
         \/ Client!RemoveSource(s)
  PROVE  \E sent : Programmed(sent)
<1>1. "sources" \in Kinds /\ s \in Items("sources")
  BY DEF Kinds, Items
<1>2. sources[s] \in ClientSource
  BY DEF Wired, ClientTyped
<1>3. ASSUME NEW b \in BOOLEAN, Client!InsertSource(s, b) PROVE \E sent : Programmed(sent)
  <2>1. PICK z \in ClientSource : z = [present |-> TRUE, shown |-> b, draws |-> FALSE]
    BY DEF ClientSource
  <2>2. sources' = [sources EXCEPT ![s] = z] /\ messages' = messages
    BY <1>3, <2>1 DEF Client!InsertSource
  <2>3. PICK v : v = Client!SourceToVariant(z)
    OBVIOUS
  <2>4. v # "absent"
    BY <2>1, <2>3 DEF Client!SourceToVariant
  <2>5. sources'[s] = z
    BY <2>2 DEF Wired, ClientTyped
  <2>6. PICK u : u = Client!SourceSignal("source-added", s, z)
    OBVIOUS
  <2>7. About(u, "source-added", s, v)
    BY <2>3, <2>6 DEF About, Client!SourceSignal
  <2>8. Client!Api /\ Client!UnchangedButItems /\ Client!Send(<<u>>)
    BY <1>3, <2>5, <2>6 DEF Client!InsertSource
  <2>9. SignalOf("sources", "source-added")
    BY DEF SignalOf
  <2>10. QED
    BY <1>1, <2>2, <2>3, <2>4, <2>7, <2>8, <2>9, OneSource, SignalProgram
<1>4. ASSUME NEW z \in ClientSource, Client!ChangeSource(s, z), z.present
      PROVE  \E sent : Programmed(sent)
  <2>2. sources' = [sources EXCEPT ![s] = z] /\ messages' = messages /\ sources[s].present
    BY <1>4 DEF Client!ChangeSource
  <2>3. PICK v : v = Client!SourceToVariant(z)
    OBVIOUS
  <2>4. v # "absent" /\ Held("sources", s) # "absent"
    BY <1>4, <2>2, <2>3 DEF Client!SourceToVariant, Held
  <2>6. PICK u : u = Client!SourceSignal("source-changed", s, z)
    OBVIOUS
  <2>7. About(u, "source-changed", s, v)
    BY <2>3, <2>6 DEF About, Client!SourceSignal
  <2>8. Client!Api /\ Client!UnchangedButItems /\ Client!Send(<<u>>)
    BY <1>4, <2>6 DEF Client!ChangeSource
  <2>9. SignalOf("sources", "source-changed")
    BY DEF SignalOf
  <2>10. QED
    BY <1>1, <2>2, <2>3, <2>4, <2>7, <2>8, <2>9, OneSource, SignalProgram
<1>5. ASSUME NEW b \in BOOLEAN, Client!SetSourceShown(s, b) PROVE \E sent : Programmed(sent)
  <2>1. PICK z : z = [sources[s] EXCEPT !.shown = b]
    OBVIOUS
  <2>2. Client!ChangeSource(s, z)
    BY <1>5, <2>1 DEF Client!SetSourceShown
  <2>3. sources[s].present
    BY <2>2 DEF Client!ChangeSource
  <2>4. z \in ClientSource /\ z.present
    BY <1>2, <2>1, <2>3 DEF ClientSource
  <2>5. QED
    BY <1>4, <2>2, <2>4
<1>6. ASSUME NEW b \in BOOLEAN, Client!SetSourceDraws(s, b) PROVE \E sent : Programmed(sent)
  <2>1. PICK z : z = [sources[s] EXCEPT !.draws = b]
    OBVIOUS
  <2>2. Client!ChangeSource(s, z)
    BY <1>6, <2>1 DEF Client!SetSourceDraws
  <2>3. sources[s].present
    BY <2>2 DEF Client!ChangeSource
  <2>4. z \in ClientSource /\ z.present
    BY <1>2, <2>1, <2>3 DEF ClientSource
  <2>5. QED
    BY <1>4, <2>2, <2>4
<1>7. CASE Client!RemoveSource(s)
  <2>1. PICK z \in ClientSource : z = Client!NoSource
    BY DEF ClientSource, Client!NoSource
  <2>2. sources' = [sources EXCEPT ![s] = z] /\ messages' = messages
    BY <1>7, <2>1 DEF Client!RemoveSource
  <2>3. "absent" = Client!SourceToVariant(z)
    BY <2>1 DEF Client!SourceToVariant, Client!NoSource
  <2>6. PICK u : u = Client!SourceSignal("source-removed", s, z)
    OBVIOUS
  <2>7. About(u, "source-removed", s, "absent")
    BY <2>3, <2>6 DEF About, Client!SourceSignal
  <2>8. Client!Api /\ Client!UnchangedButItems /\ Client!Send(<<u>>)
    BY <1>7, <2>1, <2>6 DEF Client!RemoveSource
  <2>9. SignalOf("sources", "source-removed")
    BY DEF SignalOf
  <2>10. QED
    BY <1>1, <2>2, <2>3, <2>7, <2>8, <2>9, OneSource, SignalProgram
<1>8. QED
  BY <1>3, <1>5, <1>6, <1>7

\* A message changes alone.
LEMMA OneMessage ==
  ASSUME Wired, NEW m \in Message, NEW v \in MessageState,
         messages' = [messages EXCEPT ![m] = v], sources' = sources
  PROVE  /\ sources' \in [Source -> ClientSource]
         /\ messages' \in [Message -> MessageState]
         /\ m \in Items("messages") /\ Held("messages", m)' = v
         /\ \A k \in Kinds : \A x \in Items(k) :
              (k # "messages" \/ x # m) => Held(k, x)' = Held(k, x)
<1>1. sources \in [Source -> ClientSource] /\ messages \in [Message -> MessageState]
  BY DEF Wired, ClientTyped
<1>2. messages'[m] = v /\ \A x \in Message : x # m => messages'[x] = messages[x]
  BY <1>1
<1>3. Held("messages", m)' = v
  BY <1>2 DEF Held
<1>4. ASSUME NEW k \in Kinds, NEW x \in Items(k), k # "messages" \/ x # m
      PROVE  Held(k, x)' = Held(k, x)
  <2>1. CASE k = "sources"
    BY <2>1 DEF Held
  <2>2. CASE k = "messages"
    BY <1>2, <1>4, <2>2 DEF Held, Items
  <2>3. QED
    BY <2>1, <2>2 DEF Kinds
<1>5. m \in Items("messages")
  BY DEF Items
<1>6. QED
  BY <1>1, <1>3, <1>4, <1>5

\* A message is removed.
LEMMA RemoveProgram ==
  ASSUME Wired, NEW m \in Message, Client!RemoveMessage(m)
  PROVE  \E sent : Programmed(sent)
<1>1. "messages" \in Kinds /\ SignalOf("messages", "message-removed")
  BY DEF Kinds, SignalOf
<1>2. "absent" \in MessageState
  BY DEF MessageState
<1>3. messages' = [messages EXCEPT ![m] = "absent"] /\ sources' = sources
  BY DEF Client!RemoveMessage
<1>4. PICK u : u = Client!MessageSignal("message-removed", m, "absent")
  OBVIOUS
<1>5. About(u, "message-removed", m, "absent")
  BY <1>4 DEF About, Client!MessageSignal
<1>6. Client!Api /\ Client!UnchangedButItems /\ Client!Send(<<u>>)
  BY <1>4 DEF Client!RemoveMessage
<1>7. QED
  BY <1>1, <1>2, <1>3, <1>5, <1>6, OneMessage, SignalProgram

\* A message is added, and counted by its source if that is there.
LEMMA AppendProgram ==
  ASSUME Wired, NEW m \in Message, NEW v \in {"quiet", "drawing"},
         NEW S \in {{}} \cup {{s} : s \in Source}, Client!AppendMessage(m, v, S)
  PROVE  \E sent : Programmed(sent)
<1> DEFINE n == Len(request)
           counted == {s \in S : sources[s].present}
<1>1. n \in Nat
  BY LenProperties DEF Wired, IndInv, TypeOK
<1>2. /\ v \in MessageState /\ v \in MessageState \ {"absent"}
  BY DEF MessageState
<1>3. /\ Client!Api /\ Client!UnchangedButItems
      /\ messages' = [messages EXCEPT ![m] = v]
      /\ sources' = [s \in Source |-> IF s \in counted
                                      THEN [sources[s] EXCEPT !.shown = TRUE] ELSE sources[s]]
  BY DEF Client!AppendMessage
<1>4. sources \in [Source -> ClientSource] /\ messages \in [Message -> MessageState]
  BY DEF Wired, ClientTyped
<1>5. PICK u : u = Client!MessageSignal("message-added", m, v)
  OBVIOUS
<1>6. About(u, "message-added", m, v)
  BY <1>5 DEF About, Client!MessageSignal
<1>7. "messages" \in Kinds /\ "sources" \in Kinds /\ SignalOf("messages", "message-added")
      /\ SignalOf("sources", "source-changed")
  BY DEF Kinds, SignalOf
<1>8. \/ counted = {} /\ Client!Send(<<u>>)
      \/ \E s \in counted : Client!Send(<<u, Client!SourceSignal("source-changed", s, sources'[s])>>)
  BY <1>5 DEF Client!AppendMessage
<1> HIDE DEF n
<1>9. CASE counted = {} /\ Client!Send(<<u>>)
  <2>1. sources' = sources
    BY <1>3, <1>4, <1>9
  <2>2. v # "absent"
    BY <1>2
  <2> HIDE DEF counted
  <2>3. QED
    BY <1>2, <1>3, <1>6, <1>7, <1>9, <2>1, <2>2, OneMessage, SignalProgram
<1>10. ASSUME NEW s \in counted,
              Client!Send(<<u, Client!SourceSignal("source-changed", s, sources'[s])>>)
       PROVE  \E sent : Programmed(sent)
  <2>1. s \in Source /\ counted = {s} /\ sources[s].present
    OBVIOUS
  <2>2. /\ sources'[s] = [sources[s] EXCEPT !.shown = TRUE]
        /\ \A x \in Source : x # s => sources'[x] = sources[x]
    BY <1>3, <2>1
  <2>3. sources'[s] \in ClientSource /\ sources'[s].present
    BY <1>4, <2>1, <2>2 DEF ClientSource
  <2>4. sources' \in [Source -> ClientSource] /\ messages' \in [Message -> MessageState]
    <3>1. \A x \in Source : sources'[x] \in ClientSource
      BY <1>4, <2>2, <2>3
    <3>2. QED
      BY <1>2, <1>3, <1>4, <3>1
  <2>5. PICK w : w = Client!SourceToVariant(sources'[s])
    OBVIOUS
  <2>6. w \in SourceState \ {"absent"}
    BY <2>3, <2>5 DEF Client!SourceToVariant, SourceState
  <2>7. PICK z : z = Client!SourceSignal("source-changed", s, sources'[s])
    OBVIOUS
  <2>8. About(z, "source-changed", s, w)
    BY <2>5, <2>7 DEF About, Client!SourceSignal
  <2>9. u \in UpMessage(n) /\ z \in UpMessage(n)
    <3>1. "message-added" = "message-added" /\ m \in Message /\ v \in MessageState \ {"absent"}
      BY <1>2
    <3>2. "source-changed" \in {"source-added", "source-changed"} /\ s \in Source
          /\ w \in SourceState \ {"absent"}
      BY <2>1, <2>6
    <3>3. u \in UpMessage(n)
      BY <1>1, <1>6, <3>1, ItemMessage
    <3>4. z \in UpMessage(n)
      BY <1>1, <2>8, <3>2, ItemMessage
    <3>5. QED
      BY <3>3, <3>4
  <2>10. /\ u \in UpRecord /\ z \in UpRecord
         /\ u.type = "message-added" /\ z.type = "source-changed"
    BY <1>6, <2>8, <2>9 DEF UpMessage, About, Client!Up
  <2>11. <<u, z>> = <<u>> \o <<z>> /\ <<u>> \in Seq(UpRecord) /\ <<z>> \in Seq(UpRecord)
    BY <2>10
  <2> HIDE DEF counted
  <2>12. ItemsFollow(<<u, z>>)
    <3> SUFFICES ASSUME NEW k \in Kinds, NEW x \in Items(k), NEW W \in SUBSET Nat
                 PROVE  Leads(<<u, z>>, k, x, W, Held(k, x), Held(k, x)')
      BY DEF ItemsFollow
    <3>1. PICK a \in SourceState : a = Held(k, x)
      BY HeldType DEF Wired
    <3>2. PICK b : b = IF k = "messages" /\ x = m THEN v ELSE a
      OBVIOUS
    <3>3. Leads(<<u>>, k, x, W, a, b)
      <4>1. "message-added" = "source-changed" /\ k = "messages" /\ x = m => a # "absent"
        OBVIOUS
      <4>2. QED
        BY <1>6, <1>7, <2>10, <3>2, <4>1, SignalLeads
    <3>4. PICK c : c = IF k = "sources" /\ x = s THEN w ELSE b
      OBVIOUS
    <3>5. b \in SourceState
      BY <1>2, <3>2 DEF MessageState, SourceState
    <3>6. Leads(<<z>>, k, x, W, b, c)
      <4>1. "source-changed" = "source-changed" /\ k = "sources" /\ x = s => b # "absent"
        BY <2>1, <3>1, <3>2 DEF Held, Client!SourceToVariant
      <4>2. QED
        BY <1>7, <2>8, <2>10, <3>4, <3>5, <4>1, SignalLeads
    <3>7. Held(k, x)' = c
      <4>1. CASE k = "sources"
        <5>1. x \in Source
          BY <4>1 DEF Items
        <5>2. Held(k, x)' = Client!SourceToVariant(sources'[x])
          BY <4>1 DEF Held, Client!SourceToVariant
        <5>3. x # s => Held(k, x)' = a
          BY <2>2, <3>1, <4>1, <5>1, <5>2 DEF Held, Client!SourceToVariant
        <5>4. QED
          BY <2>5, <3>2, <3>4, <4>1, <5>2, <5>3
      <4>2. CASE k = "messages"
        <5>1. x \in Message
          BY <4>2 DEF Items
        <5>2. Held(k, x)' = messages'[x] /\ a = messages[x]
          BY <3>1, <4>2 DEF Held
        <5>3. QED
          BY <1>3, <1>4, <3>2, <3>4, <4>2, <5>1, <5>2
      <4>3. QED
        BY <4>1, <4>2 DEF Kinds
    <3>8. Leads(<<u>> \o <<z>>, k, x, W, a, c)
      BY <2>11, <3>3, <3>6, LeadsConcat
    <3>9. QED
      BY <2>11, <3>1, <3>7, <3>8
  <2>13. /\ <<u, z>> \in Seq(UpMessage(n)) /\ DOMAIN <<u, z>> = {1, 2}
         /\ <<u, z>>[1] = u /\ <<u, z>>[2] = z
    BY <2>9
  <2>14. up' = up \o <<u, z>> /\ down' = down /\ ~disposed
         /\ UNCHANGED <<service, connecting, registered, disposed>>
    BY <1>3, <1>10, <2>7 DEF Client!Send, Client!UnchangedButItems, Client!Api
  <2>15. ClientTyped'
    BY <1>3, <2>4 DEF Client!UnchangedButItems, ClientTyped, Wired
  <2>16. \A i \in {1, 2} : <<u, z>>[i].type \notin {"proxy", "sources", "messages",
                                        "sources-failed", "messages-failed", "stopped"}
    BY <2>10, <2>13
  <2>17. Programmed(<<u, z>>)
    BY <2>12, <2>13, <2>14, <2>15, <2>16 DEF Programmed, n
  <2>18. QED
    BY <2>17
<1>11. QED
  BY <1>8, <1>9, <1>10

\* Every call of the API.
LEMMA ProgramStep == Wired /\ Client!Program => \E sent : Programmed(sent)
<1> SUFFICES ASSUME Wired, Client!Program PROVE \E sent : Programmed(sent)
  OBVIOUS
<1>1. CASE \/ Client!Register \/ Client!Unregister \/ Client!Dispose
           \/ \E x \in Status : Client!SetStatus(x)
  BY <1>1, PlainProgram
<1>2. ASSUME NEW s \in Source,
             \/ \E b \in BOOLEAN : \/ Client!InsertSource(s, b) \/ Client!SetSourceShown(s, b)
                                   \/ Client!SetSourceDraws(s, b)
             \/ Client!RemoveSource(s)
      PROVE  \E sent : Programmed(sent)
  BY <1>2, SourceProgram
<1>3. ASSUME NEW m \in Message, NEW v \in {"quiet", "drawing"},
             NEW S \in {{}} \cup {{s} : s \in Source}, Client!AppendMessage(m, v, S)
      PROVE  \E sent : Programmed(sent)
  BY <1>3, AppendProgram
<1>4. ASSUME NEW m \in Message, Client!RemoveMessage(m) PROVE \E sent : Programmed(sent)
  BY <1>4, RemoveProgram
<1>5. QED
  BY <1>1, <1>2, <1>3, <1>4 DEF Client!Program

-----------------------------------------------------------------------------
(* The client's handlers.                                                  *)

Failed(kind) == IF kind = "sources" THEN "sources-failed" ELSE "messages-failed"

\* A list call is answered with u: the items the client holds, and no other.
Answered(kind, u) ==
  /\ down # << >> /\ Head(down).type = ListCall(kind) /\ down' = Tail(down)
  /\ u \in UpMessage(Len(request)) /\ up' = up \o <<u>>
  /\ u.req = Head(down).req
  /\ u.type \in {kind, Failed(kind)}
  /\ ~disposed =>
       /\ u.type = kind
       /\ \A x \in Items(kind) :
            /\ Held(kind, x) = "absent" => x \notin DOMAIN u.items
            /\ Held(kind, x) # "absent" => x \in DOMAIN u.items /\ u.items[x] = Held(kind, x)
  /\ UNCHANGED client

\* What is at the head of the calls to the client.
LEMMA DownHead ==
  ASSUME Wired, down # << >>
  PROVE  /\ Head(down) \in DownMessage(Len(request))
         /\ Head(down).req \in 0..Len(request)
         /\ Head(down).type # "dismiss" => Head(down).req \in 1..Len(request)
<1>1. down \in Seq(DownMessage(Len(request)))
  BY DEF Wired, BusTyped
<1>2. Head(down) \in DownMessage(Len(request))
  BY <1>1, HeadTailProperties
<1>3. QED
  BY <1>2 DEF DownMessage

\* ListSources and ListMessages answer with what the client holds.
LEMMA ListStep ==
  ASSUME Wired, Client!ListSources \/ Client!ListMessages
  PROVE  \E kind \in Kinds : \E u : Answered(kind, u)
<1> DEFINE n == Len(request)
           k == Head(down).req
<1>1. n \in Nat
  BY LenProperties DEF Wired, IndInv, TypeOK
<1>2. sources \in [Source -> ClientSource] /\ messages \in [Message -> MessageState]
  BY DEF Wired, ClientTyped
<1> HIDE DEF n
<1>3. ASSUME NEW kind \in Kinds, NEW f, Client!Handle(ListCall(kind)),
             f \in [Items(kind) -> SourceState],
             kind = "messages" => f \in [Message -> MessageState],
             \A x \in Items(kind) : f[x] = Held(kind, x),
             UNCHANGED client,
             Client!Send(<<IF disposed THEN Client!Up(Failed(kind), k, Client!NoItems)
                           ELSE Client!Up(kind, k, Client!Present(Items(kind), f))>>)
      PROVE  \E u : Answered(kind, u)
  <2>1. down # << >> /\ Head(down).type = ListCall(kind) /\ down' = Tail(down)
    BY <1>3 DEF Client!Handle
  <2>2. k \in 1..n
    BY <2>1, DownHead DEF ListCall, n
  <2> HIDE DEF k
  <2>3. CASE disposed
    <3>1. PICK u : u = Client!Up(Failed(kind), k, Client!NoItems)
      OBVIOUS
    <3>2. u \in UpMessage(n)
      <4>1. Failed(kind) \in {"proxy", "sources-failed", "messages-failed"} /\ k \in 1..n
            /\ k \in 0..n
        BY <2>2 DEF Failed
      <4>2. QED
        BY <1>1, <3>1, <4>1, PlainMessage
    <3>3. u.type = Failed(kind) /\ u.req = k /\ up' = up \o <<u>>
      BY <1>3, <2>3, <3>1 DEF Client!Up, Client!Send
    <3>4. Answered(kind, u)
      BY <1>3, <2>1, <2>3, <3>2, <3>3 DEF Answered, n, k
    <3>5. QED
      BY <3>4
  <2>4. CASE ~disposed
    <3>1. PICK items : items = Client!Present(Items(kind), f)
      OBVIOUS
    <3>2. PICK u : u = Client!Up(kind, k, items)
      OBVIOUS
    <3>3. \/ kind = "sources" /\ items \in SourceReply
          \/ kind = "messages" /\ items \in MessageReply
      BY <1>3, <3>1, PresentIsReply DEF Items, Kinds
    <3>4. u \in UpMessage(n)
      BY <1>1, <2>2, <3>2, <3>3, ReplyMessage
    <3>5. u.type = kind /\ u.req = k /\ up' = up \o <<u>> /\ u.items = items
      BY <1>3, <2>4, <3>1, <3>2 DEF Client!Up, Client!Send
    <3>6. ASSUME NEW x \in Items(kind)
          PROVE  /\ f[x] = "absent" => x \notin DOMAIN items
                 /\ f[x] # "absent" => x \in DOMAIN items /\ items[x] = f[x]
      BY <3>1 DEF Client!Present
    <3>7. Answered(kind, u)
      BY <1>3, <2>1, <2>4, <3>4, <3>5, <3>6 DEF Answered, n, k
    <3>8. QED
      BY <3>7
  <2>5. QED
    BY <2>3, <2>4
<1> HIDE DEF k
<1>4. CASE Client!ListSources
  <2>1. PICK f : f = [s \in Source |-> Client!SourceToVariant(sources[s])]
    OBVIOUS
  <2>2. f \in [Items("sources") -> SourceState]
        /\ \A x \in Items("sources") : f[x] = Held("sources", x)
    BY <2>1 DEF Items, Held, Client!SourceToVariant, SourceState
  <2>3. /\ Client!Handle(ListCall("sources")) /\ UNCHANGED client
        /\ Client!Send(<<IF disposed THEN Client!Up(Failed("sources"), k, Client!NoItems)
                           ELSE Client!Up("sources", k, Client!Present(Items("sources"), f))>>)
    BY <1>4, <2>1 DEF Client!ListSources, ListCall, Failed, Items, k, client, Client!clientVars
  <2>4. "sources" \in Kinds
    BY DEF Kinds
  <2>5. QED
    BY <1>3, <2>2, <2>3, <2>4
<1>5. CASE Client!ListMessages
  <2>2. messages \in [Items("messages") -> SourceState]
        /\ \A x \in Items("messages") : messages[x] = Held("messages", x)
    BY <1>2 DEF Items, Held, MessageState, SourceState
  <2>3. /\ Client!Handle(ListCall("messages")) /\ UNCHANGED client
        /\ Client!Send(<<IF disposed THEN Client!Up(Failed("messages"), k, Client!NoItems)
                     ELSE Client!Up("messages", k, Client!Present(Items("messages"), messages))>>)
    BY <1>5 DEF Client!ListMessages, ListCall, Failed, Items, k, client, Client!clientVars
  <2>4. "messages" \in Kinds
    BY DEF Kinds
  <2>5. QED
    BY <1>2, <1>3, <2>2, <2>3, <2>4
<1>6. QED
  BY <1>4, <1>5

\* The properties of the exported object are asked for and answered.
Introduced(u) ==
  /\ down # << >> /\ Head(down).type = "get-all" /\ down' = Tail(down)
  /\ u \in UpMessage(Len(request)) /\ up' = up \o <<u>>
  /\ u.type = "proxy" /\ u.req = Head(down).req /\ u.items = << >>
  /\ UNCHANGED client

\* The client answers GetAll with the creation of the proxy that asked.
LEMMA GetAllStep ==
  ASSUME Wired, Client!GetAll
  PROVE  \E u : Introduced(u)
<1>1. Len(request) \in Nat
  BY LenProperties DEF Wired, IndInv, TypeOK
<1>2. down # << >> /\ Head(down).type = "get-all" /\ down' = Tail(down)
  BY DEF Client!GetAll, Client!Handle
<1>3. PICK k : k = Head(down).req
  OBVIOUS
<1>4. k \in 1..Len(request) /\ k \in 0..Len(request)
  BY <1>2, <1>3, DownHead
<1>5. PICK u : u = Client!Up("proxy", k, Client!NoItems)
  OBVIOUS
<1>6. u \in UpMessage(Len(request))
  <2>1. "proxy" \in {"proxy", "sources-failed", "messages-failed"}
    OBVIOUS
  <2>2. QED
    BY <1>1, <1>4, <1>5, <2>1, PlainMessage
<1>7. u.type = "proxy" /\ u.req = k /\ u.items = << >>
  BY <1>5 DEF Client!Up, Client!NoItems
<1>8. up' = up \o <<u>> /\ UNCHANGED client
  BY <1>3, <1>5 DEF Client!GetAll, Client!Send, client, Client!clientVars
<1>9. QED
  BY <1>2, <1>3, <1>6, <1>7, <1>8 DEF Introduced

\* Dismissed items are gone, the others stay.
LEMMA DismissStep ==
  ASSUME Wired, Client!Dismiss
  PROVE  /\ down # << >> /\ Head(down).type = "dismiss" /\ down' = Tail(down) /\ up' = up
         /\ ClientTyped' /\ UNCHANGED <<registered, status, service, connecting, disposed>>
         /\ \A kind \in Kinds : \A x \in Items(kind) :
              Held(kind, x)' = IF Names(Head(down), kind, x) THEN "absent" ELSE Held(kind, x)
<1>1. /\ down # << >> /\ Head(down).type = "dismiss" /\ down' = Tail(down) /\ up' = up
      /\ UNCHANGED <<registered, status, service, connecting, disposed>>
      /\ sources' = [s \in Source |-> IF s \in Head(down).sources THEN Client!NoSource ELSE sources[s]]
      /\ messages' = [m \in Message |-> IF m \in Head(down).messages THEN "absent" ELSE messages[m]]
  BY DEF Client!Dismiss, Client!Handle
<1>2. sources \in [Source -> ClientSource] /\ messages \in [Message -> MessageState]
  BY DEF Wired, ClientTyped
<1>3. sources' \in [Source -> ClientSource]
  <2>1. Client!NoSource \in ClientSource
    BY DEF ClientSource, Client!NoSource
  <2>2. QED
    BY <1>1, <1>2, <2>1
<1>4. messages' \in [Message -> MessageState]
  BY <1>1, <1>2 DEF MessageState
<1>5. ClientTyped'
  BY <1>1, <1>3, <1>4 DEF ClientTyped, Wired
<1>6. ASSUME NEW kind \in Kinds, NEW x \in Items(kind)
      PROVE  Held(kind, x)' = IF Names(Head(down), kind, x) THEN "absent" ELSE Held(kind, x)
  <2>1. CASE kind = "sources"
    <3>1. sources'[x] = IF x \in Head(down).sources THEN Client!NoSource ELSE sources[x]
      BY <1>1, <2>1 DEF Items
    <3>2. Names(Head(down), kind, x) <=> x \in Head(down).sources
      BY <1>1, <2>1 DEF Names
    <3>3. QED
      BY <2>1, <3>1, <3>2 DEF Held, Client!SourceToVariant, Client!NoSource
  <2>2. CASE kind = "messages"
    <3>1. messages'[x] = IF x \in Head(down).messages THEN "absent" ELSE messages[x]
      BY <1>1, <2>2 DEF Items
    <3>2. Names(Head(down), kind, x) <=> x \in Head(down).messages
      BY <1>1, <2>2 DEF Names
    <3>3. QED
      BY <2>2, <3>1, <3>2 DEF Held
  <2>3. QED
    BY <2>1, <2>2 DEF Kinds
<1>7. QED
  BY <1>1, <1>5, <1>6

-----------------------------------------------------------------------------
(* The service's steps are steps of the application list.                  *)

\* The message that is taken.
LEMMA UpHead ==
  ASSUME Wired, up # << >>
  PROVE  /\ Head(up) \in UpMessage(Len(request)) /\ Len(request) \in Nat
         /\ Head(up).req \in 0..Len(request)
         /\ Head(up).type \in {"proxy", "sources-failed", "messages-failed", "sources", "messages"}
              => Head(up).req \in Requests
<1>1. up \in Seq(UpMessage(Len(request))) /\ Len(request) \in Nat
  BY LenProperties DEF Wired, BusTyped, IndInv, TypeOK
<1>2. Head(up) \in UpMessage(Len(request))
  BY <1>1, HeadTailProperties
<1>3. QED
  BY <1>1, <1>2, TakenMessage DEF Requests

\* A signal from the client is one of the signals of the list.
LEMMA SignalIsListed ==
  ASSUME Wired, TakeItemSignal
  PROVE  ClientSignal \/ UNCHANGED vars
<1>1. SUFFICES ASSUME ~ UNCHANGED vars PROVE ClientSignal
  OBVIOUS
<1>2. PICK type \in {"source-added", "source-changed", "source-removed",
                     "message-added", "message-removed"} :
        /\ Take(type)
        /\ \E k \in Connections, x \in DOMAIN Head(up).items :
             ItemSignal(type, k, x, Head(up).items[x])
  BY <1>1 DEF TakeItemSignal
<1>3. PICK k \in Connections, x \in DOMAIN Head(up).items :
        ItemSignal(type, k, x, Head(up).items[x])
  BY <1>2
<1>4. k \in Requests
  BY DEF Connections
<1>5. PICK u : u = Head(up)
  OBVIOUS
<1>6. u \in UpMessage(Len(request)) /\ Len(request) \in Nat /\ u.type = type
  BY <1>2, <1>5, UpHead DEF Take
<1>7. x \in DOMAIN u.items /\ ItemSignal(type, k, x, u.items[x])
  BY <1>3, <1>5
<1>8. CASE type \in {"source-added", "source-changed"}
  <2>1. PICK s \in Source, v \in SourceState \ {"absent"} : u.items = [t \in {s} |-> v]
    <3>1. \E s \in Source, v \in SourceState \ {"absent"} : u.items = [t \in {s} |-> v]
      BY <1>6, <1>8, TakenMessage
    <3>2. QED
      BY <3>1
  <2>2. x = s /\ u.items[x] = v
    BY <1>7, <2>1
  <2>3. SourceAdded(k, s, v) \/ SourceChanged(k, s, v)
    BY <1>7, <1>8, <2>2 DEF ItemSignal
  <2>4. QED
    BY <1>4, <2>3 DEF ClientSignal
<1>9. CASE type = "source-removed"
  <2>1. PICK s \in Source : u.items = [t \in {s} |-> "absent"]
    BY <1>6, <1>9, TakenMessage
  <2>2. x = s
    BY <1>7, <2>1
  <2>3. SourceRemoved(k, s)
    BY <1>7, <1>9, <2>2 DEF ItemSignal
  <2>4. QED
    BY <1>4, <2>3 DEF ClientSignal
<1>10. CASE type = "message-added"
  <2>1. PICK m \in Message, v \in MessageState \ {"absent"} : u.items = [t \in {m} |-> v]
    <3>1. \E m \in Message, v \in MessageState \ {"absent"} : u.items = [t \in {m} |-> v]
      BY <1>6, <1>10, TakenMessage
    <3>2. QED
      BY <3>1
  <2>2. x = m /\ u.items[x] = v
    BY <1>7, <2>1
  <2>3. MessageAdded(k, m, v)
    BY <1>7, <1>10, <2>2 DEF ItemSignal
  <2>4. QED
    BY <1>4, <2>3 DEF ClientSignal
<1>11. CASE type = "message-removed"
  <2>1. PICK m \in Message : u.items = [t \in {m} |-> "absent"]
    BY <1>6, <1>11, TakenMessage
  <2>2. x = m
    BY <1>7, <2>1
  <2>3. MessageRemoved(k, m)
    BY <1>7, <1>11, <2>2 DEF ItemSignal
  <2>4. QED
    BY <1>4, <2>3 DEF ClientSignal
<1>12. QED
  BY <1>8, <1>9, <1>10, <1>11

\* Every step of the session is a step of the list, or none.
LEMMA ListFollows == Wired /\ (Undisturbed \/ UserStep) => Next \/ UNCHANGED vars
<1> SUFFICES ASSUME Wired, Undisturbed \/ UserStep, ~ UNCHANGED vars PROVE Next
  OBVIOUS
<1>1. Self \in App /\ Bus \in Conn
  BY SelfAssumption
<1>2. CASE ClientStep \/ NameVanished \/ NameAppeared \/ ServiceProxy
  BY <1>2 DEF ClientStep, NameVanished, NameAppeared, ServiceProxy
<1>3. CASE TakeRegister
  BY <1>1, <1>3 DEF TakeRegister, Next, Method
<1>4. CASE TakeUnregister
  BY <1>1, <1>4 DEF TakeUnregister, Next, Method
<1>5. CASE TakeStopped
  BY <1>1, <1>5 DEF TakeStopped, Next, Method
<1>6. CASE TakeStatus
  BY <1>6 DEF TakeStatus
<1>7. CASE TakeItemSignal
  BY <1>7, SignalIsListed DEF Next
<1>8. CASE TakeProxy
  <2>1. PICK k : k = Head(up).req
    OBVIOUS
  <2>2. Take("proxy") /\ ProxyCreated(k)
    BY <1>8, <2>1 DEF TakeProxy
  <2>3. k \in Requests
    BY <2>1, <2>2, UpHead DEF Take
  <2>4. QED
    BY <2>2, <2>3 DEF Next, Callback
<1>9. CASE TakeSources
  <2>1. PICK k : k = Head(up).req
    OBVIOUS
  <2>2. \/ /\ Take("sources")
           /\ SourcesListed(k, Head(up).items) \/ ListCrashed("sources", k)
        \/ /\ Take("sources-failed")
           /\ ListFailed("sources", k) \/ ListCrashed("sources", k)
    BY <1>9, <2>1 DEF TakeSources
  <2>3. up # << >> /\ Head(up).type \in {"sources", "sources-failed"}
    BY <2>2 DEF Take
  <2>4. k \in Requests
    BY <2>1, <2>3, UpHead
  <2>5. Head(up).type = "sources" => Head(up).items \in SourceReply
    BY <2>3, UpHead, TakenMessage
  <2>6. Sources(k)
    BY <2>2, <2>5 DEF Sources, Take
  <2>7. QED
    BY <2>4, <2>6 DEF Next, Callback
<1>10. CASE TakeMessages
  <2>1. PICK k : k = Head(up).req
    OBVIOUS
  <2>2. \/ /\ Take("messages")
           /\ MessagesListed(k, Head(up).items) \/ ListCrashed("messages", k)
        \/ /\ Take("messages-failed")
           /\ ListFailed("messages", k) \/ ListCrashed("messages", k)
    BY <1>10, <2>1 DEF TakeMessages
  <2>3. up # << >> /\ Head(up).type \in {"messages", "messages-failed"}
    BY <2>2 DEF Take
  <2>4. k \in Requests
    BY <2>1, <2>3, UpHead
  <2>5. Head(up).type = "messages" => Head(up).items \in MessageReply
    BY <2>3, UpHead, TakenMessage
  <2>6. Messages(k)
    BY <2>2, <2>5 DEF Messages, Take
  <2>7. QED
    BY <2>4, <2>6 DEF Next, Callback
<1>11. CASE CancelledCallback
  <2>1. PICK k \in Requests :
          \/ ProxyCreated(k)
          \/ \E kind \in {"sources", "messages"} : ListFailed(kind, k) \/ ListCrashed(kind, k)
    BY <1>11 DEF CancelledCallback
  <2>2. ProxyCreated(k) \/ Sources(k) \/ Messages(k)
    BY <2>1 DEF Sources, Messages
  <2>3. QED
    BY <2>2 DEF Next, Callback
<1>12. CASE ServiceRestart
  BY <1>12 DEF ServiceRestart, Next, Environment
<1>13. CASE UserStep
  BY <1>1, <1>13 DEF UserStep, Next, User
<1>14. QED
  BY <1>2, <1>3, <1>4, <1>5, <1>6, <1>7, <1>8, <1>9, <1>10, <1>11, <1>12, <1>13
     DEF Undisturbed, Service

-----------------------------------------------------------------------------
(* Wired is an invariant.                                                  *)

\* In the beginning nothing is on the bus.
LEMMA WiredInit == SessionInit => Wired
<1> SUFFICES ASSUME SessionInit PROVE Wired
  OBVIOUS
<1>1. IndInv
  BY InvInit DEF SessionInit
<1>2. ClientTyped
  <2>1. 0 \in 0..MaxConnecting
    BY SessionBoundsAssumption
  <2>2. Client!NoSource \in ClientSource /\ "absent" \in MessageState
    BY DEF ClientSource, Client!NoSource, MessageState
  <2>3. QED
    BY <2>1, <2>2 DEF SessionInit, Client!Init, ClientTyped
<1>3. BusTyped
  <2>1. up = << >> /\ down = << >> /\ notice = <<"appeared">> /\ restarts = 0
    BY DEF SessionInit, Client!Init
  <2>2. notice \in Seq({"vanished", "appeared"})
    BY <2>1
  <2>3. 0 \in 0..MaxRestart
    BY SessionBoundsAssumption
  <2>4. QED
    BY <2>1, <2>2, <2>3 DEF BusTyped
<1>4. OneClient
  <2>1. Requests = {}
    BY DEF SessionInit, Init, Requests
  <2>2. QED
    BY <2>1 DEF OneClient
<1>5. QED
  BY <1>1, <1>2, <1>3, <1>4 DEF Wired

\* Types of the queues after a step.
LEMMA QueueTypes ==
  ASSUME Wired
  PROVE  /\ Len(request) \in Nat
         /\ up \in Seq(UpMessage(Len(request))) /\ down \in Seq(DownMessage(Len(request)))
         /\ up # << >> => Tail(up) \in Seq(UpMessage(Len(request)))
         /\ down # << >> => Tail(down) \in Seq(DownMessage(Len(request)))
<1>1. /\ Len(request) \in Nat
      /\ up \in Seq(UpMessage(Len(request))) /\ down \in Seq(DownMessage(Len(request)))
  BY LenProperties DEF Wired, BusTyped, IndInv, TypeOK
<1>2. QED
  BY <1>1, HeadTailProperties

\* A step of the client sends only messages that their handlers expect.
LEMMA WiredClient ==
  ASSUME Wired, ClientStep
  PROVE  /\ ClientTyped' /\ request' = request /\ UNCHANGED <<notice, restarts>>
         /\ up' \in Seq(UpMessage(Len(request))) /\ down' \in Seq(DownMessage(Len(request)))
<1>1. request' = request /\ UNCHANGED <<notice, restarts>>
  BY DEF ClientStep, vars
<1>2. CASE Client!Program
  <2>1. PICK sent : Programmed(sent)
    BY <1>2, ProgramStep
  <2>2. /\ sent \in Seq(UpMessage(Len(request))) /\ up' = up \o sent /\ down' = down
        /\ ClientTyped'
    BY <2>1 DEF Programmed
  <2>3. up \o sent \in Seq(UpMessage(Len(request)))
    BY <2>2, QueueTypes, ConcatProperties
  <2>4. QED
    BY <1>1, <2>2, <2>3, QueueTypes
<1>3. ASSUME NEW u \in UpMessage(Len(request)), up' = up \o <<u>>,
             down # << >>, down' = Tail(down), UNCHANGED client
      PROVE  /\ ClientTyped'
             /\ up' \in Seq(UpMessage(Len(request))) /\ down' \in Seq(DownMessage(Len(request)))
  <2>1. <<u>> \in Seq(UpMessage(Len(request)))
    OBVIOUS
  <2>2. up \o <<u>> \in Seq(UpMessage(Len(request)))
    BY <2>1, QueueTypes, ConcatProperties
  <2>3. ClientTyped'
    BY <1>3 DEF Wired, ClientTyped, client
  <2>4. QED
    BY <1>3, <2>2, <2>3, QueueTypes
<1>4. CASE Client!GetAll
  <2>1. PICK u : Introduced(u)
    BY <1>4, GetAllStep
  <2>2. QED
    BY <1>1, <1>3, <2>1 DEF Introduced
<1>5. CASE Client!ListSources \/ Client!ListMessages
  <2>1. PICK kind \in Kinds : \E u : Answered(kind, u)
    BY <1>5, ListStep
  <2>2. PICK u : Answered(kind, u)
    BY <2>1
  <2>3. QED
    BY <1>1, <1>3, <2>2 DEF Answered
<1>6. CASE Client!Dismiss
  BY <1>1, <1>6, DismissStep, QueueTypes
<1>7. QED
  BY <1>2, <1>4, <1>5, <1>6 DEF ClientStep, Client!Handlers

\* The calls on the client are well-formed.
LEMMA CallTypes ==
  ASSUME NEW n \in Nat
  PROVE  /\ \A k \in 1..n : \A type \in {"get-all", "list-sources", "list-messages"} :
              Client!Down(type, k, {}, {}) \in DownMessage(n)
         /\ \A S \in SUBSET Source, M \in SUBSET Message :
              Client!Down("dismiss", 0, S, M) \in DownMessage(n)
<1>1. ASSUME NEW k \in 1..n, NEW type \in {"get-all", "list-sources", "list-messages"}
      PROVE  Client!Down(type, k, {}, {}) \in DownMessage(n)
  <2>1. k \in 0..n /\ {} \in SUBSET Source /\ {} \in SUBSET Message
    OBVIOUS
  <2>2. QED
    BY <2>1 DEF Client!Down, DownMessage
<1>2. ASSUME NEW S \in SUBSET Source, NEW M \in SUBSET Message
      PROVE  Client!Down("dismiss", 0, S, M) \in DownMessage(n)
  <2>1. 0 \in 0..n
    OBVIOUS
  <2>2. QED
    BY <2>1 DEF Client!Down, DownMessage
<1>3. QED
  BY <1>1, <1>2

\* A message is taken from the head of the queue; all but a registration and
\* the creation of a proxy ask nothing of the client.
Taken == /\ ~crashed /\ up # << >> /\ up' = Tail(up)
         /\ UNCHANGED <<client, notice, restarts>>

\* Taking one of these messages removes it from the queue and nothing else
\* that the client or the bus knows of.
LEMMA TakenStep ==
  ASSUME TakeUnregister \/ TakeStopped \/ TakeStatus \/ TakeItemSignal
           \/ TakeSources \/ TakeMessages
  PROVE  /\ Taken /\ down' = down /\ request' = request
         /\ Head(up).type # "register" /\ Head(up).type # "proxy"
<1>1. ASSUME StatusAssumption PROVE "register" \notin Status /\ "proxy" \notin Status
  BY StatusAssumption DEF MessageType
<1>2. CASE TakeUnregister
  BY <1>2 DEF TakeUnregister, Take, AskNothing, Taken, Unregister, calls
<1>3. CASE TakeStopped
  BY <1>3 DEF TakeStopped, Take, AskNothing, Taken, ApplicationStopped, calls, vars
<1>4. CASE TakeStatus
  BY <1>1, <1>4, StatusAssumption DEF TakeStatus, Take, AskNothing, Taken, calls, vars
<1>5. CASE TakeItemSignal
  <2>1. request' = request
    BY <1>5 DEF TakeItemSignal, ItemSignal, SourceAdded, SourceChanged, SourceRemoved,
       MessageAdded, MessageRemoved, Update, vars, calls
  <2>2. QED
    BY <1>5, <2>1 DEF TakeItemSignal, Take, AskNothing, Taken
<1>6. CASE TakeSources
  <2>1. request' = request
    BY <1>6 DEF TakeSources, SourcesListed, Completes, ListCrashed, ListFailed, vars, calls
  <2>2. QED
    BY <1>6, <2>1 DEF TakeSources, Take, AskNothing, Taken
<1>7. CASE TakeMessages
  <2>1. request' = request
    BY <1>7 DEF TakeMessages, MessagesListed, Completes, ListCrashed, ListFailed, vars, calls
  <2>2. QED
    BY <1>7, <2>1 DEF TakeMessages, Take, AskNothing, Taken
<1>8. QED
  BY <1>2, <1>3, <1>4, <1>5, <1>6, <1>7

\* Every step of the session keeps the bus well-formed.
LEMMA WiredStep == Wired /\ (Undisturbed \/ UserStep) => Wired'
<1> SUFFICES ASSUME Wired, Undisturbed \/ UserStep PROVE Wired'
  OBVIOUS
<1> DEFINE n == Len(request)
<1>1. IndInv'
  BY ListFollows, InvMethod, InvCallback, InvSignal, InvUser, InvEnvironment, InvStutter
     DEF Next, Wired
<1>2. /\ n \in Nat
      /\ up \in Seq(UpMessage(n)) /\ down \in Seq(DownMessage(n))
      /\ up # << >> => Tail(up) \in Seq(UpMessage(n))
      /\ down # << >> => Tail(down) \in Seq(DownMessage(n))
  BY QueueTypes
<1>3. /\ ClientTyped /\ OneClient /\ IndInv
      /\ notice \in Seq({"vanished", "appeared"}) /\ restarts \in 0..MaxRestart
  BY DEF Wired, BusTyped
<1>4. Self \in App /\ Bus \in Conn
  BY SelfAssumption
<1>5. ASSUME request' = request, ClientTyped',
             up' \in Seq(UpMessage(n)), down' \in Seq(DownMessage(n)),
             notice' \in Seq({"vanished", "appeared"}), restarts' \in 0..MaxRestart
      PROVE  Wired'
  <2>1. OneClient'
    BY <1>3, <1>5 DEF OneClient, Requests
  <2>2. BusTyped'
    BY <1>5 DEF BusTyped
  <2>3. QED
    BY <1>1, <1>5, <2>1, <2>2 DEF Wired
<1>6. ASSUME UNCHANGED client PROVE ClientTyped'
  BY <1>3, <1>6 DEF client, ClientTyped
<1>7. notice # << >> => Tail(notice) \in Seq({"vanished", "appeared"})
  BY <1>3, HeadTailProperties
<1> HIDE DEF n
<1>8. CASE ClientStep
  BY <1>3, <1>5, <1>8, WiredClient DEF n
<1>9. CASE NameVanished
  <2>1. ClientTyped' /\ up' = up /\ down' = down
    BY <1>3, <1>9 DEF NameVanished, Client!Vanished, ClientTyped
  <2>2. request' = request /\ restarts' = restarts /\ notice' \in Seq({"vanished", "appeared"})
    BY <1>7, <1>9 DEF NameVanished, vars
  <2>3. QED
    BY <1>2, <1>3, <1>5, <2>1, <2>2
<1>10. CASE NameAppeared
  <2>1. up' = up /\ down' = down
    BY <1>10 DEF NameAppeared, Client!Appeared
  <2>2. ClientTyped'
    <3>1. connecting + 1 \in 0..MaxConnecting
      BY <1>3, <1>10, SessionBoundsAssumption DEF NameAppeared, Client!Appeared, ClientTyped
    <3>2. QED
      BY <1>3, <1>10, <3>1 DEF NameAppeared, Client!Appeared, ClientTyped
  <2>3. request' = request /\ restarts' = restarts /\ notice' \in Seq({"vanished", "appeared"})
    BY <1>7, <1>10 DEF NameAppeared, vars
  <2>4. QED
    BY <1>2, <1>3, <1>5, <2>1, <2>2, <2>3
<1>11. CASE ServiceProxy
  <2>1. PICK sent : /\ \/ sent = Client!SyncRegistration \o Client!SyncStatus
                       \/ sent = << >>
                    /\ up' = up \o sent /\ down' = down
    BY <1>11 DEF ServiceProxy, Client!CreatedMessagesService, Client!SendCalls, Client!Send
  <2>2. ClientTyped'
    <3>1. connecting - 1 \in 0..MaxConnecting
      BY <1>3, <1>11, SessionBoundsAssumption
         DEF ServiceProxy, Client!CreatedMessagesService, ClientTyped
    <3>2. QED
      BY <1>3, <1>11, <3>1 DEF ServiceProxy, Client!CreatedMessagesService, ClientTyped
  <2>3. sent \in Seq(UpMessage(n))
    <3>1. ASSUME NEW name \in {"register", "unregister", "stopped"} \cup Status
          PROVE  <<Client!MethodCall(name)>> \in Seq(UpMessage(n))
      <4>1. 0 \in 0..n
        BY <1>2
      <4>2. Client!Up(name, 0, Client!NoItems) \in UpMessage(n)
        BY <1>2, <4>1, PlainMessage
      <4>3. QED
        BY <4>2 DEF Client!MethodCall
    <3>2. << >> \in Seq(UpMessage(n))
      OBVIOUS
    <3>3. Client!SyncRegistration \in Seq(UpMessage(n))
      BY <3>1, <3>2 DEF Client!SyncRegistration
    <3>4. Client!SyncStatus \in Seq(UpMessage(n))
      BY <1>3, <3>1, <3>2 DEF Client!SyncStatus, ClientTyped
    <3>5. QED
      BY <2>1, <3>2, <3>3, <3>4, ConcatProperties
  <2>4. up' \in Seq(UpMessage(n))
    BY <1>2, <2>1, <2>3, ConcatProperties
  <2>5. request' = request /\ restarts' = restarts /\ notice' = notice
    BY <1>11 DEF ServiceProxy, vars
  <2>6. QED
    BY <1>2, <1>3, <1>5, <2>1, <2>2, <2>4, <2>5
<1>12. CASE TakeUnregister \/ TakeStopped \/ TakeStatus \/ TakeItemSignal
              \/ TakeSources \/ TakeMessages
  BY <1>2, <1>3, <1>5, <1>6, <1>12, TakenStep DEF Taken
<1>13. CASE TakeRegister
  <2>1. /\ request' = Append(request, [app |-> Self, owner |-> Bus])
        /\ up # << >> /\ up' = Tail(up) /\ UNCHANGED <<client, notice, restarts>>
        /\ down' = down \o <<Client!Down("get-all", Len(request'), {}, {})>>
    BY <1>13 DEF TakeRegister, Take, Register, Ask
  <2>2. request \in Seq([app : App, owner : Conn])
        /\ [app |-> Self, owner |-> Bus] \in [app : App, owner : Conn]
    BY <1>3, <1>4 DEF IndInv, TypeOK
  <2>3. /\ Len(request') = n + 1 /\ request'[n + 1] = [app |-> Self, owner |-> Bus]
        /\ \A i \in 1..n : request'[i] = request[i]
    BY <2>1, <2>2, AppendProperties DEF n
  <2>4. OneClient'
    <3> SUFFICES ASSUME NEW i \in 1..(n + 1) PROVE request'[i] = [app |-> Self, owner |-> Bus]
      BY <2>3 DEF OneClient, Requests
    <3>1. i \in 1..n \/ i = n + 1
      BY <1>2
    <3>2. QED
      BY <1>3, <2>3, <3>1 DEF OneClient, Requests, n
  <2>5. UpMessage(n) \subseteq UpMessage(n + 1) /\ DownMessage(n) \subseteq DownMessage(n + 1)
        /\ n + 1 \in Nat
    BY <1>2, MessagesGrow
  <2>6. up' \in Seq(UpMessage(n + 1)) /\ down \in Seq(DownMessage(n + 1))
    BY <1>2, <2>1, <2>5, SeqMonotonic
  <2>7. <<Client!Down("get-all", n + 1, {}, {})>> \in Seq(DownMessage(n + 1))
    <3>1. Client!Down("get-all", n + 1, {}, {}) \in DownMessage(n + 1)
      BY <1>2, <2>5, CallTypes
    <3>2. QED
      BY <3>1
  <2>8. down' \in Seq(DownMessage(n + 1))
    BY <2>1, <2>3, <2>6, <2>7, ConcatProperties
  <2>9. BusTyped'
    BY <1>3, <2>1, <2>3, <2>6, <2>8 DEF BusTyped
  <2>10. ClientTyped'
    BY <1>6, <2>1
  <2>11. QED
    BY <1>1, <2>4, <2>9, <2>10 DEF Wired
<1>14. CASE TakeProxy
  <2>1. PICK k : k = Head(up).req
    OBVIOUS
  <2>2. /\ Take("proxy")
        /\ request' = request
        /\ \/ down' = down \o <<Client!Down("list-sources", k, {}, {}),
                                Client!Down("list-messages", k, {}, {})>>
           \/ down' = down
    BY <1>14, <2>1 DEF TakeProxy, ProxyCreated, Ask, AskNothing, vars
  <2>3. k \in 1..n
    BY <2>1, <2>2, UpHead DEF Take, Requests, n
  <2>4. <<Client!Down("list-sources", k, {}, {}), Client!Down("list-messages", k, {}, {})>>
          \in Seq(DownMessage(n))
    <3>1. /\ Client!Down("list-sources", k, {}, {}) \in DownMessage(n)
          /\ Client!Down("list-messages", k, {}, {}) \in DownMessage(n)
      BY <1>2, <2>3, CallTypes
    <3>2. QED
      BY <3>1
  <2>5. down' \in Seq(DownMessage(n))
    BY <1>2, <2>2, <2>4, ConcatProperties
  <2>6. up # << >> /\ up' = Tail(up) /\ UNCHANGED <<client, notice, restarts>>
    BY <2>2 DEF Take
  <2>7. QED
    BY <1>2, <1>3, <1>5, <1>6, <2>2, <2>5, <2>6
<1>15. CASE CancelledCallback
  <2>1. request' = request
    BY <1>15 DEF CancelledCallback, ProxyCreated, ListFailed, ListCrashed, Completes, calls
  <2>2. UNCHANGED <<client, bus>>
    BY <1>15 DEF CancelledCallback
  <2>3. QED
    BY <1>2, <1>3, <1>5, <1>6, <2>1, <2>2 DEF bus
<1>16. CASE ServiceRestart
  <2>1. PICK i \in 0..Len(up) : up' = SubSeq(up, i + 1, Len(up))
    BY <1>16 DEF ServiceRestart
  <2>2. up' \in Seq(UpMessage(n))
    <3>1. Len(up) \in Nat /\ i + 1 \in Int /\ i + 1 >= 1
      BY <1>2, LenProperties
    <3>2. \A j \in (i + 1)..Len(up) : up[j] \in UpMessage(n)
      BY <1>2, <3>1, ElementOfSeq
    <3>3. QED
      BY <2>1, <3>1, <3>2, SubSeqProperties
  <2>3. UNCHANGED client /\ down' = down /\ request' = request
    BY <1>16 DEF ServiceRestart, Restart
  <2>4. notice' \in Seq({"vanished", "appeared"})
    <3>1. <<"vanished", "appeared">> \in Seq({"vanished", "appeared"})
      OBVIOUS
    <3>2. QED
      BY <1>3, <1>16, <3>1, ConcatProperties DEF ServiceRestart
  <2>5. restarts' \in 0..MaxRestart
    BY <1>3, <1>16, SessionBoundsAssumption DEF ServiceRestart
  <2>6. QED
    BY <1>2, <1>5, <1>6, <2>2, <2>3, <2>4, <2>5
<1>17. CASE UserStep
  <2>1. UNCHANGED <<client, up, notice, restarts>>
    BY <1>17 DEF UserStep
  <2>2. request' = request
    BY <1>17 DEF UserStep, SourceActivated, MessageActivated, RemoveAll, Update, calls
  <2>3. PICK S \in SUBSET Source, M \in SUBSET Message : Tell(S, M)
    <3>1. /\ \A s \in Source : {s} \in SUBSET Source /\ {} \in SUBSET Message
          /\ \A m \in Message : {m} \in SUBSET Message /\ {} \in SUBSET Source
          /\ {s \in Source : app[Self].sources[s] # "absent"} \in SUBSET Source
          /\ {m \in Message : app[Self].messages[m] # "absent"} \in SUBSET Message
      OBVIOUS
    <3>2. QED
      BY <1>17, <3>1 DEF UserStep
  <2>4. PICK d : d = Client!Down("dismiss", 0, S, M)
    OBVIOUS
  <2>5. d \in DownMessage(n)
    BY <1>2, <2>4, CallTypes
  <2>6. down' = down \o << >> \/ down' = down \o <<d>>
    BY <2>3, <2>4 DEF Tell, Ask
  <2>7. << >> \in Seq(DownMessage(n)) /\ <<d>> \in Seq(DownMessage(n))
    BY <2>5
  <2>8. down' \in Seq(DownMessage(n))
    BY <1>2, <2>6, <2>7, ConcatProperties
  <2>9. QED
    BY <1>2, <1>3, <1>5, <1>6, <2>1, <2>2, <2>8
<1>18. QED
  BY <1>8, <1>9, <1>10, <1>11, <1>12, <1>13, <1>14, <1>15, <1>16, <1>17
     DEF Undisturbed, Service

\* So does a step that changes nothing.
LEMMA WiredStutter == Wired /\ UNCHANGED sessionVars => Wired'
<1> SUFFICES ASSUME Wired, UNCHANGED sessionVars PROVE Wired'
  OBVIOUS
<1>1. IndInv'
  BY InvStutter DEF Wired, sessionVars
<1>2. UNCHANGED <<client, bus, request>>
  BY DEF sessionVars, vars
<1>3. ClientTyped' /\ BusTyped' /\ OneClient'
  BY <1>2 DEF Wired, ClientTyped, BusTyped, OneClient, Requests, client, bus
<1>4. QED
  BY <1>1, <1>3 DEF Wired

(***************************************************************************)
(* In every state of a session the messages on the bus are ones their      *)
(* handlers expect, and the list's own invariant holds.                    *)
(***************************************************************************)
THEOREM SessionWired == SessionSpec => []Wired
<1>1. SessionInit => Wired
  BY WiredInit
<1>2. Wired /\ [Undisturbed \/ UserStep]_sessionVars => Wired'
  BY WiredStep, WiredStutter
<1>3. QED
  BY <1>1, <1>2, PTL DEF SessionSpec

\* A session without a user is a session.
THEOREM UndisturbedIsSession == UndisturbedSpec => SessionSpec
<1>1. [Undisturbed]_sessionVars => [Undisturbed \/ UserStep]_sessionVars
  OBVIOUS
<1>2. QED
  BY <1>1, PTL DEF UndisturbedSpec, SessionSpec

(***************************************************************************)
(* The client of libmessaging-menu is one of the environments that the     *)
(* application list is specified for: closing the open environment by it   *)
(* loses none of the list's theorems.                                      *)
(***************************************************************************)
THEOREM SessionFollows == SessionSpec => Spec
<1>1. SessionInit => Init
  BY DEF SessionInit
<1>2. Wired /\ [Undisturbed \/ UserStep]_sessionVars => [Next]_vars
  BY ListFollows DEF sessionVars
<1>3. QED
  BY <1>1, <1>2, SessionWired, PTL DEF SessionSpec, Spec

(***************************************************************************)
(* A session implements the abstract menu: whatever the client, the bus,   *)
(* the user and a restart do, it looks like sections, items and an icon    *)
(* that change one at a time.                                              *)
(***************************************************************************)
THEOREM SessionImplements == SessionSpec => ImplementsMenu
BY SessionFollows, Implements

\* The state of the client and of the bus is always well-formed: SessionTypeOK
\* is an invariant.
THEOREM SessionTypeCorrect == SessionSpec => []SessionTypeOK
<1>1. Wired => SessionTypeOK
  <2> SUFFICES ASSUME Wired PROVE SessionTypeOK
    OBVIOUS
  <2>1. TypeOK /\ ClientTyped /\ restarts \in 0..MaxRestart
    BY DEF Wired, IndInv, BusTyped
  <2>2. /\ sources \in [Source -> [present : BOOLEAN, shown : BOOLEAN, draws : BOOLEAN]]
        /\ \A s \in Source : sources[s].present \/ sources[s] = Client!NoSource
    BY <2>1 DEF ClientTyped, ClientSource
  <2>3. ASSUME NEW i \in DOMAIN up
        PROVE  up[i].req \in 0..Len(request) /\ DOMAIN up[i].items \subseteq Source \cup Message
    <3>1. up[i] \in UpMessage(Len(request))
      BY QueueTypes, LenProperties, ElementOfSeq
    <3>2. up[i] \in UpRecord /\ up[i].req \in 0..Len(request)
      BY <3>1 DEF UpMessage
    <3>3. PICK D \in SUBSET (Source \cup Message) : up[i].items \in [D -> SourceState]
      BY <3>2 DEF UpRecord
    <3>4. QED
      BY <3>2, <3>3
  <2>4. ASSUME NEW i \in DOMAIN down PROVE down[i].req \in 0..Len(request)
    <3>1. down[i] \in DownMessage(Len(request))
      BY QueueTypes, LenProperties, ElementOfSeq
    <3>2. QED
      BY <3>1 DEF DownMessage
  <2>5. QED
    BY <2>1, <2>2, <2>3, <2>4 DEF SessionTypeOK, ClientTyped
<1>2. QED
  BY <1>1, SessionWired, PTL

-----------------------------------------------------------------------------
(* Calls that are under way.                                               *)

\* The elements of a concatenation.
LEMMA ConcatElements ==
  ASSUME NEW T, NEW q \in Seq(T), NEW r \in Seq(T)
  PROVE  /\ q \o r \in Seq(T)
         /\ \A i \in DOMAIN (q \o r) : \/ i \in DOMAIN q /\ (q \o r)[i] = q[i]
                                       \/ /\ i \notin DOMAIN q
                                          /\ i - Len(q) \in DOMAIN r
                                          /\ (q \o r)[i] = r[i - Len(q)]
         /\ \A i \in DOMAIN q : i \in DOMAIN (q \o r) /\ (q \o r)[i] = q[i]
         /\ \A i \in DOMAIN r : Len(q) + i \in DOMAIN (q \o r) /\ (q \o r)[Len(q) + i] = r[i]
<1> DEFINE n == Len(q)
           m == Len(r)
           s == q \o r
<1>1. n \in Nat /\ m \in Nat /\ DOMAIN q = 1..n /\ DOMAIN r = 1..m
  BY LenProperties
<1>2. /\ s \in Seq(T) /\ Len(s) = n + m
      /\ \A i \in 1..(n + m) : s[i] = IF i <= n THEN q[i] ELSE r[i - n]
  BY ConcatProperties
<1>3. DOMAIN s = 1..(n + m)
  BY <1>2, LenProperties
<1> HIDE DEF n, m, s
<1>4. ASSUME NEW i \in DOMAIN s
      PROVE  \/ i \in DOMAIN q /\ s[i] = q[i]
             \/ i \notin DOMAIN q /\ i - n \in DOMAIN r /\ s[i] = r[i - n]
  BY <1>1, <1>2, <1>3
<1>5. ASSUME NEW i \in DOMAIN q PROVE i \in DOMAIN s /\ s[i] = q[i]
  BY <1>1, <1>2, <1>3
<1>6. ASSUME NEW i \in DOMAIN r PROVE n + i \in DOMAIN s /\ s[n + i] = r[i]
  <2>1. n + i \in 1..(n + m) /\ ~(n + i <= n) /\ (n + i) - n = i
    BY <1>1
  <2>2. QED
    BY <1>2, <1>3, <2>1
<1>7. QED
  BY <1>2, <1>4, <1>5, <1>6 DEF n, s

\* The elements of a tail.
LEMMA TailElements ==
  ASSUME NEW T, NEW q \in Seq(T), q # << >>
  PROVE  /\ Tail(q) \in Seq(T)
         /\ 1 \in DOMAIN q /\ q[1] = Head(q)
         /\ \A i \in DOMAIN Tail(q) : i + 1 \in DOMAIN q /\ Tail(q)[i] = q[i + 1] /\ i + 1 # 1
         /\ \A i \in DOMAIN q : i # 1 => i - 1 \in DOMAIN Tail(q) /\ Tail(q)[i - 1] = q[i]
<1> DEFINE n == Len(q)
           t == Tail(q)
<1>1. n \in Nat /\ n > 0 /\ DOMAIN q = 1..n
  BY LenProperties, EmptySeq
<1>2. t \in Seq(T) /\ Len(t) = n - 1 /\ \A i \in 1..Len(t) : t[i] = q[i + 1]
  BY HeadTailProperties
<1>3. DOMAIN t = 1..(n - 1)
  BY <1>2, LenProperties
<1>4. q[1] = Head(q)
  OBVIOUS
<1> HIDE DEF n, t
<1>5. ASSUME NEW i \in DOMAIN t PROVE i + 1 \in DOMAIN q /\ t[i] = q[i + 1] /\ i + 1 # 1
  BY <1>1, <1>2, <1>3
<1>6. ASSUME NEW i \in DOMAIN q, i # 1 PROVE i - 1 \in DOMAIN t /\ t[i - 1] = q[i]
  <2>1. i - 1 \in 1..(n - 1) /\ (i - 1) + 1 = i
    BY <1>1, <1>6
  <2>2. QED
    BY <1>2, <1>3, <2>1
<1>7. QED
  BY <1>1, <1>2, <1>4, <1>5, <1>6 DEF t

\* The elements of the rest of a queue.
LEMMA RestElements ==
  ASSUME NEW T, NEW q \in Seq(T), NEW k \in 0..Len(q)
  PROVE  /\ SubSeq(q, k + 1, Len(q)) \in Seq(T)
         /\ \A i \in DOMAIN SubSeq(q, k + 1, Len(q)) :
              k + i \in DOMAIN q /\ SubSeq(q, k + 1, Len(q))[i] = q[k + i]
<1> DEFINE n == Len(q)
           t == SubSeq(q, k + 1, n)
<1>1. n \in Nat /\ k \in Nat /\ k <= n /\ DOMAIN q = 1..n
  BY LenProperties
<1>2. /\ t \in Seq(T) /\ Len(t) = n - k
      /\ \A i \in 1..(n - k) : t[i] = q[k + i]
  <2>1. \A i \in (k + 1)..n : q[i] \in T
    BY <1>1, ElementOfSeq
  <2>2. k + 1 \in Int /\ n \in Int /\ (IF k + 1 <= n THEN n - (k + 1) + 1 ELSE 0) = n - k
    <3> HIDE DEF n
    <3>1. n \in Nat /\ k \in Nat /\ k <= n
      BY <1>1
    <3>2. QED
      BY <3>1
  <2>3. /\ t \in Seq(T) /\ Len(t) = n - k
        /\ \A i \in 1..(n - (k + 1) + 1) : t[i] = q[(k + 1) + i - 1]
    BY <2>1, <2>2, SubSeqProperties
  <2>4. n - (k + 1) + 1 = n - k /\ \A i \in 1..(n - k) : (k + 1) + i - 1 = k + i
    BY <1>1
  <2>5. QED
    BY <2>3, <2>4
<1>3. DOMAIN t = 1..(n - k)
  BY <1>2, LenProperties
<1> HIDE DEF n, t
<1>4. ASSUME NEW i \in DOMAIN t PROVE k + i \in DOMAIN q /\ t[i] = q[k + i]
  BY <1>1, <1>2, <1>3
<1>5. QED
  BY <1>2, <1>4 DEF t, n

\* Taking messages keeps Once, and so does a creation that ends.
LEMMA OnceTaken ==
  ASSUME NEW S, NEW q \in Seq(S), NEW d, NEW C, NEW kind, Once(q, d, C, kind)
  PROVE  /\ q # << >> => Once(Tail(q), d, C, kind)
         /\ \A k \in 0..Len(q) : Once(SubSeq(q, k + 1, Len(q)), d, C, kind)
<1>1. ASSUME q # << >> PROVE Once(Tail(q), d, C, kind)
  <2> DEFINE t == Tail(q)
  <2>1. \A i \in DOMAIN t : i + 1 \in DOMAIN q /\ t[i] = q[i + 1]
    BY <1>1, TailElements
  <2>2. \A i, j \in DOMAIN t : i + 1 = j + 1 => i = j
    <3>1. t \in Seq(S)
      BY <1>1, TailElements
    <3>2. DOMAIN t \subseteq Nat
      BY <3>1, LenProperties
    <3>3. QED
      BY <3>2
  <2> HIDE DEF t
  <2>3. Once(t, d, C, kind)
    BY <2>1, <2>2 DEF Once
  <2>4. QED
    BY <2>3 DEF t
<1>2. ASSUME NEW k \in 0..Len(q) PROVE Once(SubSeq(q, k + 1, Len(q)), d, C, kind)
  <2> DEFINE t == SubSeq(q, k + 1, Len(q))
  <2>1. \A i \in DOMAIN t : k + i \in DOMAIN q /\ t[i] = q[k + i]
    BY RestElements
  <2>2. \A i, j \in DOMAIN t : k + i = k + j => i = j
    <3>1. t \in Seq(S) /\ k \in Nat
      BY RestElements, LenProperties
    <3>2. DOMAIN t \subseteq Nat
      BY <3>1, LenProperties
    <3>3. QED
      BY <3>1, <3>2
  <2> HIDE DEF t
  <2>3. Once(t, d, C, kind)
    BY <2>1, <2>2 DEF Once
  <2>4. QED
    BY <2>3 DEF t
<1>3. QED
  BY <1>1, <1>2

\* So does a call that is taken from the client's queue.
LEMMA OnceHandled ==
  ASSUME NEW S, NEW d \in Seq(S), d # << >>, NEW q, NEW C, NEW kind, Once(q, d, C, kind)
  PROVE  Once(q, Tail(d), C, kind)
<1> DEFINE t == Tail(d)
<1>1. \A i \in DOMAIN t : i + 1 \in DOMAIN d /\ t[i] = d[i + 1]
  BY TailElements
<1>2. \A i, j \in DOMAIN t : i + 1 = j + 1 => i = j
  <2>1. t \in Seq(S)
    BY TailElements
  <2>2. DOMAIN t \subseteq Nat
    BY <2>1, LenProperties
  <2>3. QED
    BY <2>2
<1> HIDE DEF t
<1>3. Once(q, t, C, kind)
  BY <1>1, <1>2 DEF Once
<1>4. QED
  BY <1>3 DEF t

\* Messages that are no lists keep Once.
LEMMA OnceSent ==
  ASSUME NEW S, NEW q \in Seq(S), NEW r \in Seq(S), NEW d, NEW C, NEW kind, Once(q, d, C, kind),
         \A i \in DOMAIN r : r[i].type # kind
  PROVE  Once(q \o r, d, C, kind)
<1> DEFINE s == q \o r
<1>1. \A i \in DOMAIN s : s[i].type = kind => i \in DOMAIN q /\ s[i] = q[i]
  BY ConcatElements
<1> HIDE DEF s
<1>2. Once(s, d, C, kind)
  BY <1>1 DEF Once
<1>3. QED
  BY <1>2 DEF s

\* Calls that ask for no list do, too.
LEMMA OnceCalled ==
  ASSUME NEW S, NEW d \in Seq(S), NEW r \in Seq(S), NEW q, NEW C, NEW kind, Once(q, d, C, kind),
         \A i \in DOMAIN r : r[i].type # ListCall(kind)
  PROVE  Once(q, d \o r, C, kind)
<1> DEFINE s == d \o r
<1>1. \A i \in DOMAIN s : s[i].type = ListCall(kind) => i \in DOMAIN d /\ s[i] = d[i]
  BY ConcatElements
<1> HIDE DEF s
<1>2. Once(q, s, C, kind)
  BY <1>1 DEF Once
<1>3. QED
  BY <1>2 DEF s

\* The answer takes the place of the call.
LEMMA OnceAnswered ==
  ASSUME NEW S, NEW q \in Seq(S), NEW u \in S, NEW T, NEW d \in Seq(T), d # << >>,
         NEW C, NEW kind, Once(q, d, C, kind),
         Head(d).type = ListCall(kind), u.req = Head(d).req
  PROVE  Once(q \o <<u>>, Tail(d), C, kind)
<1> DEFINE s == q \o <<u>>
           t == Tail(d)
<1>1. <<u>> \in Seq(S) /\ DOMAIN <<u>> = {1} /\ <<u>>[1] = u
  OBVIOUS
<1>2. \A i \in DOMAIN s : \/ i \in DOMAIN q /\ s[i] = q[i]
                          \/ i = Len(q) + 1 /\ s[i] = u
  <2>1. ASSUME NEW i \in DOMAIN s, i \notin DOMAIN q PROVE i = Len(q) + 1 /\ s[i] = u
    <3>1. s \in Seq(S)
      BY <1>1, ConcatElements
    <3>2. i \in Nat /\ Len(q) \in Nat
      BY <3>1, LenProperties
    <3>3. i - Len(q) \in DOMAIN <<u>> /\ s[i] = <<u>>[i - Len(q)]
      BY <1>1, <2>1, ConcatElements
    <3>4. QED
      BY <1>1, <3>2, <3>3
  <2>2. \A i \in DOMAIN s : i \in DOMAIN q => s[i] = q[i]
    BY <1>1, ConcatElements
  <2>3. QED
    BY <2>1, <2>2
<1>3. Len(q) + 1 \notin DOMAIN q
  BY LenProperties
<1>4. \A i \in DOMAIN t : i + 1 \in DOMAIN d /\ t[i] = d[i + 1] /\ i + 1 # 1
  BY TailElements
<1>5. 1 \in DOMAIN d /\ d[1] = Head(d)
  BY TailElements
<1>6. \A i, j \in DOMAIN t : i + 1 = j + 1 => i = j
  <2>1. t \in Seq(T)
    BY TailElements
  <2>2. DOMAIN t \subseteq Nat
    BY <2>1, LenProperties
  <2>3. QED
    BY <2>2
<1> HIDE DEF s, t
<1>7. \A i, j \in DOMAIN s :
        s[i].type = kind /\ s[j].type = kind /\ s[i].req = s[j].req => i = j
  BY <1>2, <1>5 DEF Once
<1>8. \A i, j \in DOMAIN t :
        t[i].type = ListCall(kind) /\ t[j].type = ListCall(kind) /\ t[i].req = t[j].req => i = j
  BY <1>4, <1>6 DEF Once
<1>9. \A i \in DOMAIN s, j \in DOMAIN t :
        ~(s[i].type = kind /\ t[j].type = ListCall(kind) /\ s[i].req = t[j].req)
  BY <1>2, <1>4, <1>5 DEF Once
<1>10. \A i \in DOMAIN s : s[i].type = kind => s[i].req \notin C
  BY <1>2, <1>5 DEF Once
<1>11. \A j \in DOMAIN t : t[j].type = ListCall(kind) => t[j].req \notin C
  BY <1>4 DEF Once
<1>12. Once(s, t, C, kind)
  BY <1>7, <1>8, <1>9, <1>10, <1>11 DEF Once
<1>13. QED
  BY <1>12 DEF s, t

\* A proxy that was being created has no list on the bus: one may be asked for.
LEMMA OnceAsked ==
  ASSUME NEW q, NEW T, NEW d \in Seq(T), NEW a \in T, NEW b \in T, NEW C, NEW k \in C,
         NEW D, D \subseteq C, k \notin D, NEW kind, Once(q, d, C, kind), a.req = k, b.req = k,
         ~(a.type = ListCall(kind) /\ b.type = ListCall(kind))
  PROVE  Once(q, d \o <<a, b>>, D, kind)
<1> DEFINE s == d \o <<a, b>>
           n == Len(d)
<1>1. /\ <<a, b>> \in Seq(T) /\ DOMAIN <<a, b>> = {1, 2}
      /\ <<a, b>>[1] = a /\ <<a, b>>[2] = b
  OBVIOUS
<1>2. n \in Nat /\ DOMAIN d = 1..n
  BY LenProperties
<1>3. \A i \in DOMAIN s : \/ i \in DOMAIN d /\ s[i] = d[i]
                          \/ i = n + 1 /\ i \notin DOMAIN d /\ s[i] = a
                          \/ i = n + 2 /\ i \notin DOMAIN d /\ s[i] = b
  <2>1. ASSUME NEW i \in DOMAIN s, i \notin DOMAIN d
        PROVE  (i = n + 1 /\ s[i] = a) \/ (i = n + 2 /\ s[i] = b)
    <3>1. s \in Seq(T)
      BY <1>1, ConcatElements
    <3>2. i \in Nat
      BY <3>1, LenProperties
    <3>3. i - n \in DOMAIN <<a, b>> /\ s[i] = <<a, b>>[i - n]
      BY <1>1, <2>1, ConcatElements
    <3>4. QED
      BY <1>1, <1>2, <3>2, <3>3
  <2>2. \A i \in DOMAIN s : i \in DOMAIN d => s[i] = d[i]
    BY <1>1, ConcatElements
  <2>3. QED
    BY <2>1, <2>2
<1> HIDE DEF s, n
<1>4. \A i, j \in DOMAIN s :
        s[i].type = ListCall(kind) /\ s[j].type = ListCall(kind) /\ s[i].req = s[j].req => i = j
  BY <1>3 DEF Once
<1>5. \A i \in DOMAIN q, j \in DOMAIN s :
        ~(q[i].type = kind /\ s[j].type = ListCall(kind) /\ q[i].req = s[j].req)
  BY <1>3 DEF Once
<1>6. \A i \in DOMAIN q : q[i].type = kind => q[i].req \notin D
  BY DEF Once
<1>7. \A j \in DOMAIN s : s[j].type = ListCall(kind) => s[j].req \notin D
  BY <1>3 DEF Once
<1>8. Once(q, s, D, kind)
  BY <1>4, <1>5, <1>6, <1>7 DEF Once
<1>9. QED
  BY <1>8 DEF s

\* Creations that end, or have no list on the bus, keep Once.
LEMMA OnceCreated ==
  ASSUME NEW q, NEW d, NEW C, NEW D, NEW kind, Once(q, d, C, kind),
         \A i \in DOMAIN q : q[i].type = kind /\ q[i].req \in D => q[i].req \in C,
         \A j \in DOMAIN d : d[j].type = ListCall(kind) /\ d[j].req \in D => d[j].req \in C
  PROVE  Once(q, d, D, kind)
BY DEF Once

\* What is left when a call completes, by position.
LEMMA RemovedElements ==
  ASSUME NEW T, NEW p \in Seq(T), NEW i \in DOMAIN p
  PROVE  /\ RemoveAt(p, i) \in Seq(T) /\ Len(RemoveAt(p, i)) = Len(p) - 1
         /\ \A j \in DOMAIN RemoveAt(p, i) :
              LET n == IF j < i THEN j ELSE j + 1 IN
              j \in Nat /\ n \in DOMAIN p /\ n # i /\ RemoveAt(p, i)[j] = p[n]
         /\ \A n \in DOMAIN p : n # i =>
              LET j == IF n < i THEN n ELSE n - 1 IN
              j \in DOMAIN RemoveAt(p, i) /\ RemoveAt(p, i)[j] = p[n]
<1> DEFINE r == RemoveAt(p, i)
<1>1. Len(p) \in Nat /\ DOMAIN p = 1..Len(p) /\ i \in 1..Len(p)
  BY LenProperties
<1>2. /\ r \in Seq(T) /\ Len(r) = Len(p) - 1
      /\ \A j \in 1..(Len(p) - 1) : r[j] = IF j < i THEN p[j] ELSE p[j + 1]
  BY <1>1, RemoveAtFacts
<1>3. DOMAIN r = 1..(Len(p) - 1)
  BY <1>2, LenProperties
<1> HIDE DEF r
<1>4. ASSUME NEW j \in DOMAIN r
      PROVE  LET n == IF j < i THEN j ELSE j + 1 IN
             j \in Nat /\ n \in DOMAIN p /\ n # i /\ r[j] = p[n]
  <2>1. j \in Nat
    BY <1>3
  <2>2. CASE j < i
    BY <1>1, <1>2, <1>3, <2>2
  <2>3. CASE ~(j < i)
    BY <1>1, <1>2, <1>3, <2>3
  <2>4. QED
    BY <2>2, <2>3
<1>5. ASSUME NEW n \in DOMAIN p, n # i
      PROVE  LET j == IF n < i THEN n ELSE n - 1 IN j \in DOMAIN r /\ r[j] = p[n]
  <2>1. CASE n < i
    BY <1>1, <1>2, <1>3, <2>1
  <2>2. CASE ~(n < i)
    <3>1. n - 1 \in 1..(Len(p) - 1) /\ ~(n - 1 < i) /\ (n - 1) + 1 = n
      BY <1>1, <1>5, <2>2
    <3>2. QED
      BY <1>2, <1>3, <2>2, <3>1
  <2>3. QED
    BY <2>1, <2>2
<1>6. QED
  BY <1>2, <1>4, <1>5 DEF r

\* A completed call is gone, the other calls are still under way.
LEMMA UnderwayRemoved ==
  ASSUME NEW T, NEW p \in Seq(T), NEW i \in DOMAIN p, NEW kind
  PROVE  /\ Underway(RemoveAt(p, i), kind) \subseteq Underway(p, kind)
         /\ \A k \in Underway(p, kind) :
              p[i].kind # kind \/ p[i].req # k => k \in Underway(RemoveAt(p, i), kind)
<1> DEFINE r == RemoveAt(p, i)
<1>1. \A j \in DOMAIN r : \E n \in DOMAIN p : r[j] = p[n]
  BY RemoveAtElements
<1>2. \A n \in DOMAIN p : n # i => \E j \in DOMAIN r : r[j] = p[n]
  BY RemoveAtElements
<1> HIDE DEF r
<1>3. Underway(r, kind) \subseteq Underway(p, kind)
  BY <1>1 DEF Underway
<1>4. ASSUME NEW k \in Underway(p, kind), p[i].kind # kind \/ p[i].req # k
      PROVE  k \in Underway(r, kind)
  <2>1. PICK n \in DOMAIN p : p[n].kind = kind /\ p[n].req = k
    BY DEF Underway
  <2>2. PICK j \in DOMAIN r : r[j] = p[n]
    BY <1>2, <1>4, <2>1
  <2>3. QED
    BY <2>1, <2>2 DEF Underway
<1>5. QED
  BY <1>3, <1>4 DEF r

\* Calls are added at the end.
LEMMA UnderwayConcat ==
  ASSUME NEW T, NEW p \in Seq(T), NEW r \in Seq(T), NEW kind
  PROVE  Underway(p \o r, kind) = Underway(p, kind) \cup Underway(r, kind)
<1> DEFINE s == p \o r
<1>1. /\ \A i \in DOMAIN s : \/ i \in DOMAIN p /\ s[i] = p[i]
                             \/ i - Len(p) \in DOMAIN r /\ s[i] = r[i - Len(p)]
      /\ \A i \in DOMAIN p : i \in DOMAIN s /\ s[i] = p[i]
      /\ \A i \in DOMAIN r : Len(p) + i \in DOMAIN s /\ s[Len(p) + i] = r[i]
  BY ConcatElements
<1> HIDE DEF s
<1>2. Underway(s, kind) \subseteq Underway(p, kind) \cup Underway(r, kind)
  BY <1>1 DEF Underway
<1>3. Underway(p, kind) \subseteq Underway(s, kind)
  BY <1>1 DEF Underway
<1>4. Underway(r, kind) \subseteq Underway(s, kind)
  BY <1>1 DEF Underway
<1>5. QED
  BY <1>2, <1>3, <1>4 DEF s

\* A new registration starts a creation.
LEMMA UnderwayCreate ==
  ASSUME NEW p \in Seq(Operation), NEW k \in RequestId, NEW q, q = Append(p, Call("create", k, k))
  PROVE  /\ q \in Seq(Operation)
         /\ Underway(q, "create") = Underway(p, "create") \cup {k}
<1> DEFINE r == <<Call("create", k, k)>>
<1>1. Call("create", k, k) \in Operation
  BY MaxRequestAssumption DEF Call, Operation, RequestId, RequestOrNull
<1>2. r \in Seq(Operation) /\ q = p \o r /\ p \o r \in Seq(Operation)
  BY <1>1, AppendIsConcat, ConcatProperties
<1>3. DOMAIN r = {1} /\ r[1].kind = "create" /\ r[1].req = k
  BY DEF Call
<1> HIDE DEF r
<1>4. Underway(r, "create") = {k}
  BY <1>3 DEF Underway
<1>6. \A kind : Underway(p \o r, kind) = Underway(p, kind) \cup Underway(r, kind)
  BY <1>2, UnderwayConcat
<1>7. Underway(q, "create") = Underway(p, "create") \cup {k}
  BY <1>2, <1>4, <1>6
<1>8. QED
  BY <1>2, <1>7

\* It is not waiting for a list.
LEMMA UnderwayNone ==
  ASSUME NEW p \in Seq(Operation), NEW k \in RequestId, NEW kind \in Kinds
  PROVE  Underway(Append(p, Call("create", k, k)), kind) = Underway(p, kind)
<1> DEFINE r == <<Call("create", k, k)>>
<1>1. Call("create", k, k) \in Operation
  BY MaxRequestAssumption DEF Call, Operation, RequestId, RequestOrNull
<1>2. r \in Seq(Operation) /\ Append(p, Call("create", k, k)) = p \o r
  BY <1>1, AppendIsConcat
<1>3. DOMAIN r = {1} /\ r[1].kind = "create"
  BY DEF Call
<1> HIDE DEF r
<1>4. Underway(r, kind) = {}
  BY <1>3 DEF Underway, Kinds
<1>5. Underway(p \o r, kind) = Underway(p, kind) \cup Underway(r, kind)
  BY <1>2, UnderwayConcat
<1>6. QED
  BY <1>2, <1>4, <1>5

\* The creation at i ends, and the lists are asked for.
AsksLists(p, i, k, c, q) ==
  /\ p \in Seq(Operation) /\ i \in DOMAIN p /\ k \in RequestId /\ c \in RequestOrNull
  /\ CreatesOnce(p) /\ p[i].kind = "create" /\ p[i].req = k
  /\ q = RemoveAt(p, i) \o ListBoth(k, c)

\* The proxy that was being created is awaiting both lists.
LEMMA UnderwayLists ==
  ASSUME NEW p, NEW i, NEW k, NEW c, NEW q, AsksLists(p, i, k, c, q)
  PROVE  /\ q \in Seq(Operation) /\ CreatesOnce(q)
         /\ Underway(q, "create") = Underway(p, "create") \ {k}
         /\ \A kind \in Kinds : Underway(q, kind) = Underway(p, kind) \cup {k}
         /\ \A j \in DOMAIN q : \/ \E n \in DOMAIN p : n # i /\ q[j] = p[n]
                                \/ q[j] \in {Call("sources", k, c), Call("messages", k, c)}
<1> USE DEF AsksLists
<1> DEFINE r == RemoveAt(p, i)
           l == ListBoth(k, c)
<1>1. /\ l \in Seq(Operation) /\ DOMAIN l = {1, 2}
      /\ l[1] = Call("sources", k, c) /\ l[2] = Call("messages", k, c)
  <2>1. Call("sources", k, c) \in Operation /\ Call("messages", k, c) \in Operation
    BY DEF Call, Operation
  <2>2. QED
    BY <2>1 DEF ListBoth
<1>2. /\ r \in Seq(Operation)
      /\ \A j \in DOMAIN r :
           LET n == IF j < i THEN j ELSE j + 1 IN
           j \in Nat /\ n \in DOMAIN p /\ n # i /\ r[j] = p[n]
  BY RemovedElements
<1>3. /\ Underway(r, "create") \subseteq Underway(p, "create")
      /\ \A x \in Underway(p, "create") : x # k => x \in Underway(r, "create")
  BY UnderwayRemoved
<1>4. ASSUME NEW kind \in Kinds PROVE Underway(r, kind) = Underway(p, kind)
  <2>1. kind # "create"
    BY DEF Kinds
  <2>2. /\ Underway(r, kind) \subseteq Underway(p, kind)
        /\ \A x \in Underway(p, kind) : x \in Underway(r, kind)
    BY <2>1, UnderwayRemoved
  <2>3. QED
    BY <2>2
<1>5. /\ \A j \in DOMAIN q : \/ j \in DOMAIN r /\ q[j] = r[j]
                             \/ j \notin DOMAIN r /\ q[j] \in {l[1], l[2]}
      /\ q \in Seq(Operation)
      /\ \A kind : Underway(q, kind) = Underway(r, kind) \cup Underway(l, kind)
  <2>1. r \o l \in Seq(Operation)
    BY <1>1, <1>2, ConcatElements
  <2>2. \A kind : Underway(r \o l, kind) = Underway(r, kind) \cup Underway(l, kind)
    BY <1>1, <1>2, UnderwayConcat
  <2>3. \A j \in DOMAIN (r \o l) : \/ j \in DOMAIN r /\ (r \o l)[j] = r[j]
                                   \/ /\ j \notin DOMAIN r
                                      /\ j - Len(r) \in DOMAIN l
                                      /\ (r \o l)[j] = l[j - Len(r)]
    BY <1>1, <1>2, ConcatElements
  <2>4. \A x \in DOMAIN l : l[x] \in {l[1], l[2]}
    BY <1>1
  <2> HIDE DEF r, l
  <2>5. \A j \in DOMAIN (r \o l) : \/ j \in DOMAIN r /\ (r \o l)[j] = r[j]
                                   \/ j \notin DOMAIN r /\ (r \o l)[j] \in {l[1], l[2]}
    BY <2>3, <2>4
  <2>6. q = r \o l
    BY DEF r, l
  <2>7. QED
    BY <2>1, <2>2, <2>5, <2>6
<1> HIDE DEF r, l
<1>6. /\ l[1].kind = "sources" /\ l[2].kind = "messages" /\ l[1].req = k /\ l[2].req = k
  BY <1>1 DEF Call
<1>7. Underway(l, "create") = {} /\ \A kind \in Kinds : Underway(l, kind) = {k}
  BY <1>1, <1>6 DEF Underway, Kinds
<1>8. \A n \in DOMAIN p : n # i => p[n].req # k
  BY DEF CreatesOnce
<1>9. k \notin Underway(r, "create")
  BY <1>2, <1>8 DEF Underway
<1>10. CreatesOnce(q)
  <2>1. ASSUME NEW x \in DOMAIN q, NEW y \in DOMAIN q,
               q[x].kind = "create", q[x].req = q[y].req
        PROVE  x = y
    <3>1. x \in DOMAIN r /\ q[x] = r[x]
      BY <1>5, <1>6, <2>1
    <3>2. r[x].req # k
      BY <1>2, <1>8, <3>1
    <3>3. y \in DOMAIN r /\ q[y] = r[y]
      BY <1>5, <1>6, <2>1, <3>1, <3>2
    <3>4. PICK n \in DOMAIN p : n = (IF x < i THEN x ELSE x + 1) /\ r[x] = p[n]
      BY <1>2, <3>1
    <3>5. PICK m \in DOMAIN p : m = (IF y < i THEN y ELSE y + 1) /\ r[y] = p[m]
      BY <1>2, <3>3
    <3>6. n = m
      BY <2>1, <3>1, <3>3, <3>4, <3>5 DEF CreatesOnce
    <3>7. i \in Nat /\ x \in Nat /\ y \in Nat
      BY <1>2, <3>1, <3>3, LenProperties
    <3>8. QED
      BY <3>4, <3>5, <3>6, <3>7
  <2>2. ASSUME NEW x \in DOMAIN q, q[x].kind = "create"
        PROVE  q[x].canc = q[x].req
    <3>1. x \in DOMAIN r /\ q[x] = r[x]
      BY <1>5, <1>6, <2>2
    <3>2. QED
      BY <1>2, <2>2, <3>1 DEF CreatesOnce
  <2>3. QED
    BY <2>1, <2>2 DEF CreatesOnce
<1>11. Underway(q, "create") = Underway(p, "create") \ {k}
  BY <1>3, <1>5, <1>7, <1>9
<1>12. \A kind \in Kinds : Underway(q, kind) = Underway(p, kind) \cup {k}
  BY <1>4, <1>5, <1>7
<1>13. \A j \in DOMAIN q : \/ \E n \in DOMAIN p : n # i /\ q[j] = p[n]
                           \/ q[j] \in {Call("sources", k, c), Call("messages", k, c)}
  BY <1>1, <1>2, <1>5
<1>14. QED
  BY <1>5, <1>10, <1>11, <1>12, <1>13

\* A call that completes, or a new creation, keeps CreatesOnce.
LEMMA CreatesKept ==
  ASSUME NEW p \in Seq(Operation), CreatesOnce(p)
  PROVE  /\ \A i \in DOMAIN p : CreatesOnce(RemoveAt(p, i))
         /\ \A k : (\A i \in DOMAIN p : p[i].req # k) /\ k \in RequestId
                     => CreatesOnce(Append(p, Call("create", k, k)))
<1>1. ASSUME NEW i \in DOMAIN p PROVE CreatesOnce(RemoveAt(p, i))
  <2> DEFINE r == RemoveAt(p, i)
  <2>1. \A j \in DOMAIN r :
           LET n == IF j < i THEN j ELSE j + 1 IN
           j \in Nat /\ n \in DOMAIN p /\ n # i /\ r[j] = p[n]
    BY RemovedElements
  <2>2. i \in Nat
    BY LenProperties
  <2> HIDE DEF r
  <2>3. ASSUME NEW x \in DOMAIN r, NEW y \in DOMAIN r,
               r[x].kind = "create", r[x].req = r[y].req
        PROVE  x = y
    <3>1. PICK n \in DOMAIN p : n = (IF x < i THEN x ELSE x + 1) /\ r[x] = p[n]
      BY <2>1
    <3>2. PICK m \in DOMAIN p : m = (IF y < i THEN y ELSE y + 1) /\ r[y] = p[m]
      BY <2>1
    <3>3. n = m
      BY <2>3, <3>1, <3>2 DEF CreatesOnce
    <3>4. x \in Nat /\ y \in Nat
      BY <2>1
    <3>5. QED
      BY <2>2, <3>1, <3>2, <3>3, <3>4
  <2>4. QED
    BY <2>1, <2>3 DEF CreatesOnce, r
<1>2. ASSUME NEW k \in RequestId, \A i \in DOMAIN p : p[i].req # k
      PROVE  CreatesOnce(Append(p, Call("create", k, k)))
  <2> DEFINE c == Call("create", k, k)
             q == Append(p, c)
  <2>1. c.kind = "create" /\ c.req = k /\ c.canc = k /\ c \in Operation
    BY MaxRequestAssumption DEF Call, Operation, RequestId, RequestOrNull
  <2>2. /\ Len(q) = Len(p) + 1 /\ \A i \in 1..Len(p) : q[i] = p[i]
        /\ q[Len(p) + 1] = c /\ q \in Seq(Operation)
    BY <2>1, AppendProperties
  <2>3. DOMAIN p = 1..Len(p) /\ DOMAIN q = 1..(Len(p) + 1) /\ Len(p) \in Nat
    BY <2>2, LenProperties
  <2> HIDE DEF c, q
  <2>4. \A i \in DOMAIN q : \/ i \in DOMAIN p /\ q[i] = p[i]
                            \/ i = Len(p) + 1 /\ q[i] = c
    BY <2>2, <2>3
  <2>5. CreatesOnce(q)
    BY <1>2, <2>1, <2>4 DEF CreatesOnce
  <2>6. QED
    BY <2>5 DEF q, c
<1>3. QED
  BY <1>1, <1>2

-----------------------------------------------------------------------------
(* The service's steps and the calls under way.                            *)

\* Facts about a state of the session.
LEMMA SessionFacts ==
  ASSUME Wired
  PROVE  /\ TypeOK /\ Len(request) \in Nat /\ Requests = 1..Len(request)
         /\ pending \in Seq(Operation) /\ app[Self] \in Application /\ Self \in App
         /\ up \in Seq(UpMessage(Len(request))) /\ down \in Seq(DownMessage(Len(request)))
         /\ \A i \in DOMAIN pending : /\ pending[i].req \in Requests /\ pending[i].req \in RequestId
                                      /\ pending[i].canc \in Requests \cup {0}
         /\ Proxy \in Requests \cup {0} /\ Cancellable \in Requests \cup {0}
         /\ Cancellable \notin cancelled /\ Proxy \notin cancelled
         /\ cancelled \subseteq Requests
         /\ Requests \subseteq RequestId
         /\ \A k \in Requests : Requester(k) = Self /\ Owner(k) = Bus
<1>1. IndInv /\ TypeOK /\ Issued /\ Self \in App /\ CancelledNeverRemote /\ OneClient
  BY SelfAssumption DEF Wired, IndInv
<1>2. Len(request) \in Nat /\ Requests \subseteq RequestId
  BY <1>1, RequestsAreIds
<1>3. pending \in Seq(Operation) /\ app[Self] \in Application
  BY <1>1 DEF TypeOK
<1>4. \A k \in Requests : Requester(k) = Self /\ Owner(k) = Bus
  BY <1>1 DEF OneClient, Requester, Owner
<1>5. QED
  BY <1>1, <1>2, <1>3, <1>4, QueueTypes
     DEF Issued, CancelledNeverRemote, Proxy, Cancellable, Requests

\* The elements of the queues.
LEMMA QueueElements ==
  ASSUME Wired
  PROVE  /\ \A i \in DOMAIN up : /\ up[i] \in UpMessage(Len(request))
                                 /\ up[i].req \in 0..Len(request)
         /\ \A i \in DOMAIN down : /\ down[i] \in DownMessage(Len(request))
                                   /\ down[i].req \in 0..Len(request)
<1>1. up \in Seq(UpMessage(Len(request))) /\ down \in Seq(DownMessage(Len(request)))
  BY QueueTypes
<1>2. /\ \A i \in DOMAIN up : up[i] \in UpMessage(Len(request))
      /\ \A i \in DOMAIN down : down[i] \in DownMessage(Len(request))
  BY <1>1, LenProperties, ElementOfSeq
<1>3. QED
  BY <1>2 DEF UpMessage, DownMessage

\* A step that lets the calls of the service alone.
CallsKept == /\ UNCHANGED <<request, pending, cancelled, leaked>>
             /\ Proxy' = Proxy /\ Cancellable' = Cancellable
             /\ app'[Self].launch = app[Self].launch

\* A change of the items of an application keeps them.
LEMMA UpdateKeepsCalls ==
  ASSUME Wired, NEW a \in App, NEW x, app' = [app EXCEPT ![a] = x],
         x.proxy = app[a].proxy, x.cancellable = app[a].cancellable, x.launch = app[a].launch,
         UNCHANGED <<request, pending, cancelled, leaked>>
  PROVE  CallsKept
<1>1. app \in [App -> Application] /\ Self \in App
  BY SessionFacts DEF TypeOK
<1>2. app'[Self] = IF a = Self THEN x ELSE app[Self]
  BY <1>1
<1>3. QED
  BY <1>2 DEF CallsKept, Proxy, Cancellable

\* Signals and activations change no more than the items.
LEMMA ItemsKeepCalls ==
  ASSUME Wired, TakeUnregister \/ TakeStatus \/ TakeItemSignal \/ UserStep
  PROVE  CallsKept
<1>1. ASSUME UNCHANGED vars PROVE CallsKept
  BY <1>1 DEF vars, CallsKept, Proxy, Cancellable
<1>2. CASE TakeUnregister
  BY <1>2 DEF TakeUnregister, Unregister, ListRemove, calls, CallsKept, Proxy, Cancellable
<1>3. CASE TakeStatus
  BY <1>1, <1>3 DEF TakeStatus
<1>4. ASSUME NEW a \in App, NEW x, Update(a, x),
             x.proxy = app[a].proxy, x.cancellable = app[a].cancellable, x.launch = app[a].launch
      PROVE  CallsKept
  BY <1>4, UpdateKeepsCalls DEF Update, calls
<1>5. app \in [App -> Application] /\ Self \in App
  BY SessionFacts DEF TypeOK
<1>6. ASSUME NEW k \in Requests PROVE Requester(k) \in App /\ app[Requester(k)] \in Application
  BY <1>5, <1>6, SessionFacts
<1>7. CASE TakeItemSignal
  <2>1. ClientSignal \/ UNCHANGED vars
    BY <1>7, SignalIsListed
  <2>2. ASSUME NEW k \in Requests, NEW s \in Source,
               \/ \E v \in SourceState \ {"absent"} : SourceAdded(k, s, v) \/ SourceChanged(k, s, v)
               \/ SourceRemoved(k, s)
        PROVE  CallsKept
    <3>1. PICK a \in App : a = Requester(k) /\ app[a] \in Application
      BY <1>6
    <3>2. PICK x : /\ Update(a, x)
                   /\ \/ \E v : x = AddSources(app[a], [t \in {s} |-> v])
                      \/ \E v : x = ChangeSource(app[a], s, v)
                      \/ x = RemoveSource(app[a], s)
      BY <2>2, <3>1 DEF SourceAdded, SourceChanged, SourceRemoved
    <3>3. x.proxy = app[a].proxy /\ x.cancellable = app[a].cancellable /\ x.launch = app[a].launch
      BY <3>1, <3>2 DEF AddSources, ChangeSource, RemoveSource, Recomputed, Application
    <3>4. QED
      BY <1>4, <3>2, <3>3
  <2>3. ASSUME NEW k \in Requests, NEW m \in Message,
               (\E v \in MessageState \ {"absent"} : MessageAdded(k, m, v)) \/ MessageRemoved(k, m)
        PROVE  CallsKept
    <3>1. PICK a \in App : a = Requester(k) /\ app[a] \in Application
      BY <1>6
    <3>2. PICK x : /\ app' = [app EXCEPT ![a] = x]
                   /\ UNCHANGED <<request, pending, cancelled, leaked>>
                   /\ \/ \E v : x = AddMessages(app[a], [t \in {m} |-> v])
                      \/ x = RemoveMessage(app[a], m)
      BY <2>3, <3>1 DEF MessageAdded, MessageRemoved, Update, calls
    <3>3. x.proxy = app[a].proxy /\ x.cancellable = app[a].cancellable /\ x.launch = app[a].launch
      BY <3>1, <3>2 DEF AddMessages, RemoveMessage, Recomputed, Application
    <3>4. QED
      BY <3>2, <3>3, UpdateKeepsCalls
  <2>4. QED
    BY <1>1, <2>1, <2>2, <2>3 DEF ClientSignal
<1>8. CASE UserStep
  <2>1. ASSUME NEW s \in Source, SourceActivated(Self, s) PROVE CallsKept
    <3>1. PICK x : x = RemoveSource(app[Self], s) /\ Update(Self, x)
      BY <2>1 DEF SourceActivated
    <3>2. /\ x.proxy = app[Self].proxy /\ x.cancellable = app[Self].cancellable
          /\ x.launch = app[Self].launch
      BY <1>5, <3>1 DEF RemoveSource, Recomputed, Application
    <3>3. QED
      BY <1>4, <1>5, <3>1, <3>2
  <2>2. ASSUME NEW m \in Message, MessageActivated(Self, m) PROVE CallsKept
    <3>1. PICK x : x = RemoveMessage(app[Self], m) /\ Update(Self, x)
      BY <2>2 DEF MessageActivated
    <3>2. /\ x.proxy = app[Self].proxy /\ x.cancellable = app[Self].cancellable
          /\ x.launch = app[Self].launch
      BY <1>5, <3>1 DEF RemoveMessage, Recomputed, Application
    <3>3. QED
      BY <1>4, <1>5, <3>1, <3>2
  <2>3. ASSUME RemoveAll PROVE CallsKept
    <3>1. app'[Self] = IF Self \in listed THEN ClearItems(app[Self]) ELSE app[Self]
      BY <1>5, <2>3 DEF RemoveAll
    <3>2. UNCHANGED <<request, pending, cancelled, leaked>>
      BY <2>3 DEF RemoveAll, calls
    <3>3. QED
      BY <1>5, <3>1, <3>2 DEF CallsKept, Proxy, Cancellable, ClearItems, Application
  <2>4. QED
    BY <1>8, <2>1, <2>2, <2>3 DEF UserStep
<1>9. QED
  BY <1>2, <1>3, <1>7, <1>8

\* A list call completes: one call less, the rest as before.
Completed(kind, k) ==
  /\ Current(k)
  /\ \E i \in DOMAIN pending : /\ pending[i].kind = kind /\ pending[i].req = k
                               /\ pending' = RemoveAt(pending, i)
  /\ UNCHANGED <<request, cancelled, leaked>>
  /\ Proxy' = Proxy /\ Cancellable' = Cancellable
  /\ app'[Self].launch = app[Self].launch

\* The items of a reply are added to those of the application.
Added(kind, items) ==
  IF kind = "sources" THEN app' = [app EXCEPT ![Self] = AddSources(@, items)]
  ELSE app' = [app EXCEPT ![Self] = AddMessages(@, items)]

\* The call completes without a reply.
LEMMA FailedStep ==
  ASSUME Wired, NEW kind \in Kinds, NEW k \in Requests, ListFailed(kind, k)
  PROVE  Completed(kind, k) /\ app' = app
<1>1. /\ Current(k) /\ app' = app
      /\ \E i \in Due(kind, k) : pending' = RemoveAt(pending, i)
      /\ UNCHANGED <<request, cancelled, leaked>>
  BY DEF ListFailed, Completes
<1>2. QED
  BY <1>1 DEF Completed, Due, Proxy, Cancellable

\* The call completes with a reply.
LEMMA RepliedStep ==
  ASSUME Wired, NEW kind \in Kinds, NEW k \in Requests, NEW items,
         \/ kind = "sources" /\ SourcesListed(k, items)
         \/ kind = "messages" /\ MessagesListed(k, items)
  PROVE  Completed(kind, k) /\ Added(kind, items)
<1>1. /\ Requester(k) = Self /\ Self \in App
      /\ app \in [App -> Application] /\ app[Self] \in Application
  BY SessionFacts DEF TypeOK
<1>2. Completes(kind, k) /\ Added(kind, items)
  BY <1>1 DEF SourcesListed, MessagesListed, Added
<1>3. /\ Current(k)
      /\ \E i \in Due(kind, k) : pending' = RemoveAt(pending, i)
      /\ UNCHANGED <<request, cancelled, leaked>>
  BY <1>2 DEF Completes
<1>4. app'[Self] = AddSources(app[Self], items) \/ app'[Self] = AddMessages(app[Self], items)
  BY <1>1, <1>2 DEF Added
<1>5. /\ app'[Self].proxy = app[Self].proxy /\ app'[Self].cancellable = app[Self].cancellable
      /\ app'[Self].launch = app[Self].launch
  BY <1>1, <1>4 DEF AddSources, AddMessages, Application
<1>6. QED
  BY <1>2, <1>3, <1>5 DEF Completed, Due, Proxy, Cancellable

\* A callback that finds another proxy ends the service.
LEMMA CrashedStep ==
  ASSUME Wired, NEW kind \in Kinds, NEW k \in Requests, ListCrashed(kind, k)
  PROVE  /\ CallsKept /\ app' = app /\ k # Proxy
         /\ \E i \in DOMAIN pending : pending[i].kind = kind /\ pending[i].req = k
<1>1. Requester(k) = Self
  BY SessionFacts
<1>2. /\ app' = app /\ UNCHANGED <<request, pending, cancelled, leaked>> /\ k # Proxy
      /\ Due(kind, k) # {}
  BY <1>1 DEF ListCrashed, Listing, Current, calls, Proxy
<1>3. QED
  BY <1>2 DEF CallsKept, Due, Proxy, Cancellable

\* What a reply to a list call does.
ReplyTaken(kind, k) ==
  /\ Taken /\ down' = down /\ k \in Requests /\ k = Head(up).req
  /\ Head(up).type \in {kind, Failed(kind)}
  /\ \/ ~Awaited(kind, k) /\ UNCHANGED vars
     \/ /\ Awaited(kind, k) /\ CallsKept /\ app' = app /\ k # Proxy
        /\ \E i \in DOMAIN pending : pending[i].kind = kind /\ pending[i].req = k
     \/ /\ Awaited(kind, k) /\ Completed(kind, k)
        /\ \/ Head(up).type = Failed(kind) /\ app' = app
           \/ Head(up).type = kind /\ Added(kind, Head(up).items)

\* A reply to a list call is ignored, crashes the service, fails, or adds its
\* items.
LEMMA ReplyStep ==
  ASSUME Wired, TakeSources \/ TakeMessages
  PROVE  \E kind \in Kinds : \E k : ReplyTaken(kind, k)
<1>1. PICK k : k = Head(up).req
  OBVIOUS
<1>2. PICK kind \in Kinds :
        /\ Taken /\ down' = down /\ Head(up).type \in {kind, Failed(kind)}
        /\ \/ ~Awaited(kind, k) /\ UNCHANGED vars
           \/ Awaited(kind, k) /\ ListCrashed(kind, k)
           \/ Awaited(kind, k) /\ Head(up).type = Failed(kind) /\ ListFailed(kind, k)
           \/ /\ Awaited(kind, k) /\ Head(up).type = kind
              /\ \/ kind = "sources" /\ SourcesListed(k, Head(up).items)
                 \/ kind = "messages" /\ MessagesListed(k, Head(up).items)
  <2>1. Taken /\ down' = down
    BY TakenStep
  <2>2. CASE TakeSources
    <3>1. "sources" \in Kinds /\ Failed("sources") = "sources-failed"
      BY DEF Kinds, Failed
    <3>2. QED
      BY <1>1, <2>1, <2>2, <3>1 DEF TakeSources, Take
  <2>3. CASE TakeMessages
    <3>1. "messages" \in Kinds /\ Failed("messages") = "messages-failed"
      BY DEF Kinds, Failed
    <3>2. QED
      BY <1>1, <2>1, <2>3, <3>1 DEF TakeMessages, Take
  <2>4. QED
    BY <2>2, <2>3
<1>3. k \in Requests
  <2>1. up # << >> /\ Head(up).type \in {"sources-failed", "messages-failed", "sources", "messages"}
    BY <1>2 DEF Taken, Kinds, Failed
  <2>2. QED
    BY <1>1, <2>1, UpHead
<1>4. ReplyTaken(kind, k)
  <2>1. CASE ~Awaited(kind, k) /\ UNCHANGED vars
    BY <1>1, <1>2, <1>3, <2>1 DEF ReplyTaken
  <2>2. CASE Awaited(kind, k) /\ ListCrashed(kind, k)
    BY <1>1, <1>2, <1>3, <2>2, CrashedStep DEF ReplyTaken
  <2>3. CASE Awaited(kind, k) /\ Head(up).type = Failed(kind) /\ ListFailed(kind, k)
    BY <1>1, <1>2, <1>3, <2>3, FailedStep DEF ReplyTaken
  <2>4. CASE /\ Awaited(kind, k) /\ Head(up).type = kind
             /\ \/ kind = "sources" /\ SourcesListed(k, Head(up).items)
                \/ kind = "messages" /\ MessagesListed(k, Head(up).items)
    <3>1. Completed(kind, k) /\ Added(kind, Head(up).items)
      BY <1>3, <2>4, RepliedStep
    <3>2. QED
      BY <1>1, <1>2, <1>3, <2>4, <3>1 DEF ReplyTaken
  <2>5. QED
    BY <1>2, <2>1, <2>2, <2>3, <2>4
<1>5. QED
  BY <1>4

(***************************************************************************)
(* A proxy: its message is late, because its creation was cancelled or its *)
(* process is gone, or the creation of k completes as call i and both      *)
(* lists are asked for.                                                    *)
(***************************************************************************)
ListAsks(k) == <<Client!Down("list-sources", k, {}, {}), Client!Down("list-messages", k, {}, {})>>
Connects(k, i) ==
  /\ i \in Due("create", k) /\ k \notin cancelled
  /\ app' = [app EXCEPT ![Self].proxy = k, ![Self].launch = TRUE]
  /\ pending' = RemoveAt(pending, i) \o ListBoth(k, Cancellable)
  /\ down' = down \o ListAsks(k)
  /\ UNCHANGED <<request, cancelled>>

\* The creation of a proxy completes a cancelled call, or makes it the remote
\* and asks for the lists.
LEMMA ProxyStep ==
  ASSUME Wired, CallsOnce, TakeProxy
  PROVE  \E k \in Requests :
           /\ k = Head(up).req /\ Head(up).type = "proxy" /\ Taken
           /\ \/ ~Awaited("create", k) /\ UNCHANGED vars /\ down' = down
              \/ \E i \in DOMAIN pending : Connects(k, i)
<1>1. PICK k : k = Head(up).req
  OBVIOUS
<1>2. Taken /\ Head(up).type = "proxy"
  BY DEF TakeProxy, Take, Taken
<1>3. k \in Requests /\ Requester(k) = Self
  BY <1>1, <1>2, UpHead, SessionFacts DEF Taken
<1>4. CASE ~Awaited("create", k)
  BY <1>1, <1>2, <1>3, <1>4 DEF TakeProxy, AskNothing
<1>5. CASE Awaited("create", k)
  <2>1. ProxyCreated(k) /\ down' = down \o ListAsks(k)
    BY <1>1, <1>5 DEF TakeProxy, Ask, ListAsks
  <2>2. k \notin cancelled
    BY <1>5 DEF Awaited, CallsOnce, CreatesOnce
  <2>3. PICK i \in Due("create", k) : Connected(k, Self, i)
    BY <1>3, <2>1, <2>2 DEF ProxyCreated
  <2>4. UNCHANGED <<request, cancelled>>
    BY <2>1 DEF ProxyCreated
  <2>5. i \in DOMAIN pending /\ Connects(k, i)
    BY <2>1, <2>2, <2>3, <2>4 DEF Connected, Connects, Due, Cancellable
  <2>6. QED
    BY <1>1, <1>2, <1>3, <2>5
<1>6. QED
  BY <1>4, <1>5

(***************************************************************************)
(* A call that was cancelled completes: a creation stores NULL, a list     *)
(* call ends as one that failed.                                           *)
(***************************************************************************)
LEMMA CancelledStep ==
  ASSUME Wired, CallsOnce, CancelledCallback
  PROVE  /\ UNCHANGED <<client, bus, request>>
         /\ \E i \in DOMAIN pending :
              /\ pending[i].canc \in cancelled
              /\ \/ /\ pending[i].kind = "create" /\ pending' = RemoveAt(pending, i)
                    /\ pending[i].req \in cancelled
                    /\ app' = [app EXCEPT ![Self].proxy = 0] /\ cancelled' = cancelled
                    /\ leaked' = leaked \cup ({Proxy} \ {0})
                 \/ \E kind \in Kinds : /\ pending[i].kind = kind
                                        /\ \/ Completed(kind, pending[i].req) /\ app' = app
                                           \/ CallsKept /\ app' = app /\ pending[i].req # Proxy
<1>1. UNCHANGED <<client, bus>>
  BY DEF CancelledCallback
<1>2. PICK k \in Requests :
       \/ k \in cancelled /\ ProxyCreated(k)
       \/ \E kind \in {"sources", "messages"} :
            /\ \E i \in Due(kind, k) : pending[i].canc \in cancelled
            /\ ListFailed(kind, k) \/ ListCrashed(kind, k)
  BY DEF CancelledCallback
<1>3. Requester(k) = Self
  BY SessionFacts
<1>4. CASE k \in cancelled /\ ProxyCreated(k)
  <2>1. PICK i \in Due("create", k) : CreationCancelled(k, Self, i)
    BY <1>3, <1>4 DEF ProxyCreated
  <2>2. i \in DOMAIN pending /\ pending[i].kind = "create" /\ pending[i].req = k
    BY <2>1 DEF Due
  <2>3. pending[i].canc = k
    BY <2>2 DEF CallsOnce, CreatesOnce
  <2>4. UNCHANGED <<request, cancelled>> /\ leaked' = leaked \cup ({Proxy} \ {0})
    BY <1>3, <1>4 DEF ProxyCreated, Proxy
  <2>5. QED
    BY <1>1, <1>4, <2>1, <2>2, <2>3, <2>4 DEF CreationCancelled
<1>5. ASSUME NEW kind \in Kinds, NEW i \in Due(kind, k), pending[i].canc \in cancelled,
             ListFailed(kind, k) \/ ListCrashed(kind, k)
      PROVE  /\ request' = request
             /\ i \in DOMAIN pending /\ pending[i].kind = kind /\ pending[i].req = k
             /\ \/ Completed(kind, k) /\ app' = app
                \/ CallsKept /\ app' = app /\ k # Proxy
  <2>1. i \in DOMAIN pending /\ pending[i].kind = kind /\ pending[i].req = k
    BY <1>5 DEF Due
  <2>2. \/ Completed(kind, k) /\ app' = app
        \/ CallsKept /\ app' = app /\ k # Proxy
    BY <1>5, FailedStep, CrashedStep
  <2>3. request' = request
    BY <2>2 DEF Completed, CallsKept
  <2>4. QED
    BY <2>1, <2>2, <2>3
<1>6. QED
  BY <1>1, <1>2, <1>4, <1>5 DEF Kinds

-----------------------------------------------------------------------------
(* CallsOnce is an invariant.                                              *)

\* The names of the messages.
LEMMA CallNames ==
  \A kind \in Kinds : /\ kind \notin {"proxy", "register", "unregister", "stopped", "sources-failed",
                                      "messages-failed"} \cup Status
                      /\ ListCall(kind) \notin {"get-all", "dismiss"}
                      /\ \A other \in Kinds : /\ ListCall(other) = ListCall(kind) => other = kind
                                              /\ Failed(other) = Failed(kind) => other = kind
                                              /\ Failed(other) # kind
<1>1. \A kind \in Kinds : kind \notin Status
  BY StatusIsNoType DEF Kinds, MessageType
<1>2. QED
  BY <1>1 DEF Kinds, ListCall, Failed

\* A call of the client's handlers keeps it.
LEMMA OnceClient ==
  ASSUME Wired, CallsOnce, ClientStep, NEW kind \in Kinds
  PROVE  Once(up', down', Creating, kind)
<1> DEFINE U == UpMessage(Len(request))
           D == DownMessage(Len(request))
<1>1. up \in Seq(U) /\ down \in Seq(D) /\ Once(up, down, Creating, kind)
  BY SessionFacts DEF CallsOnce
<1> HIDE DEF U, D
<1>2. CASE Client!Program
  <2>1. PICK sent : Programmed(sent)
    BY <1>2, ProgramStep
  <2>2. /\ sent \in Seq(U) /\ up' = up \o sent /\ down' = down
        /\ \A i \in DOMAIN sent : sent[i].type # kind
    BY <2>1 DEF Programmed, Kinds, U
  <2>3. Once(up \o sent, down, Creating, kind)
    BY <1>1, <2>2, OnceSent
  <2>4. QED
    BY <2>2, <2>3
<1>3. CASE Client!GetAll
  <2>1. PICK u : Introduced(u)
    BY <1>3, GetAllStep
  <2>2. /\ u \in U /\ up' = up \o <<u>> /\ down' = Tail(down) /\ down # << >> /\ u.type # kind
    BY <2>1 DEF Introduced, Kinds, U
  <2>3. Once(up, Tail(down), Creating, kind)
    BY <1>1, <2>2, OnceHandled
  <2>4. <<u>> \in Seq(U) /\ \A i \in DOMAIN <<u>> : <<u>>[i].type # kind
    BY <2>2
  <2>5. Once(up \o <<u>>, Tail(down), Creating, kind)
    BY <1>1, <2>3, <2>4, OnceSent
  <2>6. QED
    BY <2>2, <2>5
<1>4. CASE Client!ListSources \/ Client!ListMessages
  <2>1. PICK other \in Kinds : \E u : Answered(other, u)
    BY <1>4, ListStep
  <2>2. PICK u : Answered(other, u)
    BY <2>1
  <2>3. /\ u \in U /\ up' = up \o <<u>> /\ down' = Tail(down) /\ down # << >>
        /\ Head(down).type = ListCall(other) /\ u.req = Head(down).req
        /\ u.type \in {other, Failed(other)}
    BY <2>2 DEF Answered, U
  <2>4. CASE other = kind
    <3>1. Once(up \o <<u>>, Tail(down), Creating, kind)
      BY <1>1, <2>3, <2>4, OnceAnswered
    <3>2. QED
      BY <2>3, <3>1
  <2>5. CASE other # kind
    <3>1. u.type # kind
      BY <2>3, <2>5, CallNames
    <3>2. <<u>> \in Seq(U) /\ \A i \in DOMAIN <<u>> : <<u>>[i].type # kind
      BY <2>3, <3>1
    <3>3. Once(up, Tail(down), Creating, kind)
      BY <1>1, <2>3, OnceHandled
    <3>4. Once(up \o <<u>>, Tail(down), Creating, kind)
      BY <1>1, <3>2, <3>3, OnceSent
    <3>5. QED
      BY <2>3, <3>4
  <2>6. QED
    BY <2>4, <2>5
<1>5. CASE Client!Dismiss
  <2>1. down # << >> /\ down' = Tail(down) /\ up' = up
    BY <1>5, DismissStep
  <2>2. Once(up, Tail(down), Creating, kind)
    BY <1>1, <2>1, OnceHandled
  <2>3. QED
    BY <2>1, <2>2
<1>6. QED
  BY <1>2, <1>3, <1>4, <1>5 DEF ClientStep, Client!Handlers

\* What the client sends to a new service.
LEMMA SyncFacts ==
  ASSUME Wired, ServiceProxy
  PROVE  \E sent \in Seq(UpMessage(Len(request))) :
           /\ up' = up \o sent
           /\ \A i \in DOMAIN sent : /\ sent[i].type \in {"register", "unregister"} \cup Status
                                     /\ sent[i].items = << >>
           /\ registered = "yes" =>
                Client!Unheard \/ \E i \in DOMAIN sent : sent[i].type = "register"
<1> DEFINE n == Len(request)
<1>1. n \in Nat /\ up \in Seq(UpMessage(n)) /\ ClientTyped
  BY SessionFacts DEF Wired
<1> HIDE DEF n
<1>2. ASSUME NEW name \in {"register", "unregister"} \cup Status
      PROVE  \E u \in UpMessage(n) : /\ u = Client!MethodCall(name) /\ u.type = name
                                     /\ u.items = << >>
  <2>1. 0 \in 0..n
    BY <1>1
  <2>2. Client!Up(name, 0, Client!NoItems) \in UpMessage(n)
    BY <1>1, <2>1, PlainMessage
  <2>3. QED
    BY <2>2 DEF Client!MethodCall, Client!Up, Client!NoItems
<1>3. PICK a : a = Client!SyncRegistration
  OBVIOUS
<1>4. PICK b : b = Client!SyncStatus
  OBVIOUS
<1>5. /\ a \in Seq(UpMessage(n))
      /\ \A i \in DOMAIN a : a[i].type \in {"register", "unregister"} /\ a[i].items = << >>
      /\ registered = "yes" => 1 \in DOMAIN a /\ a[1].type = "register"
  <2>1. CASE registered = "yes"
    <3>1. PICK u \in UpMessage(n) : u = Client!MethodCall("register") /\ u.type = "register"
                                    /\ u.items = << >>
      BY <1>2
    <3>2. a = <<u>>
      BY <1>3, <2>1, <3>1 DEF Client!SyncRegistration
    <3>3. QED
      BY <3>1, <3>2
  <2>2. CASE registered = "no"
    <3>1. PICK u \in UpMessage(n) : u = Client!MethodCall("unregister") /\ u.type = "unregister"
                                    /\ u.items = << >>
      BY <1>2
    <3>2. a = <<u>>
      BY <1>3, <2>2, <3>1 DEF Client!SyncRegistration
    <3>3. QED
      BY <2>2, <3>1, <3>2
  <2>3. CASE registered \notin {"yes", "no"}
    BY <1>3, <2>3 DEF Client!SyncRegistration
  <2>4. QED
    BY <2>1, <2>2, <2>3
<1>6. /\ b \in Seq(UpMessage(n))
      /\ \A i \in DOMAIN b : b[i].type \in Status /\ b[i].items = << >>
  <2>1. CASE status = "unset"
    BY <1>4, <2>1 DEF Client!SyncStatus
  <2>2. CASE status # "unset"
    <3>1. status \in Status
      BY <1>1, <2>2 DEF ClientTyped
    <3>2. PICK u \in UpMessage(n) : u = Client!MethodCall(status) /\ u.type = status
                                    /\ u.items = << >>
      BY <1>2, <3>1
    <3>3. b = <<u>>
      BY <1>4, <2>2, <3>2 DEF Client!SyncStatus
    <3>4. QED
      BY <3>1, <3>2, <3>3
  <2>3. QED
    BY <2>1, <2>2
<1>7. up' = up \o (a \o b) \/ (up' = up \o << >> /\ Client!Unheard)
  BY <1>3, <1>4 DEF ServiceProxy, Client!CreatedMessagesService, Client!SendCalls, Client!Send
<1>8. /\ a \o b \in Seq(UpMessage(n))
      /\ \A i \in DOMAIN (a \o b) : \/ i \in DOMAIN a /\ (a \o b)[i] = a[i]
                                    \/ /\ i \notin DOMAIN a
                                       /\ i - Len(a) \in DOMAIN b
                                       /\ (a \o b)[i] = b[i - Len(a)]
      /\ \A i \in DOMAIN a : i \in DOMAIN (a \o b) /\ (a \o b)[i] = a[i]
  BY <1>5, <1>6, ConcatElements
<1>9. PICK sent : sent = a \o b
  OBVIOUS
<1>10. /\ sent \in Seq(UpMessage(n)) /\ (up' = up \o << >> \/ up' = up \o sent)
       /\ \A i \in DOMAIN sent : \/ i \in DOMAIN a /\ sent[i] = a[i]
                                 \/ i - Len(a) \in DOMAIN b /\ sent[i] = b[i - Len(a)]
       /\ \A i \in DOMAIN a : i \in DOMAIN sent /\ sent[i] = a[i]
  BY <1>7, <1>8, <1>9
<1>11. \A i \in DOMAIN sent : /\ sent[i].type \in {"register", "unregister"} \cup Status
                              /\ sent[i].items = << >>
  BY <1>5, <1>6, <1>10
<1>12. registered = "yes" => \E i \in DOMAIN sent : sent[i].type = "register"
  BY <1>5, <1>10
<1>13. CASE up' = up \o sent
  BY <1>10, <1>11, <1>12, <1>13 DEF n
<1>14. CASE up' = up \o << >> /\ Client!Unheard
  <2>1. << >> \in Seq(UpMessage(n)) /\ DOMAIN << >> = {}
    OBVIOUS
  <2>2. QED
    BY <1>14, <2>1 DEF n
<1>15. QED
  BY <1>7, <1>9, <1>13, <1>14

\* What a registration does to the calls: it replaces the creations before it,
\* or joins the proxy that is there.
Registers(k) ==
  /\ Taken /\ Head(up).type = "register"
  /\ k = Len(request) + 1 /\ k \in RequestId /\ Len(request') = k
  /\ pending' = Append(pending, Call("create", k, k))
  /\ down' = down \o <<Client!Down("get-all", k, {}, {})>>
  /\ leaked' = leaked /\ Cancellable' = k /\ Proxy' = Proxy
  /\ \/ /\ Cancellable = 0 \/ Proxy # 0
        /\ cancelled' = cancelled /\ app'[Self].launch = app[Self].launch
        /\ app'[Self].sources = app[Self].sources /\ app'[Self].messages = app[Self].messages
     \/ Cancellable # 0 /\ Proxy = 0 /\ cancelled' = cancelled \cup {Cancellable}

\* TakeRegister has this effect.
LEMMA RegisterStep ==
  ASSUME Wired, TakeRegister
  PROVE  \E k : Registers(k)
<1>1. PICK k : k = Len(request) + 1
  OBVIOUS
<1>2. /\ Len(request) \in Nat /\ Self \in App /\ app \in [App -> Application]
      /\ app[Self] \in Application /\ request \in Seq([app : App, owner : Conn])
      /\ Proxy # 0 => Owner(Proxy) = Bus
      /\ [app |-> Self, owner |-> Bus] \in [app : App, owner : Conn]
  BY SessionFacts, SelfAssumption DEF TypeOK
<1>3. /\ Taken /\ Head(up).type = "register" /\ k \in RequestId /\ SetRemote(Self, Bus, k)
      /\ request' = Append(request, [app |-> Self, owner |-> Bus])
      /\ leaked' = leaked
      /\ down' = down \o <<Client!Down("get-all", Len(request'), {}, {})>>
  BY <1>1 DEF TakeRegister, Take, Taken, Register, Ask
<1>4. Len(request') = k
  BY <1>1, <1>2, <1>3, AppendProperties
<1>5. KeepsRemote(Self, Bus) <=> (Cancellable = 0 \/ Proxy # 0)
  BY <1>2 DEF KeepsRemote, Cancellable, Proxy
<1>6. CASE KeepsRemote(Self, Bus)
  <2>1. app' = [app EXCEPT ![Self] = [app[Self] EXCEPT !.cancellable = k]] /\ cancelled' = cancelled
    BY <1>3, <1>6 DEF SetRemote
  <2>2. app'[Self] = [app[Self] EXCEPT !.cancellable = k]
    BY <1>2, <2>1
  <2>3. /\ Proxy' = Proxy /\ Cancellable' = k /\ app'[Self].launch = app[Self].launch
        /\ app'[Self].sources = app[Self].sources /\ app'[Self].messages = app[Self].messages
    BY <1>2, <2>2 DEF Proxy, Cancellable, Application
  <2>4. QED
    BY <1>1, <1>3, <1>4, <1>5, <1>6, <2>1, <2>3 DEF Registers, SetRemote
<1>7. CASE ~KeepsRemote(Self, Bus)
  <2>1. app' = [app EXCEPT ![Self] = [Stopped EXCEPT !.cancellable = k]]
        /\ cancelled' = Cancel(Cancellable)
    BY <1>3, <1>7 DEF SetRemote, Cancellable
  <2>2. app'[Self] = [Stopped EXCEPT !.cancellable = k]
    BY <1>2, <2>1
  <2>3. Proxy' = 0 /\ Cancellable' = k
    BY <2>2 DEF Proxy, Cancellable, Stopped
  <2>4. Cancellable # 0 /\ Proxy = 0 /\ cancelled' = cancelled \cup {Cancellable}
    BY <1>5, <1>7, <2>1 DEF Cancel
  <2>5. QED
    BY <1>1, <1>3, <1>4, <2>3, <2>4 DEF Registers, SetRemote
<1>8. QED
  BY <1>6, <1>7

\* A new process of the service knows of nothing.
Restarts ==
  /\ \E k \in 0..Len(up) : up' = SubSeq(up, k + 1, Len(up))
  /\ pending' = << >> /\ leaked' = {} /\ cancelled' = {} /\ Proxy' = 0 /\ Cancellable' = 0
  /\ app'[Self] = Stopped
  /\ notice' = notice \o <<"vanished", "appeared">>
  /\ UNCHANGED <<client, down, request>>

\* ServiceRestart has this effect.
LEMMA RestartStep ==
  ASSUME Wired, ServiceRestart
  PROVE  Restarts
<1>1. app'[Self] = Stopped
  BY SelfAssumption DEF ServiceRestart, Restart
<1>2. QED
  BY <1>1 DEF ServiceRestart, Restart, Restarts, Proxy, Cancellable, Stopped

\* The user's steps: the client is told, or there is nobody to tell.
Tells(told) ==
  /\ CallsKept /\ UNCHANGED <<client, up, notice>>
  /\ told \in Seq(DownMessage(Len(request))) /\ down' = down \o told
  /\ \A i \in DOMAIN told : told[i].type = "dismiss"

\* UserStep has this effect.
LEMMA UserTells ==
  ASSUME Wired, UserStep
  PROVE  \E told : Tells(told)
<1>1. CallsKept /\ UNCHANGED <<client, up, notice>> /\ Len(request) \in Nat
  BY ItemsKeepCalls, SessionFacts DEF UserStep
<1>2. PICK S \in SUBSET Source, M \in SUBSET Message : Tell(S, M)
  <2>1. /\ \A s \in Source : {s} \in SUBSET Source /\ {} \in SUBSET Message
        /\ \A m \in Message : {m} \in SUBSET Message /\ {} \in SUBSET Source
        /\ {s \in Source : app[Self].sources[s] # "absent"} \in SUBSET Source
        /\ {m \in Message : app[Self].messages[m] # "absent"} \in SUBSET Message
    OBVIOUS
  <2>2. QED
    BY <2>1 DEF UserStep
<1>3. PICK d : d = Client!Down("dismiss", 0, S, M)
  OBVIOUS
<1>4. d \in DownMessage(Len(request)) /\ d.type = "dismiss"
  <2>1. d \in DownMessage(Len(request))
    BY <1>1, <1>3, CallTypes
  <2>2. QED
    BY <1>3, <2>1 DEF Client!Down
<1>5. PICK told : (told = << >> \/ told = <<d>>) /\ down' = down \o told
  BY <1>2, <1>3 DEF Tell, Ask
<1>6. told \in Seq(DownMessage(Len(request))) /\ \A i \in DOMAIN told : told[i].type = "dismiss"
  <2>1. CASE told = << >>
    BY <2>1
  <2>2. CASE told = <<d>>
    BY <1>4, <2>2
  <2>3. QED
    BY <1>5, <2>1, <2>2
<1>7. QED
  BY <1>1, <1>5, <1>6 DEF Tells

\* Every step of the session keeps it.
LEMMA CallsOnceStep == Wired /\ CallsOnce /\ (Undisturbed \/ UserStep) => CallsOnce'
<1> SUFFICES ASSUME Wired, CallsOnce, Undisturbed \/ UserStep PROVE CallsOnce'
  OBVIOUS
<1> DEFINE U == UpMessage(Len(request))
           D == DownMessage(Len(request))
<1>1. /\ up \in Seq(U) /\ down \in Seq(D) /\ pending \in Seq(Operation)
      /\ \A kind \in Kinds : Once(up, down, Creating, kind)
      /\ CreatesOnce(pending) /\ Len(request) \in Nat /\ Requests = 1..Len(request)
      /\ Requests \subseteq RequestId
      /\ \A i \in DOMAIN pending : pending[i].req \in Requests
  BY SessionFacts DEF CallsOnce
<1>2. /\ \A i \in DOMAIN up : up[i] \in U /\ up[i].req \in 0..Len(request)
      /\ \A i \in DOMAIN down : down[i] \in D /\ down[i].req \in 0..Len(request)
  BY QueueElements
<1> HIDE DEF U, D
<1>3. ASSUME pending' = pending, \A kind \in Kinds : Once(up', down', Creating, kind)
      PROVE  CallsOnce'
  BY <1>1, <1>3 DEF CallsOnce, Creating
<1>4. ASSUME Taken, down' = down
      PROVE  \A kind \in Kinds : Once(up', down', Creating, kind)
  BY <1>1, <1>4, OnceTaken DEF Taken
<1>5. ASSUME NEW kind \in Kinds, NEW k, Completed(kind, k), Taken \/ up' = up, down' = down
      PROVE  CallsOnce'
  <2>1. PICK i \in DOMAIN pending : pending' = RemoveAt(pending, i)
    BY <1>5 DEF Completed
  <2>2. Underway(RemoveAt(pending, i), "create") \subseteq Underway(pending, "create")
    BY <1>1, UnderwayRemoved
  <2>3. Creating' \subseteq Creating
    BY <2>1, <2>2 DEF Creating
  <2>4. \A other \in Kinds : Once(up', down', Creating, other)
    BY <1>1, <1>4, <1>5
  <2>5. \A other \in Kinds : Once(up', down', Creating', other)
    <3> SUFFICES ASSUME NEW other \in Kinds PROVE Once(up', down', Creating', other)
      OBVIOUS
    <3>1. PICK E : E = Creating'
      OBVIOUS
    <3>2. Once(up', down', E, other)
      BY <2>3, <2>4, <3>1, OnceCreated
    <3>3. QED
      BY <3>1, <3>2
  <2>6. CreatesOnce(pending')
    BY <1>1, <2>1, CreatesKept
  <2>7. QED
    BY <2>5, <2>6 DEF CallsOnce
<1>6. CASE ClientStep
  <2>1. pending' = pending
    BY <1>6 DEF ClientStep, vars
  <2>2. QED
    BY <1>3, <1>6, <2>1, OnceClient
<1>7. CASE NameVanished \/ NameAppeared
  <2>1. pending' = pending /\ up' = up /\ down' = down
    BY <1>7 DEF NameVanished, NameAppeared, Client!Vanished, Client!Appeared, vars
  <2>2. QED
    BY <1>1, <1>3, <2>1
<1>8. CASE ServiceProxy
  <2>1. PICK sent \in Seq(U) :
          /\ up' = up \o sent
          /\ \A i \in DOMAIN sent : sent[i].type \in {"register", "unregister"} \cup Status
    BY <1>8, SyncFacts DEF U
  <2>2. pending' = pending /\ down' = down
    BY <1>8 DEF ServiceProxy, Client!CreatedMessagesService, vars
  <2>3. ASSUME NEW kind \in Kinds PROVE Once(up', down', Creating, kind)
    <3>1. \A i \in DOMAIN sent : sent[i].type # kind
      BY <2>1, CallNames
    <3>2. Once(up \o sent, down, Creating, kind)
      BY <1>1, <3>1, OnceSent
    <3>3. QED
      BY <2>1, <2>2, <3>2
  <2>4. QED
    BY <1>3, <2>2, <2>3
<1>9. CASE TakeRegister
  <2>1. PICK k : Registers(k)
    BY <1>9, RegisterStep
  <2>2. PICK d : d = Client!Down("get-all", k, {}, {})
    OBVIOUS
  <2>3. /\ k = Len(request) + 1 /\ k \in RequestId /\ Taken
        /\ pending' = Append(pending, Call("create", k, k))
        /\ down' = down \o <<d>> /\ d.type = "get-all"
    BY <2>1, <2>2 DEF Registers, Client!Down
  <2>4. k \notin 0..Len(request)
    BY <1>1, <2>3
  <2>5. Creating' = Creating \cup {k}
    <3>1. PICK q : q = Append(pending, Call("create", k, k))
      OBVIOUS
    <3>2. Underway(q, "create") = Underway(pending, "create") \cup {k}
      <4>1. pending \in Seq(Operation) /\ k \in RequestId
        BY <1>1, <2>3
      <4>2. QED
        BY <3>1, <4>1, UnderwayCreate
    <3>3. QED
      BY <2>3, <3>1, <3>2 DEF Creating
  <2>6. CreatesOnce(pending')
    <3>1. \A i \in DOMAIN pending : pending[i].req # k
      BY <1>1, <2>4
    <3>2. QED
      BY <1>1, <2>3, <3>1, CreatesKept
  <2>7. ASSUME NEW kind \in Kinds PROVE Once(up', down', Creating', kind)
    <3>1. PICK E : E = Creating \cup {k}
      OBVIOUS
    <3>2. Once(up, down, Creating, kind)
      BY <1>1
    <3>3. /\ \A i \in DOMAIN up : up[i].type = kind /\ up[i].req \in E => up[i].req \in Creating
          /\ \A j \in DOMAIN down : down[j].type = ListCall(kind) /\ down[j].req \in E
                                      => down[j].req \in Creating
      BY <1>2, <2>4, <3>1
    <3>4. Once(up, down, E, kind)
      BY <3>2, <3>3, OnceCreated
    <3>5. Once(Tail(up), down, E, kind)
      BY <1>1, <2>3, <3>4, OnceTaken DEF Taken
    <3>6. d \in D \cup {d} /\ down \in Seq(D \cup {d}) /\ <<d>> \in Seq(D \cup {d})
      <4>1. D \subseteq D \cup {d}
        OBVIOUS
      <4>2. QED
        BY <1>1, <4>1, SeqMonotonic
    <3>7. \A i \in DOMAIN <<d>> : <<d>>[i].type # ListCall(kind)
      BY <2>3, CallNames
    <3>8. Once(Tail(up), down \o <<d>>, E, kind)
      BY <3>5, <3>6, <3>7, OnceCalled
    <3>9. QED
      BY <2>3, <2>5, <3>1, <3>8 DEF Taken
  <2>8. QED
    BY <2>6, <2>7 DEF CallsOnce
<1>10. CASE TakeUnregister \/ TakeStatus \/ TakeItemSignal
  <2>1. Taken /\ down' = down /\ pending' = pending
    BY <1>10, TakenStep, ItemsKeepCalls DEF CallsKept
  <2>2. QED
    BY <1>3, <1>4, <2>1
<1>11. CASE TakeStopped
  <2>1. Taken /\ down' = down
    BY <1>11, TakenStep
  <2>2. pending' = pending
    BY <1>11 DEF TakeStopped, ApplicationStopped, vars
  <2>3. QED
    BY <1>3, <1>4, <2>1, <2>2
<1>12. CASE TakeProxy
  <2>1. PICK k \in Requests :
           /\ k = Head(up).req /\ Head(up).type = "proxy" /\ Taken
           /\ \/ ~Awaited("create", k) /\ UNCHANGED vars /\ down' = down
              \/ \E i \in DOMAIN pending : Connects(k, i)
    BY <1>12, ProxyStep
  <2>2. CASE UNCHANGED vars /\ down' = down
    BY <1>3, <1>4, <2>1, <2>2 DEF vars
  <2>3. ASSUME NEW i \in DOMAIN pending, Connects(k, i) PROVE CallsOnce'
    <3>0. PICK a, b : /\ a = Client!Down("list-sources", k, {}, {})
                      /\ b = Client!Down("list-messages", k, {}, {})
      OBVIOUS
    <3>1. /\ ListAsks(k) = <<a, b>> /\ a.req = k /\ b.req = k
          /\ a.type = "list-sources" /\ b.type = "list-messages"
      BY <3>0 DEF ListAsks, Client!Down
    <3>2. PICK c : c = Cancellable
      OBVIOUS
    <3>3. /\ pending[i].kind = "create" /\ pending[i].req = k
          /\ pending' = RemoveAt(pending, i) \o ListBoth(k, c)
          /\ down' = down \o <<a, b>>
      BY <2>3, <3>1, <3>2 DEF Connects, Due
    <3>4. k \in RequestId /\ c \in RequestOrNull
      BY <1>1, <3>2, SessionFacts DEF Application, Cancellable
    <3>5. CreatesOnce(pending') /\ Underway(pending', "create") = Underway(pending, "create") \ {k}
      <4>1. PICK q : q = pending'
        OBVIOUS
      <4>2. q = RemoveAt(pending, i) \o ListBoth(k, c)
        BY <3>3, <4>1
      <4>3. AsksLists(pending, i, k, c, q)
        BY <1>1, <3>3, <3>4, <4>2 DEF AsksLists
      <4>4. QED
        BY <4>1, <4>3, UnderwayLists
    <3>6. Creating' = Creating \ {k}
      BY <3>5 DEF Creating
    <3>7. k \in Creating
      BY <3>3 DEF Creating, Underway
    <3>8. ASSUME NEW kind \in Kinds PROVE Once(up', down', Creating', kind)
      <4>1. PICK E : E = Creating \ {k}
        OBVIOUS
      <4>2. Once(Tail(up), down, Creating, kind)
        BY <1>1, <2>1, OnceTaken DEF Taken
      <4>3. PICK T : T = D \cup {a, b}
        OBVIOUS
      <4>4. down \in Seq(T) /\ a \in T /\ b \in T
        <5>1. D \subseteq T
          BY <4>3
        <5>2. QED
          BY <1>1, <4>3, <5>1, SeqMonotonic
      <4>5. ~(a.type = ListCall(kind) /\ b.type = ListCall(kind))
        BY <3>1
      <4>6. E \subseteq Creating /\ k \notin E
        BY <4>1
      <4>7. Once(Tail(up), down \o <<a, b>>, E, kind)
        BY <3>1, <3>7, <4>2, <4>4, <4>5, <4>6, OnceAsked
      <4>8. QED
        BY <2>1, <3>3, <3>6, <4>1, <4>7 DEF Taken
    <3>9. QED
      BY <3>5, <3>8 DEF CallsOnce
  <2>4. QED
    BY <2>1, <2>2, <2>3
<1>13. CASE TakeSources \/ TakeMessages
  <2>1. PICK kind \in Kinds : \E k : ReplyTaken(kind, k)
    BY <1>13, ReplyStep
  <2>2. PICK k : ReplyTaken(kind, k)
    BY <2>1
  <2>3. Taken /\ down' = down /\ (pending' = pending \/ Completed(kind, k))
    BY <2>2 DEF ReplyTaken, CallsKept, vars
  <2>4. QED
    BY <1>3, <1>4, <1>5, <2>3
<1>14. CASE CancelledCallback
  <2>1. up' = up /\ down' = down
    BY <1>14, CancelledStep DEF bus
  <2>2. PICK i \in DOMAIN pending :
          \/ pending' = RemoveAt(pending, i)
          \/ pending' = pending
          \/ \E kind \in Kinds : Completed(kind, pending[i].req)
    BY <1>14, CancelledStep DEF CallsKept
  <2>3. CASE pending' = RemoveAt(pending, i)
    <3>1. Underway(RemoveAt(pending, i), "create") \subseteq Underway(pending, "create")
      BY <1>1, UnderwayRemoved
    <3>2. Creating' \subseteq Creating
      BY <2>3, <3>1 DEF Creating
    <3>3. ASSUME NEW kind \in Kinds PROVE Once(up', down', Creating', kind)
      <4>1. PICK E : E = Creating'
        OBVIOUS
      <4>2. Once(up, down, Creating, kind)
        BY <1>1
      <4>3. Once(up, down, E, kind)
        BY <3>2, <4>1, <4>2, OnceCreated
      <4>4. QED
        BY <2>1, <4>1, <4>3
    <3>4. CreatesOnce(pending')
      BY <1>1, <2>3, CreatesKept
    <3>5. QED
      BY <3>3, <3>4 DEF CallsOnce
  <2>4. CASE pending' = pending
    BY <1>1, <1>3, <2>1, <2>4
  <2>5. ASSUME NEW kind \in Kinds, Completed(kind, pending[i].req) PROVE CallsOnce'
    BY <1>5, <2>1, <2>5
  <2>6. QED
    BY <2>2, <2>3, <2>4, <2>5
<1>15. CASE ServiceRestart
  <2>1. PICK k \in 0..Len(up) : up' = SubSeq(up, k + 1, Len(up))
    BY <1>15, RestartStep DEF Restarts
  <2>2. pending' = << >> /\ down' = down
    BY <1>15, RestartStep DEF Restarts
  <2>3. Creating' = {} /\ CreatesOnce(pending')
    BY <2>2 DEF Creating, Underway, CreatesOnce
  <2>4. ASSUME NEW kind \in Kinds PROVE Once(up', down', Creating', kind)
    <3>1. PICK q : q = SubSeq(up, k + 1, Len(up))
      OBVIOUS
    <3>2. Once(q, down, Creating, kind)
      BY <1>1, <3>1, OnceTaken
    <3>3. Once(q, down, {}, kind)
      BY <3>2, OnceCreated
    <3>4. QED
      BY <2>1, <2>2, <2>3, <3>1, <3>3
  <2>5. QED
    BY <2>3, <2>4 DEF CallsOnce
<1>16. CASE UserStep
  <2>1. PICK told : Tells(told)
    BY <1>16, UserTells
  <2>2. /\ pending' = pending /\ up' = up /\ told \in Seq(D) /\ down' = down \o told
        /\ \A i \in DOMAIN told : told[i].type = "dismiss"
    BY <2>1 DEF Tells, CallsKept, D
  <2>3. ASSUME NEW kind \in Kinds PROVE Once(up', down', Creating, kind)
    <3>1. \A i \in DOMAIN told : told[i].type # ListCall(kind)
      BY <2>2, CallNames
    <3>2. Once(up, down, Creating, kind)
      BY <1>1
    <3>3. Once(up, down \o told, Creating, kind)
      BY <1>1, <2>2, <3>1, <3>2, OnceCalled
    <3>4. QED
      BY <2>2, <3>3
  <2>4. QED
    BY <1>3, <2>2, <2>3
<1>17. QED
  BY <1>6, <1>7, <1>8, <1>9, <1>10, <1>11, <1>12, <1>13, <1>14, <1>15, <1>16
     DEF Undisturbed, Service

-----------------------------------------------------------------------------
(* Phased is an invariant.                                                 *)

\* A client that was disposed stays so, and holds nothing.
LEMMA DisposedStep ==
  ASSUME Wired, Undisturbed \/ UserStep,
         disposed => /\ sources = [s \in Source |-> Client!NoSource]
                     /\ messages = [m \in Message |-> "absent"]
  PROVE  /\ disposed => disposed'
         /\ disposed' => /\ sources' = [s \in Source |-> Client!NoSource]
                         /\ messages' = [m \in Message |-> "absent"]
<1>1. ASSUME UNCHANGED <<disposed, sources, messages>>
      PROVE  /\ disposed => disposed'
             /\ disposed' => /\ sources' = [s \in Source |-> Client!NoSource]
                             /\ messages' = [m \in Message |-> "absent"]
  BY <1>1
<1>2. CASE UNCHANGED client
  BY <1>1, <1>2 DEF client
<1>3. CASE ClientStep
  <2>1. CASE Client!Program
    <3>1. PICK sent : Programmed(sent)
      BY <2>1, ProgramStep
    <3>2. QED
      BY <3>1 DEF Programmed
  <2>2. CASE Client!GetAll \/ Client!ListSources \/ Client!ListMessages
    BY <1>1, <2>2 DEF Client!GetAll, Client!ListSources, Client!ListMessages, Client!clientVars
  <2>3. CASE Client!Dismiss
    <3>1. disposed' = disposed
      BY <2>3, DismissStep
    <3>2. CASE disposed
      <4>1. \A s \in Source : sources[s] = Client!NoSource
        BY <3>2
      <4>2. \A m \in Message : messages[m] = "absent"
        BY <3>2
      <4>3. sources' = [s \in Source |-> Client!NoSource]
        BY <2>3, <4>1 DEF Client!Dismiss
      <4>4. messages' = [m \in Message |-> "absent"]
        BY <2>3, <4>2 DEF Client!Dismiss
      <4>5. QED
        BY <3>1, <3>2, <4>3, <4>4
    <3>3. QED
      BY <3>1, <3>2
  <2>4. QED
    BY <1>3, <2>1, <2>2, <2>3 DEF ClientStep, Client!Handlers
<1>4. CASE NameVanished \/ NameAppeared \/ ServiceProxy
  BY <1>1, <1>4 DEF NameVanished, NameAppeared, ServiceProxy, Client!Vanished, Client!Appeared,
     Client!CreatedMessagesService
<1>5. CASE TakeRegister
  BY <1>2, <1>5, RegisterStep DEF Registers, Taken
<1>6. CASE TakeUnregister \/ TakeStopped \/ TakeStatus \/ TakeItemSignal
             \/ TakeSources \/ TakeMessages
  BY <1>2, <1>6, TakenStep DEF Taken
<1>7. CASE TakeProxy
  BY <1>2, <1>7 DEF TakeProxy, Take
<1>8. CASE CancelledCallback \/ ServiceRestart \/ UserStep
  BY <1>2, <1>8 DEF CancelledCallback, ServiceRestart, UserStep
<1>9. QED
  BY <1>3, <1>4, <1>5, <1>6, <1>7, <1>8 DEF Undisturbed, Service

\* A client that is not disposed says neither that it stopped nor that a list failed.
Failures == {"stopped", "sources-failed", "messages-failed"}

\* No step of one adds such a message.
LEMMA NothingFailedStep ==
  ASSUME Wired, Undisturbed \/ UserStep, NothingFailed, ~disposed, ~disposed'
  PROVE  NothingFailed'
<1> DEFINE U == UpMessage(Len(request))
<1>1. up \in Seq(U)
  BY SessionFacts
<1> HIDE DEF U
<1>2. ASSUME up' = up PROVE NothingFailed'
  BY <1>2 DEF NothingFailed
<1>3. ASSUME NEW sent \in Seq(U), up' = up \o sent,
             \A i \in DOMAIN sent : sent[i].type \notin Failures
      PROVE  NothingFailed'
  <2>1. \A i \in DOMAIN (up \o sent) : \/ i \in DOMAIN up /\ (up \o sent)[i] = up[i]
                                       \/ /\ i - Len(up) \in DOMAIN sent
                                          /\ (up \o sent)[i] = sent[i - Len(up)]
    BY <1>1, ConcatElements
  <2>2. QED
    BY <1>3, <2>1 DEF NothingFailed, Failures
<1>4. ASSUME Taken PROVE NothingFailed'
  <2>1. \A i \in DOMAIN Tail(up) : i + 1 \in DOMAIN up /\ Tail(up)[i] = up[i + 1]
    BY <1>1, <1>4, TailElements DEF Taken
  <2>2. QED
    BY <1>4, <2>1 DEF NothingFailed, Taken
<1>5. CASE ClientStep
  <2>1. CASE Client!Program
    <3>1. PICK sent : Programmed(sent)
      BY <2>1, ProgramStep
    <3>2. /\ sent \in Seq(U) /\ up' = up \o sent
          /\ \A i \in DOMAIN sent : sent[i].type \notin Failures
      BY <3>1 DEF Programmed, U, Failures
    <3>3. QED
      BY <1>3, <3>2
  <2>2. CASE Client!GetAll
    <3>1. PICK u : Introduced(u)
      BY <2>2, GetAllStep
    <3>2. u \in U /\ up' = up \o <<u>> /\ u.type \notin Failures
      BY <3>1 DEF Introduced, U, Failures
    <3>3. <<u>> \in Seq(U) /\ \A i \in DOMAIN <<u>> : <<u>>[i].type \notin Failures
      BY <3>2
    <3>4. QED
      BY <1>3, <3>2, <3>3
  <2>3. CASE Client!ListSources \/ Client!ListMessages
    <3>1. PICK kind \in Kinds : \E u : Answered(kind, u)
      BY <2>3, ListStep
    <3>2. PICK u : Answered(kind, u)
      BY <3>1
    <3>3. u \in U /\ up' = up \o <<u>> /\ u.type = kind
      BY <3>2 DEF Answered, U
    <3>4. kind \notin Failures
      BY DEF Kinds, Failures
    <3>5. <<u>> \in Seq(U) /\ \A i \in DOMAIN <<u>> : <<u>>[i].type \notin Failures
      BY <3>3, <3>4
    <3>6. QED
      BY <1>3, <3>3, <3>5
  <2>4. CASE Client!Dismiss
    BY <1>2, <2>4, DismissStep
  <2>5. QED
    BY <1>5, <2>1, <2>2, <2>3, <2>4 DEF ClientStep, Client!Handlers
<1>6. CASE NameVanished \/ NameAppeared
  BY <1>2, <1>6 DEF NameVanished, NameAppeared, Client!Vanished, Client!Appeared
<1>7. CASE ServiceProxy
  <2>1. PICK sent \in Seq(U) :
          /\ up' = up \o sent
          /\ \A i \in DOMAIN sent : sent[i].type \in {"register", "unregister"} \cup Status
    BY <1>7, SyncFacts DEF U
  <2>2. \A x \in {"register", "unregister"} \cup Status : x \notin Failures
    BY StatusIsNoType DEF Failures, MessageType
  <2>3. QED
    BY <1>3, <2>1, <2>2
<1>8. CASE TakeRegister
  BY <1>4, <1>8, RegisterStep DEF Registers
<1>9. CASE TakeUnregister \/ TakeStopped \/ TakeStatus \/ TakeItemSignal
             \/ TakeSources \/ TakeMessages
  BY <1>4, <1>9, TakenStep
<1>10. CASE TakeProxy
  BY <1>4, <1>10 DEF TakeProxy, Take, Taken
<1>11. CASE CancelledCallback \/ UserStep
  BY <1>2, <1>11 DEF CancelledCallback, UserStep, bus
<1>12. CASE ServiceRestart
  <2>1. PICK k \in 0..Len(up) : up' = SubSeq(up, k + 1, Len(up))
    BY <1>12, RestartStep DEF Restarts
  <2>2. \A i \in DOMAIN SubSeq(up, k + 1, Len(up)) :
          k + i \in DOMAIN up /\ SubSeq(up, k + 1, Len(up))[i] = up[k + i]
    BY <1>1, RestElements
  <2>3. QED
    BY <2>1, <2>2 DEF NothingFailed
<1>13. QED
  BY <1>5, <1>6, <1>7, <1>8, <1>9, <1>10, <1>11, <1>12 DEF Undisturbed, Service

\* What is asked or answered stays on the bus until it is taken.
LEMMA IntroducingKept ==
  ASSUME Wired, NEW k, Introducing(k),
         \/ up' = up
         \/ \E T : up \in Seq(T) /\ \E sent \in Seq(T) : up' = up \o sent
         \/ up # << >> /\ up' = Tail(up) /\ (Head(up).type # "proxy" \/ Head(up).req # k),
         \/ down' = down
         \/ \E T : down \in Seq(T) /\ \E sent \in Seq(T) : down' = down \o sent
         \/ down # << >> /\ down' = Tail(down) /\ (Head(down).type # "get-all" \/ Head(down).req # k)
  PROVE  Introducing(k)'
<1>1. ASSUME NEW i \in DOMAIN down, down[i].type = "get-all", down[i].req = k
      PROVE  \E j \in DOMAIN down' : down'[j].type = "get-all" /\ down'[j].req = k
  <2>1. CASE down' = down
    BY <1>1, <2>1
  <2>2. ASSUME NEW T, down \in Seq(T), NEW sent \in Seq(T), down' = down \o sent
        PROVE  \E j \in DOMAIN down' : down'[j].type = "get-all" /\ down'[j].req = k
    <3>1. i \in DOMAIN (down \o sent) /\ (down \o sent)[i] = down[i]
      BY <2>2, ConcatElements
    <3>2. QED
      BY <1>1, <2>2, <3>1
  <2>3. CASE down # << >> /\ down' = Tail(down) /\ (Head(down).type # "get-all" \/ Head(down).req # k)
    <3>1. PICK T : down \in Seq(T)
      BY QueueTypes
    <3>2. /\ down[1] = Head(down)
          /\ i # 1 => i - 1 \in DOMAIN Tail(down) /\ Tail(down)[i - 1] = down[i]
      BY <2>3, <3>1, TailElements
    <3>3. QED
      BY <1>1, <2>3, <3>2
  <2>4. QED
    BY <2>1, <2>2, <2>3
<1>2. ASSUME NEW i \in DOMAIN up, up[i].type = "proxy", up[i].req = k
      PROVE  \E j \in DOMAIN up' : up'[j].type = "proxy" /\ up'[j].req = k
  <2>1. CASE up' = up
    BY <1>2, <2>1
  <2>2. ASSUME NEW T, up \in Seq(T), NEW sent \in Seq(T), up' = up \o sent
        PROVE  \E j \in DOMAIN up' : up'[j].type = "proxy" /\ up'[j].req = k
    <3>1. i \in DOMAIN (up \o sent) /\ (up \o sent)[i] = up[i]
      BY <2>2, ConcatElements
    <3>2. QED
      BY <1>2, <2>2, <3>1
  <2>3. CASE up # << >> /\ up' = Tail(up) /\ (Head(up).type # "proxy" \/ Head(up).req # k)
    <3>1. PICK T : up \in Seq(T)
      BY QueueTypes
    <3>2. /\ up[1] = Head(up)
          /\ i # 1 => i - 1 \in DOMAIN Tail(up) /\ Tail(up)[i - 1] = up[i]
      BY <2>3, <3>1, TailElements
    <3>3. QED
      BY <1>2, <2>3, <3>2
  <2>4. QED
    BY <2>1, <2>2, <2>3
<1>3. QED
  BY <1>1, <1>2 DEF Introducing

\* The client answers in the order of the calls.
LEMMA IntroducingClient ==
  ASSUME Wired, ClientStep, NEW k, Introducing(k)
  PROVE  Introducing(k)'
<1> DEFINE U == UpMessage(Len(request))
<1>1. up \in Seq(U) /\ down \in Seq(DownMessage(Len(request)))
  BY SessionFacts
<1> HIDE DEF U
<1>2. CASE Client!Program
  <2>1. PICK sent : Programmed(sent)
    BY <1>2, ProgramStep
  <2>2. sent \in Seq(U) /\ up' = up \o sent /\ down' = down
    BY <2>1 DEF Programmed, U
  <2>3. QED
    BY <1>1, <2>2, IntroducingKept
<1>3. CASE Client!GetAll
  <2>1. PICK u : Introduced(u)
    BY <1>3, GetAllStep
  <2>2. /\ u \in U /\ up' = up \o <<u>> /\ u.type = "proxy" /\ u.req = Head(down).req
        /\ down # << >> /\ down' = Tail(down)
    BY <2>1 DEF Introduced, U
  <2>3. <<u>> \in Seq(U) /\ 1 \in DOMAIN <<u>> /\ <<u>>[1] = u
    BY <2>2
  <2>4. CASE Head(down).req = k
    <3>1. Len(up) + 1 \in DOMAIN (up \o <<u>>) /\ (up \o <<u>>)[Len(up) + 1] = u
      BY <1>1, <2>3, ConcatElements
    <3>2. QED
      BY <2>2, <2>4, <3>1 DEF Introducing
  <2>5. CASE Head(down).req # k
    BY <1>1, <2>2, <2>3, <2>5, IntroducingKept
  <2>6. QED
    BY <2>4, <2>5
<1>4. CASE Client!ListSources \/ Client!ListMessages
  <2>1. PICK kind \in Kinds : \E u : Answered(kind, u)
    BY <1>4, ListStep
  <2>2. PICK u : Answered(kind, u)
    BY <2>1
  <2>3. /\ u \in U /\ up' = up \o <<u>> /\ down # << >> /\ down' = Tail(down)
        /\ Head(down).type # "get-all"
    BY <2>2, CallNames DEF Answered, U
  <2>4. <<u>> \in Seq(U)
    BY <2>3
  <2>5. QED
    BY <1>1, <2>3, <2>4, IntroducingKept
<1>5. CASE Client!Dismiss
  <2>1. down # << >> /\ down' = Tail(down) /\ Head(down).type # "get-all" /\ up' = up
    BY <1>5, DismissStep
  <2>2. QED
    BY <2>1, IntroducingKept
<1>6. QED
  BY <1>2, <1>3, <1>4, <1>5 DEF ClientStep, Client!Handlers

\* The steps of the client and of the bus let the calls of the service alone.
LEMMA ClientKeepsCalls ==
  ASSUME ClientStep \/ NameVanished \/ NameAppeared \/ ServiceProxy
  PROVE  CallsKept
BY DEF ClientStep, NameVanished, NameAppeared, ServiceProxy, vars, CallsKept, Proxy, Cancellable

\* The steps that let the calls alone let a creation be on its way.
LEMMA IntroducingStep ==
  ASSUME Wired, NEW k, Introducing(k),
         \/ ClientStep \/ NameVanished \/ NameAppeared \/ ServiceProxy
         \/ TakeUnregister \/ TakeStatus \/ TakeItemSignal \/ TakeSources \/ TakeMessages
         \/ CancelledCallback \/ UserStep
  PROVE  Introducing(k)'
<1> DEFINE U == UpMessage(Len(request))
<1>1. up \in Seq(U) /\ down \in Seq(DownMessage(Len(request)))
  BY SessionFacts
<1> HIDE DEF U
<1>2. CASE ClientStep
  BY <1>2, IntroducingClient
<1>3. CASE NameVanished \/ NameAppeared
  <2>1. up' = up /\ down' = down
    BY <1>3 DEF NameVanished, NameAppeared, Client!Vanished, Client!Appeared
  <2>2. QED
    BY <2>1, IntroducingKept
<1>4. CASE ServiceProxy
  <2>1. PICK sent \in Seq(U) : up' = up \o sent
    BY <1>4, SyncFacts DEF U
  <2>2. down' = down
    BY <1>4 DEF ServiceProxy, Client!CreatedMessagesService
  <2>3. QED
    BY <1>1, <2>1, <2>2, IntroducingKept
<1>5. CASE TakeUnregister \/ TakeStatus \/ TakeItemSignal \/ TakeSources \/ TakeMessages
  <2>1. Taken /\ down' = down /\ Head(up).type # "proxy"
    BY <1>5, TakenStep
  <2>2. QED
    BY <2>1, IntroducingKept DEF Taken
<1>6. CASE CancelledCallback
  <2>1. up' = up /\ down' = down
    BY <1>6 DEF CancelledCallback, bus
  <2>2. QED
    BY <2>1, IntroducingKept
<1>7. CASE UserStep
  <2>1. PICK told : Tells(told)
    BY <1>7, UserTells
  <2>2. up' = up /\ told \in Seq(DownMessage(Len(request))) /\ down' = down \o told
    BY <2>1 DEF Tells
  <2>3. QED
    BY <1>1, <2>2, IntroducingKept
<1>8. QED
  BY <1>2, <1>3, <1>4, <1>5, <1>6, <1>7

\* A step from a state without a proxy.
LEMMA UnconnectedStep ==
  ASSUME Wired, CallsOnce, Undisturbed \/ UserStep, ~disposed, NothingFailed,
         Proxy = 0, Unconnected
  PROVE  /\ Proxy' = 0 => Unconnected'
         /\ Proxy' # 0 => Uncancelled'
<1>1. /\ pending \in Seq(Operation) /\ Len(request) \in Nat
      /\ Cancellable \in Requests \cup {0} /\ Cancellable \notin cancelled
      /\ cancelled \subseteq Requests /\ Requests = 1..Len(request)
      /\ \A i \in DOMAIN pending : pending[i].req \in Requests
      /\ \A k \in Requests : Requester(k) = Self
      /\ Len(pending) \in Nat /\ DOMAIN pending = 1..Len(pending)
      /\ pending = << >> <=> Len(pending) = 0
  BY SessionFacts, LenProperties, EmptySeq
<1>2. PICK c : c = Cancellable
  OBVIOUS
<1>3. /\ \A i \in DOMAIN pending : pending[i].kind = "create" /\ pending[i].canc = pending[i].req
      /\ c # 0 => /\ pending # << >>
                  /\ pending[Len(pending)].req = c /\ c \notin cancelled
                  /\ \A i \in DOMAIN pending : i # Len(pending) => pending[i].req \in cancelled
                  /\ Introducing(c)
      /\ c = 0 => pending = << >>
      /\ leaked = {}
  <2>1. CASE c = 0
    BY <1>1, <1>2, <2>1 DEF Unconnected
  <2>2. CASE c # 0
    <3>1. /\ pending # << >> /\ leaked = {} /\ Introducing(c)
          /\ pending[Len(pending)] = Call("create", c, c)
          /\ \A i \in 1..(Len(pending) - 1) : /\ pending[i].kind = "create"
                                              /\ pending[i].req \in cancelled
      BY <1>2, <2>2 DEF Unconnected
    <3>2. \A i \in DOMAIN pending : i # Len(pending) => i \in 1..(Len(pending) - 1)
      BY <1>1
    <3>3. pending[Len(pending)].req = c /\ pending[Len(pending)].kind = "create"
      BY <3>1 DEF Call
    <3>4. \A i \in DOMAIN pending : pending[i].kind = "create"
      BY <3>1, <3>2, <3>3
    <3>5. QED
      BY <1>1, <1>2, <2>2, <3>1, <3>2, <3>3, <3>4 DEF CallsOnce, CreatesOnce
  <2>3. QED
    BY <2>1, <2>2
<1>4. ASSUME CallsKept, c # 0 => Introducing(c)'
      PROVE  Proxy' = 0 /\ Unconnected'
  <2>1. Cancellable' = c /\ pending' = pending /\ cancelled' = cancelled /\ leaked' = leaked
        /\ Proxy' = 0
    BY <1>2, <1>4 DEF CallsKept
  <2>2. QED
    BY <1>2, <1>4, <2>1 DEF Unconnected
<1>5. CASE ClientStep \/ NameVanished \/ NameAppeared \/ ServiceProxy
  BY <1>3, <1>4, <1>5, ClientKeepsCalls, IntroducingStep
<1>6. CASE TakeUnregister \/ TakeStatus \/ TakeItemSignal \/ UserStep
  BY <1>3, <1>4, <1>6, ItemsKeepCalls, IntroducingStep
<1>7. CASE TakeRegister
  <2>1. PICK k : Registers(k)
    BY <1>7, RegisterStep
  <2>2. /\ k = Len(request) + 1 /\ k \in RequestId
        /\ pending' = Append(pending, Call("create", k, k))
        /\ down' = down \o <<Client!Down("get-all", k, {}, {})>>
        /\ leaked' = {} /\ Cancellable' = k /\ Proxy' = 0
        /\ \/ c = 0 /\ cancelled' = cancelled
           \/ c # 0 /\ cancelled' = cancelled \cup {c}
    BY <1>2, <1>3, <2>1 DEF Registers
  <2>3. Call("create", k, k) \in Operation
    BY <2>2 DEF Call, Operation, RequestId, RequestOrNull
  <2>4. /\ Len(pending') = Len(pending) + 1
        /\ pending'[Len(pending) + 1] = Call("create", k, k)
        /\ \A i \in 1..Len(pending) : pending'[i] = pending[i]
    BY <1>1, <2>2, <2>3, AppendProperties
  <2>5. \A i \in 1..Len(pending) : pending'[i].kind = "create" /\ pending'[i].req \in cancelled'
    <3>1. CASE c = 0
      BY <1>1, <1>3, <3>1
    <3>2. CASE c # 0
      BY <1>1, <1>3, <2>2, <2>4, <3>2
    <3>3. QED
      BY <3>1, <3>2
  <2>6. Introducing(k)'
    <3>1. PICK d : d = Client!Down("get-all", k, {}, {})
      OBVIOUS
    <3>2. d.type = "get-all" /\ d.req = k
      BY <3>1 DEF Client!Down
    <3>3. down \in Seq(DownMessage(Len(request)))
      BY SessionFacts
    <3>4. PICK T : T = DownMessage(Len(request)) \cup {d}
      OBVIOUS
    <3>5. down \in Seq(T) /\ <<d>> \in Seq(T) /\ 1 \in DOMAIN <<d>> /\ <<d>>[1] = d
      <4>1. DownMessage(Len(request)) \subseteq T /\ d \in T
        BY <3>4
      <4>2. QED
        BY <3>3, <4>1, SeqMonotonic
    <3>6. Len(down) + 1 \in DOMAIN (down \o <<d>>) /\ (down \o <<d>>)[Len(down) + 1] = d
      BY <3>5, ConcatElements
    <3>7. QED
      BY <2>2, <3>1, <3>2, <3>6 DEF Introducing
  <2>7. pending' # << >> /\ k # 0 /\ Len(pending') - 1 = Len(pending)
    BY <1>1, <2>2, <2>4, EmptySeq
  <2>8. Unconnected'
    BY <2>2, <2>4, <2>5, <2>6, <2>7 DEF Unconnected
  <2>9. QED
    BY <2>2, <2>8
<1>8. CASE TakeStopped
  <2>1. Head(up).type = "stopped" /\ up # << >>
    BY <1>8 DEF TakeStopped, Take
  <2>2. PICK T : up \in Seq(T)
    BY QueueTypes
  <2>3. 1 \in DOMAIN up /\ up[1] = Head(up)
    BY <2>1, <2>2, TailElements
  <2>4. QED
    BY <2>1, <2>3 DEF NothingFailed
<1>9. CASE TakeProxy
  <2>1. PICK k \in Requests :
           /\ k = Head(up).req /\ Head(up).type = "proxy" /\ Taken
           /\ \/ ~Awaited("create", k) /\ UNCHANGED vars /\ down' = down
              \/ \E i \in DOMAIN pending : Connects(k, i)
    BY <1>9, ProxyStep
  <2>2. CASE ~Awaited("create", k) /\ UNCHANGED vars /\ down' = down
    <3>1. ASSUME c # 0 PROVE k # c
      <4>1. /\ Len(pending) \in DOMAIN pending /\ pending[Len(pending)].kind = "create"
            /\ pending[Len(pending)].req = c /\ pending[Len(pending)].canc \notin cancelled
        BY <1>1, <1>3, <3>1
      <4>2. QED
        BY <2>2, <4>1 DEF Awaited
    <3>2. CallsKept
      BY <2>2 DEF vars, CallsKept, Proxy, Cancellable
    <3>3. c # 0 => Introducing(c)'
      BY <1>3, <2>1, <2>2, <3>1, IntroducingKept DEF Taken
    <3>4. QED
      BY <1>4, <3>2, <3>3
  <2>3. ASSUME NEW i \in DOMAIN pending, Connects(k, i)
        PROVE  Proxy' # 0 /\ Uncancelled'
    <3>1. /\ i \in Due("create", k) /\ k \notin cancelled /\ pending[i].req = k
          /\ app' = [app EXCEPT ![Self].proxy = k, ![Self].launch = TRUE]
          /\ pending' = RemoveAt(pending, i) \o ListBoth(k, c)
          /\ cancelled' = cancelled
      BY <1>2, <2>3 DEF Connects, Due
    <3>2. c # 0 /\ i = Len(pending) /\ k = c
      BY <1>1, <1>3, <3>1
    <3>3. i = 1
      <4>1. ASSUME i # 1 PROVE FALSE
        <5>1. 1 \in DOMAIN pending /\ 1 # Len(pending) /\ 1 \in 1..(i - 1)
          BY <1>1, <3>2, <4>1
        <5>2. pending[1].canc \in cancelled
          BY <1>3, <3>2, <5>1
        <5>3. Requester(pending[1].req) = Requester(pending[i].req)
          BY <1>1, <5>1
        <5>4. Blocks(1, i)
          BY <5>2, <5>3 DEF Blocks
        <5>5. QED
          BY <3>1, <5>1, <5>4 DEF Due
      <4>2. QED
        BY <4>1
    <3>4. \A n \in DOMAIN pending : n = i
      BY <1>1, <3>2, <3>3
    <3>5. Proxy' = k /\ Cancellable' = c /\ app'[Self].launch
      <4>1. app \in [App -> Application] /\ Self \in App
        BY SessionFacts DEF TypeOK
      <4>2. QED
        BY <1>2, <3>1, <4>1 DEF Proxy, Cancellable, Application
    <3>6. \A j \in DOMAIN pending' : pending'[j].canc = c
      <4>1. PICK q : q = pending'
        OBVIOUS
      <4>2. k \in RequestId /\ c \in RequestOrNull
        BY <1>2, <2>1, SessionFacts DEF Cancellable, Application
      <4>3. AsksLists(pending, i, k, c, q)
        BY <1>1, <1>3, <3>1, <4>1, <4>2 DEF AsksLists, CallsOnce
      <4>4. \A j \in DOMAIN q : \/ \E n \in DOMAIN pending : n # i /\ q[j] = pending[n]
                                \/ q[j] \in {Call("sources", k, c), Call("messages", k, c)}
        BY <4>3, UnderwayLists
      <4>5. \A j \in DOMAIN q : q[j] \in {Call("sources", k, c), Call("messages", k, c)}
        BY <3>4, <4>4
      <4>6. QED
        BY <4>1, <4>5 DEF Call
    <3>7. k # 0
      BY <1>1, <2>1
    <3>8. QED
      BY <1>3, <3>1, <3>2, <3>5, <3>6, <3>7 DEF Uncancelled
  <2>4. QED
    BY <2>1, <2>2, <2>3
<1>10. CASE TakeSources \/ TakeMessages
  <2>1. PICK kind \in Kinds : \E k : ReplyTaken(kind, k)
    BY <1>10, ReplyStep
  <2>2. PICK k : ReplyTaken(kind, k)
    BY <2>1
  <2>3. ~Awaited(kind, k)
    BY <1>3 DEF Awaited, Kinds
  <2>4. CallsKept
    BY <2>2, <2>3 DEF ReplyTaken, vars, CallsKept, Proxy, Cancellable
  <2>5. QED
    BY <1>3, <1>4, <1>10, <2>4, IntroducingStep
<1>11. CASE CancelledCallback
  <2>1. UNCHANGED <<client, bus, request>>
    BY <1>11, CancelledStep
  <2>2. PICK i \in DOMAIN pending :
           /\ pending[i].canc \in cancelled
           /\ \/ /\ pending' = RemoveAt(pending, i) /\ cancelled' = cancelled
                 /\ app' = [app EXCEPT ![Self].proxy = 0]
                 /\ leaked' = leaked \cup ({Proxy} \ {0})
              \/ \E kind \in Kinds : pending[i].kind = kind
    BY <1>11, CancelledStep
  <2>3. /\ pending' = RemoveAt(pending, i) /\ cancelled' = cancelled
        /\ app' = [app EXCEPT ![Self].proxy = 0] /\ leaked' = {}
    BY <1>3, <2>2 DEF Kinds
  <2>4. c # 0 /\ i # Len(pending) /\ i \in 1..(Len(pending) - 1)
    BY <1>1, <1>3, <2>2
  <2>5. Proxy' = 0 /\ Cancellable' = c
    <3>1. app \in [App -> Application] /\ Self \in App
      BY SessionFacts DEF TypeOK
    <3>2. QED
      BY <1>2, <2>3, <3>1 DEF Proxy, Cancellable, Application
  <2>6. PICK p : p = pending'
    OBVIOUS
  <2>7. /\ p \in Seq(Operation) /\ Len(p) = Len(pending) - 1
        /\ \A j \in DOMAIN p :
             LET n == IF j < i THEN j ELSE j + 1 IN
             j \in Nat /\ n \in DOMAIN pending /\ n # i /\ p[j] = pending[n]
    <3>1. pending \in Seq(Operation) /\ i \in DOMAIN pending /\ p = RemoveAt(pending, i)
      BY <1>1, <2>2, <2>3, <2>6
    <3>2. /\ RemoveAt(pending, i) \in Seq(Operation)
          /\ Len(RemoveAt(pending, i)) = Len(pending) - 1
          /\ \A j \in DOMAIN RemoveAt(pending, i) :
               LET n == IF j < i THEN j ELSE j + 1 IN
               j \in Nat /\ n \in DOMAIN pending /\ n # i /\ RemoveAt(pending, i)[j] = pending[n]
      BY <3>1, RemovedElements, SMTT(60)
    <3>3. QED
      BY <3>1, <3>2
  <2>8. DOMAIN p = 1..Len(p) /\ Len(p) \in Nat /\ Len(p) # 0
    BY <1>1, <2>4, <2>7, LenProperties
  <2>9. p[Len(p)] = Call("create", c, c)
    <3>1. Len(p) \in DOMAIN p /\ ~(Len(p) < i) /\ Len(p) + 1 = Len(pending)
      BY <1>1, <2>4, <2>7, <2>8
    <3>2. p[Len(p)] = pending[Len(pending)]
      BY <2>7, <3>1
    <3>3. QED
      BY <1>2, <2>4, <3>2 DEF Unconnected
  <2>10. \A j \in 1..(Len(p) - 1) : p[j].kind = "create" /\ p[j].req \in cancelled
    <3> SUFFICES ASSUME NEW j \in 1..(Len(p) - 1)
                 PROVE  p[j].kind = "create" /\ p[j].req \in cancelled
      OBVIOUS
    <3>1. j \in DOMAIN p
      BY <2>8
    <3>2. PICK n \in DOMAIN pending : p[j] = pending[n] /\ n # Len(pending)
      BY <1>1, <2>7, <2>8, <3>1
    <3>3. QED
      BY <1>3, <2>4, <3>2
  <2>11. Introducing(c)'
    BY <1>3, <1>11, <2>4, IntroducingStep
  <2>12. p # << >>
    BY <2>8, EmptySeq
  <2>13. Unconnected'
    BY <2>3, <2>4, <2>5, <2>6, <2>9, <2>10, <2>11, <2>12 DEF Unconnected
  <2>14. QED
    BY <2>5, <2>13
<1>12. CASE ServiceRestart
  BY <1>12, RestartStep DEF Restarts, Unconnected
<1>13. QED
  BY <1>4, <1>5, <1>6, <1>7, <1>8, <1>9, <1>10, <1>11, <1>12 DEF Undisturbed, Service

\* A step from a state with a proxy.
LEMMA UncancelledStep ==
  ASSUME Wired, CallsOnce, Undisturbed \/ UserStep, ~disposed, NothingFailed,
         Proxy # 0, Uncancelled
  PROVE  /\ Proxy' = 0 => Unconnected'
         /\ Proxy' # 0 => Uncancelled'
<1>1. /\ pending \in Seq(Operation) /\ Len(request) \in Nat
      /\ Cancellable \in Requests \cup {0} /\ Cancellable \notin cancelled
      /\ cancelled \subseteq Requests /\ Requests = 1..Len(request)
      /\ Cancellable # 0 /\ app[Self].launch
      /\ \A i \in DOMAIN pending : pending[i].canc \notin cancelled
  BY SessionFacts DEF Uncancelled
<1>2. PICK c : c = Cancellable
  OBVIOUS
<1>3. ASSUME CallsKept PROVE Proxy' # 0 /\ Uncancelled'
  <2>1. /\ Cancellable' = Cancellable /\ pending' = pending /\ cancelled' = cancelled
        /\ Proxy' = Proxy /\ app'[Self].launch = app[Self].launch
    BY <1>3 DEF CallsKept
  <2>2. QED
    BY <1>1, <2>1 DEF Uncancelled
<1>4. ASSUME NEW kind \in Kinds, NEW k, Completed(kind, k) PROVE Proxy' # 0 /\ Uncancelled'
  <2>1. PICK i \in DOMAIN pending : pending' = RemoveAt(pending, i)
    BY <1>4 DEF Completed
  <2>2. \A j \in DOMAIN RemoveAt(pending, i) : \E n \in DOMAIN pending :
          RemoveAt(pending, i)[j] = pending[n]
    <3>1. pending \in Seq(Operation) /\ i \in DOMAIN pending
      BY <1>1, <2>1
    <3>2. QED
      BY <3>1, RemovedElements, SMTT(60)
  <2>3. PICK p : p = pending'
    OBVIOUS
  <2>4. \A j \in DOMAIN p : p[j].canc \notin cancelled
    BY <1>1, <2>1, <2>2, <2>3
  <2>5. /\ Cancellable' = Cancellable /\ cancelled' = cancelled
        /\ Proxy' = Proxy /\ app'[Self].launch = app[Self].launch
    BY <1>4 DEF Completed
  <2>6. QED
    BY <1>1, <2>3, <2>4, <2>5 DEF Uncancelled
<1>5. CASE ClientStep \/ NameVanished \/ NameAppeared \/ ServiceProxy
  BY <1>3, <1>5, ClientKeepsCalls
<1>6. CASE TakeUnregister \/ TakeStatus \/ TakeItemSignal \/ UserStep
  BY <1>3, <1>6, ItemsKeepCalls
<1>7. CASE TakeRegister
  <2>1. PICK k : Registers(k)
    BY <1>7, RegisterStep
  <2>2. /\ k = Len(request) + 1 /\ k \in RequestId
        /\ pending' = Append(pending, Call("create", k, k))
        /\ Cancellable' = k /\ Proxy' = Proxy
        /\ cancelled' = cancelled /\ app'[Self].launch = app[Self].launch
    BY <2>1 DEF Registers
  <2>3. Call("create", k, k) \in Operation /\ Call("create", k, k).canc = k
    BY <2>2 DEF Call, Operation, RequestId, RequestOrNull
  <2>4. k \notin cancelled /\ k # 0
    BY <1>1, <2>2
  <2>5. PICK p : p = Append(pending, Call("create", k, k))
    OBVIOUS
  <2>6. \A i \in DOMAIN p : p[i].canc \notin cancelled
    <3>1. /\ p \in Seq(Operation) /\ Len(p) = Len(pending) + 1
          /\ p[Len(pending) + 1] = Call("create", k, k)
          /\ \A i \in 1..Len(pending) : p[i] = pending[i]
      BY <1>1, <2>3, <2>5, AppendProperties
    <3>2. /\ DOMAIN p = 1..(Len(pending) + 1) /\ DOMAIN pending = 1..Len(pending)
          /\ Len(pending) \in Nat
      BY <1>1, <3>1, LenProperties
    <3>3. QED
      BY <1>1, <2>3, <2>4, <3>1, <3>2
  <2>7. QED
    BY <1>1, <2>2, <2>4, <2>5, <2>6 DEF Uncancelled
<1>8. CASE TakeStopped
  <2>1. Head(up).type = "stopped" /\ up # << >>
    BY <1>8 DEF TakeStopped, Take
  <2>2. PICK T : up \in Seq(T)
    BY QueueTypes
  <2>3. 1 \in DOMAIN up /\ up[1] = Head(up)
    BY <2>1, <2>2, TailElements
  <2>4. QED
    BY <2>1, <2>3 DEF NothingFailed
<1>9. CASE TakeProxy
  <2>1. PICK k \in Requests :
           \/ ~Awaited("create", k) /\ UNCHANGED vars /\ down' = down
           \/ \E i \in DOMAIN pending : Connects(k, i)
    BY <1>9, ProxyStep
  <2>2. CASE UNCHANGED vars
    BY <1>3, <2>2 DEF vars, CallsKept, Proxy, Cancellable
  <2>3. ASSUME NEW i \in DOMAIN pending, Connects(k, i)
        PROVE  Proxy' # 0 /\ Uncancelled'
    <3>1. /\ k \notin cancelled /\ pending[i].kind = "create" /\ pending[i].req = k
          /\ app' = [app EXCEPT ![Self].proxy = k, ![Self].launch = TRUE]
          /\ pending' = RemoveAt(pending, i) \o ListBoth(k, c)
          /\ cancelled' = cancelled
      BY <1>2, <2>3 DEF Connects, Due
    <3>2. Proxy' = k /\ Cancellable' = c /\ app'[Self].launch
      <4>1. app \in [App -> Application] /\ Self \in App
        BY SessionFacts DEF TypeOK
      <4>2. QED
        BY <1>2, <3>1, <4>1 DEF Proxy, Cancellable, Application
    <3>3. PICK q : q = pending'
      OBVIOUS
    <3>4. \A j \in DOMAIN q : q[j].canc \notin cancelled
      <4>1. k \in RequestId /\ c \in RequestOrNull
        BY <1>2, <2>1, SessionFacts DEF Cancellable, Application
      <4>2. AsksLists(pending, i, k, c, q)
        BY <1>1, <3>1, <3>3, <4>1 DEF AsksLists, CallsOnce
      <4>3. \A j \in DOMAIN q : \/ \E n \in DOMAIN pending : n # i /\ q[j] = pending[n]
                                \/ q[j] \in {Call("sources", k, c), Call("messages", k, c)}
        BY <4>2, UnderwayLists
      <4>4. c \notin cancelled /\ Call("sources", k, c).canc = c /\ Call("messages", k, c).canc = c
        BY <1>1, <1>2 DEF Call
      <4>5. QED
        BY <1>1, <4>3, <4>4
    <3>5. k # 0 /\ c # 0
      BY <1>1, <1>2, <2>1
    <3>6. QED
      BY <3>1, <3>2, <3>3, <3>4, <3>5 DEF Uncancelled
  <2>4. QED
    BY <2>1, <2>2, <2>3
<1>10. CASE TakeSources \/ TakeMessages
  <2>1. PICK kind \in Kinds : \E k : ReplyTaken(kind, k)
    BY <1>10, ReplyStep
  <2>2. PICK k : ReplyTaken(kind, k)
    BY <2>1
  <2>3. CallsKept \/ Completed(kind, k) \/ UNCHANGED vars
    BY <2>2 DEF ReplyTaken
  <2>4. UNCHANGED vars => CallsKept
    BY DEF vars, CallsKept, Proxy, Cancellable
  <2>5. QED
    BY <1>3, <1>4, <2>3, <2>4
<1>11. CASE CancelledCallback
  BY <1>1, <1>11, CancelledStep
<1>12. CASE ServiceRestart
  BY <1>12, RestartStep DEF Restarts, Unconnected
<1>13. QED
  BY <1>5, <1>6, <1>7, <1>8, <1>9, <1>10, <1>11, <1>12 DEF Undisturbed, Service

\* Every step of the session keeps the calls in their phase.
LEMMA PhasedStep == Wired /\ Phased /\ (Undisturbed \/ UserStep) => Phased'
<1> SUFFICES ASSUME Wired, Phased, Undisturbed \/ UserStep PROVE Phased'
  OBVIOUS
<1>1. CallsOnce'
  BY CallsOnceStep DEF Phased
<1>2. /\ disposed => disposed'
      /\ disposed' => /\ sources' = [s \in Source |-> Client!NoSource]
                      /\ messages' = [m \in Message |-> "absent"]
  BY DisposedStep DEF Phased
<1>3. ASSUME ~disposed'
      PROVE  /\ NothingFailed'
             /\ Proxy' = 0 => Unconnected'
             /\ Proxy' # 0 => Uncancelled'
  <2>1. /\ ~disposed /\ CallsOnce /\ NothingFailed
        /\ Proxy = 0 => Unconnected
        /\ Proxy # 0 => Uncancelled
    BY <1>2, <1>3 DEF Phased
  <2>2. NothingFailed'
    BY <1>3, <2>1, NothingFailedStep
  <2>3. CASE Proxy = 0
    BY <2>1, <2>2, <2>3, UnconnectedStep
  <2>4. CASE Proxy # 0
    BY <2>1, <2>2, <2>4, UncancelledStep
  <2>5. QED
    BY <2>3, <2>4
<1>4. QED
  BY <1>1, <1>2, <1>3 DEF Phased

\* Nothing is under way at the start.
LEMMA PhasedInit == SessionInit => Phased
<1> SUFFICES ASSUME SessionInit PROVE Phased
  OBVIOUS
<1>1. /\ up = << >> /\ down = << >> /\ pending = << >> /\ leaked = {}
      /\ app[Self] = Stopped /\ ~disposed
  BY SelfAssumption DEF SessionInit, Init, Start, Client!Init
<1>2. \A kind \in Kinds : Once(up, down, Creating, kind)
  BY <1>1 DEF Once
<1>3. CreatesOnce(pending)
  BY <1>1 DEF CreatesOnce
<1>4. NothingFailed
  BY <1>1 DEF NothingFailed
<1>5. Proxy = 0 /\ Unconnected
  BY <1>1 DEF Proxy, Cancellable, Unconnected, Stopped
<1>6. QED
  BY <1>1, <1>2, <1>3, <1>4, <1>5 DEF Phased, CallsOnce

\* A stutter changes nothing of it.
LEMMA PhasedStutter == Phased /\ UNCHANGED sessionVars => Phased'
<1> SUFFICES ASSUME Phased, UNCHANGED sessionVars PROVE Phased'
  OBVIOUS
<1>1. UNCHANGED <<app, pending, cancelled, leaked, up, down, disposed, sources, messages>>
  BY DEF sessionVars, vars, client, bus
<1>2. CallsOnce'
  BY <1>1 DEF Phased, CallsOnce, Creating
<1>3. NothingFailed => NothingFailed'
  BY <1>1 DEF NothingFailed
<1>4. (Unconnected => Unconnected') /\ (Uncancelled => Uncancelled') /\ Proxy' = Proxy
  BY <1>1 DEF Unconnected, Uncancelled, Introducing, Proxy, Cancellable
<1>5. QED
  BY <1>1, <1>2, <1>3, <1>4 DEF Phased

-----------------------------------------------------------------------------
(* Registering is an invariant.                                            *)

\* Some message of a type is under way to the service.
Underways(type) == \E i \in DOMAIN up : up[i].type = type

\* A message stays until it is taken.
LEMMA UpKept ==
  ASSUME Wired, NEW type, Underways(type),
         \/ up' = up
         \/ \E T : up \in Seq(T) /\ \E sent \in Seq(T) : up' = up \o sent
         \/ up # << >> /\ up' = Tail(up) /\ Head(up).type # type
  PROVE  Underways(type)'
<1>1. PICK i \in DOMAIN up : up[i].type = type
  BY DEF Underways
<1>2. CASE up' = up
  BY <1>1, <1>2 DEF Underways
<1>3. ASSUME NEW T, up \in Seq(T), NEW sent \in Seq(T), up' = up \o sent
      PROVE  Underways(type)'
  <2>1. i \in DOMAIN (up \o sent) /\ (up \o sent)[i] = up[i]
    BY <1>1, <1>3, ConcatElements
  <2>2. QED
    BY <1>1, <1>3, <2>1 DEF Underways
<1>4. CASE up # << >> /\ up' = Tail(up) /\ Head(up).type # type
  <2>1. PICK T : up \in Seq(T)
    BY QueueTypes
  <2>2. /\ up[1] = Head(up)
        /\ i # 1 => i - 1 \in DOMAIN Tail(up) /\ Tail(up)[i - 1] = up[i]
    BY <1>1, <1>4, <2>1, TailElements
  <2>3. QED
    BY <1>1, <1>4, <2>2 DEF Underways
<1>5. QED
  BY <1>2, <1>3, <1>4

\* A message that was sent is on the bus.
LEMMA UpSent ==
  ASSUME NEW T, up \in Seq(T), NEW sent \in Seq(T), up' = up \o sent, NEW type,
         \E i \in DOMAIN sent : sent[i].type = type
  PROVE  Underways(type)'
<1>1. PICK i \in DOMAIN sent : sent[i].type = type
  OBVIOUS
<1>2. Len(up) + i \in DOMAIN (up \o sent) /\ (up \o sent)[Len(up) + i] = sent[i]
  BY <1>1, ConcatElements
<1>3. QED
  BY <1>1, <1>2 DEF Underways

\* The last name-owner change is that the service appeared.
LastAppeared(q) == q = << >> \/ q[Len(q)] = "appeared"

\* It stays the last when the client is told of the others.
LEMMA LastAppearedTail ==
  ASSUME NEW q \in Seq({"vanished", "appeared"}), q # << >>, LastAppeared(q)
  PROVE  /\ LastAppeared(Tail(q))
         /\ Head(q) = "vanished" => \E i \in DOMAIN Tail(q) : Tail(q)[i] = "appeared"
<1>1. /\ Len(q) \in Nat /\ DOMAIN q = 1..Len(q) /\ Len(q) # 0
      /\ Tail(q) \in Seq({"vanished", "appeared"}) /\ Len(Tail(q)) = Len(q) - 1
  BY LenProperties, EmptySeq, HeadTailProperties
<1>2. /\ q[1] = Head(q)
      /\ \A i \in DOMAIN q : i # 1 => i - 1 \in DOMAIN Tail(q) /\ Tail(q)[i - 1] = q[i]
  BY TailElements
<1>3. q[Len(q)] = "appeared"
  BY DEF LastAppeared
<1>4. CASE Len(q) = 1
  <2>1. Tail(q) = << >>
    <3>1. Tail(q) \in Seq({"vanished", "appeared"}) /\ Len(Tail(q)) = 0
      BY <1>1, <1>4
    <3>2. QED
      BY <3>1, EmptySeq
  <2>2. QED
    BY <1>2, <1>3, <1>4, <2>1 DEF LastAppeared
<1>5. CASE Len(q) # 1
  <2>1. Len(q) - 1 \in DOMAIN Tail(q) /\ Tail(q)[Len(q) - 1] = "appeared"
    BY <1>1, <1>2, <1>3, <1>5
  <2>2. QED
    BY <1>1, <2>1 DEF LastAppeared
<1>6. QED
  BY <1>4, <1>5

\* A process that the client does not know to be gone has a successor.
LEMMA UnheardComes ==
  ASSUME notice \in Seq({"vanished", "appeared"}), LastAppeared(notice), Client!Unheard
  PROVE  \E i \in DOMAIN notice : notice[i] = "appeared"
<1>1. PICK i \in DOMAIN notice : notice[i] = "vanished"
  BY DEF Client!Unheard
<1>2. DOMAIN notice = 1..Len(notice) /\ Len(notice) \in Nat
  BY LenProperties
<1>3. notice # << >> /\ Len(notice) \in DOMAIN notice
  BY <1>1, <1>2
<1>4. QED
  BY <1>3 DEF LastAppeared

\* Every step of the session keeps it.
LEMMA RegisteringStep ==
  Wired /\ Phased /\ Registering /\ (Undisturbed \/ UserStep) => Registering'
<1> SUFFICES ASSUME Wired, Phased, Registering, Undisturbed \/ UserStep PROVE Registering'
  OBVIOUS
<1> DEFINE U == UpMessage(Len(request))
<1>1. /\ up \in Seq(U) /\ notice \in Seq({"vanished", "appeared"}) /\ connecting \in Nat
      /\ app \in [App -> Application] /\ Self \in App
  BY SessionFacts DEF Wired, BusTyped, ClientTyped, TypeOK
<1>2. /\ LastAppeared(notice)
      /\ ~disposed => /\ service \/ Coming
                      /\ registered = "yes" => Coming \/ Cancellable # 0 \/ Underways("register")
      /\ ~disposed => NothingFailed
  BY DEF Registering, LastAppeared, Underways, Phased
<1>3. disposed => disposed'
  BY DisposedStep DEF Phased
<1> HIDE DEF U
<1>4. ASSUME LastAppeared(notice)',
             ~disposed' => /\ service' \/ Coming'
                           /\ registered' = "yes" =>
                                Coming' \/ Cancellable' # 0 \/ Underways("register")'
      PROVE  Registering'
  BY <1>4 DEF Registering, LastAppeared, Underways
<1>5. ASSUME UNCHANGED <<notice, connecting, service, registered>>,
             Cancellable' = Cancellable \/ Cancellable' # 0,
             ~disposed /\ Underways("register") => Underways("register")' \/ Cancellable' # 0
      PROVE  Registering'
  <2>1. Coming' = Coming /\ LastAppeared(notice)'
    BY <1>2, <1>5 DEF Coming
  <2>2. QED
    BY <1>2, <1>3, <1>4, <1>5, <2>1
<1>6. CASE ClientStep
  <2>1. notice' = notice /\ Cancellable' = Cancellable
    BY <1>6, ClientKeepsCalls DEF ClientStep, CallsKept
  <2>2. CASE Client!Program
    <3>1. PICK sent : Programmed(sent)
      BY <2>2, ProgramStep
    <3>2. sent \in Seq(U) /\ up' = up \o sent /\ ~disposed
      BY <3>1 DEF Programmed, U
    <3>3. Underways("register") => Underways("register")'
      BY <1>1, <3>2, UpKept
    <3>4. (\E i \in DOMAIN sent : sent[i].type = "register") => Underways("register")'
      BY <1>1, <3>2, UpSent
    <3>5. ASSUME ~disposed'
          PROVE  /\ service' = service /\ connecting' = connecting
                 /\ registered' = "yes" => \/ registered = "yes" \/ ~service \/ Client!Unheard
                                           \/ \E i \in DOMAIN sent : sent[i].type = "register"
      BY <3>1, <3>5 DEF Programmed
    <3>6. LastAppeared(notice)'
      BY <1>2, <2>1
    <3>7. ~disposed' => Coming' = Coming
      BY <2>1, <3>5 DEF Coming
    <3>8. Client!Unheard => Coming
      BY <1>1, <1>2, UnheardComes DEF Coming
    <3>9. QED
      BY <1>2, <1>4, <2>1, <3>2, <3>3, <3>4, <3>5, <3>6, <3>7, <3>8
  <2>3. CASE Client!GetAll \/ Client!ListSources \/ Client!ListMessages
    <3>1. UNCHANGED <<connecting, service, registered>>
      BY <2>3 DEF Client!GetAll, Client!ListSources, Client!ListMessages, Client!clientVars
    <3>2. PICK u : u \in U /\ up' = up \o <<u>>
      <4>1. CASE Client!GetAll
        BY <4>1, GetAllStep DEF Introduced, U
      <4>2. CASE Client!ListSources \/ Client!ListMessages
        BY <4>2, ListStep DEF Answered, U
      <4>3. QED
        BY <2>3, <4>1, <4>2
    <3>3. <<u>> \in Seq(U)
      BY <3>2
    <3>4. Underways("register") => Underways("register")'
      BY <1>1, <3>2, <3>3, UpKept
    <3>5. QED
      BY <1>5, <2>1, <3>1, <3>4
  <2>4. CASE Client!Dismiss
    <3>1. up' = up /\ UNCHANGED <<connecting, service, registered>>
      BY <2>4, DismissStep
    <3>2. Underways("register") => Underways("register")'
      BY <3>1, UpKept
    <3>3. QED
      BY <1>5, <2>1, <3>1, <3>2
  <2>5. QED
    BY <1>6, <2>2, <2>3, <2>4 DEF ClientStep, Client!Handlers
<1>7. CASE NameVanished
  <2>1. /\ notice # << >> /\ Head(notice) = "vanished" /\ notice' = Tail(notice)
        /\ up' = up /\ UNCHANGED <<registered, disposed>>
    BY <1>7 DEF NameVanished, Client!Vanished
  <2>2. LastAppeared(notice)' /\ Coming'
    BY <1>1, <1>2, <2>1, LastAppearedTail DEF Coming
  <2>3. QED
    BY <1>4, <2>2
<1>8. CASE NameAppeared
  <2>1. /\ notice # << >> /\ notice' = Tail(notice) /\ connecting' = connecting + 1
    BY <1>8 DEF NameAppeared, Client!Appeared
  <2>2. LastAppeared(notice)' /\ Coming'
    BY <1>1, <1>2, <2>1, LastAppearedTail DEF Coming
  <2>3. QED
    BY <1>4, <2>2
<1>9. CASE ServiceProxy
  <2>1. service' /\ notice' = notice /\ registered' = registered
    BY <1>9 DEF ServiceProxy, Client!CreatedMessagesService
  <2>2. PICK sent \in Seq(U) :
          /\ up' = up \o sent
          /\ registered = "yes" =>
               Client!Unheard \/ \E i \in DOMAIN sent : sent[i].type = "register"
    BY <1>9, SyncFacts DEF U
  <2>3. registered = "yes" => Client!Unheard \/ Underways("register")'
    BY <1>1, <2>2, UpSent
  <2>4. LastAppeared(notice)' /\ Client!Unheard' = Client!Unheard
    BY <1>2, <2>1 DEF Client!Unheard
  <2>5. Client!Unheard => Coming'
    <3>1. Client!Unheard => \E i \in DOMAIN notice : notice[i] = "appeared"
      BY <1>1, <1>2, UnheardComes
    <3>2. QED
      BY <2>1, <3>1 DEF Coming
  <2>6. QED
    BY <1>2, <1>4, <2>1, <2>3, <2>4, <2>5
<1>10. CASE TakeRegister
  <2>1. PICK k : Registers(k)
    BY <1>10, RegisterStep
  <2>2. /\ UNCHANGED <<notice, connecting, service, registered>>
        /\ Cancellable' # 0
    BY <2>1 DEF Registers, Taken, client, RequestId
  <2>3. QED
    BY <1>5, <2>2
<1>11. ASSUME Taken, Head(up).type # "register", Cancellable' = Cancellable
       PROVE  Registering'
  <2>1. UNCHANGED <<notice, connecting, service, registered>>
    BY <1>11 DEF Taken, client
  <2>2. Underways("register") => Underways("register")'
    BY <1>11, UpKept DEF Taken
  <2>3. QED
    BY <1>5, <1>11, <2>1, <2>2
<1>12. CASE TakeUnregister \/ TakeStatus \/ TakeItemSignal
  BY <1>11, <1>12, TakenStep, ItemsKeepCalls DEF CallsKept
<1>13. CASE TakeStopped
  <2>1. Head(up).type = "stopped" /\ up # << >> /\ UNCHANGED <<client, notice>>
    BY <1>13 DEF TakeStopped, Take
  <2>2. 1 \in DOMAIN up /\ up[1] = Head(up)
    BY <1>1, <2>1, TailElements
  <2>3. disposed
    BY <1>2, <2>1, <2>2 DEF NothingFailed
  <2>4. QED
    BY <1>2, <1>3, <1>4, <2>1, <2>3
<1>14. CASE TakeProxy
  <2>1. PICK k \in Requests :
           /\ Head(up).type = "proxy" /\ Taken
           /\ \/ UNCHANGED vars
              \/ \E i \in DOMAIN pending : Connects(k, i)
    BY <1>14, ProxyStep DEF Phased
  <2>2. Cancellable' = Cancellable
    <3>1. CASE UNCHANGED vars
      BY <3>1 DEF vars, Cancellable
    <3>2. CASE app' = [app EXCEPT ![Self].proxy = k, ![Self].launch = TRUE]
      BY <1>1, <3>2 DEF Cancellable, Application
    <3>3. QED
      BY <2>1, <3>1, <3>2 DEF Connects
  <2>3. QED
    BY <1>11, <2>1, <2>2
<1>15. CASE TakeSources \/ TakeMessages
  <2>1. PICK kind \in Kinds : \E k : ReplyTaken(kind, k)
    BY <1>15, ReplyStep
  <2>2. PICK k : ReplyTaken(kind, k)
    BY <2>1
  <2>3. Cancellable' = Cancellable
    BY <2>2 DEF ReplyTaken, CallsKept, Completed, vars, Cancellable
  <2>4. QED
    BY <1>11, <1>15, <2>3, TakenStep
<1>16. CASE CancelledCallback
  <2>1. UNCHANGED <<client, bus, request>>
    BY <1>16, CancelledStep DEF Phased
  <2>2. PICK i \in DOMAIN pending :
              \/ app' = [app EXCEPT ![Self].proxy = 0]
              \/ \E kind \in Kinds : Completed(kind, pending[i].req) \/ CallsKept
    BY <1>16, CancelledStep DEF Phased
  <2>3. Cancellable' = Cancellable
    <3>1. CASE app' = [app EXCEPT ![Self].proxy = 0]
      BY <1>1, <3>1 DEF Cancellable, Application
    <3>2. QED
      BY <2>2, <3>1 DEF Completed, CallsKept
  <2>4. up' = up /\ UNCHANGED <<notice, connecting, service, registered>>
    BY <2>1 DEF client, bus
  <2>5. Underways("register") => Underways("register")'
    BY <2>4, UpKept
  <2>6. QED
    BY <1>5, <2>3, <2>4, <2>5
<1>17. CASE ServiceRestart
  <2>1. notice' = notice \o <<"vanished", "appeared">>
    BY <1>17, RestartStep DEF Restarts
  <2>2. PICK q : q = notice \o <<"vanished", "appeared">>
    OBVIOUS
  <2>3. <<"vanished", "appeared">> \in Seq({"vanished", "appeared"})
    OBVIOUS
  <2>4. /\ Len(q) = Len(notice) + 2 /\ Len(notice) \in Nat
        /\ q[Len(notice) + 2] = "appeared" /\ Len(notice) + 2 \in DOMAIN q
    <3>1. Len(<<"vanished", "appeared">>) = 2 /\ 2 \in DOMAIN <<"vanished", "appeared">>
          /\ <<"vanished", "appeared">>[2] = "appeared"
      OBVIOUS
    <3>2. Len(q) = Len(notice) + 2 /\ Len(notice) \in Nat
      BY <1>1, <2>2, <2>3, <3>1, ConcatProperties, LenProperties
    <3>3. Len(notice) + 2 \in DOMAIN q /\ q[Len(notice) + 2] = "appeared"
      BY <1>1, <2>2, <2>3, <3>1, ConcatElements
    <3>4. QED
      BY <3>2, <3>3
  <2>5. LastAppeared(notice)' /\ Coming'
    BY <2>1, <2>2, <2>4 DEF LastAppeared, Coming
  <2>6. QED
    BY <1>4, <2>5
<1>18. CASE UserStep
  <2>1. PICK told : Tells(told)
    BY <1>18, UserTells
  <2>2. up' = up /\ UNCHANGED <<notice, connecting, service, registered>>
        /\ Cancellable' = Cancellable
    BY <2>1 DEF Tells, CallsKept, client
  <2>3. Underways("register") => Underways("register")'
    BY <2>2, UpKept
  <2>4. QED
    BY <1>5, <2>2, <2>3
<1>19. QED
  BY <1>6, <1>7, <1>8, <1>9, <1>10, <1>12, <1>13, <1>14, <1>15, <1>16, <1>17, <1>18
     DEF Undisturbed, Service

\* The client is told of the service first.
LEMMA RegisteringInit == SessionInit => Registering
<1> SUFFICES ASSUME SessionInit PROVE Registering
  OBVIOUS
<1>1. notice = <<"appeared">> /\ registered = "unknown"
  BY DEF SessionInit, Client!Init
<1>2. notice[Len(notice)] = "appeared" /\ 1 \in DOMAIN notice /\ notice[1] = "appeared"
  BY <1>1
<1>3. QED
  BY <1>1, <1>2 DEF Registering, Coming

\* A stutter changes nothing of it.
LEMMA RegisteringStutter == Registering /\ UNCHANGED sessionVars => Registering'
BY DEF Registering, Coming, Cancellable, sessionVars, vars, client, bus

(***************************************************************************)
(* An application that is registered runs in the menu when everything that *)
(* was sent is taken: neither registering twice, nor a service that is     *)
(* replaced, nor a late creation leaves it without a proxy.                *)
(***************************************************************************)
THEOREM RegistrationCorrect == SessionSpec => []RegisteredRuns
<1>1. SessionInit => Wired /\ Phased /\ Registering
  BY WiredInit, PhasedInit, RegisteringInit
<1>2. Wired /\ Phased /\ Registering /\ [Undisturbed \/ UserStep]_sessionVars
        => (Wired /\ Phased /\ Registering)'
  BY WiredStep, PhasedStep, RegisteringStep, WiredStutter, PhasedStutter, RegisteringStutter
<1>3. Wired /\ Phased /\ Registering => RegisteredRuns
  <2> SUFFICES ASSUME Phased, Registering, Quiet, ~disposed, registered = "yes"
               PROVE  app[Self].proxy # 0 /\ app[Self].launch
    BY DEF RegisteredRuns
  <2>1. ~Coming /\ Cancellable # 0
    BY DEF Registering, Coming, Quiet
  <2>2. Proxy # 0
    BY <2>1 DEF Phased, Unconnected, Quiet
  <2>3. QED
    BY <2>2 DEF Phased, Uncancelled, Proxy
<1>4. QED
  BY <1>1, <1>2, <1>3, PTL DEF SessionSpec

-----------------------------------------------------------------------------
(* What arrives: the value of an item in the menu, and the news to come.   *)

\* The types of the values.
LEMMA ItemTypes ==
  ASSUME Wired
  PROVE  /\ up \in Seq(UpRecord) /\ UpMessage(Len(request)) \subseteq UpRecord
         /\ Seq(UpMessage(Len(request))) \subseteq Seq(UpRecord)
         /\ up # << >> => Head(up) \in UpRecord
         /\ \A kind \in Kinds : /\ Awaiting(kind) \in SUBSET Nat
                                /\ \A x \in Items(kind) : /\ Held(kind, x) \in SourceState
                                                          /\ Seen(kind, x) \in SourceState
<1>1. UpMessage(Len(request)) \subseteq UpRecord
  BY DEF UpMessage
<1>2. Seq(UpMessage(Len(request))) \subseteq Seq(UpRecord)
  BY <1>1, SeqMonotonic
<1>3. up \in Seq(UpRecord)
  BY <1>2, SessionFacts
<1>4. up # << >> => Head(up) \in UpRecord
  BY <1>1, UpHead
<1>5. ASSUME NEW kind \in Kinds PROVE Awaiting(kind) \in SUBSET Nat
  <2>1. \A i \in DOMAIN pending : pending[i].req \in Nat
    BY SessionFacts
  <2>2. QED
    BY <2>1 DEF Awaiting, Underway
<1>6. ASSUME NEW kind \in Kinds, NEW x \in Items(kind)
      PROVE  Held(kind, x) \in SourceState /\ Seen(kind, x) \in SourceState
  <2>1. Held(kind, x) \in SourceState
    BY <1>6, HeldType DEF Wired
  <2>2. app[Self].sources \in [Source -> SourceState] /\ app[Self].messages \in [Message -> MessageState]
    BY SessionFacts DEF Application
  <2>3. Seen(kind, x) \in SourceState
    BY <1>6, <2>2 DEF Seen, Items, SourceState, MessageState
  <2>4. QED
    BY <2>1, <2>3
<1>7. QED
  BY <1>1, <1>2, <1>3, <1>4, <1>5, <1>6

\* Messages without items change nothing.
LEMMA QuietLeads ==
  ASSUME NEW q \in Seq(UpRecord), \A i \in DOMAIN q : q[i].items = << >>,
         NEW kind, NEW x, NEW W, NEW a \in SourceState
  PROVE  Leads(q, kind, x, W, a, a)
<1>1. Len(q) \in Nat /\ DOMAIN q = 1..Len(q)
  BY LenProperties
<1>2. \A i \in 1..Len(q) : News(q[i], kind, x, W) = Nothing
  BY <1>1 DEF News
<1>3. Applied(a, Nothing) = a
  BY DEF Applied, Nothing
<1>4. PICK run \in [0..Len(q) -> SourceState] : \A i \in 0..Len(q) : run[i] = a
  <2>1. [i \in 0..Len(q) |-> a] \in [0..Len(q) -> SourceState]
    OBVIOUS
  <2>2. QED
    BY <2>1
<1>5. /\ run[0] = a /\ run[Len(q)] = a
      /\ \A i \in 1..Len(q) : run[i] = Applied(run[i - 1], News(q[i], kind, x, W))
  <2>1. ASSUME NEW i \in 1..Len(q) PROVE run[i] = Applied(run[i - 1], News(q[i], kind, x, W))
    <3>1. i - 1 \in 0..Len(q) /\ i \in 0..Len(q)
      BY <1>1
    <3>2. News(q[i], kind, x, W) = Nothing /\ run[i] = a /\ run[i - 1] = a
      BY <1>2, <1>4, <3>1
    <3>3. QED
      BY <1>3, <3>2
  <2>2. QED
    BY <1>1, <1>4, <2>1
<1>6. QED
  BY <1>4, <1>5 DEF Leads

\* An element stays in a queue until it is taken.
Passes(q, r, T, d) ==
  /\ q \in Seq(T)
  /\ \/ r = q
     \/ \E sent \in Seq(T) : r = q \o sent
     \/ q # << >> /\ r = Tail(q) /\ Head(q) # d

\* What was in the queue is in what it became.
LEMMA StaysQueued ==
  ASSUME NEW q, NEW r, NEW T, NEW d, Passes(q, r, T, d), \E i \in DOMAIN q : q[i] = d
  PROVE  \E j \in DOMAIN r : r[j] = d
<1>1. PICK i \in DOMAIN q : q[i] = d
  OBVIOUS
<1>2. q \in Seq(T)
  BY DEF Passes
<1>3. CASE r = q
  BY <1>1, <1>3
<1>4. ASSUME NEW sent \in Seq(T), r = q \o sent PROVE \E j \in DOMAIN r : r[j] = d
  <2>1. i \in DOMAIN (q \o sent) /\ (q \o sent)[i] = q[i]
    BY <1>1, <1>2, <1>4, ConcatElements
  <2>2. QED
    BY <1>1, <1>4, <2>1
<1>5. CASE q # << >> /\ r = Tail(q) /\ Head(q) # d
  <2>1. /\ q[1] = Head(q)
        /\ \A n \in DOMAIN q : n # 1 => n - 1 \in DOMAIN Tail(q) /\ Tail(q)[n - 1] = q[n]
    BY <1>2, <1>5, TailElements
  <2>2. QED
    BY <1>1, <1>5, <2>1
<1>6. QED
  BY <1>3, <1>4, <1>5 DEF Passes

\* A list call stays on its way until the client answers it.
LEMMA AskedKept ==
  ASSUME NEW kind \in Kinds, Asked(kind), NEW T,
         \A d : d.type = ListCall(kind) /\ d.req = Proxy => Passes(down, down', T, d),
         Proxy' = Proxy, Proxy \in Awaiting(kind)'
  PROVE  Asked(kind)'
<1>1. PICK i \in DOMAIN down : down[i].type = ListCall(kind) /\ down[i].req = Proxy
  BY DEF Asked
<1>2. PICK d : d = down[i]
  OBVIOUS
<1>3. Passes(down, down', T, d)
  BY <1>1, <1>2
<1>4. PICK r : r = down'
  OBVIOUS
<1>5. \E j \in DOMAIN r : r[j] = d
  <2>1. Passes(down, r, T, d) /\ \E n \in DOMAIN down : down[n] = d
    BY <1>2, <1>3, <1>4
  <2>2. QED
    BY <2>1, StaysQueued
<1>6. QED
  BY <1>1, <1>2, <1>4, <1>5 DEF Asked

\* So does the news of an activation.
LEMMA DismissedKept ==
  ASSUME NEW kind \in Kinds, NEW x, Dismissed(kind, x), NEW T,
         \A d : Names(d, kind, x) => Passes(down, down', T, d)
  PROVE  Dismissed(kind, x)'
<1>1. PICK i \in DOMAIN down : Names(down[i], kind, x)
  BY DEF Dismissed
<1>2. PICK d : d = down[i]
  OBVIOUS
<1>3. Passes(down, down', T, d)
  BY <1>1, <1>2
<1>4. PICK r : r = down'
  OBVIOUS
<1>5. \E j \in DOMAIN r : r[j] = d
  <2>1. Passes(down, r, T, d) /\ \E n \in DOMAIN down : down[n] = d
    BY <1>2, <1>3, <1>4
  <2>2. QED
    BY <2>1, StaysQueued
<1>6. QED
  BY <1>1, <1>2, <1>4, <1>5 DEF Dismissed

\* Messages are added that lead from what the client held to what it holds.
LEMMA SettlesSent ==
  ASSUME Wired, NEW kind \in Kinds, NEW x \in Items(kind),
         NEW sent \in Seq(UpRecord), up' = up \o sent,
         Leads(sent, kind, x, Awaiting(kind), Held(kind, x), Held(kind, x)'),
         Held(kind, x)' \in SourceState,
         Seen(kind, x)' = Seen(kind, x), Awaiting(kind)' = Awaiting(kind),
         Asked(kind) => Asked(kind)'
  PROVE  /\ Settles(kind, x) => Settles(kind, x)'
         /\ Held(kind, x) = "absent" /\ Held(kind, x)' # "absent" => Settles(kind, x)'
<1>1. PICK h \in SourceState, hh \in SourceState : h = Held(kind, x) /\ hh = Held(kind, x)'
  BY ItemTypes
<1>2. PICK e \in SourceState : e = Seen(kind, x)
  BY ItemTypes
<1>3. PICK W : W = Awaiting(kind)
  OBVIOUS
<1>4. up \in Seq(UpRecord)
  BY ItemTypes
<1>5. Leads(sent, kind, x, W, h, hh)
  BY <1>1, <1>3
<1>6. ASSUME Leads(up \o sent, kind, x, W, e, hh) PROVE Settles(kind, x)'
  BY <1>1, <1>2, <1>3, <1>6 DEF Settles
<1>7. PICK b \in SourceState : Leads(up, kind, x, W, e, b)
  BY <1>4, LeadsSomewhere
<1>8. ASSUME Leads(up, kind, x, W, e, h) PROVE Settles(kind, x)'
  <2>1. Leads(up \o sent, kind, x, W, e, hh)
    BY <1>4, <1>5, <1>8, LeadsConcat
  <2>2. QED
    BY <1>6, <2>1
<1>9. ASSUME h # "absent", Asked(kind) PROVE Settles(kind, x)'
  <2>1. CASE hh = "absent"
    <3>1. Leads(sent, kind, x, W, b, "absent")
      BY <1>5, <1>9, <2>1, LeadsGone
    <3>2. Leads(up \o sent, kind, x, W, e, "absent")
      BY <1>4, <1>7, <3>1, LeadsConcat
    <3>3. QED
      BY <1>6, <2>1, <3>2
  <2>2. CASE hh # "absent"
    BY <1>1, <1>9, <2>2 DEF Settles
  <2>3. QED
    BY <2>1, <2>2
<1>10. ASSUME h = "absent", hh # "absent" PROVE Settles(kind, x)'
  <2>1. Leads(sent, kind, x, W, b, hh)
    BY <1>5, <1>10, LeadsPresent
  <2>2. Leads(up \o sent, kind, x, W, e, hh)
    BY <1>4, <1>7, <2>1, LeadsConcat
  <2>3. QED
    BY <1>6, <2>2
<1>11. QED
  BY <1>1, <1>2, <1>3, <1>8, <1>9, <1>10 DEF Settles

\* A message is taken, and the menu follows it.
LEMMA SettlesTaken ==
  ASSUME Wired, NEW kind \in Kinds, NEW x \in Items(kind), Taken, Held(kind, x)' = Held(kind, x),
         Seen(kind, x)' = Applied(Seen(kind, x), News(Head(up), kind, x, Awaiting(kind))),
         NEW V, V = Awaiting(kind)',
         \A i \in DOMAIN up : i # 1 =>
           News(up[i], kind, x, Awaiting(kind)) = News(up[i], kind, x, V),
         Asked(kind) => Asked(kind)'
  PROVE  Settles(kind, x) => Settles(kind, x)'
<1>1. PICK h \in SourceState : h = Held(kind, x)
  BY ItemTypes
<1>2. PICK e \in SourceState : e = Seen(kind, x)
  BY ItemTypes
<1>3. PICK W : W = Awaiting(kind)
  OBVIOUS
<1>4. PICK q : q = Tail(up)
  OBVIOUS
<1>5. /\ up \in Seq(UpRecord) /\ up # << >> /\ up' = q
      /\ \A i \in DOMAIN q : i + 1 \in DOMAIN up /\ q[i] = up[i + 1] /\ i + 1 # 1
      /\ q \in Seq(UpRecord)
  <2>1. up \in Seq(UpRecord) /\ up # << >> /\ up' = q
    BY <1>4, ItemTypes DEF Taken
  <2>2. QED
    BY <1>4, <2>1, TailElements
<1>6. \A i \in 1..Len(q) : News(q[i], kind, x, W) = News(q[i], kind, x, V)
  <2>1. DOMAIN q = 1..Len(q)
    BY <1>5, LenProperties
  <2>2. QED
    BY <1>3, <1>5, <2>1
<1>7. PICK f : f = Applied(e, News(Head(up), kind, x, W))
  OBVIOUS
<1>8. ASSUME Leads(up, kind, x, W, e, h) PROVE Leads(q, kind, x, V, f, h)
  <2>1. Leads(q, kind, x, W, f, h)
    BY <1>4, <1>5, <1>7, <1>8, LeadsTail
  <2>2. QED
    BY <1>6, <2>1, LeadsSame
<1>9. Seen(kind, x)' = f
  BY <1>2, <1>3, <1>7
<1>10. QED
  BY <1>1, <1>2, <1>3, <1>5, <1>8, <1>9 DEF Settles

\* The steps of the client, but for an activation that it hears of.
LEMMA SettlesClient ==
  ASSUME Wired, Phased, ClientStep, ~disposed', Proxy # 0, NEW kind \in Kinds, NEW x \in Items(kind),
         ~(Client!Dismiss /\ Names(Head(down), kind, x))
  PROVE  /\ Settles(kind, x) => Settles(kind, x)'
         /\ Held(kind, x) = "absent" /\ Held(kind, x)' # "absent" => Settles(kind, x)'
<1> DEFINE D == DownMessage(Len(request))
<1>1. /\ Wired' /\ ~disposed
      /\ up \in Seq(UpRecord) /\ down \in Seq(D)
      /\ Seq(UpMessage(Len(request))) \subseteq Seq(UpRecord)
      /\ UpMessage(Len(request)) \subseteq UpRecord
      /\ Held(kind, x) \in SourceState /\ Awaiting(kind) \in SUBSET Nat
  BY WiredStep, DisposedStep, ItemTypes, SessionFacts DEF Undisturbed, Phased
<1>2. Held(kind, x)' \in SourceState
  <2>1. sources' \in [Source -> ClientSource] /\ messages' \in [Message -> MessageState]
    BY <1>1 DEF Wired, ClientTyped
  <2>2. kind = "sources" => sources'[x] \in ClientSource
    BY <2>1 DEF Items
  <2>3. kind = "messages" => messages'[x] \in MessageState
    BY <2>1 DEF Items
  <2>4. QED
    BY <2>2, <2>3 DEF Kinds, Held, Client!SourceToVariant, SourceState, MessageState
<1>3. Seen(kind, x)' = Seen(kind, x) /\ Awaiting(kind)' = Awaiting(kind) /\ Proxy' = Proxy
  BY DEF ClientStep, vars, Seen, Awaiting, Proxy
<1> HIDE DEF D
<1>4. ASSUME \A d : d.type = ListCall(kind) /\ d.req = Proxy => Passes(down, down', D, d)
      PROVE  Asked(kind) => Asked(kind)'
  <2>1. Proxy \in Awaiting(kind) => Proxy \in Awaiting(kind)'
    BY <1>3
  <2>2. QED
    BY <1>3, <1>4, <2>1, AskedKept DEF Asked
<1>5. CASE Client!Program
  <2>1. PICK sent : Programmed(sent)
    BY <1>5, ProgramStep
  <2>2. sent \in Seq(UpRecord) /\ up' = up \o sent /\ down' = down
    BY <1>1, <2>1 DEF Programmed
  <2>3. Leads(sent, kind, x, Awaiting(kind), Held(kind, x), Held(kind, x)')
    <3>1. ItemsFollow(sent)
      BY <2>1 DEF Programmed
    <3>2. QED
      BY <1>1, <3>1 DEF ItemsFollow
  <2>4. \A d : Passes(down, down', D, d)
    BY <1>1, <2>2 DEF Passes
  <2>5. QED
    BY <1>2, <1>3, <1>4, <2>2, <2>3, <2>4, SettlesSent
<1>6. ASSUME NEW u \in UpMessage(Len(request)), up' = up \o <<u>>,
             Held(kind, x)' = Held(kind, x),
             Leads(<<u>>, kind, x, Awaiting(kind), Held(kind, x), Held(kind, x)),
             \A d : d.type = ListCall(kind) /\ d.req = Proxy => Passes(down, down', D, d)
      PROVE  Settles(kind, x) => Settles(kind, x)'
  <2>1. <<u>> \in Seq(UpRecord)
    BY <1>1
  <2>2. QED
    BY <1>2, <1>3, <1>4, <1>6, <2>1, SettlesSent
<1>7. CASE Client!GetAll
  <2>1. PICK u : Introduced(u)
    BY <1>7, GetAllStep
  <2>2. /\ u \in UpMessage(Len(request)) /\ up' = up \o <<u>> /\ u.items = << >>
        /\ down # << >> /\ down' = Tail(down) /\ Head(down).type = "get-all"
    BY <2>1 DEF Introduced
  <2>3. Held(kind, x)' = Held(kind, x)
    BY <2>1 DEF Introduced, client, Held
  <2>4. Leads(<<u>>, kind, x, Awaiting(kind), Held(kind, x), Held(kind, x))
    BY <1>1, <2>2, PlainLeads
  <2>5. \A d : d.type = ListCall(kind) => Passes(down, down', D, d)
    BY <1>1, <2>2, CallNames DEF Passes
  <2>6. QED
    BY <1>6, <2>2, <2>3, <2>4, <2>5
<1>8. CASE Client!ListSources \/ Client!ListMessages
  <2>1. PICK other \in Kinds : \E u : Answered(other, u)
    BY <1>8, ListStep
  <2>2. PICK u : Answered(other, u)
    BY <2>1
  <2>3. /\ u \in UpMessage(Len(request)) /\ u \in UpRecord /\ up' = up \o <<u>> /\ u.type = other
        /\ down # << >> /\ down' = Tail(down) /\ Head(down).type = ListCall(other)
        /\ u.req = Head(down).req
        /\ \A y \in Items(other) :
             /\ Held(other, y) = "absent" => y \notin DOMAIN u.items
             /\ Held(other, y) # "absent" => y \in DOMAIN u.items /\ u.items[y] = Held(other, y)
    BY <1>1, <2>2 DEF Answered
  <2>4. Held(kind, x)' = Held(kind, x)
    BY <2>2 DEF Answered, client, Held
  <2>5. PICK h, W : h = Held(kind, x) /\ W = Awaiting(kind) /\ h \in SourceState
    BY <1>1
  <2>6. News(u, kind, x, W) = IF kind = other /\ u.req \in W /\ h # "absent"
                              THEN [how |-> "set", to |-> h] ELSE Nothing
    <3>1. other \notin {"source-added", "source-removed", "source-changed",
                        "message-added", "message-removed"}
      BY DEF Kinds
    <3>2. CASE kind = other
      BY <2>3, <2>5, <3>1, <3>2 DEF News
    <3>3. CASE kind # other
      BY <2>3, <3>1, <3>3 DEF News
    <3>4. QED
      BY <3>2, <3>3
  <2>7. Applied(h, News(u, kind, x, W)) = h
    BY <2>6 DEF Applied, Nothing
  <2>8. Leads(<<u>>, kind, x, W, h, h)
    BY <2>3, <2>5, <2>7, LeadsOne
  <2>9. CASE kind # other \/ Head(down).req # Proxy
    <3>1. \A d : d.type = ListCall(kind) /\ d.req = Proxy => Passes(down, down', D, d)
      BY <1>1, <2>3, <2>9, CallNames DEF Passes
    <3>2. QED
      BY <1>6, <2>3, <2>4, <2>5, <2>8, <3>1
  <2>10. CASE kind = other /\ Head(down).req = Proxy
    <3>1. PICK e \in SourceState : e = Seen(kind, x)
      BY ItemTypes
    <3>2. <<u>> \in Seq(UpRecord)
      BY <2>3
    <3>3. ASSUME Leads(up \o <<u>>, kind, x, W, e, h) PROVE Settles(kind, x)'
      BY <1>3, <2>3, <2>4, <2>5, <3>1, <3>3 DEF Settles
    <3>4. CASE Leads(up, kind, x, W, e, h)
      <4>1. Leads(up \o <<u>>, kind, x, W, e, h)
        BY <1>1, <2>8, <3>2, <3>4, LeadsConcat
      <4>2. QED
        BY <3>3, <4>1
    <3>5. CASE h # "absent" /\ Asked(kind)
      <4>1. Proxy \in W
        BY <2>5, <3>5 DEF Asked
      <4>2. PICK b \in SourceState : Leads(up, kind, x, W, e, b)
        BY <1>1, LeadsSomewhere
      <4>3. Applied(b, News(u, kind, x, W)) = h
        BY <2>3, <2>6, <2>10, <3>5, <4>1 DEF Applied
      <4>4. Leads(<<u>>, kind, x, W, b, h)
        BY <2>3, <4>3, LeadsOne
      <4>5. Leads(up \o <<u>>, kind, x, W, e, h)
        BY <1>1, <3>2, <4>2, <4>4, LeadsConcat
      <4>6. QED
        BY <3>3, <4>5
    <3>6. QED
      BY <2>4, <2>5, <3>1, <3>4, <3>5 DEF Settles
  <2>11. QED
    BY <2>4, <2>9, <2>10
<1>9. CASE Client!Dismiss
  <2>1. /\ down # << >> /\ Head(down).type = "dismiss" /\ down' = Tail(down) /\ up' = up
        /\ Held(kind, x)' = Held(kind, x)
    BY <1>9, DismissStep
  <2>2. \A d : d.type = ListCall(kind) => Passes(down, down', D, d)
    BY <1>1, <2>1, CallNames DEF Passes
  <2>3. Asked(kind) => Asked(kind)'
    BY <1>4, <2>2
  <2>4. QED
    BY <1>3, <2>1, <2>3 DEF Settles
<1>10. QED
  BY <1>5, <1>7, <1>8, <1>9 DEF ClientStep, Client!Handlers

\* A signal does to the menu what its news say.
LEMMA SignalSeen ==
  ASSUME Wired, TakeItemSignal, Proxy # 0, NEW kind \in Kinds, NEW x \in Items(kind), NEW W
  PROVE  Seen(kind, x)' = Applied(Seen(kind, x), News(Head(up), kind, x, W))
<1>1. /\ Proxy \in Requests /\ Self \in App /\ app \in [App -> Application]
      /\ \A k \in Requests : Requester(k) = Self
  BY SessionFacts DEF TypeOK
<1>2. Proxy \in Connections
  BY <1>1 DEF Connections, Live, Proxy
<1>3. PICK type \in {"source-added", "source-changed", "source-removed",
                     "message-added", "message-removed"} :
         /\ up # << >> /\ Head(up).type = type
         /\ \E k \in Connections, y \in DOMAIN Head(up).items :
              ItemSignal(type, k, y, Head(up).items[y])
  BY <1>2 DEF TakeItemSignal, Take
<1>4. PICK k \in Requests, y \in DOMAIN Head(up).items : ItemSignal(type, k, y, Head(up).items[y])
  BY <1>3 DEF Connections
<1>5. PICK u, v, w : u = Head(up) /\ v = u.items[y] /\ w = News(u, kind, x, W)
  OBVIOUS
<1>6. Requester(k) = Self /\ u.type = type /\ y \in DOMAIN u.items
  BY <1>1, <1>3, <1>4, <1>5
<1>7. /\ DOMAIN u.items = {y}
      /\ type \in {"source-added", "source-changed", "source-removed"} => y \in Source
      /\ type \in {"message-added", "message-removed"} => y \in Message
      /\ type \in {"source-removed", "message-removed"} => v = "absent"
  <2>1. u \in UpMessage(Len(request)) /\ Len(request) \in Nat
    BY <1>3, <1>5, UpHead
  <2>2. PICK s, z : /\ u.items = [t \in {s} |-> z]
                    /\ type \in {"source-added", "source-changed", "source-removed"} => s \in Source
                    /\ type \in {"message-added", "message-removed"} => s \in Message
                    /\ type \in {"source-removed", "message-removed"} => z = "absent"
    <3>1. u.type = type
      BY <1>6
    <3>2. CASE type \in {"source-added", "source-changed"}
      <4>1. \E s \in Source, z \in SourceState \ {"absent"} : u.items = [t \in {s} |-> z]
        BY <2>1, <3>1, <3>2, TakenMessage
      <4>2. QED
        BY <3>2, <4>1
    <3>3. CASE type = "source-removed"
      <4>1. \E s \in Source : u.items = [t \in {s} |-> "absent"]
        BY <2>1, <3>1, <3>3, TakenMessage
      <4>2. QED
        BY <3>3, <4>1
    <3>4. CASE type = "message-added"
      <4>1. \E m \in Message, z \in MessageState \ {"absent"} : u.items = [t \in {m} |-> z]
        BY <2>1, <3>1, <3>4, TakenMessage
      <4>2. QED
        BY <3>4, <4>1
    <3>5. CASE type = "message-removed"
      <4>1. \E m \in Message : u.items = [t \in {m} |-> "absent"]
        BY <2>1, <3>1, <3>5, TakenMessage
      <4>2. QED
        BY <3>5, <4>1
    <3>6. QED
      BY <1>3, <3>2, <3>3, <3>4, <3>5
  <2>3. QED
    BY <1>5, <1>6, <2>2
<1>8. app[Self] \in Application
  BY <1>1
<1>9. CASE type = "source-added"
  <2>1. app' = [app EXCEPT ![Self] = AddSources(app[Self], [t \in {y} |-> v])]
    BY <1>4, <1>5, <1>6, <1>9 DEF ItemSignal, SourceAdded, Update
  <2>2. /\ app'[Self].sources = [s \in Source |-> IF s = y THEN v ELSE app[Self].sources[s]]
        /\ app'[Self].messages = app[Self].messages
    BY <1>1, <1>8, <2>1 DEF AddSources, Application
  <2>3. w = IF kind = "sources" /\ x = y THEN [how |-> "set", to |-> v] ELSE Nothing
    BY <1>5, <1>6, <1>7, <1>9 DEF News, Kinds
  <2>4. QED
    BY <1>5, <2>2, <2>3 DEF Seen, Applied, Nothing, Items, Kinds
<1>10. CASE type = "source-changed"
  <2>1. app' = [app EXCEPT ![Self] = ChangeSource(app[Self], y, v)]
    BY <1>4, <1>5, <1>6, <1>10 DEF ItemSignal, SourceChanged, Update
  <2>2. /\ app'[Self].sources = [app[Self].sources EXCEPT
                                   ![y] = IF app[Self].sources[y] = "absent" THEN "absent" ELSE v]
        /\ app'[Self].messages = app[Self].messages
    BY <1>1, <1>7, <1>8, <1>10, <2>1 DEF ChangeSource, Recomputed, Application
  <2>3. w = IF kind = "sources" /\ x = y THEN [how |-> "change", to |-> v] ELSE Nothing
    BY <1>5, <1>6, <1>7, <1>10 DEF News, Kinds
  <2>4. QED
    BY <1>5, <1>8, <2>2, <2>3 DEF Seen, Applied, Nothing, Items, Kinds, Application
<1>11. CASE type = "source-removed"
  <2>1. app' = [app EXCEPT ![Self] = RemoveSource(app[Self], y)]
    BY <1>4, <1>5, <1>6, <1>11 DEF ItemSignal, SourceRemoved, Update
  <2>2. /\ app'[Self].sources = [app[Self].sources EXCEPT ![y] = "absent"]
        /\ app'[Self].messages = app[Self].messages
    BY <1>1, <1>8, <2>1 DEF RemoveSource, Recomputed, Application
  <2>3. w = IF kind = "sources" /\ x = y THEN [how |-> "set", to |-> "absent"] ELSE Nothing
    BY <1>5, <1>6, <1>7, <1>11 DEF News, Kinds
  <2>4. QED
    BY <1>5, <1>8, <2>2, <2>3 DEF Seen, Applied, Nothing, Items, Kinds, Application
<1>12. CASE type = "message-added"
  <2>1. app' = [app EXCEPT ![Self] = AddMessages(app[Self], [t \in {y} |-> v])]
    BY <1>4, <1>5, <1>6, <1>12 DEF ItemSignal, MessageAdded
  <2>2. /\ app'[Self].messages = [m \in Message |-> IF m = y THEN v ELSE app[Self].messages[m]]
        /\ app'[Self].sources = app[Self].sources
    BY <1>1, <1>8, <2>1 DEF AddMessages, Application
  <2>3. w = IF kind = "messages" /\ x = y THEN [how |-> "set", to |-> v] ELSE Nothing
    BY <1>5, <1>6, <1>7, <1>12 DEF News, Kinds
  <2>4. QED
    BY <1>5, <2>2, <2>3 DEF Seen, Applied, Nothing, Items, Kinds
<1>13. CASE type = "message-removed"
  <2>1. app' = [app EXCEPT ![Self] = RemoveMessage(app[Self], y)]
    BY <1>4, <1>5, <1>6, <1>13 DEF ItemSignal, MessageRemoved, Update
  <2>2. /\ app'[Self].messages = [app[Self].messages EXCEPT ![y] = "absent"]
        /\ app'[Self].sources = app[Self].sources
    BY <1>1, <1>8, <2>1 DEF RemoveMessage, Recomputed, Application
  <2>3. w = IF kind = "messages" /\ x = y THEN [how |-> "set", to |-> "absent"] ELSE Nothing
    BY <1>5, <1>6, <1>7, <1>13 DEF News, Kinds
  <2>4. QED
    BY <1>5, <1>8, <2>2, <2>3 DEF Seen, Applied, Nothing, Items, Kinds, Application
<1>14. QED
  BY <1>3, <1>9, <1>10, <1>11, <1>12, <1>13

\* The messages that no item is in.
LEMMA PlainHead ==
  ASSUME Wired, up # << >>,
         \/ Head(up).type \in {"register", "unregister", "stopped", "proxy"} \cup Status
         \/ Head(up).type \in {"sources-failed", "messages-failed"}
  PROVE  Head(up).items = << >>
<1>1. Head(up) \in UpMessage(Len(request))
  BY UpHead
<1>2. Sent(Head(up), Len(request))
  BY <1>1 DEF UpMessage
<1>3. \A x \in Status : x \notin MessageType
  BY StatusIsNoType
<1>4. QED
  BY <1>2, <1>3 DEF Sent, MessageType

\* They change nothing.
LEMMA PlainSeen ==
  ASSUME Wired, up # << >>, Head(up).items = << >>, NEW kind, NEW x, NEW W, NEW a \in SourceState
  PROVE  Applied(a, News(Head(up), kind, x, W)) = a
<1>1. News(Head(up), kind, x, W) = Nothing
  BY DEF News
<1>2. QED
  BY <1>1 DEF Applied, Nothing

\* The steps of the bus and of the service, but for a creation that completes.
LEMMA SettlesService ==
  ASSUME Wired, Phased, Healthy, ~disposed', NEW kind \in Kinds, NEW x \in Items(kind),
         NameVanished \/ NameAppeared \/ ServiceProxy \/ Service,
         TakeProxy => \A k, i : ~Connects(k, i)
  PROVE  Settles(kind, x) => Settles(kind, x)'
<1> DEFINE D == DownMessage(Len(request))
<1>1. /\ ~disposed /\ Proxy # 0 /\ ~Doomed /\ CallsOnce /\ NothingFailed /\ Uncancelled
      /\ up \in Seq(UpRecord) /\ down \in Seq(D) /\ pending \in Seq(Operation)
      /\ Seq(UpMessage(Len(request))) \subseteq Seq(UpRecord)
      /\ Held(kind, x) \in SourceState /\ Seen(kind, x) \in SourceState
      /\ Awaiting(kind) \in SUBSET Nat
  BY ItemTypes, SessionFacts DEF Phased, Healthy
<1> HIDE DEF D
<1>2. PICK h, e, W : h = Held(kind, x) /\ e = Seen(kind, x) /\ W = Awaiting(kind)
  OBVIOUS
<1>3. UNCHANGED client => Held(kind, x)' = Held(kind, x)
  BY DEF client, Held
<1>4. UNCHANGED app => Seen(kind, x)' = Seen(kind, x) /\ Proxy' = Proxy
  BY DEF Seen, Proxy
<1>5. ASSUME down' = down, Proxy' = Proxy, Awaiting(kind)' = W
      PROVE  Asked(kind) => Asked(kind)'
  BY <1>2, <1>5 DEF Asked
<1>6. ASSUME Taken, down' = down, Seen(kind, x)' = Applied(e, News(Head(up), kind, x, W)),
             Proxy' = Proxy, pending' = pending
      PROVE  Settles(kind, x) => Settles(kind, x)'
  <2>1. Awaiting(kind)' = W
    BY <1>2, <1>6 DEF Awaiting
  <2>2. Held(kind, x)' = Held(kind, x)
    BY <1>3, <1>6 DEF Taken
  <2>3. QED
    BY <1>2, <1>5, <1>6, <2>1, <2>2, SettlesTaken
<1>7. ASSUME Taken, down' = down, app' = app, pending' = pending, Head(up).items = << >>
      PROVE  Settles(kind, x) => Settles(kind, x)'
  <2>1. Applied(e, News(Head(up), kind, x, W)) = e
    BY <1>1, <1>2, <1>7, PlainSeen DEF Taken
  <2>2. QED
    BY <1>2, <1>4, <1>6, <1>7, <2>1
<1>8. CASE NameVanished \/ NameAppeared
  <2>1. /\ up' = up /\ down' = down /\ UNCHANGED <<app, pending, sources, messages>>
    BY <1>8 DEF NameVanished, NameAppeared, Client!Vanished, Client!Appeared, vars
  <2>2. Held(kind, x)' = Held(kind, x) /\ Awaiting(kind)' = Awaiting(kind)
    BY <2>1 DEF Held, Awaiting
  <2>3. QED
    BY <1>4, <2>1, <2>2 DEF Settles, Asked
<1>9. CASE ServiceProxy
  <2>1. PICK sent \in Seq(UpRecord) : up' = up \o sent /\ \A i \in DOMAIN sent : sent[i].items = << >>
    BY <1>1, <1>9, SyncFacts
  <2>2. down' = down /\ UNCHANGED <<app, pending, sources, messages>>
    BY <1>9 DEF ServiceProxy, Client!CreatedMessagesService, vars
  <2>3. Held(kind, x)' = Held(kind, x) /\ Awaiting(kind)' = Awaiting(kind)
    BY <2>2 DEF Held, Awaiting
  <2>4. Leads(sent, kind, x, W, h, h)
    BY <1>1, <1>2, <2>1, QuietLeads
  <2>5. Asked(kind) => Asked(kind)'
    BY <1>2, <1>4, <1>5, <2>2, <2>3
  <2>6. QED
    BY <1>1, <1>2, <1>4, <2>1, <2>2, <2>3, <2>4, <2>5, SettlesSent
<1>10. CASE TakeRegister
  <2>1. PICK k : Registers(k)
    BY <1>10, RegisterStep
  <2>2. PICK d : d = Client!Down("get-all", k, {}, {})
    OBVIOUS
  <2>3. /\ Taken /\ Head(up).type = "register" /\ k \in RequestId
        /\ pending' = Append(pending, Call("create", k, k))
        /\ down' = down \o <<d>> /\ Proxy' = Proxy
        /\ app'[Self].sources = app[Self].sources /\ app'[Self].messages = app[Self].messages
    BY <1>1, <2>1, <2>2 DEF Registers
  <2>4. Awaiting(kind)' = W
    <3>2. pending \in Seq(Operation) /\ k \in RequestId
      BY <1>1, <2>3
    <3>3. Underway(Append(pending, Call("create", k, k)), kind) = Underway(pending, kind)
      BY <3>2, UnderwayNone
    <3>4. QED
      BY <1>2, <2>3, <3>3 DEF Awaiting
  <2>5. Applied(e, News(Head(up), kind, x, W)) = e
    BY <1>1, <1>2, <2>3, PlainHead, PlainSeen DEF Taken
  <2>6. Seen(kind, x)' = e
    BY <1>2, <2>3 DEF Seen
  <2>7. Asked(kind) => Asked(kind)'
    <3>1. PICK T : T = D \cup {d}
      OBVIOUS
    <3>2. down \in Seq(T) /\ <<d>> \in Seq(T)
      <4>1. D \subseteq T /\ d \in T
        BY <3>1
      <4>2. QED
        BY <1>1, <4>1, SeqMonotonic
    <3>3. \A c : Passes(down, down', T, c)
      BY <2>3, <3>2 DEF Passes
    <3>4. QED
      BY <1>2, <2>3, <2>4, <3>3, AskedKept DEF Asked
  <2>8. Held(kind, x)' = Held(kind, x)
    BY <1>3, <2>3 DEF Taken
  <2>9. QED
    BY <1>2, <2>3, <2>4, <2>5, <2>6, <2>7, <2>8, SettlesTaken
<1>11. CASE TakeUnregister \/ TakeStatus
  <2>1. Taken /\ down' = down /\ pending' = pending
    BY <1>11, TakenStep, ItemsKeepCalls DEF CallsKept
  <2>2. app' = app
    BY <1>11 DEF TakeUnregister, Unregister, ListRemove, TakeStatus, vars
  <2>3. Head(up).type \in {"unregister"} \cup Status
    BY <1>11 DEF TakeUnregister, TakeStatus, Take
  <2>4. Head(up).items = << >>
    BY <2>1, <2>3, PlainHead DEF Taken
  <2>5. QED
    BY <1>7, <2>1, <2>2, <2>4
<1>12. CASE TakeStopped
  <2>1. Head(up).type = "stopped" /\ up # << >>
    BY <1>12 DEF TakeStopped, Take
  <2>2. 1 \in DOMAIN up /\ up[1] = Head(up)
    BY <1>1, <2>1, TailElements
  <2>3. QED
    BY <1>1, <2>1, <2>2 DEF NothingFailed
<1>13. CASE TakeItemSignal
  <2>1. Taken /\ down' = down /\ pending' = pending /\ Proxy' = Proxy
    BY <1>13, TakenStep, ItemsKeepCalls DEF CallsKept
  <2>2. Seen(kind, x)' = Applied(e, News(Head(up), kind, x, W))
    BY <1>1, <1>2, <1>13, SignalSeen
  <2>3. QED
    BY <1>6, <2>1, <2>2
<1>14. CASE TakeProxy
  <2>1. PICK k \in Requests :
           /\ Head(up).type = "proxy" /\ Taken
           /\ \/ UNCHANGED vars /\ down' = down
              \/ \E i \in DOMAIN pending : Connects(k, i)
    BY <1>1, <1>14, ProxyStep
  <2>2. UNCHANGED <<app, pending>> /\ down' = down
    BY <1>14, <2>1 DEF vars
  <2>3. Head(up).items = << >>
    BY <2>1, PlainHead DEF Taken
  <2>4. QED
    BY <1>7, <2>1, <2>2, <2>3
<1>15. CASE TakeSources \/ TakeMessages
  <2>1. PICK other \in Kinds : \E k : ReplyTaken(other, k)
    BY <1>15, ReplyStep
  <2>2. PICK k : ReplyTaken(other, k)
    BY <2>1
  <2>3. PICK u : u = Head(up)
    OBVIOUS
  <2>4. /\ Taken /\ down' = down /\ k \in Requests /\ k = u.req
        /\ 1 \in DOMAIN up /\ up[1] = u /\ u.type = other
    <3>1. Taken /\ down' = down /\ k \in Requests /\ k = u.req /\ u.type \in {other, Failed(other)}
      BY <2>2, <2>3 DEF ReplyTaken
    <3>2. 1 \in DOMAIN up /\ up[1] = u
      BY <1>1, <2>3, <3>1, TailElements DEF Taken
    <3>3. u.type # Failed(other)
      BY <1>1, <3>2 DEF NothingFailed, Failed
    <3>4. QED
      BY <3>1, <3>2, <3>3
  <2>5. other \notin {"source-added", "source-removed", "source-changed",
                      "message-added", "message-removed"}
    BY DEF Kinds
  <2>6. CASE ~Awaited(other, k) /\ UNCHANGED vars
    <3>1. kind = other => k \notin W
      BY <1>1, <1>2, <2>6 DEF Awaited, Awaiting, Underway, Uncancelled
    <3>2. News(u, kind, x, W) = Nothing
      BY <2>4, <2>5, <3>1 DEF News
    <3>3. Applied(e, News(Head(up), kind, x, W)) = e
      BY <2>3, <3>2 DEF Applied, Nothing
    <3>4. UNCHANGED <<app, pending>>
      BY <2>6 DEF vars
    <3>5. QED
      BY <1>2, <1>4, <1>6, <2>4, <3>3, <3>4
  <2>7. ASSUME k # Proxy, \E i \in DOMAIN pending : pending[i].kind = other /\ pending[i].req = k
        PROVE  FALSE
    <3>1. other # "create"
      BY DEF Kinds
    <3>2. QED
      BY <1>1, <2>7, <3>1 DEF Doomed
  <2>8. CASE Awaited(other, k) /\ Completed(other, k) /\ Added(other, u.items)
    <3>1. PICK i \in DOMAIN pending :
            /\ pending[i].kind = other /\ pending[i].req = k /\ pending' = RemoveAt(pending, i)
      BY <2>8 DEF Completed
    <3>2. k = Proxy /\ Proxy' = Proxy /\ k \in Awaiting(other)
      <4>1. k = Proxy
        BY <2>4, <2>8, SessionFacts DEF Completed, Current, Proxy
      <4>2. QED
        BY <2>8, <3>1, <4>1 DEF Completed, Awaiting, Underway
    <3>3. PICK V : V = Awaiting(kind)'
      OBVIOUS
    <3>4. /\ V \subseteq W
          /\ \A r \in W : kind # other \/ r # k => r \in V
      <4>1. /\ Underway(RemoveAt(pending, i), kind) \subseteq Underway(pending, kind)
            /\ \A r \in Underway(pending, kind) :
                 pending[i].kind # kind \/ pending[i].req # r
                   => r \in Underway(RemoveAt(pending, i), kind)
        BY <1>1, <3>1, UnderwayRemoved
      <4>2. V = Underway(RemoveAt(pending, i), kind) /\ W = Underway(pending, kind)
        BY <1>2, <3>1, <3>3 DEF Awaiting
      <4>3. QED
        BY <3>1, <4>1, <4>2
    <3>5. \A n \in DOMAIN up : n # 1 => News(up[n], kind, x, W) = News(up[n], kind, x, V)
      <4> SUFFICES ASSUME NEW n \in DOMAIN up, n # 1
                   PROVE  News(up[n], kind, x, W) = News(up[n], kind, x, V)
        OBVIOUS
      <4>1. up[n].type = kind /\ kind = other => up[n].req # k
        BY <1>1, <2>4 DEF CallsOnce, Once
      <4>2. up[n].type = kind => (up[n].req \in W <=> up[n].req \in V)
        BY <3>4, <4>1
      <4>3. QED
        BY <4>2 DEF News
    <3>6. Asked(kind) => Asked(kind)'
      <4>1. CASE kind = other
        <5>1. ~Asked(kind)
          BY <1>1, <2>4, <3>2, <4>1 DEF Asked, CallsOnce, Once
        <5>2. QED
          BY <5>1
      <4>2. CASE kind # other
        <5>1. V = W
          BY <3>4, <4>2
        <5>2. QED
          BY <1>5, <2>4, <3>2, <3>3, <5>1
      <4>3. QED
        BY <4>1, <4>2
    <3>7. Seen(kind, x)' = Applied(e, News(u, kind, x, W))
      <4>1. News(u, kind, x, W) = IF kind = other /\ x \in DOMAIN u.items
                                  THEN [how |-> "set", to |-> u.items[x]] ELSE Nothing
        <5>1. kind = other => u.type = kind /\ u.req \in W
          BY <1>2, <2>4, <3>2
        <5>2. kind # other => u.type # kind
          BY <2>4
        <5>3. QED
          BY <2>4, <2>5, <5>1, <5>2 DEF News
      <4>2. app \in [App -> Application] /\ Self \in App /\ app[Self] \in Application
        BY SessionFacts DEF TypeOK
      <4>3. CASE other = "sources"
        <5>1. app'[Self] = AddSources(app[Self], u.items)
          BY <2>8, <4>2, <4>3 DEF Added
        <5>2. /\ app'[Self].sources = [s \in Source |-> IF s \in DOMAIN u.items THEN u.items[s]
                                                        ELSE app[Self].sources[s]]
              /\ app'[Self].messages = app[Self].messages
          BY <4>2, <5>1 DEF AddSources, Application
        <5>3. QED
          BY <1>2, <4>1, <4>3, <5>2 DEF Seen, Applied, Nothing, Items, Kinds
      <4>4. CASE other = "messages"
        <5>1. app'[Self] = AddMessages(app[Self], u.items)
          BY <2>8, <4>2, <4>4 DEF Added
        <5>2. /\ app'[Self].messages = [m \in Message |-> IF m \in DOMAIN u.items THEN u.items[m]
                                                          ELSE app[Self].messages[m]]
              /\ app'[Self].sources = app[Self].sources
          BY <4>2, <5>1 DEF AddMessages, Application
        <5>3. QED
          BY <1>2, <4>1, <4>4, <5>2 DEF Seen, Applied, Nothing, Items, Kinds
      <4>5. QED
        BY <4>3, <4>4 DEF Kinds
    <3>8. Held(kind, x)' = Held(kind, x)
      BY <1>3, <2>4 DEF Taken
    <3>9. QED
      BY <1>2, <2>3, <2>4, <3>3, <3>5, <3>6, <3>7, <3>8, SettlesTaken
  <2>9. QED
    <3>1. Head(up).type # Failed(other)
      BY <2>3, <2>4, CallNames
    <3>2. QED
      BY <2>2, <2>3, <2>6, <2>7, <2>8, <3>1 DEF ReplyTaken
<1>16. CASE CancelledCallback
  BY <1>1, <1>16, CancelledStep DEF Uncancelled
<1>17. QED
  BY <1>8, <1>9, <1>10, <1>11, <1>12, <1>13, <1>14, <1>15, <1>16 DEF Service

\* A proxy that is connected asks for both lists.
LEMMA ConnectAsks ==
  ASSUME Wired, CallsOnce, NEW k, NEW i, Connects(k, i), NEW kind \in Kinds
  PROVE  Asked(kind)' /\ Proxy' = k
<1>1. /\ pending \in Seq(Operation) /\ app \in [App -> Application] /\ Self \in App
      /\ Cancellable \in RequestOrNull /\ CreatesOnce(pending) /\ Len(request) \in Nat
  BY SessionFacts DEF TypeOK, CallsOnce, Application, Cancellable
<1>2. /\ i \in DOMAIN pending /\ pending[i].kind = "create" /\ pending[i].req = k
      /\ k \in Requests /\ k \in RequestId
  BY SessionFacts DEF Connects, Due
<1>3. Proxy' = k
  BY <1>1 DEF Connects, Proxy, Application
<1>4. k \in Awaiting(kind)'
  <2>1. PICK q : q = RemoveAt(pending, i) \o ListBoth(k, Cancellable)
    OBVIOUS
  <2>2. AsksLists(pending, i, k, Cancellable, q)
    BY <1>1, <1>2, <2>1 DEF AsksLists
  <2>3. PICK p, c : p = pending /\ c = Cancellable
    OBVIOUS
  <2>4. AsksLists(p, i, k, c, q)
    BY <2>2, <2>3
  <2>5. \A other \in Kinds : Underway(q, other) = Underway(p, other) \cup {k}
    BY <2>4, UnderwayLists
  <2>6. QED
    BY <2>1, <2>5 DEF Connects, Awaiting
<1>5. \E j \in DOMAIN (down \o ListAsks(k)) :
        /\ (down \o ListAsks(k))[j].type = ListCall(kind)
        /\ (down \o ListAsks(k))[j].req = k
  <2>1. PICK T : T = DownMessage(Len(request))
    OBVIOUS
  <2>2. PICK l : l = ListAsks(k)
    OBVIOUS
  <2>3. /\ l \in Seq(T) /\ DOMAIN l = {1, 2}
        /\ l[1].type = "list-sources" /\ l[1].req = k
        /\ l[2].type = "list-messages" /\ l[2].req = k
    <3>1. Client!Down("list-sources", k, {}, {}) \in T /\ Client!Down("list-messages", k, {}, {}) \in T
      BY <1>1, <1>2, <2>1, SessionFacts DEF Client!Down, DownMessage
    <3>2. QED
      BY <2>2, <3>1 DEF ListAsks, Client!Down
  <2>4. PICK j \in DOMAIN l : l[j].type = ListCall(kind) /\ l[j].req = k
    BY <2>3 DEF Kinds, ListCall
  <2>5. down \in Seq(T)
    BY <2>1, SessionFacts
  <2>6. Len(down) + j \in DOMAIN (down \o l) /\ (down \o l)[Len(down) + j] = l[j]
    BY <2>3, <2>4, <2>5, ConcatElements
  <2>7. QED
    BY <2>2, <2>4, <2>6
<1>6. QED
  BY <1>3, <1>4, <1>5 DEF Connects, Asked

\* The client hears of every activation, and drops what was activated.
LEMMA DismissedStep ==
  ASSUME Wired, CallsOnce, Undisturbed \/ UserStep,
         NEW kind \in Kinds, NEW x \in Items(kind), Dismissed(kind, x)
  PROVE  Dismissed(kind, x)' \/ Held(kind, x)' = "absent"
<1>1. PICK T : T = DownMessage(Len(request))
  OBVIOUS
<1>2. down \in Seq(T)
  BY <1>1, SessionFacts
<1>3. CASE down' = down
  BY <1>3 DEF Dismissed
<1>4. ASSUME NEW S, T \subseteq S, NEW sent \in Seq(S), down' = down \o sent
      PROVE  Dismissed(kind, x)'
  <2>1. down \in Seq(S)
    BY <1>2, <1>4, SeqMonotonic
  <2>2. \A d : Passes(down, down', S, d)
    BY <1>4, <2>1 DEF Passes
  <2>3. QED
    BY <2>2, DismissedKept
<1>5. ASSUME down # << >>, down' = Tail(down), ~Names(Head(down), kind, x)
      PROVE  Dismissed(kind, x)'
  <2>1. \A d : Names(d, kind, x) => Passes(down, down', T, d)
    BY <1>2, <1>5 DEF Passes
  <2>2. QED
    BY <2>1, DismissedKept
<1>6. CASE ClientStep
  <2>1. CASE Client!Program
    <3>1. PICK sent : Programmed(sent)
      BY <2>1, ProgramStep
    <3>2. QED
      BY <1>3, <3>1 DEF Programmed
  <2>2. CASE Client!GetAll
    <3>1. PICK u : Introduced(u)
      BY <2>2, GetAllStep
    <3>2. QED
      BY <1>5, <3>1 DEF Introduced, Names
  <2>3. CASE Client!ListSources \/ Client!ListMessages
    <3>1. PICK other \in Kinds : \E u : Answered(other, u)
      BY <2>3, ListStep
    <3>2. Head(down).type # "dismiss" /\ down # << >> /\ down' = Tail(down)
      BY <3>1, CallNames DEF Answered
    <3>3. QED
      BY <1>5, <3>2 DEF Names
  <2>4. CASE Client!Dismiss
    <3>1. /\ down # << >> /\ down' = Tail(down)
          /\ Held(kind, x)' = IF Names(Head(down), kind, x) THEN "absent" ELSE Held(kind, x)
      BY <2>4, DismissStep
    <3>2. QED
      BY <1>5, <3>1
  <2>5. QED
    BY <1>6, <2>1, <2>2, <2>3, <2>4 DEF ClientStep, Client!Handlers
<1>7. CASE NameVanished \/ NameAppeared \/ ServiceProxy
  BY <1>3, <1>7 DEF NameVanished, NameAppeared, ServiceProxy, Client!Vanished, Client!Appeared,
     Client!CreatedMessagesService
<1>8. CASE TakeRegister
  <2>1. PICK k : Registers(k)
    BY <1>8, RegisterStep
  <2>2. PICK d, S : d = Client!Down("get-all", k, {}, {}) /\ S = T \cup {d}
    OBVIOUS
  <2>3. T \subseteq S /\ <<d>> \in Seq(S) /\ down' = down \o <<d>>
    <3>1. d \in S
      BY <2>2
    <3>2. QED
      BY <2>1, <2>2, <3>1 DEF Registers
  <2>4. QED
    BY <1>4, <2>3
<1>9. CASE \/ TakeUnregister \/ TakeStopped \/ TakeStatus \/ TakeItemSignal
           \/ TakeSources \/ TakeMessages
  BY <1>3, <1>9, TakenStep
<1>10. CASE TakeProxy
  <2>1. PICK k \in Requests : down' = down \/ \E i \in DOMAIN pending : Connects(k, i)
    BY <1>10, ProxyStep
  <2>2. down' = down \/ down' = down \o ListAsks(k)
    BY <2>1 DEF Connects
  <2>3. PICK a, b : a = Client!Down("list-sources", k, {}, {})
                    /\ b = Client!Down("list-messages", k, {}, {})
    OBVIOUS
  <2>4. PICK S : S = T \cup {a, b}
    OBVIOUS
  <2>5. T \subseteq S /\ ListAsks(k) \in Seq(S)
    <3>1. a \in S /\ b \in S
      BY <2>4
    <3>2. QED
      BY <2>3, <2>4, <3>1 DEF ListAsks
  <2>6. QED
    BY <1>3, <1>4, <2>2, <2>5
<1>11. CASE CancelledCallback
  BY <1>3, <1>11 DEF CancelledCallback, bus
<1>12. CASE UserStep
  <2>1. PICK told : Tells(told)
    BY <1>12, UserTells
  <2>2. QED
    BY <1>1, <1>4, <2>1 DEF Tells
<1>13. CASE ServiceRestart
  BY <1>3, <1>13 DEF ServiceRestart
<1>14. QED
  BY <1>6, <1>7, <1>8, <1>9, <1>10, <1>11, <1>12, <1>13 DEF Undisturbed, Service

\* An activation takes away no more than the item that the client is told of.
LEMMA UserSeen ==
  ASSUME Wired, UserStep, Proxy # 0, NEW kind \in Kinds, NEW x \in Items(kind)
  PROVE  Seen(kind, x)' = Seen(kind, x) \/ Dismissed(kind, x)'
<1>1. /\ app \in [App -> Application] /\ Self \in App /\ app[Self] \in Application
      /\ Len(request) \in Nat /\ down \in Seq(DownMessage(Len(request)))
  BY SessionFacts DEF TypeOK
<1>2. ASSUME NEW S \in SUBSET Source, NEW M \in SUBSET Message, Tell(S, M),
             x \in IF kind = "sources" THEN S ELSE M
      PROVE  Dismissed(kind, x)'
  <2>1. PICK d : d = Client!Down("dismiss", 0, S, M)
    OBVIOUS
  <2>2. down' = down \o <<d>>
    BY <1>2, <2>1 DEF Tell, Ask, Proxy
  <2>3. d \in DownMessage(Len(request)) /\ Names(d, kind, x)
    <3>1. d \in DownMessage(Len(request))
      BY <1>1, <2>1, CallTypes
    <3>2. QED
      BY <1>2, <2>1, <3>1 DEF Client!Down, Names
  <2>4. <<d>> \in Seq(DownMessage(Len(request))) /\ 1 \in DOMAIN <<d>> /\ <<d>>[1] = d
    BY <2>3
  <2>5. Len(down) + 1 \in DOMAIN (down \o <<d>>) /\ (down \o <<d>>)[Len(down) + 1] = d
    BY <1>1, <2>4, ConcatElements
  <2>6. QED
    BY <2>2, <2>3, <2>5 DEF Dismissed
<1>3. ASSUME NEW s \in Source, SourceActivated(Self, s), Tell({s}, {})
      PROVE  Seen(kind, x)' = Seen(kind, x) \/ Dismissed(kind, x)'
  <2>1. app'[Self] = RemoveSource(app[Self], s)
    BY <1>1, <1>3 DEF SourceActivated, Update
  <2>2. /\ app'[Self].sources = [app[Self].sources EXCEPT ![s] = "absent"]
        /\ app'[Self].messages = app[Self].messages
    BY <1>1, <2>1 DEF RemoveSource, Recomputed, Application
  <2>3. CASE kind = "sources" /\ x = s
    <3>1. {s} \in SUBSET Source /\ {} \in SUBSET Message
      OBVIOUS
    <3>2. QED
      BY <1>2, <1>3, <2>3, <3>1
  <2>4. CASE ~(kind = "sources" /\ x = s)
    BY <1>1, <2>2, <2>4 DEF Seen, Items, Kinds, Application
  <2>5. QED
    BY <2>3, <2>4
<1>4. ASSUME NEW m \in Message, MessageActivated(Self, m), Tell({}, {m})
      PROVE  Seen(kind, x)' = Seen(kind, x) \/ Dismissed(kind, x)'
  <2>1. app'[Self] = RemoveMessage(app[Self], m)
    BY <1>1, <1>4 DEF MessageActivated, Update
  <2>2. /\ app'[Self].messages = [app[Self].messages EXCEPT ![m] = "absent"]
        /\ app'[Self].sources = app[Self].sources
    BY <1>1, <2>1 DEF RemoveMessage, Recomputed, Application
  <2>3. CASE kind = "messages" /\ x = m
    <3>1. {m} \in SUBSET Message /\ {} \in SUBSET Source
      OBVIOUS
    <3>2. QED
      BY <1>2, <1>4, <2>3, <3>1
  <2>4. CASE ~(kind = "messages" /\ x = m)
    BY <1>1, <2>2, <2>4 DEF Seen, Items, Kinds, Application
  <2>5. QED
    BY <2>3, <2>4
<1>5. ASSUME RemoveAll,
             Tell({s \in Source : app[Self].sources[s] # "absent"},
                  {m \in Message : app[Self].messages[m] # "absent"})
      PROVE  Seen(kind, x)' = Seen(kind, x) \/ Dismissed(kind, x)'
  <2>1. app'[Self] = ClearItems(app[Self]) \/ app'[Self] = app[Self]
    BY <1>1, <1>5 DEF RemoveAll
  <2>2. \/ /\ app'[Self].sources = [s \in Source |-> "absent"]
           /\ app'[Self].messages = [m \in Message |-> "absent"]
        \/ app'[Self] = app[Self]
    BY <1>1, <2>1 DEF ClearItems, Stopped, Application
  <2>3. CASE Seen(kind, x) = "absent"
    BY <2>2, <2>3 DEF Seen, Items, Kinds
  <2>4. CASE Seen(kind, x) # "absent"
    <3>1. x \in IF kind = "sources" THEN {s \in Source : app[Self].sources[s] # "absent"}
                ELSE {m \in Message : app[Self].messages[m] # "absent"}
      BY <2>4 DEF Seen, Items, Kinds
    <3>2. /\ {s \in Source : app[Self].sources[s] # "absent"} \in SUBSET Source
          /\ {m \in Message : app[Self].messages[m] # "absent"} \in SUBSET Message
      OBVIOUS
    <3>3. QED
      BY <1>2, <1>5, <3>1, <3>2
  <2>5. QED
    BY <2>3, <2>4
<1>6. QED
  BY <1>3, <1>4, <1>5 DEF UserStep

\* It leaves the news alone.
LEMMA SettlesUser ==
  ASSUME Wired, UserStep, Proxy # 0, NEW kind \in Kinds, NEW x \in Items(kind),
         Seen(kind, x)' = Seen(kind, x)
  PROVE  Held(kind, x)' = Held(kind, x) /\ (Settles(kind, x) => Settles(kind, x)')
<1>1. PICK told : Tells(told)
  BY UserTells
<1>2. /\ pending' = pending /\ Proxy' = Proxy /\ up' = up /\ UNCHANGED <<sources, messages>>
      /\ down' = down \o told /\ told \in Seq(DownMessage(Len(request)))
  BY <1>1 DEF Tells, CallsKept, client
<1>3. Held(kind, x)' = Held(kind, x) /\ Awaiting(kind)' = Awaiting(kind)
  BY <1>2 DEF Held, Awaiting
<1>4. Asked(kind) => Asked(kind)'
  <2>1. PICK T : T = DownMessage(Len(request))
    OBVIOUS
  <2>2. down \in Seq(T) /\ told \in Seq(T)
    BY <1>2, <2>1, SessionFacts
  <2>3. \A d : Passes(down, down', T, d)
    BY <1>2, <2>2 DEF Passes
  <2>4. QED
    BY <1>2, <1>3, <2>3, AskedKept DEF Asked
<1>5. QED
  BY <1>2, <1>3, <1>4 DEF Settles

\* Nothing but a connection brings a remote back into order: a service with a call
\* for a proxy that is gone keeps that call.
LEMMA HealthyStep ==
  ASSUME Wired, Phased, Undisturbed \/ UserStep, Healthy',
         TakeProxy => \A k, i : ~Connects(k, i)
  PROVE  Healthy
<1>1. /\ ~disposed /\ ~disposed' /\ Proxy' # 0 /\ NothingFailed /\ CallsOnce
      /\ pending \in Seq(Operation)
  BY DisposedStep, SessionFacts DEF Healthy, Phased
<1>2. ASSUME CallsKept PROVE Healthy
  BY <1>1, <1>2 DEF CallsKept, Healthy, Doomed
<1>3. ASSUME Proxy' = Proxy, Doomed PROVE Doomed' \/ pending' # pending
  BY <1>3 DEF Doomed
<1>4. CASE ClientStep \/ NameVanished \/ NameAppeared \/ ServiceProxy
  BY <1>2, <1>4, ClientKeepsCalls
<1>5. CASE TakeUnregister \/ TakeStatus \/ TakeItemSignal \/ UserStep
  BY <1>2, <1>5, ItemsKeepCalls
<1>6. CASE TakeRegister
  <2>1. PICK k : Registers(k)
    BY <1>6, RegisterStep
  <2>2. /\ pending' = Append(pending, Call("create", k, k)) /\ k \in RequestId /\ Proxy' = Proxy
    BY <2>1 DEF Registers
  <2>3. ASSUME Doomed PROVE Doomed'
    <3>1. PICK n \in DOMAIN pending : pending[n].kind # "create" /\ pending[n].req # Proxy
      BY <2>3 DEF Doomed
    <3>2. PICK c : c = Call("create", k, k)
      OBVIOUS
    <3>3. c \in Operation
      BY <2>2, <3>2, MaxRequestAssumption DEF Call, Operation, RequestId, RequestOrNull
    <3>4. n \in DOMAIN Append(pending, c) /\ Append(pending, c)[n] = pending[n]
      BY <1>1, <3>1, <3>3, AppendProperties, LenProperties
    <3>5. QED
      BY <2>2, <3>1, <3>2, <3>4 DEF Doomed
  <2>4. QED
    BY <1>1, <2>2, <2>3 DEF Healthy
<1>7. CASE TakeStopped
  <2>1. Head(up).type = "stopped" /\ up # << >>
    BY <1>7 DEF TakeStopped, Take
  <2>2. 1 \in DOMAIN up /\ up[1] = Head(up)
    BY <2>1, SessionFacts, TailElements
  <2>3. QED
    BY <1>1, <2>1, <2>2 DEF NothingFailed
<1>8. CASE TakeProxy
  <2>1. UNCHANGED vars
    BY <1>1, <1>8, ProxyStep
  <2>2. CallsKept
    BY <2>1 DEF vars, CallsKept, Proxy, Cancellable
  <2>3. QED
    BY <1>2, <2>2
<1>9. ASSUME NEW kind \in Kinds, NEW k, Completed(kind, k) PROVE Healthy
  <2>1. PICK i \in DOMAIN pending :
          /\ pending[i].kind = kind /\ pending[i].req = k /\ pending' = RemoveAt(pending, i)
    BY <1>9 DEF Completed
  <2>2. k = Proxy /\ Proxy' = Proxy
    <3>1. k \in Requests
      BY <2>1, SessionFacts
    <3>2. QED
      BY <1>9, <3>1, SessionFacts DEF Completed, Current, Proxy
  <2>3. ASSUME Doomed PROVE Doomed'
    <3>1. PICK n \in DOMAIN pending : pending[n].kind # "create" /\ pending[n].req # Proxy
      BY <2>3 DEF Doomed
    <3>2. PICK j \in DOMAIN RemoveAt(pending, i) : RemoveAt(pending, i)[j] = pending[n]
      <4>1. n # i
        BY <2>1, <2>2, <3>1
      <4>2. PICK p : p = pending
        OBVIOUS
      <4>3. p \in Seq(Operation) /\ i \in DOMAIN p
        BY <1>1, <2>1, <4>2
      <4>4. \A m \in DOMAIN p : m # i => \E j \in DOMAIN RemoveAt(p, i) : RemoveAt(p, i)[j] = p[m]
        BY <4>3, RemoveAtElements
      <4>5. QED
        BY <3>1, <4>1, <4>2, <4>4
    <3>3. QED
      BY <2>1, <2>2, <3>1, <3>2 DEF Doomed
  <2>4. QED
    BY <1>1, <2>2, <2>3 DEF Healthy
<1>10. CASE TakeSources \/ TakeMessages
  <2>1. PICK kind \in Kinds : \E k : ReplyTaken(kind, k)
    BY <1>10, ReplyStep
  <2>2. PICK k : ReplyTaken(kind, k)
    BY <2>1
  <2>3. UNCHANGED vars => CallsKept
    BY DEF vars, CallsKept, Proxy, Cancellable
  <2>4. QED
    BY <1>2, <1>9, <2>2, <2>3 DEF ReplyTaken
<1>11. CASE CancelledCallback
  <2>1. PICK i \in DOMAIN pending :
           /\ pending[i].canc \in cancelled
           /\ \/ app' = [app EXCEPT ![Self].proxy = 0]
              \/ \E kind \in Kinds : \/ Completed(kind, pending[i].req)
                                     \/ CallsKept
    BY <1>1, <1>11, CancelledStep
  <2>2. CASE app' = [app EXCEPT ![Self].proxy = 0]
    <3>1. app \in [App -> Application] /\ Self \in App /\ app[Self] \in Application
      BY SessionFacts DEF TypeOK
    <3>2. Proxy' = 0
      BY <2>2, <3>1 DEF Proxy, Application
    <3>3. QED
      BY <1>1, <3>2
  <2>3. QED
    BY <1>2, <1>9, <2>1, <2>2
<1>12. CASE ServiceRestart
  BY <1>1, <1>12, RestartStep DEF Restarts
<1>13. QED
  BY <1>4, <1>5, <1>6, <1>7, <1>8, <1>10, <1>11, <1>12 DEF Undisturbed, Service

\* Steps that are not the client's leave what it holds.
LEMMA HeldKept ==
  ASSUME NameVanished \/ NameAppeared \/ ServiceProxy \/ Service, NEW kind, NEW x
  PROVE  Held(kind, x)' = Held(kind, x)
<1>1. UNCHANGED <<sources, messages>>
  BY DEF NameVanished, NameAppeared, ServiceProxy, Client!Vanished, Client!Appeared,
     Client!CreatedMessagesService, Service, TakeRegister, TakeUnregister, TakeStopped, TakeStatus,
     TakeItemSignal, TakeProxy, TakeSources, TakeMessages, CancelledCallback, Take, client
<1>2. QED
  BY <1>1 DEF Held

\* Every step keeps what the menu is going to show.
LEMMA CarriedStep ==
  Wired /\ Phased /\ Carried /\ (Undisturbed \/ UserStep) => Carried'
<1> SUFFICES ASSUME Wired, Phased, Carried, Undisturbed \/ UserStep, Healthy',
                    NEW kind \in Kinds, NEW x \in Items(kind)
             PROVE  Held(kind, x)' = "absent" \/ Dismissed(kind, x)' \/ Settles(kind, x)'
  BY DEF Carried
<1>1. CallsOnce /\ ~disposed' /\ Proxy' # 0
  BY DEF Phased, Healthy
<1>2. CASE \E k, i : Connects(k, i)
  <2>1. Asked(kind)'
    BY <1>1, <1>2, ConnectAsks
  <2>2. QED
    BY <2>1 DEF Settles
<1>3. CASE \A k, i : ~Connects(k, i)
  <2>1. Healthy /\ Proxy # 0
    BY <1>3, HealthyStep DEF Healthy
  <2>2. Held(kind, x) = "absent" \/ Dismissed(kind, x) \/ Settles(kind, x)
    BY <2>1 DEF Carried
  <2>3. CASE Dismissed(kind, x)
    BY <1>1, <2>3, DismissedStep
  <2>4. CASE ClientStep /\ ~(Client!Dismiss /\ Names(Head(down), kind, x))
    <3>1. /\ Settles(kind, x) => Settles(kind, x)'
          /\ Held(kind, x) = "absent" /\ Held(kind, x)' # "absent" => Settles(kind, x)'
      BY <1>1, <2>1, <2>4, SettlesClient
    <3>2. QED
      BY <2>2, <2>3, <3>1
  <2>5. CASE Client!Dismiss /\ Names(Head(down), kind, x)
    <3>1. Held(kind, x)' = IF Names(Head(down), kind, x) THEN "absent" ELSE Held(kind, x)
      BY <2>5, DismissStep
    <3>2. QED
      BY <2>5, <3>1
  <2>6. CASE NameVanished \/ NameAppeared \/ ServiceProxy \/ Service
    <3>1. Settles(kind, x) => Settles(kind, x)'
      BY <1>1, <1>3, <2>1, <2>6, SettlesService
    <3>2. Held(kind, x)' = Held(kind, x)
      BY <2>6, HeldKept
    <3>3. QED
      BY <2>2, <2>3, <3>1, <3>2
  <2>7. CASE UserStep
    <3>1. Seen(kind, x)' = Seen(kind, x) \/ Dismissed(kind, x)'
      BY <2>1, <2>7, UserSeen
    <3>2. CASE Seen(kind, x)' = Seen(kind, x)
      <4>1. Held(kind, x)' = Held(kind, x) /\ (Settles(kind, x) => Settles(kind, x)')
        BY <2>1, <2>7, <3>2, SettlesUser
      <4>2. QED
        BY <2>2, <2>3, <4>1
    <3>3. QED
      BY <3>1, <3>2
  <2>8. CASE ServiceRestart
    BY <1>1, <2>8, RestartStep DEF Restarts
  <2>9. QED
    BY <2>4, <2>5, <2>6, <2>7, <2>8 DEF Undisturbed
<1>4. QED
  BY <1>2, <1>3

\* There is no remote in the first state.
LEMMA CarriedInit == SessionInit => Carried
<1> SUFFICES ASSUME SessionInit PROVE ~Healthy
  BY DEF Carried
<1>1. app[Self] = Stopped
  BY SelfAssumption DEF SessionInit, Init, Start
<1>2. QED
  BY <1>1 DEF Healthy, Proxy, Stopped

\* Carried is a property of a state.
LEMMA CarriedStutter == Carried /\ UNCHANGED sessionVars => Carried'
<1> SUFFICES ASSUME Carried, UNCHANGED sessionVars PROVE Carried'
  OBVIOUS
<1>1. UNCHANGED <<app, pending, disposed, sources, messages, up, down>>
  BY DEF sessionVars, vars, calls, client, bus
<1>2. (Healthy' <=> Healthy) /\ \A kind \in Kinds : Awaiting(kind)' = Awaiting(kind)
  BY <1>1 DEF Healthy, Proxy, Doomed, Awaiting
<1>3. ASSUME NEW kind \in Kinds, NEW x \in Items(kind),
             Held(kind, x) = "absent" \/ Dismissed(kind, x) \/ Settles(kind, x)
      PROVE  Held(kind, x)' = "absent" \/ Dismissed(kind, x)' \/ Settles(kind, x)'
  BY <1>1, <1>2, <1>3 DEF Held, Dismissed, Settles, Seen, Asked, Proxy
<1>4. QED
  BY <1>2, <1>3 DEF Carried

-----------------------------------------------------------------------------
(* The menu loses nothing.                                                 *)

\* When everything is taken, the remote is in order and the menu shows what it
\* is going to show.
LEMMA CarriedQuiet ==
  ASSUME Wired, Quiet, Proxy # 0, ~disposed, NEW kind \in Kinds, NEW x \in Items(kind)
  PROVE  Healthy /\ ~Dismissed(kind, x) /\ (Settles(kind, x) => Seen(kind, x) = Held(kind, x))
<1>1. up = << >> /\ DOMAIN down = {} /\ DOMAIN pending = {}
  BY DEF Quiet
<1>2. Healthy /\ ~Dismissed(kind, x) /\ ~Asked(kind)
  BY <1>1 DEF Healthy, Doomed, Dismissed, Asked
<1>3. PICK e, h, W : e = Seen(kind, x) /\ h = Held(kind, x) /\ W = Awaiting(kind)
  OBVIOUS
<1>4. Leads(<< >>, kind, x, W, e, h) => e = h
  BY LeadsNone
<1>5. QED
  BY <1>1, <1>2, <1>3, <1>4 DEF Settles

(***************************************************************************)
(* The inductive invariant of the session: what is on the bus, the calls   *)
(* under way, the registration and the items on their way.                 *)
(***************************************************************************)
THEOREM SessionInductive == SessionSpec => []SessionInv
<1>1. SessionInit => SessionInv
  BY WiredInit, PhasedInit, RegisteringInit, CarriedInit DEF SessionInv
<1>2. SessionInv /\ [Undisturbed \/ UserStep]_sessionVars => SessionInv'
  BY WiredStep, PhasedStep, RegisteringStep, CarriedStep,
     WiredStutter, PhasedStutter, RegisteringStutter, CarriedStutter DEF SessionInv
<1>3. QED
  BY <1>1, <1>2, PTL DEF SessionSpec

(***************************************************************************)
(* NothingLost: when everything that was sent has been taken, a running    *)
(* application's items are in the menu as the application gave them,       *)
(* whatever was activated, registered again or restarted before            *)
(* (im-application-list.c, messaging-menu-app.c).                          *)
(***************************************************************************)
THEOREM NothingLostCorrect == SessionSpec => []NothingLost
<1>1. SessionInv => NothingLost
  <2> SUFFICES ASSUME Wired, Phased, Carried, Quiet, Proxy # 0
               PROVE  /\ \A s \in Source : sources[s].present =>
                           app[Self].sources[s] = Client!SourceToVariant(sources[s])
                      /\ \A m \in Message : messages[m] # "absent" =>
                           app[Self].messages[m] = messages[m]
    BY DEF NothingLost, Proxy, SessionInv
  <2>1. CASE disposed
    <3>1. sources = [s \in Source |-> Client!NoSource] /\ messages = [m \in Message |-> "absent"]
      BY <2>1 DEF Phased
    <3>2. QED
      BY <3>1 DEF Client!NoSource
  <2>2. CASE ~disposed
    <3>1. ASSUME NEW kind \in Kinds, NEW x \in Items(kind), Held(kind, x) # "absent"
          PROVE  Seen(kind, x) = Held(kind, x)
      <4>1. Healthy /\ ~Dismissed(kind, x) /\ (Settles(kind, x) => Seen(kind, x) = Held(kind, x))
        BY <2>2, CarriedQuiet
      <4>2. QED
        BY <3>1, <4>1 DEF Carried
    <3>2. ASSUME NEW s \in Source, sources[s].present
          PROVE  app[Self].sources[s] = Client!SourceToVariant(sources[s])
      <4>1. "sources" \in Kinds /\ s \in Items("sources")
        BY DEF Kinds, Items
      <4>2. Held("sources", s) = Client!SourceToVariant(sources[s])
            /\ Seen("sources", s) = app[Self].sources[s]
        BY DEF Held, Seen
      <4>3. Client!SourceToVariant(sources[s]) # "absent"
        BY <3>2 DEF Client!SourceToVariant
      <4>4. QED
        BY <3>1, <4>1, <4>2, <4>3
    <3>3. ASSUME NEW m \in Message, messages[m] # "absent"
          PROVE  app[Self].messages[m] = messages[m]
      <4>1. "messages" \in Kinds /\ m \in Items("messages")
        BY DEF Kinds, Items
      <4>2. Held("messages", m) = messages[m] /\ Seen("messages", m) = app[Self].messages[m]
        BY DEF Held, Seen
      <4>3. QED
        BY <3>1, <3>3, <4>1, <4>2
    <3>4. QED
      BY <3>2, <3>3
  <2>3. QED
    BY <2>1, <2>2
<1>2. QED
  BY <1>1, SessionInductive, PTL

-----------------------------------------------------------------------------
(* Without a user, the menu converges to what the client holds.            *)

\* Nobody but the user dismisses items.
LEMMA UndismissedStep ==
  ASSUME Wired, CallsOnce, Undisturbed, Undismissed
  PROVE  Undismissed' /\ ~Client!Dismiss
<1>1. PICK T : T = DownMessage(Len(request))
  OBVIOUS
<1>2. down \in Seq(T)
  BY <1>1, SessionFacts
<1>3. ~Client!Dismiss
  <2> SUFFICES ASSUME Client!Dismiss PROVE FALSE
    OBVIOUS
  <2>1. down # << >> /\ Head(down).type = "dismiss"
    BY DismissStep
  <2>2. 1 \in DOMAIN down /\ down[1] = Head(down)
    BY <1>2, <2>1, TailElements
  <2>3. QED
    BY <2>1, <2>2 DEF Undismissed
<1> SUFFICES Undismissed'
  BY <1>3
<1>4. CASE down' = down
  BY <1>4 DEF Undismissed
<1>5. ASSUME NEW S, T \subseteq S, NEW sent \in Seq(S), down' = down \o sent,
             \A i \in DOMAIN sent : sent[i].type # "dismiss"
      PROVE  Undismissed'
  <2>1. down \in Seq(S)
    BY <1>2, <1>5, SeqMonotonic
  <2>2. \A i \in DOMAIN (down \o sent) :
           \/ i \in DOMAIN down /\ (down \o sent)[i] = down[i]
           \/ i - Len(down) \in DOMAIN sent /\ (down \o sent)[i] = sent[i - Len(down)]
    BY <1>5, <2>1, ConcatElements
  <2>3. QED
    BY <1>5, <2>2 DEF Undismissed
<1>6. ASSUME down # << >>, down' = Tail(down) PROVE Undismissed'
  <2>1. \A i \in DOMAIN Tail(down) : i + 1 \in DOMAIN down /\ Tail(down)[i] = down[i + 1]
    BY <1>2, <1>6, TailElements
  <2>2. QED
    BY <1>6, <2>1 DEF Undismissed
<1>7. CASE ClientStep
  <2>1. CASE Client!Program
    <3>1. PICK sent : Programmed(sent)
      BY <2>1, ProgramStep
    <3>2. QED
      BY <1>4, <3>1 DEF Programmed
  <2>2. CASE Client!GetAll
    <3>1. PICK u : Introduced(u)
      BY <2>2, GetAllStep
    <3>2. QED
      BY <1>6, <3>1 DEF Introduced
  <2>3. CASE Client!ListSources \/ Client!ListMessages
    <3>1. PICK other \in Kinds : \E u : Answered(other, u)
      BY <2>3, ListStep
    <3>2. QED
      BY <1>6, <3>1 DEF Answered
  <2>4. QED
    BY <1>3, <1>7, <2>1, <2>2, <2>3 DEF ClientStep, Client!Handlers
<1>8. CASE NameVanished \/ NameAppeared \/ ServiceProxy
  BY <1>4, <1>8 DEF NameVanished, NameAppeared, ServiceProxy, Client!Vanished, Client!Appeared,
     Client!CreatedMessagesService
<1>9. CASE TakeRegister
  <2>1. PICK k : Registers(k)
    BY <1>9, RegisterStep
  <2>2. PICK d, S : d = Client!Down("get-all", k, {}, {}) /\ S = T \cup {d}
    OBVIOUS
  <2>3. T \subseteq S /\ d \in S /\ d.type # "dismiss"
    BY <2>2 DEF Client!Down
  <2>4. /\ <<d>> \in Seq(S) /\ down' = down \o <<d>>
        /\ \A i \in DOMAIN <<d>> : <<d>>[i].type # "dismiss"
    BY <2>1, <2>2, <2>3 DEF Registers
  <2>5. QED
    BY <1>5, <2>3, <2>4
<1>10. CASE \/ TakeUnregister \/ TakeStopped \/ TakeStatus \/ TakeItemSignal
            \/ TakeSources \/ TakeMessages
  BY <1>4, <1>10, TakenStep
<1>11. CASE TakeProxy
  <2>1. PICK k \in Requests : down' = down \/ \E i \in DOMAIN pending : Connects(k, i)
    BY <1>11, ProxyStep
  <2>2. down' = down \/ down' = down \o ListAsks(k)
    BY <2>1 DEF Connects
  <2>3. PICK a, b : a = Client!Down("list-sources", k, {}, {})
                    /\ b = Client!Down("list-messages", k, {}, {})
    OBVIOUS
  <2>4. PICK S : S = T \cup {a, b}
    OBVIOUS
  <2>5. T \subseteq S /\ a \in S /\ b \in S /\ a.type # "dismiss" /\ b.type # "dismiss"
    BY <2>3, <2>4 DEF Client!Down
  <2>6. /\ ListAsks(k) \in Seq(S)
        /\ \A i \in DOMAIN ListAsks(k) : ListAsks(k)[i].type # "dismiss"
    BY <2>3, <2>5 DEF ListAsks
  <2>7. QED
    BY <1>4, <1>5, <2>2, <2>5, <2>6
<1>12. CASE CancelledCallback \/ ServiceRestart
  BY <1>4, <1>12 DEF CancelledCallback, ServiceRestart, bus
<1>13. QED
  BY <1>3, <1>7, <1>8, <1>9, <1>10, <1>11, <1>12 DEF Undisturbed, Service

\* A message is taken, or the beginning of the queue is lost.
LEMMA GoesTaken ==
  ASSUME NEW q \in Seq(UpRecord), NEW kind, NEW x, Leads(q, kind, x, {}, "absent", "absent")
  PROVE  /\ q # << >> => Leads(Tail(q), kind, x, {}, "absent", "absent")
         /\ \A k \in 0..Len(q) : Leads(SubSeq(q, k + 1, Len(q)), kind, x, {}, "absent", "absent")
<1>1. ASSUME q # << >> PROVE Leads(Tail(q), kind, x, {}, "absent", "absent")
  <2>1. PICK w : w = News(Head(q), kind, x, {})
    OBVIOUS
  <2>2. PICK c : c = Applied("absent", w)
    OBVIOUS
  <2>3. Leads(Tail(q), kind, x, {}, c, "absent")
    BY <1>1, <2>1, <2>2, LeadsTail
  <2>4. c \in SourceState /\ Tail(q) \in Seq(UpRecord)
    <3>1. Head(q) \in UpRecord /\ Tail(q) \in Seq(UpRecord)
      BY <1>1, HeadTailProperties
    <3>2. QED
      BY <2>1, <2>2, <3>1, AppliedType DEF SourceState
  <2>5. QED
    BY <2>3, <2>4, LeadsAway
<1>2. QED
  BY <1>1, LeadsRest

\* Messages are added that lead from what the client held to what it holds.
LEMMA GoesSent ==
  ASSUME NEW q \in Seq(UpRecord), NEW sent \in Seq(UpRecord), NEW kind, NEW x,
         NEW h \in SourceState, h = "absent" => Leads(q, kind, x, {}, "absent", "absent"),
         Leads(sent, kind, x, {}, h, "absent")
  PROVE  Leads(q \o sent, kind, x, {}, "absent", "absent")
<1>1. CASE h = "absent"
  BY <1>1, LeadsConcat
<1>2. CASE h # "absent"
  <2>1. PICK b \in SourceState : Leads(q, kind, x, {}, "absent", b)
    BY LeadsSomewhere DEF SourceState
  <2>2. Leads(sent, kind, x, {}, b, "absent")
    BY <1>2, LeadsGone
  <2>3. QED
    BY <2>1, <2>2, LeadsConcat
<1>3. QED
  BY <1>1, <1>2

\* What the client does not hold goes from the menu, however much of the queue is lost.
LEMMA GoesStep ==
  ASSUME Wired, Phased, Undisturbed, Faithful, ~disposed',
         NEW kind \in Kinds, NEW x \in Items(kind), Held(kind, x)' = "absent"
  PROVE  Goes(kind, x)'
<1>1. /\ ~disposed /\ CallsOnce /\ up \in Seq(UpRecord)
      /\ UpMessage(Len(request)) \subseteq UpRecord
      /\ Seq(UpMessage(Len(request))) \subseteq Seq(UpRecord)
      /\ Held(kind, x) \in SourceState /\ ~Client!Dismiss
      /\ Held(kind, x) = "absent" => Goes(kind, x)
  BY DisposedStep, ItemTypes, UndismissedStep DEF Phased, Faithful
<1>2. PICK q, h : q = up /\ h = Held(kind, x)
  OBVIOUS
<1>3. h = "absent" => Leads(q, kind, x, {}, "absent", "absent")
  BY <1>1, <1>2 DEF Goes
<1>4. ASSUME NEW r, up' = r, Leads(r, kind, x, {}, "absent", "absent")
      PROVE  Goes(kind, x)'
  BY <1>4 DEF Goes
<1>5. ASSUME NEW sent \in Seq(UpRecord), up' = up \o sent, Leads(sent, kind, x, {}, h, "absent")
      PROVE  Goes(kind, x)'
  <2>1. Leads(q \o sent, kind, x, {}, "absent", "absent")
    BY <1>1, <1>2, <1>3, <1>5, GoesSent
  <2>2. QED
    BY <1>2, <1>4, <1>5, <2>1
<1>6. UNCHANGED <<sources, messages>> => h = "absent"
  BY <1>2 DEF Held
<1>7. ASSUME up' = up, UNCHANGED <<sources, messages>> PROVE Goes(kind, x)'
  BY <1>2, <1>3, <1>4, <1>6, <1>7
<1>8. ASSUME up' = Tail(up), up # << >>, UNCHANGED <<sources, messages>> PROVE Goes(kind, x)'
  <2>1. Leads(Tail(q), kind, x, {}, "absent", "absent")
    BY <1>1, <1>2, <1>3, <1>6, <1>8, GoesTaken
  <2>2. QED
    BY <1>2, <1>4, <1>8, <2>1
<1>9. ASSUME NEW sent \in Seq(UpRecord), up' = up \o sent, \A i \in DOMAIN sent : sent[i].items = << >>,
             UNCHANGED <<sources, messages>>
      PROVE  Goes(kind, x)'
  <2>1. "absent" \in SourceState
    BY DEF SourceState
  <2>2. Leads(sent, kind, x, {}, "absent", "absent")
    BY <1>9, <2>1, QuietLeads
  <2>3. QED
    BY <1>5, <1>6, <1>9, <2>2
<1>10. CASE ClientStep
  <2>1. CASE Client!Program
    <3>1. PICK sent : Programmed(sent)
      BY <2>1, ProgramStep
    <3>2. sent \in Seq(UpRecord) /\ up' = up \o sent /\ ItemsFollow(sent)
      BY <1>1, <3>1 DEF Programmed
    <3>3. {} \in SUBSET Nat
      OBVIOUS
    <3>4. Leads(sent, kind, x, {}, Held(kind, x), Held(kind, x)')
      BY <3>2, <3>3 DEF ItemsFollow
    <3>5. QED
      BY <1>2, <1>5, <3>2, <3>4
  <2>2. CASE Client!GetAll
    <3>1. PICK u : Introduced(u)
      BY <2>2, GetAllStep
    <3>2. /\ u \in UpRecord /\ up' = up \o <<u>> /\ u.items = << >>
          /\ UNCHANGED <<sources, messages>>
      BY <1>1, <3>1 DEF Introduced, client
    <3>3. <<u>> \in Seq(UpRecord) /\ \A i \in DOMAIN <<u>> : <<u>>[i].items = << >>
      BY <3>2
    <3>4. QED
      BY <1>9, <3>2, <3>3
  <2>3. CASE Client!ListSources \/ Client!ListMessages
    <3>1. PICK other \in Kinds : \E u : Answered(other, u)
      BY <2>3, ListStep
    <3>2. PICK u : Answered(other, u)
      BY <3>1
    <3>3. /\ u \in UpRecord /\ up' = up \o <<u>> /\ u.type = other
          /\ UNCHANGED <<sources, messages>>
      BY <1>1, <3>2 DEF Answered, client
    <3>4. News(u, kind, x, {}) = Nothing
      <4>1. other \notin {"source-added", "source-removed", "source-changed",
                          "message-added", "message-removed"}
        BY DEF Kinds
      <4>2. QED
        BY <3>3, <4>1 DEF News
    <3>5. "absent" \in SourceState /\ Applied("absent", Nothing) = "absent"
      BY DEF SourceState, Applied, Nothing
    <3>6. Leads(<<u>>, kind, x, {}, "absent", "absent")
      BY <3>3, <3>4, <3>5, LeadsOne
    <3>7. <<u>> \in Seq(UpRecord)
      BY <3>3
    <3>8. QED
      BY <1>5, <1>6, <3>3, <3>6, <3>7
  <2>4. QED
    BY <1>1, <1>10, <2>1, <2>2, <2>3 DEF ClientStep, Client!Handlers
<1>11. CASE NameVanished \/ NameAppeared
  BY <1>7, <1>11 DEF NameVanished, NameAppeared, Client!Vanished, Client!Appeared
<1>12. CASE ServiceProxy
  <2>1. PICK sent \in Seq(UpRecord) : up' = up \o sent /\ \A i \in DOMAIN sent : sent[i].items = << >>
    BY <1>1, <1>12, SyncFacts
  <2>2. UNCHANGED <<sources, messages>>
    BY <1>12 DEF ServiceProxy, Client!CreatedMessagesService
  <2>3. QED
    BY <1>9, <2>1, <2>2
<1>13. CASE Service
  <2>1. Taken \/ UNCHANGED <<client, bus>>
    <3>1. TakeRegister => Taken
      BY RegisterStep DEF Registers
    <3>2. TakeProxy => Taken
      BY <1>1, ProxyStep
    <3>3. QED
      BY <1>13, <3>1, <3>2, TakenStep DEF Service, CancelledCallback
  <2>2. QED
    BY <1>7, <1>8, <2>1 DEF Taken, client, bus
<1>14. CASE ServiceRestart
  <2>1. PICK n \in 0..Len(up) : up' = SubSeq(up, n + 1, Len(up))
    BY <1>14 DEF ServiceRestart
  <2>2. h = "absent"
    BY <1>6, <1>14 DEF ServiceRestart, client
  <2>3. Leads(SubSeq(q, n + 1, Len(q)), kind, x, {}, "absent", "absent")
    BY <1>1, <1>2, <1>3, <2>1, <2>2, GoesTaken
  <2>4. QED
    BY <1>2, <1>4, <2>1, <2>3
<1>15. QED
  BY <1>10, <1>11, <1>12, <1>13, <1>14 DEF Undisturbed

\* A menu without a remote, and without one in the making that is connected, is empty.
LEMMA NothingSeen ==
  ASSUME Wired, Proxy = 0, Unconnected, NEW kind \in Kinds, NEW x \in Items(kind)
  PROVE  Seen(kind, x) = "absent" /\ Awaiting(kind) = {}
<1>1. ItemsHaveAProxy /\ pending \in Seq(Operation) /\ Cancellable \in Requests \cup {0}
      /\ Requests \subseteq RequestId /\ Self \in App
  BY SessionFacts DEF Wired, IndInv
<1>2. \A i \in DOMAIN pending : pending[i].kind = "create"
  <2>1. DOMAIN pending = 1..Len(pending) /\ Len(pending) \in Nat
    BY <1>1, LenProperties
  <2>2. QED
    BY <2>1 DEF Unconnected, Call
<1>3. \A k \in Requests : ~Live(k)
  BY <1>2, SessionFacts DEF Live, Unconnected, Proxy, Requests
<1>4. ~HasItems(app[Self])
  BY <1>1, <1>3 DEF ItemsHaveAProxy
<1>5. Seen(kind, x) = "absent"
  BY <1>4 DEF HasItems, Seen, Items, Kinds
<1>6. Awaiting(kind) = {}
  BY <1>2 DEF Awaiting, Underway, Kinds
<1>7. QED
  BY <1>5, <1>6

\* A connection asks for what the client holds, and leaves the rest as it was.
LEMMA ConnectSettles ==
  ASSUME Wired, Phased, Faithful, TakeProxy, NEW k, NEW i, Connects(k, i), Healthy',
         NEW kind \in Kinds, NEW x \in Items(kind)
  PROVE  Settles(kind, x)'
<1>1. /\ Taken /\ Head(up).type = "proxy" /\ CallsOnce /\ ~disposed
      /\ up \in Seq(UpRecord) /\ pending \in Seq(Operation)
      /\ app \in [App -> Application] /\ Self \in App /\ app[Self] \in Application
      /\ Seen(kind, x) \in SourceState
  BY ProxyStep, ItemTypes, SessionFacts DEF Phased, Healthy, Taken, client, TypeOK
<1>2. /\ i \in DOMAIN pending /\ pending[i].kind = "create" /\ pending[i].req = k
      /\ k \in Creating
  BY DEF Connects, Due, Creating, Underway
<1>3. Asked(kind)' /\ Proxy' = k
  BY <1>1, ConnectAsks
<1>4. CASE Held(kind, x)' # "absent"
  BY <1>3, <1>4 DEF Settles
<1>5. CASE Held(kind, x)' = "absent"
  <2>1. Held(kind, x) = "absent" /\ Head(up).items = << >>
    BY <1>1, <1>5, PlainHead DEF Taken, client, Held
  <2>2. PICK e, W, V, q, t : /\ e = Seen(kind, x) /\ W = Awaiting(kind) /\ V = Awaiting(kind)'
                             /\ q = up /\ t = Tail(up)
    OBVIOUS
  <2>3. Seen(kind, x)' = e
    <3>1. app'[Self].sources = app[Self].sources /\ app'[Self].messages = app[Self].messages
      BY <1>1 DEF Connects, Application
    <3>2. QED
      BY <2>2, <3>1 DEF Seen
  <2>4. Proxy = 0 \/ ~Doomed
    <3> SUFFICES ASSUME Doomed, Proxy # 0 PROVE FALSE
      OBVIOUS
    <3>1. PICK n \in DOMAIN pending : pending[n].kind # "create" /\ pending[n].req # Proxy
      BY DEF Doomed
    <3>2. PICK j \in DOMAIN RemoveAt(pending, i) : RemoveAt(pending, i)[j] = pending[n]
      <4>1. n # i
        BY <1>2, <3>1
      <4>2. PICK p : p = pending
        OBVIOUS
      <4>3. p \in Seq(Operation) /\ i \in DOMAIN p
        BY <1>1, <1>2, <4>2
      <4>4. \A m \in DOMAIN p : m # i => \E j \in DOMAIN RemoveAt(p, i) : RemoveAt(p, i)[j] = p[m]
        BY <4>3, RemoveAtElements
      <4>5. QED
        BY <3>1, <4>1, <4>2, <4>4
    <3>3. pending[n].req # k
      BY <1>1, <1>2, <3>1 DEF CallsOnce, CreatesOnce
    <3>4. PICK c, r : c = Cancellable /\ r = RemoveAt(pending, i)
      OBVIOUS
    <3>5. j \in DOMAIN (r \o ListBoth(k, c)) /\ (r \o ListBoth(k, c))[j] = r[j]
      <4>1. r \in Seq(Operation)
        BY <1>1, <1>2, <3>4, RemovedElements
      <4>2. c \in RequestOrNull /\ k \in RequestId
        BY <1>1, <1>2, <3>4, SessionFacts DEF Application, Cancellable
      <4>3. Call("sources", k, c) \in Operation /\ Call("messages", k, c) \in Operation
        BY <4>2 DEF Call, Operation
      <4>4. ListBoth(k, c) \in Seq(Operation)
        BY <4>3 DEF ListBoth
      <4>5. QED
        BY <3>2, <3>4, <4>1, <4>4, ConcatElements
    <3>6. Doomed'
      BY <1>3, <3>1, <3>2, <3>3, <3>4, <3>5 DEF Doomed, Connects
    <3>7. QED
      BY <3>6 DEF Healthy
  <2>5. Leads(q, kind, x, W, e, "absent")
    <3>1. CASE Proxy = 0
      <4>1. e = "absent" /\ W = {}
        BY <1>1, <2>2, <3>1, NothingSeen DEF Phased
      <4>2. Goes(kind, x)
        BY <1>1, <2>1 DEF Faithful
      <4>3. QED
        BY <2>2, <4>1, <4>2 DEF Goes
    <3>2. CASE Proxy # 0
      <4>1. Healthy
        BY <1>1, <2>4, <3>2 DEF Healthy
      <4>2. Settles(kind, x)
        BY <4>1 DEF Faithful
      <4>3. QED
        BY <2>1, <2>2, <4>2 DEF Settles
    <3>3. QED
      BY <3>1, <3>2
  <2>6. Leads(t, kind, x, W, e, "absent")
    <3>1. Applied(e, News(Head(q), kind, x, W)) = e
      BY <1>1, <2>1, <2>2, PlainSeen DEF Taken
    <3>2. q \in Seq(UpRecord) /\ q # << >>
      BY <1>1, <2>2 DEF Taken
    <3>3. Leads(Tail(q), kind, x, W, Applied(e, News(Head(q), kind, x, W)), "absent")
      BY <2>5, <3>2, LeadsTail
    <3>4. QED
      BY <2>2, <3>1, <3>3
  <2>7. V = W \cup {k}
    <3>1. k \in RequestId /\ Cancellable \in RequestOrNull /\ CreatesOnce(pending)
      BY <1>1, <1>2, SessionFacts DEF Application, Cancellable, CallsOnce
    <3>2. PICK p, c, r : p = pending /\ c = Cancellable /\ r = RemoveAt(pending, i) \o ListBoth(k, c)
      OBVIOUS
    <3>3. AsksLists(p, i, k, c, r)
      BY <1>1, <1>2, <3>1, <3>2 DEF AsksLists
    <3>4. \A other \in Kinds : Underway(r, other) = Underway(p, other) \cup {k}
      BY <3>3, UnderwayLists
    <3>5. QED
      BY <2>2, <3>2, <3>4 DEF Connects, Awaiting
  <2>8. \A n \in 1..Len(t) : News(t[n], kind, x, W) = News(t[n], kind, x, V)
    <3> SUFFICES ASSUME NEW n \in 1..Len(t)
                 PROVE  News(t[n], kind, x, W) = News(t[n], kind, x, V)
      OBVIOUS
    <3>1. t \in Seq(UpRecord) /\ DOMAIN t = 1..Len(t)
      BY <1>1, <2>2, HeadTailProperties, LenProperties DEF Taken
    <3>2. n + 1 \in DOMAIN up /\ t[n] = up[n + 1]
      BY <1>1, <2>2, <3>1, TailElements DEF Taken
    <3>3. t[n].type = kind => t[n].req # k
      BY <1>1, <1>2, <3>2 DEF CallsOnce, Once
    <3>4. t[n].type = kind => (t[n].req \in W <=> t[n].req \in V)
      BY <2>7, <3>3
    <3>5. QED
      BY <3>4 DEF News
  <2>9. Leads(t, kind, x, V, e, "absent")
    BY <2>6, <2>8, LeadsSame
  <2>10. QED
    BY <1>1, <1>5, <2>2, <2>3, <2>9 DEF Settles, Taken
<1>6. QED
  BY <1>4, <1>5

\* Every step but the user's keeps the menu on its way.
LEMMA FaithfulStep == Wired /\ Phased /\ Faithful /\ Undisturbed => Faithful'
<1> SUFFICES ASSUME Wired, Phased, Faithful, Undisturbed PROVE Faithful'
  OBVIOUS
<1>1. CallsOnce /\ Undismissed
  BY DEF Phased, Faithful
<1>2. Undismissed' /\ ~Client!Dismiss
  BY <1>1, UndismissedStep
<1>3. ASSUME ~disposed', NEW kind \in Kinds, NEW x \in Items(kind), Held(kind, x)' = "absent"
      PROVE  Goes(kind, x)'
  BY <1>3, GoesStep
<1>4. ASSUME Healthy', NEW kind \in Kinds, NEW x \in Items(kind)
      PROVE  Settles(kind, x)'
  <2>1. ~disposed' /\ Proxy' # 0
    BY <1>4 DEF Healthy
  <2>2. CASE TakeProxy /\ \E k, i : Connects(k, i)
    BY <1>4, <2>2, ConnectSettles
  <2>3. CASE TakeProxy => \A k, i : ~Connects(k, i)
    <3>1. Healthy /\ Proxy # 0
      BY <1>4, <2>3, HealthyStep DEF Healthy
    <3>2. Settles(kind, x)
      BY <3>1 DEF Faithful
    <3>3. CASE ClientStep
      BY <1>2, <2>1, <3>1, <3>2, <3>3, SettlesClient
    <3>4. CASE NameVanished \/ NameAppeared \/ ServiceProxy \/ Service
      BY <2>1, <2>3, <3>1, <3>2, <3>4, SettlesService
    <3>5. CASE ServiceRestart
      BY <2>1, <3>5, RestartStep DEF Restarts
    <3>6. QED
      BY <3>3, <3>4, <3>5 DEF Undisturbed
  <2>4. QED
    BY <2>2, <2>3
<1>5. QED
  BY <1>2, <1>3, <1>4 DEF Faithful

\* Nothing is under way in the first state.
LEMMA FaithfulInit == SessionInit => Faithful
<1> SUFFICES ASSUME SessionInit PROVE Faithful
  OBVIOUS
<1>1. up = << >> /\ down = << >> /\ app[Self] = Stopped
  BY SelfAssumption DEF SessionInit, Init, Start, Client!Init
<1>2. Undismissed /\ ~Healthy
  BY <1>1 DEF Undismissed, Healthy, Proxy, Stopped
<1>3. \A kind, x : Leads(<< >>, kind, x, {}, "absent", "absent")
  BY LeadsNone DEF SourceState
<1>4. QED
  BY <1>1, <1>2, <1>3 DEF Faithful, Goes

\* Faithful is a property of a state.
LEMMA FaithfulStutter == Faithful /\ UNCHANGED sessionVars => Faithful'
<1> SUFFICES ASSUME Faithful, UNCHANGED sessionVars PROVE Faithful'
  OBVIOUS
<1>1. UNCHANGED <<app, pending, disposed, sources, messages, up, down>>
  BY DEF sessionVars, vars, calls, client, bus
<1>2. /\ Healthy' <=> Healthy
      /\ \A kind \in Kinds : Awaiting(kind)' = Awaiting(kind)
      /\ Undismissed' <=> Undismissed
  BY <1>1 DEF Healthy, Proxy, Doomed, Awaiting, Undismissed
<1>3. ASSUME NEW kind \in Kinds, NEW x \in Items(kind)
      PROVE  /\ Held(kind, x)' = Held(kind, x)
             /\ Goes(kind, x)' <=> Goes(kind, x)
             /\ Settles(kind, x)' <=> Settles(kind, x)
  BY <1>1, <1>2 DEF Held, Goes, Settles, Seen, Asked, Proxy
<1>4. QED
  BY <1>1, <1>2, <1>3 DEF Faithful

(***************************************************************************)
(* Converged: when nobody activates items, the menu shows exactly what the *)
(* application holds as soon as everything is taken; no reply to a list    *)
(* call undoes a later signal, and no removal is lost                      *)
(* (im-application-list.c, messaging-menu-app.c).                          *)
(***************************************************************************)
THEOREM ConvergedCorrect == UndisturbedSpec => []Converged
<1>1. SessionInit => Wired /\ Phased /\ Faithful
  BY WiredInit, PhasedInit, FaithfulInit
<1>2. Wired /\ Phased /\ Faithful /\ [Undisturbed]_sessionVars => (Wired /\ Phased /\ Faithful)'
  BY WiredStep, PhasedStep, FaithfulStep, WiredStutter, PhasedStutter, FaithfulStutter
<1>3. Wired /\ Phased /\ Faithful => Converged
  <2> SUFFICES ASSUME Wired, Phased, Faithful, Quiet, Proxy # 0, ~disposed
               PROVE  /\ \A s \in Source : app[Self].sources[s] = Client!SourceToVariant(sources[s])
                      /\ \A m \in Message : app[Self].messages[m] = messages[m]
    BY DEF Converged, Proxy
  <2>1. ASSUME NEW kind \in Kinds, NEW x \in Items(kind)
        PROVE  Seen(kind, x) = Held(kind, x)
    <3>1. Healthy /\ (Settles(kind, x) => Seen(kind, x) = Held(kind, x))
      BY CarriedQuiet
    <3>2. QED
      BY <3>1 DEF Faithful
  <2>2. ASSUME NEW s \in Source PROVE app[Self].sources[s] = Client!SourceToVariant(sources[s])
    <3>1. "sources" \in Kinds /\ s \in Items("sources")
      BY DEF Kinds, Items
    <3>2. Seen("sources", s) = Held("sources", s)
      BY <2>1, <3>1
    <3>3. QED
      BY <3>2 DEF Held, Seen
  <2>3. ASSUME NEW m \in Message PROVE app[Self].messages[m] = messages[m]
    <3>1. "messages" \in Kinds /\ m \in Items("messages")
      BY DEF Kinds, Items
    <3>2. Seen("messages", m) = Held("messages", m)
      BY <2>1, <3>1
    <3>3. QED
      BY <3>2 DEF Held, Seen
  <2>4. QED
    BY <2>2, <2>3
<1>4. QED
  BY <1>1, <1>2, <1>3, PTL DEF UndisturbedSpec

=============================================================================
