----------------------------- MODULE Menus_proofs -----------------------------
(***************************************************************************)
(* Proofs about Menus.  Every step of the menus is a step of the list, so  *)
(* the list's invariant holds here, too; on top of it MenusInv is          *)
(* inductive.  It says of each menu what its handlers preserve, and that   *)
(* both follow the list.                                                   *)
(***************************************************************************)
EXTENDS Menus, ApplicationList_proofs, SequenceLemmas

-----------------------------------------------------------------------------
(* The list underneath.                                                    *)

\* A reply without items that draw attention is a reply.
LEMMA CalmReplies ==
  ASSUME NEW replies, NEW items \in Calmly(replies)
  PROVE  items \in replies
BY DEF Calmly

\* Each step of the menus is a step of the list, or none.
LEMMA MenusStep == [MenusNext]_menusVars => [Next]_vars
<1> SUFFICES ASSUME [MenusNext]_menusVars PROVE [Next]_vars
  OBVIOUS
<1>1. CASE UNCHANGED menusVars
  BY <1>1 DEF menusVars, vars
<1>2. ASSUME NEW a \in App, NEW c \in Conn, MenusRegister(a, c) PROVE Next
  BY <1>2 DEF MenusRegister, Next, Method
<1>3. ASSUME NEW a \in App, MenusUnregister(a) \/ MenusApplicationStopped(a) PROVE Next
  BY <1>3 DEF MenusUnregister, MenusApplicationStopped, Next, Method
<1>4. ASSUME NEW k \in Requests,
             MenusVanished(k) \/ MenusSourcesListed(k) \/ MenusMessagesListed(k)
      PROVE  Next
  <2>1. CASE MenusVanished(k)
    BY <2>1 DEF MenusVanished, Next, Callback
  <2>2. CASE MenusSourcesListed(k)
    <3>1. PICK items \in Calmly(SourceReply) : SourcesListed(k, items)
      BY <2>2 DEF MenusSourcesListed
    <3>2. items \in SourceReply
      BY CalmReplies
    <3>3. Sources(k)
      BY <3>1, <3>2 DEF Sources
    <3>4. QED
      BY <3>3 DEF Next, Callback
  <2>3. CASE MenusMessagesListed(k)
    <3>1. PICK items \in Calmly(MessageReply) : MessagesListed(k, items)
      BY <2>3 DEF MenusMessagesListed
    <3>2. items \in MessageReply
      BY CalmReplies
    <3>3. Messages(k)
      BY <3>1, <3>2 DEF Messages
    <3>4. QED
      BY <3>3 DEF Next, Callback
  <2>4. QED
    BY <1>4, <2>1, <2>2, <2>3
<1>5. ASSUME MenusSignal PROVE Next
  <2>1. PICK k \in Requests :
          \/ \E s \in Source : \/ \E v \in SourceState \ {"absent", "drawing"} :
                                    MenusSourceAdded(k, s, v) \/ MenusSourceChanged(k, s, v)
                               \/ MenusSourceRemoved(k, s)
          \/ \E m \in Message : \/ \E t \in Time : MenusMessageAdded(k, m, "quiet", t)
                                \/ MenusMessageRemoved(k, m)
    BY <1>5 DEF MenusSignal
  <2>2. "quiet" \in MessageState \ {"absent"}
    BY DEF MessageState
  <2>3. ClientSignal
    BY <2>1, <2>2 DEF MenusSourceAdded, MenusSourceChanged, MenusSourceRemoved,
                      MenusMessageAdded, MenusMessageRemoved, ClientSignal
  <2>4. QED
    BY <2>3 DEF Next
<1>6. ASSUME MenusUser PROVE Next
  BY <1>6 DEF MenusUser, MenusSourceActivated, MenusMessageActivated, MenusRemoveAll,
              Next, User
<1>7. ASSUME Unsignalled PROVE Next
  <2>1. \/ \E k \in Requests : ProxyCreated(k) \/ Sources(k) \/ Messages(k)
        \/ \E c \in Conn : Disconnect(c)
    BY <1>7 DEF Unsignalled, Sources, Messages
  <2>2. QED
    BY <2>1 DEF Next, Callback, Environment
<1>8. ASSUME MenusRestart PROVE Next
  BY <1>8 DEF MenusRestart, Next, Environment
<1>9. QED
  BY <1>1, <1>2, <1>3, <1>4, <1>5, <1>6, <1>7, <1>8 DEF MenusNext

(***************************************************************************)
(* The menus only follow: without them, what remains of a behaviour is one *)
(* of the application list.                                                *)
(***************************************************************************)
THEOREM MenusFollow == MenusSpec => Spec
<1>1. MenusInit => Init
  BY DEF MenusInit
<1>2. QED
  BY <1>1, MenusStep, PTL DEF MenusSpec, Spec

\* So the invariants of the list hold with the menus.
THEOREM MenusListCorrect == MenusSpec => []IndInv
BY MenusFollow, Inductive, PTL

-----------------------------------------------------------------------------
(* The section of the phone menu.                                          *)

\* The operators of the library are the same in each instance.
LEMMA PhoneLibrary ==
  /\ \A S : Phone!Cardinality(S) = Cardinality(S)
  /\ \A s, i, e : Phone!InsertAt(s, i, e) = InsertAt(s, i, e)
BY DEF Phone!Cardinality, Cardinality, Phone!InsertAt, InsertAt

Descending(messages) == \A p, q \in DOMAIN messages :
                          p < q => messages[p].time >= messages[q].time

\* A message is in a section.
Has(messages, e) == \E p \in DOMAIN messages : messages[p] = e

\* A section of the phone menu has an entry of application b.
OfApp(messages, b) == \E p \in DOMAIN messages : messages[p].app = b

\* InsertAtFacts for the entries of the phone menu.
LEMMA InsertEntry ==
  ASSUME NEW messages \in Seq(Phone!Entry), NEW i \in 1..(Len(messages) + 1),
         NEW e \in Phone!Entry
  PROVE  /\ InsertAt(messages, i, e) \in Seq(Phone!Entry)
         /\ Len(InsertAt(messages, i, e)) = Len(messages) + 1
         /\ \A j \in 1..(Len(messages) + 1) :
              InsertAt(messages, i, e)[j] = IF j < i THEN messages[j]
                                            ELSE IF j = i THEN e ELSE messages[j - 1]
<1>1. PICK T : T = Phone!Entry
  OBVIOUS
<1>2. messages \in Seq(T) /\ e \in T
  BY <1>1
<1>3. /\ InsertAt(messages, i, e) \in Seq(T)
      /\ Len(InsertAt(messages, i, e)) = Len(messages) + 1
      /\ \A j \in 1..(Len(messages) + 1) :
           InsertAt(messages, i, e)[j] = IF j < i THEN messages[j]
                                         ELSE IF j = i THEN e ELSE messages[j - 1]
  BY <1>2, InsertAtFacts
<1>4. QED
  BY <1>1, <1>3

\* An entry that is inserted goes where its time belongs; none is lost and
\* no other comes.
LEMMA InsertFacts ==
  ASSUME NEW messages \in Seq(Phone!Entry), Descending(messages), NEW e \in Phone!Entry
  PROVE  LET r == Phone!Insert(messages, e) IN
         /\ r \in Seq(Phone!Entry) /\ Descending(r)
         /\ Has(r, e)
         /\ \A p \in DOMAIN messages : Has(r, messages[p])
         /\ \A j \in DOMAIN r : r[j] = e \/ Has(messages, r[j])
<1> DEFINE n == Len(messages)
           newer == {p \in DOMAIN messages : \A q \in 1..p : e.time < messages[q].time}
           c == Cardinality(newer)
           r == Phone!Insert(messages, e)
<1>1. n \in Nat /\ DOMAIN messages = 1..n
  BY LenProperties
<1>2. e.time \in Int /\ \A p \in 1..n : messages[p].time \in Int
  <2>1. \A p \in 1..n : messages[p] \in Phone!Entry
    BY ElementOfSeq
  <2>2. QED
    BY <2>1, MenusAssumption DEF Phone!Entry
<1>3. c \in 0..n /\ newer = 1..c
  <2>1. newer \in SUBSET (1..n)
    BY <1>1
  <2>2. \A p \in newer : 1..p \subseteq newer
    BY <1>1
  <2> HIDE DEF newer
  <2>3. QED
    BY <1>1, <2>1, <2>2, PrefixFacts
<1>4. \A p \in 1..c : e.time < messages[p].time
  BY <1>3
<1>5. c < n => ~(e.time < messages[c + 1].time)
  <2>1. SUFFICES ASSUME c < n, e.time < messages[c + 1].time PROVE FALSE
    OBVIOUS
  <2>2. \A q \in 1..(c + 1) : e.time < messages[q].time
    BY <1>3, <1>4, <2>1
  <2>3. c + 1 \in newer
    BY <1>1, <1>3, <2>1, <2>2
  <2> HIDE DEF newer
  <2>4. QED
    BY <1>3, <2>3
<1>6. r = InsertAt(messages, c + 1, e)
  BY PhoneLibrary DEF Phone!Insert
<1> HIDE DEF c, newer, n, r
<1>7. /\ r \in Seq(Phone!Entry)
      /\ Len(r) = n + 1
      /\ \A j \in 1..(n + 1) : r[j] = IF j < c + 1 THEN messages[j]
                                    ELSE IF j = c + 1 THEN e ELSE messages[j - 1]
  <2>1. c + 1 \in 1..(Len(messages) + 1) /\ n = Len(messages)
    BY <1>1, <1>3 DEF n
  <2>2. PICK i \in 1..(Len(messages) + 1) : i = c + 1
    BY <2>1
  <2>3. /\ InsertAt(messages, i, e) \in Seq(Phone!Entry)
        /\ Len(InsertAt(messages, i, e)) = Len(messages) + 1
        /\ \A j \in 1..(Len(messages) + 1) :
             InsertAt(messages, i, e)[j] = IF j < i THEN messages[j]
                                           ELSE IF j = i THEN e ELSE messages[j - 1]
    BY InsertEntry
  <2>4. QED
    BY <1>6, <2>1, <2>2, <2>3
<1>8. DOMAIN r = 1..(n + 1)
  BY <1>7, LenProperties
<1>9. Has(r, e)
  <2>1. c + 1 \in 1..(n + 1) /\ r[c + 1] = e
    BY <1>1, <1>3, <1>7
  <2>2. QED
    BY <1>8, <2>1 DEF Has
<1>10. ASSUME NEW p \in DOMAIN messages PROVE Has(r, messages[p])
  <2>1. CASE p <= c
    <3>1. p \in 1..(n + 1) /\ r[p] = messages[p]
      BY <1>1, <1>3, <1>7, <2>1
    <3>2. QED
      BY <1>8, <3>1 DEF Has
  <2>2. CASE ~(p <= c)
    <3>1. p + 1 \in 1..(n + 1) /\ ~(p + 1 < c + 1) /\ p + 1 # c + 1 /\ (p + 1) - 1 = p
      BY <1>1, <1>3, <2>2
    <3>2. r[p + 1] = messages[p]
      BY <1>7, <3>1
    <3>3. QED
      BY <1>8, <3>1, <3>2 DEF Has
  <2>3. QED
    BY <2>1, <2>2
<1>11. Descending(r)
  <2>1. SUFFICES ASSUME NEW p \in 1..(n + 1), NEW q \in 1..(n + 1), p < q
                 PROVE  r[p].time >= r[q].time
    BY <1>8 DEF Descending
  <2>2. \A i, j \in 1..n : i < j => messages[i].time >= messages[j].time
    BY <1>1 DEF Descending
  <2>3. CASE q < c + 1
    BY <1>1, <1>3, <1>7, <2>1, <2>2, <2>3
  <2>4. CASE q = c + 1
    BY <1>1, <1>2, <1>3, <1>4, <1>7, <2>1, <2>4
  <2>5. CASE q > c + 1
    <3>1. q - 1 \in 1..n /\ r[q] = messages[q - 1] /\ c < n
      BY <1>1, <1>3, <1>7, <2>5
    <3>2. CASE p = c + 1
      <4>1. messages[c + 1].time >= messages[q - 1].time
        BY <1>1, <1>2, <1>3, <2>2, <2>5, <3>1
      <4>2. r[p] = e
        BY <1>7, <3>2
      <4>3. messages[c + 1].time \in Int /\ messages[q - 1].time \in Int
        BY <1>1, <1>2, <1>3, <3>1
      <4>4. QED
        BY <1>2, <1>5, <3>1, <4>1, <4>2, <4>3
    <3>3. CASE p < c + 1
      <4>1. p \in 1..n /\ r[p] = messages[p] /\ p < q - 1
        BY <1>1, <1>3, <1>7, <2>5, <3>3
      <4>2. QED
        BY <2>2, <3>1, <4>1
    <3>4. CASE p > c + 1
      <4>1. p - 1 \in 1..n /\ r[p] = messages[p - 1] /\ p - 1 < q - 1
        BY <1>1, <1>3, <1>7, <2>1, <3>4
      <4>2. QED
        BY <2>2, <3>1, <4>1
    <3>5. QED
      BY <1>1, <1>3, <3>2, <3>3, <3>4
  <2>6. QED
    BY <1>3, <2>3, <2>4, <2>5
<1>12. ASSUME NEW j \in DOMAIN r PROVE r[j] = e \/ Has(messages, r[j])
  <2>1. CASE j < c + 1
    <3>1. j \in 1..n /\ r[j] = messages[j]
      BY <1>1, <1>3, <1>7, <1>8, <2>1
    <3>2. QED
      BY <1>1, <3>1 DEF Has
  <2>2. CASE j = c + 1
    BY <1>7, <1>8, <2>2
  <2>3. CASE j > c + 1
    <3>1. j - 1 \in 1..n /\ r[j] = messages[j - 1]
      BY <1>1, <1>3, <1>7, <1>8, <2>3
    <3>2. QED
      BY <1>1, <3>1 DEF Has
  <2>4. QED
    BY <1>3, <1>8, <2>1, <2>2, <2>3
<1>13. QED
  BY <1>7, <1>9, <1>10, <1>11, <1>12 DEF r

\* The entries that are kept stay in their order; none of them is lost.
LEMMA KeepFacts ==
  ASSUME NEW messages \in Seq(Phone!Entry), NEW P \in SUBSET DOMAIN messages
  PROVE  LET r == Phone!Keep(messages, P) IN
         /\ r \in Seq(Phone!Entry)
         /\ Descending(messages) => Descending(r)
         /\ \A p \in P : Has(r, messages[p])
         /\ \A i \in DOMAIN r : \E p \in P : r[i] = messages[p]
<1> DEFINE n == Len(messages)
           r == Phone!Keep(messages, P)
           c == Cardinality(P)
<1>1. n \in Nat /\ DOMAIN messages = 1..n /\ P \in SUBSET (1..n)
  BY LenProperties
<1>2. /\ c \in Nat
      /\ InOrder(P) \in [1..c -> P]
      /\ \A i, j \in 1..c : i < j => InOrder(P)[i] < InOrder(P)[j]
      /\ \A p \in P : \E i \in 1..c : InOrder(P)[i] = p
  <2> HIDE DEF n
  <2>1. QED
    BY <1>1, InOrderFacts
<1>3. r = [i \in 1..c |-> messages[InOrder(P)[i]]]
  <2> DEFINE N(i) == CHOOSE p \in P : Cardinality({q \in P : q <= p}) = i
  <2>1. r = [i \in 1..c |-> messages[N(i)]]
    BY Zenon DEF Phone!Keep, Phone!Cardinality, Cardinality
  <2>2. \A i \in 1..c : InOrder(P)[i] = N(i)
    BY Zenon DEF InOrder, Rank
  <2> HIDE DEF r, c, N
  <2>3. QED
    BY <2>1, <2>2
<1> HIDE DEF n, r, c
<1>4. \A p \in P : messages[p] \in Phone!Entry
  BY <1>1, ElementOfSeq DEF n
<1>5. r \in [1..c -> Phone!Entry] /\ \A i \in 1..c : r[i] = messages[InOrder(P)[i]]
  BY <1>2, <1>3, <1>4
<1>6. r \in Seq(Phone!Entry) /\ DOMAIN r = 1..c
  BY <1>2, <1>5
<1>7. Descending(messages) => Descending(r)
  BY <1>2, <1>5, <1>6 DEF Descending
<1>8. \A p \in P : Has(r, messages[p])
  BY <1>2, <1>5, <1>6 DEF Has
<1>9. \A i \in DOMAIN r : \E p \in P : r[i] = messages[p]
  BY <1>2, <1>5, <1>6
<1>10. QED
  BY <1>6, <1>7, <1>8, <1>9 DEF r

\* The sections the phone menu can have.
PhoneSection == {ms \in Seq(Phone!Entry) : Descending(ms)}

\* The entry of a message x that is added for application a.
EntryOf(a, x) == [app |-> a, id |-> x.id, time |-> x.time]

\* The section when messages have been added for a, as AddMessages computes it.
Merged(base, a, added) ==
  Phone!FoldLeft(LAMBDA ms, x : Phone!Insert(ms, [app |-> a, id |-> x.id, time |-> x.time]),
                 base, added)

\* Messages that are added one after the other: none gets lost on the way.
LEMMA MergedFacts ==
  ASSUME NEW base \in PhoneSection, NEW a \in App,
         NEW added \in Seq([id : Message, time : Time])
  PROVE  LET r == Merged(base, a, added) IN
             /\ r \in PhoneSection
             /\ \A p \in DOMAIN base : Has(r, base[p])
             /\ \A i \in DOMAIN added : Has(r, EntryOf(a, added[i]))
             /\ \A b : OfApp(r, b) => b = a \/ OfApp(base, b)
<1> DEFINE n == Len(added)
           op(i, ms) == Phone!Insert(ms, EntryOf(a, added[i]))
           Solves(g) == g = [s \in SUBSET (1..n) |->
                               IF s = {} THEN base ELSE op(Max(s), g[s \ {Max(s)}])]
           h == CHOOSE g : Solves(g)
           r == Merged(base, a, added)
<1>1. n \in Nat /\ DOMAIN added = 1..n
  BY LenProperties
<1>2. r = h[1..n]
  BY <1>1 DEF Merged, Phone!FoldLeft, Phone!MapThenFoldSet, Phone!Max, Max, EntryOf
<1> HIDE DEF r, h
<1>3. ASSUME NEW i \in 1..n PROVE EntryOf(a, added[i]) \in Phone!Entry
  <2>1. added[i] \in [id : Message, time : Time]
    BY <1>1, <1>3, ElementOfSeq
  <2>2. QED
    BY <2>1 DEF EntryOf, Phone!Entry
<1>4. ASSUME NEW i \in 1..n, NEW ms \in PhoneSection
      PROVE  /\ op(i, ms) \in PhoneSection
             /\ Has(op(i, ms), EntryOf(a, added[i]))
             /\ \A p \in DOMAIN ms : Has(op(i, ms), ms[p])
             /\ \A b : OfApp(op(i, ms), b) => b = a \/ OfApp(ms, b)
  <2>1. PICK e \in Phone!Entry : e = EntryOf(a, added[i])
    BY <1>3
  <2>2. ms \in Seq(Phone!Entry) /\ Descending(ms)
    BY DEF PhoneSection
  <2>3. LET t == Phone!Insert(ms, e) IN
        /\ t \in Seq(Phone!Entry) /\ Descending(t)
        /\ Has(t, e)
        /\ \A p \in DOMAIN ms : Has(t, ms[p])
        /\ \A j \in DOMAIN t : t[j] = e \/ Has(ms, t[j])
    BY <2>2, InsertFacts
  <2>4. e.app = a
    BY <2>1 DEF EntryOf
  <2>5. QED
    BY <2>1, <2>3, <2>4 DEF PhoneSection, OfApp, Has
<1> HIDE DEF op
<1>5. \E g : Solves(g)
  <2> DEFINE F == [i \in 1..n |-> [ms \in PhoneSection |-> op(i, ms)]]
  <2>1. F \in [1..n -> [PhoneSection -> PhoneSection]]
    BY <1>4
  <2>2. \A i \in 1..n, ms \in PhoneSection : F[i][ms] = op(i, ms)
    OBVIOUS
  <2> HIDE DEF F, n
  <2>3. PICK g \in [SUBSET (1..n) -> PhoneSection] : FoldsBy(g, n, base, F)
    BY <1>1, <2>1, FoldExists
  <2>4. ASSUME NEW s \in SUBSET (1..n), s # {}
        PROVE  g[s] = op(Max(s), g[s \ {Max(s)}])
    <3>1. Max(s) \in 1..n
      BY <1>1, <2>4, MaxInSet
    <3>2. g[s \ {Max(s)}] \in PhoneSection
      OBVIOUS
    <3>3. QED
      BY <2>2, <2>3, <2>4, <3>1, <3>2 DEF FoldsBy
  <2>5. Solves(g)
    BY <2>3, <2>4 DEF FoldsBy
  <2>6. QED
    BY <2>5
<1>6. Solves(h)
  BY <1>5 DEF h
<1>7. /\ h[{}] = base
      /\ \A i \in Nat : i + 1 <= n => h[1..(i + 1)] = op(i + 1, h[1..i])
  <2>1. h[{}] = base
    BY <1>6
  <2>2. ASSUME NEW i \in Nat, i + 1 <= n PROVE h[1..(i + 1)] = op(i + 1, h[1..i])
    <3>1. PICK s \in SUBSET (1..n) : s = 1..(i + 1)
      BY <1>1, <2>2
    <3>2. s # {} /\ Max(s) = i + 1 /\ s \ {Max(s)} = 1..i
      BY <3>1, LastPosition
    <3>3. h[s] = op(Max(s), h[s \ {Max(s)}])
      BY <1>6, <3>2
    <3>4. QED
      BY <3>1, <3>2, <3>3
  <2>3. QED
    BY <2>1, <2>2
<1> HIDE DEF Solves
<1> DEFINE Good(i) == /\ h[1..i] \in PhoneSection
                      /\ \A p \in DOMAIN base : Has(h[1..i], base[p])
                      /\ \A j \in 1..i : Has(h[1..i], EntryOf(a, added[j]))
                      /\ \A b : OfApp(h[1..i], b) => b = a \/ OfApp(base, b)
           T == {i \in Nat : i <= n => Good(i)}
<1>8. Good(0)
  <2>1. 1..0 = {}
    OBVIOUS
  <2>2. h[1..0] = base
    BY <1>7, <2>1
  <2>3. QED
    BY <2>1, <2>2 DEF Has
<1>9. ASSUME NEW i \in Nat, i + 1 <= n, Good(i) PROVE Good(i + 1)
  <2>1. PICK ms \in PhoneSection : ms = h[1..i]
    BY <1>9
  <2>2. PICK t : t = h[1..(i + 1)]
    OBVIOUS
  <2>3. i + 1 \in 1..n /\ t = op(i + 1, ms)
    BY <1>1, <1>7, <1>9, <2>1, <2>2
  <2>4. /\ t \in PhoneSection /\ Has(t, EntryOf(a, added[i + 1]))
        /\ \A p \in DOMAIN ms : Has(t, ms[p])
        /\ \A b : OfApp(t, b) => b = a \/ OfApp(ms, b)
    BY <1>4, <2>3
  <2>5. \A e : Has(ms, e) => Has(t, e)
    BY <2>4 DEF Has
  <2>6. \A j \in 1..(i + 1) : j \in 1..i \/ j = i + 1
    OBVIOUS
  <2>7. QED
    BY <1>9, <2>1, <2>2, <2>4, <2>5, <2>6
<1> HIDE DEF Good
<1>10. n \in T
  <2>1. 0 \in T
    BY <1>8
  <2>2. \A i \in Nat : i \in T => i + 1 \in T
    BY <1>1, <1>9
  <2> HIDE DEF T
  <2>3. QED
    BY <1>1, <2>1, <2>2, Induction
<1>11. Good(n)
  BY <1>1, <1>10
<1>12. QED
  BY <1>1, <1>2, <1>11 DEF Good, r

-----------------------------------------------------------------------------
(* The toplevel of the desktop menu.                                       *)

\* The operators of the library are the same in each instance.
LEMMA DesktopLibrary ==
  /\ \A s, i, e : Desktop!InsertAt(s, i, e) = InsertAt(s, i, e)
  /\ \A s, i : Desktop!RemoveAt(s, i) = RemoveAt(s, i)
  /\ \A S : Desktop!Min(S) = Min(S)
BY DEF Desktop!InsertAt, InsertAt, Desktop!RemoveAt, RemoveAt, Desktop!Min, Min

SectionName == App \cup Desktop!Fixed

(***************************************************************************)
(* The toplevel is in order: the fixed sections are where they belong, the *)
(* others are applications, sorted, none of them twice.                    *)
(***************************************************************************)
InPlace(sections, status) ==
  LET n == Len(sections)
      f == IF status THEN 3 ELSE 2
  IN /\ n >= f + 1
     /\ status  => sections[1] = "status" /\ sections[2] = "chat" /\ sections[3] = "mail"
     /\ ~status => sections[1] = "chat" /\ sections[2] = "mail"
     /\ sections[n] = "clear"
     /\ \A p \in (f + 1)..(n - 1) : sections[p] \in App
     /\ \A p, q \in (f + 1)..(n - 1) :
          p < q => /\ sections[p] # sections[q]
                   /\ SortName[sections[p]] <= SortName[sections[q]]

\* InsertAtFacts for the toplevel.
LEMMA InsertSection ==
  ASSUME NEW sections \in Seq(SectionName), NEW i \in 1..(Len(sections) + 1),
         NEW a \in App
  PROVE  /\ InsertAt(sections, i, a) \in Seq(SectionName)
         /\ Len(InsertAt(sections, i, a)) = Len(sections) + 1
         /\ \A j \in 1..(Len(sections) + 1) :
              InsertAt(sections, i, a)[j] = IF j < i THEN sections[j]
                                            ELSE IF j = i THEN a ELSE sections[j - 1]
<1>1. PICK T : T = SectionName
  OBVIOUS
<1>2. sections \in Seq(T) /\ a \in T
  BY <1>1 DEF SectionName
<1>3. /\ InsertAt(sections, i, a) \in Seq(T)
      /\ Len(InsertAt(sections, i, a)) = Len(sections) + 1
      /\ \A j \in 1..(Len(sections) + 1) :
           InsertAt(sections, i, a)[j] = IF j < i THEN sections[j]
                                         ELSE IF j = i THEN a ELSE sections[j - 1]
  BY <1>2, InsertAtFacts
<1>4. QED
  BY <1>1, <1>3

\* Where im_menu_insert_item_sorted puts a section.
LEMMA PositionFacts ==
  ASSUME NEW sections, NEW a \in App, NEW first \in Nat, NEW last \in Nat, first <= last
  PROVE  \E m \in first..last :
           /\ Desktop!InsertSorted(sections, a, first, last) = InsertAt(sections, m + 1, a)
           /\ m < last => sections[m + 1] \in App /\ SortName[a] < SortName[sections[m + 1]]
           /\ \A p \in first..(m - 1) : ~(/\ sections[p + 1] \in App
                                          /\ SortName[a] < SortName[sections[p + 1]])
<1> DEFINE greater == {p \in first..(last - 1) : /\ sections[p + 1] \in App
                                                 /\ SortName[a] < SortName[sections[p + 1]]}
           m == Min(greater \cup {last})
<1>1. greater \cup {last} \in SUBSET Nat /\ greater \cup {last} # {}
  OBVIOUS
<1>2. m \in greater \cup {last} /\ \A p \in greater \cup {last} : m <= p
  <2> HIDE DEF greater
  <2>1. QED
    BY <1>1, MinFacts
<1>3. Desktop!InsertSorted(sections, a, first, last) = InsertAt(sections, m + 1, a)
  BY DesktopLibrary DEF Desktop!InsertSorted
<1> HIDE DEF m
<1>4. m \in first..last
  BY <1>2
<1>5. m < last => sections[m + 1] \in App /\ SortName[a] < SortName[sections[m + 1]]
  BY <1>2
<1>6. \A p \in first..(m - 1) : p \in first..(last - 1) /\ ~(m <= p)
  BY <1>4
<1>7. \A p \in first..(m - 1) : ~(/\ sections[p + 1] \in App
                                  /\ SortName[a] < SortName[sections[p + 1]])
  BY <1>2, <1>6
<1>8. QED
  BY <1>3, <1>4, <1>5, <1>7

\* r is the toplevel with a inserted behind position m, where its name belongs.
SortedAt(r, sections, a, first, m) ==
  /\ r \in Seq(SectionName) /\ Len(r) = Len(sections) + 1
  /\ \A j \in 1..(Len(sections) + 1) :
       r[j] = IF j < m + 1 THEN sections[j] ELSE IF j = m + 1 THEN a ELSE sections[j - 1]
  /\ m < Len(sections) - 1 => /\ sections[m + 1] \in App
                              /\ SortName[a] < SortName[sections[m + 1]]
  /\ \A p \in first..(m - 1) : ~(/\ sections[p + 1] \in App
                                 /\ SortName[a] < SortName[sections[p + 1]])

\* Where the sorted sections begin, and a section that is inserted there.
LEMMA SortedInto ==
  ASSUME NEW sections \in Seq(SectionName), NEW status \in BOOLEAN,
         Len(sections) >= (IF status THEN 4 ELSE 3), NEW a \in App
  PROVE  LET f == IF status THEN 3 ELSE 2
             n == Len(sections)
             r == Desktop!InsertSorted(sections, a, Desktop!FirstSection(status), n - 1)
         IN \E m \in f..(n - 1) : SortedAt(r, sections, a, f, m)
<1> DEFINE f == IF status THEN 3 ELSE 2
           n == Len(sections)
<1>1. n \in Nat
  BY LenProperties
<1>2. PICK first, last : first = f /\ last = n - 1
  OBVIOUS
<1>3. first = Desktop!FirstSection(status)
  BY <1>2 DEF Desktop!FirstSection
<1>4. first \in Nat /\ last \in Nat /\ first <= last
  BY <1>1, <1>2
<1>5. PICK m \in first..last :
           /\ Desktop!InsertSorted(sections, a, first, last) = InsertAt(sections, m + 1, a)
           /\ m < last => sections[m + 1] \in App /\ SortName[a] < SortName[sections[m + 1]]
           /\ \A p \in first..(m - 1) : ~(/\ sections[p + 1] \in App
                                          /\ SortName[a] < SortName[sections[p + 1]])
  BY <1>4, PositionFacts
<1>6. PICK i \in 1..(Len(sections) + 1) : i = m + 1
  BY <1>1, <1>2
<1>7. PICK r : r = InsertAt(sections, i, a)
  OBVIOUS
<1>8. /\ r \in Seq(SectionName) /\ Len(r) = Len(sections) + 1
      /\ \A j \in 1..(Len(sections) + 1) :
           r[j] = IF j < i THEN sections[j] ELSE IF j = i THEN a ELSE sections[j - 1]
  BY <1>7, InsertSection
<1>9. r = Desktop!InsertSorted(sections, a, Desktop!FirstSection(status), n - 1)
  BY <1>2, <1>3, <1>5, <1>6, <1>7
<1>10. SortedAt(r, sections, a, first, m)
  BY <1>1, <1>2, <1>5, <1>6, <1>8 DEF SortedAt
<1>11. QED
  BY <1>2, <1>9, <1>10

\* A new section goes among the sorted ones and leaves the toplevel in order.
LEMMA InsertSortedFacts ==
  ASSUME NEW sections \in Seq(SectionName), NEW status \in BOOLEAN,
         InPlace(sections, status),
         NEW a \in App, ~Has(sections, a),
         NEW r, r = Desktop!InsertSorted(sections, a, Desktop!FirstSection(status),
                                         Len(sections) - 1)
  PROVE  /\ InPlace(r, status)
         /\ \A x : Has(r, x) <=> x = a \/ Has(sections, x)
<1>1. PICK f, n : f = (IF status THEN 3 ELSE 2) /\ n = Len(sections)
  OBVIOUS
<1>2. n \in Nat /\ f \in {2, 3} /\ n >= f + 1 /\ DOMAIN sections = 1..n
  BY <1>1, LenProperties DEF InPlace
<1>3. PICK m \in f..(n - 1) :
              /\ r \in Seq(SectionName) /\ Len(r) = n + 1
              /\ \A j \in 1..(n + 1) : r[j] = IF j < m + 1 THEN sections[j]
                                              ELSE IF j = m + 1 THEN a ELSE sections[j - 1]
              /\ m < n - 1 => /\ sections[m + 1] \in App
                              /\ SortName[a] < SortName[sections[m + 1]]
              /\ \A p \in f..(m - 1) : ~(/\ sections[p + 1] \in App
                                         /\ SortName[a] < SortName[sections[p + 1]])
  <2>1. Len(sections) >= (IF status THEN 4 ELSE 3)
    BY <1>1, <1>2
  <2>2. \E m \in f..(n - 1) : SortedAt(r, sections, a, f, m)
    BY <1>1, <2>1, SortedInto
  <2>3. QED
    BY <1>1, <2>2 DEF SortedAt
<1>4. /\ m \in Nat /\ m >= f /\ m <= n - 1
      /\ \A j \in 1..m : r[j] = sections[j]
      /\ r[m + 1] = a
      /\ \A j \in (m + 2)..(n + 1) : r[j] = sections[j - 1]
      /\ DOMAIN r = 1..(n + 1)
  <2>1. m \in Nat /\ m >= f /\ m <= n - 1
    BY <1>2
  <2>2. DOMAIN r = 1..(n + 1)
    BY <1>3, LenProperties
  <2>3. \A j \in 1..m : j \in 1..(n + 1) /\ j < m + 1
    BY <1>2, <2>1
  <2>4. m + 1 \in 1..(n + 1) /\ ~(m + 1 < m + 1)
    BY <1>2, <2>1
  <2>5. \A j \in (m + 2)..(n + 1) : j \in 1..(n + 1) /\ ~(j < m + 1) /\ j # m + 1
    BY <1>2, <2>1
  <2>6. QED
    BY <1>3, <2>1, <2>2, <2>3, <2>4, <2>5
<1>5. /\ status  => sections[1] = "status" /\ sections[2] = "chat" /\ sections[3] = "mail"
      /\ ~status => sections[1] = "chat" /\ sections[2] = "mail"
      /\ sections[n] = "clear"
      /\ \A p \in (f + 1)..(n - 1) : sections[p] \in App /\ SortName[sections[p]] \in Int
      /\ \A p, q \in (f + 1)..(n - 1) :
          p < q => /\ sections[p] # sections[q]
                   /\ SortName[sections[p]] <= SortName[sections[q]]
  BY <1>1, MenusAssumption DEF InPlace
<1>6. SortName[a] \in Int
  BY MenusAssumption
<1>7. \A p \in (f + 1)..m : SortName[sections[p]] <= SortName[a]
  <2>1. SUFFICES ASSUME NEW p \in (f + 1)..m PROVE SortName[sections[p]] <= SortName[a]
    OBVIOUS
  <2>2. p - 1 \in f..(m - 1) /\ (p - 1) + 1 = p /\ p \in (f + 1)..(n - 1)
    BY <1>2, <1>4
  <2>3. ~(sections[p] \in App /\ SortName[a] < SortName[sections[p]])
    BY <1>3, <2>2
  <2>4. QED
    BY <1>5, <1>6, <2>2, <2>3
<1>8. \A p \in (m + 1)..(n - 1) : SortName[a] <= SortName[sections[p]]
  <2>1. SUFFICES ASSUME NEW p \in (m + 1)..(n - 1) PROVE SortName[a] <= SortName[sections[p]]
    OBVIOUS
  <2>2. m < n - 1 /\ m + 1 \in (f + 1)..(n - 1) /\ p \in (f + 1)..(n - 1)
    BY <1>2, <1>4
  <2>3. SortName[a] < SortName[sections[m + 1]]
    BY <1>3, <2>2
  <2>4. p = m + 1 \/ m + 1 < p
    BY <1>4
  <2>5. QED
    BY <1>5, <1>6, <2>2, <2>3, <2>4
<1>9. ASSUME NEW p \in (f + 1)..n
      PROVE  /\ p <= m     => p \in (f + 1)..(n - 1) /\ r[p] = sections[p]
             /\ p = m + 1  => r[p] = a
             /\ p > m + 1  => p - 1 \in (m + 1)..(n - 1) /\ p - 1 \in (f + 1)..(n - 1)
                              /\ r[p] = sections[p - 1]
  BY <1>2, <1>4
<1>10. \A p \in (f + 1)..n : r[p] \in App
  BY <1>2, <1>4, <1>5, <1>9
<1>11. ASSUME NEW p \in (f + 1)..n, NEW q \in (f + 1)..n, p < q
       PROVE  r[p] # r[q] /\ SortName[r[p]] <= SortName[r[q]]
  <2>1. \A j \in (f + 1)..(n - 1) : sections[j] # a
    BY <1>2 DEF Has
  <2>2. CASE q <= m
    <3>1. p <= m
      BY <1>2, <1>4, <1>11, <2>2
    <3>2. QED
      BY <1>5, <1>9, <1>11, <2>2, <3>1
  <2>3. CASE q = m + 1
    <3>1. p \in (f + 1)..m
      BY <1>2, <1>4, <1>11, <2>3
    <3>2. QED
      BY <1>7, <1>9, <2>1, <2>3, <3>1
  <2>4. CASE q > m + 1 /\ p <= m
    <3>1. p < q - 1
      BY <1>2, <1>4, <2>4
    <3>2. QED
      BY <1>5, <1>9, <2>4, <3>1
  <2>5. CASE q > m + 1 /\ p = m + 1
    BY <1>8, <1>9, <2>1, <2>5
  <2>6. CASE q > m + 1 /\ p > m + 1
    <3>1. p - 1 < q - 1
      BY <1>2, <1>11
    <3>2. QED
      BY <1>5, <1>9, <2>6, <3>1
  <2>7. QED
    BY <1>2, <1>4, <2>2, <2>3, <2>4, <2>5, <2>6
<1>12. r[n + 1] = "clear"
  BY <1>2, <1>4, <1>5
<1>13. InPlace(r, status)
  <2>1. \A j \in 1..f : r[j] = sections[j]
    BY <1>2, <1>4
  <2>2. (n + 1) - 1 = n /\ n + 1 >= f + 1 /\ 1 \in 1..f /\ 2 \in 1..f /\ (status => 3 \in 1..f)
    BY <1>1, <1>2
  <2>3. /\ status  => r[1] = "status" /\ r[2] = "chat" /\ r[3] = "mail"
        /\ ~status => r[1] = "chat" /\ r[2] = "mail"
    BY <1>5, <2>1, <2>2
  <2>4. Len(r) = n + 1
    BY <1>3
  <2>5. /\ \A p \in (f + 1)..(Len(r) - 1) : r[p] \in App
        /\ \A p, q \in (f + 1)..(Len(r) - 1) :
             p < q => r[p] # r[q] /\ SortName[r[p]] <= SortName[r[q]]
        /\ r[Len(r)] = "clear" /\ Len(r) >= f + 1
    BY <1>10, <1>11, <1>12, <2>2, <2>4
  <2>6. f = (IF status THEN 3 ELSE 2)
    BY <1>1
  <2>7. QED
    BY <2>3, <2>5, <2>6, Zenon DEF InPlace
<1>14. ASSUME NEW x
       PROVE  (\E p \in DOMAIN r : r[p] = x) <=>
                   x = a \/ \E p \in DOMAIN sections : sections[p] = x
  <2>1. ASSUME NEW p \in DOMAIN r, r[p] = x
        PROVE  x = a \/ \E q \in DOMAIN sections : sections[q] = x
    <3>1. CASE p <= m
      <4>1. p \in 1..m /\ p \in DOMAIN sections
        BY <1>2, <1>4, <3>1
      <4>2. sections[p] = x
        BY <1>4, <2>1, <4>1
      <4>3. QED
        BY <4>1, <4>2
    <3>2. CASE p = m + 1
      BY <1>4, <2>1, <3>2
    <3>3. CASE p > m + 1
      <4>0. p \in (m + 2)..(n + 1) /\ p - 1 \in 1..n
        BY <1>2, <1>4, <3>3
      <4>1. p - 1 \in DOMAIN sections /\ sections[p - 1] = x
        BY <1>2, <1>4, <2>1, <4>0
      <4>2. QED
        BY <4>1
    <3>4. QED
      BY <1>2, <1>4, <3>1, <3>2, <3>3
  <2>2. m + 1 \in DOMAIN r
    BY <1>2, <1>4
  <2>3. ASSUME NEW q \in DOMAIN sections, sections[q] = x PROVE \E p \in DOMAIN r : r[p] = x
    <3>1. CASE q <= m
      BY <1>2, <1>4, <2>3, <3>1
    <3>2. CASE q > m
      <4>1. q + 1 \in (m + 2)..(n + 1) /\ (q + 1) - 1 = q
        BY <1>2, <1>4, <3>2
      <4>2. q + 1 \in DOMAIN r /\ r[q + 1] = x
        BY <1>2, <1>4, <2>3, <4>1
      <4>3. QED
        BY <4>2
    <3>3. QED
      BY <1>2, <1>4, <3>1, <3>2
  <2>4. QED
    BY <1>4, <2>1, <2>2, <2>3
<1>15. QED
  BY <1>13, <1>14, Zenon DEF Has

(***************************************************************************)
(* A desktop menu that shows the applications of L: the toplevel is in     *)
(* order, each application of L has its source section and its own section *)
(* in one place, and a mail client's place is lost only to another one.    *)
(***************************************************************************)
DesktopRecord == [sections : Seq(SectionName),
                  status   : BOOLEAN,
                  chat     : App \cup {Desktop!Nobody},
                  mail     : App \cup {Desktop!Nobody},
                  entries  : UNION {[D -> Seq(Source)] : D \in SUBSET App}]

\* There is room for the fixed sections.
Roomy(d) == Len(d.sections) >= (IF d.status THEN 4 ELSE 3)

Placed(d, L) ==
  /\ DOMAIN d.entries = L
  /\ d.chat \in (L \cap Empathy) \cup {Desktop!Nobody}
  /\ d.mail \in (L \ Empathy) \cup {Desktop!Nobody}
  /\ \A a \in App : Has(d.sections, a) => a \in L \ Empathy
  /\ \A a \in L \cap Empathy : d.chat = a
  /\ \A a \in L \ Empathy : \/ Has(d.sections, a) /\ d.mail # a
                            \/ ~Has(d.sections, a) /\ d.mail # Desktop!Nobody

WellFormed(d, L) == d \in DesktopRecord /\ InPlace(d.sections, d.status) /\ Placed(d, L)

\* Toplevels in order leave room for the fixed sections.
LEMMA InPlaceRoomy ==
  ASSUME NEW d \in DesktopRecord, InPlace(d.sections, d.status)
  PROVE  Roomy(d)
<1>1. CASE d.status
  BY <1>1, LenProperties DEF InPlace, Roomy, DesktopRecord
<1>2. CASE ~d.status
  BY <1>2, LenProperties DEF InPlace, Roomy, DesktopRecord
<1>3. QED
  BY <1>1, <1>2

\* The status entries come in front of everything.
LEMMA ShowChatSectionFacts ==
  ASSUME NEW d \in DesktopRecord, Roomy(d)
  PROVE  LET r == Desktop!ShowChatSection(d) IN
         /\ r \in DesktopRecord /\ Roomy(r)
         /\ r.chat = d.chat /\ r.mail = d.mail /\ r.entries = d.entries
         /\ \A a \in App : Has(r.sections, a) <=> Has(d.sections, a)
         /\ InPlace(d.sections, d.status) => InPlace(r.sections, r.status)
<1>1. CASE d.status
  BY <1>1 DEF Desktop!ShowChatSection
<1>2. CASE ~d.status
  <2>1. PICK sections \in Seq(SectionName) : sections = d.sections
    BY DEF DesktopRecord
  <2>2. PICK n \in Nat : n = Len(sections) /\ DOMAIN sections = 1..n
    BY LenProperties
  <2>3. PICK t : t = <<"status">> \o sections
    OBVIOUS
  <2>4. /\ t \in Seq(SectionName) /\ Len(t) = n + 1 /\ DOMAIN t = 1..(n + 1)
        /\ t[1] = "status" /\ \A j \in 1..n : t[j + 1] = sections[j]
    <3>1. PICK one \in Seq(SectionName) : one = <<"status">> /\ Len(one) = 1 /\ one[1] = "status"
      <4>1. "status" \in SectionName
        BY DEF SectionName, Desktop!Fixed
      <4>2. <<"status">> \in Seq(SectionName) /\ Len(<<"status">>) = 1 /\ <<"status">>[1] = "status"
        BY <4>1
      <4>3. QED
        BY <4>2
    <3>2. /\ t \in Seq(SectionName) /\ Len(t) = 1 + n
          /\ \A j \in 1..(1 + n) : t[j] = IF j <= 1 THEN one[j] ELSE sections[j - 1]
      BY <2>2, <2>3, <3>1, ConcatProperties
    <3>3. DOMAIN t = 1..(n + 1)
      BY <3>2, LenProperties
    <3>4. t[1] = "status"
      BY <3>1, <3>2
    <3>5. ASSUME NEW j \in 1..n PROVE t[j + 1] = sections[j]
      <4>1. j + 1 \in 1..(1 + n) /\ ~(j + 1 <= 1) /\ (j + 1) - 1 = j
        OBVIOUS
      <4>2. QED
        BY <3>2, <4>1
    <3>6. QED
      BY <3>2, <3>3, <3>4, <3>5
  <2>5. PICK r : r = Desktop!ShowChatSection(d)
    OBVIOUS
  <2>6. /\ r = [d EXCEPT !.sections = t, !.status = TRUE]
    BY <1>2, <2>1, <2>3, <2>5 DEF Desktop!ShowChatSection
  <2>7. /\ r \in DesktopRecord /\ r.sections = t /\ r.status = TRUE
        /\ r.chat = d.chat /\ r.mail = d.mail /\ r.entries = d.entries
    BY <2>4, <2>6 DEF DesktopRecord
  <2>8. n >= 3
    BY <1>2, <2>1, <2>2 DEF Roomy
  <2>9. Roomy(r)
    BY <2>4, <2>7, <2>8 DEF Roomy
  <2>10. ASSUME NEW a \in App PROVE Has(t, a) <=> Has(sections, a)
    <3>1. a # "status"
      BY SectionAssumption DEF Desktop!Fixed
    <3>2. ASSUME NEW p \in DOMAIN t, t[p] = a PROVE Has(sections, a)
      <4>1. p - 1 \in 1..n /\ (p - 1) + 1 = p
        BY <2>4, <3>1, <3>2
      <4>2. sections[p - 1] = a
        BY <2>4, <3>2, <4>1
      <4>3. QED
        BY <2>2, <4>1, <4>2 DEF Has
    <3>3. ASSUME NEW p \in DOMAIN sections, sections[p] = a PROVE Has(t, a)
      <4>1. p + 1 \in DOMAIN t /\ t[p + 1] = a
        BY <2>2, <2>4, <3>3
      <4>2. QED
        BY <4>1 DEF Has
    <3>4. QED
      BY <3>2, <3>3 DEF Has
  <2>11. ASSUME InPlace(sections, FALSE) PROVE InPlace(t, TRUE)
    <3>1. /\ n >= 3
          /\ sections[1] = "chat" /\ sections[2] = "mail" /\ sections[n] = "clear"
          /\ \A p \in 3..(n - 1) : sections[p] \in App
          /\ \A p, q \in 3..(n - 1) :
               p < q => /\ sections[p] # sections[q]
                        /\ SortName[sections[p]] <= SortName[sections[q]]
      BY <2>2, <2>11 DEF InPlace
    <3>2. t[2] = "chat" /\ t[3] = "mail" /\ t[n + 1] = "clear"
      <4>1. t[1 + 1] = sections[1] /\ t[2 + 1] = sections[2] /\ t[n + 1] = sections[n]
        BY <2>4, <3>1
      <4>2. QED
        BY <3>1, <4>1
    <3>3. ASSUME NEW p \in 4..n PROVE p - 1 \in 3..(n - 1) /\ t[p] = sections[p - 1]
      <4>1. p - 1 \in 1..n /\ (p - 1) + 1 = p
        BY <3>1
      <4>2. QED
        BY <2>4, <4>1
    <3>4. \A p \in 4..n : t[p] \in App
      BY <3>1, <3>3
    <3>5. ASSUME NEW p \in 4..n, NEW q \in 4..n, p < q
          PROVE  t[p] # t[q] /\ SortName[t[p]] <= SortName[t[q]]
      <4>1. p - 1 < q - 1
        BY <3>5
      <4>2. QED
        BY <3>1, <3>3, <4>1
    <3>6. Len(t) - 1 = n /\ Len(t) = n + 1 /\ Len(t) >= 4 /\ 3 + 1 = 4
      BY <2>4, <3>1
    <3>7. QED
      BY <2>4, <3>2, <3>4, <3>5, <3>6 DEF InPlace
  <2>12. InPlace(d.sections, d.status) => InPlace(r.sections, r.status)
    <3>1. d.status = FALSE
      BY <1>2 DEF DesktopRecord
    <3>2. QED
      BY <2>1, <2>7, <2>11, <3>1
  <2>13. QED
    BY <2>1, <2>5, <2>7, <2>9, <2>10, <2>12
<1>3. QED
  BY <1>1, <1>2

\* A new application gets an empty source section; its menu stays typed.
LEMMA AppAddedTyped ==
  ASSUME NEW d \in DesktopRecord, Roomy(d), NEW a \in App, NEW mailer \in BOOLEAN
  PROVE  LET r == Desktop!AppAdded(d, a, mailer) IN
         /\ r \in DesktopRecord /\ Roomy(r)
         /\ DOMAIN r.entries = DOMAIN d.entries \cup {a}
         /\ r.entries[a] = << >>
         /\ \A b \in DOMAIN d.entries \ {a} : r.entries[b] = d.entries[b]
<1>1. PICK c : c = IF a \in ChatApp THEN Desktop!ShowChatSection(d) ELSE d
  OBVIOUS
<1>2. c \in DesktopRecord /\ Roomy(c) /\ c.entries = d.entries
  BY <1>1, ShowChatSectionFacts
<1>3. PICK w : w = Desktop!AddSection(c, a, mailer)
  OBVIOUS
<1>4. w \in DesktopRecord /\ Roomy(w) /\ w.entries = d.entries
  <2>1. CASE a \in Empathy
    <3>1. w = [c EXCEPT !.chat = a]
      BY <1>3, <2>1 DEF Desktop!AddSection
    <3>2. QED
      BY <1>2, <3>1 DEF DesktopRecord, Roomy
  <2>2. CASE a \notin Empathy /\ mailer
    <3>1. w = [c EXCEPT !.mail = a]
      BY <1>3, <2>2 DEF Desktop!AddSection
    <3>2. QED
      BY <1>2, <3>1 DEF DesktopRecord, Roomy
  <2>3. CASE a \notin Empathy /\ ~mailer
    <3>1. PICK sections \in Seq(SectionName), status \in BOOLEAN :
            sections = c.sections /\ status = c.status
      BY <1>2 DEF DesktopRecord
    <3>2. PICK t : t = Desktop!InsertSorted(sections, a, Desktop!FirstSection(status),
                                            Len(sections) - 1)
      OBVIOUS
    <3>3. w = [c EXCEPT !.sections = t]
      BY <1>3, <2>3, <3>1, <3>2 DEF Desktop!AddSection
    <3>4. Len(sections) >= (IF status THEN 4 ELSE 3)
      BY <1>2, <3>1 DEF Roomy
    <3>5. t \in Seq(SectionName) /\ Len(t) = Len(sections) + 1
      BY <3>2, <3>4, SortedInto DEF SortedAt
    <3>6. w \in DesktopRecord /\ w.sections = t /\ w.status = status /\ w.entries = c.entries
      BY <1>2, <3>1, <3>3, <3>5 DEF DesktopRecord
    <3>7. Len(sections) \in Nat
      BY <3>1, LenProperties
    <3>8. Roomy(w)
      BY <3>4, <3>5, <3>6, <3>7 DEF Roomy
    <3>9. QED
      BY <1>2, <3>6, <3>8
  <2>4. QED
    BY <2>1, <2>2, <2>3
<1>5. PICK r : r = Desktop!AppAdded(d, a, mailer)
  OBVIOUS
<1>6. r = [w EXCEPT !.entries = [b \in DOMAIN @ \cup {a} |-> IF b = a THEN << >> ELSE @[b]]]
  BY <1>1, <1>3, <1>5 DEF Desktop!AppAdded
<1>7. PICK e : e = [b \in DOMAIN w.entries \cup {a} |-> IF b = a THEN << >> ELSE w.entries[b]]
  OBVIOUS
<1>8. PICK D \in SUBSET App : w.entries \in [D -> Seq(Source)]
  BY <1>4 DEF DesktopRecord
<1>9. e \in [D \cup {a} -> Seq(Source)] /\ D \cup {a} \in SUBSET App
  <2>1. << >> \in Seq(Source)
    BY EmptySeq
  <2>2. \A b \in D : w.entries[b] \in Seq(Source)
    BY <1>8
  <2>3. DOMAIN w.entries = D
    BY <1>8
  <2>4. QED
    BY <1>7, <2>1, <2>2, <2>3
<1>10. r = [w EXCEPT !.entries = e]
  BY <1>6, <1>7
<1>11. r \in DesktopRecord /\ r.entries = e /\ r.sections = w.sections /\ r.status = w.status
  BY <1>4, <1>9, <1>10 DEF DesktopRecord
<1>12. Roomy(r)
  BY <1>4, <1>11 DEF Roomy
<1>13. QED
  BY <1>4, <1>5, <1>7, <1>11, <1>12

\* A new application finds its place, and the others keep theirs.
LEMMA AppAddedFacts ==
  ASSUME NEW d, NEW L \in SUBSET App, WellFormed(d, L), NEW a \in App \ L,
         NEW mailer \in BOOLEAN
  PROVE  WellFormed(Desktop!AppAdded(d, a, mailer), L \cup {a})
<1>1. d \in DesktopRecord /\ InPlace(d.sections, d.status) /\ Placed(d, L) /\ Roomy(d)
  BY InPlaceRoomy DEF WellFormed
<1>2. PICK c : c = IF a \in ChatApp THEN Desktop!ShowChatSection(d) ELSE d
  OBVIOUS
<1>3. /\ c \in DesktopRecord /\ Roomy(c) /\ InPlace(c.sections, c.status)
      /\ c.entries = d.entries /\ c.chat = d.chat /\ c.mail = d.mail
      /\ \A b \in App : Has(c.sections, b) <=> Has(d.sections, b)
  BY <1>1, <1>2, ShowChatSectionFacts
<1>4. PICK w : w = Desktop!AddSection(c, a, mailer)
  OBVIOUS
<1>5. PICK r : r = Desktop!AppAdded(d, a, mailer)
  OBVIOUS
<1>6. /\ r \in DesktopRecord
      /\ DOMAIN r.entries = L \cup {a}
  BY <1>1, <1>5, AppAddedTyped DEF Placed
<1>7. r = [w EXCEPT !.entries = [b \in DOMAIN @ \cup {a} |-> IF b = a THEN << >> ELSE @[b]]]
  BY <1>2, <1>4, <1>5 DEF Desktop!AppAdded
<1>8. ~Has(c.sections, a) /\ c.chat # a /\ c.mail # a /\ a # Desktop!Nobody
  BY <1>1, <1>3, SectionAssumption DEF Placed
<1>9. /\ \A b \in App : Has(c.sections, b) => b \in L \ Empathy
      /\ \A b \in L \cap Empathy : c.chat = b
      /\ \A b \in L \ Empathy : \/ Has(c.sections, b) /\ c.mail # b
                                \/ ~Has(c.sections, b) /\ c.mail # Desktop!Nobody
      /\ c.chat \in (L \cap Empathy) \cup {Desktop!Nobody}
      /\ c.mail \in (L \ Empathy) \cup {Desktop!Nobody}
  BY <1>1, <1>3 DEF Placed
<1>10. CASE a \in Empathy
  <2>1. w = [c EXCEPT !.chat = a]
    BY <1>4, <1>10 DEF Desktop!AddSection
  <2>2. /\ r.sections = c.sections /\ r.status = c.status
        /\ r.chat = a /\ r.mail = c.mail
    BY <1>3, <1>7, <2>1 DEF DesktopRecord
  <2>3. \A b \in Empathy : b = a
    BY <1>10, MenusAssumption
  <2>4. Placed(r, L \cup {a})
    BY <1>6, <1>8, <1>9, <1>10, <2>2, <2>3 DEF Placed
  <2>5. QED
    BY <1>3, <1>5, <1>6, <2>2, <2>4 DEF WellFormed
<1>11. CASE a \notin Empathy /\ mailer
  <2>1. w = [c EXCEPT !.mail = a]
    BY <1>4, <1>11 DEF Desktop!AddSection
  <2>2. /\ r.sections = c.sections /\ r.status = c.status
        /\ r.chat = c.chat /\ r.mail = a
    BY <1>3, <1>7, <2>1 DEF DesktopRecord
  <2>3. Placed(r, L \cup {a})
    BY <1>6, <1>8, <1>9, <1>11, <2>2 DEF Placed
  <2>4. QED
    BY <1>3, <1>5, <1>6, <2>2, <2>3 DEF WellFormed
<1>12. CASE a \notin Empathy /\ ~mailer
  <2>1. PICK sections \in Seq(SectionName), status \in BOOLEAN :
          sections = c.sections /\ status = c.status
    BY <1>3 DEF DesktopRecord
  <2>2. PICK t : t = Desktop!InsertSorted(sections, a, Desktop!FirstSection(status),
                                          Len(sections) - 1)
    OBVIOUS
  <2>3. w = [c EXCEPT !.sections = t]
    BY <1>4, <1>12, <2>1, <2>2 DEF Desktop!AddSection
  <2>4. /\ InPlace(t, status)
        /\ \A x : Has(t, x) <=> x = a \/ Has(sections, x)
    <3>1. InPlace(sections, status) /\ ~Has(sections, a)
      BY <1>3, <1>8, <2>1
    <3>2. QED
      BY <2>2, <3>1, InsertSortedFacts
  <2>5. /\ r.sections = t /\ r.status = status
        /\ r.chat = c.chat /\ r.mail = c.mail
    BY <1>3, <1>7, <2>1, <2>3 DEF DesktopRecord
  <2>6. Placed(r, L \cup {a})
    BY <1>6, <1>8, <1>9, <1>12, <2>1, <2>4, <2>5 DEF Placed
  <2>7. QED
    BY <1>5, <1>6, <2>4, <2>5, <2>6 DEF WellFormed
<1>13. QED
  BY <1>10, <1>11, <1>12

\* The menu of a process that starts: empty, with the applications of L.
LEMMA EmptyDesktopFacts ==
  /\ Desktop!EmptyDesktop \in DesktopRecord
  /\ Roomy(Desktop!EmptyDesktop)
  /\ WellFormed(Desktop!EmptyDesktop, {})
  /\ DOMAIN Desktop!EmptyDesktop.entries = {}
<1> DEFINE d == Desktop!EmptyDesktop
           sections == <<"chat", "mail", "clear">>
<1>1. /\ d.sections = sections /\ d.status = FALSE /\ d.chat = Desktop!Nobody
      /\ d.mail = Desktop!Nobody /\ d.entries = << >>
      /\ d = [sections |-> sections, status |-> FALSE, chat |-> Desktop!Nobody,
              mail |-> Desktop!Nobody, entries |-> << >>]
  BY DEF Desktop!EmptyDesktop
<1>2. DOMAIN << >> = {} /\ << >> \in [{} -> Seq(Source)]
  OBVIOUS
<1>3. sections \in Seq(SectionName)
  <2>1. "chat" \in SectionName /\ "mail" \in SectionName /\ "clear" \in SectionName
    BY DEF SectionName, Desktop!Fixed
  <2>2. QED
    BY <2>1
<1>4. Len(sections) = 3 /\ sections[1] = "chat" /\ sections[2] = "mail" /\ sections[3] = "clear"
  OBVIOUS
<1>5. DOMAIN sections = {1, 2, 3}
  BY <1>4
<1> HIDE DEF sections
<1>6. << >> \in UNION {[D -> Seq(Source)] : D \in SUBSET App}
  BY <1>2
<1>7. d \in DesktopRecord
  BY <1>1, <1>3, <1>6 DEF DesktopRecord
<1> HIDE DEF d
<1>8. Roomy(d)
  BY <1>1, <1>4 DEF Roomy
<1>9. InPlace(d.sections, d.status)
  BY <1>1, <1>4 DEF InPlace
<1>10. \A a \in App : ~Has(d.sections, a)
  BY <1>1, <1>4, <1>5, SectionAssumption DEF Has, Desktop!Fixed
<1>11. Placed(d, {})
  BY <1>1, <1>2, <1>10 DEF Placed
<1>12. QED
  BY <1>1, <1>2, <1>7, <1>8, <1>9, <1>11 DEF WellFormed, d

\* Adding the applications of L in some order shows each of them.
LEMMA ConstructedFacts ==
  ASSUME NEW L \in SUBSET App, NEW order \in SetToSeqs(L), NEW mailers
  PROVE  /\ WellFormed(Desktop!Constructed(order, mailers), L)
         /\ \A b \in L : Desktop!Constructed(order, mailers).entries[b] = << >>
<1> DEFINE n == Len(order)
           op(i, d) == Desktop!AppAdded(d, order[i], order[i] \in mailers)
           base == Desktop!EmptyDesktop
           Solves(g) == g = [s \in SUBSET (1..n) |->
                               IF s = {} THEN base ELSE op(Max(s), g[s \ {Max(s)}])]
           h == CHOOSE g : Solves(g)
           r == Desktop!Constructed(order, mailers)
           B == {d \in DesktopRecord : Roomy(d)}
<1>1. IsFiniteSet(L)
  BY MenusAssumption, FS_Subset
<1>2. /\ order \in Seq(L) /\ n \in Nat /\ DOMAIN order = 1..n
      /\ \A i, j \in 1..n : i # j => order[i] # order[j]
      /\ \A x \in L : \E i \in 1..n : order[i] = x
      /\ \A i \in 1..n : order[i] \in L
  <2>1. /\ order \in Seq(L)
        /\ \A i, j \in 1..n : i # j => order[i] # order[j]
        /\ \A x \in L : \E i \in 1..n : order[i] = x
    BY <1>1, SetToSeqsFacts
  <2>2. n \in Nat /\ DOMAIN order = 1..n
    BY <2>1, LenProperties
  <2>3. \A i \in 1..n : order[i] \in L
    BY <2>1, <2>2, ElementOfSeq
  <2>4. QED
    BY <2>1, <2>2, <2>3
<1>3. r = h[1..n]
  BY <1>2 DEF Desktop!Constructed, Desktop!FoldLeft, Desktop!MapThenFoldSet, Desktop!Max, Max
<1> HIDE DEF r, h
<1>4. ASSUME NEW i \in 1..n, NEW d \in B PROVE op(i, d) \in B
  <2>1. PICK a \in App, mailer \in BOOLEAN : a = order[i] /\ mailer = (order[i] \in mailers)
    <3>1. order[i] \in App
      BY <1>2
    <3>2. (order[i] \in mailers) \in BOOLEAN
      OBVIOUS
    <3>3. QED
      BY <3>1, <3>2, Zenon
  <2>2. Desktop!AppAdded(d, a, mailer) \in B
    BY AppAddedTyped
  <2>3. QED
    BY <2>1, <2>2
<1> HIDE DEF op
<1>5. base \in B
  BY EmptyDesktopFacts
<1>6. \E g : Solves(g)
  <2> HIDE DEF base, B
  <2> DEFINE F == [i \in 1..n |-> [d \in B |-> op(i, d)]]
  <2>1. F \in [1..n -> [B -> B]]
    BY <1>4
  <2>2. \A i \in 1..n, d \in B : F[i][d] = op(i, d)
    OBVIOUS
  <2> HIDE DEF F, n
  <2>3. PICK g \in [SUBSET (1..n) -> B] : FoldsBy(g, n, base, F)
    BY <1>2, <1>5, <2>1, FoldExists
  <2>4. ASSUME NEW s \in SUBSET (1..n), s # {}
        PROVE  g[s] = op(Max(s), g[s \ {Max(s)}])
    <3>1. Max(s) \in 1..n
      BY <1>2, <2>4, MaxInSet
    <3>2. g[s \ {Max(s)}] \in B
      OBVIOUS
    <3>3. QED
      BY <2>2, <2>3, <2>4, <3>1, <3>2 DEF FoldsBy
  <2>5. Solves(g)
    BY <2>3, <2>4 DEF FoldsBy
  <2>6. QED
    BY <2>5
<1>7. Solves(h)
  BY <1>6 DEF h
<1>8. /\ h[{}] = base
      /\ \A i \in Nat : i + 1 <= n => h[1..(i + 1)] = op(i + 1, h[1..i])
  <2> HIDE DEF base
  <2>1. h[{}] = base
    BY <1>7
  <2>2. ASSUME NEW i \in Nat, i + 1 <= n PROVE h[1..(i + 1)] = op(i + 1, h[1..i])
    <3>1. PICK s \in SUBSET (1..n) : s = 1..(i + 1)
      BY <1>2, <2>2
    <3>2. s # {} /\ Max(s) = i + 1 /\ s \ {Max(s)} = 1..i
      BY <3>1, LastPosition
    <3>3. h[s] = op(Max(s), h[s \ {Max(s)}])
      BY <1>7, <3>2
    <3>4. QED
      BY <3>1, <3>2, <3>3
  <2>3. QED
    BY <2>1, <2>2
<1> HIDE DEF Solves
<1> DEFINE First(i) == {order[j] : j \in 1..i}
           Good(i) == /\ WellFormed(h[1..i], First(i))
                      /\ \A b \in First(i) : h[1..i].entries[b] = << >>
           T == {i \in Nat : i <= n => Good(i)}
<1>9. Good(0)
  <2>1. 1..0 = {}
    OBVIOUS
  <2>2. h[1..0] = base /\ First(0) = {}
    BY <1>8, <2>1
  <2> HIDE DEF base
  <2>3. WellFormed(base, {})
    BY EmptyDesktopFacts DEF base
  <2>4. QED
    BY <2>2, <2>3
<1>10. ASSUME NEW i \in Nat, i + 1 <= n, Good(i) PROVE Good(i + 1)
  <2>1. PICK d, t : d = h[1..i] /\ t = h[1..(i + 1)]
    OBVIOUS
  <2>2. PICK M \in SUBSET App, a \in App, mailer \in BOOLEAN :
          /\ M = First(i) /\ a = order[i + 1] /\ mailer = (order[i + 1] \in mailers)
          /\ a \notin M
    <3>1. i + 1 \in 1..n /\ \A j \in 1..i : j \in 1..n /\ j # i + 1
      BY <1>2, <1>10
    <3>2. First(i) \in SUBSET App /\ order[i + 1] \in App
      BY <1>2, <3>1
    <3>3. order[i + 1] \notin First(i)
      BY <1>2, <3>1
    <3>4. (order[i + 1] \in mailers) \in BOOLEAN
      OBVIOUS
    <3> HIDE DEF First
    <3>5. QED
      BY <3>2, <3>3, <3>4, Zenon
  <2>3. First(i + 1) = M \cup {a}
    <3>1. \A j : j \in 1..(i + 1) <=> j \in 1..i \/ j = i + 1
      OBVIOUS
    <3>2. QED
      BY <2>2, <3>1
  <2>4. t = Desktop!AppAdded(d, a, mailer)
    BY <1>8, <1>10, <2>1, <2>2 DEF op
  <2> HIDE DEF First
  <2>5. WellFormed(d, M) /\ \A b \in M : d.entries[b] = << >>
    BY <1>10, <2>1, <2>2
  <2>6. WellFormed(t, M \cup {a})
    BY <2>2, <2>4, <2>5, AppAddedFacts
  <2>7. d \in DesktopRecord /\ Roomy(d) /\ DOMAIN d.entries = M
    BY <2>5, InPlaceRoomy DEF WellFormed, Placed
  <2>8. t.entries[a] = << >> /\ \A b \in M \ {a} : t.entries[b] = d.entries[b]
    BY <2>4, <2>7, AppAddedTyped
  <2>9. \A b \in M \cup {a} : t.entries[b] = << >>
    BY <2>5, <2>8
  <2>10. QED
    BY <2>1, <2>3, <2>6, <2>9
<1> HIDE DEF Good
<1>11. n \in T
  <2>1. 0 \in T
    BY <1>9
  <2>2. \A i \in Nat : i \in T => i + 1 \in T
    BY <1>2, <1>10
  <2> HIDE DEF T
  <2>3. QED
    BY <1>2, <2>1, <2>2, Induction
<1>12. Good(n)
  BY <1>2, <1>11
<1>13. First(n) = L
  BY <1>2
<1>14. QED
  BY <1>3, <1>12, <1>13 DEF Good, r

-----------------------------------------------------------------------------
(* The source sections of the desktop menu.                                *)

\* Taking the first entry of a source away leaves those of the others.
LEMMA WithoutFirstFacts ==
  ASSUME NEW section \in Seq(Source), NEW s \in Source
  PROVE  /\ Desktop!WithoutFirst(section, s) \in Seq(Source)
         /\ \A t : t # s /\ Has(section, t) => Has(Desktop!WithoutFirst(section, s), t)
         /\ Desktop!FindSource(section, s) \in Nat
         /\ Desktop!FindSource(section, s) # 0 =>
              /\ Desktop!FindSource(section, s) \in 1..Len(section)
              /\ Len(Desktop!WithoutFirst(section, s)) = Len(section) - 1
<1> DEFINE I == {i \in 1..Len(section) : section[i] = s}
           f == Desktop!FindSource(section, s)
           r == Desktop!WithoutFirst(section, s)
<1>1. Len(section) \in Nat /\ DOMAIN section = 1..Len(section)
  BY LenProperties
<1>2. f = IF I # {} THEN Min(I) ELSE 0
  BY DesktopLibrary DEF Desktop!FindSource, Desktop!SelectInSeq
<1>3. r = IF f = 0 THEN section ELSE RemoveAt(section, f)
  BY DesktopLibrary DEF Desktop!WithoutFirst
<1>4. CASE I = {}
  BY <1>2, <1>3, <1>4
<1>5. CASE I # {}
  <2>1. I \in SUBSET Nat
    OBVIOUS
  <2>2. Min(I) \in I
    <3> HIDE DEF I
    <3>1. QED
      BY <1>5, <2>1, MinFacts
  <2>3. PICK i \in 1..Len(section) : i = f /\ section[i] = s /\ i # 0
    <3>1. PICK i \in 1..Len(section) : i = Min(I) /\ section[i] = s
      BY <2>2
    <3> HIDE DEF f, I
    <3>2. i = f
      BY <1>2, <1>5, <3>1
    <3>3. QED
      BY <1>1, <3>1, <3>2
  <2>4. r = RemoveAt(section, i)
    BY <1>3, <2>3
  <2> HIDE DEF r, f, I
  <2>5. /\ r \in Seq(Source)
        /\ \A n \in DOMAIN section : n # i => \E j \in DOMAIN r : r[j] = section[n]
    BY <1>1, <2>3, <2>4, RemoveAtElements
  <2>6. Len(r) = Len(section) - 1
    BY <2>3, <2>4, RemoveAtFacts
  <2>7. \A t : t # s /\ Has(section, t) => Has(r, t)
    BY <2>3, <2>5 DEF Has
  <2>8. QED
    BY <2>3, <2>5, <2>6, <2>7 DEF r, f
<1>6. QED
  BY <1>4, <1>5

\* InsertAtFacts for a source section.
LEMMA InsertSourceEntry ==
  ASSUME NEW section \in Seq(Source), NEW i \in 1..(Len(section) + 1), NEW s \in Source
  PROVE  LET r == InsertAt(section, i, s) IN
         /\ r \in Seq(Source)
         /\ Has(r, s)
         /\ \A t : Has(section, t) => Has(r, t)
<1>1. PICK r, n : r = InsertAt(section, i, s) /\ n = Len(section)
  OBVIOUS
<1>2. /\ r \in Seq(Source) /\ Len(r) = n + 1
      /\ \A j \in 1..(n + 1) : r[j] = IF j < i THEN section[j]
                                      ELSE IF j = i THEN s ELSE section[j - 1]
  <2>1. /\ InsertAt(section, i, s) \in Seq(Source)
        /\ Len(InsertAt(section, i, s)) = Len(section) + 1
        /\ \A j \in 1..(Len(section) + 1) :
             InsertAt(section, i, s)[j] = IF j < i THEN section[j]
                                          ELSE IF j = i THEN s ELSE section[j - 1]
    BY InsertAtFacts
  <2>2. QED
    BY <1>1, <2>1
<1>3. n \in Nat /\ DOMAIN section = 1..n /\ DOMAIN r = 1..(n + 1) /\ i \in 1..(n + 1)
  BY <1>1, <1>2, LenProperties
<1>4. Has(r, s)
  BY <1>2, <1>3 DEF Has
<1>5. ASSUME NEW p \in DOMAIN section PROVE Has(r, section[p])
  <2>1. CASE p < i
    <3>1. p \in DOMAIN r /\ r[p] = section[p]
      BY <1>2, <1>3, <2>1
    <3>2. QED
      BY <3>1 DEF Has
  <2>2. CASE ~(p < i)
    <3>1. p + 1 \in 1..(n + 1) /\ ~(p + 1 < i) /\ p + 1 # i /\ (p + 1) - 1 = p
      BY <1>3, <2>2
    <3>2. p + 1 \in DOMAIN r /\ r[p + 1] = section[p]
      BY <1>2, <1>3, <3>1
    <3>3. QED
      BY <3>2 DEF Has
  <2>3. QED
    BY <2>1, <2>2
<1>6. QED
  BY <1>1, <1>2, <1>4, <1>5 DEF Has

\* Entries at the end of a section.
LEMMA ConcatEntries ==
  ASSUME NEW section \in Seq(Source), NEW more \in Seq(Source)
  PROVE  /\ section \o more \in Seq(Source)
         /\ \A t : Has(section, t) \/ Has(more, t) => Has(section \o more, t)
<1>1. PICK r, n, m : r = section \o more /\ n = Len(section) /\ m = Len(more)
  OBVIOUS
<1>2. /\ r \in Seq(Source) /\ Len(r) = n + m
      /\ \A j \in 1..(n + m) : r[j] = IF j <= n THEN section[j] ELSE more[j - n]
  BY <1>1, ConcatProperties
<1>3. /\ n \in Nat /\ m \in Nat
      /\ DOMAIN section = 1..n /\ DOMAIN more = 1..m /\ DOMAIN r = 1..(n + m)
  BY <1>1, <1>2, LenProperties
<1>4. ASSUME NEW p \in DOMAIN section PROVE Has(r, section[p])
  <2>1. p \in DOMAIN r /\ r[p] = section[p]
    BY <1>2, <1>3
  <2>2. QED
    BY <2>1 DEF Has
<1>5. ASSUME NEW p \in DOMAIN more PROVE Has(r, more[p])
  <2>1. p + n \in 1..(n + m) /\ ~(p + n <= n) /\ (p + n) - n = p
    BY <1>3
  <2>2. p + n \in DOMAIN r /\ r[p + n] = more[p]
    BY <1>2, <1>3, <2>1
  <2>3. QED
    BY <2>2 DEF Has
<1>6. \A t : Has(section, t) \/ Has(more, t) => Has(r, t)
  BY <1>4, <1>5 DEF Has
<1>7. QED
  BY <1>1, <1>2, <1>6, Zenon

\* A source that changes is there if it is visible; the others stay.
LEMMA ChangeFacts ==
  ASSUME NEW section \in Seq(Source), NEW s \in Source, NEW visible
  PROVE  /\ Desktop!Change(section, s, visible) \in Seq(Source)
         /\ \A t : t # s /\ Has(section, t) => Has(Desktop!Change(section, s, visible), t)
         /\ visible => Has(Desktop!Change(section, s, visible), s)
<1>1. PICK without, f : /\ without = Desktop!WithoutFirst(section, s)
                        /\ f = Desktop!FindSource(section, s)
  OBVIOUS
<1>2. /\ without \in Seq(Source) /\ f \in Nat
      /\ \A t : t # s /\ Has(section, t) => Has(without, t)
      /\ f # 0 => f \in 1..Len(section) /\ Len(without) = Len(section) - 1
  BY <1>1, WithoutFirstFacts
<1>3. PICK r : r = Desktop!Change(section, s, visible)
  OBVIOUS
<1>4. CASE ~visible
  BY <1>1, <1>2, <1>4 DEF Desktop!Change
<1>5. CASE visible /\ f = 0
  <2>1. r = Append(without, s)
    BY <1>1, <1>3, <1>5 DEF Desktop!Change, Desktop!InsertSource
  <2>2. PICK one \in Seq(Source) : one = <<s>> /\ one[1] = s /\ DOMAIN one = {1}
    <3>1. <<s>> \in Seq(Source) /\ <<s>>[1] = s /\ DOMAIN <<s>> = {1}
      OBVIOUS
    <3>2. QED
      BY <3>1
  <2>3. Append(without, s) = without \o one
    BY <1>2, <2>2
  <2>4. Has(one, s)
    BY <2>2 DEF Has
  <2>5. QED
    BY <1>2, <1>3, <2>1, <2>3, <2>4, ConcatEntries
<1>6. CASE visible /\ f # 0
  <2>1. r = InsertAt(without, f, s)
    BY <1>1, <1>3, <1>6, DesktopLibrary DEF Desktop!Change, Desktop!InsertSource
  <2>2. f \in 1..(Len(without) + 1)
    BY <1>2, <1>6, LenProperties
  <2>3. QED
    BY <1>2, <1>3, <2>1, <2>2, InsertSourceEntry
<1>7. QED
  BY <1>4, <1>5, <1>6

\* A step that changes the source section of one application only.
WithEntries(d, a, x) == [d EXCEPT !.entries[a] = x]

\* It keeps the sections, and the entries of every other application.
LEMMA EntriesFacts ==
  ASSUME NEW d, NEW L \in SUBSET App, WellFormed(d, L), NEW a \in L, NEW x \in Seq(Source)
  PROVE  /\ WellFormed(WithEntries(d, a, x), L)
         /\ WithEntries(d, a, x).entries[a] = x
         /\ \A b \in L \ {a} : WithEntries(d, a, x).entries[b] = d.entries[b]
<1>1. PICK r : r = WithEntries(d, a, x) /\ r = [d EXCEPT !.entries[a] = x]
  BY DEF WithEntries
<1>2. d \in DesktopRecord /\ DOMAIN d.entries = L
  BY DEF WellFormed, Placed
<1>3. PICK D \in SUBSET App : d.entries \in [D -> Seq(Source)]
  BY <1>2 DEF DesktopRecord
<1>4. PICK e : e = [d.entries EXCEPT ![a] = x]
  OBVIOUS
<1>5. D = L
  BY <1>2, <1>3
<1>6. /\ e \in [L -> Seq(Source)] /\ e[a] = x
      /\ \A b \in L \ {a} : e[b] = d.entries[b]
  BY <1>3, <1>4, <1>5
<1>7. r = [d EXCEPT !.entries = e]
  BY <1>1, <1>2, <1>4 DEF DesktopRecord
<1>8. /\ r \in DesktopRecord /\ r.entries = e
      /\ r.sections = d.sections /\ r.status = d.status
      /\ r.chat = d.chat /\ r.mail = d.mail
  BY <1>2, <1>6, <1>7 DEF DesktopRecord
<1>9. DOMAIN e = L
  BY <1>6
<1>10. Placed(r, L)
  BY <1>8, <1>9 DEF WellFormed, Placed
<1>11. QED
  BY <1>1, <1>6, <1>8, <1>10 DEF WellFormed

\* A step that empties all source sections.
LEMMA ClearedFacts ==
  ASSUME NEW d, NEW L \in SUBSET App, WellFormed(d, L)
  PROVE  WellFormed([d EXCEPT !.entries = [a \in DOMAIN @ |-> << >>]], L)
<1>1. PICK r : r = [d EXCEPT !.entries = [a \in DOMAIN @ |-> << >>]]
  OBVIOUS
<1>2. d \in DesktopRecord /\ DOMAIN d.entries = L
  BY DEF WellFormed, Placed
<1>3. PICK e : e = [a \in L |-> << >>]
  OBVIOUS
<1>4. e \in [L -> Seq(Source)]
  BY <1>3, EmptySeq
<1>5. r = [d EXCEPT !.entries = e]
  BY <1>1, <1>2, <1>3
<1>6. /\ r \in DesktopRecord /\ r.entries = e
      /\ r.sections = d.sections /\ r.status = d.status
      /\ r.chat = d.chat /\ r.mail = d.mail
  BY <1>2, <1>4, <1>5 DEF DesktopRecord
<1>7. DOMAIN e = L
  BY <1>3
<1>8. QED
  BY <1>1, <1>6, <1>7 DEF WellFormed, Placed

-----------------------------------------------------------------------------
(* The handlers of the signals, on both menus.                             *)

PhoneRecord == [messages : PhoneSection, clear : BOOLEAN, dead : BOOLEAN]

\* The section has an entry for message m of application a.
MessageEntry(messages, a, m) ==
  \E p \in DOMAIN messages : messages[p].app = a /\ messages[p].id = m

\* The section that the phone menu gets is the one it shows.
LEMMA UpdateClearFacts ==
  ASSUME phone \in PhoneRecord, NEW ms \in PhoneSection
  PROVE  /\ Phone!UpdateClear(ms) \in PhoneRecord
         /\ Phone!UpdateClear(ms).messages = ms
         /\ [Phone!UpdateClear(ms) EXCEPT !.dead = TRUE] \in PhoneRecord
         /\ [Phone!UpdateClear(ms) EXCEPT !.dead = TRUE].messages = ms
<1>1. PICK c \in BOOLEAN : c = (ms # << >>)
  <2>1. (ms # << >>) \in BOOLEAN
    OBVIOUS
  <2>2. QED
    BY <2>1, Zenon
<1>2. Phone!UpdateClear(ms) = [phone EXCEPT !.messages = ms, !.clear = c]
  BY <1>1, Zenon DEF Phone!UpdateClear
<1>3. QED
  BY <1>2 DEF PhoneRecord

\* What is in a section of the phone menu.
LEMMA SectionFacts ==
  ASSUME NEW ms \in PhoneSection
  PROVE  /\ ms \in Seq(Phone!Entry) /\ Descending(ms)
         /\ \A p \in DOMAIN ms : ms[p] \in Phone!Entry
<1>1. ms \in Seq(Phone!Entry) /\ Descending(ms)
  BY DEF PhoneSection
<1>2. DOMAIN ms = 1..Len(ms)
  BY <1>1, LenProperties
<1>3. \A p \in DOMAIN ms : ms[p] \in Phone!Entry
  BY <1>1, <1>2, ElementOfSeq
<1>4. QED
  BY <1>1, <1>3

\* A section that keeps some entries of another one.
LEMMA KeptFacts ==
  ASSUME NEW ms \in PhoneSection, NEW P \in SUBSET DOMAIN ms
  PROVE  LET r == Phone!Keep(ms, P) IN
         /\ r \in PhoneSection
         /\ \A p \in P : Has(r, ms[p])
         /\ \A i \in DOMAIN r : \E p \in P : r[i] = ms[p]
<1>1. ms \in Seq(Phone!Entry) /\ Descending(ms)
  BY SectionFacts
<1>2. QED
  BY <1>1, KeepFacts DEF PhoneSection

(***************************************************************************)
(* When an application stops, nothing of it remains in either menu, and    *)
(* all that the others have stays.                                         *)
(***************************************************************************)
LEMMA StoppedFacts ==
  ASSUME phone \in PhoneRecord, NEW L \in SUBSET App, WellFormed(desktop, L),
         NEW a \in L, APP_STOPPED(a)
  PROVE  /\ phone' \in PhoneRecord /\ WellFormed(desktop', L)
         /\ \A b \in L \ {a} : desktop'.entries[b] = desktop.entries[b]
         /\ desktop'.entries[a] = << >>
         /\ \A b \in L \ {a}, m \in Message :
              MessageEntry(phone.messages, b, m) => MessageEntry(phone'.messages, b, m)
         /\ \A m \in Message : ~MessageEntry(phone'.messages, a, m)
         /\ \A p \in DOMAIN phone'.messages : phone'.messages[p].app # a
         /\ \A b : OfApp(phone'.messages, b) => OfApp(phone.messages, b)
<1>1. PICK ms \in PhoneSection : ms = phone.messages
  BY DEF PhoneRecord
<1>2. PICK P \in SUBSET DOMAIN ms : P = {p \in DOMAIN ms : ms[p].app # a}
  OBVIOUS
<1>3. PICK r : r = Phone!Keep(ms, P)
  OBVIOUS
<1>4. /\ r \in PhoneSection
      /\ \A p \in P : Has(r, ms[p])
      /\ \A i \in DOMAIN r : \E p \in P : r[i] = ms[p]
  BY <1>3, KeptFacts
<1>5. phone' = Phone!UpdateClear(r)
  BY <1>1, <1>2, <1>3 DEF APP_STOPPED, Phone!RemoveApplication
<1>6. phone' \in PhoneRecord /\ phone'.messages = r
  BY <1>4, <1>5, UpdateClearFacts
<1>7. desktop' = [desktop EXCEPT !.entries[a] = << >>]
  BY DEF APP_STOPPED, Desktop!AppStopped
<1>8. /\ WellFormed(desktop', L) /\ desktop'.entries[a] = << >>
      /\ \A b \in L \ {a} : desktop'.entries[b] = desktop.entries[b]
  <2>1. PICK x \in Seq(Source) : x = << >>
    BY EmptySeq
  <2>2. PICK d, e : d = desktop /\ e = desktop'
    OBVIOUS
  <2>3. WellFormed(d, L) /\ e = WithEntries(d, a, x)
    BY <1>7, <2>1, <2>2 DEF WithEntries
  <2>4. /\ WellFormed(e, L) /\ e.entries[a] = x
        /\ \A b \in L \ {a} : e.entries[b] = d.entries[b]
    BY <2>3, EntriesFacts
  <2>5. QED
    BY <2>1, <2>2, <2>4
<1>9. ASSUME NEW b \in L \ {a}, NEW m \in Message, MessageEntry(ms, b, m)
      PROVE  MessageEntry(r, b, m)
  <2>1. PICK p \in DOMAIN ms : ms[p].app = b /\ ms[p].id = m
    BY <1>9 DEF MessageEntry
  <2>2. Has(r, ms[p])
    BY <1>2, <1>4, <1>9, <2>1
  <2>3. QED
    BY <2>1, <2>2 DEF Has, MessageEntry
<1>10. \A p \in DOMAIN r : r[p].app # a
  BY <1>2, <1>4
<1>11. \A m \in Message : ~MessageEntry(r, a, m)
  BY <1>10 DEF MessageEntry
<1>12. \A b : OfApp(r, b) => OfApp(ms, b)
  BY <1>2, <1>4 DEF OfApp
<1>13. QED
  BY <1>1, <1>6, <1>8, <1>9, <1>10, <1>11, <1>12

\* A message that is removed takes at most its own entries along.
LEMMA MessageRemovedFacts ==
  ASSUME phone \in PhoneRecord, NEW a, NEW m, MESSAGE_REMOVED(a, m)
  PROVE  /\ phone' \in PhoneRecord
         /\ \A b, n : /\ b # a \/ n # m
                      /\ MessageEntry(phone.messages, b, n)
                      => MessageEntry(phone'.messages, b, n)
         /\ \A b : OfApp(phone'.messages, b) => OfApp(phone.messages, b)
<1>1. PICK ms \in PhoneSection : ms = phone.messages
  BY DEF PhoneRecord
<1>2. PICK P \in SUBSET DOMAIN ms : P = DOMAIN ms \ Phone!Removed(ms, a, m)
  OBVIOUS
<1>3. PICK r : r = Phone!Keep(ms, P)
  OBVIOUS
<1>4. /\ r \in PhoneSection
      /\ \A p \in P : Has(r, ms[p])
      /\ \A i \in DOMAIN r : \E p \in P : r[i] = ms[p]
  BY <1>3, KeptFacts
<1>5. \/ phone' = Phone!UpdateClear(r)
      \/ phone' = [Phone!UpdateClear(r) EXCEPT !.dead = TRUE]
  BY <1>1, <1>2, <1>3 DEF MESSAGE_REMOVED, Phone!RemoveMessage
<1>6. phone' \in PhoneRecord /\ phone'.messages = r
  BY <1>4, <1>5, UpdateClearFacts
<1>7. ASSUME NEW b, NEW n, b # a \/ n # m, MessageEntry(ms, b, n) PROVE MessageEntry(r, b, n)
  <2>1. PICK p \in DOMAIN ms : ms[p].app = b /\ ms[p].id = n
    BY <1>7 DEF MessageEntry
  <2>2. p \notin Phone!Removed(ms, a, m)
    BY <1>7, <2>1 DEF Phone!Removed, Phone!Matches
  <2>3. Has(r, ms[p])
    BY <1>2, <1>4, <2>2
  <2>4. QED
    BY <2>1, <2>3 DEF Has, MessageEntry
<1>8. \A b : OfApp(r, b) => OfApp(ms, b)
  BY <1>2, <1>4 DEF OfApp
<1>9. QED
  BY <1>1, <1>6, <1>7, <1>8

\* The orders in which items can be added are sequences of such items.
LEMMA OrderTypes ==
  /\ \A order \in SourceOrder : order \in Seq(Source)
  /\ \A order \in MessageOrder : order \in Seq([id : Message, time : Time])
<1>1. ASSUME NEW S, NEW U, S \subseteq U, IsFiniteSet(U), NEW o \in SetToSeqs(S)
      PROVE  \E n \in Nat : DOMAIN o = 1..n /\ o \in [1..n -> S]
  <2>1. IsFiniteSet(S)
    BY <1>1, FS_Subset
  <2>2. o \in Seq(S)
    BY <2>1, SetToSeqsFacts
  <2>3. QED
    BY <2>2, LenProperties
<1>2. ASSUME NEW order \in SourceOrder PROVE order \in Seq(Source)
  <2>1. PICK S \in SUBSET Source : order \in SetToSeqs(S)
    BY DEF SourceOrder
  <2>2. PICK n \in Nat : order \in [1..n -> S]
    BY <1>1, <2>1, MenusAssumption
  <2>3. order \in [1..n -> Source]
    BY <2>1, <2>2
  <2>4. QED
    BY <2>3
<1>3. ASSUME NEW order \in MessageOrder PROVE order \in Seq([id : Message, time : Time])
  <2>0. PICK M \in SUBSET Message :
          order \in {[i \in DOMAIN o |-> [id |-> o[i], time |-> t[o[i]]]] :
                       o \in SetToSeqs(M), t \in [M -> Time]}
    BY DEF MessageOrder
  <2>1. PICK o \in SetToSeqs(M), t \in [M -> Time] :
          order = [i \in DOMAIN o |-> [id |-> o[i], time |-> t[o[i]]]]
    BY <2>0
  <2>2. PICK n \in Nat : DOMAIN o = 1..n /\ o \in [1..n -> M]
    BY <1>1, <2>1, MenusAssumption
  <2>3. \A i \in 1..n : o[i] \in Message /\ t[o[i]] \in Time
    BY <2>1, <2>2
  <2>4. order \in [1..n -> [id : Message, time : Time]]
    BY <2>1, <2>2, <2>3
  <2>5. PICK T : T = [id : Message, time : Time]
    OBVIOUS
  <2>6. order \in [1..n -> T]
    BY <2>4, <2>5, Zenon
  <2>7. order \in Seq(T)
    BY <2>6
  <2>8. QED
    BY <2>5, <2>7
<1>4. QED
  BY <1>2, <1>3

\* Messages that are added get an entry each; no entry is lost, and none of
\* another application comes.
LEMMA MessagesAddedFacts ==
  ASSUME phone \in PhoneRecord, NEW a \in App, NEW items,
         NEW order \in Seq([id : Message, time : Time]), MESSAGES_ADDED(a, items, order)
  PROVE  /\ phone' \in PhoneRecord
         /\ \A b, n : MessageEntry(phone.messages, b, n) => MessageEntry(phone'.messages, b, n)
         /\ \A m \in DOMAIN items : MessageEntry(phone'.messages, a, m)
         /\ \A b : OfApp(phone'.messages, b) => b = a \/ OfApp(phone.messages, b)
<1>1. PICK ms \in PhoneSection : ms = phone.messages
  BY DEF PhoneRecord
<1>2. PICK r : r = Merged(ms, a, order)
  OBVIOUS
<1>3. /\ r \in PhoneSection
      /\ \A p \in DOMAIN ms : Has(r, ms[p])
      /\ \A i \in DOMAIN order : Has(r, EntryOf(a, order[i]))
      /\ \A b : OfApp(r, b) => b = a \/ OfApp(ms, b)
  BY <1>2, MergedFacts
<1>4. phone' = Phone!UpdateClear(r)
  BY <1>1, <1>2, Zenon DEF MESSAGES_ADDED, Phone!AddMessages, Merged
<1>5. phone' \in PhoneRecord /\ phone'.messages = r
  BY <1>3, <1>4, UpdateClearFacts
<1>6. ASSUME NEW b, NEW n, MessageEntry(ms, b, n) PROVE MessageEntry(r, b, n)
  BY <1>3, <1>6 DEF MessageEntry, Has
<1>7. ASSUME NEW m \in DOMAIN items PROVE MessageEntry(r, a, m)
  <2>1. m \in {e.id : e \in ToSet(order)}
    BY <1>7 DEF MESSAGES_ADDED
  <2>2. PICK i \in DOMAIN order : order[i].id = m
    BY <2>1 DEF ToSet
  <2>3. Has(r, EntryOf(a, order[i]))
    BY <1>3
  <2>4. EntryOf(a, order[i]).app = a /\ EntryOf(a, order[i]).id = m
    BY <2>2 DEF EntryOf
  <2>5. QED
    BY <2>3, <2>4 DEF Has, MessageEntry
<1>8. QED
  BY <1>1, <1>3, <1>5, <1>6, <1>7

\* Sources that are added and visible get an entry each, and no entry is lost.
LEMMA SourcesAddedFacts ==
  ASSUME NEW L \in SUBSET App, WellFormed(desktop, L), NEW a \in L, NEW items,
         NEW order \in Seq(Source), SOURCES_ADDED(a, items, order)
  PROVE  /\ WellFormed(desktop', L)
         /\ \A b \in L : \A s : Has(desktop.entries[b], s) => Has(desktop'.entries[b], s)
         /\ \A s \in DOMAIN items : items[s] # "hidden" => Has(desktop'.entries[a], s)
<1>1. PICK section \in Seq(Source) : section = desktop.entries[a]
  BY DEF WellFormed, DesktopRecord, Placed
<1>2. PICK x \in Seq(Source) : x = section \o order
  BY ConcatEntries
<1>3. \A t : Has(section, t) \/ Has(order, t) => Has(x, t)
  BY <1>2, ConcatEntries
<1>4. desktop' = WithEntries(desktop, a, x)
  BY <1>1, <1>2, Zenon DEF SOURCES_ADDED, Desktop!SourcesAdded, WithEntries
<1>5. /\ WellFormed(desktop', L) /\ desktop'.entries[a] = x
      /\ \A b \in L \ {a} : desktop'.entries[b] = desktop.entries[b]
  <2>1. PICK d : d = desktop
    OBVIOUS
  <2>2. /\ WellFormed(WithEntries(d, a, x), L) /\ WithEntries(d, a, x).entries[a] = x
        /\ \A b \in L \ {a} : WithEntries(d, a, x).entries[b] = d.entries[b]
    <3>1. WellFormed(d, L) /\ x \in Seq(Source) /\ a \in L /\ L \in SUBSET App
      BY <2>1
    <3> HIDE <2>1
    <3>2. WellFormed(WithEntries(d, a, x), L)
      BY <3>1, EntriesFacts
    <3>3. QED
      BY <3>1, EntriesFacts
  <2>3. QED
    BY <1>4, <2>1, <2>2
<1>6. ASSUME NEW s \in DOMAIN items, items[s] # "hidden" PROVE Has(order, s)
  BY <1>6 DEF SOURCES_ADDED, ToSet, Has
<1>7. QED
  BY <1>1, <1>3, <1>5, <1>6

\* A source that is removed takes one entry of its own along.
LEMMA SourceRemovedFacts ==
  ASSUME NEW L \in SUBSET App, WellFormed(desktop, L), NEW a \in L, NEW s \in Source,
         SOURCE_REMOVED(a, s)
  PROVE  /\ WellFormed(desktop', L)
         /\ \A b \in L : \A t : /\ b # a \/ t # s
                            /\ Has(desktop.entries[b], t)
                            => Has(desktop'.entries[b], t)
<1>1. PICK section \in Seq(Source) : section = desktop.entries[a]
  BY DEF WellFormed, DesktopRecord, Placed
<1>2. PICK x \in Seq(Source) : x = Desktop!WithoutFirst(section, s)
  BY WithoutFirstFacts
<1>3. \A t : t # s /\ Has(section, t) => Has(x, t)
  BY <1>2, WithoutFirstFacts
<1>4. desktop' = WithEntries(desktop, a, x)
  BY <1>1, <1>2, Zenon DEF SOURCE_REMOVED, Desktop!SourceRemoved, WithEntries
<1>5. /\ WellFormed(desktop', L) /\ desktop'.entries[a] = x
      /\ \A b \in L \ {a} : desktop'.entries[b] = desktop.entries[b]
  BY <1>4, EntriesFacts
<1>6. QED
  BY <1>1, <1>3, <1>5

\* A source that changes has an entry when it is visible.
LEMMA SourceChangedFacts ==
  ASSUME NEW L \in SUBSET App, WellFormed(desktop, L), NEW a \in L, NEW s \in Source, NEW v,
         SOURCE_CHANGED(a, s, v)
  PROVE  /\ WellFormed(desktop', L)
         /\ \A b \in L : \A t : /\ b # a \/ t # s
                            /\ Has(desktop.entries[b], t)
                            => Has(desktop'.entries[b], t)
         /\ v # "hidden" => Has(desktop'.entries[a], s)
<1>1. PICK section \in Seq(Source) : section = desktop.entries[a]
  BY DEF WellFormed, DesktopRecord, Placed
<1>2. PICK visible : visible = (v # "hidden")
  OBVIOUS
<1>3. PICK x \in Seq(Source) : x = Desktop!Change(section, s, visible)
  BY ChangeFacts
<1>4. /\ \A t : t # s /\ Has(section, t) => Has(x, t)
      /\ visible => Has(x, s)
  BY <1>3, ChangeFacts
<1>5. desktop' = WithEntries(desktop, a, x)
  BY <1>1, <1>2, <1>3, Zenon DEF SOURCE_CHANGED, Desktop!SourceChanged, WithEntries
<1>6. /\ WellFormed(desktop', L) /\ desktop'.entries[a] = x
      /\ \A b \in L \ {a} : desktop'.entries[b] = desktop.entries[b]
  BY <1>5, EntriesFacts
<1>7. QED
  BY <1>1, <1>2, <1>4, <1>6

-----------------------------------------------------------------------------
(* The invariant of the list with its menus.                               *)

\* What the list says of an application that is not forgotten has an entry.
Shows(messages, section, a, x) ==
  /\ \A m \in Message : x.messages[m] # "absent" => MessageEntry(messages, a, m)
  /\ \A s \in Source : x.sources[s] \notin {"absent", "hidden"} => Has(section, s)

Follows == \A a \in listed \ forgotten :
             Shows(phone.messages, desktop.entries[a], a, app[a])

MenusInv == /\ IndInv
            /\ phone \in PhoneRecord
            /\ WellFormed(desktop, listed)
            /\ forgotten \subseteq listed
            /\ Follows

\* The invariant of the list is kept by the steps of the menus.
LEMMA ListStep == IndInv /\ [MenusNext]_menusVars => IndInv'
<1>1. IndInv /\ [Next]_vars => IndInv'
  BY InvMethod, InvCallback, InvSignal, InvUser, InvEnvironment, InvStutter DEF Next
<1>2. QED
  BY <1>1, MenusStep

\* Showing an application without items takes nothing.
LEMMA NothingToShow ==
  ASSUME NEW x, ~HasItems(x), NEW messages, NEW section, NEW a
  PROVE  Shows(messages, section, a, x)
BY DEF HasItems, Shows

\* A section that loses no entry of an application goes on showing it.
LEMMA GoesOnShowing ==
  ASSUME NEW messages, NEW section, NEW a, NEW x, Shows(messages, section, a, x),
         NEW messages2, NEW section2,
         \A m \in Message : MessageEntry(messages, a, m) => MessageEntry(messages2, a, m),
         \A s \in Source : Has(section, s) => Has(section2, s)
  PROVE  Shows(messages2, section2, a, x)
BY DEF Shows

(***************************************************************************)
(* What is left to show of a step: the menus stay well-formed, and they    *)
(* show each application that has items and has not been withdrawn.        *)
(***************************************************************************)
LEMMA FollowStep ==
  ASSUME MenusInv, IndInv', NEW more \in SUBSET App, Remembered(more),
         phone' \in PhoneRecord, WellFormed(desktop', listed'),
         \A a \in listed' \ (forgotten \cup more) :
           Shows(phone'.messages, desktop'.entries[a], a, app'[a])
  PROVE  MenusInv'
<1>1. listed \in SUBSET App /\ listed' \in SUBSET App /\ forgotten \subseteq listed
  BY DEF MenusInv, IndInv, TypeOK
<1>2. forgotten' = {a \in forgotten \cup more : HasItems(app'[a])}
  BY DEF Remembered
<1>3. \A a \in App \ listed' : app'[a] = Stopped
  BY DEF IndInv, Known
<1>4. forgotten' \subseteq listed'
  BY <1>1, <1>2, <1>3, StoppedIsEmpty
<1>5. ASSUME NEW a \in listed' \ forgotten'
      PROVE  Shows(phone'.messages, desktop'.entries[a], a, app'[a])
  <2>1. CASE a \in forgotten \cup more
    <3>1. ~HasItems(app'[a])
      BY <1>2, <2>1
    <3>2. QED
      BY <3>1, NothingToShow
  <2>2. CASE a \notin forgotten \cup more
    BY <2>2
  <2>3. QED
    BY <2>1, <2>2
<1>6. Follows'
  BY <1>5 DEF Follows
<1>7. QED
  BY <1>4, <1>6 DEF MenusInv

\* A step that changes one listed application and its entries.
LEMMA FollowEdit ==
  ASSUME MenusInv, IndInv', NEW a \in listed, NEW y,
         app' = [app EXCEPT ![a] = y], listed' = listed, Remembered({}),
         phone' \in PhoneRecord, WellFormed(desktop', listed),
         \A b \in listed \ {a}, m \in Message :
           MessageEntry(phone.messages, b, m) => MessageEntry(phone'.messages, b, m),
         \A b \in listed \ {a}, s \in Source :
           Has(desktop.entries[b], s) => Has(desktop'.entries[b], s),
         Shows(phone.messages, desktop.entries[a], a, app[a]) =>
           Shows(phone'.messages, desktop'.entries[a], a, y)
  PROVE  MenusInv'
<1>1. listed \in SUBSET App /\ app \in [App -> Application]
  BY DEF MenusInv, IndInv, TypeOK
<1>2. app'[a] = y /\ \A b \in App \ {a} : app'[b] = app[b]
  BY <1>1
<1>3. ASSUME NEW b \in listed \ forgotten
      PROVE  Shows(phone'.messages, desktop'.entries[b], b, app'[b])
  <2>1. Shows(phone.messages, desktop.entries[b], b, app[b])
    BY <1>3 DEF MenusInv, Follows
  <2>2. CASE b = a
    BY <1>2, <2>1, <2>2
  <2>3. CASE b # a
    <3>1. app'[b] = app[b]
      BY <1>1, <1>2, <2>3
    <3>2. QED
      BY <2>1, <2>3, <3>1, GoesOnShowing
  <2>4. QED
    BY <2>2, <2>3
<1>4. PICK more \in SUBSET App : more = {}
  OBVIOUS
<1>5. \A b \in listed' \ (forgotten \cup more) :
        Shows(phone'.messages, desktop'.entries[b], b, app'[b])
  BY <1>3, <1>4
<1>6. Remembered(more)
  BY <1>4
<1>7. QED
  BY <1>5, <1>6, FollowStep

\* A step that leaves all items and both menus as they are.
LEMMA FollowIdle ==
  ASSUME MenusInv, IndInv', listed' = listed, UNCHANGED <<phone, desktop>>,
         forgotten' = forgotten,
         \A a \in listed : /\ app'[a].messages = app[a].messages
                           /\ app'[a].sources = app[a].sources
  PROVE  MenusInv'
<1>1. ASSUME NEW a \in listed \ forgotten
      PROVE  Shows(phone'.messages, desktop'.entries[a], a, app'[a])
  <2>1. Shows(phone.messages, desktop.entries[a], a, app[a])
    BY <1>1 DEF MenusInv, Follows
  <2>2. QED
    BY <1>1, <2>1 DEF Shows
<1>2. Follows'
  BY <1>1 DEF Follows
<1>3. QED
  BY <1>2 DEF MenusInv

\* What the invariant says of one application.
LEMMA ListTypes ==
  ASSUME MenusInv
  PROVE  /\ listed \in SUBSET App /\ forgotten \subseteq listed
         /\ app \in [App -> Application]
         /\ \A a \in App \ listed : app[a] = Stopped
         /\ \A a \in App : Running(a) => a \in listed
         /\ \A a \in App : HasItems(app[a]) => a \in listed
         /\ phone \in PhoneRecord /\ WellFormed(desktop, listed)
         /\ IndInv
<1>1. /\ listed \in SUBSET App /\ forgotten \subseteq listed
      /\ app \in [App -> Application]
      /\ \A a \in App \ listed : app[a] = Stopped
  BY DEF MenusInv, IndInv, TypeOK, Known
<1>2. Stopped.proxy = 0 /\ Stopped.cancellable = 0
  BY DEF Stopped
<1>3. \A a \in App : Running(a) => a \in listed
  BY <1>1, <1>2 DEF Running
<1>4. \A a \in App : HasItems(app[a]) => a \in listed
  BY <1>1, StoppedIsEmpty
<1>5. QED
  BY <1>1, <1>3, <1>4 DEF MenusInv

(***************************************************************************)
(* An application that registers starts without items, unless it has a     *)
(* remote of the same name, whose items stay in the menus.                 *)
(***************************************************************************)
LEMMA FollowRegister ==
  ASSUME MenusInv, IndInv', NEW a \in App, NEW c \in Conn, MenusRegister(a, c)
  PROVE  MenusInv'
<1> DEFINE keep == KeepsRemote(a, c)
           z == [(IF keep THEN app[a] ELSE Stopped) EXCEPT !.cancellable = Len(request) + 1]
<1>1. /\ listed' = listed \cup {a} /\ app' = [app EXCEPT ![a] = z]
      /\ Remembered({})
  BY DEF MenusRegister, Register, ListAdd, SetRemote
<1>2. \/ a \notin listed /\ APP_ADDED(a)
      \/ a \in listed /\ keep /\ UNCHANGED menus
      \/ a \in listed /\ ~keep /\ APP_STOPPED(a)
  BY DEF MenusRegister
<1>3. /\ listed \in SUBSET App /\ phone \in PhoneRecord /\ WellFormed(desktop, listed)
      /\ app \in [App -> Application] /\ \A b \in App \ listed : app[b] = Stopped
  BY ListTypes
<1>4. app'[a] = z /\ \A b \in App \ {a} : app'[b] = app[b]
  BY <1>1, <1>3
<1>5. ~HasItems(Stopped)
  BY StoppedIsEmpty
<1>6. ~keep \/ app[a] = Stopped => ~HasItems(z)
  BY <1>5 DEF HasItems, Stopped
<1>7. keep => z.messages = app[a].messages /\ z.sources = app[a].sources
  BY <1>3 DEF Application
<1> HIDE DEF z, keep
<1>8. PICK more \in SUBSET App : more = {}
  OBVIOUS
<1>9. Remembered(more)
  BY <1>1, <1>8
<1>10. \A b \in listed \ forgotten : Shows(phone.messages, desktop.entries[b], b, app[b])
  BY DEF MenusInv, Follows
<1>11. CASE a \notin listed /\ APP_ADDED(a)
  <2>1. PICK mailer \in BOOLEAN : desktop' = Desktop!AppAdded(desktop, a, mailer)
    BY <1>11 DEF APP_ADDED, Desktop!DesktopAppAdded
  <2>2. phone' = phone
    BY <1>11 DEF APP_ADDED
  <2>3. PICK d : d = desktop
    OBVIOUS
  <2>4. PICK r : r = Desktop!AppAdded(d, a, mailer)
    OBVIOUS
  <2>5. WellFormed(r, listed \cup {a})
    BY <1>3, <1>11, <2>3, <2>4, AppAddedFacts
  <2>6. \A b \in listed : r.entries[b] = d.entries[b]
    <3>1. /\ d \in DesktopRecord /\ Roomy(d) /\ DOMAIN d.entries = listed
      BY <1>3, <2>3, InPlaceRoomy DEF WellFormed, Placed
    <3>2. \A b \in DOMAIN d.entries \ {a} : r.entries[b] = d.entries[b]
      BY <2>4, <3>1, AppAddedTyped
    <3>3. QED
      BY <1>11, <3>1, <3>2
  <2>7. WellFormed(desktop', listed')
    BY <1>1, <2>1, <2>3, <2>4, <2>5
  <2>8. ASSUME NEW b \in listed' \ (forgotten \cup more)
        PROVE  Shows(phone'.messages, desktop'.entries[b], b, app'[b])
    <3>1. CASE b = a
      <4>1. ~HasItems(app'[b])
        BY <1>3, <1>4, <1>6, <1>11, <3>1
      <4>2. QED
        BY <4>1, NothingToShow
    <3>2. CASE b # a
      <4>1. b \in listed \ forgotten /\ app'[b] = app[b]
        BY <1>1, <1>3, <1>4, <1>8, <3>2
      <4>2. desktop'.entries[b] = desktop.entries[b]
        BY <2>1, <2>3, <2>4, <2>6, <4>1
      <4>3. QED
        BY <1>10, <2>2, <4>1, <4>2
    <3>3. QED
      BY <3>1, <3>2
  <2>9. phone' \in PhoneRecord
    BY <1>3, <2>2
  <2>10. QED
    BY <1>9, <2>7, <2>8, <2>9, FollowStep
<1>12. CASE a \in listed /\ keep /\ UNCHANGED menus
  <2>1. listed' = listed /\ phone' = phone /\ desktop' = desktop
    BY <1>1, <1>12 DEF menus
  <2>2. ASSUME NEW b \in listed' \ (forgotten \cup more)
        PROVE  Shows(phone'.messages, desktop'.entries[b], b, app'[b])
    <3>1. Shows(phone.messages, desktop.entries[b], b, app[b])
      BY <1>10, <2>1
    <3>2. app'[b].messages = app[b].messages /\ app'[b].sources = app[b].sources
      BY <1>3, <1>4, <1>7, <1>12, <2>1
    <3>3. QED
      BY <2>1, <3>1, <3>2 DEF Shows
  <2>3. phone' \in PhoneRecord /\ WellFormed(desktop', listed')
    BY <1>3, <2>1
  <2>4. QED
    BY <1>9, <2>2, <2>3, FollowStep
<1>13. CASE a \in listed /\ ~keep /\ APP_STOPPED(a)
  <2>1. listed' = listed
    BY <1>1, <1>13
  <2>2. PICK L \in SUBSET App : L = listed
    BY <1>3
  <2>3. /\ phone' \in PhoneRecord /\ WellFormed(desktop', L)
        /\ \A b \in L \ {a} : desktop'.entries[b] = desktop.entries[b]
        /\ \A b \in L \ {a}, m \in Message :
             MessageEntry(phone.messages, b, m) => MessageEntry(phone'.messages, b, m)
    BY <1>3, <1>13, <2>2, StoppedFacts
  <2>4. ~HasItems(z)
    BY <1>6, <1>13
  <2>5. Shows(phone'.messages, desktop'.entries[a], a, z)
    BY <2>4, NothingToShow
  <2>6. QED
    BY <1>1, <1>13, <2>1, <2>2, <2>3, <2>5, FollowEdit
<1>14. QED
  BY <1>2, <1>11, <1>12, <1>13

\* UnregisterApplication withdraws what the record goes on having.
LEMMA FollowUnregister ==
  ASSUME MenusInv, IndInv', NEW a \in App, MenusUnregister(a)
  PROVE  MenusInv'
<1>1. /\ listed' = listed /\ app' = app /\ StoppedIfRunning(a)
      /\ Remembered(IF Running(a) THEN {a} ELSE {})
  BY DEF MenusUnregister, Unregister, ListRemove
<1>2. PICK more \in SUBSET App : more = IF Running(a) THEN {a} ELSE {}
  OBVIOUS
<1>3. Remembered(more)
  BY <1>1, <1>2
<1>4. /\ listed \in SUBSET App /\ phone \in PhoneRecord /\ WellFormed(desktop, listed)
      /\ Running(a) => a \in listed
  BY ListTypes
<1>5. \A b \in listed \ forgotten : Shows(phone.messages, desktop.entries[b], b, app[b])
  BY DEF MenusInv, Follows
<1>6. CASE Running(a)
  <2>1. PICK L \in SUBSET App : L = listed
    BY <1>4
  <2>2. APP_STOPPED(a) /\ a \in L
    BY <1>1, <1>4, <1>6, <2>1 DEF StoppedIfRunning
  <2>3. /\ phone' \in PhoneRecord /\ WellFormed(desktop', L)
        /\ \A b \in L \ {a} : desktop'.entries[b] = desktop.entries[b]
        /\ \A b \in L \ {a}, m \in Message :
             MessageEntry(phone.messages, b, m) => MessageEntry(phone'.messages, b, m)
    BY <1>4, <2>1, <2>2, StoppedFacts
  <2>4. ASSUME NEW b \in listed' \ (forgotten \cup more)
        PROVE  Shows(phone'.messages, desktop'.entries[b], b, app'[b])
    <3>1. b \in L \ {a} /\ b \in listed \ forgotten
      BY <1>1, <1>2, <1>6, <2>1
    <3>2. Shows(phone.messages, desktop.entries[b], b, app[b])
      BY <1>5, <3>1
    <3>3. QED
      BY <1>1, <2>3, <3>1, <3>2, GoesOnShowing
  <2>5. WellFormed(desktop', listed')
    BY <1>1, <2>1, <2>3
  <2>6. QED
    BY <1>3, <2>3, <2>4, <2>5, FollowStep
<1>7. CASE ~Running(a)
  <2>1. phone' = phone /\ desktop' = desktop
    BY <1>1, <1>7 DEF StoppedIfRunning, menus
  <2>2. ASSUME NEW b \in listed' \ (forgotten \cup more)
        PROVE  Shows(phone'.messages, desktop'.entries[b], b, app'[b])
    BY <1>1, <1>5, <2>1
  <2>3. phone' \in PhoneRecord /\ WellFormed(desktop', listed')
    BY <1>1, <1>4, <2>1
  <2>4. QED
    BY <1>3, <2>2, <2>3, FollowStep
<1>8. QED
  BY <1>6, <1>7

\* An application that stops has no items any more.
LEMMA FollowStopped ==
  ASSUME MenusInv, IndInv', NEW a \in listed, UnsetRemote(a), listed' = listed,
         StoppedIfRunning(a), Remembered({})
  PROVE  MenusInv'
<1>1. app' = [app EXCEPT ![a] = Stopped]
  BY DEF UnsetRemote
<1>2. PICK L \in SUBSET App : L = listed
  BY ListTypes
<1>3. phone \in PhoneRecord /\ WellFormed(desktop, L) /\ a \in L
  BY <1>2, ListTypes
<1>4. Shows(phone'.messages, desktop'.entries[a], a, Stopped)
  BY NothingToShow, StoppedIsEmpty
<1>5. CASE Running(a)
  <2>1. APP_STOPPED(a)
    BY <1>5 DEF StoppedIfRunning
  <2>2. /\ phone' \in PhoneRecord /\ WellFormed(desktop', L)
        /\ \A b \in L \ {a} : desktop'.entries[b] = desktop.entries[b]
        /\ \A b \in L \ {a}, m \in Message :
             MessageEntry(phone.messages, b, m) => MessageEntry(phone'.messages, b, m)
    BY <1>3, <2>1, StoppedFacts
  <2>3. QED
    BY <1>1, <1>2, <1>4, <2>2, FollowEdit
<1>6. CASE ~Running(a)
  <2>1. phone' = phone /\ desktop' = desktop
    BY <1>6 DEF StoppedIfRunning, menus
  <2>2. QED
    BY <1>1, <1>2, <1>3, <1>4, <2>1, FollowEdit
<1>7. QED
  BY <1>5, <1>6

\* Sources that are added, by a reply or a signal.
LEMMA FollowSources ==
  ASSUME MenusInv, IndInv', NEW a \in listed, NEW items, NEW order \in SourceOrder,
         app' = [app EXCEPT ![a] = AddSources(@, items)], listed' = listed,
         SOURCES_ADDED(a, items, order), Remembered({})
  PROVE  MenusInv'
<1>1. PICK L \in SUBSET App : L = listed
  BY ListTypes
<1>2. order \in Seq(Source)
  BY OrderTypes
<1>3. WellFormed(desktop, L) /\ a \in L /\ phone \in PhoneRecord /\ app \in [App -> Application]
  BY <1>1, ListTypes
<1>4. /\ WellFormed(desktop', L)
      /\ \A b \in L : \A s : Has(desktop.entries[b], s) => Has(desktop'.entries[b], s)
      /\ \A s \in DOMAIN items : items[s] # "hidden" => Has(desktop'.entries[a], s)
  BY <1>2, <1>3, SourcesAddedFacts
<1>5. phone' = phone
  BY DEF SOURCES_ADDED
<1>6. PICK y : y = AddSources(app[a], items)
  OBVIOUS
<1>7. /\ y.messages = app[a].messages
      /\ \A s \in Source : y.sources[s] = IF s \in DOMAIN items THEN items[s]
                                          ELSE app[a].sources[s]
  BY <1>1, <1>3, <1>6 DEF AddSources, Application
<1>8. Shows(phone.messages, desktop.entries[a], a, app[a]) =>
        Shows(phone'.messages, desktop'.entries[a], a, y)
  BY <1>3, <1>4, <1>5, <1>7 DEF Shows
<1>9. app' = [app EXCEPT ![a] = y]
  BY <1>6
<1>10. QED
  BY <1>1, <1>3, <1>4, <1>5, <1>8, <1>9, FollowEdit

\* Messages that are added, by a reply or a signal.
LEMMA FollowMessages ==
  ASSUME MenusInv, IndInv', NEW a \in listed, NEW items,
         NEW order \in Seq([id : Message, time : Time]),
         app' = [app EXCEPT ![a] = AddMessages(@, items)], listed' = listed,
         MESSAGES_ADDED(a, items, order), Remembered({})
  PROVE  MenusInv'
<1>1. PICK L \in SUBSET App : L = listed
  BY ListTypes
<1>2. WellFormed(desktop, L) /\ a \in L /\ phone \in PhoneRecord /\ app \in [App -> Application]
  BY <1>1, ListTypes
<1>3. /\ phone' \in PhoneRecord
      /\ \A b, n : MessageEntry(phone.messages, b, n) => MessageEntry(phone'.messages, b, n)
      /\ \A m \in DOMAIN items : MessageEntry(phone'.messages, a, m)
  BY <1>1, <1>2, MessagesAddedFacts
<1>4. desktop' = desktop
  BY DEF MESSAGES_ADDED
<1>5. PICK y : y = AddMessages(app[a], items)
  OBVIOUS
<1>6. /\ y.sources = app[a].sources
      /\ \A m \in Message : y.messages[m] = IF m \in DOMAIN items THEN items[m]
                                            ELSE app[a].messages[m]
  BY <1>1, <1>2, <1>5 DEF AddMessages, Application
<1>7. Shows(phone.messages, desktop.entries[a], a, app[a]) =>
        Shows(phone'.messages, desktop'.entries[a], a, y)
  BY <1>3, <1>4, <1>6 DEF Shows
<1>8. app' = [app EXCEPT ![a] = y]
  BY <1>5
<1>9. QED
  BY <1>1, <1>2, <1>3, <1>4, <1>7, <1>8, FollowEdit

\* A source that is removed, by a signal or by the user.
LEMMA FollowSourceGone ==
  ASSUME MenusInv, IndInv', NEW a \in listed, NEW s \in Source,
         app' = [app EXCEPT ![a] = RemoveSource(app[a], s)], listed' = listed,
         SOURCE_REMOVED(a, s), Remembered({})
  PROVE  MenusInv'
<1>1. PICK L \in SUBSET App : L = listed
  BY ListTypes
<1>2. WellFormed(desktop, L) /\ a \in L /\ phone \in PhoneRecord /\ app \in [App -> Application]
  BY <1>1, ListTypes
<1>3. /\ WellFormed(desktop', L)
      /\ \A b \in L : \A t : /\ b # a \/ t # s
                         /\ Has(desktop.entries[b], t)
                         => Has(desktop'.entries[b], t)
  BY <1>2, SourceRemovedFacts
<1>4. phone' = phone
  BY DEF SOURCE_REMOVED
<1>5. PICK y : y = RemoveSource(app[a], s)
  OBVIOUS
<1>6. /\ y.messages = app[a].messages
      /\ \A t \in Source : y.sources[t] = IF t = s THEN "absent" ELSE app[a].sources[t]
  BY <1>1, <1>2, <1>5 DEF RemoveSource, Recomputed, Application
<1>7. Shows(phone.messages, desktop.entries[a], a, app[a]) =>
        Shows(phone'.messages, desktop'.entries[a], a, y)
  BY <1>3, <1>2, <1>4, <1>6 DEF Shows
<1>8. app' = [app EXCEPT ![a] = y]
  BY <1>5
<1>9. QED
  BY <1>1, <1>2, <1>3, <1>4, <1>7, <1>8, FollowEdit

\* A source that changes; nothing happens to one that is absent.
LEMMA FollowSourceChanged ==
  ASSUME MenusInv, IndInv', NEW a \in listed, NEW s \in Source, NEW v,
         app' = [app EXCEPT ![a] = ChangeSource(app[a], s, v)], listed' = listed,
         SOURCE_CHANGED(a, s, v), Remembered({})
  PROVE  MenusInv'
<1>1. PICK L \in SUBSET App : L = listed
  BY ListTypes
<1>2. WellFormed(desktop, L) /\ a \in L /\ phone \in PhoneRecord /\ app \in [App -> Application]
  BY <1>1, ListTypes
<1>3. /\ WellFormed(desktop', L)
      /\ \A b \in L : \A t : /\ b # a \/ t # s
                         /\ Has(desktop.entries[b], t)
                         => Has(desktop'.entries[b], t)
      /\ v # "hidden" => Has(desktop'.entries[a], s)
  BY <1>2, SourceChangedFacts
<1>4. phone' = phone
  BY DEF SOURCE_CHANGED
<1>5. PICK y : y = ChangeSource(app[a], s, v)
  OBVIOUS
<1>6. /\ y.messages = app[a].messages
      /\ \A t \in Source : y.sources[t] = IF t = s /\ app[a].sources[t] # "absent" THEN v
                                          ELSE app[a].sources[t]
  BY <1>1, <1>2, <1>5 DEF ChangeSource, Recomputed, Application
<1>7. Shows(phone.messages, desktop.entries[a], a, app[a]) =>
        Shows(phone'.messages, desktop'.entries[a], a, y)
  BY <1>3, <1>2, <1>4, <1>6 DEF Shows
<1>8. app' = [app EXCEPT ![a] = y]
  BY <1>5
<1>9. QED
  BY <1>1, <1>2, <1>3, <1>4, <1>7, <1>8, FollowEdit

\* A message that is removed, by a signal or by the user.
LEMMA FollowMessageGone ==
  ASSUME MenusInv, IndInv', NEW a \in listed, NEW m \in Message,
         app' = [app EXCEPT ![a] = RemoveMessage(app[a], m)], listed' = listed,
         MESSAGE_REMOVED(a, m), Remembered({})
  PROVE  MenusInv'
<1>1. PICK L \in SUBSET App : L = listed
  BY ListTypes
<1>2. WellFormed(desktop, L) /\ a \in L /\ phone \in PhoneRecord /\ app \in [App -> Application]
  BY <1>1, ListTypes
<1>3. /\ phone' \in PhoneRecord
      /\ \A b, n : /\ b # a \/ n # m
                   /\ MessageEntry(phone.messages, b, n)
                   => MessageEntry(phone'.messages, b, n)
  BY <1>2, MessageRemovedFacts
<1>4. desktop' = desktop
  BY DEF MESSAGE_REMOVED
<1>5. PICK y : y = RemoveMessage(app[a], m)
  OBVIOUS
<1>6. /\ y.sources = app[a].sources
      /\ \A n \in Message : y.messages[n] = IF n = m THEN "absent" ELSE app[a].messages[n]
  BY <1>1, <1>2, <1>5 DEF RemoveMessage, Recomputed, Application
<1>7. Shows(phone.messages, desktop.entries[a], a, app[a]) =>
        Shows(phone'.messages, desktop'.entries[a], a, y)
  BY <1>3, <1>2, <1>4, <1>6 DEF Shows
<1>8. app' = [app EXCEPT ![a] = y]
  BY <1>5
<1>9. QED
  BY <1>1, <1>2, <1>3, <1>4, <1>7, <1>8, FollowEdit

\* "Clear" empties both menus, and no listed application keeps an item.
LEMMA FollowRemoveAll ==
  ASSUME MenusInv, IndInv', MenusRemoveAll
  PROVE  MenusInv'
<1>1. /\ app' = [a \in App |-> IF a \in listed THEN ClearItems(app[a]) ELSE app[a]]
      /\ listed' = listed /\ Remembered({}) /\ REMOVE_ALL
  BY DEF MenusRemoveAll, RemoveAll
<1>2. PICK L \in SUBSET App : L = listed
  BY ListTypes
<1>3. WellFormed(desktop, L) /\ phone \in PhoneRecord /\ app \in [App -> Application]
  BY <1>2, ListTypes
<1>4. PICK ms \in PhoneSection : ms = << >>
  <2>1. PICK e : e = << >>
    OBVIOUS
  <2>2. e \in Seq(Phone!Entry) /\ DOMAIN e = {}
    BY <2>1, EmptySeq
  <2>3. Descending(e)
    BY <2>2 DEF Descending
  <2>4. QED
    BY <2>1, <2>2, <2>3 DEF PhoneSection
<1>5. phone' = Phone!UpdateClear(ms)
  BY <1>1, <1>4 DEF REMOVE_ALL, Phone!ClearPhone
<1>6. phone' \in PhoneRecord
  BY <1>3, <1>5, UpdateClearFacts
<1>7. desktop' = [desktop EXCEPT !.entries = [a \in DOMAIN @ |-> << >>]]
  BY <1>1 DEF REMOVE_ALL, Desktop!ClearDesktop
<1>8. WellFormed(desktop', L)
  <2>1. PICK d : d = desktop
    OBVIOUS
  <2>2. WellFormed([d EXCEPT !.entries = [a \in DOMAIN @ |-> << >>]], L)
    BY <1>3, <2>1, ClearedFacts
  <2>3. QED
    BY <1>7, <2>1, <2>2
<1>9. PICK more \in SUBSET App : more = {}
  OBVIOUS
<1>10. Remembered(more)
  BY <1>1, <1>9
<1>11. ASSUME NEW b \in listed' \ (forgotten \cup more)
       PROVE  Shows(phone'.messages, desktop'.entries[b], b, app'[b])
  <2>1. b \in App /\ app[b] \in Application /\ app'[b] = ClearItems(app[b])
    BY <1>1, <1>2, <1>3
  <2>2. ~HasItems(app'[b])
    BY <2>1, ClearItemsFacts
  <2>3. QED
    BY <2>2, NothingToShow
<1>12. WellFormed(desktop', listed')
  BY <1>1, <1>2, <1>8
<1>13. QED
  BY <1>6, <1>10, <1>11, <1>12, FollowStep

\* The phone menu of a new process.
LEMMA EmptyPhoneFacts ==
  Phone!EmptyPhone \in PhoneRecord /\ Phone!EmptyPhone.messages = << >>
<1>1. PICK e : e = << >>
  OBVIOUS
<1>2. e \in Seq(Phone!Entry) /\ DOMAIN e = {}
  BY <1>1, EmptySeq
<1>3. e \in PhoneSection
  BY <1>2 DEF Descending, PhoneSection
<1>4. Phone!EmptyPhone = [messages |-> e, clear |-> FALSE, dead |-> FALSE]
  BY <1>1 DEF Phone!EmptyPhone
<1>5. QED
  BY <1>1, <1>3, <1>4 DEF PhoneRecord

\* A process that starts shows the stored applications, all without items.
LEMMA FollowRestart ==
  ASSUME MenusInv, IndInv', MenusRestart
  PROVE  MenusInv'
<1>1. /\ listed' = stored /\ app' = [a \in App |-> Stopped]
      /\ phone' = Phone!EmptyPhone /\ forgotten' = {}
  BY DEF MenusRestart, Restart, MenusStart
<1>2. PICK L \in SUBSET App : L = stored
  BY DEF MenusInv, IndInv, TypeOK
<1>3. \E order \in SetToSeqs(stored) : \E mailers \in {{}} \cup {{a} : a \in stored} :
        desktop' = Desktop!Constructed(order, mailers)
  BY DEF MenusRestart, MenusStart
<1>4. PICK order \in SetToSeqs(L) :
        \E mailers \in {{}} \cup {{a} : a \in L} : desktop' = Desktop!Constructed(order, mailers)
  BY <1>2, <1>3
<1>5. PICK mailers : desktop' = Desktop!Constructed(order, mailers)
  BY <1>4
<1>6. WellFormed(Desktop!Constructed(order, mailers), L)
  BY ConstructedFacts
<1>7. WellFormed(desktop', listed')
  BY <1>1, <1>2, <1>5, <1>6
<1>8. phone' \in PhoneRecord
  BY <1>1, EmptyPhoneFacts
<1>9. ASSUME NEW b \in listed' \ forgotten'
      PROVE  Shows(phone'.messages, desktop'.entries[b], b, app'[b])
  <2>1. app'[b] = Stopped
    BY <1>1, <1>2
  <2>2. ~HasItems(app'[b])
    BY <2>1, StoppedIsEmpty
  <2>3. QED
    BY <2>2, NothingToShow
<1>10. Follows'
  BY <1>9 DEF Follows
<1>11. forgotten' \subseteq listed'
  BY <1>1
<1>12. QED
  BY <1>7, <1>8, <1>10, <1>11 DEF MenusInv

\* So does the first process.
LEMMA FollowInit == MenusInit => MenusInv
<1> SUFFICES ASSUME MenusInit PROVE MenusInv
  OBVIOUS
<1>1. /\ IndInv /\ phone = Phone!EmptyPhone /\ forgotten = {}
      /\ app = [a \in App |-> Stopped] /\ listed \in SUBSET App
  BY InvInit DEF MenusInit, Phone!PhoneInit, Init, Start
<1>2. PICK L \in SUBSET App : L = listed
  BY <1>1
<1>3. \E order \in SetToSeqs(listed) : \E mailers \in {{}} \cup {{a} : a \in listed} :
        desktop = Desktop!Constructed(order, mailers)
  BY DEF MenusInit
<1>4. PICK order \in SetToSeqs(L) :
        \E mailers \in {{}} \cup {{a} : a \in L} : desktop = Desktop!Constructed(order, mailers)
  BY <1>2, <1>3
<1>5. PICK mailers : desktop = Desktop!Constructed(order, mailers)
  BY <1>4
<1>6. WellFormed(Desktop!Constructed(order, mailers), L)
  BY ConstructedFacts
<1>7. WellFormed(desktop, listed) /\ phone \in PhoneRecord
  BY <1>1, <1>2, <1>5, <1>6, EmptyPhoneFacts
<1>8. ASSUME NEW b \in listed \ forgotten
      PROVE  Shows(phone.messages, desktop.entries[b], b, app[b])
  <2>1. ~HasItems(app[b])
    BY <1>1, StoppedIsEmpty
  <2>2. QED
    BY <2>1, NothingToShow
<1>9. Follows
  BY <1>8 DEF Follows
<1>10. QED
  BY <1>1, <1>7, <1>9 DEF MenusInv

\* Steps without a signal change no item.
LEMMA FollowUnsignalled ==
  ASSUME MenusInv, IndInv', Unsignalled
  PROVE  MenusInv'
<1>1. UNCHANGED <<phone, desktop>> /\ forgotten' = forgotten
  BY DEF Unsignalled
<1>2. listed \in SUBSET App /\ app \in [App -> Application]
  BY ListTypes
<1>3. CASE \E k \in Requests : ProxyCreated(k)
  <2>1. PICK k \in Requests : ProxyCreated(k)
    BY <1>3
  <2>2. listed' = listed
    BY <2>1 DEF ProxyCreated
  <2>3. PICK a \in App : a = Requester(k)
    BY RequestType DEF MenusInv, IndInv
  <2>6. \/ app' = [app EXCEPT ![a].proxy = 0]
        \/ app' = [app EXCEPT ![a].proxy = k, ![a].launch = TRUE]
    BY <2>1, <2>3 DEF ProxyCreated, CreationCancelled, Connected
  <2>4. ASSUME NEW b \in listed
        PROVE  app'[b].messages = app[b].messages /\ app'[b].sources = app[b].sources
    <3>1. app[b] \in Application /\ b \in App
      BY <1>2
    <3>2. CASE app' = [app EXCEPT ![a].proxy = 0]
      BY <1>2, <3>1, <3>2 DEF Application
    <3>3. CASE app' = [app EXCEPT ![a].proxy = k, ![a].launch = TRUE]
      BY <1>2, <3>1, <3>3 DEF Application
    <3>4. QED
      BY <2>6, <3>2, <3>3
  <2>5. QED
    BY <1>1, <2>2, <2>4, FollowIdle
<1>4. CASE ~ \E k \in Requests : ProxyCreated(k)
  <2>1. listed' = listed /\ app' = app
    BY <1>4 DEF Unsignalled, ListCrashed, ListFailed, Completes, Disconnect
  <2>2. QED
    BY <1>1, <2>1, FollowIdle
<1>5. QED
  BY <1>3, <1>4

\* What is pending, watched or live belongs to a listed application.
LEMMA RequesterListed ==
  ASSUME IndInv, NEW k \in Requests, NEW kind,
         Listing(kind, k) \/ Live(k) \/ k \in watch
  PROVE  Requester(k) \in listed
<1>1. CASE Live(k)
  BY <1>1, LiveIsListed
<1>2. CASE k \in watch
  BY <1>2 DEF IndInv, Known
<1>3. CASE Listing(kind, k)
  <2>1. PICK i \in DOMAIN pending : pending[i].req = k
    BY <1>3 DEF Listing, Due
  <2>2. QED
    BY <2>1 DEF IndInv, Known
<1>4. QED
  BY <1>1, <1>2, <1>3

\* The signals of the clients.
LEMMA FollowSignal ==
  ASSUME MenusInv, IndInv', MenusSignal
  PROVE  MenusInv'
<1>1. PICK k \in Requests :
        \/ \E s \in Source : \/ \E v \in SourceState \ {"absent", "drawing"} :
                                  MenusSourceAdded(k, s, v) \/ MenusSourceChanged(k, s, v)
                             \/ MenusSourceRemoved(k, s)
        \/ \E m \in Message : \/ \E t \in Time : MenusMessageAdded(k, m, "quiet", t)
                              \/ MenusMessageRemoved(k, m)
  BY DEF MenusSignal
<1>2. IndInv
  BY DEF MenusInv
<1>3. Live(k)
  BY <1>1 DEF MenusSourceAdded, MenusSourceChanged, MenusSourceRemoved,
              MenusMessageAdded, MenusMessageRemoved, SourceAdded, SourceChanged,
              SourceRemoved, MessageAdded, MessageRemoved, Signal
<1>4. PICK a \in listed : a = Requester(k)
  BY <1>2, <1>3, LiveIsListed
<1>5. ASSUME NEW s \in Source, NEW v, MenusSourceAdded(k, s, v)
      PROVE  MenusInv'
  <2>1. PICK items : items = [t \in {s} |-> v]
    OBVIOUS
  <2>2. PICK order \in SourceOrder : SOURCES_ADDED(a, items, order)
    BY <1>4, <1>5, <2>1 DEF MenusSourceAdded
  <2>3. /\ app' = [app EXCEPT ![a] = AddSources(app[a], items)]
        /\ listed' = listed /\ Remembered({})
    BY <1>4, <1>5, <2>1 DEF MenusSourceAdded, SourceAdded, Update
  <2>4. QED
    BY <2>2, <2>3, FollowSources
<1>6. ASSUME NEW s \in Source, NEW v, MenusSourceChanged(k, s, v)
      PROVE  MenusInv'
  <2>1. /\ app' = [app EXCEPT ![a] = ChangeSource(app[a], s, v)]
        /\ listed' = listed /\ Remembered({}) /\ SOURCE_CHANGED(a, s, v)
    BY <1>4, <1>6 DEF MenusSourceChanged, SourceChanged, Update
  <2>2. QED
    BY <2>1, FollowSourceChanged
<1>7. ASSUME NEW s \in Source, MenusSourceRemoved(k, s)
      PROVE  MenusInv'
  <2>1. /\ app' = [app EXCEPT ![a] = RemoveSource(app[a], s)]
        /\ listed' = listed /\ Remembered({}) /\ SOURCE_REMOVED(a, s)
    BY <1>4, <1>7 DEF MenusSourceRemoved, SourceRemoved, Update
  <2>2. QED
    BY <2>1, FollowSourceGone
<1>8. ASSUME NEW m \in Message, NEW t \in Time, MenusMessageAdded(k, m, "quiet", t)
      PROVE  MenusInv'
  <2>1. PICK items : items = [n \in {m} |-> "quiet"]
    OBVIOUS
  <2>2. PICK order \in Seq([id : Message, time : Time]) : order = <<[id |-> m, time |-> t]>>
    <3>1. PICK T : T = [id : Message, time : Time]
      OBVIOUS
    <3>2. PICK x \in T : x = [id |-> m, time |-> t]
      BY <3>1
    <3>3. <<x>> \in Seq(T)
      OBVIOUS
    <3>4. QED
      BY <3>1, <3>2, <3>3
  <2>3. MESSAGES_ADDED(a, items, order)
    BY <1>4, <1>8, <2>1, <2>2 DEF MenusMessageAdded
  <2>4. /\ app' = [app EXCEPT ![a] = AddMessages(@, items)]
        /\ listed' = listed /\ Remembered({})
    BY <1>4, <1>8, <2>1 DEF MenusMessageAdded, MessageAdded
  <2>5. QED
    BY <2>3, <2>4, FollowMessages
<1>9. ASSUME NEW m \in Message, MenusMessageRemoved(k, m)
      PROVE  MenusInv'
  <2>1. /\ app' = [app EXCEPT ![a] = RemoveMessage(app[a], m)]
        /\ listed' = listed /\ Remembered({}) /\ MESSAGE_REMOVED(a, m)
    BY <1>4, <1>9 DEF MenusMessageRemoved, MessageRemoved, Update
  <2>2. QED
    BY <2>1, FollowMessageGone
<1>10. QED
  BY <1>1, <1>5, <1>6, <1>7, <1>8, <1>9

\* The actions of the user.
LEMMA FollowUser ==
  ASSUME MenusInv, IndInv', MenusUser
  PROVE  MenusInv'
<1>1. ASSUME NEW a \in App, NEW s \in Source, MenusSourceActivated(a, s)
      PROVE  MenusInv'
  <2>1. HasItems(app[a])
    BY <1>1 DEF MenusSourceActivated, SourceActivated, HasItems
  <2>2. a \in listed
    BY <2>1, ListTypes
  <2>3. /\ app' = [app EXCEPT ![a] = RemoveSource(app[a], s)]
        /\ listed' = listed /\ Remembered({}) /\ SOURCE_REMOVED(a, s)
    BY <1>1 DEF MenusSourceActivated, SourceActivated, Update
  <2>4. QED
    BY <2>2, <2>3, FollowSourceGone
<1>2. ASSUME NEW a \in App, NEW m \in Message, MenusMessageActivated(a, m)
      PROVE  MenusInv'
  <2>1. HasItems(app[a])
    BY <1>2 DEF MenusMessageActivated, MessageActivated, HasItems
  <2>2. a \in listed
    BY <2>1, ListTypes
  <2>3. /\ app' = [app EXCEPT ![a] = RemoveMessage(app[a], m)]
        /\ listed' = listed /\ Remembered({}) /\ MESSAGE_REMOVED(a, m)
    BY <1>2 DEF MenusMessageActivated, MessageActivated, Update
  <2>4. QED
    BY <2>2, <2>3, FollowMessageGone
<1>3. QED
  BY <1>1, <1>2, FollowRemoveAll DEF MenusUser

\* The callbacks that send a signal.
LEMMA FollowCallback ==
  ASSUME MenusInv, IndInv', NEW k \in Requests,
         MenusVanished(k) \/ MenusSourcesListed(k) \/ MenusMessagesListed(k)
  PROVE  MenusInv'
<1>1. IndInv
  BY DEF MenusInv
<1>2. CASE MenusVanished(k)
  <2>1. /\ k \in watch /\ UnsetRemote(Requester(k)) /\ listed' = listed
        /\ StoppedIfRunning(Requester(k)) /\ Remembered({})
    BY <1>2 DEF MenusVanished, Vanished
  <2>2. Requester(k) \in listed
    BY <1>1, <2>1, RequesterListed
  <2>3. PICK a \in listed : a = Requester(k)
    BY <2>2
  <2>4. QED
    BY <2>1, <2>3, FollowStopped
<1>3. CASE MenusSourcesListed(k)
  <2>1. PICK items \in Calmly(SourceReply), order \in SourceOrder :
          /\ SourcesListed(k, items)
          /\ SOURCES_ADDED(Requester(k), items, order)
          /\ Remembered({})
    BY <1>3 DEF MenusSourcesListed
  <2>2. Requester(k) \in listed
    BY <1>1, <2>1, RequesterListed DEF SourcesListed, Completes
  <2>3. PICK a \in listed : a = Requester(k)
    BY <2>2
  <2>4. app' = [app EXCEPT ![a] = AddSources(@, items)] /\ listed' = listed
    BY <2>1, <2>3 DEF SourcesListed, Completes
  <2>5. SOURCES_ADDED(a, items, order)
    BY <2>1, <2>3
  <2>6. QED
    BY <2>1, <2>4, <2>5, FollowSources
<1>4. CASE MenusMessagesListed(k)
  <2>1. PICK items \in Calmly(MessageReply), order \in MessageOrder :
          /\ MessagesListed(k, items)
          /\ MESSAGES_ADDED(Requester(k), items, order)
          /\ Remembered({})
    BY <1>4 DEF MenusMessagesListed
  <2>2. Requester(k) \in listed
    BY <1>1, <2>1, RequesterListed DEF MessagesListed, Completes
  <2>3. PICK a \in listed : a = Requester(k)
    BY <2>2
  <2>4. app' = [app EXCEPT ![a] = AddMessages(@, items)] /\ listed' = listed
    BY <2>1, <2>3 DEF MessagesListed, Completes
  <2>5. MESSAGES_ADDED(a, items, order) /\ order \in Seq([id : Message, time : Time])
    BY <2>1, <2>3, OrderTypes
  <2>6. QED
    BY <2>1, <2>4, <2>5, FollowMessages
<1>5. QED
  BY <1>2, <1>3, <1>4

\* Each step of the list and its menus preserves the invariant.
LEMMA FollowNext == MenusInv /\ [MenusNext]_menusVars => MenusInv'
<1> SUFFICES ASSUME MenusInv, [MenusNext]_menusVars PROVE MenusInv'
  OBVIOUS
<1>1. IndInv /\ IndInv'
  BY ListStep DEF MenusInv
<1>2. CASE UNCHANGED menusVars
  <2>1. UNCHANGED <<phone, desktop>> /\ forgotten' = forgotten /\ listed' = listed /\ app' = app
    BY <1>2 DEF menusVars, vars
  <2>2. QED
    BY <1>1, <2>1, FollowIdle
<1>3. ASSUME NEW a \in App, NEW c \in Conn, MenusRegister(a, c) PROVE MenusInv'
  BY <1>1, <1>3, FollowRegister
<1>4. ASSUME NEW a \in App, MenusUnregister(a) PROVE MenusInv'
  BY <1>1, <1>4, FollowUnregister
<1>5. ASSUME NEW a \in App, MenusApplicationStopped(a) PROVE MenusInv'
  <2>1. /\ a \in listed /\ UnsetRemote(a) /\ listed' = listed
        /\ StoppedIfRunning(a) /\ Remembered({})
    BY <1>5 DEF MenusApplicationStopped, ApplicationStopped
  <2>2. QED
    BY <1>1, <2>1, FollowStopped
<1>6. ASSUME NEW k \in Requests,
             MenusVanished(k) \/ MenusSourcesListed(k) \/ MenusMessagesListed(k)
      PROVE  MenusInv'
  BY <1>1, <1>6, FollowCallback
<1>7. QED
  BY <1>1, <1>2, <1>3, <1>4, <1>5, <1>6, FollowSignal, FollowUser, FollowUnsignalled,
     FollowRestart DEF MenusNext

-----------------------------------------------------------------------------
(***************************************************************************)
(* The invariant holds in every reachable state, for any sets of           *)
(* applications, items and times, any collation of the names and any       *)
(* number of entries and registrations.                                    *)
(***************************************************************************)
THEOREM MenusInductive == MenusSpec => []MenusInv
BY FollowInit, FollowNext, PTL DEF MenusSpec

\* The menus are always well-formed: MenusTypeOK is an invariant.
THEOREM MenusTypeCorrect == MenusSpec => []MenusTypeOK
<1>1. MenusInv => MenusTypeOK
  <2> SUFFICES ASSUME MenusInv PROVE MenusTypeOK
    OBVIOUS
  <2>1. phone \in PhoneRecord /\ desktop \in DesktopRecord /\ forgotten \subseteq listed
    BY DEF MenusInv, WellFormed
  <2>2. Phone!PhoneTypeOK
    BY <2>1 DEF Phone!PhoneTypeOK, PhoneRecord, PhoneSection
  <2>3. Desktop!DesktopTypeOK
    <3>1. PICK D \in SUBSET App : desktop.entries \in [D -> Seq(Source)]
      BY <2>1 DEF DesktopRecord
    <3>2. QED
      BY <2>1, <3>1 DEF Desktop!DesktopTypeOK, DesktopRecord, SectionName
  <2>4. QED
    BY <2>1, <2>2, <2>3 DEF MenusTypeOK
<1>2. QED
  BY <1>1, MenusInductive, PTL

(***************************************************************************)
(* The phone menu shows the newest message on top, whatever the order in   *)
(* which messages came and went: an entry is inserted where its time       *)
(* belongs, and removing entries keeps the order of the others.            *)
(***************************************************************************)
THEOREM NewestFirstCorrect == MenusSpec => []NewestFirst
<1>1. MenusInv => NewestFirst
  BY DEF MenusInv, PhoneRecord, PhoneSection, Descending, NewestFirst, Phone!NewestFirst
<1>2. QED
  BY <1>1, MenusInductive, PTL

(***************************************************************************)
(* The sections of the desktop menu are where they belong, in whatever     *)
(* order applications and the chat status entries came.                    *)
(***************************************************************************)
THEOREM SectionsInOrderCorrect == MenusSpec => []SectionsInOrder
<1>1. MenusInv => SectionsInOrder
  <2> SUFFICES ASSUME MenusInv PROVE Desktop!SectionsInOrder
    BY DEF SectionsInOrder
  <2>1. PICK sections : sections = desktop.sections
    OBVIOUS
  <2>2. /\ InPlace(sections, desktop.status) /\ desktop.status \in BOOLEAN
        /\ sections \in Seq(SectionName)
    BY <2>1 DEF MenusInv, WellFormed, DesktopRecord
  <2>3. Len(sections) \in Nat
    BY <2>2, LenProperties
  <2>4. CASE desktop.status
    <3>1. PICK fixed : fixed = <<"status", "chat", "mail">>
      OBVIOUS
    <3>2. /\ DOMAIN fixed = 1..3 /\ Len(fixed) = 3
          /\ fixed[1] = "status" /\ fixed[2] = "chat" /\ fixed[3] = "mail"
      BY <3>1
    <3>3. /\ \A p \in 1..3 : sections[p] = fixed[p]
          /\ \A p \in 4..(Len(sections) - 1) : sections[p] \in App
          /\ sections[Len(sections)] = "clear"
          /\ \A p, q \in 4..(Len(sections) - 1) :
               p < q => /\ sections[p] # sections[q]
                        /\ SortName[sections[p]] <= SortName[sections[q]]
      BY <2>2, <2>3, <2>4, <3>2 DEF InPlace
    <3>4. QED
      BY <2>1, <2>4, <3>1, <3>2, <3>3 DEF Desktop!SectionsInOrder
  <2>5. CASE ~desktop.status
    <3>1. PICK fixed : fixed = <<"chat", "mail">>
      OBVIOUS
    <3>2. /\ DOMAIN fixed = 1..2 /\ Len(fixed) = 2
          /\ fixed[1] = "chat" /\ fixed[2] = "mail"
      BY <3>1
    <3>3. /\ \A p \in 1..2 : sections[p] = fixed[p]
          /\ \A p \in 3..(Len(sections) - 1) : sections[p] \in App
          /\ sections[Len(sections)] = "clear"
          /\ \A p, q \in 3..(Len(sections) - 1) :
               p < q => /\ sections[p] # sections[q]
                        /\ SortName[sections[p]] <= SortName[sections[q]]
      BY <2>2, <2>3, <2>5, <3>2 DEF InPlace
    <3>4. QED
      BY <2>1, <2>5, <3>1, <3>2, <3>3 DEF Desktop!SectionsInOrder
  <2>6. QED
    BY <2>4, <2>5
<1>2. QED
  BY <1>1, MenusInductive, PTL

(***************************************************************************)
(* Both menus show what there is, whatever was listed, signalled, changed, *)
(* stopped or registered again before, but what UnregisterApplication has  *)
(* withdrawn.                                                              *)
(***************************************************************************)
THEOREM ItemsShownCorrect == MenusSpec => []ItemsShown
<1>1. MenusInv => ItemsShown
  <2> SUFFICES ASSUME MenusInv, NEW a \in listed \ forgotten
               PROVE  /\ \A m \in Message : app[a].messages[m] # "absent" =>
                           \E e \in ToSet(phone.messages) : e.app = a /\ e.id = m
                      /\ \A s \in Source : app[a].sources[s] \notin {"absent", "hidden"} =>
                           s \in ToSet(desktop.entries[a])
    BY DEF ItemsShown
  <2>1. Shows(phone.messages, desktop.entries[a], a, app[a])
    BY DEF MenusInv, Follows
  <2>2. QED
    BY <2>1 DEF Shows, MessageEntry, Has, ToSet
<1>2. QED
  BY <1>1, MenusInductive, PTL

(***************************************************************************)
(* Every listed application has a source section, and its own section is   *)
(* in one place, or lost to another default mail client.                   *)
(***************************************************************************)
THEOREM SectionOfEachCorrect == MenusSpec => []SectionOfEach
<1>1. MenusInv => SectionOfEach
  <2> SUFFICES ASSUME MenusInv PROVE SectionOfEach
    OBVIOUS
  <2>1. listed \in SUBSET App /\ Placed(desktop, listed)
    BY ListTypes DEF WellFormed
  <2>2. ASSUME NEW a \in listed
        PROVE  LET in == {p \in {"sorted", "chat", "mail"} : Places(a)[p]} IN
               Cardinality(in) = 1 \/ (in = {} /\ desktop.mail # Desktop!Nobody)
    <3>1. PICK in : in = {p \in {"sorted", "chat", "mail"} : Places(a)[p]}
      OBVIOUS
    <3>2. a \in App /\ a # Desktop!Nobody
      BY <2>1, SectionAssumption
    <3>3. (a \in ToSet(desktop.sections)) <=> Has(desktop.sections, a)
      BY DEF ToSet, Has
    <3>4. /\ "sorted" \in in <=> Has(desktop.sections, a)
          /\ "chat" \in in <=> a = desktop.chat
          /\ "mail" \in in <=> a = desktop.mail
          /\ in \subseteq {"sorted", "chat", "mail"}
      BY <3>1, <3>3 DEF Places
    <3>5. CASE a \in Empathy
      <4>1. ~Has(desktop.sections, a) /\ desktop.chat = a /\ desktop.mail # a
        BY <2>1, <3>2, <3>5 DEF Placed
      <4>2. in = {"chat"}
        BY <3>4, <4>1
      <4>3. QED
        BY <3>1, <4>2, FS_Singleton
    <3>6. CASE a \notin Empathy
      <4>1. desktop.chat # a
        BY <2>1, <3>2, <3>6 DEF Placed
      <4>2. \/ Has(desktop.sections, a) /\ desktop.mail # a
            \/ ~Has(desktop.sections, a) /\ desktop.mail # Desktop!Nobody
        BY <2>1, <3>2, <3>6 DEF Placed
      <4>3. in = {"sorted"} \/ in = {"mail"} \/ (in = {} /\ desktop.mail # Desktop!Nobody)
        BY <3>4, <4>1, <4>2
      <4>4. QED
        BY <3>1, <4>3, FS_Singleton
    <3>7. QED
      BY <3>5, <3>6
  <2>3. QED
    BY <2>1, <2>2 DEF SectionOfEach, Placed
<1>2. QED
  BY <1>1, MenusInductive, PTL

-----------------------------------------------------------------------------
(* What a step may not leave behind.                                       *)

\* Nothing of the application is in either menu after the step.
LeavesNothing(a) == /\ a \notin {e.app : e \in ToSet(phone'.messages)}
                    /\ a \in listed' => desktop'.entries[a] = << >>

\* What a step that ends a remote has to show, as StoppedLeavesNothing says it.
StopsCleanly == \A a \in listed : LosesRemote(a) /\ ~Nullified(a) => LeavesNothing(a)

\* A step that keeps all remotes and cancellables ends none.
LEMMA RemotesKept ==
  ASSUME \A a \in listed : /\ app'[a].proxy = app[a].proxy
                           /\ app'[a].cancellable = app[a].cancellable
  PROVE  StopsCleanly
BY DEF StopsCleanly, LosesRemote

\* A step that changes one application.
LEMMA RemoteOfOne ==
  ASSUME MenusInv, NEW a \in App, NEW y, app' = [app EXCEPT ![a] = y],
         \/ y.proxy # 0 \/ (app[a].proxy = 0 /\ y.cancellable = app[a].cancellable)
         \/ ~Running(a) \/ Nullified(a) \/ LeavesNothing(a)
  PROVE  StopsCleanly
<1>1. listed \in SUBSET App /\ app \in [App -> Application]
  BY ListTypes
<1>2. app'[a] = y /\ \A b \in App \ {a} : app'[b] = app[b]
  BY <1>1
<1>3. ASSUME NEW b \in listed, LosesRemote(b), ~Nullified(b)
      PROVE  LeavesNothing(b)
  <2>1. /\ Running(b) /\ app'[b].proxy = 0
        /\ app[b].proxy # 0 \/ app'[b].cancellable # app[b].cancellable
    BY <1>3 DEF LosesRemote
  <2>2. b = a
    BY <1>1, <1>2, <2>1
  <2>3. y.proxy = 0 /\ (app[a].proxy # 0 \/ y.cancellable # app[a].cancellable)
    BY <1>2, <2>1, <2>2
  <2>4. QED
    BY <1>3, <2>1, <2>2, <2>3
<1>4. QED
  BY <1>3 DEF StopsCleanly

\* Items come and go without the remote.
LEMMA ItemsKeepRemote ==
  ASSUME NEW x \in Application, NEW items, NEW s, NEW m, NEW v, NEW y,
         \/ y = AddSources(x, items) \/ y = AddMessages(x, items)
         \/ y = ChangeSource(x, s, v) \/ y = RemoveSource(x, s) \/ y = RemoveMessage(x, m)
         \/ y = ClearItems(x)
  PROVE  y.proxy = x.proxy /\ y.cancellable = x.cancellable
<1>1. CASE y = AddSources(x, items)
  BY <1>1 DEF AddSources, Application
<1>2. CASE y = AddMessages(x, items)
  BY <1>2 DEF AddMessages, Application
<1>3. CASE y = ChangeSource(x, s, v)
  BY <1>3 DEF ChangeSource, Recomputed, Application
<1>4. CASE y = RemoveSource(x, s)
  BY <1>4 DEF RemoveSource, Recomputed, Application
<1>5. CASE y = RemoveMessage(x, m)
  BY <1>5 DEF RemoveMessage, Recomputed, Application
<1>6. CASE y = ClearItems(x)
  BY <1>6 DEF ClearItems, Application
<1>7. QED
  BY <1>1, <1>2, <1>3, <1>4, <1>5, <1>6

\* A step that changes the items of one application.
LEMMA RemoteOfEdited ==
  ASSUME MenusInv, NEW a \in App, NEW items, NEW s, NEW m, NEW v, NEW y,
         app' = [app EXCEPT ![a] = y],
         \/ y = AddSources(app[a], items) \/ y = AddMessages(app[a], items)
         \/ y = ChangeSource(app[a], s, v) \/ y = RemoveSource(app[a], s)
         \/ y = RemoveMessage(app[a], m)
  PROVE  StopsCleanly
<1>1. PICK x \in Application : x = app[a]
  BY ListTypes
<1>2. y.proxy = x.proxy /\ y.cancellable = x.cancellable
  BY <1>1, ItemsKeepRemote
<1>3. QED
  BY <1>1, <1>2, RemoteOfOne

\* The remote of a listed application is unset, and the menus are told.
LEMMA UnsetLeavesNothing ==
  ASSUME MenusInv, NEW a \in listed, UnsetRemote(a), StoppedIfRunning(a)
  PROVE  StopsCleanly
<1>1. PICK L \in SUBSET App : L = listed
  BY ListTypes
<1>2. /\ a \in L /\ phone \in PhoneRecord /\ WellFormed(desktop, L)
      /\ app' = [app EXCEPT ![a] = Stopped]
  BY <1>1, ListTypes DEF UnsetRemote
<1>3. CASE Running(a)
  <2>1. APP_STOPPED(a)
    BY <1>3 DEF StoppedIfRunning
  <2>2. /\ desktop'.entries[a] = << >>
        /\ \A p \in DOMAIN phone'.messages : phone'.messages[p].app # a
    BY <1>2, <2>1, StoppedFacts
  <2>3. LeavesNothing(a)
    BY <2>2 DEF LeavesNothing, ToSet
  <2>4. QED
    BY <1>1, <1>2, <2>3, RemoteOfOne
<1>4. CASE ~Running(a)
  BY <1>1, <1>2, <1>4, RemoteOfOne
<1>5. QED
  BY <1>3, <1>4

\* A process that starts has nothing in its menus.
LEMMA RestartLeavesNothing ==
  ASSUME MenusInv, MenusRestart
  PROVE  StopsCleanly
<1>1. listed' = stored /\ phone' = Phone!EmptyPhone
  BY DEF MenusRestart, Restart, MenusStart
<1>2. PICK L \in SUBSET App : L = stored
  BY DEF MenusInv, IndInv, TypeOK
<1>3. \E order \in SetToSeqs(stored) : \E mailers \in {{}} \cup {{a} : a \in stored} :
        desktop' = Desktop!Constructed(order, mailers)
  BY DEF MenusRestart, MenusStart
<1>4. PICK order \in SetToSeqs(L) :
        \E mailers \in {{}} \cup {{a} : a \in L} : desktop' = Desktop!Constructed(order, mailers)
  BY <1>2, <1>3
<1>5. PICK mailers : desktop' = Desktop!Constructed(order, mailers)
  BY <1>4
<1>6. \A b \in L : Desktop!Constructed(order, mailers).entries[b] = << >>
  BY ConstructedFacts
<1>7. \A b \in listed' : desktop'.entries[b] = << >>
  BY <1>1, <1>2, <1>5, <1>6
<1>8. ToSet(phone'.messages) = {}
  BY <1>1, EmptyPhoneFacts DEF ToSet
<1>9. QED
  BY <1>7, <1>8 DEF StopsCleanly, LeavesNothing

\* Of the steps without a signal only a cancelled creation takes a remote.
LEMMA UnsignalledLeavesNothing ==
  ASSUME MenusInv, Unsignalled
  PROVE  StopsCleanly
<1>1. CASE \E k \in Requests : ProxyCreated(k)
  <2>1. PICK k \in Requests : ProxyCreated(k)
    BY <1>1
  <2>2. PICK a \in App : a = Requester(k)
    BY RequestType DEF MenusInv, IndInv
  <2>3. app \in [App -> Application] /\ app[a] \in Application
    BY ListTypes
  <2>4. CASE k \in cancelled
    <3>1. Nullified(a)
      BY <2>1, <2>2, <2>4 DEF Nullified
    <3>2. app' = [app EXCEPT ![a] = [app[a] EXCEPT !.proxy = 0]]
      BY <2>1, <2>2, <2>3, <2>4 DEF ProxyCreated, CreationCancelled
    <3>3. QED
      BY <3>1, <3>2, RemoteOfOne
  <2>5. CASE k \notin cancelled
    <3>1. PICK y : y = [app[a] EXCEPT !.proxy = k, !.launch = TRUE]
      OBVIOUS
    <3>2. app' = [app EXCEPT ![a] = y]
      BY <2>1, <2>2, <2>3, <2>5, <3>1 DEF ProxyCreated, Connected
    <3>3. k # 0
      BY DEF Requests
    <3>4. y.proxy # 0
      BY <2>3, <3>1, <3>3 DEF Application
    <3>5. QED
      BY <3>2, <3>4, RemoteOfOne
  <2>6. QED
    BY <2>4, <2>5
<1>2. CASE ~ \E k \in Requests : ProxyCreated(k)
  <2>1. app' = app
    BY <1>2 DEF Unsignalled, ListCrashed, ListFailed, Completes, Disconnect
  <2>2. QED
    BY <2>1, RemotesKept
<1>3. QED
  BY <1>1, <1>2

\* A registration joins the remote that there is, or the menus are told.
LEMMA RegisterLeavesNothing ==
  ASSUME MenusInv, NEW a \in App, NEW c \in Conn, MenusRegister(a, c)
  PROVE  StopsCleanly
<1>1. PICK k : k = Len(request) + 1
  OBVIOUS
<1>2. PICK z : z = IF KeepsRemote(a, c) THEN app[a] ELSE Stopped
  OBVIOUS
<1>3. z \in Application
  BY <1>2, StoppedType, ListTypes
<1>4. PICK y : y = [z EXCEPT !.cancellable = k]
  OBVIOUS
<1>5. app' = [app EXCEPT ![a] = y]
  BY <1>1, <1>2, <1>4 DEF MenusRegister, Register, SetRemote
<1>6. CASE KeepsRemote(a, c)
  <2>1. y.proxy = app[a].proxy
    BY <1>2, <1>3, <1>4, <1>6 DEF Application
  <2>2. app[a].proxy # 0 \/ ~Running(a)
    BY <1>6 DEF KeepsRemote, Running
  <2>3. QED
    BY <1>5, <2>1, <2>2, RemoteOfOne
<1>7. CASE a \notin listed
  <2>1. app[a] = Stopped
    BY <1>7 DEF MenusInv, IndInv, Known
  <2>2. ~Running(a)
    BY <2>1 DEF Running, Stopped
  <2>3. QED
    BY <1>5, <2>2, RemoteOfOne
<1>8. CASE a \in listed /\ ~KeepsRemote(a, c)
  <2>1. PICK L \in SUBSET App : L = listed
    BY ListTypes
  <2>2. a \in L /\ phone \in PhoneRecord /\ WellFormed(desktop, L)
    BY <1>8, <2>1, ListTypes
  <2>3. APP_STOPPED(a)
    BY <1>8 DEF MenusRegister
  <2>4. /\ desktop'.entries[a] = << >>
        /\ \A p \in DOMAIN phone'.messages : phone'.messages[p].app # a
    BY <2>2, <2>3, StoppedFacts
  <2>5. LeavesNothing(a)
    BY <2>4 DEF LeavesNothing, ToSet
  <2>6. QED
    BY <1>5, <2>5, RemoteOfOne
<1>9. QED
  BY <1>6, <1>7, <1>8

\* Signals, replies and the user.
LEMMA ItemsLeaveNothing ==
  ASSUME MenusInv,
         \/ MenusSignal \/ MenusUser
         \/ \E k \in Requests : MenusSourcesListed(k) \/ MenusMessagesListed(k)
  PROVE  StopsCleanly
<1>1. \A k \in Requests : Requester(k) \in App
  BY RequestType DEF MenusInv, IndInv
<1>2. ASSUME NEW k \in Requests, NEW items,
             SourcesListed(k, items) \/ MessagesListed(k, items)
      PROVE  StopsCleanly
  <2>1. PICK a \in App : a = Requester(k)
    BY <1>1
  <2>2. PICK y : /\ y = AddSources(app[a], items) \/ y = AddMessages(app[a], items)
                 /\ app' = [app EXCEPT ![a] = y]
    BY <1>2, <2>1 DEF SourcesListed, MessagesListed
  <2>3. QED
    BY <2>2, RemoteOfEdited
<1>3. ASSUME NEW k \in Requests, NEW s, NEW m, NEW v,
             \/ SourceAdded(k, s, v) \/ SourceChanged(k, s, v) \/ SourceRemoved(k, s)
             \/ MessageAdded(k, m, v) \/ MessageRemoved(k, m)
      PROVE  StopsCleanly
  <2>1. PICK a \in App : a = Requester(k)
    BY <1>1
  <2>2. CASE SourceAdded(k, s, v)
    <3>1. PICK items : items = [t \in {s} |-> v]
      OBVIOUS
    <3>2. PICK y : y = AddSources(app[a], items) /\ app' = [app EXCEPT ![a] = y]
      BY <2>1, <2>2, <3>1 DEF SourceAdded, Update
    <3>3. QED
      BY <3>2, RemoteOfEdited
  <2>3. CASE MessageAdded(k, m, v)
    <3>1. PICK items : items = [n \in {m} |-> v]
      OBVIOUS
    <3>2. PICK y : y = AddMessages(app[a], items) /\ app' = [app EXCEPT ![a] = y]
      BY <2>1, <2>3, <3>1 DEF MessageAdded
    <3>3. QED
      BY <3>2, RemoteOfEdited
  <2>4. CASE SourceChanged(k, s, v) \/ SourceRemoved(k, s) \/ MessageRemoved(k, m)
    <3>1. PICK y : /\ \/ y = ChangeSource(app[a], s, v) \/ y = RemoveSource(app[a], s)
                      \/ y = RemoveMessage(app[a], m)
                   /\ app' = [app EXCEPT ![a] = y]
      BY <2>1, <2>4 DEF SourceChanged, SourceRemoved, MessageRemoved, Update
    <3>2. QED
      BY <3>1, RemoteOfEdited
  <2>5. QED
    BY <1>3, <2>2, <2>3, <2>4
<1>4. ASSUME NEW a \in App, NEW s, NEW m, SourceActivated(a, s) \/ MessageActivated(a, m)
      PROVE  StopsCleanly
  <2>1. PICK y : /\ y = RemoveSource(app[a], s) \/ y = RemoveMessage(app[a], m)
                 /\ app' = [app EXCEPT ![a] = y]
    BY <1>4 DEF SourceActivated, MessageActivated, Update
  <2>2. QED
    BY <2>1, RemoteOfEdited
<1>5. ASSUME RemoveAll
      PROVE  StopsCleanly
  <2>1. listed \in SUBSET App /\ app \in [App -> Application]
    BY ListTypes
  <2>2. ASSUME NEW a \in listed
        PROVE  app'[a].proxy = app[a].proxy /\ app'[a].cancellable = app[a].cancellable
    <3>1. a \in App /\ app[a] \in Application /\ app'[a] = ClearItems(app[a])
      BY <1>5, <2>1 DEF RemoveAll
    <3>2. QED
      BY <3>1, ClearItemsFacts
  <2>3. QED
    BY <2>2, RemotesKept
<1>6. CASE MenusSignal
  BY <1>3, <1>6 DEF MenusSignal, MenusSourceAdded, MenusSourceChanged, MenusSourceRemoved,
                    MenusMessageAdded, MenusMessageRemoved
<1>7. CASE MenusUser
  BY <1>4, <1>5, <1>7 DEF MenusUser, MenusSourceActivated, MenusMessageActivated, MenusRemoveAll
<1>8. CASE \E k \in Requests : MenusSourcesListed(k) \/ MenusMessagesListed(k)
  BY <1>2, <1>8 DEF MenusSourcesListed, MenusMessagesListed
<1>9. QED
  BY <1>6, <1>7, <1>8

(***************************************************************************)
(* A remote that is lost leaves nothing of its application in either menu, *)
(* whether the application stopped, its connection left the bus or another *)
(* registration replaced it; only the late callback of a cancelled         *)
(* creation leaves the entries of the remote that it takes.                *)
(***************************************************************************)
THEOREM StoppedCorrect == MenusSpec => StoppedLeavesNothing
<1>1. MenusInv /\ MenusNext => StopsCleanly
  <2> SUFFICES ASSUME MenusInv, MenusNext PROVE StopsCleanly
    OBVIOUS
  <2>1. ASSUME NEW a \in App, NEW c \in Conn, MenusRegister(a, c) PROVE StopsCleanly
    BY <2>1, RegisterLeavesNothing
  <2>2. ASSUME NEW a \in App, MenusUnregister(a) PROVE StopsCleanly
    BY <2>2, RemotesKept DEF MenusUnregister, Unregister, ListRemove
  <2>3. ASSUME NEW a \in App, MenusApplicationStopped(a) PROVE StopsCleanly
    BY <2>3, UnsetLeavesNothing DEF MenusApplicationStopped, ApplicationStopped
  <2>4. ASSUME NEW k \in Requests, MenusVanished(k) PROVE StopsCleanly
    <3>1. k \in watch /\ UnsetRemote(Requester(k)) /\ StoppedIfRunning(Requester(k))
      BY <2>4 DEF MenusVanished, Vanished
    <3>2. Requester(k) \in listed
      BY <3>1, RequesterListed DEF MenusInv
    <3>3. PICK a \in listed : a = Requester(k)
      BY <3>2
    <3>4. QED
      BY <3>1, <3>3, UnsetLeavesNothing
  <2>5. CASE \/ MenusSignal \/ MenusUser
             \/ \E k \in Requests : MenusSourcesListed(k) \/ MenusMessagesListed(k)
    BY <2>5, ItemsLeaveNothing
  <2>6. QED
    BY <2>1, <2>2, <2>3, <2>4, <2>5, UnsignalledLeavesNothing, RestartLeavesNothing
       DEF MenusNext
<1>2. MenusInv /\ [MenusNext]_menusVars => [StopsCleanly]_menusVars
  BY <1>1
<1>3. MenusSpec => [][StopsCleanly]_menusVars
  BY <1>2, MenusInductive, PTL DEF MenusSpec
<1>4. QED
  BY <1>3 DEF StoppedLeavesNothing, StopsCleanly, LeavesNothing

-----------------------------------------------------------------------------
(* Where entries come from.                                                *)

Owned(b) == \E k \in Requests : Requester(k) = b /\ Live(k)
Entered(b) == \/ OfApp(phone.messages, b)
              \/ b \in listed /\ desktop.entries[b] # << >>

\* EntriesHaveAProxy for all applications: one that is not listed has no entry.
EntriesOwned == \A b \in App : Entered(b) => Owned(b)

\* The menus change for one application, all proxies stay.
LEMMA OwnedStep ==
  ASSUME EntriesOwned, NEW a \in App,
         \A b \in App \ {a} : (Entered(b)' => Entered(b)) /\ (Owned(b) => Owned(b)'),
         Entered(a)' => Owned(a)'
  PROVE  EntriesOwned'
<1>1. ASSUME NEW b \in App, Entered(b)' PROVE Owned(b)'
  <2>1. CASE b = a
    BY <1>1, <2>1
  <2>2. CASE b # a
    BY <1>1, <2>2 DEF EntriesOwned
  <2>3. QED
    BY <2>1, <2>2
<1>2. QED
  BY <1>1 DEF EntriesOwned

\* Proxies that stay go on belonging to their applications.
LEMMA OwnedStays ==
  ASSUME request' = request, NEW b, Owned(b),
         \A k \in Requests : Requester(k) = b /\ Live(k) => Live(k)'
  PROVE  Owned(b)'
<1>1. Requests' = Requests /\ \A k : Requester(k)' = Requester(k)
  BY DEF Requests, Requester
<1>2. QED
  BY <1>1 DEF Owned

\* A step that leaves calls and remotes as they are.
LEMMA LiveKept ==
  ASSUME IndInv, UNCHANGED <<request, pending, leaked>>,
         \A b \in App : app'[b].proxy = app[b].proxy, NEW k \in Requests, Live(k)
  PROVE  Live(k)'
<1>1. Requester(k) \in App /\ Requester(k)' = Requester(k)
  BY RequestType DEF IndInv, Requester
<1>2. QED
  BY <1>1 DEF Live

\* A call that is completed was made on the remote, which stays.
LEMMA LiveCompletes ==
  ASSUME IndInv, NEW kind, NEW n \in Requests, Completes(kind, n), request' = request,
         \A b \in App : app'[b].proxy = app[b].proxy, NEW k \in Requests, Live(k)
  PROVE  Live(k)'
<1>1. Requester(k) \in App /\ Requester(k)' = Requester(k)
  BY RequestType DEF IndInv, Requester
<1>2. CASE app[Requester(k)].proxy = k \/ k \in leaked
  BY <1>1, <1>2 DEF Live, Completes
<1>3. CASE k = n
  BY <1>2, <1>3 DEF Completes, Current
<1>4. CASE k # n /\ \E j \in DOMAIN pending : pending[j].req = k /\ pending[j].kind # "create"
  <2>1. PICK i \in DOMAIN pending : pending' = RemoveAt(pending, i) /\ pending[i].req = n
    BY DEF Completes, Due
  <2>2. PICK j \in DOMAIN pending : pending[j].req = k /\ pending[j].kind # "create"
    BY <1>4
  <2>3. pending \in Seq(Operation) /\ j # i
    BY <1>4, <2>1, <2>2 DEF IndInv, TypeOK
  <2>4. PICK r : r = RemoveAt(pending, i)
    OBVIOUS
  <2>5. \E p \in DOMAIN r : r[p] = pending[j]
    BY <2>3, <2>4, RemoveAtElements
  <2>6. QED
    BY <2>1, <2>2, <2>4, <2>5 DEF Live
<1>5. QED
  BY <1>2, <1>3, <1>4 DEF Live

\* A creation that completes keeps the proxy that it replaces.
LEMMA LiveCreated ==
  ASSUME IndInv, NEW n \in Requests, ProxyCreated(n), NEW k \in Requests, Live(k)
  PROVE  Live(k)'
<1> DEFINE a == Requester(n)
<1>1. /\ Requester(k) \in App /\ a \in App /\ Requester(k)' = Requester(k)
      /\ app \in [App -> Application] /\ k # 0
  BY RequestType DEF IndInv, TypeOK, Requester, Requests, ProxyCreated, CreationCancelled,
                     Connected
<1>2. PICK i \in Due("create", n) :
        IF n \in cancelled THEN CreationCancelled(n, a, i) ELSE Connected(n, a, i)
  BY DEF ProxyCreated
<1>3. leaked' = leaked \cup ({app[a].proxy} \ {0})
  BY DEF ProxyCreated
<1>4. \A b \in App \ {a} : app'[b] = app[b]
  BY <1>1, <1>2 DEF CreationCancelled, Connected
<1> HIDE DEF a
<1>5. CASE app[Requester(k)].proxy = k \/ k \in leaked
  BY <1>1, <1>3, <1>4, <1>5 DEF Live
<1>6. CASE \E j \in DOMAIN pending : pending[j].req = k /\ pending[j].kind # "create"
  <2>1. PICK j \in DOMAIN pending : pending[j].req = k /\ pending[j].kind # "create"
    BY <1>6
  <2>2. i \in DOMAIN pending /\ pending[i].kind = "create"
    BY <1>2 DEF Due
  <2>3. PICK r : r = RemoveAt(pending, i)
    OBVIOUS
  <2>4. r \in Seq(Operation) /\ \E p \in DOMAIN r : r[p] = pending[j]
    BY <2>1, <2>2, <2>3, RemoveAtElements DEF IndInv, TypeOK
  <2>5. PICK p \in DOMAIN r : r[p] = pending[j]
    BY <2>4
  <2>6. p \in DOMAIN pending' /\ pending'[p] = r[p]
    <3>1. CASE pending' = r
      BY <3>1
    <3>2. CASE pending' = r \o ListBoth(n, app[a].cancellable)
      <4>1. PICK l : l = ListBoth(n, app[a].cancellable)
        OBVIOUS
      <4>2. l \in Seq(Operation)
        <5>1. n \in RequestId /\ app[a].cancellable \in RequestOrNull
          BY <1>1, RequestsAreIds DEF IndInv, TypeOK, Application
        <5>2. /\ Call("sources", n, app[a].cancellable) \in Operation
              /\ Call("messages", n, app[a].cancellable) \in Operation
          BY <5>1 DEF Call, Operation
        <5>3. QED
          BY <4>1, <5>2 DEF ListBoth
      <4>3. /\ p \in 1..Len(r) /\ Len(r) \in Nat /\ Len(l) \in Nat
        BY <2>4, <4>2, LenProperties
      <4>4. /\ r \o l \in Seq(Operation) /\ Len(r \o l) = Len(r) + Len(l)
            /\ \A q \in 1..(Len(r) + Len(l)) :
                 (r \o l)[q] = IF q <= Len(r) THEN r[q] ELSE l[q - Len(r)]
        BY <2>4, <4>2, ConcatProperties
      <4>5. DOMAIN (r \o l) = 1..(Len(r) + Len(l))
        BY <4>4, LenProperties
      <4>6. QED
        BY <3>2, <4>1, <4>3, <4>4, <4>5
    <3>3. QED
      BY <1>2, <2>3, <3>1, <3>2 DEF CreationCancelled, Connected
  <2>7. QED
    BY <2>1, <2>5, <2>6 DEF Live
<1>7. QED
  BY <1>5, <1>6 DEF Live

\* The handlers of one application's sources leave the other sections alone.
LEMMA SourcesOfOne ==
  ASSUME MenusInv, NEW a \in listed, NEW items, NEW order, NEW s, NEW v,
         SOURCES_ADDED(a, items, order) \/ SOURCE_REMOVED(a, s) \/ SOURCE_CHANGED(a, s, v)
  PROVE  phone' = phone /\ \A b \in listed \ {a} : desktop'.entries[b] = desktop.entries[b]
<1>1. PICK x : desktop' = [desktop EXCEPT !.entries[a] = x]
  BY Zenon DEF SOURCES_ADDED, SOURCE_REMOVED, SOURCE_CHANGED, Desktop!SourcesAdded,
               Desktop!SourceRemoved, Desktop!SourceChanged
<1>2. phone' = phone
  BY DEF SOURCES_ADDED, SOURCE_REMOVED, SOURCE_CHANGED
<1>3. desktop \in DesktopRecord /\ DOMAIN desktop.entries = listed
  BY ListTypes DEF WellFormed, Placed
<1>4. PICK D \in SUBSET App : desktop.entries \in [D -> Seq(Source)]
  BY <1>3 DEF DesktopRecord
<1>5. QED
  BY <1>1, <1>2, <1>3, <1>4 DEF DesktopRecord

\* Items of a listed application come and go, and it has a proxy.
LEMMA OwnedEdit ==
  ASSUME MenusInv, EntriesOwned, NEW a \in listed, Owned(a),
         listed' = listed, request' = request, \A k \in Requests : Live(k) => Live(k)',
         \A b \in listed \ {a} : desktop'.entries[b] = desktop.entries[b],
         \A b : OfApp(phone'.messages, b) => b = a \/ OfApp(phone.messages, b)
  PROVE  EntriesOwned'
<1>1. a \in App
  BY ListTypes
<1>2. \A b \in App : Owned(b) => Owned(b)'
  BY OwnedStays
<1>3. \A b \in App \ {a} : Entered(b)' => Entered(b)
  BY DEF Entered
<1>4. QED
  BY <1>1, <1>2, <1>3, OwnedStep

\* Nothing happens to the menus.
LEMMA OwnedIdle ==
  ASSUME EntriesOwned, UNCHANGED <<phone, desktop, listed, request>>,
         \A k \in Requests : Live(k) => Live(k)'
  PROVE  EntriesOwned'
<1>1. \A b \in App : Owned(b) => Owned(b)'
  BY OwnedStays
<1>2. \A b \in App : Entered(b)' => Entered(b)
  BY DEF Entered
<1>3. QED
  BY <1>1, <1>2 DEF EntriesOwned

\* An application stops: its remote goes, and so do its entries.
LEMMA OwnedStopped ==
  ASSUME MenusInv, EntriesOwned, NEW a \in listed, UnsetRemote(a), StoppedIfRunning(a),
         UNCHANGED <<listed, request, pending, leaked>>
  PROVE  EntriesOwned'
<1>1. PICK L \in SUBSET App : L = listed
  BY ListTypes
<1>2. /\ a \in L /\ phone \in PhoneRecord /\ WellFormed(desktop, L) /\ IndInv
      /\ app \in [App -> Application] /\ app' = [app EXCEPT ![a] = Stopped]
  BY <1>1, ListTypes DEF UnsetRemote
<1>3. \A b \in App \ {a} : app'[b] = app[b]
  BY <1>2
<1>4. ASSUME NEW b \in App \ {a}, Owned(b)
      PROVE  Owned(b)'
  <2>1. \A k \in Requests : Requester(k) = b /\ Live(k) => Live(k)'
    BY <1>3, <1>4 DEF Live, Requester
  <2>2. QED
    BY <1>4, <2>1, OwnedStays
<1>5. CASE Running(a)
  <2>1. APP_STOPPED(a)
    BY <1>5 DEF StoppedIfRunning
  <2>2. /\ \A b \in L \ {a} : desktop'.entries[b] = desktop.entries[b]
        /\ desktop'.entries[a] = << >>
        /\ \A p \in DOMAIN phone'.messages : phone'.messages[p].app # a
        /\ \A b : OfApp(phone'.messages, b) => OfApp(phone.messages, b)
    BY <1>2, <2>1, StoppedFacts
  <2>3. \A b \in App \ {a} : Entered(b)' => Entered(b)
    BY <1>1, <2>2 DEF Entered
  <2>4. ~Entered(a)'
    BY <2>2 DEF Entered, OfApp
  <2>5. QED
    BY <1>1, <1>4, <2>3, <2>4, OwnedStep
<1>6. CASE ~Running(a)
  <2>1. phone' = phone /\ desktop' = desktop
    BY <1>6 DEF StoppedIfRunning, menus
  <2>2. app[a].proxy = 0
    BY <1>6 DEF Running
  <2>3. \A b \in App : app'[b].proxy = app[b].proxy
    BY <1>1, <1>2, <1>3, <2>2 DEF Stopped
  <2>4. \A k \in Requests : Live(k) => Live(k)'
    BY <1>2, <2>3, LiveKept
  <2>5. QED
    BY <2>1, <2>4, OwnedIdle
<1>7. QED
  BY <1>5, <1>6

\* A registration joins the remote that there is, or the entries go.
LEMMA OwnedRegister ==
  ASSUME MenusInv, EntriesOwned, NEW a \in App, NEW c \in Conn, MenusRegister(a, c)
  PROVE  EntriesOwned'
<1>1. PICK k : k = Len(request) + 1
  OBVIOUS
<1>2. /\ request' = Append(request, [app |-> a, owner |-> c])
      /\ listed' = listed \cup {a} /\ leaked' = leaked
      /\ pending' = Append(pending, Call("create", k, k))
      /\ app' = [app EXCEPT ![a] = [(IF KeepsRemote(a, c) THEN @ ELSE Stopped)
                                      EXCEPT !.cancellable = k]]
  BY <1>1 DEF MenusRegister, Register, SetRemote, ListAdd
<1>3. /\ listed \in SUBSET App /\ phone \in PhoneRecord /\ WellFormed(desktop, listed)
      /\ app \in [App -> Application] /\ IndInv
  BY ListTypes
<1>4. /\ Requests \subseteq Requests'
      /\ \A n \in Requests : Requester(n) \in App /\ Requester(n)' = Requester(n)
  <2>1. PICK x : x = [app |-> a, owner |-> c]
    OBVIOUS
  <2>2. request \in Seq([app : App, owner : Conn]) /\ x \in [app : App, owner : Conn]
    BY <1>3, <2>1 DEF IndInv, TypeOK
  <2>3. /\ Len(request) \in Nat /\ Len(Append(request, x)) = Len(request) + 1
        /\ \A n \in 1..Len(request) : Append(request, x)[n] = request[n]
    BY <2>2, AppendProperties, LenProperties
  <2>4. \A n \in Requests : Requester(n) \in App
    BY <1>3, RequestType DEF IndInv
  <2>5. QED
    BY <1>2, <2>1, <2>3, <2>4 DEF Requests, Requester
<1>5. \A j \in DOMAIN pending : j \in DOMAIN pending' /\ pending'[j] = pending[j]
  <2>1. pending \in Seq(Operation) /\ Len(pending) \in Nat /\ DOMAIN pending = 1..Len(pending)
    BY <1>3, LenProperties DEF IndInv, TypeOK
  <2>2. PICK x : x = Call("create", k, k)
    OBVIOUS
  <2>3. \A j \in 1..Len(pending) :
          j \in DOMAIN Append(pending, x) /\ Append(pending, x)[j] = pending[j]
    BY <2>1
  <2>4. QED
    BY <1>2, <2>1, <2>2, <2>3
<1>6. ASSUME NEW b \in App, b # a \/ KeepsRemote(a, c), Owned(b)
      PROVE  Owned(b)'
  <2>1. PICK n \in Requests : Requester(n) = b /\ Live(n)
    BY <1>6 DEF Owned
  <2>2. app'[b].proxy = app[b].proxy
    BY <1>2, <1>3, <1>6 DEF Application
  <2>3. Live(n)'
    BY <1>2, <1>4, <1>5, <2>1, <2>2 DEF Live
  <2>4. QED
    BY <1>4, <2>1, <2>3 DEF Owned
<1>7. CASE a \notin listed /\ APP_ADDED(a)
  <2>1. PICK mailer \in BOOLEAN : desktop' = Desktop!AppAdded(desktop, a, mailer)
    BY <1>7 DEF APP_ADDED, Desktop!DesktopAppAdded
  <2>2. phone' = phone
    BY <1>7 DEF APP_ADDED
  <2>3. PICK d : d = desktop
    OBVIOUS
  <2>4. PICK r : r = Desktop!AppAdded(d, a, mailer)
    OBVIOUS
  <2>5. d \in DesktopRecord /\ Roomy(d) /\ DOMAIN d.entries = listed
    BY <1>3, <2>3, InPlaceRoomy DEF WellFormed, Placed
  <2>6. /\ \A b \in DOMAIN d.entries \ {a} : r.entries[b] = d.entries[b]
        /\ r.entries[a] = << >>
    BY <2>4, <2>5, AppAddedTyped
  <2>7. \A b \in App \ {a} : Entered(b)' => Entered(b)
    BY <1>2, <2>1, <2>2, <2>3, <2>4, <2>5, <2>6 DEF Entered
  <2>8. Entered(a)' => Entered(a)
    BY <2>1, <2>2, <2>3, <2>4, <2>6 DEF Entered
  <2>9. app[a] = Stopped
    BY <1>3, <1>7 DEF IndInv, Known
  <2>10. KeepsRemote(a, c)
    BY <2>9 DEF KeepsRemote, Stopped
  <2>11. QED
    BY <1>6, <2>7, <2>8, <2>10 DEF EntriesOwned
<1>8. CASE a \in listed /\ KeepsRemote(a, c) /\ UNCHANGED menus
  <2>1. \A b \in App : Entered(b)' => Entered(b)
    BY <1>2, <1>8 DEF menus, Entered
  <2>2. QED
    BY <1>6, <1>8, <2>1 DEF EntriesOwned
<1>9. CASE a \in listed /\ ~KeepsRemote(a, c) /\ APP_STOPPED(a)
  <2>1. PICK L \in SUBSET App : L = listed
    BY <1>3
  <2>2. /\ \A b \in L \ {a} : desktop'.entries[b] = desktop.entries[b]
        /\ desktop'.entries[a] = << >>
        /\ \A p \in DOMAIN phone'.messages : phone'.messages[p].app # a
        /\ \A b : OfApp(phone'.messages, b) => OfApp(phone.messages, b)
    BY <1>3, <1>9, <2>1, StoppedFacts
  <2>3. \A b \in App \ {a} : Entered(b)' => Entered(b)
    BY <1>2, <2>1, <2>2 DEF Entered
  <2>4. ~Entered(a)'
    BY <2>2 DEF Entered, OfApp
  <2>5. QED
    BY <1>6, <2>3, <2>4, OwnedStep
<1>10. QED
  BY <1>7, <1>8, <1>9 DEF MenusRegister

\* UnregisterApplication withdraws entries and leaves the remote.
LEMMA OwnedUnregister ==
  ASSUME MenusInv, EntriesOwned, NEW a \in App, MenusUnregister(a)
  PROVE  EntriesOwned'
<1>1. /\ listed' = listed /\ app' = app /\ StoppedIfRunning(a)
      /\ UNCHANGED <<request, pending, leaked>>
  BY DEF MenusUnregister, Unregister, ListRemove, calls
<1>2. \A k \in Requests : Live(k) => Live(k)'
  BY <1>1, LiveKept DEF MenusInv
<1>3. CASE Running(a)
  <2>1. PICK L \in SUBSET App : L = listed
    BY ListTypes
  <2>2. /\ APP_STOPPED(a) /\ a \in L /\ phone \in PhoneRecord /\ WellFormed(desktop, L)
    BY <1>1, <1>3, <2>1, ListTypes DEF StoppedIfRunning
  <2>3. /\ \A b \in L \ {a} : desktop'.entries[b] = desktop.entries[b]
        /\ desktop'.entries[a] = << >>
        /\ \A b : OfApp(phone'.messages, b) => OfApp(phone.messages, b)
    BY <2>2, StoppedFacts
  <2>4. \A b \in App : Entered(b)' => Entered(b)
    BY <1>1, <2>1, <2>3 DEF Entered
  <2>5. \A b \in App : Owned(b) => Owned(b)'
    BY <1>1, <1>2, OwnedStays
  <2>6. QED
    BY <2>4, <2>5 DEF EntriesOwned
<1>4. CASE ~Running(a)
  <2>1. phone' = phone /\ desktop' = desktop
    BY <1>1, <1>4 DEF StoppedIfRunning, menus
  <2>2. QED
    BY <1>1, <1>2, <2>1, OwnedIdle
<1>5. QED
  BY <1>3, <1>4

\* Nothing is in the menus.
LEMMA OwnedEmpty ==
  ASSUME phone.messages = << >>, \A b \in listed : desktop.entries[b] = << >>
  PROVE  EntriesOwned
BY DEF EntriesOwned, Entered, OfApp

\* The menus of a process that starts are empty.
LEMMA StartIsEmpty ==
  ASSUME NEW L \in SUBSET App, NEW d,
         \E order \in SetToSeqs(L) : \E mailers \in {{}} \cup {{a} : a \in L} :
           d = Desktop!Constructed(order, mailers)
  PROVE  \A b \in L : d.entries[b] = << >>
<1>1. PICK order \in SetToSeqs(L) :
        \E mailers \in {{}} \cup {{a} : a \in L} : d = Desktop!Constructed(order, mailers)
  OBVIOUS
<1>2. PICK mailers : d = Desktop!Constructed(order, mailers)
  BY <1>1
<1>3. \A b \in L : Desktop!Constructed(order, mailers).entries[b] = << >>
  BY ConstructedFacts
<1>4. QED
  BY <1>2, <1>3

\* The items of an application change and its remote stays.
LEMMA RemotesStay ==
  ASSUME MenusInv, NEW a \in App, NEW items, NEW s, NEW m, NEW v, NEW y,
         app' = [app EXCEPT ![a] = y],
         \/ y = AddSources(app[a], items) \/ y = AddMessages(app[a], items)
         \/ y = ChangeSource(app[a], s, v) \/ y = RemoveSource(app[a], s)
         \/ y = RemoveMessage(app[a], m)
  PROVE  \A b \in App : app'[b].proxy = app[b].proxy
<1>1. PICK x \in Application : x = app[a]
  BY ListTypes
<1>2. y.proxy = x.proxy
  BY <1>1, ItemsKeepRemote
<1>3. QED
  BY <1>1, <1>2, ListTypes

\* A handler of one application's items, and the signal that it sends.
ItemsSignal(a, items, order, orders, s, v, m) ==
  \/ SOURCES_ADDED(a, items, order) \/ SOURCE_REMOVED(a, s) \/ SOURCE_CHANGED(a, s, v)
  \/ orders \in Seq([id : Message, time : Time]) /\ MESSAGES_ADDED(a, items, orders)
  \/ MESSAGE_REMOVED(a, m)

LEMMA OwnedItems ==
  ASSUME MenusInv, EntriesOwned, NEW a \in listed, Owned(a),
         listed' = listed, request' = request, \A k \in Requests : Live(k) => Live(k)',
         NEW items, NEW order, NEW orders, NEW s, NEW v, NEW m,
         ItemsSignal(a, items, order, orders, s, v, m)
  PROVE  EntriesOwned'
<1>1. phone \in PhoneRecord /\ a \in App
  BY ListTypes
<1>2. CASE \/ SOURCES_ADDED(a, items, order) \/ SOURCE_REMOVED(a, s)
           \/ SOURCE_CHANGED(a, s, v)
  <2>1. phone' = phone /\ \A b \in listed \ {a} : desktop'.entries[b] = desktop.entries[b]
    BY <1>2, SourcesOfOne
  <2>2. QED
    BY <2>1, OwnedEdit
<1>3. CASE orders \in Seq([id : Message, time : Time]) /\ MESSAGES_ADDED(a, items, orders)
  <2>1. \A b : OfApp(phone'.messages, b) => b = a \/ OfApp(phone.messages, b)
    BY <1>1, <1>3, MessagesAddedFacts
  <2>2. desktop' = desktop
    BY <1>3 DEF MESSAGES_ADDED
  <2>3. QED
    BY <2>1, <2>2, OwnedEdit
<1>4. CASE MESSAGE_REMOVED(a, m)
  <2>1. \A b : OfApp(phone'.messages, b) => OfApp(phone.messages, b)
    BY <1>1, <1>4, MessageRemovedFacts
  <2>2. desktop' = desktop
    BY <1>4 DEF MESSAGE_REMOVED
  <2>3. QED
    BY <2>1, <2>2, OwnedEdit
<1>5. QED
  BY <1>2, <1>3, <1>4 DEF ItemsSignal

\* A signal comes through a proxy of its application, which stays.
LEMMA OwnedSignal ==
  ASSUME MenusInv, EntriesOwned, MenusSignal
  PROVE  EntriesOwned'
<1>1. PICK k \in Requests :
        \/ \E s \in Source : \/ \E v \in SourceState \ {"absent", "drawing"} :
                                  MenusSourceAdded(k, s, v) \/ MenusSourceChanged(k, s, v)
                             \/ MenusSourceRemoved(k, s)
        \/ \E m \in Message : \/ \E t \in Time : MenusMessageAdded(k, m, "quiet", t)
                              \/ MenusMessageRemoved(k, m)
  BY DEF MenusSignal
<1>2. Live(k) /\ listed' = listed /\ UNCHANGED <<request, pending, leaked>>
  BY <1>1 DEF MenusSourceAdded, MenusSourceChanged, MenusSourceRemoved, MenusMessageAdded,
              MenusMessageRemoved, SourceAdded, SourceChanged, SourceRemoved, MessageAdded,
              MessageRemoved, Update, Signal, calls
<1>3. IndInv
  BY DEF MenusInv
<1>4. PICK a \in listed : a = Requester(k)
  BY <1>2, <1>3, LiveIsListed
<1>5. a \in App /\ Owned(a)
  BY <1>2, <1>4, ListTypes DEF Owned
<1>6. ASSUME NEW items, NEW order, NEW orders, NEW s, NEW v, NEW m, NEW y,
             app' = [app EXCEPT ![a] = y],
             \/ y = AddSources(app[a], items) \/ y = AddMessages(app[a], items)
             \/ y = ChangeSource(app[a], s, v) \/ y = RemoveSource(app[a], s)
             \/ y = RemoveMessage(app[a], m),
             ItemsSignal(a, items, order, orders, s, v, m)
      PROVE  EntriesOwned'
  <2>1. \A b \in App : app'[b].proxy = app[b].proxy
    BY <1>5, <1>6, RemotesStay
  <2>2. \A n \in Requests : Live(n) => Live(n)'
    BY <1>2, <1>3, <2>1, LiveKept
  <2>3. QED
    BY <1>2, <1>5, <1>6, <2>2, OwnedItems
<1>7. ASSUME NEW s \in Source, NEW v, MenusSourceAdded(k, s, v)
      PROVE  EntriesOwned'
  <2>1. PICK items : items = [t \in {s} |-> v]
    OBVIOUS
  <2>2. PICK order : SOURCES_ADDED(a, items, order)
    BY <1>4, <1>7, <2>1 DEF MenusSourceAdded
  <2>3. app' = [app EXCEPT ![a] = AddSources(app[a], items)]
    BY <1>4, <1>7, <2>1 DEF MenusSourceAdded, SourceAdded, Update
  <2>4. QED
    BY <1>6, <2>2, <2>3 DEF ItemsSignal
<1>8. ASSUME NEW s \in Source, NEW v, MenusSourceChanged(k, s, v)
      PROVE  EntriesOwned'
  <2>1. /\ app' = [app EXCEPT ![a] = ChangeSource(app[a], s, v)]
        /\ SOURCE_CHANGED(a, s, v)
    BY <1>4, <1>8 DEF MenusSourceChanged, SourceChanged, Update
  <2>2. QED
    BY <1>6, <2>1 DEF ItemsSignal
<1>9. ASSUME NEW s \in Source, MenusSourceRemoved(k, s)
      PROVE  EntriesOwned'
  <2>1. /\ app' = [app EXCEPT ![a] = RemoveSource(app[a], s)]
        /\ SOURCE_REMOVED(a, s)
    BY <1>4, <1>9 DEF MenusSourceRemoved, SourceRemoved, Update
  <2>2. QED
    BY <1>6, <2>1 DEF ItemsSignal
<1>10. ASSUME NEW m \in Message, NEW t \in Time, MenusMessageAdded(k, m, "quiet", t)
       PROVE  EntriesOwned'
  <2>1. PICK items : items = [n \in {m} |-> "quiet"]
    OBVIOUS
  <2>2. PICK orders \in Seq([id : Message, time : Time]) : orders = <<[id |-> m, time |-> t]>>
    <3>1. PICK T : T = [id : Message, time : Time]
      OBVIOUS
    <3>2. PICK x \in T : x = [id |-> m, time |-> t]
      BY <3>1
    <3>3. <<x>> \in Seq(T)
      OBVIOUS
    <3>4. QED
      BY <3>1, <3>2, <3>3
  <2>3. MESSAGES_ADDED(a, items, orders)
    BY <1>4, <1>10, <2>1, <2>2 DEF MenusMessageAdded
  <2>4. app' = [app EXCEPT ![a] = AddMessages(app[a], items)]
    BY <1>4, <1>10, <2>1 DEF MenusMessageAdded, MessageAdded
  <2>5. QED
    BY <1>6, <2>2, <2>3, <2>4 DEF ItemsSignal
<1>11. ASSUME NEW m \in Message, MenusMessageRemoved(k, m)
       PROVE  EntriesOwned'
  <2>1. /\ app' = [app EXCEPT ![a] = RemoveMessage(app[a], m)]
        /\ MESSAGE_REMOVED(a, m)
    BY <1>4, <1>11 DEF MenusMessageRemoved, MessageRemoved, Update
  <2>2. QED
    BY <1>6, <2>1 DEF ItemsSignal
<1>12. QED
  BY <1>1, <1>7, <1>8, <1>9, <1>10, <1>11

\* A reply is one of the remote itself, which stays.
LEMMA OwnedReply ==
  ASSUME MenusInv, EntriesOwned, NEW k \in Requests,
         MenusSourcesListed(k) \/ MenusMessagesListed(k)
  PROVE  EntriesOwned'
<1>1. PICK kind : Completes(kind, k)
  BY DEF MenusSourcesListed, MenusMessagesListed, SourcesListed, MessagesListed
<1>2. IndInv /\ Live(k) /\ listed' = listed /\ request' = request
  BY <1>1 DEF MenusInv, Completes, Current, Live
<1>3. PICK a \in listed : a = Requester(k)
  BY <1>2, LiveIsListed
<1>4. a \in App /\ Owned(a)
  BY <1>2, <1>3, ListTypes DEF Owned
<1>5. ASSUME NEW items, NEW order, NEW orders, NEW y,
             app' = [app EXCEPT ![a] = y],
             y = AddSources(app[a], items) \/ y = AddMessages(app[a], items),
             ItemsSignal(a, items, order, orders, 0, 0, 0)
      PROVE  EntriesOwned'
  <2>1. \A b \in App : app'[b].proxy = app[b].proxy
    BY <1>4, <1>5, RemotesStay
  <2>2. \A n \in Requests : Live(n) => Live(n)'
    BY <1>1, <1>2, <2>1, LiveCompletes
  <2>3. QED
    BY <1>2, <1>4, <1>5, <2>2, OwnedItems
<1>6. CASE MenusSourcesListed(k)
  <2>1. PICK items, order : /\ SourcesListed(k, items)
                            /\ SOURCES_ADDED(a, items, order)
    BY <1>3, <1>6 DEF MenusSourcesListed
  <2>2. app' = [app EXCEPT ![a] = AddSources(app[a], items)]
    BY <1>3, <2>1 DEF SourcesListed
  <2>3. QED
    BY <1>5, <2>1, <2>2 DEF ItemsSignal
<1>7. CASE MenusMessagesListed(k)
  <2>1. PICK items \in Calmly(MessageReply), orders \in MessageOrder :
          /\ MessagesListed(k, items)
          /\ MESSAGES_ADDED(a, items, orders)
    BY <1>3, <1>7 DEF MenusMessagesListed
  <2>2. app' = [app EXCEPT ![a] = AddMessages(app[a], items)]
    BY <1>3, <2>1 DEF MessagesListed
  <2>3. orders \in Seq([id : Message, time : Time])
    BY OrderTypes
  <2>4. QED
    BY <1>5, <2>1, <2>2, <2>3 DEF ItemsSignal
<1>8. QED
  BY <1>6, <1>7

\* The user activates an item, of an application that has a proxy, or clears.
LEMMA OwnedUser ==
  ASSUME MenusInv, EntriesOwned, MenusUser
  PROVE  EntriesOwned'
<1>1. IndInv
  BY DEF MenusInv
<1>2. ASSUME NEW a \in App, HasItems(app[a]), NEW s, NEW m, NEW y,
             UNCHANGED <<listed, calls>>, app' = [app EXCEPT ![a] = y],
             \/ y = RemoveSource(app[a], s) /\ SOURCE_REMOVED(a, s)
             \/ y = RemoveMessage(app[a], m) /\ MESSAGE_REMOVED(a, m)
      PROVE  EntriesOwned'
  <2>1. Owned(a) /\ a \in listed
    BY <1>1, <1>2, ListTypes DEF IndInv, ItemsHaveAProxy, Owned
  <2>2. UNCHANGED <<request, pending, leaked>>
    BY <1>2 DEF calls
  <2>3. \A b \in App : app'[b].proxy = app[b].proxy
    BY <1>2, RemotesStay
  <2>4. \A n \in Requests : Live(n) => Live(n)'
    BY <1>1, <2>2, <2>3, LiveKept
  <2>5. ItemsSignal(a, 0, 0, 0, s, 0, m)
    BY <1>2 DEF ItemsSignal
  <2>6. QED
    BY <1>2, <2>1, <2>2, <2>4, <2>5, OwnedItems
<1>3. ASSUME NEW a \in App, NEW s \in Source, MenusSourceActivated(a, s)
      PROVE  EntriesOwned'
  <2>1. /\ HasItems(app[a]) /\ UNCHANGED <<listed, calls>>
        /\ app' = [app EXCEPT ![a] = RemoveSource(app[a], s)] /\ SOURCE_REMOVED(a, s)
    BY <1>3 DEF MenusSourceActivated, SourceActivated, HasItems, Update
  <2>2. QED
    BY <1>2, <2>1
<1>4. ASSUME NEW a \in App, NEW m \in Message, MenusMessageActivated(a, m)
      PROVE  EntriesOwned'
  <2>1. /\ HasItems(app[a]) /\ UNCHANGED <<listed, calls>>
        /\ app' = [app EXCEPT ![a] = RemoveMessage(app[a], m)] /\ MESSAGE_REMOVED(a, m)
    BY <1>4 DEF MenusMessageActivated, MessageActivated, HasItems, Update
  <2>2. QED
    BY <1>2, <2>1
<1>5. CASE MenusRemoveAll
  <2>1. PICK ms \in PhoneSection : ms = << >>
    BY EmptyPhoneFacts DEF PhoneRecord
  <2>2. /\ phone \in PhoneRecord /\ desktop \in DesktopRecord
        /\ DOMAIN desktop.entries = listed
    BY ListTypes DEF WellFormed, Placed
  <2>3. phone'.messages = << >>
    BY <1>5, <2>1, <2>2, UpdateClearFacts DEF MenusRemoveAll, REMOVE_ALL, Phone!ClearPhone
  <2>4. desktop' = [desktop EXCEPT !.entries = [b \in DOMAIN @ |-> << >>]] /\ listed' = listed
    BY <1>5 DEF MenusRemoveAll, RemoveAll, REMOVE_ALL, Desktop!ClearDesktop
  <2>5. \A b \in listed' : desktop'.entries[b] = << >>
    BY <2>2, <2>4 DEF DesktopRecord
  <2>6. QED
    BY <2>3, <2>5 DEF EntriesOwned, Entered, OfApp
<1>6. QED
  BY <1>3, <1>4, <1>5 DEF MenusUser

\* Steps without a signal keep every proxy.
LEMMA OwnedUnsignalled ==
  ASSUME MenusInv, EntriesOwned, Unsignalled
  PROVE  EntriesOwned'
<1>1. UNCHANGED <<phone, desktop>> /\ IndInv
  BY DEF Unsignalled, MenusInv
<1>2. ASSUME NEW n \in Requests, ProxyCreated(n)
      PROVE  EntriesOwned'
  <2>1. listed' = listed /\ request' = request
    BY <1>2 DEF ProxyCreated
  <2>2. \A k \in Requests : Live(k) => Live(k)'
    BY <1>1, <1>2, LiveCreated
  <2>3. QED
    BY <1>1, <2>1, <2>2, OwnedIdle
<1>3. ASSUME NEW n \in Requests, NEW kind, ListFailed(kind, n)
      PROVE  EntriesOwned'
  <2>1. /\ Completes(kind, n) /\ listed' = listed /\ request' = request
        /\ \A b \in App : app'[b].proxy = app[b].proxy
    BY <1>3 DEF ListFailed, Completes
  <2>2. \A k \in Requests : Live(k) => Live(k)'
    BY <1>1, <2>1, LiveCompletes
  <2>3. QED
    BY <1>1, <2>1, <2>2, OwnedIdle
<1>4. ASSUME UNCHANGED <<app, listed, calls>>
      PROVE  EntriesOwned'
  <2>1. UNCHANGED <<listed, request, pending, leaked>>
        /\ \A b \in App : app'[b].proxy = app[b].proxy
    BY <1>4 DEF calls
  <2>2. \A k \in Requests : Live(k) => Live(k)'
    BY <1>1, <2>1, LiveKept
  <2>3. QED
    BY <1>1, <2>1, <2>2, OwnedIdle
<1>5. ASSUME NEW n \in Requests, NEW kind, ListCrashed(kind, n)
      PROVE  EntriesOwned'
  BY <1>4, <1>5 DEF ListCrashed
<1>6. ASSUME NEW c \in Conn, Disconnect(c)
      PROVE  EntriesOwned'
  BY <1>4, <1>6 DEF Disconnect
<1>7. QED
  BY <1>2, <1>3, <1>5, <1>6 DEF Unsignalled

\* A process that starts has empty menus.
LEMMA OwnedRestart ==
  ASSUME MenusInv, MenusRestart
  PROVE  EntriesOwned'
<1>1. PICK L \in SUBSET App : L = stored
  BY DEF MenusInv, IndInv, TypeOK
<1>2. /\ listed' = L /\ phone'.messages = << >>
      /\ \E order \in SetToSeqs(L) : \E mailers \in {{}} \cup {{a} : a \in L} :
           desktop' = Desktop!Constructed(order, mailers)
  BY <1>1, EmptyPhoneFacts DEF MenusRestart, Restart, MenusStart
<1>3. \A b \in L : desktop'.entries[b] = << >>
  BY <1>2, StartIsEmpty
<1>4. QED
  BY <1>2, <1>3 DEF EntriesOwned, Entered, OfApp

LEMMA OwnedInit == MenusInit => EntriesOwned
<1> SUFFICES ASSUME MenusInit PROVE EntriesOwned
  OBVIOUS
<1>1. PICK L \in SUBSET App : L = listed
  BY DEF MenusInit, Init, Start
<1>2. /\ phone.messages = << >>
      /\ \E order \in SetToSeqs(L) : \E mailers \in {{}} \cup {{a} : a \in L} :
           desktop = Desktop!Constructed(order, mailers)
  BY <1>1, EmptyPhoneFacts DEF MenusInit, Phone!PhoneInit
<1>3. \A b \in listed : desktop.entries[b] = << >>
  BY <1>1, <1>2, StartIsEmpty
<1>4. QED
  BY <1>2, <1>3, OwnedEmpty

LEMMA OwnedNext == MenusInv /\ EntriesOwned /\ [MenusNext]_menusVars => EntriesOwned'
<1> SUFFICES ASSUME MenusInv, EntriesOwned, [MenusNext]_menusVars PROVE EntriesOwned'
  OBVIOUS
<1>1. IndInv
  BY DEF MenusInv
<1>2. CASE UNCHANGED menusVars
  <2>1. UNCHANGED <<phone, desktop, app, listed, request, pending, leaked>>
    BY <1>2 DEF menusVars, vars
  <2>2. \A k \in Requests : Live(k) => Live(k)'
    BY <1>1, <2>1, LiveKept
  <2>3. QED
    BY <2>1, <2>2, OwnedIdle
<1>3. ASSUME NEW a \in App, NEW c \in Conn, MenusRegister(a, c) PROVE EntriesOwned'
  BY <1>3, OwnedRegister
<1>4. ASSUME NEW a \in App, MenusUnregister(a) PROVE EntriesOwned'
  BY <1>4, OwnedUnregister
<1>5. ASSUME NEW a \in App, MenusApplicationStopped(a) PROVE EntriesOwned'
  <2>1. /\ a \in listed /\ UnsetRemote(a) /\ StoppedIfRunning(a)
        /\ UNCHANGED <<listed, request, pending, leaked>>
    BY <1>5 DEF MenusApplicationStopped, ApplicationStopped
  <2>2. QED
    BY <2>1, OwnedStopped
<1>6. ASSUME NEW k \in Requests, MenusVanished(k) PROVE EntriesOwned'
  <2>1. /\ k \in watch /\ UnsetRemote(Requester(k)) /\ StoppedIfRunning(Requester(k))
        /\ UNCHANGED <<listed, request, pending, leaked>>
    BY <1>6 DEF MenusVanished, Vanished
  <2>2. PICK a \in listed : a = Requester(k)
    BY <1>1, <2>1, RequesterListed
  <2>3. QED
    BY <2>1, <2>2, OwnedStopped
<1>7. QED
  BY <1>2, <1>3, <1>4, <1>5, <1>6, OwnedReply, OwnedSignal, OwnedUser, OwnedUnsignalled,
     OwnedRestart DEF MenusNext

(***************************************************************************)
(* EntriesHaveAProxy is an invariant, for any number of applications,      *)
(* items and registrations: what is in the menus of an application came    *)
(* through a proxy that is still connected, since every step that takes    *)
(* the last proxy of an application emits app-stopped in the same step.    *)
(***************************************************************************)
THEOREM EntriesCorrect == MenusSpec => []EntriesHaveAProxy
<1>1. MenusInv /\ EntriesOwned => EntriesHaveAProxy
  <2> SUFFICES ASSUME MenusInv, EntriesOwned, NEW a \in listed, HasEntries(a)
               PROVE  \E k \in Requests : Requester(k) = a /\ Live(k)
    BY DEF EntriesHaveAProxy
  <2>1. Entered(a)
    BY DEF HasEntries, Entered, OfApp, ToSet
  <2>2. a \in App
    BY ListTypes
  <2>3. QED
    BY <2>1, <2>2 DEF EntriesOwned, Owned
<1>2. QED
  BY <1>1, OwnedInit, OwnedNext, MenusInductive, PTL DEF MenusSpec

=============================================================================
