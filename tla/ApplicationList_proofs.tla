----------------------- MODULE ApplicationList_proofs -----------------------
(***************************************************************************)
(* Proofs about ApplicationList.  IndInv is inductive; each safety         *)
(* invariant follows from it, and SectionsStay from it and one look at     *)
(* every action.  The proof that a step preserves IndInv goes by kinds of  *)
(* step: one that edits the items of one application (InvEdit), one that   *)
(* leaves the applications alone (InvIdle), one that unsets a remote       *)
(* (InvUnset), and by themselves those that register, connect, clear and   *)
(* restart.                                                                *)
(***************************************************************************)
EXTENDS ApplicationList, TLAPS, SequenceTheorems

-----------------------------------------------------------------------------

(* Lemmas on the record of one application. *)

\* The record of an application at rest is well-formed.
LEMMA StoppedType == Stopped \in Application
BY MaxRequestAssumption, SMT DEF Stopped, Application, RequestOrNull, SourceState, MessageState

\* An application at rest has nothing to show.
LEMMA StoppedIsEmpty ==
  ~HasItems(Stopped) /\ ~Drawing(Stopped) /\ ~Stopped.draws /\ FlagFits(Stopped)
BY DEF Stopped, HasItems, Drawing, FlagFits

\* application_update_draws_attention makes the flag agree with the items.
LEMMA RecomputedFacts ==
  ASSUME NEW x \in Application
  PROVE  /\ Recomputed(x) \in Application
         /\ Recomputed(x).proxy = x.proxy
         /\ Recomputed(x).cancellable = x.cancellable
         /\ Recomputed(x).launch = x.launch
         /\ FlagFits(Recomputed(x))
         /\ HasItems(Recomputed(x)) => HasItems(x)
BY DEF Recomputed, Application, Drawing, HasItems, FlagFits

\* Adding sources keeps the references and only ever raises the flag.
LEMMA AddSourcesFacts ==
  ASSUME NEW x \in Application, NEW S \in SUBSET Source,
         NEW items \in [S -> SourceState \ {"absent"}],
         FlagFits(x)
  PROVE  LET y == AddSources(x, items) IN
         /\ y \in Application
         /\ y.proxy = x.proxy /\ y.cancellable = x.cancellable
         /\ y.launch = x.launch
         /\ FlagFits(y)
         /\ HasItems(x) => HasItems(y)
         /\ x.draws => y.draws
         /\ S = {} => (HasItems(y) => HasItems(x)) /\ y.draws = x.draws
<1>1. AddSources(x, items) \in Application
  BY DEF AddSources, Application
<1>2. QED
  BY <1>1 DEF AddSources, Application, Drawing, HasItems, FlagFits

\* Adding messages keeps the references and only ever raises the flag.
LEMMA AddMessagesFacts ==
  ASSUME NEW x \in Application, NEW M \in SUBSET Message,
         NEW items \in [M -> MessageState \ {"absent"}],
         FlagFits(x)
  PROVE  LET y == AddMessages(x, items) IN
         /\ y \in Application
         /\ y.proxy = x.proxy /\ y.cancellable = x.cancellable
         /\ y.launch = x.launch
         /\ FlagFits(y)
         /\ HasItems(x) => HasItems(y)
         /\ x.draws => y.draws
<1>1. AddMessages(x, items) \in Application
  BY DEF AddMessages, Application
<1>2. QED
  BY <1>1 DEF AddMessages, Application, Drawing, HasItems, FlagFits

\* Changing a source adds no item and recomputes the flag.
LEMMA ChangeSourceFacts ==
  ASSUME NEW x \in Application, NEW s \in Source, NEW v \in SourceState \ {"absent"}
  PROVE  LET y == ChangeSource(x, s, v) IN
         /\ y \in Application
         /\ y.proxy = x.proxy /\ y.cancellable = x.cancellable
         /\ y.launch = x.launch
         /\ FlagFits(y)
         /\ HasItems(y) => HasItems(x)
<1> DEFINE z == [x EXCEPT !.sources[s] = IF @ = "absent" THEN @ ELSE v]
<1>1. z \in Application /\ z.proxy = x.proxy /\ z.cancellable = x.cancellable
      /\ z.launch = x.launch
  BY DEF Application
<1>2. HasItems(z) => HasItems(x)
  BY DEF HasItems, Application
<1>3. QED
  BY <1>1, <1>2, RecomputedFacts DEF ChangeSource

\* Removing a source keeps the references and recomputes the flag.
LEMMA RemoveSourceFacts ==
  ASSUME NEW x \in Application, NEW s \in Source
  PROVE  LET y == RemoveSource(x, s) IN
         /\ y \in Application
         /\ y.proxy = x.proxy /\ y.cancellable = x.cancellable
         /\ y.launch = x.launch
         /\ FlagFits(y)
         /\ HasItems(y) => HasItems(x)
<1> DEFINE z == [x EXCEPT !.sources[s] = "absent"]
<1>1. z \in Application /\ z.proxy = x.proxy /\ z.cancellable = x.cancellable
      /\ z.launch = x.launch
  BY DEF Application, SourceState
<1>2. HasItems(z) => HasItems(x)
  BY DEF HasItems, Application
<1>3. QED
  BY <1>1, <1>2, RecomputedFacts DEF RemoveSource

\* Removing a message keeps the references and recomputes the flag.
LEMMA RemoveMessageFacts ==
  ASSUME NEW x \in Application, NEW m \in Message
  PROVE  LET y == RemoveMessage(x, m) IN
         /\ y \in Application
         /\ y.proxy = x.proxy /\ y.cancellable = x.cancellable
         /\ y.launch = x.launch
         /\ FlagFits(y)
         /\ HasItems(y) => HasItems(x)
<1> DEFINE z == [x EXCEPT !.messages[m] = "absent"]
<1>1. z \in Application /\ z.proxy = x.proxy /\ z.cancellable = x.cancellable
      /\ z.launch = x.launch
  BY DEF Application, MessageState
<1>2. HasItems(z) => HasItems(x)
  BY DEF HasItems, Application
<1>3. QED
  BY <1>1, <1>2, RecomputedFacts DEF RemoveMessage

\* Clearing an application leaves it without items and calm.
LEMMA ClearItemsFacts ==
  ASSUME NEW x \in Application
  PROVE  LET y == ClearItems(x) IN
         /\ y \in Application
         /\ y.proxy = x.proxy /\ y.cancellable = x.cancellable
         /\ y.launch = x.launch
         /\ ~Drawing(y) /\ ~HasItems(y) /\ FlagFits(y)
BY StoppedType DEF ClearItems, Application, Stopped, Drawing, HasItems, FlagFits

\* Removing one element of a sequence: its type, length and elements.
LEMMA RemoveAtFacts ==
  ASSUME NEW T, NEW s \in Seq(T), NEW i \in 1..Len(s)
  PROVE  /\ RemoveAt(s, i) \in Seq(T)
         /\ Len(RemoveAt(s, i)) = Len(s) - 1
         /\ \A j \in 1..(Len(s) - 1) :
              RemoveAt(s, i)[j] = IF j < i THEN s[j] ELSE s[j + 1]
<1> DEFINE head == SubSeq(s, 1, i - 1)
           tail == SubSeq(s, i + 1, Len(s))
<1>0. Len(s) \in Nat /\ i \in Nat /\ i >= 1 /\ i <= Len(s)
  BY LenProperties
<1>1. /\ head \in Seq(T) /\ Len(head) = i - 1
      /\ \A j \in 1..(i - 1) : head[j] = s[j]
  <2>1. \A j \in 1..(i - 1) : s[j] \in T
    BY <1>0, ElementOfSeq
  <2>2. QED
    BY <1>0, <2>1, SubSeqProperties
<1>2. /\ tail \in Seq(T) /\ Len(tail) = Len(s) - i
      /\ \A j \in 1..(Len(s) - i) : tail[j] = s[i + j]
  <2>1. \A j \in (i + 1)..Len(s) : s[j] \in T
    BY <1>0, ElementOfSeq
  <2>2. QED
    BY <1>0, <2>1, SubSeqProperties
<1> HIDE DEF head, tail
<1>3. /\ head \o tail \in Seq(T)
      /\ Len(head \o tail) = Len(head) + Len(tail)
      /\ \A j \in 1..(Len(head) + Len(tail)) :
           (head \o tail)[j] = IF j <= Len(head) THEN head[j] ELSE tail[j - Len(head)]
  BY <1>1, <1>2, ConcatProperties
<1>4. RemoveAt(s, i) = head \o tail
  BY DEF RemoveAt, head, tail
<1>5. ASSUME NEW j \in 1..(Len(s) - 1)
      PROVE  RemoveAt(s, i)[j] = IF j < i THEN s[j] ELSE s[j + 1]
  <2>1. RemoveAt(s, i)[j] = IF j <= i - 1 THEN head[j] ELSE tail[j - (i - 1)]
    BY <1>0, <1>1, <1>2, <1>3, <1>4
  <2>2. CASE j < i
    BY <1>0, <1>1, <2>1, <2>2
  <2>3. CASE ~(j < i)
    <3>1. j - (i - 1) \in 1..(Len(s) - i) /\ i + (j - (i - 1)) = j + 1
      BY <1>0, <2>3
    <3>2. QED
      BY <1>0, <1>2, <2>1, <2>3, <3>1
  <2>4. QED
    BY <2>2, <2>3
<1>6. RemoveAt(s, i) \in Seq(T) /\ Len(RemoveAt(s, i)) = Len(s) - 1
  <2>1. (i - 1) + (Len(s) - i) = Len(s) - 1
    BY <1>0
  <2>2. QED
    BY <1>1, <1>2, <1>3, <1>4, <2>1
<1>7. QED
  BY <1>5, <1>6

\* What is left after a removal was there before, and only one element goes.
LEMMA RemoveAtElements ==
  ASSUME NEW T, NEW s \in Seq(T), NEW i \in DOMAIN s
  PROVE  LET r == RemoveAt(s, i) IN
         /\ r \in Seq(T)
         /\ \A j \in DOMAIN r : \E n \in DOMAIN s : r[j] = s[n]
         /\ \A n \in DOMAIN s : n # i => \E j \in DOMAIN r : r[j] = s[n]
<1> DEFINE r == RemoveAt(s, i)
<1>1. Len(s) \in Nat /\ DOMAIN s = 1..Len(s) /\ i \in 1..Len(s)
  BY LenProperties
<1>2. /\ r \in Seq(T) /\ Len(r) = Len(s) - 1
      /\ \A j \in 1..(Len(s) - 1) : r[j] = IF j < i THEN s[j] ELSE s[j + 1]
  BY <1>1, RemoveAtFacts
<1> HIDE DEF r
<1>3. DOMAIN r = 1..(Len(s) - 1)
  BY <1>2, LenProperties
<1>4. ASSUME NEW j \in DOMAIN r PROVE \E n \in DOMAIN s : r[j] = s[n]
  <2>1. CASE j < i
    BY <1>1, <1>2, <1>3, <2>1
  <2>2. CASE ~(j < i)
    <3>1. j + 1 \in DOMAIN s /\ r[j] = s[j + 1]
      BY <1>1, <1>2, <1>3, <2>2
    <3>2. QED
      BY <3>1
  <2>3. QED
    BY <2>1, <2>2
<1>5. ASSUME NEW n \in DOMAIN s, n # i PROVE \E j \in DOMAIN r : r[j] = s[n]
  <2>1. CASE n < i
    BY <1>1, <1>2, <1>3, <2>1
  <2>2. CASE n > i
    <3>1. n - 1 \in DOMAIN r /\ r[n - 1] = s[n]
      <4>1. /\ n - 1 \in 1..(Len(s) - 1) /\ ~(n - 1 < i) /\ (n - 1) + 1 = n
        BY <1>1, <2>2
      <4>2. QED
        BY <1>2, <1>3, <4>1
    <3>2. QED
      BY <3>1
  <2>3. QED
    BY <1>1, <1>5, <2>1, <2>2
<1>6. QED
  BY <1>2, <1>4, <1>5 DEF r

-----------------------------------------------------------------------------
(* Facts about a state that satisfies the invariant.                       *)

\* A registration that was made has an application and an owner.
LEMMA RequestType ==
  ASSUME TypeOK, NEW k \in Requests
  PROVE  Requester(k) \in App /\ Owner(k) \in Conn
<1>1. request[k] \in [app : App, owner : Conn]
  BY ElementOfSeq DEF TypeOK, Requests
<1>2. QED
  BY <1>1 DEF Requester, Owner

\* The registrations made so far are within the bound.
LEMMA RequestsAreIds == TypeOK => Requests \in SUBSET RequestId /\ Len(request) \in Nat
BY LenProperties, MaxRequestAssumption DEF TypeOK, Requests, RequestId

\* The proxies that still exist belong to listed applications.
LEMMA LiveIsListed ==
  ASSUME IndInv, NEW k \in Requests, Live(k)
  PROVE  Requester(k) \in listed /\ Requester(k) \in App
<1>1. Requester(k) \in App
  BY RequestType DEF IndInv
<1>2. CASE app[Requester(k)].proxy = k
  <2>1. k # 0
    BY DEF Requests
  <2>2. app[Requester(k)] # Stopped
    BY <1>2, <2>1 DEF Stopped
  <2>3. QED
    BY <1>1, <2>2 DEF IndInv, Known
<1>3. CASE k \in leaked
  BY <1>1, <1>3 DEF IndInv, Known
<1>4. CASE \E i \in DOMAIN pending : pending[i].req = k
  BY <1>1, <1>4 DEF IndInv, Known
<1>5. QED
  BY <1>2, <1>3, <1>4 DEF Live

\* The root action computed from the applications satisfies its invariants.
LEMMA RootFacts ==
  ASSUME root' = Root(app', listed')
  PROVE  /\ root' \in [draws : BOOLEAN, visible : BOOLEAN, clear : BOOLEAN]
         /\ RootReflectsApps'
         /\ ClearOnlyWithItems'
BY DEF Root, RootReflectsApps, ClearOnlyWithItems

-----------------------------------------------------------------------------
(* Preservation of the invariant, by the shape of the step.                *)

(***************************************************************************)
(* A step that edits the items of one listed application, and may take one *)
(* call on its remote off the pending ones: signals, list replies,         *)
(* activations.                                                            *)
(***************************************************************************)
LEMMA InvEdit ==
  ASSUME IndInv, NEW a \in App, NEW y \in Application,
         y.proxy = app[a].proxy, y.cancellable = app[a].cancellable,
         FlagFits(y),
         HasItems(y) => \/ HasItems(app[a])
                        \/ \E k \in Requests : Requester(k) = a /\ Live(k),
         a \in listed,
         app' = [app EXCEPT ![a] = y],
         \/ root' = Root(app', listed)
         \/ /\ root' = root /\ y.draws = app[a].draws
            /\ HasItems(app[a]) => HasItems(y),
         \/ pending' = pending
         \/ \E i \in DOMAIN pending : /\ pending' = RemoveAt(pending, i)
                                      /\ pending[i].req = app[a].proxy,
         stored' \in SUBSET App, alive' \in SUBSET Conn, crashed' \in BOOLEAN,
         UNCHANGED <<listed, request, cancelled, leaked, watch>>
  PROVE  IndInv'
<1> USE DEF IndInv
<1>1. /\ pending' \in Seq(Operation)
      /\ \A j \in DOMAIN pending' : \E n \in DOMAIN pending : pending'[j] = pending[n]
      /\ \A n \in DOMAIN pending : \/ pending[n].req = app[a].proxy
                                   \/ \E j \in DOMAIN pending' : pending'[j] = pending[n]
  <2>1. pending \in Seq(Operation)
    BY DEF TypeOK
  <2>2. CASE pending' = pending
    BY <2>1, <2>2
  <2>3. CASE \E i \in DOMAIN pending : /\ pending' = RemoveAt(pending, i)
                                       /\ pending[i].req = app[a].proxy
    <3>1. PICK i \in DOMAIN pending : /\ pending' = RemoveAt(pending, i)
                                       /\ pending[i].req = app[a].proxy
      BY <2>3
    <3>2. QED
      BY <2>1, <3>1, RemoveAtElements
  <2>4. QED
    BY <2>2, <2>3
<1>2. /\ app' \in [App -> Application]
      /\ app'[a] = y
      /\ \A b \in App \ {a} : app'[b] = app[b]
  BY DEF TypeOK
<1>3. TypeOK'
  <2>1. root' \in [draws : BOOLEAN, visible : BOOLEAN, clear : BOOLEAN]
    BY RootFacts, root' = Root(app', listed') \/ root' = root DEF TypeOK
  <2>2. QED
    BY <1>1, <1>2, <2>1 DEF TypeOK
<1>4. /\ \A b \in App : app'[b].proxy = app[b].proxy
      /\ \A b \in App : app'[b].cancellable = app[b].cancellable
  BY <1>2
<1>5. Issued'
  BY <1>1, <1>4 DEF Issued, Requests
<1>6. Own'
  BY <1>4 DEF Own, Requester
<1>7. Known'
  BY <1>1, <1>2 DEF Known, Requester
<1>8. Flagged'
  BY <1>2 DEF Flagged
<1>9. RootReflectsApps' /\ ClearOnlyWithItems'
  <2>1. CASE root' = Root(app', listed)
    BY <2>1, RootFacts
  <2>2. CASE /\ root' = root /\ y.draws = app[a].draws
             /\ HasItems(app[a]) => HasItems(y)
    <3>1. \A b \in listed : app'[b].draws = app[b].draws
      BY <1>2, <2>2 DEF TypeOK
    <3>2. \A b \in listed : HasItems(app[b]) => HasItems(app'[b])
      BY <1>2, <2>2 DEF TypeOK
    <3>3. QED
      BY <2>2, <3>1, <3>2 DEF RootReflectsApps, ClearOnlyWithItems
  <2>3. QED
    BY <2>1, <2>2
<1>10. CancelledNeverRemote'
  BY <1>4 DEF CancelledNeverRemote
<1>11. ItemsHaveAProxy'
  <2>1. ASSUME NEW k \in Requests, Live(k)
        PROVE  Live(k)'
    <3>1. Requester(k) \in App
      BY <2>1, LiveIsListed
    <3>2. CASE app[Requester(k)].proxy = k \/ k \in leaked
      BY <1>4, <3>1, <3>2 DEF Live, Requester
    <3>3. CASE \E i \in DOMAIN pending : pending[i].req = k /\ pending[i].kind # "create"
      <4>1. PICK n \in DOMAIN pending : pending[n].req = k /\ pending[n].kind # "create"
        BY <3>3
      <4>2. CASE k = app[a].proxy
        <5>1. Requester(k) = a
          BY <4>2 DEF Own, Requests
        <5>2. QED
          BY <1>4, <4>2, <5>1 DEF Live, Requester
      <4>3. CASE k # app[a].proxy
        BY <1>1, <4>1, <4>3 DEF Live
      <4>4. QED
        BY <4>2, <4>3
    <3>4. QED
      BY <2>1, <3>2, <3>3 DEF Live
  <2>2. \A b \in App : HasItems(app'[b]) =>
          \E k \in Requests : Requester(k) = b /\ Live(k)
    BY <1>2 DEF ItemsHaveAProxy
  <2>3. Requests' = Requests /\ \A k : Requester(k)' = Requester(k)
    BY DEF Requests, Requester
  <2>4. QED
    BY <2>1, <2>2, <2>3 DEF ItemsHaveAProxy
<1>12. QED
  BY <1>3, <1>5, <1>6, <1>7, <1>8, <1>9, <1>10, <1>11

\* A step that leaves the applications alone: the root action at most refreshed.
LEMMA InvIdle ==
  ASSUME IndInv,
         root' = root \/ root' = Root(app', listed'),
         stored' \in SUBSET App, alive' \in SUBSET Conn, crashed' \in BOOLEAN,
         UNCHANGED <<app, listed, calls>>
  PROVE  IndInv'
<1> USE DEF IndInv, calls
<1>1. /\ root' \in [draws : BOOLEAN, visible : BOOLEAN, clear : BOOLEAN]
      /\ RootReflectsApps' /\ ClearOnlyWithItems'
  <2>1. CASE root' = root
    BY <2>1 DEF TypeOK, RootReflectsApps, ClearOnlyWithItems
  <2>2. CASE root' = Root(app', listed')
    BY <2>2, RootFacts
  <2>3. QED
    BY <2>1, <2>2
<1>2. TypeOK'
  BY <1>1 DEF TypeOK
<1>3. Issued' /\ Own' /\ Known'
  BY DEF Issued, Own, Known, Requests, Requester
<1>4. Flagged' /\ CancelledNeverRemote'
  BY DEF Flagged, CancelledNeverRemote
<1>5. ItemsHaveAProxy'
  BY DEF ItemsHaveAProxy, Requests, Requester, Live
<1>6. QED
  BY <1>1, <1>2, <1>3, <1>4, <1>5

\* im_application_list_unset_remote, with or without a watch that has fired.
LEMMA InvUnset ==
  ASSUME IndInv, NEW a \in App, UnsetRemote(a),
         watch' \in SUBSET watch,
         UNCHANGED <<listed, stored, request, pending, leaked, alive, crashed>>
  PROVE  IndInv'
<1> USE DEF IndInv
<1>1. /\ app' \in [App -> Application]
      /\ app'[a] = Stopped
      /\ \A b \in App \ {a} : app'[b] = app[b]
  BY StoppedType DEF TypeOK, UnsetRemote
<1>2. /\ cancelled' = cancelled \cup ({app[a].cancellable} \ {0})
      /\ root' = Root(app', listed')
  BY DEF UnsetRemote, Cancel
<1>3. Requests' = Requests /\ 0 \notin Requests /\ \A k : Requester(k)' = Requester(k)
  BY DEF Requests, Requester
<1>4. Stopped.proxy = 0 /\ Stopped.cancellable = 0
  BY DEF Stopped
<1>5. Issued'
  BY <1>1, <1>2, <1>3, <1>4 DEF Issued
<1>6. TypeOK'
  <2>1. cancelled' \in SUBSET RequestId
    BY <1>3, <1>5, RequestsAreIds DEF Issued
  <2>2. QED
    BY <1>1, <1>2, <2>1, RootFacts DEF TypeOK
<1>7. Own' /\ Known'
  BY <1>1, <1>3, <1>4 DEF Own, Known
<1>8. Flagged'
  BY <1>1, StoppedIsEmpty DEF Flagged
<1>9. CancelledNeverRemote'
  <2>1. \A b \in App \ {a} : app[b].proxy # app[a].cancellable
                             \/ app[a].cancellable = 0
    BY DEF Own
  <2>2. \A b \in App \ {a} : app[b].cancellable # app[a].cancellable
                             \/ app[a].cancellable = 0
    BY DEF Own
  <2>3. 0 \notin cancelled
    BY <1>3 DEF Issued
  <2>4. QED
    BY <1>1, <1>2, <1>4, <2>1, <2>2, <2>3 DEF CancelledNeverRemote
<1>10. ItemsHaveAProxy'
  <2>1. ASSUME NEW b \in App, HasItems(app'[b])
        PROVE  \E k \in Requests : Requester(k) = b /\ Live(k)'
    <3>1. b # a
      BY <1>1, <2>1, StoppedIsEmpty
    <3>2. PICK k \in Requests : Requester(k) = b /\ Live(k)
      BY <1>1, <2>1, <3>1 DEF ItemsHaveAProxy
    <3>3. Live(k)'
      BY <1>1, <1>3, <3>1, <3>2 DEF Live
    <3>4. QED
      BY <3>2, <3>3
  <2>2. QED
    BY <1>3, <2>1 DEF ItemsHaveAProxy
<1>11. QED
  BY <1>2, <1>5, <1>6, <1>7, <1>8, <1>9, <1>10, RootFacts

\* RegisterApplication, the step with most cases, preserves the invariant.
LEMMA InvRegister ==
  ASSUME IndInv, NEW a \in App, NEW c \in Conn, Register(a, c)
  PROVE  IndInv'
<1> USE DEF IndInv
<1> DEFINE k == Len(request) + 1
           keep == KeepsRemote(a, c)
           z == [(IF keep THEN app[a] ELSE Stopped) EXCEPT !.cancellable = k]
<1>1. /\ k \in RequestId
      /\ request' = Append(request, [app |-> a, owner |-> c])
      /\ pending' = Append(pending, Call("create", k, k))
      /\ app' = [app EXCEPT ![a] = z]
      /\ cancelled' = IF keep THEN cancelled
                      ELSE cancelled \cup ({app[a].cancellable} \ {0})
      /\ listed' = listed \cup {a}
      /\ stored' = stored \cup {a}
      /\ root' = IF a \in listed /\ keep THEN root ELSE Root(app', listed')
      /\ UNCHANGED <<leaked, watch, alive, crashed>>
  BY DEF Register, ListAdd, SetRemote, Cancel, Store
<1>2. /\ request' \in Seq([app : App, owner : Conn])
      /\ Len(request') = k /\ Len(request) \in Nat
      /\ \A n \in Requests : request'[n] = request[n]
      /\ request'[k] = [app |-> a, owner |-> c]
  BY <1>1, AppendProperties, LenProperties DEF TypeOK, Requests
<1>3. /\ Requests' = Requests \cup {k} /\ k \notin Requests /\ 0 \notin Requests'
      /\ \A n \in Requests : Requester(n)' = Requester(n)
      /\ request'[k].app = a
      /\ k # 0
  <2>1. Requests' = Requests \cup {k} /\ k \notin Requests /\ 0 \notin Requests' /\ k # 0
    BY <1>2 DEF Requests
  <2>2. QED
    BY <1>2, <2>1 DEF Requester
<1>4. /\ pending' \in Seq(Operation)
      /\ DOMAIN pending \subseteq DOMAIN pending'
      /\ \A j \in DOMAIN pending : pending'[j] = pending[j]
      /\ \A j \in DOMAIN pending' : \/ j \in DOMAIN pending
                                    \/ pending'[j] = Call("create", k, k)
  <2>1. Call("create", k, k) \in Operation
    BY <1>1 DEF Call, Operation, RequestId, RequestOrNull
  <2>2. QED
    BY <1>1, <2>1, AppendProperties, LenProperties DEF TypeOK
<1>5. z \in Application
  <2>1. (IF keep THEN app[a] ELSE Stopped) \in Application
    BY StoppedType DEF TypeOK
  <2>2. k \in RequestOrNull
    BY <1>1 DEF RequestId, RequestOrNull
  <2>3. QED
    BY <2>1, <2>2 DEF Application
<1>6. /\ app' \in [App -> Application] /\ app'[a] = z
      /\ \A b \in App \ {a} : app'[b] = app[b]
  BY <1>1, <1>5 DEF TypeOK
<1>7. /\ z.cancellable = k
      /\ z.proxy = IF keep THEN app[a].proxy ELSE 0
      /\ z.draws = IF keep THEN app[a].draws ELSE FALSE
      /\ HasItems(z) = (keep /\ HasItems(app[a]))
      /\ Drawing(z) = (keep /\ Drawing(app[a]))
  BY DEF TypeOK, Application, Stopped, HasItems, Drawing
<1> HIDE DEF k, keep, z
<1>8. Issued'
  <2>1. \A j \in DOMAIN pending' : /\ pending'[j].req \in Requests'
                                   /\ pending'[j].canc \in Requests' \cup {0}
    BY <1>3, <1>4 DEF Issued, Call
  <2>2. \A b \in App : /\ app'[b].proxy \in Requests' \cup {0}
                       /\ app'[b].cancellable \in Requests' \cup {0}
    BY <1>3, <1>6, <1>7 DEF Issued
  <2>3. QED
    BY <1>1, <1>3, <2>1, <2>2 DEF Issued
<1>9. TypeOK'
  <2>1. cancelled' \in SUBSET RequestId /\ Len(request') <= MaxRequest
    <3>1. Len(request') <= MaxRequest
      BY <1>1, <1>2 DEF RequestId
    <3>2. cancelled' \subseteq Requests \cup {k}
      BY <1>1 DEF Issued
    <3>3. QED
      BY <1>1, <3>1, <3>2, RequestsAreIds
  <2>2. root' \in [draws : BOOLEAN, visible : BOOLEAN, clear : BOOLEAN]
    BY <1>1, RootFacts DEF TypeOK
  <2>3. QED
    BY <1>1, <1>2, <1>4, <1>6, <2>1, <2>2 DEF TypeOK
<1>10. Own'
  BY <1>3, <1>6, <1>7 DEF Own, Issued, Requester
<1>11. Known'
  <2>1. \A b \in App \ listed' : app'[b] = Stopped
    BY <1>1, <1>6 DEF Known
  <2>2. \A j \in DOMAIN pending' : Requester(pending[j].req)' \in listed'
    <3>1. SUFFICES ASSUME NEW j \in DOMAIN pending'
                   PROVE  request'[pending'[j].req].app \in listed'
      BY DEF Requester
    <3>2. CASE j \in DOMAIN pending
      <4>1. pending'[j].req \in Requests /\ request[pending'[j].req].app \in listed
        BY <1>4, <3>2 DEF Known, Issued, Requester
      <4>2. QED
        BY <1>1, <1>3, <4>1 DEF Requester
    <3>3. CASE pending'[j] = Call("create", k, k)
      <4>1. pending'[j].req = k
        BY <3>3 DEF Call
      <4>2. QED
        BY <1>1, <1>3, <4>1
    <3>4. QED
      BY <1>4, <3>2, <3>3
  <2>3. \A n \in leaked' \cup watch' : Requester(n)' \in listed'
    BY <1>1, <1>3 DEF Known, Issued, Requester
  <2>4. QED
    BY <2>1, <2>2, <2>3 DEF Known, Requester
<1>12. Flagged'
  BY <1>6, <1>7 DEF Flagged, FlagFits
<1>13. RootReflectsApps' /\ ClearOnlyWithItems'
  <2>1. CASE a \in listed /\ keep
    BY <1>1, <1>6, <1>7, <2>1 DEF RootReflectsApps, ClearOnlyWithItems, TypeOK
  <2>2. CASE ~(a \in listed /\ keep)
    BY <1>1, <2>2, RootFacts
  <2>3. QED
    BY <2>1, <2>2
<1>14. CancelledNeverRemote'
  BY <1>1, <1>3, <1>6, <1>7 DEF CancelledNeverRemote, Own, Issued
<1>15. ItemsHaveAProxy'
  <2>1. ASSUME NEW b \in App, HasItems(app'[b])
        PROVE  \E n \in Requests : Requester(n) = b /\ Live(n)'
    <3>1. b # a \/ keep
      BY <1>6, <1>7, <2>1
    <3>2. PICK n \in Requests : Requester(n) = b /\ Live(n)
      BY <1>6, <1>7, <2>1 DEF ItemsHaveAProxy
    <3>3. app'[b].proxy = app[b].proxy
      BY <1>6, <1>7, <3>1
    <3>4. Live(n)'
      BY <1>1, <1>3, <1>4, <3>2, <3>3 DEF Live
    <3>5. QED
      BY <3>2, <3>4
  <2>2. QED
    BY <1>3, <2>1 DEF ItemsHaveAProxy
<1>16. QED
  BY <1>8, <1>9, <1>10, <1>11, <1>12, <1>13, <1>14, <1>15

\* The callback of a proxy's creation, cancelled or not, preserves the invariant.
LEMMA InvProxyCreated ==
  ASSUME IndInv, NEW k \in Requests, ProxyCreated(k)
  PROVE  IndInv'
<1> USE DEF IndInv
<1> DEFINE a == Requester(k)
           p == app[a].proxy
           c == app[a].cancellable
<1>1. PICK i \in Due("create", k) :
        /\ leaked' = leaked \cup ({p} \ {0})
        /\ UNCHANGED <<listed, stored, root, request, cancelled, alive, crashed>>
        /\ \/ /\ k \in cancelled
              /\ app' = [app EXCEPT ![a].proxy = 0]
              /\ pending' = RemoveAt(pending, i)
              /\ UNCHANGED watch
           \/ /\ k \notin cancelled
              /\ app' = [app EXCEPT ![a].proxy = k, ![a].launch = TRUE]
              /\ pending' = RemoveAt(pending, i)
                            \o <<Call("sources", k, c), Call("messages", k, c)>>
              /\ watch' = watch \cup {k}
  BY DEF ProxyCreated, CreationCancelled, Connected, ListBoth
<1>2. i \in DOMAIN pending /\ pending[i].kind = "create" /\ pending[i].req = k
  BY DEF Due
<1>3. /\ a \in App /\ a \in listed
      /\ k \in RequestId /\ 0 \notin Requests
      /\ c \in Requests \cup {0} /\ p \in Requests \cup {0}
  BY <1>2, RequestType, RequestsAreIds DEF Known, Issued, Requests
<1>4. Requests' = Requests /\ \A n : Requester(n)' = Requester(n)
  BY <1>1 DEF Requests, Requester
<1>5. /\ app' \in [App -> Application]
      /\ \A b \in App \ {a} : app'[b] = app[b]
      /\ app'[a].proxy = IF k \in cancelled THEN 0 ELSE k
      /\ app'[a].cancellable = c
      /\ app'[a].draws = app[a].draws
      /\ HasItems(app'[a]) = HasItems(app[a])
      /\ Drawing(app'[a]) = Drawing(app[a])
  <2>1. app[a] \in Application /\ k \in RequestOrNull /\ 0 \in RequestOrNull
    BY <1>3, MaxRequestAssumption DEF TypeOK, RequestId, RequestOrNull
  <2>2. app'[a] = IF k \in cancelled THEN [app[a] EXCEPT !.proxy = 0]
                  ELSE [app[a] EXCEPT !.proxy = k, !.launch = TRUE]
    BY <1>1, <1>3 DEF TypeOK
  <2>3. \A b \in App \ {a} : app'[b] = app[b]
    BY <1>1, <1>3 DEF TypeOK
  <2>4. /\ app'[a] \in Application
        /\ app'[a].proxy = IF k \in cancelled THEN 0 ELSE k
        /\ app'[a].cancellable = c
        /\ app'[a].draws = app[a].draws
        /\ app'[a].sources = app[a].sources
        /\ app'[a].messages = app[a].messages
    BY <2>1, <2>2 DEF Application
  <2>5. app' \in [App -> Application]
    BY <1>1, <2>3, <2>4 DEF TypeOK
  <2>6. QED
    BY <2>3, <2>4, <2>5 DEF HasItems, Drawing
<1>6. /\ pending' \in Seq(Operation)
      /\ \A j \in DOMAIN pending' :
           \/ \E n \in DOMAIN pending : pending'[j] = pending[n]
           \/ pending'[j].req = k /\ pending'[j].canc = c
      /\ \A n \in DOMAIN pending : pending[n].kind # "create" =>
           \E j \in DOMAIN pending' : pending'[j] = pending[n]
  <2> DEFINE r == RemoveAt(pending, i)
             l == <<Call("sources", k, c), Call("messages", k, c)>>
  <2>1. /\ r \in Seq(Operation)
        /\ \A j \in DOMAIN r : \E n \in DOMAIN pending : r[j] = pending[n]
        /\ \A n \in DOMAIN pending : n # i => \E j \in DOMAIN r : r[j] = pending[n]
    BY <1>2, RemoveAtElements DEF TypeOK
  <2>2. CASE pending' = r
    BY <1>2, <2>1, <2>2
  <2>3. CASE pending' = r \o l
    <3>1. Call("sources", k, c) \in Operation /\ Call("messages", k, c) \in Operation
      <4> HIDE DEF a, p, c
      <4>1. c \in RequestOrNull /\ k \in RequestId
        BY <1>3, RequestsAreIds, MaxRequestAssumption DEF RequestId, RequestOrNull
      <4>2. QED
        BY <4>1 DEF Call, Operation
    <3>2. /\ l \in Seq(Operation) /\ Len(l) = 2
          /\ l[1] = Call("sources", k, c) /\ l[2] = Call("messages", k, c)
      BY <3>1
    <3> HIDE DEF r, l
    <3>3. /\ r \o l \in Seq(Operation)
          /\ Len(r \o l) = Len(r) + 2 /\ Len(r) \in Nat
          /\ \A j \in 1..(Len(r) + 2) :
               (r \o l)[j] = IF j <= Len(r) THEN r[j] ELSE l[j - Len(r)]
      <4>1. Len(r) \in Nat
        BY <2>1, LenProperties
      <4>2. /\ r \o l \in Seq(Operation)
            /\ Len(r \o l) = Len(r) + Len(l)
            /\ \A j \in 1..(Len(r) + Len(l)) :
                 (r \o l)[j] = IF j <= Len(r) THEN r[j] ELSE l[j - Len(r)]
        BY <2>1, <3>2, ConcatProperties
      <4>3. QED
        BY <3>2, <4>1, <4>2
    <3>4. DOMAIN (r \o l) = 1..(Len(r) + 2) /\ DOMAIN r = 1..Len(r)
      BY <2>1, <3>3, LenProperties
    <3>5. \A j \in DOMAIN r : j \in DOMAIN (r \o l) /\ (r \o l)[j] = r[j]
      BY <3>3, <3>4
    <3>6. ASSUME NEW j \in DOMAIN (r \o l), j \notin DOMAIN r
          PROVE  (r \o l)[j].req = k /\ (r \o l)[j].canc = c
      <4>1. j - Len(r) = 1 \/ j - Len(r) = 2
        BY <3>3, <3>4, <3>6
      <4>2. (r \o l)[j] = l[j - Len(r)]
        BY <3>3, <3>4, <3>6
      <4>3. QED
        BY <3>2, <4>1, <4>2 DEF Call
    <3>7. ASSUME NEW n \in DOMAIN pending, pending[n].kind # "create"
          PROVE  \E j \in DOMAIN (r \o l) : (r \o l)[j] = pending[n]
      <4>1. PICK j \in DOMAIN r : r[j] = pending[n]
        BY <1>2, <2>1, <3>7
      <4>2. QED
        BY <3>5, <4>1
    <3>8. ASSUME NEW j \in DOMAIN (r \o l)
          PROVE  \/ \E n \in DOMAIN pending : (r \o l)[j] = pending[n]
                 \/ (r \o l)[j].req = k /\ (r \o l)[j].canc = c
      <4>1. CASE j \in DOMAIN r
        BY <2>1, <3>5, <4>1
      <4>2. CASE j \notin DOMAIN r
        BY <3>6, <4>2
      <4>3. QED
        BY <4>1, <4>2
    <3>9. QED
      BY <2>3, <3>3, <3>7, <3>8
  <2>4. QED
    BY <1>1, <2>2, <2>3
<1> HIDE DEF a, p, c
<1>7. Issued'
  <2>1. \A j \in DOMAIN pending' : /\ pending'[j].req \in Requests
                                   /\ pending'[j].canc \in Requests \cup {0}
    BY <1>3, <1>6 DEF Issued
  <2>2. \A b \in App : /\ app'[b].proxy \in Requests \cup {0}
                       /\ app'[b].cancellable \in Requests \cup {0}
    BY <1>3, <1>5 DEF Issued
  <2>3. /\ leaked' \subseteq Requests /\ watch' \subseteq Requests
        /\ cancelled' \subseteq Requests
    BY <1>1, <1>3 DEF Issued
  <2>4. QED
    BY <1>4, <2>1, <2>2, <2>3 DEF Issued
<1>8. TypeOK'
  BY <1>1, <1>4, <1>5, <1>6, <1>7, RequestsAreIds DEF TypeOK, Issued
<1>9. Own'
  <2>1. request[k].app = a
    BY DEF a, Requester
  <2>2. QED
    BY <1>1, <1>5, <2>1 DEF Own, Requester, c
<1>10. Known'
  <2>1. \A b \in App \ listed : app'[b] = Stopped
    BY <1>3, <1>5 DEF Known
  <2>2. \A j \in DOMAIN pending' : request[pending'[j].req].app \in listed
    BY <1>3, <1>6 DEF Known, Requester, a
  <2>3. \A n \in leaked' \cup watch' : request[n].app \in listed
    BY <1>1, <1>3 DEF Known, Requester, a, p, Own
  <2>4. QED
    BY <1>1, <2>1, <2>2, <2>3 DEF Known, Requester
<1>11. Flagged' /\ RootReflectsApps' /\ ClearOnlyWithItems'
  <2>1. \A b \in App : /\ app'[b].draws = app[b].draws
                       /\ Drawing(app'[b]) = Drawing(app[b])
                       /\ HasItems(app'[b]) = HasItems(app[b])
    BY <1>5
  <2>2. listed \subseteq App
    BY DEF TypeOK
  <2>3. QED
    BY <1>1, <2>1, <2>2 DEF Flagged, FlagFits, RootReflectsApps, ClearOnlyWithItems
<1>12. CancelledNeverRemote'
  <2>1. 0 \notin cancelled
    BY <1>3 DEF Issued
  <2>2. QED
    BY <1>1, <1>3, <1>5, <2>1 DEF CancelledNeverRemote, c
<1>13. ItemsHaveAProxy'
  <2>1. ASSUME NEW n \in Requests, Live(n)
        PROVE  Live(n)'
    <3>1. CASE app[Requester(n)].proxy = n
      <4>1. Requester(n) = a => n \in leaked'
        BY <1>1, <1>3, <3>1 DEF p
      <4>2. Requester(n) # a => app'[Requester(n)].proxy = n
        BY <1>5, <3>1, RequestType
      <4>3. QED
        BY <1>4, <4>1, <4>2 DEF Live
    <3>2. CASE n \in leaked
      BY <1>1, <3>2 DEF Live
    <3>3. CASE \E j \in DOMAIN pending : pending[j].req = n /\ pending[j].kind # "create"
      BY <1>6, <3>3 DEF Live
    <3>4. QED
      BY <2>1, <3>1, <3>2, <3>3 DEF Live
  <2>2. \A b \in App : HasItems(app'[b]) => HasItems(app[b])
    BY <1>5
  <2>3. QED
    BY <1>4, <2>1, <2>2 DEF ItemsHaveAProxy
<1>14. QED
  BY <1>7, <1>8, <1>9, <1>10, <1>11, <1>12, <1>13

\* Activating remove-all preserves the invariant.
LEMMA InvRemoveAll ==
  ASSUME IndInv, RemoveAll
  PROVE  IndInv'
<1> USE DEF IndInv
<1>1. /\ app' = [a \in App |-> IF a \in listed THEN ClearItems(app[a]) ELSE app[a]]
      /\ root' = Root(app', listed')
      /\ UNCHANGED <<listed, stored, request, pending, cancelled, leaked, watch,
                     alive, crashed>>
  BY DEF RemoveAll, calls
<1>2. /\ app' \in [App -> Application]
      /\ \A b \in App : /\ app'[b].proxy = app[b].proxy
                        /\ app'[b].cancellable = app[b].cancellable
                        /\ FlagFits(app'[b])
                        /\ HasItems(app'[b]) => HasItems(app[b])
                        /\ b \notin listed => app'[b] = app[b]
  BY <1>1, ClearItemsFacts DEF TypeOK, Flagged
<1>3. TypeOK'
  BY <1>1, <1>2, RootFacts DEF TypeOK
<1>4. Issued' /\ Own' /\ Known'
  BY <1>1, <1>2 DEF Issued, Own, Known, Requests, Requester
<1>5. Flagged' /\ CancelledNeverRemote'
  BY <1>1, <1>2 DEF Flagged, CancelledNeverRemote
<1>6. ItemsHaveAProxy'
  <2>1. \A k \in Requests : Live(k) => Live(k)'
    BY <1>1, <1>2, RequestType DEF Live, Requester
  <2>2. QED
    BY <1>1, <1>2, <2>1 DEF ItemsHaveAProxy, Requests, Requester
<1>7. QED
  BY <1>1, <1>3, <1>4, <1>5, <1>6, RootFacts

\* A state in which the service has just started.
LEMMA InvStart ==
  ASSUME Start, stored \in SUBSET App, alive \in SUBSET Conn,
         request \in Seq([app : App, owner : Conn]), Len(request) <= MaxRequest
  PROVE  IndInv
<1> USE DEF Start
<1>1. app \in [App -> Application] /\ \A a \in App : app[a] = Stopped
  BY StoppedType
<1>2. root \in [draws : BOOLEAN, visible : BOOLEAN, clear : BOOLEAN]
      /\ RootReflectsApps /\ ClearOnlyWithItems
  BY DEF Root, RootReflectsApps, ClearOnlyWithItems
<1>3. TypeOK
  BY <1>1, <1>2, EmptySeq DEF TypeOK
<1>4. \A a \in App : /\ app[a].proxy = 0 /\ app[a].cancellable = 0
                     /\ ~HasItems(app[a]) /\ ~Drawing(app[a])
                     /\ FlagFits(app[a])
  BY <1>1, StoppedIsEmpty DEF Stopped
<1>5. Issued /\ Own /\ Known
  BY <1>1, <1>4 DEF Issued, Own, Known
<1>6. Flagged /\ CancelledNeverRemote /\ ItemsHaveAProxy
  BY <1>4 DEF Flagged, CancelledNeverRemote, ItemsHaveAProxy
<1>7. QED
  BY <1>2, <1>3, <1>5, <1>6 DEF IndInv

-----------------------------------------------------------------------------
(* The invariant holds in every reachable state.                           *)

\* The service starts in a state of the invariant.
LEMMA InvInit == Init => IndInv
<1> SUFFICES ASSUME Init PROVE IndInv
  OBVIOUS
<1>1. << >> \in Seq([app : App, owner : Conn]) /\ Len(<< >>) = 0
  BY EmptySeq
<1>2. QED
  BY <1>1, InvStart, MaxRequestAssumption DEF Init

\* Every D-Bus method preserves the invariant.
LEMMA InvMethod == IndInv /\ Method => IndInv'
<1> SUFFICES ASSUME IndInv, Method PROVE IndInv'
  OBVIOUS
<1>1. ASSUME NEW a \in App, NEW c \in Conn, Register(a, c)
      PROVE  IndInv'
  BY <1>1, InvRegister
<1>2. ASSUME NEW a \in App, Unregister(a)
      PROVE  IndInv'
  <2>1. /\ UNCHANGED <<app, listed, alive, crashed, calls>>
        /\ root' = root \/ root' = Root(app', listed')
        /\ stored' \in SUBSET App
    BY <1>2 DEF Unregister, ListRemove, Unstore, IndInv, TypeOK
  <2>2. alive' \in SUBSET Conn /\ crashed' \in BOOLEAN
    BY <2>1 DEF IndInv, TypeOK
  <2>3. QED
    BY <2>1, <2>2, InvIdle
<1>3. ASSUME NEW a \in App, ApplicationStopped(a)
      PROVE  IndInv'
  BY <1>3, InvUnset DEF ApplicationStopped
<1>4. QED
  BY <1>1, <1>2, <1>3 DEF Method

\* A list callback that reads the message of an unset error ends the service.
LEMMA InvListCrashed ==
  ASSUME IndInv, NEW kind, NEW k, ListCrashed(kind, k)
  PROVE  IndInv'
<1>1. UNCHANGED <<app, listed, calls>> /\ root' = root
  BY DEF ListCrashed
<1>2. stored' \in SUBSET App /\ alive' \in SUBSET Conn /\ crashed' \in BOOLEAN
  BY DEF ListCrashed, IndInv, TypeOK
<1>3. QED
  BY <1>1, <1>2, InvIdle

\* A list call that fails only takes the call off the pending ones.
LEMMA InvListFailed ==
  ASSUME IndInv, NEW kind, NEW k \in Requests, ListFailed(kind, k)
  PROVE  IndInv'
<1> USE DEF IndInv
<1> DEFINE a == Requester(k)
<1>1. PICK i \in DOMAIN pending : pending' = RemoveAt(pending, i) /\ pending[i].req = k
  BY DEF ListFailed, Completes, Due
<1>2. a \in App /\ a \in listed /\ app[a] \in Application
  BY <1>1, RequestType DEF Known, TypeOK
<1>3. app[a].proxy = k
  BY DEF ListFailed, Completes, Current
<1>4. app' = [app EXCEPT ![a] = app[a]] /\ root' = root
  BY <1>2 DEF ListFailed, TypeOK
<1>5. FlagFits(app[a])
  BY <1>2 DEF Flagged
<1>6. /\ stored' \in SUBSET App /\ alive' \in SUBSET Conn /\ crashed' \in BOOLEAN
      /\ UNCHANGED <<listed, request, cancelled, leaked, watch>>
  BY DEF ListFailed, Completes, TypeOK
<1>7. QED
  BY <1>1, <1>2, <1>3, <1>4, <1>5, <1>6, InvEdit

\* The reply to ListSources adds the items it reports to the current remote.
LEMMA InvSourcesListed ==
  ASSUME IndInv, NEW k \in Requests, NEW items \in SourceReply, SourcesListed(k, items)
  PROVE  IndInv'
<1> USE DEF IndInv
<1> DEFINE a == Requester(k)
           y == AddSources(app[a], items)
<1>1. /\ Completes("sources", k)
      /\ app' = [app EXCEPT ![a] = y]
      /\ root' = IF DOMAIN items = {} THEN root ELSE Root(app', listed)
  BY DEF SourcesListed
<1>2. PICK i \in DOMAIN pending : pending' = RemoveAt(pending, i) /\ pending[i].req = k
  BY <1>1 DEF Completes, Due
<1>3. a \in App /\ a \in listed /\ app[a] \in Application
  BY <1>2, RequestType DEF Known, TypeOK
<1>4. app[a].proxy = k /\ Live(k)
  BY <1>1 DEF Completes, Current, Live
<1>5. PICK S \in SUBSET Source : items \in [S -> SourceState \ {"absent"}]
  BY DEF SourceReply
<1>6. FlagFits(app[a])
  BY <1>3 DEF Flagged
<1>7. /\ y \in Application
      /\ y.proxy = app[a].proxy /\ y.cancellable = app[a].cancellable
      /\ FlagFits(y)
      /\ HasItems(app[a]) => HasItems(y)
      /\ S = {} => (HasItems(y) => HasItems(app[a])) /\ y.draws = app[a].draws
  BY <1>3, <1>5, <1>6, AddSourcesFacts
<1> HIDE DEF y
<1>8. /\ stored' \in SUBSET App /\ alive' \in SUBSET Conn /\ crashed' \in BOOLEAN
      /\ UNCHANGED <<listed, request, cancelled, leaked, watch>>
  BY <1>1 DEF Completes, TypeOK
<1>9. \/ root' = Root(app', listed)
      \/ root' = root /\ y.draws = app[a].draws /\ (HasItems(app[a]) => HasItems(y))
  <2>1. DOMAIN items = S
    BY <1>5
  <2>2. QED
    BY <1>1, <1>7, <2>1
<1>10. QED
  BY <1>1, <1>2, <1>3, <1>4, <1>7, <1>8, <1>9, InvEdit

\* The reply to ListMessages adds the items it reports to the current remote.
LEMMA InvMessagesListed ==
  ASSUME IndInv, NEW k \in Requests, NEW items \in MessageReply, MessagesListed(k, items)
  PROVE  IndInv'
<1> USE DEF IndInv
<1> DEFINE a == Requester(k)
           y == AddMessages(app[a], items)
<1>1. /\ Completes("messages", k)
      /\ app' = [app EXCEPT ![a] = y]
      /\ root' = RootAfterMessages(a, root)
  BY DEF MessagesListed
<1>2. PICK i \in DOMAIN pending : pending' = RemoveAt(pending, i) /\ pending[i].req = k
  BY <1>1 DEF Completes, Due
<1>3. a \in App /\ a \in listed /\ app[a] \in Application
  BY <1>2, RequestType DEF Known, TypeOK
<1>4. app[a].proxy = k /\ Live(k)
  BY <1>1 DEF Completes, Current, Live
<1>5. PICK M \in SUBSET Message : items \in [M -> MessageState \ {"absent"}]
  BY DEF MessageReply
<1>6. FlagFits(app[a])
  BY <1>3 DEF Flagged
<1>7. /\ y \in Application
      /\ y.proxy = app[a].proxy /\ y.cancellable = app[a].cancellable
      /\ FlagFits(y)
      /\ HasItems(app[a]) => HasItems(y)
      /\ app[a].draws => y.draws
  BY <1>3, <1>5, <1>6, AddMessagesFacts
<1> HIDE DEF y
<1>8. /\ stored' \in SUBSET App /\ alive' \in SUBSET Conn /\ crashed' \in BOOLEAN
      /\ UNCHANGED <<listed, request, cancelled, leaked, watch>>
  BY <1>1 DEF Completes, TypeOK
<1>9. \/ root' = Root(app', listed)
      \/ root' = root /\ y.draws = app[a].draws /\ (HasItems(app[a]) => HasItems(y))
  <2>1. app'[a] = y /\ y.draws \in BOOLEAN /\ app[a].draws \in BOOLEAN
    BY <1>1, <1>3, <1>7 DEF TypeOK, Application
  <2>2. QED
    BY <1>1, <1>7, <2>1 DEF RootAfterMessages
<1>10. QED
  BY <1>1, <1>2, <1>3, <1>4, <1>7, <1>8, <1>9, InvEdit

\* Every callback of the service's own calls and watches.
LEMMA InvCallback == IndInv /\ Callback => IndInv'
<1> SUFFICES ASSUME IndInv, NEW k \in Requests,
                    ProxyCreated(k) \/ Sources(k) \/ Messages(k) \/ Vanished(k)
             PROVE  IndInv'
  BY DEF Callback
<1>1. CASE ProxyCreated(k)
  BY <1>1, InvProxyCreated
<1>2. CASE Sources(k)
  BY <1>2, InvListCrashed, InvListFailed, InvSourcesListed DEF Sources
<1>3. CASE Messages(k)
  BY <1>3, InvListCrashed, InvListFailed, InvMessagesListed DEF Messages
<1>4. CASE Vanished(k)
  <2>1. Requester(k) \in App
    BY RequestType DEF IndInv
  <2>2. watch' \in SUBSET watch
    BY <1>4 DEF Vanished
  <2>3. QED
    BY <1>4, <2>1, <2>2, InvUnset DEF Vanished
<1>5. QED
  BY <1>1, <1>2, <1>3, <1>4

\* A handler that refreshes the root action after editing one application.
LEMMA InvUpdate ==
  ASSUME IndInv, NEW a \in App, NEW y \in Application, Update(a, y),
         y.proxy = app[a].proxy, y.cancellable = app[a].cancellable,
         FlagFits(y),
         HasItems(y) => \/ HasItems(app[a])
                        \/ \E k \in Requests : Requester(k) = a /\ Live(k),
         a \in listed
  PROVE  IndInv'
<1>1. /\ app' = [app EXCEPT ![a] = y]
      /\ root' = Root(app', listed)
      /\ pending' = pending
      /\ UNCHANGED <<listed, request, cancelled, leaked, watch>>
  BY DEF Update, calls
<1>2. stored' \in SUBSET App /\ alive' \in SUBSET Conn /\ crashed' \in BOOLEAN
  BY DEF Update, IndInv, TypeOK
<1>3. QED
  BY <1>1, <1>2, InvEdit

\* Every signal of a proxy that is still connected.
LEMMA InvSignal == IndInv /\ ClientSignal => IndInv'
<1> SUFFICES ASSUME IndInv, NEW k \in Requests,
                    \/ \E s \in Source :
                         \/ \E v \in SourceState \ {"absent"} :
                              SourceAdded(k, s, v) \/ SourceChanged(k, s, v)
                         \/ SourceRemoved(k, s)
                    \/ \E m \in Message :
                         \/ \E v \in MessageState \ {"absent"} : MessageAdded(k, m, v)
                         \/ MessageRemoved(k, m)
             PROVE  IndInv'
  BY DEF ClientSignal
<1> DEFINE a == Requester(k)
<1>1. Live(k)
  BY DEF SourceAdded, SourceChanged, SourceRemoved, MessageAdded, MessageRemoved, Signal
<1>2. a \in App /\ a \in listed
  BY <1>1, LiveIsListed
<1>3. app[a] \in Application /\ FlagFits(app[a])
  BY <1>2 DEF IndInv, TypeOK, Flagged
<1>4. \E n \in Requests : Requester(n) = a /\ Live(n)
  BY <1>1
<1>5. ASSUME NEW s \in Source, NEW v \in SourceState \ {"absent"}, SourceAdded(k, s, v)
      PROVE  IndInv'
  <2> DEFINE items == [t \in {s} |-> v]
             y == AddSources(app[a], items)
  <2>1. {s} \in SUBSET Source /\ items \in [{s} -> SourceState \ {"absent"}]
    OBVIOUS
  <2>2. /\ y \in Application
        /\ y.proxy = app[a].proxy /\ y.cancellable = app[a].cancellable
        /\ FlagFits(y)
    BY <1>3, <2>1, AddSourcesFacts
  <2>3. Update(a, y)
    BY <1>5 DEF SourceAdded
  <2> HIDE DEF y, a
  <2>4. QED
    BY <1>2, <1>4, <2>2, <2>3, InvUpdate
<1>6. ASSUME NEW s \in Source, NEW v \in SourceState \ {"absent"}, SourceChanged(k, s, v)
      PROVE  IndInv'
  <2> DEFINE y == ChangeSource(app[a], s, v)
  <2>1. /\ y \in Application
        /\ y.proxy = app[a].proxy /\ y.cancellable = app[a].cancellable
        /\ FlagFits(y)
    BY <1>3, ChangeSourceFacts
  <2>2. Update(a, y)
    BY <1>6 DEF SourceChanged
  <2> HIDE DEF y, a
  <2>3. QED
    BY <1>2, <1>4, <2>1, <2>2, InvUpdate
<1>7. ASSUME NEW s \in Source, SourceRemoved(k, s)
      PROVE  IndInv'
  <2> DEFINE y == RemoveSource(app[a], s)
  <2>1. /\ y \in Application
        /\ y.proxy = app[a].proxy /\ y.cancellable = app[a].cancellable
        /\ FlagFits(y)
    BY <1>3, RemoveSourceFacts
  <2>2. Update(a, y)
    BY <1>7 DEF SourceRemoved
  <2> HIDE DEF y, a
  <2>3. QED
    BY <1>2, <1>4, <2>1, <2>2, InvUpdate
<1>8. ASSUME NEW m \in Message, NEW v \in MessageState \ {"absent"}, MessageAdded(k, m, v)
      PROVE  IndInv'
  <2> DEFINE items == [n \in {m} |-> v]
             y == AddMessages(app[a], items)
  <2>1. {m} \in SUBSET Message /\ items \in [{m} -> MessageState \ {"absent"}]
    OBVIOUS
  <2>2. /\ y \in Application
        /\ y.proxy = app[a].proxy /\ y.cancellable = app[a].cancellable
        /\ FlagFits(y)
        /\ HasItems(app[a]) => HasItems(y)
        /\ app[a].draws => y.draws
    BY <1>3, <2>1, AddMessagesFacts
  <2>3. /\ app' = [app EXCEPT ![a] = y]
        /\ root' = RootAfterMessages(a, root)
        /\ pending' = pending
        /\ UNCHANGED <<listed, request, cancelled, leaked, watch>>
    BY <1>8 DEF MessageAdded, calls
  <2>4. stored' \in SUBSET App /\ alive' \in SUBSET Conn /\ crashed' \in BOOLEAN
    BY <1>8 DEF MessageAdded, IndInv, TypeOK
  <2> HIDE DEF y
  <2>5. \/ root' = Root(app', listed)
        \/ root' = root /\ y.draws = app[a].draws /\ (HasItems(app[a]) => HasItems(y))
    <3>1. app'[a] = y /\ y.draws \in BOOLEAN /\ app[a].draws \in BOOLEAN
      BY <1>2, <1>3, <2>2, <2>3 DEF IndInv, TypeOK, Application
    <3>2. QED
      BY <2>2, <2>3, <3>1 DEF RootAfterMessages
  <2> HIDE DEF a
  <2>6. QED
    BY <1>2, <1>4, <2>2, <2>3, <2>4, <2>5, InvEdit
<1>9. ASSUME NEW m \in Message, MessageRemoved(k, m)
      PROVE  IndInv'
  <2> DEFINE y == RemoveMessage(app[a], m)
  <2>1. /\ y \in Application
        /\ y.proxy = app[a].proxy /\ y.cancellable = app[a].cancellable
        /\ FlagFits(y)
    BY <1>3, RemoveMessageFacts
  <2>2. Update(a, y)
    BY <1>9 DEF MessageRemoved
  <2> HIDE DEF y, a
  <2>3. QED
    BY <1>2, <1>4, <2>1, <2>2, InvUpdate
<1>10. QED
  BY <1>5, <1>6, <1>7, <1>8, <1>9

\* Every activation through the exported action group.
LEMMA InvUser == IndInv /\ User => IndInv'
<1> SUFFICES ASSUME IndInv, User PROVE IndInv'
  OBVIOUS
<1>1. ASSUME NEW a \in App, HasItems(app[a])
      PROVE  a \in listed /\ app[a] \in Application
  BY <1>1, StoppedIsEmpty DEF IndInv, Known, TypeOK
<1>2. ASSUME NEW a \in App, NEW s \in Source, SourceActivated(a, s)
      PROVE  IndInv'
  <2> DEFINE y == RemoveSource(app[a], s)
  <2>1. HasItems(app[a]) /\ Update(a, y)
    BY <1>2 DEF SourceActivated, HasItems
  <2>2. /\ y \in Application
        /\ y.proxy = app[a].proxy /\ y.cancellable = app[a].cancellable
        /\ FlagFits(y)
    BY <1>1, <2>1, RemoveSourceFacts
  <2> HIDE DEF y
  <2>3. QED
    BY <1>1, <2>1, <2>2, InvUpdate
<1>3. ASSUME NEW a \in App, NEW m \in Message, MessageActivated(a, m)
      PROVE  IndInv'
  <2> DEFINE y == RemoveMessage(app[a], m)
  <2>1. HasItems(app[a]) /\ Update(a, y)
    BY <1>3 DEF MessageActivated, HasItems
  <2>2. /\ y \in Application
        /\ y.proxy = app[a].proxy /\ y.cancellable = app[a].cancellable
        /\ FlagFits(y)
    BY <1>1, <2>1, RemoveMessageFacts
  <2> HIDE DEF y
  <2>3. QED
    BY <1>1, <2>1, <2>2, InvUpdate
<1>4. QED
  BY <1>2, <1>3, InvRemoveAll DEF User

\* A new process knows the stored ids and nothing else.
LEMMA InvRestart == IndInv /\ Restart => IndInv'
<1> SUFFICES ASSUME IndInv, Restart PROVE IndInv'
  OBVIOUS
<1> USE DEF IndInv
<1>1. /\ listed' = stored /\ stored' = stored /\ request' = request
      /\ alive' = alive /\ pending' = << >> /\ cancelled' = {}
      /\ leaked' = {} /\ watch' = {} /\ crashed' = FALSE
      /\ root' = Root(app', listed')
  BY DEF Restart
<1>2. app' \in [App -> Application] /\ \A a \in App : app'[a] = Stopped
  BY StoppedType DEF Restart
<1>3. /\ root' \in [draws : BOOLEAN, visible : BOOLEAN, clear : BOOLEAN]
      /\ RootReflectsApps' /\ ClearOnlyWithItems'
  BY <1>1, RootFacts
<1>4. TypeOK'
  BY <1>1, <1>2, <1>3, EmptySeq DEF TypeOK
<1>5. ASSUME NEW a \in App
      PROVE  /\ app'[a].proxy = 0 /\ app'[a].cancellable = 0
             /\ ~HasItems(app'[a]) /\ FlagFits(app'[a])
  <2>1. app'[a] = Stopped
    BY <1>2
  <2>2. ~HasItems(app'[a]) /\ FlagFits(app'[a])
    BY <2>1, StoppedIsEmpty
  <2>3. QED
    BY <2>1, <2>2 DEF Stopped
<1>6. Issued' /\ Own' /\ Known'
  BY <1>1, <1>2, <1>5 DEF Issued, Own, Known
<1>7. Flagged' /\ CancelledNeverRemote' /\ ItemsHaveAProxy'
  BY <1>1, <1>5 DEF Flagged, CancelledNeverRemote, ItemsHaveAProxy
<1>8. QED
  BY <1>3, <1>4, <1>6, <1>7

\* Clients leaving the bus, and restarts.
LEMMA InvEnvironment == IndInv /\ Environment => IndInv'
<1> SUFFICES ASSUME IndInv, NEW c \in Conn, Disconnect(c)
             PROVE  IndInv'
  BY InvRestart DEF Environment
<1>1. UNCHANGED <<app, listed, calls>> /\ root' = root
  BY DEF Disconnect
<1>2. stored' \in SUBSET App /\ alive' \in SUBSET Conn /\ crashed' \in BOOLEAN
  BY DEF Disconnect, IndInv, TypeOK
<1>3. QED
  BY <1>1, <1>2, InvIdle

\* A stuttering step.
LEMMA InvStutter == IndInv /\ UNCHANGED vars => IndInv'
<1> SUFFICES ASSUME IndInv, UNCHANGED vars PROVE IndInv'
  OBVIOUS
<1>1. UNCHANGED <<app, listed, calls>> /\ root' = root
  BY DEF vars, calls
<1>2. stored' \in SUBSET App /\ alive' \in SUBSET Conn /\ crashed' \in BOOLEAN
  BY DEF vars, IndInv, TypeOK
<1>3. QED
  BY <1>1, <1>2, InvIdle

(***************************************************************************)
(* The inductive invariant holds in every reachable state, for any sets of *)
(* applications, connections and items and any number of registrations:    *)
(* whatever the order of method calls, callbacks, signals, activations,    *)
(* disconnections and restarts.                                            *)
(***************************************************************************)
THEOREM Inductive == Spec => []IndInv
<1>1. Init => IndInv
  BY InvInit
<1>2. IndInv /\ [Next]_vars => IndInv'
  BY InvMethod, InvCallback, InvSignal, InvUser, InvEnvironment, InvStutter DEF Next
<1>3. QED
  BY <1>1, <1>2, PTL DEF Spec

\* The service's state is always well-formed: TypeOK is an invariant.
THEOREM TypeCorrect == Spec => []TypeOK
<1>1. IndInv => TypeOK
  BY DEF IndInv
<1>2. QED
  BY <1>1, Inductive, PTL

(***************************************************************************)
(* The icon never misses an item that draws attention: the flag of an      *)
(* application covers its items, only listed applications have any, and    *)
(* the root action is the disjunction of the flags.                        *)
(***************************************************************************)
THEOREM AttentionCorrect == Spec => []AttentionNotMissed
<1>1. IndInv => AttentionNotMissed
  <2> SUFFICES ASSUME IndInv, NEW a \in App, Drawing(app[a]) PROVE root.draws
    BY DEF AttentionNotMissed
  <2>1. a \in listed
    BY StoppedIsEmpty DEF IndInv, Known
  <2>2. app[a].draws
    BY DEF IndInv, Flagged, FlagFits
  <2>3. QED
    BY <2>1, <2>2 DEF IndInv, RootReflectsApps
<1>2. QED
  BY <1>1, Inductive, PTL

\* The root action reflects the listed applications although few handlers refresh it.
THEOREM RootCorrect == Spec => []RootReflectsApps
<1>1. IndInv => RootReflectsApps
  BY DEF IndInv
<1>2. QED
  BY <1>1, Inductive, PTL

\* "remove-all" is never enabled over an empty menu.
THEOREM ClearCorrect == Spec => []ClearOnlyWithItems
<1>1. IndInv => ClearOnlyWithItems
  BY DEF IndInv
<1>2. QED
  BY <1>1, Inductive, PTL

\* A cancelled registration never becomes the remote of an application.
THEOREM CancellationCorrect == Spec => []CancelledNeverRemote
<1>1. IndInv => CancelledNeverRemote
  BY DEF IndInv
<1>2. QED
  BY <1>1, Inductive, PTL

\* Menu items never outlive the proxies of their application.
THEOREM ItemsCorrect == Spec => []ItemsHaveAProxy
<1>1. IndInv => ItemsHaveAProxy
  BY DEF IndInv
<1>2. QED
  BY <1>1, Inductive, PTL

(***************************************************************************)
(* Sections are durable: what appears is stored at once, what is stored    *)
(* stays stored until it is unregistered, and what leaves the menu is not  *)
(* stored any more.                                                        *)
(***************************************************************************)
THEOREM SectionsCorrect == Spec => SectionsStay
<1> DEFINE Durable == /\ listed' \ listed \subseteq stored'
                      /\ \A a \in stored \ stored' : Unregister(a)
                      /\ listed \ listed' \subseteq App \ stored'
<1>1. TypeOK /\ Next => Durable
  <2> SUFFICES ASSUME TypeOK, Next PROVE Durable
    OBVIOUS
  <2>1. listed \subseteq App
    BY DEF TypeOK
  <2>2. CASE Method
    <3>1. ASSUME NEW a \in App, NEW c \in Conn, Register(a, c)
          PROVE  Durable
      BY <3>1 DEF Register, ListAdd, Store
    <3>2. ASSUME NEW a \in App, Unregister(a)
          PROVE  Durable
      <4>1. listed' = listed /\ stored' = stored \ {a}
        BY <3>2 DEF Unregister, ListRemove, Unstore
      <4>2. \A b \in stored \ stored' : b = a
        BY <4>1
      <4>3. QED
        BY <3>2, <4>1, <4>2
    <3>3. ASSUME NEW a \in App, ApplicationStopped(a)
          PROVE  Durable
      BY <3>3 DEF ApplicationStopped
    <3>4. QED
      BY <2>2, <3>1, <3>2, <3>3 DEF Method
  <2>3. CASE Callback
    BY <2>3 DEF Callback, ProxyCreated, Sources, Messages, SourcesListed,
                MessagesListed, ListFailed,
                ListCrashed, Completes, Vanished
  <2>4. CASE ClientSignal
    BY <2>4 DEF ClientSignal, SourceAdded, SourceChanged, SourceRemoved,
                MessageAdded, MessageRemoved, Update
  <2>5. CASE User
    BY <2>5 DEF User, SourceActivated, MessageActivated, RemoveAll, Update
  <2>6. CASE Environment
    BY <2>1, <2>6 DEF Environment, Disconnect, Restart
  <2>7. QED
    BY <2>2, <2>3, <2>4, <2>5, <2>6 DEF Next
<1>2. TypeOK /\ [Next]_vars => [Durable]_vars
  BY <1>1
<1>3. QED
  BY <1>2, TypeCorrect, PTL DEF Spec, SectionsStay

=============================================================================
