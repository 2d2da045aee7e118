-------------------------- MODULE ChatStatus_proofs --------------------------
(***************************************************************************)
(* Proofs about ChatStatus, for all applications and bounds: the panel     *)
(* shows the most available status of the applications that reported one,  *)
(* every client's status arrives, and the user has the last word.          *)
(***************************************************************************)
EXTENDS ChatStatus, SequenceTheorems, TLAPS

-----------------------------------------------------------------------------
(* The minimum of statuses.                                                *)

\* A set of statuses that is not empty has a least element, and Min is it.
LEMMA MinFacts ==
  ASSUME NEW S \in SUBSET (0..Offline), S # {}
  PROVE  Min(S) \in S /\ \A y \in S : Min(S) <= y
<1>1. \E x \in S : \A y \in S : x <= y
  <2>1. 0..Offline = {0, 1, 2, 3, 4}
    BY DEF Offline
  <2>2. CASE 0 \in S
    BY <2>1, <2>2
  <2>3. CASE 0 \notin S /\ 1 \in S
    BY <2>1, <2>3
  <2>4. CASE 0 \notin S /\ 1 \notin S /\ 2 \in S
    BY <2>1, <2>4
  <2>5. CASE 0 \notin S /\ 1 \notin S /\ 2 \notin S /\ 3 \in S
    BY <2>1, <2>5
  <2>6. CASE 0 \notin S /\ 1 \notin S /\ 2 \notin S /\ 3 \notin S
    <3>1. S = {4}
      BY <2>1, <2>6
    <3>2. QED
      BY <3>1
  <2>7. QED
    BY <2>2, <2>3, <2>4, <2>5, <2>6
<1>2. QED
  BY <1>1 DEF Min

\* What MostAvailable returns: a status, at least as available as all of them.
LEMMA MostAvailableFacts ==
  ASSUME NEW S \in SUBSET App, NEW f \in [S -> 0..Offline]
  PROVE  /\ MostAvailable(f) \in 0..Offline
         /\ \A a \in S : MostAvailable(f) <= f[a]
<1> DEFINE T == {f[a] : a \in S} \cup {Offline}
<1>1. T \in SUBSET (0..Offline) /\ T # {}
  BY DEF Offline
<1>2. Min(T) \in T /\ \A y \in T : Min(T) <= y
  BY <1>1, MinFacts
<1>3. MostAvailable(f) = Min(T)
  BY DEF MostAvailable
<1>4. QED
  BY <1>1, <1>2, <1>3

\* When all applications have the same status, that one is the most available.
LEMMA MostAvailableOfOne ==
  ASSUME NEW S \in SUBSET App, S # {}, NEW x \in 0..Offline
  PROVE  MostAvailable([a \in S |-> x]) = x
<1> DEFINE T == {[a \in S |-> x][b] : b \in S} \cup {Offline}
<1>1. T = {x, Offline}
  OBVIOUS
<1>2. T \in SUBSET (0..Offline) /\ T # {}
  BY <1>1 DEF Offline
<1>3. Min(T) \in T /\ \A y \in T : Min(T) <= y
  BY <1>2, MinFacts
<1>4. Min(T) = x
  BY <1>1, <1>3 DEF Offline
<1>5. MostAvailable([a \in S |-> x]) = Min(T)
  BY DEF MostAvailable
<1>6. QED
  BY <1>4, <1>5

-----------------------------------------------------------------------------
(* The queues of calls and signals.                                        *)

\* Taking the first element of a queue leaves a queue of the same elements.
LEMMA QueueFacts ==
  ASSUME NEW T, NEW s \in Seq(T), s # << >>
  PROVE  /\ Head(s) \in T /\ Tail(s) \in Seq(T) /\ s[1] = Head(s)
         /\ Len(s) \in Nat /\ Len(s) > 0 /\ Len(Tail(s)) = Len(s) - 1
         /\ \A i \in 1..Len(Tail(s)) : Tail(s)[i] = s[i + 1]
BY HeadTailProperties, LenProperties

\* At first nothing is under way.
LEMMA NothingUnderWay ==
  ASSUME NEW T
  PROVE  [a \in App |-> << >>] \in [App -> Seq(T)]
<1>1. << >> \in Seq(T)
  BY EmptySeq
<1>2. QED
  BY <1>1

\* After a status is sent, once or several times, it is the last of the queue.
LEMMA SentFacts ==
  ASSUME NEW q \in Seq(0..Offline), NEW x \in 0..Offline, NEW n \in Nat
  PROVE  /\ q \o [i \in 1..n |-> x] \in Seq(0..Offline)
         /\ n > 0 => /\ q \o [i \in 1..n |-> x] # << >>
                     /\ Last(q \o [i \in 1..n |-> x]) = x
<1> DEFINE r == [i \in 1..n |-> x]
<1>1. r \in Seq(0..Offline) /\ Len(r) = n
  OBVIOUS
<1>2. /\ q \o r \in Seq(0..Offline) /\ Len(q \o r) = Len(q) + n
      /\ \A i \in 1..n : (q \o r)[Len(q) + i] = r[i]
  BY <1>1
<1>3. ASSUME n > 0
      PROVE  q \o r # << >> /\ Last(q \o r) = x
  <2>1. Len(q) \in Nat /\ Len(q \o r) > 0
    BY <1>2, <1>3, LenProperties
  <2>2. (q \o r)[Len(q) + n] = x
    BY <1>1, <1>2, <1>3
  <2>3. QED
    BY <1>2, <2>1, <2>2 DEF Last
<1>4. QED
  BY <1>2, <1>3

\* What comes before a queue does not change what is last in it.
LEMMA LastFacts ==
  ASSUME NEW x \in 0..Offline, NEW q \in Seq(0..Offline)
  PROVE  /\ <<x>> \o q # << >>
         /\ q # << >> => Last(<<x>> \o q) = Last(q)
         /\ q = << >> => Last(<<x>> \o q) = x
<1>1. /\ <<x>> \o q \in Seq(0..Offline) /\ Len(<<x>> \o q) = Len(q) + 1
      /\ \A i \in 1..Len(q) : (<<x>> \o q)[i + 1] = q[i]
      /\ (<<x>> \o q)[1] = x
  OBVIOUS
<1>2. Len(q) \in Nat /\ (q # << >> => Len(q) > 0) /\ Len(<<x>> \o q) > 0
  BY <1>1, LenProperties
<1>3. QED
  BY <1>1, <1>2 DEF Last

\* The first element and the others make up the queue.
LEMMA HeadAndTail ==
  ASSUME NEW q \in Seq(0..Offline), q # << >>
  PROVE  <<Head(q)>> \o Tail(q) = q
BY HeadTailProperties

-----------------------------------------------------------------------------
(* What a client is still told.                                            *)

\* Nothing but the appearance of the service.
AllBack(s) == \A i \in 1..Len(s) : s[i] = Back

\* Statuses, the last of which is x.
EndsIn(s, x) == \E i \in 1..Len(s) :
                  /\ s[i] = x
                  /\ \A j \in 1..Len(s) : j > i => s[j] = Back

\* When there is nothing to be told.
LEMMA NothingTold ==
  /\ AllBack(<< >>) /\ ~Contains(<< >>, Gone)
  /\ \A x : ~EndsIn(<< >>, x)
BY DEF AllBack, Contains, EndsIn

\* The service does not vanish before it appears.
LEMMA AllBackFacts ==
  ASSUME NEW s \in Seq(0..Back), AllBack(s)
  PROVE  ~Contains(s, Gone)
BY DEF AllBack, Contains, Gone, Back

\* The first element is told.
LEMMA TailFacts ==
  ASSUME NEW s \in Seq(0..Back), s # << >>
  PROVE  /\ AllBack(s) <=> Head(s) = Back /\ AllBack(Tail(s))
         /\ Contains(s, Gone) <=> Head(s) = Gone \/ Contains(Tail(s), Gone)
         /\ \A x \in 0..Offline :
              EndsIn(s, x) => \/ EndsIn(Tail(s), x)
                              \/ Head(s) = x /\ AllBack(Tail(s))
<1> DEFINE t == Tail(s)
<1>1. /\ s[1] = Head(s) /\ Len(s) \in Nat /\ Len(s) > 0
      /\ Len(t) = Len(s) - 1 /\ \A i \in 1..Len(t) : t[i] = s[i + 1]
  BY QueueFacts
<1> HIDE DEF t
<1>2. \A i \in 1..Len(s) : i = 1 \/ (i - 1 \in 1..Len(t) /\ s[i] = t[i - 1])
  BY <1>1
<1>3. \A i \in 1..Len(t) : i + 1 \in 1..Len(s)
  BY <1>1
<1>4. AllBack(s) <=> Head(s) = Back /\ AllBack(t)
  BY <1>1, <1>2, <1>3 DEF AllBack
<1>5. Contains(s, Gone) <=> Head(s) = Gone \/ Contains(t, Gone)
  BY <1>1, <1>2, <1>3 DEF Contains
<1>6. ASSUME NEW x \in 0..Offline, EndsIn(s, x)
      PROVE  EndsIn(t, x) \/ (Head(s) = x /\ AllBack(t))
  <2>1. PICK i \in 1..Len(s) : s[i] = x /\ \A j \in 1..Len(s) : j > i => s[j] = Back
    BY <1>6 DEF EndsIn
  <2>2. CASE i = 1
    <3>1. \A j \in 1..Len(t) : s[j + 1] = Back
      BY <1>1, <1>3, <2>1, <2>2
    <3>2. QED
      BY <1>1, <2>1, <2>2, <3>1 DEF AllBack
  <2>3. CASE i # 1
    <3>1. i - 1 \in 1..Len(t) /\ t[i - 1] = x
      BY <1>2, <2>1, <2>3
    <3>2. \A j \in 1..Len(t) : j > i - 1 => t[j] = Back
      BY <1>1, <1>3, <2>1
    <3>3. QED
      BY <3>1, <3>2 DEF EndsIn
  <2>4. QED
    BY <2>2, <2>3
<1>7. QED
  BY <1>4, <1>5, <1>6 DEF t

\* The user chooses a status.
LEMMA AppendFacts ==
  ASSUME NEW s \in Seq(0..Back), NEW x \in 0..Offline
  PROVE  /\ Append(s, x) \in Seq(0..Back)
         /\ EndsIn(Append(s, x), x) /\ ~AllBack(Append(s, x))
         /\ Contains(Append(s, x), Gone) => Contains(s, Gone)
<1> DEFINE t == Append(s, x)
<1>1. /\ t \in Seq(0..Back) /\ Len(t) = Len(s) + 1 /\ t[Len(s) + 1] = x
      /\ Len(s) \in Nat /\ \A i \in 1..Len(s) : t[i] = s[i]
  BY AppendProperties, LenProperties DEF Offline, Back
<1> HIDE DEF t
<1>2. Len(s) + 1 \in 1..Len(t) /\ \A j \in 1..Len(t) : j \in 1..Len(s) \/ j = Len(s) + 1
  BY <1>1
<1>3. EndsIn(t, x)
  BY <1>1, <1>2 DEF EndsIn
<1>4. ~AllBack(t)
  BY <1>1, <1>2 DEF AllBack, Offline, Back
<1>5. Contains(t, Gone) => Contains(s, Gone)
  BY <1>1, <1>2 DEF Contains, Offline, Gone
<1>6. QED
  BY <1>1, <1>3, <1>4, <1>5 DEF t

\* The service ends and another one starts.
LEMMA RestartFacts ==
  ASSUME NEW s \in Seq(0..Back)
  PROVE  s \o <<Gone, Back>> \in Seq(0..Back) /\ ~AllBack(s \o <<Gone, Back>>)
<1> DEFINE t == s \o <<Gone, Back>>
<1>1. t \in Seq(0..Back) /\ Len(t) = Len(s) + 2 /\ t[Len(s) + 1] = Gone
  BY DEF Gone, Back
<1>2. Len(s) + 1 \in 1..Len(t)
  BY <1>1, LenProperties
<1>3. QED
  BY <1>1, <1>2 DEF AllBack, Gone, Back

\* What is left of a queue of calls.
LEMMA RestOfQueue ==
  ASSUME NEW q \in Seq(0..Offline), NEW n \in Nat
  PROVE  SubSeq(q, n + 1, Len(q)) \in Seq(0..Offline)
<1>1. Len(q) \in Nat /\ \A i \in 1..Len(q) : q[i] \in 0..Offline
  BY LenProperties, ElementOfSeq
<1>2. \A i \in (n + 1)..Len(q) : q[i] \in 0..Offline
  BY <1>1
<1>3. QED
  BY <1>1, <1>2, SubSeqProperties

-----------------------------------------------------------------------------
(* The invariant.                                                          *)

\* The status of a client that has been told all is the last it reported.
Synced ==
  \A a \in App : proxy[a] /\ AllBack(down[a]) /\ mine[a] # NoChoice =>
    Reported(a) # << >> /\ Last(Reported(a)) = mine[a]

\* The user's choice is the last that each client is told, or its own.
Heeded(a, x) ==
  /\ proxy[a] /\ ~Contains(down[a], Gone)
  /\ EndsIn(down[a], x) \/ (AllBack(down[a]) /\ mine[a] = x)

ChoiceHeld ==
  choice # NoChoice => /\ DOMAIN appStatus = {} => panel = choice
                       /\ \A a \in App : Heeded(a, choice)

Partial == UNION {[S -> 0..Offline] : S \in SUBSET App}

ChatInv == ChatTypeOK /\ PanelIsMostAvailable /\ Synced /\ ChoiceHeld

\* The table of statuses is a function on some of the applications.
LEMMA PartialFacts ==
  ASSUME NEW f \in Partial
  PROVE  DOMAIN f \in SUBSET App /\ f \in [DOMAIN f -> 0..Offline]
BY DEF Partial

\* A report under way is later than the one that the service has.
UnderWayLast ==
  \A a \in App : up[a] # << >> =>
    Reported(a) # << >> /\ Last(Reported(a)) = Last(up[a])

\* What is reported last is last of what is under way.
LEMMA ReportedFacts == ChatTypeOK => UnderWayLast
<1> SUFFICES ASSUME ChatTypeOK, NEW a \in App, up[a] # << >>
             PROVE  Reported(a) # << >> /\ Last(Reported(a)) = Last(up[a])
  BY DEF UnderWayLast
<1>1. up[a] \in Seq(0..Offline)
  BY DEF ChatTypeOK
<1>2. a \in DOMAIN appStatus => appStatus[a] \in 0..Offline
  BY PartialFacts DEF ChatTypeOK, Partial
<1>3. QED
  BY <1>1, <1>2, LastFacts DEF Reported

\* The same after a step.
LEMMA ReportedFactsNext == ChatTypeOK' => UnderWayLast'
BY ReportedFacts, PTL

-----------------------------------------------------------------------------
(* The steps.                                                              *)

\* What is left to show of a step that neither changes the table of statuses
\* nor the panel.
LEMMA InvClient ==
  ASSUME ChatInv, ChatTypeOK', UNCHANGED <<appStatus, panel>>,
         \A a \in App : proxy'[a] /\ AllBack(down'[a]) /\ mine'[a] # NoChoice =>
            \/ up'[a] # << >> /\ Last(up'[a]) = mine'[a]
            \/ /\ UNCHANGED <<up[a], mine[a]>>
               /\ proxy[a] /\ AllBack(down[a]),
         choice' # NoChoice =>
            choice' = choice /\ \A a \in App : (Heeded(a, choice))'
  PROVE  ChatInv'
<1>1. PanelIsMostAvailable'
  BY DEF ChatInv, PanelIsMostAvailable, MostAvailable
<1>2. ChoiceHeld'
  BY DEF ChatInv, ChoiceHeld
<1>3. ASSUME NEW a \in App, proxy'[a] /\ AllBack(down'[a]) /\ mine'[a] # NoChoice
      PROVE  (Reported(a) # << >>)' /\ Last(Reported(a))' = mine'[a]
  <2>1. CASE up'[a] # << >> /\ Last(up'[a]) = mine'[a]
    <3>1. UnderWayLast'
      BY ReportedFactsNext
    <3>2. QED
      BY <2>1, <3>1 DEF UnderWayLast, Last
  <2>2. CASE /\ UNCHANGED <<up[a], mine[a]>>
             /\ proxy[a] /\ AllBack(down[a])
    <3>1. Reported(a) # << >> /\ Last(Reported(a)) = mine[a]
      BY <1>3, <2>2 DEF ChatInv, Synced
    <3>2. Reported(a)' = Reported(a)
      BY <2>2 DEF Reported
    <3>3. QED
      BY <2>2, <3>1, <3>2 DEF Last
  <2>3. QED
    BY <1>3, <2>1, <2>2
<1>4. Synced'
  BY <1>3 DEF Synced, AllBack
<1>5. QED
  BY <1>1, <1>2, <1>4 DEF ChatInv

\* A status is sent n times: it is the last that is under way, unless the call
\* may be lost.
LEMMA SendFacts ==
  ASSUME ChatTypeOK, NEW a \in App, NEW x \in 0..Offline, NEW n \in Nat, Send(a, x, n)
  PROVE  /\ up' \in [App -> Seq(0..Offline)]
         /\ \A b \in App : b # a => up'[b] = up[b]
         /\ n > 0 /\ ~Contains(down[a], Gone) => up'[a] # << >> /\ Last(up'[a]) = x
<1> DEFINE r == up[a] \o [i \in 1..n |-> x]
<1>1. up \in [App -> Seq(0..Offline)] /\ up[a] \in Seq(0..Offline)
  BY DEF ChatTypeOK
<1>2. r \in Seq(0..Offline) /\ (n > 0 => r # << >> /\ Last(r) = x)
  BY <1>1, SentFacts
<1>3. up' = [up EXCEPT ![a] = r] \/ (Contains(down[a], Gone) /\ up' = up)
  BY DEF Send
<1> HIDE DEF r
<1>4. QED
  BY <1>1, <1>2, <1>3

\* The program sets its status.
LEMMA SetMineFacts ==
  ASSUME ChatTypeOK, NEW a \in App, NEW x \in 0..Offline, NEW n \in Nat, SetMine(a, x, n)
  PROVE  /\ mine' \in [App -> 0..Offline \cup {NoChoice}] /\ mine'[a] = x
         /\ up' \in [App -> Seq(0..Offline)]
         /\ \A b \in App : b # a => up'[b] = up[b] /\ mine'[b] = mine[b]
         /\ n > 0 /\ proxy[a] /\ ~Contains(down[a], Gone) =>
              up'[a] # << >> /\ Last(up'[a]) = x
<1>1. mine' \in [App -> 0..Offline \cup {NoChoice}] /\ mine'[a] = x
      /\ \A b \in App : b # a => mine'[b] = mine[b]
  BY DEF SetMine, ChatTypeOK
<1>2. CASE proxy[a]
  BY <1>1, <1>2, SendFacts DEF SetMine
<1>3. CASE ~proxy[a]
  BY <1>1, <1>3 DEF SetMine, ChatTypeOK
<1>4. QED
  BY <1>2, <1>3

\* A program chooses a status.
LEMMA InvSetStatus ==
  ASSUME ChatInv, NEW a \in App, NEW x \in Status, SetStatus(a, x)
  PROVE  ChatInv'
<1>1. ChatTypeOK /\ x \in 0..Offline /\ SetMine(a, x, 1)
  BY StatusAssumption DEF ChatInv, SetStatus
<1>2. /\ UNCHANGED <<appStatus, panel, proxy, connecting, heard, down, restarts>>
      /\ choice' = NoChoice
  BY DEF SetStatus, links
<1>3. /\ mine' \in [App -> 0..Offline \cup {NoChoice}] /\ mine'[a] = x
      /\ up' \in [App -> Seq(0..Offline)]
      /\ \A b \in App : b # a => up'[b] = up[b] /\ mine'[b] = mine[b]
      /\ proxy[a] /\ ~Contains(down[a], Gone) => up'[a] # << >> /\ Last(up'[a]) = x
  BY <1>1, SetMineFacts
<1>4. ChatTypeOK'
  BY <1>1, <1>2, <1>3 DEF ChatTypeOK
<1>5. ASSUME NEW b \in App, proxy'[b] /\ AllBack(down'[b]) /\ mine'[b] # NoChoice
      PROVE  \/ up'[b] # << >> /\ Last(up'[b]) = mine'[b]
             \/ /\ UNCHANGED <<up[b], mine[b]>>
                /\ proxy[b] /\ AllBack(down[b])
  <2>1. CASE b # a
    BY <1>2, <1>3, <1>5, <2>1
  <2>2. CASE b = a
    <3>1. proxy[a] /\ AllBack(down[a]) /\ down[a] \in Seq(0..Back)
      BY <1>1, <1>2, <1>5, <2>2 DEF ChatTypeOK
    <3>2. QED
      BY <1>3, <2>2, <3>1, AllBackFacts
  <2>3. QED
    BY <2>1, <2>2
<1>6. QED
  BY <1>2, <1>4, <1>5, InvClient

\* A client hears the user's choice.
LEMMA InvGlobalStatusChanged ==
  ASSUME ChatInv, NEW a \in App, GlobalStatusChanged(a)
  PROVE  ChatInv'
<1>1. ChatTypeOK /\ down[a] # << >> /\ down[a] \in Seq(0..Back)
      /\ Head(down[a]) \in 0..Offline
  BY DEF ChatInv, ChatTypeOK, GlobalStatusChanged
<1>2. UNCHANGED <<appStatus, panel, proxy, connecting, heard, choice, restarts>>
  BY DEF GlobalStatusChanged, links
<1>3. /\ down' \in [App -> Seq(0..Back)] /\ down'[a] = Tail(down[a])
      /\ \A b \in App : b # a => down'[b] = down[b]
  <2>1. Tail(down[a]) \in Seq(0..Back)
    BY <1>1, QueueFacts
  <2>2. QED
    BY <1>1, <2>1 DEF GlobalStatusChanged, Taken, ChatTypeOK
<1>4. PICK x \in 0..Offline : x = Head(down[a])
  BY <1>1
<1>5. PICK n \in Nat : n = heard[a]
  BY <1>1 DEF ChatTypeOK
<1>6. /\ mine' \in [App -> 0..Offline \cup {NoChoice}]
      /\ up' \in [App -> Seq(0..Offline)]
      /\ \A b \in App : b # a => up'[b] = up[b] /\ mine'[b] = mine[b]
      /\ proxy[a] => mine'[a] = x
      /\ proxy[a] /\ ~Contains(down[a], Gone) => up'[a] # << >> /\ Last(up'[a]) = x
  <2>1. CASE n > 0
    <3>1. SetMine(a, x, n)
      BY <1>4, <1>5, <2>1 DEF GlobalStatusChanged
    <3>2. QED
      BY <1>1, <2>1, <3>1, SetMineFacts
  <2>2. CASE ~(n > 0)
    <3>1. UNCHANGED <<mine, up>> /\ ~proxy[a]
      BY <1>1, <1>5, <2>2 DEF GlobalStatusChanged, ChatTypeOK
    <3>2. QED
      BY <1>1, <3>1 DEF ChatTypeOK
  <2>3. QED
    BY <2>1, <2>2
<1>7. ChatTypeOK'
  BY <1>1, <1>2, <1>3, <1>6 DEF ChatTypeOK
<1>8. x # Gone /\ x # Back /\ ~AllBack(down[a])
      /\ (Contains(down[a], Gone) => Contains(Tail(down[a]), Gone))
      /\ (Contains(Tail(down[a]), Gone) => Contains(down[a], Gone))
  BY <1>1, <1>4, TailFacts DEF Offline, Gone, Back
<1>9. ASSUME NEW b \in App, proxy'[b] /\ AllBack(down'[b]) /\ mine'[b] # NoChoice
      PROVE  \/ up'[b] # << >> /\ Last(up'[b]) = mine'[b]
             \/ /\ UNCHANGED <<up[b], mine[b]>>
                /\ proxy[b] /\ AllBack(down[b])
  <2>1. CASE b # a
    BY <1>2, <1>3, <1>6, <1>9, <2>1
  <2>2. CASE b = a
    <3>1. Tail(down[a]) \in Seq(0..Back) /\ AllBack(Tail(down[a])) /\ proxy[a]
      BY <1>2, <1>3, <1>9, <2>2
    <3>2. ~Contains(down[a], Gone)
      BY <1>8, <3>1, AllBackFacts
    <3>3. QED
      BY <1>6, <2>2, <3>1, <3>2
  <2>3. QED
    BY <2>1, <2>2
<1>10. ASSUME choice' # NoChoice, NEW b \in App
       PROVE  (Heeded(b, choice))'
  <2>1. choice # NoChoice /\ choice' = choice /\ Heeded(b, choice) /\ choice \in 0..Offline
    BY <1>1, <1>2, <1>10, StatusAssumption DEF ChatInv, ChatTypeOK, ChoiceHeld
  <2>2. /\ (Heeded(b, choice))' <=>
             /\ proxy'[b] /\ ~Contains(down'[b], Gone)
             /\ EndsIn(down'[b], choice') \/ (AllBack(down'[b]) /\ mine'[b] = choice')
        /\ proxy[b] /\ ~Contains(down[b], Gone)
        /\ EndsIn(down[b], choice) \/ (AllBack(down[b]) /\ mine[b] = choice)
    BY <2>1 DEF Heeded, EndsIn, AllBack, Contains
  <2>3. CASE b # a
    BY <1>2, <1>3, <1>6, <2>1, <2>2, <2>3
  <2>4. CASE b = a
    <3>1. EndsIn(down[a], choice)
      BY <1>8, <2>2, <2>4
    <3>2. EndsIn(Tail(down[a]), choice) \/ (x = choice /\ AllBack(Tail(down[a])))
      BY <1>1, <1>4, <2>1, <3>1, TailFacts
    <3>3. QED
      BY <1>2, <1>3, <1>6, <1>8, <2>1, <2>2, <2>4, <3>2
  <2>5. QED
    BY <2>3, <2>4
<1>11. QED
  BY <1>2, <1>7, <1>9, <1>10, InvClient

\* A client notices that the service is gone.
LEMMA InvVanished ==
  ASSUME ChatInv, NEW a \in App, Vanished(a)
  PROVE  ChatInv'
<1>1. ChatTypeOK /\ down[a] # << >> /\ down[a] \in Seq(0..Back) /\ Head(down[a]) = Gone
  BY DEF ChatInv, ChatTypeOK, Vanished
<1>2. UNCHANGED <<appStatus, panel, mine, connecting, up, choice, restarts>>
  BY DEF Vanished
<1>3. /\ down' \in [App -> Seq(0..Back)] /\ down'[a] = Tail(down[a])
      /\ \A b \in App : b # a => down'[b] = down[b]
  <2>1. Tail(down[a]) \in Seq(0..Back)
    BY <1>1, QueueFacts
  <2>2. QED
    BY <1>1, <2>1 DEF Vanished, Taken, ChatTypeOK
<1>4. /\ proxy' \in [App -> BOOLEAN] /\ ~proxy'[a]
      /\ \A b \in App : b # a => proxy'[b] = proxy[b]
  BY <1>1 DEF Vanished, ChatTypeOK
<1>5. heard' \in [App -> Nat] /\ \A b \in App : b # a => heard'[b] = heard[b]
  <2>1. CASE proxy[a]
    <3>1. heard[a] \in Nat /\ heard[a] > 0
      BY <1>1, <2>1 DEF ChatTypeOK
    <3>2. QED
      BY <1>1, <2>1, <3>1 DEF Vanished, ChatTypeOK
  <2>2. CASE ~proxy[a]
    BY <1>1, <2>2 DEF Vanished, ChatTypeOK
  <2>3. QED
    BY <2>1, <2>2
<1>6. ChatTypeOK'
  BY <1>1, <1>2, <1>3, <1>4, <1>5 DEF ChatTypeOK
<1>7. ASSUME NEW b \in App, proxy'[b] /\ AllBack(down'[b]) /\ mine'[b] # NoChoice
      PROVE  /\ UNCHANGED <<up[b], mine[b]>>
             /\ proxy[b] /\ AllBack(down[b])
  BY <1>2, <1>3, <1>4, <1>7
<1>8. Contains(down[a], Gone)
  BY <1>1, TailFacts
<1>9. choice = NoChoice
  BY <1>8 DEF ChatInv, ChoiceHeld, Heeded
<1>10. QED
  BY <1>2, <1>6, <1>7, <1>9, InvClient

\* A client notices that the service is there again.
LEMMA InvAppeared ==
  ASSUME ChatInv, NEW a \in App, Appeared(a)
  PROVE  ChatInv'
<1>1. ChatTypeOK /\ down[a] # << >> /\ down[a] \in Seq(0..Back) /\ Head(down[a]) = Back
  BY DEF ChatInv, ChatTypeOK, Appeared
<1>2. UNCHANGED <<appStatus, panel, mine, proxy, heard, up, choice, restarts>>
  BY DEF Appeared
<1>3. /\ down' \in [App -> Seq(0..Back)] /\ down'[a] = Tail(down[a])
      /\ \A b \in App : b # a => down'[b] = down[b]
  <2>1. Tail(down[a]) \in Seq(0..Back)
    BY <1>1, QueueFacts
  <2>2. QED
    BY <1>1, <2>1 DEF Appeared, Taken, ChatTypeOK
<1>4. connecting' \in [App -> Nat]
  BY <1>1 DEF Appeared, ChatTypeOK
<1>5. ChatTypeOK'
  BY <1>1, <1>2, <1>3, <1>4 DEF ChatTypeOK
<1>6. /\ AllBack(Tail(down[a])) => AllBack(down[a])
      /\ AllBack(down[a]) => AllBack(Tail(down[a]))
      /\ Contains(Tail(down[a]), Gone) => Contains(down[a], Gone)
      /\ \A x \in 0..Offline : EndsIn(down[a], x) => EndsIn(Tail(down[a]), x)
  BY <1>1, TailFacts DEF Offline, Back
<1>7. ASSUME NEW b \in App, proxy'[b] /\ AllBack(down'[b]) /\ mine'[b] # NoChoice
      PROVE  /\ UNCHANGED <<up[b], mine[b]>>
             /\ proxy[b] /\ AllBack(down[b])
  BY <1>2, <1>3, <1>6, <1>7
<1>8. ASSUME choice' # NoChoice, NEW b \in App
      PROVE  (Heeded(b, choice))'
  <2>1. choice # NoChoice /\ choice' = choice /\ Heeded(b, choice) /\ choice \in 0..Offline
    BY <1>1, <1>2, <1>8, StatusAssumption DEF ChatInv, ChatTypeOK, ChoiceHeld
  <2>2. /\ (Heeded(b, choice))' <=>
             /\ proxy'[b] /\ ~Contains(down'[b], Gone)
             /\ EndsIn(down'[b], choice') \/ (AllBack(down'[b]) /\ mine'[b] = choice')
        /\ proxy[b] /\ ~Contains(down[b], Gone)
        /\ EndsIn(down[b], choice) \/ (AllBack(down[b]) /\ mine[b] = choice)
    BY <2>1 DEF Heeded, EndsIn, AllBack, Contains
  <2>3. QED
    BY <1>2, <1>3, <1>6, <2>1, <2>2
<1>9. QED
  BY <1>2, <1>5, <1>7, <1>8, InvClient

\* A client has a proxy: it reports its status.
LEMMA InvCreated ==
  ASSUME ChatInv, NEW a \in App, CreatedMessagesService(a)
  PROVE  ChatInv'
<1>1. ChatTypeOK /\ down[a] \in Seq(0..Back) /\ connecting[a] > 0
  BY DEF ChatInv, ChatTypeOK, CreatedMessagesService
<1>2. UNCHANGED <<appStatus, panel, mine, down, choice, restarts>>
  BY DEF CreatedMessagesService
<1>3. /\ proxy' \in [App -> BOOLEAN] /\ proxy'[a]
      /\ \A b \in App : b # a => proxy'[b] = proxy[b]
      /\ connecting' \in [App -> Nat]
      /\ heard' \in [App -> Nat] /\ heard'[a] > 0
      /\ \A b \in App : b # a => heard'[b] = heard[b]
  BY <1>1 DEF CreatedMessagesService, ChatTypeOK
<1>4. /\ up' \in [App -> Seq(0..Offline)]
      /\ \A b \in App : b # a => up'[b] = up[b]
      /\ mine[a] # NoChoice /\ ~Contains(down[a], Gone) =>
           up'[a] # << >> /\ Last(up'[a]) = mine[a]
  <2>1. CASE mine[a] # NoChoice
    <3>1. PICK x \in 0..Offline : x = mine[a]
      BY <1>1, <2>1 DEF ChatTypeOK
    <3>2. Send(a, x, 1)
      BY <2>1, <3>1 DEF CreatedMessagesService, SyncStatus
    <3>3. QED
      BY <1>1, <3>1, <3>2, SendFacts
  <2>2. CASE mine[a] = NoChoice
    BY <1>1, <2>2 DEF CreatedMessagesService, SyncStatus, ChatTypeOK
  <2>3. QED
    BY <2>1, <2>2
<1>5. ChatTypeOK'
  BY <1>1, <1>2, <1>3, <1>4 DEF ChatTypeOK
<1>6. ASSUME NEW b \in App, proxy'[b] /\ AllBack(down'[b]) /\ mine'[b] # NoChoice
      PROVE  \/ up'[b] # << >> /\ Last(up'[b]) = mine'[b]
             \/ /\ UNCHANGED <<up[b], mine[b]>>
                /\ proxy[b] /\ AllBack(down[b])
  <2>1. CASE b # a
    BY <1>2, <1>3, <1>4, <1>6, <2>1
  <2>2. CASE b = a
    <3>1. ~Contains(down[a], Gone)
      BY <1>1, <1>2, <1>6, <2>2, AllBackFacts
    <3>2. QED
      BY <1>2, <1>4, <1>6, <2>2, <3>1
  <2>3. QED
    BY <2>1, <2>2
<1>7. ASSUME choice' # NoChoice, NEW b \in App
      PROVE  (Heeded(b, choice))'
  <2>1. Heeded(b, choice)
    BY <1>2, <1>7 DEF ChatInv, ChoiceHeld
  <2>2. proxy'[b]
    BY <1>3, <2>1 DEF Heeded
  <2>3. QED
    BY <1>2, <2>1, <2>2 DEF Heeded, EndsIn, AllBack, Contains
<1>8. QED
  BY <1>2, <1>5, <1>6, <1>7, InvClient

\* The handler of SetStatus recomputes the panel's status from all.
LEMMA InvStatusReported ==
  ASSUME ChatInv, NEW a \in App, StatusReported(a)
  PROVE  ChatInv'
<1>1. ChatTypeOK /\ up[a] \in Seq(0..Offline) /\ up[a] # << >>
  BY DEF StatusReported, ChatInv, ChatTypeOK
<1>2. Head(up[a]) \in 0..Offline /\ Tail(up[a]) \in Seq(0..Offline)
  BY <1>1, QueueFacts
<1>3. UNCHANGED <<mine, proxy, connecting, heard, down, choice, restarts>>
  BY DEF StatusReported, links
<1> DEFINE S == DOMAIN appStatus \cup {a}
<1>4. /\ appStatus' \in [S -> 0..Offline] /\ S \in SUBSET App
      /\ DOMAIN appStatus' = S /\ appStatus'[a] = Head(up[a])
      /\ \A b \in DOMAIN appStatus : b # a => appStatus'[b] = appStatus[b]
  <2>1. DOMAIN appStatus \in SUBSET App /\ appStatus \in [DOMAIN appStatus -> 0..Offline]
    BY <1>1, PartialFacts DEF ChatTypeOK, Partial
  <2>2. QED
    BY <1>2, <2>1 DEF StatusReported
<1>5. panel' = MostAvailable(appStatus') /\ panel' \in 0..Offline
  BY <1>4, MostAvailableFacts DEF StatusReported
<1>6. /\ up' \in [App -> Seq(0..Offline)] /\ up'[a] = Tail(up[a])
      /\ \A b \in App : b # a => up'[b] = up[b]
  BY <1>1, <1>2 DEF StatusReported, ChatTypeOK
<1>7. appStatus' \in UNION {[T -> 0..Offline] : T \in SUBSET App}
  BY <1>4
<1>8. ChatTypeOK'
  BY <1>1, <1>3, <1>5, <1>6, <1>7 DEF ChatTypeOK
<1>9. PanelIsMostAvailable'
  <2>1. (MostAvailable(appStatus))' = MostAvailable(appStatus')
    BY DEF MostAvailable
  <2>2. QED
    BY <1>5, <2>1 DEF PanelIsMostAvailable
<1>10. ASSUME NEW b \in App, proxy[b], AllBack(down[b]), mine[b] # NoChoice
       PROVE  Reported(b)' # << >> /\ Last(Reported(b)') = mine[b]
  <2>1. Reported(b) # << >> /\ Last(Reported(b)) = mine[b]
    BY <1>10 DEF ChatInv, Synced
  <2>2. CASE b = a
    <3>1. Reported(a)' = up[a]
      BY <1>1, <1>4, <1>6, HeadAndTail DEF Reported
    <3>2. Last(up[a]) = Last(Reported(a))
      BY <1>1, ReportedFacts DEF UnderWayLast
    <3>3. QED
      BY <1>1, <2>1, <2>2, <3>1, <3>2
  <2>3. CASE b # a
    <3>1. Reported(b)' = Reported(b)
      BY <1>4, <1>6, <2>3 DEF Reported
    <3>2. QED
      BY <2>1, <3>1
  <2>4. QED
    BY <2>2, <2>3
<1>11. Synced'
  BY <1>3, <1>10 DEF Synced, AllBack, Last
<1>12. ChoiceHeld'
  BY <1>3, <1>4 DEF ChatInv, ChoiceHeld, Heeded, EndsIn, AllBack, Contains
<1>13. QED
  BY <1>8, <1>9, <1>11, <1>12 DEF ChatInv

\* The user's choice overwrites all statuses, so it is the most available; every
\* client has yet to be told.
LEMMA InvStatusActivated ==
  ASSUME ChatInv, NEW x \in Status, StatusActivated(x)
  PROVE  ChatInv'
<1>1. ChatTypeOK /\ x \in 0..Offline /\ down \in [App -> Seq(0..Back)]
  BY StatusAssumption DEF ChatInv, ChatTypeOK
<1>2. UNCHANGED <<mine, proxy, connecting, heard, up, restarts>>
  BY DEF StatusActivated, links
<1> DEFINE S == DOMAIN appStatus
<1>3. S \in SUBSET App /\ appStatus' = [a \in S |-> x]
  BY <1>1, PartialFacts DEF StatusActivated, ChatTypeOK, Partial
<1>4. appStatus' \in UNION {[T -> 0..Offline] : T \in SUBSET App}
  <2>1. appStatus' \in [S -> 0..Offline]
    BY <1>1, <1>3
  <2>2. QED
    BY <1>3, <2>1
<1>5. ASSUME NEW a \in App
      PROVE  /\ down'[a] = Append(down[a], x) /\ down'[a] \in Seq(0..Back)
             /\ EndsIn(down'[a], x) /\ ~AllBack(down'[a])
             /\ Contains(down'[a], Gone) => Contains(down[a], Gone)
  <2>1. down'[a] = Append(down[a], x)
    BY <1>1 DEF StatusActivated
  <2>2. QED
    BY <1>1, <2>1, AppendFacts
<1>6. down' \in [App -> Seq(0..Back)]
  BY <1>5 DEF StatusActivated
<1>7. ChatTypeOK'
  BY <1>1, <1>2, <1>4, <1>6 DEF ChatTypeOK, StatusActivated
<1>8. PanelIsMostAvailable'
  <2>1. DOMAIN appStatus' # {} => panel' = MostAvailable(appStatus')
    BY <1>1, <1>3, MostAvailableOfOne DEF StatusActivated
  <2>2. (MostAvailable(appStatus))' = MostAvailable(appStatus')
    BY DEF MostAvailable
  <2>3. QED
    BY <2>1, <2>2 DEF PanelIsMostAvailable
<1>9. Synced'
  <2>1. \A a \in App : ~(AllBack(down[a]))'
    BY <1>5 DEF AllBack
  <2>2. QED
    BY <2>1 DEF Synced
<1>10. ASSUME choice' # NoChoice, NEW a \in App
       PROVE  (Heeded(a, choice))'
  <2>1. choice' = x /\ proxy[a] /\ ~Contains(down[a], Gone)
    BY <1>10 DEF StatusActivated, AllLinked
  <2>2. (Heeded(a, choice))' <=>
           /\ proxy'[a] /\ ~Contains(down'[a], Gone)
           /\ EndsIn(down'[a], choice') \/ (AllBack(down'[a]) /\ mine'[a] = choice')
    BY DEF Heeded, EndsIn, AllBack, Contains
  <2>3. QED
    BY <1>2, <1>5, <2>1, <2>2
<1>11. choice' # NoChoice => panel' = choice'
  BY DEF StatusActivated
<1>12. ChoiceHeld'
  BY <1>10, <1>11 DEF ChoiceHeld
<1>13. QED
  BY <1>7, <1>8, <1>9, <1>12 DEF ChatInv

\* The statuses are lost: every client is told of the end and the start.
LEMMA InvRestart ==
  ASSUME ChatInv, Restart
  PROVE  ChatInv'
<1>1. ChatTypeOK /\ down \in [App -> Seq(0..Back)] /\ up \in [App -> Seq(0..Offline)]
  BY DEF ChatInv, ChatTypeOK
<1>2. UNCHANGED <<mine, proxy, connecting, heard>> /\ choice' = NoChoice
  BY DEF Restart, links
<1>3. appStatus' \in [{} -> 0..Offline] /\ DOMAIN appStatus' = {} /\ panel' \in 0..Offline
  BY DEF Restart, NoStatus, Offline
<1>4. appStatus' \in UNION {[S -> 0..Offline] : S \in SUBSET App}
  BY <1>3
<1>5. ASSUME NEW a \in App
      PROVE  down'[a] \in Seq(0..Back) /\ ~AllBack(down'[a])
  <2>1. down'[a] = down[a] \o <<Gone, Back>>
    BY DEF Restart
  <2>2. QED
    BY <1>1, <2>1, RestartFacts
<1>6. down' \in [App -> Seq(0..Back)]
  BY <1>5 DEF Restart
<1>7. up' \in [App -> Seq(0..Offline)]
  <2>1. PICK lost \in [App -> 0..MaxInFlight] :
          up' = [a \in App |-> SubSeq(up[a], lost[a] + 1, Len(up[a]))]
    BY DEF Restart
  <2>2. ASSUME NEW a \in App
        PROVE  SubSeq(up[a], lost[a] + 1, Len(up[a])) \in Seq(0..Offline)
    <3>1. lost[a] \in Nat /\ up[a] \in Seq(0..Offline)
      BY <1>1
    <3>2. QED
      BY <3>1, RestOfQueue
  <2>3. QED
    BY <2>1, <2>2
<1>8. restarts' \in 0..MaxRestart
  BY <1>1, MaxRestartAssumption DEF Restart, ChatTypeOK
<1>9. ChatTypeOK'
  BY <1>1, <1>2, <1>3, <1>4, <1>6, <1>7, <1>8 DEF ChatTypeOK
<1>10. PanelIsMostAvailable' /\ ChoiceHeld'
  BY <1>2, <1>3 DEF PanelIsMostAvailable, ChoiceHeld
<1>11. Synced'
  <2>1. \A a \in App : ~(AllBack(down[a]))'
    BY <1>5 DEF AllBack
  <2>2. QED
    BY <2>1 DEF Synced
<1>12. QED
  BY <1>9, <1>10, <1>11 DEF ChatInv

-----------------------------------------------------------------------------
(* The theorems.                                                           *)

\* At first no client has a proxy and no status is known.
LEMMA InvInit == Init => ChatInv
<1> SUFFICES ASSUME Init PROVE ChatInv
  OBVIOUS
<1>1. appStatus \in [{} -> 0..Offline] /\ DOMAIN appStatus = {}
  BY DEF Init, NoStatus
<1>2. appStatus \in UNION {[S -> 0..Offline] : S \in SUBSET App}
  BY <1>1
<1>3. up \in [App -> Seq(0..Offline)] /\ down \in [App -> Seq(0..Back)]
  BY NothingUnderWay DEF Init
<1>4. panel \in 0..Offline /\ choice = NoChoice /\ restarts \in 0..MaxRestart
  BY MaxRestartAssumption DEF Init, Offline
<1>5. QED
  BY <1>1, <1>2, <1>3, <1>4
  DEF Init, ChatInv, ChatTypeOK, PanelIsMostAvailable, Synced, ChoiceHeld

\* Every step keeps the invariant.
LEMMA InvNext == ChatInv /\ [ChatNext]_chatVars => ChatInv'
<1> SUFFICES ASSUME ChatInv, [ChatNext]_chatVars PROVE ChatInv'
  OBVIOUS
<1>1. CASE \E a \in App : \E x \in Status : SetStatus(a, x)
  BY <1>1, InvSetStatus
<1>2. CASE \E a \in App : GlobalStatusChanged(a)
  BY <1>2, InvGlobalStatusChanged
<1>3. CASE \E a \in App : Vanished(a)
  BY <1>3, InvVanished
<1>4. CASE \E a \in App : Appeared(a)
  BY <1>4, InvAppeared
<1>5. CASE \E a \in App : CreatedMessagesService(a)
  BY <1>5, InvCreated
<1>6. CASE \E a \in App : StatusReported(a)
  BY <1>6, InvStatusReported
<1>7. CASE \E x \in Status : StatusActivated(x)
  BY <1>7, InvStatusActivated
<1>8. CASE Restart
  BY <1>8, InvRestart
<1>9. CASE UNCHANGED chatVars
  BY <1>9 DEF chatVars, ChatInv, ChatTypeOK, PanelIsMostAvailable, MostAvailable,
              Synced, Reported, ChoiceHeld, Heeded, AllBack, EndsIn, Contains, Last
<1>10. QED
  BY <1>1, <1>2, <1>3, <1>4, <1>5, <1>6, <1>7, <1>8, <1>9 DEF ChatNext

\* The state is well-formed in every reachable state, whatever is lost.
THEOREM ChatTypeCorrect == ChatSpec => []ChatTypeOK
<1>1. ChatInv => ChatTypeOK
  BY DEF ChatInv
<1>2. QED
  BY <1>1, InvInit, InvNext, PTL DEF ChatSpec

(***************************************************************************)
(* The aggregate is right: in every reachable state the panel shows the    *)
(* most available status that an application reported or the user chose.   *)
(***************************************************************************)
THEOREM StatusCorrect == ChatSpec => []PanelIsMostAvailable
<1>1. ChatInv => PanelIsMostAvailable
  BY DEF ChatInv
<1>2. QED
  BY <1>1, InvInit, InvNext, PTL DEF ChatSpec

(***************************************************************************)
(* A client that has been told all has reported its status last, whichever *)
(* of its earlier reports were lost with a service.                        *)
(***************************************************************************)
THEOREM StatusArrivesCorrect == ChatSpec => []StatusArrives
<1>1. ChatInv => StatusArrives
  BY NothingTold DEF ChatInv, Synced, StatusArrives
<1>2. QED
  BY <1>1, InvInit, InvNext, PTL DEF ChatSpec

(***************************************************************************)
(* The user has the last word, however many reports of older statuses were *)
(* under way when the choice was made.                                     *)
(***************************************************************************)
THEOREM UserChoiceCorrect == ChatSpec => []UserChoiceWins
<1>1. ChatInv => UserChoiceWins
  <2> SUFFICES ASSUME ChatInv, choice # NoChoice,
                      \A a \in App : up[a] = << >> /\ down[a] = << >>
               PROVE  panel = choice
    BY DEF UserChoiceWins
  <2>1. /\ ChatTypeOK /\ choice \in 0..Offline
        /\ DOMAIN appStatus \in SUBSET App /\ appStatus \in [DOMAIN appStatus -> 0..Offline]
    BY StatusAssumption, PartialFacts DEF ChatInv, ChatTypeOK, Partial
  <2>2. ASSUME NEW a \in App, a \in DOMAIN appStatus
        PROVE  appStatus[a] = choice
    <3>1. mine[a] = choice /\ proxy[a] /\ AllBack(down[a])
      BY NothingTold DEF ChatInv, ChoiceHeld, Heeded
    <3>2. Last(Reported(a)) = choice
      BY <3>1 DEF ChatInv, Synced
    <3>3. << >> \in Seq(0..Offline) /\ appStatus[a] \in 0..Offline
      BY <2>1, <2>2, EmptySeq
    <3>4. Last(Reported(a)) = appStatus[a]
      BY <2>2, <3>3, LastFacts DEF Reported
    <3>5. QED
      BY <3>2, <3>4
  <2>3. CASE DOMAIN appStatus = {}
    BY <2>3 DEF ChatInv, ChoiceHeld
  <2>4. CASE DOMAIN appStatus # {}
    <3>1. appStatus = [a \in DOMAIN appStatus |-> choice]
      BY <2>1, <2>2
    <3>2. MostAvailable([a \in DOMAIN appStatus |-> choice]) = choice
      BY <2>1, <2>4, MostAvailableOfOne
    <3>3. QED
      BY <2>4, <3>1, <3>2 DEF ChatInv, PanelIsMostAvailable
  <2>5. QED
    BY <2>3, <2>4
<1>2. QED
  BY <1>1, InvInit, InvNext, PTL DEF ChatSpec
=============================================================================
