------------------------ MODULE AccountsService_proofs ------------------------
(***************************************************************************)
(* The proxy in use is always the one for the latest change of the user,   *)
(* for any number of changes.                                              *)
(***************************************************************************)
EXTENDS AccountsService, SequenceTheorems, TLAPS

LEMMA InitInv == Init => AccountsInv
<1> SUFFICES ASSUME Init PROVE AccountsInv
  OBVIOUS
<1>1. wire \in Seq(BOOLEAN) /\ Len(wire) <= MaxWire
  BY BoundsAssumption, EmptySeq DEF Init
<1>2. loaded \in BOOLEAN /\ has \in BOOLEAN /\ draws \in BOOLEAN /\ told \in BOOLEAN
  BY Zenon DEF Init
<1>3. TypeOK
  BY <1>1, <1>2, BoundsAssumption DEF Init, TypeOK
<1>4. LatestUser /\ OneCreation
  BY DEF Init, LatestUser, OneCreation
<1>5. QED
  BY <1>3, <1>4 DEF AccountsInv

\* A change of the user cancels whatever is under way for an earlier one.
LEMMA ChangeInv ==
  ASSUME AccountsInv, UserChanged, loaded' \in BOOLEAN
  PROVE  AccountsInv'
<1> USE BoundsAssumption DEF AccountsInv, UserChanged, NewProxy, Change
<1>1. TypeOK'
  BY DEF TypeOK, OneCreation
<1>2. LatestUser'
  BY DEF LatestUser
<1>3. OneCreation'
  BY DEF TypeOK, OneCreation
<1>4. QED
  BY <1>1, <1>2, <1>3

\* A creation that succeeds was not cancelled, so it is the one for the
\* latest change.
LEMMA ReadyInv ==
  ASSUME AccountsInv, NEW n \in Change, security_privacy_ready(n)
  PROVE  AccountsInv'
<1> USE BoundsAssumption DEF AccountsInv, security_privacy_ready, Change
<1>1. TypeOK'
  <2>1. failed' \subseteq Change /\ touch_settings' \in 0..MaxChange
    <3>1. CASE ReadyConnected(n)
      BY <3>1 DEF TypeOK, ReadyConnected
    <3>2. CASE ReadyFailed(n)
      BY <3>2 DEF TypeOK, ReadyFailed
    <3>3. CASE ReadyCancelled(n)
      BY <3>3 DEF TypeOK, ReadyCancelled
    <3>4. QED
      BY <3>1, <3>2, <3>3
  <2>2. /\ UNCHANGED <<loaded, cancel, changes, cancelled, wire, has, draws, told>>
        /\ pending' \subseteq pending
    OBVIOUS
  <2>3. QED
    BY <2>1, <2>2 DEF TypeOK
<1>2. LatestUser'
  <2>1. CASE ReadyConnected(n)
    <3>1. n \in 1..changes /\ n \notin 0..(changes - 1)
      BY <2>1 DEF OneCreation, ReadyConnected
    <3>2. n = changes
      BY <3>1 DEF TypeOK
    <3>3. QED
      BY <2>1, <3>2 DEF LatestUser, ReadyConnected
  <2>2. CASE ReadyCancelled(n) \/ ReadyFailed(n)
    BY <2>2 DEF LatestUser, ReadyCancelled, ReadyFailed
  <2>3. QED
    BY <2>1, <2>2
<1>3. OneCreation'
  BY DEF OneCreation
<1>4. QED
  BY <1>1, <1>2, <1>3

\* Calls to the daemon do not touch the proxy.
LEMMA CallInv ==
  ASSUME AccountsInv,
         SetXHasMessages \/ \E d \in BOOLEAN : set_draws_attention(d)
  PROVE  AccountsInv'
<1> USE BoundsAssumption DEF AccountsInv
<1>1. CASE SetXHasMessages
  <2>1. Head(wire) \in BOOLEAN /\ Tail(wire) \in Seq(BOOLEAN) /\ Len(Tail(wire)) <= MaxWire
    BY <1>1 DEF SetXHasMessages, TypeOK
  <2>2. QED
    BY <1>1, <2>1 DEF SetXHasMessages, TypeOK, LatestUser, OneCreation
<1>2. ASSUME NEW d \in BOOLEAN, set_draws_attention(d)
      PROVE  AccountsInv'
  <2>1. wire' \in Seq(BOOLEAN) /\ Len(wire') <= MaxWire
    <3>1. wire \in Seq(BOOLEAN) /\ Len(wire) < MaxWire
      BY <1>2 DEF set_draws_attention, TypeOK
    <3>2. Append(wire, d) \in Seq(BOOLEAN) /\ Len(Append(wire, d)) = Len(wire) + 1
      BY <3>1, AppendProperties
    <3>3. wire' = Append(wire, d) \/ wire' = wire
      BY <1>2 DEF set_draws_attention, Tell
    <3>4. Len(wire) \in Nat
      BY <3>1, LenProperties
    <3>5. QED
      BY <3>1, <3>2, <3>3, <3>4, BoundsAssumption
  <2>2. draws' \in BOOLEAN /\ told' \in BOOLEAN
    BY <1>2, Zenon DEF set_draws_attention
  <2>3. UNCHANGED <<loaded, touch_settings, cancel, changes, pending, cancelled, has, failed>>
    BY <1>2 DEF set_draws_attention
  <2>4. QED
    BY <2>1, <2>2, <2>3 DEF TypeOK, LatestUser, OneCreation
<1>3. QED
  BY <1>1, <1>2

LEMMA StepInv == AccountsInv /\ [Next]_vars => AccountsInv'
<1> SUFFICES ASSUME AccountsInv, [Next]_vars PROVE AccountsInv'
  OBVIOUS
<1>1. CASE UserSignal
  BY <1>1, ChangeInv DEF UserSignal, AccountsInv, TypeOK
<1>2. CASE on_user_manager_loaded
  <2>1. CASE UserChanged
    BY <1>2, <2>1, ChangeInv DEF on_user_manager_loaded
  <2>2. CASE ~UserChanged
    BY <1>2, <2>2 DEF on_user_manager_loaded, AccountsInv, TypeOK, LatestUser, OneCreation
  <2>3. QED
    BY <2>1, <2>2
<1>3. CASE \E n \in Change : security_privacy_ready(n)
  BY <1>3, ReadyInv
<1>4. CASE SetXHasMessages \/ \E d \in BOOLEAN : set_draws_attention(d)
  BY <1>4, CallInv
<1>5. CASE UNCHANGED vars
  BY <1>5 DEF vars, AccountsInv, TypeOK, LatestUser, OneCreation
<1>6. QED
  BY <1>1, <1>2, <1>3, <1>4, <1>5 DEF Next

(***************************************************************************)
(* The types, and what makes the proxy the right one: at any time only the *)
(* creation for the latest change can still succeed.                       *)
(***************************************************************************)
THEOREM AccountsCorrect == Spec => []AccountsInv
BY InitInv, StepInv, PTL DEF Spec

(***************************************************************************)
(* The proxy in use is the one for the latest change of the user, whatever *)
(* the order of changes and of the callbacks of the creations.             *)
(***************************************************************************)
THEOREM LatestUserCorrect == Spec => []LatestUser
<1>1. AccountsInv => LatestUser
  BY DEF AccountsInv
<1>2. QED
  BY <1>1, AccountsCorrect, PTL

\* Handling a call leaves the value the flag will have in the end.
LEMMA LastOfWire ==
  ASSUME NEW h \in BOOLEAN, NEW w \in Seq(BOOLEAN), w # << >>
  PROVE  Last(<<h>> \o w) = Last(<<Head(w)>> \o Tail(w))
BY DEF Last

(***************************************************************************)
(* A value that was not dropped is what the greeter's flag becomes.        *)
(***************************************************************************)
THEOREM FlagCorrect == Spec => []FlagOnItsWay
<1>1. Init => FlagOnItsWay
  BY DEF Init, FlagOnItsWay
<1>2. AccountsInv /\ FlagOnItsWay /\ [Next]_vars => FlagOnItsWay'
  <2> SUFFICES ASSUME AccountsInv, FlagOnItsWay, [Next]_vars PROVE FlagOnItsWay'
    OBVIOUS
  <2>1. has \in BOOLEAN /\ wire \in Seq(BOOLEAN)
    BY DEF AccountsInv, TypeOK
  <2>2. CASE SetXHasMessages
    BY <2>1, <2>2, LastOfWire DEF SetXHasMessages, FlagOnItsWay
  <2>3. ASSUME NEW d \in BOOLEAN, set_draws_attention(d)
        PROVE  FlagOnItsWay'
    <3>1. CASE touch_settings = 0
      <4>1. ~told'
        BY <2>3, <3>1 DEF set_draws_attention
      <4>2. QED
        BY <4>1 DEF FlagOnItsWay
    <3>2. CASE touch_settings # 0
      <4>1. wire' = Append(wire, d) /\ has' = has /\ draws' = d
        BY <2>3, <3>2 DEF set_draws_attention, Tell
      <4>2. Last(<<has>> \o Append(wire, d)) = d
        <5> DEFINE W == <<has>> \o Append(wire, d)
        <5>1. <<has>> \in Seq(BOOLEAN) /\ Append(wire, d) \in Seq(BOOLEAN)
          BY <2>1
        <5>2. Len(W) = Len(wire) + 2 /\ Len(wire) \in Nat
          BY <2>1
        <5>3. W[Len(wire) + 2] = d
          BY <2>1
        <5>4. QED
          BY <5>2, <5>3 DEF Last
      <4>3. QED
        BY <4>1, <4>2, Zenon DEF FlagOnItsWay
    <3>3. QED
      BY <3>1, <3>2
  <2>4. CASE UserSignal \/ on_user_manager_loaded \/ UNCHANGED vars
             \/ \E n \in Change : security_privacy_ready(n)
    <3>1. UNCHANGED <<told, draws, has, wire>>
      BY <2>4 DEF UserSignal, on_user_manager_loaded, UserChanged, vars,
                  security_privacy_ready
    <3>2. QED
      BY <3>1 DEF FlagOnItsWay
  <2>5. QED
    BY <2>2, <2>3, <2>4 DEF Next
<1>3. QED
  BY <1>1, <1>2, AccountsCorrect, PTL DEF Spec

=============================================================================
