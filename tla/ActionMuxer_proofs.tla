-------------------------- MODULE ActionMuxer_proofs --------------------------
(***************************************************************************)
(* Whoever follows the signals of a muxer knows its actions, for any       *)
(* groups, prefixes and names.  The argument is that the full name under   *)
(* which an action of a group is announced and withdrawn depends on the    *)
(* prefix the group has at that moment only, and that the group has one.   *)
(***************************************************************************)
EXTENDS ActionMuxer, TLAPS

\* The watcher knows an action under a prefix if the group there has it.
Mirrors == \A q \in Prefixes, n \in Name :
             <<q, n>> \in mirror <=> groups[q] # NULL /\ n \in actions[groups[q]]

LEMMA SamePairs ==
  ASSUME NEW A, NEW B, NEW S \in SUBSET (A \X B), NEW T \in SUBSET (A \X B),
         \A a \in A, b \in B : <<a, b>> \in S <=> <<a, b>> \in T
  PROVE  S = T
<1>1. \A x \in A \X B : x \in S <=> x \in T
  <2>1. TAKE x \in A \X B
  <2>2. PICK a \in A, b \in B : x = <<a, b>>
    OBVIOUS
  <2>3. QED
    BY <2>2
<1>2. QED
  BY <1>1

\* The list of actions, pair by pair.
LEMMA ListIsMirror == TypeOK => (MirrorIsList <=> Mirrors)
<1> SUFFICES ASSUME TypeOK PROVE MirrorIsList <=> Mirrors
  OBVIOUS
<1>1. \A q \in Prefixes : groups[q] # NULL => actions[groups[q]] \subseteq Name
  BY DEF TypeOK
<1>2. ListActions \subseteq Prefixes \X Name
  BY <1>1 DEF ListActions
<1>3. \A q \in Prefixes, n \in Name :
        <<q, n>> \in ListActions <=> groups[q] # NULL /\ n \in actions[groups[q]]
  BY DEF ListActions
<1>4. mirror \subseteq Prefixes \X Name
  BY DEF TypeOK
<1>5. MirrorIsList => Mirrors
  BY <1>3 DEF MirrorIsList, Mirrors
<1>6. ASSUME Mirrors PROVE mirror = ListActions
  <2>1. \A q \in Prefixes, n \in Name : <<q, n>> \in mirror <=> <<q, n>> \in ListActions
    BY <1>3, <1>6 DEF Mirrors
  <2>2. QED
    BY <1>2, <1>4, <2>1, SamePairs
<1>7. QED
  BY <1>5, <1>6 DEF MirrorIsList

\* The names of a group that has a prefix are those under this prefix.
LEMMA NamesUnder ==
  ASSUME TypeOK, GroupsLetGo, NEW p \in Prefixes, groups[p] # NULL, NEW N
  PROVE  FullNames(groups[p], N) = {p} \X N
<1>1. CASE p = NULL
  BY <1>1 DEF FullNames
<1>2. CASE p # NULL
  <2>1. p \in Prefix /\ groups[p] \in Group /\ NULL \in Prefixes
    BY <1>2 DEF TypeOK, Prefixes
  <2>2. reverse[groups[p]] = p /\ groups[p] # groups[NULL]
    BY <1>2, <2>1 DEF GroupsLetGo
  <2>3. QED
    BY <1>2, <2>2 DEF FullNames
<1>3. QED
  BY <1>1, <1>2

\* So withdrawing a group withdraws what is under its prefix.
LEMMA WithdrawnUnder ==
  ASSUME MuxerInv, NEW p \in Prefixes
  PROVE  \A q \in Prefixes, n \in Name :
           <<q, n>> \in mirror \ Withdrawn(groups[p])
             <=> q # p /\ groups[q] # NULL /\ n \in actions[groups[q]]
<1>0. TypeOK /\ GroupsLetGo /\ Mirrors
  BY ListIsMirror DEF MuxerInv
<1>1. CASE groups[p] = NULL
  BY <1>0, <1>1 DEF Withdrawn, Mirrors
<1>2. CASE groups[p] # NULL
  <2>1. Withdrawn(groups[p]) = {p} \X actions[groups[p]]
    BY <1>0, <1>2, NamesUnder DEF Withdrawn
  <2>2. QED
    BY <1>0, <2>1 DEF Mirrors
<1>3. QED
  BY <1>1, <1>2

LEMMA InitInv == Init => MuxerInv
<1> SUFFICES ASSUME Init PROVE MuxerInv
  OBVIOUS
<1>1. TypeOK
  BY DEF Init, TypeOK, NoGroups, Prefixes
<1>2. \A q \in Prefixes : groups[q] = NULL
  BY DEF Init, NoGroups
<1>3. MirrorIsList
  BY <1>2 DEF Init, MirrorIsList, ListActions
<1>4. GroupsLetGo
  BY <1>2, NULLAssumption DEF Init, GroupsLetGo, Prefixes
<1>5. QED
  BY <1>1, <1>3, <1>4 DEF MuxerInv

LEMMA RemoveInv ==
  ASSUME MuxerInv, NEW p \in Prefixes, Remove(p)
  PROVE  MuxerInv'
<1>0. TypeOK /\ GroupsLetGo
  BY DEF MuxerInv
<1>1. \A q \in Prefixes : groups'[q] = IF q = p THEN NULL ELSE groups[q]
  BY <1>0 DEF Remove, TypeOK
<1>2. TypeOK'
  <2>1. reverse' \in [Group -> Prefixes]
    BY <1>0 DEF Remove, TypeOK, Forgotten, Prefixes
  <2>2. groups' \in [Prefixes -> Group \cup {NULL}]
    BY <1>0 DEF Remove, TypeOK, Prefixes
  <2>3. connected' \subseteq Group /\ actions' \in [Group -> SUBSET Name]
    BY <1>0 DEF Remove, TypeOK, Disconnected
  <2>4. mirror' \subseteq Prefixes \X Name
    BY <1>0 DEF Remove, TypeOK
  <2>5. QED
    BY <2>1, <2>2, <2>3, <2>4 DEF TypeOK
<1>3. Mirrors'
  <2>1. actions' = actions /\ mirror' = mirror \ Withdrawn(groups[p])
    BY DEF Remove
  <2>2. QED
    BY <1>1, <2>1, WithdrawnUnder DEF Mirrors
<1>4. GroupsLetGo'
  <2>1. connected' = {g \in Group : \E q \in Prefixes : groups'[q] = g}
    BY <1>0, <1>1, NULLAssumption DEF Remove, GroupsLetGo, Disconnected, TypeOK
  <2>2. \A g \in Group, q \in Prefix : reverse'[g] = q <=> groups'[q] = g
    <3>1. SUFFICES ASSUME NEW g \in Group, NEW q \in Prefix
                   PROVE  reverse'[g] = q <=> groups'[q] = g
      OBVIOUS
    <3>2. /\ reverse[g] = q <=> groups[q] = g
          /\ q \in Prefixes /\ q # NULL /\ g # NULL
      BY <1>0, NULLAssumption DEF GroupsLetGo, Prefixes
    <3>3. CASE p = NULL \/ groups[p] = NULL
      BY <1>1, <3>2, <3>3 DEF Remove, Forgotten
    <3>4. CASE p # NULL /\ groups[p] # NULL
      <4>1. reverse'[g] = IF g = groups[p] THEN NULL ELSE reverse[g]
        BY <1>0, <3>4 DEF Remove, Forgotten, TypeOK
      <4>2. q # p /\ groups[q] = g => g # groups[p]
        BY <1>0, <3>2 DEF GroupsLetGo
      <4>3. QED
        BY <1>1, <3>2, <4>1, <4>2
    <3>5. QED
      BY <3>3, <3>4
  <2>3. \A q, r \in Prefixes : groups'[q] = groups'[r] /\ groups'[q] # NULL => q = r
    BY <1>0, <1>1 DEF GroupsLetGo
  <2>4. QED
    BY <2>1, <2>2, <2>3 DEF GroupsLetGo
<1>5. QED
  <2>1. MirrorIsList'
    BY <1>2, <1>3, ListIsMirror, PTL
  <2>2. QED
    BY <1>2, <1>4, <2>1 DEF MuxerInv

LEMMA InsertInv ==
  ASSUME MuxerInv, NEW p \in Prefixes, NEW g \in Group, Insert(p, g)
  PROVE  MuxerInv'
<1>0. TypeOK /\ GroupsLetGo /\ g # NULL
  BY NULLAssumption DEF MuxerInv
<1>1. \A q \in Prefixes : groups'[q] = IF q = p THEN g ELSE groups[q]
  BY <1>0 DEF Insert, TypeOK
<1>2. \A q \in Prefixes : q # p => groups[q] # g
  BY DEF Insert
<1>3. TypeOK'
  <2>1. Forgotten(p) \in [Group -> Prefixes]
    BY <1>0 DEF TypeOK, Forgotten, Prefixes
  <2>2. reverse' \in [Group -> Prefixes]
    BY <1>0, <2>1 DEF Insert, TypeOK
  <2>3. groups' \in [Prefixes -> Group \cup {NULL}]
    BY <1>0 DEF Insert, TypeOK
  <2>4. connected' \subseteq Group /\ actions' \in [Group -> SUBSET Name]
    BY <1>0 DEF Insert, TypeOK, Disconnected
  <2>5. mirror' \subseteq Prefixes \X Name
    BY <1>0 DEF Insert, TypeOK
  <2>6. QED
    BY <2>2, <2>3, <2>4, <2>5 DEF TypeOK
<1>4. Mirrors'
  <2>1. actions' = actions
        /\ mirror' = (mirror \ Withdrawn(groups[p])) \cup {p} \X actions[g]
    BY DEF Insert
  <2>2. SUFFICES ASSUME NEW q \in Prefixes, NEW n \in Name
                 PROVE  <<q, n>> \in mirror' <=> groups'[q] # NULL /\ n \in actions'[groups'[q]]
    BY DEF Mirrors
  <2>3. <<q, n>> \in mirror' <=> \/ q # p /\ groups[q] # NULL /\ n \in actions[groups[q]]
                                 \/ q = p /\ n \in actions[g]
    BY <2>1, WithdrawnUnder
  <2>4. QED
    BY <1>0, <1>1, <2>1, <2>3
<1>5. GroupsLetGo'
  <2>1. connected' = {h \in Group : \E q \in Prefixes : groups'[q] = h}
    BY <1>0, <1>1, NULLAssumption DEF Insert, GroupsLetGo, Disconnected, TypeOK
  <2>2. \A h \in Group, q \in Prefix : reverse'[h] = q <=> groups'[q] = h
    <3>1. SUFFICES ASSUME NEW h \in Group, NEW q \in Prefix
                   PROVE  reverse'[h] = q <=> groups'[q] = h
      OBVIOUS
    <3>2. /\ reverse[h] = q <=> groups[q] = h
          /\ q \in Prefixes /\ q # NULL /\ h # NULL
      BY <1>0, NULLAssumption DEF GroupsLetGo, Prefixes
    <3>3. CASE p = NULL
      BY <1>1, <3>2, <3>3 DEF Insert
    <3>4. CASE p # NULL
      <4>1. Forgotten(p) \in [Group -> Prefixes]
        BY <1>0 DEF TypeOK, Forgotten, Prefixes
      <4>2. reverse'[h] = IF h = g THEN p ELSE Forgotten(p)[h]
        BY <3>4, <4>1 DEF Insert
      <4>3. Forgotten(p)[h] = IF h = groups[p] THEN NULL ELSE reverse[h]
        BY <1>0, <3>2, <3>4 DEF Forgotten, TypeOK
      <4>4. q # p /\ groups[q] = h => h # groups[p]
        BY <1>0, <3>2 DEF GroupsLetGo
      <4>5. CASE h = g
        BY <1>1, <1>2, <3>2, <4>2, <4>5
      <4>6. CASE h # g
        BY <1>1, <3>2, <4>2, <4>3, <4>4, <4>6
      <4>7. QED
        BY <4>5, <4>6
    <3>5. QED
      BY <3>3, <3>4
  <2>3. \A q, r \in Prefixes : groups'[q] = groups'[r] /\ groups'[q] # NULL => q = r
    BY <1>0, <1>1, <1>2 DEF GroupsLetGo
  <2>4. QED
    BY <2>1, <2>2, <2>3 DEF GroupsLetGo
<1>6. QED
  <2>1. MirrorIsList'
    BY <1>3, <1>4, ListIsMirror, PTL
  <2>2. QED
    BY <1>3, <1>5, <2>1 DEF MuxerInv

LEMMA DisposeInv ==
  ASSUME MuxerInv, Dispose
  PROVE  MuxerInv'
<1>0. TypeOK /\ GroupsLetGo /\ Mirrors
  BY ListIsMirror DEF MuxerInv
<1>1. \A q \in Prefixes : groups'[q] = NULL
  BY DEF Dispose, NoGroups
<1>2. TypeOK'
  BY <1>0 DEF Dispose, TypeOK, NoGroups, Prefixes
<1>3. Mirrors'
  <2>1. SUFFICES ASSUME NEW q \in Prefixes, NEW n \in Name, <<q, n>> \in mirror'
                 PROVE  FALSE
    BY <1>1 DEF Mirrors
  <2>2. <<q, n>> \in mirror /\ <<q, n>> \notin Withdrawn(groups[q])
    BY <2>1 DEF Dispose
  <2>3. <<q, n>> \notin mirror \ Withdrawn(groups[q])
    BY WithdrawnUnder
  <2>4. QED
    BY <2>2, <2>3
<1>4. GroupsLetGo'
  <2>1. connected' = {}
    BY <1>0 DEF Dispose, GroupsLetGo
  <2>2. \A g \in Group : reverse'[g] = NULL
    BY DEF Dispose
  <2>3. Prefix \subseteq Prefixes
    BY DEF Prefixes
  <2>4. QED
    BY <1>1, <2>1, <2>2, <2>3, NULLAssumption DEF GroupsLetGo
<1>5. QED
  <2>1. MirrorIsList'
    BY <1>2, <1>3, ListIsMirror, PTL
  <2>2. QED
    BY <1>2, <1>4, <2>1 DEF MuxerInv

\* An action of a group comes or goes.
LEMMA GroupChangesInv ==
  ASSUME MuxerInv, NEW g \in Group, NEW n \in Name,
         ActionAdded(g, n) \/ ActionRemoved(g, n)
  PROVE  MuxerInv'
<1>0. TypeOK /\ GroupsLetGo /\ Mirrors /\ UNCHANGED <<groups, reverse, connected>>
  BY ListIsMirror DEF MuxerInv, ActionAdded, ActionRemoved
<1>1. GroupsLetGo'
  BY <1>0 DEF GroupsLetGo
<1>2. g \in connected <=> \E q \in Prefixes : groups[q] = g
  BY <1>0 DEF GroupsLetGo
<1>3. \A q \in Prefixes : groups[q] = g => FullNames(g, {n}) = {q} \X {n}
  BY <1>0, NamesUnder, NULLAssumption
<1>4. \A q \in Prefixes : groups[q] # NULL => groups[q] \in Group
  BY <1>0 DEF TypeOK
<1>5. CASE ActionAdded(g, n)
  <2>1. actions' \in [Group -> SUBSET Name]
        /\ \A h \in Group : actions'[h] = IF h = g THEN actions[g] \cup {n} ELSE actions[h]
    BY <1>0, <1>5 DEF ActionAdded, TypeOK
  <2>2. CASE g \in connected
    <3>1. PICK p \in Prefixes : groups[p] = g
      BY <1>2, <2>2
    <3>2. mirror' = mirror \cup {<<p, n>>}
      <4>1. mirror' = mirror \cup FullNames(g, {n})
        BY <1>5, <2>2 DEF ActionAdded
      <4>2. FullNames(g, {n}) = {p} \X {n}
        BY <1>3, <3>1
      <4>3. {p} \X {n} = {<<p, n>>}
        OBVIOUS
      <4>4. QED
        BY <4>1, <4>2, <4>3
    <3>3. TypeOK'
      BY <1>0, <2>1, <3>2 DEF TypeOK
    <3>4. \A q \in Prefixes : groups[q] = g => q = p
      BY <1>0, <3>1, NULLAssumption DEF GroupsLetGo
    <3>5. Mirrors'
      <4>1. SUFFICES ASSUME NEW q \in Prefixes, NEW m \in Name
                     PROVE  <<q, m>> \in mirror' <=> groups[q] # NULL /\ m \in actions'[groups[q]]
        BY <1>0 DEF Mirrors
      <4>2. <<q, m>> \in mirror <=> groups[q] # NULL /\ m \in actions[groups[q]]
        BY <1>0 DEF Mirrors
      <4>3. CASE q = p
        BY <2>1, <3>1, <3>2, <4>2, <4>3, NULLAssumption
      <4>4. CASE q # p
        <5>1. groups[q] # g
          BY <3>4, <4>4
        <5>2. groups[q] # NULL => actions'[groups[q]] = actions[groups[q]]
          BY <1>4, <2>1, <5>1
        <5>3. <<q, m>> \in mirror' <=> <<q, m>> \in mirror
          BY <3>2, <4>4
        <5>4. QED
          BY <4>2, <5>2, <5>3
      <4>5. QED
        BY <4>3, <4>4
    <3>6. QED
      BY <1>1, <3>3, <3>5, ListIsMirror, PTL DEF MuxerInv
  <2>3. CASE g \notin connected
    <3>1. mirror' = mirror
      BY <1>5, <2>3 DEF ActionAdded
    <3>2. TypeOK'
      BY <1>0, <2>1, <3>1 DEF TypeOK
    <3>3. Mirrors'
      BY <1>0, <1>2, <1>4, <2>1, <2>3, <3>1 DEF Mirrors
    <3>4. QED
      BY <1>1, <3>2, <3>3, ListIsMirror, PTL DEF MuxerInv
  <2>4. QED
    BY <2>2, <2>3
<1>6. CASE ActionRemoved(g, n)
  <2>1. actions' \in [Group -> SUBSET Name]
        /\ \A h \in Group : actions'[h] = IF h = g THEN actions[g] \ {n} ELSE actions[h]
    BY <1>0, <1>6 DEF ActionRemoved, TypeOK
  <2>2. CASE g \in connected
    <3>1. PICK p \in Prefixes : groups[p] = g
      BY <1>2, <2>2
    <3>2. mirror' = mirror \ {<<p, n>>}
      <4>1. mirror' = mirror \ FullNames(g, {n})
        BY <1>6, <2>2 DEF ActionRemoved
      <4>2. FullNames(g, {n}) = {p} \X {n}
        BY <1>3, <3>1
      <4>3. {p} \X {n} = {<<p, n>>}
        OBVIOUS
      <4>4. QED
        BY <4>1, <4>2, <4>3
    <3>3. TypeOK'
      BY <1>0, <2>1, <3>2 DEF TypeOK
    <3>4. \A q \in Prefixes : groups[q] = g => q = p
      BY <1>0, <3>1, NULLAssumption DEF GroupsLetGo
    <3>5. Mirrors'
      <4>1. SUFFICES ASSUME NEW q \in Prefixes, NEW m \in Name
                     PROVE  <<q, m>> \in mirror' <=> groups[q] # NULL /\ m \in actions'[groups[q]]
        BY <1>0 DEF Mirrors
      <4>2. <<q, m>> \in mirror <=> groups[q] # NULL /\ m \in actions[groups[q]]
        BY <1>0 DEF Mirrors
      <4>3. CASE q = p
        BY <2>1, <3>1, <3>2, <4>2, <4>3, NULLAssumption
      <4>4. CASE q # p
        <5>1. groups[q] # g
          BY <3>4, <4>4
        <5>2. groups[q] # NULL => actions'[groups[q]] = actions[groups[q]]
          BY <1>4, <2>1, <5>1
        <5>3. <<q, m>> \in mirror' <=> <<q, m>> \in mirror
          BY <3>2, <4>4
        <5>4. QED
          BY <4>2, <5>2, <5>3
      <4>5. QED
        BY <4>3, <4>4
    <3>6. QED
      BY <1>1, <3>3, <3>5, ListIsMirror, PTL DEF MuxerInv
  <2>3. CASE g \notin connected
    <3>1. mirror' = mirror
      BY <1>6, <2>3 DEF ActionRemoved
    <3>2. TypeOK'
      BY <1>0, <2>1, <3>1 DEF TypeOK
    <3>3. Mirrors'
      BY <1>0, <1>2, <1>4, <2>1, <2>3, <3>1 DEF Mirrors
    <3>4. QED
      BY <1>1, <3>2, <3>3, ListIsMirror, PTL DEF MuxerInv
  <2>4. QED
    BY <2>2, <2>3
<1>7. QED
  BY <1>5, <1>6

LEMMA StepInv == MuxerInv /\ [Next]_vars => MuxerInv'
<1> SUFFICES ASSUME MuxerInv, [Next]_vars PROVE MuxerInv'
  OBVIOUS
<1>1. CASE UNCHANGED vars
  BY <1>1 DEF vars, MuxerInv, TypeOK, MirrorIsList, ListActions, GroupsLetGo
<1>2. CASE \E p \in Prefixes : Remove(p) \/ \E g \in Group : Insert(p, g)
  BY <1>2, RemoveInv, InsertInv
<1>3. CASE Dispose
  BY <1>3, DisposeInv
<1>4. CASE \E g \in Group, n \in Name : ActionAdded(g, n) \/ ActionRemoved(g, n)
  BY <1>4, GroupChangesInv
<1>5. QED
  BY <1>1, <1>2, <1>3, <1>4 DEF Next

(***************************************************************************)
(* The invariant: the muxer's types, what its watcher knows, and that the  *)
(* tables are inverse to each other and fit the connected handlers.        *)
(***************************************************************************)
THEOREM MuxerCorrect == Spec => []MuxerInv
BY InitInv, StepInv, PTL DEF Spec

(***************************************************************************)
(* Who follows the signals of the muxer knows what listing would give.     *)
(***************************************************************************)
THEOREM MirrorCorrect == Spec => []MirrorIsList
<1>1. MuxerInv => MirrorIsList
  BY DEF MuxerInv
<1>2. QED
  BY <1>1, MuxerCorrect, PTL

(***************************************************************************)
(* Groups that were removed or replaced have no handler and no prefix.     *)
(***************************************************************************)
THEOREM LetGoCorrect == Spec => []GroupsLetGo
<1>1. MuxerInv => GroupsLetGo
  BY DEF MuxerInv
<1>2. QED
  BY <1>1, MuxerCorrect, PTL

=============================================================================
