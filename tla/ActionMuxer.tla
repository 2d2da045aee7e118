------------------------------ MODULE ActionMuxer ------------------------------
(***************************************************************************)
(* A group of action groups (src/gactionmuxer.c).  The application list    *)
(* exports one to the panel; it holds one for every application, and that  *)
(* again one for its sources, its messages and the actions of messages,    *)
(* which im_application_list_unset_remote replaces by empty ones.          *)
(*                                                                         *)
(* Whoever watches a muxer (the D-Bus exporter, or the muxer around it)    *)
(* knows its actions from its signals: `mirror'.  Names are pairs of a     *)
(* prefix and the name within the group; NULL is the prefix of the global  *)
(* group, whose names stay as they are.                                    *)
(***************************************************************************)
EXTENDS Naturals, FiniteSetsExt, Functions

CONSTANTS Prefix, Group, Name,
          NULL       \* neither a prefix nor a group

ASSUME NULLAssumption == NULL \notin Prefix \cup Group

VARIABLES
  groups,     \* prefix -> group; NULL: global_actions
  reverse,    \* group -> prefix
  connected,  \* groups whose signals the muxer handles
  actions,    \* what each group has; not the muxer's
  mirror      \* what a watcher of the muxer knows

vars == <<groups, reverse, connected, actions, mirror>>

Prefixes == Prefix \cup {NULL}
NoGroups == [p \in Prefixes |-> NULL]

Init == /\ groups = NoGroups
        /\ reverse = [g \in Group |-> NULL]
        /\ connected = {}
        /\ actions \in [Group -> SUBSET Name]
        /\ mirror = {}

-----------------------------------------------------------------------------
(***************************************************************************)
(* g_action_muxer_lookup_full_name: no name for a group that is neither    *)
(* the global one nor in the reverse table.                                *)
(***************************************************************************)
FullNames(g, names) ==
  IF g = groups[NULL] THEN {NULL} \X names
  ELSE IF reverse[g] # NULL THEN {reverse[g]} \X names
  ELSE {}

\* g_action_muxer_list_actions.
ListActions == UNION {{p} \X actions[groups[p]] : p \in {q \in Prefixes : groups[q] # NULL}}

\* Mutant: the tables forget the group before its actions are withdrawn.
WithdrawnLate(g) == {}

\* g_action_muxer_disconnect_group, while the tables still know the group.
Withdrawn(g) == IF g = NULL THEN {} ELSE FullNames(g, actions[g])

\* Mutant: handlers of a group that is removed stay connected.
StillConnected(g) == connected

Disconnected(g) == connected \ {g}

Forgotten(p) == IF p = NULL \/ groups[p] = NULL THEN reverse
                ELSE [reverse EXCEPT ![groups[p]] = NULL]

Remove(p) ==
  /\ mirror' = mirror \ Withdrawn(groups[p])
  /\ connected' = Disconnected(groups[p])
  /\ groups' = [groups EXCEPT ![p] = NULL]
  /\ reverse' = Forgotten(p)
  /\ UNCHANGED actions

\* Mutant: a group is not withdrawn when another one takes its prefix.
InsertOver(p, g) ==
  /\ mirror' = mirror \cup {p} \X actions[g]
  /\ connected' = connected \cup {g}
  /\ groups' = [groups EXCEPT ![p] = g]
  /\ reverse' = IF p = NULL THEN reverse ELSE [reverse EXCEPT ![g] = p]
  /\ UNCHANGED actions

(***************************************************************************)
(* The group that has the prefix is removed first.  The callers insert a   *)
(* group under one prefix only; it may be the one it has already.          *)
(***************************************************************************)
Insert(p, g) ==
  /\ \A q \in Prefixes \ {p} : groups[q] # g
  /\ mirror' = (mirror \ Withdrawn(groups[p])) \cup {p} \X actions[g]
  /\ connected' = Disconnected(groups[p]) \cup {g}
  /\ groups' = [groups EXCEPT ![p] = g]
  /\ reverse' = IF p = NULL THEN reverse ELSE [Forgotten(p) EXCEPT ![g] = p]
  /\ UNCHANGED actions

\* The muxer is disposed of: every group is withdrawn and let go.
Dispose ==
  /\ mirror' = mirror \ UNION {Withdrawn(groups[p]) : p \in Prefixes}
  /\ connected' = connected \ {groups[p] : p \in Prefixes}
  /\ groups' = NoGroups
  /\ reverse' = [g \in Group |-> NULL]
  /\ UNCHANGED actions

-----------------------------------------------------------------------------
(* Groups change; the muxer forwards the signals of those it handles.      *)

ActionAdded(g, n) ==
  /\ n \notin actions[g]
  /\ actions' = [actions EXCEPT ![g] = @ \cup {n}]
  /\ mirror' = IF g \in connected THEN mirror \cup FullNames(g, {n}) ELSE mirror
  /\ UNCHANGED <<groups, reverse, connected>>

ActionRemoved(g, n) ==
  /\ n \in actions[g]
  /\ actions' = [actions EXCEPT ![g] = @ \ {n}]
  /\ mirror' = IF g \in connected THEN mirror \ FullNames(g, {n}) ELSE mirror
  /\ UNCHANGED <<groups, reverse, connected>>

Next == \/ \E p \in Prefixes : Remove(p) \/ \E g \in Group : Insert(p, g)
        \/ Dispose
        \/ \E g \in Group, n \in Name : ActionAdded(g, n) \/ ActionRemoved(g, n)

Spec == Init /\ [][Next]_vars

-----------------------------------------------------------------------------
TypeOK == /\ groups \in [Prefixes -> Group \cup {NULL}]
          /\ reverse \in [Group -> Prefixes]
          /\ connected \subseteq Group
          /\ actions \in [Group -> SUBSET Name]
          /\ mirror \subseteq Prefixes \X Name

(***************************************************************************)
(* "for each action x in @group, there is an equivalent action @prefix.x   *)
(* in @muxer": one who only follows the signals knows exactly the actions  *)
(* that listing would give, however groups are inserted, replaced, removed *)
(* and changed, before, between and after.                                 *)
(***************************************************************************)
MirrorIsList == mirror = ListActions

(***************************************************************************)
(* A group that was removed, or replaced under its prefix, is let go: no   *)
(* handler of it is left that could report its actions later, and the      *)
(* table from groups to prefixes is the inverse of the other one.          *)
(***************************************************************************)
GroupsLetGo ==
  /\ connected = {g \in Group : \E p \in Prefixes : groups[p] = g}
  /\ \A g \in Group, p \in Prefix : reverse[g] = p <=> groups[p] = g
  /\ \A p, q \in Prefixes : groups[p] = groups[q] /\ groups[p] # NULL => p = q

MuxerInv == TypeOK /\ MirrorIsList /\ GroupsLetGo

=============================================================================
