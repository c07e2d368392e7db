--------------------------------- MODULE Trees ---------------------------------
(***************************************************************************)
(* Element trees as the tools serialize them, and the pure functions over    *)
(* them.  A node is [id, val, kids]: id stands for its identity (role and      *)
(* name), val for the other fields, kids for its children in order.  A node   *)
(* is addressed by its path, the sequence of child positions from the root;   *)
(* an adapter's element id ('root.0.2') is that path.  Positions count from 1. *)
(* What walks a tree is a recursive function on Tree; a second argument, as   *)
(* the path walked so far, is that of the function it returns.               *)
(***************************************************************************)
EXTENDS Integers, Sequences, SequencesExt, FiniteSets, FiniteSetsExt

CONSTANTS
    Labels,   \* the identities of nodes: records with a role and a name
    Height    \* no tree is deeper

ASSUME TreeAssumption == Height \in Nat

Node(id, val, kids) == [id |-> id, val |-> val, kids |-> kids]

Path == Seq(Nat)

TreesUpTo[d \in 0 .. Height] ==
    [id : Labels, val : Seq(Nat),
     kids : IF d = 0 THEN {<<>>} ELSE Seq(TreesUpTo[d - 1])]
Tree == TreesUpTo[Height]

(* find_element_by_path, for a path of the tree. *)
At[tree \in Tree] == [path \in Path |->
    IF path = <<>> \/ Head(path) \notin DOMAIN tree.kids THEN tree
    ELSE At[tree.kids[Head(path)]][Tail(path)]]

Below(prefix, paths) == [i \in DOMAIN paths |-> <<prefix>> \o paths[i]]

(* flat_list, _flatten: the paths of all nodes, a parent before its children. *)
Flat[tree \in Tree] ==
    << <<>> >> \o FlattenSeq([i \in DOMAIN tree.kids |-> Below(i, Flat[tree.kids[i]])])

Paths(tree) == ToSet(Flat[tree])

(* prune_tree_depth, _truncate_depth: the tree down to a depth. *)
Pruned[tree \in Tree] == [depth \in Nat |->
    Node(tree.id, tree.val,
         IF depth = 0 THEN <<>>
         ELSE [i \in DOMAIN tree.kids |-> Pruned[tree.kids[i]][depth - 1]])]

(* The members of a set, in the order of a sequence. *)
Those(s, S) == FlattenSeq([i \in DOMAIN s |-> IF s[i] \in S THEN <<s[i]>> ELSE <<>>])
===============================================================================
