------------------------------- MODULE TreeViews -------------------------------
(***************************************************************************)
(* What get_window_structure makes of a capture: cut to a depth, filtered,     *)
(* and handed out in pages (tools/observe.py).  A node carries its element id   *)
(* as val, which stays its own wherever filters and pages put the node.        *)
(***************************************************************************)
EXTENDS Trees

CONSTANTS
    NoCursor,      \* no page_cursor, next_cursor null
    DefaultDepth, MaxDepth   \* tree.default_depth, tree.max_depth

ASSUME ViewAssumption ==
    DefaultDepth \in Nat /\ MaxDepth \in Nat /\ NoCursor \notin Path

(* Every node named by its path, the element id of the adapters. *)
Identified[tree \in Tree] == [path \in Path |->
    Node(tree.id, path,
         [i \in DOMAIN tree.kids |-> Identified[tree.kids[i]][path \o <<i>>]])]

(* _effective_depth; asked is {} when the caller passes none. *)
EffectiveDepth(asked) ==
    LET depth == IF asked = {} THEN DefaultDepth ELSE CHOOSE d \in asked : TRUE
    IN  IF depth < 0 THEN 0 ELSE IF depth > MaxDepth THEN MaxDepth ELSE depth

(* The filters of a call: a node is kept for its own sake when its role and    *)
(* name pass and some of it is in a visible region (all of them, if not asked). *)
Filters(roles, excluded, named, visible, prune) ==
    [roles |-> roles, excluded |-> excluded, named |-> named,
     visible |-> visible, prune |-> prune]

SelfKeep(node, f) ==
    /\ f.roles = {} \/ node.id.role \in f.roles
    /\ node.id.role \notin f.excluded
    /\ node.id.name \in f.named
    /\ node.val \in f.visible

(* _filter_tree: one node, or none.  Only prune_empty ever drops one, and none   *)
(* that is above a node that stays.                                           *)
FilterTree(tree, f) ==
    LET Left[node \in Tree] ==
          LET kids == FlattenSeq([i \in DOMAIN node.kids |-> Left[node.kids[i]]])
          IN  IF f.prune /\ ~ SelfKeep(node, f) /\ kids = <<>> THEN <<>>
              ELSE <<Node(node.id, node.val, kids)>>
    IN  Left[tree]

(* The tree a call pages through, and whether its depth cut something off. *)
View(tree, asked, f) == 
    FilterTree(Pruned[Identified[tree][<<>>]][EffectiveDepth(asked)], f)
DepthTruncated(tree, asked) == \E p \in Paths(tree) : Len(p) > EffectiveDepth(asked)

IdsOf(view) ==
    IF view = <<>> THEN <<>>
    ELSE LET flat == Flat[view[1]]
         IN  [k \in DOMAIN flat |-> At[view[1]][flat[k]].val]

Page(nodes, truncated, next) == [nodes |-> nodes, truncated |-> truncated, next |-> next]

(* Mutant of Cut: the next page starts after the first node that was not sent. *)
CutTooFar(ids, limit) ==
    IF limit >= Len(ids) THEN Page(ids, FALSE, NoCursor)
    ELSE Page(SubSeq(ids, 1, limit), TRUE, ids[limit + 1])

(* One page of the nodes that are left, parents before their children.  The      *)
(* cursor is the last node sent and the walk resumes at the node after it, its    *)
(* first child if it has one; the docstring of _page_tree says post-order and     *)
(* next sibling.                                                             *)
Cut(ids, limit) ==
    IF limit >= Len(ids) THEN Page(ids, FALSE, NoCursor)
    ELSE Page(SubSeq(ids, 1, limit), TRUE,
              IF limit = 0 THEN NoCursor ELSE ids[limit])

(* _page_tree: an unknown cursor gives an empty page that says it is the last. *)
PageTree(view, limit, cursor) ==
    LET ids == IdsOf(view)
    IN  IF cursor = NoCursor THEN Cut(ids, limit)
        ELSE IF cursor \notin ToSet(ids) THEN Page(<<>>, FALSE, NoCursor)
        ELSE Cut(SubSeq(ids, 1 + Min({k \in DOMAIN ids : ids[k] = cursor}), Len(ids)),
                 limit)

(* What a caller has who follows next_cursor, after one request and n more: as  *)
(* many as there are nodes bring him to the end.                              *)
Followed(view, limit) ==
    LET got[n \in 0 .. Len(IdsOf(view))] ==
          IF n = 0 THEN PageTree(view, limit, NoCursor)
          ELSE IF got[n - 1].next = NoCursor THEN got[n - 1]
          ELSE LET page == PageTree(view, limit, got[n - 1].next)
               IN  Page(got[n - 1].nodes \o page.nodes, page.truncated, page.next)
    IN  got[Len(IdsOf(view))].nodes

(* The nodes a view is for: those within the depth that pass the filters, and   *)
(* all above them.                                                            *)
Wanted(tree, asked, f) ==
    LET whole  == Identified[tree][<<>>]
        near   == {p \in Paths(tree) : Len(p) <= EffectiveDepth(asked)}
        passes == {p \in near : SelfKeep(At[whole][p], f)}
    IN  Those(Flat[tree], {p \in near : f.prune => \E q \in passes : IsPrefix(p, q)})
===============================================================================
