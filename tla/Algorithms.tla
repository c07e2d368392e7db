------------------------------ MODULE Algorithms ------------------------------
(***************************************************************************)
(* The parts of the server that share no state with one another, each put   *)
(* through its steps or its inputs by itself: the snapshot store, the store *)
(* of tree tokens, the tables of the surfaces, and the pure functions on    *)
(* trees and rectangles.  Which part it is, is chosen at the start.         *)
(***************************************************************************)
EXTENDS Snapshots, TreeTokens, Surfaces, TreeDiff, TreeViews, Selectors,
        Visibility

CONSTANTS
    Diffed,      \* trees two of which are compared
    Viewed,      \* trees that are looked at and searched
    Asked,       \* depth= of a call, as a set: none or one
    FilterSets,  \* the filters of a call; what is visible is chosen with the tree
    Limits       \* max_nodes of a call

ASSUME SampleAssumption ==
    /\ Diffed \subseteq Tree /\ Viewed \subseteq Tree
    /\ \A asked \in Asked : asked \subseteq Int
    /\ Limits \subseteq Nat \ {0}

VARIABLES part, sample

vars == <<snapVars, tokenVars, surfaceVars, desk, part, sample>>

Parts == {"snapshots", "tokens", "surfaces", "diff", "view", "raise"}
NoSample == <<>>

Init ==
    /\ SnapInit /\ TokenInit /\ SurfaceInit /\ RaiseInit
    /\ part \in Parts
    /\ sample = NoSample

SnapshotStep ==
    /\ part = "snapshots" /\ SnapNext
    /\ UNCHANGED <<tokenVars, surfaceVars, desk, part, sample>>
TokenStep ==
    /\ part = "tokens" /\ TokenNext
    /\ UNCHANGED <<snapVars, surfaceVars, desk, part, sample>>
SurfaceStep ==
    /\ part = "surfaces" /\ SurfaceNext
    /\ UNCHANGED <<snapVars, tokenVars, desk, part, sample>>
RaiseStep ==
    /\ part = "raise" /\ RaiseNext
    /\ UNCHANGED <<snapVars, tokenVars, surfaceVars, part, sample>>

Take(p, samples) ==
    /\ part = p /\ sample = NoSample
    /\ sample' \in samples
    /\ UNCHANGED <<snapVars, tokenVars, surfaceVars, desk, part>>

(* observe_window: a capture, and the one of a token. *)
TakeCaptures == Take("diff", Diffed \X Diffed)

(* get_window_structure: a capture and the arguments of the call. *)
TakeView == Take("view", Viewed \X Asked \X FilterSets \X Limits)

Next ==
    \/ SnapshotStep \/ TokenStep \/ SurfaceStep \/ RaiseStep
    \/ TakeCaptures \/ TakeView

Spec == Init /\ [][Next]_vars
-------------------------------------------------------------------------------
Sampled(p) == part = p /\ sample # NoSample

(* Whoever reads a diff as it is meant, old positions for what goes away and    *)
(* new ones for everything else, gets from the old tree the new one, as far as  *)
(* diff.py compares them: twins, moves and nested changes included.  A diff is  *)
(* empty only if nothing changed that it compares.  And where nothing moves and *)
(* no list loses two children, applying the changes one after the other gives   *)
(* that tree too, in the order of apply_custom and in that of a JSON patch.    *)
DiffsTell ==
    Sampled("diff") =>
        LET before == Compared[sample[1]]
            after  == Compared[sample[2]]
            diff   == Diff(sample[1], sample[2])
        IN  /\ Told(before, ToSet(diff)) = after
            /\ diff = <<>> => before = after
            /\ InPlace(ToSet(diff)) => /\ ApplyCustom(before, diff) = after
                                       /\ Patched(before, diff) = after

(* A caller that follows next_cursor through an unchanged tree is given every    *)
(* node the depth and the filters let through, and every one above such a node,  *)
(* once each, parents first (_filter_tree, _page_tree as the code walks, not as   *)
(* its docstring says: post-order and on from the next sibling).               *)
PagesCoverTheView ==
    Sampled("view") =>
        LET tree == sample[1]
            f == sample[3]
        IN  Followed(View(tree, sample[2], f), sample[4])
               = Wanted(tree, sample[2], f)

(* The selector a receipt derives for an element, read back, finds that element  *)
(* again if every role on its way is one word and no name there has a quote; it   *)
(* finds it alone, and an action sent back with it goes there, unless the        *)
(* element or one above it has a sibling of its role whose name looks like its   *)
(* own.  Below the root, an action with a selector that cannot be read goes where *)
(* its element id says (selector_for, parse, resolve, _resolve_element).        *)
DerivedSelectorsFind ==
    Sampled("view") =>
        LET tree == sample[1]
        IN  \A p \in Paths(tree) :
               LET derived == SelectorFor(tree, p)
                   found   == Resolve(tree, Parse(derived))
                   legible == \A k \in DOMAIN derived : Legible(derived[k])
                   alone   == \A k \in 1 .. Len(p) : ~ HasTwin(tree, SubSeq(p, 1, k))
                   LeadsTo(id) == ResolveElement(tree, derived, id) = {<<p, derived>>}
               IN  /\ legible => /\ p \in ToSet(found)
                                 /\ alone => /\ found = <<p>>
                                             /\ LeadsTo({})
                                             /\ \A q \in Paths(tree) : LeadsTo({q})
                   /\ ~ legible /\ p # <<>> => LeadsTo({p})
===============================================================================
