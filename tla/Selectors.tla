------------------------------- MODULE Selectors -------------------------------
(***************************************************************************)
(* element_selectors.py: how a selector is resolved in a tree, how one is      *)
(* derived for an element, what parse makes of it when it comes back, and how  *)
(* a call names the element it is for (context._resolve_element).  A node's id *)
(* is [role, name]; elements are the paths of Trees.  Names are compared by the *)
(* relations of Compares; a selector is the steps its writer meant.           *)
(***************************************************************************)
EXTENDS Trees

CONSTANTS
    NoName,    \* the name of an element that has none
    Compares,  \* per operator of a predicate: the pairs <<name, value>> it accepts
    Words,     \* per role its words: <<role>>, or several, as in "push button"
    Quoted     \* the names that hold a double quote or end in a backslash

Pred(key, op, value) == [key |-> key, op |-> op, value |-> value]
Step(role, preds, axis) == [role |-> role, preds |-> preds, axis |-> axis]
AnyRole == "*"

(* A name is equal to itself, and no element has the role that stands for any. *)
ASSUME SelectorAssumption ==
    \A l \in Labels : l.role # AnyRole /\ <<l.name, l.name>> \in Compares["="]

Role(tree, path) == At[tree][path].id.role
Name(tree, path) == At[tree][path].id.name
Children(tree, path) ==
    [i \in DOMAIN At[tree][path].kids |-> path \o <<i>>]

(* Siblings of the same role before an element; none before the root. *)
RoleIndex(tree, path) ==
    IF path = <<>> THEN 0
    ELSE Cardinality({i \in 1 .. Last(path) - 1 :
                        Role(tree, Front(path) \o <<i>>) = Role(tree, path)})

(* Mutant of Accepts: the position among all siblings, not among its role. *)
AcceptsAtPosition(tree, path, p) ==
    IF p.key = "index" THEN (IF path = <<>> THEN 0 ELSE Last(path) - 1) = p.value
    ELSE <<Name(tree, path), p.value>> \in Compares[p.op]

(* Predicate.matches *)
Accepts(tree, path, p) ==
    IF p.key = "index" THEN RoleIndex(tree, path) = p.value
    ELSE <<Name(tree, path), p.value>> \in Compares[p.op]

(* Step.matches *)
Matches(tree, path, step) ==
    /\ step.role \in {AnyRole, Role(tree, path)}
    /\ \A p \in step.preds : Accepts(tree, path, p)

(* _descendants_with_role_index: the children of one parent after the other. *)
Descendants(tree, path) ==
    LET below == Flat[At[tree][path]]
    IN  FlattenSeq([k \in DOMAIN below |-> Children(tree, path \o below[k])])

Filtered(tree, paths, step) == 
    Those(paths, {p \in ToSet(paths) : Matches(tree, p, step)})

(* The first step is for the root; else for anything below it. *)
First(tree, step) ==
    IF step.axis = "child" /\ Matches(tree, <<>>, step) THEN << <<>> >>
    ELSE Filtered(tree, Descendants(tree, <<>>), step)

Further(tree, found, step) ==
    FlattenSeq([k \in DOMAIN found |->
        Filtered(tree, IF step.axis = "child" THEN Children(tree, found[k])
                       ELSE Descendants(tree, found[k]), step)])

(* resolve, before the matches are cut to max_matches; ambiguous is that there  *)
(* are more than one.                                                         *)
Resolve(tree, steps) ==
    LET found[k \in 1 .. Len(steps)] ==
          IF k = 1 THEN First(tree, steps[1]) ELSE Further(tree, found[k - 1], steps[k])
    IN  found[Len(steps)]

(* The step selector_for writes for one element of the path: its name if it has  *)
(* one, its index if it shares its role with a sibling.                        *)
StepFor(tree, path) ==
    LET Alike == {i \in DOMAIN Children(tree, Front(path)) :
                     Role(tree, Front(path) \o <<i>>) = Role(tree, path)}
    IN  Step(Role(tree, path),
             IF Name(tree, path) # NoName THEN {Pred("name", "=", Name(tree, path))}
             ELSE IF path # <<>> /\ Cardinality(Alike) > 1
             THEN {Pred("index", "=", RoleIndex(tree, path))} ELSE {}, "child")

(* selector_for *)
SelectorFor(tree, path) ==
    [k \in 1 .. Len(path) + 1 |-> StepFor(tree, SubSeq(path, 1, k - 1))]

(* Selector.canonical writes every step after a single slash. *)
Canonical(steps) == [k \in DOMAIN steps |-> [steps[k] EXCEPT !.axis = "child"]]

OneWord(step) == Words[step.role] = <<step.role>>
Unquoted(step) == \A p \in step.preds : p.key = "name" => p.value \notin Quoted
Legible(step) == OneWord(step) /\ Unquoted(step)

(* A step alone has no slash: its words read as one below the other. *)
Descent(step) ==
    LET words == Words[step.role]
    IN  [k \in DOMAIN words |->
            Step(words[k], IF k = Len(words) THEN step.preds ELSE {},
                 IF k = 1 THEN "child" ELSE "descendant")]

(* parse, of the text of these steps: the quotes that _escape marks are bare     *)
(* before the predicates are read, and a role ends at the first blank.  <<>> is  *)
(* SelectorParseError.                                                        *)
Parse(written) ==
    IF \A k \in DOMAIN written : Legible(written[k]) THEN written
    ELSE IF Len(written) = 1 /\ Unquoted(written[1]) THEN Descent(written[1])
    ELSE <<>>

(* _resolve_element: the selector first; an element id when it cannot be read or *)
(* finds nothing (an id that is itself a selector is left out).  The element, if *)
(* any, and what the call reports as its selector.                            *)
ResolveElement(tree, selector, id) ==
    LET parsed     == Parse(selector)
        bySelector == IF parsed = <<>> THEN <<>> ELSE Resolve(tree, parsed)
    IN  IF bySelector # <<>> THEN {<<Head(bySelector), Canonical(parsed)>>}
        ELSE {<<p, SelectorFor(tree, p)>> : p \in id \cap Paths(tree)}
-------------------------------------------------------------------------------
(* A sibling that the step of this element would match as well. *)
HasTwin(tree, path) ==
    /\ path # <<>> /\ Name(tree, path) # NoName
    /\ \E p \in ToSet(Children(tree, Front(path))) \ {path} :
          /\ Role(tree, p) = Role(tree, path)
          /\ <<Name(tree, p), Name(tree, path)>> \in Compares["="]
===============================================================================
