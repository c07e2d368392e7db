------------------------------- MODULE TreeDiff -------------------------------
(***************************************************************************)
(* diff.py: the changes between two captures of a window, and what             *)
(* apply_custom makes of them.  A change is [op, path, to, new]: a replace       *)
(* carries the fields of the node at path, an add the node put there, a move    *)
(* its new path; the path of a removal ends in a position of the old list,     *)
(* every other position is one of the new tree.                              *)
(***************************************************************************)
EXTENDS Trees

(* What diff.py reads of a tree.  Of the fields in val that is the first, which *)
(* stands for value, enabled, bounds, keyboard_shortcut and description; it     *)
(* never looks at focused, selected, expanded, value_now, value_min, value_max   *)
(* and identifier, for which the others stand.  (<<>> \o leaves TLC a tuple, which   *)
(* it compares with tuples, and changes nothing.)                              *)
Compared[tree \in Tree] ==
    Node(tree.id, IF tree.val = <<>> THEN <<>> ELSE <<Head(tree.val)>>,
         <<>> \o [i \in DOMAIN tree.kids |-> Compared[tree.kids[i]]])

Change(op, path, to, new) == [op |-> op, path |-> path, to |-> to, new |-> new]
Identities(kids) == [i \in DOMAIN kids |-> kids[i].id]

(* Two siblings of one identity, on either side: neither is matched. *)
Ambiguous(a, b) ==
    {id \in ToSet(Identities(a)) \cup ToSet(Identities(b)) :
        \/ Cardinality({i \in DOMAIN a : a[i].id = id}) > 1
        \/ Cardinality({i \in DOMAIN b : b[i].id = id}) > 1}

(* Mutant of Partner: twins are matched all the same, the first with the first. *)
PartnerOfTwins(a, b, i) ==
    LET found == {j \in DOMAIN b : b[j].id = a[i].id}
    IN  IF found = {} THEN 0 ELSE Min(found)

(* The position in b of the child matched with the i-th of a, or 0. *)
Partner(a, b, i) ==
    IF a[i].id \in Ambiguous(a, b) \/ a[i].id \notin ToSet(Identities(b)) THEN 0
    ELSE CHOOSE j \in DOMAIN b : b[j].id = a[i].id

(* _diff_node: the changes from a to b, the node now at path; a and b as far as *)
(* it reads them.                                                            *)
Changes[a \in Tree] == [b \in Tree |-> [path \in Path |->
    LET partner == [i \in DOMAIN a.kids |-> Partner(a.kids, b.kids, i)]
        here    == IF <<a.id, a.val>> = <<b.id, b.val>> THEN <<>>
                   ELSE <<Change("replace", path, path, Node(b.id, b.val, <<>>))>>
        moved(i) == IF partner[i] = i THEN <<>>
                    ELSE <<Change("move", path \o <<i>>, path \o <<partner[i]>>, {})>>
        kept(i) == IF partner[i] = 0 THEN <<>>
                   ELSE moved(i) \o Changes[a.kids[i]][b.kids[partner[i]]][path \o <<partner[i]>>]
        gone(i)  == IF partner[i] # 0 THEN <<>>
                    ELSE <<Change("remove", path \o <<i>>, <<>>, {})>>
        added(j) == IF j \in Range(partner) THEN <<>>
                    ELSE <<Change("add", path \o <<j>>, <<>>, b.kids[j])>>
    IN  here \o FlattenSeq([i \in DOMAIN a.kids |-> kept(i)])
             \o FlattenSeq([i \in DOMAIN a.kids |-> gone(i)])
             \o FlattenSeq([j \in DOMAIN b.kids |-> added(j)])]]

Differences(a, b) == Changes[a][b][<<>>]

(* diff_custom.  The nodes it adds are whole, with the fields it does not read; *)
(* these are left out here.                                                  *)
Diff(before, after) == Differences(Compared[before], Compared[after])
-------------------------------------------------------------------------------
(* The tree with the node at path replaced. *)
Rewrite(tree, path, node) ==
    LET Walk[t \in Tree] == [p \in Path |->
          IF p = <<>> THEN node
          ELSE Node(t.id, t.val,
                    [t.kids EXCEPT ![Head(p)] = Walk[t.kids[Head(p)]][Tail(p)]])]
    IN  Walk[tree][path]

WithKids(tree, path, kids) ==
    LET old == At[tree][path] IN Rewrite(tree, path, Node(old.id, old.val, kids))

(* list.pop behind its guard, and list.insert, which appends past the end. *)
Popped(kids, i) == IF i \in DOMAIN kids THEN RemoveAt(kids, i) ELSE kids
Inserted(kids, i, node) ==
    InsertAt(kids, IF i > Len(kids) THEN Len(kids) + 1 ELSE i, node)

(* One change that is not a move. *)
Applied(tree, c) ==
    IF c.op = "replace"
    THEN Rewrite(tree, c.path, Node(c.new.id, c.new.val, At[tree][c.path].kids))
    ELSE LET parent == Front(c.path)
             kids   == At[tree][parent].kids
         IN  WithKids(tree, parent,
                IF c.op = "remove" THEN Popped(kids, Last(c.path))
                ELSE Inserted(kids, Last(c.path), c.new))

(* _to_pointer, diff_json_patch: a client of the patch applies it in its order. *)
Patched(tree, changes) ==
    LET after[k \in 0 .. Len(changes)] ==
          IF k = 0 THEN tree ELSE Applied(after[k - 1], changes[k])
    IN  after[Len(changes)]

(* apply_custom on a diff without moves, which come last: the replacements,     *)
(* the removals from the deepest up, then the additions from the top down; of   *)
(* one depth, in the order of the diff.                                       *)
ApplyCustom(tree, changes) ==
    LET Ops(op, depth) ==
            Those(changes, {c \in ToSet(changes) : c.op = op /\ Len(c.path) = depth})
        depth == Max({Len(c.path) : c \in ToSet(changes)} \cup {0})
    IN  Patched(tree,
            Those(changes, {c \in ToSet(changes) : c.op = "replace"})
            \o FlattenSeq([d \in 1 .. depth |-> Ops("remove", depth + 1 - d)])
            \o FlattenSeq([d \in 1 .. depth |-> Ops("add", d)]))
-------------------------------------------------------------------------------
(* How a client has to read a diff: every child of the new node is either      *)
(* added, or moved from its old position, or where it was.                    *)
Told(old, diff) ==
    LET Under(path, op) == {c \in diff : c.op = op /\ c.path # <<>> /\ Front(c.path) = path}
        Fields(path)    == {c.new : c \in {r \in diff : r.op = "replace" /\ r.path = path}}
        Added(path, j)  == {c.new : c \in {n \in Under(path, "add") : Last(n.path) = j}}
        MovedTo(path, j) ==
            {Last(c.path) : c \in {m \in Under(path, "move") : Last(m.to) = j}}
        From(path, j) ==
            IF MovedTo(path, j) = {} THEN j ELSE CHOOSE i \in MovedTo(path, j) : TRUE
        New[node \in Tree] == [path \in Path |->
            LET size == Len(node.kids) - Cardinality(Under(path, "remove"))
                                       + Cardinality(Under(path, "add"))
                fields == IF Fields(path) = {} THEN node ELSE CHOOSE f \in Fields(path) : TRUE
                Kid(j) == IF Added(path, j) # {} THEN CHOOSE n \in Added(path, j) : TRUE
                          ELSE IF From(path, j) \in DOMAIN node.kids
                          THEN New[node.kids[From(path, j)]][path \o <<j>>]
                          ELSE node
            IN  Node(fields.id, fields.val, [j \in 1 .. size |-> Kid(j)])]
    IN  New[old][<<>>]

(* apply_custom and a JSON patch work where nothing moves and no list loses    *)
(* more than one child: positions are then the same before and after.         *)
InPlace(diff) ==
    /\ \A c \in diff : c.op # "move"
    /\ \A c, d \in {r \in diff : r.op = "remove"} :
          Front(c.path) = Front(d.path) => c = d
===============================================================================
