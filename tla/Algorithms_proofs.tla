--------------------------- MODULE Algorithms_proofs ---------------------------
(***************************************************************************)
(* What a diff of two trees tells, for trees of any shape, size and height,    *)
(* and what the algorithms on trees promise of every sample.                 *)
(*                                                                          *)
(* A reader of a diff: the changes between two trees at a path all belong to   *)
(* that path (Owned), so that of a larger list of changes what is said of a    *)
(* child is what its own comparison says (Says); by induction over the old     *)
(* tree, Told is the new one.                                                *)
(*                                                                          *)
(* Changes applied one after the other: s turns x into y at p (Turns) when it   *)
(* does so in every tree that has x there, which puts the changes to parts     *)
(* together.  In the order of the diff a node is rewritten, then its children   *)
(* are turned, then one goes away (Bereft) and others are put in (Grown).      *)
(* apply_custom is followed by stages, one for the replacements and one for     *)
(* each depth of removals and of additions (OfStage): a node's list loses a     *)
(* child after the lists below it did, and wins its new ones before them, and   *)
(* in between those rest (KidsRest).                                         *)
(***************************************************************************)
EXTENDS Algorithms, Trees_proofs

-------------------------------------------------------------------------------
(* What a diff tells. *)

(* The changes between two trees, part by part. *)
Chg == [op : {"replace", "move", "remove", "add"}, path : Path, to : Path,
        new : Tree \cup {{}}]
Pairing(a, b) == [i \in DOMAIN a.kids |-> Partner(a.kids, b.kids, i)]
Rewritten(a, b, p) ==
    IF <<a.id, a.val>> = <<b.id, b.val>> THEN <<>>
    ELSE <<Change("replace", p, p, Node(b.id, b.val, <<>>))>>
MovedKid(a, b, p, i) ==
    IF Pairing(a, b)[i] = i THEN <<>>
    ELSE <<Change("move", p \o <<i>>, p \o <<Pairing(a, b)[i]>>, {})>>
KeptKids(f, a, b, p) ==
    [i \in DOMAIN a.kids |->
        IF Pairing(a, b)[i] = 0 THEN <<>>
        ELSE MovedKid(a, b, p, i)
                \o f[a.kids[i]][b.kids[Pairing(a, b)[i]]][p \o <<Pairing(a, b)[i]>>]]
GoneKids(a, b, p) ==
    [i \in DOMAIN a.kids |-> IF Pairing(a, b)[i] # 0 THEN <<>>
                             ELSE <<Change("remove", p \o <<i>>, <<>>, {})>>]
NewKids(a, b, p) ==
    [j \in DOMAIN b.kids |-> IF j \in Range(Pairing(a, b)) THEN <<>>
                             ELSE <<Change("add", p \o <<j>>, <<>>, b.kids[j])>>]
AllChanges(f, a, b, p) ==
    Rewritten(a, b, p) \o FlattenSeq(KeptKids(f, a, b, p))
                       \o FlattenSeq(GoneKids(a, b, p)) \o FlattenSeq(NewKids(a, b, p))

(* A child is paired with one of its identity, no two with the same. *)
LEMMA PairingParts ==
    ASSUME NEW a \in Tree, NEW b \in Tree
    PROVE  /\ DOMAIN Pairing(a, b) = DOMAIN a.kids
           /\ \A i \in DOMAIN a.kids : /\ Pairing(a, b)[i] \in Nat
                                       /\ Pairing(a, b)[i] = 0 \/ Pairing(a, b)[i] \in DOMAIN b.kids
           /\ \A i, k \in DOMAIN a.kids :
                 Pairing(a, b)[i] = Pairing(a, b)[k] /\ i # k => Pairing(a, b)[i] = 0
<1> DEFINE P(i) == Partner(a.kids, b.kids, i)
<1>0. /\ a.kids \in Seq(Tree) /\ b.kids \in Seq(Tree)
      /\ DOMAIN a.kids = 1 .. Len(a.kids) /\ DOMAIN b.kids = 1 .. Len(b.kids)
      /\ Len(a.kids) \in Nat /\ Len(b.kids) \in Nat
  BY TreeParts
<1>1. ASSUME NEW i \in DOMAIN a.kids, P(i) # 0
      PROVE  /\ P(i) \in DOMAIN b.kids /\ b.kids[P(i)].id = a.kids[i].id
             /\ a.kids[i].id \notin Ambiguous(a.kids, b.kids)
  <2>1. a.kids[i].id \notin Ambiguous(a.kids, b.kids) /\ a.kids[i].id \in ToSet(Identities(b.kids))
    BY <1>1 DEF Partner
  <2>2. P(i) = CHOOSE j \in DOMAIN b.kids : b.kids[j].id = a.kids[i].id
    BY <2>1 DEF Partner
  <2>3. \E j \in DOMAIN b.kids : b.kids[j].id = a.kids[i].id
    BY <2>1 DEF ToSet, Identities
  <2>4. QED  BY <2>1, <2>2, <2>3
<1>2. ASSUME NEW i \in DOMAIN a.kids, NEW k \in DOMAIN a.kids, P(i) = P(k), i # k
      PROVE  P(i) = 0
  <2> SUFFICES ASSUME P(i) # 0 PROVE FALSE
    OBVIOUS
  <2> DEFINE id == a.kids[i].id
             M == {m \in DOMAIN a.kids : a.kids[m].id = id}
  <2>1. a.kids[k].id = id /\ id \notin Ambiguous(a.kids, b.kids)
    BY <1>1, <1>2
  <2>2. i \in M /\ k \in M
    BY <2>1
  <2>3. IsFiniteSet(M) /\ Cardinality({i, k}) = 2 /\ {i, k} \subseteq M
    <3>1. IsFiniteSet(1 .. Len(a.kids))
      <4>1. 1 \in Int /\ Len(a.kids) \in Int
        BY <1>0
      <4>2. QED  BY <4>1, FS_Interval
    <3>2. M \subseteq 1 .. Len(a.kids)
      BY <1>0
    <3>3. Cardinality({i, k}) = 2
      <4>1. IsFiniteSet({i}) /\ Cardinality({i}) = 1 /\ k \notin {i}
        BY <1>2, FS_Singleton
      <4>2. Cardinality({i} \cup {k}) = 1 + 1
        BY <4>1, FS_AddElement
      <4>3. {i, k} = {i} \cup {k}
        OBVIOUS
      <4>4. QED  BY <4>2, <4>3
    <3>4. QED  BY <2>2, <3>1, <3>2, <3>3, FS_Subset
  <2>4. Cardinality(M) > 1
    <3>1. Cardinality({i, k}) <= Cardinality(M) /\ Cardinality(M) \in Nat
      BY <2>3, FS_Subset, FS_CardinalityType
    <3> HIDE DEF M
    <3>2. QED  BY <2>3, <3>1
  <2>5. id \in ToSet(Identities(a.kids))
    BY <1>0 DEF ToSet, Identities
  <2>6. id \in Ambiguous(a.kids, b.kids)
    BY <2>4, <2>5 DEF Ambiguous
  <2>7. QED  BY <2>1, <2>6
<1>3. \A i \in DOMAIN a.kids : P(i) = 0 \/ P(i) \in DOMAIN b.kids
  BY <1>1
<1>4. \A i \in DOMAIN a.kids : P(i) \in Nat
  BY <1>0, <1>3
<1>5. \A i \in DOMAIN a.kids : Pairing(a, b)[i] = P(i)
  BY DEF Pairing
<1>6. DOMAIN Pairing(a, b) = DOMAIN a.kids
  BY DEF Pairing
<1> HIDE DEF P
<1>7. QED  BY <1>2, <1>3, <1>4, <1>5, <1>6

LEMMA ChangeIs ==
    ASSUME NEW op \in {"replace", "move", "remove", "add"}, NEW p \in Path, NEW q \in Path,
           NEW n \in Tree \cup {{}}
    PROVE  Change(op, p, q, n) \in Chg
BY DEF Change, Chg

LEMMA ReplaceType ==
    ASSUME NEW p \in Path, NEW n \in Tree
    PROVE  Change("replace", p, p, n) \in Chg
BY ChangeIs

LEMMA MoveType ==
    ASSUME NEW p \in Path, NEW i \in Nat, NEW j \in Nat
    PROVE  Change("move", p \o <<i>>, p \o <<j>>, {}) \in Chg
<1>1. p \o <<i>> \in Path /\ p \o <<j>> \in Path
  BY LastStep
<1>2. QED  BY <1>1, ChangeIs

LEMMA RemoveType ==
    ASSUME NEW p \in Path, NEW i \in Nat
    PROVE  Change("remove", p \o <<i>>, <<>>, {}) \in Chg
<1>1. p \o <<i>> \in Path /\ <<>> \in Path
  BY LastStep DEF Path
<1>2. QED  BY <1>1, ChangeIs

LEMMA AddType ==
    ASSUME NEW p \in Path, NEW i \in Nat, NEW n \in Tree
    PROVE  Change("add", p \o <<i>>, <<>>, n) \in Chg
<1>1. p \o <<i>> \in Path /\ <<>> \in Path
  BY LastStep DEF Path
<1>2. QED  BY <1>1, ChangeIs

(* The parts are sequences of changes, if those of the children are. *)
LEMMA ChangesParts ==
    ASSUME NEW a \in Tree, NEW b \in Tree, NEW p \in Path, NEW f,
           \A i \in DOMAIN a.kids : \A k \in DOMAIN b.kids : \A q \in Path :
              f[a.kids[i]][b.kids[k]][q] \in Seq(Chg)
    PROVE  /\ Rewritten(a, b, p) \in Seq(Chg)
           /\ KeptKids(f, a, b, p) \in Seq(Seq(Chg))
           /\ GoneKids(a, b, p) \in Seq(Seq(Chg))
           /\ NewKids(a, b, p) \in Seq(Seq(Chg))
           /\ \A i \in DOMAIN a.kids : MovedKid(a, b, p, i) \in Seq(Chg) \/ Pairing(a, b)[i] = 0
<1> DEFINE P == Pairing(a, b)
<1>0. /\ Len(a.kids) \in Nat /\ Len(b.kids) \in Nat
      /\ DOMAIN a.kids = 1 .. Len(a.kids) /\ DOMAIN b.kids = 1 .. Len(b.kids)
      /\ \A i \in DOMAIN b.kids : b.kids[i] \in Tree
      /\ b.id \in Labels /\ b.val \in Seq(Nat)
  BY TreeParts
<1>1. \A i \in DOMAIN a.kids : P[i] \in Nat /\ (P[i] = 0 \/ P[i] \in DOMAIN b.kids)
  BY PairingParts
<1> HIDE DEF P
<1>2. Rewritten(a, b, p) \in Seq(Chg)
  <2>1. Node(b.id, b.val, <<>>) \in Tree
    <3>1. 0 \in 0 .. Height
      BY TreeAssumption
    <3>2. QED  BY <1>0, <3>1, RankNode
  <2>2. Change("replace", p, p, Node(b.id, b.val, <<>>)) \in Chg
    BY <2>1, ReplaceType
  <2>3. QED  BY <2>2 DEF Rewritten
<1>3. ASSUME NEW i \in DOMAIN a.kids, P[i] # 0
      PROVE  MovedKid(a, b, p, i) \in Seq(Chg)
  <2>1. i \in Nat /\ P[i] \in Nat
    BY <1>0, <1>1
  <2>2. Change("move", p \o <<i>>, p \o <<P[i]>>, {}) \in Chg
    BY <2>1, MoveType
  <2>3. QED  BY <2>2 DEF MovedKid, P
<1>4. ASSUME NEW i \in DOMAIN a.kids, P[i] # 0
      PROVE  MovedKid(a, b, p, i) \o f[a.kids[i]][b.kids[P[i]]][p \o <<P[i]>>] \in Seq(Chg)
  <2>1. P[i] \in DOMAIN b.kids /\ p \o <<P[i]>> \in Path
    BY <1>1, <1>4, LastStep
  <2>2. f[a.kids[i]][b.kids[P[i]]][p \o <<P[i]>>] \in Seq(Chg)
    BY <2>1
  <2>3. QED  BY <1>3, <1>4, <2>2, ConcatProperties
<1>5. KeptKids(f, a, b, p) \in Seq(Seq(Chg))
  <2>0. <<>> \in Seq(Chg)
    OBVIOUS
  <2>1. ASSUME NEW i \in 1 .. Len(a.kids)
        PROVE  (IF P[i] = 0 THEN <<>>
                ELSE MovedKid(a, b, p, i) \o f[a.kids[i]][b.kids[P[i]]][p \o <<P[i]>>]) \in Seq(Chg)
    <3>1. CASE P[i] = 0
      BY <2>0, <3>1
    <3>2. CASE P[i] # 0
      <4>1. i \in DOMAIN a.kids
        BY <1>0
      <4>2. QED  BY <1>4, <3>2, <4>1
    <3>3. QED  BY <3>1, <3>2
  <2>2. KeptKids(f, a, b, p) =
          [i \in 1 .. Len(a.kids) |->
             IF P[i] = 0 THEN <<>>
             ELSE MovedKid(a, b, p, i) \o f[a.kids[i]][b.kids[P[i]]][p \o <<P[i]>>]]
    BY <1>0 DEF KeptKids, P
  <2> DEFINE k(i) == IF P[i] = 0 THEN <<>>
                     ELSE MovedKid(a, b, p, i) \o f[a.kids[i]][b.kids[P[i]]][p \o <<P[i]>>]
  <2>3. /\ KeptKids(f, a, b, p) = [i \in 1 .. Len(a.kids) |-> k(i)]
        /\ \A i \in 1 .. Len(a.kids) : k(i) \in Seq(Chg)
    BY <2>1, <2>2
  <2> HIDE DEF k
  <2>4. QED  BY <1>0, <2>3
<1>6. GoneKids(a, b, p) \in Seq(Seq(Chg))
  <2>1. ASSUME NEW i \in 1 .. Len(a.kids)
        PROVE  (IF P[i] # 0 THEN <<>> ELSE <<Change("remove", p \o <<i>>, <<>>, {})>>) \in Seq(Chg)
    <3>1. i \in Nat
      BY <1>0
    <3>2. Change("remove", p \o <<i>>, <<>>, {}) \in Chg
      BY <3>1, RemoveType
    <3>3. QED  BY <3>2
  <2>2. GoneKids(a, b, p) =
          [i \in 1 .. Len(a.kids) |->
             IF P[i] # 0 THEN <<>> ELSE <<Change("remove", p \o <<i>>, <<>>, {})>>]
    BY <1>0 DEF GoneKids, P
  <2>3. QED  BY <1>0, <2>1, <2>2
<1>7. NewKids(a, b, p) \in Seq(Seq(Chg))
  <2>1. ASSUME NEW j \in 1 .. Len(b.kids)
        PROVE  (IF j \in Range(P) THEN <<>>
                ELSE <<Change("add", p \o <<j>>, <<>>, b.kids[j])>>) \in Seq(Chg)
    <3>1. j \in Nat /\ b.kids[j] \in Tree
      BY <1>0
    <3>2. Change("add", p \o <<j>>, <<>>, b.kids[j]) \in Chg
      BY <3>1, AddType
    <3>3. QED  BY <3>2
  <2>2. NewKids(a, b, p) =
          [j \in 1 .. Len(b.kids) |->
             IF j \in Range(P) THEN <<>>
             ELSE <<Change("add", p \o <<j>>, <<>>, b.kids[j])>>]
    BY <1>0 DEF NewKids, P
  <2>3. QED  BY <1>0, <2>1, <2>2
<1>8. QED  BY <1>2, <1>3, <1>5, <1>6, <1>7 DEF P

(* The changes between two trees, by the definition. *)
LEMMA ChangesDef ==
    /\ Changes \in [Tree -> [Tree -> [Path -> Seq(Chg)]]]
    /\ \A a, b \in Tree : \A p \in Path : Changes[a][b][p] = AllChanges(Changes, a, b, p)
<1> DEFINE T == [Tree -> [Path -> Seq(Chg)]]
           Node1(f, a, b, p) == AllChanges(f, a, b, p)
           Unrolled(f) == [a \in Tree |-> [b \in Tree |-> [p \in Path |-> Node1(f, a, b, p)]]]
           h == [f \in [Tree -> T] |-> Unrolled(f)]
<1>1. ASSUME NEW f \in [Tree -> T], NEW a \in Tree, NEW b \in Tree, NEW p \in Path
      PROVE  Node1(f, a, b, p) \in Seq(Chg)
  <2>1. \A i \in DOMAIN a.kids : \A k \in DOMAIN b.kids : \A q \in Path :
           f[a.kids[i]][b.kids[k]][q] \in Seq(Chg)
    <3>1. (\A i \in DOMAIN a.kids : a.kids[i] \in Tree) /\ \A k \in DOMAIN b.kids : b.kids[k] \in Tree
      BY TreeParts
    <3> SUFFICES ASSUME NEW i \in DOMAIN a.kids, NEW k \in DOMAIN b.kids, NEW q \in Path
                 PROVE  f[a.kids[i]][b.kids[k]][q] \in Seq(Chg)
      OBVIOUS
    <3>2. a.kids[i] \in Tree /\ b.kids[k] \in Tree
      BY <3>1
    <3>3. f[a.kids[i]] \in [Tree -> [Path -> Seq(Chg)]]
      BY <3>2
    <3>4. f[a.kids[i]][b.kids[k]] \in [Path -> Seq(Chg)]
      BY <3>2, <3>3
    <3>5. QED  BY <3>4
  <2> DEFINE r == Rewritten(a, b, p)
             k == KeptKids(f, a, b, p)
             g == GoneKids(a, b, p)
             n == NewKids(a, b, p)
  <2>2. r \in Seq(Chg)
    BY <2>1, ChangesParts
  <2>3. k \in Seq(Seq(Chg))
    BY <2>1, ChangesParts
  <2>4. g \in Seq(Seq(Chg))
    BY <2>1, ChangesParts
  <2>5. n \in Seq(Seq(Chg))
    BY <2>1, ChangesParts
  <2>6. Node1(f, a, b, p) = r \o FlattenSeq(k) \o FlattenSeq(g) \o FlattenSeq(n)
    BY DEF AllChanges
  <2> HIDE DEF r, k, g, n, Node1
  <2>7. FlattenSeq(k) \in Seq(Chg)
    BY <2>3, FlattenSeqType
  <2>8. FlattenSeq(g) \in Seq(Chg)
    BY <2>4, FlattenSeqType
  <2>9. FlattenSeq(n) \in Seq(Chg)
    BY <2>5, FlattenSeqType
  <2>10. QED  BY <2>2, <2>6, <2>7, <2>8, <2>9, ConcatProperties
<1>2. h \in [[Tree -> T] -> [Tree -> T]]
  <2> HIDE DEF Node1
  <2>1. \A f \in [Tree -> T] : Unrolled(f) \in [Tree -> T]
    BY <1>1
  <2>2. QED  BY <2>1
<1>3. ASSUME NEW f, NEW g, NEW a \in Tree, \A i \in DOMAIN a.kids : f[a.kids[i]] = g[a.kids[i]]
      PROVE  Unrolled(f)[a] = Unrolled(g)[a]
  <2>1. ASSUME NEW b \in Tree, NEW p \in Path
        PROVE  Node1(f, a, b, p) = Node1(g, a, b, p)
    <3>1. KeptKids(f, a, b, p) = KeptKids(g, a, b, p)
      BY <1>3 DEF KeptKids
    <3>2. QED  BY <3>1 DEF AllChanges
  <2> HIDE DEF Node1
  <2>2. QED  BY <2>1
<1>4. Tree # {} => T # {}
  <2>1. [b \in Tree |-> [p \in Path |-> <<>>]] \in T
    OBVIOUS
  <2>2. QED  BY <2>1
<1>6. Changes = CHOOSE g : g = Unrolled(g)
  BY DEF Changes, AllChanges, Rewritten, KeptKids, GoneKids, NewKids, MovedKid, Pairing
<1> HIDE DEF Node1
<1>5. PICK f \in [Tree -> T] : f = Unrolled(f)
  <2>1. \A f, g \in [Tree -> T] : \A t \in Tree :
           (\A i \in DOMAIN t.kids : f[t.kids[i]] = g[t.kids[i]]) => h[f][t] = h[g][t]
    <3> HIDE DEF T, Unrolled
    <3>1. QED  BY <1>3
  <2> HIDE DEF T, h
  <2>2. PICK f \in [Tree -> T] : f = h[f]
    BY <1>2, <2>1, <1>4, TreeRecursion
  <2>3. QED  BY <2>2 DEF h
<1>7. Changes = Unrolled(Changes)
  <2> HIDE DEF Unrolled
  <2>1. QED  BY <1>5, <1>6
<1>8. Changes = f
  <2> DEFINE S == {t \in Tree : Changes[t] = f[t]}
  <2>1. \A t \in Tree : (\A i \in DOMAIN t.kids : t.kids[i] \in S) => t \in S
    <3> SUFFICES ASSUME NEW t \in Tree, \A i \in DOMAIN t.kids : t.kids[i] \in S
                 PROVE  t \in S
      OBVIOUS
    <3>1. \A i \in DOMAIN t.kids : Changes[t.kids[i]] = f[t.kids[i]]
      OBVIOUS
    <3> HIDE DEF Unrolled
    <3>2. Unrolled(Changes)[t] = Unrolled(f)[t]
      BY <1>3, <3>1
    <3>3. QED  BY <1>5, <1>7, <3>2
  <2> HIDE DEF S
  <2>2. Tree \subseteq S
    BY <2>1, TreeInduction
  <2>3. \A t \in Tree : Changes[t] = f[t]
    BY <2>2 DEF S
  <2>4. Changes = [t \in Tree |-> Changes[t]] /\ f = [t \in Tree |-> f[t]]
    BY <1>5, <1>7
  <2>5. QED  BY <2>3, <2>4
<1>9. Changes \in [Tree -> T] /\ Changes = Unrolled(Changes)
  BY <1>5, <1>8
<1>10. ASSUME NEW a \in Tree, NEW b \in Tree, NEW p \in Path
       PROVE  Changes[a][b][p] = Node1(Changes, a, b, p)
  <2>1. Unrolled(Changes)[a][b][p] = Node1(Changes, a, b, p)
    OBVIOUS
  <2> HIDE DEF Unrolled
  <2>2. QED  BY <1>9, <2>1
<1>11. QED  BY <1>9, <1>10 DEF Node1

(* Paths put together. *)
LEMMA PathsJoin ==
    ASSUME NEW p \in Path, NEW q \in Path
    PROVE  /\ p \o q \in Path /\ Len(p \o q) = Len(p) + Len(q)
           /\ Len(p) \in Nat /\ Len(q) \in Nat
           /\ p \o <<>> = p /\ <<>> \o p = p
           /\ p \o q = p => q = <<>>
<1>1. Len(p) \in Nat /\ Len(q) \in Nat /\ p \in Seq(Nat) /\ q \in Seq(Nat)
  BY DEF Path
<1>2. p \o q \in Seq(Nat) /\ Len(p \o q) = Len(p) + Len(q)
  BY <1>1, ConcatProperties
<1>3. p \o q = p => Len(q) = 0
  BY <1>1, <1>2
<1>4. p \o <<>> = p /\ <<>> \o p = p
  BY <1>1
<1>5. Len(q) = 0 => q = <<>>
  BY <1>1
<1>6. QED  BY <1>1, <1>2, <1>3, <1>4, <1>5 DEF Path

LEMMA PathsJoinThree ==
    ASSUME NEW p \in Path, NEW q \in Path, NEW r \in Path
    PROVE  (p \o q) \o r = p \o (q \o r)
<1>1. p \in Seq(Nat) /\ q \in Seq(Nat) /\ r \in Seq(Nat)
  BY DEF Path
<1>2. QED  BY <1>1

(* Two ways down from a node differ in the child they go to. *)
LEMMA PathsPart ==
    ASSUME NEW p \in Path, NEW i \in Nat, NEW j \in Nat, NEW q \in Path, NEW r \in Path,
           (p \o <<i>>) \o q = (p \o <<j>>) \o r
    PROVE  i = j
<1>1. /\ p \o <<i>> \in Path /\ p \o <<j>> \in Path
      /\ Len(p) \in Nat /\ Len(p \o <<i>>) = Len(p) + 1 /\ Len(p \o <<j>>) = Len(p) + 1
  BY LastStep
<1>2. ASSUME NEW s \in Path, NEW u \in Path, Len(s) = Len(p) + 1
      PROVE  (s \o u)[Len(p) + 1] = s[Len(p) + 1]
  <2>1. s \in Seq(Nat) /\ u \in Seq(Nat) /\ Len(p) + 1 \in 1 .. Len(s)
    BY <1>1, <1>2 DEF Path
  <2>2. QED  BY <2>1
<1>3. ASSUME NEW k \in Nat
      PROVE  (p \o <<k>>)[Len(p) + 1] = k
  <2>1. p \in Seq(Nat) /\ <<k>> \in Seq(Nat)
    BY DEF Path
  <2>2. QED  BY <2>1
<1>4. (p \o <<i>>)[Len(p) + 1] = (p \o <<j>>)[Len(p) + 1]
  BY <1>1, <1>2
<1>5. QED  BY <1>3, <1>4

LEMMA PathsEnd ==
    ASSUME NEW p \in Path, p # <<>>
    PROVE  /\ Front(p) \in Path /\ Last(p) \in Nat
           /\ p = Front(p) \o <<Last(p)>>
<1> DEFINE n == Len(p) - 1
<1>1. p \in Seq(Nat) /\ n \in Nat /\ Len(p) = n + 1
  <2>1. p \in Seq(Nat) /\ Len(p) \in Nat /\ Len(p) # 0
    BY DEF Path
  <2>2. QED  BY <2>1
<1> HIDE DEF n
<1>2. \A k \in 1 .. n : p[k] \in Nat
  BY <1>1
<1>3. /\ SubSeq(p, 1, n) \in Seq(Nat) /\ Len(SubSeq(p, 1, n)) = n
      /\ \A k \in 1 .. n : SubSeq(p, 1, n)[k] = p[k]
  BY <1>1, <1>2, SubSeqProperties
<1>4. Front(p) = SubSeq(p, 1, n) /\ Last(p) = p[n + 1]
  <2>1. Len(p) - 1 = n
    BY <1>1
  <2>2. QED  BY <1>1, <2>1 DEF Front, Last
<1>5. p[n + 1] \in Nat
  BY <1>1
<1>6. p = SubSeq(p, 1, n) \o <<p[n + 1]>>
  <2> DEFINE f == SubSeq(p, 1, n)
             x == p[n + 1]
  <2>1. f \in Seq(Nat) /\ Len(f) = n /\ \A k \in 1 .. n : f[k] = p[k]
    BY <1>3
  <2>2. x \in Nat
    BY <1>5
  <2> HIDE DEF f
  <2>3. /\ f \o <<x>> \in Seq(Nat) /\ Len(f \o <<x>>) = n + 1
        /\ \A k \in 1 .. n + 1 : (f \o <<x>>)[k] = IF k <= n THEN f[k] ELSE <<x>>[k - n]
    <3>1. <<x>> \in Seq(Nat) /\ Len(<<x>>) = 1
      BY <2>2
    <3>2. QED  BY <2>1, <3>1, ConcatProperties
  <2>4. \A k \in 1 .. n + 1 : (f \o <<x>>)[k] = p[k]
    <3>1. ASSUME NEW k \in 1 .. n + 1 PROVE (f \o <<x>>)[k] = p[k]
      <4>1. CASE k <= n
        BY <1>1, <2>1, <2>3, <4>1
      <4>2. CASE ~ (k <= n)
        <5>1. k = n + 1 /\ k - n = 1
          BY <1>1, <4>2
        <5>2. QED  BY <2>3, <4>2, <5>1
      <4>3. QED  BY <4>1, <4>2
    <3>2. QED  BY <3>1
  <2>5. f \o <<x>> = p
    BY <1>1, <2>3, <2>4, SeqEqual
  <2>6. QED  BY <2>5 DEF f
<1>7. QED  BY <1>3, <1>4, <1>5, <1>6 DEF Path

(* What a change says: the ways to be one between two trees. *)
IsRewrite(c, a, b, p) ==
    <<a.id, a.val>> # <<b.id, b.val>> /\ c = Change("replace", p, p, Node(b.id, b.val, <<>>))
IsMove(c, a, b, p) ==
    \E i \in DOMAIN a.kids :
       /\ Pairing(a, b)[i] # 0 /\ Pairing(a, b)[i] # i
       /\ c = Change("move", p \o <<i>>, p \o <<Pairing(a, b)[i]>>, {})
IsWithin(c, a, b, p) ==
    \E i \in DOMAIN a.kids :
       /\ Pairing(a, b)[i] # 0
       /\ c \in ToSet(Changes[a.kids[i]][b.kids[Pairing(a, b)[i]]][p \o <<Pairing(a, b)[i]>>])
IsRemoval(c, a, b, p) ==
    \E i \in DOMAIN a.kids :
       Pairing(a, b)[i] = 0 /\ c = Change("remove", p \o <<i>>, <<>>, {})
IsAddition(c, a, b, p) ==
    \E j \in DOMAIN b.kids :
       j \notin Range(Pairing(a, b)) /\ c = Change("add", p \o <<j>>, <<>>, b.kids[j])

LEMMA FlattenHas ==
    ASSUME NEW X, NEW ss, ss \in Seq(Seq(X)), NEW c
    PROVE  c \in ToSet(FlattenSeq(ss)) <=> \E i \in DOMAIN ss : c \in ToSet(ss[i])
<1>1. Len(ss) \in Nat /\ ss \in [1 .. Len(ss) -> Seq(X)] /\ DOMAIN ss = 1 .. Len(ss)
  BY SeqAsFunction
<1>2. ToSet(FlattenSeq(ss)) = UNION {ToSet(ss[i]) : i \in 1 .. Len(ss)}
  BY <1>1, FlattenMembers
<1>3. QED  BY <1>1, <1>2

(* The parts of a change list. *)
LEMMA ChangesSplit ==
    ASSUME NEW a \in Tree, NEW b \in Tree, NEW p \in Path
    PROVE  /\ Changes[a][b][p] = AllChanges(Changes, a, b, p)
           /\ Changes[a][b][p] \in Seq(Chg)
           /\ Rewritten(a, b, p) \in Seq(Chg)
           /\ KeptKids(Changes, a, b, p) \in Seq(Seq(Chg))
           /\ GoneKids(a, b, p) \in Seq(Seq(Chg))
           /\ NewKids(a, b, p) \in Seq(Seq(Chg))
           /\ DOMAIN KeptKids(Changes, a, b, p) = DOMAIN a.kids
           /\ DOMAIN GoneKids(a, b, p) = DOMAIN a.kids
           /\ DOMAIN NewKids(a, b, p) = DOMAIN b.kids
           /\ \A i \in DOMAIN a.kids : Pairing(a, b)[i] # 0 => MovedKid(a, b, p, i) \in Seq(Chg)
           /\ \A i \in DOMAIN a.kids : \A k \in DOMAIN b.kids : \A q \in Path :
                 Changes[a.kids[i]][b.kids[k]][q] \in Seq(Chg)
<1>1. \A i \in DOMAIN a.kids : \A k \in DOMAIN b.kids : \A q \in Path :
         Changes[a.kids[i]][b.kids[k]][q] \in Seq(Chg)
  <2>1. (\A i \in DOMAIN a.kids : a.kids[i] \in Tree) /\ \A k \in DOMAIN b.kids : b.kids[k] \in Tree
    BY TreeParts
  <2> SUFFICES ASSUME NEW i \in DOMAIN a.kids, NEW k \in DOMAIN b.kids, NEW q \in Path
               PROVE  Changes[a.kids[i]][b.kids[k]][q] \in Seq(Chg)
    OBVIOUS
  <2>2. a.kids[i] \in Tree /\ b.kids[k] \in Tree
    BY <2>1
  <2>3. Changes[a.kids[i]] \in [Tree -> [Path -> Seq(Chg)]]
    BY <2>2, ChangesDef
  <2>4. Changes[a.kids[i]][b.kids[k]] \in [Path -> Seq(Chg)]
    BY <2>2, <2>3
  <2>5. QED  BY <2>4
<1>2. Changes[a][b][p] \in Seq(Chg)
  <2>1. Changes[a] \in [Tree -> [Path -> Seq(Chg)]]
    BY ChangesDef
  <2>2. Changes[a][b] \in [Path -> Seq(Chg)]
    BY <2>1
  <2>3. QED  BY <2>2
<1>3. Rewritten(a, b, p) \in Seq(Chg)
  BY <1>1, ChangesParts
<1>4. KeptKids(Changes, a, b, p) \in Seq(Seq(Chg))
  BY <1>1, ChangesParts
<1>5. GoneKids(a, b, p) \in Seq(Seq(Chg))
  BY <1>1, ChangesParts
<1>6. NewKids(a, b, p) \in Seq(Seq(Chg))
  BY <1>1, ChangesParts
<1>7. \A i \in DOMAIN a.kids : Pairing(a, b)[i] # 0 => MovedKid(a, b, p, i) \in Seq(Chg)
  BY <1>1, ChangesParts
<1>8. /\ DOMAIN KeptKids(Changes, a, b, p) = DOMAIN a.kids
      /\ DOMAIN GoneKids(a, b, p) = DOMAIN a.kids
      /\ DOMAIN NewKids(a, b, p) = DOMAIN b.kids
  BY DEF KeptKids, GoneKids, NewKids
<1>9. Changes[a][b][p] = AllChanges(Changes, a, b, p)
  BY ChangesDef
<1>10. QED  BY <1>1, <1>2, <1>3, <1>4, <1>5, <1>6, <1>7, <1>8, <1>9

LEMMA ChangesMembers ==
    ASSUME NEW a \in Tree, NEW b \in Tree, NEW p \in Path, NEW c
    PROVE  c \in ToSet(Changes[a][b][p]) <=>
              \/ IsRewrite(c, a, b, p) \/ IsMove(c, a, b, p) \/ IsWithin(c, a, b, p)
              \/ IsRemoval(c, a, b, p) \/ IsAddition(c, a, b, p)
<1> DEFINE r == Rewritten(a, b, p)
           k == KeptKids(Changes, a, b, p)
           g == GoneKids(a, b, p)
           n == NewKids(a, b, p)
<1>1. /\ r \in Seq(Chg) /\ k \in Seq(Seq(Chg)) /\ g \in Seq(Seq(Chg)) /\ n \in Seq(Seq(Chg))
      /\ DOMAIN k = DOMAIN a.kids /\ DOMAIN g = DOMAIN a.kids /\ DOMAIN n = DOMAIN b.kids
  BY ChangesSplit
<1>2. Changes[a][b][p] = r \o FlattenSeq(k) \o FlattenSeq(g) \o FlattenSeq(n)
  BY ChangesSplit DEF AllChanges
<1>3. c \in ToSet(r) <=> IsRewrite(c, a, b, p)
  BY DEF ToSet, Rewritten, IsRewrite
<1>4. ASSUME NEW i \in DOMAIN a.kids
      PROVE  c \in ToSet(k[i]) <=>
               /\ Pairing(a, b)[i] # 0
               /\ \/ /\ Pairing(a, b)[i] # i
                     /\ c = Change("move", p \o <<i>>, p \o <<Pairing(a, b)[i]>>, {})
                  \/ c \in ToSet(Changes[a.kids[i]][b.kids[Pairing(a, b)[i]]][p \o <<Pairing(a, b)[i]>>])
  <2> DEFINE m == MovedKid(a, b, p, i)
             s == Changes[a.kids[i]][b.kids[Pairing(a, b)[i]]][p \o <<Pairing(a, b)[i]>>]
  <2>1. CASE Pairing(a, b)[i] = 0
    <3>1. k[i] = <<>>
      BY <2>1 DEF KeptKids
    <3>2. QED  BY <2>1, <3>1 DEF ToSet
  <2>2. CASE Pairing(a, b)[i] # 0
    <3>1. k[i] = m \o s
      BY <2>2 DEF KeptKids
    <3>2. m \in Seq(Chg)
      BY <2>2, ChangesSplit
    <3>3. s \in Seq(Chg)
      <4>1. Pairing(a, b)[i] \in DOMAIN b.kids /\ Pairing(a, b)[i] \in Nat
        BY <2>2, PairingParts
      <4>2. p \o <<Pairing(a, b)[i]>> \in Path
        BY <4>1, LastStep
      <4>3. QED  BY <4>1, <4>2, ChangesSplit
    <3>4. c \in ToSet(m) <=> /\ Pairing(a, b)[i] # i
                             /\ c = Change("move", p \o <<i>>, p \o <<Pairing(a, b)[i]>>, {})
      BY DEF ToSet, MovedKid
    <3> HIDE DEF m, s
    <3>5. ToSet(m \o s) = ToSet(m) \cup ToSet(s)
      BY <3>2, <3>3, ConcatMembers
    <3>6. QED  BY <2>2, <3>1, <3>4, <3>5 DEF s
  <2>3. QED  BY <2>1, <2>2
<1>5. ASSUME NEW i \in DOMAIN a.kids
      PROVE  c \in ToSet(g[i]) <=> Pairing(a, b)[i] = 0 /\ c = Change("remove", p \o <<i>>, <<>>, {})
  <2>1. CASE Pairing(a, b)[i] # 0
    <3>1. g[i] = <<>>
      BY <2>1 DEF GoneKids
    <3>2. QED  BY <2>1, <3>1 DEF ToSet
  <2>2. CASE Pairing(a, b)[i] = 0
    <3>1. g[i] = <<Change("remove", p \o <<i>>, <<>>, {})>>
      BY <2>2 DEF GoneKids
    <3>2. QED  BY <2>2, <3>1 DEF ToSet
  <2>3. QED  BY <2>1, <2>2
<1>6. ASSUME NEW j \in DOMAIN b.kids
      PROVE  c \in ToSet(n[j]) <=>
                j \notin Range(Pairing(a, b)) /\ c = Change("add", p \o <<j>>, <<>>, b.kids[j])
  <2>1. CASE j \in Range(Pairing(a, b))
    <3>1. n[j] = <<>>
      BY <2>1 DEF NewKids
    <3>2. QED  BY <2>1, <3>1 DEF ToSet
  <2>2. CASE j \notin Range(Pairing(a, b))
    <3>1. n[j] = <<Change("add", p \o <<j>>, <<>>, b.kids[j])>>
      BY <2>2 DEF NewKids
    <3>2. QED  BY <2>2, <3>1 DEF ToSet
  <2>3. QED  BY <2>1, <2>2
<1> HIDE DEF r, k, g, n
<1>7. c \in ToSet(FlattenSeq(k)) <=> IsMove(c, a, b, p) \/ IsWithin(c, a, b, p)
  <2>1. c \in ToSet(FlattenSeq(k)) <=> \E i \in DOMAIN k : c \in ToSet(k[i])
    BY <1>1, FlattenHas
  <2>2. QED  BY <1>1, <1>4, <2>1 DEF IsMove, IsWithin
<1>8. c \in ToSet(FlattenSeq(g)) <=> IsRemoval(c, a, b, p)
  <2>1. c \in ToSet(FlattenSeq(g)) <=> \E i \in DOMAIN g : c \in ToSet(g[i])
    BY <1>1, FlattenHas
  <2>2. QED  BY <1>1, <1>5, <2>1 DEF IsRemoval
<1>9. c \in ToSet(FlattenSeq(n)) <=> IsAddition(c, a, b, p)
  <2>1. c \in ToSet(FlattenSeq(n)) <=> \E i \in DOMAIN n : c \in ToSet(n[i])
    BY <1>1, FlattenHas
  <2>2. QED  BY <1>1, <1>6, <2>1 DEF IsAddition
<1>10. ToSet(Changes[a][b][p]) = ToSet(r) \cup ToSet(FlattenSeq(k)) \cup ToSet(FlattenSeq(g))
                                      \cup ToSet(FlattenSeq(n))
  <2>1. FlattenSeq(k) \in Seq(Chg)
    BY <1>1, FlattenSeqType
  <2>2. FlattenSeq(g) \in Seq(Chg)
    BY <1>1, FlattenSeqType
  <2>3. FlattenSeq(n) \in Seq(Chg)
    BY <1>1, FlattenSeqType
  <2> DEFINE kk == FlattenSeq(k)
             gg == FlattenSeq(g)
             nn == FlattenSeq(n)
  <2> HIDE DEF kk, gg, nn
  <2>4. kk \in Seq(Chg) /\ gg \in Seq(Chg) /\ nn \in Seq(Chg)
    BY <2>1, <2>2, <2>3 DEF kk, gg, nn
  <2> DEFINE rk == r \o kk
             rkg == rk \o gg
  <2>5. ToSet(rk) = ToSet(r) \cup ToSet(kk) /\ rk \in Seq(Chg)
    <3>1. ToSet(rk) = ToSet(r) \cup ToSet(kk)
      BY <1>1, <2>4, ConcatMembers
    <3>2. rk \in Seq(Chg)
      BY <1>1, <2>4, ConcatProperties
    <3>3. QED  BY <3>1, <3>2
  <2> HIDE DEF rk
  <2>6. ToSet(rkg) = ToSet(rk) \cup ToSet(gg) /\ rkg \in Seq(Chg)
    <3>1. ToSet(rkg) = ToSet(rk) \cup ToSet(gg)
      BY <2>4, <2>5, ConcatMembers
    <3>2. rkg \in Seq(Chg)
      BY <2>4, <2>5, ConcatProperties
    <3>3. QED  BY <3>1, <3>2
  <2> HIDE DEF rkg
  <2>7. ToSet(rkg \o nn) = ToSet(rkg) \cup ToSet(nn)
    BY <2>4, <2>6, ConcatMembers
  <2>8. Changes[a][b][p] = rkg \o nn
    BY <1>2 DEF kk, gg, nn, rk, rkg
  <2>9. ToSet(Changes[a][b][p]) = ToSet(r) \cup ToSet(kk) \cup ToSet(gg) \cup ToSet(nn)
    BY <2>5, <2>6, <2>7, <2>8
  <2>10. QED  BY <2>9 DEF kk, gg, nn
<1>11. QED  BY <1>3, <1>7, <1>8, <1>9, <1>10

(* A change that belongs to what is at a path: to the node, or to what is below it. *)
Owned(c, p) == \E q \in Path : c.path = p \o q /\ (q = <<>> => c.op = "replace")

LEMMA OwnedStep ==
    ASSUME NEW c, NEW p \in Path, NEW j \in Nat, Owned(c, p \o <<j>>)
    PROVE  /\ Owned(c, p)
           /\ c.path # p
           /\ \A i \in Nat : c.path = p \o <<i>> => i = j /\ c.op = "replace"
           /\ \A i \in Nat : Owned(c, p \o <<i>>) => i = j
<1>1. PICK q \in Path : c.path = (p \o <<j>>) \o q /\ (q = <<>> => c.op = "replace")
  BY DEF Owned
<1>2. <<j>> \o q \in Path /\ <<j>> \o q # <<>>
  BY PathStep
<1>3. <<j>> \in Path
  BY DEF Path
<1>4. c.path = p \o (<<j>> \o q)
  BY <1>1, <1>3, PathsJoinThree
<1>5. Owned(c, p)
  BY <1>2, <1>4 DEF Owned
<1>6. c.path # p
  BY <1>2, <1>4, PathsJoin
<1>7. ASSUME NEW i \in Nat, c.path = p \o <<i>> PROVE i = j /\ c.op = "replace"
  <2>1. <<>> \in Path /\ (p \o <<i>>) \o <<>> = p \o <<i>> /\ p \o <<i>> \in Path /\ p \o <<j>> \in Path
    BY PathsJoin, LastStep DEF Path
  <2>2. i = j
    BY <1>1, <1>7, <2>1, PathsPart
  <2>3. q = <<>>
    BY <1>1, <1>7, <2>1, <2>2, PathsJoin
  <2>4. QED  BY <1>1, <2>2, <2>3
<1>8. ASSUME NEW i \in Nat, Owned(c, p \o <<i>>) PROVE i = j
  <2>1. PICK r \in Path : c.path = (p \o <<i>>) \o r
    BY <1>8 DEF Owned
  <2>2. QED  BY <1>1, <2>1, PathsPart
<1>9. QED  BY <1>5, <1>6, <1>7, <1>8

LEMMA OwnedKid ==
    ASSUME NEW c, NEW p \in Path, NEW i \in Nat, c.path = p \o <<i>>, c.op # "replace"
    PROVE  Owned(c, p) /\ ~ Owned(c, p \o <<i>>) /\ \A j \in Nat : ~ Owned(c, p \o <<j>>)
<1>1. <<i>> \in Path /\ <<i>> # <<>>
  BY DEF Path
<1>2. Owned(c, p)
  BY <1>1 DEF Owned
<1>3. \A j \in Nat : ~ Owned(c, p \o <<j>>)
  BY OwnedStep
<1>4. QED  BY <1>2, <1>3

LEMMA ChangesOwned ==
    ASSUME NEW a \in Tree, NEW b \in Tree, NEW p \in Path, NEW c \in ToSet(Changes[a][b][p])
    PROVE  c \in Chg /\ Owned(c, p)
<1> DEFINE S == {t \in Tree : \A u \in Tree : \A q \in Path : \A d \in ToSet(Changes[t][u][q]) :
                                 Owned(d, q)}
<1>1. ASSUME NEW t \in Tree, \A i \in DOMAIN t.kids : t.kids[i] \in S PROVE t \in S
  <2> SUFFICES ASSUME NEW u \in Tree, NEW q \in Path, NEW d \in ToSet(Changes[t][u][q])
               PROVE  Owned(d, q)
    OBVIOUS
  <2>0. DOMAIN t.kids \subseteq Nat /\ DOMAIN u.kids \subseteq Nat
    <3>1. t.kids \in Seq(Tree) /\ u.kids \in Seq(Tree)
      BY TreeParts
    <3>2. QED  BY <3>1
  <2>1. CASE IsRewrite(d, t, u, q)
    <3>1. d.path = q /\ d.op = "replace"
      BY <2>1 DEF IsRewrite, Change
    <3>2. <<>> \in Path /\ q \o <<>> = q
      BY PathsJoin DEF Path
    <3>3. QED  BY <3>1, <3>2 DEF Owned
  <2>2. CASE IsMove(d, t, u, q)
    <3>1. PICK i \in DOMAIN t.kids : d = Change("move", q \o <<i>>, q \o <<Pairing(t, u)[i]>>, {})
      BY <2>2 DEF IsMove
    <3>2. d.path = q \o <<i>> /\ d.op # "replace" /\ i \in Nat
      BY <2>0, <3>1 DEF Change
    <3>3. QED  BY <3>2, OwnedKid
  <2>3. CASE IsWithin(d, t, u, q)
    <3>1. PICK i \in DOMAIN t.kids :
             /\ Pairing(t, u)[i] # 0
             /\ d \in ToSet(Changes[t.kids[i]][u.kids[Pairing(t, u)[i]]][q \o <<Pairing(t, u)[i]>>])
      BY <2>3 DEF IsWithin
    <3>2. Pairing(t, u)[i] \in DOMAIN u.kids /\ Pairing(t, u)[i] \in Nat
      BY <3>1, PairingParts
    <3>3. u.kids[Pairing(t, u)[i]] \in Tree
      BY <3>2, TreeParts
    <3>4. q \o <<Pairing(t, u)[i]>> \in Path
      BY <3>2, LastStep
    <3>5. Owned(d, q \o <<Pairing(t, u)[i]>>)
      BY <1>1, <3>1, <3>3, <3>4
    <3>6. QED  BY <3>2, <3>5, OwnedStep
  <2>4. CASE IsRemoval(d, t, u, q)
    <3>1. PICK i \in DOMAIN t.kids : d = Change("remove", q \o <<i>>, <<>>, {})
      BY <2>4 DEF IsRemoval
    <3>2. d.path = q \o <<i>> /\ d.op # "replace" /\ i \in Nat
      BY <2>0, <3>1 DEF Change
    <3>3. QED  BY <3>2, OwnedKid
  <2>5. CASE IsAddition(d, t, u, q)
    <3>1. PICK j \in DOMAIN u.kids : d = Change("add", q \o <<j>>, <<>>, u.kids[j])
      BY <2>5 DEF IsAddition
    <3>2. d.path = q \o <<j>> /\ d.op # "replace" /\ j \in Nat
      BY <2>0, <3>1 DEF Change
    <3>3. QED  BY <3>2, OwnedKid
  <2>6. QED  BY <2>1, <2>2, <2>3, <2>4, <2>5, ChangesMembers
<1> HIDE DEF S
<1>2. Tree \subseteq S
  BY <1>1, TreeInduction
<1>3. Owned(c, p)
  BY <1>2 DEF S
<1>4. c \in Chg
  <2>1. Changes[a][b][p] \in Seq(Chg)
    BY ChangesSplit
  <2> HIDE DEF S
  <2>2. ToSet(Changes[a][b][p]) \subseteq Chg
    BY <2>1 DEF ToSet
  <2>3. QED  BY <2>2
<1>5. QED  BY <1>3, <1>4

(* Told, part by part. *)
ToldUnder(D, p, op) == {c \in D : c.op = op /\ c.path # <<>> /\ Front(c.path) = p}
ToldFields(D, p) == {c.new : c \in {r \in D : r.op = "replace" /\ r.path = p}}
ToldAdded(D, p, j) == {c.new : c \in {n \in ToldUnder(D, p, "add") : Last(n.path) = j}}
ToldMoved(D, p, j) ==
    {Last(c.path) : c \in {m \in ToldUnder(D, p, "move") : Last(m.to) = j}}
ToldFrom(D, p, j) ==
    IF ToldMoved(D, p, j) = {} THEN j ELSE CHOOSE i \in ToldMoved(D, p, j) : TRUE
ToldSize(D, node, p) ==
    Len(node.kids) - Cardinality(ToldUnder(D, p, "remove")) + Cardinality(ToldUnder(D, p, "add"))
ToldOwn(D, node, p) ==
    IF ToldFields(D, p) = {} THEN node ELSE CHOOSE f \in ToldFields(D, p) : TRUE
ToldKid(g, D, node, p, j) ==
    IF ToldAdded(D, p, j) # {} THEN CHOOSE n \in ToldAdded(D, p, j) : TRUE
    ELSE IF ToldFrom(D, p, j) \in DOMAIN node.kids
    THEN g[node.kids[ToldFrom(D, p, j)]][p \o <<j>>]
    ELSE node
ToldNode(g, D, node, p) ==
    Node(ToldOwn(D, node, p).id, ToldOwn(D, node, p).val,
         [j \in 1 .. ToldSize(D, node, p) |-> ToldKid(g, D, node, p, j)])

LEMMA ToldLocal ==
    ASSUME NEW D, NEW t, NEW p, NEW f, NEW g, \A i \in DOMAIN t.kids : f[t.kids[i]] = g[t.kids[i]]
    PROVE  ToldNode(f, D, t, p) = ToldNode(g, D, t, p)
<1>1. \A j : ToldKid(f, D, t, p, j) = ToldKid(g, D, t, p, j)
  BY DEF ToldKid
<1>2. QED  BY <1>1 DEF ToldNode

LEMMA ToldDef ==
    ASSUME NEW D
    PROVE  \E g : /\ \A t \in Tree : \A p \in Path : g[t][p] = ToldNode(g, D, t, p)
                  /\ \A t \in Tree : Told(t, D) = g[t][<<>>]
<1> DEFINE Unrolled(g, T) == [t \in T |-> [p \in Path |-> ToldNode(g, D, t, p)]]
           S == {m \in 0 .. Height : \E g : g = Unrolled(g, TreesUpTo[m])}
<1>0. Height \in Nat
  BY TreeAssumption
<1>1. 0 \in S
  <2> DEFINE g == Unrolled(<<>>, TreesUpTo[0])
  <2>1. ASSUME NEW t \in TreesUpTo[0], NEW p \in Path
        PROVE  ToldNode(<<>>, D, t, p) = ToldNode(g, D, t, p)
    <3>1. t.kids = <<>>
      <4>1. 0 \in 0 .. Height
        BY <1>0
      <4>2. QED  BY <4>1, RankParts
    <3> HIDE DEF g
    <3>2. \A i \in DOMAIN t.kids : <<>>[t.kids[i]] = g[t.kids[i]]
      BY <3>1
    <3>3. QED  BY <3>2, ToldLocal
  <2>2. g = Unrolled(g, TreesUpTo[0])
    BY <2>1
  <2> HIDE DEF g
  <2>3. QED  BY <1>0, <2>2
<1>2. ASSUME NEW m \in 0 .. Height - 1, m \in S PROVE m + 1 \in S
  <2>0. m + 1 \in 0 .. Height /\ m + 1 # 0 /\ (m + 1) - 1 = m /\ m \in 0 .. Height
    BY <1>0
  <2>1. PICK f : f = Unrolled(f, TreesUpTo[m])
    BY <1>2
  <2> DEFINE g == Unrolled(f, TreesUpTo[m + 1])
  <2>2. ASSUME NEW t \in TreesUpTo[m] PROVE f[t] = g[t]
    <3>1. t \in TreesUpTo[m + 1]
      BY TreesGrow
    <3>2. f[t] = [p \in Path |-> ToldNode(f, D, t, p)]
      BY <2>1
    <3>3. g[t] = [p \in Path |-> ToldNode(f, D, t, p)]
      BY <3>1
    <3>4. QED  BY <3>2, <3>3
  <2>3. ASSUME NEW t \in TreesUpTo[m + 1], NEW p \in Path
        PROVE  ToldNode(f, D, t, p) = ToldNode(g, D, t, p)
    <3>1. \A i \in DOMAIN t.kids : t.kids[i] \in TreesUpTo[m]
      BY <2>0, RankParts
    <3>2. \A i \in DOMAIN t.kids : f[t.kids[i]] = g[t.kids[i]]
      BY <2>2, <3>1
    <3> HIDE DEF g
    <3>3. QED  BY <3>2, ToldLocal
  <2>4. g = Unrolled(g, TreesUpTo[m + 1])
    BY <2>3
  <2> HIDE DEF g
  <2>5. QED  BY <2>0, <2>4
<1> HIDE DEF S
<1>3. 0 .. Height \subseteq S
  BY <1>0, <1>1, <1>2, Induction
<1>4. \E g : g = Unrolled(g, Tree)
  <2>1. Height \in S
    BY <1>0, <1>3
  <2>2. QED  BY <2>1 DEF S, Tree
<1> DEFINE new == CHOOSE g : g = Unrolled(g, Tree)
<1>5. new = Unrolled(new, Tree)
  BY <1>4
<1>6. \A t \in Tree : Told(t, D) = new[t][<<>>]
  BY DEF Told, ToldNode, ToldKid, ToldOwn, ToldSize, ToldFrom, ToldMoved, ToldAdded,
         ToldFields, ToldUnder
<1> HIDE DEF new
<1>7. ASSUME NEW t \in Tree, NEW p \in Path PROVE new[t][p] = ToldNode(new, D, t, p)
  <2>1. Unrolled(new, Tree)[t][p] = ToldNode(new, D, t, p)
    OBVIOUS
  <2> HIDE DEF Unrolled
  <2>2. QED  BY <1>5, <2>1
<1>8. QED  BY <1>6, <1>7

(* Of what D says, the changes from a to b are what belongs to the path. *)
Says(D, a, b, p) == D \subseteq Chg /\ {c \in D : Owned(c, p)} = ToSet(Changes[a][b][p])

LEMMA KidNumbers ==
    ASSUME NEW t \in Tree
    PROVE  /\ DOMAIN t.kids = 1 .. Len(t.kids) /\ Len(t.kids) \in Nat
           /\ \A i \in DOMAIN t.kids : i \in Nat /\ i # 0 /\ t.kids[i] \in Tree
<1>1. t.kids \in Seq(Tree)
  BY TreeParts
<1>2. QED  BY <1>1

LEMMA KindOfChange ==
    ASSUME NEW a, NEW b, NEW p, NEW c
    PROVE  /\ IsRewrite(c, a, b, p) => c.op = "replace"
           /\ IsMove(c, a, b, p) => c.op = "move"
           /\ IsRemoval(c, a, b, p) => c.op = "remove"
           /\ IsAddition(c, a, b, p) => c.op = "add"
<1>1. IsRewrite(c, a, b, p) => c.op = "replace"
  BY DEF IsRewrite, Change
<1>2. ASSUME IsMove(c, a, b, p) PROVE c.op = "move"
  <2>1. PICK i \in DOMAIN a.kids : c = Change("move", p \o <<i>>, p \o <<Pairing(a, b)[i]>>, {})
    BY <1>2 DEF IsMove
  <2>2. QED  BY <2>1 DEF Change
<1>3. ASSUME IsRemoval(c, a, b, p) PROVE c.op = "remove"
  <2>1. PICK i \in DOMAIN a.kids : c = Change("remove", p \o <<i>>, <<>>, {})
    BY <1>3 DEF IsRemoval
  <2>2. QED  BY <2>1 DEF Change
<1>4. ASSUME IsAddition(c, a, b, p) PROVE c.op = "add"
  <2>1. PICK j \in DOMAIN b.kids : c = Change("add", p \o <<j>>, <<>>, b.kids[j])
    BY <1>4 DEF IsAddition
  <2>2. QED  BY <2>1 DEF Change
<1>5. QED  BY <1>1, <1>2, <1>3, <1>4

LEMMA SaidUnder ==
    ASSUME NEW D, NEW a \in Tree, NEW b \in Tree, NEW p \in Path, Says(D, a, b, p), NEW c
    PROVE  /\ c \in ToldUnder(D, p, "remove") <=> IsRemoval(c, a, b, p)
           /\ c \in ToldUnder(D, p, "add") <=> IsAddition(c, a, b, p)
           /\ c \in ToldUnder(D, p, "move") <=> IsMove(c, a, b, p)
<1>0. DOMAIN a.kids \subseteq Nat /\ DOMAIN b.kids \subseteq Nat
  BY KidNumbers
<1>1. ASSUME c \in D, c.op # "replace", c.path # <<>>, Front(c.path) = p
      PROVE  IsMove(c, a, b, p) \/ IsRemoval(c, a, b, p) \/ IsAddition(c, a, b, p)
  <2>1. c.path \in Path
    BY <1>1 DEF Says, Chg
  <2>2. c.path = p \o <<Last(c.path)>> /\ Last(c.path) \in Nat
    BY <1>1, <2>1, PathsEnd
  <2>3. Owned(c, p) /\ \A j \in Nat : ~ Owned(c, p \o <<j>>)
    BY <1>1, <2>2, OwnedKid
  <2>4. c \in ToSet(Changes[a][b][p])
    BY <1>1, <2>3 DEF Says
  <2>5. ~ IsRewrite(c, a, b, p)
    BY <1>1 DEF IsRewrite, Change
  <2>6. ~ IsWithin(c, a, b, p)
    <3> SUFFICES ASSUME NEW i \in DOMAIN a.kids, Pairing(a, b)[i] # 0,
                        c \in ToSet(Changes[a.kids[i]][b.kids[Pairing(a, b)[i]]][p \o <<Pairing(a, b)[i]>>])
                 PROVE  FALSE
      BY DEF IsWithin
    <3>1. Pairing(a, b)[i] \in DOMAIN b.kids /\ Pairing(a, b)[i] \in Nat
      BY PairingParts
    <3>2. a.kids[i] \in Tree /\ b.kids[Pairing(a, b)[i]] \in Tree
      BY <3>1, KidNumbers
    <3>3. p \o <<Pairing(a, b)[i]>> \in Path
      BY <3>1, LastStep
    <3>4. Owned(c, p \o <<Pairing(a, b)[i]>>)
      BY <3>2, <3>3, ChangesOwned
    <3>5. QED  BY <2>3, <3>1, <3>4
  <2>7. QED  BY <2>4, <2>5, <2>6, ChangesMembers
<1>2. ASSUME IsMove(c, a, b, p) \/ IsRemoval(c, a, b, p) \/ IsAddition(c, a, b, p)
      PROVE  c \in D
  <2>1. c \in ToSet(Changes[a][b][p])
    BY <1>2, ChangesMembers
  <2>2. QED  BY <2>1 DEF Says
<1>3. ASSUME IsMove(c, a, b, p)
      PROVE  c \in D /\ c.op = "move" /\ c.path # <<>> /\ Front(c.path) = p
  <2>1. PICK i \in DOMAIN a.kids : c = Change("move", p \o <<i>>, p \o <<Pairing(a, b)[i]>>, {})
    BY <1>3 DEF IsMove
  <2>2. i \in Nat /\ c.op = "move" /\ c.path = p \o <<i>>
    BY <1>0, <2>1 DEF Change
  <2>3. QED  BY <1>2, <1>3, <2>2, LastStep
<1>4. ASSUME IsRemoval(c, a, b, p)
      PROVE  c \in D /\ c.op = "remove" /\ c.path # <<>> /\ Front(c.path) = p
  <2>1. PICK i \in DOMAIN a.kids : c = Change("remove", p \o <<i>>, <<>>, {})
    BY <1>4 DEF IsRemoval
  <2>2. i \in Nat /\ c.op = "remove" /\ c.path = p \o <<i>>
    BY <1>0, <2>1 DEF Change
  <2>3. QED  BY <1>2, <1>4, <2>2, LastStep
<1>5. ASSUME IsAddition(c, a, b, p)
      PROVE  c \in D /\ c.op = "add" /\ c.path # <<>> /\ Front(c.path) = p
  <2>1. PICK j \in DOMAIN b.kids : c = Change("add", p \o <<j>>, <<>>, b.kids[j])
    BY <1>5 DEF IsAddition
  <2>2. j \in Nat /\ c.op = "add" /\ c.path = p \o <<j>>
    BY <1>0, <2>1 DEF Change
  <2>3. QED  BY <1>2, <1>5, <2>2, LastStep
<1>6. c \in ToldUnder(D, p, "remove") <=> IsRemoval(c, a, b, p)
  <2>1. c \in ToldUnder(D, p, "remove") => IsRemoval(c, a, b, p)
    <3> SUFFICES ASSUME c \in ToldUnder(D, p, "remove") PROVE IsRemoval(c, a, b, p)
      OBVIOUS
    <3>1. c \in D /\ c.op = "remove" /\ c.path # <<>> /\ Front(c.path) = p
      BY DEF ToldUnder
    <3>2. ~ IsMove(c, a, b, p) /\ ~ IsAddition(c, a, b, p)
      BY <1>3, <1>5, <3>1
    <3>3. QED  BY <1>1, <3>1, <3>2
  <2>2. QED  BY <1>4, <2>1 DEF ToldUnder
<1>7. c \in ToldUnder(D, p, "add") <=> IsAddition(c, a, b, p)
  <2>1. c \in ToldUnder(D, p, "add") => IsAddition(c, a, b, p)
    <3> SUFFICES ASSUME c \in ToldUnder(D, p, "add") PROVE IsAddition(c, a, b, p)
      OBVIOUS
    <3>1. c \in D /\ c.op = "add" /\ c.path # <<>> /\ Front(c.path) = p
      BY DEF ToldUnder
    <3>2. ~ IsMove(c, a, b, p) /\ ~ IsRemoval(c, a, b, p)
      BY <1>3, <1>4, <3>1
    <3>3. QED  BY <1>1, <3>1, <3>2
  <2>2. QED  BY <1>5, <2>1 DEF ToldUnder
<1>8. c \in ToldUnder(D, p, "move") <=> IsMove(c, a, b, p)
  <2>1. c \in ToldUnder(D, p, "move") => IsMove(c, a, b, p)
    <3> SUFFICES ASSUME c \in ToldUnder(D, p, "move") PROVE IsMove(c, a, b, p)
      OBVIOUS
    <3>1. c \in D /\ c.op = "move" /\ c.path # <<>> /\ Front(c.path) = p
      BY DEF ToldUnder
    <3>2. ~ IsRemoval(c, a, b, p) /\ ~ IsAddition(c, a, b, p)
      BY <1>4, <1>5, <3>1
    <3>3. QED  BY <1>1, <3>1, <3>2
  <2>2. QED  BY <1>3, <2>1 DEF ToldUnder
<1>9. QED  BY <1>6, <1>7, <1>8

LEMMA SaidFields ==
    ASSUME NEW D, NEW a \in Tree, NEW b \in Tree, NEW p \in Path, Says(D, a, b, p)
    PROVE  ToldOwn(D, a, p).id = b.id /\ ToldOwn(D, a, p).val = b.val
<1>0. DOMAIN a.kids \subseteq Nat /\ DOMAIN b.kids \subseteq Nat
  BY KidNumbers
<1>1. ASSUME NEW c \in D, c.op = "replace", c.path = p PROVE IsRewrite(c, a, b, p)
  <2>1. Owned(c, p)
    <3>1. <<>> \in Path /\ p \o <<>> = p
      BY PathsJoin DEF Path
    <3>2. QED  BY <1>1, <3>1 DEF Owned
  <2>2. c \in ToSet(Changes[a][b][p])
    BY <2>1 DEF Says
  <2>3. ~ IsMove(c, a, b, p) /\ ~ IsRemoval(c, a, b, p) /\ ~ IsAddition(c, a, b, p)
    BY <1>1, KindOfChange
  <2>4. ~ IsWithin(c, a, b, p)
    <3> SUFFICES ASSUME NEW i \in DOMAIN a.kids, Pairing(a, b)[i] # 0,
                        c \in ToSet(Changes[a.kids[i]][b.kids[Pairing(a, b)[i]]][p \o <<Pairing(a, b)[i]>>])
                 PROVE  FALSE
      BY DEF IsWithin
    <3>1. Pairing(a, b)[i] \in DOMAIN b.kids /\ Pairing(a, b)[i] \in Nat
      BY PairingParts
    <3>2. a.kids[i] \in Tree /\ b.kids[Pairing(a, b)[i]] \in Tree
      BY <3>1, KidNumbers
    <3>3. p \o <<Pairing(a, b)[i]>> \in Path
      BY <3>1, LastStep
    <3>4. Owned(c, p \o <<Pairing(a, b)[i]>>)
      BY <3>2, <3>3, ChangesOwned
    <3>5. QED  BY <1>1, <3>1, <3>4, OwnedStep
  <2>5. QED  BY <2>2, <2>3, <2>4, ChangesMembers
<1>2. ASSUME NEW f \in ToldFields(D, p)
      PROVE  <<a.id, a.val>> # <<b.id, b.val>> /\ f = Node(b.id, b.val, <<>>)
  <2>1. PICK c \in D : c.op = "replace" /\ c.path = p /\ f = c.new
    BY DEF ToldFields
  <2>2. IsRewrite(c, a, b, p)
    BY <1>1, <2>1
  <2>3. QED  BY <2>1, <2>2 DEF IsRewrite, Change
<1>3. ASSUME <<a.id, a.val>> # <<b.id, b.val>> PROVE ToldFields(D, p) # {}
  <2> DEFINE c == Change("replace", p, p, Node(b.id, b.val, <<>>))
  <2>1. IsRewrite(c, a, b, p)
    BY <1>3 DEF IsRewrite
  <2>2. c \in ToSet(Changes[a][b][p])
    BY <2>1, ChangesMembers
  <2>3. c \in D /\ c.op = "replace" /\ c.path = p
    BY <2>2 DEF Says, Change
  <2>4. QED  BY <2>3 DEF ToldFields
<1>4. CASE ToldFields(D, p) = {}
  BY <1>3, <1>4 DEF ToldOwn
<1>5. CASE ToldFields(D, p) # {}
  <2>1. ToldOwn(D, a, p) \in ToldFields(D, p)
    BY <1>5 DEF ToldOwn
  <2>2. ToldOwn(D, a, p) = Node(b.id, b.val, <<>>)
    BY <1>2, <2>1
  <2>3. QED  BY <2>2 DEF Node
<1>6. QED  BY <1>4, <1>5

(* A finite set is of one size with what it is mapped onto, one to one. *)
LEMMA SameSize ==
    ASSUME NEW S, NEW T, IsFiniteSet(S), NEW f, f \in [S -> T],
           \A x, y \in S : f[x] = f[y] => x = y, \A z \in T : \E x \in S : f[x] = z
    PROVE  IsFiniteSet(T) /\ Cardinality(T) = Cardinality(S)
<1>1. f \in Injection(S, T)
  BY DEF Injection, IsInjective
<1>2. f \in Surjection(S, T)
  BY DEF Surjection
<1>3. ExistsBijection(S, T)
  BY <1>1, <1>2 DEF ExistsBijection, Bijection
<1>4. QED  BY <1>3, FS_Bijection

LEMMA KidPaths ==
    ASSUME NEW p \in Path, NEW i \in Nat, NEW j \in Nat, p \o <<i>> = p \o <<j>>
    PROVE  i = j
<1>1. Last(p \o <<i>>) = i /\ Last(p \o <<j>>) = j
  BY LastStep
<1>2. QED  BY <1>1

(* A list gets as long as it has to. *)
LEMMA SaidSize ==
    ASSUME NEW D, NEW a \in Tree, NEW b \in Tree, NEW p \in Path, Says(D, a, b, p)
    PROVE  ToldSize(D, a, p) = Len(b.kids)
<1> DEFINE P == Pairing(a, b)
           I == DOMAIN a.kids
           J == DOMAIN b.kids
           Lost == {i \in I : P[i] = 0}
           Got == J \ Range(P)
           Gone == ToldUnder(D, p, "remove")
           Come == ToldUnder(D, p, "add")
<1>1. /\ I = 1 .. Len(a.kids) /\ Len(a.kids) \in Nat /\ J = 1 .. Len(b.kids) /\ Len(b.kids) \in Nat
      /\ I \subseteq Nat /\ J \subseteq Nat /\ 0 \notin J
  BY KidNumbers
<1>2. /\ IsFiniteSet(I) /\ Cardinality(I) = Len(a.kids)
      /\ IsFiniteSet(J) /\ Cardinality(J) = Len(b.kids)
  <2> HIDE DEF I, J
  <2>1. ASSUME NEW n \in Nat PROVE IsFiniteSet(1 .. n) /\ Cardinality(1 .. n) = n
    <3>1. 1 \in Int /\ n \in Int
      OBVIOUS
    <3>2. IsFiniteSet(1 .. n) /\ Cardinality(1 .. n) = IF 1 > n THEN 0 ELSE n - 1 + 1
      BY <3>1, FS_Interval
    <3>3. QED  BY <3>2
  <2>2. QED  BY <1>1, <2>1
<1>3. /\ DOMAIN P = I /\ \A i \in I : P[i] \in Nat /\ (P[i] = 0 \/ P[i] \in J)
      /\ \A i, k \in I : P[i] = P[k] /\ i # k => P[i] = 0
  BY PairingParts
<1>4. /\ \A c : c \in Gone <=> \E i \in I : P[i] = 0 /\ c = Change("remove", p \o <<i>>, <<>>, {})
      /\ \A c : c \in Come <=> \E j \in J : j \notin Range(P) /\ c = Change("add", p \o <<j>>, <<>>, b.kids[j])
  <2>1. ASSUME NEW c
        PROVE  c \in Gone <=> \E i \in I : P[i] = 0 /\ c = Change("remove", p \o <<i>>, <<>>, {})
    <3>1. c \in Gone <=> IsRemoval(c, a, b, p)
      BY SaidUnder
    <3>2. QED  BY <3>1 DEF IsRemoval
  <2>2. ASSUME NEW c
        PROVE  c \in Come <=> \E j \in J : j \notin Range(P)
                                /\ c = Change("add", p \o <<j>>, <<>>, b.kids[j])
    <3>1. c \in Come <=> IsAddition(c, a, b, p)
      BY SaidUnder
    <3>2. QED  BY <3>1 DEF IsAddition
  <2> HIDE DEF Gone, Come, I, J, P
  <2>3. QED  BY <2>1, <2>2
<1> HIDE DEF P, I, J, Gone, Come
<1>5. Cardinality(Gone) = Cardinality(Lost)
  <2> DEFINE f == [i \in Lost |-> Change("remove", p \o <<i>>, <<>>, {})]
  <2>1. f \in [Lost -> Gone]
    BY <1>4
  <2>2. ASSUME NEW x \in Lost, NEW y \in Lost, f[x] = f[y] PROVE x = y
    <3>1. f[x].path = p \o <<x>> /\ f[y].path = p \o <<y>>
      BY DEF Change
    <3>2. x \in Nat /\ y \in Nat
      BY <1>1
    <3>3. QED  BY <2>2, <3>1, <3>2, KidPaths
  <2>3. ASSUME NEW z \in Gone PROVE \E x \in Lost : f[x] = z
    BY <1>4
  <2>4. IsFiniteSet(Lost)
    BY <1>2, FS_Subset
  <2> HIDE DEF f, Lost
  <2>5. QED  BY <2>1, <2>2, <2>3, <2>4, SameSize
<1>6. Cardinality(Come) = Cardinality(Got)
  <2> DEFINE f == [j \in Got |-> Change("add", p \o <<j>>, <<>>, b.kids[j])]
  <2>1. f \in [Got -> Come]
    BY <1>4
  <2>2. ASSUME NEW x \in Got, NEW y \in Got, f[x] = f[y] PROVE x = y
    <3>1. f[x].path = p \o <<x>> /\ f[y].path = p \o <<y>>
      BY DEF Change
    <3>2. x \in Nat /\ y \in Nat
      BY <1>1
    <3>3. QED  BY <2>2, <3>1, <3>2, KidPaths
  <2>3. ASSUME NEW z \in Come PROVE \E x \in Got : f[x] = z
    BY <1>4
  <2>4. IsFiniteSet(Got)
    BY <1>2, FS_Subset
  <2> HIDE DEF f, Got
  <2>5. QED  BY <2>1, <2>2, <2>3, <2>4, SameSize
<1>7. Cardinality(I \ Lost) = Cardinality(J \ Got)
  <2> DEFINE f == [i \in I \ Lost |-> P[i]]
  <2>1. f \in [I \ Lost -> J \ Got]
    <3>1. ASSUME NEW i \in I \ Lost PROVE P[i] \in J /\ P[i] \in Range(P)
      BY <1>3 DEF Range
    <3>2. QED  BY <3>1
  <2>2. ASSUME NEW x \in I \ Lost, NEW y \in I \ Lost, f[x] = f[y] PROVE x = y
    BY <1>3, <2>2
  <2>3. ASSUME NEW z \in J \ Got PROVE \E x \in I \ Lost : f[x] = z
    <3>1. PICK x \in I : P[x] = z
      BY <1>3 DEF Range
    <3>2. x \in I \ Lost
      BY <1>1, <3>1
    <3>3. QED  BY <3>1, <3>2
  <2>4. IsFiniteSet(I \ Lost)
    BY <1>2, FS_Subset
  <2> DEFINE A == I \ Lost
             B == J \ Got
  <2>5. /\ f \in [A -> B] /\ (\A x, y \in A : f[x] = f[y] => x = y)
        /\ (\A z \in B : \E x \in A : f[x] = z) /\ IsFiniteSet(A)
    BY <2>1, <2>2, <2>3, <2>4
  <2> HIDE DEF f, A, B
  <2>6. Cardinality(B) = Cardinality(A)
    BY <2>5, SameSize
  <2>7. QED  BY <2>6 DEF A, B
<1>8. ASSUME NEW S, NEW T, T \subseteq S, IsFiniteSet(S)
      PROVE  Cardinality(S \ T) = Cardinality(S) - Cardinality(T) /\ Cardinality(T) \in Nat
  <2>1. Cardinality(S \ T) = Cardinality(S) - Cardinality(S \cap T)
    BY <1>8, FS_Difference
  <2>2. S \cap T = T
    BY <1>8
  <2>3. IsFiniteSet(T)
    BY <1>8, FS_Subset
  <2>4. QED  BY <2>1, <2>2, <2>3, FS_CardinalityType
<1>9. Lost \subseteq I /\ Got \subseteq J
  OBVIOUS
<1> HIDE DEF Lost, Got
<1>10. /\ Cardinality(I \ Lost) = Len(a.kids) - Cardinality(Lost) /\ Cardinality(Lost) \in Nat
       /\ Cardinality(J \ Got) = Len(b.kids) - Cardinality(Got) /\ Cardinality(Got) \in Nat
  BY <1>2, <1>8, <1>9
<1>11. Len(a.kids) - Cardinality(Gone) + Cardinality(Come) = Len(b.kids)
  BY <1>1, <1>5, <1>6, <1>7, <1>10
<1>12. QED  BY <1>11 DEF ToldSize, Gone, Come

(* What belongs to a child that was kept is what its own comparison says. *)
LEMMA SaysKid ==
    ASSUME NEW D, NEW a \in Tree, NEW b \in Tree, NEW p \in Path, Says(D, a, b, p),
           NEW i \in DOMAIN a.kids, Pairing(a, b)[i] # 0
    PROVE  Says(D, a.kids[i], b.kids[Pairing(a, b)[i]], p \o <<Pairing(a, b)[i]>>)
<1> DEFINE j == Pairing(a, b)[i]
           C == ToSet(Changes[a.kids[i]][b.kids[j]][p \o <<j>>])
<1>0. /\ j \in DOMAIN b.kids /\ j \in Nat /\ p \o <<j>> \in Path
      /\ a.kids[i] \in Tree /\ b.kids[j] \in Tree
  <2>1. j \in DOMAIN b.kids /\ j \in Nat
    BY PairingParts
  <2>2. QED  BY <2>1, LastStep, KidNumbers
<1>1. DOMAIN a.kids \subseteq Nat /\ DOMAIN b.kids \subseteq Nat
  BY KidNumbers
<1>2. ASSUME NEW c \in D, Owned(c, p \o <<j>>) PROVE c \in C
  <2> HIDE DEF j
  <2>1. Owned(c, p) /\ c.path # p /\ \A k \in Nat : c.path = p \o <<k>> => c.op = "replace"
    BY <1>0, <1>2, OwnedStep
  <2>2. c \in ToSet(Changes[a][b][p])
    BY <2>1 DEF Says
  <2>3. ~ IsRewrite(c, a, b, p)
    BY <2>1 DEF IsRewrite, Change
  <2>4. ~ IsMove(c, a, b, p)
    <3> SUFFICES ASSUME NEW k \in DOMAIN a.kids,
                        c = Change("move", p \o <<k>>, p \o <<Pairing(a, b)[k]>>, {})
                 PROVE  FALSE
      BY DEF IsMove
    <3>1. c.path = p \o <<k>> /\ c.op = "move" /\ k \in Nat
      BY <1>1 DEF Change
    <3>2. QED  BY <2>1, <3>1
  <2>5. ~ IsRemoval(c, a, b, p)
    <3> SUFFICES ASSUME NEW k \in DOMAIN a.kids, c = Change("remove", p \o <<k>>, <<>>, {})
                 PROVE  FALSE
      BY DEF IsRemoval
    <3>1. c.path = p \o <<k>> /\ c.op = "remove" /\ k \in Nat
      BY <1>1 DEF Change
    <3>2. QED  BY <2>1, <3>1
  <2>6. ~ IsAddition(c, a, b, p)
    <3> SUFFICES ASSUME NEW k \in DOMAIN b.kids, c = Change("add", p \o <<k>>, <<>>, b.kids[k])
                 PROVE  FALSE
      BY DEF IsAddition
    <3>1. c.path = p \o <<k>> /\ c.op = "add" /\ k \in Nat
      BY <1>1 DEF Change
    <3>2. QED  BY <2>1, <3>1
  <2>7. PICK k \in DOMAIN a.kids :
           /\ Pairing(a, b)[k] # 0
           /\ c \in ToSet(Changes[a.kids[k]][b.kids[Pairing(a, b)[k]]][p \o <<Pairing(a, b)[k]>>])
    BY <2>2, <2>3, <2>4, <2>5, <2>6, ChangesMembers DEF IsWithin
  <2>8. Pairing(a, b)[k] \in DOMAIN b.kids /\ Pairing(a, b)[k] \in Nat
    BY <2>7, PairingParts
  <2>9. a.kids[k] \in Tree /\ b.kids[Pairing(a, b)[k]] \in Tree /\ p \o <<Pairing(a, b)[k]>> \in Path
    BY <2>8, KidNumbers, LastStep
  <2>10. Owned(c, p \o <<Pairing(a, b)[k]>>)
    BY <2>7, <2>9, ChangesOwned
  <2>11. Pairing(a, b)[k] = j
    BY <1>0, <1>2, <2>8, <2>10, OwnedStep
  <2>12. k = i
    BY <2>7, <2>11, PairingParts DEF j
  <2>13. QED  BY <2>7, <2>12 DEF j
<1>3. ASSUME NEW c \in C PROVE c \in D /\ Owned(c, p \o <<j>>)
  <2>1. IsWithin(c, a, b, p)
    BY <1>3 DEF IsWithin
  <2>2. c \in ToSet(Changes[a][b][p])
    BY <2>1, ChangesMembers
  <2>3. Owned(c, p \o <<j>>)
    BY <1>0, <1>3, ChangesOwned
  <2>4. QED  BY <2>2, <2>3 DEF Says
<1> HIDE DEF C
<1>4. {c \in D : Owned(c, p \o <<j>>)} = C
  BY <1>2, <1>3
<1>5. QED  BY <1>4 DEF Says, C

(* Each child is found, where it is or where it was. *)
LEMMA SaidAdded ==
    ASSUME NEW D, NEW a \in Tree, NEW b \in Tree, NEW p \in Path, Says(D, a, b, p),
           NEW j \in DOMAIN b.kids
    PROVE  ToldAdded(D, p, j) = IF j \in Range(Pairing(a, b)) THEN {} ELSE {b.kids[j]}
<1>0. DOMAIN b.kids \subseteq Nat
  BY KidNumbers
<1>1. ASSUME NEW n \in ToldAdded(D, p, j) PROVE j \notin Range(Pairing(a, b)) /\ n = b.kids[j]
  <2>1. PICK c \in ToldUnder(D, p, "add") : Last(c.path) = j /\ n = c.new
    BY DEF ToldAdded
  <2>2. IsAddition(c, a, b, p)
    BY <2>1, SaidUnder
  <2>3. PICK k \in DOMAIN b.kids : k \notin Range(Pairing(a, b))
                                   /\ c = Change("add", p \o <<k>>, <<>>, b.kids[k])
    BY <2>2 DEF IsAddition
  <2>4. c.path = p \o <<k>> /\ c.new = b.kids[k] /\ k \in Nat
    BY <1>0, <2>3 DEF Change
  <2>5. k = j
    BY <2>1, <2>4, LastStep
  <2>6. QED  BY <2>1, <2>3, <2>4, <2>5
<1>2. ASSUME j \notin Range(Pairing(a, b)) PROVE b.kids[j] \in ToldAdded(D, p, j)
  <2> DEFINE c == Change("add", p \o <<j>>, <<>>, b.kids[j])
  <2>1. IsAddition(c, a, b, p)
    BY <1>2 DEF IsAddition
  <2>2. c.path = p \o <<j>> /\ c.new = b.kids[j] /\ j \in Nat
    BY <1>0 DEF Change
  <2> HIDE DEF c
  <2>3. c \in ToldUnder(D, p, "add")
    BY <2>1, SaidUnder
  <2>4. Last(c.path) = j
    BY <2>2, LastStep
  <2>5. QED  BY <2>2, <2>3, <2>4 DEF ToldAdded
<1>3. QED  BY <1>1, <1>2

LEMMA SaidFrom ==
    ASSUME NEW D, NEW a \in Tree, NEW b \in Tree, NEW p \in Path, Says(D, a, b, p),
           NEW i \in DOMAIN a.kids, Pairing(a, b)[i] # 0
    PROVE  ToldFrom(D, p, Pairing(a, b)[i]) = i
<1> DEFINE j == Pairing(a, b)[i]
<1>0. DOMAIN a.kids \subseteq Nat /\ \A k \in DOMAIN a.kids : Pairing(a, b)[k] \in Nat
  BY KidNumbers, PairingParts
<1>1. ASSUME NEW x \in ToldMoved(D, p, j) PROVE x = i
  <2>1. PICK c \in ToldUnder(D, p, "move") : Last(c.to) = j /\ x = Last(c.path)
    BY DEF ToldMoved
  <2>2. IsMove(c, a, b, p)
    BY <2>1, SaidUnder
  <2>3. PICK k \in DOMAIN a.kids : c = Change("move", p \o <<k>>, p \o <<Pairing(a, b)[k]>>, {})
    BY <2>2 DEF IsMove
  <2>4. c.path = p \o <<k>> /\ c.to = p \o <<Pairing(a, b)[k]>> /\ k \in Nat /\ Pairing(a, b)[k] \in Nat
    BY <1>0, <2>3 DEF Change
  <2>5. Pairing(a, b)[k] = j /\ x = k
    BY <2>1, <2>4, LastStep
  <2>6. QED  BY <2>5, PairingParts
<1>2. ASSUME j # i PROVE i \in ToldMoved(D, p, j)
  <2> DEFINE c == Change("move", p \o <<i>>, p \o <<j>>, {})
  <2>1. IsMove(c, a, b, p)
    BY <1>2 DEF IsMove
  <2>2. c.path = p \o <<i>> /\ c.to = p \o <<j>> /\ i \in Nat /\ j \in Nat
    BY <1>0 DEF Change
  <2> HIDE DEF c, j
  <2>3. c \in ToldUnder(D, p, "move")
    BY <2>1, SaidUnder
  <2>4. Last(c.path) = i /\ Last(c.to) = j
    BY <2>2, LastStep
  <2>5. QED  BY <2>3, <2>4 DEF ToldMoved
<1> HIDE DEF j
<1>3. CASE ToldMoved(D, p, j) = {}
  BY <1>2, <1>3 DEF ToldFrom, j
<1>4. CASE ToldMoved(D, p, j) # {}
  <2>1. ToldFrom(D, p, j) \in ToldMoved(D, p, j)
    BY <1>4 DEF ToldFrom
  <2>2. QED  BY <1>1, <2>1 DEF j
<1>5. QED  BY <1>3, <1>4

(* Who reads a diff as it is meant gets the tree it was made for. *)
LEMMA SaidIsTold ==
    ASSUME NEW D, NEW g,
           \A t \in Tree : \A p \in Path : g[t][p] = ToldNode(g, D, t, p),
           NEW a \in Tree, NEW b \in Tree, NEW p \in Path, Says(D, a, b, p)
    PROVE  g[a][p] = b
<1> DEFINE S == {t \in Tree : \A u \in Tree : \A q \in Path : Says(D, t, u, q) => g[t][q] = u}
<1>1. ASSUME NEW t \in Tree, \A i \in DOMAIN t.kids : t.kids[i] \in S PROVE t \in S
  <2> SUFFICES ASSUME NEW u \in Tree, NEW q \in Path, Says(D, t, u, q)
               PROVE  g[t][q] = u
    OBVIOUS
  <2>1. g[t][q] = ToldNode(g, D, t, q)
    OBVIOUS
  <2>2. ToldSize(D, t, q) = Len(u.kids)
    BY SaidSize
  <2>3. ToldOwn(D, t, q).id = u.id /\ ToldOwn(D, t, q).val = u.val
    BY SaidFields
  <2>4. ASSUME NEW j \in DOMAIN u.kids PROVE ToldKid(g, D, t, q, j) = u.kids[j]
    <3>1. CASE j \notin Range(Pairing(t, u))
      <4>1. ToldAdded(D, q, j) = {u.kids[j]}
        BY <3>1, SaidAdded
      <4>2. QED  BY <4>1 DEF ToldKid
    <3>2. CASE j \in Range(Pairing(t, u))
      <4>1. PICK i \in DOMAIN t.kids : Pairing(t, u)[i] = j
        BY <3>2, PairingParts DEF Range
      <4>2. j # 0 /\ j \in Nat
        BY KidNumbers
      <4>3. ToldAdded(D, q, j) = {}
        BY <3>2, SaidAdded
      <4>4. ToldFrom(D, q, j) = i
        BY <4>1, <4>2, SaidFrom
      <4>5. Says(D, t.kids[i], u.kids[j], q \o <<j>>)
        BY <4>1, <4>2, SaysKid
      <4>6. u.kids[j] \in Tree /\ q \o <<j>> \in Path
        BY <4>2, KidNumbers, LastStep
      <4>7. g[t.kids[i]][q \o <<j>>] = u.kids[j]
        BY <1>1, <4>5, <4>6
      <4>8. QED  BY <4>1, <4>3, <4>4, <4>7 DEF ToldKid
    <3>3. QED  BY <3>1, <3>2
  <2>5. DOMAIN u.kids = 1 .. Len(u.kids) /\ u.kids \in Seq(Tree) /\ u = Node(u.id, u.val, u.kids)
    BY TreeParts
  <2>6. [j \in 1 .. ToldSize(D, t, q) |-> ToldKid(g, D, t, q, j)] = u.kids
    BY <2>2, <2>4, <2>5
  <2>7. ToldNode(g, D, t, q) = Node(u.id, u.val, u.kids)
    BY <2>3, <2>6 DEF ToldNode
  <2>8. QED  BY <2>1, <2>5, <2>7
<1> HIDE DEF S
<1>2. Tree \subseteq S
  BY <1>1, TreeInduction
<1>3. QED  BY <1>2 DEF S

(* A diff, read with the old positions for what goes away and the new ones for    *)
(* everything else, tells the tree it was made from (diff_custom).              *)
LEMMA DifferencesAreTold ==
    ASSUME NEW a \in Tree, NEW b \in Tree
    PROVE  Told(a, ToSet(Differences(a, b))) = b
<1> DEFINE D == ToSet(Differences(a, b))
<1>1. <<>> \in Path /\ D = ToSet(Changes[a][b][<<>>])
  BY DEF Differences, Path
<1>2. \A c \in D : c \in Chg /\ Owned(c, <<>>)
  BY <1>1, ChangesOwned
<1> HIDE DEF D
<1>3. Says(D, a, b, <<>>)
  BY <1>1, <1>2 DEF Says
<1>4. PICK g : /\ \A t \in Tree : \A p \in Path : g[t][p] = ToldNode(g, D, t, p)
               /\ \A t \in Tree : Told(t, D) = g[t][<<>>]
  BY ToldDef
<1>5. g[a][<<>>] = b
  BY <1>1, <1>3, <1>4, SaidIsTold
<1>6. QED  BY <1>4, <1>5 DEF D

(* Nothing said is nothing changed. *)
LEMMA NoDifference ==
    ASSUME NEW a \in Tree, NEW b \in Tree, Differences(a, b) = <<>>
    PROVE  a = b
<1>1. ToSet(Differences(a, b)) = {}
  BY DEF ToSet
<1>2. PICK g : /\ \A t \in Tree : \A p \in Path : g[t][p] = ToldNode(g, {}, t, p)
               /\ \A t \in Tree : Told(t, {}) = g[t][<<>>]
  BY ToldDef
<1> DEFINE S == {t \in Tree : \A p \in Path : g[t][p] = t}
<1>3. ASSUME NEW t \in Tree, \A i \in DOMAIN t.kids : t.kids[i] \in S PROVE t \in S
  <2> SUFFICES ASSUME NEW p \in Path PROVE g[t][p] = t
    OBVIOUS
  <2>1. \A op : ToldUnder({}, p, op) = {}
    BY DEF ToldUnder
  <2>2. ToldOwn({}, t, p) = t
    BY DEF ToldOwn, ToldFields
  <2>3. Len(t.kids) \in Nat /\ DOMAIN t.kids = 1 .. Len(t.kids) /\ t.kids \in Seq(Tree)
        /\ t = Node(t.id, t.val, t.kids)
    BY TreeParts
  <2>4. ToldSize({}, t, p) = Len(t.kids)
    <3>1. Cardinality({}) = 0
      BY FS_EmptySet
    <3>2. ToldSize({}, t, p) = Len(t.kids) - 0 + 0
      BY <2>1, <3>1 DEF ToldSize
    <3>3. QED  BY <2>3, <3>2
  <2>5. ASSUME NEW j \in DOMAIN t.kids PROVE ToldKid(g, {}, t, p, j) = t.kids[j]
    <3>1. ToldAdded({}, p, j) = {} /\ ToldMoved({}, p, j) = {}
      BY <2>1 DEF ToldAdded, ToldMoved
    <3>2. ToldFrom({}, p, j) = j
      BY <3>1 DEF ToldFrom
    <3>3. p \o <<j>> \in Path
      BY KidNumbers, LastStep
    <3>4. g[t.kids[j]][p \o <<j>>] = t.kids[j]
      BY <1>3, <3>3
    <3>5. QED  BY <3>1, <3>2, <3>4 DEF ToldKid
  <2>6. [j \in 1 .. ToldSize({}, t, p) |-> ToldKid(g, {}, t, p, j)] = t.kids
    BY <2>3, <2>4, <2>5
  <2>7. ToldNode(g, {}, t, p) = t
    BY <2>2, <2>3, <2>6 DEF ToldNode
  <2>8. QED  BY <1>2, <2>7
<1> HIDE DEF S
<1>4. Tree \subseteq S
  BY <1>3, TreeInduction
<1>5. <<>> \in Path
  BY DEF Path
<1>6. Told(a, {}) = a
  BY <1>2, <1>4, <1>5 DEF S
<1>7. QED  BY <1>1, <1>6, DifferencesAreTold

-------------------------------------------------------------------------------
(* Changes applied one after the other. *)

(* A tree with one child replaced. *)
WithKid(t, i, x) == Node(t.id, t.val, [t.kids EXCEPT ![i] = x])

LEMMA WithKidGet ==
    ASSUME NEW t, NEW i, NEW x, t \in Tree, i \in DOMAIN t.kids
    PROVE  /\ WithKid(t, i, x).id = t.id /\ WithKid(t, i, x).val = t.val
           /\ DOMAIN WithKid(t, i, x).kids = DOMAIN t.kids
           /\ WithKid(t, i, x).kids[i] = x
           /\ \A k \in DOMAIN t.kids : k # i => WithKid(t, i, x).kids[k] = t.kids[k]
<1> DEFINE kids == t.kids
           new == [kids EXCEPT ![i] = x]
<1>1. kids \in [1 .. Len(kids) -> Tree] /\ DOMAIN kids = 1 .. Len(kids)
  BY TreeParts, SeqAsFunction
<1>2. DOMAIN new = DOMAIN kids /\ new[i] = x /\ \A k \in DOMAIN kids : k # i => new[k] = kids[k]
  BY <1>1
<1> HIDE DEF new
<1>3. WithKid(t, i, x) = Node(t.id, t.val, new)
  BY DEF WithKid, new
<1>4. QED  BY <1>2, <1>3 DEF Node

LEMMA WithKidSame ==
    ASSUME NEW t, NEW i, t \in Tree, i \in DOMAIN t.kids
    PROVE  WithKid(t, i, t.kids[i]) = t
<1> DEFINE kids == t.kids
<1>1. t = Node(t.id, t.val, kids) /\ kids \in [1 .. Len(kids) -> Tree]
  BY TreeParts, SeqAsFunction
<1>2. [kids EXCEPT ![i] = kids[i]] = kids
  BY <1>1
<1>3. QED  BY <1>1, <1>2 DEF WithKid

LEMMA WithKidTwice ==
    ASSUME NEW t, NEW i, NEW x, NEW y, t \in Tree, i \in DOMAIN t.kids
    PROVE  WithKid(WithKid(t, i, x), i, y) = WithKid(t, i, y)
<1> DEFINE kids == t.kids
           new == [kids EXCEPT ![i] = x]
<1>1. kids \in [1 .. Len(kids) -> Tree]
  BY TreeParts, SeqAsFunction
<1>2. [new EXCEPT ![i] = y] = [kids EXCEPT ![i] = y]
  BY <1>1
<1> HIDE DEF new
<1>3. WithKid(t, i, x) = Node(t.id, t.val, new)
  BY DEF WithKid, new
<1>4. QED  BY <1>2, <1>3 DEF WithKid, Node

LEMMA WithKidType ==
    ASSUME NEW d \in 0 .. Height, NEW t \in TreesUpTo[d], NEW i \in DOMAIN t.kids,
           NEW x, x \in TreesUpTo[d - 1]
    PROVE  WithKid(t, i, x) \in TreesUpTo[d]
<1>0. t \in Tree /\ d # 0 /\ t.kids \in Seq(TreesUpTo[d - 1])
  <2>1. t \in Tree /\ (d = 0 => t.kids = <<>>) /\ (d # 0 => t.kids \in Seq(TreesUpTo[d - 1]))
    BY RankParts
  <2>2. QED  BY <2>1
<1>1. [t.kids EXCEPT ![i] = x] \in Seq(TreesUpTo[d - 1])
  BY <1>0
<1>2. t.id \in Labels /\ t.val \in Seq(Nat)
  BY <1>0, TreeParts
<1>3. QED  BY <1>0, <1>1, <1>2, RankNode DEF WithKid

(* Rewrite, by the definition. *)
WalkNode(g, t, p, x) ==
    IF p = <<>> THEN x
    ELSE Node(t.id, t.val, [t.kids EXCEPT ![Head(p)] = g[t.kids[Head(p)]][Tail(p)]])

LEMMA WalkLocal ==
    ASSUME NEW t \in Tree, NEW p, NEW x, NEW f, NEW g,
           \A i \in DOMAIN t.kids : f[t.kids[i]] = g[t.kids[i]]
    PROVE  WalkNode(f, t, p, x) = WalkNode(g, t, p, x)
<1>1. t.kids \in [1 .. Len(t.kids) -> Tree] /\ DOMAIN t.kids = 1 .. Len(t.kids)
  BY TreeParts, SeqAsFunction
<1>2. CASE Head(p) \in DOMAIN t.kids
  <2>1. f[t.kids[Head(p)]] = g[t.kids[Head(p)]]
    BY <1>2
  <2>2. QED  BY <2>1 DEF WalkNode
<1>3. CASE Head(p) \notin DOMAIN t.kids
  <2>1. \A v : [t.kids EXCEPT ![Head(p)] = v] = t.kids
    BY <1>1, <1>3
  <2>2. QED  BY <2>1 DEF WalkNode
<1>4. QED  BY <1>2, <1>3

LEMMA RewriteDef ==
    ASSUME NEW x
    PROVE  \E g : /\ \A t \in Tree : \A p \in Path : g[t][p] = WalkNode(g, t, p, x)
                  /\ \A t \in Tree : \A p \in Path : Rewrite(t, p, x) = g[t][p]
<1> DEFINE Unrolled(g, T) == [t \in T |-> [p \in Path |-> WalkNode(g, t, p, x)]]
           S == {m \in 0 .. Height : \E g : g = Unrolled(g, TreesUpTo[m])}
<1>0. Height \in Nat
  BY TreeAssumption
<1>1. 0 \in S
  <2> DEFINE g == Unrolled(<<>>, TreesUpTo[0])
  <2>1. ASSUME NEW t \in TreesUpTo[0], NEW p \in Path
        PROVE  WalkNode(<<>>, t, p, x) = WalkNode(g, t, p, x)
    <3>1. t.kids = <<>> /\ t \in Tree
      <4>1. 0 \in 0 .. Height
        BY <1>0
      <4>2. QED  BY <4>1, RankParts
    <3> HIDE DEF g
    <3>2. \A i \in DOMAIN t.kids : <<>>[t.kids[i]] = g[t.kids[i]]
      BY <3>1
    <3>3. QED  BY <3>1, <3>2, WalkLocal
  <2>2. g = Unrolled(g, TreesUpTo[0])
    BY <2>1
  <2> HIDE DEF g
  <2>3. QED  BY <1>0, <2>2
<1>2. ASSUME NEW m \in 0 .. Height - 1, m \in S PROVE m + 1 \in S
  <2>0. m + 1 \in 0 .. Height /\ m + 1 # 0 /\ (m + 1) - 1 = m /\ m \in 0 .. Height
    BY <1>0
  <2>1. PICK f : f = Unrolled(f, TreesUpTo[m])
    BY <1>2
  <2> DEFINE g == Unrolled(f, TreesUpTo[m + 1])
  <2>2. ASSUME NEW t \in TreesUpTo[m] PROVE f[t] = g[t]
    <3>1. t \in TreesUpTo[m + 1]
      BY TreesGrow
    <3>2. f[t] = [p \in Path |-> WalkNode(f, t, p, x)]
      BY <2>1
    <3>3. g[t] = [p \in Path |-> WalkNode(f, t, p, x)]
      BY <3>1
    <3>4. QED  BY <3>2, <3>3
  <2>3. ASSUME NEW t \in TreesUpTo[m + 1], NEW p \in Path
        PROVE  WalkNode(f, t, p, x) = WalkNode(g, t, p, x)
    <3>1. t \in Tree /\ \A i \in DOMAIN t.kids : t.kids[i] \in TreesUpTo[m]
      BY <2>0, RankParts
    <3>2. \A i \in DOMAIN t.kids : f[t.kids[i]] = g[t.kids[i]]
      BY <2>2, <3>1
    <3> HIDE DEF g
    <3>3. QED  BY <3>1, <3>2, WalkLocal
  <2>4. g = Unrolled(g, TreesUpTo[m + 1])
    BY <2>3
  <2> HIDE DEF g
  <2>5. QED  BY <2>0, <2>4
<1> HIDE DEF S
<1>3. 0 .. Height \subseteq S
  BY <1>0, <1>1, <1>2, Induction
<1>4. \E g : g = Unrolled(g, Tree)
  <2>1. Height \in S
    BY <1>0, <1>3
  <2>2. QED  BY <2>1 DEF S, Tree
<1> DEFINE walk == CHOOSE g : g = Unrolled(g, Tree)
<1>5. walk = Unrolled(walk, Tree)
  BY <1>4
<1>6. \A t \in Tree : \A p \in Path : Rewrite(t, p, x) = walk[t][p]
  BY DEF Rewrite, WalkNode
<1> HIDE DEF walk
<1>7. ASSUME NEW t \in Tree, NEW p \in Path PROVE walk[t][p] = WalkNode(walk, t, p, x)
  <2>1. Unrolled(walk, Tree)[t][p] = WalkNode(walk, t, p, x)
    OBVIOUS
  <2> HIDE DEF Unrolled
  <2>2. QED  BY <1>5, <2>1
<1>8. QED  BY <1>6, <1>7

LEMMA RewriteStep ==
    ASSUME NEW t \in Tree, NEW x
    PROVE  /\ Rewrite(t, <<>>, x) = x
           /\ \A i \in DOMAIN t.kids : \A q \in Path :
                 Rewrite(t, <<i>> \o q, x) = WithKid(t, i, Rewrite(t.kids[i], q, x))
<1>1. PICK g : /\ \A u \in Tree : \A p \in Path : g[u][p] = WalkNode(g, u, p, x)
               /\ \A u \in Tree : \A p \in Path : Rewrite(u, p, x) = g[u][p]
  BY RewriteDef
<1>2. <<>> \in Path
  BY DEF Path
<1>3. Rewrite(t, <<>>, x) = x
  BY <1>1, <1>2 DEF WalkNode
<1>4. ASSUME NEW i \in DOMAIN t.kids, NEW q \in Path
      PROVE  Rewrite(t, <<i>> \o q, x) = WithKid(t, i, Rewrite(t.kids[i], q, x))
  <2>1. i \in Nat /\ t.kids[i] \in Tree
    BY KidNumbers
  <2> DEFINE p == <<i>> \o q
  <2>2. p \in Path /\ p # <<>> /\ Head(p) = i /\ Tail(p) = q
    BY <2>1, PathStep
  <2> HIDE DEF p
  <2>3. Rewrite(t, p, x) = WalkNode(g, t, p, x)
    BY <1>1, <2>2
  <2>4. Rewrite(t, p, x) = Node(t.id, t.val, [t.kids EXCEPT ![i] = g[t.kids[i]][q]])
    BY <2>2, <2>3 DEF WalkNode
  <2>5. Rewrite(t.kids[i], q, x) = g[t.kids[i]][q]
    BY <1>1, <2>1
  <2>6. QED  BY <2>4, <2>5 DEF WithKid, p
<1>5. QED  BY <1>3, <1>4

(* The paths of a tree are those of its nodes, put after the path of the node. *)
LEMMA PathsBelow ==
    ASSUME NEW t \in Tree, NEW p \in Paths(t)
    PROVE  /\ p \in Path
           /\ \A q \in Path : At[t][p \o q] = At[At[t][p]][q]
           /\ \A q \in Paths(At[t][p]) : p \o q \in Paths(t)
           /\ Rewrite(t, p, At[t][p]) = t
           /\ \A q \in Path : \A x : Rewrite(t, p \o q, x) = Rewrite(t, p, Rewrite(At[t][p], q, x))
<1> DEFINE Good(u, r) ==
              /\ r \in Path
              /\ \A q \in Path : At[u][r \o q] = At[At[u][r]][q]
              /\ \A q \in Paths(At[u][r]) : r \o q \in Paths(u)
              /\ Rewrite(u, r, At[u][r]) = u
              /\ \A q \in Path : \A x :
                    Rewrite(u, r \o q, x) = Rewrite(u, r, Rewrite(At[u][r], q, x))
           S == {u \in Tree : \A r \in Paths(u) : Good(u, r)}
<1>1. ASSUME NEW u \in Tree, \A i \in DOMAIN u.kids : u.kids[i] \in S PROVE u \in S
  <2> SUFFICES ASSUME NEW r \in Paths(u) PROVE Good(u, r)
    OBVIOUS
  <2>1. CASE r = <<>>
    <3>1. <<>> \in Path /\ At[u][<<>>] = u /\ \A q \in Path : <<>> \o q = q
      BY AtRoot, PathsJoin
    <3>2. \A x : Rewrite(u, <<>>, x) = x
      BY RewriteStep
    <3>3. \A q \in Paths(u) : q \in Path
      BY PathsDef
    <3>4. QED  BY <2>1, <3>1, <3>2, <3>3
  <2>2. CASE r # <<>>
    <3>1. PICK i \in DOMAIN u.kids : \E s \in Paths(u.kids[i]) : r = <<i>> \o s
      BY <2>2, PathCases
    <3>2. PICK s \in Paths(u.kids[i]) : r = <<i>> \o s
      BY <3>1
    <3> DEFINE k == u.kids[i]
               v == At[k][s]
    <3>3. k \in Tree /\ i \in Nat /\ <<i>> \in Path
      BY KidNumbers DEF Path
    <3>4. Good(k, s)
      BY <1>1, <3>2
    <3> HIDE DEF S, Good
    <3>5. /\ s \in Path
          /\ \A q \in Path : At[k][s \o q] = At[v][q]
          /\ \A q \in Paths(v) : s \o q \in Paths(k)
          /\ Rewrite(k, s, v) = k
          /\ \A q \in Path : \A x : Rewrite(k, s \o q, x) = Rewrite(k, s, Rewrite(v, q, x))
      BY <3>4 DEF Good
    <3>6. At[u][r] = v
      BY <3>2, <3>5, AtStep
    <3>7. \A q \in Path : r \o q = <<i>> \o (s \o q) /\ s \o q \in Path
      <4>1. SUFFICES ASSUME NEW q \in Path
                     PROVE  r \o q = <<i>> \o (s \o q) /\ s \o q \in Path
        OBVIOUS
      <4>2. s \o q \in Path
        BY <3>5, PathsJoin
      <4>3. (<<i>> \o s) \o q = <<i>> \o (s \o q)
        BY <3>3, <3>5, PathsJoinThree
      <4>4. QED  BY <3>2, <4>2, <4>3
    <3>8. \A q \in Path : At[u][r \o q] = At[v][q]
      <4>1. SUFFICES ASSUME NEW q \in Path PROVE At[u][r \o q] = At[v][q]
        OBVIOUS
      <4>2. At[u][<<i>> \o (s \o q)] = At[k][s \o q]
        BY <3>1, <3>7, AtStep
      <4>3. QED  BY <3>5, <3>7, <4>2
    <3>9. \A q \in Paths(v) : r \o q \in Paths(u)
      <4>1. v \in Tree
        BY <3>3, <3>5, AtType
      <4>2. SUFFICES ASSUME NEW q \in Paths(v) PROVE r \o q \in Paths(u)
        OBVIOUS
      <4>3. q \in Path /\ s \o q \in Paths(k)
        BY <3>5, <4>1, PathsDef
      <4>4. QED  BY <3>7, <4>3, PathCases
    <3> HIDE DEF v
    <3>10. \A q \in Path : \A x : Rewrite(u, <<i>> \o q, x) = WithKid(u, i, Rewrite(k, q, x))
      BY RewriteStep
    <3>11. Rewrite(u, r, v) = u
      <4>1. Rewrite(u, r, v) = WithKid(u, i, k)
        BY <3>2, <3>5, <3>10
      <4>2. QED  BY <3>1, <4>1, WithKidSame
    <3>12. ASSUME NEW q \in Path, NEW x
           PROVE  Rewrite(u, r \o q, x) = Rewrite(u, r, Rewrite(v, q, x))
      <4>1. Rewrite(u, r \o q, x) = WithKid(u, i, Rewrite(k, s \o q, x))
        BY <3>7, <3>10
      <4>2. Rewrite(u, r, Rewrite(v, q, x)) = WithKid(u, i, Rewrite(k, s, Rewrite(v, q, x)))
        BY <3>2, <3>5, <3>10
      <4>3. QED  BY <3>5, <4>1, <4>2
    <3>13. r \in Path
      BY <3>2, <3>3, <3>5, PathStep
    <3>14. QED  BY <3>6, <3>8, <3>9, <3>11, <3>12, <3>13 DEF Good
  <2>3. QED  BY <2>1, <2>2
<1> HIDE DEF S
<1>2. Tree \subseteq S
  BY <1>1, TreeInduction
<1>3. Good(t, p)
  BY <1>2 DEF S
<1>4. QED  BY <1>3

(* What was written is there, and may be written over. *)
LEMMA RewriteParts ==
    ASSUME NEW t \in Tree, NEW p \in Paths(t), NEW x, Rewrite(t, p, x) \in Tree
    PROVE  /\ p \in Paths(Rewrite(t, p, x))
           /\ At[Rewrite(t, p, x)][p] = x
           /\ \A y : Rewrite(Rewrite(t, p, x), p, y) = Rewrite(t, p, y)
<1> DEFINE Good(u, r) ==
              LET w == Rewrite(u, r, x)
              IN  w \in Tree => /\ r \in Paths(w) /\ At[w][r] = x
                                /\ \A y : Rewrite(w, r, y) = Rewrite(u, r, y)
           S == {u \in Tree : \A r \in Paths(u) : Good(u, r)}
<1>1. ASSUME NEW u \in Tree, \A i \in DOMAIN u.kids : u.kids[i] \in S PROVE u \in S
  <2> SUFFICES ASSUME NEW r \in Paths(u) PROVE Good(u, r)
    OBVIOUS
  <2>1. CASE r = <<>>
    <3>1. Rewrite(u, <<>>, x) = x
      BY RewriteStep
    <3>2. ASSUME x \in Tree
          PROVE  <<>> \in Paths(x) /\ At[x][<<>>] = x
                 /\ \A y : Rewrite(x, <<>>, y) = Rewrite(u, <<>>, y)
      BY <3>2, PathCases, AtRoot, RewriteStep
    <3>3. QED  BY <2>1, <3>1, <3>2
  <2>2. CASE r # <<>>
    <3>1. PICK i \in DOMAIN u.kids : \E s \in Paths(u.kids[i]) : r = <<i>> \o s
      BY <2>2, PathCases
    <3>2. PICK s \in Paths(u.kids[i]) : r = <<i>> \o s
      BY <3>1
    <3> DEFINE k == u.kids[i]
               kk == Rewrite(k, s, x)
               w == Rewrite(u, r, x)
    <3>3. k \in Tree /\ s \in Path
      BY <3>2, KidNumbers, PathsDef
    <3>4. Good(k, s)
      BY <1>1, <3>2
    <3>5. w = WithKid(u, i, kk)
      BY <3>2, <3>3, RewriteStep
    <3> SUFFICES ASSUME w \in Tree
                 PROVE  /\ r \in Paths(w) /\ At[w][r] = x
                        /\ \A y : Rewrite(w, r, y) = Rewrite(u, r, y)
      OBVIOUS
    <3>6. i \in DOMAIN w.kids /\ w.kids[i] = kk
      <4> HIDE DEF w, kk
      <4>1. /\ DOMAIN WithKid(u, i, kk).kids = DOMAIN u.kids
            /\ WithKid(u, i, kk).kids[i] = kk
        BY <3>1, WithKidGet
      <4>2. QED  BY <3>1, <3>5, <4>1
    <3>7. kk \in Tree
      <4> HIDE DEF w, kk
      <4>1. QED  BY <3>6, KidNumbers
    <3>8. s \in Paths(kk) /\ At[kk][s] = x /\ \A y : Rewrite(kk, s, y) = Rewrite(k, s, y)
      BY <3>4, <3>7
    <3> HIDE DEF w, kk, S, Good
    <3>9. r \in Paths(w)
      BY <3>2, <3>6, <3>8, PathCases
    <3>10. At[w][r] = x
      BY <3>2, <3>3, <3>6, <3>8, AtStep
    <3>11. ASSUME NEW y PROVE Rewrite(w, r, y) = Rewrite(u, r, y)
      <4>1. Rewrite(w, r, y) = WithKid(w, i, Rewrite(kk, s, y))
        BY <3>2, <3>3, <3>6, RewriteStep
      <4>2. Rewrite(u, r, y) = WithKid(u, i, Rewrite(k, s, y))
        BY <3>2, <3>3, RewriteStep
      <4>3. WithKid(WithKid(u, i, kk), i, Rewrite(k, s, y)) = WithKid(u, i, Rewrite(k, s, y))
        BY <3>1, WithKidTwice
      <4>4. QED  BY <3>5, <3>8, <4>1, <4>2, <4>3
    <3>12. QED  BY <3>9, <3>10, <3>11
  <2>3. QED  BY <2>1, <2>2
<1> HIDE DEF S
<1>2. Tree \subseteq S
  BY <1>1, TreeInduction
<1>3. Good(t, p)
  BY <1>2 DEF S
<1>4. QED  BY <1>3

(* What there is room for at a path. *)
Room(p) == TreesUpTo[Height - Len(p)]

LEMMA RewriteRank ==
    ASSUME NEW d \in 0 .. Height, NEW t \in TreesUpTo[d], NEW p \in Paths(t)
    PROVE  /\ Len(p) \in 0 .. d
           /\ At[t][p] \in TreesUpTo[d - Len(p)]
           /\ \A x \in TreesUpTo[d - Len(p)] : Rewrite(t, p, x) \in TreesUpTo[d]
<1> DEFINE Good(e, u, r) ==
              /\ Len(r) \in 0 .. e
              /\ At[u][r] \in TreesUpTo[e - Len(r)]
              /\ \A x \in TreesUpTo[e - Len(r)] : Rewrite(u, r, x) \in TreesUpTo[e]
           S == {u \in Tree : \A e \in 0 .. Height : u \in TreesUpTo[e] =>
                                 \A r \in Paths(u) : Good(e, u, r)}
<1>0. Height \in Nat
  BY TreeAssumption
<1>1. ASSUME NEW u \in Tree, \A i \in DOMAIN u.kids : u.kids[i] \in S PROVE u \in S
  <2> SUFFICES ASSUME NEW e \in 0 .. Height, u \in TreesUpTo[e], NEW r \in Paths(u)
               PROVE  Good(e, u, r)
    OBVIOUS
  <2>1. CASE r = <<>>
    <3>1. Len(<<>>) = 0 /\ e - 0 = e /\ 0 \in 0 .. e
      BY <1>0
    <3>2. At[u][<<>>] = u /\ \A x : Rewrite(u, <<>>, x) = x
      BY AtRoot, RewriteStep
    <3>3. QED  BY <2>1, <3>1, <3>2
  <2>2. CASE r # <<>>
    <3>1. PICK i \in DOMAIN u.kids : \E s \in Paths(u.kids[i]) : r = <<i>> \o s
      BY <2>2, PathCases
    <3>2. PICK s \in Paths(u.kids[i]) : r = <<i>> \o s
      BY <3>1
    <3> DEFINE k == u.kids[i]
    <3>3. k \in Tree /\ s \in Path /\ i \in Nat
      BY <3>2, KidNumbers, PathsDef
    <3>4. e # 0 /\ e - 1 \in 0 .. Height /\ k \in TreesUpTo[e - 1]
      <4>1. (e = 0 => u.kids = <<>>) /\ (e # 0 => /\ e - 1 \in 0 .. Height
                                                 /\ \A j \in DOMAIN u.kids : u.kids[j] \in TreesUpTo[e - 1])
        BY RankParts
      <4>2. QED  BY <3>1, <4>1
    <3>5. Good(e - 1, k, s)
      BY <1>1, <3>2, <3>4
    <3> HIDE DEF S, k
    <3>6. Len(r) = Len(s) + 1 /\ Len(s) \in 0 .. e - 1
      BY <3>2, <3>3, <3>5, PathStep
    <3>7. e - Len(r) = (e - 1) - Len(s) /\ Len(r) \in 0 .. e
      BY <1>0, <3>6
    <3>8. At[u][r] = At[k][s]
      BY <3>2, <3>3, AtStep DEF k
    <3>9. ASSUME NEW x \in TreesUpTo[e - Len(r)] PROVE Rewrite(u, r, x) \in TreesUpTo[e]
      <4>1. Rewrite(k, s, x) \in TreesUpTo[e - 1]
        BY <3>5, <3>7
      <4>2. Rewrite(u, r, x) = WithKid(u, i, Rewrite(k, s, x))
        BY <3>2, <3>3, RewriteStep DEF k
      <4>3. QED  BY <4>1, <4>2, WithKidType
    <3>10. QED  BY <3>5, <3>7, <3>8, <3>9
  <2>3. QED  BY <2>1, <2>2
<1> HIDE DEF S
<1>2. Tree \subseteq S
  BY <1>1, TreeInduction
<1>3. Good(d, t, p)
  <2>1. t \in Tree
    BY RankParts
  <2>2. QED  BY <1>2, <2>1 DEF S
<1>4. QED  BY <1>3

LEMMA RoomAt ==
    ASSUME NEW t \in Tree, NEW p \in Paths(t)
    PROVE  /\ p \in Path /\ Len(p) \in Nat /\ Len(p) <= Height /\ Height - Len(p) \in 0 .. Height
           /\ At[t][p] \in Room(p) /\ Room(p) \subseteq Tree
           /\ \A x \in Room(p) : Rewrite(t, p, x) \in Tree
<1>0. Height \in Nat /\ Height \in 0 .. Height /\ Tree = TreesUpTo[Height] /\ p \in Path
  BY TreeAssumption, PathsDef DEF Tree
<1>1. Len(p) \in 0 .. Height /\ At[t][p] \in Room(p) /\ \A x \in Room(p) : Rewrite(t, p, x) \in Tree
  BY <1>0, RewriteRank DEF Room
<1>2. Height - Len(p) \in 0 .. Height
  BY <1>0, <1>1
<1>3. Room(p) \subseteq Tree
  BY <1>2, TreesGrow DEF Room
<1>4. QED  BY <1>0, <1>1, <1>2, <1>3

(* Changes applied one after the other. *)
Plays(f, tree, s) == f[0] = tree /\ \A k \in 1 .. Len(s) : f[k] = Applied(f[k - 1], s[k])

LEMMA PatchedPlays ==
    ASSUME NEW tree, NEW s, Len(s) \in Nat
    PROVE  \E f : Plays(f, tree, s) /\ Patched(tree, s) = f[Len(s)]
<1> DEFINE n == Len(s)
           All(f, m) == [k \in 0 .. m |-> IF k = 0 THEN tree ELSE Applied(f[k - 1], s[k])]
           S == {m \in 0 .. n : \E f : f = All(f, m)}
<1>1. 0 \in S
  <2> DEFINE g == [k \in 0 .. 0 |-> tree]
  <2>1. g = All(g, 0)
    OBVIOUS
  <2> HIDE DEF g
  <2>2. 0 \in 0 .. n
    OBVIOUS
  <2>3. QED  BY <2>1, <2>2
<1>2. ASSUME NEW m \in 0 .. n - 1, m \in S PROVE m + 1 \in S
  <2>1. PICK f : f = All(f, m)
    BY <1>2
  <2> DEFINE g == All(f, m + 1)
  <2>2. ASSUME NEW k \in 0 .. m PROVE f[k] = g[k]
    <3>1. k \in 0 .. m + 1
      OBVIOUS
    <3>2. f[k] = IF k = 0 THEN tree ELSE Applied(f[k - 1], s[k])
      BY <2>1
    <3>3. g[k] = IF k = 0 THEN tree ELSE Applied(f[k - 1], s[k])
      BY <3>1
    <3>4. QED  BY <3>2, <3>3
  <2>3. ASSUME NEW k \in 0 .. m + 1
        PROVE  (IF k = 0 THEN tree ELSE Applied(f[k - 1], s[k]))
                 = (IF k = 0 THEN tree ELSE Applied(g[k - 1], s[k]))
    <3> HIDE DEF g
    <3>1. CASE k = 0
      BY <3>1
    <3>2. CASE k # 0
      <4>1. k - 1 \in 0 .. m
        BY <3>2
      <4>2. f[k - 1] = g[k - 1]
        BY <2>2, <4>1
      <4>3. QED  BY <4>2
    <3>3. QED  BY <3>1, <3>2
  <2>4. g = All(g, m + 1)
    BY <2>3
  <2> HIDE DEF g
  <2>5. QED  BY <2>4
<1> HIDE DEF S
<1>3. 0 .. n \subseteq S
  BY <1>1, <1>2, Induction
<1>4. \E f : f = All(f, n)
  BY <1>3 DEF S
<1> DEFINE after == CHOOSE f : f = All(f, n)
<1>5. after = All(after, n)
  BY <1>4
<1>6. Patched(tree, s) = after[n]
  BY DEF Patched
<1> HIDE DEF after
<1>7. after[0] = tree
  <2>1. All(after, n)[0] = tree
    OBVIOUS
  <2> HIDE DEF All
  <2>2. QED  BY <1>5, <2>1
<1>8. ASSUME NEW k \in 1 .. n PROVE after[k] = Applied(after[k - 1], s[k])
  <2>1. All(after, n)[k] = Applied(after[k - 1], s[k])
    OBVIOUS
  <2> HIDE DEF All
  <2>2. QED  BY <1>5, <2>1
<1>9. QED  BY <1>6, <1>7, <1>8 DEF Plays

LEMMA PatchedIs ==
    ASSUME NEW tree, NEW s, Len(s) \in Nat, NEW g, Plays(g, tree, s)
    PROVE  Patched(tree, s) = g[Len(s)]
<1>1. PICK f : Plays(f, tree, s) /\ Patched(tree, s) = f[Len(s)]
  BY PatchedPlays
<1> DEFINE S == {k \in 0 .. Len(s) : f[k] = g[k]}
<1>2. 0 \in S
  BY <1>1 DEF Plays
<1>3. ASSUME NEW k \in 0 .. Len(s) - 1, k \in S PROVE k + 1 \in S
  <2>1. k + 1 \in 1 .. Len(s) /\ (k + 1) - 1 = k /\ f[k] = g[k] /\ k + 1 \in 0 .. Len(s)
    BY <1>3
  <2>2. f[k + 1] = Applied(f[k], s[k + 1]) /\ g[k + 1] = Applied(g[k], s[k + 1])
    BY <1>1, <2>1 DEF Plays
  <2>3. QED  BY <2>1, <2>2
<1> HIDE DEF S
<1>4. 0 .. Len(s) \subseteq S
  BY <1>2, <1>3, Induction
<1>5. QED  BY <1>1, <1>4 DEF S

LEMMA PatchedNone ==
    ASSUME NEW tree
    PROVE  Patched(tree, <<>>) = tree
<1>1. Len(<<>>) = 0
  OBVIOUS
<1>2. PICK f : Plays(f, tree, <<>>) /\ Patched(tree, <<>>) = f[Len(<<>>)]
  BY <1>1, PatchedPlays
<1>3. QED  BY <1>1, <1>2 DEF Plays

LEMMA PatchedOne ==
    ASSUME NEW tree, NEW c
    PROVE  Patched(tree, <<c>>) = Applied(tree, c)
<1>1. Len(<<c>>) = 1 /\ <<c>>[1] = c /\ 1 \in 1 .. 1 /\ 1 - 1 = 0
  OBVIOUS
<1>2. PICK f : Plays(f, tree, <<c>>) /\ Patched(tree, <<c>>) = f[Len(<<c>>)]
  BY <1>1, PatchedPlays
<1>3. f[0] = tree /\ f[1] = Applied(f[0], c)
  BY <1>1, <1>2 DEF Plays
<1>4. QED  BY <1>1, <1>2, <1>3

LEMMA PatchedConcat ==
    ASSUME NEW X, NEW s, NEW t, s \in Seq(X), t \in Seq(X), NEW tree
    PROVE  Patched(tree, s \o t) = Patched(Patched(tree, s), t)
<1>1. Len(s) \in Nat /\ Len(t) \in Nat
  OBVIOUS
<1>2. /\ Len(s \o t) = Len(s) + Len(t)
      /\ \A k \in 1 .. Len(s) + Len(t) :
            (s \o t)[k] = IF k <= Len(s) THEN s[k] ELSE t[k - Len(s)]
  BY ConcatProperties
<1>3. PICK f : Plays(f, tree, s) /\ Patched(tree, s) = f[Len(s)]
  BY <1>1, PatchedPlays
<1>4. PICK g : Plays(g, f[Len(s)], t) /\ Patched(f[Len(s)], t) = g[Len(t)]
  BY <1>1, PatchedPlays
<1> DEFINE st == s \o t
           h == [k \in 0 .. Len(s) + Len(t) |-> IF k <= Len(s) THEN f[k] ELSE g[k - Len(s)]]
<1>5. /\ h[0] = f[0] /\ \A k \in 0 .. Len(s) : h[k] = f[k]
      /\ \A k \in Len(s) + 1 .. Len(s) + Len(t) : h[k] = g[k - Len(s)]
  BY <1>1
<1> HIDE DEF h, st
<1>6. ASSUME NEW k \in 1 .. Len(st) PROVE h[k] = Applied(h[k - 1], st[k])
  <2>0. k \in 1 .. Len(s) + Len(t)
    BY <1>2 DEF st
  <2>1. CASE k <= Len(s)
    <3>1. k \in 1 .. Len(s) /\ k - 1 \in 0 .. Len(s) /\ k \in 0 .. Len(s)
      BY <1>1, <2>0, <2>1
    <3>2. st[k] = s[k]
      BY <1>2, <2>0, <2>1 DEF st
    <3>3. f[k] = Applied(f[k - 1], s[k])
      BY <1>3, <3>1 DEF Plays
    <3>4. h[k] = f[k] /\ h[k - 1] = f[k - 1]
      BY <1>5, <3>1
    <3>5. QED  BY <3>2, <3>3, <3>4
  <2>2. CASE ~ (k <= Len(s))
    <3> DEFINE m == k - Len(s)
    <3>1. m \in 1 .. Len(t) /\ k \in Len(s) + 1 .. Len(s) + Len(t)
      BY <1>1, <2>0, <2>2
    <3>2. st[k] = t[m]
      BY <1>2, <2>0, <2>2 DEF st
    <3>3. g[m] = Applied(g[m - 1], t[m])
      BY <1>4, <3>1 DEF Plays
    <3>4. h[k] = g[m]
      BY <1>5, <3>1
    <3>5. h[k - 1] = g[m - 1]
      <4>1. CASE m = 1
        <5>1. k - 1 = Len(s) /\ m - 1 = 0 /\ Len(s) \in 0 .. Len(s)
          BY <1>1, <2>0, <4>1
        <5>2. h[Len(s)] = f[Len(s)]
          BY <1>5, <5>1
        <5>3. g[0] = f[Len(s)]
          BY <1>4 DEF Plays
        <5>4. QED  BY <5>1, <5>2, <5>3
      <4>2. CASE m # 1
        <5>1. k - 1 \in Len(s) + 1 .. Len(s) + Len(t) /\ (k - 1) - Len(s) = m - 1
          BY <1>1, <2>0, <3>1, <4>2
        <5>2. h[k - 1] = g[(k - 1) - Len(s)]
          BY <1>5, <5>1
        <5>3. QED  BY <5>1, <5>2
      <4>3. QED  BY <4>1, <4>2
    <3>6. QED  BY <3>2, <3>3, <3>4, <3>5
  <2>3. QED  BY <2>1, <2>2
<1>7. Plays(h, tree, st)
  BY <1>3, <1>5, <1>6 DEF Plays
<1>8. Len(st) \in Nat /\ Len(st) = Len(s) + Len(t)
  BY <1>1, <1>2 DEF st
<1>9. Patched(tree, st) = h[Len(st)]
  BY <1>7, <1>8, PatchedIs
<1>10. h[Len(st)] = g[Len(t)]
  <2>1. CASE Len(t) = 0
    <3>1. Len(st) = Len(s) /\ Len(s) \in 0 .. Len(s)
      BY <1>1, <1>8, <2>1
    <3>2. h[Len(s)] = f[Len(s)]
      BY <1>5, <3>1
    <3>3. g[0] = f[Len(s)]
      BY <1>4 DEF Plays
    <3>4. QED  BY <2>1, <3>1, <3>2, <3>3
  <2>2. CASE Len(t) # 0
    <3>1. Len(st) \in Len(s) + 1 .. Len(s) + Len(t) /\ Len(st) - Len(s) = Len(t)
      BY <1>1, <1>8, <2>2
    <3>2. h[Len(st)] = g[Len(st) - Len(s)]
      BY <1>5, <3>1
    <3>3. QED  BY <3>1, <3>2
  <2>3. QED  BY <2>1, <2>2
<1>11. QED  BY <1>3, <1>4, <1>9, <1>10 DEF st

-------------------------------------------------------------------------------
(* What changes turn a place of a tree into. *)

(* Changes that turn what is at a path into something else, whatever is around it. *)
Turns(s, p, x, y) ==
    \A u \in Tree : p \in Paths(u) /\ At[u][p] = x => Patched(u, s) = Rewrite(u, p, y)

LEMMA TurnsNone ==
    ASSUME NEW p, NEW x
    PROVE  Turns(<<>>, p, x, x)
<1>1. ASSUME NEW u \in Tree, p \in Paths(u), At[u][p] = x
      PROVE  Patched(u, <<>>) = Rewrite(u, p, x)
  BY <1>1, PatchedNone, PathsBelow
<1>2. QED  BY <1>1 DEF Turns

LEMMA TurnsBoth ==
    ASSUME NEW X, NEW s, NEW t, s \in Seq(X), t \in Seq(X), NEW p, NEW x, NEW y, NEW z,
           y \in Room(p), Turns(s, p, x, y), Turns(t, p, y, z)
    PROVE  Turns(s \o t, p, x, z)
<1>1. ASSUME NEW u \in Tree, p \in Paths(u), At[u][p] = x
      PROVE  Patched(u, s \o t) = Rewrite(u, p, z)
  <2> DEFINE w == Rewrite(u, p, y)
  <2>1. Patched(u, s) = w
    BY <1>1 DEF Turns
  <2>2. w \in Tree
    BY <1>1, RoomAt
  <2>3. p \in Paths(w) /\ At[w][p] = y
    BY <1>1, <2>2, RewriteParts
  <2>4. Rewrite(w, p, z) = Rewrite(u, p, z)
    BY <1>1, <2>2, RewriteParts
  <2> HIDE DEF w
  <2>5. Patched(w, t) = Rewrite(w, p, z)
    BY <2>2, <2>3 DEF Turns
  <2>6. Patched(u, s \o t) = Patched(Patched(u, s), t)
    BY PatchedConcat
  <2>7. QED  BY <2>1, <2>4, <2>5, <2>6
<1>2. QED  BY <1>1 DEF Turns

(* One list of changes after the other. *)
LEMMA TurnsFlatten ==
    ASSUME NEW X, NEW n \in Nat, NEW ss, ss \in [1 .. n -> Seq(X)], NEW p, NEW f,
           \A k \in 0 .. n : f[k] \in Room(p),
           \A k \in 1 .. n : Turns(ss[k], p, f[k - 1], f[k])
    PROVE  Turns(FlattenSeq(ss), p, f[0], f[n])
<1>1. PICK g \in [0 .. n -> Seq(X)] : Joins(g, ss, n) /\ FlattenSeq(ss) = g[n]
  BY FlattenRuns
<1> DEFINE S == {k \in 0 .. n : Turns(g[k], p, f[0], f[k])}
<1>2. 0 \in S
  <2>1. g[0] = <<>>
    BY <1>1 DEF Joins
  <2>2. QED  BY <2>1, TurnsNone
<1>3. ASSUME NEW k \in 0 .. n - 1, k \in S PROVE k + 1 \in S
  <2>1. k + 1 \in 1 .. n /\ (k + 1) - 1 = k /\ k + 1 \in 0 .. n /\ k \in 0 .. n
    OBVIOUS
  <2>2. g[k + 1] = g[k] \o ss[k + 1]
    BY <1>1, <2>1 DEF Joins
  <2>3. g[k] \in Seq(X) /\ ss[k + 1] \in Seq(X)
    BY <2>1
  <2>4. Turns(g[k], p, f[0], f[k]) /\ Turns(ss[k + 1], p, f[k], f[k + 1]) /\ f[k] \in Room(p)
    BY <1>3, <2>1
  <2>5. Turns(g[k] \o ss[k + 1], p, f[0], f[k + 1])
    BY <2>3, <2>4, TurnsBoth
  <2>6. QED  BY <2>1, <2>2, <2>5
<1> HIDE DEF S
<1>4. 0 .. n \subseteq S
  BY <1>2, <1>3, Induction
<1>5. n \in S
  BY <1>4
<1>6. QED  BY <1>1, <1>5 DEF S

(* What turns a child turns its parent. *)
LEMMA TurnsKid ==
    ASSUME NEW s, NEW p \in Path, NEW x, NEW i, NEW y, i \in DOMAIN x.kids,
           Turns(s, p \o <<i>>, x.kids[i], y)
    PROVE  Turns(s, p, x, WithKid(x, i, y))
<1>1. ASSUME NEW u \in Tree, p \in Paths(u), At[u][p] = x
      PROVE  Patched(u, s) = Rewrite(u, p, WithKid(x, i, y))
  <2>1. x \in Tree /\ i \in Nat /\ x.kids[i] \in Tree
    BY <1>1, AtType, KidNumbers
  <2>2. <<i>> \in Path /\ <<>> \in Path /\ <<i>> \o <<>> = <<i>>
    BY <2>1 DEF Path
  <2>3. <<i>> \in Paths(x)
    <3>1. <<>> \in Paths(x.kids[i])
      BY <2>1, PathCases
    <3>2. <<i>> \o <<>> \in Paths(x)
      BY <2>1, <3>1, PathCases
    <3>3. QED  BY <2>2, <3>2
  <2>4. At[x][<<i>>] = x.kids[i]
    <3>1. At[x][<<i>> \o <<>>] = At[x.kids[i]][<<>>]
      BY <2>1, <2>2, AtStep
    <3>2. QED  BY <2>1, <2>2, <3>1, AtRoot
  <2>5. Rewrite(x, <<i>>, y) = WithKid(x, i, y)
    <3>1. Rewrite(x, <<i>> \o <<>>, y) = WithKid(x, i, Rewrite(x.kids[i], <<>>, y))
      BY <2>1, <2>2, RewriteStep
    <3>2. Rewrite(x.kids[i], <<>>, y) = y
      BY <2>1, RewriteStep
    <3>3. QED  BY <2>2, <3>1, <3>2
  <2>6. p \o <<i>> \in Paths(u)
    BY <1>1, <2>3, PathsBelow
  <2>7. At[u][p \o <<i>>] = x.kids[i]
    BY <1>1, <2>2, <2>4, PathsBelow
  <2>8. Rewrite(u, p \o <<i>>, y) = Rewrite(u, p, Rewrite(x, <<i>>, y))
    BY <1>1, <2>2, PathsBelow
  <2>9. Patched(u, s) = Rewrite(u, p \o <<i>>, y)
    BY <2>6, <2>7 DEF Turns
  <2>10. QED  BY <2>5, <2>8, <2>9
<1>2. QED  BY <1>1 DEF Turns

(* Turning nothing leaves what is there. *)
LEMMA TurnsNothing ==
    ASSUME NEW w \in Tree, NEW p \in Paths(w), NEW x \in Room(p), NEW y, Turns(<<>>, p, x, y)
    PROVE  x = y
<1> DEFINE u == Rewrite(w, p, x)
<1>1. u \in Tree
  BY RoomAt
<1>2. p \in Paths(u) /\ At[u][p] = x
  BY <1>1, RewriteParts
<1> HIDE DEF u
<1>3. Patched(u, <<>>) = Rewrite(u, p, y)
  BY <1>1, <1>2 DEF Turns
<1>4. Rewrite(u, p, y) = u
  BY <1>3, PatchedNone
<1>5. At[Rewrite(u, p, y)][p] = y
  BY <1>1, <1>2, <1>4, RewriteParts
<1>6. QED  BY <1>2, <1>4, <1>5

LEMMA TurnsWhole ==
    ASSUME NEW s, NEW t \in Tree, NEW y, Turns(s, <<>>, t, y)
    PROVE  Patched(t, s) = y
<1>1. <<>> \in Paths(t) /\ At[t][<<>>] = t
  BY PathCases, AtRoot
<1>2. Patched(t, s) = Rewrite(t, <<>>, y)
  BY <1>1 DEF Turns
<1>3. QED  BY <1>2, RewriteStep

(* One change. *)
LEMMA TurnsReplace ==
    ASSUME NEW p, NEW x, NEW new
    PROVE  Turns(<<Change("replace", p, p, new)>>, p, x, Node(new.id, new.val, x.kids))
<1> DEFINE c == Change("replace", p, p, new)
<1>1. c.op = "replace" /\ c.path = p /\ c.new = new
  BY DEF Change
<1> HIDE DEF c
<1>2. ASSUME NEW u \in Tree, p \in Paths(u), At[u][p] = x
      PROVE  Patched(u, <<c>>) = Rewrite(u, p, Node(new.id, new.val, x.kids))
  BY <1>1, <1>2, PatchedOne DEF Applied
<1>3. QED  BY <1>2 DEF Turns, c

LEMMA TurnsRemove ==
    ASSUME NEW p \in Path, NEW x, NEW i \in Nat
    PROVE  Turns(<<Change("remove", p \o <<i>>, <<>>, {})>>, p, x,
                 Node(x.id, x.val, Popped(x.kids, i)))
<1> DEFINE c == Change("remove", p \o <<i>>, <<>>, {})
<1>1. c.op = "remove" /\ c.path = p \o <<i>> /\ Front(c.path) = p /\ Last(c.path) = i
  BY LastStep DEF Change
<1> HIDE DEF c
<1>2. ASSUME NEW u \in Tree, p \in Paths(u), At[u][p] = x
      PROVE  Patched(u, <<c>>) = Rewrite(u, p, Node(x.id, x.val, Popped(x.kids, i)))
  BY <1>1, <1>2, PatchedOne DEF Applied, WithKids
<1>3. QED  BY <1>2 DEF Turns, c

LEMMA TurnsAdd ==
    ASSUME NEW p \in Path, NEW x, NEW i \in Nat, NEW new
    PROVE  Turns(<<Change("add", p \o <<i>>, <<>>, new)>>, p, x,
                 Node(x.id, x.val, Inserted(x.kids, i, new)))
<1> DEFINE c == Change("add", p \o <<i>>, <<>>, new)
<1>1. c.op = "add" /\ c.path = p \o <<i>> /\ Front(c.path) = p /\ Last(c.path) = i /\ c.new = new
  BY LastStep DEF Change
<1> HIDE DEF c
<1>2. ASSUME NEW u \in Tree, p \in Paths(u), At[u][p] = x
      PROVE  Patched(u, <<c>>) = Rewrite(u, p, Node(x.id, x.val, Inserted(x.kids, i, new)))
  BY <1>1, <1>2, PatchedOne DEF Applied, WithKids
<1>3. QED  BY <1>2 DEF Turns, c

(* What there is room for below a path. *)
Inner(p) == TreesUpTo[Height - Len(p) - 1]
Fit(p) == p \in Path /\ Len(p) <= Height

LEMMA RoomParts ==
    ASSUME NEW p, Fit(p), NEW x, x \in Room(p)
    PROVE  /\ p \in Path /\ x \in Tree /\ x.id \in Labels /\ x.val \in Seq(Nat)
           /\ x = Node(x.id, x.val, x.kids)
           /\ x.kids \in Seq(Tree) /\ (x.kids # <<>> => x.kids \in Seq(Inner(p)))
           /\ (x.kids # <<>> => Len(p) + 1 <= Height)
           /\ \A i \in DOMAIN x.kids : /\ i \in Nat /\ x.kids[i] \in Tree
                                       /\ x.kids[i] \in Inner(p)
<1> DEFINE d == Height - Len(p)
<1>0. Height \in Nat /\ Len(p) \in Nat /\ p \in Path /\ d \in 0 .. Height
  BY TreeAssumption DEF Fit, Path
<1>1. x \in TreesUpTo[d]
  BY DEF Room
<1>2. Inner(p) = TreesUpTo[d - 1]
  BY DEF Inner
<1>3. /\ x \in Tree
      /\ d = 0 => x.kids = <<>>
      /\ d # 0 => x.kids \in Seq(TreesUpTo[d - 1])
      /\ d # 0 => \A i \in DOMAIN x.kids : x.kids[i] \in TreesUpTo[d - 1]
  BY <1>0, <1>1, RankParts
<1>4. d # 0 => Len(p) + 1 <= Height
  BY <1>0
<1> HIDE DEF d
<1>5. /\ x.id \in Labels /\ x.val \in Seq(Nat) /\ x = Node(x.id, x.val, x.kids)
      /\ x.kids \in Seq(Tree)
  BY <1>3, TreeParts
<1>6. x.kids # <<>> => d # 0
  BY <1>3
<1>7. ASSUME NEW i \in DOMAIN x.kids
      PROVE  i \in Nat /\ x.kids[i] \in Tree /\ x.kids[i] \in Inner(p)
  <2>1. x.kids # <<>>
    BY <1>7
  <2>2. i \in Nat /\ x.kids[i] \in Tree
    BY <1>3, KidNumbers
  <2>3. QED  BY <1>2, <1>3, <1>6, <2>1, <2>2
<1>8. QED  BY <1>0, <1>2, <1>3, <1>4, <1>5, <1>6, <1>7

LEMMA RoomNode ==
    ASSUME NEW p, Fit(p), NEW id \in Labels, NEW val \in Seq(Nat), NEW kids,
           kids = <<>> \/ (Len(p) + 1 <= Height /\ kids \in Seq(Inner(p)))
    PROVE  /\ Node(id, val, kids) \in Room(p)
           /\ Node(id, val, kids).id = id /\ Node(id, val, kids).val = val
           /\ Node(id, val, kids).kids = kids
<1> DEFINE d == Height - Len(p)
<1>0. Height \in Nat /\ Len(p) \in Nat /\ p \in Path /\ d \in 0 .. Height
      /\ (Len(p) + 1 <= Height => d # 0)
  BY TreeAssumption DEF Fit, Path
<1>1. Inner(p) = TreesUpTo[d - 1] /\ Room(p) = TreesUpTo[d]
  BY DEF Inner, Room
<1> HIDE DEF d
<1>2. kids = <<>> \/ (d # 0 /\ kids \in Seq(TreesUpTo[d - 1]))
  BY <1>0, <1>1
<1>3. QED  BY <1>0, <1>1, <1>2, RankNode

LEMMA RoomBelow ==
    ASSUME NEW p, Fit(p), Len(p) + 1 <= Height, NEW i \in Nat
    PROVE  Fit(p \o <<i>>) /\ Room(p \o <<i>>) = Inner(p)
<1>1. p \in Path /\ Height \in Nat
  BY TreeAssumption DEF Fit
<1>2. p \o <<i>> \in Path /\ Len(p \o <<i>>) = Len(p) + 1 /\ Len(p) \in Nat
  BY <1>1, LastStep
<1>3. Height - Len(p \o <<i>>) = Height - Len(p) - 1
  BY <1>1, <1>2
<1>4. QED  BY <1>2, <1>3 DEF Fit, Room, Inner

LEMMA FunctionIsSeq ==
    ASSUME NEW T, NEW m \in Nat, NEW g, g \in [1 .. m -> T]
    PROVE  g \in Seq(T) /\ Len(g) = m /\ DOMAIN g = 1 .. m
<1>1. g = [i \in 1 .. m |-> g[i]] /\ \A i \in 1 .. m : g[i] \in T
  OBVIOUS
<1>2. [i \in 1 .. m |-> g[i]] \in Seq(T) /\ Len([i \in 1 .. m |-> g[i]]) = m
  BY ONLY <1>1, m \in Nat
<1>3. QED  BY ONLY <1>1, <1>2

LEMMA NodeParts ==
    ASSUME NEW id, NEW val, NEW kids
    PROVE  /\ Node(id, val, kids).id = id /\ Node(id, val, kids).val = val
           /\ Node(id, val, kids).kids = kids
BY DEF Node

(* The children one after the other. *)
LEMMA TurnsKids ==
    ASSUME NEW X, NEW p, Fit(p), NEW x, x \in Room(p), NEW n \in Nat,
           NEW ss, ss \in [1 .. n -> Seq(X)], NEW kids, DOMAIN kids = DOMAIN x.kids,
           kids \in Seq(Inner(p)),
           \A i \in 1 .. n : i \notin DOMAIN x.kids => ss[i] = <<>>,
           \A i \in 1 .. n : i \in DOMAIN x.kids => Turns(ss[i], p \o <<i>>, x.kids[i], kids[i]),
           \A i \in DOMAIN x.kids : i > n => kids[i] = x.kids[i]
    PROVE  Turns(FlattenSeq(ss), p, x, Node(x.id, x.val, kids))
<1> DEFINE D == DOMAIN x.kids
           K(k) == [i \in D |-> IF i <= k THEN kids[i] ELSE x.kids[i]]
           f == [k \in 0 .. n |-> Node(x.id, x.val, K(k))]
<1>0. /\ p \in Path /\ x \in Tree /\ x.id \in Labels /\ x.val \in Seq(Nat)
      /\ x = Node(x.id, x.val, x.kids) /\ x.kids \in Seq(Tree)
      /\ (x.kids # <<>> => Len(p) + 1 <= Height)
  BY RoomParts
<1>1. \A i \in D : i \in Nat /\ x.kids[i] \in Inner(p)
  BY RoomParts
<1>2. D = 1 .. Len(x.kids) /\ Len(x.kids) \in Nat
  BY <1>0
<1>3. \A i \in D : kids[i] \in Inner(p)
  OBVIOUS
<1> HIDE DEF D
<1>4. ASSUME NEW k \in 0 .. n
      PROVE  f[k] \in Room(p) /\ f[k].id = x.id /\ f[k].val = x.val /\ f[k].kids = K(k)
  <2>1. f[k] = Node(x.id, x.val, K(k))
    OBVIOUS
  <2>2. K(k) = <<>> \/ (Len(p) + 1 <= Height /\ K(k) \in Seq(Inner(p)))
    <3>1. CASE x.kids = <<>>
      <4>1. D = {}
        BY <1>2, <3>1
      <4>2. K(k) = <<>>
        BY <4>1
      <4>3. QED  BY <4>2
    <3>2. CASE x.kids # <<>>
      <4>1. \A i \in D : (IF i <= k THEN kids[i] ELSE x.kids[i]) \in Inner(p)
        BY <1>1, <1>3
      <4>2. K(k) \in [1 .. Len(x.kids) -> Inner(p)]
        BY <1>2, <4>1
      <4> HIDE DEF K
      <4>3. K(k) \in Seq(Inner(p))
        BY <1>2, <4>2, FunctionIsSeq
      <4>4. QED  BY <1>0, <3>2, <4>3
    <3>3. QED  BY <3>1, <3>2
  <2> HIDE DEF f, K
  <2>3. QED  BY <1>0, <2>1, <2>2, RoomNode, NodeParts
<1>5. ASSUME NEW k \in 1 .. n PROVE Turns(ss[k], p, f[k - 1], f[k])
  <2>0. k \in 0 .. n /\ k - 1 \in 0 .. n /\ k \in Nat
    OBVIOUS
  <2>1. CASE k \notin D
    <3>1. ss[k] = <<>>
      BY <2>1 DEF D
    <3>2. \A i \in D : i <= k <=> i <= k - 1
      BY <1>1, <2>1
    <3>3. K(k) = K(k - 1)
      BY <3>2
    <3>4. f[k] = f[k - 1]
      BY <2>0, <3>3
    <3> HIDE DEF f
    <3>5. QED  BY <3>1, <3>4, TurnsNone
  <2>2. CASE k \in D
    <3> DEFINE y == f[k - 1]
    <3>1. y \in Room(p) /\ y.id = x.id /\ y.val = x.val /\ y.kids = K(k - 1)
      BY <1>4, <2>0
    <3>2. y \in Tree
      <4> HIDE DEF y
      <4>1. QED  BY <3>1, RoomParts
    <3>3. DOMAIN K(k - 1) = D /\ K(k - 1)[k] = x.kids[k]
      <4>1. ~ (k <= k - 1)
        BY <2>0
      <4>2. QED  BY <2>2, <4>1
    <3>4. k \in DOMAIN y.kids /\ y.kids[k] = x.kids[k]
      <4> HIDE DEF y, K
      <4>1. QED  BY <2>2, <3>1, <3>3
    <3>5. Turns(ss[k], p \o <<k>>, x.kids[k], kids[k])
      BY <2>2 DEF D
    <3>6. Turns(ss[k], p, y, WithKid(y, k, kids[k]))
      <4> HIDE DEF y, K
      <4>1. Turns(ss[k], p \o <<k>>, y.kids[k], kids[k])
        BY <3>4, <3>5
      <4>2. QED  BY <1>0, <3>4, <4>1, TurnsKid
    <3>7. [K(k - 1) EXCEPT ![k] = kids[k]] = K(k)
      <4>1. \A i \in D : (IF i = k THEN kids[k] ELSE IF i <= k - 1 THEN kids[i] ELSE x.kids[i])
                          = IF i <= k THEN kids[i] ELSE x.kids[i]
        <5>1. ASSUME NEW i \in D, i # k PROVE i <= k - 1 <=> i <= k
          BY <1>1, <2>0, <5>1
        <5>2. k <= k
          BY <2>0
        <5>3. QED  BY <5>1, <5>2
      <4>2. [K(k - 1) EXCEPT ![k] = kids[k]]
              = [i \in D |-> IF i = k THEN kids[k] ELSE IF i <= k - 1 THEN kids[i] ELSE x.kids[i]]
        BY <2>2
      <4>3. QED  BY <4>1, <4>2
    <3>8. WithKid(y, k, kids[k]) = Node(x.id, x.val, K(k))
      <4> HIDE DEF y, K
      <4>1. QED  BY <3>1, <3>7 DEF WithKid
    <3>9. f[k] = Node(x.id, x.val, K(k))
      BY <2>0
    <3> HIDE DEF y, K, f
    <3>10. QED  BY <3>6, <3>8, <3>9 DEF y
  <2>3. QED  BY <2>1, <2>2
<1>6. f[0] = x
  <2>1. \A i \in D : ~ (i <= 0)
    BY <1>2
  <2>2. K(0) = [i \in D |-> x.kids[i]]
    BY <2>1
  <2>3. [i \in D |-> x.kids[i]] = x.kids
    BY <1>0 DEF D
  <2>4. f[0] = Node(x.id, x.val, K(0))
    OBVIOUS
  <2> HIDE DEF f, K
  <2>5. QED  BY <1>0, <2>2, <2>3, <2>4
<1>7. f[n] = Node(x.id, x.val, kids)
  <2>1. ASSUME NEW i \in D PROVE (IF i <= n THEN kids[i] ELSE x.kids[i]) = kids[i]
    <3>1. CASE i <= n
      BY <3>1
    <3>2. CASE ~ (i <= n)
      <4>1. i > n
        BY <1>1, <3>2
      <4>2. kids[i] = x.kids[i]
        BY <4>1 DEF D
      <4>3. QED  BY <4>2
    <3>3. QED  BY <3>1, <3>2
  <2>2. K(n) = [i \in D |-> kids[i]]
    BY <2>1
  <2>3. [i \in D |-> kids[i]] = kids
    BY DEF D
  <2>4. n \in 0 .. n
    OBVIOUS
  <2>5. f[n] = Node(x.id, x.val, K(n))
    BY <2>4
  <2> HIDE DEF f, K
  <2>6. QED  BY <2>2, <2>3, <2>5
<1> HIDE DEF f
<1>8. Turns(FlattenSeq(ss), p, f[0], f[n])
  BY <1>4, <1>5, TurnsFlatten
<1>9. QED  BY <1>6, <1>7, <1>8

(* list.pop and list.insert, position by position. *)
LEMMA PoppedIs ==
    ASSUME NEW X, NEW s, s \in Seq(X), NEW i, i \in 1 .. Len(s)
    PROVE  Popped(s, i) = [j \in 1 .. Len(s) - 1 |-> IF j < i THEN s[j] ELSE s[j + 1]]
<1> DEFINE n == Len(s)
           l == SubSeq(s, 1, i - 1)
           r == SubSeq(s, i + 1, n)
           t == [j \in 1 .. n - 1 |-> IF j < i THEN s[j] ELSE s[j + 1]]
<1>0. n \in Nat /\ DOMAIN s = 1 .. n /\ i \in 1 .. n /\ i - 1 \in Int /\ i + 1 \in Int /\ 1 \in Int
      /\ n \in Int /\ \A j \in 1 .. n : s[j] \in X
  OBVIOUS
<1>1. Popped(s, i) = l \o r
  BY <1>0 DEF Popped, RemoveAt
<1>2. l \in Seq(X) /\ Len(l) = i - 1 /\ \A j \in 1 .. i - 1 : l[j] = s[j]
  <2>1. \A j \in 1 .. i - 1 : s[j] \in X
    BY <1>0
  <2>2. /\ l \in Seq(X) /\ Len(l) = IF 1 <= i - 1 THEN (i - 1) - 1 + 1 ELSE 0
        /\ \A j \in 1 .. (i - 1) - 1 + 1 : l[j] = s[1 + j - 1]
    BY <1>0, <2>1, SubSeqProperties
  <2> HIDE DEF l, n
  <2>3. (i - 1) - 1 + 1 = i - 1 /\ (1 <= i - 1 \/ (~ (1 <= i - 1) /\ i - 1 = 0))
    BY <1>0
  <2>4. Len(l) = i - 1
    BY <2>2, <2>3
  <2>5. \A j \in 1 .. i - 1 : 1 + j - 1 = j
    BY <1>0
  <2>6. \A j \in 1 .. i - 1 : l[j] = s[j]
    BY <2>2, <2>3, <2>5
  <2>7. QED  BY <2>2, <2>4, <2>6
<1>3. r \in Seq(X) /\ Len(r) = n - i /\ \A j \in 1 .. n - i : r[j] = s[i + j]
  <2>1. \A j \in i + 1 .. n : s[j] \in X
    BY <1>0
  <2>2. /\ r \in Seq(X) /\ Len(r) = IF i + 1 <= n THEN n - (i + 1) + 1 ELSE 0
        /\ \A j \in 1 .. n - (i + 1) + 1 : r[j] = s[(i + 1) + j - 1]
    BY <1>0, <2>1, SubSeqProperties
  <2> HIDE DEF r, n
  <2>3. n - (i + 1) + 1 = n - i /\ (i + 1 <= n \/ (~ (i + 1 <= n) /\ n - i = 0))
    BY <1>0
  <2>4. Len(r) = n - i
    BY <2>2, <2>3
  <2>5. \A j \in 1 .. n - i : (i + 1) + j - 1 = i + j
    BY <1>0
  <2>6. \A j \in 1 .. n - i : r[j] = s[i + j]
    BY <2>2, <2>3, <2>5
  <2>7. QED  BY <2>2, <2>4, <2>6
<1> HIDE DEF l, r
<1>4. /\ l \o r \in Seq(X) /\ Len(l \o r) = n - 1
      /\ \A j \in 1 .. n - 1 : (l \o r)[j] = IF j <= i - 1 THEN l[j] ELSE r[j - (i - 1)]
  <2>1. /\ l \o r \in Seq(X) /\ Len(l \o r) = Len(l) + Len(r)
        /\ \A j \in 1 .. Len(l) + Len(r) : (l \o r)[j] = IF j <= Len(l) THEN l[j] ELSE r[j - Len(l)]
    BY <1>2, <1>3, ConcatProperties
  <2>2. Len(l) + Len(r) = n - 1
    BY <1>0, <1>2, <1>3
  <2>3. QED  BY <1>2, <2>1, <2>2
<1>5. ASSUME NEW j \in 1 .. n - 1 PROVE (l \o r)[j] = IF j < i THEN s[j] ELSE s[j + 1]
  <2>1. CASE j < i
    <3>1. j \in 1 .. i - 1 /\ j <= i - 1
      BY <1>0, <2>1
    <3>2. QED  BY <1>2, <1>4, <2>1, <3>1
  <2>2. CASE ~ (j < i)
    <3>1. ~ (j <= i - 1) /\ j - (i - 1) \in 1 .. n - i /\ i + (j - (i - 1)) = j + 1
      BY <1>0, <2>2
    <3>2. (l \o r)[j] = r[j - (i - 1)]
      BY <1>4, <3>1
    <3>3. r[j - (i - 1)] = s[j + 1]
      BY <1>3, <3>1
    <3>4. QED  BY <2>2, <3>2, <3>3
  <2>3. QED  BY <2>1, <2>2
<1>6. DOMAIN (l \o r) = 1 .. n - 1 /\ l \o r = [j \in DOMAIN (l \o r) |-> (l \o r)[j]]
  <2> DEFINE m == l \o r
  <2>1. m \in Seq(X) /\ Len(m) = n - 1
    BY <1>4
  <2> HIDE DEF m
  <2>2. DOMAIN m = 1 .. n - 1 /\ m = [j \in DOMAIN m |-> m[j]]
    BY <2>1
  <2>3. QED  BY <2>2 DEF m
<1>7. l \o r = t
  BY <1>5, <1>6
<1>8. QED  BY <1>1, <1>7

LEMMA InsertedIs ==
    ASSUME NEW X, NEW s, s \in Seq(X), NEW i, i \in Nat, i # 0, NEW x \in X, NEW k,
           k = IF i > Len(s) THEN Len(s) + 1 ELSE i
    PROVE  Inserted(s, i, x) = [j \in 1 .. Len(s) + 1 |-> IF j < k THEN s[j]
                                                        ELSE IF j = k THEN x ELSE s[j - 1]]
<1> DEFINE n == Len(s)
           l == SubSeq(s, 1, k - 1)
           r == SubSeq(s, k, n)
           m == l \o <<x>>
           t == [j \in 1 .. n + 1 |-> IF j < k THEN s[j] ELSE IF j = k THEN x ELSE s[j - 1]]
<1>0. n \in Nat /\ DOMAIN s = 1 .. n /\ k \in 1 .. n + 1 /\ k \in Int /\ k - 1 \in Int /\ 1 \in Int
      /\ n \in Int /\ \A j \in 1 .. n : s[j] \in X
  <2>1. n \in Nat /\ DOMAIN s = 1 .. n /\ \A j \in 1 .. n : s[j] \in X
    OBVIOUS
  <2>2. k = IF i > n THEN n + 1 ELSE i
    OBVIOUS
  <2> HIDE DEF n
  <2>3. QED  BY <2>1, <2>2
<1>1. Inserted(s, i, x) = m \o r
  BY DEF Inserted, InsertAt
<1>2. l \in Seq(X) /\ Len(l) = k - 1 /\ \A j \in 1 .. k - 1 : l[j] = s[j]
  <2>1. \A j \in 1 .. k - 1 : s[j] \in X
    BY <1>0
  <2>2. /\ l \in Seq(X) /\ Len(l) = IF 1 <= k - 1 THEN (k - 1) - 1 + 1 ELSE 0
        /\ \A j \in 1 .. (k - 1) - 1 + 1 : l[j] = s[1 + j - 1]
    BY <1>0, <2>1, SubSeqProperties
  <2> HIDE DEF l
  <2>3. QED  BY <1>0, <2>2
<1>3. r \in Seq(X) /\ Len(r) = n - k + 1 /\ \A j \in 1 .. n - k + 1 : r[j] = s[k + j - 1]
  <2>1. \A j \in k .. n : s[j] \in X
    BY <1>0
  <2>2. /\ r \in Seq(X) /\ Len(r) = IF k <= n THEN n - k + 1 ELSE 0
        /\ \A j \in 1 .. n - k + 1 : r[j] = s[k + j - 1]
    BY <1>0, <2>1, SubSeqProperties
  <2> HIDE DEF r, n
  <2>3. k <= n \/ (~ (k <= n) /\ n - k + 1 = 0)
    BY <1>0
  <2>4. Len(r) = n - k + 1
    BY <2>2, <2>3
  <2>5. QED  BY <2>2, <2>4
<1> HIDE DEF l, r
<1>4. m \in Seq(X) /\ Len(m) = k /\ \A j \in 1 .. k : m[j] = IF j <= k - 1 THEN l[j] ELSE x
  <2>1. <<x>> \in Seq(X) /\ Len(<<x>>) = 1 /\ <<x>>[1] = x
    OBVIOUS
  <2>2. /\ m \in Seq(X) /\ Len(m) = Len(l) + 1
        /\ \A j \in 1 .. Len(l) + 1 : m[j] = IF j <= Len(l) THEN l[j] ELSE <<x>>[j - Len(l)]
    BY <1>2, <2>1, ConcatProperties
  <2> HIDE DEF m
  <2>3. Len(m) = k /\ m \in Seq(X)
    BY <1>0, <1>2, <2>2
  <2>4. ASSUME NEW j \in 1 .. k PROVE m[j] = IF j <= k - 1 THEN l[j] ELSE x
    <3>1. j \in 1 .. Len(l) + 1
      BY <1>0, <1>2
    <3>2. m[j] = IF j <= k - 1 THEN l[j] ELSE <<x>>[j - (k - 1)]
      BY <1>2, <2>2, <3>1
    <3>3. ~ (j <= k - 1) => j - (k - 1) = 1
      BY <1>0
    <3>4. QED  BY <2>1, <3>2, <3>3
  <2>5. QED  BY <2>3, <2>4
<1> HIDE DEF m
<1>5. /\ m \o r \in Seq(X) /\ Len(m \o r) = n + 1
      /\ \A j \in 1 .. n + 1 : (m \o r)[j] = IF j <= k THEN m[j] ELSE r[j - k]
  <2>1. /\ m \o r \in Seq(X) /\ Len(m \o r) = Len(m) + Len(r)
        /\ \A j \in 1 .. Len(m) + Len(r) : (m \o r)[j] = IF j <= Len(m) THEN m[j] ELSE r[j - Len(m)]
    BY <1>3, <1>4, ConcatProperties
  <2>2. Len(m) + Len(r) = n + 1
    BY <1>0, <1>3, <1>4
  <2>3. QED  BY <1>4, <2>1, <2>2
<1>6. ASSUME NEW j \in 1 .. n + 1
      PROVE  (m \o r)[j] = IF j < k THEN s[j] ELSE IF j = k THEN x ELSE s[j - 1]
  <2>1. CASE j < k
    <3>1. j \in 1 .. k - 1 /\ j <= k - 1 /\ j <= k /\ j \in 1 .. k
      BY <1>0, <2>1
    <3>2. QED  BY <1>2, <1>4, <1>5, <2>1, <3>1
  <2>2. CASE j = k
    <3>1. ~ (j <= k - 1) /\ j <= k /\ j \in 1 .. k /\ ~ (j < k)
      BY <1>0, <2>2
    <3>2. QED  BY <1>4, <1>5, <2>2, <3>1
  <2>3. CASE j > k
    <3>1. ~ (j <= k) /\ j - k \in 1 .. n - k + 1 /\ k + (j - k) - 1 = j - 1 /\ ~ (j < k) /\ j # k
      BY <1>0, <2>3
    <3>2. (m \o r)[j] = r[j - k]
      BY <1>5, <3>1
    <3>3. r[j - k] = s[j - 1]
      BY <1>3, <3>1
    <3>4. QED  BY <3>1, <3>2, <3>3
  <2>4. j < k \/ j = k \/ j > k
    BY <1>0
  <2>5. QED  BY <2>1, <2>2, <2>3, <2>4
<1>7. DOMAIN (m \o r) = 1 .. n + 1 /\ m \o r = [j \in DOMAIN (m \o r) |-> (m \o r)[j]]
  <2> DEFINE z == m \o r
  <2>1. z \in Seq(X) /\ Len(z) = n + 1
    BY <1>5
  <2> HIDE DEF z
  <2>2. DOMAIN z = 1 .. n + 1 /\ z = [j \in DOMAIN z |-> z[j]]
    BY <2>1
  <2>3. QED  BY <2>2 DEF z
<1>8. m \o r = t
  BY <1>6, <1>7
<1>9. QED  BY <1>1, <1>8

(* What stays in place: no child moves, at most one goes. *)
Steady(a, b) ==
    /\ \A i \in DOMAIN a.kids : Pairing(a, b)[i] \in {0, i}
    /\ \A i, k \in DOMAIN a.kids : Pairing(a, b)[i] = 0 /\ Pairing(a, b)[k] = 0 => i = k

LEMMA InPlaceSteady ==
    ASSUME NEW a \in Tree, NEW b \in Tree, NEW p \in Path, InPlace(ToSet(Changes[a][b][p]))
    PROVE  Steady(a, b)
<1> DEFINE P == Pairing(a, b)
           C == ToSet(Changes[a][b][p])
<1>1. /\ \A c \in C : c.op # "move"
      /\ \A c, d \in C : c.op = "remove" /\ d.op = "remove" /\ Front(c.path) = Front(d.path) => c = d
  BY DEF InPlace
<1>2. ASSUME NEW i \in DOMAIN a.kids, P[i] # 0 PROVE P[i] = i
  <2> SUFFICES ASSUME P[i] # i PROVE FALSE
    OBVIOUS
  <2> DEFINE c == Change("move", p \o <<i>>, p \o <<P[i]>>, {})
  <2>1. IsMove(c, a, b, p)
    BY <1>2 DEF IsMove
  <2>2. c \in C
    <3> HIDE DEF c
    <3>1. QED  BY <2>1, ChangesMembers
  <2>3. c.op = "move"
    BY DEF Change
  <2>4. QED  BY <1>1, <2>2, <2>3
<1>3. ASSUME NEW i \in DOMAIN a.kids, NEW k \in DOMAIN a.kids, P[i] = 0, P[k] = 0
      PROVE  i = k
  <2> DEFINE c(j) == Change("remove", p \o <<j>>, <<>>, {})
  <2>0. i \in Nat /\ k \in Nat
    BY KidNumbers
  <2>1. IsRemoval(c(i), a, b, p) /\ IsRemoval(c(k), a, b, p)
    BY <1>3 DEF IsRemoval
  <2>2. \A j : c(j).op = "remove" /\ c(j).path = p \o <<j>>
    BY DEF Change
  <2> HIDE DEF c
  <2>3. c(i) \in C /\ c(k) \in C
    BY <2>1, ChangesMembers
  <2>4. Front(c(i).path) = p /\ Front(c(k).path) = p /\ Last(c(i).path) = i /\ Last(c(k).path) = k
    BY <2>0, <2>2, LastStep
  <2>5. c(i) = c(k)
    BY <1>1, <2>2, <2>3, <2>4
  <2>6. QED  BY <2>4, <2>5
<1>4. QED  BY <1>2, <1>3 DEF Steady

LEMMA InPlaceBelow ==
    ASSUME NEW a \in Tree, NEW b \in Tree, NEW p \in Path, InPlace(ToSet(Changes[a][b][p])),
           NEW i \in DOMAIN a.kids, Pairing(a, b)[i] # 0
    PROVE  InPlace(ToSet(Changes[a.kids[i]][b.kids[Pairing(a, b)[i]]][p \o <<Pairing(a, b)[i]>>]))
<1> DEFINE C == ToSet(Changes[a][b][p])
           D == ToSet(Changes[a.kids[i]][b.kids[Pairing(a, b)[i]]][p \o <<Pairing(a, b)[i]>>])
<1>1. D \subseteq C
  <2> SUFFICES ASSUME NEW c \in D PROVE c \in C
    OBVIOUS
  <2>1. IsWithin(c, a, b, p)
    BY DEF IsWithin
  <2>2. QED  BY <2>1, ChangesMembers
<1> HIDE DEF D, C
<1>2. InPlace(C)
  BY DEF C
<1>3. InPlace(D)
  BY <1>1, <1>2 DEF InPlace
<1>4. QED  BY <1>3 DEF D

(* A list K that lost its child at G, if it has one there, and grows into one   *)
(* of B's length: what is kept is K's, everything else B's.                   *)
Picked(K, B, G, j) == IF j \in DOMAIN K /\ j # G THEN K[j] ELSE B[j]
Bereft(K, G) ==
    IF G \in DOMAIN K THEN [j \in 1 .. Len(K) - 1 |-> IF j < G THEN K[j] ELSE K[j + 1]] ELSE K
Whole(K, B, G) == [j \in DOMAIN B |-> Picked(K, B, G, j)]
Grown(K, B, G, m) ==
    IF m < G THEN Bereft(K, G)
    ELSE [j \in 1 .. (IF m < Len(K) THEN Len(K) ELSE m) |-> Picked(K, B, G, j)]
Grows(K, B, G) ==
    G \in 1 .. Len(K) + 1 /\ \A j \in 1 .. Len(K) : j # G => j <= Len(B)

LEMMA BereftType ==
    ASSUME NEW X, NEW K, K \in Seq(X), NEW G \in Nat
    PROVE  /\ Bereft(K, G) \in Seq(X)
           /\ G \in DOMAIN K => Len(Bereft(K, G)) = Len(K) - 1
           /\ G \notin DOMAIN K => Bereft(K, G) = K
<1> DEFINE n == Len(K)
<1>1. n \in Nat /\ DOMAIN K = 1 .. n /\ \A j \in 1 .. n : K[j] \in X
  OBVIOUS
<1>2. CASE G \in DOMAIN K
  <2> DEFINE g == [j \in 1 .. n - 1 |-> IF j < G THEN K[j] ELSE K[j + 1]]
  <2>1. n - 1 \in Nat /\ G \in 1 .. n
    BY <1>1, <1>2
  <2>2. ASSUME NEW j \in 1 .. n - 1 PROVE (IF j < G THEN K[j] ELSE K[j + 1]) \in X
    <3>1. j \in 1 .. n /\ j + 1 \in 1 .. n
      BY <1>1
    <3>2. QED  BY <1>1, <3>1
  <2>3. g \in [1 .. n - 1 -> X]
    BY <2>2
  <2>4. Bereft(K, G) = g
    BY <1>2 DEF Bereft
  <2> HIDE DEF g
  <2>5. g \in Seq(X) /\ Len(g) = n - 1
    BY <2>1, <2>3, FunctionIsSeq
  <2>6. QED  BY <1>2, <2>4, <2>5
<1>3. CASE G \notin DOMAIN K
  <2>1. Bereft(K, G) = K
    BY <1>3 DEF Bereft
  <2>2. QED  BY <1>3, <2>1
<1>4. QED  BY <1>2, <1>3

LEMMA GrownParts ==
    ASSUME NEW X, NEW K, NEW B, K \in Seq(X), B \in Seq(X), NEW G, Grows(K, B, G),
           NEW m \in 0 .. Len(B), NEW n, n = IF m < Len(K) THEN Len(K) ELSE m
    PROVE  /\ Grown(K, B, G, m) \in Seq(X)
           /\ m >= G => /\ Len(Grown(K, B, G, m)) = n
                        /\ \A j \in 1 .. n : Grown(K, B, G, m)[j] = Picked(K, B, G, j)
                        /\ Grown(K, B, G, m) = [j \in 1 .. n |-> Picked(K, B, G, j)]
           /\ Grown(K, B, G, m) # <<>> => K # <<>> \/ B # <<>>
<1> DEFINE a == Len(K)
           b == Len(B)
<1>0. /\ a \in Nat /\ b \in Nat /\ DOMAIN K = 1 .. a /\ DOMAIN B = 1 .. b /\ m \in Nat /\ m <= b
      /\ \A j \in 1 .. a : K[j] \in X
      /\ \A j \in 1 .. b : B[j] \in X
      /\ G \in 1 .. a + 1 /\ \A j \in 1 .. a : j # G => j <= b
  BY DEF Grows
<1>1. n \in Nat /\ (m < a => n = a) /\ (~ (m < a) => n = m)
  BY <1>0
<1> HIDE DEF a, b
<1>2. CASE m < G
  <2>1. Grown(K, B, G, m) = Bereft(K, G)
    BY <1>2 DEF Grown
  <2>2. Grown(K, B, G, m) \in Seq(X)
    BY <1>0, <2>1, BereftType
  <2>3. K = <<>> => Bereft(K, G) = <<>>
    <3> SUFFICES ASSUME K = <<>> PROVE Bereft(K, G) = <<>>
      OBVIOUS
    <3>1. G \notin DOMAIN K
      OBVIOUS
    <3>2. QED  BY <3>1 DEF Bereft
  <2>4. ~ (m >= G)
    BY <1>0, <1>2
  <2>5. QED  BY <2>1, <2>2, <2>3, <2>4
<1>3. CASE ~ (m < G)
  <2> DEFINE g == [j \in 1 .. n |-> Picked(K, B, G, j)]
  <2>1. Grown(K, B, G, m) = g
    BY <1>0, <1>1, <1>3 DEF Grown, a
  <2>2. ASSUME NEW j \in 1 .. n PROVE Picked(K, B, G, j) \in X
    <3>1. CASE j \in 1 .. a /\ j # G
      BY <1>0, <3>1 DEF Picked
    <3>2. CASE ~ (j \in 1 .. a /\ j # G)
      <4>1. j \in 1 .. b
        BY <1>0, <1>1, <1>3, <3>2
      <4>2. Picked(K, B, G, j) = B[j]
        BY <1>0, <3>2 DEF Picked
      <4>3. QED  BY <1>0, <4>1, <4>2
    <3>3. QED  BY <3>1, <3>2
  <2>3. g \in [1 .. n -> X] /\ \A j \in 1 .. n : g[j] = Picked(K, B, G, j)
    BY <2>2
  <2>4. g = [j \in 1 .. n |-> Picked(K, B, G, j)]
    OBVIOUS
  <2> HIDE DEF g
  <2>5. g \in Seq(X) /\ Len(g) = n
    BY <1>1, <2>3, FunctionIsSeq
  <2>6. B # <<>>
    <3>1. m # 0 /\ b # 0
      BY <1>0, <1>3
    <3>2. QED  BY <3>1 DEF b
  <2>7. QED  BY <2>1, <2>3, <2>4, <2>5, <2>6
<1>4. QED  BY <1>2, <1>3

LEMMA GrownStart ==
    ASSUME NEW K, NEW B, NEW G, Grows(K, B, G)
    PROVE  Grown(K, B, G, 0) = Bereft(K, G)
<1>1. 0 < G
  BY DEF Grows
<1>2. QED  BY <1>1 DEF Grown

LEMMA GrownSame ==
    ASSUME NEW X, NEW K, NEW B, K \in Seq(X), B \in Seq(X), NEW G, Grows(K, B, G),
           NEW k \in 1 .. Len(B), k \in DOMAIN K, k # G
    PROVE  Grown(K, B, G, k) = Grown(K, B, G, k - 1)
<1>0. /\ Len(K) \in Nat /\ Len(B) \in Nat /\ DOMAIN K = 1 .. Len(K)
      /\ G \in 1 .. Len(K) + 1 /\ k \in Nat
  BY DEF Grows
<1>1. CASE k < G
  <2>1. k - 1 < G
    BY <1>0, <1>1
  <2>2. QED  BY <1>1, <2>1 DEF Grown
<1>2. CASE ~ (k < G)
  <2>1. ~ (k - 1 < G) /\ k - 1 < Len(K) /\ k <= Len(K)
    BY <1>0, <1>2
  <2>2. (IF k < Len(K) THEN Len(K) ELSE k) = Len(K) /\ (IF k - 1 < Len(K) THEN Len(K) ELSE k - 1) = Len(K)
    BY <1>0, <2>1
  <2>3. QED  BY <1>2, <2>1, <2>2 DEF Grown
<1>3. QED  BY <1>1, <1>2

LEMMA GrownMore ==
    ASSUME NEW X, NEW K, NEW B, K \in Seq(X), B \in Seq(X), NEW G, Grows(K, B, G),
           NEW k \in 1 .. Len(B), ~ (k \in DOMAIN K /\ k # G)
    PROVE  Inserted(Grown(K, B, G, k - 1), k, B[k]) = Grown(K, B, G, k)
<1> DEFINE a == Len(K)
           b == Len(B)
           x == B[k]
           s == Grown(K, B, G, k - 1)
           n == IF k < a THEN a ELSE k
           P(j) == Picked(K, B, G, j)
<1>0. /\ a \in Nat /\ b \in Nat /\ DOMAIN K = 1 .. a /\ DOMAIN B = 1 .. b /\ k \in Nat /\ k <= b
      /\ k # 0 /\ k - 1 \in 0 .. b /\ k \in 0 .. b
      /\ G \in 1 .. a + 1 /\ (\A j \in 1 .. a : j # G => j <= b) /\ x \in X
  BY DEF Grows
<1>2. k >= G => Grown(K, B, G, k) = [j \in 1 .. n |-> P(j)]
  BY <1>0, GrownParts
<1>3. s \in Seq(X)
  BY <1>0, GrownParts
<1> HIDE DEF a, b
<1>1. k >= G /\ n \in Nat /\ (k < a => n = a) /\ (~ (k < a) => n = k)
  BY <1>0
<1>4. P(k) = x
  BY DEF Picked
<1>5. /\ Len(s) = n - 1 /\ k <= n
      /\ \A j \in 1 .. n : j < k => s[j] = P(j)
      /\ \A j \in 1 .. n : j > k => s[j - 1] = P(j)
  <2>1. CASE k = G
    <3>0. k - 1 < G
      BY <1>0, <2>1
    <3>1. s = Bereft(K, G)
      BY <3>0 DEF Grown
    <3>2. CASE G \in 1 .. a
      <4> DEFINE w == [j \in 1 .. a - 1 |-> IF j < G THEN K[j] ELSE K[j + 1]]
      <4>1. s = w
        BY <1>0, <3>1, <3>2 DEF Bereft, a
      <4>2. n = a
        <5> HIDE DEF n, s
        <5>1. QED  BY <1>0, <1>1, <2>1, <3>2
      <4>3. Len(s) = a - 1
        <5> HIDE DEF n, s
        <5>1. G \in Nat /\ G \in DOMAIN K
          BY <1>0, <3>2
        <5>2. QED  BY <3>1, <5>1, BereftType DEF a
      <4>4. ASSUME NEW j \in 1 .. a, j < k PROVE s[j] = P(j)
        <5>1. j \in 1 .. a - 1 /\ j < G /\ j # G
          BY <1>0, <2>1, <3>2, <4>4
        <5>2. w[j] = K[j]
          BY <5>1
        <5>3. P(j) = K[j]
          BY <1>0, <5>1 DEF Picked
        <5> HIDE DEF s, w
        <5>4. QED  BY <4>1, <5>2, <5>3
      <4>5. ASSUME NEW j \in 1 .. a, j > k PROVE s[j - 1] = P(j)
        <5>1. j - 1 \in 1 .. a - 1 /\ ~ (j - 1 < G) /\ j # G /\ (j - 1) + 1 = j
          BY <1>0, <2>1, <3>2, <4>5
        <5>2. w[j - 1] = K[j]
          BY <5>1
        <5>3. P(j) = K[j]
          BY <1>0, <5>1 DEF Picked
        <5> HIDE DEF s, w
        <5>4. QED  BY <4>1, <5>2, <5>3
      <4> HIDE DEF s, n, P
      <4>6. k <= a
        BY <2>1, <3>2
      <4>7. QED  BY <4>2, <4>3, <4>4, <4>5, <4>6
    <3>3. CASE G \notin 1 .. a
      <4>1. G = a + 1 /\ n = a + 1
        BY <1>0, <2>1, <3>3
      <4>2. s = K
        BY <1>0, <3>1, <3>3 DEF Bereft
      <4>3. ASSUME NEW j \in 1 .. n, j < k PROVE s[j] = P(j)
        <5>1. j \in 1 .. a /\ j # G
          BY <1>0, <2>1, <4>1, <4>3
        <5>2. P(j) = K[j]
          BY <1>0, <5>1 DEF Picked
        <5> HIDE DEF s
        <5>3. QED  BY <4>2, <5>2
      <4>4. \A j \in 1 .. n : ~ (j > k)
        BY <1>0, <2>1, <4>1
      <4>5. Len(s) = n - 1 /\ k <= n
        <5> HIDE DEF s, n
        <5>1. Len(s) = a
          BY <4>2 DEF a
        <5>2. n - 1 = a /\ k <= n
          BY <1>0, <2>1, <4>1
        <5>3. QED  BY <5>1, <5>2
      <4>6. QED  BY <4>3, <4>4, <4>5
    <3>4. QED  BY <3>2, <3>3
  <2>2. CASE k # G
    <3>0. k > a
      BY <1>0, <2>2
    <3>1. k - 1 >= G /\ ~ (k - 1 < a) /\ n = k
      <4> HIDE DEF n
      <4>1. k - 1 >= G
        BY <1>0, <1>1, <2>2
      <4>2. ~ (k < a) /\ ~ (k - 1 < a)
        BY <1>0, <3>0
      <4>3. QED  BY <1>1, <4>1, <4>2
    <3>2. k - 1 = IF k - 1 < Len(K) THEN Len(K) ELSE k - 1
      BY <3>1 DEF a
    <3>3. Len(s) = k - 1 /\ \A j \in 1 .. k - 1 : s[j] = P(j)
      BY <1>0, <3>1, <3>2, GrownParts DEF b
    <3> HIDE DEF s, n, P
    <3>4. \A j \in 1 .. n : ~ (j > k) /\ (j < k => j \in 1 .. k - 1)
      BY <1>0, <3>1
    <3>5. Len(s) = n - 1 /\ k <= n
      BY <1>0, <3>1, <3>3
    <3>6. QED  BY <3>3, <3>4, <3>5
  <2>3. QED  BY <2>1, <2>2
<1> HIDE DEF s, P, x, n
<1>6. Len(s) + 1 = n /\ Len(s) \in Nat
  BY <1>1, <1>3, <1>5
<1>7. k = IF k > Len(s) THEN Len(s) + 1 ELSE k
  BY <1>0, <1>1, <1>5, <1>6
<1>8. Inserted(s, k, x) = [j \in 1 .. n |-> IF j < k THEN s[j] ELSE IF j = k THEN x ELSE s[j - 1]]
  <2>1. Inserted(s, k, x) = [j \in 1 .. Len(s) + 1 |-> IF j < k THEN s[j] ELSE IF j = k THEN x ELSE s[j - 1]]
    BY <1>0, <1>3, <1>7, InsertedIs
  <2>2. QED  BY <1>6, <2>1
<1>9. ASSUME NEW j \in 1 .. n
      PROVE  (IF j < k THEN s[j] ELSE IF j = k THEN x ELSE s[j - 1]) = P(j)
  <2>1. j < k \/ j = k \/ j > k
    BY <1>0, <1>1
  <2>2. j > k => ~ (j < k) /\ j # k
    BY <1>0, <1>1
  <2>3. QED  BY <1>4, <1>5, <2>1, <2>2
<1>10. Inserted(s, k, x) = [j \in 1 .. n |-> P(j)]
  BY <1>8, <1>9
<1>11. QED  BY <1>1, <1>2, <1>10 DEF s, x

LEMMA GrownEnd ==
    ASSUME NEW X, NEW K, NEW B, K \in Seq(X), B \in Seq(X), NEW G, Grows(K, B, G)
    PROVE  Grown(K, B, G, Len(B)) = Whole(K, B, G)
<1> DEFINE a == Len(K)
           b == Len(B)
<1>0. /\ a \in Nat /\ b \in Nat /\ DOMAIN K = 1 .. a /\ DOMAIN B = 1 .. b /\ b \in 0 .. b
      /\ G \in 1 .. a + 1 /\ \A j \in 1 .. a : j # G => j <= b
  BY DEF Grows
<1> HIDE DEF a, b
<1>1. CASE b >= G
  <2>1. b = IF b < a THEN a ELSE b
    <3>1. ~ (b < a)
      <4> SUFFICES ASSUME b < a PROVE FALSE
        OBVIOUS
      <4>1. a \in 1 .. a /\ a # G /\ ~ (a <= b)
        BY <1>0, <1>1
      <4>2. QED  BY <1>0, <4>1
    <3>2. QED  BY <3>1
  <2>2. Grown(K, B, G, b) = [j \in 1 .. b |-> Picked(K, B, G, j)]
    <3>1. b \in 0 .. Len(B) /\ b = (IF b < Len(K) THEN Len(K) ELSE b) /\ b >= G
      BY <1>0, <1>1, <2>1 DEF a, b
    <3>2. QED  BY <3>1, GrownParts
  <2>3. QED  BY <1>0, <2>2 DEF Whole, b
<1>2. CASE b < G
  <2>1. Grown(K, B, G, b) = Bereft(K, G)
    BY <1>2 DEF Grown, b
  <2>2. CASE G \in 1 .. a
    <3>1. a - 1 = b
      <4>1. b <= a - 1
        BY <1>0, <1>2, <2>2
      <4>2. b >= a - 1
        <5> SUFFICES ASSUME b < a - 1 PROVE FALSE
          BY <1>0
        <5>1. a \in 1 .. a /\ ~ (a <= b) /\ a - 1 \in 1 .. a /\ ~ (a - 1 <= b) /\ (a # G \/ a - 1 # G)
          BY <1>0
        <5>2. QED  BY <1>0, <5>1
      <4>3. QED  BY <1>0, <4>1, <4>2
    <3>2. Bereft(K, G) = [j \in 1 .. b |-> IF j < G THEN K[j] ELSE K[j + 1]]
      BY <1>0, <2>2, <3>1 DEF Bereft, a
    <3>3. ASSUME NEW j \in 1 .. b PROVE (IF j < G THEN K[j] ELSE K[j + 1]) = Picked(K, B, G, j)
      <4>1. j < G /\ j # G /\ j \in 1 .. a
        BY <1>0, <1>2, <3>1
      <4>2. QED  BY <1>0, <4>1 DEF Picked
    <3>4. QED  BY <1>0, <2>1, <3>2, <3>3 DEF Whole, b
  <2>3. CASE G \notin 1 .. a
    <3>1. a = b
      <4>1. G = a + 1 /\ b <= a
        BY <1>0, <1>2, <2>3
      <4>2. a <= b
        <5> SUFFICES ASSUME b < a PROVE FALSE
          BY <1>0
        <5>1. a \in 1 .. a /\ a # G /\ ~ (a <= b)
          BY <1>0, <4>1
        <5>2. QED  BY <1>0, <5>1
      <4>3. QED  BY <1>0, <4>1, <4>2
    <3>2. Bereft(K, G) = K
      BY <1>0, <2>3 DEF Bereft, a
    <3>3. K = [j \in 1 .. b |-> K[j]]
      BY <1>0, <3>1
    <3>4. ASSUME NEW j \in 1 .. b PROVE K[j] = Picked(K, B, G, j)
      <4>1. j # G /\ j \in DOMAIN K
        BY <1>0, <2>3, <3>1
      <4>2. QED  BY <4>1 DEF Picked
    <3>5. QED  BY <1>0, <2>1, <3>2, <3>3, <3>4 DEF Whole, b
  <2>4. QED  BY <2>2, <2>3
<1>3. b >= G \/ b < G
  BY <1>0
<1>4. QED  BY <1>1, <1>2, <1>3 DEF b

(* Where the old list loses its child, or its end. *)
Gap(a, b) ==
    IF \E i \in DOMAIN a.kids : Pairing(a, b)[i] = 0
    THEN CHOOSE i \in DOMAIN a.kids : Pairing(a, b)[i] = 0
    ELSE Len(a.kids) + 1

LEMMA GapParts ==
    ASSUME NEW a \in Tree, NEW b \in Tree, Steady(a, b)
    PROVE  /\ Gap(a, b) \in 1 .. Len(a.kids) + 1 /\ Gap(a, b) \in Nat
           /\ \A j \in DOMAIN a.kids : j # Gap(a, b) => /\ Pairing(a, b)[j] = j
                                                        /\ j \in DOMAIN b.kids
           /\ \A j \in DOMAIN a.kids : j = Gap(a, b) => Pairing(a, b)[j] = 0
           /\ \A j \in DOMAIN b.kids : j \in Range(Pairing(a, b)) <=>
                                          j \in DOMAIN a.kids /\ j # Gap(a, b)
<1> DEFINE P == Pairing(a, b)
           G == Gap(a, b)
           D == DOMAIN a.kids
<1>0. /\ D = 1 .. Len(a.kids) /\ Len(a.kids) \in Nat /\ DOMAIN b.kids = 1 .. Len(b.kids)
      /\ Len(b.kids) \in Nat
  BY KidNumbers
<1>1. /\ DOMAIN P = D
      /\ \A i \in D : P[i] = 0 \/ P[i] \in DOMAIN b.kids
  BY PairingParts
<1>2. (\A i \in D : P[i] = 0 \/ P[i] = i) /\ \A i, k \in D : P[i] = 0 /\ P[k] = 0 => i = k
  BY DEF Steady
<1>3. (G \in D /\ P[G] = 0) \/ (G = Len(a.kids) + 1 /\ \A i \in D : P[i] # 0)
  <2>1. CASE \E i \in D : P[i] = 0
    <3>1. G = CHOOSE i \in D : P[i] = 0
      BY <2>1 DEF Gap
    <3>2. QED  BY <2>1, <3>1
  <2>2. CASE ~ \E i \in D : P[i] = 0
    BY <2>2 DEF Gap
  <2>3. QED  BY <2>1, <2>2
<1> HIDE DEF P, G, D
<1>4. G \in 1 .. Len(a.kids) + 1 /\ G \in Nat
  BY <1>0, <1>3
<1>5. ASSUME NEW j \in D, j # G PROVE P[j] = j /\ j \in DOMAIN b.kids
  <2>1. P[j] # 0
    BY <1>2, <1>3, <1>5
  <2>2. QED  BY <1>1, <1>2, <2>1
<1>6. ASSUME NEW j \in D, j = G PROVE P[j] = 0
  <2>1. j # Len(a.kids) + 1
    BY <1>0
  <2>2. QED  BY <1>3, <1>6, <2>1
<1>7. ASSUME NEW j \in DOMAIN b.kids
      PROVE  j \in Range(P) <=> j \in D /\ j # G
  <2>1. j # 0
    BY <1>0
  <2>2. ASSUME NEW i \in D, P[i] = j PROVE j \in D /\ j # G
    <3>1. j = i
      BY <1>2, <2>1, <2>2
    <3>2. QED  BY <1>6, <2>1, <2>2, <3>1
  <2>3. j \in Range(P) <=> \E i \in D : P[i] = j
    BY <1>1 DEF Range
  <2>4. j \in D /\ j # G => P[j] = j
    BY <1>5
  <2>5. QED  BY <2>2, <2>3, <2>4
<1>8. QED  BY <1>4, <1>5, <1>6, <1>7 DEF P, G, D

(* The removals take the child at the gap. *)
LEMMA GoneTurns ==
    ASSUME NEW a \in Tree, NEW b \in Tree, NEW p \in Path, Steady(a, b),
           NEW X, NEW K, K \in Seq(X), Len(K) = Len(a.kids), NEW id, NEW val
    PROVE  Turns(FlattenSeq(GoneKids(a, b, p)), p, Node(id, val, K),
                 Node(id, val, Bereft(K, Gap(a, b))))
<1> DEFINE G == Gap(a, b)
           n == Len(a.kids)
           ss == GoneKids(a, b, p)
<1>0. n \in Nat /\ DOMAIN a.kids = 1 .. n /\ DOMAIN K = 1 .. n /\ G \in Nat
  BY KidNumbers, GapParts
<1>1. ss \in [1 .. n -> Seq(Chg)]
  <2>1. ss \in Seq(Seq(Chg)) /\ DOMAIN ss = DOMAIN a.kids
    BY ChangesSplit
  <2> HIDE DEF ss
  <2>2. QED  BY <1>0, <2>1
<1>2. \A i \in 1 .. n : i # G => ss[i] = <<>>
  <2> SUFFICES ASSUME NEW i \in 1 .. n, i # G PROVE ss[i] = <<>>
    OBVIOUS
  <2>1. Pairing(a, b)[i] = i /\ i # 0
    BY <1>0, GapParts
  <2>2. QED  BY <1>0, <2>1 DEF GoneKids
<1>3. CASE G \in 1 .. n
  <2>1. Pairing(a, b)[G] = 0
    BY <1>0, <1>3, GapParts
  <2>2. ss[G] = <<Change("remove", p \o <<G>>, <<>>, {})>>
    BY <1>0, <1>3, <2>1 DEF GoneKids
  <2> HIDE DEF ss, G
  <2>3. FlattenSeq(ss) = ss[G]
    <3> HIDE DEF n
    <3>1. n \in Nat /\ ss \in [1 .. n -> Seq(Chg)] /\ G \in 1 .. n
          /\ \A i \in 1 .. n : i # G => ss[i] = <<>>
      BY <1>0, <1>1, <1>2, <1>3
    <3>2. QED  BY <3>1, FlattenOne
  <2>4. Turns(<<Change("remove", p \o <<G>>, <<>>, {})>>, p, Node(id, val, K),
              Node(Node(id, val, K).id, Node(id, val, K).val, Popped(Node(id, val, K).kids, G)))
    BY <1>0, TurnsRemove
  <2>5. Popped(K, G) = Bereft(K, G)
    <3>1. Popped(K, G) = [j \in 1 .. Len(K) - 1 |-> IF j < G THEN K[j] ELSE K[j + 1]]
      BY <1>3, PoppedIs
    <3>2. G \in DOMAIN K
      BY <1>0, <1>3
    <3>3. QED  BY <3>1, <3>2 DEF Bereft
  <2>6. Node(Node(id, val, K).id, Node(id, val, K).val, Popped(Node(id, val, K).kids, G))
          = Node(id, val, Bereft(K, G))
    BY <2>5, NodeParts
  <2>7. QED  BY <2>2, <2>3, <2>4, <2>6 DEF ss, G
<1>4. CASE G \notin 1 .. n
  <2>1. \A i \in 1 .. n : ss[i] = <<>>
    BY <1>2, <1>4
  <2> HIDE DEF ss, G
  <2>2. FlattenSeq(ss) = <<>>
    BY <1>0, <1>1, <2>1, FlattenNone
  <2>3. Bereft(K, G) = K
    BY <1>0, <1>4 DEF Bereft
  <2>4. Turns(<<>>, p, Node(id, val, K), Node(id, val, K))
    BY TurnsNone
  <2>5. QED  BY <2>2, <2>3, <2>4 DEF ss, G
<1>5. QED  BY <1>3, <1>4

(* The additions make the new list of what is left. *)
LEMMA NewTurns ==
    ASSUME NEW a, NEW b, NEW p, Fit(p), a \in Room(p), b \in Room(p), Steady(a, b),
           NEW K, K \in Seq(Inner(p)), Len(K) = Len(a.kids),
           NEW id \in Labels, NEW val \in Seq(Nat)
    PROVE  Turns(FlattenSeq(NewKids(a, b, p)), p, Node(id, val, Bereft(K, Gap(a, b))),
                 Node(id, val, Whole(K, b.kids, Gap(a, b))))
<1> DEFINE G == Gap(a, b)
           B == b.kids
           n == Len(B)
           X == Inner(p)
           ss == NewKids(a, b, p)
           f == [m \in 0 .. n |-> Node(id, val, Grown(K, B, G, m))]
<1>0. a \in Tree /\ b \in Tree /\ p \in Path
  BY RoomParts
<1>1. /\ n \in Nat /\ DOMAIN B = 1 .. n /\ DOMAIN a.kids = DOMAIN K /\ DOMAIN K = 1 .. Len(K)
      /\ Len(K) \in Nat /\ \A j \in 1 .. n : j \in Nat /\ j # 0
  BY <1>0, KidNumbers
<1>2. B \in Seq(X) /\ (K # <<>> \/ B # <<>> => Len(p) + 1 <= Height)
  <2>1. B # <<>> => B \in Seq(X) /\ Len(p) + 1 <= Height
    BY RoomParts
  <2>2. a.kids # <<>> => Len(p) + 1 <= Height
    BY RoomParts
  <2>3. K # <<>> => a.kids # <<>>
    BY <1>1
  <2>4. <<>> \in Seq(X)
    OBVIOUS
  <2>5. QED  BY <2>1, <2>2, <2>3, <2>4
<1>3. Grows(K, B, G)
  <2>1. G \in 1 .. Len(K) + 1 /\ \A j \in DOMAIN K : j # G => j \in DOMAIN B
    BY <1>0, <1>1, GapParts
  <2>2. QED  BY <1>1, <2>1 DEF Grows
<1>4. \A j \in 1 .. n : j \in Range(Pairing(a, b)) <=> j \in DOMAIN K /\ j # G
  BY <1>0, <1>1, GapParts
<1>5. ss \in [1 .. n -> Seq(Chg)]
  <2>1. ss \in Seq(Seq(Chg)) /\ DOMAIN ss = DOMAIN B
    BY <1>0, ChangesSplit
  <2> HIDE DEF ss
  <2>2. QED  BY <1>1, <2>1
<1>6. \A j \in 1 .. n : ss[j] = IF j \in DOMAIN K /\ j # G THEN <<>>
                                ELSE <<Change("add", p \o <<j>>, <<>>, B[j])>>
  BY <1>1, <1>4 DEF NewKids
<1> HIDE DEF ss, G, B, n, X
<1>7. ASSUME NEW m \in 0 .. n PROVE f[m] \in Room(p)
  <2>1. Grown(K, B, G, m) \in Seq(X) /\ (Grown(K, B, G, m) # <<>> => K # <<>> \/ B # <<>>)
    <3>1. m \in 0 .. Len(B)
      BY DEF n
    <3>2. \E k : k = IF m < Len(K) THEN Len(K) ELSE m
      OBVIOUS
    <3>3. QED  BY <1>2, <1>3, <3>1, <3>2, GrownParts DEF X
  <2> DEFINE g == Grown(K, B, G, m)
  <2> HIDE DEF g
  <2>2. g = <<>> \/ (Len(p) + 1 <= Height /\ g \in Seq(Inner(p)))
    BY <1>2, <2>1 DEF g, X
  <2>3. Node(id, val, g) \in Room(p)
    BY <2>2, RoomNode
  <2>4. QED  BY <2>3 DEF g
<1>8. ASSUME NEW k \in 1 .. n PROVE Turns(ss[k], p, f[k - 1], f[k])
  <2>0. k \in 0 .. n /\ k - 1 \in 0 .. n /\ k \in 1 .. Len(B) /\ k \in Nat /\ k # 0
    BY <1>1 DEF n
  <2>1. f[k - 1] = Node(id, val, Grown(K, B, G, k - 1)) /\ f[k] = Node(id, val, Grown(K, B, G, k))
    BY <2>0
  <2> HIDE DEF f
  <2>2. CASE k \in DOMAIN K /\ k # G
    <3>1. Grown(K, B, G, k) = Grown(K, B, G, k - 1)
      BY <1>2, <1>3, <2>0, <2>2, GrownSame DEF X
    <3>2. ss[k] = <<>>
      BY <1>6, <2>2
    <3>3. f[k] = f[k - 1]
      BY <2>1, <3>1
    <3>4. QED  BY <3>2, <3>3, TurnsNone
  <2>3. CASE ~ (k \in DOMAIN K /\ k # G)
    <3>1. Inserted(Grown(K, B, G, k - 1), k, B[k]) = Grown(K, B, G, k)
      BY <1>2, <1>3, <2>0, <2>3, GrownMore DEF X
    <3>2. ss[k] = <<Change("add", p \o <<k>>, <<>>, B[k])>>
      BY <1>6, <2>3
    <3> DEFINE x == f[k - 1]
    <3>3. x.id = id /\ x.val = val /\ x.kids = Grown(K, B, G, k - 1)
      BY <2>1, NodeParts
    <3> HIDE DEF x
    <3>4. Turns(<<Change("add", p \o <<k>>, <<>>, B[k])>>, p, x,
                Node(x.id, x.val, Inserted(x.kids, k, B[k])))
      BY <1>0, <2>0, TurnsAdd
    <3>5. Node(x.id, x.val, Inserted(x.kids, k, B[k])) = f[k]
      BY <2>1, <3>1, <3>3
    <3>6. QED  BY <3>2, <3>4, <3>5 DEF x
  <2>4. QED  BY <2>2, <2>3
<1>9. f[0] = Node(id, val, Bereft(K, G)) /\ f[n] = Node(id, val, Whole(K, B, G))
  <2>1. 0 \in 0 .. n /\ n \in 0 .. n
    BY <1>1
  <2>2. f[0] = Node(id, val, Grown(K, B, G, 0)) /\ f[n] = Node(id, val, Grown(K, B, G, n))
    BY <2>1
  <2> HIDE DEF f
  <2>3. Grown(K, B, G, 0) = Bereft(K, G)
    BY <1>3, GrownStart
  <2>4. Grown(K, B, G, n) = Whole(K, B, G)
    BY <1>2, <1>3, GrownEnd DEF n, X
  <2>5. QED  BY <2>2, <2>3, <2>4
<1> HIDE DEF f
<1>10. Turns(FlattenSeq(ss), p, f[0], f[n])
  BY <1>1, <1>5, <1>7, <1>8, TurnsFlatten
<1>11. QED  BY <1>9, <1>10 DEF ss, G, B

(* The changes below a node whose children stay where they are. *)
LEMMA SteadyKept ==
    ASSUME NEW a \in Tree, NEW b \in Tree, NEW p \in Path, Steady(a, b)
    PROVE  /\ KeptKids(Changes, a, b, p) \in [1 .. Len(a.kids) -> Seq(Chg)]
           /\ \A i \in DOMAIN a.kids : i = Gap(a, b) => KeptKids(Changes, a, b, p)[i] = <<>>
           /\ \A i \in DOMAIN a.kids : i # Gap(a, b) =>
                 KeptKids(Changes, a, b, p)[i] = Changes[a.kids[i]][b.kids[i]][p \o <<i>>]
<1> DEFINE ss == KeptKids(Changes, a, b, p)
           G == Gap(a, b)
<1>1. ss \in [1 .. Len(a.kids) -> Seq(Chg)]
  <2>1. ss \in Seq(Seq(Chg)) /\ DOMAIN ss = DOMAIN a.kids
    BY ChangesSplit
  <2>2. DOMAIN a.kids = 1 .. Len(a.kids)
    BY KidNumbers
  <2> HIDE DEF ss
  <2>3. QED  BY <2>1, <2>2
<1>2. ASSUME NEW i \in DOMAIN a.kids, i = G PROVE ss[i] = <<>>
  <2>1. Pairing(a, b)[i] = 0
    BY <1>2, GapParts
  <2>2. QED  BY <2>1 DEF KeptKids
<1>3. ASSUME NEW i \in DOMAIN a.kids, i # G
      PROVE  ss[i] = Changes[a.kids[i]][b.kids[i]][p \o <<i>>]
  <2> DEFINE s == Changes[a.kids[i]][b.kids[i]][p \o <<i>>]
  <2>1. Pairing(a, b)[i] = i /\ i \in DOMAIN b.kids
    BY <1>3, GapParts
  <2>2. i # 0 /\ i \in Nat
    BY KidNumbers
  <2>3. ss[i] = <<>> \o s
    BY <2>1, <2>2 DEF KeptKids, MovedKid
  <2>4. s \in Seq(Chg)
    <3>1. p \o <<i>> \in Path
      BY <2>2, LastStep
    <3>2. QED  BY <2>1, <3>1, ChangesSplit
  <2> HIDE DEF s, ss
  <2>5. QED  BY <2>3, <2>4, ConcatEmptySeq DEF s
<1>4. QED  BY <1>1, <1>2, <1>3

(* A child that is kept is turned where it is. *)
LEMMA SteadyKid ==
    ASSUME NEW p, Fit(p), NEW a, NEW b, a \in Room(p), b \in Room(p),
           InPlace(ToSet(Changes[a][b][p])), NEW i \in DOMAIN a.kids, i # Gap(a, b)
    PROVE  /\ a.kids[i] \in Tree /\ b.kids[i] \in Tree /\ i \in DOMAIN b.kids
           /\ Fit(p \o <<i>>) /\ Room(p \o <<i>>) = Inner(p)
           /\ a.kids[i] \in Inner(p) /\ b.kids[i] \in Inner(p)
           /\ a.kids[i] \in Room(p \o <<i>>) /\ b.kids[i] \in Room(p \o <<i>>)
           /\ InPlace(ToSet(Changes[a.kids[i]][b.kids[i]][p \o <<i>>]))
<1>0. a \in Tree /\ b \in Tree /\ p \in Path
  BY RoomParts
<1>1. Steady(a, b)
  BY <1>0, InPlaceSteady
<1>2. Pairing(a, b)[i] = i /\ i \in DOMAIN b.kids
  BY <1>0, <1>1, GapParts
<1>3. i \in Nat /\ i # 0
  BY <1>0, KidNumbers
<1>4. a.kids[i] \in Tree /\ a.kids[i] \in Inner(p) /\ a.kids # <<>>
  <2>1. a.kids # <<>>
    OBVIOUS
  <2>2. QED  BY <2>1, RoomParts
<1>5. b.kids[i] \in Tree /\ b.kids[i] \in Inner(p)
  BY <1>2, RoomParts
<1>6. Len(p) + 1 <= Height
  BY <1>4, RoomParts
<1>7. Fit(p \o <<i>>) /\ Room(p \o <<i>>) = Inner(p)
  BY <1>3, <1>6, RoomBelow
<1>8. InPlace(ToSet(Changes[a.kids[i]][b.kids[Pairing(a, b)[i]]][p \o <<Pairing(a, b)[i]>>]))
  BY <1>0, <1>2, <1>3, InPlaceBelow
<1>9. QED  BY <1>2, <1>4, <1>5, <1>7, <1>8

(* The node's own fields. *)
LEMMA RewrittenTurns ==
    ASSUME NEW a \in Tree, NEW b \in Tree, NEW p
    PROVE  Turns(Rewritten(a, b, p), p, a, Node(b.id, b.val, a.kids))
<1>0. a = Node(a.id, a.val, a.kids)
  BY TreeParts
<1>1. CASE <<a.id, a.val>> = <<b.id, b.val>>
  <2>1. a.id = b.id /\ a.val = b.val
    BY <1>1
  <2>2. Node(b.id, b.val, a.kids) = a
    BY <1>0, <2>1
  <2>3. Rewritten(a, b, p) = <<>>
    BY <1>1 DEF Rewritten
  <2>4. QED  BY <2>2, <2>3, TurnsNone
<1>2. CASE <<a.id, a.val>> # <<b.id, b.val>>
  <2> DEFINE new == Node(b.id, b.val, <<>>)
  <2>1. Rewritten(a, b, p) = <<Change("replace", p, p, new)>>
    BY <1>2 DEF Rewritten
  <2>2. new.id = b.id /\ new.val = b.val
    BY NodeParts
  <2> HIDE DEF new
  <2>3. Turns(<<Change("replace", p, p, new)>>, p, a, Node(new.id, new.val, a.kids))
    BY TurnsReplace
  <2>4. QED  BY <2>1, <2>2, <2>3
<1>3. QED  BY <1>1, <1>2

(* In the order of the diff, where nothing moves and no list loses two. *)
LEMMA ChangesTurn ==
    ASSUME NEW a, NEW b, NEW p, Fit(p), a \in Room(p), b \in Room(p),
           InPlace(ToSet(Changes[a][b][p]))
    PROVE  Turns(Changes[a][b][p], p, a, b)
<1> DEFINE Good(t, u, q) ==
              Fit(q) /\ t \in Room(q) /\ u \in Room(q) /\ InPlace(ToSet(Changes[t][u][q]))
                => Turns(Changes[t][u][q], q, t, u)
           S == {t \in Tree : \A u, q : Good(t, u, q)}
<1>1. ASSUME NEW t \in Tree, \A i \in DOMAIN t.kids : t.kids[i] \in S PROVE t \in S
  <2> SUFFICES ASSUME NEW u, NEW q, Fit(q), t \in Room(q), u \in Room(q),
                      InPlace(ToSet(Changes[t][u][q]))
               PROVE  Turns(Changes[t][u][q], q, t, u)
    OBVIOUS
  <2> DEFINE G == Gap(t, u)
             D == DOMAIN t.kids
             n == Len(t.kids)
             K == [i \in D |-> IF i = G THEN t.kids[i] ELSE u.kids[i]]
             rr == Rewritten(t, u, q)
             ss == KeptKids(Changes, t, u, q)
             gg == FlattenSeq(GoneKids(t, u, q))
             nn == FlattenSeq(NewKids(t, u, q))
             x1 == Node(u.id, u.val, t.kids)
             x2 == Node(u.id, u.val, K)
             x3 == Node(u.id, u.val, Bereft(K, G))
  <2>0. /\ u \in Tree /\ q \in Path /\ u.id \in Labels /\ u.val \in Seq(Nat)
        /\ u = Node(u.id, u.val, u.kids)
        /\ (t.kids # <<>> => t.kids \in Seq(Inner(q))) /\ (t.kids # <<>> => Len(q) + 1 <= Height)
    BY RoomParts
  <2>1. Steady(t, u)
    BY <2>0, InPlaceSteady
  <2>2. D = 1 .. n /\ n \in Nat
    BY KidNumbers
  <2>3. ASSUME NEW i \in D, i # G
        PROVE  Turns(ss[i], q \o <<i>>, t.kids[i], u.kids[i]) /\ u.kids[i] \in Inner(q)
    <3>1. /\ Fit(q \o <<i>>) /\ t.kids[i] \in Room(q \o <<i>>) /\ u.kids[i] \in Room(q \o <<i>>)
          /\ InPlace(ToSet(Changes[t.kids[i]][u.kids[i]][q \o <<i>>]))
          /\ u.kids[i] \in Inner(q)
      BY <2>3, SteadyKid
    <3>2. Good(t.kids[i], u.kids[i], q \o <<i>>)
      BY <1>1
    <3>3. ss[i] = Changes[t.kids[i]][u.kids[i]][q \o <<i>>]
      BY <2>0, <2>1, <2>3, SteadyKept
    <3> HIDE DEF ss
    <3>4. QED  BY <3>1, <3>2, <3>3
  <2>4. \A i \in D : t.kids[i] \in Inner(q)
    BY RoomParts
  <2>5. ss \in [1 .. n -> Seq(Chg)] /\ \A i \in D : i = G => ss[i] = <<>>
    BY <2>0, <2>1, SteadyKept
  <2>6. rr \in Seq(Chg)
    BY <2>0, ChangesSplit
  <2>7. gg \in Seq(Chg)
    <3>1. GoneKids(t, u, q) \in Seq(Seq(Chg))
      BY <2>0, ChangesSplit
    <3>2. QED  BY <3>1, FlattenSeqType
  <2>8. nn \in Seq(Chg)
    <3>1. NewKids(t, u, q) \in Seq(Seq(Chg))
      BY <2>0, ChangesSplit
    <3>2. QED  BY <3>1, FlattenSeqType
  <2>9. Changes[t][u][q] = rr \o FlattenSeq(ss) \o gg \o nn
    BY <2>0, ChangesSplit DEF AllChanges
  <2>10. Turns(rr, q, t, x1)
    BY <2>0, RewrittenTurns
  <2>11. K \in [1 .. n -> Inner(q)] /\ \A i \in D : K[i] = IF i = G THEN t.kids[i] ELSE u.kids[i]
    BY <2>2, <2>3, <2>4
  <2> HIDE DEF S, K, ss, rr, gg, nn
  <2>12. K \in Seq(Inner(q)) /\ Len(K) = n /\ DOMAIN K = D
    BY <2>2, <2>11, FunctionIsSeq
  <2>13. (K = <<>> <=> t.kids = <<>>) /\ (K # <<>> => Len(q) + 1 <= Height)
    <3>1. n = 0 <=> K = <<>>
      BY <2>12
    <3>2. n = 0 <=> t.kids = <<>>
      <4>1. t.kids \in Seq(Tree)
        BY TreeParts
      <4>2. QED  BY <4>1
    <3>3. QED  BY <2>0, <3>1, <3>2
  <2>14. x1 \in Room(q) /\ x1.id = u.id /\ x1.val = u.val /\ x1.kids = t.kids
    BY <2>0, RoomNode
  <2>15. Turns(FlattenSeq(ss), q, x1, x2)
    <3> HIDE DEF x1
    <3>1. \A i \in 1 .. n : i \in DOMAIN x1.kids => Turns(ss[i], q \o <<i>>, x1.kids[i], K[i])
      <4> SUFFICES ASSUME NEW i \in D PROVE Turns(ss[i], q \o <<i>>, t.kids[i], K[i])
        BY <2>2, <2>14
      <4>1. CASE i = G
        BY <2>5, <2>11, <4>1, TurnsNone
      <4>2. CASE i # G
        BY <2>3, <2>11, <4>2
      <4>3. QED  BY <4>1, <4>2
    <3>2. \A i \in 1 .. n : i \notin DOMAIN x1.kids => ss[i] = <<>>
      BY <2>2, <2>14
    <3>3. \A i \in DOMAIN x1.kids : i > n => K[i] = x1.kids[i]
      BY <2>2, <2>14
    <3>4. DOMAIN K = DOMAIN x1.kids
      BY <2>12, <2>14
    <3> HIDE DEF n, x2
    <3>5. Turns(FlattenSeq(ss), q, x1, Node(x1.id, x1.val, K))
      BY <2>2, <2>5, <2>12, <2>14, <3>1, <3>2, <3>3, <3>4, TurnsKids
    <3>6. QED  BY <2>14, <3>5 DEF x2
  <2>16. x2 \in Room(q)
    BY <2>0, <2>12, <2>13, RoomNode
  <2>17. Turns(gg, q, x2, x3)
    BY <2>0, <2>1, <2>12, GoneTurns DEF gg
  <2>18. G \in Nat
    BY <2>0, <2>1, GapParts
  <2>19. x3 \in Room(q)
    <3>1. Bereft(K, G) \in Seq(Inner(q)) /\ (K = <<>> => Bereft(K, G) = <<>>)
      <4>1. Bereft(K, G) \in Seq(Inner(q))
        BY <2>12, <2>18, BereftType
      <4>2. K = <<>> => G \notin DOMAIN K
        OBVIOUS
      <4>3. QED  BY <4>1, <4>2 DEF Bereft
    <3>2. QED  BY <2>0, <2>13, <3>1, RoomNode
  <2>20. Turns(nn, q, x3, u)
    <3>1. Turns(nn, q, x3, Node(u.id, u.val, Whole(K, u.kids, G)))
      BY <2>0, <2>1, <2>12, NewTurns DEF nn
    <3>2. Whole(K, u.kids, G) = u.kids
      <4>1. \A j \in DOMAIN u.kids : Picked(K, u.kids, G, j) = u.kids[j]
        BY <2>11, <2>12 DEF Picked
      <4>2. u.kids = [j \in DOMAIN u.kids |-> u.kids[j]]
        <5>1. u.kids \in Seq(Tree)
          BY <2>0, TreeParts
        <5>2. QED  BY <5>1
      <4>3. QED  BY <4>1, <4>2 DEF Whole
    <3>3. QED  BY <2>0, <3>1, <3>2
  <2> DEFINE kk == FlattenSeq(ss)
             rk == rr \o kk
             rkg == rk \o gg
  <2>21. kk \in Seq(Chg)
    BY <2>2, <2>5, FlattenType
  <2> HIDE DEF kk, x1, x2, x3
  <2>22. rk \in Seq(Chg) /\ Turns(rk, q, t, x2)
    <3>1. rk \in Seq(Chg)
      BY <2>6, <2>21
    <3>2. Turns(rk, q, t, x2)
      BY <2>6, <2>10, <2>14, <2>15, <2>21, TurnsBoth DEF kk
    <3>3. QED  BY <3>1, <3>2
  <2> HIDE DEF rk
  <2>23. rkg \in Seq(Chg) /\ Turns(rkg, q, t, x3)
    <3>1. rkg \in Seq(Chg)
      BY <2>7, <2>22
    <3>2. Turns(rkg, q, t, x3)
      BY <2>7, <2>16, <2>17, <2>22, TurnsBoth
    <3>3. QED  BY <3>1, <3>2
  <2> HIDE DEF rkg
  <2>24. Turns(rkg \o nn, q, t, u)
    BY <2>8, <2>19, <2>20, <2>23, TurnsBoth
  <2>25. QED  BY <2>9, <2>24 DEF rkg, rk, kk
<1> HIDE DEF S
<1>2. Tree \subseteq S
  BY <1>1, TreeInduction
<1>3. a \in Tree
  BY RoomParts
<1>4. Good(a, b, p)
  BY <1>2, <1>3 DEF S
<1>5. QED  BY <1>4

LEMMA TreeRoom ==
    <<>> \in Path /\ Fit(<<>>) /\ Room(<<>>) = Tree
<1>1. <<>> \in Path /\ Len(<<>>) = 0 /\ Height \in Nat /\ Height - 0 = Height
  BY TreeAssumption DEF Path
<1>2. QED  BY <1>1 DEF Fit, Room, Tree

(* A JSON patch of a diff that stays in place gives the tree it was made from. *)
LEMMA DifferencesPatch ==
    ASSUME NEW a \in Tree, NEW b \in Tree, InPlace(ToSet(Differences(a, b)))
    PROVE  Patched(a, Differences(a, b)) = b
<1>1. Turns(Changes[a][b][<<>>], <<>>, a, b)
  BY TreeRoom, ChangesTurn DEF Differences
<1>2. QED  BY <1>1, TurnsWhole DEF Differences

-------------------------------------------------------------------------------
(* apply_custom: the same changes, stage by stage. *)

(* Keeping all of a sequence keeps it. *)
LEMMA ThoseAll ==
    ASSUME NEW X, NEW s, s \in Seq(X), NEW S, \A i \in DOMAIN s : s[i] \in S
    PROVE  Those(s, S) = s
<1> DEFINE n == Len(s)
           ss == [i \in 1 .. n |-> <<s[i]>>]
           f == [k \in 0 .. n |-> [i \in 1 .. k |-> s[i]]]
<1>0. n \in Nat /\ DOMAIN s = 1 .. n /\ s \in [1 .. n -> X]
  OBVIOUS
<1>1. Those(s, S) = FlattenSeq(ss)
  <2>1. [i \in DOMAIN s |-> IF s[i] \in S THEN <<s[i]>> ELSE <<>>] = ss
    BY <1>0
  <2>2. QED  BY <2>1 DEF Those
<1>2. ss \in [1 .. n -> Seq(X)] /\ \A i \in 1 .. n : ss[i] = <<s[i]>>
  <2>1. \A i \in 1 .. n : <<s[i]>> \in Seq(X)
    BY <1>0
  <2>2. QED  BY <2>1
<1> HIDE DEF n, ss
<1>3. \A k \in 0 .. n : f[k] = [i \in 1 .. k |-> s[i]]
  OBVIOUS
<1> HIDE DEF f
<1>4. ASSUME NEW k \in 0 .. n
      PROVE  f[k] \in Seq(X) /\ Len(f[k]) = k /\ \A i \in 1 .. k : f[k][i] = s[i]
  <2>1. k \in Nat /\ \A i \in 1 .. k : s[i] \in X
    BY <1>0
  <2>2. f[k] \in [1 .. k -> X] /\ \A i \in 1 .. k : f[k][i] = s[i]
    BY <1>3, <2>1
  <2>3. QED  BY <2>1, <2>2, FunctionIsSeq
<1>5. ASSUME NEW k \in 1 .. n PROVE f[k] = f[k - 1] \o ss[k]
  <2>0. k \in 0 .. n /\ k - 1 \in 0 .. n /\ k \in Nat /\ (k - 1) + 1 = k
    BY <1>0
  <2> DEFINE g == f[k - 1]
             h == f[k]
             x == s[k]
             m == g \o <<x>>
  <2>1. g \in Seq(X) /\ Len(g) = k - 1 /\ \A i \in 1 .. k - 1 : g[i] = s[i]
    BY <1>4, <2>0
  <2>2. h \in Seq(X) /\ Len(h) = k /\ \A i \in 1 .. k : h[i] = s[i]
    BY <1>4, <2>0
  <2>3. <<x>> \in Seq(X) /\ Len(<<x>>) = 1 /\ <<x>>[1] = x
    BY <1>0
  <2>4. ss[k] = <<x>>
    BY <1>2
  <2> HIDE DEF g, h, x
  <2>5. /\ m \in Seq(X) /\ Len(m) = Len(g) + 1
        /\ \A i \in 1 .. Len(g) + 1 : m[i] = IF i <= Len(g) THEN g[i] ELSE <<x>>[i - Len(g)]
    BY <2>1, <2>3, ConcatProperties
  <2> HIDE DEF m
  <2>6. Len(m) = k
    BY <2>0, <2>1, <2>5
  <2>7. ASSUME NEW i \in 1 .. k PROVE m[i] = h[i]
    <3>1. CASE i <= k - 1
      <4>1. i \in 1 .. k - 1 /\ i \in 1 .. Len(g) + 1
        BY <2>0, <2>1, <3>1
      <4>2. m[i] = g[i]
        BY <2>1, <2>5, <3>1, <4>1
      <4>3. QED  BY <2>1, <2>2, <4>1, <4>2
    <3>2. CASE ~ (i <= k - 1)
      <4>1. i = k /\ i - (k - 1) = 1 /\ k \in 1 .. Len(g) + 1 /\ k \in 1 .. k
        BY <2>0, <2>1, <3>2
      <4>2. m[k] = <<x>>[1]
        BY <2>1, <2>5, <3>2, <4>1
      <4>3. h[k] = x
        BY <2>2, <4>1 DEF x
      <4>4. QED  BY <2>3, <4>1, <4>2, <4>3
    <3>3. QED  BY <3>1, <3>2
  <2>8. m = h
    BY <2>2, <2>5, <2>6, <2>7, SeqEqual
  <2>9. QED  BY <2>4, <2>8 DEF g, h, m
<1>6. f[0] = <<>>
  <2>1. 0 \in 0 .. n
    BY <1>0
  <2>2. f[0] \in Seq(X) /\ Len(f[0]) = 0
    BY <1>4, <2>1
  <2>3. QED  BY <2>2
<1>7. Joins(f, ss, n)
  BY <1>5, <1>6 DEF Joins
<1>8. FlattenSeq(ss) = f[n]
  BY <1>0, <1>2, <1>7, FlattenIs
<1>9. f[n] = s
  <2>1. n \in 0 .. n
    BY <1>0
  <2>2. f[n] \in Seq(X) /\ Len(f[n]) = n /\ \A i \in 1 .. n : f[n][i] = s[i]
    BY <1>4, <2>1
  <2>3. QED  BY <2>2, SeqEqual DEF n
<1>10. QED  BY <1>1, <1>8, <1>9

Keeps(tt, ss, S) == \A i \in DOMAIN ss : tt[i] = Those(ss[i], S)

LEMMA ThoseFlatten ==
    ASSUME NEW X, NEW S, NEW n \in Nat, NEW ss, ss \in [1 .. n -> Seq(X)],
           NEW tt, tt \in [1 .. n -> Seq(X)], Keeps(tt, ss, S)
    PROVE  Those(FlattenSeq(ss), S) = FlattenSeq(tt)
<1> DEFINE h == [s \in Seq(X) |-> Those(s, S)]
<1>1. \A s \in Seq(X) : Those(s, S) \in Seq(X)
  <2>1. ASSUME NEW s, s \in Seq(X) PROVE Those(s, S) \in Seq(X)
    BY ONLY <2>1, ThoseParts
  <2>2. QED  BY <2>1
<1>2. (\A s \in Seq(X) : h[s] = Those(s, S)) /\ h \in [Seq(X) -> Seq(X)]
  BY <1>1
<1> HIDE DEF h
<1>3. h[<<>>] = <<>>
  BY <1>2, EmptySeq, ThoseEmpty
<1>4. \A s, t \in Seq(X) : h[s \o t] = h[s] \o h[t]
  <2>1. ASSUME NEW s, NEW t, s \in Seq(X), t \in Seq(X) PROVE h[s \o t] = h[s] \o h[t]
    <3>1. s \o t \in Seq(X)
      BY <2>1, ConcatProperties
    <3>2. Those(s \o t, S) = Those(s, S) \o Those(t, S)
      BY ONLY <2>1, ThoseConcat
    <3>3. QED  BY <1>2, <2>1, <3>1, <3>2
  <2>2. QED  BY <2>1
<1>5. Piecewise(h, X, X)
  BY <1>2, <1>3, <1>4 DEF Piecewise
<1>6. ss \in Seq(Seq(X)) /\ DOMAIN ss = 1 .. n
  BY FunctionIsSeq
<1>7. FlattenSeq(ss) \in Seq(X)
  BY FlattenType
<1>8. Mapped(h, ss) = tt
  <2>1. \A i \in 1 .. n : h[ss[i]] = tt[i]
    BY <1>2, <1>6 DEF Keeps
  <2>2. QED  BY <1>6, <2>1 DEF Mapped
<1>9. h[FlattenSeq(ss)] = FlattenSeq(Mapped(h, ss))
  BY ONLY <1>5, <1>6, FlattenMapped
<1>10. QED  BY <1>2, <1>7, <1>8, <1>9

LEMMA ThoseNone ==
    ASSUME NEW X, NEW s, s \in Seq(X), NEW S, \A c \in ToSet(s) : c \notin S
    PROVE  Those(s, S) = <<>>
<1>1. \A i \in DOMAIN s : s[i] \notin S
  BY DEF ToSet
<1>2. QED  BY <1>1, ThoseParts

LEMMA ThoseWhole ==
    ASSUME NEW X, NEW s, s \in Seq(X), NEW S, \A c \in ToSet(s) : c \in S
    PROVE  Those(s, S) = s
<1>1. \A i \in DOMAIN s : s[i] \in S
  BY DEF ToSet
<1>2. QED  BY <1>1, ThoseAll

(* apply_custom in stages: the replacements, then the removals from depth n up,   *)
(* then the additions from the top down to depth n.                             *)
OfStage(n, k) ==
    {c \in Chg : IF k = 1 THEN c.op = "replace"
                 ELSE IF k <= n + 1 THEN c.op = "remove" /\ Len(c.path) = n + 2 - k
                 ELSE c.op = "add" /\ Len(c.path) = k - n - 1}
RemovesAt(n, p) == n + 1 - Len(p)
AddsAt(n, p) == n + Len(p) + 2

LEMMA StageFits ==
    ASSUME NEW n \in Nat, n > Height, NEW p, Fit(p)
    PROVE  /\ p \in Path /\ Len(p) \in Nat /\ Height \in Nat
           /\ RemovesAt(n, p) \in 2 .. n + 1 /\ AddsAt(n, p) \in n + 2 .. 2 * n + 1
<1>1. p \in Path /\ Len(p) \in Nat /\ Height \in Nat /\ Len(p) <= Height
  BY TreeAssumption DEF Fit, Path
<1>2. QED  BY <1>1 DEF RemovesAt, AddsAt

(* The changes of a stage, part by part. *)
LEMMA StageParts ==
    ASSUME NEW a \in Tree, NEW b \in Tree, NEW n \in Nat, n > Height, NEW p, Fit(p),
           NEW k \in 1 .. 2 * n + 1
    PROVE  /\ Those(Rewritten(a, b, p), OfStage(n, k))
                = IF k = 1 THEN Rewritten(a, b, p) ELSE <<>>
           /\ Those(FlattenSeq(GoneKids(a, b, p)), OfStage(n, k))
                = IF k = RemovesAt(n, p) THEN FlattenSeq(GoneKids(a, b, p)) ELSE <<>>
           /\ Those(FlattenSeq(NewKids(a, b, p)), OfStage(n, k))
                = IF k = AddsAt(n, p) THEN FlattenSeq(NewKids(a, b, p)) ELSE <<>>
<1> DEFINE rr == Rewritten(a, b, p)
           gg == FlattenSeq(GoneKids(a, b, p))
           nn == FlattenSeq(NewKids(a, b, p))
           S == OfStage(n, k)
<1>0. /\ p \in Path /\ Len(p) \in Nat
      /\ RemovesAt(n, p) \in 2 .. n + 1 /\ AddsAt(n, p) \in n + 2 .. 2 * n + 1
  BY StageFits
<1>1. /\ rr \in Seq(Chg) /\ GoneKids(a, b, p) \in Seq(Seq(Chg)) /\ NewKids(a, b, p) \in Seq(Seq(Chg))
      /\ DOMAIN GoneKids(a, b, p) = DOMAIN a.kids /\ DOMAIN NewKids(a, b, p) = DOMAIN b.kids
  BY <1>0, ChangesSplit
<1>2. gg \in Seq(Chg) /\ nn \in Seq(Chg)
  <2>1. gg \in Seq(Chg)
    BY <1>1, FlattenSeqType
  <2>2. nn \in Seq(Chg)
    BY <1>1, FlattenSeqType
  <2>3. QED  BY <2>1, <2>2
<1>3. \A c \in ToSet(rr) : c \in Chg /\ c.op = "replace"
  <2> SUFFICES ASSUME NEW c \in ToSet(rr) PROVE c \in Chg /\ c.op = "replace"
    OBVIOUS
  <2>1. c \in Chg
    BY <1>1 DEF ToSet
  <2>2. c.op = "replace"
    BY DEF ToSet, Rewritten, Change
  <2>3. QED  BY <2>1, <2>2
<1>4. \A c \in ToSet(gg) : c \in Chg /\ c.op = "remove" /\ Len(c.path) = Len(p) + 1
  <2> SUFFICES ASSUME NEW c \in ToSet(gg)
               PROVE  c \in Chg /\ c.op = "remove" /\ Len(c.path) = Len(p) + 1
    OBVIOUS
  <2>1. c \in Chg
    BY <1>2 DEF ToSet
  <2>2. PICK i \in DOMAIN a.kids : c \in ToSet(GoneKids(a, b, p)[i])
    BY <1>1, FlattenHas
  <2>3. c = Change("remove", p \o <<i>>, <<>>, {})
    <3>1. GoneKids(a, b, p)[i] = <<>> \/ GoneKids(a, b, p)[i] = <<Change("remove", p \o <<i>>, <<>>, {})>>
      BY DEF GoneKids
    <3>2. QED  BY <2>2, <3>1 DEF ToSet
  <2>4. i \in Nat
    BY KidNumbers
  <2>5. c.op = "remove" /\ c.path = p \o <<i>>
    BY <2>3 DEF Change
  <2>6. QED  BY <1>0, <2>1, <2>4, <2>5, LastStep
<1>5. \A c \in ToSet(nn) : c \in Chg /\ c.op = "add" /\ Len(c.path) = Len(p) + 1
  <2> SUFFICES ASSUME NEW c \in ToSet(nn)
               PROVE  c \in Chg /\ c.op = "add" /\ Len(c.path) = Len(p) + 1
    OBVIOUS
  <2>1. c \in Chg
    BY <1>2 DEF ToSet
  <2>2. PICK i \in DOMAIN b.kids : c \in ToSet(NewKids(a, b, p)[i])
    BY <1>1, FlattenHas
  <2>3. c = Change("add", p \o <<i>>, <<>>, b.kids[i])
    <3>1. NewKids(a, b, p)[i] = <<>> \/ NewKids(a, b, p)[i] = <<Change("add", p \o <<i>>, <<>>, b.kids[i])>>
      BY DEF NewKids
    <3>2. QED  BY <2>2, <3>1 DEF ToSet
  <2>4. i \in Nat
    BY KidNumbers
  <2>5. c.op = "add" /\ c.path = p \o <<i>>
    BY <2>3 DEF Change
  <2>6. QED  BY <1>0, <2>1, <2>4, <2>5, LastStep
<1> HIDE DEF rr, gg, nn, S
<1>6. \A c \in Chg : c \in S <=> \/ k = 1 /\ c.op = "replace"
                                 \/ k # 1 /\ k <= n + 1 /\ c.op = "remove" /\ Len(c.path) = n + 2 - k
                                 \/ k # 1 /\ ~ (k <= n + 1) /\ c.op = "add" /\ Len(c.path) = k - n - 1
  BY DEF S, OfStage
<1>7. Those(rr, S) = IF k = 1 THEN rr ELSE <<>>
  <2>1. CASE k = 1
    <3>1. \A c \in ToSet(rr) : c \in S
      BY <1>3, <1>6, <2>1
    <3>2. QED  BY <1>1, <2>1, <3>1, ThoseWhole DEF rr
  <2>2. CASE k # 1
    <3>1. \A c \in ToSet(rr) : c \notin S
      BY <1>3, <1>6, <2>2
    <3>2. QED  BY <1>1, <2>2, <3>1, ThoseNone DEF rr
  <2>3. QED  BY <2>1, <2>2
<1>8. Those(gg, S) = IF k = RemovesAt(n, p) THEN gg ELSE <<>>
  <2>1. CASE k = RemovesAt(n, p)
    <3>1. k # 1 /\ k <= n + 1 /\ Len(p) + 1 = n + 2 - k
      BY <1>0, <2>1 DEF RemovesAt
    <3>2. \A c \in ToSet(gg) : c \in S
      BY <1>4, <1>6, <3>1
    <3>3. QED  BY <1>2, <2>1, <3>2, ThoseWhole
  <2>2. CASE k # RemovesAt(n, p)
    <3>1. Len(p) + 1 # n + 2 - k
      BY <1>0, <2>2 DEF RemovesAt
    <3>2. \A c \in ToSet(gg) : c \notin S
      BY <1>4, <1>6, <3>1
    <3>3. QED  BY <1>2, <2>2, <3>2, ThoseNone
  <2>3. QED  BY <2>1, <2>2
<1>9. Those(nn, S) = IF k = AddsAt(n, p) THEN nn ELSE <<>>
  <2>1. CASE k = AddsAt(n, p)
    <3>1. k # 1 /\ ~ (k <= n + 1) /\ Len(p) + 1 = k - n - 1
      BY <1>0, <2>1 DEF AddsAt
    <3>2. \A c \in ToSet(nn) : c \in S
      BY <1>5, <1>6, <3>1
    <3>3. QED  BY <1>2, <2>1, <3>2, ThoseWhole
  <2>2. CASE k # AddsAt(n, p)
    <3>1. Len(p) + 1 # k - n - 1
      BY <1>0, <2>2 DEF AddsAt
    <3>2. \A c \in ToSet(nn) : c \notin S
      BY <1>5, <1>6, <3>1
    <3>3. QED  BY <1>2, <2>2, <3>2, ThoseNone
  <2>3. QED  BY <2>1, <2>2
<1>10. QED  BY <1>7, <1>8, <1>9 DEF rr, gg, nn, S

(* The children have their own stages before the removals of their parent, and   *)
(* after its additions.                                                       *)
LEMMA KidRests ==
    ASSUME NEW a \in Tree, NEW b \in Tree, NEW n \in Nat, n > Height, NEW p, Fit(p),
           NEW i \in Nat, NEW k \in RemovesAt(n, p) .. AddsAt(n, p)
    PROVE  Those(Changes[a][b][p \o <<i>>], OfStage(n, k)) = <<>>
<1> DEFINE q == p \o <<i>>
           s == Changes[a][b][q]
           S == OfStage(n, k)
<1>0. /\ p \in Path /\ Len(p) \in Nat
      /\ RemovesAt(n, p) \in 2 .. n + 1 /\ AddsAt(n, p) \in n + 2 .. 2 * n + 1
  BY StageFits
<1>1. q \in Path /\ Len(q) = Len(p) + 1
  BY <1>0, LastStep
<1> HIDE DEF q
<1>2. s \in Seq(Chg)
  BY <1>1, ChangesSplit
<1>3. ASSUME NEW c \in ToSet(s) PROVE c \notin S
  <2>1. Owned(c, q) /\ c \in Chg
    BY <1>1, ChangesOwned
  <2>2. PICK r \in Path : c.path = q \o r /\ (r = <<>> => c.op = "replace")
    BY <2>1 DEF Owned
  <2>3. r \in Seq(Nat) /\ q \in Seq(Nat) /\ Len(r) \in Nat
    BY <1>1 DEF Path
  <2>4. Len(c.path) = Len(q) + Len(r)
    BY <2>2, <2>3, ConcatProperties
  <2> SUFFICES ASSUME c \in S PROVE FALSE
    OBVIOUS
  <2>5. \/ k = 1 /\ c.op = "replace"
        \/ k # 1 /\ k <= n + 1 /\ c.op = "remove" /\ Len(c.path) = n + 2 - k
        \/ k # 1 /\ ~ (k <= n + 1) /\ c.op = "add" /\ Len(c.path) = k - n - 1
    BY DEF OfStage
  <2>6. k # 1 /\ k >= n + 1 - Len(p) /\ k <= n + Len(p) + 2 /\ k \in Int
    BY <1>0 DEF RemovesAt, AddsAt
  <2>7. c.op # "replace" /\ Len(c.path) <= Len(p) + 1
    BY <1>0, <2>5, <2>6
  <2>8. r # <<>>
    BY <2>2, <2>7
  <2>9. Len(r) >= 1
    BY <2>3, <2>8
  <2>10. QED  BY <1>0, <1>1, <2>3, <2>4, <2>7, <2>9
<1> HIDE DEF s, S
<1>4. QED  BY <1>2, <1>3, ThoseNone DEF s, S, q

(* Two trees at a place of some tree, and changes between them that stay there. *)
Placed(a, b, p, n) ==
    /\ Fit(p) /\ (\E w \in Tree : p \in Paths(w)) /\ a \in Room(p) /\ b \in Room(p)
    /\ InPlace(ToSet(Changes[a][b][p])) /\ n \in Nat /\ n > Height

(* What is there after each stage. *)
StagedBy(f, s, n, p) ==
    /\ f \in [0 .. 2 * n + 1 -> Room(p)]
    /\ \A k \in 1 .. 2 * n + 1 : Turns(Those(s, OfStage(n, k)), p, f[k - 1], f[k])
KidStages(F, a, b, p, n) ==
    \A i \in DOMAIN a.kids : i # Gap(a, b) =>
        /\ StagedBy(F[i], Changes[a.kids[i]][b.kids[i]][p \o <<i>>], n, p \o <<i>>)
        /\ F[i][0] = a.kids[i] /\ F[i][2 * n + 1] = b.kids[i]
KidsThen(a, b, p, n, k) ==
    [i \in 1 .. Len(a.kids) |-> Those(KeptKids(Changes, a, b, p)[i], OfStage(n, k))]
ListAt(F, a, b, k) ==
    [i \in DOMAIN a.kids |-> IF i = Gap(a, b) THEN a.kids[i] ELSE F[i][k]]

LEMMA PlacedParts ==
    ASSUME NEW a, NEW b, NEW p, NEW n, Placed(a, b, p, n)
    PROVE  /\ a \in Tree /\ b \in Tree /\ p \in Path /\ Fit(p) /\ Steady(a, b)
           /\ n \in Nat /\ n > Height /\ b.id \in Labels /\ b.val \in Seq(Nat)
           /\ a \in Room(p) /\ b \in Room(p) /\ b = Node(b.id, b.val, b.kids)
           /\ Gap(a, b) \in Nat
           /\ DOMAIN a.kids = 1 .. Len(a.kids) /\ Len(a.kids) \in Nat
           /\ (a.kids # <<>> => Len(p) + 1 <= Height) /\ (b.kids # <<>> => Len(p) + 1 <= Height)
<1>1. Fit(p) /\ a \in Room(p) /\ b \in Room(p) /\ InPlace(ToSet(Changes[a][b][p])) /\ n \in Nat /\ n > Height
  BY DEF Placed
<1>2. /\ a \in Tree /\ b \in Tree /\ p \in Path /\ b.id \in Labels /\ b.val \in Seq(Nat)
      /\ b = Node(b.id, b.val, b.kids)
      /\ (a.kids # <<>> => Len(p) + 1 <= Height) /\ (b.kids # <<>> => Len(p) + 1 <= Height)
  BY <1>1, RoomParts
<1>3. Steady(a, b)
  BY <1>1, <1>2, InPlaceSteady
<1>4. Gap(a, b) \in Nat
  BY <1>2, <1>3, GapParts
<1>5. DOMAIN a.kids = 1 .. Len(a.kids) /\ Len(a.kids) \in Nat
  BY <1>2, KidNumbers
<1>6. QED  BY <1>1, <1>2, <1>3, <1>4, <1>5

LEMMA KidsThenParts ==
    ASSUME NEW a, NEW b, NEW p, NEW n, Placed(a, b, p, n), NEW k
    PROVE  /\ KidsThen(a, b, p, n, k) \in [1 .. Len(a.kids) -> Seq(Chg)]
           /\ \A i \in DOMAIN a.kids : i = Gap(a, b) => KidsThen(a, b, p, n, k)[i] = <<>>
           /\ \A i \in DOMAIN a.kids : i # Gap(a, b) =>
                 KidsThen(a, b, p, n, k)[i]
                    = Those(Changes[a.kids[i]][b.kids[i]][p \o <<i>>], OfStage(n, k))
<1> DEFINE ss == KeptKids(Changes, a, b, p)
           S == OfStage(n, k)
           tt == KidsThen(a, b, p, n, k)
<1>0. /\ a \in Tree /\ b \in Tree /\ p \in Path /\ Steady(a, b)
      /\ DOMAIN a.kids = 1 .. Len(a.kids) /\ Len(a.kids) \in Nat
  BY PlacedParts
<1>1. /\ ss \in [1 .. Len(a.kids) -> Seq(Chg)]
      /\ \A i \in DOMAIN a.kids : i = Gap(a, b) => ss[i] = <<>>
      /\ \A i \in DOMAIN a.kids : i # Gap(a, b) => ss[i] = Changes[a.kids[i]][b.kids[i]][p \o <<i>>]
  BY <1>0, SteadyKept
<1>2. tt = [i \in 1 .. Len(a.kids) |-> Those(ss[i], S)]
  BY DEF KidsThen
<1> HIDE DEF ss, S, tt
<1>3. \A i \in 1 .. Len(a.kids) : Those(ss[i], S) \in Seq(Chg)
  <2> SUFFICES ASSUME NEW i \in 1 .. Len(a.kids) PROVE Those(ss[i], S) \in Seq(Chg)
    OBVIOUS
  <2>1. ss[i] \in Seq(Chg)
    BY <1>1
  <2>2. QED  BY <2>1, ThoseParts
<1>4. tt \in [1 .. Len(a.kids) -> Seq(Chg)]
  BY <1>2, <1>3
<1>5. ASSUME NEW i \in DOMAIN a.kids, i = Gap(a, b) PROVE tt[i] = <<>>
  <2>1. tt[i] = Those(ss[i], S) /\ ss[i] = <<>>
    BY <1>0, <1>1, <1>2, <1>5
  <2>2. QED  BY <2>1, ThoseEmpty
<1>6. ASSUME NEW i \in DOMAIN a.kids, i # Gap(a, b)
      PROVE  tt[i] = Those(Changes[a.kids[i]][b.kids[i]][p \o <<i>>], S)
  BY <1>0, <1>1, <1>2, <1>6
<1>7. QED  BY <1>4, <1>5, <1>6 DEF tt, S

(* A stage of a change list, in its four parts. *)
FourParts(a, b, p, n, k, rr, kk, gg, nn) ==
    /\ rr = IF k = 1 THEN Rewritten(a, b, p) ELSE <<>>
    /\ kk = FlattenSeq(KidsThen(a, b, p, n, k))
    /\ gg = IF k = RemovesAt(n, p) THEN FlattenSeq(GoneKids(a, b, p)) ELSE <<>>
    /\ nn = IF k = AddsAt(n, p) THEN FlattenSeq(NewKids(a, b, p)) ELSE <<>>

LEMMA StageSplit ==
    ASSUME NEW a, NEW b, NEW p, NEW n, Placed(a, b, p, n), NEW k \in 1 .. 2 * n + 1,
           NEW rr, NEW kk, NEW gg, NEW nn, FourParts(a, b, p, n, k, rr, kk, gg, nn)
    PROVE  /\ Those(Changes[a][b][p], OfStage(n, k)) = rr \o kk \o gg \o nn
           /\ rr \in Seq(Chg) /\ kk \in Seq(Chg) /\ gg \in Seq(Chg) /\ nn \in Seq(Chg)
<1> DEFINE S == OfStage(n, k)
           r == Rewritten(a, b, p)
           ks == KeptKids(Changes, a, b, p)
           c == FlattenSeq(ks)
           g == FlattenSeq(GoneKids(a, b, p))
           m == FlattenSeq(NewKids(a, b, p))
           rc == r \o c
           rcg == rc \o g
<1>00. /\ rr = IF k = 1 THEN Rewritten(a, b, p) ELSE <<>>
       /\ kk = FlattenSeq(KidsThen(a, b, p, n, k))
       /\ gg = IF k = RemovesAt(n, p) THEN FlattenSeq(GoneKids(a, b, p)) ELSE <<>>
       /\ nn = IF k = AddsAt(n, p) THEN FlattenSeq(NewKids(a, b, p)) ELSE <<>>
  BY DEF FourParts
<1>0. /\ a \in Tree /\ b \in Tree /\ p \in Path /\ Steady(a, b) /\ n \in Nat /\ n > Height /\ Fit(p)
      /\ DOMAIN a.kids = 1 .. Len(a.kids) /\ Len(a.kids) \in Nat
  BY PlacedParts
<1>1. Changes[a][b][p] = rcg \o m
  BY <1>0, ChangesSplit DEF AllChanges
<1>2. r \in Seq(Chg)
  BY <1>0, ChangesSplit
<1>3. g \in Seq(Chg)
  <2>1. GoneKids(a, b, p) \in Seq(Seq(Chg))
    BY <1>0, ChangesSplit
  <2>2. QED  BY <2>1, FlattenSeqType
<1>4. m \in Seq(Chg)
  <2>1. NewKids(a, b, p) \in Seq(Seq(Chg))
    BY <1>0, ChangesSplit
  <2>2. QED  BY <2>1, FlattenSeqType
<1>5. Those(r, S) = rr /\ Those(g, S) = gg /\ Those(m, S) = nn
  BY <1>00, <1>0, StageParts
<1>6. ks \in [1 .. Len(a.kids) -> Seq(Chg)]
  BY <1>0, SteadyKept
<1>7. kk = FlattenSeq([i \in 1 .. Len(a.kids) |-> Those(ks[i], S)])
  BY <1>00 DEF KidsThen
<1>8. KidsThen(a, b, p, n, k) \in [1 .. Len(a.kids) -> Seq(Chg)]
  BY KidsThenParts
<1> HIDE DEF S, r, ks, g, m
<1>9. c \in Seq(Chg)
  BY <1>0, <1>6, FlattenType
<1>10. Those(c, S) = kk
  <2> DEFINE l == Len(a.kids)
  <2>1. l \in Nat /\ ks \in [1 .. l -> Seq(Chg)]
    BY <1>0, <1>6
  <2>2. kk = FlattenSeq([i \in 1 .. l |-> Those(ks[i], S)])
    BY <1>7
  <2> DEFINE tt == [i \in 1 .. l |-> Those(ks[i], S)]
  <2>3. tt = [i \in 1 .. l |-> Those(ks[i], S)]
    OBVIOUS
  <2>7. Keeps(tt, ks, S)
    BY <2>1, <2>3 DEF Keeps
  <2>6. tt \in [1 .. l -> Seq(Chg)]
    BY <1>8 DEF KidsThen, S, ks
  <2> HIDE DEF l, tt
  <2>4. Those(FlattenSeq(ks), S) = FlattenSeq(tt)
    BY ONLY <2>1, <2>6, <2>7, ThoseFlatten
  <2>5. QED  BY <2>2, <2>3, <2>4 DEF c
<1>11. kk \in Seq(Chg)
  BY <1>00, <1>0, <1>8, FlattenType
<1> HIDE DEF c
<1>12. rc \in Seq(Chg) /\ Those(rc, S) = rr \o kk
  <2>1. Those(r \o c, S) = Those(r, S) \o Those(c, S)
    BY <1>2, <1>9, ThoseConcat
  <2>2. r \o c \in Seq(Chg)
    BY <1>2, <1>9, ConcatProperties
  <2>3. QED  BY <1>5, <1>10, <2>1, <2>2
<1> HIDE DEF rc
<1>13. rcg \in Seq(Chg) /\ Those(rcg, S) = (rr \o kk) \o gg
  <2>0. rc \in Seq(Chg)
    BY <1>12
  <2>1. Those(rc \o g, S) = Those(rc, S) \o Those(g, S)
    BY <1>3, <2>0, ThoseConcat
  <2>2. rc \o g \in Seq(Chg)
    BY <1>3, <1>12, ConcatProperties
  <2>3. QED  BY <1>5, <1>12, <2>1, <2>2
<1> HIDE DEF rcg
<1>14. Those(rcg \o m, S) = ((rr \o kk) \o gg) \o nn
  <2>0. rcg \in Seq(Chg)
    BY <1>13
  <2>1. Those(rcg \o m, S) = Those(rcg, S) \o Those(m, S)
    BY <1>4, <2>0, ThoseConcat
  <2>2. QED  BY <1>5, <1>13, <2>1
<1>15. rr \in Seq(Chg) /\ gg \in Seq(Chg) /\ nn \in Seq(Chg)
  <2>1. <<>> \in Seq(Chg)
    OBVIOUS
  <2>2. QED  BY <1>00, <1>2, <1>3, <1>4, <2>1 DEF r, g, m
<1>16. QED  BY <1>1, <1>11, <1>14, <1>15 DEF S

LEMMA ListParts ==
    ASSUME NEW a, NEW b, NEW p, NEW n, Placed(a, b, p, n), NEW F, KidStages(F, a, b, p, n),
           NEW k \in 0 .. 2 * n + 1
    PROVE  /\ ListAt(F, a, b, k) \in Seq(Inner(p)) /\ Len(ListAt(F, a, b, k)) = Len(a.kids)
           /\ DOMAIN ListAt(F, a, b, k) = DOMAIN a.kids
           /\ \A i \in DOMAIN a.kids : ListAt(F, a, b, k)[i]
                                         = IF i = Gap(a, b) THEN a.kids[i] ELSE F[i][k]
           /\ ListAt(F, a, b, k) # <<>> => Len(p) + 1 <= Height
<1> DEFINE G == Gap(a, b)
           L == ListAt(F, a, b, k)
<1>0. /\ a \in Tree /\ p \in Path /\ Fit(p) /\ a \in Room(p) /\ b \in Room(p)
      /\ DOMAIN a.kids = 1 .. Len(a.kids) /\ Len(a.kids) \in Nat
      /\ (a.kids # <<>> => Len(p) + 1 <= Height)
  BY PlacedParts
<1>1. InPlace(ToSet(Changes[a][b][p]))
  BY DEF Placed
<1>2. \A i \in DOMAIN a.kids : L[i] = IF i = G THEN a.kids[i] ELSE F[i][k]
  BY DEF ListAt
<1>3. \A i \in DOMAIN a.kids : L[i] \in Inner(p)
  <2> SUFFICES ASSUME NEW i \in DOMAIN a.kids PROVE L[i] \in Inner(p)
    OBVIOUS
  <2>1. CASE i = G
    <3>1. a.kids[i] \in Inner(p)
      BY <1>0, RoomParts
    <3>2. QED  BY <1>2, <2>1, <3>1
  <2>2. CASE i # G
    <3>1. F[i] \in [0 .. 2 * n + 1 -> Room(p \o <<i>>)]
      BY <2>2 DEF KidStages, StagedBy
    <3>2. Room(p \o <<i>>) = Inner(p)
      BY <1>0, <1>1, <2>2, SteadyKid
    <3> HIDE DEF L
    <3>3. QED  BY <1>2, <2>2, <3>1, <3>2
  <2>3. QED  BY <2>1, <2>2
<1>4. L = [i \in DOMAIN a.kids |-> L[i]]
  BY DEF ListAt
<1> HIDE DEF L
<1>5. L \in [1 .. Len(a.kids) -> Inner(p)]
  BY <1>0, <1>3, <1>4
<1>6. L \in Seq(Inner(p)) /\ Len(L) = Len(a.kids) /\ DOMAIN L = DOMAIN a.kids
  BY <1>0, <1>5, FunctionIsSeq
<1>7. L # <<>> => Len(p) + 1 <= Height
  <2>1. L # <<>> => a.kids # <<>>
    BY <1>6
  <2>2. QED  BY <1>0, <2>1
<1>8. QED  BY <1>2, <1>6, <1>7 DEF L

(* A list that holds the old children at the gap, its kept ones elsewhere: the     *)
(* stages of the children, before and after those of their parent.             *)
LEMMA ListTurns ==
    ASSUME NEW a, NEW b, NEW p, NEW n, Placed(a, b, p, n), NEW F, KidStages(F, a, b, p, n),
           NEW k \in 1 .. 2 * n + 1, NEW L, NEW M, L \in Seq(Inner(p)), M \in Seq(Inner(p)),
           DOMAIN L = DOMAIN M, L # <<>> => Len(p) + 1 <= Height,
           \A i \in DOMAIN L : i \in DOMAIN a.kids /\ i # Gap(a, b)
                                  => L[i] = F[i][k - 1] /\ M[i] = F[i][k],
           \A i \in DOMAIN L : ~ (i \in DOMAIN a.kids /\ i # Gap(a, b)) => L[i] = M[i],
           \A i \in DOMAIN a.kids : i # Gap(a, b) => i \in DOMAIN L
    PROVE  Turns(FlattenSeq(KidsThen(a, b, p, n, k)), p, Node(b.id, b.val, L), Node(b.id, b.val, M))
<1> DEFINE ss == KidsThen(a, b, p, n, k)
           m == Len(a.kids)
           x == Node(b.id, b.val, L)
           G == Gap(a, b)
<1>0. /\ p \in Path /\ Fit(p) /\ b.id \in Labels /\ b.val \in Seq(Nat)
      /\ DOMAIN a.kids = 1 .. m /\ m \in Nat
  BY PlacedParts
<1>1. /\ ss \in [1 .. m -> Seq(Chg)]
      /\ \A i \in DOMAIN a.kids : i = G => ss[i] = <<>>
      /\ \A i \in DOMAIN a.kids : i # G =>
            ss[i] = Those(Changes[a.kids[i]][b.kids[i]][p \o <<i>>], OfStage(n, k))
  BY KidsThenParts
<1>2. x \in Room(p) /\ x.id = b.id /\ x.val = b.val /\ x.kids = L
  BY <1>0, RoomNode
<1>3. ASSUME NEW i \in 1 .. m, i \in DOMAIN L PROVE Turns(ss[i], p \o <<i>>, L[i], M[i])
  <2>1. CASE i = G
    BY <1>0, <1>1, <1>3, <2>1, TurnsNone
  <2>2. CASE i # G
    <3>1. Turns(Those(Changes[a.kids[i]][b.kids[i]][p \o <<i>>], OfStage(n, k)), p \o <<i>>,
                F[i][k - 1], F[i][k])
      BY <1>0, <2>2 DEF KidStages, StagedBy
    <3> HIDE DEF ss
    <3>2. L[i] = F[i][k - 1] /\ M[i] = F[i][k]
      BY <1>0, <1>3, <2>2
    <3>3. QED  BY <1>0, <1>1, <2>2, <3>1, <3>2
  <2>3. QED  BY <2>1, <2>2
<1>4. \A i \in 1 .. m : i \notin DOMAIN L => ss[i] = <<>>
  BY <1>0, <1>1
<1>5. \A i \in DOMAIN L : i > m => M[i] = L[i]
  <2> SUFFICES ASSUME NEW i \in DOMAIN L, i > m PROVE M[i] = L[i]
    OBVIOUS
  <2>1. i \notin DOMAIN a.kids
    <3>1. ~ (i \in 1 .. m)
      BY <1>0
    <3>2. QED  BY <1>0, <3>1
  <2>2. QED  BY <2>1
<1> HIDE DEF ss, x, m
<1>6. Turns(FlattenSeq(ss), p, x, Node(x.id, x.val, M))
  <2>1. /\ DOMAIN M = DOMAIN x.kids
        /\ \A i \in 1 .. m : i \notin DOMAIN x.kids => ss[i] = <<>>
        /\ \A i \in 1 .. m : i \in DOMAIN x.kids => Turns(ss[i], p \o <<i>>, x.kids[i], M[i])
        /\ \A i \in DOMAIN x.kids : i > m => M[i] = x.kids[i]
    BY <1>2, <1>3, <1>4, <1>5
  <2>2. QED  BY <1>0, <1>1, <1>2, <2>1, TurnsKids
<1>7. QED  BY <1>2, <1>6 DEF x, ss

(* A tree that has a place has one with any fitting subtree there. *)
LEMMA ReachedKid ==
    ASSUME NEW p, Fit(p), NEW a, a \in Room(p), \E w \in Tree : p \in Paths(w), NEW i \in DOMAIN a.kids
    PROVE  \E w \in Tree : p \o <<i>> \in Paths(w)
<1>0. PICK w \in Tree : p \in Paths(w)
  OBVIOUS
<1>1. a \in Tree /\ a.kids[i] \in Tree
  BY RoomParts
<1> DEFINE u == Rewrite(w, p, a)
<1>2. u \in Tree
  BY <1>0, RoomAt
<1>3. p \in Paths(u) /\ At[u][p] = a
  BY <1>0, <1>1, <1>2, RewriteParts
<1> HIDE DEF u
<1>4. <<i>> \in Paths(a)
  <2>1. <<>> \in Paths(a.kids[i])
    BY <1>1, PathCases
  <2>2. <<i>> \o <<>> \in Paths(a)
    BY <1>1, <2>1, PathCases
  <2>3. <<i>> \o <<>> = <<i>>
    OBVIOUS
  <2>4. QED  BY <2>2, <2>3
<1>5. p \o <<i>> \in Paths(u)
  BY <1>2, <1>3, <1>4, PathsBelow
<1>6. QED  BY <1>2, <1>5

(* While the parent's list changes, its children rest. *)
LEMMA KidsRest ==
    ASSUME NEW a, NEW b, NEW p, NEW n, Placed(a, b, p, n), NEW F, KidStages(F, a, b, p, n),
           NEW k \in RemovesAt(n, p) .. AddsAt(n, p)
    PROVE  /\ FlattenSeq(KidsThen(a, b, p, n, k)) = <<>>
           /\ ListAt(F, a, b, k - 1) = ListAt(F, a, b, k)
<1> DEFINE ss == KidsThen(a, b, p, n, k)
           m == Len(a.kids)
           G == Gap(a, b)
<1>0. /\ a \in Tree /\ b \in Tree /\ p \in Path /\ Fit(p) /\ n \in Nat /\ n > Height
      /\ a \in Room(p) /\ b \in Room(p)
      /\ DOMAIN a.kids = 1 .. m /\ m \in Nat
  BY PlacedParts
<1>1. /\ ss \in [1 .. m -> Seq(Chg)]
      /\ \A i \in DOMAIN a.kids : i = G => ss[i] = <<>>
      /\ \A i \in DOMAIN a.kids : i # G =>
            ss[i] = Those(Changes[a.kids[i]][b.kids[i]][p \o <<i>>], OfStage(n, k))
  BY KidsThenParts
<1>2. InPlace(ToSet(Changes[a][b][p])) /\ \E w \in Tree : p \in Paths(w)
  BY DEF Placed
<1>3. k \in 1 .. 2 * n + 1 /\ k - 1 \in 0 .. 2 * n + 1 /\ k \in 0 .. 2 * n + 1
  <2>1. RemovesAt(n, p) \in 2 .. n + 1 /\ AddsAt(n, p) \in n + 2 .. 2 * n + 1
    BY <1>0, StageFits
  <2>2. QED  BY <1>0, <2>1
<1>4. ASSUME NEW i \in DOMAIN a.kids, i # G
      PROVE  ss[i] = <<>> /\ F[i][k - 1] = F[i][k]
  <2>0. i \in Nat
    BY <1>0
  <2>1. /\ a.kids[i] \in Tree /\ b.kids[i] \in Tree /\ Fit(p \o <<i>>)
    BY <1>0, <1>2, <1>4, SteadyKid
  <2>2. Those(Changes[a.kids[i]][b.kids[i]][p \o <<i>>], OfStage(n, k)) = <<>>
    BY <1>0, <2>0, <2>1, KidRests
  <2>3. /\ F[i] \in [0 .. 2 * n + 1 -> Room(p \o <<i>>)]
        /\ Turns(Those(Changes[a.kids[i]][b.kids[i]][p \o <<i>>], OfStage(n, k)), p \o <<i>>,
                 F[i][k - 1], F[i][k])
    BY <1>3, <1>4 DEF KidStages, StagedBy
  <2>4. Turns(<<>>, p \o <<i>>, F[i][k - 1], F[i][k])
    BY <2>2, <2>3
  <2>5. \E w \in Tree : p \o <<i>> \in Paths(w)
    BY <1>0, <1>2, ReachedKid
  <2>6. F[i][k - 1] \in Room(p \o <<i>>)
    BY <1>3, <2>3
  <2>7. F[i][k - 1] = F[i][k]
    <3>1. PICK w \in Tree : p \o <<i>> \in Paths(w)
      BY <2>5
    <3>2. QED  BY <2>4, <2>6, <3>1, TurnsNothing
  <2>8. QED  BY <1>1, <1>4, <2>2, <2>7
<1>5. FlattenSeq(ss) = <<>>
  <2>1. \A i \in 1 .. m : ss[i] = <<>>
    BY <1>0, <1>1, <1>4
  <2> HIDE DEF ss, m
  <2>2. QED  BY <1>0, <1>1, <2>1, FlattenNone
<1>6. ListAt(F, a, b, k - 1) = ListAt(F, a, b, k)
  <2>1. \A i \in DOMAIN a.kids : (IF i = G THEN a.kids[i] ELSE F[i][k - 1])
                                   = (IF i = G THEN a.kids[i] ELSE F[i][k])
    BY <1>4
  <2>2. QED  BY <2>1 DEF ListAt
<1>7. QED  BY <1>5, <1>6

(* Four parts of a list of changes, one after the other. *)
LEMMA TurnsFour ==
    ASSUME NEW X, NEW rr, NEW kk, NEW gg, NEW nn,
           rr \in Seq(X), kk \in Seq(X), gg \in Seq(X), nn \in Seq(X), NEW p,
           NEW x0, NEW x1, NEW x2, NEW x3, NEW x4, x1 \in Room(p), x2 \in Room(p), x3 \in Room(p),
           Turns(rr, p, x0, x1), Turns(kk, p, x1, x2), Turns(gg, p, x2, x3), Turns(nn, p, x3, x4)
    PROVE  Turns(rr \o kk \o gg \o nn, p, x0, x4)
<1> DEFINE rk == rr \o kk
           rkg == rk \o gg
<1>1. rk \in Seq(X) /\ Turns(rk, p, x0, x2)
  <2>1. rk \in Seq(X)
    BY ConcatProperties
  <2>2. Turns(rk, p, x0, x2)
    BY TurnsBoth
  <2>3. QED  BY <2>1, <2>2
<1> HIDE DEF rk
<1>2. rkg \in Seq(X) /\ Turns(rkg, p, x0, x3)
  <2>0. rk \in Seq(X)
    BY <1>1
  <2>1. rkg \in Seq(X)
    BY <2>0, ConcatProperties
  <2>2. Turns(rkg, p, x0, x3)
    BY <1>1, TurnsBoth
  <2>3. QED  BY <2>1, <2>2
<1> HIDE DEF rkg
<1>3. Turns(rkg \o nn, p, x0, x4)
  BY <1>2, TurnsBoth
<1>4. QED  BY <1>3 DEF rkg, rk

(* What is at the place after each stage. *)
AtStage(F, a, b, p, n, k) ==
    IF k = 0 THEN a
    ELSE Node(b.id, b.val,
              IF k < RemovesAt(n, p) THEN ListAt(F, a, b, k)
              ELSE IF k < AddsAt(n, p) THEN Bereft(ListAt(F, a, b, k), Gap(a, b))
              ELSE Whole(ListAt(F, a, b, k), b.kids, Gap(a, b)))

LEMMA StageLists ==
    ASSUME NEW a, NEW b, NEW p, NEW n, Placed(a, b, p, n), NEW F, KidStages(F, a, b, p, n),
           NEW k \in 0 .. 2 * n + 1, NEW L, L = ListAt(F, a, b, k), NEW G, G = Gap(a, b)
    PROVE  /\ Bereft(L, G) \in Seq(Inner(p)) /\ Whole(L, b.kids, G) \in Seq(Inner(p))
           /\ (Whole(L, b.kids, G) # <<>> => Len(p) + 1 <= Height)
           /\ DOMAIN Whole(L, b.kids, G) = DOMAIN b.kids
           /\ Node(b.id, b.val, L) \in Room(p)
           /\ Node(b.id, b.val, Bereft(L, G)) \in Room(p)
           /\ Node(b.id, b.val, Whole(L, b.kids, G)) \in Room(p)
<1> DEFINE B == b.kids
           W == Whole(L, B, G)
<1>0. /\ a \in Tree /\ b \in Tree /\ p \in Path /\ Fit(p) /\ a \in Room(p) /\ b \in Room(p)
      /\ b.id \in Labels /\ b.val \in Seq(Nat) /\ G \in Nat
      /\ (B # <<>> => Len(p) + 1 <= Height)
  BY PlacedParts
<1>1. /\ L \in Seq(Inner(p)) /\ DOMAIN L = DOMAIN a.kids /\ (L # <<>> => Len(p) + 1 <= Height)
      /\ \A i \in DOMAIN L : L[i] \in Inner(p)
  <2>1. /\ L \in Seq(Inner(p)) /\ DOMAIN L = DOMAIN a.kids /\ (L # <<>> => Len(p) + 1 <= Height)
    BY ListParts
  <2>2. QED  BY <2>1
<1>2. Bereft(L, G) \in Seq(Inner(p))
  BY <1>0, <1>1, BereftType
<1>3. L = <<>> => Bereft(L, G) = <<>>
  <2>1. L = <<>> => G \notin DOMAIN L
    OBVIOUS
  <2>2. QED  BY <2>1 DEF Bereft
<1>4. DOMAIN B = 1 .. Len(B) /\ Len(B) \in Nat /\ \A j \in DOMAIN B : B[j] \in Inner(p)
  <2>1. DOMAIN B = 1 .. Len(B) /\ Len(B) \in Nat
    BY <1>0, KidNumbers
  <2>2. \A j \in DOMAIN B : B[j] \in Inner(p)
    BY <1>0, RoomParts
  <2>3. QED  BY <2>1, <2>2
<1> HIDE DEF B
<1>5. W \in [1 .. Len(B) -> Inner(p)]
  <2>1. \A j \in DOMAIN B : Picked(L, B, G, j) \in Inner(p)
    BY <1>1, <1>4 DEF Picked
  <2>2. QED  BY <1>4, <2>1 DEF Whole
<1> HIDE DEF W
<1>6. W \in Seq(Inner(p)) /\ Len(W) = Len(B) /\ DOMAIN W = DOMAIN B
  BY <1>4, <1>5, FunctionIsSeq
<1>7. W # <<>> => Len(p) + 1 <= Height
  <2>1. B = <<>> => Len(W) = 0
    BY <1>6
  <2>2. B = <<>> => W = <<>>
    BY <1>6, <2>1
  <2>3. QED  BY <1>0, <2>2
<1>8. Node(b.id, b.val, L) \in Room(p)
  BY <1>0, <1>1, RoomNode
<1>9. Node(b.id, b.val, Bereft(L, G)) \in Room(p)
  BY <1>0, <1>1, <1>2, <1>3, RoomNode
<1>10. Node(b.id, b.val, W) \in Room(p)
  BY <1>0, <1>6, <1>7, RoomNode
<1>11. QED  BY <1>2, <1>6, <1>7, <1>8, <1>9, <1>10 DEF W, B

LEMMA StageType ==
    ASSUME NEW a, NEW b, NEW p, NEW n, Placed(a, b, p, n), NEW F, KidStages(F, a, b, p, n),
           NEW k \in 0 .. 2 * n + 1
    PROVE  AtStage(F, a, b, p, n, k) \in Room(p)
<1> DEFINE L == ListAt(F, a, b, k)
           G == Gap(a, b)
<1>1. /\ Node(b.id, b.val, L) \in Room(p)
      /\ Node(b.id, b.val, Bereft(L, G)) \in Room(p)
      /\ Node(b.id, b.val, Whole(L, b.kids, G)) \in Room(p)
  BY StageLists
<1>2. a \in Room(p)
  BY PlacedParts
<1>3. QED  BY <1>1, <1>2 DEF AtStage

LEMMA StageTurns ==
    ASSUME NEW a, NEW b, NEW p, NEW n, Placed(a, b, p, n), NEW F, KidStages(F, a, b, p, n),
           NEW k \in 1 .. 2 * n + 1
    PROVE  Turns(Those(Changes[a][b][p], OfStage(n, k)), p,
                 AtStage(F, a, b, p, n, k - 1), AtStage(F, a, b, p, n, k))
<1> DEFINE G == Gap(a, b)
           R == RemovesAt(n, p)
           A == AddsAt(n, p)
           L == ListAt(F, a, b, k - 1)
           M == ListAt(F, a, b, k)
           B == b.kids
           N(l) == Node(b.id, b.val, l)
           x == AtStage(F, a, b, p, n, k - 1)
           y == AtStage(F, a, b, p, n, k)
           rr == IF k = 1 THEN Rewritten(a, b, p) ELSE <<>>
           kk == FlattenSeq(KidsThen(a, b, p, n, k))
           gg == IF k = R THEN FlattenSeq(GoneKids(a, b, p)) ELSE <<>>
           nn == IF k = A THEN FlattenSeq(NewKids(a, b, p)) ELSE <<>>
<1>0. /\ a \in Tree /\ b \in Tree /\ p \in Path /\ Fit(p) /\ Steady(a, b)
      /\ n \in Nat /\ n > Height /\ b.id \in Labels /\ b.val \in Seq(Nat)
      /\ a \in Room(p) /\ b \in Room(p) /\ G \in Nat
  BY PlacedParts
<1>1. R \in 2 .. n + 1 /\ A \in n + 2 .. 2 * n + 1
  BY <1>0, StageFits
<1>2. k \in Nat /\ k - 1 \in 0 .. 2 * n + 1 /\ k \in 0 .. 2 * n + 1 /\ k # 0
  BY <1>0
<1>3. /\ Those(Changes[a][b][p], OfStage(n, k)) = rr \o kk \o gg \o nn
      /\ rr \in Seq(Chg) /\ kk \in Seq(Chg) /\ gg \in Seq(Chg) /\ nn \in Seq(Chg)
  <2>1. FourParts(a, b, p, n, k, rr, kk, gg, nn)
    BY DEF FourParts
  <2> HIDE DEF rr, kk, gg, nn
  <2>2. QED  BY <2>1, StageSplit
<1>4. /\ L \in Seq(Inner(p)) /\ DOMAIN L = DOMAIN a.kids /\ Len(L) = Len(a.kids)
      /\ \A i \in DOMAIN a.kids : L[i] = IF i = G THEN a.kids[i] ELSE F[i][k - 1]
      /\ L # <<>> => Len(p) + 1 <= Height
  BY <1>2, ListParts
<1>5. /\ M \in Seq(Inner(p)) /\ DOMAIN M = DOMAIN a.kids /\ Len(M) = Len(a.kids)
      /\ \A i \in DOMAIN a.kids : M[i] = IF i = G THEN a.kids[i] ELSE F[i][k]
  BY <1>2, ListParts
<1>6. /\ N(L) \in Room(p) /\ N(Bereft(L, G)) \in Room(p) /\ N(Whole(L, B, G)) \in Room(p)
      /\ Whole(L, B, G) \in Seq(Inner(p)) /\ DOMAIN Whole(L, B, G) = DOMAIN B
      /\ Whole(L, B, G) # <<>> => Len(p) + 1 <= Height
  BY <1>2, StageLists
<1>7. /\ N(M) \in Room(p) /\ N(Bereft(M, G)) \in Room(p) /\ N(Whole(M, B, G)) \in Room(p)
      /\ Whole(M, B, G) \in Seq(Inner(p)) /\ DOMAIN Whole(M, B, G) = DOMAIN B
  BY <1>2, StageLists
<1>8. x = IF k - 1 = 0 THEN a
          ELSE N(IF k - 1 < R THEN L ELSE IF k - 1 < A THEN Bereft(L, G) ELSE Whole(L, B, G))
  BY DEF AtStage
<1>9. y = N(IF k < R THEN M ELSE IF k < A THEN Bereft(M, G) ELSE Whole(M, B, G))
  BY <1>2 DEF AtStage
<1>10. \A z : Turns(<<>>, p, z, z)
  BY TurnsNone
<1>11. k \in R .. A => kk = <<>> /\ L = M
  BY KidsRest
<1>12. Turns(kk, p, N(L), N(M))
  <2>1. \A i \in DOMAIN L : i \in DOMAIN a.kids /\ i # G => L[i] = F[i][k - 1] /\ M[i] = F[i][k]
    BY <1>4, <1>5
  <2>2. \A i \in DOMAIN L : ~ (i \in DOMAIN a.kids /\ i # G) => L[i] = M[i]
    BY <1>4, <1>5
  <2>3. DOMAIN L = DOMAIN M /\ \A i \in DOMAIN a.kids : i # G => i \in DOMAIN L
    BY <1>4, <1>5
  <2> HIDE DEF L, M
  <2>4. QED  BY <1>4, <1>5, <2>1, <2>2, <2>3, ListTurns
<1>13. Turns(kk, p, N(Whole(L, B, G)), N(Whole(M, B, G)))
  <2> DEFINE V == Whole(L, B, G)
             W == Whole(M, B, G)
  <2>1. /\ \A i \in DOMAIN V : V[i] = Picked(L, B, G, i)
        /\ \A i \in DOMAIN V : W[i] = Picked(M, B, G, i)
    BY <1>6 DEF Whole
  <2>2. \A i \in DOMAIN V : i \in DOMAIN a.kids /\ i # G => V[i] = F[i][k - 1] /\ W[i] = F[i][k]
    <3> HIDE DEF V, W, L, M, G
    <3>1. QED  BY <1>4, <1>5, <2>1 DEF Picked
  <2>3. \A i \in DOMAIN V : ~ (i \in DOMAIN a.kids /\ i # G) => V[i] = W[i]
    <3> HIDE DEF V, W, L, M, G
    <3>1. QED  BY <1>4, <1>5, <2>1 DEF Picked
  <2>4. DOMAIN V = DOMAIN W /\ \A i \in DOMAIN a.kids : i # G => i \in DOMAIN V
    <3>1. \A i \in DOMAIN a.kids : i # G => i \in DOMAIN B
      BY <1>0, GapParts
    <3>2. QED  BY <1>6, <1>7, <3>1
  <2>5. V \in Seq(Inner(p)) /\ W \in Seq(Inner(p)) /\ (V # <<>> => Len(p) + 1 <= Height)
    BY <1>6, <1>7
  <2> HIDE DEF V, W
  <2>6. Turns(kk, p, N(V), N(W))
    BY <2>2, <2>3, <2>4, <2>5, ListTurns
  <2>7. QED  BY <2>6 DEF V, W
<1>14. Turns(FlattenSeq(GoneKids(a, b, p)), p, N(M), N(Bereft(M, G)))
  BY <1>0, <1>5, GoneTurns
<1>15. Turns(FlattenSeq(NewKids(a, b, p)), p, N(Bereft(M, G)), N(Whole(M, B, G)))
  BY <1>0, <1>5, NewTurns
<1>16. k = 1 => L = a.kids
  <2> SUFFICES ASSUME k = 1 PROVE L = a.kids
    OBVIOUS
  <2>0. k - 1 = 0
    OBVIOUS
  <2>1. \A i \in DOMAIN a.kids : i # G => F[i][k - 1] = a.kids[i]
    <3>1. \A i \in DOMAIN a.kids : i # G => F[i][0] = a.kids[i]
      BY DEF KidStages
    <3> HIDE DEF G
    <3>2. QED  BY <2>0, <3>1
  <2>2. \A i \in DOMAIN a.kids : L[i] = a.kids[i]
    BY <1>4, <2>1
  <2>3. a.kids \in Seq(Tree)
    BY <1>0, TreeParts
  <2> HIDE DEF L
  <2>4. QED  BY <1>4, <2>2, <2>3
<1>17. k = 1 => Turns(Rewritten(a, b, p), p, x, N(L))
  <2> SUFFICES ASSUME k = 1 PROVE Turns(Rewritten(a, b, p), p, x, N(L))
    OBVIOUS
  <2>1. x = a
    BY <1>8
  <2> HIDE DEF x
  <2>2. Turns(Rewritten(a, b, p), p, a, Node(b.id, b.val, a.kids))
    BY <1>0, RewrittenTurns
  <2>3. QED  BY <1>16, <2>1, <2>2
<1> HIDE DEF G, R, A, L, M, B, N, x, y, kk
<1>18. Turns(rr \o kk \o gg \o nn, p, x, y)
  <2>1. CASE k < R
    <3>1. k # R /\ k # A
      BY <1>0, <1>1, <1>2, <2>1
    <3>2. y = N(M)
      BY <1>9, <2>1
    <3>3. Turns(rr, p, x, N(L))
      <4>1. CASE k = 1
        BY <1>17, <4>1
      <4>2. CASE k # 1
        <5>1. k - 1 # 0 /\ k - 1 < R
          BY <1>0, <1>1, <1>2, <2>1, <4>2
        <5>2. x = N(L)
          BY <1>8, <5>1
        <5>3. QED  BY <1>10, <4>2, <5>2
      <4>3. QED  BY <4>1, <4>2
    <3>4. Turns(gg, p, N(M), N(M)) /\ Turns(nn, p, N(M), N(M))
      BY <1>10, <3>1
    <3> HIDE DEF rr, gg, nn
    <3>5. Turns(rr \o kk \o gg \o nn, p, x, N(M))
      BY <1>3, <1>6, <1>7, <1>12, <3>3, <3>4, TurnsFour
    <3>6. QED  BY <3>2, <3>5
  <2>2. CASE k >= R /\ k <= A
    <3>1. kk = <<>> /\ L = M
      BY <1>0, <1>1, <1>2, <1>11, <2>2
    <3>2. k # 1 /\ k - 1 # 0
      BY <1>0, <1>1, <1>2, <2>2
    <3>3. Turns(kk, p, x, x) /\ Turns(rr, p, x, x)
      BY <1>10, <3>1, <3>2
    <3>4. CASE k = R
      <4>1. k # A /\ k < A /\ k - 1 < R /\ ~ (k < R)
        BY <1>0, <1>1, <1>2, <3>4
      <4>2. x = N(M)
        BY <1>8, <3>1, <3>2, <4>1
      <4>3. y = N(Bereft(M, G))
        BY <1>9, <4>1
      <4>4. Turns(gg, p, x, y)
        BY <1>14, <3>4, <4>2, <4>3 DEF R, G, N
      <4>5. Turns(nn, p, y, y)
        BY <1>10, <4>1
      <4>6. x \in Room(p) /\ y \in Room(p)
        BY <1>7, <4>2, <4>3
      <4> HIDE DEF rr, gg, nn
      <4>7. QED  BY <1>3, <3>3, <4>4, <4>5, <4>6, TurnsFour
    <3>5. CASE k = A
      <4>1. k # R /\ ~ (k < A) /\ ~ (k < R) /\ k - 1 < A /\ ~ (k - 1 < R)
        BY <1>0, <1>1, <1>2, <3>5
      <4>2. x = N(Bereft(M, G))
        BY <1>8, <3>1, <3>2, <4>1
      <4>3. y = N(Whole(M, B, G))
        BY <1>9, <4>1
      <4>4. Turns(nn, p, x, y)
        BY <1>15, <3>5, <4>2, <4>3
      <4>5. Turns(gg, p, x, x)
        BY <1>10, <4>1
      <4>6. x \in Room(p) /\ y \in Room(p)
        BY <1>7, <4>2, <4>3
      <4> HIDE DEF rr, gg, nn
      <4>7. QED  BY <1>3, <3>3, <4>4, <4>5, <4>6, TurnsFour
    <3>6. CASE k # R /\ k # A
      <4>1. k < A /\ ~ (k < R) /\ k - 1 < A /\ ~ (k - 1 < R)
        BY <1>0, <1>1, <1>2, <2>2, <3>6
      <4>2. x = N(Bereft(M, G)) /\ y = x
        BY <1>8, <1>9, <3>1, <3>2, <4>1
      <4>3. Turns(nn, p, x, y) /\ Turns(gg, p, x, x)
        BY <1>10, <3>6, <4>2
      <4>4. x \in Room(p)
        BY <1>7, <4>2
      <4> HIDE DEF rr, gg, nn
      <4>5. QED  BY <1>3, <3>3, <4>3, <4>4, TurnsFour
    <3>7. QED  BY <3>4, <3>5, <3>6
  <2>3. CASE k > A
    <3>1. k # 1 /\ k # R /\ k # A /\ k - 1 # 0 /\ ~ (k < R) /\ ~ (k < A) /\ ~ (k - 1 < R) /\ ~ (k - 1 < A)
      BY <1>0, <1>1, <1>2, <2>3
    <3>2. x = N(Whole(L, B, G)) /\ y = N(Whole(M, B, G))
      BY <1>8, <1>9, <3>1
    <3>3. Turns(rr, p, x, x) /\ Turns(gg, p, y, y) /\ Turns(nn, p, y, y)
      BY <1>10, <3>1
    <3>4. x \in Room(p) /\ y \in Room(p) /\ Turns(kk, p, x, y)
      BY <1>6, <1>7, <1>13, <3>2
    <3> HIDE DEF rr, gg, nn
    <3>5. QED  BY <1>3, <3>3, <3>4, TurnsFour
  <2>4. k < R \/ (k >= R /\ k <= A) \/ k > A
    BY <1>0, <1>1, <1>2
  <2>5. QED  BY <2>1, <2>2, <2>3, <2>4
<1> HIDE DEF rr, gg, nn
<1>19. QED  BY <1>3, <1>18 DEF x, y

(* A run of stages between two trees at a place. *)
Between(f, a, b, n, p) ==
    StagedBy(f, Changes[a][b][p], n, p) /\ f[0] = a /\ f[2 * n + 1] = b

LEMMA StagesMade ==
    ASSUME NEW a, NEW b, NEW p, NEW n, Placed(a, b, p, n), NEW F, KidStages(F, a, b, p, n)
    PROVE  Between([k \in 0 .. 2 * n + 1 |-> AtStage(F, a, b, p, n, k)], a, b, n, p)
<1> DEFINE m == 2 * n + 1
           f == [k \in 0 .. m |-> AtStage(F, a, b, p, n, k)]
           G == Gap(a, b)
           L == ListAt(F, a, b, m)
           B == b.kids
<1>0. /\ a \in Tree /\ b \in Tree /\ p \in Path /\ Fit(p) /\ Steady(a, b)
      /\ n \in Nat /\ n > Height /\ b = Node(b.id, b.val, b.kids)
      /\ a \in Room(p) /\ b \in Room(p)
  BY PlacedParts
<1>1. f \in [0 .. m -> Room(p)]
  BY StageType
<1>2. ASSUME NEW k \in 1 .. m PROVE Turns(Those(Changes[a][b][p], OfStage(n, k)), p, f[k - 1], f[k])
  <2>1. k - 1 \in 0 .. m /\ k \in 0 .. m
    BY <1>0
  <2>2. f[k - 1] = AtStage(F, a, b, p, n, k - 1) /\ f[k] = AtStage(F, a, b, p, n, k)
    BY <2>1
  <2>3. Turns(Those(Changes[a][b][p], OfStage(n, k)), p,
              AtStage(F, a, b, p, n, k - 1), AtStage(F, a, b, p, n, k))
    BY StageTurns
  <2>4. QED  BY <2>2, <2>3
<1>3. StagedBy(f, Changes[a][b][p], n, p)
  BY <1>1, <1>2 DEF StagedBy
<1>4. f[0] = a
  <2>1. 0 \in 0 .. m
    BY <1>0
  <2>2. QED  BY <2>1 DEF AtStage
<1>5. f[m] = b
  <2>1. m \in 0 .. m /\ m # 0
    BY <1>0
  <2>2. RemovesAt(n, p) \in 2 .. n + 1 /\ AddsAt(n, p) \in n + 2 .. 2 * n + 1
    BY <1>0, StageFits
  <2>3. ~ (m < RemovesAt(n, p)) /\ ~ (m < AddsAt(n, p))
    BY <1>0, <2>2
  <2>4. f[m] = Node(b.id, b.val, Whole(L, B, G))
    <3>1. f[m] = AtStage(F, a, b, p, n, m)
      BY <2>1
    <3> HIDE DEF f, m
    <3>2. QED  BY <2>1, <2>3, <3>1 DEF AtStage
  <2>5. /\ DOMAIN L = DOMAIN a.kids
        /\ \A i \in DOMAIN a.kids : L[i] = IF i = G THEN a.kids[i] ELSE F[i][m]
    BY <2>1, ListParts
  <2>6. ASSUME NEW i \in DOMAIN a.kids, i # G PROVE L[i] = b.kids[i]
    <3>1. F[i][m] = b.kids[i]
      BY <2>6 DEF KidStages
    <3> HIDE DEF L, m
    <3>2. QED  BY <2>5, <2>6, <3>1
  <2>7. Whole(L, B, G) = B
    <3>1. B = [j \in DOMAIN B |-> B[j]]
      <4>1. B \in Seq(Tree)
        BY <1>0, TreeParts
      <4>2. QED  BY <4>1
    <3> HIDE DEF L, B, G
    <3>2. \A j \in DOMAIN B : Picked(L, B, G, j) = B[j]
      BY <2>5, <2>6 DEF Picked, B
    <3>3. QED  BY <3>1, <3>2 DEF Whole
  <2>8. QED  BY <1>0, <2>4, <2>7
<1>6. QED  BY <1>3, <1>4, <1>5 DEF Between

(* Whatever stays in place has such a run, at every depth. *)
LEMMA StagesExist ==
    ASSUME NEW a, NEW b, NEW p, NEW n, Placed(a, b, p, n)
    PROVE  \E f : Between(f, a, b, n, p)
<1> DEFINE Good(t, u, q) == Placed(t, u, q, n) => \E f : Between(f, t, u, n, q)
           S == {t \in Tree : \A u, q : Good(t, u, q)}
<1>1. ASSUME NEW t \in Tree, \A i \in DOMAIN t.kids : t.kids[i] \in S PROVE t \in S
  <2> SUFFICES ASSUME NEW u, NEW q, Placed(t, u, q, n)
               PROVE  \E f : Between(f, t, u, n, q)
    OBVIOUS
  <2> DEFINE G == Gap(t, u)
             D == DOMAIN t.kids
             F == [i \in D |-> CHOOSE f : Between(f, t.kids[i], u.kids[i], n, q \o <<i>>)]
  <2>0. /\ Fit(q) /\ t \in Room(q) /\ u \in Room(q) /\ InPlace(ToSet(Changes[t][u][q]))
        /\ n \in Nat /\ n > Height /\ \E w \in Tree : q \in Paths(w)
    BY DEF Placed
  <2>1. ASSUME NEW i \in D, i # G
        PROVE  Between(F[i], t.kids[i], u.kids[i], n, q \o <<i>>)
    <3>1. /\ Fit(q \o <<i>>) /\ t.kids[i] \in Room(q \o <<i>>) /\ u.kids[i] \in Room(q \o <<i>>)
          /\ InPlace(ToSet(Changes[t.kids[i]][u.kids[i]][q \o <<i>>]))
      BY <2>0, <2>1, SteadyKid
    <3>2. \E w \in Tree : q \o <<i>> \in Paths(w)
      BY <2>0, ReachedKid
    <3>3. Placed(t.kids[i], u.kids[i], q \o <<i>>, n)
      BY <2>0, <3>1, <3>2 DEF Placed
    <3>4. Good(t.kids[i], u.kids[i], q \o <<i>>)
      BY <1>1
    <3>5. \E f : Between(f, t.kids[i], u.kids[i], n, q \o <<i>>)
      BY <3>3, <3>4
    <3>6. F[i] = CHOOSE f : Between(f, t.kids[i], u.kids[i], n, q \o <<i>>)
      OBVIOUS
    <3> HIDE DEF F
    <3>7. QED  BY <3>5, <3>6
  <2> HIDE DEF F, S
  <2>2. KidStages(F, t, u, q, n)
    BY <2>1 DEF KidStages, Between
  <2>3. QED  BY <2>2, StagesMade
<1> HIDE DEF S
<1>2. Tree \subseteq S
  BY <1>1, TreeInduction
<1>3. a \in Tree
  BY PlacedParts
<1>4. Good(a, b, p)
  BY <1>2, <1>3 DEF S
<1>5. QED  BY <1>4

(* The deepest path of a list of changes. *)
Deepest(s) == Max({Len(c.path) : c \in ToSet(s)} \cup {0})

LEMMA DeepestIs ==
    ASSUME NEW s, s \in Seq(Chg)
    PROVE  Deepest(s) \in Nat /\ \A c \in ToSet(s) : Len(c.path) \in Nat /\ Len(c.path) <= Deepest(s)
<1> DEFINE n == Len(s)
           v == [k \in 1 .. n |-> 0 - Len(s[k].path)]
           T == {Len(c.path) : c \in ToSet(s)} \cup {0}
<1>0. n \in Nat /\ DOMAIN s = 1 .. n /\ \A k \in 1 .. n : s[k] \in Chg /\ s[k] \in ToSet(s)
  BY DEF ToSet
<1>1. \A c \in ToSet(s) : Len(c.path) \in Nat /\ \E k \in 1 .. n : c = s[k]
  <2> SUFFICES ASSUME NEW c \in ToSet(s) PROVE Len(c.path) \in Nat /\ \E k \in 1 .. n : c = s[k]
    OBVIOUS
  <2>1. PICK k \in 1 .. n : c = s[k]
    BY <1>0 DEF ToSet
  <2>2. c.path \in Path
    BY <1>0, <2>1 DEF Chg
  <2>3. QED  BY <2>1, <2>2 DEF Path
<1>2. \E x \in T : \A y \in T : x >= y
  <2>1. CASE n = 0
    <3>1. T = {0}
      BY <1>0, <1>1, <2>1
    <3>2. QED  BY <3>1
  <2>2. CASE n # 0
    <3>1. 1 .. n \in SUBSET (1 .. n) /\ 1 .. n # {}
      BY <1>0, <2>2
    <3>2. v \in [1 .. n -> Int]
      BY <1>0, <1>1
    <3> HIDE DEF v
    <3>3. PICK k \in 1 .. n : \A j \in 1 .. n : v[k] <= v[j]
      BY <1>0, <3>1, <3>2, LeastValue
    <3>4. \A j \in 1 .. n : v[j] = 0 - Len(s[j].path) /\ Len(s[j].path) \in Nat
      BY <1>0, <1>1 DEF v
    <3>5. \A c \in ToSet(s) : Len(c.path) <= Len(s[k].path)
      <4> SUFFICES ASSUME NEW c \in ToSet(s) PROVE Len(c.path) <= Len(s[k].path)
        OBVIOUS
      <4>1. PICK j \in 1 .. n : c = s[j]
        BY <1>1
      <4>2. v[k] <= v[j] /\ v[k] = 0 - Len(s[k].path) /\ v[j] = 0 - Len(s[j].path)
            /\ Len(s[j].path) \in Nat /\ Len(s[k].path) \in Nat
        BY <3>3, <3>4
      <4>3. Len(s[j].path) <= Len(s[k].path)
        BY <4>2
      <4>4. QED  BY <4>1, <4>3
    <3>6. Len(s[k].path) \in T /\ Len(s[k].path) \in Nat
      BY <1>0, <1>1
    <3>7. \A y \in T : Len(s[k].path) >= y
      BY <1>1, <3>5, <3>6
    <3>8. QED  BY <3>6, <3>7
  <2>3. QED  BY <2>1, <2>2
<1>3. T \subseteq Nat /\ \A c \in ToSet(s) : Len(c.path) \in T
  BY <1>1
<1>4. Deepest(s) = CHOOSE x \in T : \A y \in T : x >= y
  BY DEF Deepest, Max
<1> HIDE DEF T
<1>5. Deepest(s) \in T /\ \A y \in T : Deepest(s) >= y
  BY <1>2, <1>4
<1>6. QED  BY <1>1, <1>3, <1>5

LEMMA NothingHappens ==
    ASSUME NEW f, NEW l \in Nat, NEW m \in Nat, \A k \in l + 1 .. l + m : f[k - 1] = f[k]
    PROVE  f[l] = f[l + m]
<1> DEFINE S == {k \in 0 .. m : f[l] = f[l + k]}
<1>1. 0 \in S
  <2>1. l + 0 = l /\ 0 \in 0 .. m
    OBVIOUS
  <2>2. f[l] = f[l + 0]
    BY <2>1
  <2>3. QED  BY <2>1, <2>2
<1>2. ASSUME NEW k \in 0 .. m - 1, k \in S PROVE k + 1 \in S
  <2>1. k + 1 \in 0 .. m /\ l + (k + 1) \in l + 1 .. l + m /\ (l + (k + 1)) - 1 = l + k
    OBVIOUS
  <2>2. f[l + k] = f[l + (k + 1)]
    BY <2>1
  <2>3. QED  BY <1>2, <2>1, <2>2
<1> HIDE DEF S
<1>3. 0 .. m \subseteq S
  BY <1>1, <1>2, Induction
<1>4. m \in S
  BY <1>3
<1>5. QED  BY <1>4 DEF S

(* apply_custom of a diff that stays in place gives the tree it was made from: a  *)
(* node is rewritten first, the lists below it lose and win their children before *)
(* and after its own, so every path means what it meant in the diff.          *)
LEMMA DifferencesApply ==
    ASSUME NEW a \in Tree, NEW b \in Tree, InPlace(ToSet(Differences(a, b)))
    PROVE  ApplyCustom(a, Differences(a, b)) = b
<1> DEFINE s == Differences(a, b)
           dep == Deepest(s)
           n == dep + Height + 1
           q == <<>>
           Old(op, d) == Those(s, {c \in ToSet(s) : c.op = op /\ Len(c.path) = d})
           rr == Those(s, {c \in ToSet(s) : c.op = "replace"})
           gs == [d \in 1 .. dep |-> Old("remove", dep + 1 - d)]
           ns == [d \in 1 .. dep |-> Old("add", d)]
<1>0. q \in Path /\ Fit(q) /\ Room(q) = Tree /\ Height \in Nat
  BY TreeRoom, TreeAssumption
<1>1. s = Changes[a][b][q] /\ s \in Seq(Chg)
  BY <1>0, ChangesSplit DEF Differences
<1>2. dep \in Nat /\ \A c \in ToSet(s) : Len(c.path) \in Nat /\ Len(c.path) <= dep
  BY <1>1, DeepestIs
<1>3. q \in Paths(a)
  BY PathCases
<1>4. Placed(a, b, q, n)
  BY <1>0, <1>1, <1>2, <1>3 DEF Placed
<1>5. PICK f : Between(f, a, b, n, q)
  BY <1>4, StagesExist
<1>6. ApplyCustom(a, s) = Patched(a, rr \o FlattenSeq(gs) \o FlattenSeq(ns))
  BY DEF ApplyCustom, Deepest
<1> HIDE DEF s, dep
<1>7. \A i \in DOMAIN s : s[i] \in ToSet(s) /\ s[i] \in Chg
  BY <1>1 DEF ToSet
<1>8. ASSUME NEW k \in 1 .. 2 * n + 1
      PROVE  /\ Turns(Those(s, OfStage(n, k)), q, f[k - 1], f[k])
             /\ f[k - 1] \in Room(q) /\ f[k] \in Room(q)
  <2>1. /\ f \in [0 .. 2 * n + 1 -> Room(q)]
        /\ Turns(Those(s, OfStage(n, k)), q, f[k - 1], f[k])
    BY <1>1, <1>5 DEF Between, StagedBy
  <2>2. k - 1 \in 0 .. 2 * n + 1 /\ k \in 0 .. 2 * n + 1
    BY <1>0, <1>2
  <2>3. QED  BY <2>1, <2>2
<1>9. n \in Nat /\ n > dep
  BY <1>0, <1>2
<1>10. \A c \in Chg, k \in 1 .. 2 * n + 1 : c \in OfStage(n, k) <=>
          \/ k = 1 /\ c.op = "replace"
          \/ k # 1 /\ k <= n + 1 /\ c.op = "remove" /\ Len(c.path) = n + 2 - k
          \/ k # 1 /\ ~ (k <= n + 1) /\ c.op = "add" /\ Len(c.path) = k - n - 1
  BY DEF OfStage
<1> HIDE DEF n
<1>11. Turns(rr, q, f[0], f[1]) /\ f[1] \in Room(q) /\ rr \in Seq(Chg)
  <2>1. 1 \in 1 .. 2 * n + 1 /\ 1 - 1 = 0
    BY <1>9
  <2>2. \A i \in DOMAIN s : s[i] \in {c \in ToSet(s) : c.op = "replace"} <=> s[i] \in OfStage(n, 1)
    BY <1>7, <1>10, <2>1
  <2>3. rr = Those(s, OfStage(n, 1))
    BY <2>2, ThoseSame
  <2>4. rr \in Seq(Chg)
    BY <1>1, ThoseParts
  <2> HIDE DEF rr
  <2>5. Turns(Those(s, OfStage(n, 1)), q, f[1 - 1], f[1]) /\ f[1] \in Room(q)
    BY <1>8, <2>1
  <2>6. QED  BY <2>1, <2>3, <2>4, <2>5
<1>12. ASSUME NEW d \in 1 .. dep
       PROVE  /\ Turns(gs[d], q, f[n - dep + d], f[n - dep + d + 1])
              /\ f[n - dep + d] \in Room(q) /\ f[n - dep + d + 1] \in Room(q)
              /\ gs[d] \in Seq(Chg)
  <2> DEFINE k == n - dep + d + 1
             S == {c \in ToSet(s) : c.op = "remove" /\ Len(c.path) = dep + 1 - d}
  <2>1. k \in 1 .. 2 * n + 1 /\ k - 1 = n - dep + d /\ k # 1 /\ k <= n + 1 /\ n + 2 - k = dep + 1 - d
    BY <1>2, <1>9
  <2>2. gs[d] = Those(s, S)
    OBVIOUS
  <2> HIDE DEF k, gs
  <2>3. \A i \in DOMAIN s : s[i] \in S <=> s[i] \in OfStage(n, k)
    BY <1>7, <1>10, <2>1
  <2> HIDE DEF S
  <2>4. gs[d] = Those(s, OfStage(n, k))
    BY <2>2, <2>3, ThoseSame
  <2>5. gs[d] \in Seq(Chg)
    BY <1>1, <2>2, ThoseParts
  <2>6. Turns(gs[d], q, f[k - 1], f[k]) /\ f[k - 1] \in Room(q) /\ f[k] \in Room(q)
    BY <1>8, <2>1, <2>4
  <2>7. QED  BY <2>1, <2>5, <2>6 DEF k
<1>13. ASSUME NEW d \in 1 .. dep
       PROVE  /\ Turns(ns[d], q, f[n + d], f[n + d + 1])
              /\ f[n + d] \in Room(q) /\ f[n + d + 1] \in Room(q)
              /\ ns[d] \in Seq(Chg)
  <2> DEFINE k == n + d + 1
             S == {c \in ToSet(s) : c.op = "add" /\ Len(c.path) = d}
  <2>1. k \in 1 .. 2 * n + 1 /\ k - 1 = n + d /\ k # 1 /\ ~ (k <= n + 1) /\ k - n - 1 = d
    BY <1>2, <1>9
  <2>2. ns[d] = Those(s, S)
    OBVIOUS
  <2> HIDE DEF k, ns
  <2>3. \A i \in DOMAIN s : s[i] \in S <=> s[i] \in OfStage(n, k)
    BY <1>7, <1>10, <2>1
  <2> HIDE DEF S
  <2>4. ns[d] = Those(s, OfStage(n, k))
    BY <2>2, <2>3, ThoseSame
  <2>5. ns[d] \in Seq(Chg)
    BY <1>1, <2>2, ThoseParts
  <2>6. Turns(ns[d], q, f[k - 1], f[k]) /\ f[k - 1] \in Room(q) /\ f[k] \in Room(q)
    BY <1>8, <2>1, <2>4
  <2>7. QED  BY <2>1, <2>5, <2>6 DEF k
<1>14. ASSUME NEW k \in 1 .. 2 * n + 1, k \in 2 .. n - dep + 1 \/ k \in n + dep + 2 .. 2 * n + 1
       PROVE  f[k - 1] = f[k]
  <2>1. \A c \in ToSet(s) : c \notin OfStage(n, k)
    <3> SUFFICES ASSUME NEW c \in ToSet(s), c \in OfStage(n, k) PROVE FALSE
      OBVIOUS
    <3>1. c \in Chg /\ Len(c.path) \in Nat /\ Len(c.path) <= dep
      BY <1>2 DEF OfStage
    <3>2. \/ k = 1
          \/ k <= n + 1 /\ Len(c.path) = n + 2 - k
          \/ ~ (k <= n + 1) /\ Len(c.path) = k - n - 1
      BY <1>10, <3>1
    <3>3. k \in Int /\ n \in Nat /\ dep \in Nat
      BY <1>2, <1>9
    <3>4. CASE k \in 2 .. n - dep + 1
      <4>1. k >= 2 /\ k <= n - dep + 1
        BY <3>3, <3>4
      <4>2. k <= n + 1 /\ k # 1 /\ n + 2 - k > dep
        BY <3>3, <4>1
      <4>3. QED  BY <3>1, <3>2, <3>3, <4>2
    <3>5. CASE k \in n + dep + 2 .. 2 * n + 1
      <4>1. k >= n + dep + 2
        BY <3>3, <3>5
      <4>2. ~ (k <= n + 1) /\ k # 1 /\ k - n - 1 > dep
        BY <3>3, <4>1
      <4>3. QED  BY <3>1, <3>2, <3>3, <4>2
    <3>6. QED  BY <1>14, <3>4, <3>5
  <2>2. Those(s, OfStage(n, k)) = <<>>
    BY <1>1, <2>1, ThoseNone
  <2>3. Turns(<<>>, q, f[k - 1], f[k]) /\ f[k - 1] \in Room(q)
    BY <1>8, <2>2
  <2>4. QED  BY <1>3, <2>3, TurnsNothing
<1>15. f[1] = f[n - dep + 1]
  <2>1. 1 \in Nat /\ n - dep \in Nat /\ 1 + (n - dep) = n - dep + 1
    BY <1>2, <1>9
  <2>2. ASSUME NEW k \in 1 + 1 .. 1 + (n - dep) PROVE f[k - 1] = f[k]
    <3>1. k \in 1 .. 2 * n + 1 /\ k \in 2 .. n - dep + 1
      BY <1>2, <1>9
    <3>2. QED  BY <1>14, <3>1
  <2> DEFINE m == n - dep
  <2>3. \A k \in 1 + 1 .. 1 + m : f[k - 1] = f[k]
    BY <2>2
  <2>4. m \in Nat
    BY <2>1
  <2> HIDE DEF m
  <2>5. f[1] = f[1 + m]
    BY <2>1, <2>3, <2>4, NothingHappens
  <2>6. QED  BY <2>1, <2>5 DEF m
<1>16. f[n + dep + 1] = f[2 * n + 1]
  <2> DEFINE m == n - dep
             l == n + dep + 1
  <2>1. l \in Nat /\ m \in Nat /\ l + m = 2 * n + 1
    BY <1>2, <1>9
  <2>2. ASSUME NEW k \in l + 1 .. l + m PROVE f[k - 1] = f[k]
    <3>1. k \in 1 .. 2 * n + 1 /\ k \in n + dep + 2 .. 2 * n + 1
      BY <1>2, <1>9
    <3>2. QED  BY <1>14, <3>1
  <2> HIDE DEF m, l
  <2>3. f[l] = f[l + m]
    BY <2>1, <2>2, NothingHappens
  <2>4. QED  BY <2>1, <2>3 DEF l
<1> HIDE DEF gs, ns
<1>17. gs \in [1 .. dep -> Seq(Chg)] /\ Turns(FlattenSeq(gs), q, f[n - dep + 1], f[n + 1])
  <2> DEFINE g == [j \in 0 .. dep |-> f[n - dep + j + 1]]
  <2>1. gs \in [1 .. dep -> Seq(Chg)]
    <3>1. gs = [d \in 1 .. dep |-> gs[d]]
      BY DEF gs
    <3>2. QED  BY <1>12, <3>1
  <2>2. ASSUME NEW j \in 0 .. dep PROVE g[j] \in Room(q)
    <3>1. CASE j = 0
      <4>1. n - dep + 1 \in 1 .. 2 * n + 1 /\ n - dep + 0 + 1 = n - dep + 1
        BY <1>2, <1>9
      <4>2. f[n - dep + 1] \in Room(q)
        BY <1>8, <4>1
      <4>3. QED  BY <3>1, <4>1, <4>2
    <3>2. CASE j # 0
      <4>1. j \in 1 .. dep
        BY <1>2, <3>2
      <4>2. QED  BY <1>12, <4>1
    <3>3. QED  BY <3>1, <3>2
  <2>3. ASSUME NEW j \in 1 .. dep PROVE Turns(gs[j], q, g[j - 1], g[j])
    <3>1. j - 1 \in 0 .. dep /\ j \in 0 .. dep /\ n - dep + (j - 1) + 1 = n - dep + j
      BY <1>2, <1>9
    <3>2. g[j - 1] = f[n - dep + j] /\ g[j] = f[n - dep + j + 1]
      BY <3>1
    <3> HIDE DEF g
    <3>3. QED  BY <1>12, <3>2
  <2>4. g[0] = f[n - dep + 1] /\ g[dep] = f[n + 1]
    <3>1. 0 \in 0 .. dep /\ dep \in 0 .. dep /\ n - dep + 0 + 1 = n - dep + 1 /\ n - dep + dep + 1 = n + 1
      BY <1>2, <1>9
    <3>2. QED  BY <3>1
  <2> HIDE DEF g
  <2>5. Turns(FlattenSeq(gs), q, g[0], g[dep])
    BY <1>2, <2>1, <2>2, <2>3, TurnsFlatten
  <2>6. QED  BY <2>1, <2>4, <2>5
<1>18. ns \in [1 .. dep -> Seq(Chg)] /\ Turns(FlattenSeq(ns), q, f[n + 1], f[n + dep + 1])
  <2> DEFINE g == [j \in 0 .. dep |-> f[n + j + 1]]
  <2>1. ns \in [1 .. dep -> Seq(Chg)]
    <3>1. ns = [d \in 1 .. dep |-> ns[d]]
      BY DEF ns
    <3>2. QED  BY <1>13, <3>1
  <2>2. ASSUME NEW j \in 0 .. dep PROVE g[j] \in Room(q)
    <3>1. CASE j = 0
      <4>1. n + 1 \in 1 .. 2 * n + 1 /\ n + 0 + 1 = n + 1
        BY <1>9
      <4>2. f[n + 1] \in Room(q)
        BY <1>8, <4>1
      <4>3. QED  BY <3>1, <4>1, <4>2
    <3>2. CASE j # 0
      <4>1. j \in 1 .. dep
        BY <1>2, <3>2
      <4>2. QED  BY <1>13, <4>1
    <3>3. QED  BY <3>1, <3>2
  <2>3. ASSUME NEW j \in 1 .. dep PROVE Turns(ns[j], q, g[j - 1], g[j])
    <3>1. j - 1 \in 0 .. dep /\ j \in 0 .. dep /\ n + (j - 1) + 1 = n + j
      BY <1>2, <1>9
    <3>2. g[j - 1] = f[n + j] /\ g[j] = f[n + j + 1]
      BY <3>1
    <3> HIDE DEF g
    <3>3. QED  BY <1>13, <3>2
  <2>4. g[0] = f[n + 1] /\ g[dep] = f[n + dep + 1]
    <3>1. 0 \in 0 .. dep /\ dep \in 0 .. dep /\ n + 0 + 1 = n + 1
      BY <1>2, <1>9
    <3>2. QED  BY <3>1
  <2> HIDE DEF g
  <2>5. Turns(FlattenSeq(ns), q, g[0], g[dep])
    BY <1>2, <2>1, <2>2, <2>3, TurnsFlatten
  <2>6. QED  BY <2>1, <2>4, <2>5
<1> DEFINE gg == FlattenSeq(gs)
           nn == FlattenSeq(ns)
           rg == rr \o gg
<1>19. gg \in Seq(Chg) /\ nn \in Seq(Chg)
  <2>1. gg \in Seq(Chg)
    BY <1>2, <1>17, FlattenType
  <2>2. nn \in Seq(Chg)
    BY <1>2, <1>18, FlattenType
  <2>3. QED  BY <2>1, <2>2
<1>20. f[0] = a /\ f[2 * n + 1] = b
  BY <1>5 DEF Between
<1> HIDE DEF rr, gg, nn
<1>21. rg \in Seq(Chg) /\ Turns(rg, q, a, f[n + 1])
  <2>1. rg \in Seq(Chg)
    BY <1>11, <1>19, ConcatProperties
  <2>2. Turns(rr, q, a, f[1]) /\ Turns(gg, q, f[1], f[n + 1]) /\ f[1] \in Room(q)
    BY <1>11, <1>15, <1>17, <1>20 DEF gg
  <2>3. Turns(rg, q, a, f[n + 1])
    BY <1>11, <1>19, <2>2, TurnsBoth
  <2>4. QED  BY <2>1, <2>3
<1> HIDE DEF rg
<1>22. Turns(rg \o nn, q, a, b)
  <2>1. f[n + 1] \in Room(q)
    <3>1. n + 1 \in 1 .. 2 * n + 1
      BY <1>9
    <3>2. QED  BY <1>8, <3>1
  <2>2. Turns(nn, q, f[n + 1], b)
    BY <1>16, <1>18, <1>20 DEF nn
  <2>3. QED  BY <1>19, <1>21, <2>1, <2>2, TurnsBoth
<1>23. Patched(a, rg \o nn) = b
  BY <1>22, TurnsWhole
<1>24. QED  BY <1>6, <1>23 DEF rg, gg, nn, s

-------------------------------------------------------------------------------
(* What is sampled are trees, and calls on them. *)
CallsSampled ==
    Sampled("view") => sample \in Viewed \X Asked \X FilterSets \X Limits

LEMMA SampledCalls == Spec => []CallsSampled
<1>1. Init => CallsSampled
  BY DEF Init, CallsSampled, Sampled
<1>2. CallsSampled /\ [Next]_vars => CallsSampled'
  <2> SUFFICES ASSUME CallsSampled, [Next]_vars PROVE CallsSampled'
    OBVIOUS
  <2>1. CASE TakeView
    BY <2>1 DEF TakeView, Take, CallsSampled
  <2>2. CASE TakeCaptures
    BY <2>2 DEF TakeCaptures, Take, CallsSampled, Sampled
  <2>3. CASE UNCHANGED <<part, sample>>
    BY <2>3 DEF CallsSampled, Sampled
  <2>4. QED
    BY <2>1, <2>2, <2>3
       DEF Next, SnapshotStep, TokenStep, SurfaceStep, RaiseStep, vars
<1>3. QED  BY <1>1, <1>2, PTL DEF Spec

(* A caller that follows next_cursor is given every node the call lets through *)
(* and every one above, once each and in order: for trees of any shape and     *)
(* size, any depth, filters and page size.                                   *)
THEOREM PagesCover == Spec => []PagesCoverTheView
<1>1. CallsSampled => PagesCoverTheView
  <2> SUFFICES ASSUME CallsSampled, Sampled("view")
               PROVE  Followed(View(sample[1], sample[2], sample[3]), sample[4])
                         = Wanted(sample[1], sample[2], sample[3])
    BY DEF PagesCoverTheView
  <2>1. sample \in Viewed \X Asked \X FilterSets \X Limits
    BY DEF CallsSampled
  <2>2. sample[1] \in Tree /\ sample[2] \subseteq Int /\ sample[4] \in Nat \ {0}
    BY <2>1, SampleAssumption
  <2>3. QED  BY <2>2, PagesAreTheView
<1>2. QED  BY <1>1, SampledCalls, PTL

(* A derived selector that can be read finds its element, alone unless there is a *)
(* twin on the way, and leads an action back to it; one that cannot leaves it to  *)
(* the element id: in trees of any shape and size, for any relation of names in  *)
(* which each is equal to itself.                                            *)
THEOREM SelectorsFind == Spec => []DerivedSelectorsFind
<1>1. CallsSampled => DerivedSelectorsFind
  <2> DEFINE tree == sample[1]
             D(p) == SelectorFor(tree, p)
             found(p) == Resolve(tree, Parse(D(p)))
             legible(p) == \A k \in DOMAIN D(p) : Legible(D(p)[k])
             alone(p) == \A k \in 1 .. Len(p) : ~ HasTwin(tree, SubSeq(p, 1, k))
             LeadsTo(p, id) == ResolveElement(tree, D(p), id) = {<<p, D(p)>>}
  <2> SUFFICES ASSUME CallsSampled, Sampled("view"), NEW p \in Paths(tree)
               PROVE  /\ legible(p) => /\ p \in ToSet(found(p))
                                       /\ alone(p) => /\ found(p) = <<p>>
                                                      /\ LeadsTo(p, {})
                                                      /\ \A q \in Paths(tree) : LeadsTo(p, {q})
                      /\ ~ legible(p) /\ p # <<>> => LeadsTo(p, {p})
    BY DEF DerivedSelectorsFind
  <2>1. tree \in Tree
    BY SampleAssumption DEF CallsSampled
  <2> HIDE DEF tree
  <2>2. legible(p) => Parse(D(p)) = D(p)
    <3> HIDE DEF D
    <3>1. QED  BY DEF Parse
  <2>3. legible(p) => p \in ToSet(found(p))
    <3>1. p \in ToSet(Resolve(tree, D(p)))
      BY <2>1, DerivedFinds
    <3> HIDE DEF D, legible
    <3>2. QED  BY <2>2, <3>1
  <2>4. ASSUME alone(p) PROVE Resolve(tree, D(p)) = <<p>>
    BY <2>1, <2>4, DerivedFindsAlone
  <2>5. ASSUME legible(p), alone(p), NEW id PROVE LeadsTo(p, id)
    <3>1. Parse(D(p)) = D(p) /\ Resolve(tree, D(p)) = <<p>>
      BY <2>2, <2>4, <2>5
    <3>2. QED  BY <2>1, <3>1, DerivedLeadsBack
  <2>6. ~ legible(p) /\ p # <<>> => LeadsTo(p, {p})
    BY <2>1, DerivedFallsBack
  <2> HIDE DEF legible, alone, LeadsTo, D
  <2>7. legible(p) /\ alone(p) => found(p) = <<p>>
    BY <2>2, <2>4
  <2> HIDE DEF found
  <2>8. QED  BY <2>3, <2>5, <2>6, <2>7
<1>2. QED  BY <1>1, SampledCalls, PTL

CapturesSampled == Sampled("diff") => sample \in Diffed \X Diffed

LEMMA SampledCaptures == Spec => []CapturesSampled
<1>1. Init => CapturesSampled
  BY DEF Init, CapturesSampled, Sampled
<1>2. CapturesSampled /\ [Next]_vars => CapturesSampled'
  <2> SUFFICES ASSUME CapturesSampled, [Next]_vars PROVE CapturesSampled'
    OBVIOUS
  <2>1. CASE TakeView
    BY <2>1 DEF TakeView, Take, CapturesSampled, Sampled
  <2>2. CASE TakeCaptures
    BY <2>2 DEF TakeCaptures, Take, CapturesSampled
  <2>3. CASE UNCHANGED <<part, sample>>
    BY <2>3 DEF CapturesSampled, Sampled
  <2>4. QED
    BY <2>1, <2>2, <2>3
       DEF Next, SnapshotStep, TokenStep, SurfaceStep, RaiseStep, vars
<1>3. QED  BY <1>1, <1>2, PTL DEF Spec

-------------------------------------------------------------------------------
(* What diff.py reads of a tree is a tree, of the same height. *)
SeenVal(t) == IF t.val = <<>> THEN <<>> ELSE <<Head(t.val)>>

LEMMA ComparedDef ==
    \A d \in 0 .. Height : \A t \in TreesUpTo[d] : Compared[t] \in TreesUpTo[d]
<1> DEFINE Row(f, t) == [i \in DOMAIN t.kids |-> f[t.kids[i]]]
           Kids(f, t) == <<>> \o Row(f, t)
           Value(f, t) == Node(t.id, SeenVal(t), Kids(f, t))
           Unrolled(f) == [t \in Tree |-> Value(f, t)]
           h == [f \in [Tree -> Tree] |-> Unrolled(f)]
<1>1. ASSUME NEW f, NEW g, NEW t \in Tree, \A i \in DOMAIN t.kids : f[t.kids[i]] = g[t.kids[i]]
      PROVE  Value(f, t) = Value(g, t)
  <2>1. Row(f, t) = Row(g, t)
    BY <1>1
  <2> HIDE DEF Row
  <2>2. QED  BY <2>1
<1>2. ASSUME NEW f \in [Tree -> Tree], NEW d \in 0 .. Height, NEW t \in TreesUpTo[d],
             d # 0 => \A i \in DOMAIN t.kids : f[t.kids[i]] \in TreesUpTo[d - 1]
      PROVE  Value(f, t) \in TreesUpTo[d]
  <2>0. t \in Tree /\ t.id \in Labels /\ t.val \in Seq(Nat) /\ t.kids \in Seq(Tree)
    BY RankParts, TreeParts
  <2>1. SeenVal(t) \in Seq(Nat)
    <3>1. CASE t.val = <<>>
      BY <3>1, EmptySeq DEF SeenVal
    <3>2. CASE t.val # <<>>
      <4>1. Head(t.val) \in Nat
        BY <2>0, <3>2
      <4>2. QED  BY <3>2, <4>1 DEF SeenVal
    <3>3. QED  BY <3>1, <3>2
  <2>2. Kids(f, t) = <<>> \/ (d # 0 /\ Kids(f, t) \in Seq(TreesUpTo[d - 1]))
    <3>1. CASE d = 0
      <4>1. t.kids = <<>>
        BY <3>1, RankParts
      <4>2. DOMAIN t.kids = {}
        BY <4>1
      <4>3. Row(f, t) = <<>>
        BY <4>2
      <4> HIDE DEF Row
      <4>4. QED  BY <4>3
    <3>2. CASE d # 0
      <4> DEFINE X == TreesUpTo[d - 1]
                 n == Len(t.kids)
      <4>1. n \in Nat /\ DOMAIN t.kids = 1 .. n /\ \A i \in DOMAIN t.kids : f[t.kids[i]] \in X
        BY <1>2, <2>0, <3>2
      <4> HIDE DEF X, n
      <4>2. Row(f, t) \in Seq(X)
        BY <4>1
      <4> HIDE DEF Row
      <4>3. Kids(f, t) \in Seq(X)
        BY <4>2
      <4>4. QED  BY <3>2, <4>3 DEF X
    <3>3. QED  BY <3>1, <3>2
  <2> HIDE DEF Kids, Row
  <2>3. QED  BY <2>0, <2>1, <2>2, RankNode
<1> HIDE DEF Value
<1>3. PICK f \in [Tree -> Tree] : f = Unrolled(f) /\ OfRank(f, TreesUpTo)
  <2>1. \A f \in [Tree -> Tree] : \A t \in Tree : h[f][t] = Value(f, t)
    OBVIOUS
  <2> HIDE DEF h
  <2>2. \A f, g \in [Tree -> Tree] : \A t \in Tree :
           (\A i \in DOMAIN t.kids : f[t.kids[i]] = g[t.kids[i]]) => h[f][t] = h[g][t]
    BY <1>1, <2>1
  <2>3. \A f \in [Tree -> Tree] : \A d \in 0 .. Height : \A t \in TreesUpTo[d] :
           (d # 0 => \A i \in DOMAIN t.kids : f[t.kids[i]] \in TreesUpTo[d - 1])
               => h[f][t] \in TreesUpTo[d]
    BY <1>2, <2>1, RankParts
  <2>4. \A d \in 0 .. Height : TreesUpTo[d] \subseteq Tree
    BY TreesGrow
  <2>5. PICK f \in [Tree -> Tree] : (\A t \in Tree : f[t] = h[f][t]) /\ OfRank(f, TreesUpTo)
    <3>1. Ranked(TreesUpTo, Tree) /\ FromKids(h, TreesUpTo, Tree)
      BY <2>2, <2>3, <2>4 DEF Ranked, FromKids
    <3>2. QED  BY ONLY <3>1, RankRecursion
  <2>6. f = Unrolled(f)
    BY <2>1, <2>5
  <2>7. QED  BY <2>5, <2>6
<1> DEFINE F == Compared
<1>4. F = CHOOSE g : g = Unrolled(g)
  BY DEF Compared, Value, SeenVal
<1> HIDE DEF F
<1>5. F = Unrolled(F)
  <2> HIDE DEF Unrolled
  <2>1. QED  BY <1>3, <1>4
<1>6. \A t \in Tree : F[t] = f[t]
  <2> DEFINE S == {t \in Tree : F[t] = f[t]}
  <2>1. ASSUME NEW t \in Tree, \A i \in DOMAIN t.kids : t.kids[i] \in S PROVE t \in S
    <3>1. Value(F, t) = Value(f, t)
      BY <1>1, <2>1
    <3>2. Unrolled(F)[t] = Value(F, t) /\ Unrolled(f)[t] = Value(f, t)
      OBVIOUS
    <3> HIDE DEF Unrolled
    <3>3. QED  BY <1>3, <1>5, <3>1, <3>2
  <2> HIDE DEF S
  <2>2. Tree \subseteq S
    BY <2>1, TreeInduction
  <2>3. QED  BY <2>2 DEF S
<1>7. \A d \in 0 .. Height : \A t \in TreesUpTo[d] : F[t] \in TreesUpTo[d]
  <2>1. \A d \in 0 .. Height : TreesUpTo[d] \subseteq Tree
    BY TreesGrow
  <2>2. QED  BY <1>3, <1>6, <2>1 DEF OfRank
<1>8. QED  BY <1>7 DEF F

LEMMA ComparedType == \A t \in Tree : Compared[t] \in Tree
<1>1. Height \in 0 .. Height
  BY TreeAssumption
<1>2. QED  BY <1>1, ComparedDef DEF Tree

(* Whoever reads a diff as it is meant gets the new tree, as far as diff.py      *)
(* compares trees.                                                           *)
THEOREM DiffIsTold ==
    ASSUME NEW a \in Tree, NEW b \in Tree
    PROVE  Told(Compared[a], ToSet(Diff(a, b))) = Compared[b]
<1>1. QED  BY ComparedType, DifferencesAreTold DEF Diff

(* Nothing said is nothing changed that diff.py compares. *)
THEOREM NoDiffNoChange ==
    ASSUME NEW a \in Tree, NEW b \in Tree, Diff(a, b) = <<>>
    PROVE  Compared[a] = Compared[b]
<1>1. QED  BY ComparedType, NoDifference DEF Diff

(* A JSON patch of a diff that stays in place gives the tree it was made from,    *)
(* as far as diff.py compares trees (diff_json_patch).                         *)
THEOREM PatchIsTold ==
    ASSUME NEW a \in Tree, NEW b \in Tree, InPlace(ToSet(Diff(a, b)))
    PROVE  Patched(Compared[a], Diff(a, b)) = Compared[b]
<1>1. QED  BY ComparedType, DifferencesPatch DEF Diff

(* And so does apply_custom. *)
THEOREM CustomIsTold ==
    ASSUME NEW a \in Tree, NEW b \in Tree, InPlace(ToSet(Diff(a, b)))
    PROVE  ApplyCustom(Compared[a], Diff(a, b)) = Compared[b]
<1>1. QED  BY ComparedType, DifferencesApply DEF Diff

(* A diff, read as it is meant, tells the tree it was made from in the fields that *)
(* diff.py compares, for captures of any shape and size; apply_custom and a JSON  *)
(* patch make that tree of it where nothing moves and no list loses two children. *)
THEOREM DiffsAreTold == Spec => []DiffsTell
<1>1. CapturesSampled => DiffsTell
  <2> SUFFICES ASSUME CapturesSampled, Sampled("diff") PROVE DiffsTell
    BY DEF DiffsTell
  <2> DEFINE a == sample[1]
             b == sample[2]
             before == Compared[a]
             after == Compared[b]
             diff == Diff(a, b)
  <2>1. a \in Tree /\ b \in Tree
    BY SampleAssumption DEF CapturesSampled
  <2> HIDE DEF a, b
  <2>2. Told(before, ToSet(diff)) = after
    BY <2>1, DiffIsTold
  <2>3. diff = <<>> => before = after
    BY <2>1, NoDiffNoChange
  <2>4. ASSUME InPlace(ToSet(diff)) PROVE ApplyCustom(before, diff) = after
    BY <2>1, <2>4, CustomIsTold
  <2>5. ASSUME InPlace(ToSet(diff)) PROVE Patched(before, diff) = after
    BY <2>1, <2>5, PatchIsTold
  <2> HIDE DEF diff, before, after
  <2>6. QED  BY <2>2, <2>3, <2>4, <2>5 DEF DiffsTell, a, b, before, after, diff
<1>2. QED  BY <1>1, SampledCaptures, PTL
===============================================================================
