----------------------------- MODULE Trees_proofs -----------------------------
(***************************************************************************)
(* Trees of any shape, size and height, their views and the selectors into     *)
(* them: the pages of a view hold every node that is wanted, once each and in   *)
(* order, and a derived selector finds its element.                          *)
(*                                                                          *)
(* All of it is by induction over trees.  A recursive function on trees is     *)
(* first shown to be what its definition says (the lemmas named ...Def);       *)
(* FlattenSeq is one concatenation after the other, and what is done to each   *)
(* member of a sequence by itself may be done before or after FlattenSeq.     *)
(***************************************************************************)
EXTENDS TreeViews, Selectors, DataLemmas, SequenceTheorems, FiniteSetTheorems, TLAPS

-------------------------------------------------------------------------------
(* Sequences. *)

(* Sequences put together: FlattenSeq is n concatenations one after the other. *)
Joins(f, ss, n) == f[0] = <<>> /\ \A k \in 1 .. n : f[k] = f[k - 1] \o ss[k]

LEMMA FlattenRuns ==
    ASSUME NEW X, NEW n \in Nat, NEW ss \in [1 .. n -> Seq(X)]
    PROVE  \E f \in [0 .. n -> Seq(X)] : Joins(f, ss, n) /\ FlattenSeq(ss) = f[n]
  <1> DEFINE T == Seq(X)
             step == [k \in 1 .. n |-> [s \in T |-> s \o ss[k]]]
  <1>0. ss \in Seq(T) /\ Len(ss) = n
    OBVIOUS
  <1>1. step \in [1 .. n -> [T -> T]] /\ <<>> \in T
    <2>1. \A k \in 1 .. n : \A s \in T : s \o ss[k] \in T
      BY ConcatProperties
    <2>2. QED  BY <2>1
  <1>2. PICK f \in [0 .. n -> T] : Runs(f, n, <<>>, step)
    <2> HIDE DEF step, T
    <2>1. QED  BY Zenon, <1>1, Recursion
  <1>3. Joins(f, ss, n)
    <2>1. ASSUME NEW k \in 1 .. n PROVE f[k] = f[k - 1] \o ss[k]
      <3>1. k - 1 \in 0 .. n
        OBVIOUS
      <3>2. f[k - 1] \in T /\ f[k] = step[k][f[k - 1]]
        BY <1>2, <3>1 DEF Runs
      <3>3. QED  BY <3>2
    <2>2. QED  BY <1>2, <2>1 DEF Runs, Joins
  <1> HIDE DEF step
  <1>4. CASE n = 0
    <2>1. FlattenSeq(ss) = ss /\ ss = <<>> /\ f[0] = <<>>
      BY <1>0, <1>3, <1>4 DEF FlattenSeq, Joins
    <2>2. QED  BY <1>3, <1>4, <2>1
  <1>5. CASE n # 0
    <2> DEFINE Joined(g) == [i \in 1 .. n |-> IF i = 1 THEN ss[i] ELSE g[i - 1] \o ss[i]]
               flatten == CHOOSE g : g = Joined(g)
               h == [i \in 1 .. n |-> f[i]]
    <2>1. ASSUME NEW i \in 1 .. n
          PROVE  h[i] = IF i = 1 THEN ss[i] ELSE h[i - 1] \o ss[i]
      <3>1. CASE i = 1
        <4>0. 1 \in 1 .. n /\ 1 - 1 = 0
          BY <3>1
        <4>1. f[1] = <<>> \o ss[1] /\ ss[1] \in T
          <5>1. f[1] = f[1 - 1] \o ss[1] /\ f[0] = <<>>
            BY <1>3, <4>0 DEF Joins
          <5>2. QED  BY <4>0, <5>1
        <4>2. f[1] = ss[1]
          BY <4>1, ConcatEmptySeq
        <4>3. QED  BY <3>1, <4>2
      <3>2. CASE i # 1
        <4>1. i - 1 \in 1 .. n
          BY <3>2
        <4>2. f[i] = f[i - 1] \o ss[i]
          BY <1>3 DEF Joins
        <4>3. h[i] = f[i] /\ h[i - 1] = f[i - 1]
          BY <4>1
        <4> HIDE DEF h
        <4>4. QED  BY <3>2, <4>2, <4>3
      <3>3. QED  BY <3>1, <3>2
    <2>2. h = Joined(h)
      BY <2>1
    <2>3. flatten = Joined(flatten)
      BY <2>2
    <2>4. FlattenSeq(ss) = flatten[n]
      BY <1>0, <1>5, Zenon DEF FlattenSeq
    <2> HIDE DEF flatten
    <2>5. \A i \in 1 .. n : flatten[i] = IF i = 1 THEN ss[i] ELSE flatten[i - 1] \o ss[i]
      BY <2>3
    <2> HIDE DEF h
    <2> DEFINE S == {i \in 0 .. n : i = 0 \/ flatten[i] = h[i]}
    <2>6. 0 \in S
      OBVIOUS
    <2>7. ASSUME NEW i \in 0 .. n - 1, i \in S PROVE i + 1 \in S
      <3>1. i + 1 \in 1 .. n /\ (i + 1) - 1 = i
        OBVIOUS
      <3>2. CASE i = 0
        <4>1. i + 1 = 1 /\ 1 \in 1 .. n
          BY <1>5, <3>2
        <4>2. flatten[1] = ss[1] /\ h[1] = ss[1]
          BY <2>1, <2>5, <4>1
        <4>3. flatten[i + 1] = h[i + 1] /\ i + 1 \in 0 .. n
          BY <4>1, <4>2
        <4>4. QED  BY <4>3
      <3>3. CASE i # 0
        <4>1. i + 1 # 1 /\ flatten[i] = h[i]
          BY <2>7, <3>3
        <4>2. flatten[i + 1] = flatten[i] \o ss[i + 1]
          BY <2>5, <3>1, <4>1
        <4>3. h[i + 1] = h[i] \o ss[i + 1]
          BY <2>1, <3>1, <4>1
        <4>4. flatten[i + 1] = h[i + 1] /\ i + 1 \in 0 .. n
          BY <3>1, <4>1, <4>2, <4>3
        <4>5. QED  BY <4>4
      <3>4. QED  BY <3>2, <3>3
    <2> HIDE DEF S
    <2>8. n \in S
      <3>1. 0 .. n \subseteq S
        BY <2>6, <2>7, Induction
      <3>2. QED  BY <3>1
    <2>9. flatten[n] = f[n]
      <3>1. n \in 1 .. n
        BY <1>5
      <3>2. flatten[n] = h[n]
        BY <1>5, <2>8 DEF S
      <3>3. QED  BY <3>1, <3>2 DEF h
    <2>10. QED  BY <1>3, <2>4, <2>9
  <1>6. QED  BY <1>4, <1>5

(* Two runs of concatenations of the same sequences agree. *)
LEMMA FlattenIs ==
    ASSUME NEW X, NEW n \in Nat, NEW ss \in [1 .. n -> Seq(X)],
           NEW f, Joins(f, ss, n)
    PROVE  /\ FlattenSeq(ss) = f[n]
           /\ \A k \in 0 .. n : f[k] \in Seq(X)
  <1>1. PICK g \in [0 .. n -> Seq(X)] : Joins(g, ss, n) /\ FlattenSeq(ss) = g[n]
    BY FlattenRuns
  <1> DEFINE S == {k \in 0 .. n : f[k] = g[k]}
  <1>2. 0 \in S
    BY <1>1 DEF Joins
  <1>3. ASSUME NEW k \in 0 .. n - 1, k \in S PROVE k + 1 \in S
    <2>1. k + 1 \in 1 .. n /\ (k + 1) - 1 = k /\ f[k] = g[k]
      BY <1>3
    <2>2. f[k + 1] = f[k] \o ss[k + 1] /\ g[k + 1] = g[k] \o ss[k + 1]
      BY <1>1, <2>1 DEF Joins
    <2>3. f[k + 1] = g[k + 1] /\ k + 1 \in 0 .. n
      BY <2>1, <2>2
    <2>4. QED  BY <2>3
  <1> HIDE DEF S
  <1>4. 0 .. n \subseteq S
    BY <1>2, <1>3, Induction
  <1>5. \A k \in 0 .. n : f[k] = g[k]
    BY <1>4 DEF S
  <1>6. QED  BY <1>1, <1>5

LEMMA SeqAsFunction ==
    ASSUME NEW X, NEW s \in Seq(X)
    PROVE  Len(s) \in Nat /\ DOMAIN s = 1 .. Len(s) /\ s \in [1 .. Len(s) -> X]
  OBVIOUS

LEMMA FlattenType ==
    ASSUME NEW X, NEW n \in Nat, NEW ss \in [1 .. n -> Seq(X)]
    PROVE  FlattenSeq(ss) \in Seq(X)
<1>1. PICK f \in [0 .. n -> Seq(X)] : Joins(f, ss, n) /\ FlattenSeq(ss) = f[n]
  BY FlattenRuns
<1>2. n \in 0 .. n
  OBVIOUS
<1>3. QED  BY <1>1, <1>2

LEMMA ConcatMembers ==
    ASSUME NEW X, NEW s \in Seq(X), NEW t \in Seq(X)
    PROVE  ToSet(s \o t) = ToSet(s) \cup ToSet(t)
<1>1. Range(s \o t) = Range(s) \cup Range(t)
  BY RangeConcatenation
<1>2. QED  BY <1>1 DEF Range, ToSet

(* What is in sequences that were put together is in one of them. *)
LEMMA FlattenMembers ==
    ASSUME NEW X, NEW n \in Nat, NEW ss \in [1 .. n -> Seq(X)]
    PROVE  ToSet(FlattenSeq(ss)) = UNION {ToSet(ss[i]) : i \in 1 .. n}
<1>1. PICK f \in [0 .. n -> Seq(X)] : Joins(f, ss, n) /\ FlattenSeq(ss) = f[n]
  BY FlattenRuns
<1> DEFINE In(k) == UNION {ToSet(ss[i]) : i \in 1 .. k}
           S == {k \in 0 .. n : ToSet(f[k]) = In(k)}
<1>2. 0 \in S
  <2>1. ToSet(<<>>) = {} /\ In(0) = {}
    BY DEF ToSet
  <2>2. f[0] = <<>> /\ 0 \in 0 .. n
    BY <1>1 DEF Joins
  <2> HIDE DEF In
  <2>3. QED  BY <2>1, <2>2
<1>3. ASSUME NEW k \in 0 .. n - 1, k \in S PROVE k + 1 \in S
  <2>1. k + 1 \in 1 .. n /\ k + 1 \in 0 .. n /\ (k + 1) - 1 = k
    OBVIOUS
  <2>2. f[k + 1] = f[k] \o ss[k + 1]
    BY <1>1, <2>1 DEF Joins
  <2>3. ToSet(f[k + 1]) = ToSet(f[k]) \cup ToSet(ss[k + 1])
    BY <2>1, <2>2, ConcatMembers
  <2>4. In(k + 1) = In(k) \cup ToSet(ss[k + 1])
    <3>1. 1 .. k + 1 = (1 .. k) \cup {k + 1}
      OBVIOUS
    <3>2. QED  BY <3>1
  <2>5. ToSet(f[k]) = In(k)
    BY <1>3
  <2> HIDE DEF In
  <2>6. QED  BY <2>1, <2>3, <2>4, <2>5
<1> HIDE DEF S
<1>4. 0 .. n \subseteq S
  BY <1>2, <1>3, Induction
<1>5. n \in S
  BY <1>4
<1>6. QED  BY <1>1, <1>5 DEF S

(* Where all but one are empty, that one is all there is. *)
LEMMA FlattenOne ==
    ASSUME NEW X, NEW n \in Nat, NEW ss \in [1 .. n -> Seq(X)],
           NEW m \in 1 .. n, \A i \in 1 .. n : i # m => ss[i] = <<>>
    PROVE  FlattenSeq(ss) = ss[m]
<1> DEFINE f == [k \in 0 .. n |-> IF k < m THEN <<>> ELSE ss[m]]
<1>0. ss[m] \in Seq(X) /\ <<>> \in Seq(X)
  OBVIOUS
<1>1. f[0] = <<>> /\ f[n] = ss[m]
  OBVIOUS
<1>2. ASSUME NEW k \in 1 .. n PROVE f[k] = f[k - 1] \o ss[k]
  <2>1. k \in 0 .. n /\ k - 1 \in 0 .. n
    OBVIOUS
  <2>2. CASE k < m
    <3>1. f[k] = <<>> /\ f[k - 1] = <<>> /\ ss[k] = <<>>
      BY <2>1, <2>2
    <3> HIDE DEF f
    <3>2. QED  BY <3>1
  <2>3. CASE k = m
    <3>1. f[k] = ss[m] /\ f[k - 1] = <<>>
      BY <2>1, <2>3
    <3> HIDE DEF f
    <3>2. <<>> \o ss[m] = ss[m]
      BY <1>0, ConcatEmptySeq
    <3>3. QED  BY <2>3, <3>1, <3>2
  <2>4. CASE k > m
    <3>1. f[k] = ss[m] /\ f[k - 1] = ss[m] /\ ss[k] = <<>>
      BY <2>1, <2>4
    <3> HIDE DEF f
    <3>2. ss[m] \o <<>> = ss[m]
      BY <1>0, ConcatEmptySeq
    <3>3. QED  BY <3>1, <3>2
  <2>5. QED  BY <2>2, <2>3, <2>4
<1>3. Joins(f, ss, n)
  <2> HIDE DEF f
  <2>1. QED  BY <1>1, <1>2 DEF Joins
<1> HIDE DEF f
<1>4. FlattenSeq(ss) = f[n]
  BY <1>3, FlattenIs
<1>5. QED  BY <1>1, <1>4

LEMMA FlattenSingle ==
    ASSUME NEW X, NEW s \in Seq(X)
    PROVE  FlattenSeq(<<s>>) = s
<1> DEFINE ss == <<s>>
<1>1. ss \in [1 .. 1 -> Seq(X)] /\ ss[1] = s
  <2>1. ss \in Seq(Seq(X)) /\ Len(ss) = 1 /\ ss[1] = s
    OBVIOUS
  <2> HIDE DEF ss
  <2>2. QED  BY <2>1, SeqAsFunction
<1>2. 1 \in Nat /\ 1 \in 1 .. 1 /\ \A i \in 1 .. 1 : i # 1 => ss[i] = <<>>
  OBVIOUS
<1> HIDE DEF ss
<1>3. \A n \in Nat : \A qq \in [1 .. n -> Seq(X)] : \A m \in 1 .. n :
         (\A i \in 1 .. n : i # m => qq[i] = <<>>) => FlattenSeq(qq) = qq[m]
  BY FlattenOne
<1>4. FlattenSeq(ss) = ss[1]
  BY <1>1, <1>2, <1>3
<1>5. QED  BY <1>1, <1>4 DEF ss

LEMMA FlattenNone ==
    ASSUME NEW X, NEW n \in Nat, NEW ss \in [1 .. n -> Seq(X)],
           \A i \in 1 .. n : ss[i] = <<>>
    PROVE  FlattenSeq(ss) = <<>>
<1> DEFINE f == [k \in 0 .. n |-> <<>>]
<1>1. Joins(f, ss, n)
  <2>1. ASSUME NEW k \in 1 .. n PROVE f[k] = f[k - 1] \o ss[k]
    <3>1. f[k] = <<>> /\ f[k - 1] = <<>> /\ ss[k] = <<>>
      OBVIOUS
    <3> HIDE DEF f
    <3>2. QED  BY <3>1
  <2>2. f[0] = <<>>
    OBVIOUS
  <2> HIDE DEF f
  <2>3. QED  BY <2>1, <2>2 DEF Joins
<1>2. f[n] = <<>>
  OBVIOUS
<1> HIDE DEF f
<1>3. QED  BY <1>1, <1>2, FlattenIs

(* Putting together in two parts. *)
LEMMA FlattenConcat ==
    ASSUME NEW X, NEW ss \in Seq(Seq(X)), NEW tt \in Seq(Seq(X))
    PROVE  FlattenSeq(ss \o tt) = FlattenSeq(ss) \o FlattenSeq(tt)
<1> DEFINE n == Len(ss)
           m == Len(tt)
           st == ss \o tt
<1>1. /\ n \in Nat /\ m \in Nat
      /\ ss \in [1 .. n -> Seq(X)] /\ tt \in [1 .. m -> Seq(X)]
  BY SeqAsFunction
<1>2. /\ st \in [1 .. n + m -> Seq(X)]
      /\ \A k \in 1 .. n + m : st[k] = IF k <= n THEN ss[k] ELSE tt[k - n]
  <2>1. /\ st \in Seq(Seq(X)) /\ Len(st) = n + m
        /\ \A k \in 1 .. n + m : st[k] = IF k <= n THEN ss[k] ELSE tt[k - n]
    BY ConcatProperties
  <2> HIDE DEF st
  <2>2. QED  BY <2>1, SeqAsFunction
<1>3. PICK f \in [0 .. n -> Seq(X)] : Joins(f, ss, n) /\ FlattenSeq(ss) = f[n]
  BY <1>1, FlattenRuns
<1>4. PICK g \in [0 .. m -> Seq(X)] : Joins(g, tt, m) /\ FlattenSeq(tt) = g[m]
  BY <1>1, FlattenRuns
<1> HIDE DEF n, m, st
<1> DEFINE h == [k \in 0 .. n + m |-> IF k <= n THEN f[k] ELSE f[n] \o g[k - n]]
<1>5. f[0] = <<>> /\ g[0] = <<>> /\ f[n] \in Seq(X)
  BY <1>1, <1>3, <1>4 DEF Joins
<1>6. h[0] = <<>>
  BY <1>1, <1>5
<1>7. ASSUME NEW k \in 1 .. n + m PROVE h[k] = h[k - 1] \o st[k]
  <2>0. k \in 0 .. n + m /\ k - 1 \in 0 .. n + m
    BY <1>1
  <2>1. CASE k <= n
    <3>1. k \in 1 .. n /\ k - 1 <= n
      BY <1>1, <2>1
    <3>2. h[k] = f[k] /\ h[k - 1] = f[k - 1] /\ st[k] = ss[k]
      BY <1>2, <2>0, <2>1, <3>1
    <3>3. f[k] = f[k - 1] \o ss[k]
      BY <1>3, <3>1 DEF Joins
    <3> HIDE DEF h
    <3>4. QED  BY <3>2, <3>3
  <2>2. CASE ~ (k <= n)
    <3>1. k - n \in 1 .. m /\ (k - n) - 1 \in 0 .. m
      BY <1>1, <2>2
    <3>2. h[k] = f[n] \o g[k - n] /\ st[k] = tt[k - n]
      BY <1>2, <2>0, <2>2
    <3>3. g[k - n] = g[(k - n) - 1] \o tt[k - n]
      BY <1>4, <3>1 DEF Joins
    <3>4. h[k - 1] = f[n] \o g[(k - n) - 1]
      <4>1. CASE k - 1 <= n
        <5>1. k - 1 = n /\ (k - n) - 1 = 0
          BY <1>1, <2>2, <4>1
        <5>2. h[k - 1] = f[n]
          BY <2>0, <5>1
        <5>3. f[n] \o <<>> = f[n]
          BY <1>5, ConcatEmptySeq
        <5> HIDE DEF h
        <5>4. QED  BY <1>5, <5>1, <5>2, <5>3
      <4>2. CASE ~ (k - 1 <= n)
        <5>1. (k - 1) - n = (k - n) - 1
          BY <1>1
        <5>2. h[k - 1] = f[n] \o g[(k - 1) - n]
          BY <2>0, <4>2
        <5> HIDE DEF h
        <5>3. QED  BY <5>1, <5>2
      <4>3. QED  BY <4>1, <4>2
    <3>5. (f[n] \o g[(k - n) - 1]) \o tt[k - n] = f[n] \o (g[(k - n) - 1] \o tt[k - n])
      <4>1. g[(k - n) - 1] \in Seq(X) /\ tt[k - n] \in Seq(X)
        BY <1>1, <3>1
      <4>2. \A a, b, c \in Seq(X) : (a \o b) \o c = a \o (b \o c)
        BY ConcatAssociative
      <4>3. QED  BY <1>5, <4>1, <4>2
    <3> HIDE DEF h
    <3>6. QED  BY <3>2, <3>3, <3>4, <3>5
  <2>3. QED  BY <2>1, <2>2
<1>8. h[n + m] = f[n] \o g[m]
  <2>1. CASE m = 0
    <3>1. h[n + m] = f[n]
      BY <1>1, <2>1
    <3>2. f[n] \o <<>> = f[n]
      BY <1>5, ConcatEmptySeq
    <3> HIDE DEF h
    <3>3. QED  BY <1>5, <2>1, <3>1, <3>2
  <2>2. CASE m # 0
    <3>1. n + m \in 0 .. n + m /\ ~ (n + m <= n) /\ (n + m) - n = m
      BY <1>1, <2>2
    <3>2. QED  BY <3>1
  <2>3. QED  BY <2>1, <2>2
<1> HIDE DEF h
<1>9. n + m \in Nat
  BY <1>1
<1>10. FlattenSeq(st) = h[n + m]
  <2>1. \A l \in Nat : st \in [1 .. l -> Seq(X)] /\ Joins(h, st, l) => FlattenSeq(st) = h[l]
    BY FlattenIs, Zenon
  <2>2. Joins(h, st, n + m)
    BY <1>6, <1>7, Zenon DEF Joins
  <2>3. QED  BY <1>2, <1>9, <2>1, <2>2
<1>11. QED  BY <1>3, <1>4, <1>8, <1>10 DEF st

(* What is done to each member of a sequence by itself may be done before the    *)
(* sequences are put together, or after.                                      *)
Piecewise(h, X, Y) ==
    /\ h \in [Seq(X) -> Seq(Y)] /\ h[<<>>] = <<>>
    /\ \A s, t \in Seq(X) : h[s \o t] = h[s] \o h[t]

LEMMA FlattenThrough ==
    ASSUME NEW X, NEW Y, NEW h, Piecewise(h, X, Y),
           NEW n \in Nat, NEW ss \in [1 .. n -> Seq(X)]
    PROVE  h[FlattenSeq(ss)] = FlattenSeq([i \in 1 .. n |-> h[ss[i]]])
<1>1. PICK f \in [0 .. n -> Seq(X)] : Joins(f, ss, n) /\ FlattenSeq(ss) = f[n]
  BY FlattenRuns
<1> DEFINE tt == [i \in 1 .. n |-> h[ss[i]]]
           g == [k \in 0 .. n |-> h[f[k]]]
<1>2. tt \in [1 .. n -> Seq(Y)]
  BY DEF Piecewise
<1>3. g[0] = <<>>
  BY <1>1 DEF Joins, Piecewise
<1>4. ASSUME NEW k \in 1 .. n PROVE g[k] = g[k - 1] \o tt[k]
  <2>1. k \in 0 .. n /\ k - 1 \in 0 .. n /\ f[k - 1] \in Seq(X) /\ ss[k] \in Seq(X)
    OBVIOUS
  <2>2. f[k] = f[k - 1] \o ss[k]
    BY <1>1 DEF Joins
  <2>3. g[k] = h[f[k]] /\ g[k - 1] = h[f[k - 1]] /\ tt[k] = h[ss[k]]
    BY <2>1 DEF Piecewise
  <2>4. h[f[k - 1] \o ss[k]] = h[f[k - 1]] \o h[ss[k]]
    BY <2>1 DEF Piecewise
  <2> HIDE DEF g, tt
  <2>5. QED  BY <2>2, <2>3, <2>4
<1>5. g[n] = h[f[n]]
  OBVIOUS
<1> HIDE DEF g, tt
<1>6. Joins(g, tt, n)
  BY <1>3, <1>4 DEF Joins
<1>7. FlattenSeq(tt) = g[n]
  BY <1>2, <1>6, FlattenIs
<1>8. QED  BY <1>1, <1>5, <1>7 DEF tt

(* What is kept of a sequence. *)
LEMMA ThoseParts ==
    ASSUME NEW X, NEW s \in Seq(X), NEW S
    PROVE  /\ Those(s, S) \in Seq(X)
           /\ ToSet(Those(s, S)) = ToSet(s) \cap S
           /\ \A m \in DOMAIN s :
                 (s[m] \in S /\ \A i \in DOMAIN s : i # m => s[i] \notin S)
                     => Those(s, S) = <<s[m]>>
           /\ (\A i \in DOMAIN s : s[i] \notin S) => Those(s, S) = <<>>
<1> DEFINE n == Len(s)
           ss == [i \in 1 .. n |-> IF s[i] \in S THEN <<s[i]>> ELSE <<>>]
<1>1. n \in Nat /\ DOMAIN s = 1 .. n /\ \A i \in 1 .. n : s[i] \in X
  OBVIOUS
<1>2. Those(s, S) = FlattenSeq(ss)
  BY <1>1 DEF Those
<1>3. ss \in [1 .. n -> Seq(X)]
  <2>1. ASSUME NEW i \in 1 .. n PROVE ss[i] \in Seq(X)
    <3>1. <<s[i]>> \in Seq(X) /\ <<>> \in Seq(X)
      BY <1>1
    <3>2. QED  BY <3>1
  <2>2. QED  BY <2>1
<1>4. /\ \A i \in 1 .. n : s[i] \in S => ss[i] = <<s[i]>>
      /\ \A i \in 1 .. n : s[i] \notin S => ss[i] = <<>>
  OBVIOUS
<1> HIDE DEF ss, n
<1>5. FlattenSeq(ss) \in Seq(X)
  BY <1>1, <1>3, FlattenType
<1>6. ToSet(FlattenSeq(ss)) = ToSet(s) \cap S
  <2>1. ToSet(FlattenSeq(ss)) = UNION {ToSet(ss[i]) : i \in 1 .. n}
    BY <1>1, <1>3, FlattenMembers
  <2>2. \A i \in 1 .. n : ToSet(ss[i]) = {s[i]} \cap S
    <3>1. ASSUME NEW i \in 1 .. n, s[i] \in S PROVE ToSet(ss[i]) = {s[i]} \cap S
      <4>1. ToSet(<<s[i]>>) = {s[i]}
        BY DEF ToSet
      <4>2. QED  BY <1>4, <3>1, <4>1
    <3>2. ASSUME NEW i \in 1 .. n, s[i] \notin S PROVE ToSet(ss[i]) = {s[i]} \cap S
      <4>1. ToSet(<<>>) = {}
        BY DEF ToSet
      <4>2. QED  BY <1>4, <3>2, <4>1
    <3>3. QED  BY <3>1, <3>2
  <2>3. ToSet(s) = {s[i] : i \in 1 .. n}
    BY <1>1 DEF ToSet
  <2>4. QED  BY <2>1, <2>2, <2>3
<1>7. ASSUME NEW m \in 1 .. n, s[m] \in S, \A i \in 1 .. n : i # m => s[i] \notin S
      PROVE  FlattenSeq(ss) = <<s[m]>>
  <2>1. \A i \in 1 .. n : i # m => ss[i] = <<>>
    BY <1>4, <1>7
  <2>2. FlattenSeq(ss) = ss[m]
    BY <1>1, <1>3, <2>1, FlattenOne
  <2>3. QED  BY <1>4, <1>7, <2>2
<1>8. ASSUME \A i \in 1 .. n : s[i] \notin S
      PROVE  FlattenSeq(ss) = <<>>
  <2>1. \A i \in 1 .. n : ss[i] = <<>>
    BY <1>4, <1>8
  <2>2. QED  BY <1>1, <1>3, <2>1, FlattenNone
<1>9. QED  BY <1>1, <1>2, <1>5, <1>6, <1>7, <1>8

(* What a function makes of the members of a sequence. *)
Mapped(g, s) == [k \in DOMAIN s |-> g[s[k]]]

Maps(g, X, Y) == g \in [X -> Y]

LEMMA MappedType ==
    ASSUME NEW X, NEW Y, NEW g, NEW s, Maps(g, X, Y), s \in Seq(X)
    PROVE  Mapped(g, s) \in Seq(Y)
BY DEF Mapped, Maps

LEMMA MappedEmpty ==
    ASSUME NEW g
    PROVE  Mapped(g, <<>>) = <<>>
BY DEF Mapped

LEMMA MappedOne ==
    ASSUME NEW X, NEW Y, NEW g, NEW x, Maps(g, X, Y), x \in X
    PROVE  Mapped(g, <<x>>) = <<g[x]>>
<1>1. <<x>> \in Seq(X) /\ Len(<<x>>) = 1 /\ <<x>>[1] = x
  OBVIOUS
<1> DEFINE s == <<x>>
           m == Mapped(g, s)
<1>2. s \in Seq(X) /\ Len(s) = 1 /\ s[1] = x
  BY <1>1
<1> HIDE DEF s
<1>3. m \in Seq(Y) /\ Len(m) = Len(s) /\ \A k \in 1 .. Len(s) : m[k] = g[s[k]]
  BY <1>2 DEF Mapped, Maps
<1> HIDE DEF m
<1>4. m = <<g[x]>>
  BY <1>2, <1>3
<1>5. QED  BY <1>4 DEF m, s

LEMMA MappedConcat ==
    ASSUME NEW X, NEW Y, NEW g, NEW s, NEW t,
           Maps(g, X, Y), s \in Seq(X), t \in Seq(X)
    PROVE  Mapped(g, s \o t) = Mapped(g, s) \o Mapped(g, t)
<1> DEFINE a == Mapped(g, s)
           b == Mapped(g, t)
           st == s \o t
           c == Mapped(g, st)
           d == a \o b
<1>1. a \in Seq(Y) /\ Len(a) = Len(s) /\ \A k \in 1 .. Len(s) : a[k] = g[s[k]]
  BY DEF Mapped, Maps
<1>2. b \in Seq(Y) /\ Len(b) = Len(t) /\ \A k \in 1 .. Len(t) : b[k] = g[t[k]]
  BY DEF Mapped, Maps
<1>3. /\ st \in Seq(X) /\ Len(st) = Len(s) + Len(t)
      /\ \A k \in 1 .. Len(s) + Len(t) : st[k] = IF k <= Len(s) THEN s[k] ELSE t[k - Len(s)]
  BY ConcatProperties
<1> HIDE DEF st
<1>4. c \in Seq(Y) /\ Len(c) = Len(st) /\ \A k \in 1 .. Len(st) : c[k] = g[st[k]]
  BY <1>3 DEF Mapped, Maps
<1> HIDE DEF a, b, c
<1>5. /\ d \in Seq(Y) /\ Len(d) = Len(a) + Len(b)
      /\ \A k \in 1 .. Len(a) + Len(b) : d[k] = IF k <= Len(a) THEN a[k] ELSE b[k - Len(a)]
  BY <1>1, <1>2, ConcatProperties
<1> HIDE DEF d
<1>6. ASSUME NEW k \in 1 .. Len(c) PROVE c[k] = d[k]
  <2>0. Len(s) \in Nat /\ Len(t) \in Nat /\ k \in 1 .. Len(s) + Len(t)
    BY <1>3, <1>4
  <2>1. c[k] = g[st[k]]
    BY <1>4, <1>3, <2>0
  <2>2. CASE k <= Len(s)
    <3>1. k \in 1 .. Len(s) /\ k <= Len(a) /\ k \in 1 .. Len(a) + Len(b)
      BY <1>1, <1>2, <2>0, <2>2
    <3>2. st[k] = s[k] /\ d[k] = a[k] /\ a[k] = g[s[k]]
      BY <1>1, <1>3, <1>5, <2>0, <2>2, <3>1
    <3>3. QED  BY <2>1, <3>2
  <2>3. CASE ~ (k <= Len(s))
    <3>1. /\ k - Len(s) \in 1 .. Len(t) /\ ~ (k <= Len(a)) /\ k \in 1 .. Len(a) + Len(b)
          /\ k - Len(s) = k - Len(a)
      BY <1>1, <1>2, <2>0, <2>3
    <3>2. st[k] = t[k - Len(s)] /\ d[k] = b[k - Len(a)] /\ b[k - Len(s)] = g[t[k - Len(s)]]
      BY <1>2, <1>3, <1>5, <2>0, <2>3, <3>1
    <3>3. QED  BY <2>1, <3>1, <3>2
  <2>4. QED  BY <2>2, <2>3
<1>7. Len(c) = Len(d)
  BY <1>1, <1>2, <1>3, <1>4, <1>5
<1>8. c = d
  BY ONLY <1>4, <1>5, <1>6, <1>7, SeqEqual
<1>9. QED  BY <1>8 DEF c, d, a, b, st

LEMMA FlattenSeqType ==
    ASSUME NEW X, NEW ss, ss \in Seq(Seq(X))
    PROVE  FlattenSeq(ss) \in Seq(X)
<1>1. Len(ss) \in Nat /\ ss \in [1 .. Len(ss) -> Seq(X)]
  BY ONLY ss \in Seq(Seq(X)), SeqAsFunction
<1>2. QED  BY ONLY <1>1, FlattenType

LEMMA FlattenMapped ==
    ASSUME NEW X, NEW Y, NEW h, NEW ss, Piecewise(h, X, Y), ss \in Seq(Seq(X))
    PROVE  h[FlattenSeq(ss)] = FlattenSeq(Mapped(h, ss))
<1> DEFINE n == Len(ss)
           tt == [i \in 1 .. n |-> h[ss[i]]]
<1>1. n \in Nat /\ DOMAIN ss = 1 .. n /\ ss \in [1 .. n -> Seq(X)]
  BY ONLY ss \in Seq(Seq(X)), SeqAsFunction
<1>2. Mapped(h, ss) = tt
  BY <1>1 DEF Mapped
<1> HIDE DEF n
<1>3. h[FlattenSeq(ss)] = FlattenSeq([i \in 1 .. n |-> h[ss[i]]])
  BY ONLY Piecewise(h, X, Y), <1>1, FlattenThrough
<1>4. QED  BY <1>2, <1>3

(* The function of sequences that it makes. *)
MapOf(g, X) == [s \in Seq(X) |-> Mapped(g, s)]

LEMMA MapOfPiecewise ==
    ASSUME NEW X, NEW Y, NEW g, Maps(g, X, Y)
    PROVE  Piecewise(MapOf(g, X), X, Y)
<1> DEFINE h == MapOf(g, X)
<1>1. \A s \in Seq(X) : Mapped(g, s) \in Seq(Y)
  <2>1. ASSUME NEW s, s \in Seq(X) PROVE Mapped(g, s) \in Seq(Y)
    BY ONLY Maps(g, X, Y), <2>1, MappedType
  <2>2. QED  BY <2>1
<1>2. \A s, t \in Seq(X) : Mapped(g, s \o t) = Mapped(g, s) \o Mapped(g, t)
  <2>1. ASSUME NEW s, NEW t, s \in Seq(X), t \in Seq(X)
        PROVE  Mapped(g, s \o t) = Mapped(g, s) \o Mapped(g, t)
    BY ONLY Maps(g, X, Y), <2>1, MappedConcat
  <2>2. QED  BY <2>1
<1>3. \A s \in Seq(X) : h[s] = Mapped(g, s)
  BY DEF MapOf
<1>4. h \in [Seq(X) -> Seq(Y)]
  BY <1>1 DEF MapOf
<1> HIDE DEF h
<1>5. h[<<>>] = <<>>
  BY <1>3, EmptySeq, MappedEmpty
<1>6. \A s, t \in Seq(X) : s \o t \in Seq(X)
  BY ConcatProperties
<1>7. \A s, t \in Seq(X) : h[s \o t] = h[s] \o h[t]
  BY <1>2, <1>3, <1>6
<1>8. QED  BY <1>4, <1>5, <1>7 DEF Piecewise, h

LEMMA MappedFlatten ==
    ASSUME NEW X, NEW Y, NEW g, NEW ss, Maps(g, X, Y), ss \in Seq(Seq(X))
    PROVE  Mapped(g, FlattenSeq(ss)) = FlattenSeq(Mapped(MapOf(g, X), ss))
<1> DEFINE h == MapOf(g, X)
<1>1. Piecewise(h, X, Y)
  BY ONLY Maps(g, X, Y), MapOfPiecewise
<1>2. FlattenSeq(ss) \in Seq(X)
  BY ONLY ss \in Seq(Seq(X)), FlattenSeqType
<1>3. h[FlattenSeq(ss)] = Mapped(g, FlattenSeq(ss))
  BY <1>2 DEF MapOf
<1> HIDE DEF h
<1>4. h[FlattenSeq(ss)] = FlattenSeq(Mapped(h, ss))
  BY ONLY <1>1, ss \in Seq(Seq(X)), FlattenMapped
<1>5. QED  BY <1>3, <1>4 DEF h

(* Keeping the members of a set, of sequences put together. *)
LEMMA ThoseEmpty ==
    ASSUME NEW S
    PROVE  Those(<<>>, S) = <<>>
<1>1. [i \in DOMAIN <<>> |-> IF <<>>[i] \in S THEN << <<>>[i] >> ELSE <<>>] = <<>>
  OBVIOUS
<1>2. FlattenSeq(<<>>) = <<>>
  BY DEF FlattenSeq
<1>3. QED  BY <1>1, <1>2 DEF Those

LEMMA ThoseOne ==
    ASSUME NEW x, NEW S
    PROVE  Those(<<x>>, S) = IF x \in S THEN <<x>> ELSE <<>>
<1> DEFINE c == IF x \in S THEN <<x>> ELSE <<>>
<1>1. [i \in DOMAIN <<x>> |-> IF <<x>>[i] \in S THEN << <<x>>[i] >> ELSE <<>>] = <<c>>
  <2>1. \A i \in DOMAIN <<x>> : i = 1 /\ <<x>>[i] = x
    OBVIOUS
  <2>2. QED  BY <2>1
<1>2. c \in Seq({x})
  <2>1. <<x>> \in Seq({x}) /\ <<>> \in Seq({x})
    OBVIOUS
  <2>2. QED  BY <2>1
<1> HIDE DEF c
<1>3. FlattenSeq(<<c>>) = c
  BY ONLY <1>2, FlattenSingle
<1>4. QED  BY <1>1, <1>3 DEF Those, c

LEMMA ThoseConcat ==
    ASSUME NEW X, NEW S, NEW s, NEW t, s \in Seq(X), t \in Seq(X)
    PROVE  Those(s \o t, S) = Those(s, S) \o Those(t, S)
<1> DEFINE g == [x \in X |-> IF x \in S THEN <<x>> ELSE <<>>]
           Y == Seq(X)
<1>1. Maps(g, X, Y)
  <2>1. \A x \in X : <<x>> \in Seq(X) /\ <<>> \in Seq(X)
    OBVIOUS
  <2>2. QED  BY <2>1 DEF Maps
<1>2. ASSUME NEW r \in Seq(X) PROVE Those(r, S) = FlattenSeq(Mapped(g, r))
  <2>1. [i \in DOMAIN r |-> IF r[i] \in S THEN <<r[i]>> ELSE <<>>] = Mapped(g, r)
    BY DEF Mapped
  <2>2. QED  BY <2>1 DEF Those
<1> HIDE DEF g
<1>3. s \o t \in Seq(X)
  BY ConcatProperties
<1> HIDE DEF Y
<1>4. Mapped(g, s \o t) = Mapped(g, s) \o Mapped(g, t)
  BY ONLY <1>1, s \in Seq(X), t \in Seq(X), MappedConcat
<1>5. Mapped(g, s) \in Seq(Y) /\ Mapped(g, t) \in Seq(Y)
  <2>1. Mapped(g, s) \in Seq(Y)
    BY ONLY <1>1, s \in Seq(X), MappedType
  <2>2. Mapped(g, t) \in Seq(Y)
    BY ONLY <1>1, t \in Seq(X), MappedType
  <2>3. QED  BY ONLY <2>1, <2>2
<1>6. FlattenSeq(Mapped(g, s) \o Mapped(g, t)) = FlattenSeq(Mapped(g, s)) \o FlattenSeq(Mapped(g, t))
  <2> DEFINE a == Mapped(g, s)
             b == Mapped(g, t)
  <2>1. a \in Seq(Seq(X)) /\ b \in Seq(Seq(X))
    BY <1>5 DEF Y
  <2> HIDE DEF a, b
  <2>2. FlattenSeq(a \o b) = FlattenSeq(a) \o FlattenSeq(b)
    BY ONLY <2>1, FlattenConcat
  <2>3. QED  BY <2>2 DEF a, b
<1>7. QED  BY <1>2, <1>3, <1>4, <1>6

(* Only what the set says of the members counts. *)
LEMMA ThoseSame ==
    ASSUME NEW s, NEW S, NEW Q, \A i \in DOMAIN s : s[i] \in S <=> s[i] \in Q
    PROVE  Those(s, S) = Those(s, Q)
<1>1. [i \in DOMAIN s |-> IF s[i] \in S THEN <<s[i]>> ELSE <<>>]
         = [i \in DOMAIN s |-> IF s[i] \in Q THEN <<s[i]>> ELSE <<>>]
  OBVIOUS
<1>2. QED  BY <1>1 DEF Those

(* Keeping before or after a function was applied. *)
LEMMA ThoseMapped ==
    ASSUME NEW X, NEW Y, NEW g, NEW s, NEW S, Maps(g, X, Y), s \in Seq(X)
    PROVE  Those(Mapped(g, s), S) = Mapped(g, Those(s, {x \in X : g[x] \in S}))
<1> DEFINE Q == {x \in X : g[x] \in S}
           ss == [i \in DOMAIN s |-> IF s[i] \in Q THEN <<s[i]>> ELSE <<>>]
           m == Mapped(g, s)
           tt == [i \in DOMAIN m |-> IF m[i] \in S THEN <<m[i]>> ELSE <<>>]
<1>1. /\ DOMAIN s = 1 .. Len(s) /\ Len(s) \in Nat
      /\ \A i \in DOMAIN s : s[i] \in X /\ (s[i] \in Q <=> g[s[i]] \in S)
  BY DEF Maps
<1>2. DOMAIN m = DOMAIN s /\ \A i \in DOMAIN s : m[i] = g[s[i]]
  BY DEF Mapped
<1>3. Those(s, Q) = FlattenSeq(ss)
  BY DEF Those
<1>4. Those(m, S) = FlattenSeq(tt)
  BY DEF Those
<1> HIDE DEF Q, m
<1>5. ss \in Seq(Seq(X))
  <2>1. ASSUME NEW i \in DOMAIN s PROVE ss[i] \in Seq(X)
    <3>1. s[i] \in X
      BY <1>1
    <3>2. <<s[i]>> \in Seq(X) /\ <<>> \in Seq(X)
      BY <3>1
    <3>3. QED  BY <3>2
  <2> DEFINE Z == Seq(X)
             n == Len(s)
  <2>2. DOMAIN ss = 1 .. n /\ n \in Nat /\ \A i \in 1 .. n : ss[i] \in Z
    BY <1>1, <2>1
  <2> HIDE DEF Z, n
  <2>3. [i \in 1 .. n |-> ss[i]] \in Seq(Z)
    BY <2>2
  <2>4. ss = [i \in 1 .. n |-> ss[i]]
    BY <2>2
  <2>5. QED  BY <2>3, <2>4 DEF Z
<1>6. ASSUME NEW i \in DOMAIN s PROVE Mapped(g, ss[i]) = tt[i]
  <2>1. s[i] \in X /\ (s[i] \in Q <=> m[i] \in S) /\ m[i] = g[s[i]] /\ i \in DOMAIN m
    BY <1>1, <1>2
  <2>2. Mapped(g, <<s[i]>>) = <<g[s[i]]>> /\ Mapped(g, <<>>) = <<>>
    BY ONLY <2>1, Maps(g, X, Y), MappedOne, MappedEmpty
  <2>3. CASE s[i] \in Q
    BY <2>1, <2>2, <2>3
  <2>4. CASE s[i] \notin Q
    BY <2>1, <2>2, <2>4
  <2>5. QED  BY <2>3, <2>4
<1> DEFINE h == MapOf(g, X)
<1>7. Mapped(h, ss) = tt
  <2>1. ASSUME NEW i \in DOMAIN s PROVE Mapped(h, ss)[i] = tt[i]
    <3>1. ss[i] \in Seq(X)
      <4>1. DOMAIN ss = DOMAIN s
        OBVIOUS
      <4> HIDE DEF ss
      <4>2. QED  BY <1>5, <4>1
    <3>2. DOMAIN ss = DOMAIN s
      OBVIOUS
    <3> HIDE DEF ss, tt
    <3>3. Mapped(h, ss)[i] = h[ss[i]]
      BY <3>2 DEF Mapped
    <3>4. h[ss[i]] = Mapped(g, ss[i])
      BY <3>1 DEF MapOf
    <3>5. QED  BY <1>6, <3>3, <3>4
  <2>2. DOMAIN Mapped(h, ss) = DOMAIN s /\ DOMAIN tt = DOMAIN s
    BY <1>2 DEF Mapped
  <2>3. Mapped(h, ss) = [i \in DOMAIN s |-> Mapped(h, ss)[i]]
    BY <2>2 DEF Mapped
  <2>4. tt = [i \in DOMAIN s |-> tt[i]]
    BY <2>2
  <2> HIDE DEF h, ss, tt
  <2>5. QED  BY <2>1, <2>3, <2>4
<1> HIDE DEF ss, tt
<1>8. Mapped(g, FlattenSeq(ss)) = FlattenSeq(Mapped(h, ss))
  BY ONLY Maps(g, X, Y), <1>5, MappedFlatten
<1>9. QED  BY <1>3, <1>4, <1>7, <1>8 DEF Q, m

(* What is mapped and what is kept, of sequences put together. *)
KeptAs(g, S, X) == [s \in Seq(X) |-> Mapped(g, Those(s, S))]

LEMMA KeptAsPiecewise ==
    ASSUME NEW X, NEW Y, NEW g, NEW S, Maps(g, X, Y)
    PROVE  Piecewise(KeptAs(g, S, X), X, Y)
<1> DEFINE h == KeptAs(g, S, X)
<1>1. \A s \in Seq(X) : Those(s, S) \in Seq(X)
  <2>1. ASSUME NEW s, s \in Seq(X) PROVE Those(s, S) \in Seq(X)
    BY ONLY <2>1, ThoseParts
  <2>2. QED  BY <2>1
<1>2. \A s \in Seq(X) : Mapped(g, s) \in Seq(Y)
  <2>1. ASSUME NEW s, s \in Seq(X) PROVE Mapped(g, s) \in Seq(Y)
    BY ONLY Maps(g, X, Y), <2>1, MappedType
  <2>2. QED  BY <2>1
<1>3. \A s \in Seq(X) : h[s] = Mapped(g, Those(s, S))
  BY DEF KeptAs
<1>4. h \in [Seq(X) -> Seq(Y)]
  BY <1>1, <1>2 DEF KeptAs
<1> HIDE DEF h
<1>5. h[<<>>] = <<>>
  BY <1>3, EmptySeq, MappedEmpty, ThoseEmpty
<1>6. \A s, t \in Seq(X) : h[s \o t] = h[s] \o h[t]
  <2>1. ASSUME NEW s, NEW t, s \in Seq(X), t \in Seq(X) PROVE h[s \o t] = h[s] \o h[t]
    <3>1. s \o t \in Seq(X)
      BY <2>1, ConcatProperties
    <3>2. Those(s \o t, S) = Those(s, S) \o Those(t, S)
      BY ONLY <2>1, ThoseConcat
    <3>3. Those(s, S) \in Seq(X) /\ Those(t, S) \in Seq(X)
      BY <1>1, <2>1
    <3>4. Mapped(g, Those(s, S) \o Those(t, S)) = Mapped(g, Those(s, S)) \o Mapped(g, Those(t, S))
      <4> DEFINE a == Those(s, S)
                 b == Those(t, S)
      <4>1. a \in Seq(X) /\ b \in Seq(X)
        BY <3>3
      <4> HIDE DEF a, b
      <4>2. Mapped(g, a \o b) = Mapped(g, a) \o Mapped(g, b)
        BY ONLY Maps(g, X, Y), <4>1, MappedConcat
      <4>3. QED  BY <4>2 DEF a, b
    <3>5. QED  BY <1>3, <2>1, <3>1, <3>2, <3>4
  <2>2. QED  BY <2>1
<1>7. QED  BY <1>4, <1>5, <1>6 DEF Piecewise, h

(* A sequence of sequences, all empty or not. *)
LEMMA FlattenEmpty ==
    ASSUME NEW X, NEW ss, ss \in Seq(Seq(X))
    PROVE  FlattenSeq(ss) = <<>> <=> \A i \in DOMAIN ss : ss[i] = <<>>
<1> DEFINE n == Len(ss)
<1>1. n \in Nat /\ DOMAIN ss = 1 .. n /\ ss \in [1 .. n -> Seq(X)]
  BY ONLY ss \in Seq(Seq(X)), SeqAsFunction
<1> HIDE DEF n
<1>2. ASSUME \A i \in DOMAIN ss : ss[i] = <<>> PROVE FlattenSeq(ss) = <<>>
  <2>1. \A i \in 1 .. n : ss[i] = <<>>
    BY <1>1, <1>2
  <2>2. QED  BY ONLY <1>1, <2>1, FlattenNone
<1>3. ASSUME FlattenSeq(ss) = <<>>, NEW i \in DOMAIN ss PROVE ss[i] = <<>>
  <2>1. ToSet(FlattenSeq(ss)) = UNION {ToSet(ss[j]) : j \in 1 .. n}
    BY ONLY <1>1, FlattenMembers
  <2>2. ToSet(<<>>) = {}
    BY DEF ToSet
  <2>3. i \in 1 .. n /\ ss[i] \in Seq(X)
    BY <1>1
  <2>4. ToSet(ss[i]) = {}
    <3> DEFINE M(j) == ToSet(ss[j])
    <3>1. UNION {M(j) : j \in 1 .. n} = {}
      BY <1>3, <2>1, <2>2
    <3> HIDE DEF M
    <3>2. M(i) = {}
      BY <2>3, <3>1
    <3>3. QED  BY <3>2 DEF M
  <2> DEFINE s == ss[i]
  <2>5. s \in Seq(X) /\ {s[j] : j \in DOMAIN s} = {}
    BY <2>3, <2>4 DEF ToSet
  <2> HIDE DEF s
  <2>6. s = <<>>
    <3>1. s # <<>> => 1 \in DOMAIN s
      BY <2>5
    <3>2. 1 \in DOMAIN s => s[1] \in {s[j] : j \in DOMAIN s}
      OBVIOUS
    <3>3. QED  BY <2>5, <3>1, <3>2
  <2>7. QED  BY <2>6 DEF s
<1>4. QED  BY <1>2, <1>3

(* Sequences without repetitions, put together. *)
Apart(s, t) == ToSet(s) \cap ToSet(t) = {}

LEMMA ConcatInjective ==
    ASSUME NEW X, NEW s, NEW t, s \in Seq(X), t \in Seq(X),
           IsInjective(s), IsInjective(t), Apart(s, t)
    PROVE  IsInjective(s \o t)
<1> DEFINE st == s \o t
<1>1. /\ st \in Seq(X) /\ Len(st) = Len(s) + Len(t) /\ Len(s) \in Nat /\ Len(t) \in Nat
      /\ \A k \in 1 .. Len(s) + Len(t) : st[k] = IF k <= Len(s) THEN s[k] ELSE t[k - Len(s)]
  BY ConcatProperties
<1>2. \A j \in DOMAIN s : \A k \in DOMAIN t : s[j] # t[k]
  <2>1. \A j \in DOMAIN s : s[j] \in ToSet(s)
    BY DEF ToSet
  <2>2. \A k \in DOMAIN t : t[k] \in ToSet(t)
    BY DEF ToSet
  <2>3. QED  BY <2>1, <2>2 DEF Apart
<1>3. DOMAIN s = 1 .. Len(s) /\ DOMAIN t = 1 .. Len(t)
  OBVIOUS
<1> HIDE DEF st
<1>4. ASSUME NEW a \in DOMAIN st, NEW b \in DOMAIN st, st[a] = st[b] PROVE a = b
  <2>1. a \in 1 .. Len(s) + Len(t) /\ b \in 1 .. Len(s) + Len(t)
    BY <1>1
  <2>2. /\ a <= Len(s) => a \in DOMAIN s /\ st[a] = s[a]
        /\ ~ (a <= Len(s)) => a - Len(s) \in DOMAIN t /\ st[a] = t[a - Len(s)]
    BY <1>1, <1>3, <2>1
  <2>3. /\ b <= Len(s) => b \in DOMAIN s /\ st[b] = s[b]
        /\ ~ (b <= Len(s)) => b - Len(s) \in DOMAIN t /\ st[b] = t[b - Len(s)]
    BY <1>1, <1>3, <2>1
  <2>4. CASE a <= Len(s) /\ b <= Len(s)
    BY <1>4, <2>2, <2>3, <2>4 DEF IsInjective
  <2>5. CASE ~ (a <= Len(s)) /\ ~ (b <= Len(s))
    <3>1. a - Len(s) = b - Len(s)
      BY <1>4, <2>2, <2>3, <2>5 DEF IsInjective
    <3>2. QED  BY <1>1, <2>1, <3>1
  <2>6. CASE a <= Len(s) /\ ~ (b <= Len(s))
    BY <1>2, <1>4, <2>2, <2>3, <2>6
  <2>7. CASE ~ (a <= Len(s)) /\ b <= Len(s)
    BY <1>2, <1>4, <2>2, <2>3, <2>7
  <2>8. QED  BY <2>4, <2>5, <2>6, <2>7
<1>5. QED  BY <1>4 DEF IsInjective, st

LEMMA FlattenInjective ==
    ASSUME NEW X, NEW ss, ss \in Seq(Seq(X)), \A i \in DOMAIN ss : IsInjective(ss[i]),
           \A i, j \in DOMAIN ss : i # j => Apart(ss[i], ss[j])
    PROVE  IsInjective(FlattenSeq(ss))
<1> DEFINE n == Len(ss)
<1>1. n \in Nat /\ DOMAIN ss = 1 .. n /\ ss \in [1 .. n -> Seq(X)]
  BY ONLY ss \in Seq(Seq(X)), SeqAsFunction
<1> HIDE DEF n
<1>2. PICK f \in [0 .. n -> Seq(X)] : Joins(f, ss, n) /\ FlattenSeq(ss) = f[n]
  BY ONLY <1>1, FlattenRuns
<1> DEFINE Good(k) == IsInjective(f[k]) /\ \A j \in k + 1 .. n : Apart(f[k], ss[j])
           S == {k \in 0 .. n : Good(k)}
<1>3. 0 \in S
  <2>1. f[0] = <<>> /\ ToSet(<<>>) = {}
    BY <1>2 DEF Joins, ToSet
  <2>2. IsInjective(<<>>)
    BY DEF IsInjective
  <2>3. QED  BY <1>1, <2>1, <2>2 DEF Apart
<1>4. ASSUME NEW k \in 0 .. n - 1, k \in S PROVE k + 1 \in S
  <2>1. k + 1 \in 1 .. n /\ k + 1 \in 0 .. n /\ k \in 0 .. n /\ (k + 1) - 1 = k
    BY <1>1
  <2>2. f[k + 1] = f[k] \o ss[k + 1] /\ f[k] \in Seq(X) /\ ss[k + 1] \in Seq(X)
    <3>1. f[k + 1] = f[(k + 1) - 1] \o ss[k + 1]
      BY <1>2, <2>1 DEF Joins
    <3>2. QED  BY <1>1, <2>1, <3>1
  <2>3. IsInjective(f[k]) /\ IsInjective(ss[k + 1]) /\ Apart(f[k], ss[k + 1])
    <3>1. k + 1 \in k + 1 .. n
      BY <2>1
    <3>2. QED  BY <1>1, <1>4, <2>1, <3>1
  <2>4. IsInjective(f[k] \o ss[k + 1])
    BY ONLY <2>2, <2>3, ConcatInjective
  <2>5. ASSUME NEW j \in (k + 1) + 1 .. n PROVE Apart(f[k + 1], ss[j])
    <3>1. j \in k + 1 .. n /\ j \in 1 .. n /\ j # k + 1
      BY <1>1, <2>1
    <3>2. Apart(f[k], ss[j]) /\ Apart(ss[k + 1], ss[j])
      BY <1>1, <1>4, <2>1, <3>1
    <3>3. ToSet(f[k] \o ss[k + 1]) = ToSet(f[k]) \cup ToSet(ss[k + 1])
      BY ONLY <2>2, ConcatMembers
    <3>4. QED  BY <2>2, <3>2, <3>3 DEF Apart
  <2>6. QED  BY <2>1, <2>2, <2>4, <2>5
<1>5. n \in S
  <2> HIDE DEF S
  <2>1. 0 .. n \subseteq S
    BY ONLY <1>1, <1>3, <1>4, Induction
  <2>2. QED  BY <1>1, <2>1
<1>6. QED  BY <1>2, <1>5

LEMMA ThoseInjective ==
    ASSUME NEW X, NEW s, NEW S, s \in Seq(X), IsInjective(s)
    PROVE  IsInjective(Those(s, S))
<1> DEFINE c(i) == IF s[i] \in S THEN <<s[i]>> ELSE <<>>
           ss == [i \in DOMAIN s |-> c(i)]
<1>0. DOMAIN s = 1 .. Len(s) /\ Len(s) \in Nat /\ \A i \in DOMAIN s : s[i] \in X
  OBVIOUS
<1>1. ASSUME NEW i \in DOMAIN s
      PROVE  c(i) \in Seq(X) /\ IsInjective(c(i)) /\ ToSet(c(i)) \subseteq {s[i]}
  <2>1. \A x \in X : <<x>> \in Seq(X) /\ <<>> \in Seq(X)
    OBVIOUS
  <2>2. IsInjective(<<s[i]>>) /\ IsInjective(<<>>)
    BY DEF IsInjective
  <2>3. ToSet(<<s[i]>>) = {s[i]} /\ ToSet(<<>>) = {}
    BY DEF ToSet
  <2>4. QED  BY <1>0, <2>1, <2>2, <2>3
<1> HIDE DEF c
<1>2. ss \in Seq(Seq(X))
  <2> DEFINE Z == Seq(X)
             n == Len(s)
  <2>1. n \in Nat /\ DOMAIN s = 1 .. n /\ \A i \in 1 .. n : c(i) \in Z
    BY <1>0, <1>1
  <2> HIDE DEF Z, n
  <2>2. ss \in Seq(Z)
    BY <2>1
  <2>3. QED  BY <2>2 DEF Z
<1>3. \A i \in DOMAIN ss : IsInjective(ss[i])
  BY <1>1
<1>4. \A i, j \in DOMAIN ss : i # j => Apart(ss[i], ss[j])
  <2>1. ASSUME NEW i \in DOMAIN s, NEW j \in DOMAIN s, i # j PROVE Apart(c(i), c(j))
    <3>1. s[i] # s[j]
      BY <2>1 DEF IsInjective
    <3>2. ToSet(c(i)) \subseteq {s[i]} /\ ToSet(c(j)) \subseteq {s[j]}
      BY <1>1
    <3>3. QED  BY <3>1, <3>2 DEF Apart
  <2>2. QED  BY <2>1
<1>5. Those(s, S) = FlattenSeq(ss)
  BY DEF Those, c
<1> HIDE DEF ss
<1>6. QED  BY ONLY <1>2, <1>3, <1>4, <1>5, FlattenInjective

-------------------------------------------------------------------------------
(* Trees. *)

(* The trees of each height are what their definition says. *)
LEMMA TreesUpToDef ==
    \A d \in 0 .. Height :
        TreesUpTo[d] = [id : Labels, val : Seq(Nat),
                        kids : IF d = 0 THEN {<<>>} ELSE Seq(TreesUpTo[d - 1])]
<1> DEFINE Of(g, d) == [id : Labels, val : Seq(Nat),
                        kids : IF d = 0 THEN {<<>>} ELSE Seq(g[d - 1])]
           All(g, m) == [d \in 0 .. m |-> Of(g, d)]
           S == {m \in 0 .. Height : \E g : g = All(g, m)}
<1>0. Height \in Nat
  BY TreeAssumption
<1>1. 0 \in S
  <2> DEFINE g == [d \in 0 .. 0 |-> Of(<<>>, d)]
  <2>1. g = All(g, 0)
    OBVIOUS
  <2> HIDE DEF g
  <2>2. \E f : f = All(f, 0)
    BY <2>1
  <2> HIDE DEF All
  <2>3. QED  BY <1>0, <2>2
<1>2. ASSUME NEW m \in 0 .. Height - 1, m \in S PROVE m + 1 \in S
  <2>1. PICK g : g = All(g, m)
    BY <1>2
  <2> DEFINE f == [d \in 0 .. m + 1 |-> Of(g, d)]
  <2>2. \A d \in 0 .. m : f[d] = g[d]
    <3>1. \A d \in 0 .. m : d \in 0 .. m + 1
      BY <1>0
    <3>2. \A d \in 0 .. m : f[d] = Of(g, d) /\ g[d] = Of(g, d)
      BY <2>1, <3>1
    <3>3. QED  BY <3>2
  <2> HIDE DEF f
  <2>3. ASSUME NEW d \in 0 .. m + 1 PROVE Of(g, d) = Of(f, d)
    <3>1. CASE d = 0
      BY <3>1
    <3>2. CASE d # 0
      <4>1. d - 1 \in 0 .. m
        BY <1>0, <3>2
      <4>2. f[d - 1] = g[d - 1]
        BY <2>2, <4>1
      <4>3. QED  BY <4>2
    <3>3. QED  BY <3>1, <3>2
  <2> HIDE DEF Of
  <2>4. f = All(f, m + 1)
    BY <2>3 DEF f
  <2>5. \E h : h = All(h, m + 1)
    BY <2>4
  <2> HIDE DEF All
  <2>6. m + 1 \in 0 .. Height
    BY <1>0
  <2>7. QED  BY <2>5, <2>6
<1> HIDE DEF S
<1>3. Height \in S
  <2>1. 0 .. Height \subseteq S
    BY <1>0, <1>1, <1>2, Induction
  <2>2. QED  BY <1>0, <2>1
<1>4. TreesUpTo = CHOOSE g : g = All(g, Height)
  BY DEF TreesUpTo
<1> HIDE DEF All
<1>5. TreesUpTo = All(TreesUpTo, Height)
  <2>1. \E g : g = All(g, Height)
    BY <1>3 DEF S
  <2>2. QED  BY <1>4, <2>1
<1>6. QED  BY <1>5 DEF All

LEMMA TreesGrow ==
    /\ \A d \in 0 .. Height - 1 : TreesUpTo[d] \subseteq TreesUpTo[d + 1]
    /\ \A d \in 0 .. Height : TreesUpTo[d] \subseteq Tree
<1>0. Height \in Nat
  BY TreeAssumption
<1>1. ASSUME NEW d \in 0 .. Height - 1, NEW T, T = TreesUpTo[d],
             d = 0 \/ TreesUpTo[d - 1] \subseteq T
      PROVE  T \subseteq TreesUpTo[d + 1]
  <2>1. d \in 0 .. Height /\ d + 1 \in 0 .. Height /\ d + 1 # 0 /\ (d + 1) - 1 = d
    BY <1>0
  <2>2. TreesUpTo[d + 1] = [id : Labels, val : Seq(Nat), kids : Seq(T)]
    BY <1>1, <2>1, TreesUpToDef
  <2>3. ASSUME NEW t \in T PROVE t \in TreesUpTo[d + 1]
    <3>1. CASE d = 0
      <4>1. t \in [id : Labels, val : Seq(Nat), kids : {<<>>}]
        BY <1>1, <2>1, <3>1, TreesUpToDef
      <4>2. <<>> \in Seq(T)
        OBVIOUS
      <4>3. QED  BY <2>2, <4>1, <4>2
    <3>2. CASE d # 0
      <4>1. t \in [id : Labels, val : Seq(Nat), kids : Seq(TreesUpTo[d - 1])]
        BY <1>1, <2>1, <3>2, TreesUpToDef
      <4>2. t.kids \in Seq(TreesUpTo[d - 1])
        BY <4>1
      <4>3. t.kids \in Seq(T)
        BY <1>1, <3>2, <4>2, SeqMonotonic
      <4>4. t = [id |-> t.id, val |-> t.val, kids |-> t.kids]
            /\ t.id \in Labels /\ t.val \in Seq(Nat)
        BY <4>1
      <4>5. QED  BY <2>2, <4>3, <4>4
    <3>3. QED  BY <3>1, <3>2
  <2>4. QED  BY <2>3
<1> DEFINE S == {d \in 0 .. Height : d = 0 \/ TreesUpTo[d - 1] \subseteq TreesUpTo[d]}
<1>2. 0 \in S
  BY <1>0
<1>3. ASSUME NEW d \in 0 .. Height - 1, d \in S PROVE d + 1 \in S
  <2>1. TreesUpTo[d] \subseteq TreesUpTo[d + 1]
    BY <1>1, <1>3
  <2>2. d + 1 \in 0 .. Height /\ (d + 1) - 1 = d
    BY <1>0
  <2>3. QED  BY <2>1, <2>2
<1>4. 0 .. Height \subseteq S
  <2> HIDE DEF S
  <2>1. QED  BY <1>0, <1>2, <1>3, Induction
<1>5. ASSUME NEW d \in 0 .. Height - 1 PROVE TreesUpTo[d] \subseteq TreesUpTo[d + 1]
  <2>1. d + 1 \in 0 .. Height /\ (d + 1) - 1 = d /\ d + 1 # 0
    BY <1>0
  <2>2. d + 1 \in S
    BY <1>4, <2>1
  <2>3. QED  BY <2>1, <2>2
<1> DEFINE K == {k \in 0 .. Height : TreesUpTo[Height - k] \subseteq Tree}
<1>6. 0 \in K
  <2>1. Height - 0 = Height
    BY <1>0
  <2>2. QED  BY <1>0, <2>1 DEF Tree
<1>7. ASSUME NEW k \in 0 .. Height - 1, k \in K PROVE k + 1 \in K
  <2>1. Height - (k + 1) \in 0 .. Height - 1 /\ (Height - (k + 1)) + 1 = Height - k
        /\ k + 1 \in 0 .. Height
    BY <1>0
  <2>2. TreesUpTo[Height - (k + 1)] \subseteq TreesUpTo[Height - k]
    BY <1>5, <2>1
  <2>3. QED  BY <1>7, <2>1, <2>2
<1>8. 0 .. Height \subseteq K
  <2> HIDE DEF K
  <2>1. QED  BY <1>0, <1>6, <1>7, Induction
<1>9. ASSUME NEW d \in 0 .. Height PROVE TreesUpTo[d] \subseteq Tree
  <2>1. Height - d \in 0 .. Height /\ Height - (Height - d) = d
    BY <1>0
  <2>2. Height - d \in K
    BY <1>8, <2>1
  <2>3. QED  BY <2>1, <2>2
<1>10. QED  BY <1>5, <1>9

(* The parts of a tree; its children are trees, and of less height. *)
LEMMA TreeParts ==
    ASSUME NEW t \in Tree
    PROVE  /\ t = Node(t.id, t.val, t.kids)
           /\ t.id \in Labels /\ t.val \in Seq(Nat) /\ t.kids \in Seq(Tree)
           /\ \A i \in DOMAIN t.kids : t.kids[i] \in Tree
<1>0. Height \in Nat /\ Height \in 0 .. Height
  BY TreeAssumption
<1>1. t \in [id : Labels, val : Seq(Nat),
             kids : IF Height = 0 THEN {<<>>} ELSE Seq(TreesUpTo[Height - 1])]
  BY <1>0, TreesUpToDef DEF Tree
<1>2. /\ t = [id |-> t.id, val |-> t.val, kids |-> t.kids]
      /\ t.id \in Labels /\ t.val \in Seq(Nat)
      /\ t.kids \in (IF Height = 0 THEN {<<>>} ELSE Seq(TreesUpTo[Height - 1]))
  BY <1>1
<1>3. t.kids \in Seq(Tree)
  <2>1. CASE Height = 0
    <3>1. t.kids = <<>>
      BY <1>2, <2>1
    <3>2. QED  BY <3>1, EmptySeq
  <2>2. CASE Height # 0
    <3>1. Height - 1 \in 0 .. Height
      BY <1>0, <2>2
    <3>2. TreesUpTo[Height - 1] \subseteq Tree
      BY <3>1, TreesGrow
    <3>3. t.kids \in Seq(TreesUpTo[Height - 1])
      BY <1>2, <2>2
    <3>4. QED  BY <3>2, <3>3, SeqMonotonic
  <2>3. QED  BY <2>1, <2>2
<1>4. \A i \in DOMAIN t.kids : t.kids[i] \in Tree
  BY <1>3
<1>5. QED  BY <1>2, <1>3, <1>4 DEF Node

LEMMA RankParts ==
    ASSUME NEW d \in 0 .. Height, NEW t \in TreesUpTo[d]
    PROVE  /\ t \in Tree
           /\ d = 0 => t.kids = <<>>
           /\ d # 0 => /\ d - 1 \in 0 .. Height
                       /\ t.kids \in Seq(TreesUpTo[d - 1])
                       /\ \A i \in DOMAIN t.kids : t.kids[i] \in TreesUpTo[d - 1]
<1>0. Height \in Nat
  BY TreeAssumption
<1>1. t \in [id : Labels, val : Seq(Nat),
             kids : IF d = 0 THEN {<<>>} ELSE Seq(TreesUpTo[d - 1])]
  BY TreesUpToDef
<1>2. t.kids \in (IF d = 0 THEN {<<>>} ELSE Seq(TreesUpTo[d - 1]))
  BY <1>1
<1>3. t \in Tree
  BY TreesGrow
<1>4. ASSUME d # 0
      PROVE  /\ d - 1 \in 0 .. Height
             /\ t.kids \in Seq(TreesUpTo[d - 1])
             /\ \A i \in DOMAIN t.kids : t.kids[i] \in TreesUpTo[d - 1]
  <2>1. d - 1 \in 0 .. Height
    BY <1>0, <1>4
  <2>2. t.kids \in Seq(TreesUpTo[d - 1])
    BY <1>2, <1>4
  <2>3. QED  BY <2>1, <2>2
<1>5. QED  BY <1>2, <1>3, <1>4

(* What holds for a tree as soon as it holds for its children holds for all. *)
LEMMA TreeInduction ==
    ASSUME NEW S,
           \A t \in Tree : (\A i \in DOMAIN t.kids : t.kids[i] \in S) => t \in S
    PROVE  Tree \subseteq S
<1>0. Height \in Nat
  BY TreeAssumption
<1> DEFINE K == {d \in 0 .. Height : TreesUpTo[d] \subseteq S}
<1>1. 0 \in K
  <2>1. ASSUME NEW t \in TreesUpTo[0] PROVE t \in S
    <3>1. 0 \in 0 .. Height
      BY <1>0
    <3>2. t \in Tree /\ t.kids = <<>>
      BY <3>1, RankParts
    <3>3. QED  BY <3>2
  <2>2. QED  BY <1>0, <2>1
<1>2. ASSUME NEW d \in 0 .. Height - 1, d \in K PROVE d + 1 \in K
  <2>0. d + 1 \in 0 .. Height /\ d + 1 # 0 /\ (d + 1) - 1 = d
    BY <1>0
  <2>1. ASSUME NEW t \in TreesUpTo[d + 1] PROVE t \in S
    <3>1. t \in Tree /\ \A i \in DOMAIN t.kids : t.kids[i] \in TreesUpTo[d]
      BY <2>0, RankParts
    <3>2. QED  BY <1>2, <3>1
  <2>2. QED  BY <2>0, <2>1
<1> HIDE DEF K
<1>3. 0 .. Height \subseteq K
  BY <1>0, <1>1, <1>2, Induction
<1>4. Height \in K
  BY <1>0, <1>3
<1>5. QED  BY <1>4 DEF K, Tree

(* A function of trees whose value for a tree depends on its values for the    *)
(* children exists.                                                          *)
LEMMA TreeRecursion ==
    ASSUME NEW T, Tree # {} => T # {}, NEW h \in [[Tree -> T] -> [Tree -> T]],
           \A f, g \in [Tree -> T] : \A t \in Tree :
               (\A i \in DOMAIN t.kids : f[t.kids[i]] = g[t.kids[i]])
                   => h[f][t] = h[g][t]
    PROVE  \E f \in [Tree -> T] : f = h[f]
<1>0. Height \in Nat
  BY TreeAssumption
<1> DEFINE F == [Tree -> T]
           n == Height + 2
           step == [k \in 1 .. n |-> h]
<1>1. PICK base \in F : TRUE
  <2>1. CASE Tree = {}
    <3>1. [t \in Tree |-> <<>>] \in F
      BY <2>1
    <3>2. QED  BY <3>1
  <2>2. CASE Tree # {}
    <3>1. PICK x \in T : TRUE
      BY <2>2
    <3>2. [t \in Tree |-> x] \in F
      OBVIOUS
    <3>3. QED  BY <3>2
  <2>3. QED  BY <2>1, <2>2
<1>2. PICK s \in [0 .. n -> F] : Runs(s, n, base, step)
  <2>1. step \in [1 .. n -> [F -> F]] /\ n \in Nat
    BY <1>0
  <2> HIDE DEF step, F, n
  <2>2. QED  BY Zenon, <1>1, <2>1, Recursion
<1>3. ASSUME NEW k \in 0 .. n - 1
      PROVE  s[k + 1] = h[s[k]] /\ s[k] \in F /\ s[k + 1] \in F
  <2>1. k + 1 \in 1 .. n /\ (k + 1) - 1 = k /\ k \in 0 .. n /\ k + 1 \in 0 .. n
    BY <1>0
  <2>2. s[k + 1] = step[k + 1][s[k]]
    BY <1>2, <2>1 DEF Runs
  <2> HIDE DEF F, n
  <2>3. QED  BY <1>2, <2>1, <2>2
<1> HIDE DEF step
<1> DEFINE S == {d \in 0 .. Height : \A t \in TreesUpTo[d] : s[d + 1][t] = s[d + 2][t]}
<1>4. ASSUME NEW d \in 0 .. Height,
             d = 0 \/ \A t \in TreesUpTo[d - 1] : s[d][t] = s[d + 1][t]
      PROVE  d \in S
  <2>1. d \in 0 .. n - 1 /\ d + 1 \in 0 .. n - 1 /\ (d + 1) + 1 = d + 2
    BY <1>0
  <2>2. /\ s[d + 1] = h[s[d]] /\ s[d + 2] = h[s[d + 1]]
        /\ s[d] \in F /\ s[d + 1] \in F
    BY <1>3, <2>1
  <2>3. ASSUME NEW t \in TreesUpTo[d] PROVE s[d + 1][t] = s[d + 2][t]
    <3>1. t \in Tree
      BY RankParts
    <3>2. \A i \in DOMAIN t.kids : s[d][t.kids[i]] = s[d + 1][t.kids[i]]
      <4>1. CASE d = 0
        <5>1. t.kids = <<>>
          BY <4>1, RankParts
        <5>2. QED  BY <5>1
      <4>2. CASE d # 0
        <5>1. \A i \in DOMAIN t.kids : t.kids[i] \in TreesUpTo[d - 1]
          BY <4>2, RankParts
        <5>2. QED  BY <1>4, <4>2, <5>1
      <4>3. QED  BY <4>1, <4>2
    <3>3. QED  BY <2>2, <3>1, <3>2
  <2>4. QED  BY <2>3
<1>5. 0 \in S
  <2> HIDE DEF S
  <2>1. 0 \in 0 .. Height
    BY <1>0
  <2>2. QED  BY <1>4, <2>1
<1>6. ASSUME NEW d \in 0 .. Height - 1, d \in S PROVE d + 1 \in S
  <2>1. d + 1 \in 0 .. Height /\ (d + 1) - 1 = d /\ (d + 1) + 1 = d + 2
    BY <1>0
  <2>2. \A t \in TreesUpTo[(d + 1) - 1] : s[d + 1][t] = s[(d + 1) + 1][t]
    BY <1>6, <2>1
  <2> HIDE DEF S
  <2>3. QED  BY <1>4, <2>1, <2>2
<1>7. Height \in S
  <2> HIDE DEF S
  <2>1. 0 .. Height \subseteq S
    BY <1>0, <1>5, <1>6, Induction
  <2>2. QED  BY <1>0, <2>1
<1>8. s[Height + 1] \in F /\ s[Height + 2] \in F /\ s[Height + 2] = h[s[Height + 1]]
  <2>1. Height + 1 \in 0 .. n - 1 /\ (Height + 1) + 1 = Height + 2
    BY <1>0
  <2>2. QED  BY <1>3, <2>1
<1>9. \A t \in Tree : s[Height + 1][t] = s[Height + 2][t]
  BY <1>7 DEF Tree
<1>10. s[Height + 1] = s[Height + 2]
  BY <1>8, <1>9
<1>11. QED  BY <1>8, <1>10

(* A node put together of parts that fit is a tree of its height. *)
LEMMA RankNode ==
    ASSUME NEW d \in 0 .. Height, NEW id \in Labels, NEW val \in Seq(Nat), NEW kids,
           kids = <<>> \/ (d # 0 /\ kids \in Seq(TreesUpTo[d - 1]))
    PROVE  /\ Node(id, val, kids) \in TreesUpTo[d]
           /\ Node(id, val, kids) \in Tree
           /\ Node(id, val, kids).id = id /\ Node(id, val, kids).val = val
           /\ Node(id, val, kids).kids = kids
<1>1. TreesUpTo[d] = [id : Labels, val : Seq(Nat),
                      kids : IF d = 0 THEN {<<>>} ELSE Seq(TreesUpTo[d - 1])]
  BY TreesUpToDef
<1>2. kids \in (IF d = 0 THEN {<<>>} ELSE Seq(TreesUpTo[d - 1]))
  <2>1. CASE kids = <<>>
    BY <2>1, EmptySeq
  <2>2. CASE d # 0 /\ kids \in Seq(TreesUpTo[d - 1])
    BY <2>2
  <2>3. QED  BY <2>1, <2>2
<1> DEFINE K == IF d = 0 THEN {<<>>} ELSE Seq(TreesUpTo[d - 1])
<1> HIDE DEF K
<1>3. Node(id, val, kids) \in [id : Labels, val : Seq(Nat), kids : K]
  BY <1>2 DEF Node, K
<1>4. Node(id, val, kids) \in TreesUpTo[d]
  BY <1>1, <1>3 DEF K
<1>5. QED  BY <1>4, RankParts DEF Node

(* Values for trees, of U; those for the trees of a height are of a set T has     *)
(* for it.  A rule gives them from the values for the children.               *)
Ranked(T, U) == (Tree # {} => U # {}) /\ \A d \in 0 .. Height : T[d] \subseteq U

OfRank(f, T) == \A d \in 0 .. Height : \A t \in TreesUpTo[d] : f[t] \in T[d]

FromKids(h, T, U) ==
    /\ \A f, g \in [Tree -> U] : \A t \in Tree :
          (\A i \in DOMAIN t.kids : f[t.kids[i]] = g[t.kids[i]]) => h[f][t] = h[g][t]
    /\ \A f \in [Tree -> U] : \A d \in 0 .. Height : \A t \in TreesUpTo[d] :
          (d # 0 => \A i \in DOMAIN t.kids : f[t.kids[i]] \in T[d - 1]) => h[f][t] \in T[d]

LEMMA RankRecursion ==
    ASSUME NEW T, NEW U, NEW h, Ranked(T, U), FromKids(h, T, U)
    PROVE  \E f \in [Tree -> U] : (\A t \in Tree : f[t] = h[f][t]) /\ OfRank(f, T)
<1> DEFINE Stays(x) == IF x \in U THEN x ELSE CHOOSE u \in U : TRUE
           hh == [f \in [Tree -> U] |-> [t \in Tree |-> Stays(h[f][t])]]
<1>0. Height \in Nat
  BY TreeAssumption
<1>1. \A x : Tree # {} => Stays(x) \in U
  BY DEF Ranked
<1>2. \A x \in U : Stays(x) = x
  OBVIOUS
<1> HIDE DEF Stays
<1>3. hh \in [[Tree -> U] -> [Tree -> U]]
  BY <1>1
<1>4. \A f \in [Tree -> U] : \A t \in Tree : hh[f][t] = Stays(h[f][t])
  OBVIOUS
<1> HIDE DEF hh
<1>5. \A f, g \in [Tree -> U] : \A t \in Tree :
         (\A i \in DOMAIN t.kids : f[t.kids[i]] = g[t.kids[i]]) => hh[f][t] = hh[g][t]
  <2>1. SUFFICES ASSUME NEW f \in [Tree -> U], NEW g \in [Tree -> U], NEW t \in Tree,
                        \A i \in DOMAIN t.kids : f[t.kids[i]] = g[t.kids[i]]
                 PROVE  hh[f][t] = hh[g][t]
    OBVIOUS
  <2>2. h[f][t] = h[g][t]
    BY <2>1 DEF FromKids
  <2>3. QED  BY <1>4, <2>2
<1>6. PICK f \in [Tree -> U] : f = hh[f]
  <2>1. Tree # {} => U # {}
    BY DEF Ranked
  <2>2. QED  BY ONLY <1>3, <1>5, <2>1, TreeRecursion
<1>7. ASSUME NEW d \in 0 .. Height, NEW t \in TreesUpTo[d],
             d # 0 => \A i \in DOMAIN t.kids : f[t.kids[i]] \in T[d - 1]
      PROVE  f[t] = h[f][t] /\ f[t] \in T[d]
  <2>1. h[f][t] \in T[d] /\ T[d] \subseteq U /\ t \in Tree
    BY <1>7, RankParts DEF Ranked, FromKids
  <2>2. hh[f][t] = Stays(h[f][t])
    BY <1>4, <2>1
  <2>3. f[t] = hh[f][t]
    BY <1>6
  <2>4. QED  BY <1>2, <2>1, <2>2, <2>3
<1> DEFINE Good(t, d) == f[t] = h[f][t] /\ f[t] \in T[d]
           S == {d \in 0 .. Height : \A t \in TreesUpTo[d] : Good(t, d)}
<1>8. 0 \in S
  <2>1. 0 \in 0 .. Height
    BY <1>0
  <2>2. QED  BY <1>7, <2>1
<1>9. ASSUME NEW d \in 0 .. Height - 1, d \in S PROVE d + 1 \in S
  <2>1. d + 1 \in 0 .. Height /\ (d + 1) - 1 = d /\ d + 1 # 0
    BY <1>0
  <2>2. ASSUME NEW t \in TreesUpTo[d + 1] PROVE Good(t, d + 1)
    <3>1. \A i \in DOMAIN t.kids : t.kids[i] \in TreesUpTo[(d + 1) - 1]
      BY <2>1, RankParts
    <3>2. \A i \in DOMAIN t.kids : f[t.kids[i]] \in T[(d + 1) - 1]
      BY <1>9, <2>1, <3>1
    <3>3. QED  BY <1>7, <2>1, <3>2
  <2> HIDE DEF Good
  <2>3. QED  BY <2>1, <2>2
<1>10. 0 .. Height \subseteq S
  <2> HIDE DEF S
  <2>1. QED  BY <1>0, <1>8, <1>9, Induction
<1>11. \A t \in Tree : f[t] = h[f][t]
  <2>1. Height \in S
    BY <1>0, <1>10
  <2>2. QED  BY <2>1 DEF Tree
<1>12. OfRank(f, T)
  BY <1>10 DEF OfRank
<1>13. QED  BY <1>11, <1>12

-------------------------------------------------------------------------------
(* The nodes of a tree and their paths. *)

(* The node at a path, by its definition. *)
LEMMA AtDef ==
    /\ At \in [Tree -> [Path -> Tree]]
    /\ \A t \in Tree : \A path \in Path :
          At[t][path] = IF path = <<>> \/ Head(path) \notin DOMAIN t.kids THEN t
                        ELSE At[t.kids[Head(path)]][Tail(path)]
<1> DEFINE T == [Path -> Tree]
           Node1(f, t, path) == IF path = <<>> \/ Head(path) \notin DOMAIN t.kids THEN t
                                ELSE f[t.kids[Head(path)]][Tail(path)]
           Unrolled(f) == [t \in Tree |-> [path \in Path |-> Node1(f, t, path)]]
           h == [f \in [Tree -> T] |-> Unrolled(f)]
<1>1. ASSUME NEW f \in [Tree -> T], NEW t \in Tree, NEW path \in Path
      PROVE  Node1(f, t, path) \in Tree
  <2>1. CASE path = <<>> \/ Head(path) \notin DOMAIN t.kids
    BY <2>1
  <2>2. CASE ~ (path = <<>> \/ Head(path) \notin DOMAIN t.kids)
    <3>1. t.kids[Head(path)] \in Tree /\ Tail(path) \in Path
      BY <2>2, TreeParts DEF Path
    <3>2. QED  BY <2>2, <3>1
  <2>3. QED  BY <2>1, <2>2
<1>2. h \in [[Tree -> T] -> [Tree -> T]]
  <2> HIDE DEF Node1
  <2>1. \A f \in [Tree -> T] : Unrolled(f) \in [Tree -> T]
    BY <1>1
  <2>2. QED  BY <2>1
<1>3. ASSUME NEW f, NEW g, NEW t \in Tree, \A i \in DOMAIN t.kids : f[t.kids[i]] = g[t.kids[i]]
      PROVE  Unrolled(f)[t] = Unrolled(g)[t]
  <2>1. \A path \in Path : Node1(f, t, path) = Node1(g, t, path)
    BY <1>3
  <2> HIDE DEF Node1
  <2>2. QED  BY <2>1
<1>4. Tree # {} => T # {}
  <2>1. ASSUME NEW t \in Tree PROVE [path \in Path |-> t] \in T
    OBVIOUS
  <2>2. QED  BY <2>1
<1> HIDE DEF Node1
<1>5. PICK f \in [Tree -> T] : f = Unrolled(f)
  <2>1. \A f, g \in [Tree -> T] : \A t \in Tree :
           (\A i \in DOMAIN t.kids : f[t.kids[i]] = g[t.kids[i]]) => h[f][t] = h[g][t]
    <3> HIDE DEF T, Unrolled
    <3>1. QED  BY <1>3
  <2> HIDE DEF T, h
  <2>2. PICK f \in [Tree -> T] : f = h[f]
    BY <1>2, <2>1, <1>4, TreeRecursion
  <2>3. QED  BY <2>2 DEF h
<1>6. At = CHOOSE g : g = Unrolled(g)
  BY DEF At, Node1
<1>7. At = Unrolled(At)
  <2> HIDE DEF Unrolled
  <2>1. QED  BY <1>5, <1>6
<1>8. At = f
  <2> DEFINE S == {t \in Tree : At[t] = f[t]}
  <2>1. \A t \in Tree : (\A i \in DOMAIN t.kids : t.kids[i] \in S) => t \in S
    <3> SUFFICES ASSUME NEW t \in Tree, \A i \in DOMAIN t.kids : t.kids[i] \in S
                 PROVE  t \in S
      OBVIOUS
    <3>1. \A i \in DOMAIN t.kids : At[t.kids[i]] = f[t.kids[i]]
      OBVIOUS
    <3> HIDE DEF Unrolled
    <3>2. Unrolled(At)[t] = Unrolled(f)[t]
      BY <1>3, <3>1
    <3>3. QED  BY <1>5, <1>7, <3>2
  <2> HIDE DEF S
  <2>2. Tree \subseteq S
    BY <2>1, TreeInduction
  <2>3. \A t \in Tree : At[t] = f[t]
    BY <2>2 DEF S
  <2>4. At = [t \in Tree |-> At[t]] /\ f = [t \in Tree |-> f[t]]
    BY <1>5, <1>7
  <2>5. QED  BY <2>3, <2>4
<1>9. At \in [Tree -> T] /\ At = Unrolled(At)
  BY <1>5, <1>8
<1>10. \A t \in Tree : \A path \in Path : At[t][path] = Node1(At, t, path)
  <2>1. \A t \in Tree : \A path \in Path : Unrolled(At)[t][path] = Node1(At, t, path)
    OBVIOUS
  <2> HIDE DEF Unrolled
  <2>2. QED  BY <1>9, <2>1
<1>11. QED  BY <1>9, <1>10 DEF Node1

LEMMA BelowType ==
    ASSUME NEW i \in Nat, NEW paths \in Seq(Path)
    PROVE  /\ Below(i, paths) \in Seq(Path) /\ Len(Below(i, paths)) = Len(paths)
           /\ ToSet(Below(i, paths)) = {<<i>> \o p : p \in ToSet(paths)}
<1>1. \A j \in DOMAIN paths : <<i>> \o paths[j] \in Path
  <2>1. <<i>> \in Seq(Nat)
    OBVIOUS
  <2>2. ASSUME NEW j \in DOMAIN paths PROVE <<i>> \o paths[j] \in Path
    <3>1. paths[j] \in Seq(Nat)
      BY DEF Path
    <3>2. QED  BY <2>1, <3>1, ConcatProperties DEF Path
  <2>3. QED  BY <2>2
<1>2. DOMAIN paths = 1 .. Len(paths) /\ Len(paths) \in Nat
  OBVIOUS
<1>3. Below(i, paths) \in Seq(Path) /\ Len(Below(i, paths)) = Len(paths)
  BY <1>1, <1>2 DEF Below
<1>4. ToSet(Below(i, paths)) = {<<i>> \o p : p \in ToSet(paths)}
  BY <1>2 DEF Below, ToSet
<1>5. QED  BY <1>3, <1>4

(* The paths of a tree, by the definition. *)
LEMMA FlatDef ==
    /\ Flat \in [Tree -> Seq(Path)]
    /\ \A t \in Tree :
          Flat[t] = << <<>> >> \o FlattenSeq([i \in DOMAIN t.kids |-> Below(i, Flat[t.kids[i]])])
<1> DEFINE T == Seq(Path)
           Under(f, t) == [i \in DOMAIN t.kids |-> Below(i, f[t.kids[i]])]
           All(f, t) == << <<>> >> \o FlattenSeq(Under(f, t))
           Unrolled(f) == [t \in Tree |-> All(f, t)]
           h == [f \in [Tree -> T] |-> Unrolled(f)]
<1>1. ASSUME NEW f \in [Tree -> T], NEW t \in Tree
      PROVE  All(f, t) \in T
  <2>1. Len(t.kids) \in Nat /\ DOMAIN t.kids = 1 .. Len(t.kids)
    BY TreeParts
  <2>2. Under(f, t) \in [1 .. Len(t.kids) -> T]
    <3>1. \A i \in DOMAIN t.kids : i \in Nat /\ f[t.kids[i]] \in T
      BY <2>1, TreeParts
    <3>2. \A i \in DOMAIN t.kids : Below(i, f[t.kids[i]]) \in T
      BY <3>1, BelowType
    <3>3. QED  BY <2>1, <3>2
  <2> HIDE DEF Under
  <2>3. FlattenSeq(Under(f, t)) \in T
    BY <2>1, <2>2, FlattenType
  <2>4. << <<>> >> \in T
    BY DEF Path
  <2>5. QED  BY <2>3, <2>4, ConcatProperties
<1>2. h \in [[Tree -> T] -> [Tree -> T]]
  <2> HIDE DEF All
  <2>1. \A f \in [Tree -> T] : Unrolled(f) \in [Tree -> T]
    BY <1>1
  <2>2. QED  BY <2>1
<1>3. ASSUME NEW f, NEW g, NEW t \in Tree, \A i \in DOMAIN t.kids : f[t.kids[i]] = g[t.kids[i]]
      PROVE  Unrolled(f)[t] = Unrolled(g)[t]
  <2>1. Under(f, t) = Under(g, t)
    BY <1>3
  <2> HIDE DEF Under
  <2>2. QED  BY <2>1
<1>4. Tree # {} => T # {}
  BY EmptySeq
<1> HIDE DEF All
<1>5. PICK f \in [Tree -> T] : f = Unrolled(f)
  <2>1. \A f, g \in [Tree -> T] : \A t \in Tree :
           (\A i \in DOMAIN t.kids : f[t.kids[i]] = g[t.kids[i]]) => h[f][t] = h[g][t]
    <3> HIDE DEF T, Unrolled
    <3>1. QED  BY <1>3
  <2> HIDE DEF T, h
  <2>2. PICK f \in [Tree -> T] : f = h[f]
    BY <1>2, <2>1, <1>4, TreeRecursion
  <2>3. QED  BY <2>2 DEF h
<1>6. Flat = CHOOSE g : g = Unrolled(g)
  BY DEF Flat, All
<1>7. Flat = Unrolled(Flat)
  <2> HIDE DEF Unrolled
  <2>1. QED  BY <1>5, <1>6
<1>8. Flat = f
  <2> DEFINE S == {t \in Tree : Flat[t] = f[t]}
  <2>1. \A t \in Tree : (\A i \in DOMAIN t.kids : t.kids[i] \in S) => t \in S
    <3> SUFFICES ASSUME NEW t \in Tree, \A i \in DOMAIN t.kids : t.kids[i] \in S
                 PROVE  t \in S
      OBVIOUS
    <3>1. \A i \in DOMAIN t.kids : Flat[t.kids[i]] = f[t.kids[i]]
      OBVIOUS
    <3> HIDE DEF Unrolled
    <3>2. Unrolled(Flat)[t] = Unrolled(f)[t]
      BY <1>3, <3>1
    <3>3. QED  BY <1>5, <1>7, <3>2
  <2> HIDE DEF S
  <2>2. Tree \subseteq S
    BY <2>1, TreeInduction
  <2>3. \A t \in Tree : Flat[t] = f[t]
    BY <2>2 DEF S
  <2>4. Flat = [t \in Tree |-> Flat[t]] /\ f = [t \in Tree |-> f[t]]
    BY <1>5, <1>7
  <2>5. QED  BY <2>3, <2>4
<1>9. Flat \in [Tree -> T] /\ Flat = Unrolled(Flat)
  BY <1>5, <1>8
<1>10. \A t \in Tree : Flat[t] = All(Flat, t)
  <2>1. \A t \in Tree : Unrolled(Flat)[t] = All(Flat, t)
    OBVIOUS
  <2> HIDE DEF Unrolled
  <2>2. QED  BY <1>9, <2>1
<1>11. QED  BY <1>9, <1>10 DEF All

(* The paths of a tree: the root's, and those that go on from a child. *)
LEMMA PathsDef ==
    ASSUME NEW t \in Tree
    PROVE  /\ Paths(t) \subseteq Path
           /\ Paths(t) = {<<>>} \cup
                UNION {{<<i>> \o p : p \in Paths(t.kids[i])} : i \in DOMAIN t.kids}
<1> DEFINE n == Len(t.kids)
           ss == [i \in DOMAIN t.kids |-> Below(i, Flat[t.kids[i]])]
<1>1. n \in Nat /\ DOMAIN t.kids = 1 .. n
  BY TreeParts
<1>2. \A i \in DOMAIN t.kids : i \in Nat /\ Flat[t.kids[i]] \in Seq(Path)
  BY <1>1, TreeParts, FlatDef
<1>3. ss \in [1 .. n -> Seq(Path)]
  <2>1. \A i \in DOMAIN t.kids : Below(i, Flat[t.kids[i]]) \in Seq(Path)
    BY <1>2, BelowType
  <2>2. QED  BY <1>1, <2>1
<1>4. \A i \in 1 .. n : ToSet(ss[i]) = {<<i>> \o p : p \in Paths(t.kids[i])}
  BY <1>1, <1>2, BelowType DEF Paths
<1>5. Flat[t] = << <<>> >> \o FlattenSeq(ss) /\ Flat[t] \in Seq(Path)
  BY FlatDef
<1> HIDE DEF ss, n
<1>6. ToSet(FlattenSeq(ss)) = UNION {ToSet(ss[i]) : i \in 1 .. n}
  BY <1>1, <1>3, FlattenMembers
<1>7. << <<>> >> \in Seq(Path) /\ FlattenSeq(ss) \in Seq(Path)
  <2>1. FlattenSeq(ss) \in Seq(Path)
    BY <1>1, <1>3, FlattenType
  <2>2. QED  BY <2>1 DEF Path
<1>8. ToSet(Flat[t]) = {<<>>} \cup ToSet(FlattenSeq(ss))
  <2>1. ToSet(<< <<>> >>) = {<<>>}
    BY DEF ToSet
  <2>2. ToSet(<< <<>> >> \o FlattenSeq(ss)) = ToSet(<< <<>> >>) \cup ToSet(FlattenSeq(ss))
    BY <1>7, ConcatMembers
  <2>3. QED  BY <1>5, <2>1, <2>2
<1>9. ToSet(Flat[t]) \subseteq Path
  BY <1>5 DEF ToSet
<1>10. {ToSet(ss[i]) : i \in 1 .. n}
         = {{<<i>> \o p : p \in Paths(t.kids[i])} : i \in 1 .. n}
  <2> DEFINE L(i) == ToSet(ss[i])
             R(i) == {<<i>> \o p : p \in Paths(t.kids[i])}
  <2>1. \A i \in 1 .. n : L(i) = R(i)
    BY <1>4
  <2> HIDE DEF L, R
  <2>2. {L(i) : i \in 1 .. n} = {R(i) : i \in 1 .. n}
    BY <2>1
  <2>3. QED  BY <2>2 DEF L, R
<1>11. QED  BY <1>1, <1>6, <1>8, <1>9, <1>10 DEF Paths

(* A path that goes on, from its first step on and back. *)
LEMMA PathStep ==
    ASSUME NEW i \in Nat, NEW p \in Path
    PROVE  /\ <<i>> \o p \in Path /\ <<i>> \o p # <<>>
           /\ Head(<<i>> \o p) = i /\ Tail(<<i>> \o p) = p
           /\ Len(<<i>> \o p) = Len(p) + 1
           /\ (<<i>> \o p)[1] = i
           /\ \A k \in 1 .. Len(p) : (<<i>> \o p)[k + 1] = p[k]
<1> DEFINE q == <<i>> \o p
<1>1. <<i>> \in Seq(Nat) /\ Len(<<i>>) = 1 /\ p \in Seq(Nat) /\ Len(p) \in Nat
  BY DEF Path
<1>2. /\ q \in Seq(Nat) /\ Len(q) = 1 + Len(p)
      /\ \A k \in 1 .. 1 + Len(p) : q[k] = IF k <= 1 THEN i ELSE p[k - 1]
  BY <1>1, ConcatProperties
<1> HIDE DEF q
<1>3. Len(q) = Len(p) + 1 /\ q[1] = i /\ q # <<>>
  BY <1>1, <1>2
<1>4. \A k \in 1 .. Len(p) : q[k + 1] = p[k]
  BY <1>1, <1>2
<1>5. Head(q) = i
  BY <1>2, <1>3
<1>6. Tail(q) = p
  <2>1. /\ Tail(q) \in Seq(Nat) /\ Len(Tail(q)) = Len(q) - 1
        /\ \A k \in 1 .. Len(Tail(q)) : Tail(q)[k] = q[k + 1]
    BY <1>2, <1>3, HeadTailProperties
  <2>2. Len(Tail(q)) = Len(p) /\ \A k \in 1 .. Len(p) : Tail(q)[k] = p[k]
    BY <1>1, <1>3, <1>4, <2>1
  <2>3. QED  BY <1>1, <2>1, <2>2, SeqEqual
<1>7. QED  BY <1>2, <1>3, <1>4, <1>5, <1>6 DEF q, Path

(* A prefix of a path that goes on, but the empty one. *)
LEMMA PrefixStep ==
    ASSUME NEW i \in Nat, NEW p \in Path, NEW k \in 0 .. Len(p)
    PROVE  /\ SubSeq(<<i>> \o p, 1, k + 1) = <<i>> \o SubSeq(p, 1, k)
           /\ SubSeq(p, 1, k) \in Path
<1> DEFINE q == <<i>> \o p
           a == SubSeq(q, 1, k + 1)
           b == SubSeq(p, 1, k)
           c == <<i>> \o b
<1>0. k \in Nat /\ Len(p) \in Nat /\ k <= Len(p) /\ p \in Seq(Nat)
  BY DEF Path
<1>1. /\ q \in Seq(Nat) /\ Len(q) = Len(p) + 1 /\ q[1] = i
      /\ \A j \in 1 .. Len(p) : q[j + 1] = p[j]
  BY PathStep DEF Path
<1> HIDE DEF q
<1>2. b \in Seq(Nat) /\ Len(b) = k /\ \A j \in 1 .. k : b[j] = p[j]
  <2>1. \A j \in 1 .. k : p[j] \in Nat
    BY <1>0
  <2>2. QED  BY <1>0, <2>1, SubSeqProperties
<1>3. a \in Seq(Nat) /\ Len(a) = k + 1 /\ \A j \in 1 .. k + 1 : a[j] = q[j]
  <2>1. \A j \in 1 .. k + 1 : q[j] \in Nat
    BY <1>0, <1>1
  <2>2. QED  BY <1>0, <2>1, SubSeqProperties
<1> HIDE DEF a, b
<1>4. /\ c \in Seq(Nat) /\ Len(c) = k + 1 /\ c[1] = i
      /\ \A j \in 1 .. k : c[j + 1] = b[j]
  BY <1>2, PathStep DEF Path
<1> HIDE DEF c
<1>5. \A j \in 1 .. k + 1 : a[j] = c[j]
  <2>1. ASSUME NEW j \in 1 .. k + 1 PROVE a[j] = c[j]
    <3>1. CASE j = 1
      BY <1>1, <1>3, <1>4, <3>1
    <3>2. CASE j # 1
      <4>1. j - 1 \in 1 .. k /\ j - 1 \in 1 .. Len(p) /\ (j - 1) + 1 = j
        BY <1>0, <3>2
      <4>2. a[j] = q[j] /\ q[j] = p[j - 1] /\ c[j] = b[j - 1] /\ b[j - 1] = p[j - 1]
        BY <1>1, <1>2, <1>3, <1>4, <4>1
      <4>3. QED  BY <4>2
    <3>3. QED  BY <3>1, <3>2
  <2>2. QED  BY <2>1
<1>6. a = c
  BY <1>3, <1>4, <1>5, SeqEqual
<1>7. QED  BY <1>2, <1>6 DEF a, b, c, q, Path

LEMMA AtRoot ==
    ASSUME NEW t \in Tree
    PROVE  <<>> \in Path /\ At[t][<<>>] = t
<1>1. <<>> \in Path
  BY DEF Path
<1>2. QED  BY <1>1, AtDef

LEMMA AtStep ==
    ASSUME NEW t \in Tree, NEW i \in DOMAIN t.kids, NEW p \in Path
    PROVE  At[t][<<i>> \o p] = At[t.kids[i]][p]
<1>1. i \in Nat
  <2>1. DOMAIN t.kids = 1 .. Len(t.kids)
    BY TreeParts
  <2>2. QED  BY <2>1
<1>2. /\ <<i>> \o p \in Path /\ <<i>> \o p # <<>>
      /\ Head(<<i>> \o p) = i /\ Tail(<<i>> \o p) = p
  BY <1>1, PathStep
<1> DEFINE q == <<i>> \o p
<1> HIDE DEF q
<1>3. At[t][q] = IF q = <<>> \/ Head(q) \notin DOMAIN t.kids THEN t
                 ELSE At[t.kids[Head(q)]][Tail(q)]
  BY <1>2, AtDef DEF q
<1>4. At[t][q] = At[t.kids[i]][p]
  BY <1>2, <1>3 DEF q
<1>5. QED  BY <1>4 DEF q

LEMMA AtType ==
    ASSUME NEW t \in Tree, NEW p \in Path
    PROVE  /\ At[t][p] \in Tree
           /\ Len(At[t][p].kids) \in Nat
           /\ DOMAIN At[t][p].kids = 1 .. Len(At[t][p].kids)
           /\ \A i \in DOMAIN At[t][p].kids : i \in Nat /\ At[t][p].kids[i] \in Tree
<1>1. At[t][p] \in Tree
  BY AtDef
<1> DEFINE u == At[t][p]
<1> HIDE DEF u
<1>2. /\ Len(u.kids) \in Nat /\ DOMAIN u.kids = 1 .. Len(u.kids)
      /\ \A i \in DOMAIN u.kids : u.kids[i] \in Tree
  BY <1>1, TreeParts DEF u
<1>3. \A i \in DOMAIN u.kids : i \in Nat
  BY <1>2
<1>4. QED  BY <1>1, <1>2, <1>3 DEF u

LEMMA PathCases ==
    ASSUME NEW t \in Tree
    PROVE  /\ <<>> \in Paths(t)
           /\ \A i \in DOMAIN t.kids : \A q \in Paths(t.kids[i]) : <<i>> \o q \in Paths(t)
           /\ \A p \in Paths(t) :
                 p = <<>> \/ \E i \in DOMAIN t.kids : \E q \in Paths(t.kids[i]) : p = <<i>> \o q
<1> DEFINE On(i) == {<<i>> \o q : q \in Paths(t.kids[i])}
<1>1. \A i : \A p : p \in On(i) <=> \E q \in Paths(t.kids[i]) : p = <<i>> \o q
  OBVIOUS
<1>2. Paths(t) = {<<>>} \cup UNION {On(i) : i \in DOMAIN t.kids}
  BY PathsDef
<1> HIDE DEF On
<1>3. \A p : p \in Paths(t) <=> p = <<>> \/ \E i \in DOMAIN t.kids : p \in On(i)
  BY <1>2
<1>4. <<>> \in Paths(t)
  BY <1>3
<1>5. ASSUME NEW i \in DOMAIN t.kids, NEW q \in Paths(t.kids[i]) PROVE <<i>> \o q \in Paths(t)
  <2>1. <<i>> \o q \in On(i)
    BY <1>1
  <2>2. QED  BY <1>3, <2>1
<1>6. ASSUME NEW p \in Paths(t), p # <<>>
      PROVE  \E i \in DOMAIN t.kids : \E q \in Paths(t.kids[i]) : p = <<i>> \o q
  <2>1. PICK i \in DOMAIN t.kids : p \in On(i)
    BY <1>3, <1>6
  <2>2. PICK q \in Paths(t.kids[i]) : p = <<i>> \o q
    BY <1>1, <2>1
  <2>3. QED  BY <2>2
<1>7. QED  BY <1>4, <1>5, <1>6

(* Each step of a path of a tree is one to a child that is there. *)
LEMMA PathsGoDown ==
    \A t \in Tree : \A p \in Paths(t) : \A k \in 0 .. Len(p) - 1 :
        p[k + 1] \in DOMAIN At[t][SubSeq(p, 1, k)].kids
<1> DEFINE Down(t) == \A p \in Paths(t) : \A k \in 0 .. Len(p) - 1 :
                         p[k + 1] \in DOMAIN At[t][SubSeq(p, 1, k)].kids
           S == {t \in Tree : Down(t)}
<1>1. ASSUME NEW t \in Tree, \A i \in DOMAIN t.kids : Down(t.kids[i])
      PROVE  Down(t)
  <2> SUFFICES ASSUME NEW p \in Paths(t), NEW k \in 0 .. Len(p) - 1
               PROVE  p[k + 1] \in DOMAIN At[t][SubSeq(p, 1, k)].kids
    OBVIOUS
  <2> HIDE DEF Down
  <2>1. CASE p = <<>>
    BY <2>1
  <2>2. CASE p # <<>>
    <3>0. PICK i \in DOMAIN t.kids : \E q \in Paths(t.kids[i]) : p = <<i>> \o q
      BY <2>2, PathCases
    <3>1. PICK q \in Paths(t.kids[i]) : p = <<i>> \o q
      BY <3>0
    <3>2. t.kids[i] \in Tree /\ DOMAIN t.kids = 1 .. Len(t.kids)
      BY TreeParts
    <3>3. i \in Nat /\ q \in Path
      BY <3>2, PathsDef
    <3>4. /\ Len(p) = Len(q) + 1 /\ Len(q) \in Nat /\ p[1] = i
          /\ \A j \in 1 .. Len(q) : p[j + 1] = q[j]
      BY <3>1, <3>3, PathStep DEF Path
    <3>5. CASE k = 0
      <4>1. SubSeq(p, 1, 0) = <<>>
        BY SubSeqEmpty
      <4>2. k + 1 = 1
        BY <3>5
      <4>3. QED  BY <3>4, <3>5, <4>1, <4>2, AtRoot
    <3>6. CASE k # 0
      <4>1. k - 1 \in 0 .. Len(q) - 1 /\ k - 1 \in 0 .. Len(q) /\ (k - 1) + 1 = k
            /\ k \in 1 .. Len(q)
        BY <3>4, <3>6
      <4>2. /\ SubSeq(p, 1, k) = <<i>> \o SubSeq(q, 1, k - 1)
            /\ SubSeq(q, 1, k - 1) \in Path
        BY <3>1, <3>3, <4>1, PrefixStep
      <4>3. At[t][SubSeq(p, 1, k)] = At[t.kids[i]][SubSeq(q, 1, k - 1)]
        <5>1. \A r \in Path : At[t][<<i>> \o r] = At[t.kids[i]][r]
          BY AtStep
        <5>2. QED  BY <4>2, <5>1
      <4>4. q[(k - 1) + 1] \in DOMAIN At[t.kids[i]][SubSeq(q, 1, k - 1)].kids
        BY <1>1, <4>1 DEF Down
      <4>5. p[k + 1] = q[k]
        BY <3>4, <4>1
      <4>6. QED  BY <4>1, <4>3, <4>4, <4>5
    <3>7. QED  BY <3>5, <3>6
  <2>3. QED  BY <2>1, <2>2
<1> HIDE DEF Down
<1>2. Tree \subseteq S
  <2>1. \A t \in Tree : (\A i \in DOMAIN t.kids : t.kids[i] \in S) => t \in S
    BY <1>1
  <2> HIDE DEF S
  <2>2. QED  BY <2>1, TreeInduction
<1>3. QED  BY <1>2 DEF Down

(* A path of a tree is reached from the path before it by its last step. *)
LEMMA PathPrefixes ==
    ASSUME NEW t \in Tree, NEW p \in Paths(t)
    PROVE  /\ p \in Path /\ Len(p) \in Nat /\ SubSeq(p, 1, Len(p)) = p
           /\ SubSeq(p, 1, 0) = <<>>
           /\ \A k \in 1 .. Len(p) :
                 /\ SubSeq(p, 1, k - 1) \in Path
                 /\ p[k] \in DOMAIN At[t][SubSeq(p, 1, k - 1)].kids
                 /\ SubSeq(p, 1, k) = SubSeq(p, 1, k - 1) \o <<p[k]>>
<1>1. p \in Path /\ p \in Seq(Nat) /\ Len(p) \in Nat
  BY PathsDef DEF Path
<1>2. SubSeq(p, 1, Len(p)) = p
  BY <1>1, SubSeqFull
<1>3. SubSeq(p, 1, 0) = <<>>
  BY SubSeqEmpty
<1>4. ASSUME NEW k \in 1 .. Len(p)
      PROVE  /\ SubSeq(p, 1, k - 1) \in Path
             /\ p[k] \in DOMAIN At[t][SubSeq(p, 1, k - 1)].kids
             /\ SubSeq(p, 1, k) = SubSeq(p, 1, k - 1) \o <<p[k]>>
  <2>1. SubSeq(p, 1, k - 1) \in Path
    <3>1. k - 1 \in Int /\ \A j \in 1 .. k - 1 : p[j] \in Nat
      BY <1>1
    <3>2. QED  BY <3>1, SubSeqProperties DEF Path
  <2>2. p[k] \in DOMAIN At[t][SubSeq(p, 1, k - 1)].kids
    <3>1. k - 1 \in 0 .. Len(p) - 1 /\ (k - 1) + 1 = k
      BY <1>1
    <3>2. p[(k - 1) + 1] \in DOMAIN At[t][SubSeq(p, 1, k - 1)].kids
      BY <3>1, PathsGoDown
    <3>3. QED  BY <3>1, <3>2
  <2>3. SubSeq(p, 1, k) = SubSeq(p, 1, k - 1) \o <<p[k]>>
    <3>1. 1 \in 1 .. Len(p) /\ k \in 1 .. Len(p)
      BY <1>1
    <3>2. QED  BY <1>1, <3>1, SubSeqRecursiveSecond
  <2>4. QED  BY <2>1, <2>2, <2>3
<1>5. QED  BY <1>1, <1>2, <1>3, <1>4

(* What it is for one path to begin another. *)
LEMMA PrefixMeans ==
    ASSUME NEW p, NEW q, p \in Path, q \in Path
    PROVE  IsPrefix(p, q) <=> Len(p) <= Len(q) /\ \A k \in 1 .. Len(p) : p[k] = q[k]
<1>1. Len(p) \in Nat /\ Len(q) \in Nat /\ p \in Seq(Nat) /\ q \in Seq(Nat)
  BY DEF Path
<1> DEFINE a == SubSeq(p, 1, Len(p))
           b == SubSeq(q, 1, Len(p))
<1>2. SUFFICES ASSUME Len(p) <= Len(q)
               PROVE  a = b <=> \A k \in 1 .. Len(p) : p[k] = q[k]
  BY DEF IsPrefix
<1>3. a \in Seq(Nat) /\ Len(a) = Len(p) /\ \A k \in 1 .. Len(p) : a[k] = p[k]
  BY <1>1
<1>4. b \in Seq(Nat) /\ Len(b) = Len(p) /\ \A k \in 1 .. Len(p) : b[k] = q[k]
  BY <1>1, <1>2
<1> HIDE DEF a, b
<1>5. a = b => \A k \in 1 .. Len(p) : p[k] = q[k]
  BY <1>3, <1>4
<1>6. (\A k \in 1 .. Len(p) : p[k] = q[k]) => a = b
  <2>1. SUFFICES ASSUME \A k \in 1 .. Len(p) : p[k] = q[k] PROVE a = b
    OBVIOUS
  <2>2. Len(a) = Len(b) /\ \A k \in 1 .. Len(a) : a[k] = b[k]
    BY <1>3, <1>4, <2>1
  <2>3. QED  BY ONLY <1>3, <1>4, <2>2, SeqEqual
<1>7. QED  BY <1>5, <1>6

LEMMA PrefixBelow ==
    ASSUME NEW i, NEW j, NEW p, NEW q, i \in Nat, j \in Nat, p \in Path, q \in Path
    PROVE  IsPrefix(<<i>> \o p, <<j>> \o q) <=> i = j /\ IsPrefix(p, q)
<1> DEFINE ip == <<i>> \o p
           jq == <<j>> \o q
<1>1. /\ ip \in Path /\ Len(ip) = Len(p) + 1 /\ ip[1] = i
      /\ \A k \in 1 .. Len(p) : ip[k + 1] = p[k]
  BY PathStep
<1>2. /\ jq \in Path /\ Len(jq) = Len(q) + 1 /\ jq[1] = j
      /\ \A k \in 1 .. Len(q) : jq[k + 1] = q[k]
  BY PathStep
<1>3. Len(p) \in Nat /\ Len(q) \in Nat
  BY DEF Path
<1> HIDE DEF ip, jq
<1>4. IsPrefix(ip, jq) <=> Len(ip) <= Len(jq) /\ \A k \in 1 .. Len(ip) : ip[k] = jq[k]
  BY ONLY <1>1, <1>2, PrefixMeans
<1>5. IsPrefix(p, q) <=> Len(p) <= Len(q) /\ \A k \in 1 .. Len(p) : p[k] = q[k]
  BY ONLY p \in Path, q \in Path, PrefixMeans
<1>6. ASSUME IsPrefix(ip, jq) PROVE i = j /\ IsPrefix(p, q)
  <2>1. Len(p) <= Len(q) /\ \A k \in 1 .. Len(p) + 1 : ip[k] = jq[k]
    BY <1>1, <1>2, <1>3, <1>4, <1>6
  <2>2. 1 \in 1 .. Len(p) + 1
    BY <1>3
  <2>3. i = j
    BY <1>1, <1>2, <2>1, <2>2
  <2>4. ASSUME NEW k \in 1 .. Len(p) PROVE p[k] = q[k]
    <3>1. k + 1 \in 1 .. Len(p) + 1 /\ k \in 1 .. Len(q)
      BY <1>3, <2>1
    <3>2. QED  BY <1>1, <1>2, <2>1, <3>1
  <2>5. QED  BY <1>5, <2>1, <2>3, <2>4
<1>7. ASSUME i = j, IsPrefix(p, q) PROVE IsPrefix(ip, jq)
  <2>1. Len(ip) <= Len(jq)
    BY <1>1, <1>2, <1>3, <1>5, <1>7
  <2>2. ASSUME NEW k \in 1 .. Len(ip) PROVE ip[k] = jq[k]
    <3>1. CASE k = 1
      BY <1>1, <1>2, <1>7, <3>1
    <3>2. CASE k # 1
      <4>1. k - 1 \in 1 .. Len(p) /\ k - 1 \in 1 .. Len(q) /\ (k - 1) + 1 = k
        BY <1>1, <1>3, <1>5, <1>7, <3>2
      <4>2. ip[(k - 1) + 1] = p[k - 1] /\ jq[(k - 1) + 1] = q[k - 1] /\ p[k - 1] = q[k - 1]
        BY <1>1, <1>2, <1>5, <1>7, <4>1
      <4>3. QED  BY <4>1, <4>2
    <3>3. QED  BY <3>1, <3>2
  <2>3. QED  BY <1>4, <2>1, <2>2
<1>8. QED  BY <1>6, <1>7 DEF ip, jq

LEMMA PrefixEnds ==
    ASSUME NEW p, p \in Path
    PROVE  /\ IsPrefix(<<>>, p) /\ IsPrefix(p, p)
           /\ IsPrefix(p, <<>>) => p = <<>>
<1>0. <<>> \in Path /\ Len(<<>>) = 0 /\ Len(p) \in Nat
  BY DEF Path
<1>1. IsPrefix(<<>>, p)
  <2>1. IsPrefix(<<>>, p) <=> Len(<<>>) <= Len(p) /\ \A k \in 1 .. Len(<<>>) : <<>>[k] = p[k]
    BY ONLY <1>0, p \in Path, PrefixMeans
  <2>2. QED  BY <1>0, <2>1
<1>2. IsPrefix(p, p)
  BY <1>0 DEF IsPrefix
<1>3. IsPrefix(p, <<>>) => p = <<>>
  BY <1>0 DEF IsPrefix, Path
<1>4. QED  BY <1>1, <1>2, <1>3

(* The first nodes of a tree, and the nodes under each child. *)
FromEachKid(g, h, t) ==
    /\ g = [i \in DOMAIN t.kids |-> g[i]]
    /\ \A i \in DOMAIN t.kids : g[i] = h[Below(i, Flat[t.kids[i]])]

LEMMA PiecewiseFlat ==
    ASSUME NEW Y, NEW h, NEW t, NEW g,
           Piecewise(h, Path, Y), t \in Tree, FromEachKid(g, h, t)
    PROVE  /\ h[Flat[t]] = h[<< <<>> >>] \o FlattenSeq(g)
           /\ g \in Seq(Seq(Y))
<1> DEFINE ss == [i \in DOMAIN t.kids |-> Below(i, Flat[t.kids[i]])]
           root == << <<>> >>
<1>1. Flat[t] = root \o FlattenSeq(ss)
  BY FlatDef
<1>2. root \in Seq(Path)
  <2>1. <<>> \in Path
    BY DEF Path
  <2>2. QED  BY <2>1
<1>3. Len(t.kids) \in Nat /\ DOMAIN t.kids = 1 .. Len(t.kids)
  BY TreeParts
<1>4. ASSUME NEW i \in DOMAIN t.kids PROVE Below(i, Flat[t.kids[i]]) \in Seq(Path)
  <2>1. Flat[t.kids[i]] \in Seq(Path)
    BY FlatDef, TreeParts
  <2>2. i \in Nat
    BY <1>3
  <2>3. QED  BY ONLY <2>1, <2>2, BelowType
<1>5. ss \in Seq(Seq(Path))
  <2> DEFINE Z == Seq(Path)
             n == Len(t.kids)
  <2>1. n \in Nat /\ DOMAIN t.kids = 1 .. n /\ \A i \in 1 .. n : Below(i, Flat[t.kids[i]]) \in Z
    BY <1>3, <1>4
  <2> HIDE DEF Z, n
  <2>2. ss \in Seq(Z)
    BY <2>1
  <2>3. QED  BY <2>2 DEF Z
<1>6. Mapped(h, ss) = g
  <2>1. DOMAIN ss = DOMAIN t.kids /\ \A i \in DOMAIN t.kids : h[ss[i]] = g[i]
    BY DEF FromEachKid
  <2> HIDE DEF ss
  <2>2. QED  BY <2>1 DEF Mapped, FromEachKid
<1>7. FlattenSeq(ss) \in Seq(Path)
  BY ONLY <1>5, FlattenSeqType
<1> HIDE DEF ss, root
<1>8. h[root \o FlattenSeq(ss)] = h[root] \o h[FlattenSeq(ss)]
  BY <1>2, <1>7 DEF Piecewise
<1>9. h[FlattenSeq(ss)] = FlattenSeq(Mapped(h, ss))
  BY ONLY <1>5, Piecewise(h, Path, Y), FlattenMapped
<1>10. g \in Seq(Seq(Y))
  <2> DEFINE Z == Seq(Y)
             n == Len(t.kids)
  <2>1. h \in [Seq(Path) -> Z]
    BY DEF Piecewise
  <2>2. n \in Nat /\ DOMAIN t.kids = 1 .. n /\ \A i \in 1 .. n : g[i] \in Z
    BY <1>3, <1>4, <2>1 DEF FromEachKid
  <2> HIDE DEF Z, n
  <2>3. g = [i \in 1 .. n |-> g[i]]
    BY <2>2 DEF FromEachKid
  <2>4. g \in Seq(Z)
    BY <2>2, <2>3
  <2>5. QED  BY <2>4 DEF Z
<1>11. QED  BY <1>1, <1>6, <1>8, <1>9, <1>10 DEF root

(* No path comes twice in a tree. *)
LEMMA FlatInjective ==
    \A t \in Tree : IsInjective(Flat[t])
<1> DEFINE S == {t \in Tree : IsInjective(Flat[t])}
<1>1. ASSUME NEW t \in Tree, \A i \in DOMAIN t.kids : t.kids[i] \in S PROVE IsInjective(Flat[t])
  <2> DEFINE b(i) == Below(i, Flat[t.kids[i]])
             ss == [i \in DOMAIN t.kids |-> b(i)]
             root == << <<>> >>
  <2>1. Flat[t] = root \o FlattenSeq(ss)
    BY FlatDef
  <2>2. root \in Seq(Path) /\ IsInjective(root) /\ ToSet(root) = {<<>>}
    <3>1. <<>> \in Path
      BY DEF Path
    <3>2. QED  BY <3>1 DEF IsInjective, ToSet
  <2>3. Len(t.kids) \in Nat /\ DOMAIN t.kids = 1 .. Len(t.kids)
    BY TreeParts
  <2>4. ASSUME NEW i \in DOMAIN t.kids
        PROVE  /\ b(i) \in Seq(Path) /\ IsInjective(b(i))
               /\ \A p \in ToSet(b(i)) : p # <<>> /\ Head(p) = i
    <3> DEFINE s == Flat[t.kids[i]]
    <3>1. i \in Nat /\ s \in Seq(Path) /\ IsInjective(s)
      <4>1. t.kids[i] \in Tree
        BY TreeParts
      <4>2. QED  BY <1>1, <2>3, <4>1, FlatDef
    <3> HIDE DEF s
    <3>2. /\ Below(i, s) \in Seq(Path)
          /\ ToSet(Below(i, s)) = {<<i>> \o p : p \in ToSet(s)}
      BY ONLY <3>1, BelowType
    <3>3. ToSet(s) \subseteq Path /\ \A k \in DOMAIN s : s[k] \in Path
      BY <3>1 DEF ToSet
    <3>4. \A p \in Path : <<i>> \o p # <<>> /\ Head(<<i>> \o p) = i /\ Tail(<<i>> \o p) = p
      BY <3>1, PathStep
    <3>5. ASSUME NEW k \in DOMAIN s, NEW l \in DOMAIN s, <<i>> \o s[k] = <<i>> \o s[l] PROVE k = l
      <4>1. s[k] = s[l]
        BY <3>3, <3>4, <3>5
      <4>2. QED  BY <3>1, <4>1 DEF IsInjective
    <3>6. IsInjective(Below(i, s))
      BY <3>5 DEF IsInjective, Below
    <3>7. \A p \in ToSet(Below(i, s)) : p # <<>> /\ Head(p) = i
      BY <3>2, <3>3, <3>4
    <3>8. QED  BY <3>2, <3>6, <3>7 DEF s
  <2> HIDE DEF b
  <2>5. ss \in Seq(Seq(Path))
    <3> DEFINE Z == Seq(Path)
               n == Len(t.kids)
    <3>1. n \in Nat /\ DOMAIN t.kids = 1 .. n /\ \A i \in 1 .. n : b(i) \in Z
      BY <2>3, <2>4
    <3> HIDE DEF Z, n
    <3>2. ss \in Seq(Z)
      BY <3>1
    <3>3. QED  BY <3>2 DEF Z
  <2>6. \A i \in DOMAIN ss : IsInjective(ss[i])
    BY <2>4
  <2>7. \A i, j \in DOMAIN ss : i # j => Apart(ss[i], ss[j])
    <3>1. ASSUME NEW i \in DOMAIN t.kids, NEW j \in DOMAIN t.kids, i # j PROVE Apart(b(i), b(j))
      BY <2>4, <3>1 DEF Apart
    <3>2. QED  BY <3>1
  <2>8. DOMAIN ss = DOMAIN t.kids /\ \A i \in DOMAIN t.kids : ss[i] = b(i)
    OBVIOUS
  <2> HIDE DEF ss
  <2>9. IsInjective(FlattenSeq(ss)) /\ FlattenSeq(ss) \in Seq(Path)
    <3>1. IsInjective(FlattenSeq(ss))
      BY ONLY <2>5, <2>6, <2>7, FlattenInjective
    <3>2. FlattenSeq(ss) \in Seq(Path)
      BY ONLY <2>5, FlattenSeqType
    <3>3. QED  BY <3>1, <3>2
  <2>10. Apart(root, FlattenSeq(ss))
    <3> DEFINE n == Len(ss)
    <3>1. n \in Nat /\ DOMAIN ss = 1 .. n /\ ss \in [1 .. n -> Seq(Path)]
      BY ONLY <2>5, SeqAsFunction
    <3> HIDE DEF n
    <3>2. ToSet(FlattenSeq(ss)) = UNION {ToSet(ss[j]) : j \in 1 .. n}
      BY ONLY <3>1, FlattenMembers
    <3> DEFINE M(j) == ToSet(ss[j])
    <3>3. \A j \in 1 .. n : <<>> \notin M(j)
      BY <2>4, <2>8, <3>1
    <3>4. ToSet(FlattenSeq(ss)) = UNION {M(j) : j \in 1 .. n}
      BY <3>2
    <3> HIDE DEF M
    <3>5. <<>> \notin ToSet(FlattenSeq(ss))
      BY <3>3, <3>4
    <3>6. QED  BY <2>2, <3>5 DEF Apart
  <2> DEFINE rest == FlattenSeq(ss)
  <2>11. rest \in Seq(Path) /\ IsInjective(rest) /\ Apart(root, rest)
    BY <2>9, <2>10
  <2> HIDE DEF rest, root
  <2>12. IsInjective(root \o rest)
    BY ONLY <2>2, <2>11, ConcatInjective
  <2>13. QED  BY <2>1, <2>12 DEF rest
<1>2. Tree \subseteq S
  <2>1. \A t \in Tree : (\A i \in DOMAIN t.kids : t.kids[i] \in S) => t \in S
    BY <1>1
  <2> HIDE DEF S
  <2>2. QED  BY ONLY <2>1, TreeInduction
<1>3. QED  BY <1>2

-------------------------------------------------------------------------------
(* Selectors. *)

LEMMA LastStep ==
    ASSUME NEW q \in Path, NEW i \in Nat
    PROVE  /\ q \o <<i>> \in Path /\ q \o <<i>> # <<>>
           /\ Len(q) \in Nat /\ Len(q \o <<i>>) = Len(q) + 1
           /\ Front(q \o <<i>>) = q /\ Last(q \o <<i>>) = i
<1> DEFINE c == q \o <<i>>
<1>1. q \in Seq(Nat) /\ <<i>> \in Seq(Nat) /\ Len(<<i>>) = 1 /\ Len(q) \in Nat
  BY DEF Path
<1>2. /\ c \in Seq(Nat) /\ Len(c) = Len(q) + 1
      /\ \A k \in 1 .. Len(q) + 1 : c[k] = IF k <= Len(q) THEN q[k] ELSE <<i>>[k - Len(q)]
  BY <1>1, ConcatProperties
<1> HIDE DEF c
<1>3. Last(c) = i
  <2>1. Len(q) + 1 \in 1 .. Len(q) + 1 /\ ~ (Len(q) + 1 <= Len(q)) /\ (Len(q) + 1) - Len(q) = 1
    BY <1>1
  <2>2. c[Len(q) + 1] = i
    BY <1>2, <2>1
  <2>3. QED  BY <1>2, <2>2 DEF Last
<1>4. Front(c) = q
  <2>1. Len(c) - 1 = Len(q)
    BY <1>1, <1>2
  <2>2. \A k \in 1 .. Len(q) : c[k] \in Nat /\ c[k] = q[k]
    BY <1>1, <1>2
  <2>3. /\ SubSeq(c, 1, Len(q)) \in Seq(Nat) /\ Len(SubSeq(c, 1, Len(q))) = Len(q)
        /\ \A k \in 1 .. Len(q) : SubSeq(c, 1, Len(q))[k] = c[k]
    BY <1>1, <2>2, SubSeqProperties
  <2>4. SubSeq(c, 1, Len(q)) = q
    BY <1>1, <2>2, <2>3, SeqEqual
  <2>5. QED  BY <2>1, <2>4 DEF Front
<1>5. c # <<>>
  BY <1>1, <1>2
<1>6. QED  BY <1>1, <1>2, <1>3, <1>4, <1>5 DEF c, Path

LEMMA ChildrenParts ==
    ASSUME NEW t \in Tree, NEW q \in Path
    PROVE  /\ Children(t, q) \in Seq(Path)
           /\ DOMAIN Children(t, q) = DOMAIN At[t][q].kids
           /\ \A i \in DOMAIN At[t][q].kids : Children(t, q)[i] = q \o <<i>> /\ i \in Nat
<1>1. /\ Len(At[t][q].kids) \in Nat
      /\ DOMAIN At[t][q].kids = 1 .. Len(At[t][q].kids)
      /\ \A i \in DOMAIN At[t][q].kids : i \in Nat
  BY AtType
<1>2. \A i \in DOMAIN At[t][q].kids : q \o <<i>> \in Path
  BY <1>1, LastStep
<1>3. QED  BY <1>1, <1>2 DEF Children

(* The siblings of a role before one of them. *)
LEMMA RoleIndexIs ==
    ASSUME NEW t \in Tree, NEW q \in Path, NEW i \in Nat
    PROVE  RoleIndex(t, q \o <<i>>)
              = Cardinality({k \in 1 .. i - 1 : Role(t, q \o <<k>>) = Role(t, q \o <<i>>)})
<1> DEFINE c == q \o <<i>>
<1>1. c # <<>> /\ Front(c) = q /\ Last(c) = i
  BY LastStep
<1> HIDE DEF c
<1>2. RoleIndex(t, c) = Cardinality({k \in 1 .. i - 1 : Role(t, q \o <<k>>) = Role(t, c)})
  BY <1>1 DEF RoleIndex
<1>3. QED  BY <1>2 DEF c

LEMMA RoleIndexGrows ==
    ASSUME NEW t \in Tree, NEW q \in Path, NEW i \in Nat \ {0}, NEW j \in Nat \ {0}, j < i,
           Role(t, q \o <<j>>) = Role(t, q \o <<i>>)
    PROVE  RoleIndex(t, q \o <<j>>) # RoleIndex(t, q \o <<i>>)
<1> DEFINE r == Role(t, q \o <<i>>)
           A == {k \in 1 .. j - 1 : Role(t, q \o <<k>>) = r}
           B == {k \in 1 .. i - 1 : Role(t, q \o <<k>>) = r}
<1>1. RoleIndex(t, q \o <<j>>) = Cardinality(A) /\ RoleIndex(t, q \o <<i>>) = Cardinality(B)
  BY RoleIndexIs
<1>2. A \subseteq 1 .. j - 1 /\ B \subseteq 1 .. i - 1 /\ j \in B /\ j \notin A /\ A \subseteq B
  BY DEF A, B
<1>3. IsFiniteSet(1 .. i - 1)
  BY FS_Interval
<1> HIDE DEF A, B
<1>4. IsFiniteSet(B)
  BY <1>2, <1>3, FS_Subset
<1>5. Cardinality(B) = Cardinality(A) => B = A
  BY <1>2, <1>4, FS_Subset
<1>6. QED  BY <1>1, <1>2, <1>5

(* An element matches the step that is written for it. *)
LEMMA OwnStepMatches ==
    ASSUME NEW t \in Tree, NEW p \in Path
    PROVE  Matches(t, p, StepFor(t, p))
<1> DEFINE s == StepFor(t, p)
<1>1. /\ s.role = Role(t, p) /\ s.axis = "child"
      /\ s.preds \in {{}, {Pred("name", "=", Name(t, p))}, {Pred("index", "=", RoleIndex(t, p))}}
  BY DEF StepFor, Step
<1>2. <<Name(t, p), Name(t, p)>> \in Compares["="]
  <2>1. At[t][p].id \in Labels
    BY AtType, TreeParts
  <2>2. QED  BY <2>1, SelectorAssumption DEF Name
<1> HIDE DEF s
<1>3. \A x \in s.preds : Accepts(t, p, x)
  BY <1>1, <1>2 DEF Accepts, Pred
<1>4. QED  BY <1>1, <1>3 DEF Matches, s

(* It alone among its siblings does, unless it has a twin. *)
LEMMA OwnStepAlone ==
    ASSUME NEW t \in Tree, NEW q \in Path, NEW i \in DOMAIN At[t][q].kids,
           NEW j \in DOMAIN At[t][q].kids, ~ HasTwin(t, q \o <<i>>),
           Matches(t, q \o <<j>>, StepFor(t, q \o <<i>>))
    PROVE  j = i
<1> DEFINE c == q \o <<i>>
           d == q \o <<j>>
           s == StepFor(t, c)
<1>0. /\ i \in Nat \ {0} /\ j \in Nat \ {0}
      /\ DOMAIN At[t][q].kids = 1 .. Len(At[t][q].kids) /\ Len(At[t][q].kids) \in Nat
  BY AtType
<1>1. /\ c \in Path /\ d \in Path /\ c # <<>>
      /\ Front(c) = q /\ Last(c) = i /\ Last(d) = j
  BY <1>0, LastStep
<1>2. /\ d \in ToSet(Children(t, q))
      /\ DOMAIN Children(t, q) = DOMAIN At[t][q].kids
  BY ChildrenParts DEF ToSet
<1> HIDE DEF c, d
<1>3. s.role = Role(t, c) /\ Role(t, c) # AnyRole
  <2>1. At[t][c].id \in Labels
    BY <1>1, AtType, TreeParts
  <2>2. QED  BY <2>1, SelectorAssumption DEF StepFor, Step, Role
<1>4. Role(t, d) = Role(t, c) /\ \A x \in s.preds : Accepts(t, d, x)
  <2> HIDE DEF s
  <2>1. Matches(t, d, s)
    BY DEF c, d, s
  <2>2. QED  BY <1>3, <2>1 DEF Matches
<1>5. CASE Name(t, c) # NoName
  <2>1. s.preds = {Pred("name", "=", Name(t, c))}
    BY <1>5 DEF StepFor, Step
  <2> HIDE DEF s
  <2>2. <<Name(t, d), Name(t, c)>> \in Compares["="]
    BY <1>4, <2>1 DEF Accepts, Pred
  <2>3. d = c
    <3>1. ~ HasTwin(t, c)
      BY DEF c
    <3>2. QED  BY <1>1, <1>2, <1>4, <1>5, <2>2, <3>1 DEF HasTwin
  <2>4. QED  BY <1>1, <2>3
<1>6. CASE Name(t, c) = NoName
  <2> DEFINE Alike == {k \in DOMAIN Children(t, Front(c)) : Role(t, Front(c) \o <<k>>) = Role(t, c)}
  <2>1. Alike = {k \in DOMAIN At[t][q].kids : Role(t, q \o <<k>>) = Role(t, c)}
    BY <1>1, <1>2
  <2>2. i \in Alike /\ j \in Alike /\ IsFiniteSet(Alike)
    <3>1. i \in Alike /\ j \in Alike
      BY <1>4, <2>1 DEF c, d
    <3>2. Alike \in SUBSET (1 .. Len(At[t][q].kids)) /\ IsFiniteSet(1 .. Len(At[t][q].kids))
      BY <1>0, <2>1, FS_Interval
    <3>3. QED  BY <3>1, <3>2, FS_Subset
  <2>3. CASE Cardinality(Alike) > 1
    <3>1. s.preds = {Pred("index", "=", RoleIndex(t, c))}
      BY <1>1, <1>6, <2>3 DEF StepFor, Step
    <3> HIDE DEF s, Alike
    <3>2. RoleIndex(t, d) = RoleIndex(t, c)
      BY <1>4, <3>1 DEF Accepts, Pred
    <3>3. ~ (j < i)
      BY <1>0, <1>4, <3>2, RoleIndexGrows DEF c, d
    <3>4. ~ (i < j)
      BY <1>0, <1>4, <3>2, RoleIndexGrows DEF c, d
    <3>5. QED  BY <1>0, <3>3, <3>4
  <2>4. CASE ~ (Cardinality(Alike) > 1)
    <3> HIDE DEF Alike
    <3>1. Cardinality(Alike) \in Nat /\ Cardinality(Alike) # 0
      BY <2>2, FS_CardinalityType, FS_EmptySet
    <3>2. Cardinality(Alike) = 1
      BY <2>4, <3>1
    <3>3. PICK x : Alike = {x}
      BY <2>2, <3>2, FS_Singleton
    <3>4. QED  BY <2>2, <3>3
  <2>5. QED  BY <2>3, <2>4
<1>7. QED  BY <1>5, <1>6

LEMMA FilteredParts ==
    ASSUME NEW t \in Tree, NEW q \in Path, NEW step
    PROVE  /\ Filtered(t, Children(t, q), step) \in Seq(Path)
           /\ \A i \in DOMAIN At[t][q].kids :
                 Matches(t, q \o <<i>>, step)
                    => q \o <<i>> \in ToSet(Filtered(t, Children(t, q), step))
           /\ \A i \in DOMAIN At[t][q].kids :
                 (/\ Matches(t, q \o <<i>>, step)
                  /\ \A j \in DOMAIN At[t][q].kids : Matches(t, q \o <<j>>, step) => j = i)
                    => Filtered(t, Children(t, q), step) = <<q \o <<i>> >>
<1> DEFINE s == Children(t, q)
           S == {p \in ToSet(s) : Matches(t, p, step)}
<1>1. /\ s \in Seq(Path) /\ DOMAIN s = DOMAIN At[t][q].kids
      /\ \A i \in DOMAIN s : s[i] = q \o <<i>>
  BY ChildrenParts
<1>2. \A i \in DOMAIN s : s[i] \in ToSet(s)
  BY DEF ToSet
<1> HIDE DEF s
<1>3. \A i \in DOMAIN s : s[i] \in S <=> Matches(t, q \o <<i>>, step)
  BY <1>1, <1>2
<1> HIDE DEF S
<1>4. /\ Those(s, S) \in Seq(Path)
      /\ ToSet(Those(s, S)) = ToSet(s) \cap S
      /\ \A m \in DOMAIN s :
            (s[m] \in S /\ \A i \in DOMAIN s : i # m => s[i] \notin S)
                => Those(s, S) = <<s[m]>>
  BY <1>1, ThoseParts
<1>5. Filtered(t, s, step) = Those(s, S)
  BY DEF Filtered, S
<1>6. ASSUME NEW i \in DOMAIN s, Matches(t, q \o <<i>>, step)
      PROVE  q \o <<i>> \in ToSet(Those(s, S))
  BY <1>1, <1>2, <1>3, <1>4, <1>6
<1>7. ASSUME NEW i \in DOMAIN s, Matches(t, q \o <<i>>, step),
             \A j \in DOMAIN s : Matches(t, q \o <<j>>, step) => j = i
      PROVE  Those(s, S) = <<q \o <<i>> >>
  <2>1. s[i] \in S /\ \A j \in DOMAIN s : j # i => s[j] \notin S
    BY <1>3, <1>7
  <2>2. QED  BY <1>1, <1>4, <2>1
<1>8. QED  BY <1>1, <1>4, <1>5, <1>6, <1>7 DEF s

LEMMA FurtherParts ==
    ASSUME NEW t \in Tree, NEW fs \in Seq(Path), NEW step, step.axis = "child"
    PROVE  /\ Further(t, fs, step) \in Seq(Path)
           /\ \A q \in ToSet(fs) : \A i \in DOMAIN At[t][q].kids :
                 Matches(t, q \o <<i>>, step) => q \o <<i>> \in ToSet(Further(t, fs, step))
<1> DEFINE n == Len(fs)
           Next1(q) == Filtered(t, Children(t, q), step)
           ss == [k \in DOMAIN fs |-> Next1(fs[k])]
<1>1. /\ n \in Nat /\ DOMAIN fs = 1 .. n /\ ToSet(fs) = {fs[k] : k \in 1 .. n}
      /\ \A k \in 1 .. n : fs[k] \in Path
  BY DEF ToSet
<1>2. Further(t, fs, step) = FlattenSeq(ss)
  BY DEF Further
<1>3. \A q \in Path : Next1(q) \in Seq(Path)
  BY FilteredParts
<1> HIDE DEF Next1
<1>4. ss \in [1 .. n -> Seq(Path)] /\ \A k \in 1 .. n : ss[k] = Next1(fs[k])
  BY <1>1, <1>3
<1> HIDE DEF ss, n
<1>5. FlattenSeq(ss) \in Seq(Path) /\ ToSet(FlattenSeq(ss)) = UNION {ToSet(ss[k]) : k \in 1 .. n}
  BY <1>1, <1>4, FlattenType, FlattenMembers
<1>6. ASSUME NEW q \in ToSet(fs), NEW i \in DOMAIN At[t][q].kids,
             Matches(t, q \o <<i>>, step)
      PROVE  q \o <<i>> \in ToSet(FlattenSeq(ss))
  <2>1. PICK k \in 1 .. n : fs[k] = q
    BY <1>1
  <2>2. q \o <<i>> \in ToSet(Next1(q))
    BY <1>1, <1>6, <2>1, FilteredParts DEF Next1
  <2>3. QED  BY <1>4, <1>5, <2>1, <2>2
<1>7. QED  BY <1>2, <1>5, <1>6

LEMMA FurtherAlone ==
    ASSUME NEW t \in Tree, NEW q \in Path, NEW i \in DOMAIN At[t][q].kids, NEW step,
           step.axis = "child", Matches(t, q \o <<i>>, step),
           \A j \in DOMAIN At[t][q].kids : Matches(t, q \o <<j>>, step) => j = i
    PROVE  Further(t, <<q>>, step) = <<q \o <<i>> >>
<1> DEFINE next == Filtered(t, Children(t, q), step)
           ss == <<next>>
<1>1. next = <<q \o <<i>> >> /\ next \in Seq(Path)
  BY FilteredParts
<1>2. Further(t, <<q>>, step) = FlattenSeq(ss)
  BY DEF Further
<1> HIDE DEF next
<1>3. FlattenSeq(ss) = next
  BY <1>1, FlattenSingle
<1>4. QED  BY <1>1, <1>2, <1>3

(* The steps that are derived for an element, and where they lead. *)
LEMMA DerivedSteps ==
    ASSUME NEW t \in Tree, NEW p \in Path
    PROVE  LET s == SelectorFor(t, p)
               n == Len(p) + 1
           IN  /\ n \in Nat \ {0} /\ s \in Seq({StepFor(t, q) : q \in Path}) /\ Len(s) = n
               /\ DOMAIN s = 1 .. n
               /\ \A k \in 1 .. n : /\ s[k] = StepFor(t, SubSeq(p, 1, k - 1))
                                    /\ s[k].axis = "child"
               /\ Canonical(s) = s
<1> DEFINE s == SelectorFor(t, p)
           n == Len(p) + 1
<1>1. n \in Nat \ {0}
  BY DEF Path
<1>2. s = [k \in 1 .. n |-> StepFor(t, SubSeq(p, 1, k - 1))]
  BY DEF SelectorFor
<1>3. \A k \in 1 .. n : SubSeq(p, 1, k - 1) \in Path
  <2>1. ASSUME NEW k \in 1 .. n PROVE SubSeq(p, 1, k - 1) \in Path
    <3>1. k - 1 \in Int /\ \A j \in 1 .. k - 1 : p[j] \in Nat
      BY DEF Path
    <3>2. QED  BY <3>1, SubSeqProperties DEF Path
  <2>2. QED  BY <2>1
<1> HIDE DEF n, s
<1>4. /\ s \in Seq({StepFor(t, q) : q \in Path}) /\ Len(s) = n /\ DOMAIN s = 1 .. n
      /\ \A k \in 1 .. n : s[k] = StepFor(t, SubSeq(p, 1, k - 1))
  BY <1>1, <1>2, <1>3
<1>5. \A q : StepFor(t, q).axis = "child" /\ [StepFor(t, q) EXCEPT !.axis = "child"] = StepFor(t, q)
  <2>1. \A r, ps : /\ [Step(r, ps, "child") EXCEPT !.axis = "child"] = Step(r, ps, "child")
                   /\ Step(r, ps, "child").axis = "child"
    BY DEF Step
  <2>2. \A q : \E r, ps : StepFor(t, q) = Step(r, ps, "child")
    BY DEF StepFor
  <2>3. QED  BY <2>1, <2>2
<1>6. Canonical(s) = s
  <2>1. Canonical(s) = [k \in 1 .. n |-> [s[k] EXCEPT !.axis = "child"]]
    BY <1>4 DEF Canonical
  <2>2. \A k \in 1 .. n : [s[k] EXCEPT !.axis = "child"] = s[k]
    BY <1>4, <1>5
  <2>3. QED  BY <1>2, <1>4, <2>1, <2>2
<1>7. QED  BY <1>1, <1>4, <1>5, <1>6 DEF s, n

(* Resolving them goes from the root down, one set of elements after the other. *)
LEMMA ResolveRuns ==
    ASSUME NEW t \in Tree, NEW p \in Path
    PROVE  LET n == Len(p) + 1
           IN  \E f \in [1 .. n -> Seq(Path)] :
                  /\ f[1] = << <<>> >>
                  /\ \A k \in 2 .. n :
                        f[k] = Further(t, f[k - 1], StepFor(t, SubSeq(p, 1, k - 1)))
                  /\ Resolve(t, SelectorFor(t, p)) = f[n]
<1> DEFINE s == SelectorFor(t, p)
           n == Len(p) + 1
           T == Seq(Path)
<1>1. /\ n \in Nat \ {0} /\ Len(s) = n
      /\ \A k \in 1 .. n : /\ s[k] = StepFor(t, SubSeq(p, 1, k - 1))
                           /\ s[k].axis = "child"
  BY DerivedSteps
<1> HIDE DEF n, s
<1>2. First(t, s[1]) = << <<>> >> /\ << <<>> >> \in T
  <2>1. 1 \in 1 .. n /\ 1 - 1 = 0
    BY <1>1
  <2>2. s[1] = StepFor(t, <<>>)
    <3>1. SubSeq(p, 1, 0) = <<>>
      BY SubSeqEmpty
    <3>2. QED  BY <1>1, <2>1, <3>1
  <2>3. Matches(t, <<>>, s[1])
    BY <2>2, AtRoot, OwnStepMatches
  <2>4. << <<>> >> \in T
    BY AtRoot
  <2>5. QED  BY <1>1, <2>1, <2>3, <2>4 DEF First
<1> DEFINE step == [k \in 1 .. n |-> [fs \in T |-> IF k = 1 THEN First(t, s[1]) ELSE Further(t, fs, s[k])]]
<1>3. step \in [1 .. n -> [T -> T]]
  <2>1. ASSUME NEW k \in 1 .. n, NEW fs \in T
        PROVE  (IF k = 1 THEN First(t, s[1]) ELSE Further(t, fs, s[k])) \in T
    <3>1. Further(t, fs, s[k]) \in T
      BY <1>1, FurtherParts
    <3>2. QED  BY <1>2, <3>1
  <2> HIDE DEF T
  <2>2. QED  BY <2>1
<1>4. PICK r \in [0 .. n -> T] : Runs(r, n, <<>>, step)
  <2>1. <<>> \in T /\ n \in Nat
    BY <1>1
  <2> HIDE DEF T, step
  <2>2. QED  BY <1>3, <2>1, Recursion, Zenon
<1> DEFINE Unrolled(g) == [k \in 1 .. n |-> IF k = 1 THEN First(t, s[1]) ELSE Further(t, g[k - 1], s[k])]
           f == [k \in 1 .. n |-> r[k]]
           found == CHOOSE g : g = Unrolled(g)
<1>5. \A k \in 1 .. n : r[k] = IF k = 1 THEN First(t, s[1]) ELSE Further(t, r[k - 1], s[k])
  <2>1. ASSUME NEW k \in 1 .. n
        PROVE  r[k] = IF k = 1 THEN First(t, s[1]) ELSE Further(t, r[k - 1], s[k])
    <3>1. r[k] = step[k][r[k - 1]] /\ r[k - 1] \in T
      <4>1. k - 1 \in 0 .. n
        BY <1>1
      <4> HIDE DEF T, step
      <4>2. QED  BY <1>4, <4>1 DEF Runs
    <3> HIDE DEF T
    <3>2. QED  BY <3>1
  <2>2. QED  BY <2>1
<1> HIDE DEF step
<1>6. f = Unrolled(f)
  <2>1. \A k \in 1 .. n : k # 1 => k - 1 \in 1 .. n
    BY <1>1
  <2>2. \A k \in 1 .. n : k # 1 => f[k - 1] = r[k - 1]
    BY <2>1
  <2>3. QED  BY <1>5, <2>2
<1>7. found = Unrolled(found)
  <2> HIDE DEF f, Unrolled
  <2>1. \E g : g = Unrolled(g)
    BY <1>6
  <2>2. QED  BY <2>1
<1>8. Resolve(t, s) = found[n]
  BY <1>1 DEF Resolve
<1> HIDE DEF found
<1> DEFINE S == {k \in 0 .. n : k = 0 \/ found[k] = r[k]}
<1>9. \A k \in 1 .. n : found[k] = IF k = 1 THEN First(t, s[1]) ELSE Further(t, found[k - 1], s[k])
  <2>1. \A k \in 1 .. n : Unrolled(found)[k] = IF k = 1 THEN First(t, s[1]) ELSE Further(t, found[k - 1], s[k])
    OBVIOUS
  <2> HIDE DEF Unrolled
  <2>2. QED  BY <1>7, <2>1
<1>10. 0 \in S /\ \A k \in 0 .. n - 1 : k \in S => k + 1 \in S
  <2>1. 0 \in S
    BY <1>1
  <2>2. ASSUME NEW k \in 0 .. n - 1, k \in S PROVE k + 1 \in S
    <3>1. k + 1 \in 1 .. n /\ k + 1 \in 0 .. n /\ (k + 1) - 1 = k /\ (k + 1 = 1 <=> k = 0)
      BY <1>1
    <3>2. k # 0 => found[k] = r[k]
      BY <2>2
    <3>3. found[k + 1] = r[k + 1]
      BY <1>5, <1>9, <3>1, <3>2
    <3>4. QED  BY <3>1, <3>3
  <2>3. QED  BY <2>1, <2>2
<1>11. \A k \in 1 .. n : found[k] = r[k]
  <2> HIDE DEF S
  <2>1. 0 .. n \subseteq S
    BY <1>1, <1>10, Induction
  <2>2. \A k \in 1 .. n : k \in 0 .. n /\ k # 0
    BY <1>1
  <2>3. QED  BY <2>1, <2>2 DEF S
<1>12. f \in [1 .. n -> T] /\ \A k \in 1 .. n : f[k] = r[k]
  <2>1. \A k \in 1 .. n : k \in 0 .. n
    BY <1>1
  <2>2. QED  BY <2>1
<1> HIDE DEF f, T
<1>13. f[1] = << <<>> >> /\ f[n] = Resolve(t, s)
  <2>1. 1 \in 1 .. n /\ n \in 1 .. n
    BY <1>1
  <2>2. QED  BY <1>2, <1>5, <1>8, <1>11, <1>12, <2>1
<1>14. \A k \in 2 .. n : f[k] = Further(t, f[k - 1], StepFor(t, SubSeq(p, 1, k - 1)))
  <2>1. \A k \in 2 .. n : k \in 1 .. n /\ k - 1 \in 1 .. n /\ k # 1
    BY <1>1
  <2>2. QED  BY <1>1, <1>5, <1>12, <2>1
<1>15. QED  BY <1>12, <1>13, <1>14 DEF n, s, T

(* The selector that is derived for an element finds it. *)
THEOREM DerivedFinds ==
    ASSUME NEW t \in Tree, NEW p \in Paths(t)
    PROVE  p \in ToSet(Resolve(t, SelectorFor(t, p)))
<1> DEFINE n == Len(p) + 1
           Up(k) == SubSeq(p, 1, k)
<1>1. /\ p \in Path /\ Len(p) \in Nat /\ Up(Len(p)) = p /\ Up(0) = <<>>
      /\ \A k \in 1 .. Len(p) : /\ Up(k - 1) \in Path
                                /\ p[k] \in DOMAIN At[t][Up(k - 1)].kids
                                /\ Up(k) = Up(k - 1) \o <<p[k]>>
  BY PathPrefixes
<1>2. PICK f \in [1 .. n -> Seq(Path)] :
         /\ f[1] = << <<>> >>
         /\ \A k \in 2 .. n : f[k] = Further(t, f[k - 1], StepFor(t, Up(k - 1)))
         /\ Resolve(t, SelectorFor(t, p)) = f[n]
  BY <1>1, ResolveRuns
<1> HIDE DEF Up
<1> DEFINE S == {k \in 0 .. Len(p) : Up(k) \in ToSet(f[k + 1])}
<1>3. 0 \in S
  <2>1. f[0 + 1] = << <<>> >> /\ 0 \in 0 .. Len(p)
    BY <1>1, <1>2
  <2>2. <<>> \in ToSet(<< <<>> >>)
    BY DEF ToSet
  <2>3. QED  BY <1>1, <2>1, <2>2
<1>4. ASSUME NEW k \in 0 .. Len(p) - 1, k \in S PROVE k + 1 \in S
  <2>1. /\ k + 1 \in 1 .. Len(p) /\ k + 1 \in 0 .. Len(p) /\ (k + 1) - 1 = k
        /\ k + 1 \in 1 .. n /\ (k + 1) + 1 \in 2 .. n /\ ((k + 1) + 1) - 1 = k + 1
    BY <1>1
  <2>2. /\ Up(k) \in Path /\ p[k + 1] \in DOMAIN At[t][Up(k)].kids
        /\ Up(k + 1) = Up(k) \o <<p[k + 1]>>
    BY <1>1, <2>1
  <2>3. Up(k) \in ToSet(f[k + 1]) /\ f[k + 1] \in Seq(Path)
    BY <1>4, <2>1
  <2>4. f[(k + 1) + 1] = Further(t, f[k + 1], StepFor(t, Up(k + 1)))
    BY <1>2, <2>1
  <2>5. Matches(t, Up(k + 1), StepFor(t, Up(k + 1))) /\ StepFor(t, Up(k + 1)).axis = "child"
    <3>1. Up(k + 1) \in Path
      <4>1. p[k + 1] \in Nat
        BY <2>2, AtType
      <4>2. QED  BY <2>2, <4>1, LastStep
    <3>2. QED  BY <3>1, OwnStepMatches DEF StepFor, Step
  <2>6. Up(k + 1) \in ToSet(Further(t, f[k + 1], StepFor(t, Up(k + 1))))
    <3> DEFINE step == StepFor(t, Up(k + 1))
               fs == f[k + 1]
    <3>1. step.axis = "child" /\ fs \in Seq(Path) /\ Up(k) \in ToSet(fs)
          /\ Matches(t, Up(k) \o <<p[k + 1]>>, step)
      BY <2>2, <2>3, <2>5
    <3> HIDE DEF step, fs
    <3>2. Up(k) \o <<p[k + 1]>> \in ToSet(Further(t, fs, step))
      BY <2>2, <3>1, FurtherParts
    <3>3. QED  BY <2>2, <3>2 DEF step, fs
  <2>7. QED  BY <2>1, <2>4, <2>6
<1>5. Up(Len(p)) \in ToSet(f[n])
  <2> HIDE DEF S, n
  <2>1. 0 .. Len(p) \subseteq S
    BY <1>1, <1>3, <1>4, Induction
  <2>2. Len(p) \in S
    BY <1>1, <2>1
  <2>3. QED  BY <2>2 DEF S, n
<1>6. QED  BY <1>1, <1>2, <1>5

(* It finds nothing else when neither the element nor one above it has a twin. *)
THEOREM DerivedFindsAlone ==
    ASSUME NEW t \in Tree, NEW p \in Paths(t),
           \A k \in 1 .. Len(p) : ~ HasTwin(t, SubSeq(p, 1, k))
    PROVE  Resolve(t, SelectorFor(t, p)) = <<p>>
<1> DEFINE n == Len(p) + 1
           Up(k) == SubSeq(p, 1, k)
<1>1. /\ p \in Path /\ Len(p) \in Nat /\ Up(Len(p)) = p /\ Up(0) = <<>>
      /\ \A k \in 1 .. Len(p) : /\ Up(k - 1) \in Path
                                /\ p[k] \in DOMAIN At[t][Up(k - 1)].kids
                                /\ Up(k) = Up(k - 1) \o <<p[k]>>
  BY PathPrefixes
<1>2. PICK f \in [1 .. n -> Seq(Path)] :
         /\ f[1] = << <<>> >>
         /\ \A k \in 2 .. n : f[k] = Further(t, f[k - 1], StepFor(t, Up(k - 1)))
         /\ Resolve(t, SelectorFor(t, p)) = f[n]
  BY <1>1, ResolveRuns
<1>3. \A k \in 1 .. Len(p) : ~ HasTwin(t, Up(k))
  OBVIOUS
<1> HIDE DEF Up
<1> DEFINE S == {k \in 0 .. Len(p) : f[k + 1] = <<Up(k)>>}
<1>4. 0 \in S
  <2>1. f[0 + 1] = << <<>> >> /\ 0 \in 0 .. Len(p)
    BY <1>1, <1>2
  <2>2. QED  BY <1>1, <2>1
<1>5. ASSUME NEW k \in 0 .. Len(p) - 1, k \in S PROVE k + 1 \in S
  <2>1. /\ k + 1 \in 1 .. Len(p) /\ k + 1 \in 0 .. Len(p) /\ (k + 1) - 1 = k
        /\ k + 1 \in 1 .. n /\ (k + 1) + 1 \in 2 .. n /\ ((k + 1) + 1) - 1 = k + 1
    BY <1>1
  <2> DEFINE q == Up(k)
             i == p[k + 1]
             step == StepFor(t, Up(k + 1))
             fs == f[k + 1]
  <2>2. q \in Path /\ i \in DOMAIN At[t][q].kids /\ Up(k + 1) = q \o <<i>>
    BY <1>1, <2>1
  <2>3. fs = <<q>> /\ fs \in Seq(Path)
    BY <1>5, <2>1
  <2>4. f[(k + 1) + 1] = Further(t, fs, step)
    BY <1>2, <2>1
  <2>5. ~ HasTwin(t, Up(k + 1))
    BY <1>3, <2>1
  <2>6. Matches(t, Up(k + 1), step) /\ step.axis = "child"
    <3>1. Up(k + 1) \in Path
      <4>1. i \in Nat
        BY <2>2, AtType
      <4>2. QED  BY <2>2, <4>1, LastStep
    <3>2. QED  BY <3>1, OwnStepMatches DEF StepFor, Step
  <2> HIDE DEF q, i, fs
  <2>7. \A j \in DOMAIN At[t][q].kids : Matches(t, q \o <<j>>, step) => j = i
    BY <2>2, <2>5, OwnStepAlone
  <2> HIDE DEF step
  <2>8. Further(t, fs, step) = <<q \o <<i>> >>
    <3>1. Matches(t, q \o <<i>>, step) /\ step.axis = "child"
      BY <2>2, <2>6
    <3>2. Further(t, <<q>>, step) = <<q \o <<i>> >>
      BY <2>2, <2>7, <3>1, FurtherAlone
    <3>3. QED  BY <2>3, <3>2
  <2>9. f[(k + 1) + 1] = <<Up(k + 1)>>
    BY <2>2, <2>4, <2>8
  <2>10. QED  BY <2>1, <2>9
<1>6. f[n] = <<Up(Len(p))>>
  <2> HIDE DEF S, n
  <2>1. 0 .. Len(p) \subseteq S
    BY <1>1, <1>4, <1>5, Induction
  <2>2. Len(p) \in S
    BY <1>1, <2>1
  <2>3. QED  BY <2>2 DEF S, n
<1>7. QED  BY <1>1, <1>2, <1>6

(* An action that is sent back with a derived selector that can be read goes      *)
(* where it was derived, whatever element id is sent along.                   *)
LEMMA DerivedLeadsBack ==
    ASSUME NEW t \in Tree, NEW p \in Paths(t), NEW id,
           Parse(SelectorFor(t, p)) = SelectorFor(t, p),
           Resolve(t, SelectorFor(t, p)) = <<p>>
    PROVE  ResolveElement(t, SelectorFor(t, p), id) = {<<p, SelectorFor(t, p)>>}
<1> DEFINE s == SelectorFor(t, p)
<1>1. p \in Path
  BY PathPrefixes
<1>2. Len(p) + 1 \in Nat \ {0} /\ Len(s) = Len(p) + 1 /\ Canonical(s) = s
  BY <1>1, DerivedSteps
<1>3. Parse(s) = s
  OBVIOUS
<1> HIDE DEF s
<1>4. s # <<>>
  <2>1. Len(<<>>) = 0
    OBVIOUS
  <2>2. QED  BY <1>2, <2>1
<1>5. Resolve(t, s) = <<p>> /\ <<p>> # <<>> /\ Head(<<p>>) = p
  BY DEF s
<1>6. ResolveElement(t, s, id) = {<<p, s>>}
  BY <1>2, <1>3, <1>4, <1>5 DEF ResolveElement
<1>7. QED  BY <1>6 DEF s

(* Below the root one that cannot be read has several steps, so parse raises, and *)
(* the element id that is sent along is used.                                 *)
LEMMA DerivedFallsBack ==
    ASSUME NEW t \in Tree, NEW p \in Paths(t), p # <<>>,
           ~ \A k \in DOMAIN SelectorFor(t, p) : Legible(SelectorFor(t, p)[k])
    PROVE  ResolveElement(t, SelectorFor(t, p), {p}) = {<<p, SelectorFor(t, p)>>}
<1> DEFINE s == SelectorFor(t, p)
<1>1. p \in Path
  BY PathPrefixes
<1>2. Len(p) + 1 \in Nat \ {0} /\ Len(s) = Len(p) + 1
  BY <1>1, DerivedSteps
<1>3. Len(s) # 1
  <2>1. p \in Seq(Nat)
    BY <1>1 DEF Path
  <2>2. Len(p) \in Nat /\ Len(p) # 0
    BY <2>1
  <2> HIDE DEF s
  <2>3. QED  BY <1>2, <2>2
<1>4. ~ \A k \in DOMAIN s : Legible(s[k])
  OBVIOUS
<1> HIDE DEF s
<1>5. Parse(s) = <<>>
  BY <1>3, <1>4 DEF Parse
<1>6. ResolveElement(t, s, {p}) = {<<q, SelectorFor(t, q)>> : q \in {p} \cap Paths(t)}
  BY <1>5 DEF ResolveElement
<1>7. {p} \cap Paths(t) = {p}
  OBVIOUS
<1>8. QED  BY <1>6, <1>7 DEF s

-------------------------------------------------------------------------------
(* Views. *)

(* Naming the nodes by their paths, by the definition. *)
LEMMA IdentifiedDef ==
    /\ \A d \in 0 .. Height : \A t \in TreesUpTo[d] : \A path \in Path :
          Identified[t][path] \in TreesUpTo[d]
    /\ \A t \in Tree : \A path \in Path :
          Identified[t][path]
             = Node(t.id, path, [i \in DOMAIN t.kids |-> Identified[t.kids[i]][path \o <<i>>]])
<1> DEFINE U == [Path -> Tree]
           T == [d \in 0 .. Height |-> [Path -> TreesUpTo[d]]]
           Kids(f, t, path) == [i \in DOMAIN t.kids |-> f[t.kids[i]][path \o <<i>>]]
           Value(f, t) == [path \in Path |-> Node(t.id, path, Kids(f, t, path))]
           Unrolled(f) == [t \in Tree |-> Value(f, t)]
           h == [f \in [Tree -> U] |-> Unrolled(f)]
<1>1. ASSUME NEW f, NEW g, NEW t \in Tree, \A i \in DOMAIN t.kids : f[t.kids[i]] = g[t.kids[i]]
      PROVE  Value(f, t) = Value(g, t)
  <2>1. \A path : Kids(f, t, path) = Kids(g, t, path)
    BY <1>1
  <2> HIDE DEF Kids
  <2>2. QED  BY <2>1
<1>2. ASSUME NEW f \in [Tree -> U], NEW d \in 0 .. Height, NEW t \in TreesUpTo[d],
             d # 0 => \A i \in DOMAIN t.kids : f[t.kids[i]] \in T[d - 1]
      PROVE  Value(f, t) \in T[d]
  <2>0. t \in Tree /\ t.id \in Labels
    BY RankParts, TreeParts
  <2>1. ASSUME NEW path \in Path
        PROVE  Kids(f, t, path) = <<>> \/ (d # 0 /\ Kids(f, t, path) \in Seq(TreesUpTo[d - 1]))
    <3>1. CASE d = 0
      <4>1. t.kids = <<>>
        BY <3>1, RankParts
      <4>2. QED  BY <4>1
    <3>2. CASE d # 0
      <4>1. /\ d - 1 \in 0 .. Height /\ Len(t.kids) \in Nat
            /\ DOMAIN t.kids = 1 .. Len(t.kids)
        BY <2>0, <3>2, RankParts, TreeParts
      <4>2. ASSUME NEW i \in DOMAIN t.kids
            PROVE  f[t.kids[i]][path \o <<i>>] \in TreesUpTo[d - 1]
        <5>1. f[t.kids[i]] \in [Path -> TreesUpTo[d - 1]]
          BY <1>2, <3>2, <4>1
        <5>2. path \o <<i>> \in Path
          <6>1. i \in Nat
            BY <4>1
          <6>2. <<i>> \in Seq(Nat) /\ path \in Seq(Nat)
            BY <6>1 DEF Path
          <6>3. QED  BY <6>2, ConcatProperties DEF Path
        <5>3. QED  BY <5>1, <5>2
      <4>3. Kids(f, t, path) \in Seq(TreesUpTo[d - 1])
        <5> DEFINE X == TreesUpTo[d - 1]
                   n == Len(t.kids)
        <5>1. n \in Nat /\ DOMAIN t.kids = 1 .. n
              /\ \A i \in DOMAIN t.kids : f[t.kids[i]][path \o <<i>>] \in X
          BY <4>1, <4>2
        <5> HIDE DEF X, n
        <5>2. Kids(f, t, path) \in Seq(X)
          BY <5>1
        <5>3. QED  BY <5>2 DEF X
      <4>4. QED  BY <3>2, <4>3
    <3>3. QED  BY <3>1, <3>2
  <2> HIDE DEF Kids
  <2>2. \A path \in Path : Node(t.id, path, Kids(f, t, path)) \in TreesUpTo[d]
    <3>1. ASSUME NEW path \in Path PROVE Node(t.id, path, Kids(f, t, path)) \in TreesUpTo[d]
      <4>1. path \in Seq(Nat)
        BY DEF Path
      <4>2. QED  BY <2>0, <2>1, <4>1, RankNode
    <3>2. QED  BY <3>1
  <2>3. QED  BY <2>2
<1>3. Tree # {} => U # {}
  <2>1. ASSUME NEW t \in Tree PROVE [path \in Path |-> t] \in U
    OBVIOUS
  <2>2. QED  BY <2>1
<1>4. \A d \in 0 .. Height : T[d] \subseteq U
  <2>1. ASSUME NEW d \in 0 .. Height, NEW x \in [Path -> TreesUpTo[d]] PROVE x \in [Path -> Tree]
    BY TreesGrow
  <2>2. QED  BY <2>1
<1> HIDE DEF Value
<1>5. PICK f \in [Tree -> U] : f = Unrolled(f) /\ OfRank(f, T)
  <2> HIDE DEF T, U
  <2>1. \A f \in [Tree -> U] : \A t \in Tree : h[f][t] = Value(f, t)
    OBVIOUS
  <2> HIDE DEF h
  <2>2. \A f, g \in [Tree -> U] : \A t \in Tree :
           (\A i \in DOMAIN t.kids : f[t.kids[i]] = g[t.kids[i]]) => h[f][t] = h[g][t]
    BY <1>1, <2>1
  <2>3. \A f \in [Tree -> U] : \A d \in 0 .. Height : \A t \in TreesUpTo[d] :
           (d # 0 => \A i \in DOMAIN t.kids : f[t.kids[i]] \in T[d - 1]) => h[f][t] \in T[d]
    BY <1>2, <2>1, RankParts
  <2>4. PICK f \in [Tree -> U] : (\A t \in Tree : f[t] = h[f][t]) /\ OfRank(f, T)
    <3>1. Ranked(T, U) /\ FromKids(h, T, U)
      BY <1>3, <1>4, <2>2, <2>3 DEF Ranked, FromKids
    <3>2. QED  BY ONLY <3>1, RankRecursion
  <2>5. f = Unrolled(f)
    BY <2>1, <2>4
  <2>6. QED  BY <2>4, <2>5
<1> DEFINE F == Identified
<1>6. F = CHOOSE g : g = Unrolled(g)
  BY DEF Identified, Value
<1> HIDE DEF F
<1>7. F = Unrolled(F)
  <2> HIDE DEF Unrolled
  <2>1. QED  BY <1>5, <1>6
<1>8. F = f
  <2> DEFINE S == {t \in Tree : F[t] = f[t]}
  <2>1. ASSUME NEW t \in Tree, \A i \in DOMAIN t.kids : t.kids[i] \in S PROVE t \in S
    <3>1. Value(F, t) = Value(f, t)
      BY <1>1, <2>1
    <3>2. Unrolled(F)[t] = Value(F, t) /\ Unrolled(f)[t] = Value(f, t)
      OBVIOUS
    <3> HIDE DEF Unrolled
    <3>3. QED  BY <1>5, <1>7, <3>1, <3>2
  <2> HIDE DEF S
  <2>2. Tree \subseteq S
    BY <2>1, TreeInduction
  <2>3. \A t \in Tree : F[t] = f[t]
    BY <2>2 DEF S
  <2>4. F = [t \in Tree |-> F[t]] /\ f = [t \in Tree |-> f[t]]
    BY <1>5, <1>7
  <2>5. QED  BY <2>3, <2>4
<1>9. \A t \in Tree : F[t] = Value(F, t)
  <2>1. \A t \in Tree : Unrolled(F)[t] = Value(F, t)
    OBVIOUS
  <2> HIDE DEF Unrolled
  <2>2. QED  BY <1>7, <2>1
<1>10. \A d \in 0 .. Height : \A t \in TreesUpTo[d] : F[t] \in [Path -> TreesUpTo[d]]
  BY <1>5, <1>8 DEF OfRank
<1>11. QED  BY <1>9, <1>10 DEF Value, F

(* A tree down to a depth, by the definition. *)
LEMMA PrunedDef ==
    /\ \A d \in 0 .. Height : \A t \in TreesUpTo[d] : \A depth \in Nat :
          Pruned[t][depth] \in TreesUpTo[d]
    /\ \A t \in Tree : \A depth \in Nat :
          Pruned[t][depth]
             = Node(t.id, t.val,
                    IF depth = 0 THEN <<>>
                    ELSE [i \in DOMAIN t.kids |-> Pruned[t.kids[i]][depth - 1]])
<1> DEFINE U == [Nat -> Tree]
           T == [d \in 0 .. Height |-> [Nat -> TreesUpTo[d]]]
           Kids(f, t, depth) == IF depth = 0 THEN <<>>
                                ELSE [i \in DOMAIN t.kids |-> f[t.kids[i]][depth - 1]]
           Value(f, t) == [depth \in Nat |-> Node(t.id, t.val, Kids(f, t, depth))]
           Unrolled(f) == [t \in Tree |-> Value(f, t)]
           h == [f \in [Tree -> U] |-> Unrolled(f)]
<1>1. ASSUME NEW f, NEW g, NEW t \in Tree, \A i \in DOMAIN t.kids : f[t.kids[i]] = g[t.kids[i]]
      PROVE  Value(f, t) = Value(g, t)
  <2>1. \A depth : Kids(f, t, depth) = Kids(g, t, depth)
    BY <1>1
  <2> HIDE DEF Kids
  <2>2. QED  BY <2>1
<1>2. ASSUME NEW f \in [Tree -> U], NEW d \in 0 .. Height, NEW t \in TreesUpTo[d],
             d # 0 => \A i \in DOMAIN t.kids : f[t.kids[i]] \in T[d - 1]
      PROVE  Value(f, t) \in T[d]
  <2>0. t \in Tree /\ t.id \in Labels /\ t.val \in Seq(Nat)
    BY RankParts, TreeParts
  <2>1. ASSUME NEW depth \in Nat
        PROVE  Kids(f, t, depth) = <<>> \/ (d # 0 /\ Kids(f, t, depth) \in Seq(TreesUpTo[d - 1]))
    <3>1. CASE d = 0 \/ depth = 0
      <4>1. d = 0 => t.kids = <<>>
        BY RankParts
      <4>2. QED  BY <3>1, <4>1
    <3>2. CASE d # 0 /\ depth # 0
      <4>0. d - 1 \in 0 .. Height
        BY <3>2, RankParts
      <4>1. /\ d - 1 \in 0 .. Height /\ Len(t.kids) \in Nat
            /\ DOMAIN t.kids = 1 .. Len(t.kids)
        <5>1. t.kids \in Seq(Tree)
          BY <2>0, TreeParts
        <5>2. QED  BY <4>0, <5>1
      <4>2. ASSUME NEW i \in DOMAIN t.kids
            PROVE  f[t.kids[i]][depth - 1] \in TreesUpTo[d - 1]
        <5>1. f[t.kids[i]] \in [Nat -> TreesUpTo[d - 1]]
          BY <1>2, <3>2, <4>1
        <5>2. depth - 1 \in Nat
          BY <3>2
        <5>3. QED  BY <5>1, <5>2
      <4>3. Kids(f, t, depth) \in Seq(TreesUpTo[d - 1])
        <5> DEFINE X == TreesUpTo[d - 1]
                   n == Len(t.kids)
        <5>1. n \in Nat /\ DOMAIN t.kids = 1 .. n
              /\ \A i \in DOMAIN t.kids : f[t.kids[i]][depth - 1] \in X
          BY <4>1, <4>2
        <5> HIDE DEF X, n
        <5>2. Kids(f, t, depth) \in Seq(X)
          BY <3>2, <5>1
        <5>3. QED  BY <5>2 DEF X
      <4>4. QED  BY <3>2, <4>3
    <3>3. QED  BY <3>1, <3>2
  <2> HIDE DEF Kids
  <2>2. \A depth \in Nat : Node(t.id, t.val, Kids(f, t, depth)) \in TreesUpTo[d]
    BY <2>0, <2>1, RankNode
  <2>3. QED  BY <2>2
<1>3. Tree # {} => U # {}
  <2>1. ASSUME NEW t \in Tree PROVE [depth \in Nat |-> t] \in U
    OBVIOUS
  <2>2. QED  BY <2>1
<1>4. \A d \in 0 .. Height : T[d] \subseteq U
  <2>1. ASSUME NEW d \in 0 .. Height, NEW x \in [Nat -> TreesUpTo[d]] PROVE x \in [Nat -> Tree]
    BY TreesGrow
  <2>2. QED  BY <2>1
<1> HIDE DEF Value
<1>5. PICK f \in [Tree -> U] : f = Unrolled(f) /\ OfRank(f, T)
  <2> HIDE DEF T, U
  <2>1. \A f \in [Tree -> U] : \A t \in Tree : h[f][t] = Value(f, t)
    OBVIOUS
  <2> HIDE DEF h
  <2>2. \A f, g \in [Tree -> U] : \A t \in Tree :
           (\A i \in DOMAIN t.kids : f[t.kids[i]] = g[t.kids[i]]) => h[f][t] = h[g][t]
    BY <1>1, <2>1
  <2>3. \A f \in [Tree -> U] : \A d \in 0 .. Height : \A t \in TreesUpTo[d] :
           (d # 0 => \A i \in DOMAIN t.kids : f[t.kids[i]] \in T[d - 1]) => h[f][t] \in T[d]
    BY <1>2, <2>1, RankParts
  <2>4. PICK f \in [Tree -> U] : (\A t \in Tree : f[t] = h[f][t]) /\ OfRank(f, T)
    <3>1. Ranked(T, U) /\ FromKids(h, T, U)
      BY <1>3, <1>4, <2>2, <2>3 DEF Ranked, FromKids
    <3>2. QED  BY ONLY <3>1, RankRecursion
  <2>5. f = Unrolled(f)
    BY <2>1, <2>4
  <2>6. QED  BY <2>4, <2>5
<1> DEFINE F == Pruned
<1>6. F = CHOOSE g : g = Unrolled(g)
  BY DEF Pruned, Value
<1> HIDE DEF F
<1>7. F = Unrolled(F)
  <2> HIDE DEF Unrolled
  <2>1. QED  BY <1>5, <1>6
<1>8. F = f
  <2> DEFINE S == {t \in Tree : F[t] = f[t]}
  <2>1. ASSUME NEW t \in Tree, \A i \in DOMAIN t.kids : t.kids[i] \in S PROVE t \in S
    <3>1. Value(F, t) = Value(f, t)
      BY <1>1, <2>1
    <3>2. Unrolled(F)[t] = Value(F, t) /\ Unrolled(f)[t] = Value(f, t)
      OBVIOUS
    <3> HIDE DEF Unrolled
    <3>3. QED  BY <1>5, <1>7, <3>1, <3>2
  <2> HIDE DEF S
  <2>2. Tree \subseteq S
    BY <2>1, TreeInduction
  <2>3. \A t \in Tree : F[t] = f[t]
    BY <2>2 DEF S
  <2>4. F = [t \in Tree |-> F[t]] /\ f = [t \in Tree |-> f[t]]
    BY <1>5, <1>7
  <2>5. QED  BY <2>3, <2>4
<1>9. \A t \in Tree : F[t] = Value(F, t)
  <2>1. \A t \in Tree : Unrolled(F)[t] = Value(F, t)
    OBVIOUS
  <2> HIDE DEF Unrolled
  <2>2. QED  BY <1>7, <2>1
<1>10. \A d \in 0 .. Height : \A t \in TreesUpTo[d] : F[t] \in [Nat -> TreesUpTo[d]]
  BY <1>5, <1>8 DEF OfRank
<1>11. QED  BY <1>9, <1>10 DEF Value, F

(* What a filter leaves of a tree, by the definition. *)
LEMMA FilterTreeDef ==
    ASSUME NEW fs
    PROVE  /\ \A d \in 0 .. Height : \A t \in TreesUpTo[d] : FilterTree(t, fs) \in Seq(TreesUpTo[d])
           /\ \A t \in Tree :
                 LET kids == FlattenSeq([i \in DOMAIN t.kids |-> FilterTree(t.kids[i], fs)])
                 IN  FilterTree(t, fs) = IF fs.prune /\ ~ SelfKeep(t, fs) /\ kids = <<>> THEN <<>>
                                         ELSE <<Node(t.id, t.val, kids)>>
<1> DEFINE U == Seq(Tree)
           T == [d \in 0 .. Height |-> Seq(TreesUpTo[d])]
           Each(f, t) == [i \in DOMAIN t.kids |-> f[t.kids[i]]]
           Value(f, t) == LET kids == FlattenSeq(Each(f, t))
                          IN  IF fs.prune /\ ~ SelfKeep(t, fs) /\ kids = <<>> THEN <<>>
                              ELSE <<Node(t.id, t.val, kids)>>
           Unrolled(f) == [t \in Tree |-> Value(f, t)]
           h == [f \in [Tree -> U] |-> Unrolled(f)]
<1>1. ASSUME NEW f, NEW g, NEW t \in Tree, \A i \in DOMAIN t.kids : f[t.kids[i]] = g[t.kids[i]]
      PROVE  Value(f, t) = Value(g, t)
  <2>1. Each(f, t) = Each(g, t)
    BY <1>1
  <2> HIDE DEF Each
  <2>2. QED  BY <2>1
<1>2. ASSUME NEW f \in [Tree -> U], NEW d \in 0 .. Height, NEW t \in TreesUpTo[d],
             d # 0 => \A i \in DOMAIN t.kids : f[t.kids[i]] \in T[d - 1]
      PROVE  Value(f, t) \in T[d]
  <2>0. t \in Tree /\ t.id \in Labels /\ t.val \in Seq(Nat)
    BY RankParts, TreeParts
  <2> DEFINE kids == FlattenSeq(Each(f, t))
  <2>1. kids = <<>> \/ (d # 0 /\ kids \in Seq(TreesUpTo[d - 1]))
    <3>1. CASE d = 0
      <4>1. Each(f, t) = <<>>
        <5>1. t.kids = <<>>
          BY <3>1, RankParts
        <5>2. QED  BY <5>1
      <4> HIDE DEF Each
      <4>2. FlattenSeq(<<>>) = <<>>
        BY DEF FlattenSeq
      <4>3. QED  BY <4>1, <4>2
    <3>2. CASE d # 0
      <4> DEFINE X == TreesUpTo[d - 1]
                 n == Len(t.kids)
      <4>1. n \in Nat /\ DOMAIN t.kids = 1 .. n /\ d - 1 \in 0 .. Height
        BY <2>0, <3>2, RankParts, TreeParts
      <4>2. \A i \in DOMAIN t.kids : f[t.kids[i]] \in Seq(X)
        BY <1>2, <3>2, <4>1
      <4> HIDE DEF X, n
      <4>3. Each(f, t) \in [1 .. n -> Seq(X)]
        BY <4>1, <4>2
      <4> HIDE DEF Each
      <4>4. kids \in Seq(X)
        BY <4>1, <4>3, FlattenType
      <4>5. QED  BY <3>2, <4>4 DEF X
    <3>3. QED  BY <3>1, <3>2
  <2> HIDE DEF kids
  <2>2. Node(t.id, t.val, kids) \in TreesUpTo[d]
    BY <2>0, <2>1, RankNode
  <2>3. <<Node(t.id, t.val, kids)>> \in Seq(TreesUpTo[d]) /\ <<>> \in Seq(TreesUpTo[d])
    <3>1. \A S : \A x \in S : <<x>> \in Seq(S) /\ <<>> \in Seq(S)
      OBVIOUS
    <3>2. QED  BY <2>2, <3>1
  <2>4. Value(f, t) \in Seq(TreesUpTo[d])
    BY <2>3 DEF kids
  <2> HIDE DEF Value
  <2>5. QED  BY <2>4
<1>3. Tree # {} => U # {}
  BY EmptySeq
<1>4. \A d \in 0 .. Height : T[d] \subseteq U
  <2>1. ASSUME NEW d \in 0 .. Height, NEW x \in Seq(TreesUpTo[d]) PROVE x \in Seq(Tree)
    BY TreesGrow, SeqMonotonic
  <2>2. QED  BY <2>1
<1> HIDE DEF Value
<1>5. PICK f \in [Tree -> U] : f = Unrolled(f) /\ OfRank(f, T)
  <2> HIDE DEF T, U
  <2>1. \A f \in [Tree -> U] : \A t \in Tree : h[f][t] = Value(f, t)
    OBVIOUS
  <2> HIDE DEF h
  <2>2. \A f, g \in [Tree -> U] : \A t \in Tree :
           (\A i \in DOMAIN t.kids : f[t.kids[i]] = g[t.kids[i]]) => h[f][t] = h[g][t]
    BY <1>1, <2>1
  <2>3. \A f \in [Tree -> U] : \A d \in 0 .. Height : \A t \in TreesUpTo[d] :
           (d # 0 => \A i \in DOMAIN t.kids : f[t.kids[i]] \in T[d - 1]) => h[f][t] \in T[d]
    BY <1>2, <2>1, RankParts
  <2>4. PICK f \in [Tree -> U] : (\A t \in Tree : f[t] = h[f][t]) /\ OfRank(f, T)
    <3>1. Ranked(T, U) /\ FromKids(h, T, U)
      BY <1>3, <1>4, <2>2, <2>3 DEF Ranked, FromKids
    <3>2. QED  BY ONLY <3>1, RankRecursion
  <2>5. f = Unrolled(f)
    BY <2>1, <2>4
  <2>6. QED  BY <2>4, <2>5
<1> DEFINE F == CHOOSE g : g = Unrolled(g)
<1>6. F = CHOOSE g : g = Unrolled(g)
  OBVIOUS
<1> HIDE DEF F
<1>7. F = Unrolled(F)
  <2> HIDE DEF Unrolled
  <2>1. QED  BY <1>5, <1>6
<1>8. F = f
  <2> DEFINE S == {t \in Tree : F[t] = f[t]}
  <2>1. ASSUME NEW t \in Tree, \A i \in DOMAIN t.kids : t.kids[i] \in S PROVE t \in S
    <3>1. Value(F, t) = Value(f, t)
      BY <1>1, <2>1
    <3>2. Unrolled(F)[t] = Value(F, t) /\ Unrolled(f)[t] = Value(f, t)
      OBVIOUS
    <3> HIDE DEF Unrolled
    <3>3. QED  BY <1>5, <1>7, <3>1, <3>2
  <2> HIDE DEF S
  <2>2. Tree \subseteq S
    BY <2>1, TreeInduction
  <2>3. \A t \in Tree : F[t] = f[t]
    BY <2>2 DEF S
  <2>4. F = [t \in Tree |-> F[t]] /\ f = [t \in Tree |-> f[t]]
    BY <1>5, <1>7
  <2>5. QED  BY <2>3, <2>4
<1>9. \A t \in Tree : F[t] = Value(F, t)
  <2>1. \A t \in Tree : Unrolled(F)[t] = Value(F, t)
    OBVIOUS
  <2> HIDE DEF Unrolled
  <2>2. QED  BY <1>7, <2>1
<1>10. \A d \in 0 .. Height : \A t \in TreesUpTo[d] : F[t] \in Seq(TreesUpTo[d])
  BY <1>5, <1>8 DEF OfRank
<1>11. \A t : FilterTree(t, fs) = F[t]
  BY DEF FilterTree, F, Value
<1>12. QED  BY <1>9, <1>10, <1>11 DEF Value

(* The ids of the nodes of a tree, in order. *)
ValAt(t) == [p \in Path |-> At[t][p].val]

Ids(t) == Mapped(ValAt(t), Flat[t])

LEMMA IdsType ==
    ASSUME NEW t \in Tree
    PROVE  Maps(ValAt(t), Path, Path) /\ Ids(t) \in Seq(Path)
<1>1. Maps(ValAt(t), Path, Path)
  <2>1. ASSUME NEW p \in Path PROVE At[t][p].val \in Path
    BY AtType, TreeParts DEF Path
  <2>2. QED  BY <2>1 DEF ValAt, Maps
<1>2. Flat[t] \in Seq(Path)
  BY FlatDef
<1>3. Ids(t) \in Seq(Path)
  <2>1. Mapped(ValAt(t), Flat[t]) \in Seq(Path)
    BY ONLY <1>1, <1>2, MappedType
  <2>2. QED  BY <2>1 DEF Ids
<1>4. QED  BY <1>1, <1>3

LEMMA IdsStep ==
    ASSUME NEW t \in Tree
    PROVE  /\ Ids(t) = <<t.val>> \o FlattenSeq([i \in DOMAIN t.kids |-> Ids(t.kids[i])])
           /\ [i \in DOMAIN t.kids |-> Ids(t.kids[i])] \in Seq(Seq(Path))
<1> DEFINE h == MapOf(ValAt(t), Path)
           g == [i \in DOMAIN t.kids |-> Ids(t.kids[i])]
<1>1. Maps(ValAt(t), Path, Path)
  BY IdsType
<1>2. Piecewise(h, Path, Path)
  BY ONLY <1>1, MapOfPiecewise
<1>3. \A s \in Seq(Path) : h[s] = Mapped(ValAt(t), s)
  BY DEF MapOf
<1>4. ASSUME NEW i \in DOMAIN t.kids PROVE h[Below(i, Flat[t.kids[i]])] = Ids(t.kids[i])
  <2> DEFINE k == t.kids[i]
             b == Below(i, Flat[k])
  <2>1. k \in Tree /\ i \in Nat
    <3>1. t.kids \in Seq(Tree)
      BY TreeParts
    <3>2. QED  BY <3>1
  <2>2. Flat[k] \in Seq(Path)
    BY <2>1, FlatDef
  <2>3. b \in Seq(Path)
    BY ONLY <2>1, <2>2, BelowType
  <2>4. h[b] = Mapped(ValAt(t), b)
    BY <1>3, <2>3
  <2>5. DOMAIN b = DOMAIN Flat[k] /\ \A j \in DOMAIN b : b[j] = <<i>> \o Flat[k][j] /\ Flat[k][j] \in Path /\ b[j] \in Path
    <3>1. DOMAIN b = DOMAIN Flat[k] /\ \A j \in DOMAIN b : b[j] = <<i>> \o Flat[k][j]
      BY DEF Below
    <3>2. \A j \in DOMAIN Flat[k] : Flat[k][j] \in Path
      BY <2>2
    <3> HIDE DEF b, k
    <3>3. \A j \in DOMAIN b : b[j] \in Path
      BY <2>3
    <3>4. QED  BY <3>1, <3>2, <3>3
  <2> HIDE DEF b
  <2>6. ASSUME NEW j \in DOMAIN b PROVE ValAt(t)[b[j]] = ValAt(k)[Flat[k][j]]
    <3>1. At[t][<<i>> \o Flat[k][j]] = At[k][Flat[k][j]]
      BY <2>5, AtStep
    <3> HIDE DEF k
    <3>2. QED  BY <2>5, <3>1 DEF ValAt
  <2> HIDE DEF k
  <2>7. Mapped(ValAt(t), b) = Mapped(ValAt(k), Flat[k])
    BY <2>5, <2>6 DEF Mapped
  <2>8. QED  BY <2>4, <2>7 DEF Ids, b, k
<1>5. h[<< <<>> >>] = <<t.val>>
  <2>1. <<>> \in Path
    BY DEF Path
  <2>2. << <<>> >> \in Seq(Path)
    BY <2>1
  <2>3. Mapped(ValAt(t), << <<>> >>) = <<ValAt(t)[<<>>]>>
    BY ONLY <1>1, <2>1, MappedOne
  <2>4. ValAt(t)[<<>>] = t.val
    BY <2>1, AtRoot DEF ValAt
  <2>5. QED  BY <1>3, <2>2, <2>3, <2>4
<1>6. h[Flat[t]] = Ids(t)
  BY <1>3, FlatDef DEF Ids
<1>7. FromEachKid(g, h, t)
  <2> HIDE DEF h
  <2>1. QED  BY <1>4 DEF FromEachKid
<1> HIDE DEF h, g
<1>8. h[Flat[t]] = h[<< <<>> >>] \o FlattenSeq(g) /\ g \in Seq(Seq(Path))
  BY ONLY t \in Tree, <1>2, <1>7, PiecewiseFlat
<1>9. QED  BY <1>5, <1>6, <1>8 DEF g

(* The ids of a view. *)
LEMMA IdsOfView ==
    /\ IdsOf(<<>>) = <<>>
    /\ \A t \in Tree : IdsOf(<<t>>) = Ids(t)
<1>1. IdsOf(<<>>) = <<>>
  BY DEF IdsOf
<1>2. ASSUME NEW t \in Tree PROVE IdsOf(<<t>>) = Ids(t)
  <2>1. <<t>> # <<>> /\ <<t>>[1] = t
    OBVIOUS
  <2>2. Flat[t] \in Seq(Path)
    BY FlatDef
  <2>3. \A k \in DOMAIN Flat[t] : Flat[t][k] \in Path
    BY <2>2
  <2>4. [k \in DOMAIN Flat[t] |-> At[t][Flat[t][k]].val] = Ids(t)
    BY <2>3 DEF Ids, Mapped, ValAt
  <2>5. QED  BY <2>1, <2>4 DEF IdsOf
<1>3. QED  BY <1>1, <1>2

(* The ids of trees put one after the other. *)
IdsFn == [t \in Tree |-> Ids(t)]

AllIds == [s \in Seq(Tree) |-> FlattenSeq(Mapped(IdsFn, s))]

LEMMA AllIdsPiecewise ==
    /\ Maps(IdsFn, Tree, Seq(Path))
    /\ Piecewise(AllIds, Tree, Path)
    /\ \A t \in Tree : AllIds[<<t>>] = Ids(t)
<1>1. Maps(IdsFn, Tree, Seq(Path))
  BY IdsType DEF IdsFn, Maps
<1>2. \A s \in Seq(Tree) : Mapped(IdsFn, s) \in Seq(Seq(Path))
  <2>1. ASSUME NEW s, s \in Seq(Tree) PROVE Mapped(IdsFn, s) \in Seq(Seq(Path))
    BY ONLY <1>1, <2>1, MappedType
  <2>2. QED  BY <2>1
<1>3. \A s \in Seq(Seq(Path)) : FlattenSeq(s) \in Seq(Path)
  <2>1. ASSUME NEW s, s \in Seq(Seq(Path)) PROVE FlattenSeq(s) \in Seq(Path)
    BY ONLY <2>1, FlattenSeqType
  <2>2. QED  BY <2>1
<1>4. AllIds \in [Seq(Tree) -> Seq(Path)]
  BY <1>2, <1>3 DEF AllIds
<1>5. \A s \in Seq(Tree) : AllIds[s] = FlattenSeq(Mapped(IdsFn, s))
  BY DEF AllIds
<1>6. AllIds[<<>>] = <<>>
  <2>1. FlattenSeq(<<>>) = <<>>
    BY DEF FlattenSeq
  <2>2. QED  BY <1>5, <2>1, EmptySeq, MappedEmpty
<1>7. \A s, t \in Seq(Tree) : AllIds[s \o t] = AllIds[s] \o AllIds[t]
  <2>1. ASSUME NEW s, NEW t, s \in Seq(Tree), t \in Seq(Tree)
        PROVE  AllIds[s \o t] = AllIds[s] \o AllIds[t]
    <3>1. s \o t \in Seq(Tree)
      BY <2>1, ConcatProperties
    <3>2. Mapped(IdsFn, s \o t) = Mapped(IdsFn, s) \o Mapped(IdsFn, t)
      BY ONLY <1>1, <2>1, MappedConcat
    <3> DEFINE a == Mapped(IdsFn, s)
               b == Mapped(IdsFn, t)
    <3>3. a \in Seq(Seq(Path)) /\ b \in Seq(Seq(Path))
      BY <1>2, <2>1
    <3> HIDE DEF a, b
    <3>4. FlattenSeq(a \o b) = FlattenSeq(a) \o FlattenSeq(b)
      BY ONLY <3>3, FlattenConcat
    <3>5. QED  BY <1>5, <2>1, <3>1, <3>2, <3>4 DEF a, b
  <2>2. QED  BY <2>1
<1>8. Piecewise(AllIds, Tree, Path)
  BY <1>4, <1>6, <1>7 DEF Piecewise
<1>9. ASSUME NEW t, t \in Tree PROVE AllIds[<<t>>] = Ids(t)
  <2>1. Mapped(IdsFn, <<t>>) = <<IdsFn[t]>>
    BY ONLY <1>1, <1>9, MappedOne
  <2>2. <<t>> \in Seq(Tree) /\ IdsFn[t] = Ids(t) /\ Ids(t) \in Seq(Path)
    BY <1>9, IdsType DEF IdsFn
  <2>3. FlattenSeq(<<Ids(t)>>) = Ids(t)
    BY ONLY <2>2, FlattenSingle
  <2>4. QED  BY <1>5, <2>1, <2>2, <2>3
<1>10. QED  BY <1>1, <1>8, <1>9

(* At most one tree. *)
AtMostOne(view) == view = <<>> \/ \E t \in Tree : view = <<t>>

LEMMA IdsOfAll ==
    ASSUME NEW gs, gs \in Seq(Seq(Tree)), \A j \in DOMAIN gs : AtMostOne(gs[j])
    PROVE  /\ AllIds[FlattenSeq(gs)] = FlattenSeq([j \in DOMAIN gs |-> IdsOf(gs[j])])
           /\ [j \in DOMAIN gs |-> IdsOf(gs[j])] \in Seq(Seq(Path))
<1>1. Piecewise(AllIds, Tree, Path)
  BY AllIdsPiecewise
<1>2. AllIds[FlattenSeq(gs)] = FlattenSeq(Mapped(AllIds, gs))
  BY ONLY <1>1, gs \in Seq(Seq(Tree)), FlattenMapped
<1>3. \A j \in DOMAIN gs : AllIds[gs[j]] = IdsOf(gs[j])
  <2>1. AllIds[<<>>] = <<>>
    BY <1>1 DEF Piecewise
  <2>2. QED  BY <2>1, AllIdsPiecewise, IdsOfView DEF AtMostOne
<1>4. Mapped(AllIds, gs) = [j \in DOMAIN gs |-> IdsOf(gs[j])]
  BY <1>3 DEF Mapped
<1>5. Mapped(AllIds, gs) \in Seq(Seq(Path))
  <2>1. Maps(AllIds, Seq(Tree), Seq(Path))
    BY <1>1 DEF Piecewise, Maps
  <2>2. QED  BY ONLY <2>1, gs \in Seq(Seq(Tree)), MappedType
<1>6. QED  BY <1>2, <1>4, <1>5

(* The paths of a set, in the order of a tree whose root has the id r. *)
Under(r) == [p \in Path |-> r \o p]

Named(r, t, K) == Mapped(Under(r), Those(Flat[t], K))

LEMMA UnderType ==
    ASSUME NEW r, r \in Path
    PROVE  Maps(Under(r), Path, Path)
BY ConcatProperties DEF Under, Maps, Path

LEMMA UnderTwice ==
    ASSUME NEW r, NEW i, NEW s, r \in Path, i \in Nat, s \in Seq(Path)
    PROVE  Mapped(Under(r), Mapped(Under(<<i>>), s)) = Mapped(Under(r \o <<i>>), s)
<1> DEFINE b == <<i>>
           ri == r \o b
           m == Mapped(Under(b), s)
<1>1. b \in Path /\ ri \in Path
  <2>1. b \in Seq(Nat) /\ r \in Seq(Nat)
    BY DEF Path
  <2> HIDE DEF b
  <2>2. ri \in Seq(Nat)
    BY <2>1, ConcatProperties
  <2>3. QED  BY <2>1, <2>2 DEF Path
<1> HIDE DEF b
<1>2. m \in Seq(Path)
  <2>1. Maps(Under(b), Path, Path)
    BY ONLY <1>1, UnderType
  <2>2. QED  BY ONLY <2>1, s \in Seq(Path), MappedType
<1>3. \A k \in DOMAIN s : s[k] \in Path
  OBVIOUS
<1>4. DOMAIN m = DOMAIN s /\ \A k \in DOMAIN s : m[k] = b \o s[k]
  BY <1>3 DEF Mapped, Under
<1>5. \A k \in DOMAIN s : m[k] \in Path
  <2> HIDE DEF m
  <2>1. QED  BY <1>2, <1>4
<1> HIDE DEF m
<1>6. ASSUME NEW k \in DOMAIN s PROVE Under(r)[m[k]] = Under(ri)[s[k]]
  <2>1. Under(r)[m[k]] = r \o m[k]
    BY <1>5 DEF Under
  <2>2. Under(ri)[s[k]] = ri \o s[k]
    BY <1>3 DEF Under
  <2>3. r \o (b \o s[k]) = (r \o b) \o s[k]
    <3>1. r \in Seq(Nat) /\ b \in Seq(Nat) /\ s[k] \in Seq(Nat)
      BY <1>1, <1>3 DEF Path
    <3>2. QED  BY ONLY <3>1, ConcatAssociative
  <2>4. QED  BY <1>4, <2>1, <2>2, <2>3
<1>7. Mapped(Under(r), m) = Mapped(Under(ri), s)
  <2> HIDE DEF ri
  <2>1. QED  BY <1>4, <1>6 DEF Mapped
<1>8. QED  BY <1>7 DEF m, b

(* A set of paths, by the child they go down to. *)
SplitsInto(K, ks, t) ==
    \A i \in DOMAIN t.kids : \A q \in Paths(t.kids[i]) : <<i>> \o q \in K <=> q \in ks[i]

NamedByKid(g, r, t, ks) == g = [i \in DOMAIN t.kids |-> Named(r \o <<i>>, t.kids[i], ks[i])]

LEMMA NamedStep ==
    ASSUME NEW r, NEW t, NEW K, NEW ks, NEW g, r \in Path, t \in Tree, SplitsInto(K, ks, t),
           NamedByKid(g, r, t, ks)
    PROVE  /\ Named(r, t, K) = (IF <<>> \in K THEN <<r>> ELSE <<>>) \o FlattenSeq(g)
           /\ g \in Seq(Seq(Path))
<1> DEFINE h == KeptAs(Under(r), K, Path)
<1>1. Maps(Under(r), Path, Path)
  BY ONLY r \in Path, UnderType
<1>2. Piecewise(h, Path, Path)
  BY ONLY <1>1, KeptAsPiecewise
<1>3. \A s \in Seq(Path) : h[s] = Mapped(Under(r), Those(s, K))
  BY DEF KeptAs
<1>4. ASSUME NEW i \in DOMAIN t.kids
      PROVE  h[Below(i, Flat[t.kids[i]])] = Named(r \o <<i>>, t.kids[i], ks[i])
  <2> DEFINE k == t.kids[i]
             s == Flat[k]
             b == Below(i, s)
             Q == {q \in Path : Under(<<i>>)[q] \in K}
  <2>1. k \in Tree /\ i \in Nat
    <3>1. t.kids \in Seq(Tree)
      BY TreeParts
    <3>2. QED  BY <3>1
  <2>2. s \in Seq(Path)
    BY <2>1, FlatDef
  <2>3. \A j \in DOMAIN s : s[j] \in Path /\ s[j] \in Paths(k)
    <3>1. \A j \in DOMAIN s : s[j] \in Paths(k)
      BY DEF Paths, ToSet
    <3> HIDE DEF s
    <3>2. QED  BY <2>2, <3>1
  <2>4. \A j \in DOMAIN s : s[j] \in Q <=> s[j] \in ks[i]
    <3>1. \A q \in Paths(k) : <<i>> \o q \in K <=> q \in ks[i]
      BY DEF SplitsInto
    <3>2. \A q \in Path : Under(<<i>>)[q] = <<i>> \o q
      BY DEF Under
    <3> HIDE DEF s, k
    <3>3. QED  BY <2>3, <3>1, <3>2
  <2>5. b = Mapped(Under(<<i>>), s)
    <3> HIDE DEF s
    <3>1. QED  BY <2>3 DEF Below, Mapped, Under
  <2> HIDE DEF s
  <2>6. b \in Seq(Path)
    BY ONLY <2>1, <2>2, BelowType
  <2> HIDE DEF b
  <2>7. Those(s, Q) = Those(s, ks[i])
    BY ONLY <2>4, ThoseSame
  <2>8. Those(b, K) = Mapped(Under(<<i>>), Those(s, Q))
    <3>1. <<i>> \in Path
      BY <2>1 DEF Path
    <3>2. Maps(Under(<<i>>), Path, Path)
      BY ONLY <3>1, UnderType
    <3>3. Those(Mapped(Under(<<i>>), s), K) = Mapped(Under(<<i>>), Those(s, Q))
      BY ONLY <2>2, <3>2, ThoseMapped
    <3> HIDE DEF Q
    <3>4. QED  BY <2>5, <3>3
  <2> HIDE DEF Q, k
  <2>9. Those(s, ks[i]) \in Seq(Path)
    BY ONLY <2>2, ThoseParts
  <2> DEFINE z == Those(s, ks[i])
  <2>10. z \in Seq(Path)
    BY <2>9
  <2> HIDE DEF z
  <2>11. Mapped(Under(r), Mapped(Under(<<i>>), z)) = Mapped(Under(r \o <<i>>), z)
    BY ONLY <2>1, <2>10, r \in Path, UnderTwice
  <2>12. h[b] = Mapped(Under(r), Those(b, K))
    BY <1>3, <2>6
  <2>13. h[b] = Mapped(Under(r \o <<i>>), z)
    <3> HIDE DEF h
    <3>1. QED  BY <2>7, <2>8, <2>11, <2>12 DEF z
  <2>14. QED  BY <2>13 DEF Named, z, s, b, k
<1>5. h[<< <<>> >>] = IF <<>> \in K THEN <<r>> ELSE <<>>
  <2>1. <<>> \in Path
    BY DEF Path
  <2>2. << <<>> >> \in Seq(Path)
    BY <2>1
  <2>3. h[<< <<>> >>] = Mapped(Under(r), Those(<< <<>> >>, K))
    BY <1>3, <2>2
  <2>4. Those(<< <<>> >>, K) = IF <<>> \in K THEN << <<>> >> ELSE <<>>
    BY ONLY ThoseOne
  <2>5. Mapped(Under(r), << <<>> >>) = <<Under(r)[<<>>]>>
    BY ONLY <1>1, <2>1, MappedOne
  <2>6. Under(r)[<<>>] = r
    <3>1. r \in Seq(Nat)
      BY DEF Path
    <3>2. r \o <<>> = r
      BY ONLY <3>1, ConcatEmptySeq
    <3>3. QED  BY <2>1, <3>2 DEF Under
  <2> HIDE DEF h
  <2>7. QED  BY <2>3, <2>4, <2>5, <2>6, MappedEmpty
<1>6. h[Flat[t]] = Named(r, t, K)
  BY <1>3, FlatDef DEF Named
<1>7. FromEachKid(g, h, t)
  <2> HIDE DEF h
  <2>1. QED  BY <1>4 DEF FromEachKid, NamedByKid
<1> HIDE DEF h
<1>8. h[Flat[t]] = h[<< <<>> >>] \o FlattenSeq(g) /\ g \in Seq(Seq(Path))
  BY ONLY t \in Tree, <1>2, <1>7, PiecewiseFlat
<1>9. QED  BY <1>5, <1>6, <1>8

(* The nodes within a depth that pass the filters for their own sake, those that *)
(* are to be shown, and the view of the tree whose root has the id r.         *)
Passed(t, r, d, fs) ==
    {p \in Paths(t) : Len(p) <= d /\ SelfKeep(At[Identified[t][r]][p], fs)}

Shown(t, r, d, fs) ==
    {p \in Paths(t) : Len(p) <= d /\ (fs.prune => \E q \in Passed(t, r, d, fs) : IsPrefix(p, q))}

Picture(t, r, d, fs) == FilterTree(Pruned[Identified[t][r]][d], fs)

LEMMA KidParts ==
    ASSUME NEW t, NEW r, NEW i, t \in Tree, r \in Path, i \in DOMAIN t.kids
    PROVE  /\ i \in Nat /\ t.kids[i] \in Tree /\ r \o <<i>> \in Path
           /\ Identified[t][r] \in Tree /\ Identified[t][r].id = t.id /\ Identified[t][r].val = r
           /\ DOMAIN Identified[t][r].kids = DOMAIN t.kids
           /\ Identified[t][r].kids[i] = Identified[t.kids[i]][r \o <<i>>]
<1>1. i \in Nat /\ t.kids[i] \in Tree
  <2>1. t.kids \in Seq(Tree)
    BY TreeParts
  <2>2. QED  BY <2>1
<1>2. r \o <<i>> \in Path
  <2>1. <<i>> \in Seq(Nat) /\ r \in Seq(Nat)
    BY <1>1 DEF Path
  <2>2. QED  BY <2>1, ConcatProperties DEF Path
<1>3. Height \in 0 .. Height
  BY TreeAssumption
<1>4. Identified[t][r] \in Tree
  BY <1>3, IdentifiedDef DEF Tree
<1>5. Identified[t][r] = Node(t.id, r, [j \in DOMAIN t.kids |-> Identified[t.kids[j]][r \o <<j>>]])
  BY IdentifiedDef
<1>6. QED  BY <1>1, <1>2, <1>4, <1>5 DEF Node

LEMMA PassedStep ==
    ASSUME NEW t, NEW r, NEW d, NEW fs, NEW i, NEW q,
           t \in Tree, r \in Path, d \in Nat, i \in DOMAIN t.kids, q \in Paths(t.kids[i])
    PROVE  /\ <<i>> \o q \in Paths(t) /\ Len(<<i>> \o q) = Len(q) + 1
           /\ Len(q) \in Nat /\ q \in Path
           /\ <<i>> \o q \in Passed(t, r, d + 1, fs)
                 <=> q \in Passed(t.kids[i], r \o <<i>>, d, fs)
<1>1. /\ i \in Nat /\ t.kids[i] \in Tree /\ r \o <<i>> \in Path
      /\ Identified[t][r] \in Tree /\ DOMAIN Identified[t][r].kids = DOMAIN t.kids
      /\ Identified[t][r].kids[i] = Identified[t.kids[i]][r \o <<i>>]
  BY KidParts
<1>2. q \in Path
  BY <1>1, PathsDef
<1>3. <<i>> \o q \in Paths(t)
  BY PathCases
<1>4. Len(<<i>> \o q) = Len(q) + 1 /\ Len(q) \in Nat
  <2>1. Len(q) \in Nat
    BY <1>2 DEF Path
  <2>2. QED  BY <1>1, <1>2, <2>1, PathStep
<1> DEFINE w == Identified[t][r]
<1>5. At[w][<<i>> \o q] = At[w.kids[i]][q]
  <2> HIDE DEF w
  <2>1. w \in Tree /\ i \in DOMAIN w.kids
    BY <1>1 DEF w
  <2>2. QED  BY ONLY <1>2, <2>1, AtStep
<1>6. At[w][<<i>> \o q] = At[Identified[t.kids[i]][r \o <<i>>]][q]
  BY <1>1, <1>5
<1> DEFINE iq == <<i>> \o q
<1>7. Len(iq) <= d + 1 <=> Len(q) <= d
  <2>1. Len(iq) = Len(q) + 1 /\ Len(q) \in Nat
    BY <1>4
  <2> HIDE DEF iq
  <2>2. QED  BY <2>1
<1>8. iq \in Paths(t) /\ At[w][iq] = At[Identified[t.kids[i]][r \o <<i>>]][q]
  BY <1>3, <1>6
<1> HIDE DEF iq
<1>9. iq \in Passed(t, r, d + 1, fs) <=> q \in Passed(t.kids[i], r \o <<i>>, d, fs)
  BY <1>7, <1>8 DEF Passed
<1>10. QED  BY <1>2, <1>3, <1>4, <1>9 DEF iq

LEMMA ShownStep ==
    ASSUME NEW t, NEW r, NEW d, NEW fs, t \in Tree, r \in Path, d \in Nat
    PROVE  SplitsInto(Shown(t, r, d + 1, fs),
                      [i \in DOMAIN t.kids |-> Shown(t.kids[i], r \o <<i>>, d, fs)], t)
<1>1. SUFFICES ASSUME NEW i \in DOMAIN t.kids, NEW p \in Paths(t.kids[i])
               PROVE  <<i>> \o p \in Shown(t, r, d + 1, fs) <=> p \in Shown(t.kids[i], r \o <<i>>, d, fs)
  BY DEF SplitsInto
<1> DEFINE k == t.kids[i]
           ri == r \o <<i>>
           P == Passed(t, r, d + 1, fs)
           Q == Passed(k, ri, d, fs)
           ip == <<i>> \o p
<1>2. i \in Nat /\ k \in Tree
  BY KidParts
<1>3. ip \in Paths(t) /\ Len(ip) = Len(p) + 1 /\ Len(p) \in Nat /\ p \in Path
  <2>1. ip \in Paths(t)
    BY PathCases
  <2>2. p \in Path
    BY <1>2, PathsDef
  <2>3. Len(p) \in Nat
    BY <2>2 DEF Path
  <2>4. QED  BY <1>2, <2>1, <2>2, <2>3, PathStep
<1>4. ASSUME NEW q \in Q PROVE <<i>> \o q \in P /\ q \in Path
  <2>1. q \in Paths(k)
    BY DEF Passed
  <2>2. QED  BY <2>1, PassedStep
<1>5. ASSUME NEW u \in P, IsPrefix(ip, u) PROVE \E q \in Q : u = <<i>> \o q /\ IsPrefix(p, q)
  <2>1. u \in Paths(t)
    BY DEF Passed
  <2>2. u # <<>>
    <3>1. ip \in Path /\ ip # <<>>
      BY <1>2, <1>3, PathStep
    <3> HIDE DEF ip
    <3>2. QED  BY <1>5, <3>1, PrefixEnds
  <2>3. PICK j \in DOMAIN t.kids : \E q \in Paths(t.kids[j]) : u = <<j>> \o q
    BY <2>1, <2>2, PathCases
  <2>4. PICK q \in Paths(t.kids[j]) : u = <<j>> \o q
    BY <2>3
  <2>5. j \in Nat /\ q \in Path
    <3>1. j \in Nat
      BY KidParts
    <3>2. q \in Path
      BY PassedStep
    <3>3. QED  BY <3>1, <3>2
  <2>6. i = j /\ IsPrefix(p, q)
    <3>1. IsPrefix(<<i>> \o p, <<j>> \o q)
      BY <1>5, <2>4
    <3>2. QED  BY ONLY <1>2, <1>3, <2>5, <3>1, PrefixBelow
  <2>7. q \in Q
    <3>1. q \in Paths(k) /\ <<i>> \o q \in P
      BY <2>4, <2>6
    <3>2. QED  BY <3>1, PassedStep
  <2>8. QED  BY <2>4, <2>6, <2>7
<1>6. (\E u \in P : IsPrefix(ip, u)) <=> \E q \in Q : IsPrefix(p, q)
  <2>1. ASSUME NEW q \in Q, IsPrefix(p, q) PROVE <<i>> \o q \in P /\ IsPrefix(ip, <<i>> \o q)
    <3>1. <<i>> \o q \in P /\ q \in Path
      BY <1>4
    <3>2. IsPrefix(<<i>> \o p, <<i>> \o q)
      BY ONLY <1>2, <1>3, <2>1, <3>1, PrefixBelow
    <3>3. QED  BY <3>1, <3>2
  <2> HIDE DEF P, Q, ip
  <2>2. QED  BY <1>5, <2>1
<1>7. Len(ip) <= d + 1 <=> Len(p) <= d
  <2> HIDE DEF ip
  <2>1. QED  BY <1>3
<1> HIDE DEF ip
<1>8. ip \in Shown(t, r, d + 1, fs) <=> p \in Shown(k, ri, d, fs)
  BY <1>3, <1>6, <1>7 DEF Shown
<1>9. QED  BY <1>8 DEF ip

LEMMA ShownLeaf ==
    ASSUME NEW t, NEW r, NEW fs, t \in Tree, r \in Path
    PROVE  SplitsInto(Shown(t, r, 0, fs), [i \in DOMAIN t.kids |-> {}], t)
<1>1. SUFFICES ASSUME NEW i \in DOMAIN t.kids, NEW p \in Paths(t.kids[i])
               PROVE  <<i>> \o p \notin Shown(t, r, 0, fs)
  BY DEF SplitsInto
<1>2. Len(<<i>> \o p) = Len(p) + 1 /\ Len(p) \in Nat
  BY PassedStep
<1>3. ~ (Len(<<i>> \o p) <= 0)
  BY <1>2
<1>4. QED  BY <1>3 DEF Shown

(* The root is shown for its own sake or for that of what is shown below it. *)
LEMMA ShownRoot ==
    ASSUME NEW t, NEW r, NEW d, NEW fs, t \in Tree, r \in Path, d \in Nat
    PROVE  /\ <<>> \in Shown(t, r, 0, fs) <=> (fs.prune => SelfKeep(Identified[t][r], fs))
           /\ <<>> \in Shown(t, r, d + 1, fs)
                <=> (fs.prune => \/ SelfKeep(Identified[t][r], fs)
                                 \/ \E i \in DOMAIN t.kids : Shown(t.kids[i], r \o <<i>>, d, fs) # {})
<1> DEFINE w == Identified[t][r]
<1>1. w \in Tree
  <2>1. Height \in 0 .. Height
    BY TreeAssumption
  <2>2. QED  BY <2>1, IdentifiedDef DEF Tree
<1>2. <<>> \in Paths(t) /\ <<>> \in Path /\ Len(<<>>) = 0 /\ At[w][<<>>] = w
  <2> HIDE DEF w
  <2>1. QED  BY <1>1, AtRoot, PathCases
<1>3. \A e \in Nat : <<>> \in Passed(t, r, e, fs) <=> SelfKeep(w, fs)
  BY <1>2 DEF Passed
<1>4. ASSUME NEW e \in Nat
      PROVE  <<>> \in Shown(t, r, e, fs) <=> (fs.prune => Passed(t, r, e, fs) # {})
  <2>1. \A q \in Passed(t, r, e, fs) : IsPrefix(<<>>, q)
    <3>1. \A q \in Paths(t) : q \in Path
      BY PathsDef
    <3>2. QED  BY <3>1, PrefixEnds DEF Passed
  <2>2. Len(<<>>) <= e
    BY <1>2
  <2>3. QED  BY <1>2, <2>1, <2>2 DEF Shown
<1>5. Passed(t, r, 0, fs) # {} <=> SelfKeep(w, fs)
  <2>1. ASSUME NEW p \in Passed(t, r, 0, fs) PROVE p = <<>>
    <3>1. p \in Path /\ Len(p) <= 0
      BY PathsDef DEF Passed
    <3>2. QED  BY <3>1 DEF Path
  <2>2. 0 \in Nat
    OBVIOUS
  <2>3. QED  BY <1>3, <2>1, <2>2
<1>6. ASSUME fs.prune
      PROVE  Passed(t, r, d + 1, fs) # {}
                <=> SelfKeep(w, fs) \/ \E i \in DOMAIN t.kids : Shown(t.kids[i], r \o <<i>>, d, fs) # {}
  <2> HIDE DEF w
  <2>1. d + 1 \in Nat
    OBVIOUS
  <2>2. ASSUME NEW p \in Passed(t, r, d + 1, fs)
        PROVE  SelfKeep(w, fs) \/ \E i \in DOMAIN t.kids : Shown(t.kids[i], r \o <<i>>, d, fs) # {}
    <3>1. CASE p = <<>>
      BY <1>3, <2>1, <3>1
    <3>2. CASE p # <<>>
      <4>1. p \in Paths(t)
        BY DEF Passed
      <4>2. PICK i \in DOMAIN t.kids : \E q \in Paths(t.kids[i]) : p = <<i>> \o q
        BY <3>2, <4>1, PathCases
      <4>3. PICK q \in Paths(t.kids[i]) : p = <<i>> \o q
        BY <4>2
      <4>4. q \in Path /\ q \in Passed(t.kids[i], r \o <<i>>, d, fs)
        BY <4>3, PassedStep
      <4>5. IsPrefix(q, q) /\ Len(q) <= d
        BY <4>4, PrefixEnds DEF Passed
      <4>6. q \in Shown(t.kids[i], r \o <<i>>, d, fs)
        BY <4>4, <4>5 DEF Shown
      <4>7. QED  BY <4>6
    <3>3. QED  BY <3>1, <3>2
  <2>3. ASSUME NEW i \in DOMAIN t.kids, NEW p \in Shown(t.kids[i], r \o <<i>>, d, fs)
        PROVE  Passed(t, r, d + 1, fs) # {}
    <3>1. PICK q \in Passed(t.kids[i], r \o <<i>>, d, fs) : IsPrefix(p, q)
      BY <1>6 DEF Shown
    <3>2. q \in Paths(t.kids[i])
      BY DEF Passed
    <3>3. <<i>> \o q \in Passed(t, r, d + 1, fs)
      BY <3>2, PassedStep
    <3>4. QED  BY <3>3
  <2>4. QED  BY <1>3, <2>1, <2>2, <2>3
<1>7. 0 \in Nat /\ d + 1 \in Nat
  OBVIOUS
<1>8. QED  BY <1>4, <1>5, <1>6, <1>7

(* What a view is made of. *)
LEMMA PictureStep ==
    ASSUME NEW t, NEW r, NEW d, NEW fs, NEW gs, NEW kids, t \in Tree, r \in Path, d \in Nat,
           gs = [i \in DOMAIN t.kids |-> Picture(t.kids[i], r \o <<i>>, d - 1, fs)],
           kids = IF d = 0 THEN <<>> ELSE FlattenSeq(gs)
    PROVE  /\ Picture(t, r, d, fs)
                = IF fs.prune /\ ~ SelfKeep(Identified[t][r], fs) /\ kids = <<>> THEN <<>>
                  ELSE <<Node(t.id, r, kids)>>
           /\ Picture(t, r, d, fs) \in Seq(Tree)
<1> DEFINE w == Identified[t][r]
           p == Pruned[w][d]
           cut == [i \in DOMAIN w.kids |-> Pruned[w.kids[i]][d - 1]]
           left == [i \in DOMAIN p.kids |-> FilterTree(p.kids[i], fs)]
<1>0. Height \in 0 .. Height /\ TreesUpTo[Height] = Tree
  BY TreeAssumption DEF Tree
<1>1. /\ w \in Tree
      /\ w = Node(t.id, r, [i \in DOMAIN t.kids |-> Identified[t.kids[i]][r \o <<i>>]])
  BY <1>0, IdentifiedDef
<1>2. /\ w.id = t.id /\ w.val = r /\ DOMAIN w.kids = DOMAIN t.kids
      /\ \A i \in DOMAIN t.kids : w.kids[i] = Identified[t.kids[i]][r \o <<i>>]
  <2> HIDE DEF w
  <2>1. QED  BY <1>1 DEF Node
<1>3. p \in Tree /\ p = Node(w.id, w.val, IF d = 0 THEN <<>> ELSE cut)
  <2> HIDE DEF w
  <2>1. QED  BY <1>0, <1>1, PrunedDef
<1>4. p.id = t.id /\ p.val = r /\ p.kids = IF d = 0 THEN <<>> ELSE cut
  <2> HIDE DEF w, p, cut
  <2>1. QED  BY <1>2, <1>3 DEF Node
<1>5. /\ Picture(t, r, d, fs) \in Seq(Tree)
      /\ FilterTree(p, fs) = IF fs.prune /\ ~ SelfKeep(p, fs) /\ FlattenSeq(left) = <<>> THEN <<>>
                             ELSE <<Node(p.id, p.val, FlattenSeq(left))>>
  <2>1. FilterTree(p, fs) \in Seq(Tree)
    <3> HIDE DEF p
    <3>1. QED  BY <1>0, <1>3, FilterTreeDef
  <2>2. LET k == FlattenSeq([i \in DOMAIN p.kids |-> FilterTree(p.kids[i], fs)])
        IN  FilterTree(p, fs) = IF fs.prune /\ ~ SelfKeep(p, fs) /\ k = <<>> THEN <<>>
                                ELSE <<Node(p.id, p.val, k)>>
    <3> HIDE DEF p
    <3>1. QED  BY <1>3, FilterTreeDef
  <2>3. QED  BY <2>1, <2>2 DEF Picture
<1>6. SelfKeep(p, fs) <=> SelfKeep(w, fs)
  <2> HIDE DEF p, w
  <2>1. QED  BY <1>2, <1>4 DEF SelfKeep
<1>7. FlattenSeq(left) = kids
  <2>1. CASE d = 0
    <3>1. left = <<>>
      <4>1. p.kids = <<>>
        BY <1>4, <2>1
      <4> HIDE DEF p
      <4>2. QED  BY <4>1
    <3> HIDE DEF left
    <3>2. FlattenSeq(<<>>) = <<>>
      BY DEF FlattenSeq
    <3>3. QED  BY <2>1, <3>1, <3>2
  <2>2. CASE d # 0
    <3>1. p.kids = cut
      BY <1>4, <2>2
    <3>2. DOMAIN cut = DOMAIN t.kids
      BY <1>2
    <3>3. \A i \in DOMAIN t.kids : cut[i] = Pruned[Identified[t.kids[i]][r \o <<i>>]][d - 1]
      <4> HIDE DEF w
      <4>1. QED  BY <1>2
    <3> HIDE DEF p, cut
    <3>4. left = gs
      BY <3>1, <3>2, <3>3 DEF Picture
    <3>5. QED  BY <2>2, <3>4
  <2>3. QED  BY <2>1, <2>2
<1> HIDE DEF left, cut
<1>8. FilterTree(p, fs) = Picture(t, r, d, fs)
  BY DEF Picture
<1> HIDE DEF p, w
<1>9. QED  BY <1>4, <1>5, <1>6, <1>7, <1>8 DEF w

LEMMA PictureAtMostOne ==
    ASSUME NEW t, NEW r, NEW d, NEW fs, t \in Tree, r \in Path, d \in Nat
    PROVE  /\ Picture(t, r, d, fs) \in Seq(Tree)
           /\ AtMostOne(Picture(t, r, d, fs))
<1> DEFINE gs == [i \in DOMAIN t.kids |-> Picture(t.kids[i], r \o <<i>>, d - 1, fs)]
           kids == IF d = 0 THEN <<>> ELSE FlattenSeq(gs)
           v == Picture(t, r, d, fs)
           x == Node(t.id, r, kids)
<1>1. (v = <<>> \/ v = <<x>>) /\ v \in Seq(Tree)
  <2> HIDE DEF x
  <2>1. /\ v = IF fs.prune /\ ~ SelfKeep(Identified[t][r], fs) /\ kids = <<>> THEN <<>>
               ELSE <<Node(t.id, r, kids)>>
        /\ v \in Seq(Tree)
    <3> HIDE DEF v
    <3>1. QED  BY PictureStep DEF v
  <2> HIDE DEF kids, v
  <2>2. QED  BY <2>1 DEF x
<1> HIDE DEF x, v
<1>2. ASSUME v = <<x>> PROVE x \in Tree
  <2>1. <<x>> \in Seq(Tree)
    BY <1>1, <1>2
  <2>2. QED  BY <2>1
<1>3. QED  BY <1>1, <1>2 DEF AtMostOne, v

(* The ids of the views of the children, and of the view they make up. *)
PictureByKid(gs, t, r, d, fs) ==
    gs = [i \in DOMAIN t.kids |-> Picture(t.kids[i], r \o <<i>>, d, fs)]

LEMMA PictureIds ==
    ASSUME NEW t, NEW r, NEW d, NEW fs, NEW gs, NEW ids, t \in Tree, r \in Path, d \in Nat,
           PictureByKid(gs, t, r, d, fs),
           ids = [i \in DOMAIN t.kids |-> IdsOf(gs[i])]
    PROVE  /\ ids \in Seq(Seq(Path)) /\ gs \in Seq(Seq(Tree))
           /\ IdsOf(Picture(t, r, d + 1, fs))
                = IF fs.prune /\ ~ SelfKeep(Identified[t][r], fs) /\ FlattenSeq(gs) = <<>> THEN <<>>
                  ELSE <<r>> \o FlattenSeq(ids)
           /\ IdsOf(Picture(t, r, 0, fs))
                = IF fs.prune /\ ~ SelfKeep(Identified[t][r], fs) THEN <<>> ELSE <<r>>
<1> DEFINE drop == fs.prune /\ ~ SelfKeep(Identified[t][r], fs)
           Root(kids) == Node(t.id, r, kids)
<1>0. /\ gs = [i \in DOMAIN t.kids |-> Picture(t.kids[i], r \o <<i>>, d, fs)]
      /\ DOMAIN gs = DOMAIN t.kids /\ DOMAIN t.kids = 1 .. Len(t.kids) /\ Len(t.kids) \in Nat
  BY TreeParts DEF PictureByKid
<1>1. gs \in Seq(Seq(Tree)) /\ \A i \in DOMAIN gs : AtMostOne(gs[i])
  <2>1. ASSUME NEW i \in DOMAIN t.kids PROVE gs[i] \in Seq(Tree) /\ AtMostOne(gs[i])
    <3>1. t.kids[i] \in Tree /\ r \o <<i>> \in Path
      BY KidParts
    <3>2. /\ Picture(t.kids[i], r \o <<i>>, d, fs) \in Seq(Tree)
          /\ AtMostOne(Picture(t.kids[i], r \o <<i>>, d, fs))
      BY ONLY <3>1, d \in Nat, PictureAtMostOne
    <3>3. QED  BY <1>0, <3>2
  <2> DEFINE Z == Seq(Tree)
             n == Len(t.kids)
  <2>2. n \in Nat /\ DOMAIN t.kids = 1 .. n /\ \A i \in 1 .. n : gs[i] \in Z
    BY <1>0, <2>1
  <2>3. gs = [i \in 1 .. n |-> gs[i]]
    BY <1>0
  <2> HIDE DEF Z, n
  <2>4. gs \in Seq(Z)
    BY <2>2, <2>3
  <2>5. QED  BY <1>0, <2>1, <2>4 DEF Z
<1>2. AllIds[FlattenSeq(gs)] = FlattenSeq(ids) /\ ids \in Seq(Seq(Path))
  <2>1. /\ AllIds[FlattenSeq(gs)] = FlattenSeq([j \in DOMAIN gs |-> IdsOf(gs[j])])
        /\ [j \in DOMAIN gs |-> IdsOf(gs[j])] \in Seq(Seq(Path))
    BY ONLY <1>1, IdsOfAll
  <2>2. ids = [j \in DOMAIN gs |-> IdsOf(gs[j])]
    BY <1>0
  <2>3. QED  BY <2>1, <2>2
<1>3. ASSUME NEW kids, <<Root(kids)>> \in Seq(Tree), kids \in Seq(Tree)
      PROVE  IdsOf(<<Root(kids)>>) = <<r>> \o AllIds[kids]
  <2> DEFINE x == Root(kids)
  <2>1. x.val = r /\ x.kids = kids
    BY DEF Node
  <2> HIDE DEF Root
  <2>2. x \in Tree
    BY <1>3
  <2>3. IdsOf(<<x>>) = Ids(x)
    BY <2>2, IdsOfView
  <2>4. Ids(x) = <<x.val>> \o FlattenSeq([i \in DOMAIN x.kids |-> Ids(x.kids[i])])
    BY <2>2, IdsStep
  <2>5. [i \in DOMAIN kids |-> Ids(kids[i])] = Mapped(IdsFn, kids)
    <3>1. \A i \in DOMAIN kids : kids[i] \in Tree
      BY <1>3
    <3>2. QED  BY <3>1 DEF Mapped, IdsFn
  <2>6. AllIds[kids] = FlattenSeq(Mapped(IdsFn, kids))
    BY <1>3 DEF AllIds
  <2> HIDE DEF x
  <2>7. IdsOf(<<x>>) = <<r>> \o AllIds[kids]
    BY <2>1, <2>3, <2>4, <2>5, <2>6
  <2>8. QED  BY <2>7 DEF x
<1>4. IdsOf(Picture(t, r, d + 1, fs))
         = IF drop /\ FlattenSeq(gs) = <<>> THEN <<>> ELSE <<r>> \o FlattenSeq(ids)
  <2> DEFINE kids == FlattenSeq(gs)
             v == Picture(t, r, d + 1, fs)
  <2>1. v = (IF drop /\ kids = <<>> THEN <<>> ELSE <<Root(kids)>>) /\ v \in Seq(Tree)
    <3>1. d + 1 \in Nat /\ d + 1 # 0 /\ (d + 1) - 1 = d
      OBVIOUS
    <3>2. gs = [i \in DOMAIN t.kids |-> Picture(t.kids[i], r \o <<i>>, (d + 1) - 1, fs)]
      BY <1>0, <3>1
    <3>3. kids = IF d + 1 = 0 THEN <<>> ELSE FlattenSeq(gs)
      BY <3>1
    <3> HIDE DEF kids
    <3>4. QED  BY ONLY t \in Tree, r \in Path, <3>1, <3>2, <3>3, PictureStep
  <2>2. kids \in Seq(Tree)
    BY ONLY <1>1, FlattenSeqType
  <2>3. AllIds[kids] = FlattenSeq(ids)
    BY <1>2
  <2> HIDE DEF kids, drop, Root
  <2>4. QED  BY <1>3, <2>1, <2>2, <2>3, IdsOfView DEF v, kids
<1>5. IdsOf(Picture(t, r, 0, fs)) = IF drop THEN <<>> ELSE <<r>>
  <2> DEFINE v == Picture(t, r, 0, fs)
             hs == [i \in DOMAIN t.kids |-> Picture(t.kids[i], r \o <<i>>, 0 - 1, fs)]
             none == <<>>
  <2>1. v = (IF drop /\ none = <<>> THEN <<>> ELSE <<Root(none)>>) /\ v \in Seq(Tree)
    <3>1. none = IF 0 = 0 THEN <<>> ELSE FlattenSeq(hs)
      OBVIOUS
    <3>2. 0 \in Nat
      OBVIOUS
    <3>3. QED  BY ONLY t \in Tree, r \in Path, <3>1, <3>2, PictureStep
  <2>2. none \in Seq(Tree)
    BY EmptySeq
  <2>3. AllIds[none] = <<>>
    BY AllIdsPiecewise DEF Piecewise
  <2>4. <<r>> \o <<>> = <<r>>
    OBVIOUS
  <2> HIDE DEF drop, Root
  <2>5. QED  BY <1>3, <2>1, <2>2, <2>3, <2>4, IdsOfView DEF v
<1>6. QED  BY <1>1, <1>2, <1>4, <1>5

(* Nothing is named of a tree only when no path of it is in the set. *)
LEMMA NamedNone ==
    ASSUME NEW r, NEW t, NEW K, t \in Tree, r \in Path, K \subseteq Paths(t)
    PROVE  Named(r, t, K) = <<>> <=> K = {}
<1> DEFINE s == Those(Flat[t], K)
<1>1. Flat[t] \in Seq(Path)
  BY FlatDef
<1>2. s \in Seq(Path) /\ ToSet(s) = ToSet(Flat[t]) \cap K
  BY ONLY <1>1, ThoseParts
<1>3. ToSet(s) = K
  BY <1>2 DEF Paths
<1> HIDE DEF s
<1>4. s = <<>> <=> K = {}
  BY <1>2, <1>3 DEF ToSet
<1>5. Mapped(Under(r), s) = <<>> <=> s = <<>>
  <2>1. Maps(Under(r), Path, Path)
    BY ONLY r \in Path, UnderType
  <2>2. Mapped(Under(r), s) \in Seq(Path)
    BY ONLY <1>2, <2>1, MappedType
  <2>3. DOMAIN Mapped(Under(r), s) = DOMAIN s
    BY DEF Mapped
  <2> DEFINE m == Mapped(Under(r), s)
  <2>4. m \in Seq(Path) /\ DOMAIN m = DOMAIN s
    BY <2>2, <2>3
  <2> HIDE DEF m
  <2>5. m = <<>> <=> s = <<>>
    BY <1>2, <2>4
  <2>6. QED  BY <2>5 DEF m
<1>6. QED  BY <1>4, <1>5 DEF Named, s

LEMMA NoIdsNoView ==
    ASSUME NEW v, AtMostOne(v)
    PROVE  IdsOf(v) = <<>> <=> v = <<>>
<1>1. ASSUME NEW x \in Tree PROVE IdsOf(<<x>>) # <<>>
  <2> DEFINE rest == FlattenSeq([i \in DOMAIN x.kids |-> Ids(x.kids[i])])
  <2>1. IdsOf(<<x>>) = <<x.val>> \o rest
    BY IdsStep, IdsOfView
  <2>2. rest \in Seq(Path)
    <3>1. [i \in DOMAIN x.kids |-> Ids(x.kids[i])] \in Seq(Seq(Path))
      BY IdsStep
    <3>2. QED  BY ONLY <3>1, FlattenSeqType
  <2>3. <<x.val>> \in Seq(Path)
    BY TreeParts DEF Path
  <2> HIDE DEF rest
  <2>4. Len(<<x.val>> \o rest) = 1 + Len(rest) /\ Len(rest) \in Nat
    BY <2>2, <2>3
  <2>5. Len(<<x.val>> \o rest) # 0
    BY <2>4
  <2>6. QED  BY <2>1, <2>5
<1>2. QED  BY <1>1, IdsOfView DEF AtMostOne

(* The ids of a view are the paths that are to be shown, in order. *)
LEMMA PictureIsShown ==
    ASSUME NEW fs
    PROVE  \A t \in Tree : \A r \in Path : \A d \in Nat :
              IdsOf(Picture(t, r, d, fs)) = Named(r, t, Shown(t, r, d, fs))
<1> DEFINE OnRight(t) == \A r \in Path : \A d \in Nat :
                          IdsOf(Picture(t, r, d, fs)) = Named(r, t, Shown(t, r, d, fs))
           S == {t \in Tree : OnRight(t)}
<1>1. ASSUME NEW t \in Tree, \A i \in DOMAIN t.kids : t.kids[i] \in S PROVE OnRight(t)
  <2>0. \A i \in DOMAIN t.kids : t.kids[i] \in Tree /\ OnRight(t.kids[i])
    BY <1>1
  <2>1. ASSUME NEW r \in Path
        PROVE  IdsOf(Picture(t, r, 0, fs)) = Named(r, t, Shown(t, r, 0, fs))
    <3> DEFINE K == Shown(t, r, 0, fs)
               ks == [i \in DOMAIN t.kids |-> {}]
               g == [i \in DOMAIN t.kids |-> Named(r \o <<i>>, t.kids[i], ks[i])]
               gs == [i \in DOMAIN t.kids |-> Picture(t.kids[i], r \o <<i>>, 0, fs)]
               ids == [i \in DOMAIN t.kids |-> IdsOf(gs[i])]
               drop == fs.prune /\ ~ SelfKeep(Identified[t][r], fs)
    <3>1. SplitsInto(K, ks, t)
      BY ONLY t \in Tree, r \in Path, ShownLeaf
    <3>2. Named(r, t, K) = (IF <<>> \in K THEN <<r>> ELSE <<>>) \o FlattenSeq(g) /\ g \in Seq(Seq(Path))
      <4>1. NamedByKid(g, r, t, ks)
        BY DEF NamedByKid
      <4> HIDE DEF K, ks, g
      <4>2. Named(r, t, K) = (IF <<>> \in K THEN <<r>> ELSE <<>>) \o FlattenSeq(g)
        BY ONLY t \in Tree, r \in Path, <3>1, <4>1, NamedStep
      <4>3. g \in Seq(Seq(Path))
        BY ONLY t \in Tree, r \in Path, <3>1, <4>1, NamedStep
      <4>4. QED  BY <4>2, <4>3
    <3>3. FlattenSeq(g) = <<>>
      <4>1. \A i \in DOMAIN g : g[i] = <<>>
        <5>1. ASSUME NEW i \in DOMAIN t.kids PROVE Named(r \o <<i>>, t.kids[i], {}) = <<>>
          <6>1. t.kids[i] \in Tree /\ r \o <<i>> \in Path /\ {} \subseteq Paths(t.kids[i])
            BY KidParts
          <6>2. QED  BY ONLY <6>1, NamedNone
        <5>2. QED  BY <5>1
      <4> HIDE DEF g
      <4>2. QED  BY ONLY <3>2, <4>1, FlattenEmpty
    <3>4. <<>> \in K <=> (fs.prune => SelfKeep(Identified[t][r], fs))
      <4>1. 0 \in Nat
        OBVIOUS
      <4>2. QED  BY <4>1, ShownRoot
    <3>5. IdsOf(Picture(t, r, 0, fs)) = IF drop THEN <<>> ELSE <<r>>
      <4>1. 0 \in Nat /\ PictureByKid(gs, t, r, 0, fs)
            /\ ids = [i \in DOMAIN t.kids |-> IdsOf(gs[i])]
        BY DEF PictureByKid
      <4> HIDE DEF gs, ids
      <4>2. QED  BY ONLY t \in Tree, r \in Path, <4>1, PictureIds
    <3>6. <<r>> \o <<>> = <<r>> /\ <<>> \o <<>> = <<>>
      OBVIOUS
    <3> HIDE DEF K, g
    <3>7. QED  BY <3>2, <3>3, <3>4, <3>5, <3>6 DEF K
  <2>2. ASSUME NEW r \in Path, NEW d \in Nat
        PROVE  IdsOf(Picture(t, r, d + 1, fs)) = Named(r, t, Shown(t, r, d + 1, fs))
    <3> DEFINE K == Shown(t, r, d + 1, fs)
               ks == [i \in DOMAIN t.kids |-> Shown(t.kids[i], r \o <<i>>, d, fs)]
               g == [i \in DOMAIN t.kids |-> Named(r \o <<i>>, t.kids[i], ks[i])]
               gs == [i \in DOMAIN t.kids |-> Picture(t.kids[i], r \o <<i>>, d, fs)]
               ids == [i \in DOMAIN t.kids |-> IdsOf(gs[i])]
               drop == fs.prune /\ ~ SelfKeep(Identified[t][r], fs)
    <3>1. SplitsInto(K, ks, t)
      BY ONLY t \in Tree, r \in Path, d \in Nat, ShownStep
    <3>2. Named(r, t, K) = (IF <<>> \in K THEN <<r>> ELSE <<>>) \o FlattenSeq(g) /\ g \in Seq(Seq(Path))
      <4>1. NamedByKid(g, r, t, ks)
        BY DEF NamedByKid
      <4> HIDE DEF K, ks, g
      <4>2. Named(r, t, K) = (IF <<>> \in K THEN <<r>> ELSE <<>>) \o FlattenSeq(g)
        BY ONLY t \in Tree, r \in Path, <3>1, <4>1, NamedStep
      <4>3. g \in Seq(Seq(Path))
        BY ONLY t \in Tree, r \in Path, <3>1, <4>1, NamedStep
      <4>4. QED  BY <4>2, <4>3
    <3>3. /\ gs \in Seq(Seq(Tree))
          /\ IdsOf(Picture(t, r, d + 1, fs))
               = IF drop /\ FlattenSeq(gs) = <<>> THEN <<>> ELSE <<r>> \o FlattenSeq(ids)
      <4>1. /\ PictureByKid(gs, t, r, d, fs)
            /\ ids = [i \in DOMAIN t.kids |-> IdsOf(gs[i])]
        BY DEF PictureByKid
      <4> HIDE DEF gs, ids
      <4>2. gs \in Seq(Seq(Tree))
        BY ONLY t \in Tree, r \in Path, d \in Nat, <4>1, PictureIds
      <4>3. IdsOf(Picture(t, r, d + 1, fs))
               = IF drop /\ FlattenSeq(gs) = <<>> THEN <<>> ELSE <<r>> \o FlattenSeq(ids)
        BY ONLY t \in Tree, r \in Path, d \in Nat, <4>1, PictureIds
      <4>4. QED  BY <4>2, <4>3
    <3>4. ASSUME NEW i \in DOMAIN t.kids
          PROVE  g[i] = IdsOf(gs[i]) /\ (gs[i] = <<>> <=> ks[i] = {}) /\ (g[i] = <<>> <=> ks[i] = {})
      <4> DEFINE k == t.kids[i]
                 ri == r \o <<i>>
      <4>1. k \in Tree /\ ri \in Path
        BY KidParts
      <4>2. IdsOf(Picture(k, ri, d, fs)) = Named(ri, k, Shown(k, ri, d, fs))
        BY <2>0, <4>1
      <4>3. AtMostOne(Picture(k, ri, d, fs))
        BY ONLY <4>1, d \in Nat, PictureAtMostOne
      <4>4. IdsOf(Picture(k, ri, d, fs)) = <<>> <=> Picture(k, ri, d, fs) = <<>>
        BY ONLY <4>3, NoIdsNoView
      <4>5. Shown(k, ri, d, fs) \subseteq Paths(k)
        BY DEF Shown
      <4>6. Named(ri, k, Shown(k, ri, d, fs)) = <<>> <=> Shown(k, ri, d, fs) = {}
        BY ONLY <4>1, <4>5, NamedNone
      <4>7. QED  BY <4>2, <4>4, <4>6
    <3>5. DOMAIN g = DOMAIN t.kids /\ DOMAIN gs = DOMAIN t.kids /\ DOMAIN ks = DOMAIN t.kids
      OBVIOUS
    <3>6. g = ids
      <4>1. \A i \in DOMAIN t.kids : g[i] = IdsOf(gs[i])
        BY <3>4
      <4>2. g = [i \in DOMAIN t.kids |-> g[i]]
        OBVIOUS
      <4> HIDE DEF g, gs
      <4>3. QED  BY <4>1, <4>2
    <3>7. <<>> \in K <=> (fs.prune => \/ SelfKeep(Identified[t][r], fs)
                                      \/ \E i \in DOMAIN t.kids : ks[i] # {})
      <4>1. <<>> \in K <=> (fs.prune => \/ SelfKeep(Identified[t][r], fs)
                 \/ \E i \in DOMAIN t.kids : Shown(t.kids[i], r \o <<i>>, d, fs) # {})
        BY ShownRoot
      <4>2. QED  BY <4>1
    <3> HIDE DEF K, ks, g, gs, ids
    <3>8. FlattenSeq(gs) = <<>> <=> \A i \in DOMAIN t.kids : ks[i] = {}
      <4>1. FlattenSeq(gs) = <<>> <=> \A i \in DOMAIN gs : gs[i] = <<>>
        BY ONLY <3>3, FlattenEmpty
      <4>2. QED  BY <3>4, <3>5, <4>1
    <3>9. FlattenSeq(g) = <<>> <=> \A i \in DOMAIN t.kids : ks[i] = {}
      <4>1. FlattenSeq(g) = <<>> <=> \A i \in DOMAIN g : g[i] = <<>>
        BY ONLY <3>2, FlattenEmpty
      <4>2. QED  BY <3>4, <3>5, <4>1
    <3>10. CASE drop /\ FlattenSeq(gs) = <<>>
      <4>1. <<>> \notin K /\ FlattenSeq(g) = <<>>
        BY <3>7, <3>8, <3>9, <3>10
      <4>2. <<>> \o <<>> = <<>>
        OBVIOUS
      <4>3. QED  BY <3>2, <3>3, <3>10, <4>1, <4>2 DEF K
    <3>11. CASE ~ (drop /\ FlattenSeq(gs) = <<>>)
      <4>1. <<>> \in K
        BY <3>7, <3>8, <3>11
      <4>2. QED  BY <3>2, <3>3, <3>6, <3>11, <4>1 DEF K
    <3>12. QED  BY <3>10, <3>11
  <2>3. ASSUME NEW r \in Path, NEW d \in Nat
        PROVE  IdsOf(Picture(t, r, d, fs)) = Named(r, t, Shown(t, r, d, fs))
    <3>1. CASE d = 0
      BY <2>1, <3>1
    <3>2. CASE d # 0
      <4>1. d - 1 \in Nat /\ (d - 1) + 1 = d
        BY <3>2
      <4>2. IdsOf(Picture(t, r, (d - 1) + 1, fs)) = Named(r, t, Shown(t, r, (d - 1) + 1, fs))
        BY <2>2, <4>1
      <4>3. QED  BY <4>1, <4>2
    <3>3. QED  BY <3>1, <3>2
  <2>4. QED  BY <2>3
<1>2. Tree \subseteq S
  <2>1. \A t \in Tree : (\A i \in DOMAIN t.kids : t.kids[i] \in S) => t \in S
    BY <1>1
  <2> HIDE DEF S
  <2>2. QED  BY ONLY <2>1, TreeInduction
<1>3. QED  BY <1>2

(* The ids of a view are those it is for. *)
LEMMA ViewIsWanted ==
    ASSUME NEW t, NEW asked, NEW f, t \in Tree, asked \subseteq Int
    PROVE  IdsOf(View(t, asked, f)) = Wanted(t, asked, f)
<1> DEFINE d == EffectiveDepth(asked)
           K == Shown(t, <<>>, d, f)
           s == Those(Flat[t], K)
<1>1. d \in Nat
  <2>1. asked # {} => (CHOOSE x \in asked : TRUE) \in Int
    OBVIOUS
  <2>2. DefaultDepth \in Nat /\ MaxDepth \in Nat
    BY ViewAssumption
  <2>3. QED  BY <2>1, <2>2 DEF EffectiveDepth
<1>2. Wanted(t, asked, f) = s
  <2> DEFINE w == Identified[t][<<>>]
             near == {p \in Paths(t) : Len(p) <= d}
             passes == {p \in near : SelfKeep(At[w][p], f)}
  <2>1. Wanted(t, asked, f) = Those(Flat[t], {p \in near : f.prune => \E q \in passes : IsPrefix(p, q)})
    BY DEF Wanted
  <2> HIDE DEF d
  <2>2. passes = Passed(t, <<>>, d, f)
    BY DEF Passed
  <2>3. K = {p \in near : f.prune => \E q \in Passed(t, <<>>, d, f) : IsPrefix(p, q)}
    BY DEF Shown
  <2> HIDE DEF passes, near, K
  <2>4. QED  BY <2>1, <2>2, <2>3
<1> HIDE DEF d
<1>3. <<>> \in Path
  BY DEF Path
<1>4. IdsOf(Picture(t, <<>>, d, f)) = Named(<<>>, t, K)
  BY <1>1, <1>3, PictureIsShown
<1>5. s \in Seq(Path)
  <2>1. Flat[t] \in Seq(Path)
    BY FlatDef
  <2> HIDE DEF K
  <2>2. QED  BY ONLY <2>1, ThoseParts
<1> HIDE DEF s
<1>6. Mapped(Under(<<>>), s) = s
  <2>1. ASSUME NEW p \in Path PROVE Under(<<>>)[p] = p
    <3>1. p \in Seq(Nat)
      BY DEF Path
    <3>2. <<>> \o p = p
      BY ONLY <3>1, ConcatEmptySeq
    <3>3. QED  BY <3>2 DEF Under
  <2>2. \A k \in DOMAIN s : s[k] \in Path
    BY <1>5
  <2>3. s = [k \in DOMAIN s |-> s[k]]
    BY <1>5
  <2>4. QED  BY <2>1, <2>2, <2>3 DEF Mapped
<1>7. View(t, asked, f) = Picture(t, <<>>, d, f)
  BY DEF View, Picture, d
<1>8. QED  BY <1>2, <1>4, <1>6, <1>7 DEF Named, s

-------------------------------------------------------------------------------
(* Pages. *)

(* How far a caller is who follows the cursors: the first m nodes, and the one     *)
(* they end with as the cursor, if any are left.                              *)
HasFirst(page, ids, m) ==
    /\ m \in 0 .. Len(ids)
    /\ page.nodes = SubSeq(ids, 1, m)
    /\ \/ page.next = NoCursor /\ m = Len(ids)
       \/ page.next = ids[m] /\ m \in 1 .. Len(ids) - 1

(* What a page adds to the nodes before it. *)
LEMMA CutGoesOn ==
    ASSUME NEW ids, NEW limit, NEW m, ids \in Seq(Path), limit \in Nat \ {0},
           m \in 0 .. Len(ids)
    PROVE  LET page == Cut(SubSeq(ids, 1 + m, Len(ids)), limit)
           IN  \E n \in m .. Len(ids) :
                  /\ SubSeq(ids, 1, m) \o page.nodes = SubSeq(ids, 1, n)
                  /\ \/ page.next = NoCursor /\ n = Len(ids)
                     \/ page.next = ids[n] /\ n \in m + 1 .. Len(ids) - 1
<1> DEFINE L == Len(ids)
           rest == SubSeq(ids, 1 + m, L)
           page == Cut(rest, limit)
<1>1. L \in Nat /\ limit \in Nat /\ limit # 0 /\ m \in Nat /\ m <= L
  OBVIOUS
<1>2. /\ rest \in Seq(Path) /\ Len(rest) = L - m
      /\ \A k \in 1 .. L - m : rest[k] = ids[m + k]
  BY <1>1
<1>3. ASSUME NEW n \in m .. L
      PROVE  SubSeq(ids, 1, m) \o SubSeq(ids, m + 1, n) = SubSeq(ids, 1, n)
  <2> DEFINE a == SubSeq(ids, 1, m)
             b == SubSeq(ids, m + 1, n)
             c == SubSeq(ids, 1, n)
             e == a \o b
  <2>1. a \in Seq(Path) /\ Len(a) = m /\ \A k \in 1 .. m : a[k] = ids[k]
    BY <1>1
  <2>2. b \in Seq(Path) /\ Len(b) = n - m /\ \A k \in 1 .. n - m : b[k] = ids[m + k]
    BY <1>1
  <2>3. c \in Seq(Path) /\ Len(c) = n /\ \A k \in 1 .. n : c[k] = ids[k]
    BY <1>1
  <2> HIDE DEF a, b, c
  <2>4. e \in Seq(Path) /\ Len(e) = n
        /\ \A k \in 1 .. n : e[k] = IF k <= m THEN a[k] ELSE b[k - m]
    <3>1. /\ e \in Seq(Path) /\ Len(e) = Len(a) + Len(b)
          /\ \A k \in 1 .. Len(a) + Len(b) : e[k] = IF k <= Len(a) THEN a[k] ELSE b[k - Len(a)]
      BY <2>1, <2>2, ConcatProperties
    <3>2. Len(a) + Len(b) = n
      BY <1>1, <2>1, <2>2
    <3> HIDE DEF e
    <3>3. QED  BY <2>1, <3>1, <3>2
  <2> HIDE DEF e
  <2>5. ASSUME NEW k \in 1 .. n PROVE e[k] = c[k]
    <3>1. CASE k <= m
      BY <1>1, <2>1, <2>3, <2>4, <3>1
    <3>2. CASE ~ (k <= m)
      <4>1. k - m \in 1 .. n - m /\ m + (k - m) = k
        BY <1>1, <3>2
      <4>2. e[k] = b[k - m] /\ b[k - m] = ids[m + (k - m)]
        BY <2>2, <2>4, <3>2, <4>1
      <4>3. QED  BY <2>3, <4>1, <4>2
    <3>3. QED  BY <3>1, <3>2
  <2>6. Len(e) = Len(c) /\ \A k \in 1 .. Len(e) : e[k] = c[k]
    BY <2>3, <2>4, <2>5
  <2>7. e = c
    BY ONLY <2>3, <2>4, <2>6, SeqEqual
  <2>8. QED  BY <2>7 DEF e, a, b, c
<1> HIDE DEF rest, L
<1>4. CASE limit >= L - m
  <2>1. page.nodes = rest /\ page.next = NoCursor
    BY <1>2, <1>4 DEF Cut, Page
  <2>2. rest = SubSeq(ids, m + 1, L) /\ L \in m .. L
    BY <1>1 DEF rest
  <2>3. SubSeq(ids, 1, m) \o page.nodes = SubSeq(ids, 1, L)
    BY <1>3, <2>1, <2>2
  <2>4. QED  BY <2>1, <2>2, <2>3 DEF L, rest
<1>5. CASE ~ (limit >= L - m)
  <2> DEFINE n == m + limit
  <2>1. n \in m .. L /\ n \in m + 1 .. L - 1 /\ limit \in 1 .. L - m
    BY <1>1, <1>5
  <2>2. page.nodes = SubSeq(rest, 1, limit) /\ page.next = rest[limit]
    BY <1>1, <1>2, <1>5 DEF Cut, Page
  <2>3. SubSeq(rest, 1, limit) = SubSeq(ids, m + 1, n)
    <3> DEFINE a == SubSeq(rest, 1, limit)
               b == SubSeq(ids, m + 1, n)
    <3>1. a \in Seq(Path) /\ Len(a) = limit /\ \A k \in 1 .. limit : a[k] = ids[m + k]
      BY <1>1, <1>2, <2>1
    <3>2. b \in Seq(Path) /\ Len(b) = limit /\ \A k \in 1 .. limit : b[k] = ids[m + k]
      BY <1>1, <2>1 DEF L
    <3> HIDE DEF a, b
    <3>3. Len(a) = Len(b) /\ \A k \in 1 .. Len(a) : a[k] = b[k]
      BY <3>1, <3>2
    <3>4. a = b
      BY ONLY <3>1, <3>2, <3>3, SeqEqual
    <3>5. QED  BY <3>4 DEF a, b
  <2>4. rest[limit] = ids[n]
    BY <1>2, <2>1
  <2>5. SubSeq(ids, 1, m) \o page.nodes = SubSeq(ids, 1, n)
    BY <1>3, <2>1, <2>2, <2>3
  <2> HIDE DEF n
  <2>6. QED  BY <2>1, <2>2, <2>4, <2>5 DEF L, rest
<1>6. QED  BY <1>1, <1>4, <1>5

(* The page after a cursor. *)
LEMMA PageAfter ==
    ASSUME NEW view, NEW limit, NEW ids, NEW m,
           ids = IdsOf(view), ids \in Seq(Path), IsInjective(ids), m \in 1 .. Len(ids)
    PROVE  /\ PageTree(view, limit, ids[m]) = Cut(SubSeq(ids, 1 + m, Len(ids)), limit)
           /\ ids[m] # NoCursor
<1>1. DOMAIN ids = 1 .. Len(ids) /\ Len(ids) \in Nat /\ ids[m] \in Path
  OBVIOUS
<1>2. ids[m] # NoCursor
  BY <1>1, ViewAssumption
<1>3. ids[m] \in ToSet(ids)
  BY <1>1 DEF ToSet
<1>4. {k \in DOMAIN ids : ids[k] = ids[m]} = {m}
  BY <1>1 DEF IsInjective
<1>5. Min({m}) = m
  BY DEF Min
<1>6. QED  BY <1>2, <1>3, <1>4, <1>5 DEF PageTree

LEMMA PageParts ==
    ASSUME NEW nodes, NEW truncated, NEW next
    PROVE  /\ Page(nodes, truncated, next).nodes = nodes
           /\ Page(nodes, truncated, next).next = next
BY DEF Page

(* Whoever follows the cursors has all the nodes in the end. *)
LEMMA FollowedAll ==
    ASSUME NEW view, NEW limit, NEW ids, ids = IdsOf(view), ids \in Seq(Path),
           IsInjective(ids), limit \in Nat \ {0}
    PROVE  Followed(view, limit) = ids
<1> DEFINE L == Len(ids)
           T == [nodes : Seq(Path), truncated : BOOLEAN, next : Path \cup {NoCursor}]
           first == PageTree(view, limit, NoCursor)
           after(g) == IF g.next = NoCursor THEN g
                       ELSE LET page == PageTree(view, limit, g.next)
                            IN  Page(g.nodes \o page.nodes, page.truncated, page.next)
           Unrolled(got) == [n \in 0 .. L |-> IF n = 0 THEN first ELSE after(got[n - 1])]
           got == CHOOSE f : f = Unrolled(f)
<1>1. L \in Nat
  OBVIOUS
<1>2. Followed(view, limit) = got[L].nodes
  BY DEF Followed
<1>3. ASSUME NEW s \in Seq(Path)
      PROVE  Cut(s, limit) \in T
  <2>1. Len(s) \in Nat /\ limit \in Nat /\ limit # 0
    OBVIOUS
  <2>2. CASE limit >= Len(s)
    BY <2>2 DEF Cut, Page
  <2>3. CASE ~ (limit >= Len(s))
    <3>1. limit \in 1 .. Len(s) /\ SubSeq(s, 1, limit) \in Seq(Path) /\ s[limit] \in Path
      BY <2>1, <2>3
    <3>2. QED  BY <2>1, <2>3, <3>1 DEF Cut, Page
  <2>4. QED  BY <2>2, <2>3
<1>4. \A c : PageTree(view, limit, c) \in T
  <2>1. ASSUME NEW c PROVE PageTree(view, limit, c) \in T
    <3>1. CASE c = NoCursor
      BY <1>3, <3>1 DEF PageTree
    <3>2. CASE c # NoCursor /\ c \notin ToSet(ids)
      BY <3>2, EmptySeq DEF PageTree, Page
    <3>3. CASE c # NoCursor /\ c \in ToSet(ids)
      <4>1. PICK m \in DOMAIN ids : c = ids[m]
        BY <3>3 DEF ToSet
      <4>2. m \in 1 .. Len(ids)
        BY <4>1
      <4>3. PageTree(view, limit, ids[m]) = Cut(SubSeq(ids, 1 + m, Len(ids)), limit)
        BY ONLY ids = IdsOf(view), ids \in Seq(Path), IsInjective(ids), <4>2, PageAfter
      <4>4. SubSeq(ids, 1 + m, Len(ids)) \in Seq(Path)
        BY <1>1, <4>2
      <4> HIDE DEF T
      <4>5. QED  BY <1>3, <4>1, <4>3, <4>4
    <3>4. QED  BY <3>1, <3>2, <3>3
  <2>2. QED  BY <2>1
<1>5. \A g \in T : after(g) \in T
  <2>1. ASSUME NEW g \in T, NEW page \in T PROVE Page(g.nodes \o page.nodes, page.truncated, page.next) \in T
    <3>1. g.nodes \o page.nodes \in Seq(Path)
      BY ConcatProperties
    <3>2. QED  BY <3>1 DEF Page
  <2> HIDE DEF T
  <2>2. QED  BY <1>4, <2>1
<1>6. PICK f \in [0 .. L -> T] : f = Unrolled(f)
  <2> DEFINE step == [n \in 1 .. L |-> [g \in T |-> after(g)]]
  <2>1. step \in [1 .. L -> [T -> T]]
    <3> HIDE DEF T, after
    <3>1. QED  BY <1>5
  <2>2. first \in T
    BY <1>4
  <2>3. PICK f \in [0 .. L -> T] : Runs(f, L, first, step)
    <3> HIDE DEF T, first, step, L
    <3>1. QED  BY ONLY <1>1, <2>1, <2>2, Recursion
  <2>4. \A n \in 1 .. L : \A g \in T : step[n][g] = after(g)
    OBVIOUS
  <2> HIDE DEF step, T, first, after, L
  <2>5. f[0] = first /\ \A n \in 1 .. L : f[n] = after(f[n - 1])
    <3>1. \A n \in 1 .. L : n - 1 \in 0 .. L
      BY <1>1
    <3>2. QED  BY <2>3, <2>4, <3>1 DEF Runs
  <2>6. \A n \in 0 .. L : n # 0 => n \in 1 .. L
    BY <1>1
  <2>7. f = Unrolled(f)
    BY <2>5, <2>6
  <2>8. QED  BY <2>7
<1>7. got = Unrolled(got)
  <2> HIDE DEF Unrolled, T
  <2>1. QED  BY <1>6
<1> HIDE DEF got
<1>8. got[0] = first /\ \A n \in 1 .. L : got[n] = after(got[n - 1])
  <2> HIDE DEF first, after, L
  <2>1. \A n \in 1 .. L : n \in 0 .. L /\ n # 0
    BY <1>1
  <2>2. 0 \in 0 .. L
    BY <1>1
  <2>3. QED  BY <1>7, <2>1, <2>2
<1> DEFINE Good(n) == \E m \in 0 .. L : HasFirst(got[n], ids, m) /\ (m = L \/ m >= n + 1)
           S == {n \in 0 .. L : Good(n)}
<1>9. 0 \in S
  <2> DEFINE page == Cut(SubSeq(ids, 1 + 0, Len(ids)), limit)
  <2>1. SubSeq(ids, 1 + 0, Len(ids)) = ids
    BY <1>1
  <2>2. first = page
    BY <2>1 DEF PageTree
  <2>3. PICK m \in 0 .. Len(ids) :
           /\ SubSeq(ids, 1, 0) \o page.nodes = SubSeq(ids, 1, m)
           /\ \/ page.next = NoCursor /\ m = Len(ids)
              \/ page.next = ids[m] /\ m \in 0 + 1 .. Len(ids) - 1
    <3>1. 0 \in 0 .. Len(ids)
      BY <1>1
    <3>2. QED  BY ONLY ids \in Seq(Path), limit \in Nat \ {0}, <3>1, CutGoesOn
  <2>4. SubSeq(ids, 1, 0) = <<>> /\ page.nodes \in Seq(Path)
    <3>1. first \in T
      BY <1>4
    <3> HIDE DEF first
    <3>2. page.nodes \in Seq(Path)
      BY <2>2, <3>1
    <3>3. QED  BY <1>1, <3>2
  <2>5. SubSeq(ids, 1, 0) \o page.nodes = page.nodes
    BY <2>4, ConcatEmptySeq
  <2> HIDE DEF page, first
  <2>6. HasFirst(got[0], ids, m) /\ (m = L \/ m >= 0 + 1)
    BY <1>1, <1>8, <2>2, <2>3, <2>5 DEF HasFirst
  <2>7. QED  BY <1>1, <2>6
<1>10. ASSUME NEW n \in 0 .. L - 1, n \in S PROVE n + 1 \in S
  <2>1. n + 1 \in 1 .. L /\ n + 1 \in 0 .. L /\ (n + 1) - 1 = n
    BY <1>1
  <2>2. got[n + 1] = after(got[n])
    BY <1>8, <2>1
  <2>3. PICK m \in 0 .. L : HasFirst(got[n], ids, m) /\ (m = L \/ m >= n + 1)
    BY <1>10
  <2>4. CASE got[n].next = NoCursor
    <3>1. m = L
      <4>1. m \in 1 .. Len(ids) => ids[m] # NoCursor
        BY PageAfter
      <4>2. QED  BY <1>1, <2>3, <2>4, <4>1 DEF HasFirst
    <3>2. got[n + 1] = got[n]
      BY <2>2, <2>4
    <3>3. QED  BY <2>1, <2>3, <3>1, <3>2
  <2>5. CASE got[n].next # NoCursor
    <3>1. got[n].next = ids[m] /\ m \in 1 .. L - 1 /\ m \in 1 .. Len(ids) /\ m \in 0 .. Len(ids)
          /\ got[n].nodes = SubSeq(ids, 1, m) /\ m >= n + 1
      BY <1>1, <2>3, <2>5 DEF HasFirst
    <3> DEFINE page == Cut(SubSeq(ids, 1 + m, Len(ids)), limit)
    <3>2. PageTree(view, limit, ids[m]) = page
      <4>1. m \in 1 .. Len(ids)
        BY <3>1
      <4>2. PageTree(view, limit, ids[m]) = Cut(SubSeq(ids, 1 + m, Len(ids)), limit)
        BY ONLY ids = IdsOf(view), ids \in Seq(Path), IsInjective(ids), <4>1, PageAfter
      <4>3. QED  BY <4>2
    <3>3. PICK k \in m .. Len(ids) :
             /\ SubSeq(ids, 1, m) \o page.nodes = SubSeq(ids, 1, k)
             /\ \/ page.next = NoCursor /\ k = Len(ids)
                \/ page.next = ids[k] /\ k \in m + 1 .. Len(ids) - 1
      BY ONLY ids \in Seq(Path), limit \in Nat \ {0}, <3>1, CutGoesOn
    <3> HIDE DEF page
    <3>4. got[n + 1] = Page(SubSeq(ids, 1, m) \o page.nodes, page.truncated, page.next)
      BY <2>2, <2>5, <3>1, <3>2
    <3>5. got[n + 1].nodes = SubSeq(ids, 1, k) /\ got[n + 1].next = page.next
      <4>1. /\ got[n + 1].nodes = SubSeq(ids, 1, m) \o page.nodes
            /\ got[n + 1].next = page.next
        <5> DEFINE nodes == SubSeq(ids, 1, m) \o page.nodes
                   truncated == page.truncated
                   next == page.next
        <5>1. got[n + 1] = Page(nodes, truncated, next)
          BY <3>4
        <5>2. Page(nodes, truncated, next).nodes = nodes /\ Page(nodes, truncated, next).next = next
          <6> HIDE DEF nodes, truncated, next
          <6>1. QED  BY ONLY PageParts
        <5> HIDE DEF nodes, truncated, next
        <5>3. got[n + 1].nodes = nodes /\ got[n + 1].next = next
          BY ONLY <5>1, <5>2
        <5>4. QED  BY <5>3 DEF nodes, next
      <4>2. QED  BY <3>3, <4>1
    <3>6. HasFirst(got[n + 1], ids, k) /\ (k = L \/ k >= (n + 1) + 1) /\ k \in 0 .. L
      BY <1>1, <2>1, <3>1, <3>3, <3>5 DEF HasFirst
    <3>7. QED  BY <2>1, <3>6
  <2>6. QED  BY <2>4, <2>5
<1>11. L \in S
  <2> HIDE DEF S
  <2>1. 0 .. L \subseteq S
    <3> HIDE DEF L
    <3>1. QED  BY ONLY <1>1, <1>9, <1>10, Induction
  <2>2. QED  BY <1>1, <2>1
<1>12. PICK m \in 0 .. L : HasFirst(got[L], ids, m) /\ (m = L \/ m >= L + 1)
  BY <1>11
<1>13. m = L
  BY <1>1, <1>12
<1>14. got[L].nodes = SubSeq(ids, 1, L)
  BY <1>12, <1>13 DEF HasFirst
<1>15. SubSeq(ids, 1, L) = ids
  BY <1>1
<1>16. QED  BY <1>2, <1>14, <1>15

(* The pages of a view, one after the other, are what it is for. *)
THEOREM PagesAreTheView ==
    ASSUME NEW t, NEW asked, NEW f, NEW limit, t \in Tree, asked \subseteq Int,
           limit \in Nat \ {0}
    PROVE  Followed(View(t, asked, f), limit) = Wanted(t, asked, f)
<1> DEFINE ids == Wanted(t, asked, f)
           S == {p \in {q \in Paths(t) : Len(q) <= EffectiveDepth(asked)} :
                   f.prune => \E q \in {x \in {y \in Paths(t) : Len(y) <= EffectiveDepth(asked)} :
                                          SelfKeep(At[Identified[t][<<>>]][x], f)} : IsPrefix(p, q)}
<1>1. IdsOf(View(t, asked, f)) = ids
  BY ONLY t \in Tree, asked \subseteq Int, ViewIsWanted
<1>2. ids = Those(Flat[t], S)
  BY DEF Wanted
<1> HIDE DEF ids, S
<1>3. Flat[t] \in Seq(Path) /\ IsInjective(Flat[t])
  BY FlatDef, FlatInjective
<1>4. Those(Flat[t], S) \in Seq(Path)
  BY ONLY <1>3, ThoseParts
<1>5. IsInjective(Those(Flat[t], S))
  BY ONLY <1>3, ThoseInjective
<1>6. Followed(View(t, asked, f), limit) = ids
  <2>1. ids \in Seq(Path) /\ IsInjective(ids)
    BY <1>2, <1>4, <1>5
  <2>2. ids = IdsOf(View(t, asked, f))
    BY <1>1
  <2>3. QED  BY ONLY limit \in Nat \ {0}, <2>1, <2>2, FollowedAll
<1>7. QED  BY <1>6 DEF ids
===============================================================================
