------------------------------ MODULE DataLemmas ------------------------------
(***************************************************************************)
(* Facts on data that the proofs of several modules cite: induction on the   *)
(* naturals, and what the operators of OrderedDicts return, for keys of any  *)
(* set.  The library's induction theorems have an operator as parameter; here *)
(* the induction is on a set, which follows from the order of the naturals    *)
(* being well founded.                                                      *)
(***************************************************************************)
EXTENDS OrderedDicts, FiniteSetTheorems, WellFoundedInduction, TLAPS

(* A set of naturals that is not empty has a least member. *)
LEMMA LeastNatural ==
    ASSUME NEW S \in SUBSET Nat, S # {}
    PROVE  \E n \in S : \A m \in S : n <= m
<1> DEFINE R == OpToRel(<, Nat)
<1>1. \A m, n \in Nat : m < n => <<m, n>> \in R
  BY DEF OpToRel
<1>2. IsWellFoundedOn(R, Nat)
  BY NatLessThanWellFounded
<1> HIDE DEF R
<1>3. PICK n \in S : \A m \in S : ~ (<<m, n>> \in R)
  BY <1>2, WFMin
<1>4. ASSUME NEW m \in S PROVE n <= m
  <2>1. n \in Nat /\ m \in Nat
    OBVIOUS
  <2>2. ~ (m < n)
    BY <1>1, <1>3, <2>1
  <2>3. QED  BY <2>1, <2>2
<1>5. QED  BY <1>4

(* A set with 0, and with the next of each of its members below n, has all of   *)
(* 0 .. n.                                                                   *)
LEMMA Induction ==
    ASSUME NEW n \in Nat, NEW S, 0 \in S, \A k \in 0 .. n - 1 : k \in S => k + 1 \in S
    PROVE  0 .. n \subseteq S
<1> SUFFICES ASSUME ~ (0 .. n \subseteq S) PROVE FALSE
  OBVIOUS
<1>1. (0 .. n) \ S # {} /\ (0 .. n) \ S \subseteq Nat
  OBVIOUS
<1>2. PICK k \in (0 .. n) \ S : \A m \in (0 .. n) \ S : k <= m
  BY <1>1, LeastNatural
<1>3. k # 0 /\ k \in 0 .. n
  OBVIOUS
<1>4. k - 1 \in 0 .. n - 1 /\ k - 1 \in 0 .. n /\ ~ (k <= k - 1) /\ (k - 1) + 1 = k
  BY <1>3
<1>5. k - 1 \in S
  BY <1>2, <1>4
<1>6. QED  BY <1>4, <1>5

(* Among finitely many numbered things there is one of the least value. *)
LEMMA LeastValue ==
    ASSUME NEW n \in Nat, NEW K \in SUBSET (1 .. n), K # {}, NEW v \in [1 .. n -> Int]
    PROVE  \E k \in K : \A j \in K : v[k] <= v[j]
<1> DEFINE First(m) == {k \in K : k <= m}
           Low(m) == \E k \in First(m) : \A j \in First(m) : v[k] <= v[j]
           S == {m \in 0 .. n : First(m) = {} \/ Low(m)}
<1>0. \A k \in K : k \in Int /\ 1 <= k /\ k <= n /\ v[k] \in Int
  OBVIOUS
<1>1. 0 \in S
  <2>1. First(0) = {}
    <3>1. \A k \in K : ~ (k <= 0)
      BY <1>0
    <3>2. QED  BY <3>1
  <2>2. 0 \in 0 .. n
    OBVIOUS
  <2> HIDE DEF First
  <2>3. QED  BY <2>1, <2>2
<1>2. ASSUME NEW m \in 0 .. n - 1, m \in S PROVE m + 1 \in S
  <2>1. m \in Int /\ m + 1 \in 0 .. n
    OBVIOUS
  <2>2. CASE m + 1 \notin K
    <3>1. First(m + 1) = First(m)
      <4>1. \A k \in K : k <= m + 1 <=> k <= m
        BY <1>0, <2>1, <2>2
      <4>2. QED  BY <4>1
    <3> HIDE DEF First
    <3>2. QED  BY <1>2, <2>1, <3>1
  <2>3. CASE m + 1 \in K
    <3>1. First(m + 1) = First(m) \cup {m + 1} /\ First(m) \subseteq K
      <4>1. \A k \in K : k <= m + 1 <=> k <= m \/ k = m + 1
        BY <1>0, <2>1
      <4>2. QED  BY <2>3, <4>1
    <3> HIDE DEF First
    <3>2. CASE First(m) = {}
      <4>1. First(m + 1) = {m + 1}
        BY <3>1, <3>2
      <4>2. Low(m + 1)
        BY <1>0, <2>3, <4>1
      <4>3. QED  BY <2>1, <4>2
    <3>3. CASE First(m) # {}
      <4>1. PICK k \in First(m) : \A j \in First(m) : v[k] <= v[j]
        BY <1>2, <3>3
      <4>2. CASE v[k] <= v[m + 1]
        <5>1. Low(m + 1)
          BY <3>1, <4>1, <4>2
        <5>2. QED  BY <2>1, <5>1
      <4>3. CASE ~ (v[k] <= v[m + 1])
        <5>1. \A j \in First(m + 1) : v[m + 1] <= v[j]
          <6>1. k \in K /\ v[k] \in Int /\ v[m + 1] \in Int
            BY <1>0, <2>3, <3>1, <4>1
          <6>2. ASSUME NEW j \in First(m) PROVE v[m + 1] <= v[j]
            <7>1. v[j] \in Int /\ v[k] <= v[j]
              BY <1>0, <3>1, <4>1
            <7>2. QED  BY <4>3, <6>1, <7>1
          <6>3. v[m + 1] <= v[m + 1]
            BY <6>1
          <6>4. QED  BY <3>1, <6>2, <6>3
        <5>2. Low(m + 1)
          BY <3>1, <5>1
        <5>3. QED  BY <2>1, <5>2
      <4>4. QED  BY <4>2, <4>3
    <3>4. QED  BY <3>2, <3>3
  <2>4. QED  BY <2>2, <2>3
<1> HIDE DEF S
<1>3. 0 .. n \subseteq S
  BY <1>1, <1>2, Induction
<1>4. First(n) = {} \/ Low(n)
  <2>1. n \in S
    BY <1>3
  <2>2. QED  BY <2>1 DEF S
<1>5. First(n) = K
  BY <1>0
<1> HIDE DEF First
<1>6. QED  BY <1>4, <1>5

(* f is what n steps lead to, one after the other, from a beginning. *)
Runs(f, n, base, step) == f[0] = base /\ \A k \in 1 .. n : f[k] = step[k][f[k - 1]]

(* Steps taken one after the other lead somewhere: the function that a recursive *)
(* definition chooses exists.                                                  *)
LEMMA Recursion ==
    ASSUME NEW n \in Nat, NEW T, NEW base \in T, NEW step \in [1 .. n -> [T -> T]]
    PROVE  \E f \in [0 .. n -> T] : Runs(f, n, base, step)
<1> DEFINE Goes(f, m) == f \in [0 .. m -> T] /\ Runs(f, m, base, step)
           S == {m \in 0 .. n : \E f : Goes(f, m)}
<1>1. 0 \in S
  <2>1. Goes([k \in 0 .. 0 |-> base], 0)
    BY DEF Runs
  <2>2. \E f : Goes(f, 0)
    BY <2>1
  <2>3. QED  BY <2>2
<1>2. ASSUME NEW m \in 0 .. n - 1, m \in S PROVE m + 1 \in S
  <2>1. PICK f : Goes(f, m)
    BY <1>2
  <2> DEFINE g == [k \in 0 .. m + 1 |-> IF k = m + 1 THEN step[m + 1][f[m]] ELSE f[k]]
  <2>2. m \in 0 .. m /\ m + 1 \in 1 .. n /\ m + 1 \in 0 .. n
    OBVIOUS
  <2>3. step[m + 1][f[m]] \in T
    BY <2>1, <2>2
  <2>4. g \in [0 .. m + 1 -> T] /\ g[0] = base
    BY <2>1, <2>3 DEF Runs
  <2>5. ASSUME NEW k \in 1 .. m + 1 PROVE g[k] = step[k][g[k - 1]]
    <3>1. CASE k = m + 1
      <4>1. g[k] = step[k][f[m]] /\ k - 1 = m
        BY <3>1
      <4>2. g[k - 1] = f[m]
        BY <2>2, <4>1
      <4>3. QED  BY <4>1, <4>2
    <3>2. CASE k # m + 1
      <4>1. k \in 1 .. m /\ k \in 0 .. m + 1 /\ k - 1 \in 0 .. m + 1 /\ k - 1 # m + 1
        BY <3>2
      <4>2. g[k] = f[k] /\ g[k - 1] = f[k - 1]
        BY <3>2, <4>1
      <4>3. QED  BY <2>1, <4>1, <4>2 DEF Runs
    <3>3. QED  BY <3>1, <3>2
  <2> HIDE DEF g
  <2>6. Goes(g, m + 1)
    BY <2>4, <2>5 DEF Runs
  <2>7. QED  BY <2>2, <2>6
<1> HIDE DEF S
<1>3. 0 .. n \subseteq S
  BY <1>1, <1>2, Induction
<1>4. n \in S
  BY <1>3
<1>5. QED  BY <1>4 DEF S
-------------------------------------------------------------------------------
(* pop(key, None) leaves every other key, once each, and is no longer. *)
LEMMA WithoutProperties ==
    ASSUME NEW S, NEW s \in Seq(S), NEW x, Distinct(s)
    PROVE  /\ Without(s, x) \in Seq(S)
           /\ Distinct(Without(s, x))
           /\ Keys(Without(s, x)) = Keys(s) \ {x}
           /\ Len(Without(s, x)) = IF x \in Keys(s) THEN Len(s) - 1 ELSE Len(s)
<1>1. CASE x \notin Keys(s)
  BY <1>1 DEF Without, Keys
<1>2. CASE x \in Keys(s)
  <2> DEFINE i == CHOOSE k \in DOMAIN s : s[k] = x
             t == [j \in 1..(Len(s) - 1) |-> IF j < i THEN s[j] ELSE s[j + 1]]
  <2>1. i \in 1..Len(s) /\ s[i] = x
    BY <1>2 DEF Keys
  <2>2. Without(s, x) = t
    BY <1>2 DEF Without
  <2> HIDE DEF i
  <2>3. /\ Len(s) \in Nat
        /\ \A k \in 1..Len(s) : s[k] \in S
        /\ DOMAIN s = 1..Len(s)
    OBVIOUS
  <2>4. \A j \in 1..(Len(s) - 1) : t[j] \in S
    BY <2>1, <2>3
  <2>5. t \in Seq(S) /\ Len(t) = Len(s) - 1 /\ DOMAIN t = 1..(Len(s) - 1)
    BY <2>1, <2>3, <2>4
  <2>6. Distinct(t)
    BY <2>1, <2>3, <2>5 DEF Distinct
  <2>7. ASSUME NEW k \in 1..Len(s), k # i
        PROVE  s[k] \in Keys(t)
    <3>1. CASE k < i
      <4>1. k \in 1..(Len(s) - 1) /\ t[k] = s[k]
        BY <3>1, <2>1, <2>3
      <4>2. QED  BY <4>1, <2>5 DEF Keys
    <3>2. CASE k > i
      <4>1. k - 1 \in 1..(Len(s) - 1) /\ t[k - 1] = s[k]
        BY <3>2, <2>1, <2>3
      <4>2. QED  BY <4>1, <2>5 DEF Keys
    <3>3. QED  BY <3>1, <3>2, <2>1, <2>7
  <2>8. Keys(t) \subseteq Keys(s) \ {x}
    BY <2>1, <2>3, <2>5 DEF Keys, Distinct
  <2>9. Keys(s) \ {x} \subseteq Keys(t)
    BY <2>1, <2>3, <2>7 DEF Keys
  <2>10. QED
    BY <1>2, <2>2, <2>5, <2>6, <2>8, <2>9
<1>3. QED
  BY <1>1, <1>2

(* move_to_end(key) leaves the key once, at the end. *)
LEMMA TouchProperties ==
    ASSUME NEW S, NEW s \in Seq(S), NEW x \in S, Distinct(s)
    PROVE  /\ Touch(s, x) \in Seq(S)
           /\ Distinct(Touch(s, x))
           /\ Keys(Touch(s, x)) = Keys(s) \cup {x}
           /\ Len(Touch(s, x)) = IF x \in Keys(s) THEN Len(s) ELSE Len(s) + 1
           /\ Touch(s, x)[Len(Touch(s, x))] = x
<1> DEFINE t == Without(s, x)
<1>1. /\ t \in Seq(S) /\ Distinct(t) /\ Keys(t) = Keys(s) \ {x}
      /\ Len(t) = IF x \in Keys(s) THEN Len(s) - 1 ELSE Len(s)
  BY WithoutProperties
<1> HIDE DEF t
<1>2. /\ Len(t) \in Nat /\ DOMAIN t = 1..Len(t) /\ Len(s) \in Nat
      /\ Touch(s, x) = Append(t, x)
  BY <1>1 DEF Touch, t
<1> DEFINE u == Append(t, x)
<1>3. /\ u \in Seq(S) /\ Len(u) = Len(t) + 1 /\ DOMAIN u = 1..(Len(t) + 1)
      /\ u[Len(t) + 1] = x /\ \A j \in 1..Len(t) : u[j] = t[j]
  BY <1>1, <1>2
<1> HIDE DEF u
<1>4. \A j \in 1..Len(t) : t[j] # x
  BY <1>1, <1>2 DEF Keys
<1>5. Distinct(u)
  <2>1. SUFFICES ASSUME NEW i \in 1..(Len(t) + 1), NEW j \in 1..(Len(t) + 1),
                        u[i] = u[j]
                 PROVE  i = j
    BY <1>3 DEF Distinct
  <2>2. \A k \in 1..(Len(t) + 1) : k \in 1..Len(t) \/ k = Len(t) + 1
    BY <1>2
  <2>3. CASE i \in 1..Len(t) /\ j \in 1..Len(t)
    <3>1. t[i] = t[j]
      BY <2>1, <2>3, <1>3
    <3>2. QED  BY <2>3, <3>1, <1>1, <1>2 DEF Distinct
  <2>4. CASE i = Len(t) + 1 \/ j = Len(t) + 1
    <3>1. u[i] = x /\ u[j] = x
      BY <2>1, <2>4, <1>3
    <3>2. i \notin 1..Len(t) /\ j \notin 1..Len(t)
      BY <3>1, <1>3, <1>4
    <3>3. QED  BY <2>2, <3>2
  <2>5. QED  BY <2>2, <2>3, <2>4
<1>6. Keys(u) = Keys(t) \cup {x}
  <2>1. \A j \in 1..(Len(t) + 1) : u[j] \in Keys(t) \cup {x}
    BY <1>2, <1>3 DEF Keys
  <2>2. \A j \in 1..Len(t) : j \in 1..(Len(t) + 1)
    BY <1>2
  <2>3. Keys(t) \subseteq Keys(u)
    BY <2>2, <1>2, <1>3 DEF Keys
  <2>4. Len(t) + 1 \in 1..(Len(t) + 1)
    BY <1>2
  <2>5. x \in Keys(u)
    BY <2>4, <1>3 DEF Keys
  <2>6. Keys(u) \subseteq Keys(t) \cup {x}
    BY <2>1, <1>3 DEF Keys
  <2>7. QED  BY <2>3, <2>5, <2>6
<1>7. QED
  <2>1. Keys(u) = Keys(s) \cup {x}
    BY <1>1, <1>6
  <2>2. Len(u) = IF x \in Keys(s) THEN Len(s) ELSE Len(s) + 1
    BY <1>1, <1>2, <1>3
  <2>3. Touch(s, x) = u
    BY <1>2 DEF u
  <2>4. QED  BY <2>1, <2>2, <2>3, <1>3, <1>5

(* Popping from the front keeps the newest keys and comes down to the cap. *)
LEMMA NewestProperties ==
    ASSUME NEW S, NEW s \in Seq(S), NEW cap \in Nat \ {0}, Distinct(s)
    PROVE  /\ Newest(s, cap) \in Seq(S)
           /\ Distinct(Newest(s, cap))
           /\ Keys(Newest(s, cap)) \subseteq Keys(s)
           /\ Len(Newest(s, cap)) <= cap
           /\ Len(s) > 0 => s[Len(s)] \in Keys(Newest(s, cap))
<1>0. Len(s) \in Nat /\ DOMAIN s = 1..Len(s)
  OBVIOUS
<1>1. CASE Len(s) <= cap
  <2>1. Newest(s, cap) = s
    BY <1>0, <1>1 DEF Newest
  <2>2. Len(s) > 0 => Len(s) \in 1..Len(s)
    BY <1>0
  <2>3. QED  BY <1>0, <1>1, <2>1, <2>2 DEF Keys
<1>2. CASE Len(s) > cap
  <2> DEFINE d == Len(s) - cap
             t == SubSeq(s, d + 1, Len(s))
  <2>1. Newest(s, cap) = t
    BY <1>0, <1>2 DEF Newest
  <2>2. d \in Nat /\ d + cap = Len(s)
    BY <1>0, <1>2
  <2>3. /\ t \in Seq(S) /\ Len(t) = cap /\ DOMAIN t = 1..cap
        /\ \A j \in 1..cap : t[j] = s[d + j]
    BY <1>0, <1>2, <2>2
  <2>4. \A j \in 1..cap : d + j \in 1..Len(s)
    BY <1>0, <2>2
  <2> HIDE DEF d, t
  <2>5. Distinct(t)
    <3> SUFFICES ASSUME NEW i \in 1..cap, NEW j \in 1..cap, t[i] = t[j]
                 PROVE  i = j
      BY <2>3 DEF Distinct
    <3>1. d + i = d + j
      BY <2>3, <2>4, <1>0 DEF Distinct
    <3>2. QED  BY <3>1, <2>2
  <2>6. Keys(t) \subseteq Keys(s)
    BY <1>0, <2>3, <2>4 DEF Keys
  <2>7. cap \in 1..cap /\ t[cap] = s[Len(s)]
    BY <2>2, <2>3
  <2>8. s[Len(s)] \in Keys(t)
    BY <2>7, <2>3 DEF Keys
  <2>9. QED  BY <2>1, <2>3, <2>5, <2>6, <2>8
<1>3. QED  BY <1>0, <1>1, <1>2

-------------------------------------------------------------------------------
(* The keys behind a key: those inserted or moved to the end after it.       *)
Behind(s, x) ==
    {s[j] : j \in {k \in DOMAIN s : \E i \in DOMAIN s : i < k /\ s[i] = x}}

(* As many keys stand behind a key as there are places behind its own.       *)
LEMMA BehindProperties ==
    ASSUME NEW S, NEW s \in Seq(S), Distinct(s), NEW i \in 1..Len(s)
    PROVE  /\ Behind(s, s[i]) = {s[j] : j \in (i + 1)..Len(s)}
           /\ Behind(s, s[i]) \subseteq Keys(s) \ {s[i]}
           /\ IsFiniteSet(Behind(s, s[i]))
           /\ Cardinality(Behind(s, s[i])) = Len(s) - i
<1>1. Len(s) \in Nat /\ DOMAIN s = 1..Len(s)
  OBVIOUS
<1> DEFINE J == (i + 1)..Len(s)
           B == {s[j] : j \in J}
           f == [j \in J |-> s[j]]
<1>2. {k \in DOMAIN s : \E m \in DOMAIN s : m < k /\ s[m] = s[i]} = J
  BY <1>1 DEF Distinct
<1>3. Behind(s, s[i]) = B
  BY <1>2 DEF Behind
<1>4. J \subseteq 1..Len(s) /\ i \notin J
  BY <1>1
<1>5. B \subseteq Keys(s) \ {s[i]}
  BY <1>1, <1>4 DEF Distinct, Keys
<1>6. IsFiniteSet(J) /\ Cardinality(J) = Len(s) - i
  BY <1>1, FS_Interval
<1>7. f \in Bijection(J, B)
  <2>1. f \in [J -> B]
    OBVIOUS
  <2>2. \A j, k \in J : f[j] = f[k] => j = k
    BY <1>1, <1>4 DEF Distinct
  <2>3. \A b \in B : \E j \in J : f[j] = b
    OBVIOUS
  <2>4. QED
    BY <2>1, <2>2, <2>3 DEF Bijection, Injection, Surjection, IsInjective
<1>8. IsFiniteSet(B) /\ Cardinality(B) = Cardinality(J)
  BY <1>6, <1>7, FS_Bijection DEF ExistsBijection
<1>9. QED
  BY <1>3, <1>5, <1>6, <1>8

LEMMA PlacesUpTo ==
    ASSUME NEW n \in Nat
    PROVE  IsFiniteSet(1..n) /\ Cardinality(1..n) = n
  BY FS_Interval

(* Keeping the keys of a set keeps their order and who stands behind whom.   *)
LEMMA OnlyProperties ==
    ASSUME NEW S, NEW s \in Seq(S), Distinct(s), NEW T
    PROVE  /\ Only(s, T) \in Seq(S)
           /\ Distinct(Only(s, T))
           /\ Keys(Only(s, T)) = Keys(s) \cap T
           /\ Len(Only(s, T)) <= Len(s)
           /\ \A x \in Keys(s) \cap T :
                 Behind(Only(s, T), x) = Behind(s, x) \cap T
<1> DEFINE K == {i \in DOMAIN s : s[i] \in T}
           UpTo(i) == {k \in K : k <= i}
           Place(i) == Cardinality(UpTo(i))
           n == Cardinality(K)
           pos(j) == CHOOSE i \in K : Place(i) = j
           t == [j \in 1..n |-> s[pos(j)]]
<1>1. Len(s) \in Nat /\ DOMAIN s = 1..Len(s) /\ \A i \in 1..Len(s) : s[i] \in S
  OBVIOUS
<1>2. /\ IsFiniteSet(K) /\ n \in Nat /\ n <= Len(s)
      /\ K \subseteq 1..Len(s)
      /\ \A i \in K : i \in Nat
  <2>1. K \subseteq 1..Len(s) /\ \A i \in K : i \in Nat
    BY <1>1
  <2>2. IsFiniteSet(1..Len(s)) /\ Cardinality(1..Len(s)) = Len(s)
    BY <1>1, PlacesUpTo
  <2>3. IsFiniteSet(K) /\ n <= Len(s)
    BY <2>1, <2>2, FS_Subset
  <2>4. QED  BY <2>1, <2>3, FS_CardinalityType
<1>3. \A i \in K : IsFiniteSet(UpTo(i)) /\ Place(i) \in 1..n
  <2> SUFFICES ASSUME NEW i \in K
               PROVE  IsFiniteSet(UpTo(i)) /\ Place(i) \in 1..n
    OBVIOUS
  <2>1. UpTo(i) \in SUBSET K
    OBVIOUS
  <2>2. IsFiniteSet(UpTo(i)) /\ Place(i) <= n
    BY <2>1, <1>2, FS_Subset
  <2>3. i \in UpTo(i)
    BY <1>2
  <2>4. Place(i) # 0 /\ Place(i) \in Nat
    BY <2>2, <2>3, FS_EmptySet, FS_CardinalityType
  <2>5. QED  BY <2>2, <2>4, <1>2
<1>4. \A i, k \in K : i < k => Place(i) < Place(k)
  <2> SUFFICES ASSUME NEW i \in K, NEW k \in K, i < k
               PROVE  Place(i) < Place(k)
    OBVIOUS
  <2>1. /\ UpTo(i) \in SUBSET UpTo(k) /\ UpTo(i) # UpTo(k)
    BY <1>2
  <2>2. Place(i) <= Place(k) /\ Place(i) # Place(k)
    BY <2>1, <1>3, FS_Subset
  <2>3. Place(i) \in 1..n /\ Place(k) \in 1..n
    BY <1>3
  <2> HIDE DEF Place, n
  <2>4. QED  BY <2>2, <2>3, <1>2
<1> HIDE DEF K, UpTo
<1> DEFINE p == [i \in K |-> Place(i)]
<1>5. p \in Injection(K, 1..n)
  <2>1. p \in [K -> 1..n]
    BY <1>3
  <2>2. \A i, k \in K : p[i] = p[k] => i = k
    <3> SUFFICES ASSUME NEW i \in K, NEW k \in K, Place(i) = Place(k)
                 PROVE  i = k
      OBVIOUS
    <3>1. i \in Nat /\ k \in Nat /\ Place(i) \in Nat /\ Place(k) \in Nat
      BY <1>2, <1>3
    <3>2. QED  BY <3>1, <1>4
  <2>3. QED  BY <2>1, <2>2 DEF Injection, IsInjective
<1>6. p \in Surjection(K, 1..n)
  <2>1. IsFiniteSet(1..n) /\ Cardinality(1..n) = n
    BY <1>2, PlacesUpTo
  <2>2. QED  BY <2>1, <1>5, FS_Injection
<1>7. \A j \in 1..n : pos(j) \in K /\ Place(pos(j)) = j
  BY <1>6 DEF Surjection
<1>8. \A i \in K : pos(Place(i)) = i
  <2> SUFFICES ASSUME NEW i \in K PROVE pos(Place(i)) = i
    OBVIOUS
  <2>1. pos(Place(i)) \in K /\ Place(pos(Place(i))) = Place(i)
    BY <1>3, <1>7
  <2>2. QED  BY <2>1, <1>5 DEF Injection, IsInjective
<1>9. \A j, m \in 1..n : j < m <=> pos(j) < pos(m)
  <2> SUFFICES ASSUME NEW j \in 1..n, NEW m \in 1..n
               PROVE  j < m <=> pos(j) < pos(m)
    OBVIOUS
  <2>1. /\ pos(j) \in K /\ pos(m) \in K
        /\ Place(pos(j)) = j /\ Place(pos(m)) = m
    BY <1>7
  <2>2. pos(j) \in Nat /\ pos(m) \in Nat
    <3> HIDE DEF pos, Place
    <3>1. QED  BY <2>1, <1>2
  <2>3. /\ pos(j) < pos(m) => j < m
        /\ pos(m) < pos(j) => m < j
        /\ pos(m) = pos(j) => m = j
    BY <2>1, <1>4
  <2>4. QED  BY <2>2, <2>3, <1>2
<1>10. Only(s, T) = t
  BY DEF Only, K, UpTo
<1> HIDE DEF Place, pos, n
<1>11. /\ \A j \in 1..n : pos(j) \in 1..Len(s) /\ s[pos(j)] \in T
       /\ \A i \in K : s[i] \in T /\ i \in 1..Len(s)
       /\ \A i \in 1..Len(s) : s[i] \in T => i \in K
  BY <1>1, <1>7 DEF K
<1>12. /\ t \in Seq(S) /\ Len(t) = n /\ DOMAIN t = 1..n
       /\ \A j \in 1..n : t[j] = s[pos(j)]
  BY <1>1, <1>2, <1>11
<1> HIDE DEF t
<1>13. Distinct(t)
  <2> SUFFICES ASSUME NEW j \in 1..n, NEW m \in 1..n, t[j] = t[m] PROVE j = m
    BY <1>12 DEF Distinct
  <2>1. pos(j) = pos(m)
    BY <1>1, <1>11, <1>12 DEF Distinct
  <2>2. QED  BY <2>1, <1>7
<1>14. Keys(t) = Keys(s) \cap T
  <2>1. ASSUME NEW i \in 1..Len(s), s[i] \in T PROVE s[i] \in Keys(t)
    <3>1. i \in K
      BY <2>1, <1>11
    <3>2. Place(i) \in 1..n /\ pos(Place(i)) = i
      BY <3>1, <1>3, <1>8 DEF Place, n
    <3>3. t[Place(i)] = s[i]
      BY <3>2, <1>12
    <3>4. QED  BY <3>2, <3>3, <1>12 DEF Keys
  <2>2. Keys(t) \subseteq Keys(s) \cap T
    BY <1>1, <1>11, <1>12 DEF Keys
  <2>3. QED  BY <2>1, <2>2, <1>1 DEF Keys
<1>15. ASSUME NEW x \in Keys(s) \cap T
       PROVE  Behind(t, x) = Behind(s, x) \cap T
  <2>1. PICK m \in 1..n : t[m] = x
    BY <1>12, <1>14, <1>15 DEF Keys
  <2>2. pos(m) \in 1..Len(s) /\ s[pos(m)] = x
    BY <2>1, <1>11, <1>12
  <2>3. Behind(t, x) = {t[j] : j \in (m + 1)..n}
    BY <2>1, <1>12, <1>13, BehindProperties
  <2>4. Behind(s, x) = {s[i] : i \in (pos(m) + 1)..Len(s)}
    BY <2>2, BehindProperties
  <2>5. ASSUME NEW j \in (m + 1)..n PROVE t[j] \in Behind(s, x) \cap T
    <3>1. j \in 1..n /\ m < j
      BY <1>2 DEF n
    <3>2. pos(m) < pos(j) /\ pos(j) \in 1..Len(s) /\ t[j] = s[pos(j)]
      BY <3>1, <1>9, <1>11, <1>12
    <3>3. pos(j) \in (pos(m) + 1)..Len(s)
      BY <3>2, <2>2, <1>1
    <3>4. QED  BY <3>1, <3>2, <3>3, <2>4, <1>11
  <2>6. ASSUME NEW i \in (pos(m) + 1)..Len(s), s[i] \in T
        PROVE  s[i] \in Behind(t, x)
    <3>1. i \in 1..Len(s) /\ pos(m) < i
      BY <2>2, <1>1
    <3>2. i \in K
      BY <3>1, <2>6, <1>11
    <3>3. Place(i) \in 1..n /\ pos(Place(i)) = i
      BY <3>2, <1>3, <1>8 DEF Place, n
    <3>4. m < Place(i)
      BY <3>1, <3>3, <1>9
    <3>5. Place(i) \in (m + 1)..n /\ t[Place(i)] = s[i]
      BY <3>3, <3>4, <1>2, <1>12 DEF n
    <3>6. QED  BY <3>5, <2>3
  <2>7. QED  BY <2>3, <2>4, <2>5, <2>6
<1>16. QED
  BY <1>2, <1>10, <1>12, <1>13, <1>14, <1>15 DEF n

(* A key that is popped no longer stands behind anything.                    *)
LEMMA WithoutBehind ==
    ASSUME NEW S, NEW s \in Seq(S), NEW x, Distinct(s), NEW y \in Keys(s) \ {x}
    PROVE  Behind(Without(s, x), y) = Behind(s, y) \ {x}
<1>1. /\ Len(s) \in Nat /\ DOMAIN s = 1..Len(s)
      /\ \A k \in 1..Len(s) : s[k] \in S
  OBVIOUS
<1>2. PICK b \in 1..Len(s) : s[b] = y
  BY <1>1 DEF Keys
<1>3. Behind(s, y) = {s[j] : j \in (b + 1)..Len(s)}
  BY <1>2, BehindProperties
<1>4. CASE x \notin Keys(s)
  <2>1. Without(s, x) = s
    BY <1>4 DEF Without
  <2>2. x \notin Behind(s, y)
    BY <1>1, <1>2, <1>3, <1>4 DEF Keys
  <2>3. QED  BY <2>1, <2>2
<1>5. CASE x \in Keys(s)
  <2> DEFINE i == CHOOSE k \in DOMAIN s : s[k] = x
             t == [j \in 1..(Len(s) - 1) |-> IF j < i THEN s[j] ELSE s[j + 1]]
  <2>1. i \in 1..Len(s) /\ s[i] = x
    BY <1>5 DEF Keys
  <2>2. Without(s, x) = t
    BY <1>5 DEF Without
  <2> HIDE DEF i
  <2>3. \A j \in 1..(Len(s) - 1) : t[j] \in S
    BY <2>1, <1>1
  <2>4. t \in Seq(S) /\ Len(t) = Len(s) - 1
    BY <2>1, <2>3, <1>1
  <2>5. /\ \A j \in 1..(Len(s) - 1) : j < i => t[j] = s[j]
        /\ \A j \in 1..(Len(s) - 1) : j >= i => t[j] = s[j + 1]
    BY <2>1, <1>1
  <2> HIDE DEF t
  <2>6. Distinct(t)
    BY <2>2, WithoutProperties
  <2>7. b # i
    BY <2>1, <1>2
  <2> DEFINE c == IF b < i THEN b ELSE b - 1
  <2>8. c \in 1..Len(t) /\ t[c] = y
    <3>1. CASE b < i
      <4>1. b \in 1..(Len(s) - 1)
        BY <3>1, <2>1, <1>1, <1>2
      <4>2. QED  BY <3>1, <4>1, <2>4, <2>5, <1>2
    <3>2. CASE b > i
      <4>1. /\ b - 1 \in 1..(Len(s) - 1) /\ b - 1 >= i
            /\ c = b - 1 /\ b - 1 + 1 = b
        BY <3>2, <2>1, <1>1, <1>2
      <4>2. QED  BY <4>1, <2>4, <2>5, <1>2
    <3>3. QED  BY <3>1, <3>2, <2>1, <2>7, <1>2
  <2>9. Behind(t, y) = {t[j] : j \in (c + 1)..Len(t)}
    BY <2>4, <2>6, <2>8, BehindProperties
  <2>10. ASSUME NEW j \in (c + 1)..Len(t) PROVE t[j] \in Behind(s, y) \ {x}
    <3>1. j \in 1..(Len(s) - 1) /\ c < j /\ c \in Nat
      BY <2>4, <2>8, <1>1
    <3>2. CASE j < i
      <4>1. j \in (b + 1)..Len(s) /\ j \in 1..Len(s) /\ j # i
        BY <3>1, <3>2, <2>1, <1>1, <1>2
      <4>2. s[j] # x
        BY <4>1, <2>1, <1>1 DEF Distinct
      <4>3. QED  BY <4>1, <4>2, <3>1, <3>2, <2>5, <1>3
    <3>3. CASE j >= i
      <4>1. j + 1 \in (b + 1)..Len(s) /\ j + 1 \in 1..Len(s) /\ j + 1 # i
        BY <3>1, <3>3, <2>1, <1>1, <1>2
      <4>2. s[j + 1] # x
        BY <4>1, <2>1, <1>1 DEF Distinct
      <4>3. QED  BY <4>1, <4>2, <3>1, <3>3, <2>5, <1>3
    <3>4. QED  BY <3>1, <3>2, <3>3, <2>1
  <2>11. ASSUME NEW k \in (b + 1)..Len(s), s[k] # x
         PROVE  s[k] \in Behind(t, y)
    <3>1. k \in 1..Len(s) /\ b < k /\ k # i
      BY <2>1, <2>11, <1>1, <1>2
    <3>2. CASE k < i
      <4>1. k \in (c + 1)..Len(t) /\ k \in 1..(Len(s) - 1)
        BY <3>1, <3>2, <2>1, <2>4, <1>1, <1>2
      <4>2. t[k] = s[k]
        BY <4>1, <3>2, <2>5
      <4>3. QED  BY <4>1, <4>2, <2>9
    <3>3. CASE k > i
      <4>1. k - 1 \in (c + 1)..Len(t) /\ k - 1 \in 1..(Len(s) - 1)
            /\ k - 1 >= i /\ k - 1 + 1 = k
        BY <3>1, <3>3, <2>1, <2>4, <2>7, <1>1, <1>2
      <4>2. t[k - 1] = s[k]
        BY <4>1, <2>5
      <4>3. QED  BY <4>1, <4>2, <2>9
    <3>4. QED  BY <3>1, <3>2, <3>3, <2>1
  <2> HIDE DEF c
  <2>12. Behind(t, y) \subseteq Behind(s, y) \ {x}
    BY <2>9, <2>10
  <2>13. Behind(s, y) \ {x} \subseteq Behind(t, y)
    BY <1>3, <2>11
  <2>14. QED  BY <2>2, <2>12, <2>13
<1>6. QED  BY <1>4, <1>5

(* A key put at the end stands behind every other, and nothing behind it.    *)
LEMMA AppendBehind ==
    ASSUME NEW S, NEW s \in Seq(S), NEW x \in S, Distinct(s), x \notin Keys(s)
    PROVE  /\ Append(s, x) \in Seq(S)
           /\ Distinct(Append(s, x))
           /\ Keys(Append(s, x)) = Keys(s) \cup {x}
           /\ Behind(Append(s, x), x) = {}
           /\ \A y \in Keys(s) : Behind(Append(s, x), y) = Behind(s, y) \cup {x}
<1> DEFINE u == Append(s, x)
<1>1. /\ Len(s) \in Nat /\ DOMAIN s = 1..Len(s)
      /\ u \in Seq(S) /\ Len(u) = Len(s) + 1 /\ DOMAIN u = 1..(Len(s) + 1)
      /\ u[Len(s) + 1] = x /\ \A j \in 1..Len(s) : u[j] = s[j]
  OBVIOUS
<1>2. Touch(s, x) = u
  BY DEF Touch, Without
<1> HIDE DEF u
<1>3. Distinct(u) /\ Keys(u) = Keys(s) \cup {x}
  <2>1. Distinct(Touch(s, x)) /\ Keys(Touch(s, x)) = Keys(s) \cup {x}
    BY TouchProperties
  <2>2. QED  BY <2>1, <1>2
<1>4. Behind(u, x) = {}
  <2>1. Len(s) + 1 \in 1..Len(u)
    BY <1>1
  <2>2. Behind(u, x) = {u[j] : j \in (Len(s) + 1 + 1)..Len(u)}
    BY <2>1, <1>1, <1>3, BehindProperties
  <2>3. QED  BY <2>2, <1>1
<1>5. ASSUME NEW y \in Keys(s)
      PROVE  Behind(u, y) = Behind(s, y) \cup {x}
  <2>1. PICK b \in 1..Len(s) : s[b] = y
    BY <1>1 DEF Keys
  <2>2. Behind(s, y) = {s[j] : j \in (b + 1)..Len(s)}
    BY <2>1, BehindProperties
  <2>3. b \in 1..Len(u) /\ u[b] = y
    BY <2>1, <1>1
  <2>4. Behind(u, y) = {u[j] : j \in (b + 1)..Len(u)}
    BY <2>3, <1>1, <1>3, BehindProperties
  <2>5. (b + 1)..Len(u) = (b + 1)..Len(s) \cup {Len(s) + 1}
    BY <2>1, <1>1
  <2>6. \A j \in (b + 1)..Len(s) : u[j] = s[j]
    BY <2>1, <1>1
  <2>7. QED  BY <2>2, <2>4, <2>5, <2>6, <1>1
<1>6. QED  BY <1>1, <1>3, <1>4, <1>5 DEF u

(* A key that is moved to the end stands behind every other from then on.     *)
LEMMA TouchBehind ==
    ASSUME NEW S, NEW s \in Seq(S), NEW x \in S, Distinct(s)
    PROVE  /\ Behind(Touch(s, x), x) = {}
           /\ \A y \in Keys(s) \ {x} :
                 Behind(Touch(s, x), y) = (Behind(s, y) \ {x}) \cup {x}
<1> DEFINE t == Without(s, x)
<1>1. t \in Seq(S) /\ Distinct(t) /\ Keys(t) = Keys(s) \ {x}
  BY WithoutProperties
<1>2. \A y \in Keys(s) \ {x} : Behind(t, y) = Behind(s, y) \ {x}
  BY WithoutBehind
<1>3. Touch(s, x) = Append(t, x)
  BY DEF Touch
<1> HIDE DEF t
<1>4. x \notin Keys(t)
  BY <1>1
<1>5. /\ Behind(Append(t, x), x) = {}
      /\ \A y \in Keys(t) : Behind(Append(t, x), y) = Behind(t, y) \cup {x}
  BY <1>1, <1>4, AppendBehind
<1>6. QED  BY <1>1, <1>2, <1>3, <1>5

(* A key is pushed out when as many stand behind it as may stay; of one that  *)
(* stays, none that stood behind it goes.                                    *)
LEMMA NewestBehind ==
    ASSUME NEW S, NEW s \in Seq(S), NEW cap \in Nat \ {0}, Distinct(s),
           NEW x \in Keys(s)
    PROVE  /\ x \in Keys(Newest(s, cap)) <=> Cardinality(Behind(s, x)) < cap
           /\ x \in Keys(Newest(s, cap)) => Behind(Newest(s, cap), x) = Behind(s, x)
<1>1. Len(s) \in Nat /\ DOMAIN s = 1..Len(s)
  OBVIOUS
<1>2. PICK b \in 1..Len(s) : s[b] = x
  BY <1>1 DEF Keys
<1>3. /\ Behind(s, x) = {s[j] : j \in (b + 1)..Len(s)}
      /\ Cardinality(Behind(s, x)) = Len(s) - b
  BY <1>2, BehindProperties
<1>4. CASE Len(s) <= cap
  BY <1>1, <1>2, <1>3, <1>4 DEF Newest
<1>5. CASE Len(s) > cap
  <2> DEFINE d == Len(s) - cap
             t == SubSeq(s, d + 1, Len(s))
  <2>1. Newest(s, cap) = t
    BY <1>1, <1>5 DEF Newest
  <2>2. d \in Nat /\ d + cap = Len(s)
    BY <1>1, <1>5
  <2>3. /\ t \in Seq(S) /\ Len(t) = cap /\ DOMAIN t = 1..cap
        /\ \A j \in 1..cap : t[j] = s[d + j]
    BY <1>1, <1>5, <2>2
  <2>4. Distinct(t)
    BY <2>1, NewestProperties
  <2> HIDE DEF d, t
  <2>5. \A j \in 1..cap : d + j \in 1..Len(s)
    BY <1>1, <2>2
  <2>6. x \in Keys(t) => b > d
    <3>1. SUFFICES ASSUME NEW j \in 1..cap, t[j] = x PROVE b > d
      BY <2>3 DEF Keys
    <3>2. d + j = b
      BY <3>1, <2>3, <2>5, <1>1, <1>2 DEF Distinct
    <3>3. QED  BY <3>2, <2>2
  <2>7. ASSUME b > d
        PROVE  x \in Keys(t) /\ Behind(t, x) = Behind(s, x)
    <3>1. b - d \in 1..cap /\ d + (b - d) = b
      BY <2>2, <2>7, <1>1, <1>2
    <3>2. t[b - d] = x
      BY <3>1, <2>3, <1>2
    <3>3. Behind(t, x) = {t[j] : j \in (b - d + 1)..cap}
      BY <3>1, <3>2, <2>3, <2>4, BehindProperties
    <3>4. ASSUME NEW j \in (b - d + 1)..cap
          PROVE  d + j \in (b + 1)..Len(s) /\ t[j] = s[d + j]
      BY <3>1, <2>2, <2>3, <1>2
    <3>5. ASSUME NEW k \in (b + 1)..Len(s)
          PROVE  k - d \in (b - d + 1)..cap /\ t[k - d] = s[k]
      <4>1. k - d \in (b - d + 1)..cap /\ k - d \in 1..cap /\ d + (k - d) = k
        BY <3>1, <2>2, <1>1, <1>2
      <4>2. QED  BY <4>1, <2>3
    <3>6. Behind(t, x) \subseteq Behind(s, x)
      BY <3>3, <3>4, <1>3
    <3>7. Behind(s, x) \subseteq Behind(t, x)
      BY <3>3, <3>5, <1>3
    <3>8. QED  BY <3>1, <3>2, <3>6, <3>7, <2>3 DEF Keys
  <2>8. b > d <=> Len(s) - b < cap
    BY <2>2, <1>1, <1>2
  <2>9. QED  BY <2>1, <2>6, <2>7, <2>8, <1>3
<1>6. QED  BY <1>1, <1>4, <1>5
===============================================================================
