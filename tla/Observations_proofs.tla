-------------------------- MODULE Observations_proofs --------------------------
(***************************************************************************)
(* What a client is owed of what it was shown before: for any number of     *)
(* clients, windows, tokens and snapshots.  A snapshot that is used stays;  *)
(* a token's baseline stays as long as promised; a diff starts from the     *)
(* capture it names; a window is not shown going back.                      *)
(***************************************************************************)
EXTENDS Observations, Snapshots, DataLemmas, TLAPS

-------------------------------------------------------------------------------
(* Snapshots. *)

(* A snapshot that is stored has at most those behind it that were used since; *)
(* one that was pushed out has SnapshotMax of them.                          *)
Remembered(id) ==
    IF id \in Keys(items) THEN Behind(items, id) \subseteq newer[id]
    ELSE Cardinality(newer[id]) >= SnapshotMax

SnapTypes ==
    /\ items \in Seq(SnapshotIds)
    /\ issued \subseteq SnapshotIds
    /\ second \in issued \cup {NoId}
    /\ newer \in [SnapshotIds -> SUBSET SnapshotIds]

SnapInv ==
    /\ SnapTypes
    /\ Distinct(items)
    /\ Keys(items) \subseteq issued
    /\ Len(items) <= SnapshotMax
    /\ \A id \in issued \ (expired \cup dropped) : Remembered(id)

(* Having been followed by more, a snapshot has been followed by as many.     *)
LEMMA MoreIdsAreAsMany ==
    ASSUME NEW A \in SUBSET SnapshotIds, NEW B \in SUBSET SnapshotIds,
           A \subseteq B, Cardinality(A) >= SnapshotMax
    PROVE  Cardinality(B) >= SnapshotMax
  <1>1. IsFiniteSet(B)
    BY SnapshotAssumption, FS_Subset
  <1>2. Cardinality(A) <= Cardinality(B) /\ IsFiniteSet(A)
    BY <1>1, FS_Subset
  <1>3. Cardinality(A) \in Nat /\ Cardinality(B) \in Nat
    BY <1>1, <1>2, FS_CardinalityType
  <1>4. QED  BY <1>2, <1>3, SnapshotAssumption

LEMMA UsedProperties ==
    ASSUME SnapTypes, NEW id \in SnapshotIds
    PROVE  /\ Used(id) \in [SnapshotIds -> SUBSET SnapshotIds]
           /\ \A i \in issued \ {id} : Used(id)[i] = newer[i] \cup {id}
  BY DEF Used, SnapTypes

LEMMA PutKeepsSnapInv ==
    ASSUME SnapInv, NEW id \in SnapshotIds, PutSnapshot(id)
    PROVE  SnapInv'
  <1> DEFINE o == Only(items, SnapshotIds \ expired)
             a == Append(o, id)
  <1>1. /\ id \notin issued /\ items' = Newest(a, SnapshotMax)
        /\ issued' = issued \cup {id} /\ newer' = Used(id)
        /\ expired' = expired /\ dropped' = dropped /\ second' = second
    BY DEF PutSnapshot, Stored
  <1>2. /\ o \in Seq(SnapshotIds) /\ Distinct(o)
        /\ Keys(o) = Keys(items) \cap (SnapshotIds \ expired)
        /\ \A x \in Keys(items) \cap (SnapshotIds \ expired) :
              Behind(o, x) = Behind(items, x) \cap (SnapshotIds \ expired)
    BY OnlyProperties DEF SnapInv, SnapTypes
  <1> HIDE DEF o
  <1>3. id \notin Keys(o)
    BY <1>1, <1>2 DEF SnapInv
  <1>4. /\ a \in Seq(SnapshotIds) /\ Distinct(a) /\ Keys(a) = Keys(o) \cup {id}
        /\ Behind(a, id) = {}
        /\ \A y \in Keys(o) : Behind(a, y) = Behind(o, y) \cup {id}
    BY <1>2, <1>3, AppendBehind
  <1> HIDE DEF a
  <1>5. /\ items' \in Seq(SnapshotIds) /\ Distinct(items') /\ Keys(items') \subseteq Keys(a)
        /\ Len(items') <= SnapshotMax
    BY <1>1, <1>4, NewestProperties, SnapshotAssumption
  <1>6. \A x \in Keys(a) :
           /\ x \in Keys(items') <=> Cardinality(Behind(a, x)) < SnapshotMax
           /\ x \in Keys(items') => Behind(items', x) = Behind(a, x)
    BY <1>1, <1>4, NewestBehind, SnapshotAssumption
  <1>7. /\ newer' \in [SnapshotIds -> SUBSET SnapshotIds]
        /\ \A i \in issued : newer'[i] = newer[i] \cup {id}
    BY <1>1, UsedProperties DEF SnapInv
  <1>8. SnapTypes'
    BY <1>1, <1>5, <1>7 DEF SnapTypes, SnapInv
  <1>9. Keys(items') \subseteq issued'
    BY <1>1, <1>2, <1>4, <1>5 DEF SnapInv
  <1>10. ASSUME NEW x \in issued' \ (expired' \cup dropped') PROVE Remembered(x)'
    <2>1. CASE x = id
      <3>1. id \in Keys(items')
        <4>1. id \in Keys(a) /\ Cardinality(Behind(a, id)) = 0
          BY <1>4, FS_EmptySet
        <4>2. 0 < SnapshotMax
          BY SnapshotAssumption
        <4>3. QED  BY <1>6, <4>1, <4>2
      <3>2. Behind(items', id) = {}
        BY <3>1, <1>4, <1>6
      <3>3. QED  BY <2>1, <3>1, <3>2 DEF Remembered
    <2>2. CASE x # id
      <3>1. x \in issued /\ x \notin expired /\ x \notin dropped /\ x \in SnapshotIds
        BY <2>2, <1>1, <1>10 DEF SnapInv, SnapTypes
      <3>2. Remembered(x) /\ newer'[x] = newer[x] \cup {id} /\ newer[x] \subseteq SnapshotIds
        BY <3>1, <1>7 DEF SnapInv, SnapTypes
      <3>3. CASE x \in Keys(items)
        <4>1. x \in Keys(o) /\ Behind(o, x) \subseteq Behind(items, x)
          BY <3>1, <3>3, <1>2
        <4>2. x \in Keys(a) /\ Behind(a, x) \subseteq newer'[x]
          BY <4>1, <3>2, <3>3, <1>4 DEF Remembered
        <4>3. CASE x \in Keys(items')
          BY <4>2, <4>3, <1>6 DEF Remembered
        <4>4. CASE x \notin Keys(items')
          <5>1. ~ (Cardinality(Behind(a, x)) < SnapshotMax)
            BY <4>2, <4>4, <1>6
          <5>2. newer'[x] \in SUBSET SnapshotIds
            BY <3>1, <1>7
          <5>3. Behind(a, x) \in SUBSET SnapshotIds
            BY <4>2, <5>2
          <5>4. Cardinality(Behind(a, x)) \in Nat
            BY <5>3, SnapshotAssumption, FS_Subset, FS_CardinalityType
          <5>5. Cardinality(newer'[x]) >= SnapshotMax
            BY <5>1, <5>2, <5>3, <5>4, <4>2, SnapshotAssumption, MoreIdsAreAsMany
          <5>6. QED  BY <4>4, <5>5 DEF Remembered
        <4>5. QED  BY <4>3, <4>4
      <3>4. CASE x \notin Keys(items)
        <4>1. x \notin Keys(items')
          BY <3>4, <2>2, <1>2, <1>4, <1>5
        <4>2. Cardinality(newer[x]) >= SnapshotMax
          BY <3>2, <3>4 DEF Remembered
        <4>3. newer[x] \cup {id} \in SUBSET SnapshotIds
          BY <3>2
        <4>4. Cardinality(newer'[x]) >= SnapshotMax
          BY <4>2, <4>3, <3>2, MoreIdsAreAsMany
        <4>5. QED  BY <4>1, <4>4 DEF Remembered
      <3>5. QED  BY <3>3, <3>4
    <2>3. QED  BY <2>1, <2>2
  <1>11. QED  BY <1>5, <1>8, <1>9, <1>10 DEF SnapInv

(* Dropping one where it stands: get() of one that has expired, and drop().   *)
LEMMA WithoutKeepsSnapInv ==
    ASSUME SnapInv, NEW id \in SnapshotIds, items' = Without(items, id),
           UNCHANGED <<issued, newer>>, second' \in issued \cup {NoId},
           expired \subseteq expired', dropped \subseteq dropped',
           id \in expired' \cup dropped' \/ id \notin Keys(items)
    PROVE  SnapInv'
  <1>1. /\ items' \in Seq(SnapshotIds) /\ Distinct(items')
        /\ Keys(items') = Keys(items) \ {id}
        /\ Len(items') = IF id \in Keys(items) THEN Len(items) - 1 ELSE Len(items)
    BY WithoutProperties DEF SnapInv, SnapTypes
  <1>2. \A y \in Keys(items) \ {id} : Behind(items', y) = Behind(items, y) \ {id}
    BY WithoutBehind DEF SnapInv, SnapTypes
  <1>3. Len(items') <= SnapshotMax
    BY <1>1, SnapshotAssumption DEF SnapInv, SnapTypes
  <1>4. ASSUME NEW x \in issued' \ (expired' \cup dropped') PROVE Remembered(x)'
    <2>1. Remembered(x) /\ newer'[x] = newer[x]
      BY <1>4 DEF SnapInv
    <2>2. x \in Keys(items') <=> x \in Keys(items)
      BY <1>1, <1>4
    <2>3. x \in Keys(items) => x # id
      BY <1>4
    <2>4. QED  BY <2>1, <2>2, <2>3, <1>1, <1>2 DEF Remembered
  <1>5. QED  BY <1>1, <1>3, <1>4 DEF SnapInv, SnapTypes

LEMMA GetKeepsSnapInv ==
    ASSUME SnapInv, NEW id \in issued, Get(id), second' \in issued \cup {NoId},
           UNCHANGED <<expired, issued, dropped>>
    PROVE  SnapInv'
  <1>0. id \in SnapshotIds
    BY DEF SnapInv, SnapTypes
  <1>1. CASE ~ Alive(id)
    <2>1. items' = Without(items, id) /\ newer' = newer
      BY <1>1 DEF Get
    <2>2. id \in expired' \cup dropped' \/ id \notin Keys(items)
      BY <1>1 DEF Alive
    <2>3. QED  BY <1>0, <2>1, <2>2, WithoutKeepsSnapInv
  <1>2. CASE Alive(id)
    <2>1. items' = Touch(items, id) /\ newer' = Used(id) /\ id \in Keys(items)
      BY <1>2 DEF Get, Alive
    <2>2. /\ items' \in Seq(SnapshotIds) /\ Distinct(items')
          /\ Keys(items') = Keys(items) \cup {id} /\ Len(items') = Len(items)
      BY <1>0, <2>1, TouchProperties DEF SnapInv, SnapTypes
    <2>3. /\ Behind(items', id) = {}
          /\ \A y \in Keys(items) \ {id} :
                Behind(items', y) = (Behind(items, y) \ {id}) \cup {id}
      BY <1>0, <2>1, TouchBehind DEF SnapInv, SnapTypes
    <2>4. /\ newer' \in [SnapshotIds -> SUBSET SnapshotIds]
          /\ \A i \in issued \ {id} : newer'[i] = newer[i] \cup {id}
      BY <1>0, <2>1, UsedProperties DEF SnapInv
    <2>5. ASSUME NEW x \in issued' \ (expired' \cup dropped') PROVE Remembered(x)'
      <3>1. CASE x = id
        BY <3>1, <2>1, <2>2, <2>3 DEF Remembered
      <3>2. CASE x # id
        <4>1. Remembered(x) /\ newer'[x] = newer[x] \cup {id}
          BY <3>2, <2>4, <2>5 DEF SnapInv
        <4>2. CASE x \in Keys(items)
          BY <3>2, <4>1, <4>2, <2>2, <2>3 DEF Remembered
        <4>3. CASE x \notin Keys(items)
          <5>1. newer[x] \in SUBSET SnapshotIds
            BY <2>5 DEF SnapInv, SnapTypes
          <5>2. Cardinality(newer[x] \cup {id}) >= SnapshotMax
            BY <5>1, <4>1, <4>3, <1>0, MoreIdsAreAsMany DEF Remembered
          <5>3. QED  BY <5>2, <3>2, <4>1, <4>3, <2>2 DEF Remembered
        <4>4. QED  BY <4>2, <4>3
      <3>3. QED  BY <3>1, <3>2
    <2>6. QED  BY <2>1, <2>2, <2>4, <2>5 DEF SnapInv, SnapTypes
  <1>3. QED  BY <1>1, <1>2

LEMMA SnapNextSnapInv == SnapInv /\ [SnapNext]_snapVars => SnapInv'
  <1> SUFFICES ASSUME SnapInv, [SnapNext]_snapVars PROVE SnapInv'
    OBVIOUS
  <1>1. ASSUME NEW id \in SnapshotIds, PutSnapshot(id) PROVE SnapInv'
    BY <1>1, PutKeepsSnapInv
  <1>2. ASSUME NEW id \in SnapshotIds, Expire(id) PROVE SnapInv'
    BY <1>2 DEF Expire, SnapInv, SnapTypes, Remembered
  <1>3. ASSUME NEW id \in issued, NEW other \in issued \cup {NoId},
               GetSnapshot(id, other)
        PROVE  SnapInv'
    BY <1>3, GetKeepsSnapInv DEF GetSnapshot
  <1>4. ASSUME NEW id \in issued, DropSnapshot(id) PROVE SnapInv'
    <2>1. /\ items' = Without(items, id) /\ dropped' = dropped \cup {id}
          /\ UNCHANGED <<expired, issued, newer, second>>
      BY <1>4 DEF DropSnapshot
    <2>2. id \in SnapshotIds /\ second \in issued \cup {NoId}
      BY DEF SnapInv, SnapTypes
    <2>3. QED  BY <2>1, <2>2, WithoutKeepsSnapInv
  <1>5. ASSUME DiffSecond PROVE SnapInv'
    <2>1. second \in issued
      BY <1>5 DEF DiffSecond, SnapInv, SnapTypes
    <2>2. QED  BY <2>1, <1>5, GetKeepsSnapInv DEF DiffSecond
  <1>6. CASE UNCHANGED snapVars
    BY <1>6 DEF snapVars, SnapInv, SnapTypes, Remembered
  <1>7. QED  BY <1>1, <1>2, <1>3, <1>4, <1>5, <1>6 DEF SnapNext

LEMMA SnapInitSnapInv == SnapInit => SnapInv
  <1> SUFFICES ASSUME SnapInit PROVE SnapInv
    OBVIOUS
  <1>1. /\ items = <<>> /\ issued = {} /\ second = NoId
        /\ newer \in [SnapshotIds -> SUBSET SnapshotIds]
    BY DEF SnapInit
  <1>2. /\ items \in Seq(SnapshotIds) /\ Distinct(items) /\ Keys(items) = {}
        /\ Len(items) = 0
    BY <1>1 DEF Distinct, Keys
  <1>3. QED  BY <1>1, <1>2, SnapshotAssumption DEF SnapInv, SnapTypes

(* However snapshots are taken, used, compared and dropped, one whose time is *)
(* not over goes only by being dropped, or after SnapshotMax others were used *)
(* since its own last use (_SnapshotStore).                                  *)
THEOREM SnapshotsStay == SnapSpec => []SnapshotsKept
  <1>1. SnapInv => SnapshotsKept
    <2> SUFFICES ASSUME SnapInv, NEW id \in issued \ (expired \cup dropped),
                        Cardinality(newer[id]) < SnapshotMax
                 PROVE  Alive(id)
      BY DEF SnapshotsKept
    <2>1. Remembered(id) /\ newer[id] \in SUBSET SnapshotIds
      BY DEF SnapInv, SnapTypes
    <2>2. Cardinality(newer[id]) \in Nat
      BY <2>1, SnapshotAssumption, FS_Subset, FS_CardinalityType
    <2>3. QED  BY <2>1, <2>2, SnapshotAssumption DEF Remembered, Alive
  <1>2. QED  BY <1>1, SnapInitSnapInv, SnapNextSnapInv, PTL DEF SnapSpec

(* The store never holds more than SnapshotMax snapshots, once each.          *)
THEOREM SnapshotStoreBounded ==
    SnapSpec => [](Len(items) <= SnapshotMax /\ Distinct(items))
  <1>1. SnapInv => Len(items) <= SnapshotMax /\ Distinct(items)
    BY DEF SnapInv
  <1>2. QED  BY <1>1, SnapInitSnapInv, SnapNextSnapInv, PTL DEF SnapSpec

-------------------------------------------------------------------------------
(* Tree tokens, whatever a capture shows: of what Observations adds, the next   *)
(* lemmas use nothing.                                                        *)

(* A token in the store has behind it in its ring just the tokens issued for  *)
(* its window later; one that was pushed out saw as many as the ring holds.   *)
Baseline(t) ==
    IF t \in Live THEN Behind(ring[issuedFor[t].win], t) = later[t]
    ELSE Cardinality(later[t]) >= Ring

TokTypes ==
    /\ byToken \in [Tokens -> Entry \cup {NoToken}]
    /\ issuedFor \in [Tokens -> Entry \cup {NoToken}]
    /\ ring \in [Windows -> Seq(Tokens)]
    /\ tokenAge \in [Tokens -> Nat]
    /\ later \in [Tokens -> SUBSET Tokens]

(* The two structures of the store agree. *)
RingInv ==
    /\ \A t \in Tokens : byToken[t] \in {NoToken, issuedFor[t]}
    /\ \A w \in Windows :
          /\ Distinct(ring[w]) /\ Len(ring[w]) <= Ring
          /\ Keys(ring[w]) = {t \in Live : issuedFor[t].win = w}

(* Tokens of one window age in the order they were issued. *)
LaterInv ==
    /\ \A t \in Tokens \ Issued : tokenAge[t] = 0
    /\ \A t \in Tokens : \A u \in later[t] :
          /\ t \in Issued /\ u \in Issued
          /\ issuedFor[u].win = issuedFor[t].win
          /\ tokenAge[u] <= tokenAge[t]

TokInv ==
    /\ TokTypes /\ RingInv /\ LaterInv
    /\ \A t \in Issued : tokenAge[t] <= TokenTTL => Baseline(t)

LEMMA MoreTokensAreAsMany ==
    ASSUME NEW A \in SUBSET Tokens, NEW B \in SUBSET Tokens,
           A \subseteq B, Cardinality(A) >= Ring
    PROVE  Cardinality(B) >= Ring
  <1>0. IsFiniteSet(Tokens) /\ Ring \in Nat
    BY TokenAssumption
  <1>1. IsFiniteSet(B)
    BY <1>0, FS_Subset
  <1>2. Cardinality(A) <= Cardinality(B) /\ IsFiniteSet(A)
    BY <1>1, FS_Subset
  <1>3. Cardinality(A) \in Nat /\ Cardinality(B) \in Nat
    BY <1>1, <1>2, FS_CardinalityType
  <1>4. QED  BY <1>0, <1>2, <1>3

(* What the store holds of a token is what it was issued for.                *)
LEMMA LiveTokens ==
    ASSUME TokTypes, RingInv, NEW t \in Live
    PROVE  /\ t \in Tokens /\ byToken[t] = issuedFor[t] /\ t \in Issued
           /\ issuedFor[t].win \in Windows /\ t \in Keys(ring[issuedFor[t].win])
  <1>1. t \in Tokens /\ byToken[t] # NoToken /\ byToken[t] = issuedFor[t]
    BY DEF RingInv, Live
  <1>2. issuedFor[t] \in Entry
    BY <1>1 DEF TokTypes
  <1>3. issuedFor[t].win \in Windows
    BY <1>2 DEF Entry
  <1>4. QED  BY <1>1, <1>3 DEF RingInv, Issued

(* A token that may still be used has only such tokens behind it.             *)
LEMMA LaterStillUsable ==
    ASSUME TokInv, NEW t \in Live, tokenAge[t] <= TokenTTL
    PROVE  \A u \in later[t] : u \in Live /\ Usable(u)
  <1> SUFFICES ASSUME NEW u \in later[t] PROVE u \in Live /\ Usable(u)
    OBVIOUS
  <1>1. t \in Tokens /\ t \in Issued /\ issuedFor[t].win \in Windows
        /\ t \in Keys(ring[issuedFor[t].win])
    BY LiveTokens DEF TokInv
  <1> DEFINE s == ring[issuedFor[t].win]
  <1>2. s \in Seq(Tokens) /\ Distinct(s) /\ t \in Keys(s)
    BY <1>1 DEF TokInv, TokTypes, RingInv
  <1>3. later[t] = Behind(s, t)
    BY <1>1 DEF TokInv, Baseline
  <1>4. PICK i \in 1..Len(s) : s[i] = t
    BY <1>2 DEF Keys
  <1>5. Behind(s, t) \subseteq Keys(s)
    BY <1>2, <1>4, BehindProperties
  <1>6. u \in Live
    BY <1>1, <1>3, <1>5 DEF TokInv, RingInv
  <1>7. tokenAge[u] <= tokenAge[t] /\ u \in Tokens
    BY <1>1 DEF TokInv, LaterInv, TokTypes
  <1>8. tokenAge[u] <= TokenTTL
    BY <1>1, <1>7, TokenAssumption DEF TokInv, TokTypes
  <1>9. QED  BY <1>6, <1>8 DEF Usable

(* put(). *)
LEMMA PutKeepsTokInv ==
    ASSUME TokInv, NEW w \in Windows, NEW tree \in Captures, NEW t \in Tokens,
           PutToken(w, tree, t)
    PROVE  TokInv'
  <1> DEFINE U == {u \in Live : Usable(u)}
             swept == [v \in Windows |-> Only(ring[v], U)]
             a == Append(swept[w], t)
             e == [win |-> w, tree |-> tree]
  <1>1. /\ t \notin Issued
        /\ ring' = [swept EXCEPT ![w] = Newest(a, Ring)]
        /\ byToken' = [u \in Tokens |->
                          IF u = t THEN e
                          ELSE IF Usable(u) /\ u \in Keys(ring'[byToken[u].win])
                          THEN byToken[u] ELSE NoToken]
        /\ issuedFor' = [issuedFor EXCEPT ![t] = e]
        /\ later' = [u \in Tokens |->
                        IF u \in Issued /\ issuedFor[u].win = w
                        THEN later[u] \cup {t} ELSE later[u]]
        /\ tokenAge' = tokenAge
    BY DEF PutToken, Trimmed
  <1>2. /\ e \in Entry /\ e.win = w /\ e # NoToken
        /\ Ring \in Nat \ {0} /\ TokenTTL \in Nat
    BY TokenAssumption DEF Entry
  <1> HIDE DEF e
  <1>3. \A v \in Windows : /\ ring[v] \in Seq(Tokens) /\ Distinct(ring[v])
                           /\ Len(ring[v]) \in Nat /\ Len(ring[v]) <= Ring
    BY DEF TokInv, TokTypes, RingInv
  <1>4. \A v \in Windows :
           /\ swept[v] \in Seq(Tokens) /\ Distinct(swept[v])
           /\ Keys(swept[v]) = Keys(ring[v]) \cap U
           /\ Len(swept[v]) <= Len(ring[v])
           /\ \A x \in Keys(ring[v]) \cap U :
                 Behind(swept[v], x) = Behind(ring[v], x) \cap U
    BY <1>3, OnlyProperties
  <1>5. swept = [v \in Windows |-> swept[v]]
    OBVIOUS
  <1> HIDE DEF swept
  <1>6. t \notin Live
    BY <1>1, LiveTokens DEF TokInv
  <1>7. t \notin Keys(swept[w])
    BY <1>4, <1>6 DEF U
  <1>8. /\ a \in Seq(Tokens) /\ Distinct(a) /\ Keys(a) = Keys(swept[w]) \cup {t}
        /\ Behind(a, t) = {}
        /\ \A y \in Keys(swept[w]) : Behind(a, y) = Behind(swept[w], y) \cup {t}
    BY <1>4, <1>7, AppendBehind
  <1> HIDE DEF a
  <1>9. /\ ring'[w] = Newest(a, Ring)
        /\ \A v \in Windows \ {w} : ring'[v] = swept[v]
    BY <1>1, <1>5
  <1>10. /\ ring'[w] \in Seq(Tokens) /\ Distinct(ring'[w]) /\ Len(ring'[w]) <= Ring
         /\ Keys(ring'[w]) \subseteq Keys(a)
    BY <1>2, <1>8, <1>9, NewestProperties
  <1>11. \A x \in Keys(a) :
            /\ x \in Keys(ring'[w]) <=> Cardinality(Behind(a, x)) < Ring
            /\ x \in Keys(ring'[w]) => Behind(ring'[w], x) = Behind(a, x)
    BY <1>2, <1>8, <1>9, NewestBehind
  <1>12. t \in Keys(ring'[w])
    <2>1. t \in Keys(a) /\ Cardinality(Behind(a, t)) = 0
      BY <1>8, FS_EmptySet
    <2>2. QED  BY <2>1, <1>2, <1>11
  <1>13. \A v \in Windows : /\ ring'[v] \in Seq(Tokens) /\ Distinct(ring'[v])
                            /\ Len(ring'[v]) <= Ring
    <2>1. \A v \in Windows \ {w} : Len(swept[v]) \in Nat
      BY <1>4
    <2>2. QED  BY <2>1, <1>2, <1>3, <1>4, <1>9, <1>10
  <1>14. TokTypes'
    <2>1. ring' \in [Windows -> Seq(Tokens)]
      BY <1>1, <1>5, <1>13
    <2>2. /\ byToken' \in [Tokens -> Entry \cup {NoToken}]
          /\ issuedFor' \in [Tokens -> Entry \cup {NoToken}]
      BY <1>1, <1>2 DEF TokInv, TokTypes
    <2>3. tokenAge' \in [Tokens -> Nat] /\ later' \in [Tokens -> SUBSET Tokens]
      BY <1>1 DEF TokInv, TokTypes
    <2>4. QED  BY <2>1, <2>2, <2>3 DEF TokTypes, Entry
  <1>15. /\ Issued' = Issued \cup {t}
         /\ issuedFor'[t] = e
         /\ \A u \in Tokens \ {t} : issuedFor'[u] = issuedFor[u]
    BY <1>1, <1>2 DEF Issued, TokInv, TokTypes
  <1>16. ASSUME NEW u \in Tokens, u # t
         PROVE  u \in Live' <=> u \in U /\ u \in Keys(ring'[issuedFor[u].win])
    <2>1. u \in Live' <=> byToken'[u] # NoToken
      BY DEF Live
    <2>2. CASE u \in U
      <3>1. byToken[u] = issuedFor[u] /\ byToken[u] # NoToken /\ Usable(u)
        BY <2>2, LiveTokens DEF TokInv, U, Live
      <3>2. QED  BY <2>1, <2>2, <3>1, <1>1, <1>16
    <2>3. CASE u \notin U
      <3>1. ~ Usable(u)
        BY <2>3 DEF U, Usable
      <3>2. QED  BY <2>1, <2>3, <3>1, <1>1, <1>16
    <2>4. QED  BY <2>2, <2>3
  <1>17. t \in Live'
    BY <1>1, <1>2 DEF Live
  <1>18. RingInv'
    <2>1. ASSUME NEW u \in Tokens PROVE byToken'[u] \in {NoToken, issuedFor'[u]}
      BY <1>1, <1>15 DEF TokInv, RingInv
    <2>2. ASSUME NEW v \in Windows
          PROVE  Keys(ring'[v]) = {u \in Live' : issuedFor'[u].win = v}
      <3>1. ASSUME NEW u \in Keys(ring'[v]), u # t
            PROVE  u \in Live' /\ issuedFor'[u].win = v
        <4>1. u \in Keys(swept[v])
          BY <3>1, <1>8, <1>9, <1>10
        <4>2. u \in Keys(ring[v]) /\ u \in U
          BY <4>1, <1>4
        <4>3. u \in Live /\ issuedFor[u].win = v /\ u \in Tokens
          BY <4>2 DEF TokInv, RingInv, Live
        <4>4. QED  BY <3>1, <4>2, <4>3, <1>15, <1>16
      <3>2. ASSUME NEW u \in Live', issuedFor'[u].win = v, u # t
            PROVE  u \in Keys(ring'[v])
        <4>1. u \in Tokens
          BY DEF Live
        <4>2. QED  BY <4>1, <3>2, <1>15, <1>16
      <3>3. t \in Keys(ring'[v]) <=> v = w
        <4>1. CASE v = w
          BY <4>1, <1>12
        <4>2. CASE v # w
          <5>1. ring'[v] = swept[v] /\ t \notin Keys(swept[v])
            BY <4>2, <1>4, <1>6, <1>9 DEF U
          <5>2. QED  BY <4>2, <5>1
        <4>3. QED  BY <4>1, <4>2
      <3>4. issuedFor'[t].win = w
        BY <1>2, <1>15
      <3>5. QED  BY <3>1, <3>2, <3>3, <3>4, <1>17
    <2>3. QED  BY <2>1, <2>2, <1>13 DEF RingInv
  <1>19. LaterInv'
    <2> SUFFICES ASSUME NEW x \in Tokens, NEW y \in later'[x]
                 PROVE  /\ x \in Issued' /\ y \in Issued'
                        /\ issuedFor'[y].win = issuedFor'[x].win
                        /\ tokenAge'[y] <= tokenAge'[x]
      BY <1>1, <1>15 DEF LaterInv, TokInv
    <2>1. CASE y \in later[x]
      <3>1. /\ x \in Issued /\ y \in Issued /\ y \in Tokens
            /\ issuedFor[y].win = issuedFor[x].win /\ tokenAge[y] <= tokenAge[x]
        BY <2>1 DEF TokInv, TokTypes, LaterInv
      <3>2. x # t /\ y # t
        BY <3>1, <1>1
      <3>3. QED  BY <3>1, <3>2, <1>1, <1>15
    <2>2. CASE y \notin later[x]
      <3>1. y = t /\ x \in Issued /\ issuedFor[x].win = w
        BY <2>2, <1>1
      <3>2. x # t
        BY <3>1, <1>1
      <3>3. tokenAge[t] = 0 /\ tokenAge[x] \in Nat
        BY <1>1 DEF TokInv, TokTypes, LaterInv
      <3>4. QED  BY <3>1, <3>2, <3>3, <1>1, <1>2, <1>15
    <2>3. QED  BY <2>1, <2>2
  <1>20. ASSUME NEW u \in Issued', tokenAge'[u] <= TokenTTL PROVE Baseline(u)'
    <2>1. CASE u = t
      <3>1. later'[t] = {}
        <4>1. later[t] = {}
          BY <1>1 DEF TokInv, LaterInv
        <4>2. QED  BY <4>1, <1>1
      <3>2. issuedFor'[t].win = w /\ Behind(ring'[w], t) = {}
        BY <1>2, <1>8, <1>11, <1>12, <1>15
      <3>3. QED  BY <2>1, <3>1, <3>2, <1>17 DEF Baseline
    <2>2. CASE u # t
      <3> DEFINE v == issuedFor[u].win
      <3>1. /\ u \in Issued /\ u \in Tokens /\ issuedFor'[u] = issuedFor[u]
            /\ tokenAge[u] <= TokenTTL
        BY <2>2, <1>1, <1>15, <1>20 DEF Issued
      <3>2. Baseline(u)
        BY <3>1 DEF TokInv
      <3>3. later'[u] = IF v = w THEN later[u] \cup {t} ELSE later[u]
        BY <3>1, <1>1
      <3>4. later[u] \in SUBSET Tokens /\ later'[u] \in SUBSET Tokens
        BY <3>1, <1>14 DEF TokInv, TokTypes
      <3>5. CASE u \in Live
        <4>1. u \in U /\ v \in Windows /\ u \in Keys(ring[v])
          BY <3>1, <3>5, LiveTokens DEF TokInv, U, Usable
        <4>2. later[u] \subseteq U
          BY <3>1, <3>5, LaterStillUsable DEF U
        <4>3. u \in Keys(swept[v]) /\ Behind(swept[v], u) = later[u]
          <5>1. Behind(ring[v], u) = later[u]
            BY <3>2, <3>5 DEF Baseline
          <5>2. u \in Keys(ring[v]) \cap U /\ later[u] \cap U = later[u]
            BY <4>1, <4>2
          <5>3. /\ Keys(swept[v]) = Keys(ring[v]) \cap U
                /\ Behind(swept[v], u) = Behind(ring[v], u) \cap U
            BY <4>1, <5>2, <1>4
          <5>4. QED  BY <5>1, <5>2, <5>3
        <4>4. u \in Live' <=> u \in Keys(ring'[v])
          BY <2>2, <3>1, <4>1, <1>16
        <4>5. CASE v # w
          <5>1. ring'[v] = swept[v] /\ later'[u] = later[u]
            BY <3>3, <4>1, <4>5, <1>9
          <5>2. QED  BY <3>1, <4>3, <4>4, <5>1 DEF Baseline
        <4>6. CASE v = w
          <5>1. u \in Keys(a) /\ Behind(a, u) = later'[u]
            BY <3>3, <4>3, <4>6, <1>8
          <5>2. CASE u \in Keys(ring'[w])
            BY <3>1, <4>4, <4>6, <5>1, <5>2, <1>11 DEF Baseline
          <5>3. CASE u \notin Keys(ring'[w])
            <6>1. IsFiniteSet(later'[u])
              BY <3>4, FS_Subset, TokenAssumption
            <6>2. Cardinality(later'[u]) \in Nat
              BY <6>1, FS_CardinalityType
            <6>3. Cardinality(later'[u]) >= Ring
              BY <5>1, <5>3, <6>2, <1>2, <1>11
            <6>4. QED  BY <4>4, <4>6, <5>3, <6>3 DEF Baseline
          <5>4. QED  BY <5>2, <5>3
        <4>7. QED  BY <4>5, <4>6
      <3>6. CASE u \notin Live
        <4>1. u \notin Live'
          BY <2>2, <3>1, <3>6, <1>16 DEF U
        <4>2. Cardinality(later[u]) >= Ring
          BY <3>2, <3>6 DEF Baseline
        <4>3. later[u] \subseteq later'[u]
          BY <3>3
        <4>4. Cardinality(later'[u]) >= Ring
          BY <3>4, <4>2, <4>3, MoreTokensAreAsMany
        <4>5. QED  BY <4>1, <4>4 DEF Baseline
      <3>7. QED  BY <3>5, <3>6
    <2>3. QED  BY <2>1, <2>2
  <1>21. QED  BY <1>14, <1>18, <1>19, <1>20 DEF TokInv

(* get(). *)
LEMMA GetKeepsTokInv ==
    ASSUME TokInv, NEW t, GetToken(t)
    PROVE  TokInv'
  <1>1. UNCHANGED <<tokenAge, issuedFor, later>> /\ Issued' = Issued
    BY DEF GetToken, Issued
  <1>2. CASE Usable(t) \/ t \notin Live
    <2>1. ring' = ring
      BY <1>2 DEF GetToken
    <2>2. byToken' = byToken
      <3>1. CASE Usable(t)
        BY <3>1 DEF GetToken
      <3>2. CASE ~ Usable(t) /\ t \notin Live
        <4>1. byToken' = [byToken EXCEPT ![t] = NoToken]
          BY <3>2 DEF GetToken
        <4>2. t \in Tokens => byToken[t] = NoToken
          BY <3>2 DEF Live
        <4>3. byToken \in [Tokens -> Entry \cup {NoToken}]
          BY DEF TokInv, TokTypes
        <4>4. QED  BY <4>1, <4>2, <4>3
      <3>3. QED  BY <1>2, <3>1, <3>2
    <2>3. QED
      BY <1>1, <2>1, <2>2 DEF TokInv, TokTypes, RingInv, LaterInv, Baseline,
                              Live, Entry
  <1>3. CASE t \in Live /\ ~ Usable(t)
    <2> DEFINE w == issuedFor[t].win
    <2>1. /\ t \in Tokens /\ byToken[t] = issuedFor[t] /\ t \in Issued
          /\ w \in Windows
      BY <1>3, LiveTokens DEF TokInv
    <2>2. /\ byToken' = [byToken EXCEPT ![t] = NoToken]
          /\ ring' = [ring EXCEPT ![w] = Without(ring[w], t)]
      BY <1>3, <2>1 DEF GetToken
    <2>3. \A v \in Windows : /\ ring[v] \in Seq(Tokens) /\ Distinct(ring[v])
                             /\ Len(ring[v]) <= Ring
      BY DEF TokInv, TokTypes, RingInv
    <2>4. /\ ring'[w] = Without(ring[w], t)
          /\ \A v \in Windows \ {w} : ring'[v] = ring[v]
      BY <2>1, <2>2 DEF TokInv, TokTypes
    <2>5. /\ ring'[w] \in Seq(Tokens) /\ Distinct(ring'[w])
          /\ Keys(ring'[w]) = Keys(ring[w]) \ {t}
          /\ Len(ring'[w]) <= Ring
      <3>1. /\ ring'[w] \in Seq(Tokens) /\ Distinct(ring'[w])
            /\ Keys(ring'[w]) = Keys(ring[w]) \ {t}
            /\ Len(ring'[w]) = IF t \in Keys(ring[w]) THEN Len(ring[w]) - 1
                                                     ELSE Len(ring[w])
        BY <2>1, <2>3, <2>4, WithoutProperties
      <3>2. Len(ring[w]) \in Nat /\ Ring \in Nat /\ Len(ring[w]) <= Ring
        BY <2>1, <2>3, TokenAssumption
      <3>3. QED  BY <3>1, <3>2
    <2>6. Live' = Live \ {t}
      BY <2>1, <2>2 DEF TokInv, TokTypes, Live
    <2>7. TokTypes'
      BY <1>1, <2>1, <2>2, <2>5 DEF TokInv, TokTypes, Entry
    <2>8. RingInv'
      <3>1. \A u \in Tokens : byToken'[u] \in {NoToken, issuedFor'[u]}
        BY <1>1, <2>2 DEF TokInv, TokTypes, RingInv
      <3>2. ASSUME NEW v \in Windows
            PROVE  /\ Distinct(ring'[v]) /\ Len(ring'[v]) <= Ring
                   /\ Keys(ring'[v]) = {u \in Live' : issuedFor'[u].win = v}
        <4>1. Keys(ring[v]) = {u \in Live : issuedFor[u].win = v}
          BY DEF TokInv, RingInv
        <4>2. CASE v = w
          BY <4>1, <4>2, <1>1, <2>5, <2>6
        <4>3. CASE v # w
          BY <4>1, <4>3, <1>1, <2>3, <2>4, <2>6
        <4>4. QED  BY <4>2, <4>3
      <3>3. QED  BY <3>1, <3>2 DEF RingInv
    <2>9. LaterInv'
      BY <1>1 DEF TokInv, LaterInv
    <2>10. ASSUME NEW u \in Issued, tokenAge[u] <= TokenTTL PROVE Baseline(u)'
      <3>1. Baseline(u) /\ u \in Tokens
        BY <2>10 DEF TokInv, Issued
      <3>2. t # u
        BY <1>3, <2>10 DEF Usable
      <3>3. CASE u \in Live
        <4>1. issuedFor[u].win \in Windows /\ u \in Keys(ring[issuedFor[u].win])
          BY <3>3, LiveTokens DEF TokInv
        <4>2. t \notin later[u]
          BY <1>3, <2>10, <3>3, LaterStillUsable
        <4>3. Behind(ring'[issuedFor[u].win], u) = Behind(ring[issuedFor[u].win], u)
          <5>1. CASE issuedFor[u].win = w
            <6>1. Behind(ring'[w], u) = Behind(ring[w], u) \ {t}
              BY <2>3, <2>4, <3>2, <4>1, <5>1, WithoutBehind
            <6>2. t \notin Behind(ring[w], u)
              BY <3>1, <3>3, <4>2, <5>1 DEF Baseline
            <6>3. QED  BY <5>1, <6>1, <6>2
          <5>2. CASE issuedFor[u].win # w
            BY <4>1, <5>2, <2>4
          <5>3. QED  BY <5>1, <5>2
        <4>4. QED  BY <3>1, <3>2, <3>3, <4>3, <1>1, <2>6 DEF Baseline
      <3>4. CASE u \notin Live
        BY <3>1, <3>4, <1>1, <2>6 DEF Baseline
      <3>5. QED  BY <3>3, <3>4
    <2>11. QED  BY <1>1, <2>7, <2>8, <2>9, <2>10 DEF TokInv
  <1>4. QED  BY <1>2, <1>3

LEMMA AgingKeepsTokInv ==
    ASSUME TokInv, TokensAge
    PROVE  TokInv'
  <1>1. /\ UNCHANGED <<byToken, ring, issuedFor, later>>
        /\ tokenAge' = [t \in Tokens |->
                          IF t \in Issued /\ tokenAge[t] < TokenTTL + 1
                          THEN tokenAge[t] + 1 ELSE tokenAge[t]]
    BY DEF TokensAge, TooOld
  <1>2. TokenTTL \in Nat /\ tokenAge \in [Tokens -> Nat]
    BY TokenAssumption DEF TokInv, TokTypes
  <1>3. Issued' = Issued /\ Live' = Live
    BY <1>1 DEF Issued, Live
  <1>4. \A t \in Tokens : /\ tokenAge'[t] \in Nat /\ tokenAge'[t] >= tokenAge[t]
                          /\ t \notin Issued => tokenAge'[t] = tokenAge[t]
    BY <1>1, <1>2
  <1>5. \A t, u \in Issued : tokenAge[u] <= tokenAge[t] => tokenAge'[u] <= tokenAge'[t]
    BY <1>1, <1>2 DEF Issued
  <1>6. TokTypes'
    BY <1>1, <1>4 DEF TokInv, TokTypes, Entry
  <1>7. RingInv'
    BY <1>1, <1>3 DEF TokInv, RingInv
  <1>8. LaterInv'
    BY <1>1, <1>3, <1>4, <1>5 DEF TokInv, LaterInv
  <1>9. ASSUME NEW t \in Issued, tokenAge'[t] <= TokenTTL PROVE Baseline(t)'
    <2>1. t \in Tokens
      BY DEF Issued
    <2>2. tokenAge[t] \in Nat
      BY <2>1, <1>2
    <2>3. tokenAge'[t] \in Nat /\ tokenAge'[t] >= tokenAge[t]
      BY <2>1, <2>2, <1>4
    <2>4. tokenAge[t] <= TokenTTL
      BY <2>2, <2>3, <1>2, <1>9
    <2>5. Baseline(t)
      BY <2>4 DEF TokInv
    <2>6. QED  BY <2>5, <1>1, <1>3 DEF Baseline
  <1>10. QED  BY <1>3, <1>6, <1>7, <1>8, <1>9 DEF TokInv

LEMMA TokInitTokInv == ASSUME TokenInit PROVE TokInv
  <1>1. Live = {} /\ Issued = {}
    BY DEF TokenInit, Live, Issued
  <1>2. TokTypes /\ LaterInv
    BY <1>1 DEF TokenInit, TokTypes, LaterInv
  <1>3. Keys(<<>>) = {} /\ Distinct(<<>>) /\ Len(<<>>) <= Ring
    BY TokenAssumption DEF Keys, Distinct
  <1>4. RingInv
    BY <1>1, <1>3 DEF TokenInit, RingInv
  <1>5. QED  BY <1>1, <1>2, <1>4 DEF TokInv

LEMMA TokNextTokInv ==
    ASSUME TokInv, [TokenNext]_tokenVars
    PROVE  TokInv'
  <1>1. CASE UNCHANGED tokenVars
    BY <1>1 DEF tokenVars, TokInv, TokTypes, RingInv, LaterInv, Baseline,
                Live, Issued, Entry
  <1>2. QED
    BY <1>1, PutKeepsTokInv, GetKeepsTokInv, AgingKeepsTokInv DEF TokenNext

(* A token finds its capture just as long as its time lasts and fewer than     *)
(* Ring captures of its own window were handed out after it, whatever is       *)
(* captured of other windows and whoever lets tokens expire                   *)
(* (_TreeTokenStore.put, get, _evict_expired).                               *)
THEOREM BaselinesStay == TokenSpec => []BaselinesKept
  <1>1. ASSUME TokInv PROVE BaselinesKept
    <2> SUFFICES ASSUME NEW t \in Issued
                 PROVE  Usable(t) <=> /\ tokenAge[t] <= TokenTTL
                                      /\ Cardinality(later[t]) < Ring
      BY DEF BaselinesKept
    <2>1. CASE tokenAge[t] <= TokenTTL /\ t \in Live
      <3> DEFINE s == ring[issuedFor[t].win]
      <3>1. issuedFor[t].win \in Windows /\ t \in Keys(s)
        BY <1>1, <2>1, LiveTokens DEF TokInv
      <3>2. s \in Seq(Tokens) /\ Distinct(s) /\ Len(s) <= Ring /\ Len(s) \in Nat
        BY <1>1, <3>1 DEF TokInv, TokTypes, RingInv
      <3>3. later[t] = Behind(s, t)
        BY <1>1, <2>1 DEF TokInv, Baseline
      <3>4. PICK i \in 1..Len(s) : s[i] = t
        BY <3>1, <3>2 DEF Keys
      <3>5. Cardinality(later[t]) = Len(s) - i
        BY <3>2, <3>3, <3>4, BehindProperties
      <3>6. Ring \in Nat
        BY TokenAssumption
      <3> HIDE DEF s
      <3>7. Cardinality(later[t]) < Ring
        BY <3>2, <3>4, <3>5, <3>6
      <3>8. QED  BY <2>1, <3>7 DEF Usable
    <2>2. CASE tokenAge[t] <= TokenTTL /\ t \notin Live
      <3>1. t \in Tokens /\ Cardinality(later[t]) >= Ring
        BY <1>1, <2>2 DEF TokInv, Baseline, Issued
      <3>2. IsFiniteSet(Tokens) /\ Ring \in Nat /\ later[t] \in SUBSET Tokens
        BY <1>1, <3>1, TokenAssumption DEF TokInv, TokTypes
      <3>3. Cardinality(later[t]) \in Nat
        BY <3>2, FS_Subset, FS_CardinalityType
      <3>4. QED  BY <2>2, <3>1, <3>2, <3>3 DEF Usable
    <2>3. CASE ~ (tokenAge[t] <= TokenTTL)
      BY <2>3 DEF Usable
    <2>4. QED  BY <2>1, <2>2, <2>3
  <1>2. TokenInit => TokInv
    BY TokInitTokInv
  <1>3. TokInv /\ [TokenNext]_tokenVars => TokInv'
    BY TokNextTokInv
  <1>4. TokInv => BaselinesKept
    BY <1>1
  <1>5. QED  BY <1>2, <1>3, <1>4, PTL DEF TokenSpec
-------------------------------------------------------------------------------
(* Observations: any number of clients over one cache and one token store.   *)

Stages == {"idle", "base", "read", "walk", "store", "token"}
Version == Nat \cup {NoTree}

ObsTypes ==
    /\ world \in [Windows -> Nat]
    /\ entries \in [Windows -> [tree : Nat, age : Nat] \cup {NoEntry}]
    /\ pc \in [Clients -> Stages]
    /\ call \in [Clients -> Call]
    /\ base \in [Clients -> Version]
    /\ fresh \in [Clients -> Version]
    /\ reply \in [Clients -> [form : {"none", "full", "unchanged", "diff"},
                              tree : Version, from : Version,
                              token : Tokens \cup {NoToken}]]
    /\ shown \in [Clients -> [Windows -> Version]]
    /\ refilled \in [Clients -> [Windows -> BOOLEAN]]
    /\ blind \in [Clients -> BOOLEAN]
    /\ byToken \in [Tokens -> Entry \cup {NoToken}]
    /\ issuedFor \in [Tokens -> Entry \cup {NoToken}]

(* What a call has in hand at each stage, and what the store holds.          *)
ObsShape ==
    /\ ObsTypes
    /\ \A c \in Clients : /\ pc[c] \in {"store", "token"} => fresh[c] \in Nat
                          /\ pc[c] = "read" => call[c].mode # "changed"
                          /\ call[c].mode = "since" => call[c].since \in Issued
    /\ \A t \in Tokens : byToken[t] \in {NoToken, issuedFor[t]}

(* The base of a since= call, looked up or already answered with, is what its *)
(* token was issued for.                                                      *)
SinceInv ==
    \A c \in Clients : call[c].mode = "since" =>
       /\ base[c] # NoTree =>
             issuedFor[call[c].since] = [win |-> call[c].win, tree |-> base[c]]
       /\ reply[c].form \in {"unchanged", "diff"} =>
             issuedFor[call[c].since] = [win |-> call[c].win, tree |-> reply[c].from]

(* The version a client knows of a window, or is about to be told.           *)
Known(c, w) == IF pc[c] = "token" /\ call[c].win = w THEN fresh[c] ELSE shown[c][w]

(* As long as nobody refilled a window's capture it is what the client knows, *)
(* and so is a base that was peeked at then.                                  *)
SeenInv ==
    \A c \in Clients :
       /\ \A w \in Windows : ~ refilled[c][w] /\ entries[w] # NoEntry =>
             entries[w].tree = Known(c, w)
       /\ /\ call[c].mode = "changed" /\ pc[c] \in {"walk", "store", "token"}
          /\ base[c] # NoTree /\ ~ blind[c]
          => base[c] = shown[c][call[c].win]

(* A client alone: versions only grow from what it was shown, over what is    *)
(* cached and what it has in hand, to the window as it is.                    *)
AheadInv ==
    \A c \in Clients :
       /\ \A w \in Windows :
             /\ entries[w] # NoEntry => entries[w].tree <= world[w]
             /\ shown[c][w] # NoTree => shown[c][w] <= world[w]
             /\ shown[c][w] # NoTree /\ entries[w] # NoEntry =>
                   shown[c][w] <= entries[w].tree
       /\ pc[c] \in {"store", "token"} =>
             /\ fresh[c] <= world[call[c].win]
             /\ shown[c][call[c].win] # NoTree => shown[c][call[c].win] <= fresh[c]
       /\ pc[c] = "token" /\ entries[call[c].win] # NoEntry =>
             fresh[c] <= entries[call[c].win].tree

LEMMA FirstSteps ==
    \A m : /\ FirstStep(m) \in {"base", "read"}
           /\ m = "changed" => FirstStep(m) = "base"
  BY DEF FirstStep

(* What a capture stored in the cache can do to what is cached.              *)
LEMMA PutEntries ==
    ASSUME ObsTypes, NEW w \in Windows, NEW tree \in Nat, Put(w, tree)
    PROVE  /\ entries' \in [Windows -> [tree : Nat, age : Nat] \cup {NoEntry}]
           /\ entries'[w] # NoEntry => entries'[w].tree = tree
           /\ \A v \in Windows \ {w} : entries'[v] \in {NoEntry, entries[v]}
  <1>1. PICK S : entries' = [v \in Windows |->
                     IF v \notin S THEN NoEntry
                     ELSE IF v = w THEN [tree |-> tree, age |-> 0] ELSE entries[v]]
    BY DEF Put
  <1>2. [tree |-> tree, age |-> 0] \in [tree : Nat, age : Nat]
    OBVIOUS
  <1>3. QED  BY <1>1, <1>2 DEF ObsTypes

LEMMA InvalidateEntries ==
    ASSUME ObsTypes, NEW w \in Windows, Invalidate(w)
    PROVE  /\ entries' \in [Windows -> [tree : Nat, age : Nat] \cup {NoEntry}]
           /\ \A v \in Windows : entries'[v] \in {NoEntry, entries[v]}
  BY DEF Invalidate, ObsTypes

LEMMA TickEntries ==
    ASSUME ObsTypes, CacheAges([w \in Cached |-> entries[w].tree])
    PROVE  /\ entries' \in [Windows -> [tree : Nat, age : Nat] \cup {NoEntry}]
           /\ \A v \in Windows : entries'[v] # NoEntry =>
                 entries[v] # NoEntry /\ entries'[v].tree = entries[v].tree
  <1> DEFINE old(v) == IF entries[v].age < Stale THEN entries[v].age + 1 ELSE Stale
  <1>1. entries' = [v \in Windows |-> IF entries[v] = NoEntry THEN NoEntry
                       ELSE [tree |-> [w \in Cached |-> entries[w].tree][v],
                             age |-> old(v)]]
    BY DEF CacheAges
  <1>2. \A v \in Windows : entries[v] # NoEntry =>
           /\ entries[v] \in [tree : Nat, age : Nat]
           /\ [w \in Cached |-> entries[w].tree][v] = entries[v].tree
    BY DEF Cached, ObsTypes
  <1>3. \A v \in Windows : entries[v] # NoEntry => old(v) \in Nat
    BY <1>2, CacheAssumption DEF Stale, CacheAssumption
  <1> HIDE DEF old
  <1>4. \A v \in Windows : entries[v] # NoEntry =>
           entries'[v] = [tree |-> entries[v].tree, age |-> old(v)]
    BY <1>1, <1>2
  <1>5. \A v \in Windows : entries[v] = NoEntry => entries'[v] = NoEntry
    BY <1>1
  <1>6. \A v \in Windows :
           entries'[v] \in [tree : Nat, age : Nat] \cup {NoEntry}
    <2> SUFFICES ASSUME NEW v \in Windows, entries[v] # NoEntry
                 PROVE  entries'[v] \in [tree : Nat, age : Nat]
      BY <1>5
    <2>1. entries[v].tree \in Nat /\ old(v) \in Nat
      BY <1>2, <1>3
    <2>2. [tree |-> entries[v].tree, age |-> old(v)] \in [tree : Nat, age : Nat]
      BY <2>1
    <2>3. QED  BY <2>2, <1>4
  <1>7. entries' \in [Windows -> [tree : Nat, age : Nat] \cup {NoEntry}]
    BY <1>1, <1>6
  <1>8. QED  BY <1>4, <1>5, <1>7

(* A token is granted once; put and get drop grants but never alter them.     *)
LEMMA PutGrants ==
    ASSUME ObsShape, NEW w \in Windows, NEW tree \in Nat, NEW t \in Tokens,
           PutToken(w, tree, t)
    PROVE  /\ t \notin Issued
           /\ \A u \in Issued : issuedFor'[u] = issuedFor[u]
           /\ byToken' \in [Tokens -> Entry \cup {NoToken}]
           /\ issuedFor' \in [Tokens -> Entry \cup {NoToken}]
           /\ \A u \in Tokens : byToken'[u] \in {NoToken, issuedFor'[u]}
  <1> DEFINE e == [win |-> w, tree |-> tree]
  <1>1. /\ t \notin Issued
        /\ issuedFor' = [issuedFor EXCEPT ![t] = e]
    BY DEF PutToken
  <1>2. PICK S : byToken' = [u \in Tokens |->
                    IF u = t THEN e ELSE IF u \in S THEN byToken[u] ELSE NoToken]
    <2> DEFINE swept == [v \in Windows |->
                          Only(ring[v], {u \in Live : Usable(u)})]
               rings == [swept EXCEPT ![w] = Trimmed(Append(@, t))]
               S == {u \in Tokens : Usable(u)
                                    /\ u \in Keys(rings[byToken[u].win])}
    <2>1. byToken' = [u \in Tokens |->
                    IF u = t THEN e
                    ELSE IF Usable(u) /\ u \in Keys(rings[byToken[u].win])
                    THEN byToken[u] ELSE NoToken]
      BY DEF PutToken
    <2>2. \A u \in Tokens :
             u \in S <=> Usable(u) /\ u \in Keys(rings[byToken[u].win])
      OBVIOUS
    <2> HIDE DEF rings
    <2>3. byToken' = [u \in Tokens |->
                    IF u = t THEN e ELSE IF u \in S THEN byToken[u] ELSE NoToken]
      BY <2>1, <2>2
    <2>4. QED  BY <2>3
  <1>3. e \in Entry
    BY ObserveAssumption DEF Entry
  <1> HIDE DEF e
  <1>4. \A u \in Issued : u \in Tokens /\ u # t
    BY <1>1 DEF Issued
  <1>5. QED  BY <1>1, <1>2, <1>3, <1>4 DEF ObsShape, ObsTypes

LEMMA GetGrants ==
    ASSUME ObsShape, NEW t, GetToken(t)
    PROVE  /\ issuedFor' = issuedFor
           /\ byToken' \in [Tokens -> Entry \cup {NoToken}]
           /\ \A u \in Tokens : byToken'[u] \in {NoToken, issuedFor'[u]}
  BY DEF GetToken, ObsShape, ObsTypes

(* The base a token gives is of the window asked for, as it was granted.      *)
LEMMA BaseOfGrant ==
    ASSUME ObsShape, NEW c \in Clients, call[c].mode = "since"
    PROVE  /\ BaseOf(c) \in Version
           /\ BaseOf(c) # NoTree =>
                 issuedFor[call[c].since] = [win |-> call[c].win, tree |-> BaseOf(c)]
  <1> DEFINE t == call[c].since
             e == Found(t)
  <1>8. t \in Tokens
    BY DEF ObsShape, Issued
  <1>1. e \in {NoToken, issuedFor[t]}
    BY <1>8 DEF Found, ObsShape
  <1>2. issuedFor[t] \in Entry \cup {NoToken}
    BY <1>8 DEF ObsShape, ObsTypes
  <1>3. e # NoToken => /\ e = issuedFor[t] /\ e.tree \in Nat
                       /\ issuedFor[t] = [win |-> e.win, tree |-> e.tree]
    BY <1>1, <1>2, ObserveAssumption DEF Entry
  <1>4. BaseOf(c) = IF e = NoToken \/ e.win # call[c].win THEN NoTree ELSE e.tree
    BY DEF BaseOf
  <1> HIDE DEF e, t
  <1>5. BaseOf(c) \in Version
    BY <1>3, <1>4 DEF Version
  <1>6. BaseOf(c) # NoTree => e # NoToken /\ e.win = call[c].win /\ BaseOf(c) = e.tree
    BY <1>4
  <1>7. QED  BY <1>3, <1>5, <1>6 DEF t

LEMMA ObsInitInvs == Init => ObsShape /\ SinceInv /\ SeenInv /\ AheadInv
  <1> SUFFICES ASSUME Init PROVE ObsShape /\ SinceInv /\ SeenInv /\ AheadInv
    OBVIOUS
  <1>1. /\ call \in [Clients -> Call]
        /\ \A c \in Clients : call[c].mode = "full" /\ pc[c] = "idle"
    <2>1. call \in [Clients -> [mode : {"full"} \cap Modes, win : Windows,
                                since : {NoToken}]]
      BY DEF Init
    <2>2. QED  BY <2>1 DEF Init, Call
  <1>2. /\ entries = [w \in Windows |-> NoEntry]
        /\ byToken = [t \in Tokens |-> NoToken]
        /\ issuedFor = [t \in Tokens |-> NoToken]
    BY DEF Init, CacheInit, TokenInit
  <1>3. ObsTypes
    BY <1>1, <1>2 DEF Init, Quiet, ObsTypes, Stages, Version
  <1>4. ObsShape
    BY <1>1, <1>2, <1>3 DEF ObsShape
  <1>5. SinceInv /\ SeenInv
    BY <1>1, <1>2 DEF SinceInv, SeenInv
  <1>6. AheadInv
    BY <1>1, <1>2 DEF Init, AheadInv
  <1>7. QED  BY <1>4, <1>5, <1>6

(* The steps in which a client does nothing, nor the token store.            *)
Environment ==
    \/ \E w \in Windows : AppChanges(w) \/ Dropped(w)
    \/ Tick

LEMMA EnvironmentEffect ==
    ASSUME ObsShape, Environment
    PROVE  /\ UNCHANGED <<clientVars, byToken, issuedFor>>
           /\ entries' \in [Windows -> [tree : Nat, age : Nat] \cup {NoEntry}]
           /\ \A w \in Windows : entries'[w] # NoEntry =>
                 entries[w] # NoEntry /\ entries'[w].tree = entries[w].tree
           /\ world' \in [Windows -> Nat]
           /\ \A w \in Windows : world[w] <= world'[w]
  <1>1. ASSUME NEW w \in Windows, AppChanges(w)
        PROVE  /\ UNCHANGED <<clientVars, byToken, issuedFor, entries>>
               /\ world' \in [Windows -> Nat]
               /\ \A v \in Windows : world[v] <= world'[v]
    BY <1>1 DEF AppChanges, cacheVars, tokenVars, ObsShape, ObsTypes
  <1>2. ASSUME NEW w \in Windows, Dropped(w)
        PROVE  /\ UNCHANGED <<clientVars, byToken, issuedFor, world>>
               /\ entries' \in [Windows -> [tree : Nat, age : Nat] \cup {NoEntry}]
               /\ \A v \in Windows : entries'[v] # NoEntry =>
                     entries[v] # NoEntry /\ entries'[v].tree = entries[v].tree
    <2>1. Invalidate(w) /\ UNCHANGED <<clientVars, byToken, issuedFor, world>>
      BY <1>2 DEF Dropped, tokenVars
    <2>2. QED  BY <2>1, InvalidateEntries DEF ObsShape
  <1>3. ASSUME Tick
        PROVE  /\ UNCHANGED <<clientVars, byToken, issuedFor, world>>
               /\ CacheAges([w \in Cached |-> entries[w].tree])
    BY <1>3 DEF Tick, TokensAge
  <1>4. \A w \in Windows : world[w] <= world[w]
    BY DEF ObsShape, ObsTypes
  <1>5. entries \in [Windows -> [tree : Nat, age : Nat] \cup {NoEntry}]
        /\ world \in [Windows -> Nat]
    BY DEF ObsShape, ObsTypes
  <1>6. CASE Tick
    BY <1>3, <1>4, <1>5, <1>6, TickEntries DEF ObsShape
  <1>7. CASE \E w \in Windows : AppChanges(w)
    BY <1>1, <1>5, <1>7
  <1>8. CASE \E w \in Windows : Dropped(w)
    BY <1>2, <1>4, <1>5, <1>8
  <1>9. QED  BY <1>6, <1>7, <1>8 DEF Environment

LEMMA ObsNextShape == ObsShape /\ [Next]_vars => ObsShape'
  <1> SUFFICES ASSUME ObsShape, [Next]_vars PROVE ObsShape'
    OBVIOUS
  <1> USE DEF ObsShape, ObsTypes
  <1>1. ASSUME NEW c \in Clients, Begin(c) PROVE ObsShape'
    <2>1. PICK m \in Modes, w \in Windows :
            \E t \in IF m = "since" THEN Issued ELSE {NoToken} :
             /\ call' = [call EXCEPT ![c] = [mode |-> m, win |-> w, since |-> t]]
             /\ pc' = [pc EXCEPT ![c] = FirstStep(m)]
      BY <1>1 DEF Begin
    <2>2. PICK t \in IF m = "since" THEN Issued ELSE {NoToken} :
             /\ call' = [call EXCEPT ![c] = [mode |-> m, win |-> w, since |-> t]]
             /\ pc' = [pc EXCEPT ![c] = FirstStep(m)]
      BY <2>1
    <2>3. [mode |-> m, win |-> w, since |-> t] \in Call
      BY DEF Call, Issued
    <2>4. /\ FirstStep(m) \in {"base", "read"}
          /\ m = "changed" => FirstStep(m) = "base"
      BY FirstSteps
    <2>5. /\ UNCHANGED <<entries, byToken, issuedFor, world, fresh, shown,
                         refilled, blind>>
          /\ base' = [base EXCEPT ![c] = NoTree]
          /\ reply' = [reply EXCEPT ![c] = Quiet]
      BY <1>1 DEF Begin, cacheVars, tokenVars
    <2>6. call' \in [Clients -> Call] /\ pc' \in [Clients -> Stages]
      BY <2>2, <2>3, <2>4 DEF Stages
    <2>7. ObsTypes'
      BY <2>5, <2>6 DEF Quiet, Version, Entry
    <2>8. ASSUME NEW d \in Clients
          PROVE  /\ pc'[d] \in {"store", "token"} => fresh'[d] \in Nat
                 /\ pc'[d] = "read" => call'[d].mode # "changed"
                 /\ call'[d].mode = "since" => call'[d].since \in Issued'
      BY <2>2, <2>4, <2>5 DEF Issued
    <2>9. QED  BY <2>5, <2>7, <2>8
  <1>2. ASSUME NEW c \in Clients, SinceBase(c) PROVE ObsShape'
    <2>1. /\ GetToken(call[c].since) /\ call[c].mode = "since"
          /\ base' = [base EXCEPT ![c] = BaseOf(c)]
          /\ pc' = [pc EXCEPT ![c] = "read"]
          /\ UNCHANGED <<entries, world, call, fresh, reply, shown, refilled, blind>>
      BY <1>2 DEF SinceBase, cacheVars
    <2>2. BaseOf(c) \in Version
      BY <2>1, BaseOfGrant
    <2>3. /\ issuedFor' = issuedFor
          /\ byToken' \in [Tokens -> Entry \cup {NoToken}]
          /\ \A u \in Tokens : byToken'[u] \in {NoToken, issuedFor'[u]}
      BY <2>1, GetGrants
    <2>4. ObsTypes'
      BY <2>1, <2>2, <2>3 DEF Stages, Entry
    <2>5. QED  BY <2>1, <2>3, <2>4 DEF Issued
  <1>3. ASSUME NEW c \in Clients, PeekBase(c) PROVE ObsShape'
    <2>1. /\ pc' = [pc EXCEPT ![c] = "walk"]
          /\ base' = [base EXCEPT ![c] = Peeked(call[c].win)]
          /\ blind' = [blind EXCEPT ![c] = refilled[c][call[c].win]]
          /\ UNCHANGED <<entries, byToken, issuedFor, world, call, fresh, reply,
                         shown, refilled>>
      BY <1>3 DEF PeekBase, cacheVars, tokenVars
    <2>2. call[c].win \in Windows
      BY DEF Call
    <2>3. Peeked(call[c].win) \in Version
      BY <2>2 DEF Peeked, Version
    <2>4. ObsTypes'
      BY <2>1, <2>2, <2>3 DEF Stages, Entry
    <2>5. QED  BY <2>1, <2>4 DEF Issued
  <1>4. ASSUME NEW c \in Clients, ReadHit(c) PROVE ObsShape'
    <2> DEFINE w == call[c].win
    <2>1. w \in Windows
      BY DEF Call
    <2>2. /\ entries[w] # NoEntry /\ UNCHANGED entries
          /\ pc[c] = "read" /\ pc' = [pc EXCEPT ![c] = AfterRead(c)]
          /\ fresh' = [fresh EXCEPT ![c] = Kept(c, entries[w].tree)]
          /\ UNCHANGED <<byToken, issuedFor, world, call, base, reply, shown, blind>>
      BY <1>4 DEF ReadHit, CacheHit, Fresh, tokenVars
    <2>3. refilled' \in [Clients -> [Windows -> BOOLEAN]]
      BY <1>4, <2>1 DEF ReadHit
    <2>4. entries[w].tree \in Nat
      BY <2>1, <2>2
    <2>5. /\ AfterRead(c) \in {"idle", "token"}
          /\ Kept(c, entries[w].tree) \in Version
          /\ AfterRead(c) = "token" => Kept(c, entries[w].tree) \in Nat
      BY <2>4 DEF AfterRead, Kept, Version
    <2>6. ObsTypes'
      BY <2>2, <2>3, <2>5 DEF Stages, Entry
    <2>7. QED  BY <2>2, <2>5, <2>6 DEF Issued
  <1>5. ASSUME NEW c \in Clients, ReadMiss(c) PROVE ObsShape'
    <2>1. /\ Invalidate(call[c].win)
          /\ pc' = [pc EXCEPT ![c] = "walk"]
          /\ UNCHANGED <<byToken, issuedFor, world, call, base, fresh, reply, shown,
                         refilled, blind>>
      BY <1>5 DEF ReadMiss, CacheMiss, tokenVars
    <2>2. call[c].win \in Windows
      BY DEF Call
    <2>3. entries' \in [Windows -> [tree : Nat, age : Nat] \cup {NoEntry}]
      BY <2>1, <2>2, InvalidateEntries
    <2>4. ObsTypes'
      BY <2>1, <2>3 DEF Stages, Entry
    <2>5. QED  BY <2>1, <2>4 DEF Issued
  <1>6. ASSUME NEW c \in Clients, Walk(c) PROVE ObsShape'
    <2>1. /\ pc' = [pc EXCEPT ![c] = "store"]
          /\ fresh' = [fresh EXCEPT ![c] = world[call[c].win]]
          /\ UNCHANGED <<entries, byToken, issuedFor, world, call, base, reply, shown,
                         refilled, blind>>
      BY <1>6 DEF Walk, cacheVars, tokenVars
    <2>2. world[call[c].win] \in Nat
      BY DEF Call
    <2>3. ObsTypes'
      BY <2>1, <2>2 DEF Stages, Version, Entry
    <2>4. QED  BY <2>1, <2>2, <2>3 DEF Issued
  <1>7. ASSUME NEW c \in Clients, WalkFails(c) PROVE ObsShape'
    BY <1>7 DEF WalkFails, cacheVars, tokenVars, Stages, Entry, Issued
  <1>8. ASSUME NEW c \in Clients, StoreWalk(c) PROVE ObsShape'
    <2> DEFINE w == call[c].win
    <2>1. w \in Windows /\ fresh[c] \in Nat
      BY <1>8 DEF StoreWalk, Call
    <2>2. /\ Put(w, fresh[c]) /\ refilled' = Refilled(c)
          /\ pc' = [pc EXCEPT ![c] = AfterRead(c)]
          /\ fresh' = [fresh EXCEPT ![c] = Kept(c, fresh[c])]
          /\ UNCHANGED <<byToken, issuedFor, world, call, base, reply, shown, blind>>
      BY <1>8 DEF StoreWalk, tokenVars
    <2>3. entries' \in [Windows -> [tree : Nat, age : Nat] \cup {NoEntry}]
      BY <2>1, <2>2, PutEntries
    <2>4. refilled' \in [Clients -> [Windows -> BOOLEAN]]
      BY <2>1, <2>2 DEF Refilled
    <2>5. /\ AfterRead(c) \in {"idle", "token"}
          /\ Kept(c, fresh[c]) \in Version
          /\ AfterRead(c) = "token" => Kept(c, fresh[c]) \in Nat
      BY <2>1 DEF AfterRead, Kept, Version
    <2>6. ObsTypes'
      BY <2>2, <2>3, <2>4, <2>5 DEF Stages, Entry
    <2>7. QED  BY <2>2, <2>5, <2>6 DEF Issued
  <1>9. ASSUME NEW c \in Clients, Reply(c) PROVE ObsShape'
    <2> DEFINE w == call[c].win
    <2>1. w \in Windows /\ fresh[c] \in Nat /\ pc[c] = "token"
      BY <1>9 DEF Reply, Call
    <2>2. PICK t \in Tokens : /\ PutToken(w, fresh[c], t)
                              /\ reply' = [reply EXCEPT ![c] = Answer(c, t)]
      BY <1>9 DEF Reply
    <2>3. /\ shown' = [shown EXCEPT ![c][w] = fresh[c]]
          /\ pc' = [pc EXCEPT ![c] = "idle"]
          /\ fresh' = [fresh EXCEPT ![c] = NoTree]
          /\ base' = [base EXCEPT ![c] = NoTree]
          /\ UNCHANGED <<entries, world, call, refilled, blind>>
      BY <1>9 DEF Reply, cacheVars
    <2>4. /\ t \notin Issued
          /\ \A u \in Issued : issuedFor'[u] = issuedFor[u]
          /\ byToken' \in [Tokens -> Entry \cup {NoToken}]
          /\ issuedFor' \in [Tokens -> Entry \cup {NoToken}]
          /\ \A u \in Tokens : byToken'[u] \in {NoToken, issuedFor'[u]}
      BY <2>1, <2>2, PutGrants
    <2>5. Answer(c, t) \in [form : {"none", "full", "unchanged", "diff"},
                            tree : Version, from : Version,
                            token : Tokens \cup {NoToken}]
      BY DEF Answer, Version
    <2>6. shown' \in [Clients -> [Windows -> Version]]
      BY <2>1, <2>3 DEF Version
    <2>7. ObsTypes'
      BY <2>2, <2>3, <2>4, <2>5, <2>6 DEF Stages, Version, Entry
    <2>8. Issued \subseteq Issued'
      BY <2>4 DEF Issued
    <2>9. QED  BY <2>3, <2>4, <2>7, <2>8
  <1>10. CASE Environment
    BY <1>10, EnvironmentEffect DEF clientVars, Entry, Issued
  <1>11. CASE UNCHANGED vars
    BY <1>11 DEF vars, cacheVars, tokenVars, clientVars, Entry, Issued
  <1>12. QED
    BY <1>1, <1>2, <1>3, <1>4, <1>5, <1>6, <1>7, <1>8, <1>9, <1>10, <1>11
    DEF Next, Environment

(* What a since= call compares with stays what its token was granted for.     *)
LEMMA SinceNext == ObsShape /\ SinceInv /\ [Next]_vars => SinceInv'
  <1> SUFFICES ASSUME ObsShape, SinceInv, [Next]_vars PROVE SinceInv'
    OBVIOUS
  <1> DEFINE Says(c, x) == issuedFor[call[c].since] = [win |-> call[c].win, tree |-> x]
  <1>1. ASSUME NEW c \in Clients, Begin(c) PROVE SinceInv'
    <2>1. /\ base' = [base EXCEPT ![c] = NoTree]
          /\ reply' = [reply EXCEPT ![c] = Quiet]
          /\ UNCHANGED issuedFor
      BY <1>1 DEF Begin, tokenVars
    <2>2. \A d \in Clients \ {c} : call'[d] = call[d]
      BY <1>1 DEF Begin, ObsShape, ObsTypes
    <2>3. QED  BY <2>1, <2>2 DEF Quiet, SinceInv, ObsShape, ObsTypes
  <1>2. ASSUME NEW c \in Clients, SinceBase(c) PROVE SinceInv'
    <2>1. /\ GetToken(call[c].since) /\ call[c].mode = "since"
          /\ base' = [base EXCEPT ![c] = BaseOf(c)]
          /\ UNCHANGED <<call, reply>>
      BY <1>2 DEF SinceBase
    <2>2. UNCHANGED issuedFor
      BY <2>1, GetGrants
    <2>3. BaseOf(c) # NoTree => Says(c, BaseOf(c))
      BY <2>1, BaseOfGrant
    <2>4. QED  BY <2>1, <2>2, <2>3 DEF SinceInv, ObsShape, ObsTypes
  <1>3. ASSUME NEW c \in Clients, PeekBase(c) PROVE SinceInv'
    BY <1>3 DEF PeekBase, tokenVars, SinceInv, ObsShape, ObsTypes
  <1>4. ASSUME NEW c \in Clients,
               ReadHit(c) \/ ReadMiss(c) \/ Walk(c) \/ WalkFails(c) \/ StoreWalk(c)
        PROVE  SinceInv'
    <2>1. UNCHANGED <<call, base, reply, issuedFor>>
      BY <1>4 DEF ReadHit, ReadMiss, Walk, WalkFails, StoreWalk, tokenVars
    <2>2. QED  BY <2>1 DEF SinceInv
  <1>5. ASSUME NEW c \in Clients, Reply(c) PROVE SinceInv'
    <2>1. PICK t \in Tokens : /\ PutToken(call[c].win, fresh[c], t)
                              /\ reply' = [reply EXCEPT ![c] = Answer(c, t)]
      BY <1>5 DEF Reply
    <2>2. call[c].win \in Windows /\ fresh[c] \in Nat
      BY <1>5 DEF Reply, ObsShape, ObsTypes, Call
    <2>3. \A u \in Issued : issuedFor'[u] = issuedFor[u]
      BY <2>1, <2>2, PutGrants
    <2>4. base' = [base EXCEPT ![c] = NoTree] /\ UNCHANGED call
      BY <1>5 DEF Reply
    <2>5. /\ Answer(c, t).from = base[c]
          /\ Answer(c, t).form \in {"unchanged", "diff"} => base[c] # NoTree
      BY DEF Answer
    <2>6. ASSUME NEW d \in Clients, call[d].mode = "since"
          PROVE  issuedFor'[call[d].since] = issuedFor[call[d].since]
      BY <2>3, <2>6 DEF ObsShape
    <2>7. \A d \in Clients \ {c} : base'[d] = base[d] /\ reply'[d] = reply[d]
      BY <2>1, <2>4 DEF ObsShape, ObsTypes
    <2>8. base'[c] = NoTree /\ reply'[c] = Answer(c, t)
      BY <2>1, <2>4 DEF ObsShape, ObsTypes
    <2>9. ASSUME NEW d \in Clients, call[d].mode = "since"
          PROVE  /\ base'[d] # NoTree => Says(d, base'[d])
                 /\ reply'[d].form \in {"unchanged", "diff"} => Says(d, reply'[d].from)
      <3>1. CASE d = c
        BY <2>5, <2>8, <2>9, <3>1 DEF SinceInv
      <3>2. CASE d # c
        BY <2>7, <2>9, <3>2 DEF SinceInv
      <3>3. QED  BY <3>1, <3>2
    <2>10. QED  BY <2>4, <2>6, <2>9 DEF SinceInv
  <1>6. CASE Environment
    <2>1. UNCHANGED <<call, base, reply, issuedFor>>
      BY <1>6, EnvironmentEffect DEF clientVars
    <2>2. QED  BY <2>1 DEF SinceInv
  <1>7. CASE UNCHANGED vars
    BY <1>7 DEF vars, clientVars, tokenVars, SinceInv
  <1>8. QED
    BY <1>1, <1>2, <1>3, <1>4, <1>5, <1>6, <1>7 DEF Next, Environment

(* A diff or an "unchanged" answered to since= names the very capture its       *)
(* token was handed out with, whatever was evicted, expired or captured again  *)
(* between the look-up of the token and the answer (observe_window,           *)
(* _TreeTokenStore.get).                                                     *)
THEOREM DiffsAreFromTheTokensCapture == Spec => []DiffsNameTheirBase
  <1>1. SinceInv => DiffsNameTheirBase
    BY DEF SinceInv, DiffsNameTheirBase
  <1>2. Init => ObsShape /\ SinceInv
    BY ObsInitInvs
  <1>3. ObsShape /\ SinceInv /\ [Next]_vars => (ObsShape /\ SinceInv)'
    BY ObsNextShape, SinceNext
  <1>4. QED  BY <1>1, <1>2, <1>3, PTL DEF Spec

(* Another's step, or a step with no capture stored, leaves what a client     *)
(* knows where it was.                                                       *)
LEMMA SeenNext == ObsShape /\ SeenInv /\ [Next]_vars => SeenInv'
  <1> SUFFICES ASSUME ObsShape, SeenInv, [Next]_vars PROVE SeenInv'
    OBVIOUS
  <1> DEFINE Seen(d, w) == ~ refilled[d][w] /\ entries[w] # NoEntry =>
                              entries[w].tree = Known(d, w)
             Peek(d) == call[d].mode = "changed" /\ pc[d] \in {"walk", "store", "token"}
                        /\ base[d] # NoTree /\ ~ blind[d]
                        => base[d] = shown[d][call[d].win]
  <1>1. ASSUME NEW c \in Clients, Begin(c) PROVE SeenInv'
    <2>1. /\ UNCHANGED <<entries, refilled, shown, blind, fresh>>
          /\ base' = [base EXCEPT ![c] = NoTree]
          /\ pc[c] = "idle" /\ pc'[c] \in {"base", "read"}
          /\ \A d \in Clients \ {c} : call'[d] = call[d] /\ pc'[d] = pc[d]
      BY <1>1, FirstSteps DEF Begin, cacheVars, ObsShape, ObsTypes
    <2>2. \A d \in Clients, w \in Windows : Known(d, w)' = Known(d, w)
      BY <2>1 DEF Known
    <2>3. QED  BY <2>1, <2>2 DEF SeenInv, ObsShape, ObsTypes
  <1>2. ASSUME NEW c \in Clients, SinceBase(c) PROVE SeenInv'
    <2>1. /\ UNCHANGED <<entries, refilled, shown, blind, fresh, call>>
          /\ pc[c] = "base" /\ pc' = [pc EXCEPT ![c] = "read"]
          /\ base' = [base EXCEPT ![c] = BaseOf(c)]
      BY <1>2 DEF SinceBase, cacheVars
    <2>2. \A d \in Clients, w \in Windows : Known(d, w)' = Known(d, w)
      BY <2>1 DEF Known, ObsShape, ObsTypes
    <2>3. QED  BY <2>1, <2>2 DEF SeenInv, ObsShape, ObsTypes
  <1>3. ASSUME NEW c \in Clients, PeekBase(c) PROVE SeenInv'
    <2>1. /\ UNCHANGED <<entries, refilled, shown, fresh, call>>
          /\ pc[c] = "base" /\ pc' = [pc EXCEPT ![c] = "walk"]
          /\ base' = [base EXCEPT ![c] = Peeked(call[c].win)]
          /\ blind' = [blind EXCEPT ![c] = refilled[c][call[c].win]]
      BY <1>3 DEF PeekBase, cacheVars
    <2>2. \A d \in Clients, w \in Windows : Known(d, w)' = Known(d, w)
      BY <2>1 DEF Known, ObsShape, ObsTypes
    <2>3. call[c].win \in Windows
      BY DEF ObsShape, ObsTypes, Call
    <2>4. Peeked(call[c].win) # NoTree /\ ~ refilled[c][call[c].win] =>
             Peeked(call[c].win) = shown[c][call[c].win]
      BY <2>1, <2>3 DEF Peeked, SeenInv, Known
    <2>5. QED  BY <2>1, <2>2, <2>4 DEF SeenInv, ObsShape, ObsTypes
  <1>4. ASSUME NEW c \in Clients, ReadHit(c) PROVE SeenInv'
    <2> DEFINE w == call[c].win
    <2>1. /\ UNCHANGED <<entries, shown, call, base, blind>> /\ w \in Windows
          /\ pc[c] = "read" /\ pc' = [pc EXCEPT ![c] = AfterRead(c)]
          /\ fresh' = [fresh EXCEPT ![c] = Kept(c, entries[w].tree)]
          /\ call[c].mode # "changed"
      BY <1>4 DEF ReadHit, CacheHit, ObsShape, ObsTypes, Call
    <2>2. CASE call[c].mode = "silent"
      <3>1. refilled' = refilled /\ AfterRead(c) = "idle"
        BY <1>4, <2>2 DEF ReadHit, AfterRead
      <3>2. \A d \in Clients, v \in Windows : Known(d, v)' = Known(d, v)
        BY <2>1, <3>1 DEF Known, ObsShape, ObsTypes
      <3>3. QED  BY <2>1, <3>1, <3>2 DEF SeenInv, ObsShape, ObsTypes
    <2>3. CASE call[c].mode # "silent"
      <3>1. /\ refilled' = [refilled EXCEPT ![c][w] = FALSE]
            /\ AfterRead(c) = "token" /\ Kept(c, entries[w].tree) = entries[w].tree
        BY <1>4, <2>3 DEF ReadHit, AfterRead, Kept
      <3>2. ASSUME NEW d \in Clients, NEW v \in Windows, d # c \/ v # w
            PROVE  Known(d, v)' = Known(d, v) /\ refilled'[d][v] = refilled[d][v]
        <4>1. CASE d # c
          BY <2>1, <3>1, <4>1 DEF Known, ObsShape, ObsTypes
        <4>2. CASE d = c /\ v # w
          BY <2>1, <3>1, <4>2 DEF Known, ObsShape, ObsTypes
        <4>3. QED  BY <3>2, <4>1, <4>2
      <3>3. Known(c, w)' = entries[w].tree
        BY <2>1, <3>1 DEF Known, ObsShape, ObsTypes
      <3>4. \A d \in Clients, v \in Windows : Seen(d, v)'
        BY <2>1, <3>2, <3>3 DEF SeenInv
      <3>5. \A d \in Clients : Peek(d)'
        BY <2>1 DEF SeenInv, ObsShape, ObsTypes
      <3>6. QED  BY <3>4, <3>5 DEF SeenInv
    <2>4. QED  BY <2>2, <2>3
  <1>5. ASSUME NEW c \in Clients, ReadMiss(c) \/ Walk(c) \/ WalkFails(c) PROVE SeenInv'
    <2>1. /\ UNCHANGED <<refilled, shown, blind, call, base>>
          /\ \A d \in Clients \ {c} : pc'[d] = pc[d] /\ fresh'[d] = fresh[d]
          /\ pc[c] # "token" /\ pc'[c] # "token"
          /\ pc'[c] \in {"walk", "store", "token"} =>
                pc[c] \in {"walk", "store", "token"} \/ call[c].mode # "changed"
      BY <1>5 DEF ReadMiss, Walk, WalkFails, ObsShape, ObsTypes
    <2>2. \A v \in Windows : entries'[v] \in {NoEntry, entries[v]}
      <3>1. CASE ReadMiss(c)
        <4>1. Invalidate(call[c].win) /\ call[c].win \in Windows
          BY <3>1 DEF ReadMiss, CacheMiss, ObsShape, ObsTypes, Call
        <4>2. QED  BY <4>1, InvalidateEntries DEF ObsShape
      <3>2. CASE Walk(c) \/ WalkFails(c)
        BY <3>2 DEF Walk, WalkFails, cacheVars
      <3>3. QED  BY <1>5, <3>1, <3>2
    <2>3. \A d \in Clients, v \in Windows : Known(d, v)' = Known(d, v)
      BY <2>1 DEF Known
    <2>4. \A d \in Clients, v \in Windows : Seen(d, v)'
      BY <2>1, <2>2, <2>3 DEF SeenInv
    <2>5. \A d \in Clients : Peek(d)'
      BY <2>1 DEF SeenInv
    <2>6. QED  BY <2>4, <2>5 DEF SeenInv
  <1>6. ASSUME NEW c \in Clients, StoreWalk(c) PROVE SeenInv'
    <2> DEFINE w == call[c].win
    <2>1. /\ w \in Windows /\ fresh[c] \in Nat /\ pc[c] = "store"
          /\ Put(w, fresh[c]) /\ UNCHANGED <<shown, call, base, blind>>
          /\ refilled' = Refilled(c)
          /\ pc' = [pc EXCEPT ![c] = AfterRead(c)]
          /\ fresh' = [fresh EXCEPT ![c] = Kept(c, fresh[c])]
      BY <1>6 DEF StoreWalk, ObsShape, ObsTypes, Call
    <2>2. /\ entries'[w] # NoEntry => entries'[w].tree = fresh[c]
          /\ \A v \in Windows \ {w} : entries'[v] \in {NoEntry, entries[v]}
      BY <2>1, PutEntries DEF ObsShape
    <2>3. /\ \A d \in Clients, v \in Windows \ {w} : refilled'[d][v] = refilled[d][v]
          /\ \A d \in Clients \ {c} : refilled'[d][w] = TRUE
          /\ call[c].mode = "silent" => refilled'[c][w] = TRUE
      BY <2>1 DEF Refilled, ObsShape, ObsTypes
    <2>4. AfterRead(c) = IF call[c].mode = "silent" THEN "idle" ELSE "token"
      BY DEF AfterRead
    <2>5. \A d \in Clients, v \in Windows \ {w} : Known(d, v)' = Known(d, v)
      BY <2>1, <2>4 DEF Known, ObsShape, ObsTypes
    <2>6. call[c].mode # "silent" => Known(c, w)' = fresh[c]
      BY <2>1, <2>4 DEF Known, Kept, ObsShape, ObsTypes
    <2>7. \A d \in Clients, v \in Windows : Seen(d, v)'
      <3> SUFFICES ASSUME NEW d \in Clients, NEW v \in Windows PROVE Seen(d, v)'
        OBVIOUS
      <3>1. CASE v # w
        BY <3>1, <2>2, <2>3, <2>5 DEF SeenInv
      <3>2. CASE v = w /\ refilled'[d][v] = TRUE
        BY <3>2
      <3>3. CASE v = w /\ d = c /\ call[c].mode # "silent"
        BY <3>3, <2>1, <2>2, <2>6 DEF Known
      <3>4. QED  BY <3>1, <3>2, <3>3, <2>3
    <2>8. \A d \in Clients : Peek(d)'
      BY <2>1, <2>4 DEF SeenInv, ObsShape, ObsTypes
    <2>9. QED  BY <2>7, <2>8 DEF SeenInv
  <1>7. ASSUME NEW c \in Clients, Reply(c) PROVE SeenInv'
    <2> DEFINE w == call[c].win
    <2>1. /\ w \in Windows /\ pc[c] = "token" /\ pc' = [pc EXCEPT ![c] = "idle"]
          /\ shown' = [shown EXCEPT ![c][w] = fresh[c]]
          /\ fresh' = [fresh EXCEPT ![c] = NoTree]
          /\ base' = [base EXCEPT ![c] = NoTree]
          /\ UNCHANGED <<entries, call, refilled, blind>>
      BY <1>7 DEF Reply, cacheVars, ObsShape, ObsTypes, Call
    <2>2. \A d \in Clients, v \in Windows : Known(d, v)' = Known(d, v)
      BY <2>1 DEF Known, ObsShape, ObsTypes
    <2>3. \A d \in Clients, v \in Windows : Seen(d, v)'
      BY <2>1, <2>2 DEF SeenInv
    <2>4. \A d \in Clients : Peek(d)'
      BY <2>1 DEF SeenInv, ObsShape, ObsTypes
    <2>5. QED  BY <2>3, <2>4 DEF SeenInv
  <1>8. CASE Environment
    <2>1. /\ UNCHANGED <<refilled, shown, blind, call, base, pc, fresh>>
          /\ \A v \in Windows : entries'[v] # NoEntry =>
                entries[v] # NoEntry /\ entries'[v].tree = entries[v].tree
      BY <1>8, EnvironmentEffect DEF clientVars
    <2>2. QED  BY <2>1 DEF SeenInv, Known
  <1>9. CASE UNCHANGED vars
    BY <1>9 DEF vars, clientVars, cacheVars, SeenInv, Known
  <1>10. QED
    BY <1>1, <1>2, <1>3, <1>4, <1>5, <1>6, <1>7, <1>8, <1>9 DEF Next, Environment

(* What changed_only reports is a change from what the client last learned of  *)
(* the window, unless a capture of it was stored in between by somebody else or *)
(* by a call that shows no tree (observe_window, TreeCache.peek).            *)
THEOREM ChangesAreFromWhatWasShown == Spec => ChangesFromWhatWasShown
  <1>1. Init => ObsShape /\ SeenInv
    BY ObsInitInvs
  <1>2. ObsShape /\ SeenInv /\ [Next]_vars => (ObsShape /\ SeenInv)'
    BY ObsNextShape, SeenNext
  <1>3. ObsShape /\ SeenInv /\ [Next]_vars =>
          [\A c \in Clients :
             Replies(c) /\ call[c].mode = "changed" /\ base[c] # NoTree /\ ~ blind[c]
             => base[c] = shown[c][call[c].win]]_vars
    BY DEF SeenInv, Replies
  <1>4. QED  BY <1>1, <1>2, <1>3, PTL DEF Spec, ChangesFromWhatWasShown

(* One client: the version it is shown is never behind one it saw before.     *)
LEMMA AheadNext ==
    ASSUME \A c, d \in Clients : c = d, ObsShape, AheadInv, [Next]_vars
    PROVE  AheadInv'
  <1>1. ASSUME NEW c \in Clients
        PROVE  /\ call[c].win \in Windows
               /\ pc[c] \in {"store", "token"} => fresh[c] \in Nat
               /\ \A w \in Windows : /\ world[w] \in Nat
                                     /\ shown[c][w] \in Version
                                     /\ entries[w] # NoEntry => entries[w].tree \in Nat
    BY DEF ObsShape, ObsTypes, Call
  <1>2. ASSUME UNCHANGED <<world, shown>>,
               \A w \in Windows : entries'[w] \in {NoEntry, entries[w]},
               \A d \in Clients : pc'[d] \notin {"store", "token"}
        PROVE  AheadInv'
    BY <1>2 DEF AheadInv
  <1>3. ASSUME NEW c \in Clients,
               Begin(c) \/ SinceBase(c) \/ PeekBase(c) \/ ReadMiss(c) \/ WalkFails(c)
        PROVE  AheadInv'
    <2>1. UNCHANGED <<world, shown>>
      BY <1>3 DEF Begin, SinceBase, PeekBase, ReadMiss, WalkFails
    <2>2. \A w \in Windows : entries'[w] \in {NoEntry, entries[w]}
      <3>1. CASE ReadMiss(c)
        BY <3>1, <1>1, InvalidateEntries DEF ReadMiss, CacheMiss, ObsShape
      <3>2. CASE ~ ReadMiss(c)
        BY <3>2, <1>3 DEF Begin, SinceBase, PeekBase, WalkFails, cacheVars
      <3>3. QED  BY <3>1, <3>2
    <2>3. pc'[c] \notin {"store", "token"}
      BY <1>3, FirstSteps DEF Begin, SinceBase, PeekBase, ReadMiss, WalkFails,
                              ObsShape, ObsTypes
    <2>4. \A d \in Clients : pc'[d] \notin {"store", "token"}
      BY <2>3
    <2>5. QED  BY <2>1, <2>2, <2>4, <1>2
  <1>4. ASSUME NEW c \in Clients, ReadHit(c) PROVE AheadInv'
    <2> DEFINE w == call[c].win
    <2>1. /\ entries[w] # NoEntry /\ UNCHANGED <<entries, world, call, shown>>
          /\ pc' = [pc EXCEPT ![c] = AfterRead(c)]
          /\ fresh' = [fresh EXCEPT ![c] = Kept(c, entries[w].tree)]
      BY <1>4 DEF ReadHit, CacheHit, Fresh
    <2>2. CASE call[c].mode = "silent"
      <3>1. pc'[c] = "idle"
        BY <2>1, <2>2 DEF AfterRead, ObsShape, ObsTypes
      <3>2. \A d \in Clients : pc'[d] \notin {"store", "token"}
        BY <3>1
      <3>3. QED  BY <2>1, <3>2, <1>2
    <2>3. CASE call[c].mode # "silent"
      <3>1. pc'[c] = "token" /\ fresh'[c] = entries[w].tree
        BY <2>1, <2>3 DEF AfterRead, Kept, ObsShape, ObsTypes
      <3>2. /\ entries[w].tree \in Nat /\ entries[w].tree <= world[w]
            /\ shown[c][w] # NoTree => shown[c][w] <= entries[w].tree
        BY <2>1, <1>1 DEF AheadInv
      <3>3. \A d \in Clients : d = c
        OBVIOUS
      <3>4. QED  BY <2>1, <3>1, <3>2, <3>3 DEF AheadInv
    <2>4. QED  BY <2>2, <2>3
  <1>5. ASSUME NEW c \in Clients, Walk(c) PROVE AheadInv'
    <2> DEFINE w == call[c].win
    <2>1. /\ UNCHANGED <<entries, world, call, shown>>
          /\ pc'[c] = "store" /\ fresh'[c] = world[w]
      BY <1>5 DEF Walk, cacheVars, ObsShape, ObsTypes
    <2>2. /\ world[w] \in Nat /\ world[w] <= world[w]
          /\ shown[c][w] # NoTree => shown[c][w] <= world[w]
      BY <1>1 DEF AheadInv
    <2>3. \A d \in Clients : d = c
      OBVIOUS
    <2>4. QED  BY <2>1, <2>2, <2>3 DEF AheadInv
  <1>6. ASSUME NEW c \in Clients, StoreWalk(c) PROVE AheadInv'
    <2> DEFINE w == call[c].win
    <2>1. /\ pc[c] = "store" /\ Put(w, fresh[c]) /\ UNCHANGED <<world, call, shown>>
          /\ pc' = [pc EXCEPT ![c] = AfterRead(c)]
          /\ fresh' = [fresh EXCEPT ![c] = Kept(c, fresh[c])]
      BY <1>6 DEF StoreWalk
    <2>2. /\ w \in Windows /\ fresh[c] \in Nat /\ fresh[c] <= world[w]
          /\ fresh[c] <= fresh[c]
          /\ shown[c][w] # NoTree => shown[c][w] <= fresh[c]
      BY <2>1, <1>1 DEF AheadInv
    <2>3. /\ entries'[w] # NoEntry => entries'[w].tree = fresh[c]
          /\ \A v \in Windows \ {w} : entries'[v] \in {NoEntry, entries[v]}
      BY <2>1, <2>2, PutEntries DEF ObsShape
    <2>4. pc'[c] = "token" => fresh'[c] = fresh[c]
      BY <2>1 DEF AfterRead, Kept, ObsShape, ObsTypes
    <2>5. pc'[c] # "store"
      BY <2>1 DEF AfterRead, ObsShape, ObsTypes
    <2>6. ASSUME NEW v \in Windows
          PROVE  /\ entries'[v] # NoEntry => entries'[v].tree <= world[v]
                 /\ shown[c][v] # NoTree => shown[c][v] <= world[v]
                 /\ shown[c][v] # NoTree /\ entries'[v] # NoEntry =>
                       shown[c][v] <= entries'[v].tree
      <3>1. CASE v = w
        BY <2>2, <2>3, <3>1 DEF AheadInv
      <3>2. CASE v # w
        BY <2>3, <3>2 DEF AheadInv
      <3>3. QED  BY <3>1, <3>2
    <2>7. /\ pc'[c] \in {"store", "token"} =>
                /\ fresh'[c] <= world[w]
                /\ shown[c][w] # NoTree => shown[c][w] <= fresh'[c]
          /\ pc'[c] = "token" /\ entries'[w] # NoEntry => fresh'[c] <= entries'[w].tree
      BY <2>2, <2>3, <2>4, <2>5
    <2>8. \A d \in Clients : d = c
      OBVIOUS
    <2>9. QED  BY <2>1, <2>6, <2>7, <2>8 DEF AheadInv
  <1>7. ASSUME NEW c \in Clients, Reply(c) PROVE AheadInv'
    <2> DEFINE w == call[c].win
    <2>1. /\ pc[c] = "token" /\ w \in Windows
          /\ pc' = [pc EXCEPT ![c] = "idle"]
          /\ shown' = [shown EXCEPT ![c][w] = fresh[c]]
          /\ UNCHANGED <<entries, world, call>>
      BY <1>7, <1>1 DEF Reply, cacheVars
    <2>2. /\ shown'[c][w] = fresh[c] /\ pc'[c] = "idle"
          /\ \A v \in Windows \ {w} : shown'[c][v] = shown[c][v]
      BY <2>1 DEF ObsShape, ObsTypes
    <2>3. /\ fresh[c] <= world[w]
          /\ entries[w] # NoEntry => fresh[c] <= entries[w].tree
      BY <2>1 DEF AheadInv
    <2>4. ASSUME NEW v \in Windows
          PROVE  /\ entries[v] # NoEntry => entries[v].tree <= world[v]
                 /\ shown'[c][v] # NoTree => shown'[c][v] <= world[v]
                 /\ shown'[c][v] # NoTree /\ entries[v] # NoEntry =>
                       shown'[c][v] <= entries[v].tree
      BY <2>2, <2>3 DEF AheadInv
    <2>5. \A d \in Clients : d = c
      OBVIOUS
    <2>6. QED  BY <2>1, <2>2, <2>4, <2>5 DEF AheadInv
  <1>8. CASE Environment
    <2>1. /\ UNCHANGED <<shown, call, pc, fresh>>
          /\ \A w \in Windows : /\ world'[w] \in Nat /\ world[w] <= world'[w]
                                /\ entries'[w] # NoEntry =>
                                      /\ entries[w] # NoEntry
                                      /\ entries'[w].tree = entries[w].tree
      BY <1>8, EnvironmentEffect DEF clientVars
    <2>2. ASSUME NEW d \in Clients, NEW w \in Windows
          PROVE  /\ entries'[w] # NoEntry => entries'[w].tree <= world'[w]
                 /\ shown[d][w] # NoTree => shown[d][w] <= world'[w]
                 /\ shown[d][w] # NoTree /\ entries'[w] # NoEntry =>
                       shown[d][w] <= entries'[w].tree
      BY <2>1, <1>1 DEF AheadInv, Version
    <2>3. ASSUME NEW d \in Clients
          PROVE  /\ pc[d] \in {"store", "token"} =>
                       /\ fresh[d] <= world'[call[d].win]
                       /\ shown[d][call[d].win] # NoTree =>
                             shown[d][call[d].win] <= fresh[d]
                 /\ pc[d] = "token" /\ entries'[call[d].win] # NoEntry =>
                       fresh[d] <= entries'[call[d].win].tree
      BY <2>1, <1>1 DEF AheadInv
    <2>4. QED  BY <2>1, <2>2, <2>3 DEF AheadInv
  <1>9. CASE UNCHANGED vars
    BY <1>9 DEF vars, clientVars, cacheVars, AheadInv
  <1>10. QED
    BY <1>3, <1>4, <1>5, <1>6, <1>7, <1>8, <1>9 DEF Next, Environment

(* A client alone with the program never sees a window go back in time,       *)
(* whichever mix of full, since=, changed_only and silent reads it makes      *)
(* (observe_window, get_tree_cached).  With two clients it can: one that      *)
(* walked early may store late.                                              *)
THEOREM NeverBackAlone ==
    ASSUME \A c, d \in Clients : c = d
    PROVE  Spec => NeverBack
  <1>1. Init => ObsShape /\ AheadInv
    BY ObsInitInvs
  <1>2. ObsShape /\ AheadInv /\ [Next]_vars => (ObsShape /\ AheadInv)'
    BY ObsNextShape, AheadNext
  <1>3. ObsShape /\ AheadInv /\ [Next]_vars =>
          [\A c \in Clients :
             LET w == call[c].win
             IN  Replies(c) /\ shown[c][w] # NoTree => fresh[c] >= shown[c][w]]_vars
    <2> SUFFICES ASSUME ObsShape, AheadInv, NEW c \in Clients, Replies(c),
                        shown[c][call[c].win] # NoTree
                 PROVE  fresh[c] >= shown[c][call[c].win]
      OBVIOUS
    <2>1. pc[c] = "token" /\ fresh[c] \in Nat /\ shown[c][call[c].win] \in Nat
      BY DEF Replies, ObsShape, ObsTypes, Call, Version
    <2>2. shown[c][call[c].win] <= fresh[c]
      BY <2>1 DEF AheadInv
    <2>3. QED  BY <2>1, <2>2
  <1>4. QED  BY <1>1, <1>2, <1>3, PTL DEF Spec, NeverBack

-------------------------------------------------------------------------------
(* The two together: what the clients do to the token store is what the       *)
(* module of that store says can be done to it.                              *)

(* Clients use the token store only through its put, get and the passing of   *)
(* time, with versions as captures.                                          *)
THEOREM ClientsUseTheTokenStore == Spec => TokenSpec
  <1>1. Init => TokenInit
    BY DEF Init
  <1>2. ASSUME ObsShape, [Next]_vars PROVE [TokenNext]_tokenVars
    <2>1. ASSUME NEW c \in Clients, SinceBase(c) PROVE TokenNext
      <3>1. GetToken(call[c].since) /\ call[c].mode = "since"
        BY <2>1 DEF SinceBase
      <3>2. call[c].since \in Tokens
        <4>1. call[c].since \in Issued
          BY <1>2, <3>1 DEF ObsShape
        <4>2. QED  BY <4>1 DEF Issued
      <3>3. QED  BY <3>1, <3>2 DEF TokenNext
    <2>2. ASSUME NEW c \in Clients, Reply(c) PROVE TokenNext
      <3>1. PICK t \in Tokens : PutToken(call[c].win, fresh[c], t)
        BY <2>2 DEF Reply
      <3>2. call[c].win \in Windows /\ fresh[c] \in Captures
        <4>1. pc[c] = "token"
          BY <2>2 DEF Reply
        <4>2. QED  BY <4>1, <1>2, ObserveAssumption DEF ObsShape, ObsTypes, Call
      <3>3. QED  BY <3>1, <3>2 DEF TokenNext
    <2>3. ASSUME Tick PROVE TokenNext
      BY <2>3 DEF Tick, TokenNext
    <2>4. ASSUME NEW c \in Clients,
                 Begin(c) \/ PeekBase(c) \/ ReadHit(c) \/ ReadMiss(c) \/ Walk(c)
                 \/ WalkFails(c) \/ StoreWalk(c)
          PROVE  UNCHANGED tokenVars
      BY <2>4 DEF Begin, PeekBase, ReadHit, ReadMiss, Walk, WalkFails, StoreWalk,
                  tokenVars
    <2>5. ASSUME NEW w \in Windows, AppChanges(w) \/ Dropped(w)
          PROVE  UNCHANGED tokenVars
      BY <2>5 DEF AppChanges, Dropped, tokenVars
    <2>6. CASE UNCHANGED vars
      BY <2>6 DEF vars, tokenVars
    <2>7. QED  BY <1>2, <2>1, <2>2, <2>3, <2>4, <2>5, <2>6 DEF Next
  <1>3. Init => ObsShape
    BY ObsInitInvs
  <1>4. ObsShape /\ [Next]_vars => ObsShape'
    BY ObsNextShape
  <1>5. ObsShape /\ [Next]_vars => [TokenNext]_tokenVars
    BY <1>2
  <1>6. QED  BY <1>1, <1>3, <1>4, <1>5, PTL DEF Spec, TokenSpec

(* So a since= token of a client finds its capture as long as its time lasts  *)
(* and fewer than Ring later captures of its own window were handed out,      *)
(* however many clients observe, wait and look for elements in between.      *)
THEOREM ObserversKeepBaselines == Spec => []BaselinesKept
  <1>1. Spec => TokenSpec
    BY ClientsUseTheTokenStore
  <1>2. TokenSpec => []BaselinesKept
    BY BaselinesStay
  <1>3. QED  BY <1>1, <1>2

===============================================================================
