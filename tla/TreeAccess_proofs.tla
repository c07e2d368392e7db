-------------------------- MODULE TreeAccess_proofs --------------------------
(***************************************************************************)
(* The tree cache keeps its shape, no caller is handed content older than   *)
(* a TTL and one walk, and receipts see their own action: for any number of *)
(* threads and windows, any TTL and any capacity.  A client that is alone     *)
(* reads what its finished actions made.                                     *)
(***************************************************************************)
EXTENDS TreeAccess, DataLemmas

Entry == [tree : Tree, age : 0..Stale]

(* What the cache part of the state satisfies: the age of a servable entry  *)
(* bounds the age of the tree in it.                                        *)
CacheInv ==
    /\ entries \in [Windows -> Entry \cup {NoEntry}]
    /\ lru \in Seq(Windows)
    /\ CacheShape
    /\ \A w \in Windows :
          Fresh(w) => entries[w].tree.age <= entries[w].age + MaxWalk

LEMMA EntriesDiffer == NoEntry \notin Entry /\ NoTree \notin Tree
  <1>1. 0..Old \subseteq Nat /\ 0..Stale \subseteq Nat
    OBVIOUS
  <1>2. Tree \subseteq [ver : Nat, age : Nat]
    BY <1>1 DEF Tree
  <1>3. Entry \subseteq [tree : [ver : Nat, age : Nat], age : Nat]
    BY <1>1, <1>2 DEF Entry
  <1>4. QED
    BY <1>2, <1>3, AccessAssumption

LEMMA HitKeepsCache ==
    ASSUME CacheInv, NEW w \in Windows, CacheHit(w)
    PROVE  CacheInv'
  <1>1. lru' \in Seq(Windows) /\ Distinct(lru') /\ Keys(lru') = Keys(lru) \cup {w}
        /\ Len(lru') = IF w \in Keys(lru) THEN Len(lru) ELSE Len(lru) + 1
    BY TouchProperties DEF CacheInv, CacheShape, CacheHit
  <1>2. w \in Keys(lru)
    BY DEF CacheHit, Fresh, CacheInv, CacheShape, Cached
  <1>3. QED
    BY <1>1, <1>2 DEF CacheInv, CacheShape, CacheHit, Cached, Fresh

LEMMA InvalidateKeepsCache ==
    ASSUME CacheInv, NEW w \in Windows, Invalidate(w)
    PROVE  CacheInv'
  <1>1. lru' \in Seq(Windows) /\ Distinct(lru') /\ Keys(lru') = Keys(lru) \ {w}
        /\ Len(lru') = IF w \in Keys(lru) THEN Len(lru) - 1 ELSE Len(lru)
    BY WithoutProperties DEF CacheInv, CacheShape, Invalidate
  <1>2. Len(lru') <= MaxWindows
    BY <1>1, CacheAssumption DEF CacheInv, CacheShape
  <1>3. /\ entries' \in [Windows -> Entry \cup {NoEntry}]
        /\ \A v \in Windows : entries'[v] = IF v = w THEN NoEntry ELSE entries[v]
    BY DEF Invalidate, CacheInv
  <1>4. Cached' = Cached \ {w}
    BY <1>3 DEF Cached
  <1>5. QED
    BY <1>1, <1>2, <1>3, <1>4 DEF CacheInv, CacheShape, Fresh

LEMMA InvalidateAllKeepsCache ==
    ASSUME InvalidateAll
    PROVE  CacheInv'
  <1>1. Keys(<<>>) = {} /\ Distinct(<<>>) /\ Len(<<>>) = 0
    BY DEF Keys, Distinct
  <1>2. QED
    BY <1>1, CacheAssumption
       DEF InvalidateAll, CacheInv, CacheShape, Cached, Fresh

LEMMA PutKeepsCache ==
    ASSUME CacheInv, NEW w \in Windows, NEW t \in Tree, t.age <= MaxWalk,
           Put(w, t)
    PROVE  CacheInv'
  <1> DEFINE a == Touch(lru, w)
             k == Newest(a, MaxWindows)
  <1>1. a \in Seq(Windows) /\ Distinct(a) /\ Keys(a) = Keys(lru) \cup {w}
        /\ a[Len(a)] = w
        /\ Len(a) = IF w \in Keys(lru) THEN Len(lru) ELSE Len(lru) + 1
    <2>1. lru \in Seq(Windows) /\ Distinct(lru)
      BY DEF CacheInv, CacheShape
    <2> HIDE DEF CacheInv, Put
    <2>2. QED  BY <2>1, TouchProperties
  <1> HIDE DEF a
  <1>2. Len(a) > 0
    <2>1. CASE w \in Keys(lru)
      BY <2>1, <1>1 DEF Keys, CacheInv
    <2>2. CASE w \notin Keys(lru)
      BY <2>2, <1>1 DEF CacheInv
    <2>3. QED  BY <2>1, <2>2
  <1>3. k \in Seq(Windows) /\ Distinct(k) /\ Keys(k) \subseteq Keys(a)
        /\ Len(k) <= MaxWindows /\ w \in Keys(k)
    BY <1>1, <1>2, NewestProperties, CacheAssumption
  <1> HIDE DEF k
  <1>4. /\ lru' = k
        /\ entries' = [v \in Windows |->
                          IF v \notin Keys(k) THEN NoEntry
                          ELSE IF v = w THEN [tree |-> t, age |-> 0]
                          ELSE entries[v]]
    BY DEF Put, k, a
  <1>5. [tree |-> t, age |-> 0] \in Entry
    BY CacheAssumption DEF Entry, Stale
  <1>6. entries' \in [Windows -> Entry \cup {NoEntry}]
    BY <1>4, <1>5 DEF CacheInv
  <1>7. Cached' = Keys(k)
    <2>1. ASSUME NEW v \in Windows, v \in Keys(k)
          PROVE  entries'[v] # NoEntry
      BY <2>1, <1>1, <1>3, <1>4, <1>5, EntriesDiffer
         DEF CacheInv, CacheShape, Cached
    <2>2. Keys(k) \subseteq Windows
      BY <1>3 DEF Keys
    <2>3. QED  BY <2>1, <2>2, <1>4 DEF Cached
  <1>8. \A v \in Windows :
           Fresh(v)' => entries'[v].tree.age <= entries'[v].age + MaxWalk
    <2> SUFFICES ASSUME NEW v \in Windows, Fresh(v)'
                 PROVE  entries'[v].tree.age <= entries'[v].age + MaxWalk
      OBVIOUS
    <2>1. CASE v = w
      BY <2>1, <1>3, <1>4, AccessAssumption DEF Tree, Fresh
    <2>2. CASE v # w
      BY <2>2, <1>4 DEF CacheInv, Fresh
    <2>3. QED  BY <2>1, <2>2
  <1>9. QED
    BY <1>3, <1>4, <1>6, <1>7, <1>8 DEF CacheInv, CacheShape

LEMMA AgedTree ==
    ASSUME NEW t \in Tree
    PROVE  Aged(t) \in Tree /\ Aged(t).ver = t.ver /\ Aged(t).age <= t.age + 1
  BY CacheAssumption, AccessAssumption DEF Aged, Tree, Old

LEMMA AgesKeepCache ==
    ASSUME CacheInv, CacheAges(AgedTrees)
    PROVE  CacheInv'
  <1> DEFINE up(e) == [tree |-> Aged(e.tree),
                       age |-> IF e.age < Stale THEN e.age + 1 ELSE Stale]
  <1>1. /\ lru' = lru
        /\ entries' = [w \in Windows |-> IF entries[w] = NoEntry THEN NoEntry
                                         ELSE up(entries[w])]
    BY DEF CacheAges, AgedTrees, Cached
  <1>2. \A e \in Entry : up(e) \in Entry
    BY AgedTree, CacheAssumption DEF Entry, Stale
  <1>3. entries' \in [Windows -> Entry \cup {NoEntry}]
    BY <1>1, <1>2 DEF CacheInv
  <1>4. Cached' = Cached
    BY <1>1, <1>2, EntriesDiffer DEF Cached, CacheInv
  <1>5. \A w \in Windows :
           Fresh(w)' => entries'[w].tree.age <= entries'[w].age + MaxWalk
    <2> SUFFICES ASSUME NEW w \in Windows, Fresh(w)'
                 PROVE  entries'[w].tree.age <= entries'[w].age + MaxWalk
      OBVIOUS
    <2>1. entries[w] # NoEntry /\ entries[w] \in Entry
      BY <1>1 DEF Fresh, CacheInv
    <2>2. entries'[w] = up(entries[w]) /\ entries'[w].age <= TTL
      BY <2>1, <1>1 DEF Fresh
    <2>3. entries[w].age <= TTL /\ entries'[w].age = entries[w].age + 1
      BY <2>1, <2>2, CacheAssumption DEF Entry, Stale
    <2>4. entries[w].tree.age <= entries[w].age + MaxWalk
      BY <2>1, <2>3 DEF CacheInv, Fresh
    <2>5. entries'[w].tree = Aged(entries[w].tree) /\ entries[w].tree \in Tree
      BY <2>1, <2>2 DEF Entry
    <2>6. entries'[w].tree.age <= entries[w].tree.age + 1
      BY <2>5, AgedTree
    <2>7. entries'[w].tree.age \in Nat
      BY <2>5, AgedTree, CacheAssumption, AccessAssumption DEF Tree
    <2>8. QED
      BY <2>1, <2>3, <2>4, <2>5, <2>6, <2>7, AccessAssumption, CacheAssumption
         DEF Entry, Tree
  <1>6. QED
    BY <1>1, <1>3, <1>4, <1>5 DEF CacheInv, CacheShape
-------------------------------------------------------------------------------
Types ==
    /\ world \in [Windows -> Nat]
    /\ pc \in [Workers -> {"idle", "lookup", "walk", "store", "act",
                           "invalidate"}]
    /\ req \in [Workers -> [kind : Kinds, win : Windows]]
    /\ phase \in [Workers -> {"before", "after", "observe"}]
    /\ held \in [Workers -> Tree \cup {NoTree}]
    /\ got \in [Workers -> Tree \cup {NoTree}]
    /\ did \in [Workers -> [Windows -> Nat]]
    /\ floor \in [Workers -> [Windows -> Nat]]
    /\ acked \in [Windows -> Nat]

(* What one worker's control state says of the trees it deals with.         *)
WorkerInv(p) ==
    /\ pc[p] = "store" <=> held[p] # NoTree
    /\ held[p] # NoTree => held[p].age <= MaxWalk
    /\ got[p] # NoTree => got[p].age <= TTL + MaxWalk
    /\ \A w \in Windows : did[p][w] <= world[w]
    /\ pc[p] = "lookup" => phase[p] # "after"
    /\ pc[p] = "act" => phase[p] = "before"
    /\ pc[p] = "store" /\ phase[p] = "after" =>
          held[p].ver >= did[p][req[p].win]
    /\ HasReceipt(p) /\ got[p] # NoTree =>
          got[p].ver >= did[p][req[p].win]

IInv == CacheInv /\ Types /\ \A p \in Workers : WorkerInv(p)

LEMMA InitIInv == Init => IInv
  <1> SUFFICES ASSUME Init PROVE IInv
    OBVIOUS
  <1>1. Keys(<<>>) = {} /\ Distinct(<<>>) /\ Len(<<>>) = 0
    BY DEF Keys, Distinct
  <1>2. CacheInv
    BY <1>1, CacheAssumption
       DEF Init, CacheInit, CacheInv, CacheShape, Cached, Fresh
  <1>3. Types
    BY DEF Init, Types, Zero
  <1>4. \A p \in Workers : WorkerInv(p)
    BY DEF Init, WorkerInv, HasReceipt, Zero
  <1>5. QED
    BY <1>2, <1>3, <1>4 DEF IInv

(* A step of p: the other workers stay where they are ...                   *)
OthersWait(p) ==
    \A q \in Workers \ {p} :
       /\ pc'[q] = pc[q] /\ req'[q] = req[q] /\ phase'[q] = phase[q]
       /\ held'[q] = held[q] /\ got'[q] = got[q] /\ did'[q] = did[q]

(* ... and no window goes back to an earlier version.                        *)
NothingUndone == \A w \in Windows : world'[w] >= world[w]

(* A step that leaves the windows and the other workers alone preserves the *)
(* invariant if it does so for its own worker.                              *)
LEMMA Others ==
    ASSUME IInv, NEW p \in Workers, CacheInv', Types', WorkerInv(p)',
           OthersWait(p), NothingUndone
    PROVE  IInv'
  <1>1. ASSUME NEW q \in Workers, q # p
        PROVE  WorkerInv(q)'
    <2>1. \A w \in Windows : did[q][w] <= world[w] /\ did[q][w] \in Nat
                             /\ world[w] \in Nat /\ world'[w] \in Nat
      BY DEF IInv, WorkerInv, Types
    <2>2. \A w \in Windows : did'[q][w] <= world'[w]
      BY <1>1, <2>1 DEF OthersWait, NothingUndone
    <2>3. QED
      BY <1>1, <2>2 DEF IInv, WorkerInv, HasReceipt, OthersWait
  <1>2. QED
    BY <1>1 DEF IInv

(* A read of p's call returns t. *)
LEMMA ReturnKeeps ==
    ASSUME IInv, NEW p \in Workers, NEW t \in Tree, Return(p, t),
           pc[p] \in {"lookup", "store"}, t.age <= TTL + MaxWalk,
           pc[p] = "store" /\ phase[p] = "after" =>
              t.ver >= did[p][req[p].win],
           held' = [held EXCEPT ![p] = NoTree],
           UNCHANGED <<world, req, did, floor, acked>>, CacheInv'
    PROVE  IInv'
  <1>0. Types /\ WorkerInv(p)
    BY DEF IInv
  <1>1. /\ pc' = [pc EXCEPT ![p] = AfterRead(p)]
        /\ got' = [got EXCEPT ![p] = t]
        /\ phase' = [phase EXCEPT ![p] = IF AfterRead(p) = "lookup"
                                         THEN "observe" ELSE phase[p]]
        /\ AfterRead(p) \in {"idle", "act", "lookup", "invalidate"}
    BY <1>0 DEF Return, AfterRead, Types
  <1>2. Types'
    BY <1>0, <1>1 DEF Types
  <1>3. t # NoTree
    BY EntriesDiffer
  <1>4. /\ phase[p] = "after" => pc[p] = "store"
        /\ AfterRead(p) = "act" => phase[p] = "before"
        /\ AfterRead(p) = "lookup" => phase[p] = "after"
    BY <1>0 DEF WorkerInv, AfterRead, Types
  <1>5. WorkerInv(p)'
    <2>1. pc'[p] = AfterRead(p) /\ got'[p] = t /\ held'[p] = NoTree
          /\ phase'[p] = IF AfterRead(p) = "lookup" THEN "observe" ELSE phase[p]
      BY <1>0, <1>1 DEF Types
    <2>2. HasReceipt(p)' => pc[p] = "store" /\ phase[p] = "after"
      BY <2>1, <1>1, <1>4, <1>0 DEF HasReceipt, Types
    <2>3. QED
      BY <2>1, <2>2, <1>0, <1>1, <1>4 DEF WorkerInv
  <1>6. OthersWait(p) /\ NothingUndone
    BY <1>0, <1>1 DEF Types, OthersWait, NothingUndone
  <1>7. QED  BY <1>2, <1>5, <1>6, Others

LEMMA NextIInv == IInv /\ [Next]_vars => IInv'
  <1> SUFFICES ASSUME IInv, [Next]_vars PROVE IInv'
    OBVIOUS
  <1>0. Types /\ CacheInv
    BY DEF IInv
  <1>00. UNCHANGED cacheVars => CacheInv'
    BY <1>0 DEF cacheVars, CacheInv, CacheShape, Cached, Fresh
  <1>1. ASSUME NEW p \in Workers, Begin(p) PROVE IInv'
    <2>1. Types'
      BY <1>1, <1>0 DEF Begin, Types, Zero
    <2>2. WorkerInv(p)'
      <3>1. /\ pc'[p] \in {"lookup", "act"} /\ phase'[p] = "before"
            /\ got'[p] = NoTree /\ did'[p] = Zero
            /\ held'[p] = NoTree /\ world' = world
        BY <1>1, <1>0 DEF Begin, Types, IInv, WorkerInv
      <3>2. QED
        BY <3>1, <1>0 DEF WorkerInv, HasReceipt, Zero, Types
    <2>3. OthersWait(p) /\ NothingUndone
      BY <1>1, <1>0 DEF Begin, Types, OthersWait, NothingUndone
    <2>4. CacheInv'
      BY <1>1, <1>00 DEF Begin
    <2>5. QED  BY <2>1, <2>2, <2>3, <2>4, Others
  <1>2. ASSUME NEW p \in Workers, LookupHit(p) PROVE IInv'
    <2> DEFINE w == req[p].win
    <2>1. w \in Windows
      BY <1>0 DEF Types
    <2>2. CacheInv'
      BY <1>2, <1>0, <2>1, HitKeepsCache DEF LookupHit
    <2>3. /\ entries[w].tree \in Tree
          /\ entries[w].tree.age <= TTL + MaxWalk
      BY <1>2, <1>0, <2>1, CacheAssumption, AccessAssumption
         DEF LookupHit, CacheHit, Fresh, CacheInv, Entry, Tree
    <2>4. pc[p] = "lookup" /\ Return(p, entries[w].tree)
          /\ held' = held /\ UNCHANGED <<world, req, did, floor, acked>>
      BY <1>2 DEF LookupHit
    <2>5. held' = [held EXCEPT ![p] = NoTree]
      BY <2>4, <1>0 DEF IInv, WorkerInv, Types
    <2> HIDE DEF w
    <2>6. QED  BY <2>2, <2>3, <2>4, <2>5, ReturnKeeps
  <1>3. ASSUME NEW p \in Workers, LookupMiss(p) PROVE IInv'
    <2>1. CacheInv'
      BY <1>3, <1>0, InvalidateKeepsCache DEF LookupMiss, CacheMiss, Types
    <2>2. Types'
      BY <1>3, <1>0 DEF LookupMiss, Types
    <2>3. WorkerInv(p)'
      BY <1>3, <1>0 DEF LookupMiss, Types, WorkerInv, HasReceipt, IInv
    <2>4. OthersWait(p) /\ NothingUndone
      BY <1>3, <1>0 DEF LookupMiss, Types, OthersWait, NothingUndone
    <2>5. QED  BY <2>1, <2>2, <2>3, <2>4, Others
  <1>4. ASSUME NEW p \in Workers, Walk(p) PROVE IInv'
    <2> DEFINE t == [ver |-> world[req[p].win], age |-> 0]
    <2>1. /\ held' = [held EXCEPT ![p] = t] /\ pc' = [pc EXCEPT ![p] = "store"]
          /\ pc[p] = "walk"
          /\ UNCHANGED <<cacheVars, world, req, phase, got, did, floor, acked>>
      BY <1>4 DEF Walk
    <2>2. t \in Tree /\ t # NoTree
      BY <1>0, EntriesDiffer, CacheAssumption, AccessAssumption
         DEF Types, Tree, Old
    <2>3. t.age = 0 /\ t.ver = world[req[p].win]
      OBVIOUS
    <2> HIDE DEF t
    <2>4. CacheInv'
      BY <2>1, <1>00
    <2>5. Types'
      BY <2>1, <2>2, <1>0 DEF Types
    <2>6. WorkerInv(p)'
      BY <2>1, <2>2, <2>3, <1>0, AccessAssumption
         DEF Types, WorkerInv, HasReceipt, IInv
    <2>7. OthersWait(p) /\ NothingUndone
      BY <2>1, <1>0 DEF Types, OthersWait, NothingUndone
    <2>8. QED  BY <2>4, <2>5, <2>6, <2>7, Others
  <1>5. ASSUME NEW p \in Workers, WalkFails(p) PROVE IInv'
    <2>1. CacheInv'
      BY <1>5, <1>00 DEF WalkFails
    <2>2. Types'
      BY <1>5, <1>0 DEF WalkFails, Types, AfterRead
    <2>3. WorkerInv(p)'
      <3>1. /\ pc'[p] \in {"idle", "invalidate", "lookup", "act"}
            /\ pc'[p] # "act"
            /\ pc'[p] = "lookup" => phase'[p] = "observe"
            /\ got'[p] = NoTree /\ held'[p] = NoTree
            /\ did' = did /\ world' = world /\ req' = req
        BY <1>5, <1>0 DEF WalkFails, AfterRead, Types, IInv, WorkerInv
      <3>2. QED
        BY <3>1, <1>0 DEF WorkerInv, Types, IInv
    <2>4. OthersWait(p) /\ NothingUndone
      BY <1>5, <1>0 DEF WalkFails, Types, OthersWait, NothingUndone
    <2>5. QED  BY <2>1, <2>2, <2>3, <2>4, Others
  <1>6. ASSUME NEW p \in Workers, Store(p) PROVE IInv'
    <2>1. held[p] \in Tree /\ held[p].age <= MaxWalk
          /\ (phase[p] = "after" => held[p].ver >= did[p][req[p].win])
      BY <1>6, <1>0 DEF Store, IInv, WorkerInv, Types
    <2>2. CacheInv'
      BY <1>6, <1>0, <2>1, PutKeepsCache DEF Store, Types
    <2>3. held[p].age <= TTL + MaxWalk
      BY <2>1, CacheAssumption, AccessAssumption DEF Tree
    <2>4. QED
      BY <1>6, <2>1, <2>2, <2>3, ReturnKeeps DEF Store
  <1>7. ASSUME NEW p \in Workers, Refuse(p) PROVE IInv'
    <2>1. CacheInv'
      BY <1>7, <1>00 DEF Refuse
    <2>2. Types'
      BY <1>7, <1>0 DEF Refuse, Types
    <2>3. WorkerInv(p)'
      BY <1>7, <1>0 DEF Refuse, Types, WorkerInv, HasReceipt, IInv
    <2>4. OthersWait(p) /\ NothingUndone
      BY <1>7, <1>0 DEF Refuse, Types, OthersWait, NothingUndone
    <2>5. QED  BY <2>1, <2>2, <2>3, <2>4, Others
  <1>8. ASSUME NEW p \in Workers, Act(p) PROVE IInv'
    <2> DEFINE k == req[p].kind
    <2>1. PICK S \in Touched(req[p].win) :
             /\ world' = [w \in Windows |-> IF w \in S THEN world[w] + 1
                                                      ELSE world[w]]
             /\ did' = [did EXCEPT ![p] = [w \in Windows |->
                                        IF w \in S THEN world[w] + 1 ELSE 0]]
      BY <1>8 DEF Act
    <2>2. /\ pc' = [pc EXCEPT ![p] = AfterAct(k)]
          /\ phase' = [phase EXCEPT ![p] = IF Targets(k) THEN "after"
                                                          ELSE "observe"]
          /\ AfterAct(k) \in {"walk", "lookup", "invalidate", "idle"}
          /\ Targets(k) => AfterAct(k) = "walk"
          /\ pc[p] = "act"
          /\ UNCHANGED <<cacheVars, req, held, got, floor>>
          /\ acked' = IF AfterAct(k) = "idle" THEN Later(acked, did'[p])
                      ELSE acked
      BY <1>8 DEF Act, AfterAct, Targets
    <2> HIDE DEF k
    <2>3. /\ \A w \in Windows : world'[w] \in Nat /\ world'[w] >= world[w]
          /\ did'[p] \in [Windows -> Nat]
          /\ \A w \in Windows : did'[p][w] <= world'[w]
      BY <2>1, <1>0 DEF Types
    <2>4. CacheInv'
      BY <2>2, <1>00
    <2>5. Types'
      <3>1. acked' \in [Windows -> Nat]
        BY <2>2, <2>3, <1>0 DEF Types, Later
      <3>2. world' \in [Windows -> Nat]
        BY <2>1, <2>3
      <3>3. did' \in [Workers -> [Windows -> Nat]]
        BY <2>1, <2>3, <1>0 DEF Types
      <3>4. QED
        BY <2>2, <3>1, <3>2, <3>3, <1>0 DEF Types
    <2>6. WorkerInv(p)'
      <3>1. pc'[p] = AfterAct(k)
            /\ phase'[p] = IF Targets(k) THEN "after" ELSE "observe"
        BY <2>2, <1>0 DEF Types
      <3>2. ~ HasReceipt(p)'
        BY <3>1, <2>2 DEF HasReceipt, k
      <3>3. held'[p] = NoTree /\ got'[p] = got[p]
        BY <2>2, <1>0 DEF IInv, WorkerInv, Types
      <3>4. pc'[p] \notin {"store", "act"}
            /\ (pc'[p] = "lookup" => phase'[p] # "after")
        BY <3>1, <2>2
      <3>5. got[p] # NoTree => got[p].age <= TTL + MaxWalk
        BY DEF IInv, WorkerInv
      <3>6. QED
        BY <3>2, <3>3, <3>4, <3>5, <2>3 DEF WorkerInv
    <2>7. OthersWait(p) /\ NothingUndone
      BY <2>1, <2>2, <2>3, <1>0 DEF Types, OthersWait, NothingUndone
    <2>8. QED  BY <2>4, <2>5, <2>6, <2>7, Others
  <1>9. ASSUME NEW p \in Workers, Finish(p) PROVE IInv'
    <2>1. CacheInv'
      BY <1>9, <1>0, InvalidateKeepsCache, InvalidateAllKeepsCache
         DEF Finish, Types
    <2>2. Types'
      <3>1. Later(acked, did[p]) \in [Windows -> Nat]
        BY <1>9, <1>0 DEF Types, Later
      <3>2. acked' \in {acked, Later(acked, did[p])}
        BY <1>9 DEF Finish, Acknowledge
      <3>3. QED  BY <1>9, <1>0, <3>1, <3>2 DEF Finish, Types
    <2>3. WorkerInv(p)'
      BY <1>9, <1>0 DEF Finish, Types, WorkerInv, HasReceipt, IInv
    <2>4. OthersWait(p) /\ NothingUndone
      BY <1>9, <1>0 DEF Finish, Types, OthersWait, NothingUndone
    <2>5. QED  BY <2>1, <2>2, <2>3, <2>4, Others
  <1>14. ASSUME NEW p \in Workers, SkipObserve(p) PROVE IInv'
    <2>1. CacheInv'
      BY <1>14, <1>00 DEF SkipObserve
    <2>2. Types'
      BY <1>14, <1>0 DEF SkipObserve, Types
    <2>3. WorkerInv(p)'
      BY <1>14, <1>0 DEF SkipObserve, Types, WorkerInv, HasReceipt, IInv
    <2>4. OthersWait(p) /\ NothingUndone
      BY <1>14, <1>0 DEF SkipObserve, Types, OthersWait, NothingUndone
    <2>5. QED  BY <2>1, <2>2, <2>3, <2>4, Others
  <1>10. ASSUME NEW w \in Windows, AppChanges(w) PROVE IInv'
    <2>1. CacheInv'
      BY <1>10, <1>00 DEF AppChanges
    <2>2. Types'
      BY <1>10, <1>0 DEF AppChanges, Types
    <2>3. ASSUME NEW p \in Workers PROVE WorkerInv(p)'
      <3>1. \A v \in Windows : did[p][v] <= world'[v]
        BY <1>10, <1>0 DEF AppChanges, Types, IInv, WorkerInv
      <3>2. QED
        BY <1>10, <3>1 DEF AppChanges, IInv, WorkerInv, HasReceipt
    <2>4. QED  BY <2>1, <2>2, <2>3 DEF IInv
  <1>11. ASSUME Tick PROVE IInv'
    <2>1. CacheInv'
      BY <1>11, <1>0, AgesKeepCache DEF Tick
    <2>2. \A p \in Workers : held'[p] = IF held[p] = NoTree THEN NoTree
                                       ELSE Aged(held[p])
      BY <1>11 DEF Tick
    <2>3. ASSUME NEW p \in Workers, held[p] # NoTree
          PROVE  /\ held'[p] \in Tree /\ held'[p] # NoTree
                 /\ held'[p].ver = held[p].ver /\ held'[p].age <= MaxWalk
      <3>1. held[p] \in Tree /\ held[p].age < MaxWalk
        BY <1>11, <1>0, <2>3 DEF Tick, Types
      <3>2. /\ Aged(held[p]) \in Tree /\ Aged(held[p]).ver = held[p].ver
            /\ Aged(held[p]).age <= held[p].age + 1
        BY <3>1, AgedTree
      <3>3. Aged(held[p]).age \in Nat /\ held[p].age \in Nat
        BY <3>1, <3>2, CacheAssumption, AccessAssumption DEF Tree
      <3>4. QED
        BY <2>2, <2>3, <3>1, <3>2, <3>3, EntriesDiffer, AccessAssumption
    <2>4. Types'
      <3>1. held' \in [Workers -> Tree \cup {NoTree}]
        BY <1>11, <2>2, <2>3 DEF Tick
      <3>2. QED  BY <1>11, <3>1, <1>0 DEF Tick, Types
    <2>5. ASSUME NEW p \in Workers PROVE WorkerInv(p)'
      BY <1>11, <2>2, <2>3 DEF Tick, IInv, WorkerInv, HasReceipt
    <2>6. QED  BY <2>1, <2>4, <2>5 DEF IInv
  <1>12. CASE UNCHANGED vars
    BY <1>12, <1>00 DEF vars, accessVars, IInv, Types, WorkerInv, HasReceipt
  <1>13. QED
    BY <1>1, <1>2, <1>3, <1>4, <1>5, <1>6, <1>7, <1>8, <1>9, <1>10, <1>11, <1>12,
       <1>14
       DEF Next, Step

LEMMA Invariance == Spec => []IInv
  <1>1. QED  BY InitIInv, NextIInv, PTL DEF Spec
-------------------------------------------------------------------------------
(* Every variable of the readers, actors and cache keeps its type.          *)
THEOREM TypeCorrect == Spec => []TypeOK
  <1>1. IInv => TypeOK
    BY DEF IInv, CacheInv, Types, TypeOK, Entry
  <1>2. QED  BY <1>1, Invariance, PTL

(* The order of recency and the store of TreeCache hold the same windows,   *)
(* and never more than max_windows, however threads interleave.             *)
THEOREM CacheKeepsShape == Spec => []CacheShape
  <1>1. IInv => CacheShape
    BY DEF IInv, CacheInv
  <1>2. QED  BY <1>1, Invariance, PTL

(* What the observer returns is at most a TTL and one walk old.             *)
THEOREM StalenessBounded == Spec => []BoundedStaleness
  <1>1. IInv => BoundedStaleness
    BY DEF IInv, WorkerInv, BoundedStaleness
  <1>2. QED  BY <1>1, Invariance, PTL

(* The receipt's after-tree of every element action was seen after the act. *)
THEOREM ReceiptsAreFresh == Spec => []ReceiptSeesOwnAction
  <1>1. IInv => ReceiptSeesOwnAction
    BY DEF IInv, WorkerInv, ReceiptSeesOwnAction
  <1>2. QED  BY <1>1, Invariance, PTL
-------------------------------------------------------------------------------
(* One thread, whose actions change the window they are sent to only, and who *)
(* goes through tools.dispatch: what it was told to be done stays seen.       *)
OneThread ==
    /\ \A p, q \in Workers : p = q
    /\ Spill = FALSE
    /\ "raise" \notin Kinds

(* A servable entry, and a tree in hand, show what finished actions made.     *)
SeesActions ==
    /\ \A w \in Windows : acked[w] <= world[w]
    /\ \A w \in Windows : Fresh(w) => entries[w].tree.ver >= acked[w]
    /\ \A p \in Workers :
          /\ \A w \in Windows : floor[p][w] <= acked[w]
          /\ \A w \in Windows \ {req[p].win} : did[p][w] = 0
          /\ held[p] # NoTree => held[p].ver >= acked[req[p].win]
          /\ got[p] # NoTree => got[p].ver >= floor[p][req[p].win]

LEMMA TreesHaveVersions ==
    ASSUME IInv
    PROVE  /\ \A w \in Windows : Fresh(w) => entries[w].tree.ver \in Nat
           /\ \A p \in Workers : held[p] # NoTree => held[p].ver \in Nat
  <1>1. \A t \in Tree : t.ver \in Nat
    BY DEF Tree
  <1>2. \A w \in Windows : Fresh(w) => entries[w].tree \in Tree
    BY DEF IInv, CacheInv, Entry, Fresh
  <1> QED BY <1>1, <1>2 DEF IInv, Types

(* A read that returns an entry, or the tree in hand, returns enough. *)
LEMMA ReturnSees ==
    ASSUME IInv, SeesActions, NEW p \in Workers, NEW t, Return(p, t),
           t.ver \in Nat, t.ver >= acked[req[p].win]
    PROVE  got'[p] # NoTree => got'[p].ver >= floor[p][req[p].win]
  <1>1. got'[p] = t
    BY DEF Return, IInv, Types
  <1>2. /\ floor[p][req[p].win] <= acked[req[p].win]
        /\ floor[p][req[p].win] \in Nat /\ acked[req[p].win] \in Nat
    BY DEF SeesActions, IInv, Types
  <1> QED BY <1>1, <1>2

LEMMA StepSees ==
    ASSUME OneThread, IInv, SeesActions, NEW p \in Workers, Begin(p) \/ Step(p)
    PROVE  SeesActions'
  <1>0. /\ Types /\ WorkerInv(p) /\ req[p].win \in Windows
        /\ \A q \in Workers : q = p
    BY DEF IInv, Types, OneThread
  <1>1. CASE Begin(p)
    <2>1. /\ UNCHANGED <<entries, world, acked>> /\ held' = held
          /\ got'[p] = NoTree /\ did'[p] = Zero /\ floor'[p] = acked
          /\ held[p] = NoTree
      BY <1>0, <1>1 DEF Begin, cacheVars, Types, WorkerInv
    <2> QED BY <1>0, <2>1 DEF SeesActions, Fresh, Zero, Types
  <1>2. CASE LookupHit(p)
    <2>1. /\ UNCHANGED <<entries, world, acked, floor, did, held, req>>
          /\ Fresh(req[p].win) /\ Return(p, entries[req[p].win].tree)
      BY <1>2 DEF LookupHit, CacheHit
    <2>2. got'[p] # NoTree => got'[p].ver >= floor[p][req[p].win]
      BY <1>0, <2>1, ReturnSees, TreesHaveVersions DEF SeesActions
    <2> QED BY <1>0, <2>1, <2>2 DEF SeesActions, Fresh
  <1>3. CASE LookupMiss(p)
    BY <1>0, <1>3 DEF LookupMiss, CacheMiss, Invalidate, SeesActions, Fresh, IInv,
                  CacheInv
  <1>4. CASE Walk(p)
    <2>1. /\ UNCHANGED <<entries, world, acked, floor, did, got, req>>
          /\ held'[p] = [ver |-> world[req[p].win], age |-> 0]
      BY <1>0, <1>4 DEF Walk, cacheVars, Types
    <2> QED BY <1>0, <2>1 DEF SeesActions, Fresh
  <1>5. CASE WalkFails(p)
    <2>1. /\ UNCHANGED <<entries, world, acked, floor, did, held, req>>
          /\ got'[p] = NoTree
      BY <1>0, <1>5 DEF WalkFails, cacheVars, Types
    <2> QED BY <1>0, <2>1 DEF SeesActions, Fresh
  <1>6. CASE Store(p)
    <2>1. /\ UNCHANGED <<world, acked, floor, did, req>>
          /\ held'[p] = NoTree /\ held[p] # NoTree /\ Return(p, held[p])
          /\ Put(req[p].win, held[p])
      BY <1>0, <1>6 DEF Store, Types, WorkerInv
    <2>2. got'[p] # NoTree => got'[p].ver >= floor[p][req[p].win]
      BY <1>0, <2>1, ReturnSees, TreesHaveVersions DEF SeesActions
    <2>3. \A w \in Windows :
             Fresh(w)' => \/ entries'[w] = entries[w]
                          \/ w = req[p].win /\ entries'[w].tree = held[p]
      BY <2>1 DEF Put, Fresh
    <2>4. \A w \in Windows : Fresh(w)' => entries'[w].tree.ver >= acked[w]
      BY <1>0, <2>1, <2>3 DEF SeesActions, Fresh
    <2> QED BY <1>0, <2>1, <2>2, <2>4 DEF SeesActions
  <1>7. CASE Refuse(p) \/ SkipObserve(p)
    BY <1>7 DEF Refuse, SkipObserve, cacheVars, SeesActions, Fresh
  <1>8. CASE Act(p)
    <2>1. PICK S \in {{}, {req[p].win}} :
             /\ world' = [w \in Windows |-> IF w \in S THEN world[w] + 1 ELSE world[w]]
             /\ did' = [did EXCEPT ![p] = [w \in Windows |->
                                             IF w \in S THEN world[w] + 1 ELSE 0]]
      BY <1>8 DEF Act, Touched, OneThread
    <2>2. req[p].kind # "raise"
      BY <1>0 DEF Types, OneThread
    <2>3. /\ UNCHANGED <<entries, floor, held, got, req, acked>>
      BY <1>8, <2>2 DEF Act, AfterAct, cacheVars, Targets
    <2>4. \A w \in Windows \ {req[p].win} : did'[p][w] = 0
      BY <1>0, <2>1 DEF Types
    <2>5. \A w \in Windows : acked[w] <= world'[w]
      BY <1>0, <2>1 DEF SeesActions, Types
    <2> QED BY <1>0, <2>3, <2>4, <2>5 DEF SeesActions, Fresh
  <1>9. CASE Finish(p)
    <2>1. /\ UNCHANGED <<world, floor, did, req, held, got>> /\ held[p] = NoTree
          /\ acked' \in {acked, Later(acked, did[p])}
      BY <1>0, <1>9 DEF Finish, Acknowledge, WorkerInv
    <2>2. \A w \in Windows :
             /\ acked'[w] \in {acked[w], did[p][w]} /\ acked[w] <= acked'[w]
             /\ acked[w] \in Nat /\ did[p][w] \in Nat /\ world[w] \in Nat
             /\ floor[p][w] \in Nat
             /\ acked[w] <= world[w] /\ did[p][w] <= world[w]
             /\ floor[p][w] <= acked[w]
      BY <1>0, <2>1 DEF Later, Types, SeesActions, WorkerInv
    <2>3. \A w \in Windows : acked'[w] <= world[w] /\ floor[p][w] <= acked'[w]
      BY <2>2
    <2>4. \A w \in Windows : Fresh(w)' => Fresh(w) /\ entries'[w] = entries[w]
      BY <1>0, <1>9 DEF Finish, Acknowledge, Invalidate, InvalidateAll, Fresh, IInv, CacheInv
    <2>5. acked' = acked \/ ~ Fresh(req[p].win)'
      <3>1. ASSUME NEW w \in Windows, Invalidate(w), Acknowledge(p, {w})
            PROVE  acked' = acked \/ ~ Fresh(req[p].win)'
        <4>1. CASE req[p].win = w
          BY <2>1, <3>1, <4>1, <1>0 DEF Invalidate, Fresh, IInv, CacheInv
        <4>2. QED  BY <3>1, <4>1 DEF Acknowledge
      <3>2. CASE InvalidateAll
        BY <2>1, <3>2, <1>0 DEF InvalidateAll, Fresh
      <3>3. QED  BY <3>1, <3>2, <1>9 DEF Finish
    <2>6. \A w \in Windows \ {req[p].win} : acked'[w] = acked[w]
      BY <1>0, <2>2 DEF SeesActions
    <2>7. ASSUME NEW w \in Windows, Fresh(w)' PROVE entries'[w].tree.ver >= acked'[w]
      <3>1. acked'[w] = acked[w]
        BY <2>1, <2>5, <2>6, <2>7 DEF Fresh
      <3>2. QED  BY <2>4, <2>7, <3>1 DEF SeesActions
    <2> QED BY <1>0, <2>1, <2>3, <2>7 DEF SeesActions
  <1> QED BY <1>1, <1>2, <1>3, <1>4, <1>5, <1>6, <1>7, <1>8, <1>9 DEF Step

LEMMA TimeSees ==
    ASSUME IInv, SeesActions,
           (\E w \in Windows : AppChanges(w)) \/ Tick \/ UNCHANGED vars
    PROVE  SeesActions'
  <1>1. ASSUME NEW v \in Windows, AppChanges(v) PROVE SeesActions'
    <2>1. \A w \in Windows : world'[w] >= world[w] /\ world'[w] \in Nat
      BY <1>1 DEF AppChanges, IInv, Types
    <2>2. \A w \in Windows : acked[w] <= world'[w]
      BY <2>1 DEF SeesActions, IInv, Types
    <2> QED BY <1>1, <2>2 DEF AppChanges, cacheVars, SeesActions, Fresh
  <1>2. CASE Tick
    <2>1. UNCHANGED <<world, req, got, did, floor, acked>>
      BY <1>2 DEF Tick
    <2>2. \A p \in Workers : held'[p] # NoTree =>
             held[p] # NoTree /\ held'[p].ver = held[p].ver
      BY <1>2, AgedTree DEF Tick, IInv, Types
    <2>3. ASSUME NEW w \in Windows, Fresh(w)'
          PROVE  Fresh(w) /\ entries'[w].tree.ver = entries[w].tree.ver
      <3>1. /\ entries[w] # NoEntry
            /\ entries'[w] = [tree |-> AgedTrees[w],
                              age |-> IF entries[w].age < Stale
                                      THEN entries[w].age + 1 ELSE Stale]
        BY <1>2, <2>3 DEF Tick, CacheAges, Fresh
      <3>2. AgedTrees[w] = Aged(entries[w].tree) /\ entries[w] \in Entry
        BY <3>1 DEF AgedTrees, Cached, IInv, CacheInv
      <3>3. entries[w].tree \in Tree /\ entries[w].age \in 0..Stale
        BY <3>2 DEF Entry
      <3>4. entries'[w].tree.ver = entries[w].tree.ver
        BY <3>1, <3>2, <3>3, AgedTree
      <3>5. entries[w].age <= TTL
        BY <2>3, <3>1, <3>3, CacheAssumption DEF Fresh, Stale
      <3> QED BY <3>1, <3>4, <3>5 DEF Fresh
    <2> QED BY <2>1, <2>2, <2>3 DEF SeesActions
  <1>3. CASE UNCHANGED vars
    BY <1>3 DEF vars, accessVars, cacheVars, SeesActions, Fresh
  <1> QED BY <1>1, <1>2, <1>3

(* A client alone reads what its finished actions made, whatever the cache    *)
(* holds and however the applications redraw (dispatch.dispatch).             *)
THEOREM AloneReadsSeeActions ==
    ASSUME OneThread
    PROVE  Spec => []ReadsSeeFinishedActions
  <1>1. Init => IInv /\ SeesActions
    <2>1. Init => SeesActions
      BY DEF Init, CacheInit, Zero, SeesActions, Fresh
    <2> QED BY <2>1, InitIInv
  <1>2. IInv /\ SeesActions /\ [Next]_vars => IInv' /\ SeesActions'
    BY OneThread, NextIInv, StepSees, TimeSees DEF Next
  <1>3. SeesActions => ReadsSeeFinishedActions
    BY DEF SeesActions, ReadsSeeFinishedActions
  <1> QED BY <1>1, <1>2, <1>3, PTL DEF Spec
===============================================================================
