------------------------------ MODULE TreeAccess ------------------------------
(***************************************************************************)
(* Readers and actors around the session's tree cache.                      *)
(*                                                                          *)
(* A worker is a thread that serves one tool call at a time: the MCP stdio  *)
(* loop, or a request thread of the web inspector.  All share one session,  *)
(* hence one TreeCache.  ScreenObserver.get_element_tree_with_meta looks the *)
(* window up, walks the adapter with no lock held and stores the capture:   *)
(* three steps.  An input tool changes windows; tools.dispatch invalidates  *)
(* only after the whole handler has returned.                               *)
(*                                                                          *)
(* A window's content is a version number.  A tree carries the version the  *)
(* adapter saw and the ticks since it was seen.                             *)
(***************************************************************************)
EXTENDS TreeCache, FiniteSets

CONSTANTS
    Workers,      \* threads that run tool calls
    NoTree,       \* no capture in hand
    Kinds,        \* the kinds of call workers make, among AllKinds
    Spill,        \* may an action on one window change others too?
    MaxWalk,      \* bound on the ticks between an adapter walk and its store
    MaxVersion    \* bound on the number of changes of a window

(* read: observe_window, get_window_structure, find_element ...             *)
(* element: click_element and the verbs over _do_element_action;            *)
(* coordinate: click_at, type_text, press_key, scroll; *_observe: the       *)
(* composites; foreground: bring_to_foreground through tools.dispatch;      *)
(* raise: the web inspector's own /api/bring_to_foreground, which is not.   *)
AllKinds == {"read", "element", "element_observe", "coordinate",
             "coordinate_observe", "foreground", "raise"}

ASSUME AccessAssumption ==
    /\ Kinds \subseteq AllKinds
    /\ Spill \in BOOLEAN
    /\ MaxWalk \in Nat
    /\ MaxVersion \in Nat
    /\ NoTree \notin [ver : Nat, age : Nat]
    /\ NoEntry \notin [tree : [ver : Nat, age : Nat], age : Nat]

VARIABLES
    world,   \* the current version of every window
    pc,      \* the next step of a worker
    req,     \* the call it serves
    phase,   \* which of the call's reads it is in: before, after, observe
    held,    \* the tree it walked and has not stored yet
    got,     \* the last tree a read of this call returned
    did,     \* versions made by this call's own action (0: none)
    floor,   \* versions made by actions whose calls returned before this one
    acked    \* versions made by actions whose calls have returned, but for
             \* those dispatched under the name of another window

accessVars == <<world, pc, req, phase, held, got, did, floor, acked>>
vars == <<cacheVars, accessVars>>

Reads(k)      == k \in {"read", "element", "element_observe"}
Targets(k)    == k \in {"element", "element_observe"}
Names(k)      == Targets(k) \/ k = "foreground"
Composite(k)  == k \in {"element_observe", "coordinate_observe"}

Old  == TTL + MaxWalk + 1
Tree == [ver : Nat, age : 0..Old]
Aged(t) == [t EXCEPT !.age = IF @ < Old THEN @ + 1 ELSE Old]
AgedTrees == [w \in Cached |-> Aged(entries[w].tree)]
Zero == [w \in Windows |-> 0]
Later(a, b) == [w \in Windows |-> IF a[w] > b[w] THEN a[w] ELSE b[w]]

Init ==
    /\ CacheInit
    /\ world = Zero
    /\ pc = [p \in Workers |-> "idle"]
    /\ req \in [Workers -> [kind : Kinds, win : Windows]]
    /\ phase = [p \in Workers |-> "before"]
    /\ held = [p \in Workers |-> NoTree]
    /\ got = [p \in Workers |-> NoTree]
    /\ did = [p \in Workers |-> Zero]
    /\ floor = [p \in Workers |-> Zero]
    /\ acked = Zero
-------------------------------------------------------------------------------
(* A call arrives.  Its window is already resolved. *)
Begin(p) ==
    /\ pc[p] = "idle"
    /\ \E k \in Kinds, w \in Windows :
          /\ req' = [req EXCEPT ![p] = [kind |-> k, win |-> w]]
          /\ pc' = [pc EXCEPT ![p] = IF Reads(k) THEN "lookup" ELSE "act"]
    /\ phase' = [phase EXCEPT ![p] = "before"]
    /\ got' = [got EXCEPT ![p] = NoTree]
    /\ did' = [did EXCEPT ![p] = Zero]
    /\ floor' = [floor EXCEPT ![p] = acked]
    /\ UNCHANGED <<cacheVars, world, held, acked>>

(* Where a call stands once its read of this phase has returned. *)
AfterRead(p) ==
    CASE phase[p] = "before" -> IF req[p].kind = "read" THEN "idle" ELSE "act"
      [] phase[p] = "after"  -> IF Composite(req[p].kind) THEN "lookup"
                                ELSE "invalidate"
      [] OTHER               -> "invalidate"

(* The read of this phase returns t to its caller. *)
Return(p, t) ==
    /\ got' = [got EXCEPT ![p] = t]
    /\ pc' = [pc EXCEPT ![p] = AfterRead(p)]
    /\ phase' = [phase EXCEPT ![p] = IF AfterRead(p) = "lookup"
                                     THEN "observe" ELSE @]

(* get_element_tree_with_meta: the cache answers ... *)
LookupHit(p) ==
    /\ pc[p] = "lookup"
    /\ CacheHit(req[p].win)
    /\ Return(p, entries[req[p].win].tree)
    /\ UNCHANGED <<world, req, held, did, floor, acked>>

(* ... or does not, and the adapter will be walked. *)
LookupMiss(p) ==
    /\ pc[p] = "lookup"
    /\ CacheMiss(req[p].win)
    /\ pc' = [pc EXCEPT ![p] = "walk"]
    /\ UNCHANGED <<world, req, phase, held, got, did, floor, acked>>

(* adapter.get_element_tree, outside every lock. *)
Walk(p) ==
    /\ pc[p] = "walk"
    /\ held' = [held EXCEPT ![p] = [ver |-> world[req[p].win], age |-> 0]]
    /\ pc' = [pc EXCEPT ![p] = "store"]
    /\ UNCHANGED <<cacheVars, world, req, phase, got, did, floor, acked>>

(* The adapter finds no tree: nothing is stored, nothing is returned; a tool *)
(* that needed the tree to act gives up.                                     *)
WalkFails(p) ==
    /\ pc[p] = "walk"
    /\ pc' = [pc EXCEPT ![p] = IF req[p].kind = "read" THEN "idle"
                               ELSE IF phase[p] = "before" THEN "invalidate"
                               ELSE AfterRead(p)]
    /\ phase' = [phase EXCEPT ![p] = IF pc'[p] = "lookup" THEN "observe" ELSE @]
    /\ got' = [got EXCEPT ![p] = NoTree]
    /\ UNCHANGED <<cacheVars, world, req, held, did, floor, acked>>

(* cache.put, then the capture is returned. *)
Store(p) ==
    /\ pc[p] = "store"
    /\ Put(req[p].win, held[p])
    /\ Return(p, held[p])
    /\ held' = [held EXCEPT ![p] = NoTree]
    /\ UNCHANGED <<world, req, did, floor, acked>>

(* The handler returns early: element not found, disabled, occluded,         *)
(* confirmation refused, or no window to raise.                              *)
Refuse(p) ==
    /\ pc[p] = "act"
    /\ Names(req[p].kind)
    /\ pc' = [pc EXCEPT ![p] = "invalidate"]
    /\ UNCHANGED <<cacheVars, world, req, phase, held, got, did, floor, acked>>

(* The windows an action on w may change: none when the executor fails or   *)
(* the call is a dry run.                                                    *)
Touched(w) == {{}} \cup IF Spill THEN {S \in SUBSET Windows : w \in S}
                                  ELSE {{w}}

(* Mutant of AfterAct: the receipt's after-read may use the cache. *)
CachedAfterAct(k) ==
    CASE Reads(k) \/ Composite(k) -> "lookup"
      [] k = "raise"              -> "idle"
      [] OTHER                    -> "invalidate"

AfterAct(k) ==
    CASE Targets(k)                -> "walk"
      [] k = "coordinate_observe"  -> "lookup"
      [] k = "raise"               -> "idle"
      [] OTHER                     -> "invalidate"

(* observer.perform_action: the input reaches the desktop.  The receipt's    *)
(* after-read passes use_cache=False and so goes straight to the walk; a     *)
(* composite's observe_window consults the cache.                            *)
Act(p) ==
    /\ pc[p] = "act"
    /\ \E S \in Touched(req[p].win) :
          /\ \A w \in S : world[w] < MaxVersion
          /\ world' = [w \in Windows |-> IF w \in S THEN world[w] + 1
                                                    ELSE world[w]]
          /\ did' = [did EXCEPT ![p] = [w \in Windows |->
                                          IF w \in S THEN world[w] + 1 ELSE 0]]
    /\ pc' = [pc EXCEPT ![p] = AfterAct(req[p].kind)]
    /\ phase' = [phase EXCEPT ![p] =
                    IF Targets(req[p].kind) THEN "after" ELSE "observe"]
    /\ acked' = IF AfterAct(req[p].kind) = "idle" THEN Later(acked, did'[p])
                ELSE acked
    /\ UNCHANGED <<cacheVars, req, held, got, floor>>

(* A composite whose verb did not report ok observes nothing. *)
SkipObserve(p) ==
    /\ pc[p] = "lookup"
    /\ phase[p] = "observe"
    /\ pc' = [pc EXCEPT ![p] = "invalidate"]
    /\ UNCHANGED <<cacheVars, world, req, phase, held, got, did, floor, acked>>

(* The action of a call counts as finished once its window has been dropped; *)
(* that of a call which named another window is not waited for.               *)
Acknowledge(p, dropped) ==
    acked' = IF req[p].win \in dropped THEN Later(acked, did[p]) ELSE acked

(* Mutant of Finish: a call that names no window invalidates nothing. *)
FinishNamed(p) ==
    /\ pc[p] = "invalidate"
    /\ \/ \E w \in Windows : Invalidate(w) /\ Acknowledge(p, {w})
       \/ UNCHANGED cacheVars /\ Acknowledge(p, Windows)
    /\ pc' = [pc EXCEPT ![p] = "idle"]
    /\ UNCHANGED <<world, req, phase, held, got, did, floor>>

(* tools.dispatch, after the handler: drop the window the result names, or the *)
(* one in the call's arguments if it names none (coordinate tools, drag,      *)
(* errors, a handler that raised), or else everything.  The arguments may name *)
(* any window: those tools act on what has the focus or is under the pointer. *)
Finish(p) ==
    /\ pc[p] = "invalidate"
    /\ \/ \E w \in Windows : Invalidate(w) /\ Acknowledge(p, {w})
       \/ InvalidateAll /\ Acknowledge(p, Windows)
    /\ pc' = [pc EXCEPT ![p] = "idle"]
    /\ UNCHANGED <<world, req, phase, held, got, did, floor>>

(* The application redraws a window by itself. *)
AppChanges(w) ==
    /\ world[w] < MaxVersion
    /\ world' = [world EXCEPT ![w] = @ + 1]
    /\ UNCHANGED <<cacheVars, pc, req, phase, held, got, did, floor, acked>>

(* A tick.  No walk and store take more than MaxWalk ticks. *)
Tick ==
    /\ \A p \in Workers : held[p] # NoTree => held[p].age < MaxWalk
    /\ CacheAges(AgedTrees)
    /\ held' = [p \in Workers |->
                  IF held[p] = NoTree THEN NoTree ELSE Aged(held[p])]
    /\ UNCHANGED <<world, pc, req, phase, got, did, floor, acked>>

Step(p) ==
    \/ LookupHit(p) \/ LookupMiss(p) \/ Walk(p) \/ WalkFails(p)
    \/ Store(p) \/ Refuse(p) \/ Act(p) \/ SkipObserve(p) \/ Finish(p)

Next ==
    \/ \E p \in Workers : Begin(p) \/ Step(p)
    \/ \E w \in Windows : AppChanges(w)
    \/ Tick

Spec == Init /\ [][Next]_vars

(* A thread that serves a call goes on with it, and time passes.  Nothing is  *)
(* asked of Begin: agents may fall silent, or read for ever.                  *)
Fairness ==
    /\ \A p \in Workers :
          /\ WF_vars(LookupHit(p)) /\ WF_vars(LookupMiss(p))
          /\ WF_vars(Walk(p)) /\ WF_vars(Store(p))
          /\ WF_vars(Refuse(p)) /\ WF_vars(Finish(p))
    /\ WF_vars(Tick)

FairSpec == Spec /\ Fairness
-------------------------------------------------------------------------------
(* Every variable has its type, and the cache its shape. *)
TypeOK ==
    /\ entries \in [Windows -> [tree : Tree, age : 0..Stale] \cup {NoEntry}]
    /\ lru \in Seq(Windows)
    /\ world \in [Windows -> Nat]
    /\ pc \in [Workers -> {"idle", "lookup", "walk", "store", "act",
                           "invalidate"}]
    /\ req \in [Workers -> [kind : Kinds, win : Windows]]
    /\ phase \in [Workers -> {"before", "after", "observe"}]
    /\ held \in [Workers -> Tree \cup {NoTree}]
    /\ got \in [Workers -> Tree \cup {NoTree}]
    /\ did \in [Workers -> [Windows -> Nat]]
    /\ floor \in [Workers -> [Windows -> Nat]]
    /\ acked \in [Windows -> Nat]

(* However readers, actors and expiry interleave, a tree handed to a caller  *)
(* was the window's content at most a TTL and one walk before it was handed  *)
(* over: the cache bounds what the walk outside its lock can leave behind.   *)
BoundedStaleness ==
    \A p \in Workers : got[p] # NoTree => got[p].age <= TTL + MaxWalk

(* The "after" tree of an action receipt was seen after the call's own       *)
(* action, whatever other threads store in the cache meanwhile.              *)
HasReceipt(p) ==
    /\ Targets(req[p].kind)
    /\ \/ phase[p] = "after"   /\ pc[p] \in {"invalidate", "idle"}
       \/ phase[p] = "observe" /\ pc[p] = "lookup"

ReceiptSeesOwnAction ==
    \A p \in Workers :
       HasReceipt(p) /\ got[p] # NoTree =>
          got[p].ver >= did[p][req[p].win]

(* A read returns a version no older than what the actions made whose calls  *)
(* had returned before the read's own call arrived, those apart that gave     *)
(* another window_uid than that of the window their input reached: dispatch   *)
(* drops only the window named.                                              *)
ReadsSeeFinishedActions ==
    \A p \in Workers :
       got[p] # NoTree => got[p].ver >= floor[p][req[p].win]

(* The observation a composite verb attaches to its result was seen after    *)
(* the verb's own action.                                                    *)
ObservationSeesOwnAction ==
    \A p \in Workers :
       /\ phase[p] = "observe"
       /\ pc[p] \in {"invalidate", "idle"}
       /\ got[p] # NoTree
       => got[p].ver >= did[p][req[p].win]

(* Once the windows stop changing, the cache stops serving old content, even *)
(* to callers that read without pause.                                       *)
Coherent == \A w \in Windows : Fresh(w) => entries[w].tree.ver = world[w]
EventuallyCoherent == <>[]Coherent
===============================================================================
