------------------------------ MODULE TreeCache ------------------------------
(***************************************************************************)
(* tree_cache.TreeCache: the session's LRU cache of window captures.  Every *)
(* method runs under the cache's RLock and so is one step.  An entry's age  *)
(* is what age_s() computes, counted in ticks up to the first value that is *)
(* past every limit.                                                        *)
(***************************************************************************)
EXTENDS Naturals, OrderedDicts, Desktop

CONSTANTS
    NoEntry,     \* "not in the cache"
    TTL,         \* tree.cache_ttl_s
    MaxWindows   \* TreeCache.max_windows

ASSUME CacheAssumption ==
    /\ TTL \in Nat
    /\ MaxWindows \in Nat \ {0}

VARIABLES
    entries,     \* TreeCache._entries: window -> [tree, age] or NoEntry
    lru          \* the order of _entries, oldest first

cacheVars == <<entries, lru>>

Cached == {w \in Windows : entries[w] # NoEntry}

Stale == TTL + 1

(* Mutant of Fresh: an entry never expires. *)
FreshForEver(w) == entries[w] # NoEntry

Fresh(w) == entries[w] # NoEntry /\ entries[w].age <= TTL

CacheInit ==
    /\ entries = [w \in Windows |-> NoEntry]
    /\ lru = <<>>

(* Mutant of CacheHit: a hit renews the entry, so it lives while it is read. *)
SlidingHit(w) ==
    /\ Fresh(w)
    /\ lru' = Touch(lru, w)
    /\ entries' = [entries EXCEPT ![w].age = 0]

(* get(): a fresh entry is returned and becomes the most recently used ... *)
CacheHit(w) ==
    /\ Fresh(w)
    /\ lru' = Touch(lru, w)
    /\ UNCHANGED entries

(* invalidate(): drop one window's entry, whether or not there is one. *)
Invalidate(w) ==
    /\ entries' = [entries EXCEPT ![w] = NoEntry]
    /\ lru' = Without(lru, w)

(* ... and an expired entry is dropped on the way to a miss. *)
CacheMiss(w) ==
    /\ ~ Fresh(w)
    /\ Invalidate(w)

InvalidateAll ==
    /\ entries' = [w \in Windows |-> NoEntry]
    /\ lru' = <<>>

(* put(): store as the most recently used, evict the oldest beyond the cap. *)
Put(w, tree) ==
    LET kept == Newest(Touch(lru, w), MaxWindows)
    IN  /\ lru' = kept
        /\ entries' = [v \in Windows |->
                          IF v \notin Keys(kept) THEN NoEntry
                          ELSE IF v = w THEN [tree |-> tree, age |-> 0]
                          ELSE entries[v]]

(* The passage of one tick, seen by age_s(); older gives each tree held as it *)
(* is a tick later.                                                           *)
CacheAges(older) ==
    /\ entries' = [w \in Windows |->
                      IF entries[w] = NoEntry THEN NoEntry
                      ELSE [tree |-> older[w],
                            age  |-> IF entries[w].age < Stale
                                     THEN entries[w].age + 1 ELSE Stale]]
    /\ UNCHANGED lru

(* The index of recency and the store agree and respect the cap. *)
CacheShape ==
    /\ Keys(lru) = Cached
    /\ Distinct(lru)
    /\ Len(lru) <= MaxWindows
===============================================================================
