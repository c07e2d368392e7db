----------------------------- MODULE OrderedDicts -----------------------------
(***************************************************************************)
(* The order kept by a Python OrderedDict, as a sequence of distinct keys,  *)
(* oldest first.  tree_cache.TreeCache, session._SnapshotStore and the      *)
(* per-window rings of session._TreeTokenStore all evict from the front.    *)
(***************************************************************************)
EXTENDS Naturals, Sequences, FiniteSets

Keys(s) == {s[i] : i \in DOMAIN s}

Distinct(s) == \A i, j \in DOMAIN s : s[i] = s[j] => i = j

(* pop(key, None): drop the key where it stands, if it is there. *)
Without(s, x) ==
    IF x \in Keys(s)
    THEN LET i == CHOOSE k \in DOMAIN s : s[k] = x
         IN  [j \in 1..(Len(s) - 1) |-> IF j < i THEN s[j] ELSE s[j + 1]]
    ELSE s

(* move_to_end(key), and the insertion of a new key. *)
Touch(s, x) == Append(Without(s, x), x)

(* while len(d) > cap: d.popitem(last=False). *)
Newest(s, cap) ==
    IF Len(s) > cap THEN SubSeq(s, Len(s) - cap + 1, Len(s)) ELSE s

(* Keep the keys of a set, in their order: a key's new place is the number of *)
(* keys kept up to it.                                                        *)
Only(s, S) ==
    LET kept == {i \in DOMAIN s : s[i] \in S}
        Place(i) == Cardinality({k \in kept : k <= i})
    IN  [j \in 1..Cardinality(kept) |-> s[CHOOSE i \in kept : Place(i) = j]]
===============================================================================
