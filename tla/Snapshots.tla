------------------------------- MODULE Snapshots -------------------------------
(***************************************************************************)
(* session._SnapshotStore and the tools over it: snapshot, snapshot_get,    *)
(* snapshot_diff, snapshot_drop.  At most SnapshotMax snapshots are kept,   *)
(* those used last; one that is older than its time is gone whether or not  *)
(* it is still stored.  put, get and drop run under the store's lock and    *)
(* are one step each; a snapshot_diff takes two of them.                    *)
(***************************************************************************)
EXTENDS OrderedDicts, FiniteSets

CONSTANTS
    SnapshotIds,     \* the ids secrets.token_hex may produce, never twice
    SnapshotMax,     \* SNAPSHOT_MAX
    NoId             \* no snapshot asked for

ASSUME SnapshotAssumption ==
    /\ IsFiniteSet(SnapshotIds) /\ NoId \notin SnapshotIds
    /\ SnapshotMax \in Nat \ {0}

VARIABLES
    items,    \* _items: the ids stored, the one used longest ago first
    expired,  \* ids whose time is over
    issued,   \* ids handed out
    dropped,  \* ids the client dropped
    newer,    \* the other ids used since each was used last
    second    \* the snapshot a snapshot_diff has yet to get

snapVars == <<items, expired, issued, dropped, newer, second>>

SnapInit ==
    /\ items = <<>> /\ expired = {} /\ issued = {} /\ dropped = {}
    /\ newer = [id \in SnapshotIds |-> {}]
    /\ second = NoId

Used(id) == [i \in SnapshotIds |->
               IF i = id \/ i \notin issued THEN {} ELSE newer[i] \cup {id}]
Alive(id) == id \in Keys(items) \ expired

(* What is stored after a put: the expired are swept out before the oldest is *)
(* pushed out.                                                                *)
Stored(id) == Newest(Append(Only(items, SnapshotIds \ expired), id), SnapshotMax)

(* snapshot: the windows have been read, one after the other. *)
PutSnapshot(id) ==
    /\ second = NoId
    /\ id \notin issued
    /\ items' = Stored(id)
    /\ issued' = issued \cup {id}
    /\ newer' = Used(id)
    /\ UNCHANGED <<expired, dropped, second>>

(* Mutant of Get: a snapshot that is used does not become the newest. *)
GetUnmoved(id) ==
    IF Alive(id) THEN UNCHANGED items /\ newer' = Used(id)
    ELSE items' = Without(items, id) /\ UNCHANGED newer

(* get(): one that has expired is removed, any other becomes the newest.      *)
Get(id) ==
    IF Alive(id) THEN items' = Touch(items, id) /\ newer' = Used(id)
    ELSE items' = Without(items, id) /\ UNCHANGED newer

(* snapshot_get, and the first half of a snapshot_diff with another one. *)
GetSnapshot(id, other) ==
    /\ second = NoId
    /\ Get(id)
    /\ second' = other
    /\ UNCHANGED <<expired, issued, dropped>>

DiffSecond ==
    /\ second # NoId
    /\ Get(second)
    /\ second' = NoId
    /\ UNCHANGED <<expired, issued, dropped>>

DropSnapshot(id) ==
    /\ second = NoId
    /\ items' = Without(items, id)
    /\ dropped' = dropped \cup {id}
    /\ UNCHANGED <<expired, issued, newer, second>>

(* SNAPSHOT_TTL_SEC after its put, used or not. *)
Expire(id) ==
    /\ id \in issued \ expired
    /\ expired' = expired \cup {id}
    /\ UNCHANGED <<items, issued, dropped, newer, second>>

SnapNext ==
    \/ \E id \in SnapshotIds : PutSnapshot(id) \/ Expire(id)
    \/ \E id \in issued :
          \/ \E other \in issued \cup {NoId} : GetSnapshot(id, other)
          \/ DropSnapshot(id)
    \/ DiffSecond

SnapSpec == SnapInit /\ [][SnapNext]_snapVars
-------------------------------------------------------------------------------
(* A snapshot stays at hand until its time is over, it is dropped, or       *)
(* SnapshotMax others were used after its own last use: one that a client   *)
(* keeps using is never the one pushed out, whoever takes snapshots.        *)
SnapshotsKept ==
    \A id \in issued \ (expired \cup dropped) :
       Cardinality(newer[id]) < SnapshotMax => Alive(id)
===============================================================================
