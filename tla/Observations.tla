----------------------------- MODULE Observations -----------------------------
(***************************************************************************)
(* observe_window and its two ways to send a change instead of a tree:      *)
(* since=<tree_token>, a diff against the capture a token names, and         *)
(* changed_only, a comparison with whatever capture the tree cache holds.    *)
(* The tree cache and the token store are shared by all clients; looking up  *)
(* the base, reading the tree, and issuing the new token are separate steps. *)
(*                                                                          *)
(* A tree is its version number.  A silent call reads and captures a window  *)
(* without showing its tree to the client: find_element, wait_for, receipts. *)
(***************************************************************************)
EXTENDS TreeCache, TreeTokens

CONSTANTS
    Clients,     \* agents, each with one call at a time
    Modes,       \* "full", "since", "changed", "silent": the calls they make
    MaxVersion,  \* bound on the changes of a window
    NoTree       \* no tree, or no base to compare with

ASSUME ObserveAssumption ==
    /\ Modes \subseteq {"full", "since", "changed", "silent"}
    /\ MaxVersion \in Nat
    /\ NoTree \notin Nat
    /\ Captures = Nat

VARIABLES
    world,     \* the version of every window
    pc, call,  \* per client: next step, and [mode, win, since]
    base,      \* what the call compares with: a version, or NoTree
    fresh,     \* the tree the call has in hand
    reply,     \* what it answered: [form, tree, from, token]
    shown,     \* the version of each window the client last learned of
    refilled,  \* has the cache been refilled since the client's last read?
    blind      \* was that so when the call peeked at its base?

clientVars == <<pc, call, base, fresh, reply, shown, refilled, blind>>
vars == <<cacheVars, tokenVars, world, clientVars>>

Call == [mode : Modes, win : Windows, since : Tokens \cup {NoToken}]
Quiet == [form |-> "none", tree |-> NoTree, from |-> NoTree, token |-> NoToken]

Init ==
    /\ CacheInit
    /\ TokenInit
    /\ world = [w \in Windows |-> 0]
    /\ pc = [c \in Clients |-> "idle"]
    /\ call \in [Clients -> [mode : {"full"} \cap Modes, win : Windows,
                             since : {NoToken}]]
    /\ base = [c \in Clients |-> NoTree]
    /\ fresh = [c \in Clients |-> NoTree]
    /\ reply = [c \in Clients |-> Quiet]
    /\ shown = [c \in Clients |-> [w \in Windows |-> NoTree]]
    /\ refilled = [c \in Clients |-> [w \in Windows |-> FALSE]]
    /\ blind = [c \in Clients |-> FALSE]
-------------------------------------------------------------------------------
FirstStep(mode) ==
    CASE mode = "since"   -> "base"
      [] mode = "changed" -> "base"
      [] OTHER            -> "read"

(* A call arrives; since= is a token somebody was given, of any window. *)
Begin(c) ==
    /\ pc[c] = "idle"
    /\ \E m \in Modes, w \in Windows :
       \E t \in IF m = "since" THEN Issued ELSE {NoToken} :
          /\ call' = [call EXCEPT ![c] = [mode |-> m, win |-> w, since |-> t]]
          /\ pc' = [pc EXCEPT ![c] = FirstStep(m)]
    /\ base' = [base EXCEPT ![c] = NoTree]
    /\ reply' = [reply EXCEPT ![c] = Quiet]
    /\ UNCHANGED <<cacheVars, tokenVars, world, fresh, shown, refilled,
                   blind>>

(* Mutant of BaseOf: the token's window is not compared with the call's. *)
BaseOfAny(c) ==
    LET e == Found(call[c].since) IN IF e = NoToken THEN NoTree ELSE e.tree

(* A token that is unknown, expired or of another window is no base. *)
BaseOf(c) ==
    LET e == Found(call[c].since)
    IN  IF e = NoToken \/ e.win # call[c].win THEN NoTree ELSE e.tree

SinceBase(c) ==
    /\ pc[c] = "base" /\ call[c].mode = "since"
    /\ GetToken(call[c].since)
    /\ base' = [base EXCEPT ![c] = BaseOf(c)]
    /\ pc' = [pc EXCEPT ![c] = "read"]
    /\ UNCHANGED <<cacheVars, world, call, fresh, reply, shown, refilled,
                   blind>>

(* peek(): the cached capture whatever its age; the read to follow bypasses   *)
(* the cache.                                                                 *)
Peeked(w) == IF entries[w] = NoEntry THEN NoTree ELSE entries[w].tree

PeekBase(c) ==
    /\ pc[c] = "base" /\ call[c].mode = "changed"
    /\ base' = [base EXCEPT ![c] = Peeked(call[c].win)]
    /\ blind' = [blind EXCEPT ![c] = refilled[c][call[c].win]]
    /\ pc' = [pc EXCEPT ![c] = "walk"]
    /\ UNCHANGED <<cacheVars, tokenVars, world, call, fresh, reply, shown,
                   refilled>>

(* What follows once the tree is in hand. *)
AfterRead(c) == IF call[c].mode = "silent" THEN "idle" ELSE "token"
Kept(c, tree) == IF call[c].mode = "silent" THEN NoTree ELSE tree

ReadHit(c) ==
    /\ pc[c] = "read"
    /\ CacheHit(call[c].win)
    /\ fresh' = [fresh EXCEPT ![c] = Kept(c, entries[call[c].win].tree)]
    /\ refilled' = IF call[c].mode = "silent" THEN refilled
                   ELSE [refilled EXCEPT ![c][call[c].win] = FALSE]
    /\ pc' = [pc EXCEPT ![c] = AfterRead(c)]
    /\ UNCHANGED <<tokenVars, world, call, base, reply, shown, blind>>

ReadMiss(c) ==
    /\ pc[c] = "read"
    /\ CacheMiss(call[c].win)
    /\ pc' = [pc EXCEPT ![c] = "walk"]
    /\ UNCHANGED <<tokenVars, world, call, base, fresh, reply, shown, refilled,
                   blind>>

Walk(c) ==
    /\ pc[c] = "walk"
    /\ fresh' = [fresh EXCEPT ![c] = world[call[c].win]]
    /\ pc' = [pc EXCEPT ![c] = "store"]
    /\ UNCHANGED <<cacheVars, tokenVars, world, call, base, reply, shown,
                   refilled, blind>>

(* No tree: an error, and nothing is stored. *)
WalkFails(c) ==
    /\ pc[c] = "walk"
    /\ pc' = [pc EXCEPT ![c] = "idle"]
    /\ UNCHANGED <<cacheVars, tokenVars, world, call, base, fresh, reply, shown,
                   refilled, blind>>

(* Every client but one that will be shown this capture is out of date. *)
Refilled(c) ==
    [d \in Clients |-> [refilled[d] EXCEPT ![call[c].win] =
                            d # c \/ call[c].mode = "silent"]]

(* Mutant of StoreWalk: a capture that bypassed the cache does not refresh it. *)
StoreUnlessBypass(c) ==
    /\ pc[c] = "store"
    /\ IF call[c].mode = "changed" THEN UNCHANGED cacheVars
                                   ELSE Put(call[c].win, fresh[c])
    /\ refilled' = Refilled(c)
    /\ fresh' = [fresh EXCEPT ![c] = Kept(c, @)]
    /\ pc' = [pc EXCEPT ![c] = AfterRead(c)]
    /\ UNCHANGED <<tokenVars, world, call, base, reply, shown, blind>>

(* The capture refreshes the cache, for everybody. *)
StoreWalk(c) ==
    /\ pc[c] = "store"
    /\ Put(call[c].win, fresh[c])
    /\ refilled' = Refilled(c)
    /\ fresh' = [fresh EXCEPT ![c] = Kept(c, @)]
    /\ pc' = [pc EXCEPT ![c] = AfterRead(c)]
    /\ UNCHANGED <<tokenVars, world, call, base, reply, shown, blind>>

(* The answer: the tree when there is no base, else what changed. *)
Answer(c, t) ==
    LET from == base[c]
    IN  [form  |-> IF from = NoTree THEN "full"
                   ELSE IF from = fresh[c] THEN "unchanged" ELSE "diff",
         tree  |-> fresh[c],
         from  |-> from,
         token |-> t]

(* The new token is issued and the answer built from what is in hand. *)
Reply(c) ==
    LET w == call[c].win
    IN  /\ pc[c] = "token"
        /\ \E t \in Tokens :
              /\ PutToken(w, fresh[c], t)
              /\ reply' = [reply EXCEPT ![c] = Answer(c, t)]
        /\ shown' = [shown EXCEPT ![c][w] = fresh[c]]
        /\ pc' = [pc EXCEPT ![c] = "idle"]
        /\ fresh' = [fresh EXCEPT ![c] = NoTree]
        /\ base' = [base EXCEPT ![c] = NoTree]
        /\ UNCHANGED <<cacheVars, world, call, refilled, blind>>

(* An input tool, or the application itself, changes a window ... *)
AppChanges(w) ==
    /\ world[w] < MaxVersion
    /\ world' = [world EXCEPT ![w] = @ + 1]
    /\ UNCHANGED <<cacheVars, tokenVars, clientVars>>

(* ... and tools.dispatch drops its capture, now or later. *)
Dropped(w) ==
    /\ w \in Cached
    /\ Invalidate(w)
    /\ UNCHANGED <<tokenVars, world, clientVars>>

Tick ==
    /\ CacheAges([w \in Cached |-> entries[w].tree])
    /\ TokensAge
    /\ UNCHANGED <<world, clientVars>>

Next ==
    \/ \E c \in Clients :
          \/ Begin(c) \/ SinceBase(c) \/ PeekBase(c) \/ ReadHit(c) \/ ReadMiss(c)
          \/ Walk(c) \/ WalkFails(c) \/ StoreWalk(c) \/ Reply(c)
    \/ \E w \in Windows : AppChanges(w) \/ Dropped(w)
    \/ Tick

Spec == Init /\ [][Next]_vars
-------------------------------------------------------------------------------
Replies(c) == pc[c] = "token" /\ pc'[c] = "idle"

(* A diff sent for a tree_token starts from the very capture that token was   *)
(* handed out with, of the window that is observed, although the token may    *)
(* have been evicted, or the window captured again, between the two.          *)
DiffsNameTheirBase ==
    \A c \in Clients :
       call[c].mode = "since" /\ reply[c].form \in {"diff", "unchanged"} =>
          issuedFor[call[c].since] = [win |-> call[c].win, tree |-> reply[c].from]

(* What changed_only reports is a change from what the client last learned,   *)
(* unless another capture of the window was stored in between (by another     *)
(* client, or by a call of its own that shows no tree).                       *)
ChangesFromWhatWasShown ==
    [][\A c \in Clients :
          Replies(c) /\ call[c].mode = "changed" /\ base[c] # NoTree /\ ~ blind[c]
          => base[c] = shown[c][call[c].win]]_vars

(* A client alone with the program never sees a window go back in time,       *)
(* whichever mix of cached, fresh and silent reads it makes.                  *)
NeverBack ==
    [][\A c \in Clients :
          LET w == call[c].win
          IN  Replies(c) /\ shown[c][w] # NoTree => fresh[c] >= shown[c][w]]_vars
===============================================================================
