--------------------------------- MODULE Waits ---------------------------------
(***************************************************************************)
(* A client that watches the scripted desktop while others act on it:        *)
(* wait_for, wait_idle and assert_state.  Each reads the desktop at moments   *)
(* of its own choosing, with no lock; between two reads anything may happen.  *)
(*                                                                          *)
(* Time is counted in ticks.  A condition is a record [kind, arg, value]; a   *)
(* tree hash is the tree itself.                                              *)
(***************************************************************************)
EXTENDS Scenarios

CONSTANTS
    Timeout,   \* timeout_ms, already cut to the configured cap
    Poll,      \* poll_ms, at least one tick
    Quiet,     \* quiet_ms
    MaxSlow    \* bound on the ticks one round of reads takes

ASSUME WaitAssumption ==
    /\ Timeout \in Nat \ {0} /\ Poll \in Nat \ {0}
    /\ Quiet \in Nat \ {0}   /\ MaxSlow \in Nat

VARIABLES
    phase,     \* the client's next step
    call,      \* the call in hand: [kind, conds, hint]
    at,        \* the condition it has come to
    listed,    \* the windows it listed last
    last,      \* the tree wait_idle saw last
    passed,    \* assert_state: has every predicate passed so far?
    elapsed, changedAt, left, spent,
               \* ticks: since the call began, at the last change of the tree,
               \* of sleep left, taken by this round of reads
    answer,    \* what the call answers: [code, index]
    steady,    \* conditions that held since this round began, and were read
    truths,    \* conditions that have held at some moment of this call
    calm,      \* ticks since the tree of the call's window last changed
    calmRead,  \* calm, when the tree was last read
    returned   \* did the tree change and come back to what that read saw?

clockVars == <<elapsed, changedAt, left, spent>>
ghosts == <<steady, truths, calm, calmRead, returned>>
waitVars == <<phase, call, at, listed, last, passed, clockVars, answer, ghosts>>

NoCall == [kind |-> "none", conds |-> <<>>, hint |-> None]
NoAnswer == [code |-> "none", index |-> 0]

WaitInit ==
    /\ phase = "idle" /\ call = NoCall /\ at = 1 /\ listed = <<>> /\ last = None
    /\ passed = TRUE /\ answer = NoAnswer
    /\ elapsed = 0 /\ changedAt = 0 /\ left = 0 /\ spent = 0
    /\ steady = {} /\ truths = {} /\ calm = 0 /\ calmRead = 0 /\ returned = FALSE
-------------------------------------------------------------------------------
OfWindows == {"window_appears", "window_disappears", "focused_changes",
              "window_exists", "window_focused"}

WindowHolds(c, ws) ==
    \/ /\ c.kind \in {"window_appears", "window_exists"}
       /\ \E i \in DOMAIN ws : ws[i].title = c.arg
    \/ c.kind = "window_disappears" /\ \A i \in DOMAIN ws : ws[i].uid # c.arg
    \/ c.kind = "focused_changes" /\ ws # <<>>
    \/ c.kind = "window_focused" /\ ws # <<>> /\ Head(ws).title = c.arg

Named(tree, name) == {i \in DOMAIN tree : tree[i].name = name}

TreeHolds(c, tree) ==
    \/ c.kind \in {"element_appears", "element_exists"} /\ Named(tree, c.arg) # {}
    \/ c.kind \in {"element_disappears", "element_absent"} /\ Named(tree, c.arg) = {}
    \/ /\ c.kind = "value_equals"
       /\ Named(tree, c.arg) # {}
       /\ FirstOf(tree, Named(tree, c.arg)).value = c.value
    \/ /\ c.kind = "text_visible"
       /\ \E i \in DOMAIN tree : c.arg \in {tree[i].name, tree[i].value}
    \/ c.kind = "tree_changes" /\ c.value # None /\ tree # c.value
    \/ c.kind = "tree_hash_equals" /\ tree = c.value

(* The handle of the window a call means: the one it names, else the focused  *)
(* one, which is the first; a window that assert_state names must be there.   *)
(* Handles are positions; 0 is no window.                                     *)
Position(ws, kind, hint) ==
    IF \E i \in DOMAIN ws : ws[i].uid = hint
    THEN CHOOSE i \in DOMAIN ws : ws[i].uid = hint
    ELSE IF ws = <<>> \/ (kind = "assert" /\ hint # None) THEN 0 ELSE 1

Watched == Position(listed, call.kind, call.hint)

(* The conditions of the call that hold now, whoever looks. *)
Holds(c) ==
    IF c.kind \in OfWindows THEN WindowHolds(c, Windows)
    ELSE LET p == Position(Windows, call.kind, call.hint)
         IN  p # 0 /\ TreeHolds(c, TreeOf(p))
HeldNow == {i \in DOMAIN call.conds : Holds(call.conds[i])}

(* What a change of the desktop does to the history of the call.  When other  *)
(* windows are open than before, a handle may mean another window, and        *)
(* nothing is claimed: no condition was steady, any may have been seen.       *)
DeskChanged ==
    /\ UNCHANGED <<phase, call, at, listed, last, passed, clockVars, answer, calmRead>>
    /\ IF phase \in {"idle", "reply"} \/ UNCHANGED <<script, state, overrides>>
       THEN UNCHANGED ghosts
       ELSE LET same == Windows' = Windows
                hold == HeldNow'
                tree == TreeOf(Watched)'
            IN  /\ steady' = IF same THEN steady \cap hold ELSE {}
                /\ truths' = IF same THEN truths \cup hold ELSE DOMAIN call.conds
                /\ calm' = IF tree = TreeOf(Watched) THEN calm ELSE 0
                /\ returned' = (returned \/ (tree # TreeOf(Watched) /\ tree = last))
-------------------------------------------------------------------------------
FirstStep(kind) ==
    IF kind = "for" THEN "look" ELSE IF kind = "idle" THEN "test" ELSE "evaluate"

(* A call arrives.  wait_idle resolves its window, and assert_state lists the *)
(* windows, once and for the whole call.                                      *)
Ask(kind, conds, hint) ==
    /\ phase = "idle"
    /\ call' = [kind |-> kind, conds |-> conds, hint |-> hint]
    /\ listed' = Windows
    /\ IF kind = "idle" /\ Screen = <<>>
       THEN phase' = "reply" /\ answer' = [code |-> "window_gone", index |-> 0]
       ELSE phase' = FirstStep(kind) /\ UNCHANGED answer
    /\ steady' = HeldNow' /\ truths' = HeldNow'
    /\ UNCHANGED <<at, last, passed, clockVars, calm, calmRead, returned>>

Reply(code, index) == phase' = "reply" /\ answer' = [code |-> code, index |-> index]

(* The answer is sent, and the call forgotten. *)
Return ==
    /\ phase = "reply"
    /\ phase' = "idle" /\ call' = NoCall /\ at' = 1 /\ listed' = <<>> /\ last' = None
    /\ passed' = TRUE /\ answer' = NoAnswer
    /\ elapsed' = 0 /\ changedAt' = 0 /\ left' = 0 /\ spent' = 0
    /\ steady' = {} /\ truths' = {} /\ calm' = 0 /\ calmRead' = 0
    /\ returned' = FALSE

Sleep == phase' = "asleep" /\ left' = Poll

(* wait_for: the condition at hand is decided; then the next one is looked    *)
(* at, or the clock.                                                          *)
Decide(ok) ==
    IF ok THEN Reply("matched", at) /\ UNCHANGED at
    ELSE IF at < Len(call.conds) THEN phase' = "look" /\ at' = at + 1 /\ UNCHANGED answer
    ELSE phase' = "deadline" /\ UNCHANGED <<at, answer>>

(* _check_condition lists the windows ... *)
Look ==
    /\ phase = "look"
    /\ listed' = Windows
    /\ LET c == call.conds[at]
       IN  IF c.kind \in OfWindows THEN Decide(WindowHolds(c, Windows))
           ELSE IF Screen = <<>> \/ (c.kind = "tree_changes" /\ c.value = None)
                THEN Decide(FALSE)
           ELSE phase' = "read" /\ UNCHANGED <<at, answer>>
    /\ UNCHANGED <<call, last, passed, clockVars, ghosts>>

(* ... and reads the tree behind the handle it found, past the cache.         *)
Read ==
    /\ phase = "read" /\ call.kind = "for"
    /\ Decide(TreeHolds(call.conds[at], TreeOf(Watched)))
    /\ UNCHANGED <<call, listed, last, passed, clockVars, ghosts>>

(* A read gives no tree, or raises: the condition counts as false.            *)
ReadFails ==
    /\ phase = "read"
    /\ IF call.kind = "for"
       THEN Decide(FALSE) /\ steady' = steady \ {at} /\ UNCHANGED left
       ELSE Sleep /\ UNCHANGED <<at, answer, steady>>
    /\ UNCHANGED <<call, listed, last, passed, elapsed, changedAt, spent, truths,
                   calm, calmRead, returned>>

(* Mutant of Wake: a call that wakes up after its deadline gives up at once.  *)
WakeLate ==
    /\ phase = "asleep" /\ left = 0
    /\ IF elapsed >= Timeout THEN Reply("timeout", 0)
       ELSE phase' = FirstStep(call.kind) /\ UNCHANGED answer
    /\ at' = 1 /\ spent' = 0 /\ steady' = HeldNow
    /\ UNCHANGED <<call, listed, last, passed, elapsed, changedAt, left, truths,
                   calm, calmRead, returned>>

(* Mutant of Wake: the clock starts again with every round. *)
WakeAnew ==
    /\ phase = "asleep" /\ left = 0
    /\ phase' = FirstStep(call.kind)
    /\ at' = 1 /\ spent' = 0 /\ steady' = HeldNow /\ elapsed' = 0
    /\ UNCHANGED <<call, listed, last, passed, changedAt, left, answer,
                   truths, calm, calmRead, returned>>

(* time.sleep returns and the next round begins. *)
Wake ==
    /\ phase = "asleep" /\ left = 0
    /\ phase' = FirstStep(call.kind)
    /\ at' = 1 /\ spent' = 0 /\ steady' = HeldNow
    /\ UNCHANGED <<call, listed, last, passed, elapsed, changedAt, left, answer,
                   truths, calm, calmRead, returned>>

(* wait_for looks at the clock after a round, wait_idle before a read. *)
Deadline ==
    /\ phase \in {"deadline", "test"}
    /\ IF elapsed >= Timeout THEN Reply("timeout", 0) /\ UNCHANGED left
       ELSE IF phase = "test" THEN phase' = "read" /\ UNCHANGED <<answer, left>>
       ELSE Sleep /\ UNCHANGED answer
    /\ UNCHANGED <<call, at, listed, last, passed, elapsed, changedAt, spent, ghosts>>

(* wait_idle reads the tree ... *)
ReadIdle ==
    /\ phase = "read" /\ call.kind = "idle"
    /\ phase' = IF TreeOf(Watched) = last THEN "same" ELSE "changed"
    /\ last' = TreeOf(Watched)
    /\ returned' = (TreeOf(Watched) = last /\ returned)
    /\ calmRead' = calm
    /\ UNCHANGED <<call, at, listed, passed, clockVars, answer, steady, truths, calm>>

(* Mutant of Judge: a change does not start the quiet time again. *)
JudgeOnce ==
    /\ phase \in {"same", "changed"}
    /\ IF phase = "same" /\ elapsed - changedAt >= Quiet
       THEN Reply("quiet", 0) /\ UNCHANGED left
       ELSE Sleep /\ UNCHANGED answer
    /\ UNCHANGED <<call, at, listed, last, passed, elapsed, changedAt, spent, ghosts>>

(* ... and compares it with the one before: a change starts the quiet time.   *)
Judge ==
    /\ phase \in {"same", "changed"}
    /\ changedAt' = IF phase = "changed" THEN elapsed ELSE changedAt
    /\ IF phase = "same" /\ elapsed - changedAt >= Quiet
       THEN Reply("quiet", 0) /\ UNCHANGED left
       ELSE Sleep /\ UNCHANGED answer
    /\ UNCHANGED <<call, at, listed, last, passed, elapsed, spent, ghosts>>

(* A predicate of assert_state, in the windows listed when the call began.    *)
Passes(c, readable) ==
    IF c.kind \in OfWindows THEN WindowHolds(c, listed)
    ELSE readable /\ Watched # 0 /\ TreeHolds(c, TreeOf(Watched))

(* Mutant of Evaluate: the last predicate alone makes the verdict. *)
EvaluateLast ==
    /\ phase = "evaluate"
    /\ \E readable \in BOOLEAN : passed' = Passes(call.conds[at], readable)
    /\ IF at < Len(call.conds) THEN at' = at + 1 /\ UNCHANGED <<phase, answer>>
       ELSE Reply(IF passed' THEN "passed" ELSE "failed", 0) /\ UNCHANGED at
    /\ UNCHANGED <<call, listed, last, clockVars, ghosts>>

(* oracles.evaluate: one predicate after the other, each with a read of its   *)
(* own; one whose read fails has failed.                                      *)
Evaluate ==
    /\ phase = "evaluate"
    /\ \E readable \in BOOLEAN :
          passed' = (passed /\ Passes(call.conds[at], readable))
    /\ IF at < Len(call.conds) THEN at' = at + 1 /\ UNCHANGED <<phase, answer>>
       ELSE Reply(IF passed' THEN "passed" ELSE "failed", 0) /\ UNCHANGED at
    /\ UNCHANGED <<call, listed, last, clockVars, ghosts>>

(* A tick of a call: time.sleep lasts Poll of them, a round of reads at most  *)
(* MaxSlow.                                                                   *)
WaitTick ==
    /\ phase \notin {"idle", "reply"}
    /\ IF phase = "asleep" THEN left > 0 /\ left' = left - 1 /\ UNCHANGED spent
       ELSE spent < MaxSlow /\ spent' = spent + 1 /\ UNCHANGED left
    /\ elapsed' = elapsed + 1 /\ calm' = calm + 1
    /\ UNCHANGED <<phase, call, at, listed, last, passed, changedAt, answer, steady,
                   truths, calmRead, returned>>

ClientStep ==
    \/ Look \/ Read \/ ReadFails \/ Wake \/ Deadline \/ ReadIdle \/ Judge
    \/ Evaluate \/ Return
-------------------------------------------------------------------------------
(* A condition that held from the moment wait_for woke up for its last round  *)
(* of checks, and could be read, is reported: the call neither times out over *)
(* it, whatever the clock says by then, nor reports a later one instead.      *)
LastingConditionsAreSeen ==
    phase = "reply" /\ call.kind = "for" =>
       /\ answer.code = "timeout" => steady = {}
       /\ answer.code = "matched" => \A i \in steady : i >= answer.index

(* When wait_idle says that a window is idle, its tree was the same for the   *)
(* whole quiet time up to the last read, less the time that read took, unless *)
(* it changed and changed back between two reads.                             *)
IdleWasQuiet ==
    phase = "reply" /\ answer.code = "quiet" /\ ~ returned =>
       calmRead >= Quiet - MaxSlow

(* When assert_state says that all predicates passed, each of them was true   *)
(* at some moment of the call, however the desktop moved under it, as long as *)
(* the same windows stayed open.                                              *)
AllPassedHeld ==
    phase = "reply" /\ answer.code = "passed" => DOMAIN call.conds \subseteq truths

(* Every call is answered in the end, even if the desktop never stops moving. *)
EveryWaitEnds == phase # "idle" ~> phase = "idle"
===============================================================================
