---------------------------- MODULE ConfirmTokens ----------------------------
(***************************************************************************)
(* Confirmation of destructive actions: session._ConfirmStore, the tool     *)
(* propose_action that issues a token, and the gate every element verb and  *)
(* drag passes before it acts (receipts._check_confirmation).               *)
(*                                                                          *)
(* Several threads propose and act at once.  The screen moves between the   *)
(* moment a handler reads the element tree and the moment it acts.          *)
(***************************************************************************)
EXTENDS Integers, Sequences

CONSTANTS
    Threads,     \* threads that run tool calls
    Tokens,      \* the tokens secrets.token_hex may produce, never twice
    Elements,    \* elements, by (window_uid, selector)
    Guarded,     \* those a confirmation_required rule matches
    Verbs,       \* element verbs, and "drag" among them or not
    Places,      \* where an element may be: one coordinate of its bounds
    Tolerance,   \* confirmation.bbox_tolerance_px
    TTL,         \* CONFIRM_TTL_SEC
    None         \* no token, no record

ASSUME ConfirmAssumption ==
    /\ Guarded \subseteq Elements
    /\ Places \subseteq Int
    /\ Tolerance \in Nat
    /\ TTL \in Nat
    /\ None \notin Tokens
    /\ None \notin [verb : Verbs, elem : Elements, place : Places]

VARIABLES
    place,    \* where every element is on the screen
    items,    \* _ConfirmStore._items: "absent", "unused" or "used"
    grant,    \* what each token was issued for, kept for ever
    age,      \* ticks since it was issued, up to Expired
    issued,   \* tokens issued so far
    presented,\* tokens a gate has consumed or turned away so far
    passes,   \* the number of gates each token has opened
    at, call, resolved   \* per thread: next step, call, the tree it resolved on

grantVars == <<items, grant, age, issued, presented, passes>>
confirmVars == <<place, grantVars, at, call, resolved>>

Grant == [verb : Verbs, elem : Elements, place : Places]
Single == {<<e>> : e \in Elements}
Pair   == Elements \X Elements
Calls  == [verb : Verbs, ends : Single \cup Pair, token : Tokens \cup {None},
           dry : BOOLEAN]

Expired == TTL + 1
(* Mutant of Usable: the expiry is not looked at. *)
UsableForEver(t) == items[t] = "unused"

Usable(t) == items[t] = "unused" /\ age[t] <= TTL

ConfirmInit ==
    /\ place \in [Elements -> Places]
    /\ items = [t \in Tokens |-> "absent"]
    /\ grant = [t \in Tokens |-> None]
    /\ age = [t \in Tokens |-> 0]
    /\ issued = {}
    /\ presented = {}
    /\ passes = [t \in Tokens |-> 0]
    /\ at = [w \in Threads |-> "idle"]
    /\ call = [w \in Threads |-> None]
    /\ resolved = [w \in Threads |-> None]
-------------------------------------------------------------------------------
(* The call returns to its client; what it held goes with it. *)
Return(w) ==
    /\ at' = [at EXCEPT ![w] = "idle"]
    /\ call' = [call EXCEPT ![w] = None]
    /\ resolved' = [resolved EXCEPT ![w] = None]

(* A handler resolves its element on the tree as it is now. *)
Resolve(w, step, c) ==
    /\ at[w] \in {"idle", "done"}
    /\ at' = [at EXCEPT ![w] = step]
    /\ call' = [call EXCEPT ![w] = c]
    /\ resolved' = [resolved EXCEPT ![w] = place]
    /\ UNCHANGED <<place, grantVars>>

BeginPropose(w) ==
    \E v \in Verbs, e \in Elements :
       Resolve(w, "propose", [verb |-> v, ends |-> <<e>>, token |-> None,
                            dry |-> FALSE])

BeginAct(w) ==
    \E v \in Verbs, t \in issued \cup {None}, dry \in BOOLEAN :
       \E ends \in IF v = "drag" THEN Pair ELSE Single :
          Resolve(w, "gate", [verb |-> v, ends |-> ends, token |-> t, dry |-> dry])

(* issue(): drop the expired and the used tokens, add a new one. *)
Issue(w) ==
    /\ at[w] = "propose"
    /\ \E t \in Tokens \ issued :
          /\ items' = [u \in Tokens |-> IF u = t THEN "unused"
                                        ELSE IF Usable(u) THEN items[u]
                                        ELSE "absent"]
          /\ grant' = [grant EXCEPT ![t] =
                          [verb |-> call[w].verb, elem |-> call[w].ends[1],
                           place |-> resolved[w][call[w].ends[1]]]]
          /\ issued' = issued \cup {t}
    /\ Return(w)
    /\ UNCHANGED <<place, age, presented, passes>>

(* The endpoint the gate looks at: the first one a rule matches. *)
HasGuarded(c) == \E i \in DOMAIN c.ends : c.ends[i] \in Guarded
FirstGuarded(c) ==
    IF c.ends[1] \in Guarded THEN c.ends[1] ELSE c.ends[2]

(* Mutant of Consumed: a good token is looked at and not marked. *)
Peeked(t) == [items EXCEPT ![t] = IF Usable(t) THEN @ ELSE "absent"]

(* consume(): a usable token is marked used, an unusable one is popped. *)
Consumed(t) == [items EXCEPT ![t] = IF Usable(t) THEN "used" ELSE "absent"]

Near(a, b) == a - b <= Tolerance /\ b - a <= Tolerance

(* Mutant of Matches: a token for one verb on the element does for any. *)
MatchesAnyVerb(w, t) ==
    LET e == FirstGuarded(call[w])
    IN  grant[t].elem = e /\ Near(resolved[w][e], grant[t].place)

Matches(w, t) ==
    LET e == FirstGuarded(call[w])
    IN  /\ grant[t].verb = call[w].verb
        /\ grant[t].elem = e
        /\ Near(resolved[w][e], grant[t].place)

(* No rule matches the target: there is nothing to confirm. *)
PassUngated(w) ==
    /\ at[w] = "gate"
    /\ ~ HasGuarded(call[w])
    /\ at' = [at EXCEPT ![w] = "perform"]
    /\ UNCHANGED <<place, grantVars, call, resolved>>

(* ConfirmationRequired. *)
RefuseBare(w) ==
    /\ at[w] = "gate"
    /\ HasGuarded(call[w])
    /\ call[w].token = None
    /\ Return(w)
    /\ UNCHANGED <<place, grantVars>>

(* Before the gate or before the token is issued: no window, no tree, no such *)
(* element, a disabled or occluded one, a budget that is used up.             *)
GiveUp(w) ==
    /\ at[w] \in {"propose", "gate"}
    /\ Return(w)
    /\ UNCHANGED <<place, grantVars>>

(* _check_confirmation with a token: consumed first, compared afterwards, so *)
(* a token presented for the wrong action is lost (ConfirmationInvalid).     *)
PresentToken(w) ==
    LET t == call[w].token
        opens == Usable(t) /\ Matches(w, t)
    IN  /\ at[w] = "gate"
        /\ HasGuarded(call[w])
        /\ t # None
        /\ items' = Consumed(t)
        /\ presented' = presented \cup {t}
        /\ passes' = IF opens THEN [passes EXCEPT ![t] = @ + 1] ELSE passes
        /\ IF opens
             THEN at' = [at EXCEPT ![w] = "perform"] /\ UNCHANGED <<call, resolved>>
             ELSE Return(w)
        /\ UNCHANGED <<place, grant, age, issued>>

(* The executor.  A dry run of an element verb stops short of the input      *)
(* layer; drag does not look at dry_run.                                     *)
Invokes(c) == c.dry => c.verb = "drag"

Perform(w) ==
    /\ at[w] = "perform"
    /\ IF Invokes(call[w])
         THEN at' = [at EXCEPT ![w] = "done"] /\ UNCHANGED <<call, resolved>>
         ELSE Return(w)
    /\ UNCHANGED <<place, grantVars>>

Move(e) ==
    /\ \E x \in Places : place' = [place EXCEPT ![e] = x]
    /\ UNCHANGED <<grantVars, at, call, resolved>>

TokensAge ==
    /\ age' = [t \in Tokens |->
                 IF t \in issued /\ age[t] < Expired THEN age[t] + 1 ELSE age[t]]
    /\ UNCHANGED <<place, items, grant, issued, presented, passes, at, call, resolved>>

ConfirmNext ==
    \/ \E w \in Threads :
          \/ BeginPropose(w) \/ Issue(w) \/ BeginAct(w) \/ PassUngated(w)
          \/ RefuseBare(w) \/ GiveUp(w) \/ PresentToken(w) \/ Perform(w)
    \/ \E e \in Elements : Move(e)
    \/ TokensAge

ConfirmSpec == ConfirmInit /\ [][ConfirmNext]_confirmVars
-------------------------------------------------------------------------------
ConfirmTypeOK ==
    /\ place \in [Elements -> Places]
    /\ items \in [Tokens -> {"absent", "unused", "used"}]
    /\ grant \in [Tokens -> Grant \cup {None}]
    /\ age \in [Tokens -> 0..Expired]
    /\ issued \in SUBSET Tokens
    /\ presented \in SUBSET issued
    /\ passes \in [Tokens -> Nat]
    /\ at \in [Threads -> {"idle", "propose", "gate", "perform", "done"}]
    /\ call \in [Threads -> Calls \cup {None}]
    /\ resolved \in [Threads -> [Elements -> Places] \cup {None}]

(* Two threads that present one token at once, or one that retries with it,  *)
(* never both get to act: tokens are single-use.                             *)
SingleUse == \A t \in Tokens : passes[t] <= 1

(* An action that reached a guarded element did so on a token proposed for   *)
(* that verb and that element, where the element was when it was resolved.   *)
GuardedActsAreGranted ==
    \A w \in Threads :
       at[w] \in {"perform", "done"} /\ HasGuarded(call[w]) =>
          LET t == call[w].token
              e == FirstGuarded(call[w])
          IN  /\ t \in issued /\ passes[t] > 0
              /\ grant[t].verb = call[w].verb /\ grant[t].elem = e
              /\ Near(resolved[w][e], grant[t].place)

(* A gate never opens on a token it has turned away or consumed before, nor  *)
(* on one whose time is over, whatever was evicted meanwhile.                *)
SpentStaysSpent ==
    [][\A t \in Tokens :
          passes'[t] # passes[t] => t \notin presented /\ age[t] <= TTL]_confirmVars

(* The store implements one-time grants. *)
TokenState(t) ==
    IF t \notin issued THEN "fresh"
    ELSE IF passes[t] > 0 THEN "spent"
    ELSE IF Usable(t) THEN "live" ELSE "void"

Grants == INSTANCE OneTimeGrants WITH
             state <- [t \in Tokens |-> TokenState(t)]

ImplementsGrants == Grants!Spec
===============================================================================
