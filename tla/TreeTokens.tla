------------------------------ MODULE TreeTokens ------------------------------
(***************************************************************************)
(* session._TreeTokenStore: the captures that later diffs are taken from.   *)
(* A token names one capture of one window.  Tokens live in two structures  *)
(* at once, the dictionary _by_token and one ring per window; put and get   *)
(* run under the store's lock and so are one step each.                     *)
(***************************************************************************)
EXTENDS Naturals, OrderedDicts, FiniteSets, Desktop

CONSTANTS
    Captures,    \* what a capture shows
    Tokens,      \* the tokens secrets.token_hex may produce, never twice
    Ring,        \* TREE_TOKEN_RING
    TokenTTL,    \* TREE_TOKEN_TTL_SEC, in ticks
    NoToken      \* "not in the store"

ASSUME TokenAssumption ==
    /\ IsFiniteSet(Tokens)
    /\ Ring \in Nat \ {0}
    /\ TokenTTL \in Nat
    /\ NoToken \notin [win : Windows, tree : Captures]

VARIABLES
    byToken,     \* _by_token: token -> [win, tree] or NoToken
    ring,        \* _by_window: window -> its tokens, oldest first
    tokenAge,    \* ticks since a token was issued, up to TooOld
    issuedFor,   \* what each token was issued for, kept for ever
    later        \* the tokens issued for the same window after each token

tokenVars == <<byToken, ring, tokenAge, issuedFor, later>>

Entry  == [win : Windows, tree : Captures]
TooOld == TokenTTL + 1
Issued == {t \in Tokens : issuedFor[t] # NoToken}
Live   == {t \in Tokens : byToken[t] # NoToken}
Usable(t) == t \in Live /\ tokenAge[t] <= TokenTTL

TokenInit ==
    /\ byToken = [t \in Tokens |-> NoToken]
    /\ ring = [w \in Windows |-> <<>>]
    /\ tokenAge = [t \in Tokens |-> 0]
    /\ issuedFor = [t \in Tokens |-> NoToken]
    /\ later = [t \in Tokens |-> {}]

(* Mutant of Trimmed: the ring is one too long. *)
TrimmedLate(r) == Newest(r, Ring + 1)

(* while len(ring) > TREE_TOKEN_RING: ring.pop(0). *)
Trimmed(r) == Newest(r, Ring)

(* put(): sweep what has expired, then append to the window's ring, which    *)
(* pushes its oldest token out of both structures.                           *)
PutToken(w, tree, t) ==
    LET swept == [v \in Windows |-> Only(ring[v], {u \in Live : Usable(u)})]
        rings == [swept EXCEPT ![w] = Trimmed(Append(@, t))]
    IN  /\ t \notin Issued
        /\ ring' = rings
        /\ byToken' = [u \in Tokens |->
                          IF u = t THEN [win |-> w, tree |-> tree]
                          ELSE IF Usable(u) /\ u \in Keys(rings[byToken[u].win])
                          THEN byToken[u] ELSE NoToken]
        /\ issuedFor' = [issuedFor EXCEPT ![t] = [win |-> w, tree |-> tree]]
        /\ later' = [u \in Tokens |->
                        IF u \in Issued /\ issuedFor[u].win = w
                        THEN later[u] \cup {t} ELSE later[u]]
        /\ UNCHANGED tokenAge

(* get(): an expired token leaves both structures; the caller gets nothing.  *)
GetToken(t) ==
    /\ byToken' = IF Usable(t) THEN byToken ELSE [byToken EXCEPT ![t] = NoToken]
    /\ ring' = IF t \in Live /\ ~ Usable(t)
               THEN [ring EXCEPT ![byToken[t].win] = Without(@, t)] ELSE ring
    /\ UNCHANGED <<tokenAge, issuedFor, later>>

(* What get() returns. *)
Found(t) == IF Usable(t) THEN byToken[t] ELSE NoToken

TokensAge ==
    /\ tokenAge' = [t \in Tokens |-> IF t \in Issued /\ tokenAge[t] < TooOld
                                     THEN tokenAge[t] + 1 ELSE tokenAge[t]]
    /\ UNCHANGED <<byToken, ring, issuedFor, later>>

TokenNext ==
    \/ \E w \in Windows, tree \in Captures, t \in Tokens : PutToken(w, tree, t)
    \/ \E t \in Tokens : GetToken(t)
    \/ TokensAge

TokenSpec == TokenInit /\ [][TokenNext]_tokenVars
-------------------------------------------------------------------------------
(* A token handed out stays good for its whole time unless Ring newer        *)
(* captures of its OWN window were taken: no other window, and no expiry of  *)
(* another token, can cost a caller its baseline.                            *)
BaselinesKept ==
    \A t \in Issued :
       Usable(t) <=> tokenAge[t] <= TokenTTL /\ Cardinality(later[t]) < Ring
===============================================================================
