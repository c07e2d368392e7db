# OSScreenObserver: models, checks and proofs

OSScreenObserver lets language-model agents see and operate a desktop: it reads
the accessibility tree of windows, serves it over MCP (stdio) and HTTP (the web
inspector), acts on elements and coordinates, and records what was done.  A
window agent of its own drives it over HTTP.  This directory holds TLA+ modules
of the parts of the program whose correctness depends on the order of events or
on many small cases, the TLC configurations that check them on small instances,
and proofs that TLAPS checks for every instance.

Contents: 1 the system, 2 the modules, 3 the runs, 4 fairness, 5 what is proved,
6 observations about the code, 7 approximations, 8 what is not modelled, 9 the
plan, 10 how to run.

## 1. The system

All tools are functions `fn(ctx, args)` in `tools/`, called by `tools.dispatch`.
Two front ends call `dispatch`: the MCP server, one call at a time, and the web
inspector, a threaded Flask server, one thread per request.  Both share one
`Session` (`session.get_session`), hence one tree cache, one token store, one
snapshot store, one confirmation store, one budget, one step counter, one active
trace.  The desktop below is shared with applications that change it at any
moment; with `--mock --scenario` it is a scripted one.  The window agent is a
separate process that calls the web inspector.

| component | state it keeps | operations | what makes it correct | module |
|---|---|---|---|---|
| Tree cache (`tree_cache.py`) | ordered dictionary window -> (tree, time) | get, peek, put, invalidate, invalidate_all | order, store and cap agree; nothing older than the TTL is served | `TreeCache` |
| Tree access (`observer/core.py`, `tools/actions.py`) | the calls in progress, the tree each has in hand | read through the cache, act, after-read, invalidate | a read sees what finished actions did; a receipt sees its own action | `TreeAccess` |
| Confirmation (`session.py`, `tools/receipts.py`, `tools/meta.py`) | issued tokens: unused, used, gone | propose, gate, expiry, sweep | a token opens one gate, for the verb, element and place it was issued for | `ConfirmTokens` |
| Budgets (`budgets.py`) | counters, the sliding window of a minute | gate before, note after | each success counted once; gated actions past a cap bounded | `Budgets` |
| Dispatch, step ids, audit (`tools/dispatch.py`, `session.py`, `audit.py`) | next id, last input step, audit lines | allowlist, next_id, record | every id accounted for once, whatever fails or raises; `caused_by` is the newest input | `Pipeline` |
| Tree tokens (`session.py`) | token -> capture, one ring per window | put, get, expiry, eviction | the two structures agree; only a window's own captures evict | `TreeTokens` |
| Observation (`tools/observe.py`) | base, tree and reply of a call; filters, pages | full, `since=`, `changed_only`; depth, filters, cursor | a diff starts from what its token names; no going back; pages cover the view | `Observations`, `TreeViews` |
| Traces (`tracing.py`, `tools/trace_replay.py`) | active handle, counter, file | start, stop, record | every numbered row is written once; a stop ends the trace | `Traces` |
| Replays (`replay.py`, `tools/trace_replay.py`) | table of replays, position, divergences | start, step, stop | rows in order, once; stop on divergence | `Replays` |
| Snapshots (`session.py`, `tools/snapshots.py`) | ids -> states, by use and age | snapshot, get, diff, drop | what is used is not what is evicted | `Snapshots` |
| Waits, oracles (`tools/snapshots.py`, `oracles.py`) | a deadline, the last hash | wait_for, wait_idle, assert_state | answers in time; what it reports was so | `Waits` |
| Scenarios, mock adapter (`scenarios.py`, `observer/adapters/mock.py`) | state, overrides, element clicked last | load, reactions to inputs | reactions decide by what is on the screen | `Scenarios`, `MockDesk` |
| Diff (`diff.py`) | none | diff_custom, diff_json_patch, apply_custom | the diff tells every change it compares | `TreeDiff` |
| Selectors (`element_selectors.py`, `tools/context.py`) | none | resolve, selector_for and what parse reads of it, _resolve_element | a derived selector finds its element, or leaves it to the element id | `Selectors` |
| Occlusion, activation (`observer/occlusion.py`, `observer/activation.py`) | none | visible areas, bring_to_foreground | the click hits the window | `Visibility` |
| MCP server, web inspector (`mcp_server/`, `web_inspector/`) | none of their own | catalogues, routes | calls arrive whole | `Surfaces` |
| Window agent (`window_agent/`) | conversation, turn, retries, window picked | console, model turn, tool batch, requests | ends; each call has one result and is made once | `Targeting`, `AgentLoop` |
| Adapters, renderer, vision, redaction, setup | platform handles, files | platform calls, image and text processing | outside these models | |

How they interact:

* `dispatch` asks the allowlist, runs the handler (which draws a step id and, for
  an element verb, asks the budget and the confirmation gate), then invalidates
  the tree cache, feeds the active trace, notes the budget and writes the audit
  line.  There is no lock over these steps: another thread may run between any
  two.
* A handler reads the tree through `ScreenObserver.get_element_tree_with_meta`:
  ask the cache, walk the adapter with no lock held, store the capture.
* An element verb (`_do_element_action`) resolves its window, its element on the
  (possibly cached) tree, passes the gates, acts, reads again past the cache,
  builds a receipt.  A composite verb then calls `observe_window` by itself.
* `observe_window` takes the base of a diff from the token store (`since=`) or
  from the tree cache itself (`changed_only`), reads, and issues a new token.
* `wait_for`, `wait_idle` and `assert_state` read several times with time, and
  other threads, in between.
* `replay.step` calls back into `dispatch`.
* The window agent turns a tool call of its model into one or two HTTP requests;
  a route turns each into a call of `dispatch` or of the observer.

What is hard to test here is in `PROJECT.json` under "hazards", each at its line:
mostly interleavings of request threads around state that is checked in one
critical section and used in another, plus stale captures, expiry and limits,
polling against a moving desktop, and tables of names that must agree.

## 2. The modules

| module | stands for | builds on |
|---|---|---|
| `Desktop` | the windows captures are taken of | |
| `OrderedDicts` | the order of a Python `OrderedDict` as a sequence of keys | |
| `DataLemmas` | lemmas that several proofs cite: induction on the naturals, orders of keys | `OrderedDicts`, TLAPS |
| `TreeCache` | `tree_cache.TreeCache`, one step per method (each runs under its lock) | `OrderedDicts`, `Desktop` |
| `TreeAccess` | calls that read and act over the cache, in steps between which other threads run | `TreeCache` |
| `OneTimeGrants` | the abstract promise of confirmation tokens | |
| `ConfirmTokens` | `_ConfirmStore`, `propose_action`, the gate; implements `OneTimeGrants` | |
| `Budgets` | `BudgetStore.gate` and `note` around a handler | |
| `Pipeline` | `dispatch` around the budgets: allowlist, step ids, composed observations, handlers that raise, audit lines; implements `Budgets` | `Budgets` |
| `TreeTokens` | `_TreeTokenStore`: dictionary and rings | `OrderedDicts`, `Desktop` |
| `Observations` | `observe_window`, composed of the cache and the token store; implements `TreeTokens` | `TreeCache`, `TreeTokens` |
| `Traces` | `trace_start`, `trace_stop`, `TraceHandle`, the recording hook | |
| `Replays` | the table of replays and `replay.step` | |
| `Snapshots` | `_SnapshotStore` and the four tools over it | `OrderedDicts` |
| `Scenarios` | the scripted desktop: states, overrides, reactions | |
| `Waits` | `wait_for`, `wait_idle`, `assert_state` in steps over the scripted desktop | `Scenarios` |
| `MockDesk` | the scripted desktop in use: inputs of the tools, loading, one waiting client | `Waits` |
| `Targeting` | which window a selector means, in the agent and in the server | |
| `AgentLoop` | the console and `run_agent`, with a moving desktop and failing requests | `Targeting` |
| `Surfaces` | catalogues, routes and argument names between a caller and a handler | |
| `Trees` | element trees and paths | |
| `TreeDiff`, `TreeViews`, `Selectors` | pure algorithms on trees | `Trees` |
| `Visibility` | what shows of a window, and one call of `bring_to_foreground` over any desktop (`RaiseSpec`) | |
| `Algorithms` | the stores, tables and pure functions that share no state, each by itself | `Snapshots`, `TreeTokens`, `Surfaces` and the five before |
| `MC_*` | the instances for TLC: symmetry, scripts, sample trees and rectangles | each its module |
| `*_proofs` | theorems | each its module, `DataLemmas` and TLAPS; `Gates_proofs` is about `ConfirmTokens`, `Pipeline`, `Budgets` and `Surfaces`, `Playback_proofs` about `Traces`, `Replays` and `MockDesk`, `Observations_proofs` about `Observations`, `TreeTokens` and `Snapshots`, `AgentLoop_proofs` about `AgentLoop` and `Visibility`, `Trees_proofs` about trees, views and selectors, `Algorithms_proofs` about diffs and, on these lemmas, `Algorithms` |

How state corresponds to code:

* A *thread* (constant `Workers`; `Threads` in `ConfirmTokens`, `Steppers` in
  `Replays`, `Clients` in `Observations`) serves one tool call at a time.  `pc[w]`
  (`at[w]` in `ConfirmTokens`; `phase`, of one client, in `Waits`) is the place in
  the handler where it stands between two critical sections; local variables the
  rest of the handler needs are per-thread variables (`held` and `got` in
  `TreeAccess`, `base` and `fresh` in `Observations`, `resolved` and `call` in
  `ConfirmTokens`, `held` and `row` in `Replays`, `step` and `due` in `Pipeline`).
  `Waits` has one client, `AgentLoop` one agent: what moves around them are actions
  of the environment.
* A window's *content* is a version number where only its age matters
  (`TreeAccess`, `Observations`), a list of elements with values where conditions
  look at it (`Scenarios`), a tree where an algorithm works on it (`Trees`).
* *Time* is a `Tick` that ages what has a time stamp; ages saturate at the first
  value past every limit, or the call they belong to ends.  In `Snapshots` and
  `TreeTokens` a capture just becomes too old at some moment.
* A *token*, snapshot or trace id is a model value that is issued at most once, as
  `secrets.token_hex` and time-stamped ids promise.  Constants give the few ids
  an instance has, which also bounds the number of issues.
* A *text* is a model value or a member of a small set; a title is the set of the
  windows that contain it; comparing names is a relation (`Compares`).  A tree
  hash is the tree.
* Ghost variables serve properties only and never guard an action (`stumbled` also
  bounds the calls that raise): `did`, `floor`, `acked` (`TreeAccess`: versions made
  by actions; `acked` leaves out the calls that named another window than the one
  their input reached), `grant`, `issued`, `presented`, `passes` (`ConfirmTokens`;
  what a token was issued for is kept after the store forgot it), `succeeded`,
  `late`, `hasty` (`Budgets`), `inputs`, `denied`, `composed`, `lost`, `stumbled`
  (`Pipeline`), `issuedFor`, `later` (`TreeTokens`), `shown`, `refilled`, `blind`
  (`Observations`), `promised`, `rivals` (`Traces`), `issued`, `crowded`
  (`Replays`), `newer`, `dropped` (`Snapshots`), `steady`, `truths`, `calm`,
  `calmRead`, `returned` (`Waits`), `requests`, `hits` and the fields `ran` and `id`
  of `call` (`AgentLoop`).  In `ConfirmTokens`, `grant` also holds the record the
  store itself keeps while the token is in it, and `issued` keeps tokens from being
  issued twice.

`map` in `PROJECT.json` names the lines each definition translates.

### Mutants

A definition whose comment begins "Mutant of" changes one definition the way a
slip in the code would (an expiry not checked, a limit off by one, a missing
reset).  No specification uses it: it documents that the property listed with it
would notice.

## 3. The runs

| run | instance | asks | distinct states |
|---|---|---|---|
| AccessShared | 2 threads, 2 windows, cache of 1, actions that spill over | bounded staleness, receipts, whatever interleaves | 858 k |
| AccessSerial | 1 thread, 2 windows, cache of 1, every kind of call that goes through `dispatch` | a read sees finished actions, those dispatched under another window's name apart; the cache heals | 135 k |
| CompositeObserve | 1 thread, 1 window | expected violation: the observation of a composite verb may precede its key strokes | |
| ConfirmRace | 2 threads, 2 tokens, 2 elements, click and drag | spent stays spent, what passes was granted, refinement of `OneTimeGrants` (which includes single use) | 404 k |
| PipelineRace | 2 threads, element, coordinate and capture calls, an allowlist, calls that raise, caps of 2 and 1 a minute | gated actions past a cap bounded, `caused_by`, the ledger of step ids, lines and counts | 3.7 M |
| ObserveSerial | 1 client, 2 windows, 2 tokens, ring of 1, cache of 1 | diffs name their base, no going back, changes are from what was shown | 415 k |
| TraceShared | 2 threads, 2 traces, 3 rows | every row written, closed traces rest, stop frees the session, a started trace records, only an overlapping start or stop takes a trace away | 105 k |
| ReplayShared | 2 threads, 2 replays, 3 rows | position counts calls, rows once and in order, stop on divergence | 904 k |
| MockDesk | the repository's login scenario with a second window, 3 verbs, timeout 3, poll 1, quiet 2 | waits and assertions against a moving desktop; the scripted reactions; every wait ends | 179 k |
| AgentTasks | 1 task, 2 turns, 1 retry, batches of 2, 2 windows, 1 move of the desktop | conversation well formed, requests bounded, no call twice, uids hit, the task ends | 542 k |
| StaleUid | 1 call | expected violation: an element verb on a closed window acts on another | |
| Algorithms | stores of 2 with 3 snapshots and of a ring of 2 with 4 tokens; all calls with 2 optional arguments; small trees and rectangles | both stores keep what they promise; calls arrive whole; diff, pages, selectors and the raising click against reference definitions | 46 k |

Why the bounds are enough.  Two threads show every race of two calls, and the
hazards found are of two (three where a stop races a stop and a start, which two
threads reproduce one after the other); where a bound names "the number of
threads", it is proved for any number.  A cache of one entry and two windows
evicts on every second store, a ring of two with four tokens evicts, expires and
refills, three snapshots in a store of two evict in every order of use.  `TTL`,
`TokenTTL` and `Minute` are one or two ticks, so that entries are met fresh, at
the limit and past it.  `MaxVersion`, `MaxWalk`, `MaxCalls`, `MaxSteps`,
`MaxRows`, `MaxStumbles`, `MaxTasks` and `MaxMoves` only end the counting.  `Places` 0 and 2 with
`Tolerance` 1 hold one pair within and one beyond the tolerance.

* `AccessSerial` asks for one thread because `ReadsSeeFinishedActions` is false for
  two (section 6), and likewise `Spill = FALSE`; `ObserveSerial` because `NeverBack`
  is about a client alone.
* `ConfirmRace` has a state constraint, `OneHardThing`: threads and tokens meet on
  clicks of guarded elements, while drags, unguarded elements and their moves are
  explored with one call and one token at a time.  The store and the gate do not
  look at the verb but to compare it, so that a race of two drags differs from a
  race of two clicks in nothing the store does.  The proofs need no such bound.
* `PipelineRace` has coordinate tools beside the gated ones.  They pass every cap
  (section 6), so the two overshoot properties count the gated actions noted from the
  moment a cap is reached (`late`, `hasty`), by whatever calls it was reached.
* `MockDesk` has `MaxSlow = 0`: reads take no time of their own; `IdleWasQuiet` is
  stated and proved for any `MaxSlow`, and `phase` still lets the desktop move between
  any two reads of a round.
* `AgentTasks` has one task of two turns; that ids and histories stay in order over
  tasks and turns of any number is proved.
* `Algorithms` chooses one `part` at the start, so its parts do not multiply.  The
  trees have up to three children and a second level; twins, moves, removals and
  nested changes all occur, in fields the diff compares and in fields it does not;
  one role has two words and one name a quote.  The rectangles are of a few pixels
  on a small screen, with up to two windows above, and title bars inside, across and
  outside of them.  `Extra = 2`: an argument is lost or renamed by itself or beside
  one other (the rules that drop one selector for another look at two).

No state of the concurrent models should be without a successor, and deadlock is
checked in their runs.  It is not in `PipelineRace` (the counting ends),
`AgentTasks` and `StaleUid` (the person quits, the process ends) and `Algorithms`
(a sample has been taken).

The two expected violations check one claim of the repository's own documentation
each; "findings" in `PROJECT.json` quotes it.

## 4. Fairness

`EventuallyCoherent` (`FairSpec` of `TreeAccess`) asks for weak fairness of the
steps of a call that is being served, one by one (a Python thread in the middle of
a handler runs on; adapter walks return), and of `Tick` (time passes).  It asks
nothing of `Begin`, `Act`, `WalkFails`, `SkipObserve`, or the applications: agents
may fall silent or read for ever, and an element may be refused or not.  The point
of the property is that a client that reads without pause cannot keep an old
capture alive: `get` compares with the time of capture and a hit does not renew it
(the mutant `SlidingHit` shows what would happen).

`EveryWaitEnds` (`MockDesk`) asks for weak fairness of the steps of the waiting
thread and of the clock.  Nobody has to act, ask or load, and the desktop may move
for ever: the deadline alone has to end the call.

`TaskEnds` (`AgentLoop`) asks for weak fairness of: the model's answer or failure,
the next call of a batch, the end of a batch, and the answer or failure of a
request.  The code justifies each: requests to the model time out after 240 s,
GETs to the server after 30 s and POSTs after 60 s (`window_agent/loop.py`,
`client.py`), and the rest is the agent's own thread.  The server owes nothing
(`Serve` is not fair), nor does the person at the console: the property speaks of
a task once it was begun.

## 5. What is proved

TLAPS checks these for every value of the constants allowed by the named
assumptions of the modules, with any number of threads, windows, tokens, rows,
turns and tasks.

`DataLemmas`: what `Without`, `Touch`, `Newest` and `Only` do to the keys, the
distinctness, the length and the order of an ordered dictionary (`Behind`: the keys
after a key).  `LeastNatural`, `Induction`, `LeastValue` and `Recursion` are
induction on the naturals.  The library's induction theorem takes an operator as
its parameter, which the installed provers do not instantiate; stated of a *set*
with 0 and the next of each of its members, induction is a first-order fact, which
follows from the order of the naturals being well founded.  With it, what a
recursive *function* computes can be proved; a `RECURSIVE` operator stays out of
reach.

`TreeAccess_proofs`: `TypeCorrect`, `CacheKeepsShape`, `StalenessBounded`,
`ReceiptsAreFresh`, `AloneReadsSeeActions`.  The inductive invariant `IInv` has three parts.

* `CacheInv`: types of the cache, `CacheShape`, and that a fresh entry's tree is
  older than the entry by at most `MaxWalk`.  `BoundedStaleness` alone is not
  inductive: it speaks of trees already returned, and what a hit returns depends on
  what an earlier `Store` of some other thread put there.
* `Types`: types of the rest.
* `WorkerInv(p)`: a tree in hand between walk and store is at most `MaxWalk` old,
  a tree returned at most `TTL + MaxWalk`; the tree walked after the action, and
  the receipt's, is no older than the call's own action; and no call looks a tree
  up in its `after` phase or acts outside its `before` phase.

`AloneReadsSeeActions` is about one thread that calls through `dispatch`, with
actions that change their own window only (`OneThread`).  It adds `SeesActions`: an
entry that may be served, and the tree in hand, show what the finished actions
made.  `Finish` drops the window it is told, and an action counts as finished when
that was its own (`Acknowledge`); the calls this leaves out are in section 6.

One lemma per cache method shows that `CacheInv` is kept; the step lemma has one
case per action.

`Gates_proofs`, first part, on `ConfirmTokens`: `ConfirmTypeCorrect`,
`TokensAreSingleUse`, `GuardedNeedsGrant`, `PresentedIsSpent`, `StoreGrantsOnce`.  `SingleUse` becomes inductive with
`TokenInv(t)`: a token that a gate has seen is never unused in the store again,
and one that has opened a gate has been seen.  `ThreadInv(w)` carries the grant
from the gate to the action.  `StoreGrantsOnce` maps a token to fresh, live, spent or
void (`TokenState`) and shows each step to be `Issue`, `Spend`, `Lapse` or a
stutter of `OneTimeGrants`; a presented token that does not match is a `Lapse`.

`Gates_proofs`, second part: `AllActionsCounted` and `Overshoot` of `Budgets`;
`PipelineKeepsBudgets`, `OvershootInPipeline`, `RateOvershootInPipeline`,
`CausedByIsNewest`, `LedgerAlwaysBalances`.

* `AllActionsCounted`: the invariant is the count itself with the types; the work is
  in the cardinality of the sets of calls in flight and of those about to be noted,
  one lemma per action.
* `Overshoot` assumes nothing of the kinds of call: ungated calls may use the budget
  up at any moment.  `Over` says that before a cap is reached nothing is late, and
  from then on a gated call is past the gate or noted late, one for each thread but
  the one whose note reached the cap (`OthersAreFewer`); the gate lets nobody else in.
* `RateOvershootInPipeline`: the same with a minute that may have room again, which
  starts the count anew.  The recent actions are as many as the young entries of the
  window (`YoungCounted`); growing older and trimming make no more of them
  (`NoYounger`), a note one more (`NoteAges`), so that only a note fills the minute.
* Every step of the pipeline is a step of `Budgets` or leaves its variables alone,
  so the pipeline implements `Budgets` and what holds there holds here.
* `CausedByNewestInput` needs `Counter` (the last input step is the greatest of
  the input steps drawn) and `Causes` (each call's cause is the greatest up to its
  own step): ids drawn later are greater than every step drawn before, so they
  disturb neither.
* `LedgerBalances` becomes inductive with `Dues`: only a call that has left its
  handler awaits an audit line, and the step of an open call was drawn.  `Books`
  says that the ids are covered by the five books and counted by them, so each is
  in exactly one.  The steps are of five sorts: a step that draws an id enters it
  in one book (`DrawnBooks`), a step in the middle of a call keeps it open
  (`MiddleDues`, `SameBooks`), a handler that raises moves its id to the book of the
  lost (`RaiseLedger`), a note moves the action count, and the audit line moves the id
  from the open calls to the lines, or adds a nameless one.

`Gates_proofs`, third part, on `Surfaces`: `CallsReachTheirTools`, that every call
arrives whole, for any number of optional arguments (TLC gives at most two).

* The invariant is that the requests on their way are those of the call that was made
  (`SentIsTheCall`), and that what has arrived is whole (`ArrivedWhole`).
* The tables are read off once, part by part: the route of a tool serves it or its
  alias, and what the catalogue offers is put on the way and read by the handler
  (`GetsServe`, `PostsServe`, `PicksServe`, `OthersServe`, `McpServe`).
* The rest is about arguments and not about tools: what the choice of one window
  selector, a body, a pick of arguments and the renaming of `/api/action` leave of a
  call (`WindowArrives`, `BodyArrives`, `ActionArrivesWhole`).  A stray point beside an
  element does not turn a hover into another tool (`PostArrives`).

`AgentLoop_proofs`: `AsksAreBounded`, `NothingIsSentTwice`, `MeantIsHit`,
`EveryCallIsAnswered`.

* `Asked` bounds the requests by those of the turns before and the attempts of
  this one.
* `Calls`: the call under way bears the id (task, turn, position) of the result to
  come, and every call that was given up bears the id of a result already recorded
  (`Past`), so no later call can be taken for it; a call with requests to go has not
  been carried out.
* `UidsArrive`: the uid a caller has in mind is the one that is sent, whichever
  class of call rewrites the selector (`SentKeepsUid`), and the server prefers a
  uid to anything else.
* `Conversation`: the history is complete up to its last message (`Complete`), and
  while a batch runs, the last message is the answer whose calls are the results
  recorded and those still to do.  `OneMore` and `AllResults` say when appending
  keeps a conversation complete.

`AgentLoop_proofs`, second part, on `Visibility`: `ClickLands`,
`TheClickHitsTheWindow`.  Named assumptions: rectangles are of integers, margins are
naturals, at most one title bar is found.

* `Tiles(s, P)`: the rectangles of `s` are not empty, lie apart and make up the
  pixels `P`.  `AroundIsTheRest` says it of the four strips of `_subtract_rect`, by
  arithmetic on the edges of two rectangles (`IntersectPixels`); tilings of sets
  apart can be put one after the other (`TilesTogether`).
* `FlattenTiles` and `AreasTile` are inductions, over the rectangles of one pass and
  over the windows above: what is left after `m` windows tiles the pixels under none
  of them.  So the visible areas tile what a user sees of the window (`AreasShow`).
* `BestIsARegion`: the highest and widest region exists, and is one of them.
* `ClickLands`: whatever the margins, the point is in the region.  Its exception,
  a title bar that shows in the last row of its region only, is in the code
  (section 6), and the property names it.

`Playback_proofs`, first part, on `Traces`: `TypeCorrect`, `ClosedTracesLeave`,
`StartedTracesRecord`, `ClosedTracesStay`, `RowsAllWritten`, `OpenTracesKept`.
`ClosedIsCleared` is not inductive: `trace_start` makes the
trace and then stores it, and a stop may come between.  `ThreadInv(p)` says that
between the two assignments the new handle is open, not active and in nobody
else's hands, so no stop can have closed it; `SessionInv` ties the handle that is
active, and the one that was promised to record, to the session.  `Numbered` is
`EveryRowWritten` and the finiteness of its sets; a row taken up adds the next
number to those due, a row written moves it to the file (`LineAdded`).
`OpenTracesKept` needs `RivalInv`: while an open trace is the session's, a thread that
is about to change the session, other than to close this trace (`Late`), is one of
those noted when the trace was put there.

Second part, on `Replays`: `PositionCounts`, `RowsOnce`, `StopsForGood`.  The
invariant has
two parts per replay.  `Counted`: the calls dispatched are the position and those
under way, and the position with the threads inside stays below the rows and the
threads.  `Orderly`, for a replay that was never stepped by two threads at once: one
thread is inside at most, its row is the next one, the calls are the rows before
the position (and that row, once dispatched), and a divergence that stops leaves
the replay finished with nobody inside.  `StopsForGood` follows from the last
part: a step that dispatches needs a thread inside.

Third part, on `MockDesk`: `LastingIsSeen`, `QuietIsQuiet`, `PassedHeld`,
`NobodyGetsInUnseen`, `TypingStaysInFocus`.  A step either
changes the desktop or moves the call; `Frame` says that the second kind leaves
what holds and what is seen alone.  The invariant `Watching` has one part per call,
besides clocks and the places of `phase`.

* `Steady` (wait_for): what was steady still holds, and in a round no steady
  condition was passed over.  So a condition decided to be false was not steady
  (`HoldsNow`, `NothingToRead`), and at the end of a round nothing is.
* `Calm` (wait_idle): while the tree is the one seen last and has not come back to
  it, `calm` is at least the quiet time the call believes in; at the comparison the
  read may have added up to `MaxSlow`.
* `Recorded` (assert_state): what holds now, or held in the windows listed, is among
  `truths`, and so is every predicate passed so far.

The last two are about the scripted desktop, for every script that is a login of the
kind of the repository's (`LoginScripts`: the state "welcome" is entered only by
reactions that ask for both fields, which the first window of "start" has once
each, and a reaction that sets a value answers to typing into its own element;
the script of the run is one, which TLC evaluates).  `Scripted` says that the state
is one of the script's and that an input a tool has still to make names no element
unless it is a click.  `ShownIsMeant`: for a field that is there once, what an
observer reads is what a `when` goes by.  `ChangeIsSet`: what is read changes only
under an id that the reaction sets; `UnnamedGoesToTouched`: typing that names no
element goes to the one clicked last.

`Observations_proofs` has three parts.

* `Snapshots`: `SnapshotsStay`, `SnapshotStoreBounded`.  `SnapshotsKept` speaks of a
  count of other snapshots used since, and the store knows only an order.
  `Remembered(id)` ties them: behind a snapshot in the order are only those used
  after it, and of one that was pushed out as many as the store holds had been.
* `TreeTokens`: `BaselinesStay`.  `RingInv` is the agreement of the dictionary with
  the rings; `LaterInv` says that tokens of one window age in the order they were
  handed out, which the sweep needs: it never takes a token and leaves an older
  one of its window.  `Baseline(t)` then says that behind a live token in its ring
  are exactly the tokens of its window issued later.  Of what a capture shows the
  proof uses nothing.
* `Observations`: `DiffsAreFromTheTokensCapture`, `ChangesAreFromWhatWasShown`,
  `NeverBackAlone`, over the types `ObsShape`.  `SinceInv`: from the look-up to the
  answer the base is what the token was issued for, and no token is issued twice.
  `SeenInv`: a cached capture that nobody refilled is what the client knows.
  `AheadInv`: what was shown is no newer than what is cached, what is cached, or in
  hand, no newer than the window.  The last holds for a client alone, and the
  theorem assumes one: of two, one may walk early and store late, after the other was
  shown more.
* The composition: `ClientsUseTheTokenStore` shows that `Observations` implements
  `TreeTokens` with versions as captures, so that `ObserversKeepBaselines` is
  `BaselinesStay` carried over.

`Trees_proofs` and `Algorithms_proofs`: `PagesCover`, `SelectorsFind` and `DiffsAreTold`,
for trees of any shape, size and height.  What walks a tree in `Trees`, `TreeViews`, `Selectors` and `TreeDiff` is a
recursive function on the trees up to a height, and that makes induction over trees
first-order: a set of trees that has every tree whose children it has, has them all
(`TreeInduction`, by induction on the height).

* What a recursive function computes: a function that satisfies the equation of the
  definition exists (`TreeRecursion`, by iterating the equation once per level), so
  the function defined satisfies it, and there is only one.  The lemmas named
  `...Def` (`AtDef`, `FlatDef`, `PrunedDef`, ...) do this for each definition.
  Everything after them uses the equations alone.
* `FlattenSeq` is one concatenation after the other (`FlattenRuns`); an operation that
  works on each member of a sequence by itself may be applied to the parts or to the
  whole (`FlattenThrough`, `ThoseConcat`, `MappedFlatten`).  Order and "once each" of the
  nodes of a tree follow (`FlatInjective`, `ThoseInjective`).
* `PagesCover`: what the filters leave of a tree shows the nodes that are wanted, in
  order (`PictureIsShown`, `ViewIsWanted`: the recursion of `_filter_tree`, which keeps
  a parent for its children's sake, against the definition by prefixes of paths); and
  pages of any size, each from the cursor of the one before, are the whole sequence
  (`FollowedAll`).
* `SelectorsFind`: after each step of the selector the path so far is among the nodes
  found (`OwnStepMatches`), and is the only one where the step had no twin
  (`OwnStepAlone`).  This is about a selector that reads back as it was written, each
  step of it `Legible`; that the element of an action sent back is then this one is
  `DerivedLeadsBack`.  Any other reads as an error, or, for the root alone, as words
  one below the other: below the root the action is left to the element id
  (`DerivedFallsBack`).
* `DiffsAreTold` is about captures as far as `diff.py` reads them (`Compared`), which are
  trees again (`ComparedDef`, `ComparedType`); what differs in other fields only is
  the same to it.  First part, a reader of the diff (`DiffIsTold`, `NoDiffNoChange`): every
  change from one node to another belongs to the path of the new one (`ChangesOwned`),
  so of all that a diff says, what it says of a child is what the comparison of that
  child says (`SaysKid`).  The removals and additions give the number of children
  (`SaidSize`, by a bijection between the children that stay on either side), the
  additions and moves give each position its child; by induction over the old tree,
  `Told` is the new one (`SaidIsTold`).
* Second part, a JSON patch (`PatchIsTold`).  A list of changes *turns* x into y at p
  when it does so in every tree that has x at p, which is what makes it possible to
  put the changes of the parts together (`Turns`, `TurnsBoth`, `TurnsKids`).  Where
  nothing moves and no list loses two children, a matched child keeps its position
  (`InPlaceSteady`: at most one position, the `Gap`, has no partner); the removal
  takes out what is at the gap, the additions fill it again and go on behind the end
  (`GrownMore`, which follows `list.insert` position by position).
* Third part, `apply_custom` (`CustomIsTold`), whose order is another: all replacements,
  then the removals from the deepest up, then the additions from the top down.  Its
  stages (`OfStage`: one for the replacements and one for each depth of either) are
  run at every node: a list of depth d loses its child after the lists below it did
  theirs and gets its new ones before them, and in between its children rest
  (`KidsRest`).  So what is at a node after each stage (`AtStage`) is determined by what
  is at its children (`StageTurns`), and such a run exists for every pair of trees, by
  induction (`StagesExist`); stages at depths that no change has do nothing.
* The state carries little: `CallsSampled` and `CapturesSampled` say that the sample is
  a tree with the arguments of a call, or two trees.

Only model-checked: liveness (`EventuallyCoherent`, `EveryWaitEnds`, `TaskEnds`), out
of this prover's reach.  Every invariant and every action property of the passing
runs is stated by a theorem.

## 6. Observations about the code

Shown by the runs that expect a violation:

* `_compose_observe` observes inside the handler, before `dispatch` invalidates.
  `type_and_observe` and `press_key_and_observe` have no after-read that refreshes
  the cache, so their observation may be a capture from before the key strokes
  (`ObservationSeesOwnAction`).  `click_element_and_observe` is fine: its receipt
  refreshes the cache first.
* `_do_element_action` falls back to the focused window when the one named is not
  found, so a uid of a closed window acts on another (`ClosedWindowIsGone`).  A
  window that is still open is hit (`NamedWindowIsHit`).

Met while modelling; the models contain the behaviour unless the text says so, and
the properties are stated so that they are true of it.

Access and confirmation:

* A capture walked before another thread's action may be stored after that
  action's invalidation and is then served for up to a TTL.  With two threads in
  `AccessSerial`, `ReadsSeeFinishedActions` fails; `BoundedStaleness` and
  `EventuallyCoherent` say what remains true.
* `dispatch` drops only the window that a result names, and the window of the arguments
  when the result names none (`tools/dispatch.py:165`).  With `Spill = TRUE` a second
  window that the action changed keeps its old capture.  And a coordinate tool, `drag`
  or a composite that is given a `window_uid` drops that window, while its keys go to
  the focused one and its clicks to what is under the pointer: if that is another
  window, one thread alone reads from before its own finished action, for up to a TTL,
  against tree_cache.py:12-14 and the comment at tools/dispatch.py:157-160 ("when the
  target window cannot be determined (legacy coordinate tools), drop everything").
  `ReadsSeeFinishedActions` is false with such calls.  `Finish` contains them (any
  window may be named); the property, and `AloneReadsSeeActions`, wait only for the
  actions whose own window was dropped.
* The web inspector's `/api/bring_to_foreground` (`web_inspector/views.py:293`)
  calls the observer directly: no step id, allowlist, audit line, trace row or
  invalidation follows.  It is the kind `raise` of `AccessShared`.
* The confirmation gate consumes a token before it compares: a mismatch, and a dry
  run, cost the token.  `drag` asks for confirmation of the first guarded endpoint
  only, and drags even when `dry_run` is given (agentic_features_design.md:662
  lists it among the verbs that take it).

The pipeline:

* `gate` looks and `note` counts, so threads overshoot `max_actions`; by how many gated
  actions is `OvershootBounded`.  Coordinate tools and `drag` are counted and never
  gated, so nothing bounds the actions as a whole, against the help of `--max-actions`
  (`main.py:235`); no screenshot tool calls `gate`, and `max_vlm_tokens` is never asked by it.  Dry runs and any other call
  that reports ok cost an action.
* A call refused by the allowlist, and an unknown tool, leave no audit line (design
  section 20: "One line per call").  A refused input call has drawn a step id and is
  what later calls are caused by.  A handler that raises has its id on no line: the
  INTERNAL result that `dispatch` makes has none (`tools/dispatch.py:149`), and the
  line reads `step=?` (`audit.py:51`; the design shows `step=42`).  An observation
  inside a composite verb may be caused by another thread's input.  Its result
  carries the verb's own step id.

Traces and replays:

* `trace_stop` clears `session.active_trace` whatever it holds by then.  A second
  `trace_stop` that overlaps a stop and a start clears the new trace;
  `StartedTraceRecords` therefore speaks of traces started while no stop was under
  way.  Two overlapping `trace_start` calls leave the first handle unclosed.  Rows
  of concurrent calls may be appended in another order than numbered, and one more
  may follow the footer.
* Two overlapping `replay_step` calls on one replay issue a row twice and skip the
  next; `EachRowOnce` and `StopsOnDivergence` speak of replays not so crowded.
* `replay_start` names a replay by the size of the table plus one: after
  start, start, stop of the first, the third start takes the id of the second,
  which can no longer be reached.
* A composite verb takes `wait_after_ms` and `since` out of its arguments
  (`tools/actions.py:319`), so they are missing in its trace row and the replayed
  call differs (not modelled).

Waits and the scripted desktop:

* `focused_changes` of `wait_for` is true at once whenever some window has the
  focus (`tools/snapshots.py:142`).
* An override of an element that is not on the screen makes a `when` true
  (agentic_features_design.md:560 speaks of what is on it), and a `set` lasts into
  states that have an element of the same id (:557).  `focus_element`,
  `invoke_element` and `set_value` click without an element id: reactions see no
  target, and `set_value` types into the element clicked last by another verb.  An
  element id is looked up as a path across all windows.

Trees:

* The changes of a diff mix positions before and after.  Applying them in order,
  as `apply_custom` does and a JSON patch (RFC 6902, which diff.py and design
  section 13.2 name) would be, gives the new tree only where nothing moves and no
  list loses two children (`InPlace`).  When the first of two siblings goes,
  `apply_custom` raises `IndexError` and the patch removes the wrong one.  A client
  that reads positions as meant gets the tree (`Told`).
* A diff reads name, role, value, enabled, bounds, shortcut and description of a node
  (`diff.py:37-42`).  A node also carries focused, selected, expanded, identifier and
  value_now, _min and _max (`observer/models.py:66`): a box that was only toggled, or
  a focus that only moved, gives an empty diff and `unchanged: true`
  (`tools/observe.py:349`), although the `tree_hash` beside it may differ.  Such
  changes are in the samples; `DiffsTell` speaks of what is compared (`Compared`).
* Twins are matched with nothing: a window that did not change is reported with
  removals and additions, while its hash is the same.  Descriptions and shortcuts
  are seen by `since=` and not by `changed_only`, which compares hashes (not
  modelled: what a diff compares is one field of `val`).
* Pages are cut from the walk that has parents before their children, and the cursor
  is the last node sent: the next page begins at the node after it, its first child if
  it has one.  The docstring of `_page_tree` (`tools/observe.py:494`) and
  agentic_features_design.md:281 say that cursors are post-order and that the walk
  resumes at the next sibling.  A server that did would skip the children of the last
  node of every page; `PagesCoverTheView` holds of the code and not of these texts.
* An unknown page cursor gives an empty last page (the design says
  `SnapshotExpired`); `max_nodes=0` a truncated page without a cursor.  Filters by
  role, name or visibility drop nothing unless `prune_empty` is given.
* A derived selector is text, and some does not read back.  `parse` turns `\"` into `"`
  before it looks for the ends of names (`element_selectors.py:167`), so a name with a
  double quote, or with a backslash at its end, breaks off: `SelectorParseError`.  A
  role is one word to it (`:338`), so that roles as AT-SPI has them ("push button",
  `linux_adapter.py:49`) give an error too, or, in a selector of one
  step, read as descendants of one another.  A receipt thus hands out selectors that
  cannot be sent back.  A call that also names the element's id reaches it by that;
  `DerivedSelectorsFind` says which selectors come back, and that the others below the
  root leave the call to the id.
* `canonical` writes every step after a single slash, so a call may report a
  selector that finds nothing.  Two names that look alike count as one.
* A title bar of which only the last row of the region shows is clicked one row too
  low.  A partly occluded element passes although its middle, where the click goes,
  may be covered.

Surfaces and the agent:

* `scroll` in the agent drops `window_index`; `window_uid` of `type_and_observe` and
  `press_key_and_observe` is not read; `mode` of MCP's `get_screen_description` is
  ignored (`tools/vision.py:202`).  `confirm_token` is offered by `click_element`
  only, of the verbs the gate guards.  `Unread` lists the first three.
* The agent's catalogue says "Omit for focused window"
  (`window_agent/tool_schemas.py:37`); what is left out is filled in with the window
  picked at the console, by its position at that time for element verbs.  Tools
  requested are offered "for the rest of this session" (:931), in fact until the
  task ends.
* An HTTP error of the model's server is retried like a lost connection (it is an
  `OSError`).  Arguments that are JSON but no object end the agent's process
  (`window_agent/loop.py:129`).
* `api_observe` sends two requests, between which the desktop may move.
* MCP requests without an id are answered with id null; a line that cannot be
  parsed gets no answer (not modelled).

## 7. Approximations

* In `TreeAccess` a call has its window; resolution is in `Targeting`.
* The budget check inside an element verb is in `Budgets` and `Pipeline`, the
  confirmation check in `ConfirmTokens`; in `TreeAccess` each is one way to
  `Refuse`, in `ConfirmTokens` a refusal by the budget is one way to `GiveUp`, and
  in `Pipeline` a refusal by the confirmation gate is one way to `Break`.
* `select_option` clicks twice with a walk in between; `TreeAccess` has it as one
  act.  `drag` reads its endpoints through the cache and names a window in its
  arguments only; it is a coordinate call here.
* The recording hook of `dispatch` takes screenshots and may read the focused
  window's tree, which refills the cache: a `silent` call of `Observations`, and a
  `read` of another thread in `TreeAccess`.
* `find_element`, `wait_for`, `wait_idle` and receipts are the `silent` calls of
  `Observations`: they store captures the client is not shown.
* `Waits` reads the scripted desktop as it is at the moment of the read; a cached
  capture is `TreeAccess`'s subject.  Text conditions look at the tree; the OCR pass
  is left out.
* In `Replays` the last lines of `step` (compare, `position += 1`, finished) are
  one step, as is reading the row.  A compared row differs or not, freely.
* In `Traces`, `StartOpen` makes the directory, writes the header and builds the
  handle in one step; a failing disk is not modelled.
* Ages of trees count walks as taking at most `MaxWalk` ticks; the code has no
  such limit, so `BoundedStaleness` is relative to it.
* In `AgentLoop` at most one request that was given up is still on its way at a
  time, and a late reading has no effect.
* In `Surfaces` an argument is its name: a value is followed, not computed.  What
  the agent's GETs turn into strings (`bbox`) is not seen.
* In `Selectors`, `Parse` is `parse` of derived selectors only, on the steps they were
  written from: which roles have several words and which names a quote are constants.
  Further names that do not read back (a lone bracket, a pseudo-selector such as
  `:text(`, text that reads as another predicate, and, in the selector of a root, single
  quotes or blanks that make it look like CSS) are not among them, nor an element id
  that is itself a selector, nor a slash in a name.  A selector written by hand is parsed
  already.  No element has the role that the wildcard step is written with.
* In `TreeDiff` the first field of `val` stands for what a diff compares and the rest for
  what it does not; the nodes a diff adds are taken without the latter.
* In `Visibility` the list of windows above is the true one and the desktop clicks.
  On Linux and in the mock adapter that list is empty
  (`observer/adapters/linux.py:23`), so there the visible areas are the whole window
  and the property says nothing of what covers it; stock Linux and macOS have no
  `click_at` (`observer/adapters/linux.py:143`), so the click that raises a window
  is one more attempt that fails.
* `Height` bounds the trees the algorithms are defined on; no property depends on its
  value.  The fields of a node other than its identity are a sequence of numbers
  (`val`).

## 8. Not modelled

Platform adapters (calls into platforms, the environment of every module), vision
and OCR (images and models; only their arguments are in `Surfaces`), the ASCII
renderer (layout), redaction and the marking of untrusted text (rewriting of
strings by patterns, with a counter), the setup wizards and `main.py` (process
start), the pages and assets of the web inspector, its metrics and health report,
prompts, the lint script.  Within modelled components: VLM token counting and
`status` of the budgets, the audit log's rotation, the hit counters of the cache,
the two grammars of selectors, `windows_hash` and `focused_selector`,
`screenshot_similar` and `value_matches` of the oracles, the parsing of scenario
files, the JSON-RPC frame.

## 9. The plan

Done: access, confirmation, budgets, the pipeline, tokens, observation, traces,
replays, snapshots, waits and oracles over the scripted desktop, the window agent,
the surfaces, diff, views, selectors, visibility, with proofs for all of them.

Next: an abstract specification of tree access (each read returns the content at some
point between its call and its return, or a bounded time before), implemented by
`TreeAccess`.

## 10. How to run

    tlc -workers 2 -config AccessShared.cfg MC_TreeAccess.tla
    tlapm TreeAccess_proofs.tla

Each run takes a few minutes at most on two workers, each proof module about
five or less, but `Trees_proofs` about seven and `Algorithms_proofs` about thirteen.
