# Maxey0-SuperSpace in TLA+

A specification of the parts of this repository that decide something or keep
something: who may read and write which context, when a verdict counts, how far
a formation of agents may grow, which agent a tool call belongs to, and what the
logs, files and stores still say after overlapping requests, failed writes,
crashes and restarts. TLC checks the specifications on small instances; TLAPS
proves the central properties for every instance.

Modules are named after what they model. An action stands for one *accepted*
call of the code; a refused call that changes nothing is no step, one that does
change something is an action of its own (`RefuseDriftedTick`, the `Refuse...`
actions of `StructuralContainment`, `Refuse` of `TokenBuckets`, the refused
write of `Experiments`). Where calls run in threads or processes of their own,
an action is one step between two points at which another of them can get in.

## 1. Inventory

| Component | State | Operations | Interacts with | What is hard |
|---|---|---|---|---|
| SCW window (`src/server/vendor/scw_runtime/window.py`, `model.py`, `isolation.py`, `partition.py`, `attest.py`, `harness.py`) | regions in a tree with policies and entries, loops bound to regions, grants (bridges), criteria, evidence, ticks and budgets, the seal | create, write, read, promote, close (cascading), bind, unbind, open/close bridge, pin/repin/unpin criterion, gather and cite evidence, tick, seal | the event log (one event per operation), the planes and the Studio that call it | long sequences of legal calls: release and rebind, cascades, expiry, several loops sharing a budget, regions at their budget |
| SCW log and replay (`events.py`, `replay.py`) | hash chain in memory, file, subscribers | append, verify, replay | every window operation | an emit that raises after the chain advanced; replay equal to the live window |
| Gate (`src/server/gate/`) | journal file, bindings file, mode and policies per session | decide, append, declare dispatch, bind actor, resolve | hook processes of the host, all on the same files; the Studio reads the journal | processes racing on files; a lock that is not acquired; torn lines; hooks that die |
| Constitution tree (`src/maxey0_ss/containment/hierarchy.py`) | windows, parents, constitutions | charter root, charter, narrow | the structural provider; threads of the HTTP server | narrowing after chartering, caps of ancestors, no lock |
| Structural provider (`containment/structural.py`) | registered instances, declared reach, bridges; refusals on the log | register, revoke, open bridge, decide | the tree above it, the breaker behind it, `ContextService` and `GatedProvider` in front | declarations and bridges older than a narrowing; refusals that must not be forgotten |
| Attestation log (`containment/attestation.py`) | chain in memory and JSONL file | record, load, verify | provider, gate, drift | persist before append, failed writes, restart |
| Task store (`tasks.py`, `mcp_surface.py`, `mcp_2026.py`) | tasks | create, complete, fail, cancel, get, purge | a pool of worker threads, the event loop | completion against cancel, poll, expiry and purge, without a lock |
| Rate limiter (`ratelimit.py`) | buckets in LRU order | check (admit, refuse, peek) | three middlewares | the order of eviction, the stamp of a refill |
| Studio (`src/server/maxey0_studio/`) | one live window, `experiment.json` of each experiment, one file per cross-window run, missions | create, materialize, next call, ingest, report, reset | threads of its HTTP server, the loops plane on the same files, the sessions that drive a run | files loaded, changed and saved whole by overlapping requests; files that outlive the window they name |
| Response cache, formation planner, loop graph | entries; none; registered loops | get, put, invalidate; plan; add, run | middlewares; tests only | limits at the bound |
| Providers, authorization, service wiring, observability, HTTP/MCP/A2A surfaces, planes | mostly registries and request routing | | | little order of operations of their own; see `PROJECT.json` for each |

`PROJECT.json` lists every component with its status and the reason, and every
hazard with the line where it bites and the properties about it.

What makes the modelled components correct:

* **Window.** Grants, loops and regions agree through every close, cascade and
  release; walls hold; reads stay within the closure disjointness is computed
  from; budgets and TTLs are exact; a verdict rests on evidence that was seen,
  once, by the loop it credits; the handoff surface and a sealed yardstick never
  move. Its regions stay within budget, versioned ones forget nothing, and the
  file replays to the window.
* **Containment.** No window holds more than a window above it, whenever
  narrowed; growth respects every cap above; every allowed crossing is inside
  every charter above it *now*; a certificate of disjointness is true; what was
  recorded is never withdrawn.
* **Gate.** A call is never attributed to another role, no dispatch is lost, a
  governed role cannot switch a gate that answers, what a report may claim of the
  calls made with the gate on is true, and no
  lost observation is covered up by a clean verification.
* **Services.** A final answer stands and every task ends; a bucket gives no more
  than it may, and a caller cannot reset its own.
* **Studio.** The file of an experiment agrees with the window; the prompt on
  record is the prompt that was sent, and it is complete.

## 2. Modules

| Module | Models |
|---|---|
| `Trees` | `Beneath`: what lies beneath a node, given child lists. The four tree walks of the code (regions, loop parents, loop children, constitutions) share it. Written as the least closed set, not by recursion, so that it can be proved about |
| `ScwScope` | what a loop reaches: `resolve_scope` and `Scope.check` (`Authorized`), `read_closure`, `write_closure`, the bytes a read delivers (`Delivered`), the five rules of `disjointness` |
| `ScwWindow`, `ScwProperties` | the state of `ContextWindow`, one action per operation, and its properties |
| `RegionLog` | the entries of regions (write, upsert, read, promote, eviction, reset, purge), `EventLog.emit` and `replay` |
| `ConstitutionTree` | constitutions, their order, and the chartered tree |
| `StructuralContainment` | the provider over the tree, with the breaker |
| `CharterThreads` | `create_spec` as two threads of the HTTP server run it |
| `EvidenceChain` | what `attestation.py` promises of its evidence: the abstract specification |
| `AttestationLog` | `record()` and `_reload()` through failing writes, crashes and restarts; implements `EvidenceChain` |
| `GateAttribution` | the bindings file: `declare_dispatch`, `bind_actor` and `resolve` of concurrent hook processes |
| `GateDecide` | the decision order of `decide()` |
| `GateHook` | `claude_code.run`: mode and policy, resolve, decide, record, answer; and what `gate_view.containment` says of the records. Extends the two above |
| `GateJournal` | `emit()` of concurrent processes under a lock that may be given up, and `verify()` |
| `TaskStore` | the store as its worker threads and the event loop call it |
| `TokenBuckets` | `TokenBuckets.check` |
| `Experiments` | experiments over a session that is reset and restarted |
| `CrossWindow` | cross-window runs: next call, ingest, save, by several callers |
| `MCScw`, `MCScwStructure`, `MCContainment`, `MCCharterThreads`, `MCServices`, `MCGate`, `MCRegionLog`, `MCCrossWindow`, `MCFiles` | instances and scenarios for TLC |
| `TreeLemmas` | lemmas about `Beneath` |
| `ScwWindowProofs` | proofs about the window: its structure, and its loops and verdicts |
| `RegionProofs` | proofs about `RegionLog` |
| `ContainmentProofs` | proofs about `ConstitutionTree` and `StructuralContainment` |
| `LogProofs` | proofs about `AttestationLog` and `GateJournal` |
| `GateProofs` | proofs about `GateAttribution` and `GateHook` |
| `ServerProofs` | proofs about `TokenBuckets` and `TaskStore` |
| `StudioProofs` | proofs about `CrossWindow` and `Experiments` |

### State and actions against the code

`ScwWindow`: `life`, `parent`, `policy`, `bytes` are the fields of an `SCW`;
`loop` the records of `Loop`; `bridge` those of `Bridge`; `ceiling` the exposure
ceilings a region keeps; `criterion` and `evidence` the records of `attest.py`;
`spent` the per-harness totals, `tick` both the window's tick and its
`total_iterations` (they move together), `strict` the seal. Content is one value
per region; entries and budgets are in `RegionLog`. A verdict is true or not: an
explicit `False` and an absent one are treated alike by every line modelled.
Terminal states of a loop other than `success` and `exhausted` are one value.
Harnesses exist from the start (`Profile`). The refusal of an iteration for a
loop already `exhausted` (`window.py:1272-1278`) never fires: `CeilingsHold`
shows that a loop at its ceiling is no longer bound.

`RegionLog`: an event is a record of `records`; `written` of them are in the
file. `Commit` is `_commit`, once for each event of a call: all emits succeed,
or the k-th raises, in which case its record stays in memory and reaches the
file at once (a subscriber raised) or with a later flush. `Applied` is what the
window does with an event, `Replayed` what `replay.py` does; the two are written
down apart where the code has them apart. An entry carries the record that
brought its content, so a replay that takes the wrong content shows. What the
code computes in a loop is written in closed form, so that it can be proved
about: tokens are counted one by one as a set (`Tokens`), the entries that stay
or go are those at a set of places in an order of places (`InTurn`), and an
entry is evicted when it does not fit together with those whose turn is after
its own (`Victims`), which are the ones the loop of `_enforce_budget` removes.
The region is as full as `own_tokens` says at each step of that loop, and
removing goes on exactly as long as what is left does not fit.

`ConstitutionTree`: `up`, `children`, `depth`, `charter` are the fields of
`_Node`. `Charter` has the guards of `charter` in one place (`MayCharter`);
`Narrow` includes the whole of `_reseat`: walking down and intersecting each
constitution with the parent's new one gives a window the intersection of
everything on the way, which is what `Reseated` says (`Intersect` takes a set).
`NoCharter` is a window that is not in the tree.

`StructuralContainment`: decisions that are allowed change nothing but the log,
so they are operators (`MayRead`, ...). `refused` is what `DenialBreaker` has
counted once it caught up, which every check does first. `Revoke` is
`ContextService.close`. `GateRefusesEgress` is `GatedProvider.admit` when the
semantic gate, an external service, says no.

`AttestationLog`: `record()` holds its lock throughout, so it is one action; a
write that raises (`Interrupt`) may have put nothing, a piece of the line, the
line without its newline, or all of it in the file; `Crash` and `Reload` are the
process. A digest is the sequence of decisions it stands for.

`GateAttribution`: each hook process is at a `pc`: it looks (markers and
bindings, no lock), matches by kind (no lock), takes the lock or gives up on it,
reads the file, writes it, answers. `clean` remembers that every write landed
and nobody gave up, `overlapped` that two calls of one actor ran at once,
`strange` the kinds of which a subagent without a role was taken for a pending
one: the properties say what holds without them. `GateHook` adds the call: the
mode and policy it saw, what it did, what it recorded. A hook may die at any
point (`HookDies`) or raise and leave a `fail_open` record, or fail at that too
(`HookRaises`); the record of the call itself may have been written before. The
host hears no refusal then and makes the call (`Made`), and if that is a call of
the gate's controls, the mode changes. `passed` holds of each call made whether
the gate was off and whether it was within the policy of the actor's own role.
The policy state changes by the host's `DeclarePolicy` only: of the controls,
`GateCalls` has the one that sets the mode. `GateDecide` is `decide()` without
the matching of globs and commands: a call's reach is a set of files.

`GateJournal`: `lines` are the lines of the file, `cut` that the last one has no
newline. A record has a place in the chain or none (lock given up). A writer
reads the tail, writes, or dies before, inside or after its write.

`TaskStore`: `worker[t].pc` walks through `_run_complete`; `complete()` checks,
sets the status, attaches the payload, in steps of their own. The event loop's
methods are single steps but for `cancel` and `purge_expired`, which a worker
can get into. `told` is what pollers were answered. `raced` holds the tasks that
two threads had in hand at once.

`TokenBuckets`: `order` is the `OrderedDict`; `born`, `taken` and `crowd` are
history variables for the properties.

`Experiments`: `doc` is each `experiment.json`, `worlds` the regions of the live
window with what was written to them, `counter` the numbering of instances,
`job` the request each thread serves, with its own copy of the document. One
call per condition of the spec stands for the calls of its roles. `stale` are
the experiments made in a window that is gone, `orderly` that no two requests on
one experiment met, every save landed and no stale experiment was answered.

`CrossWindow`: `file` is the run on disk or garbled (opened and not yet written,
or written over), `caller` a session in the middle of a call, with the prompt it
sent or the copy its request loaded. A prompt is the set of outputs spliced into
it: own task text and the report's search are left out. `answers`, the prompt
each response answers, and `met` are history variables.

## 3. Runs

Five runs must pass. Components that share no state are checked in one run, one
at a time: a variable (`scenario`, `focus`) says which of them moves, and the
others keep their initial state.

| Run | What moves, and its bounds | Shows |
|---|---|---|
| `ScwStructure` | *life*: 3 regions, 1 loop, 1 grant, 1 tick; *content*: a sealed window of 4 regions, 2 loops, 1 grant, 2 contents; *nesting*: 3 loops on 1 region, depth cap 3 | cascades and release leave no grant, binding or open region on something closed; only write closures change; a pinned read-only yardstick renders the same; nesting never closes a cycle |
| `ScwGrants` | a chain of three regions with a wall at its end and one apart, 2 loops, 2 grants, 2 ticks, no TTL and TTLs of 0 and 2 | walls, closures, expiry (a tick leaves no grant overdue) and occupied regions under every order of granting, closing, binding and ticking |
| `ScwVerdicts` | 3 regions, 2 loops, 2 harnesses, 2 checks, 3 ticks, sealed and not | budgets shared by loops, release and rebinding, repinning, evidence gathered, cited and spoiled |
| `Services` | *formation*: 4 windows, grants and requests with reach, bridgeability and each cap; *crossings*: 3 windows, one an instance of another, 1 bridge, threshold 1; *log*: 4 calls of `record`; *journal*: 3 writers, one record each; *tasks*: 2 tasks, pool of 1, TTL 1, clock to 2; *buckets*: 3 keys, room for 2, capacity 2, cost 2, clock to 3 | narrowing reaches the whole subtree and caps hold; crossings lie within charters; disjointness is true; the log implements `EvidenceChain` and keeps what it returned; journals show their losses; final answers stand; buckets are bounded; the lock comes free and every task ends |
| `Files` | *hooks*: 2 hooks, 3 actors of one kind, one of them without a role, 2 roles, 2 calls, a change of mode and of policy, hooks that die or raise; *regions*: 3 regions of three presets, one in use with the scratchpad, 4 records, no failing emit; *experiments*: 2 experiments, a partitioned and a flat condition, 2 threads, 2 iterations, 1 reset or restart; *runs*: two makers and a judge, 2 answers, 2 callers | attribution and dispatches; claims are true; replay is live; budgets and histories; files agree with the window and with what was sent |

Why these are enough. Each window property relates at most two loops, one grant
and a path of regions: a wall needs a region above it and one outside, a cascade
two levels below the top, shared budgets two loops and a third tick past a
release, spending a check twice two checks and three ticks, a cycle of released
loops three. In *formation* four windows give a chain of depth three, so that a
narrowing has a grandchild to miss. A race needs two hooks, threads or callers,
and what they lose a second role, call or experiment; a hole in a chain needs a
record on either side of it (three writers); an eviction one key more than
there is room. In *runs* a judge that reads two makers is the smallest topology
in which an ingest can meet the splice of another. `ScwGrants`, `ScwStructure`
and `ScwVerdicts` use symmetry over loops and `Files` over hook processes, which
no constant tells apart; no property of a liveness kind is checked with it.

The bounds are `Bridges`, `Evidence`, `MaxTotalIterations` (the code's own
ceiling), `MaxRefusals`, `MaxBridges`, `MaxRecords` (calls of `record()`, and
events of a window), `MaxFailing` (how many events may precede an emit that
raises: none, as `Files` is about the calls before one and `RegionReplay` begins
with one), `MaxCalls`, `MaxClock`, `MaxNow`, `MaxIterations` (the
code's own, of a role) and `MaxResets`. Three scenarios leave behaviours out:
`HostActs` lets the host change the mode once and the policy of one role once;
`WhileUndisturbed` stops at the first lost write or lock given up, and in
behaviours without calls at the first overlap, after which the properties of
attribution say nothing; and `ExperimentScenario` follows a disorderly behaviour, about which
`FileAndWindowAgree` says nothing, only while one of the experiments is not yet
made. `CHECK_DEADLOCK FALSE` is set where the system really may come to rest:
every identifier used, every ceiling reached, every task ended.

Every property of a passing run has a mutant in `PROJECT.json`: a change of one
definition, as a slip in that code would make it, under which the same run
reports the property violated.

### Fairness

Two liveness properties, each under weak fairness of the steps the code owes:

* `LockIsFreed` (nobody keeps the journal's lock) under `WF(Progress(w))`: a
  process in `emit()` goes on until its record is written, because every wait in
  it has a deadline (`journal.py:121-142`). Nothing makes it die, and the
  failing steps (`BreakOff`, `DieEarly`, a tail that raises) are not fair.
* `EveryTaskEnds` (no task stays in progress for ever: it ends or expires) under
  `WF(WorkerStep(t))`: a thread that runs goes on, a queued task gets its turn,
  a provider answers or times out. Expiry is not relied on.

Nothing else waits: loops tick when a host decides, and a request that meets a
refusal or a garbled file just ends.

### Where the code and its documentation part

Seven runs are expected to find a violation. Each checks a sentence of the docs
or comments against the model; most were reproduced with the real classes.

* `ScwReadClosure`: `read()` with children returns the whole subtree to a loop
  bound with `descend=False`, whose `read_closure` is its root only.
* `ScwSubLoopJudge`: a maker released and bound again is graded by its own,
  still bound, sub-loop.
* `CharterRace`: two requests in two threads pass the same child cap.
* `GateRace`: two calls of one actor are resolved at once; the second, still
  unbound when it looked, takes the role dispatched meanwhile for another and
  binds the actor to it. `resolve()` says neither unknown is ever substituted
  with a plausible role.
* `TaskRace`: `complete()` sets the status before the payload and `cancel()`
  checks before it sets, so a poller is told two different final answers.
* `RegionReplay`: a write is refused because its emit raised before the line was
  flushed. The record stays in the log and its line in the file's buffer; the
  flush of the next call, a read, puts both in the file, and the replayed window
  has an entry the live one never had. (A subscriber that raises does so after
  the flush: its record is in the file at once. The model allows that too; the
  run is about the other.)
* `RunRace`: one call of a cross-window run is ingested twice at once, while the
  next prompt is on its way. The slower save takes the run back, and the prompt
  on record is not the one that was sent; `report()` then searches the wrong
  text. Beside each of the races stands what holds without it:
  `SoundOneByOne`, `StatusStandsUnraced`, `ReplayIsLiveUntilAFailure`,
  `RecordedAsSentUnraced` are properties of the passing runs.

Noticed while reading, and not given a run.

*Window.* Nothing checks `ttl_ticks`, in `open_bridge`, in `Bridge` or in the
server: a grant with a TTL of zero or less is open at or past its
`expires_at_tick` (`Overdue`), lives until the next tick like one with a TTL of
one, and `cli.py:187` shows a TTL of zero as "no ttl". No doc says otherwise. A
grant's TTL is documented in its owner's iterations
(`model.py:420`, `window.py:1513`) and counted in the window's ticks; a grant of
a loop that was released never expires. A loop released after its budget ran out
may be ended as a success. Depth and containment of sub-loops are not looked at
again when their parent is rebound. Repinning a criterion that was released
replaces its bytes and leaves it released. A region evicting by LRU evicts the entry it
has just written first, for it was never read; a replay leaves a history in
another order than the window after an eviction of several entries, and marks
entries of all descendants as read where the read was pruned; `replay` raises on
an upsert of an entry it does not have, which takes a failed emit.

*Containment.* `narrow(bridgeable=False)` leaves bridges opened before usable
(they stay inside the charter's reach). `open_bridge` does not ask for a
registered source. A child of an unbounded root is unbounded, where
`hierarchy.py:58-61` says a chartered child always holds a concrete set.
`DenialBreaker._catch_up` run by two threads at once counts an entry twice.
After a torn write the attestation log goes on acknowledging records, and its
next start refuses the file; two processes on one file fork the chain.

*Gate.* A subagent that was dispatched without a role marker gets the only
pending role of its kind, with no calls overlapping, where `handle_delegation`'s
docstring (`claude_code.py:137-140`) says that its calls will resolve to
`unattributed`; the agent dispatched for the role finds it gone. `SoundOneByOne`
says how far this reaches: to roles of that kind. A run switched off halfway can
be claimed: after one evaluated call the host sets the mode to `off`, and an
out-of-scope call is recorded as `mode_off`, which `containment()` counts neither
as residue nor as a violation (`gate_view.py:264-305`), so the run is reported
claimable and held with the note "every intercepted call was attributed and
evaluated", though that call was "neither checked nor recorded as checked"
(`core.py:209`); its `modes` count does show it. `ClaimsAreTrue` leaves such calls
out; without `c.off` in it TLC finds exactly this. A hook that dies or raises lets a role's call of the gate's own controls
through in every mode, where `core.py:245-246` and the repository's
`README.md:179` and `:613` say it is refused in every mode but off;
`README.md:841-844` says that a gate that cannot evaluate a call lets it through
and records it as `fail_open`, which is what `OnlyTheUnplacedSetModes` holds it
to. One damaged line may hide two lost observations: the half line and the
record glued to it. `levels.assess` judges by the records alone: an observation
that was never written counts against nothing, and its third level does not ask
for a record of every bound role.

*Services.* Finished tasks are never purged. A synchronous `provider_complete`
blocks the event loop. A task may expire in the queue, and its egress result is
thrown away.

*Studio.* A reset or restart empties the window and numbers instances from L1
again, and flat worlds are named after their task and condition: a pending call
of an older experiment then raises `KeyError`, or writes its response to the
world of another experiment, though experiments are said to survive a session
dying mid-run. A second experiment of a spec with a flat condition cannot be
materialized in one session: its region's name is taken. Every prompt is
rendered when the experiment is created, so none shows what an upstream role
published. `save()` is not atomic. `ingest` does not ask whether a call is the
next one. The prompts of a run are redacted when they are saved, so what is on
record is the redacted text.

## 4. Proofs

`tlapm` checks every step. The results hold for any sets of windows, regions,
loops, grants, policies, hooks, writers, callers, tasks, conditions and keys, and
any limits, under the `ASSUME`s of the modules: an absent value is none of the
others, requests are well-formed constitutions, windows and roles are finite in
number, a role is dispatched once and for one actor, who reads from whom is a
function on the participants. TLC evaluates each of them on the instance of a
run.

**Window** (`ScwWindowProofs`). The inductive invariant is

    IInv == TypeOK /\ BridgesJoinOpenRegions /\ BoundLoopsOnOpenRegions
              /\ NothingOpenUnderClosed /\ CriteriaPlaced

The three middle parts only hold together: closing a subtree revokes grants by
region, so it needs to know which regions a grant joins; releasing nothing is
safe only because an occupied region is not closed, which is decided by walking
the tree, which needs nothing open under something closed. `CriteriaPlaced` is
there for the types of signatures. Proved from it: `TypeOK`, the three
structural invariants (`GrantsOutliveNoRegion`, `LoopsOutliveNoRegion`,
`SealsAreOfSubtrees`), `WallsHold` and `DescendingReadsWithinClosure` (by
showing that the pruned walk over a grant never leaves the closure) and
`NoOccupiedRegionCloses`. `WritesWithinClosure` goes action by action: each
write was authorized by a scope, and the write closure is what scopes authorize;
a new region hangs beneath one that was. `YardstickFrozen` needs that after the
seal a region is written, emptied by a close or nested under only through the
scope of a loop, which stops at what is read-only (`WrittenByLoop`,
`ClosedThroughGrant`, `NestedByLoop`), and that a subtree keeps its members when
something is nested elsewhere (`BeneathFrame`).

**Verdicts** (`ScwWindowProofs`). Over the same invariant: `CeilingsHold` is
inductive with it. `HostGrantsExpire` is an action property, for a grant may be
overdue when it is minted: what a tick leaves open expires later, and no other
step moves the tick. `ExposureNeverWidens` is one too; only binding touches a surface, and it compares with what the loop and
the region kept from the bindings before (`LoopsLeftAlone` disposes of the other
operations). `EvidenceSpentOnce` needs
`FreshUnused` (what nobody gathered was never used), because gathering makes a
record anew. `AcceptedWithEvidence` survives rebinding because evidence is never
taken back. `NestingAcyclic`, of the parent chain and of the child lists alike,
rests on two lemmas about any tree: taking edges away closes no cycle
(`TurnedEdgesAcyclic`), and hanging a node without children beneath another
closes none (`NewLeafAcyclic`). The child lists are the harder half: a loop that
is released stays in the list of its old parent, so it may be in two lists at
once, and what keeps the lists acyclic is that a rebinding empties its own.

**Constitutions** (`ContainmentProofs`). Constitutions are ordered by `Within`,
which is reflexive and transitive; `Derive` and `Intersect` go down in it, and
intersecting more constitutions goes down further. That last fact needs a least
element of a set of naturals, taken from the library's well-foundedness of
`Nat`. The inductive invariant is

    IInv == TreeTypeOK /\ Linked /\ EdgesNarrow

`EdgesNarrow` says it of a parent and its child only; `EdgesSuffice` lifts it to
every ancestor by exhibiting, for a window, the set of windows it is within as a
set closed under parents. `Linked` carries that depth grows along links, which
is why the parent of the narrowed window is not below it. The step that is not
obvious is `ReseatedWithin`: the way from the narrowed window to a child
includes the way to its parent, so the child's intersection is of a larger set.
`Growth` follows from narrowness: comparing with the parent's caps suffices
because they are at least as tight as all above, and a charter adds at most the
new window to any ancestor's descendants.

**Provider** (`ContainmentProofs`). Every step of the provider is a step of the
tree or leaves it alone (`ContainmentKeepsTree`), so the tree's theorems hold
under it; `Crossings` combines narrowness with the ceiling each decision
consults. `DisjointnessIsExclusive`: a certificate of disjointness leaves no
third window for both to read, whatever was registered, bridged, narrowed or
closed before. `ContainmentTypes` and `TrippedStays` (nothing untrips a window
or gives a tripped one a bridge) are proved and not run.

**Attestation log** (`LogProofs`). `Implements` is the refinement: with `chain`
mapped to the decisions of the log and `up` to whether the process runs, every
step of `AttestationLog` is a step of `EvidenceChain` or a stutter
(`KeepsEvidence`): an interrupted write attests nothing, a crash takes nothing
away, and a process that starts attests at most one decision. `Reload` after a
crash is the step that matters: the chain in the file, if it verifies, is the
chain in memory, or one record longer where the process died between the write
and the append. The inductive invariant says so of every file that verifies (`OneAhead`);
`Persisted` is proved with it.

**Journal** (`LogProofs`). `OnlyDamageBreaksTheChain` does not speak of who holds
the lock, and is not inductive without it:

    JournalInv == JournalTypes /\ PlacesUnderLock /\ PlacesAscend /\ KeptWhole

Only the process with the lock has a place to write at (`PlacesUnderLock`), so
the tail it read is still the tail when it writes; hence places ascend along an
undamaged file (`PlacesAscend`), although records without a place come in
between at any time. `LossShows` is `KeptWhole`, which adds what the property
leaves out: a persisted record is on a line of its own, not the last one if that
has no newline yet, so a later append that is glued to it cannot swallow it
without leaving damage.

**Gate** (`GateProofs`). `NoDispatchLost` is inductive only together
with `Exclusive` (a hook about to replace the file holds the lock and its copy
*is* the file), `OneCallEach` (an actor has one call under way) and `Consistent`
(what a hook found of its actor does not contradict the file), because binding
an actor takes a role from the pending ones and would drop another the actor had.
`SoundOneByOne` (`NoOtherRole`) builds on it: matching by kind takes the only
pending role of that kind, which is the actor's own because that one is pending
too; what the hook knows of its actor (`Sound`) carries this from the match to
the answer. A subagent without a role may take it first;
from then on the actors of its kind, and of no other, may be given any role of
that kind, which is what `MayBe` says of an actor and the invariant carries
instead of its own role (`OwnRoleIsKindred`, `MayBeGrows`). No assumption is made
about which kinds such subagents have. `ClaimsAreTrue` (`ClaimsHold`) follows with
`StraysShow`: a call that passed outside its own role's policy while the gate was
on either left a record that `containment()` counts as a violation or leaves
something open: an error or `fail_open` record, or a disturbance (`Undisturbed`).
Calls made with the gate off are excluded, and have to be (section 3).
`PlacedActorsSetNoMode` needs none of this: it is about the order in `decide()`,
and about what is left when a hook fails before its answer.

**Cross-window runs** (`StudioProofs`). `PendingPromptsHold` holds of every
version of the run, on disk or in some request, whatever overlaps:
`IngestedHolds` says that one ingest makes a consistent version of a consistent
one. `RecordedAsSentUnraced` needs more: while one caller at a time ingests, its
copy extends the file (`Extends`), so prompts that were sent stay complete
(`CompleteStays`), and answering a complete prompt settles the call
(`IngestedSettles`).

**Experiments** (`StudioProofs`). `FileAndWindowAgree` speaks of experiments at
rest; the inductive `InStepOn` says what holds in the middle of a request: the
copy of the request is the file, or the file with one answer more
(`Reached`), and it is that run which agrees with the window (`UpToDate`). No
two calls of a run share a world (`OwnWorlds`), or one answer would show in both.

**Services** (`ServerProofs`). `AdmissionBound` from `Balanced`: what a bucket gave
and still holds came with it or was refilled up to its stamp.
`EvictedOnlyByCrowd` (`OnlyACrowdEvicts`) from `SeenOrder`: whoever stands behind
a key in the order was seen since it was, so when a key is the first of a full
table, the keys behind it are as many as the table holds, less itself, and the
newcomer makes up the number. The counting is the library's injections
between finite sets (`ManyBehind`).
`StatusStandsUnraced` and `FinishedStaysFetchable` from what each thread still
knows of an unraced task at each point between its check and its last write.

**Regions and replay** (`RegionProofs`). The theorems hold for any regions,
policies, keys and sizes, and logs of any length. The three properties are parts
of one inductive invariant:

    RegionInv == RegionTypeOK
                 /\ (~failed => written = Len(records) /\ Budgeted(content)
                                /\ Sound(content, records, Len(records), made))

`RegionTypeOK` (`RegionTypes`) holds also after an emit that raised; the rest is
about the time before, as the properties are: the run `RegionReplay` shows what
an emit that raised may leave. `Sound` says of a window
and the records that led to it that ids are distinct within a region and were
all given out, that a versioned region remembers the ids of every record that
put something there, and that the file folds to that window. It is stated for
every prefix of the log, because a call makes one event or two and the window
between the two is not a state (`Proper`: the second event fits the window the
first one makes).

Distinct ids are what the comparison of window and file turns on: the window
removes the entries it holds in its hand, the file names them by id, and
`NamedById` shows the places to be the same; `RecoveredIsCarried` does so for
what a promotion copies. One event is then shown to do the same to both
(`SameApplied`, `ReplayedFollows`). What an event keeps of ids and history
(`Keeps`) and what it adds to a region's tokens (`Fills`) are worked out once for
every kind of event (`AppliedKeeps`, `AppliedFills`) and used for every call;
`ThenEvictIsProper` shows that the victims leave the rest within the budget: the
one that stays and has its turn first fits together with all that stay.

No induction over sequences is used. Two folds that agree up to their first
difference agree (`FoldsAgree`), a fold exists up to the least length that had
none (`FoldExists`), and both least elements come from the well-foundedness of
`Nat`. That the entries in turn are those at the chosen places, each once and in
order, is counted with the library's bijections (`Turns`, `TakenInTurn`).

Every safety invariant a passing run checks is the statement of a theorem. Out of
the prover's reach: liveness under fairness (`LockIsFreed`, `EveryTaskEnds`),
`ENABLED`, and what a recursive definition computes for every input; this is why
tree walks are written as least sets and sums as cardinalities. The models of
the races (`CharterThreads`, and the runs that are expected to find a violation)
have nothing to prove.

## 5. Plan

Done: the window with its structure, partition and budget theorems; the content
of regions, the event log and replay; the containment layer with its theorems;
the attestation log as a refinement; the gate (attribution, decision, hooks,
journal); the task store and the rate limiter; the Studio's experiments and
cross-window runs. What is left, in order:

1. The Studio's missions, and what `report()` writes into a loop's status: a
   run that was complete when its report was made keeps the status `validated`
   when a raced save takes it back later.
2. The rest of replay: loops, grants, criteria and harnesses.
3. `SQLiteTokenBuckets`, whose clock is the wall's and may go back, and the keys
   the middlewares charge, in their order (a failed A2A authentication is
   charged after the answer).

Not modelled, and why:

* The response cache: it holds the answers of three static tools. (`put` evicts
  an entry also when it overwrites one.)
* The formation planner and the loop graph (`execution/spawn.py`, `loop.py`):
  `plan()` and `ExecutionGraph.run` have no caller in the program but tests.
  (`add_loop` stores the loop before it looks for a duplicate role.)
* `require_input` and `provide_input` of the task store: no caller.
* Rendering, prompts and token counting: pure functions of the contents.
* The tool surfaces, launchers and build scripts: dispatch.
* Model providers and authorization: external services, stateless checks.
* Drift and similarity: floating point.
* The copies of the server under `plugins/`: generated from `server/`, byte for
  byte.
