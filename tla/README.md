# Laorenyun: a verification model of the agent that runs it

Laorenyun packages the DeepSeek Harness (`src/upstream/deepseek-harness`, vendored
without source changes) with an interview plugin that is not part of the tree, and
adds the scripts that build, start, demonstrate and release the result. Everything
the product does with a user's words happens in the harness's agent: a prompt is
queued, a driver claims it, a model is asked, tools run, some of them as background
jobs, and a session log on disk records all of it so that the next process can go
on. This directory models that path, and the two scripts of the repository's own
that change shared state (the demo's command line and the release publication), in
TLA+, checks the models with TLC and proves what matters most of them with TLAPS.

Paths below are relative to `src/upstream/deepseek-harness/packages/` unless they
start with `src/`.

## 1. The system

### Components, their state and what makes them correct

| Part | Source | State | Operations | Must hold |
| --- | --- | --- | --- | --- |
| Agent driver | `core/agent-loop/src/agent.ts` | phase (`idle`, `maintenance`, `running`) with its abort signal and wake latch; turn and step counters; the driver's position | `followup`, `steer`, `inject`, `cancel`, `runMaintenance`, `whenIdle`; internally `kick`, `turn`, `preStep`, `step` | the log it writes nests and numbers correctly; a wake is latched exactly when one is owed; an abort commits nothing and converges |
| Inbox | `core/agent-loop/src/inbox.ts` | two durable lists, `next-turn` and `next-step`, folded from splice events | `append`, `prepend`, `replace`, `remove`, `clear`, `claim` | input is neither lost, duplicated nor merged into a foreign turn |
| Agent lifecycle | `core/agent-loop/src/index.ts`, `core/agent/src/index.ts` | per attempt: session, write handle, scope, driver, memoized disposal; registries of sessions and agents; the factory's tracked calls and disposals | create, resume, restore of a configured agent, dispose; unload of an owner or of the factory | what is published owns its log; what fails leaves nothing behind; disposals end, in order |
| Tool-call scheduler | `core/agent-loop/src/tool-calls.ts` | groups, slots, the rolling pool, cursors of started and committed calls | classify, start, race, finalize, commit, skip, drain | exclusive calls run alone, results stay in model order, every call is answered |
| Tool registry | `core/tools/src/index.ts` | registered tools, per-call lifecycle | prepare (gate), dispatch (wrapper and body), finalize | a result's code says truly whether the body ran |
| Session log | `core/session/src/index.ts`, `invariant.ts` | append-only events, projections | `append`, `flush` | the companion's grammar accepts every event; nested appends are refused |
| Repair and checkpoints | `core/session/src/repair.ts`, `session/session-checkpoint-policy/src/index.ts` | none of their own | closers of an interrupted turn; flush before model requests, tool bodies and steps | no side effect before its record is durable; every cut of the log can be closed |
| Background jobs | `jobs/jobs-local/src/index.ts`, `jobs/tool-jobs/src/index.ts` | records with status, owner and `reported`; producers; waits with a count per record; an owner's cleanup and the registry's teardown; per owner the notices queued and the consecutive wakes spent | start, read, kill, wait, settle, deliver, dispose an owner, dispose the registry | an end is told once; the first outcome stays; teardowns are quiet, leave nothing and end; notices cannot keep an agent awake |
| Persistence seam | `session/session-persistence/src/` | one write handle per session | `append`, `flush`, `close`, `open` | a resolved flush survives any crash |
| JSONL backend | `session/session-persistence-jsonl/src/` | buffer, timer, drain, mutation chain, cursor, torn-tail repair; the file and its kernel lock | publish, drain, persist, flush, close, open, crash | no event lost, reordered or duplicated; only the lock's owner writes |
| Release publication | `src/scripts/release/publish.mjs` | none of its own: a GitHub release with assets, two registry aliases, one job at a time | look up, preflight, draft, attach sources, push, attach deployment, publish | immutable tags; sources before images; a rerun ends what a dead job began |
| Demo lifecycle | `src/demo/demo.mjs`, `src/demo/scripts/safety.mjs` | a directory lock, a Docker volume, a container, a receipt file | prepare, start, stop, restart, reset, smoke | the seeder is alone with the volume; the receipt tells the truth; nobody else's volume is touched; it can be recovered |

### Interaction

A caller's `followup` appends a splice to the session log (`append` publishes it to
synchronous listeners, among them the backend's buffer), then wakes the driver. The
driver claims a batch, again by a splice, and runs hooks (`agent/pre-step`,
`agent/request`) with awaits between. Hooks of the checkpoint policy flush the
session there; the flush drains the backend's buffer. A model answer with tool
calls goes to the scheduler, whose calls go through the registry's gate, wrapper
and body, and each of those through the checkpoint policy again. Results are
appended in model order and the driver goes on with the next step or turn. When
the process dies, the next one takes the kernel lock, reads the valid prefix of
the file, appends the closers of an interrupted turn and publishes the agent.

A tool body may start a job and return while its work goes on. The registry settles
the job when the producer's promise resolves; the job tools, which listen, put a
notice into the owner's inbox unless somebody waited for the job, read or killed it,
and wake an idle owner while its budget lasts. When an agent's scope unwinds, an
effect that the registry attached to it cancels and drops the owner's jobs.

The publication job and the demo's commands act on services that share no
transaction (GitHub and an image registry; Docker and a receipt file). They are run
again after whatever killed them.

### What is hard

* Everything between two awaits is atomic, but callers may act at every await, and
  synchronous listeners act inside `append`, `agent/status` and inbox notifications.
  State read before is used after: a send's class (`agent.ts:131`), the latch that
  `kick` captured (`agent.ts:234`), a call's concurrency mode (`tool-calls.ts:199`).
* Cancellation arrives anywhere, the first cause wins, and a wake sent after it must
  not be lost.
* Flush calls join a drain in flight, drains fail and are retried, a close drains
  while events keep coming, timers outlive what armed them.
* Process death cuts the log anywhere, in the middle of a write or of a repair.
* A job's producer, its waiters, its killers, its owner's teardown and the registry's
  all end it; each runs between the others' steps, and only one may tell.
* A publication or a demo command dies between two calls, or is not told that a call
  took effect, and its successor finds half of the work done.

`PROJECT.json` lists each of these hazards at its line, with the properties that
cover it, or the reason none does.

## 2. The modules

| Module | Models | Used by |
| --- | --- | --- |
| `SessionLog` | the events that shape a log and the turn/step grammar of `invariant.ts` | `AgentDriver`, `SessionRecovery` |
| `AgentDriver` | driver, inbox, maintenance, cancellation and disposal of one agent | `MCAgentDriver`, `AgentDriverProofs` |
| `MCAgentDriver` | TLC instances of `AgentDriver` (message symmetry) | runs |
| `AgentDriverProofs` | theorems about `AgentDriver`: its log and latch, and its input | |
| `AgentLifecycle` | attempts to publish an agent under one session id, their rollbacks and disposals, unloads | `MCAgentLifecycle`, `AgentLifecycleProofs` |
| `MCAgentLifecycle` | `AgentLifecycle` with the two attempts called in one order of their entry points | runs |
| `AgentLifecycleProofs` | theorems about `AgentLifecycle` | |
| `ToolCalls` | the scheduler of one step's calls over the registry's staged execution | runs, `ToolCallsProofs` |
| `ToolCallsProofs` | theorems about `ToolCalls` | |
| `LocalJobs` | the job registry, its waits and teardowns, and the notices of the job tools | runs, `LocalJobsProofs` |
| `LocalJobsProofs` | theorems about `LocalJobs` | |
| `DurableLog` | what the persistence seam promises, as an abstract specification | refined by the next two |
| `SessionRecovery` | turns of a persisted session, checkpoints, crashes and repair | runs, `SessionRecoveryProofs` |
| `SessionRecoveryProofs` | theorems about `SessionRecovery`, and that it implements `DurableLog` | |
| `JsonlHandle` | write handles of one JSONL log, the kernel lock, torn writes | runs, `MCJsonlHandle`, `JsonlHandleProofs` |
| `MCJsonlHandle` | `JsonlHandle` with interchangeable flushers | run `JsonlHandle_crash` |
| `JsonlHandleProofs` | theorems about `JsonlHandle`, and that it implements `DurableLog` | |
| `ReleasePublish` | publication jobs of one tag, one after the other, each dying anywhere | runs, `ReleasePublishProofs` |
| `ReleasePublishProofs` | theorems about `ReleasePublish` | |
| `DemoLifecycle` | the demo's commands as sequences of Docker calls, with failures and kills | runs, `DemoLifecycleProofs` |
| `DemoLifecycleProofs` | theorems about `DemoLifecycle` | |

**AgentDriver.** An action is the code from one place where other code may run to
the next; `pc` names the place. There are awaits (`"assembling"`, `"deciding"`,
`"preparing"`, `"streaming"`, `"recovering"`, `"executing"`, `"stopping"`,
`"looping"`, and the two exits of `turn()`, `"drained"` and `"stopped"`),
notifications (`"notified"`, and `sending`, `owedWake` for the observers of a send
and of idle), and publications of an append (`"boundary"`, `"closed"`), where an
append is refused. `phase`, `abort`, `wakeRequested` are the fields of `Phase`;
`owedWake` is the value `kick()` captured; `nextTurn` and `nextStep` are the inbox
projection. `trace` is the companion's own state and `refused` collects the events
it would have thrown on. `queuedAs`, `claimedIn`, `discarded`, `admittedIn` record
the events about each message. What hooks, models and tools answer is chosen
freely from `Outcomes`, what callers do from `Callers`.

**AgentLifecycle.** An attempt is one call of `createAgent`, of `resume`, or of the
configured restore, which waits for a draining lifecycle, resumes, and creates where
nothing is stored. `at[a]` holds what the call's closures hold: `pc` is the await it
stands at, `back` how far the backend's create or open is (it goes on when an abort
has won the race, `late`), `handle`, `len` and `cursor` the write handle and how much
of the session it has stored, `machine` and `scope` the driver and its plugins,
`disp` the memoized disposal, `fused` the signal that prepare fuses from its abort
sources, `owner` the unload of the owning fiber. `writer` is the backend's claim,
`sessions` and `agents` the registries, `factory` the factory's fiber. Sessions are
lengths: what matters is which events were stored before others were routed. A
fiber's unload starts all its disposers side by side, which is how the scope of an
agent can unwind next to its disposal (`UnwoundByFiber`).

**ToolCalls.** `place` is the await of `runGroup` (or of the loop around it),
`stage[c]` how far call `c` is between gate and commit. The mode of a call is chosen
anew each time the code asks the registry for it. `aborted` is the scheduler's
flag and `signal` the abort signal it is read from.

**SessionRecovery.** `log` is the live session (or the file, while no process owns
it), `stored` the prefix whose write was acknowledged, `mark` the length a pending
checkpoint waits for. A crash keeps any prefix from `stored` on. `Closers` is
`interruptedTurnClosers`: a scan of the log, then a result for each call left
pending. `Trace`, `Scan` and `Queue` read a log event by event, as recursive functions
of the position, so that they can be reasoned about. The actions between crashes are
those of a turn, one per checkpoint boundary; a step's calls run side by side.

**LocalJobs.** `status`, `owner`, `reported` are fields of a record and `store` the
registry's map. `work[j]` is the producer: `"done"` is a resolved promise whose
reaction has not run, which is where kills, reads, waits and teardowns overtake a
settlement. A `wait()` call is pending, released, timed out or rejected, and returns
at a later step; `Waiters` is the record's count of them. `cleanup[o]` is the effect
on the owner's scope and `service` the registry's own disposer, each with the jobs it
captured when it began. Of an owner, `agent` is its driver's phase: idle, in maintenance
with or without a latched wake, busy with turns, or retiring, from the turn loop's end to
the idle phase. `queued` is the notices in its inbox, `followups` those sent to wake, which
a turn claims one at a time, `spent` its consecutive wakes. A turn loop that looks at its
inbox ends over an empty one (`LastLook`); a turn that throws, is aborted, rejected or has
nothing to say ends without a look (`Breaks`), and a cancel may clear the inbox or keep
it. What stays behind then, and what comes behind the last look, is `stranded`, which like
`opened`, `notices` and `heard` is history. The tools are mounted for as long as the registry and deliver by waking
(`delivery: "wakeup"`); consumers no longer reach `ctx.jobs` once the provider's
fiber unloads (`Up`).

**ReleasePublish.** `release`, `assets`, `aliases` are the two services, the rest is
the job: `step` is where it stands, `old` and `existing` what its lookups found,
`todo` the files it has still to attach. An image is its config id, a manifest the
image and the runner that compressed it, so a second push of the same image can have
another digest. `Die` may follow every step, and the next job carries the same image
or a rebuilt one. GitHub documents that the lookup of a release by tag returns published
releases only. With such an endpoint `attach()` (line 38) ends every job that has created
a draft (line 35) by a 404, as if the code took it to be found; the model has both kinds
of endpoint (`drafts`, chosen once), and every property holds under both.

**DemoLifecycle.** `at[p]` is the Docker call that operator `p`'s command is at; the
calls of a command follow each other as in `demo.mjs`. A call may fail before or after
its effect, which ends the command by way of its `finally`; a kill ends it without.
`volume` holds a label and the state of each archive in it, `seeder` the container
that a command waits for and a kill leaves behind, `attached` a container of somebody
else. `inspect()` takes a failing Docker for an absent volume (`Uninspected`), so
`prepare` may create (which is idempotent) and seed again, into a further archive, and
`stop` may skip its look at the label. The operators follow
`src/demo/README.md`: they clear a stale lock only when nothing runs.

**JsonlHandle.** One record of functions per handle: `buffered`, `timer`, `paused`
and `drain` are `StorageHandleState`'s live buffer, `stage`, `batch` and `state` the
mutation chain and its cursor, `st` the handle's life. `draining` outlives the drain by
the microtask of its `finally`: `drain` is a drain that will look at the buffer again,
`ending` one that will not and is not cleared yet (`Cleared`). `file`, `torn`, `salvage`,
`owner` are the disk and the kernel lock. `Crash` leaves whatever part of a write
in flight the format lets a reader decode: a Zstandard frame torn at some record,
or complete raw lines.

**DurableLog** has two variables and two actions: a log grows, some prefix of it is
promised; a loss keeps what is promised. `JsonlHandle` implements it with the log
of the current handle's session (or what a reader finds, when none is routed) and
the length of the longest flushed prefix. `SessionRecovery` implements it with its
`log` and `stored`: the crash model that `SessionRecovery` assumes of its storage is
one that the storage model refines, which is how the two are composed.

## 3. What is checked

| Run | Question | Instance |
| --- | --- | --- |
| `AgentDriver_driver` | grammar of the log, latch, inbox bookkeeping, abort and parking, convergence, replay of latched wakes, disposal, service of queued input | 2 messages, every method and outcome, 2 steps per turn, 2 cancels, under fairness |
| `ToolCalls_batch` | barriers, pool, order, answers, truthful codes, quiescent ends, termination | 3 calls, pool of 2, all faults |
| `SessionRecovery_crashes` | repair and checkpoints of parallel calls, durability across turns and crashes; refinement of `DurableLog` | 1 prompt, 2 turns, 2 steps, 2 calls, 2 crashes, failures |
| `JsonlHandle_crash` | nothing lost or reordered through failures and crashes; writes only under the lock; refinement of `DurableLog` | 3 handles, 4 events, 2 interchangeable flushers, compressed |
| `JsonlHandle_close` | close and flush end, close drains, write-behind | 1 handle, 3 events, 2 flushers, raw lines, failures, late events, a death |
| `AgentLifecycle_attempts` | ownership of the log, rollbacks, storage before routing, order of teardown, quiescence of a disposed factory; aborts, disposals and unloads end | 2 attempts on one id, every pair of entry points, 2 events, failures, aborts, unloads, appends during the suffix's write |
| `LocalJobs_jobs` | one notice per end, first outcome, quiet and complete teardowns that end, the wake budget, no notice left while it lasts | 1 owner or none, 2 jobs, 2 waits, limit 2, budget 1 |
| `ReleasePublish_jobs` | sources before images, complete public releases, nothing overwritten, reruns not refused | 3 jobs, 2 images, 2 runners, both kinds of lookup, 3 source and 3 deployment files |
| `DemoLifecycle_lifecycle` | exclusive and complete seeds, truthful receipts, others' volumes untouched, recovery | 2 operators, 3 archives, 2 images, 2 commands, 2 failures, a kill, a foreign action |

A run's property is often the conjunction of named parts, each of which could be wrong
by itself (`InputAccounted` is `Conserved`, `OwnTurn` and `AdmittedOnce`; `NothingLeft`
is `NoResidue` and `FactoryQuiescent`; and so on): the parts have comments of their
own, and the modules hold a mutated operator for each.

Three more runs state a sentence of the source or its documents and find it violated:

* `AgentDriver_teardown`. "disposal never latches, so teardown waits on no model
  turn" (`agent.ts:190-192`). A user cancels, then the agent is disposed before the
  activity has ended. The first cause wins, so the signal's reason is not
  `disposed`; a prompt sent now is latched after all, and its replay starts a turn
  that `whenIdle()`, and so the disposal, waits for.
* `JsonlHandle_latewrite`. The write lock is "held for the whole life of a write
  handle" (`lease.ts:2-3`). A timer armed while `close()` drains survives the drain's
  failure, fires after the lock was released, and writes.
* `JsonlHandle_joined`. "`session/flush` cancels the wait and drains through quiescence"
  (`docs/subsystems/persistence.md:106` of the harness). A drain looks at the empty
  buffer for the last time; before its `finally` has cleared `draining`
  (`storage.ts:288-291`), an event is published and a flush called, which joins the
  finished drain and resolves while the event is in the buffer only. A crash then loses
  what the caller took to be stored.

Further gaps are known without a run:

* "Teardown stops and drains the driver, unwinds the scope" (`agent-loop/README.md:111`),
  but the scope's disposer is registered with the factory's fiber (`agent.ts:104`) and
  adopted from the owner's only (`fiber.ts:448-450`): when the factory unloads, the scope
  of an agent that another fiber owns unwinds at once, next to the disposal, and the turn
  under way goes on without its plugins. An owner that unloads during a disposal begun by
  somebody else does the same (`index.ts:632`). `DriverBeforeScope` shows that nothing
  else does.
* A prompt sent between a driver's last look at the inbox (`agent.ts:345`) and the
  release of its phase stays queued until the next wake (the project's own notes
  list it).
* A disposal called from a listener of an append, with input pending, fails to cancel
  and detaches a running agent (`Dispose` of `AgentDriver`, second branch); one whose
  scope has unwound during the announcement fails alike (`DisposeCancels`).
* An event published between the last drain of `close()` and `releaseHandle` stays in
  the closed handle's buffer (`storage.ts:256`).
* A crash between the durable claim of a prompt and its `user/message` leaves it
  neither queued nor in the transcript (`agent.ts:245-378`).
* An event that a setup's plugin appends while the unstored suffix is being written is
  never stored, nor is anything behind it (`index.ts:751-755`). If something follows, the
  disposal's close rejects for the gap; if nothing does, the event is lost without an
  error. The run has the case (the hazard `"window"`), and `EventsStored` says exactly
  this.
* A job's notice that a turn breaks off over (it throws, is aborted with the inbox kept,
  rejected, or has nothing to say), or that comes between a turn's last look and the idle
  phase, rests with an idle owner, though its budget lasts. The package knows of the
  latter (`jobs/tool-jobs/README.md:173`); that "the turn cannot close over" a notice
  (`tool-jobs/src/index.ts:269-270`, `README.md:40`) overlooks the former.
* Of a new release, no job ends what an earlier one that died left as a draft
  (`src/docs/12-release.md:87` expects it of a backfill): if the lookup by tag finds
  drafts, the backfill takes it for an existing release and skips `--draft=false`
  (`publish.mjs:63`); if not, `attach()` fails at line 38 for every draft, the job's own
  too. Which of the two depends on a service that is not in the tree, so no property says
  either.
* A first write whose directory sync fails behind its link reports a failure and is
  refused when it is retried (`session-persistence-jsonl/src/index.ts:1137-1148`).

The runs spend their properties on what could be wrong. The type invariants (`TypeOK`)
hold in the same instances; those of the modules with proofs are theorems.

### Bounds, and why they are enough

Two messages are one that is claimed and one that is queued, for the same turn or for
the next, or replaces the other; a third was checked without liveness, and the proofs
cover every number. Two cancels are an abort of a turn and of the driver that a latched
wake started; two steps number a second step and are steered into. Three calls form
every sequence of a pair of parallel calls with an exclusive one before, between or
behind, and overfill a pool of two. Two crashes are a crash and a crash in its repair;
`RepairContinues` adds every cut of every repair; the second turn is the one that the
prompt opens again when a crash took back its claim, behind the repaired first. Three handles are a crash, a repair of
its torn tail that crashes too, and the repair of that; four events are a flushed one
and three that spread over two batches and a buffer. Two attempts are one that owns the
id and one that meets it at each of the claim, the registries and the log; two events
are a seed or a setup's event and one of a turn behind it. Two jobs fill the limit and
exceed the budget of one wake; two waits are one that answers for the other and one
that comes late. Three publications are one that dies, one that dies behind it and one
that ends; two images and two runners are a rebuild and a repeated push. Two operators
race for the lock; three archives are a seed, its repetition after a failure and the one
a retried `prepare` makes; a kill leaves a seeder and a stale lock behind.
`CHECK_DEADLOCK FALSE` is set everywhere, because every system here may rest: an idle
agent, a finished batch, a closed handle, an operator who stops.

### Fairness

`AgentDriver`: the event loop runs each ready continuation, and what the driver
awaits settles, since no await of the driver has a timeout of its own; callers owe
nothing. Request-error hooks give up some time: the retry plugin's normal mode has a
finite `maxRetries`. (Its other mode retries without end, and then nothing but a
cancel ends the turn.) `ToolCalls`: gates, wrappers, bodies and post-execute hooks
settle, as "cancellation never abandons the body". `JsonlHandle`: storage calls
settle and timers fire, weakly; barriers and the steps of a close are strongly fair
because the mutation chain and the promise queue are first in, first out, so
drains started later cannot overtake them for ever. `AgentLifecycle`: continuations
run and create, read and append settle; an open owes nothing, which is why it is
raced against the abort, and a setup, a turn or a listener only ends for certain once
it is aborted (`WF` under `fused`); listeners of `agent/created` settle. `LocalJobs`:
reactions run, a teardown that has nothing left to wait for goes on, and a cancelled
producer ends (a running one owes nothing). `DemoLifecycle`: calls return, as each has a
timeout, a seeder ends, others detach some time, and an operator who is left with a stale
lock or without a working demo does what `src/demo/README.md` says; since failures are
bounded, so are retries. `ReleasePublish` and `SessionRecovery` claim no liveness.

### What the properties leave out

* Some input legally stays parked on an idle agent: behind a `keepInbox` cancel, a
  rejected step, a throwing hook, or a first step rewritten to nothing.
  `LiveDriverServes` therefore stops at an abort and at an early exit of the turn.
* `DisposalEnds` excuses endless maintenance: `whenIdle()` follows whatever
  replaces the activity it waits for.
* `WriteBehind` excuses a window that a failed drain has paused until the next flush,
  and `OwnedWrites` is checked without closes, where it is the finding above.
* `EventsStored` is about disposals whose close resolved: one that rejects, for a failing
  write, a gap, or a log that somebody else has made in between, has told its caller.
* `NoResidue` excuses a backend call that lost its race until its late handle has been
  closed, and a scope that a fiber is unwinding by itself.
* `NoOrphans` excuses a job whose cancel threw: the registry forgets it and its
  producer may go on.
* `WokenWithinBudget` counts the turns that notices open: a human input gives back the
  budget, and notices that join a turn under way cost none. It excuses stranded notices
  (above).
* `DurabilityKept` of `JsonlHandle` promises a flush what the drain that it started or
  joined has looked at. That this is not always all that was published before the flush
  is the finding `JsonlHandle_joined`.
* `Resumable` is about a job that may backfill and carries the image of the jobs before
  it: with a rebuilt image the preflight refuses, as it should.
* Others may attach to the volume between `reset`'s look at its containers and its
  removal: that `NothingSpoiled` holds then rests on Docker's refusal to remove a volume
  in use. `Recovers` ends where others hold the volume's name.
* Records recovered from a torn tail are covered by no flush until they are
  rewritten: a crash between truncation and rewrite loses them.

## 4. What is proved

Each proof module proves for every value of the constants, from the named assumptions
of the module it extends and nothing else, with one exception.
The theorems of `JsonlHandleProofs`, but for `NobodyStranded`, are about the behaviours in which no handle is
opened while its predecessor, closed or being released, has left something to write
(`[]CleanSuccession`), or, for `OwnedWrites`, in which none leaves anything
(`[]CleanRelease`). A close whose drain failed does leave its buffer, and what is then
published arms its timer (`JsonlHandle_latewrite`), so without the hypothesis the
theorems are false. Three theorems say where it comes for free: where handles end by
the death of their process, for a log with one handle, and where storage calls succeed
and no session publishes while its handle closes.
`Inductive` is that module's inductive
invariant, `InductiveHolds` the theorem `Spec => []Inductive`, and `TypeCorrect` is
`Spec => []TypeOK`; in `AgentLifecycleProofs` and `JsonlHandleProofs` the types are a
conjunct of `Inductive` (`Typed`), without the bounds of `TypeOK`.

| Module | Theorem | Property |
| --- | --- | --- |
| `AgentDriverProofs` | `LatchOwed` | `LatchOnlyWhenOwed`: the latch is set only on maintenance or on an aborted driver |
| | `LogAlwaysWellFormed` | `LogWellFormed`: the session grammar refuses no event of the driver |
| | `InputAlwaysAccounted` | `InputAccounted`: nothing lost or doubled, one prompt a turn, one admission |
| | `AbortNeverCommits`, `ParkedAlwaysParked` | `AbortCommitsNothing`, `ParkedStaysParked`, of every step |
| `AgentLifecycleProofs` | `RegisteredOwnsLogHolds` | `RegisteredOwnsLog`: who is in a registry owns the id's write path |
| | `NothingLeftHolds` | `NothingLeft`: no residue of a failure, a disposed factory is quiescent |
| | `DriverBeforeScopeHolds` | `DriverBeforeScope`: a disposal unwinds behind the idle driver |
| | `NoLatePublicationHolds` | `NoLatePublication`, of every step |
| | `EventsStoredHolds` | `EventsStored`: a disposal whose close resolved has lost nothing, but in one window |
| `ToolCallsProofs` | `AlwaysBoundedOverlap` | `BoundedOverlap`: one exclusive call, or a bounded pool of parallel ones |
| | `AlwaysAnswered` | `BatchAnswered`: ordered and complete answers, nothing running behind the end |
| | `CodesAlwaysTruthful` | `CodesTruthful`: no code lies about the body |
| | `AbortNeverStarts` | `AbortStartsNothing`, of every step |
| `LocalJobsProofs` | `EndAlwaysTold` | `EndIsTold`: one notice, or a reader who knows |
| | `NoOrphanEver` | `NoOrphans` |
| | `WokenAlwaysWithinBudget` | `WokenWithinBudget`: a bounded number of wakes, and none left that is owed |
| | `FirstOutcomeAlwaysStays`, `TeardownAlwaysQuiet` | `FirstOutcomeStays`, `TeardownIsQuiet`, of every step |
| `SessionRecoveryProofs` | `RepairAlwaysFits` | `RepairFits`: a grammatical log, and a repair that can be interrupted |
| | `CheckpointsAlwaysHold` | `CheckpointsHold`: no request and no body behind a record a crash can take back |
| | `CallsAlwaysAnswered` | `CallsAnswered`: at rest one result for each call |
| | `RecoveryImplementsSeam` | `DurabilityKept`: the refinement of `DurableLog` |
| `JsonlHandleProofs` | `AlwaysAccounted` | `Accounted`: file, recovered records, batch and buffer are the log, in order |
| | `AlwaysOwned` | `OwnedWrites`, of every step |
| | `HandlesImplementSeam` | `DurabilityKept`: the refinement of `DurableLog` |
| | `CloseAlwaysDrains` | `CloseDrains`, of every step |
| | `CleanWithoutCloses`, `CleanWithOneHandle`, `CleanWithoutFailures` | the hypothesis of the four above |
| | `NeverRefused` | the contiguity check of a batch never rejects |
| | `NobodyStranded` | who waits for a drain waits for one in flight (no hypothesis) |
| `ReleasePublishProofs` | `PublishedAlwaysBacked` | `PublishedIsBacked` (by `SourceAlwaysBeforeImage` and `PublicAlwaysComplete`) |
| | `NothingEverOverwritten`, `RetryNeverRefused` | `NothingOverwritten`, `Resumable`, of every step |
| `DemoLifecycleProofs` | `SeedAlwaysIntact` | `SeedIntact`: the seeder is alone, the receipt truthful |
| | `NothingEverSpoiled` | `NothingSpoiled`, of every step |

Why the invariants are needed, and how the proofs go:

* `AgentDriver`. The latch needs to know that a send which captured "after an abort"
  still stands in an aborted activity when its observers return (`Places`): only the
  driver's continuations replace an abort signal by a live one, and none runs inside a
  send. The grammar needs the log's position at every place of the driver
  (`LogPosition`): in a step the trace has this turn and step open, in a turn only the
  turn, elsewhere nothing, and the counters agree with the next numbers the grammar
  expects. The operators that commit one, two or three events have lemmas that say where
  they leave the trace, and each action cites the one it uses.
* `AgentDriver`, its input. Conservation counts places, so it needs the two lists to hold
  different messages, each the ones queued for it (`Lists`), and a message to be in one
  of them exactly while nobody claimed or discarded it (`Located`). That a turn claims one
  prompt rests on where the driver claims: the turn it has just opened claimed nothing,
  and a claim after the stopping hook takes next-step input only (`Numbered`). Single
  admission rests on the batch, which is this turn's and unlogged until its first attempt
  and empty from then on, whatever the retries do (`BatchFits`). The lemmas are one per
  kind of step: a command on the inbox, a claim, an admission, a step that touches
  neither; that the driver has an open turn when it claims comes from `InductiveHolds`.
* `SessionRecovery`. A crash may cut the log at any place behind `stored`, so the
  invariant speaks of every prefix (`Cuttable`): each is `Regular`. Of the open step's
  calls `1 .. hi` are requested and `1 .. lo` answered, which is all that commits in
  model order leave open (`Requested`, `Answered`), so what the repair's scan holds
  pending is the interval between, and its turn, its step and the recorded starts are
  those of the grammar's trace (`Agree`): the two readers of the log, written apart in
  `repair.ts` and `invariant.ts`, cannot disagree. Results are unique, and none that
  says "not started" meets a recorded start (`AnsweredOnce`, `NeverBoth`). The live
  process stands where its log says (`Standing`), and what was sent or run is within
  the stored part (`Kept`). `CloserStep` shows that from every regular log the first
  closer leads to another whose closers are the rest; `RepairContinues` and the repair
  itself follow by induction on how many were written. Since the invariant is kept per
  event, there is one lemma per kind of event (`RegularAt` of one event more), and each
  action logs events in that order. What is computed by reading a log is a recursive
  function of the position: its equation and the facts about a prefix
  come from the library's well-founded induction over a set of naturals (`NatInd`).
* `AgentLifecycle`. An attempt without an agent holds exactly what its place and the
  backend's answer say (`Loading`); one with an agent has a handle and a driver that
  agree with how far its disposal is (`Living`), and a scope that is gone only behind the
  driver or by a fiber (`Unwound`). The claim is held by exactly the attempt whose handle
  is served (`Claims`), and the registries only by one whose disposal has not ended
  (`Entered`), so that each exit, which knows its own attempt only, leaves the shared
  state free. That nothing is published late rests on `Warned`: whatever ends an agent
  has aborted its setup first. What is stored needs in addition that a session is routed
  from a point its handle has reached, or cannot reach any more because something was
appended while the suffix was written (`Counts`). There is one lemma per action; the
  factory's unload, which moves every attempt at once, has one for an attempt's share.
* `ToolCalls`. Order and bound follow from where the cursors are: `Staged` says how far
  a call may be by its place before `committed`, up to `nextToStart`, or behind it,
  `Pool` that a dispatched call is in flight, of the group's mode and in its range (of
  one call, when exclusive), `Waiting` why an empty pool means that the group's started
  calls are all committed, `Codes` what each stage knows of the body. There is one lemma
  per action.
* `LocalJobs`. An end is told once because a live record has told nobody except aloud
  (`Unannounced`), and, while a teardown runs, has told already. That nothing is left
  needs `Registered`: a record that is stored belongs to an owner whose cleanup is
  attached, or has captured it. The budget's invariant relates the wakes that notices
  opened to those spent, and says of each phase of the driver what an inbox may hold by
  then (`Budgeted`): a retiring driver holds only what is stranded. The driver's own
  actions share one lemma for all that they leave alone (`DriverEffect`).
* `JsonlHandle`. Only the last handle opened has anything to write (`Alone`), it holds
  the lock from when anything is stored until its release (`Locked`), and it knows of
  the torn tail exactly what the disk holds (`TornKnown`); `Chained` says what the chain
  has done when it stands at a storage call. `Accounted` is proved for as long as the
  process lives (`Balanced`), since the timer of a handle that closed goes on. From
  these, what the disk holds is a prefix of the session's log before and after a
  write that stopped anywhere (`StoredPrefix`, `DeathLeaves`). A flush that finds nothing
  to drain needs `Aged`: recovered records are of earlier handles, so it does not count
  them. The refinement maps a death or the end of a close to a loss, a publication or a
  barrier to an extension, and every other step to a stutter, except that a handle its
  session has left may still write and repair (`DiskStep`). That a close drains rests on
  `Drained`: a torn tail taken off and not rewritten has a batch waiting behind it.
  `CleanWithoutFailures` closes the circle by a stronger invariant: events are numbered
  without a gap (`Numbered`), so what a drain captures continues the disk and no batch
  is refused, no lock is contended, and a handle that was drained holds nothing (`Quiet`).
  `NobodyStranded` needs the types only, which every step keeps without a hypothesis
  (`TypedStep`): a drain ends in the step that moves on or wakes all who joined it
  (`Attended`).
* `ReleasePublish`. How far a job is says what must be delivered (`SourcesKnown`,
  `DigestKnown`), that what it met is of its own image (`OneImage`), and what its lookups
  said that is still true when it acts on it (`Preflighted`), although jobs before it
  died anywhere.
* `DemoLifecycle`. The lock is held by one command, or by nobody with a seeder left
  behind (`Exclusive`, `SeederHeld`); each call finds what the earlier calls of its
  command left (`Seeding`, `SeederInside`), and the archive being filled is not the one
  of the receipt (`Unreceipted`), so a receipt stays true while another seed runs.

Left to TLC: liveness under fairness (all `...End`, `...Served`, `Ends`, `Recovers`,
and `WriteBehind`), which is outside the prover's reach. Of `CallersServed` the safety
half is proved: no one waits for a drain that has ended or whose process is dead.

## 5. Abstractions to know

* Sends by observers of a send are not nested (`sending` is one deep). Listeners of
  appends other than `turn/start`, `step/end` and `turn/end` are not given a place of
  their own.
* `AgentDriver` takes the inbox projection as mounted for as long as the agent lives;
  what a scope that unwinds early takes away from a running turn (section 3) is not
  followed into the driver.
* `SessionRecovery` leaves retries, rewriting hooks and scheduler failures to
  `AgentDriver` and `ToolCalls`, names a call by turn, step and index in place of a
  provider's id, and lets a write take effect where its batch is captured (what a
  crash may keep covers the other orders).
* `AgentLifecycle` abstracts a turn to its closing event and what a plugin appends
  during it, merges the microtask
  between the handle's release and the detachments, gives an interrupted turn one
  closer, and leaves out a close of which only the lock's release fails (the disposal
  rejects, with everything stored), a wake that a send to an agent being disposed latches
  behind maintenance, aborts that re-enter while a scope is minted, forks, sessions
  without a backend and read handles. A configured agent's owner is the factory's
  own fiber, so it has no unload of its own.
* `JsonlHandle` leaves out a rollback that fails after a failed append, the direct
  `append` of the repair's closers (in `SessionRecovery`), and read handles. Taking the
  lock and writing the header in a barrier is one step, which may fail after the lock. A
  flush that joins a failed drain rejects, which changes nothing and is left out. A timer
  is a task, so it does not fire between a drain's end and its `finally`.
* `SessionRecovery` takes a flush to store all that was published before it, as the seam
  promises. `JsonlHandle` keeps that promise but for the finding `JsonlHandle_joined`, so
  what `CheckpointsHold` says holds of the two together outside that microtask.
* `LocalJobs` leaves out the change observers, re-entrant calls from a producer's `run()`
  and `cancel()`, output deltas, ids and counters, and scoped controllers. Messages of
  others are not in its inbox: they are the wakes of `Sends`, and the reason why a
  claim may leave a follow-up behind or a turn go on. A wake latched behind an abort is
  replayed by `Sends`, a step after the idle phase. `OwnerDisposes` is the disposal's
  cancel, the scope's UNLOADING state and `disposeOwned` in one (some microtasks apart, in
  which a job started is captured all the same, and a notice delivered is not modelled);
  the owner may be in any phase, as where the scope unwinds next to a busy driver.
* `ReleasePublish` takes one push as one step and a file as what its bytes depend on: the
  source bundle's and the manifest's also depend on the revision of the tooling, which a
  rerun of a workflow keeps. Several drafts of one tag are one, as nothing is attached to
  a draft that the lookup does not find. The checks of the environment before line 15 are preconditions of a job.
* `DemoLifecycle` takes Docker from how `demo.mjs` uses it: `volume create` is
  idempotent, `run` returns only when its container has ended, a short call of a killed
  command is done or not. The seeder (`src/demo/seed/build.ts`) fills its archive in one
  step, or fails in the middle. Others cannot remove the demo's volume.

## 6. Not modelled

Session projections and forks; assistant streams, runtime context and
system prompts; model adapters; compaction, goals, schedules, workflows and
subagents; shells, terminals and sandboxes; the web interface, gateways and bridges;
the applications; the JSONL byte format and its migrations. They are pure, or
operating-system and network I/O, or plugins whose effect on the modelled parts is
an outcome chosen freely. The container's entrypoint (`src/scripts/entrypoint.mjs`)
forwards signals to one child and arms one kill timer; the packaging and evidence
scripts are sequential build tooling. The interview plugin is not in the tree. Nine tenths of
the tree are such code: interfaces, adapters, catalogues, generators and tests.

## 7. Plan

Done: the agent driver first, since every other part serves it; then the scheduler, the
recovery of its log, the storage beneath and the lifecycle around it (without forks), the
background jobs, and the repository's own publication and demo. What would come next:

1. `AgentContract`: what an agent promises its callers (a message is submitted,
   then claimed once, discarded or parked; `whenIdle`), refined by `AgentDriver`, and
   `LocalJobs` over it instead of over an agent of its own.
2. Forks, and the direct append path of a write handle (read, repair, suffix) in
   `JsonlHandle`, so that `AgentLifecycle`'s handle becomes a refinement of it.
3. A close that leaves its buffer behind (`JsonlHandle_latewrite`) once the code fences the
   timer of a released handle: the hypotheses of `JsonlHandleProofs` would then go.
