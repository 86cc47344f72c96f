# Territory-grounder: verification of the actuation control plane

Territory-grounder is an agent that diagnoses incidents in an estate of machines
and, when it is allowed to, repairs them.  What makes it safe is not the agent
but the control plane around it: a global autonomy mode with a kill switch,
circuit breakers, a hash-chained governance ledger, admission control per
target, and a ladder on which each class of operation earns autonomy.  All of
these keep a durable row in Postgres and a cache or a lock in each worker
process, and several processes run at once.  The lock of a process orders the
goroutines of that process only, every database call may fail or commit and
still report an error, and any process may die between two statements.  Above
them runs the incident session, a Temporal workflow that asks a human when the
policy says so, executes, verifies and closes the ticket, with a child workflow
that undoes a change nobody confirmed.  This project models that control plane
in TLA+, checks it with TLC on small instances and proves the central
properties with TLAPS for every instance.

Paths below are relative to the repository.  `PROJECT.json` holds the run
list, the map from every definition to the lines it models, the findings, the
hazards and the theorems.

## 1. Inventory

### Components that are modelled

| Component | State | Operations | What makes it correct |
|---|---|---|---|
| Mode controller: `core/policy/mode.go`, `core/db/policy_mode_store.go`, `temporal/modetransition`, `core/safety/mutation_chokepoint.go` | one `policy_mode` row; per process `current`, `gen`, `killLatched` | boot, seed, operator transition, `ForceShadow`, `Resync`, `persistLatchedKill`, `MayActuate` | a kill is not undone by an older row; nothing actuates on an unaudited decision; caches settle on the row; a kill reaches the store |
| Breaker core: `core/breaker/breaker.go`, `core/db/breaker_write.go` | state, failures, successes, time of opening | `RecordFailure`, `RecordSuccess`, `Allow`, `Reset`, `CompareAndOpen` | used by the three lanes below |
| Mutation breaker: `core/safety/mutation_breaker.go`, gates 4e and 4f of `core/actuate/interceptor.go` | the shared breaker row, the mode | `Trip`, `State`, `Rearm`, escalation | a deviation halts; only a re-arm closes |
| Judge dead-man: `core/governance/judge_deadman.go`, `judge_liveness.go`, `frontier_crosscheck.go` | the shared row, ticks of the monitors | measure, `HaltOpen`, page, `Rearm` | one page per opening; a dead judge is halted, a live one re-armed |
| Model breaker: `adapters/model/breaker.go`, `modules/model/litellm/routing.go` | the shared row, calls in flight | `allow`, call, `record` | a dead model's breaker opens; a healthy model is used again |
| Governance ledger: `core/audit/ledger.go`, `core/db/ledger.go` | the table; per process the cached tail and the gate | boot, `AppendContext` with re-chaining | the chain verifies; acknowledged rows stay; it is an append-only log |
| Ledger anchors: `core/audit/anchor.go`, `core/db/ledger_anchor.go`, `temporal/ledgeranchor` | anchors; recorder and verifier in progress | record an anchor, verify | no false alarm; a pass vouches; a loss is reported |
| Target admission: `core/actuate/limiter.go`, `core/db/actuation_target_state.go` | per process windows and counters; per target a claim with TTL and cooldown | `Admit`, `Release` of both, effect, cancellation | one effect per target; exact leases; cooldown after a disturbed effect; no target is wedged |
| Incident session: `temporal/runner/workflow.go`, `activities.go`, `terminal.go`, `reconcile.go` | the workflow's position, the poll with its votes and timers, ledger entries, the triage row, the ticket, the console's pending row | every activity from suppression to reconcile, votes, timers, recheck | acts only on a recorded vote; the clock does not overrule an answer; the ticket closes only on a confirmed clear; a record is left; it ends |
| Transaction plan: `temporal/runner/transaction_plan_workflow.go` | phase, step, executed and remaining steps | admit, execute a step, fail, compensate | the terminal says what is applied |
| Escalation lane: `core/escalation`, `core/db/escalation.go`, `temporal/escalation` | queue rows, the batch of the running pass | enqueue, re-check with its cap, read due rows, mark, page | one page per row; an unanswered poll reaches a human |
| Commit-confirm: `temporal/runner/commit_confirm.go`, `core/db/commit_confirm.go`, the sweep in `cmd/worker/main.go` | the `commit_confirm` row, the window's child, signals in flight, resolve attempts | arm, start, execute, abort, nudge, timer, consult, hold, seal, fire, trip, resolve, sweep | no declared change without its window; no completed change is stood down; a deviation is answered; one inverse |
| Graduation ladder: `core/policy/graduation.go`, `core/db/policy_graduation_store.go`, `core/db/graduation_credit.go`, migrations 0064 and 0067, `core/policy/defaults.go`, `temporal/opclassratify` | row with a version, credits; per process a cache and a mutex | `Record` with compare-and-swap retries, credit claim, first touch, `Forget`, seed, ratify, demote | a promotion is earned; nothing is served that was never granted; the row is a serial ladder; a deviation drops autonomy; staleness ends |

How they interact: an actuation runs the interceptor's chain of gates
(`core/actuate/interceptor.go`, `Do`): manifest and admission, never-auto and
stateful floors, structure, parameters, evidence, territory, verifiability,
policy (which asks the graduation ladder), breaker (4e), mode (4f), host match,
limiter (4h), durable claim (4h2), reachability, baselines and necessity; then
the effect, the observation and the verdict.  A deviating verdict trips the
mutation breaker, which forces the mode to Shadow, and demotes the op-class.
Every decision goes to the ledger.  An operator's escalation changes the mode
and re-arms the breaker.  `MutationBreaker` composes the breaker with the mode
and gates 4e/4f; `LedgerAnchor` composes the witness with the ledger; the three
breaker lanes share `Breaker`, and `Graduation` and `SerialLadder` share
`Ladder`.

The session starts the actuation.  `RunnerSession` composes it with the plan's
child workflow (`TransactionPlan`) and with the queue to which it hands an
unanswered poll (`Escalation`).  `CommitConfirm` looks at the part of the
session between the arming of the window and the nudge, together with the
execute activity, the window's child and the sweep: there all four run at the
same time.

### Components that are not modelled

`PROJECT.json` lists every one with its reason.  In short:

* *Planned*: rollback, regime drift and async verification, suppression, the
  cost accountant, the skill store, the agent loop's budget; risk, prediction,
  verdict and the policy engine as pure operators.
* *Out of reach or of little use*: text compilation and retrieval (knowledge,
  wiki, lessons), scoring by an LLM, parsing of external payloads, HTTP
  handlers, cryptography and secret stores, I/O adapters, the offline
  evaluation tools, observe-only tracing.

### What is hard here

* *Interleaving across processes*: a mutex guards one process, the row is
  shared.  Read–decide–write without a version (mode row, breaker row) loses
  updates; with a version (ladder) or a primary key (ledger) it does not.
* *Commit but error*: a deadline that expires after the commit.  The caller
  believes the write failed.
* *Crash between steps*: audit, save and activate are three steps; claim,
  effect and release are three steps.
* *Stale caches*: mode, tail and level are cached; the gate reads the cache.
* *Time*: claim TTL against the activity's deadline, cooldown, sliding window,
  the vote timer against a vote, the window timer against an effect under way.
* *Activities that err*: an activity may have had its effect when its caller
  sees a timeout.  Some errors end the session, some are ignored, some are
  retried, and the code differs from call to call.

The hazards, each at its line, are in `PROJECT.json`.  Three have no property:
they are behaviours the code does not prevent, and section 3 or the note of
the hazard describes them.

## 2. Modules

Each component has a module with its state, actions and properties, an `MC`
module for TLC, and, where something is proved, a `Proofs` module.

| Module | Models | Notes |
|---|---|---|
| `ModeControl` | mode controller | Each lock region and each store call is an action.  `row` carries two stamps (`dec`, `at`) only the properties read. |
| `Breaker` | breaker core | Pure operators from record to record. |
| `MutationBreaker` | mutation breaker with gates and mode | `Trip` is load, save, re-read, force.  The mode is reduced to acting or Shadow; `ModeControl` has its detail. |
| `JudgeDeadMan` | judge dead-man | Two monitors and one of a sibling worker. |
| `ModelBreaker` | model breaker | Time is the cool-down flag. |
| `AppendLog`, `GovLedger` | ledger | `AppendLog` is the promise, `GovLedger` the code.  The hash is a constant operator about which nothing is assumed.  `since` of an append, the rows of the table when it took the gate, is history. |
| `LedgerAnchor` | anchors | Extends `GovLedger`; adds loss of the newest rows.  `witnessed`, the tables an anchor was taken of, is history. |
| `TargetAdmission` | limiter and claim | Ages instead of timestamps, saturated one past the bound they are compared with.  An admission and an effect are a record of age and turn; `turn`, `charged` and `fired` are history: they say which admission paid for which effect. |
| `CommitConfirm` | armed revert of one (action, incident) | Session, execute activity, child and sweep interleave; `want` and `tries` are the resolve activities under way.  The graduation feed is reduced to what it is told. |
| `TransactionPlan` | plan workflow | Instantiated by `RunnerSession`. |
| `Escalation` | requeue lane | Instantiated by `RunnerSession`.  Every pending row is due in time.  The batch of a pass is the set of its row numbers, taken lowest first. |
| `RunnerSession` | one incident session | `pc` is the activity that comes next.  Votes, timers, the cron and the judge's escalation interleave with it. |
| `Ladder`, `SerialLadder`, `Graduation` | ladder | `Ladder` is `applyOutcome`; `SerialLadder` the promise; `Graduation` the code with cache, CAS, credits and the trigger. |

Conventions.  A *fault* is a database error: the write did not happen, or it
did and the error is reported all the same.  A definition whose name has an
underscore and whose comment begins with "Mutant:" is a plausible bug of the
definition below it, used to show that a property can fail.  Variables called
history, or named so in their comment, are read by properties only.

Bounds are constants and appear in guards: `MaxClock`, `MaxFaults`, `MaxRuns`,
`MaxResumes`, `MaxOutages`, `MaxAppends`, `MaxAnchors`, `MaxLosses`,
`MaxRecords`, `MaxVotes`; the limits of the code that TLC runs with smaller
values are `MaxMisbound` (64), `ClearReadings` (2), `ClearRounds` (10), `Cap` (3),
`HoldRechecks` (6) and `ResolveAttempts` (5).  The proofs hold for every value of
them.

What the abstraction leaves out: the text of decisions, reasons and pages; the
authority and preflight checks of a transition are one refusal; a corrupt mode
row reads like an absent one; one op-class, because classes do not interact;
one breaker name per lane, because names do not interact.

Of the session: cancellation of the workflow, the text of notices, the trace and
manifest writes that nothing reads back, and the version markers (the model is
the current version of the workflow).  The record of a refused or an
unconfigured vote and the summary of ignored votes are best effort and decide
nothing.  Votes are sent while the poll waits or is being recorded; an earlier
one is buffered by Temporal and so arrives first.  When the poll is closed its
history variables are reset, except the votes of an approved one.  The judge's
escalation happens around the hand-over only, where it can interact with it.
In `CommitConfirm` the child serves a signal and a timer that are both ready in
either order, which includes the order of the selector.  The plan's rows,
events, page and trip are best effort and are left out.  No recipe of a plan is
declared at this commit, so the plan's part of a session is code that is
compiled in and not yet reached.

## 3. Runs

### Runs that pass

| Run | Instance | Shows |
|---|---|---|
| `mode_planes` | 2 processes, boot seed, operator transitions and kills in one of them; clock 3, 1 fault | `KillHolds`: after a kill a process actuates only on a row saved after the kill.  `AuditedBeforeEffect`: no row and no process holds an actuating mode whose decision is not in the ledger.  `CacheConverges`; `KillReachesStore`, by the latched retry. |
| `breaker_halt` | 2 workers, 3 tasks (two share a worker), 2 escalations, 1 fault, threshold 1 | `DeviationHalts`: only a re-arm that overtook the trip lets one pass. |
| `judge` | 3 monitors, 2 outages, 1 fault | `OnePagePerOpening`, `DeathHalts`, `LifeRearms`. |
| `model` | 2 workers, 3 calls, threshold 2, 2 probes, 2 outages, 1 fault | `Recovers` and `OutageOpens`: lost updates between workers delay the breaker and never freeze it. |
| `ledger` | 3 writers, 4 appends, 1 retry, 1 fault | `ChainVerifies`, `AckedStays`; `ContentionServed`: an append that ends unacknowledged, and not for an error or a crash, was overtaken by as many rows as it has retries, inserted since it took the gate; and `GovLedger` implements `AppendLog` (`IsAppendLog`). |
| `anchor` | 2 writers, 3 appends, 2 anchors, window 2, 2 losses, 1 fault | `VerdictIsTrue`: no alarm without a loss, and a chain that passes holds every row of every table an anchor was taken of.  `LossIsReported`. |
| `admission` | 2 workers, 3 slots, 1 target, window 3, TTL 2, cooldown 1 | `EffectExclusive`, `LeaseExact`, `DisturbedParks`; `WindowCap`: a process lets no more effects happen to a session or target in any `Window - MaxHold` than its limit, until a restart empties its window, so a fleet no more than workers x limit; `NeverWedged`. |
| `grad` | 2 processes, 2 incidents, 4 records, 1 retry, 1 fault, an overlay class | `ServedWasGranted`, `PromotionEarned`, `IsSerialLadder`, `StalenessEnds` (the refresh loop's eviction). |
| `commit_confirm` | all three declarations of a class, 2 rechecks, 2 resolve attempts, 3 faults | `EffectIsGuarded`, `AbortedNotCompleted`, `ResolutionRecorded`, `OneCredit`, `RefireOnlyAfterLoss`, `WindowResolves`, `DeviationAnswered`. |
| `session` | 2 votes, 2 strays end a poll, 3 clear rounds with 2 readings, a plan of 3 steps, 2 faults | `ActsOnRecordedVote`, `AnsweredNotExpired`, `DoneIsConfirmed`, `LeavesItsRecord`, `OnePagePerRow`, `PlanAccounts`, `SessionEnds`, `UnansweredEscalates`. |

Why the bounds are enough for the interesting cases.  A lost update needs two
processes and one write between another's read and write; a fault or a crash
in between needs one fault; a latch released for the wrong kill needs two
kills; an append that is lost with one retry needs
two by others, one of which may be older; a claim that expires
under a crashed holder needs a TTL of two ticks and a hold of one; a promotion
needs a streak of two and, to be spoilt, a deviation in another process.  Every
passing run's property has a mutant of the code that TLC finds under the same
bounds, which is the evidence that the case happens.  For `commit_confirm`: an
inverse that fires twice needs a child that fails after its effect, a sweep and
a second child, so two faults, and the third lets a signal be lost as well.
For `session`: a vote that matters and one that does not; a quiet, an alerting
and a quiet reading, which two required readings must not accept; a plan with
two steps before the one that fails; a failing page and a failing write.

`CHECK_DEADLOCK FALSE` is set where the bound on clocks, appends or records
lets the bounded system stop, and for the session and the window, which end;
the other runs check deadlock.

### Statements of the source that the model refutes

Each line is what a comment, a migration header or a requirement says, and a
behaviour of the code that does otherwise.  Two are runs that end in a
violation: `mode_restart` and `session_escalation`.  The others are stated in the
modules under the name given, and are reproduced by making them the only
property of the configuration named, changed as said.

| Statement | Where it is said | What the code does | How to reproduce |
|---|---|---|---|
| `KillSurvivesRestart` | `core/policy/mode.go:549`: a restart resolves to Shadow "regardless" | a kill whose persist failed is forgotten by a restart, which boots from the old actuating row | run `mode_restart` |
| `SeededMayAct` | `core/policy/defaults.go:110`: a seeded class "still acts with no human vote" | the trigger of migration 0067 refuses the seed, for want of a credit | `MCGrad`, `Embedded = TRUE` |
| `DroppedConverges` | `core/escalation/queue.go:100`: a dropped re-entry "is not lost: the reconcile loop schedules a fresh re-check" | the row is consumed, the session that wrote it has ended, and nothing reconciles the incident again | run `session_escalation` |
| `RearmIsDeliberate` | `core/governance/judge_deadman.go:18`: "it has NO automatic recovery: the only path back is Rearm, a deliberate operator act"; line 201: "It is never automatic"; `core/breaker/breaker.go:276` says the same of `Reset` | the liveness monitor re-arms on a measurement of its own (`judge_liveness.go:165`, which calls it the REQ-308 recovery), and nothing else calls `JudgeDeadMan.Rearm`.  `LifeRearms` states what the code does | `MCJudge` |
| `PlanTakesHumanVote` | `temporal/runner/workflow.go:835`: "a plan ALWAYS takes the one human vote"; `transaction_plan_workflow.go:113` | a plan is composed for a poll that the autonomous approver has resolved too, and the approval of the single action then releases the plan (`workflow.go:1117`, `1260`).  `ActsOnRecordedVote` accepts it, because that approval is on the ledger | `MCRunnerSession` |
| `MutationIsCounted` | `temporal/runner/triage_mutated_test.go:9`: "THE A3 DENOMINATOR MUST COUNT WHAT ACTUALLY RAN." | the row of a poll is written before the vote and the first write stays; the mark that corrects it is on the path of the single action only, so a plan that executed ends with `mutated` false (`workflow.go:1277`).  `LeavesItsRecord` says what holds | `MCRunnerSession` |
| `AutoReverts` | `temporal/runner/workflow.go:934`: "all-or-nothing, one approval, auto-revert on any step failure" | the compensation is asked for without the identifier of a sealed inverse, so it executes nothing and the plan ends as revert-failed | `MCRunnerSession` |
| `ActuatingRowIsNewerResume` | `mode.go:244`: once the kill is durable "an actuating row can only be a newer operator resume" | a transition decided earlier in another process can be saved later | `MCModePlanes`, `Runner = {p1}`, `Halter = {p2}`, `MaxClock = 4` |
| `SeedSeesAbsent` | `mode.go:483`: re-reading under the lock "serializes the seed with them" | it serialises the seed with writers of its own process; two planes boot together | `MCModePlanes` |
| `OnlyRearmCloses` | `core/breaker/breaker.go:275`: Reset is "the ONLY path back to closed" | at threshold 2 or more (`TG_MUTATION_BREAKER_THRESHOLD`) a stale closed record overwrites the open one | `MCBreakerHalt`, `FailureThreshold = 2` |
| `DeviationForcesShadow` | `core/safety/mutation_breaker.go:57`: at the threshold Trip "forces the mode to Shadow" | not if another worker's re-arm lands between the record and the re-read | `MCBreakerHalt` |
| `ResumeHolds` | `mode.go:438`: the re-arm keeps the restored mode from being "nullified by the independent open breaker" | the mode is active before the re-arm, and a gate in between forces Shadow | `MCBreakerHalt`, `MaxFaults = 0` |
| `DeathIsPaged` | `core/governance/judge_deadman.go:105`: after a store error "the page fires then, never silently swallowed" | not if the statement that failed had committed: the next tick finds the breaker open | `MCJudge`, `MaxOutages = 1` |
| `OneCanary` | `breaker.go:39`: "exactly one canary call is admitted" | every caller in the half-open state | `MCModel` |
| `VerifyChainSeesLoss` | `core/audit/ledger.go:338`: any row "altered, reordered, or removed" | the newest rows can go unseen; `core/audit/anchor.go:10` says so, and the anchors see it | `MCAnchor` |
| `OneEffectPerHost` | `core/actuate/interceptor.go:923`: "one actuation in flight per target across every actuation-capable process" | the limiter lower-cases the target and the claim only trims it: two spellings hold two claims | `MCAdmission`, `Target = {h1, h1upper}` |
| `DeviationDrops` | `core/policy/graduation.go:653`: a demotion whose save fails "is still applied in-memory" | until the next `Record`, which reads the autonomous row again | `MCGrad`, `Embedded = TRUE`, `PromoteThreshold = 1` |
| `SameLevelAllowed` | migration 0067, line 31: a same-level rewrite is "always allowed" | the upsert fires the INSERT trigger, which has no old level; the test of the trigger uses a plain UPDATE | `MCGrad`, `Embedded = TRUE`, `Legacy = TRUE` |
| `StalenessEnds` | `graduation.go:563`: the cache has "a bounded staleness" | for an embedded class nothing ends it but the process's own next `Record` | `MCGrad`, `Embedded = TRUE` |

The following were met while modelling the session and the window.  They are
read from the source; no run states them, because the model abstracts the part
they are about or because they follow from one line.

* `core/db/commit_confirm.go:23` calls an aborted window one whose "forward
  effect provably did not execute".  A leaf that errs or exits non-zero reports
  `Executed = false` (`core/actuate/interceptor.go:1119`), and the target may
  have been changed in part.  `AbortedNotCompleted` says what does hold.
* `temporal/runner/commit_confirm.go:644` says that a consult which finds
  nothing at the deadline aborts the window; the code holds it.
* A forward deviation opens the mutation breaker, and gate 4e then refuses the
  inverse: a revert of a recorded deviation ends as `revert_failed` until an
  operator re-arms (`DeviationAnswered` counts it as an answer).
* When the resolve activity has used its attempts after the row moved, the
  child ends with an error, and the page and the trip of a failed revert do not
  happen.
* `temporal/runner/terminal.go:7`: a session that dies "now still leaves a
  durable terminal record saying it died and WHY".  A poll session wrote its row
  as proposed before the vote, and the first row stays: its later death is not
  on it, nor is the execution that preceded the death.
* `temporal/runner/activities.go:2940`: a failed record of a vote fails the
  activity "(and the workflow retries)"; it has one attempt, and the session
  ends.  `rollback_workflow.go:268` ignores the error of the same activity.
* `temporal/runner/workflow.go:1185`: a late vote is "never a
  202-accepted-yet-unrecorded receipt"; one that arrives after the drain and
  before the session ends is.
* `temporal/runner/workflow.go:1293`: "A mutation is NEVER automatically
  retried".  A plan executes its steps under the base policy, four attempts.
  `transaction_plan_workflow.go:225` says "all-or-nothing held" also when the
  step that failed erred after its effect; that step is not compensated.
  `PlanAccounts` allows for exactly this step.
* `core/escalation`: the attempts of a re-check are always zero, so the cap and
  its page to the fallback approver are never reached; the worker's condition
  checker answers that every incident is active.
* `core/reconcile/reconciler.go:85` says "otherwise Done as human_resolved"; a
  poll's ticket goes to To Verify (line 134).

### Fairness

* `ModeControl`: the resync ticker runs, a kill or a transition that holds the
  lock runs to its end, boot ends.  The code starts the ticker at boot and
  never stops it.  Nobody must kill, transition, crash or restart.
* `JudgeDeadMan`: each monitor keeps ticking, because it is a schedule.
* `ModelBreaker`: calls keep coming and time passes.  The model need not
  recover: `Recovers` assumes it does.
* `LedgerAnchor`: the verify loop runs.  The recorder need not.
* `TargetAdmission`: a started actuation goes on, by its
  own steps or by its deadline, and time passes.  Nothing must start.
* `Graduation` (`grad`): a `Record` in progress ends, and
  the overlay refresh loop runs.  Nobody must feed, demote or read.
* `CommitConfirm`: the session, the activity, the resolve attempts and the child
  go on, because Temporal dispatches a task until it is done or has used its
  attempts; the window timer fires, deadlines pass, and the sweep runs every
  five minutes.  No signal must arrive, no operator must re-arm.
* `RunnerSession`: the session goes on, the vote and the budget timers fire, and
  the cron of the lane makes its passes.  Nobody must vote; the recovery recheck
  need not fire.

All of them are weak fairness.

## 4. Proofs

Thirty-seven theorems, in eight modules, hold for every value of the constants that
satisfies the named assumptions.

* `ModeControlProofs` (`ModeAssumption`).  `TypeCorrect`; `KillStays`:
  `SafetySpec => []KillHolds`.  `KillHolds` alone is not inductive: whether a
  later `Resync` resurrects the old mode depends on reads and persists in
  flight.  `KillInv` adds that stamps lie in the past, that without the latch
  the row is clear of the kill (`LatchGuards`), that a finished persist which
  nothing overtook left a clear row (`SavedClears`), and that a read still to
  be applied is clear or the latch is set (`ReadClears`).  "Overtaken" is what
  the generation counter tells, and the proof uses nothing else of it.
  `Audited`: `SafetySpec => []AuditedBeforeEffect`.  `AuditInv` follows a mode
  from the decision to the cache: the row (`RowAudited`), a transition or a seed
  on its way to it (`OpAudited`), a read on its way back (`ReadAudited`) and what
  a process serves (`ServedAudited`) are each Shadow or audited.
* `MutationBreakerProofs` (`BreakerAssumption`, `MutationAssumption`).
  `TypeCorrect`; `OnlyRearm`, for a threshold of one: with that threshold every
  record a trip saves is open, so no stale save can close the row.  The
  hypothesis is needed: at two TLC finds a violation (section 3).  `Halts`, for
  the same threshold: `Spec => []DeviationHalts`.  `TripStands` is what it adds:
  from its record to its re-read a trip has an open row before it, or a re-arm
  has overtaken it.
* `JudgeDeadManProofs` (`BreakerAssumption`, `JudgeAssumption`).
  `TypeCorrect`; `PagesOnce`: `Spec => []OnePagePerOpening`, which is inductive
  over the types.  Only the compare-and-open that found the row not open makes
  its monitor a pager, and it counts an opening in the same step.
* `GovLedgerProofs` (`LedgerAssumption`; none on the hash).  `TypeCorrect`,
  `ChainAlwaysVerifies`, `AckedAlwaysStays`, and `ImplementsAppendLog`:
  `Spec => IsAppendLog`.  The invariant adds that every cached tail is a row
  of the table or the empty head (`TailIsRow`) and that the table has no gap
  (`Contiguous`); hence a row built on a cached tail either has a taken number
  or is the next row of the chain.  The refinement maps the table to the
  sequence of its decisions.  `ContentionAlwaysServed`
  (`Spec => ContentionServed`, an action property) counts per append: the table
  never shrinks after it began, every head it re-reads is past the one before,
  and at its n-th retry that head is at least n - 1 rows past the table it began
  with (`ContentionInv`).  One that gives up has collided once more, with a row
  past its last head, so MaxRetries rows are younger than the append.  It is not
  one more, and TLC refutes that bound: the first collision can be with a row
  that was there before, since the cached tail may be old.

  `VerdictAlwaysTrue` (`AnchorSpec => []VerdictIsTrue`) and `PassAlwaysReports`
  (`AnchorSpec => PassReports`) are about `LedgerAnchor`.  Beside
  `AnchorAssumption` their hypothesis is
  `CollisionFree`: equal hashes at a seq have equal decisions and predecessors.
  Without it an anchor commits to nothing; it is stated in the theorems and not
  of the constant, so that the other results do not rest on it.  An anchor that
  a verified chain does not contradict fixes every row below it: were the two
  tables to differ, a greatest row at which they differ would have a successor
  on which they agree, and that successor's hash fixes the row.  The greatest
  element replaces an induction along the chain.  `PassReports` (a pass that read
  the anchor of a table, and a chain without its rows, alarms) is the safety
  half of `LossIsReported`; that a pass comes is the other half.  No run lists
  it; TLC finds it true as a further property of `MCAnchor`.
* `TargetAdmissionProofs` (`LimitsAssumption`, and `TimelyAssumption`: the
  activity's deadline plus the cooldown fit in the claim's TTL; in the code
  2 + 2 and 10 minutes; and the deadline is shorter than the limiter's window).
  `TypeCorrect`, `Exclusive` and `Parks`.  The invariant says that a
  holder owns its row with a claim no older than its hold (`HolderOwnsRow`),
  that a disturbed target is cooling down or still under the claim under which
  it was disturbed (`Parked`), and that an undisturbed holder has a quiet
  target (`Undisturbed`).  `Parks` covers a release that was lost: the claim
  itself then outlasts the cooldown.  `LeasesCounted`: each counter is the
  number of leases of live actuations (`LeaseInv`), by cardinality over the
  finite set of slots.  `WindowCapped`: the limiter counts admissions and
  `WindowCap` counts effects, which come later.  `BudgetInv` keeps an account:
  every counted effect is charged to an admission of its own that the limiter
  still counts, and an actuation on its way has one not yet used.  An effect is
  charged to an admission at most `MaxHold` older, hence `Window - MaxHold`.
* `GraduationProofs` (`LadderAssumption`, `GraduationAssumption`).
  `TypeCorrect`, `Served`, `Earned` and `ImplementsSerial`: `Spec =>
  IsSerialLadder`.  The invariant says that a `Record` whose version is the
  row's version read the row as it is (`Current`), that the streak in the row
  is covered by as many distinct credited incidents (`Streak`), and that a
  clean run in flight carries an incident claimed by nobody else and not yet
  counted (`InFlight`).

* `CommitConfirmProofs` (`BoundsAssumption`).  `TypeCorrect`, `Guarded`,
  `NeverAbortsCompleted`, `Recorded`, `Credited` and `FiredOnce`.  The invariant
  says where the session can be before it dispatches and what stands by then
  (`Placed`), that an abort on its way, as a signal, as a resolution or on the
  row, belongs to an action that did not complete and cannot start any more
  (`AbortRests`), that a resolution is written just while its activity runs
  (`Writing`), what the ladder can have been told (`Credits`), and that a child
  which may still fire, or which the sweep may start, has the inverses before
  it covered by losses (`Spent`).
* `RunnerSessionProofs` (`SessionAssumption`).  `Authorization`, `AnswerStands`,
  `RecordLeft`, `PlanAccounted`, `DoneConfirmed` and `PagesOnce`, each with its own
  invariant: until the poll is decided every vote that could decide it is still
  in the channel (`Polled`); the entry on the ledger precedes every state from
  which the session acts (`Entitled`); what the row, the follow-up update and
  the approvals list hold on the way to the end (`Written`): the row of a poll is
  taken as written before the vote, so a plan finds it there and can mark only a
  row whose first write failed, and a mark means an execution unless that is so; the steps that the
  plan knows of are the ones before the current one (`Planned`); the count of
  quiet readings is the quiet end of the loop, and the provider's recovery is in
  it once (`Cleared`); no page was sent for a row that is pending or that the
  pass has marked and not yet paged (`LaneInv`).  `TypeCorrect` covers the
  session with its plan and its lane.

Each step lemma has one case per action, and each invariant was first checked
by TLC.

Every invariant and every action property that a passing run checks is stated by
one of these theorems.  Only model-checked: liveness (`CacheConverges`,
`KillReachesStore`, `DeathHalts`, `LifeRearms`, `Recovers`, `OutageOpens`,
`LossIsReported`, `NeverWedged`, `StalenessEnds`, `WindowResolves`,
`DeviationAnswered`, `SessionEnds`, `UnansweredEscalates`), which needs fairness
and ENABLED and is out of the prover's reach.  `ModelBreaker` promises liveness
only, and nothing is proved about it.

## 5. Plan

1. `Rollback` (its vote wait and sealed inverse), `Regime`, `Suppression`,
   `Cost`, `SkillStore`.
2. The window and the session in one module with the mode, the breaker and the
   ladder as already modelled, instead of the reduced forms of `CommitConfirm`.
3. Pure operators with reference definitions: verdict, risk, prediction,
   policy band.
4. The second witness of the ledger (Temporal history).
5. Proofs: the safety half of the liveness properties, as `PassReports` is of
   `LossIsReported` (what a resync, a sweep or a cron pass does when it comes).

## 6. Running

    tlc -workers 2 -config MCModePlanes.cfg MCModeControl
    tlapm GovLedgerProofs.tla

Each run of `PROJECT.json` names its module and its configuration.  The longest,
`mode_planes`, takes about two minutes with two workers.
