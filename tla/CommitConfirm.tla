---------------------------- MODULE CommitConfirm ----------------------------
(***************************************************************************)
(* The armed revert of one (action, incident) pair (spec/029).  Before a   *)
(* commit-confirmed action executes, the Runner session writes an armed    *)
(* row and starts a child workflow that holds a timer.  The session tells  *)
(* the child how the execution went by two best-effort signals, abort and  *)
(* confirm-input.  The child reads the durable execution record, resolves  *)
(* the row, and on a deviation runs the inverse action.  A sweep in the    *)
(* worker restarts the child of a row that is armed long after its         *)
(* deadline.                                                               *)
(*                                                                         *)
(* The actors are the session (pc), the execute activity on the actuation  *)
(* queue (exec), the child (child) and the sweep.  The activity has one    *)
(* attempt, two minutes once started, and no bound on the time it waits in *)
(* the queue: it may run before or after the window elapses, and after the *)
(* session has given it up.  Stores, ledger, signals and workers fail at   *)
(* most MaxFaults times.                                                   *)
(***************************************************************************)
EXTENDS Naturals

CONSTANTS
    HoldRechecks,       \* commitConfirmHoldRechecks, 6 in the code
    ResolveAttempts,    \* MaximumAttempts of the resolve activity, 5
    MaxFaults           \* bound: failures of stores, signals and workers

ASSUME BoundsAssumption ==
    /\ HoldRechecks \in Nat /\ ResolveAttempts \in Nat \ {0}
    /\ MaxFaults \in Nat

VARIABLES
    class,      \* how the op-class is declared: confirmed, plain or mandated
    pc,         \* the session
    exec,       \* the execute activity of the forward action
    effect,     \* history: what the forward action did to the target
    record,     \* action_execution: the verdict of this run
    row,        \* commit_confirm.state
    overdue,    \* deadline_at is two minutes past
    child,      \* CommitConfirmWorkflow
    adopted,    \* the running child was started by the sweep
    signals,    \* sent to the child and not yet received
    want,       \* per actor: the state its resolve activity writes
    tries,      \* per actor: attempts its resolve activity has left
    left,       \* rechecks left in the hold
    halted,     \* the mutation breaker is open
    ledger,     \* entries of the arm and of the resolutions on the ledger
    gaveUp,     \* history: states whose resolve activity used its attempts
    fed,        \* what the graduation ladder was told of this incident
    fires,      \* history: inverse effects on the target
    lost,       \* history: children that ended with their inverse not written
                \* down, or before the session started its own
    faults      \* failures so far

session == <<class, pc>>
forward == <<exec, effect, record>>
window == <<child, adopted, signals, left>>
resolver == <<row, want, tries, ledger, gaveUp, fed>>
outcome == <<halted, fires, lost>>
vars == <<session, forward, window, resolver, outcome, overdue, faults>>

Actor == {"session", "child"}
Verdict == {"match", "deviation", "unverifiable"}
Open == {"armed", "held"}
Resolved == {"aborted", "confirmed", "held", "reverted", "revert_failed"}
Live == {"window", "resolving", "watch", "seal", "fire", "trip"}

Init ==
    /\ class \in {"confirmed", "plain", "mandated"}
    /\ pc = "arm" /\ exec = "idle" /\ effect = "none" /\ record = "none"
    /\ row = "none" /\ overdue = FALSE
    /\ child = "none" /\ adopted = FALSE /\ signals = {} /\ left = 0
    /\ want = [a \in Actor |-> "none"] /\ tries = [a \in Actor |-> 0]
    /\ halted = FALSE /\ ledger = {} /\ gaveUp = {} /\ fed = {}
    /\ fires = 0 /\ lost = 0 /\ faults = 0

Fault == faults < MaxFaults /\ faults' = faults + 1
NoFault == UNCHANGED faults

-----------------------------------------------------------------------------
\* The session arms the window.

\* ArmCommitConfirmActivity: a class with no declaration executes without a
\* window, or not at all while it is staged; a declared one is armed, unless
\* the target already is as desired or the store fails.  A row whose ledger
\* entry cannot be written refuses the forward action and stays armed.
ArmCommitConfirmActivity ==
    /\ pc = "arm"
    /\ \/ class = "plain" /\ pc' = "execute" /\ NoFault
          /\ UNCHANGED <<row, ledger>>
       \/ class = "mandated" /\ pc' = "refused" /\ NoFault
          /\ UNCHANGED <<row, ledger>>
       \/ /\ class = "confirmed"
          /\ \/ row' = "armed" /\ ledger' = {"armed"} /\ pc' = "start" /\ NoFault
             \/ pc' = "refused" /\ NoFault /\ UNCHANGED <<row, ledger>>
             \/ pc' = "refused" /\ Fault /\ row' \in {"none", "armed"}
                /\ UNCHANGED ledger
    /\ UNCHANGED <<class, forward, window, want, tries, gaveUp, fed, outcome, overdue>>

\* An actor schedules ResolveCommitConfirmActivity.
Schedules(a, state) ==
    /\ want' = [want EXCEPT ![a] = state]
    /\ tries' = [tries EXCEPT ![a] = ResolveAttempts]

\* Mutant: the session does not wait for the child to have started.
StartChild_Blind ==
    /\ pc = "start"
    /\ pc' = "execute"
    /\ \/ child \notin Live /\ child' = "window" /\ adopted' = FALSE
          /\ signals' = {} /\ NoFault
       \/ Fault /\ UNCHANGED <<child, adopted, signals>>
    /\ UNCHANGED <<class, left, forward, resolver, outcome, overdue>>

\* The session starts the child and waits until it has started.  One that is
\* running already has the identifier; the session then stands the row down.
StartChild ==
    /\ pc = "start"
    /\ \/ /\ child \notin Live /\ child' = "window" /\ adopted' = FALSE
          /\ signals' = {} /\ pc' = "execute" /\ NoFault
          /\ lost' = IF child = "none" THEN lost ELSE lost + 1
          /\ UNCHANGED <<want, tries>>
       \/ /\ \/ child \in Live /\ NoFault
             \/ Fault
          /\ pc' = "standdown" /\ Schedules("session", "aborted")
          /\ UNCHANGED <<child, adopted, signals, lost>>
    /\ UNCHANGED <<class, left, forward, row, ledger, gaveUp, fed, halted, fires,
                   overdue>>

-----------------------------------------------------------------------------
\* The forward action.

\* The session schedules ExecuteActivity on the actuation queue.
Dispatch ==
    /\ pc = "execute"
    /\ pc' = "await" /\ exec' = "queued"
    /\ UNCHANGED <<class, effect, record, window, resolver, outcome, overdue, faults>>

\* A gate refuses, or the leaf finds nothing to change: Executed is false.
ForwardRefused ==
    /\ exec = "queued"
    /\ exec' = "refused"
    /\ UNCHANGED <<effect, record, session, window, resolver, outcome, overdue, faults>>

\* The leaf fails or exits non-zero: the effect fired and did not complete,
\* and Executed is false too.
LeafFails ==
    /\ exec = "queued" /\ ~halted
    /\ exec' = "refused" /\ effect' \in {"none", "unknown"}
    /\ UNCHANGED <<record, session, window, resolver, outcome, overdue, faults>>

\* The effect completes.
ForwardExecutes ==
    /\ exec = "queued" /\ ~halted
    /\ exec' = "executed" /\ effect' = "applied"
    /\ UNCHANGED <<record, session, window, resolver, outcome, overdue, faults>>

\* The verifier's verdict and the execution record; the record is lost with a
\* failing store, and a failing verdict store ends the chain before it.  A
\* deviation opens the mutation breaker either way.
ForwardVerified ==
    /\ exec = "executed"
    /\ exec' = "reported"
    /\ \E v \in Verdict :
        /\ (record' = v /\ NoFault) \/ (record' = "none" /\ Fault)
        /\ halted' = (halted \/ v = "deviation")
    /\ UNCHANGED <<effect, session, window, resolver, fires, lost, overdue>>

\* The worker of the activity dies.
WorkerDies ==
    /\ exec \in {"queued", "executed"} /\ Fault
    /\ exec' = "died"
    /\ UNCHANGED <<effect, record, session, window, resolver, outcome, overdue>>

\* Mutant: an activity that failed counts as one that did not execute.
ExecuteError_Aborts ==
    /\ pc = "await"
    /\ pc' = "abort"
    /\ \/ exec = "died" /\ NoFault
       \/ exec \in {"queued", "executed"} /\ Fault
    /\ UNCHANGED <<class, forward, window, resolver, outcome, overdue>>

\* The activity fails or exceeds its time, and may still be running: the
\* session fails and leaves the window armed.
ExecuteError ==
    /\ pc = "await"
    /\ pc' = "failed"
    /\ \/ exec = "died" /\ NoFault
       \/ exec \in {"queued", "executed"} /\ Fault
    /\ UNCHANGED <<class, forward, window, resolver, outcome, overdue>>

\* The activity answers; a session with no window is done with it.
ExecuteReturns ==
    /\ pc = "await" /\ exec \in {"refused", "reported"}
    /\ pc' = IF class # "confirmed" THEN "done"
             ELSE IF exec = "refused" THEN "abort" ELSE "verify"
    /\ UNCHANGED <<class, forward, window, resolver, outcome, overdue, faults>>

\* VerifyActivity; its error fails the session before the nudge.
VerifyActivity ==
    /\ pc = "verify"
    /\ \/ pc' = "nudge" /\ NoFault
       \/ pc' = "failed" /\ Fault
    /\ UNCHANGED <<class, forward, window, resolver, outcome, overdue>>

\* A signal to the child the session started; one to a closed or adopted
\* child, or during an outage, is lost and only logged.
SignalChild(from, kind) ==
    /\ pc = from /\ pc' = "done"
    /\ \/ child \in Live /\ ~adopted /\ signals' = signals \union {kind} /\ NoFault
       \/ (child \notin Live \/ adopted) /\ UNCHANGED signals /\ NoFault
       \/ UNCHANGED signals /\ Fault
    /\ UNCHANGED <<class, forward, child, adopted, left, resolver, outcome, overdue>>

SignalAbort == SignalChild("abort", "abort")
SignalNudge == SignalChild("nudge", "confirm-input")

-----------------------------------------------------------------------------
\* The resolve activity, which both actors use.

\* Mutant: a row found resolved ends the activity, also on its own retry.
Tail_Quiet(a) == row \in Open

\* Mutant: the tail runs whichever state has won.
Tail_Always(a) == TRUE

\* The tail runs when this resolution stands: it is written now, or was by an
\* attempt before.  For another resolution the activity is done.
Tail(a) == row \in Open \/ row = want[a]

\* What the ladder is told: only a confirmed window is a clean run.
Feed(state) == IF state = "confirmed" THEN {"clean"}
               ELSE IF state \in {"reverted", "revert_failed"} THEN {"unclean"}
               ELSE {}

\* The actor goes on when its resolve activity has succeeded.
GoesOn(a) ==
    /\ want' = [want EXCEPT ![a] = "none"]
    /\ \/ /\ a = "session" /\ pc' = "refused" /\ UNCHANGED <<child, left>>
       \/ /\ a = "child" /\ UNCHANGED pc
          /\ \/ want[a] = "held" /\ child' = "watch" /\ left' = HoldRechecks
             \/ want[a] = "revert_failed" /\ child' = "trip" /\ UNCHANGED left
             \/ want[a] \in {"aborted", "confirmed", "reverted"}
                /\ child' = "closed" /\ UNCHANGED left

\* One attempt: the conditional update, the ledger entry, then the feed,
\* which is best effort.  A failure of the store or of the ledger, after the
\* update or not, leaves the activity to its next attempt.
ResolveCommitConfirmActivity(a) ==
    /\ want[a] # "none" /\ tries[a] > 0
    /\ \/ /\ row' = IF row \in Open THEN want[a] ELSE row
          /\ ledger' = IF Tail(a) THEN ledger \union {want[a]} ELSE ledger
          /\ \/ /\ fed' = IF Tail(a) THEN fed \union Feed(want[a]) ELSE fed
                /\ NoFault
             \/ UNCHANGED fed /\ Fault
          /\ GoesOn(a) /\ UNCHANGED tries
       \/ /\ Fault /\ row' \in {row, IF row \in Open THEN want[a] ELSE row}
          /\ tries' = [tries EXCEPT ![a] = @ - 1]
          /\ UNCHANGED <<ledger, fed, want, pc, child, left>>
    /\ UNCHANGED <<class, forward, adopted, signals, gaveUp, outcome, overdue>>

\* The attempts are used up: the child fails; the session refuses all the same.
ResolveGivesUp(a) ==
    /\ want[a] # "none" /\ tries[a] = 0
    /\ gaveUp' = gaveUp \union {want[a]}
    /\ want' = [want EXCEPT ![a] = "none"]
    /\ \/ a = "session" /\ pc' = "refused" /\ UNCHANGED <<child, lost>>
       \/ a = "child" /\ child' = "failed" /\ UNCHANGED pc
          /\ lost' = IF Feed(want[a]) = {"unclean"} THEN lost + 1 ELSE lost
    /\ UNCHANGED <<class, forward, adopted, signals, left, row, tries, ledger, fed,
                   halted, fires, overdue, faults>>

-----------------------------------------------------------------------------
\* The child.

Resolves(state) == child' = "resolving" /\ Schedules("child", state)

\* The abort signal: the session says that the action did not execute.
ReceiveAbort ==
    /\ child = "window" /\ "abort" \in signals
    /\ signals' = signals \ {"abort"}
    /\ Resolves("aborted")
    /\ UNCHANGED <<session, forward, adopted, left, row, ledger, gaveUp, fed,
                   outcome, overdue, faults>>

\* Mutant: the fresh read may confirm a run with any verdict.
Readings_Unscoped ==
    [none |-> {"pending"}, match |-> {"confirmed"},
     deviation |-> {"deviation", "confirmed"},
     unverifiable |-> {"unverifiable", "confirmed"}][record]

\* ConsultCommitConfirmActivity: what the execution record says.  A run that
\* could not be verified may be confirmed by a fresh read of the guest, or by
\* a recovery the provider has reported.
Readings ==
    [none |-> {"pending"}, match |-> {"confirmed"}, deviation |-> {"deviation"},
     unverifiable |-> {"unverifiable", "confirmed"}][record]

\* commitConfirmConsultAndAct: confirm, fire the inverse, or hold; a reading
\* that decides nothing leaves the window armed until its deadline.
Decides(d, atElapse) ==
    \/ d = "confirmed" /\ Resolves("confirmed")
    \/ d = "deviation" /\ child' = "seal" /\ UNCHANGED <<want, tries>>
    \/ d \in {"pending", "unverifiable"} /\ atElapse /\ Resolves("held")
    \/ d \in {"pending", "unverifiable"} /\ ~atElapse /\ UNCHANGED <<child, want, tries>>

\* The nudge.  A consult that fails leaves the window armed.
ReceiveNudge ==
    /\ child = "window" /\ "confirm-input" \in signals
    /\ signals' = signals \ {"confirm-input"}
    /\ \/ \E d \in Readings : Decides(d, FALSE) /\ NoFault
       \/ UNCHANGED <<child, want, tries>> /\ Fault
    /\ UNCHANGED <<session, forward, adopted, left, row, ledger, gaveUp, fed,
                   outcome, overdue>>

\* The timer.  A consult that fails now fails the child.
TimerElapses ==
    /\ child = "window"
    /\ \/ \E d \in Readings : Decides(d, TRUE) /\ NoFault
       \/ child' = "failed" /\ UNCHANGED <<want, tries>> /\ Fault
    /\ UNCHANGED <<session, forward, adopted, signals, left, row, ledger, gaveUp,
                   fed, outcome, overdue>>

\* commitConfirmHold: a recheck that finds the target alerting fires the
\* inverse; a quiet target, and a consult that fails, wait for the next one.
HoldRecheck ==
    /\ child = "watch"
    /\ \/ left > 0 /\ left' = left - 1 /\ child' \in {"watch", "seal"}
       \/ left = 0 /\ child' = "closed" /\ UNCHANGED left
    /\ UNCHANGED <<session, forward, adopted, signals, resolver, outcome, overdue,
                   faults>>

\* SealCommitConfirmInverseActivity: sealed, or refused or failed.
SealInverse ==
    /\ child = "seal"
    /\ \/ child' = "fire" /\ UNCHANGED <<want, tries>>
       \/ Resolves("revert_failed")
    /\ UNCHANGED <<session, forward, adopted, signals, left, row, ledger, gaveUp,
                   fed, outcome, overdue, faults>>

\* Mutant: an inverse that failed is tried again.
FireInverse_Retried ==
    /\ child = "fire"
    /\ \/ Resolves("revert_failed") /\ UNCHANGED <<fires, halted>>
       \/ ~halted /\ fires < 3 /\ fires' = fires + 1
          /\ \/ Resolves("reverted") /\ UNCHANGED halted
             \/ UNCHANGED <<child, want, tries, halted>>
    /\ UNCHANGED <<session, forward, adopted, signals, left, row, ledger, gaveUp,
                   fed, lost, overdue, faults>>

\* commitConfirmFireInverse, one attempt: a gate refuses it, as every gate
\* does while the mutation breaker is open; it runs and is verified; or it runs
\* with another verdict, of which a deviation opens the breaker; or it fails
\* and may have run.
FireInverse ==
    /\ child = "fire"
    /\ \/ Resolves("revert_failed") /\ UNCHANGED <<fires, halted>>
       \/ ~halted /\ fires' = fires + 1
          /\ \/ Resolves("reverted") /\ UNCHANGED halted
             \/ Resolves("revert_failed") /\ halted' \in BOOLEAN
    /\ UNCHANGED <<session, forward, adopted, signals, left, row, ledger, gaveUp,
                   fed, lost, overdue, faults>>

\* TripMutationBreakerActivity, after a failed revert; its failure is logged.
TripBreaker ==
    /\ child = "trip" /\ child' = "closed"
    /\ \/ halted' = TRUE /\ NoFault
       \/ UNCHANGED halted /\ Fault
    /\ UNCHANGED <<session, forward, adopted, signals, left, resolver, fires, lost,
                   overdue>>

-----------------------------------------------------------------------------
\* The sweep, the clock and the operator.

Overdue ==
    /\ row = "armed" /\ ~overdue /\ overdue' = TRUE
    /\ UNCHANGED <<session, forward, window, resolver, outcome, faults>>

\* Mutant: the sweep looks for held rows.
Orphaned_Held == row = "held" /\ overdue

\* OverdueArmed.
Orphaned == row = "armed" /\ overdue

\* The sweep starts the child again, which fails while one is running.
Sweep ==
    /\ Orphaned /\ child \notin Live
    /\ child' = "window" /\ adopted' = TRUE /\ signals' = {}
    /\ UNCHANGED <<session, forward, left, resolver, outcome, overdue, faults>>

OperatorRearms ==
    /\ halted /\ halted' = FALSE
    /\ UNCHANGED <<session, forward, window, resolver, fires, lost, overdue, faults>>

SessionStep == ArmCommitConfirmActivity \/ StartChild \/ Dispatch \/ ExecuteReturns
               \/ VerifyActivity \/ SignalAbort \/ SignalNudge
Activity == ForwardRefused \/ LeafFails \/ ForwardExecutes \/ ForwardVerified
ResolveStep(a) == ResolveCommitConfirmActivity(a) \/ ResolveGivesUp(a)
ChildStep == ReceiveAbort \/ ReceiveNudge \/ HoldRecheck \/ SealInverse
             \/ FireInverse \/ TripBreaker

Next ==
    \/ SessionStep \/ ExecuteError
    \/ Activity \/ WorkerDies
    \/ \E a \in Actor : ResolveStep(a)
    \/ ChildStep \/ TimerElapses
    \/ Overdue \/ Sweep \/ OperatorRearms

Spec == Init /\ [][Next]_vars

\* Workflows and activities are retried by Temporal until they answer, timers
\* fire, and the sweep runs every five minutes.
FairSpec ==
    /\ Spec
    /\ WF_vars(SessionStep) /\ WF_vars(Activity)
    /\ \A a \in Actor : WF_vars(ResolveStep(a))
    /\ WF_vars(ChildStep) /\ WF_vars(TimerElapses)
    /\ WF_vars(Overdue) /\ WF_vars(Sweep)

-----------------------------------------------------------------------------
TypeOK ==
    /\ class \in {"confirmed", "plain", "mandated"}
    /\ pc \in {"arm", "start", "standdown", "execute", "await", "abort",
               "verify", "nudge", "done", "refused", "failed"}
    /\ exec \in {"idle", "queued", "refused", "executed", "reported", "died"}
    /\ effect \in {"none", "unknown", "applied"}
    /\ record \in Verdict \union {"none"}
    /\ row \in Resolved \union {"none", "armed"}
    /\ overdue \in BOOLEAN
    /\ child \in Live \union {"none", "closed", "failed"}
    /\ adopted \in BOOLEAN
    /\ signals \subseteq {"abort", "confirm-input"}
    /\ want \in [Actor -> Resolved \union {"none"}]
    /\ tries \in [Actor -> 0 .. ResolveAttempts]
    /\ left \in 0 .. HoldRechecks
    /\ halted \in BOOLEAN
    /\ ledger \subseteq Resolved \union {"armed"}
    /\ gaveUp \subseteq Resolved
    /\ fed \subseteq {"clean", "unclean"}
    /\ fires \in Nat /\ lost \in Nat /\ faults \in 0 .. MaxFaults

\* No effect without its guard (workflow.go, REQ-2901 and REQ-2905): when the
\* target may have been changed by a commit-confirmed action, the window was
\* on the row and on the ledger and its child had been started; a staged class
\* with no declaration changes nothing.
EffectIsGuarded ==
    effect # "none" =>
        /\ class # "mandated"
        /\ class = "confirmed" => "armed" \in ledger /\ row # "none" /\ child # "none"

\* A window is stood down only over an action that did not complete: whatever
\* the order of the timeout, the late answer, the abort signal and the sweep,
\* the row of an action whose effect completed is not aborted.
AbortedNotCompleted == row = "aborted" => effect # "applied"

\* Every resolution is on the ledger (REQ-2906), whoever wrote it and however
\* often its attempts failed, unless the writer is still at it or has used all
\* its attempts.
ResolutionRecorded ==
    row \in Resolved \ ledger =>
        row \in gaveUp \/ \E a \in Actor : want[a] = row

\* The ladder hears of one outcome of an incident, and of a clean run only
\* when the window is confirmed (REQ-2907), although two children may have
\* resolved it.
OneCredit ==
    /\ "clean" \in fed => row = "confirmed"
    /\ fed # {"clean", "unclean"}

\* The inverse runs once (REQ-2903): a second inverse effect needs a child
\* that failed before it could write down the first, or a session that started
\* its child only after the one of the sweep had ended.
RefireOnlyAfterLoss == fires <= 1 + lost

\* Every armed window is resolved in the end, also when the session never
\* started its child, when the child failed and when every signal was lost.
WindowResolves == (row = "armed") ~> (row # "armed")

\* A recorded deviation is answered: the row ends reverted, as a failed revert,
\* or held for the operator, never confirmed or stood down.
DeviationAnswered ==
    (record = "deviation" /\ class = "confirmed") ~> [](row \in {"reverted", "revert_failed", "held"})
=============================================================================
