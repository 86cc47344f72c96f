---------------------------- MODULE RunnerSession ----------------------------
(***************************************************************************)
(* RunnerWorkflow: one incident session, from suppression to the close-out *)
(* of its ticket.  The session is a Temporal workflow, so it survives the  *)
(* death of its worker; its activities do not, and an activity that has    *)
(* used its attempts errs.  Some errors end the session, others are        *)
(* ignored.  The operators' votes are signals that arrive at any time, and *)
(* race three timers.                                                      *)
(*                                                                         *)
(* The plan of several steps is the child workflow of TransactionPlan, the *)
(* hand-off of an unanswered poll goes to the queue of Escalation.  The    *)
(* armed window around the execution is the subject of CommitConfirm; here *)
(* it is armed or it refuses.  Activities and stores fail at most          *)
(* MaxFaults times.                                                        *)
(***************************************************************************)
EXTENDS Naturals, Sequences, FiniteSets

CONSTANTS
    MaxMisbound,    \* maxMisbound and maxRefused, 64 in the code
    ClearReadings,  \* clearConfirmReadings, 2 in the code
    ClearRounds,    \* clearMaxWindow / clearRecheckInterval, 10 in the code
    PlanSteps,      \* steps of the plan
    Cap,            \* cap of the re-checks of an incident
    MaxVotes,       \* bound: votes sent in a poll
    MaxFaults       \* bound: failures of activities and stores

ASSUME SessionAssumption ==
    /\ MaxMisbound \in Nat \ {0} /\ ClearReadings \in Nat \ {0}
    /\ ClearRounds \in Nat \ {0} /\ PlanSteps \in Nat \ {0, 1}
    /\ Cap \in Nat \ {0} /\ MaxVotes \in Nat /\ MaxFaults \in Nat

VARIABLES
    pc,         \* where the session is
    band,       \* of the decision: auto, notice, poll; none before
    auto,       \* AutonomousResolution of a poll: none, approve or hold
    offer,      \* what the vote must name: the action or the plan
    configured, \* gate.ApproveByConfigured
    votes,      \* vote signals not yet received
    seen,       \* history: votes that arrived before the poll was decided; kept
                \* after it is closed for an approved one
    strays,     \* misbound and refused votes received
    fired,      \* timers of the poll that have fired
    vote,       \* res.Vote
    voter,      \* the principal of the record, approvedVoter of an approval
    ledger,     \* decisions on the governance ledger
    row,        \* session_triage: the outcome of the row, which is first wins
    rowMutated, \* session_triage.mutated
    said,       \* res.TriageRecorded
    exec,       \* ExecuteResult: the verdict of an execution, or refused
    acted,      \* history: the action or a step of the plan was dispatched
    rounds,     \* readings of the clear loop
    quiet,      \* consecutive quiet readings
    clear,      \* confirmedClear
    collateral, \* collateralObserved
    ticket,     \* state of the tracker's ticket
    pending,    \* pending_decision: the console's row of the poll
    slips,      \* history: best-effort writes that failed, ends without a row
    \* of TransactionPlan
    phase, at, applied, known, remaining,
    \* of Escalation
    queue, batch, marked, pages, dropped, stoodDown,
    faults

Plan == INSTANCE TransactionPlan
Esc == INSTANCE Escalation

plan == <<phase, at, applied, known, remaining>>
lane == <<queue, batch, marked, pages, dropped, stoodDown>>
decided == <<band, auto, offer, configured>>
poll == <<votes, seen, strays, fired>>
answer == <<vote, voter, ledger>>
triage == <<row, rowMutated, said>>
ending == <<rounds, quiet, clear, collateral, ticket>>
vars == <<pc, decided, poll, answer, pending, triage, exec, acted, ending, slips, plan,
          lane, faults>>

\* A vote names the offer or something else, comes from an approver or from
\* someone else, and approves or denies.
Vote == [names : {"action", "plan"}, by : {"approver", "stranger"}, approve : BOOLEAN]

Over == {"ended", "died"}
Executed == exec \in {"match", "deviation", "unverified"}

\* res.Mutated: the action was executed, or a step of the plan.
Mutated == Executed \/ known # {}

Init ==
    /\ pc = "suppress" /\ band = "none" /\ auto = "none" /\ offer = "action"
    /\ configured \in BOOLEAN
    /\ votes = <<>> /\ seen = {} /\ strays = [misbound |-> 0, refused |-> 0]
    /\ fired = {} /\ vote = "none" /\ voter = "none" /\ ledger = {}
    /\ row = "none" /\ rowMutated = FALSE /\ said = FALSE
    /\ exec = "none" /\ acted = FALSE
    /\ rounds = <<>> /\ quiet = 0 /\ clear = FALSE /\ collateral = FALSE
    /\ ticket = "open" /\ pending = "none" /\ slips = {} /\ faults = 0
    /\ Plan!PlanInit /\ Esc!EscInit

Fault == faults < MaxFaults /\ faults' = faults + 1
NoFault == UNCHANGED faults

\* recordTriage: the row is written once, the first outcome stays, and a
\* failure is logged only.  The session takes the row as written either way.
Say(outcome) ==
    /\ said' = TRUE
    /\ \/ /\ row' = IF row = "none" THEN outcome ELSE row
          /\ rowMutated' = IF row = "none" THEN Mutated ELSE rowMutated
          /\ NoFault /\ UNCHANGED slips
       \/ /\ Fault /\ slips' = slips \union {"triage"}
          /\ UNCHANGED <<row, rowMutated>>
Silent == UNCHANGED <<triage, slips>>

\* An activity error that ends the session.
Dies == pc' = "dying" /\ Fault

-----------------------------------------------------------------------------
\* From the alert to the decision.

early == <<poll, answer, pending, exec, acted, ending, plan, lane>>

\* SuppressActivity.  A suppressed alert ends without a row.
Suppress ==
    /\ pc = "suppress"
    /\ \/ pc' \in {"correlate", "ended"} /\ NoFault
       \/ Dies
    /\ slips' = IF pc' = "ended" THEN slips \union {"suppressed"} ELSE slips
    /\ UNCHANGED <<decided, triage, early>>

\* CorrelateActivity.  Its failure is tolerated; a member of a cluster whose
\* subject is another incident ends as collapsed.
Correlate ==
    /\ pc = "correlate"
    /\ \/ pc' = "investigate" /\ (NoFault \/ Fault) /\ Silent
       \/ pc' = "ended" /\ Say("collapsed")
    /\ UNCHANGED <<decided, early>>

\* The deterministic heal, or else the agent loop: a proposal, a conclusion
\* without one, or an error, which is recorded before it ends the session.
Investigate ==
    /\ pc = "investigate"
    /\ \/ pc' = "attribute" /\ NoFault /\ Silent
       \/ pc' = "ended" /\ Say("no-proposal")
       \/ pc' = "crash" /\ Fault /\ Silent
    /\ UNCHANGED <<decided, early>>

RecordCrash ==
    /\ pc = "crash" /\ pc' = "dying" /\ Say("failed:investigate")
    /\ UNCHANGED <<decided, early>>

\* AttributeActivity.  What this program has already remediated is closed out;
\* an op-class that is not registered is proposed in the shadow only.
Attribute ==
    /\ pc = "attribute"
    /\ \/ pc' \in {"classify", "shadow"} /\ NoFault /\ Silent
       \/ pc' = "reconcile" /\ Say("already-remediated")
       \/ Dies /\ Silent
    /\ UNCHANGED <<decided, early>>

\* ShadowProposalActivity, one attempt: the row, whose failure is logged, and
\* the ledger entry, whose failure ends the session.
ShadowProposal ==
    /\ pc = "shadow"
    /\ \/ pc' = "ended" /\ row' = "proposed:shadow" /\ NoFault /\ UNCHANGED slips
       \/ pc' = "ended" /\ Fault /\ slips' = slips \union {"triage"} /\ UNCHANGED row
       \/ Dies /\ row' \in {row, "proposed:shadow"} /\ UNCHANGED slips
    /\ UNCHANGED <<decided, rowMutated, said, early>>

\* ClassifyActivity: the band, and for a poll the resolution of the autonomous
\* approver where it has one.
Classify ==
    /\ pc = "classify"
    /\ \/ /\ pc' = "screen" /\ NoFault
          /\ \/ band' \in {"auto", "notice"} /\ UNCHANGED auto
             \/ band' = "poll" /\ auto' \in {"none", "approve", "hold"}
       \/ Dies /\ UNCHANGED <<band, auto>>
    /\ UNCHANGED <<offer, configured, triage, slips, early>>

\* ScreenKillActivity and GateActivity.  Hostile output ends the session when
\* the kill is armed; a gate that answers for another action ends it without a
\* row.
Gate ==
    /\ pc = "screen"
    /\ \/ /\ pc' = IF band = "poll" THEN "compose" ELSE IF band = "notice" THEN "notify" ELSE "arm"
          /\ NoFault /\ Silent
       \/ band = "poll" /\ pc' = "ended" /\ Say("killed")
       \/ pc' = "ended" /\ slips' = slips \union {"regate"} /\ NoFault
          /\ UNCHANGED triage
       \/ Dies /\ Silent
    /\ UNCHANGED <<decided, early>>

\* ComposePlanActivity, for a poll.  A failure offers the single action.
ComposePlan ==
    /\ pc = "compose" /\ pc' = "notify"
    /\ \/ offer' \in {"action", "plan"} /\ NoFault
       \/ UNCHANGED offer /\ Fault
    /\ UNCHANGED <<band, auto, configured, triage, slips, early>>

\* NotifyActivity.  It is fail-open, a notice that cannot be delivered changes
\* nothing; the session ends when the activity itself errs, lost or timed out.
Notify ==
    /\ pc = "notify"
    /\ \/ pc' = (IF band = "poll" THEN "propose" ELSE "arm") /\ NoFault
       \/ Dies
    /\ UNCHANGED <<decided, triage, slips, early>>

-----------------------------------------------------------------------------
\* The poll.

later == <<exec, acted, ending, plan, lane>>

\* RecordPendingActivity, best effort and not for an autonomous resolution;
\* then the triage row, written as proposed before the vote.
RecordPending ==
    /\ pc = "propose" /\ pc' = "say"
    /\ \/ auto = "none" /\ pending' = "open" /\ NoFault
       \/ auto # "none" /\ UNCHANGED pending /\ NoFault
       \/ auto = "none" /\ UNCHANGED pending /\ Fault
    /\ UNCHANGED <<decided, poll, answer, triage, slips, later>>

\* Mutant: an autonomous resolution waits like a poll does, with no timer.
SayProposed_Waits ==
    /\ pc = "say" /\ Say("proposed") /\ pc' = "wait"
    /\ UNCHANGED <<vote, voter, decided, poll, ledger, pending, later>>

SayProposed ==
    /\ pc = "say" /\ Say("proposed")
    /\ \/ auto = "none" /\ pc' = "wait" /\ UNCHANGED <<vote, voter>>
       \/ auto = "approve" /\ pc' = "record" /\ vote' = "autonomous-approved"
          /\ voter' = "autonomous"
       \/ auto = "hold" /\ pc' = "record" /\ vote' = "autonomous-held"
          /\ voter' = "autonomous"
    /\ UNCHANGED <<decided, poll, ledger, pending, later>>

\* A signal of the API arrives.  One that is sent before the poll is buffered
\* until it begins; one that arrives after the decision is never received or
\* drained unread.  A vote for something else is an approver's approval, the
\* one that would matter most.
VoteArrives(v) ==
    /\ pc \in {"wait", "recheck", "record"} /\ auto = "none"
    /\ Len(votes) + strays.misbound + strays.refused < MaxVotes
    /\ v.names # offer => v.by = "approver" /\ v.approve
    /\ votes' = Append(votes, v)
    /\ seen' = IF vote = "none" THEN seen \union {v} ELSE seen
    /\ UNCHANGED <<pc, decided, strays, fired, answer, pending, triage, slips, later, faults>>

\* The vote timer, the wall-clock budget and the recovery recheck, which an
\* autonomous resolution does not have.
TimerFires(t) ==
    /\ pc \in {"wait", "recheck"} /\ auto = "none" /\ t \notin fired
    /\ fired' = fired \union {t}
    /\ UNCHANGED <<pc, decided, votes, seen, strays, answer, pending, triage, slips,
                   later, faults>>

\* VoterAdmitted.
Admitted(v) == v.by = "approver"

\* Whether a vote decides the poll: it names the offer, and its voter is an
\* approver where the approvers are configured.
Decisive(v) == v.names = offer /\ (Admitted(v) \/ ~configured)

\* A received vote: misbound, refused, or the one that decides.  The record of
\* a voter who is no approver is best effort.  Too many strays end the poll.
TakeVote ==
    /\ pc = "wait" /\ votes # <<>>
    /\ votes' = Tail(votes)
    /\ LET v == Head(votes)
           kind == IF v.names # offer THEN "misbound" ELSE "refused"
       IN  \/ /\ Decisive(v) /\ pc' = "record" /\ voter' = v.by
              /\ vote' = IF v.approve THEN "approved" ELSE "denied"
              /\ UNCHANGED strays
           \/ /\ ~Decisive(v)
              /\ strays' = [strays EXCEPT ![kind] = @ + 1]
              /\ IF strays[kind] + 1 < MaxMisbound
                 THEN UNCHANGED <<pc, vote>>
                 ELSE /\ pc' = "record"
                      /\ vote' = IF kind = "misbound" THEN "abandoned" ELSE "refused"
              /\ UNCHANGED voter
    /\ UNCHANGED <<decided, seen, fired, ledger, pending, triage, slips, later, faults>>

\* Mutant: a timer that has fired is served before the votes.
Idle_TimerFirst == TRUE

\* The selector serves the votes first.
Idle == votes = <<>>

\* The vote timer ends the poll, and so does the budget.
PollExpires ==
    /\ pc = "wait" /\ Idle
    /\ \/ "vote" \in fired /\ vote' = "timeout"
       \/ "vote" \notin fired /\ "budget" \in fired /\ vote' = "budget-exceeded"
    /\ pc' = "record"
    /\ UNCHANGED <<decided, poll, voter, ledger, pending, triage, slips, later, faults>>

StartRecheck ==
    /\ pc = "wait" /\ Idle /\ fired = {"recheck"}
    /\ pc' = "recheck"
    /\ UNCHANGED <<decided, poll, answer, pending, triage, slips, later, faults>>

\* RecoveredSinceActivity: a subject that has recovered makes the poll
\* obsolete, whatever has arrived meanwhile; else the timer is armed again.
Recheck ==
    /\ pc = "recheck"
    /\ \/ pc' = "record" /\ vote' = "obsolete" /\ NoFault /\ UNCHANGED fired
       \/ pc' = "wait" /\ fired' = fired \ {"recheck"} /\ UNCHANGED vote
          /\ (NoFault \/ Fault)
    /\ UNCHANGED <<decided, votes, seen, strays, voter, ledger, pending, triage, slips,
                   later>>

\* Mutant: an error of the record is ignored.
RecordVote_Ignored ==
    /\ pc = "record"
    /\ pc' = "drain"
    /\ \/ ledger' = ledger \union {[decision |-> vote, by |-> voter, on |-> offer]} /\ NoFault
       \/ UNCHANGED ledger /\ Fault
    /\ UNCHANGED <<decided, poll, vote, voter, pending, triage, slips, later>>

\* RecordVoteActivity for the decision, one attempt: its error ends the
\* session, although the entry may have been written.
RecordVote ==
    /\ pc = "record"
    /\ LET entry == [decision |-> vote, by |-> voter, on |-> offer]
       IN  \/ pc' = "drain" /\ ledger' = ledger \union {entry} /\ NoFault
           \/ Dies /\ ledger' \in {ledger, ledger \union {entry}}
    /\ UNCHANGED <<decided, poll, vote, voter, pending, triage, slips, later>>

Approved == vote \in {"approved", "autonomous-approved"}

\* The late votes are drained, and summarised at best effort; the console's
\* row is resolved at best effort.
ResolvePending ==
    /\ pc = "drain"
    /\ votes' = <<>> /\ fired' = {} /\ strays' = [misbound |-> 0, refused |-> 0]
    /\ \/ pending' = (IF pending = "open" THEN "resolved" ELSE pending) /\ NoFault
          /\ UNCHANGED slips
       \/ UNCHANGED pending /\ Fault /\ slips' = slips \union {"pending"}
    /\ pc' = IF ~Approved THEN "standdown" ELSE IF offer = "plan" THEN "plan" ELSE "arm"
    /\ seen' = IF Approved THEN seen ELSE {}
    /\ UNCHANGED <<decided, answer, triage, later>>

\* A poll that was not approved.
StandDown ==
    /\ pc = "standdown" /\ pc' = "reconcile" /\ Say("stood-down")
    /\ UNCHANGED <<decided, poll, answer, pending, later>>

-----------------------------------------------------------------------------
\* The plan, or the action.

front == <<decided, poll, answer, pending>>

RunPlan ==
    /\ pc = "plan" /\ pc' = "planning" /\ acted' = TRUE
    /\ Plan!StartPlan
    /\ UNCHANGED <<front, triage, slips, exec, ending, lane, faults>>

PlanStep ==
    /\ pc = "planning"
    /\ Plan!PlanStep
    /\ UNCHANGED <<pc, front, triage, slips, exec, acted, ending, lane>>

PlanEnds ==
    /\ pc = "planning" /\ Plan!PlanOver
    /\ pc' = "reconcile" /\ Say("plan")
    /\ UNCHANGED <<front, exec, acted, ending, plan, lane>>

\* ArmCommitConfirmActivity and the start of the window's child: armed or not
\* needed, or the action is refused.
Arm ==
    /\ pc = "arm"
    /\ \/ pc' = "execute" /\ NoFault /\ Silent
       \/ pc' = "refuse" /\ NoFault /\ Silent
       \/ pc' = "refuse" /\ Fault /\ Silent
    /\ UNCHANGED <<front, exec, acted, ending, plan, lane>>

RefuseForward ==
    /\ pc = "refuse" /\ pc' = "reconcile" /\ Say("refused")
    /\ UNCHANGED <<front, exec, acted, ending, plan, lane>>

\* ExecuteActivity, one attempt: a verdict, a refusal, a run that was killed,
\* or an error, which ends the session with the action done or not.
Execute ==
    /\ pc = "execute" /\ acted' = TRUE
    /\ \/ pc' = "verify" /\ NoFault /\ exec' \in {"match", "deviation", "unverified", "refused"}
       \/ pc' = "cancelled" /\ NoFault /\ exec' = "refused"
       \/ Dies /\ UNCHANGED exec
    /\ UNCHANGED <<front, triage, slips, ending, plan, lane>>

Cancelled ==
    /\ pc = "cancelled" /\ pc' = "ended" /\ Say("cancelled")
    /\ UNCHANGED <<front, exec, acted, ending, plan, lane>>

\* VerifyActivity; its error ends the session.
Verify ==
    /\ pc = "verify"
    /\ \/ pc' = "outcome" /\ NoFault
       \/ Dies
    /\ UNCHANGED <<front, triage, slips, exec, acted, ending, plan, lane>>

SayOutcome ==
    /\ pc = "outcome" /\ Say("proposed")
    /\ pc' = IF Executed THEN "clear" ELSE "reconcile"
    /\ UNCHANGED <<front, exec, acted, ending, plan, lane>>

-----------------------------------------------------------------------------
\* The end.

\* Mutant: the count of quiet readings survives an alerting one.
Debounced_Sticky(r) == IF r = "alerting" THEN quiet ELSE quiet + 1

\* The debounce of the clear.
Debounced(r) == IF r = "alerting" THEN 0 ELSE quiet + 1

BeltUsed == \E i \in 1 .. Len(rounds) : rounds[i] = "belt"

\* One round of the clear loop: a direct reading, or once in the loop the
\* recovery that the provider has reported.  A read that fails is no clear.
ClearRound ==
    /\ pc = "clear" /\ Len(rounds) < ClearRounds
    /\ \E r \in {"quiet", "alerting"} \union (IF BeltUsed THEN {} ELSE {"belt"}) :
        /\ rounds' = Append(rounds, r)
        /\ quiet' = Debounced(r)
        /\ clear' = (Debounced(r) >= ClearReadings)
        /\ pc' = IF Debounced(r) >= ClearReadings \/ Len(rounds) + 1 = ClearRounds
                 THEN "mark" ELSE "clear"
    /\ UNCHANGED <<front, triage, slips, exec, acted, collateral, ticket, plan, lane, faults>>

\* Mutant: the follow-up update carries the clear only.
MarkTriageCleared_ClearOnly ==
    /\ pc = "mark" /\ pc' = "collateral" /\ NoFault
    /\ UNCHANGED <<row, said, rowMutated, slips>>
    /\ UNCHANGED <<front, exec, acted, ending, plan, lane>>

\* MarkTriageClearedActivity: the follow-up update of the row, best effort.
MarkTriageCleared ==
    /\ pc = "mark" /\ pc' = "collateral"
    /\ \/ rowMutated' = (row # "none") /\ NoFault /\ UNCHANGED slips
       \/ UNCHANGED rowMutated /\ Fault /\ slips' = slips \union {"mark"}
    /\ UNCHANGED <<front, row, said, exec, acted, ending, plan, lane>>

\* ObserveCollateralActivity, best effort.
ObserveCollateral ==
    /\ pc = "collateral" /\ pc' = "reconcile"
    /\ collateral' \in BOOLEAN
    /\ UNCHANGED <<front, triage, slips, exec, acted, rounds, quiet, clear, ticket, plan,
                   lane, faults>>

\* A poll nobody answered in time.
Unanswered == vote \in {"timeout", "budget-exceeded"}

\* Reconcile: the ticket is done only for an automatic band whose condition is
\* confirmed clear, without collateral and with a matching verdict.
Ticket == IF /\ ~Unanswered /\ ~collateral /\ clear
             /\ band \in {"auto", "notice"}
             /\ Executed => exec = "match"
          THEN "Done" ELSE "To Verify"

\* Mutant: only a poll that ran into its timer is handed over.
HandsOver_Timer == vote = "timeout"

\* ScheduleReCheck of the decision.
HandsOver == Unanswered

\* ReconcileActivity: the ticket and the hand-off of an unanswered poll, each
\* best effort.  An attempt that is lost after its writes is made again, or
\* was the last one.
ReconcileActivity ==
    /\ pc = "reconcile"
    /\ \/ /\ pc' = "ended" /\ NoFault /\ UNCHANGED slips /\ ticket' = Ticket
          /\ IF HandsOver THEN Esc!ScheduleReCheck("own", 0) ELSE UNCHANGED lane
       \/ /\ Fault /\ ticket' \in {ticket, Ticket}
          /\ \/ pc' \in {"reconcile", "ended"} /\ UNCHANGED lane
                /\ slips' = IF pc' = "ended" THEN slips \union {"handoff"} ELSE slips
             \/ pc' \in {"reconcile", "ended"} /\ UNCHANGED slips
                /\ HandsOver /\ Esc!ScheduleReCheck("own", 0)
    /\ UNCHANGED <<front, triage, exec, acted, rounds, quiet, clear, collateral, plan>>

\* RunnerWorkflow: a session that ends with an error, and has not said its own
\* outcome, is recorded as an error.
SyntheticTerminal ==
    /\ pc = "dying" /\ pc' = "died"
    /\ IF said THEN UNCHANGED <<triage, slips, faults>> ELSE Say("error")
    /\ UNCHANGED <<front, exec, acted, ending, plan, lane>>

-----------------------------------------------------------------------------
\* The requeue lane.

\* A demotion by the judge is escalated for another incident, about the time
\* when this session hands over.
JudgeEscalates ==
    /\ Unanswered /\ pc \in {"reconcile", "ended"}
    /\ \A i \in 1 .. Len(queue) : queue[i].ref # "other"
    /\ Esc!Enqueue("other", 0)
    /\ UNCHANGED <<pc, front, triage, slips, exec, acted, ending, plan, faults>>

LanePass == Esc!Pass /\ UNCHANGED <<pc, front, triage, slips, exec, acted, ending, plan>>
LanePassDies == Esc!PassDies /\ UNCHANGED <<pc, front, triage, slips, exec, acted, ending, plan>>

Early == \/ Suppress \/ Correlate \/ Investigate \/ RecordCrash \/ Attribute
         \/ ShadowProposal \/ Classify \/ Gate \/ ComposePlan \/ Notify
Polling == \/ RecordPending \/ SayProposed \/ TakeVote \/ PollExpires \/ StartRecheck
           \/ Recheck \/ RecordVote \/ ResolvePending \/ StandDown
Acting == RunPlan \/ PlanStep \/ PlanEnds \/ Arm \/ RefuseForward \/ Execute
          \/ Cancelled \/ Verify \/ SayOutcome
Ending == ClearRound \/ MarkTriageCleared \/ ObserveCollateral \/ ReconcileActivity
          \/ SyntheticTerminal
Session == Early \/ Polling \/ Acting \/ Ending

Next ==
    \/ Session
    \/ \E v \in Vote : VoteArrives(v)
    \/ \E t \in {"vote", "budget", "recheck"} : TimerFires(t)
    \/ JudgeEscalates \/ LanePass \/ LanePassDies

Spec == Init /\ [][Next]_vars

\* Temporal keeps a workflow going until it ends, timers fire, and the cron
\* makes its passes.
FairSpec ==
    /\ Spec
    /\ WF_vars(Session)
    /\ \A t \in {"vote", "budget"} : WF_vars(TimerFires(t))
    /\ WF_vars(LanePass)

-----------------------------------------------------------------------------
PollTyped ==
    /\ band \in {"none", "auto", "notice", "poll"}
    /\ auto \in {"none", "approve", "hold"} /\ offer \in {"action", "plan"}
    /\ configured \in BOOLEAN /\ votes \in Seq(Vote) /\ seen \subseteq Vote
    /\ fired \subseteq {"vote", "budget", "recheck"}
    /\ voter \in {"none", "approver", "stranger", "autonomous"}

RecordTyped ==
    /\ rowMutated \in BOOLEAN /\ said \in BOOLEAN
    /\ exec \in {"none", "refused", "match", "deviation", "unverified"}
    /\ acted \in BOOLEAN /\ clear \in BOOLEAN /\ collateral \in BOOLEAN
    /\ ticket \in {"open", "To Verify", "Done"}
    /\ pending \in {"none", "open", "resolved"}

Counted == quiet \in Nat /\ faults \in 0 .. MaxFaults

\* What the session, its poll, its records and the lane may hold.
TypeOK == PollTyped /\ RecordTyped /\ Counted /\ Esc!EscTypeOK

\* The estate is touched for a poll only on a recorded authorization (INV-12,
\* INV-19): the ledger holds an approval of what was offered, by an approver
\* where approvers are configured, or by the autonomous approver where it had
\* resolved the poll.  Whatever the order of votes, timers and failures.  What
\* the autonomous approver resolved is the single action, and the code takes
\* its approval for a plan that was offered instead too: PlanTakesHumanVote.
ActsOnRecordedVote ==
    acted /\ band = "poll" =>
        \/ auto = "approve"
           /\ [decision |-> "autonomous-approved", by |-> "autonomous", on |-> offer] \in ledger
        \/ \E v \in seen :
            /\ v.approve /\ v.names = offer
            /\ configured => v.by = "approver"
            /\ [decision |-> "approved", by |-> v.by, on |-> offer] \in ledger

\* What the composition of a plan says of its approval: a plan always takes the
\* one human vote (REQ-3002), so none is run without a recorded approval that
\* an operator gave to the plan.
PlanTakesHumanVote ==
    acted /\ offer = "plan" =>
        \E v \in seen :
            /\ v.approve /\ v.names = "plan"
            /\ [decision |-> "approved", by |-> v.by, on |-> "plan"] \in ledger

\* An operator who answered in time is not overruled by the clock: when a poll
\* ends by its timer or by the budget, no vote that could decide it had
\* arrived, also while the timer was firing or a recheck was under way.
AnsweredNotExpired == Unanswered => \A v \in seen : ~Decisive(v)

\* A ticket is closed only on a confirmed clear (REQ-201, REQ-202): the action
\* matched its prediction, and the last readings were quiet without an
\* alerting one between them, at most one of them taken from the provider's
\* recovery instead of a direct reading.
DoneIsConfirmed ==
    ticket = "Done" =>
        /\ exec = "match" /\ ~collateral /\ band \in {"auto", "notice"}
        /\ LET last == SubSeq(rounds, Len(rounds) + 1 - ClearReadings, Len(rounds))
           IN  /\ Len(rounds) >= ClearReadings
               /\ \A i \in 1 .. Len(last) : last[i] # "alerting"
               /\ Cardinality({i \in 1 .. Len(last) : last[i] = "belt"}) <= 1

\* A session leaves its record (TG-81): when it is over there is a triage row,
\* except for a suppressed alert and a gate that answered for another action.
\* The row never claims a mutation that no result reported; where the writes
\* succeeded, the row of a session that came to its end is marked as mutated
\* just when the single action was executed, although it was written before
\* the vote (the steps of a plan do not mark it: MutationIsCounted).  The poll
\* is off the approvals list.  A write that failed excuses its own part.
LeavesItsRecord ==
    pc \in Over =>
        /\ row # "none" \/ slips \cap {"triage", "suppressed", "regate"} # {}
        /\ rowMutated => Mutated
        /\ pc = "ended" => (rowMutated <=> Executed) \/ slips \cap {"triage", "mark"} # {}
        /\ pc = "ended" /\ pending = "open" => "pending" \in slips

\* What the test of the mark says of the rows: they count what actually ran.
\* The row of a session that came to its end with a mutation, of the action or
\* of a plan, says so unless one of its writes failed.
MutationIsCounted ==
    pc = "ended" /\ Mutated => rowMutated \/ slips \cap {"triage", "mark"} # {}

\* A session comes to its end.
SessionEnds == <>(pc \in Over)

\* The lane pages at most once for a row, however its pass fails.
OnePagePerRow == \A i \in 1 .. Len(pages) : pages[i] <= 1

\* What OnePagePerRow rests on: no page was sent for a row that is pending, or
\* that the pass has marked and not yet paged.
LaneInv ==
    /\ Esc!EscTypeOK
    /\ \A i \in 1 .. Len(queue) : queue[i].status = "pending" => pages[i] = 0
    /\ \A i \in batch : IF marked /\ Esc!First(i)
                        THEN queue[i].status = "fired" /\ pages[i] = 0
                        ELSE queue[i].status = "pending"
    /\ OnePagePerRow

Paged(ref) == stoodDown > 0 \/ \E i \in 1 .. Len(queue) : queue[i].ref = ref /\ pages[i] > 0

\* An unanswered poll reaches a human (REQ-206): a page is sent for it, unless
\* the session died, the hand-off was lost, or the pass that had consumed its
\* row failed.
UnansweredEscalates ==
    Unanswered ~> \/ Paged("own") \/ pc = "died" \/ "handoff" \in slips
                  \/ \E i \in dropped : queue[i].ref = "own"

\* What core/escalation says of a re-entry that was dropped: it is not lost,
\* a later re-check of the reconciler brings the incident to a human.
DroppedConverges ==
    (\E i \in 1 .. Len(queue) : queue[i].ref = "own") ~> Paged("own")

\* A plan accounts for its effects (spec/030): committed, every step is
\* applied; reverted, no step that reported an execution is; with a failed
\* revert, the reported remainder is what was executed.  Only the step that
\* failed may be applied beside it.
PlanAccounts ==
    /\ phase = "committed" => applied = 1 .. PlanSteps
    /\ phase = "reverted" => known = {} /\ applied \subseteq {1}
    /\ phase = "revert-failed" => remaining = known /\ applied \subseteq 1 .. at + 1

\* What the poll promises: all or nothing, and an automatic revert when a step
\* fails.  Without a failure of a store or a worker, the plan does not stay
\* half applied.
AutoReverts == phase = "revert-failed" => faults > 0
=============================================================================
