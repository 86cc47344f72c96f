------------------------- MODULE RunnerSessionProofs -------------------------
(***************************************************************************)
(* Proofs about RunnerSession, for any number of votes, strays, plan       *)
(* steps, readings and failures.  Six inductive invariants, one for each   *)
(* part: the poll (Polled), what may act (Entitled), what is written down  *)
(* (Written), the plan (Planned), the clear (Cleared) and the lane of the  *)
(* escalations (LaneInv).                                                  *)
(***************************************************************************)
EXTENDS RunnerSession, FiniteSetTheorems, TLAPS

\* The session before it asks, and while it asks.
Before == {"suppress", "correlate", "investigate", "crash", "attribute", "shadow",
           "classify", "screen", "compose", "notify", "propose", "say"}
Asked == {"wait", "recheck", "record", "drain", "standdown"}

\* Until the poll is decided, every vote that could decide it is still in the
\* channel; the vote that decided it has arrived.
Polled ==
    /\ votes \in Seq(Vote) /\ seen \subseteq Vote
    /\ pc \in Before => vote = "none" /\ seen = {} /\ votes = <<>>
    /\ pc \in {"wait", "recheck"} => vote = "none"
    /\ vote = "none" =>
        /\ \A v \in seen : Decisive(v) => \E i \in 1 .. Len(votes) : votes[i] = v
        /\ \A i \in 1 .. Len(votes) : votes[i] \in seen
    /\ vote = "approved" => \E v \in seen : v.approve /\ Decisive(v) /\ voter = v.by
    /\ vote = "autonomous-approved" => auto = "approve" /\ voter = "autonomous"
    /\ AnsweredNotExpired

\* What a poll must have left on the ledger before the session acts.
Entry == [decision |-> vote, by |-> voter, on |-> offer]
Authorized == band = "poll" => Approved /\ Entry \in ledger

Entitled ==
    /\ acted => pc \notin Before \union Asked \union {"plan", "arm", "refuse"}
    /\ pc = "drain" => Entry \in ledger
    /\ pc \in {"plan", "arm", "execute"} \/ acted => Authorized

\* What the row, the follow-up update and the approvals list hold on the way
\* to the end.
Written ==
    /\ said => row # "none" \/ "triage" \in slips
    /\ pc \in Asked \union {"plan", "planning", "clear", "mark", "collateral", "reconcile"}
        => said
    /\ pc \in Before \union Asked \union {"plan", "planning", "arm", "refuse", "execute",
                                        "cancelled"} => ~Executed
    /\ pc \in {"clear", "mark", "collateral"} => Executed
    /\ known # {} => pc \in {"planning", "reconcile", "ended"}
    /\ rowMutated => Mutated
    /\ rowMutated => Executed \/ "triage" \in slips
    /\ pc \in {"collateral", "reconcile"} /\ Executed
        => rowMutated \/ slips \cap {"triage", "mark"} # {}
    /\ pending = "open" => pc \in {"say", "wait", "recheck", "record", "drain", "dying", "died"}
                           \/ "pending" \in slips
    /\ LeavesItsRecord

\* The steps that the plan knows of are the ones before the current one.
Planned ==
    /\ ~acted => phase = "none"
    /\ phase \in {"none", "admit"} => at = 1 /\ applied = {} /\ known = {} /\ remaining = {}
    /\ phase = "execute" =>
        /\ at \in 1 .. PlanSteps /\ known = 1 .. (at - 1)
        /\ known \subseteq applied /\ applied \subseteq 1 .. at
    /\ phase = "compensate" =>
        at \in 0 .. PlanSteps /\ known = 1 .. at /\ applied \subseteq 1 .. (at + 1)
    /\ PlanAccounts

\* The count of quiet readings is the length of the quiet end of the loop, and
\* the ticket is done on a clear that nothing can disturb any more.
Cleared ==
    /\ rounds \in Seq({"quiet", "alerting", "belt"}) /\ quiet \in 0 .. Len(rounds)
    /\ \A i \in 1 .. Len(rounds) : i > Len(rounds) - quiet => rounds[i] # "alerting"
    /\ \A i, j \in 1 .. Len(rounds) : rounds[i] = "belt" /\ rounds[j] = "belt" => i = j
    /\ pc \in {"clear", "mark", "collateral"} => Executed
    /\ clear => /\ quiet >= ClearReadings /\ Executed
                 /\ pc \in {"mark", "collateral", "reconcile", "ended"}
    /\ ticket = "Done" =>
        /\ pc \in {"reconcile", "ended"} /\ clear /\ ~collateral
        /\ exec = "match" /\ band \in {"auto", "notice"}

-----------------------------------------------------------------------------
\* The poll.
LEMMA PolledStep == Polled /\ [Next]_vars => Polled'
<1> SUFFICES ASSUME Polled, [Next]_vars PROVE Polled'
    OBVIOUS
<1> USE DEF Polled, Before, AnsweredNotExpired, Unanswered, Decisive, Admitted,
    vars, decided, poll, answer, triage, ending, plan, lane, early, later, front, Fault, NoFault, Silent, Dies
<1>1. CASE Suppress
    BY <1>1 DEF Suppress
<1>2. CASE Correlate
    BY <1>2 DEF Correlate, Say
<1>3. CASE Investigate
    BY <1>3 DEF Investigate, Say
<1>4. CASE RecordCrash
    BY <1>4 DEF RecordCrash, Say
<1>5. CASE Attribute
    BY <1>5 DEF Attribute, Say
<1>6. CASE ShadowProposal
    BY <1>6 DEF ShadowProposal
<1>7. CASE Classify
    BY <1>7 DEF Classify
<1>8. CASE Gate
    BY <1>8 DEF Gate, Say
<1>9. CASE ComposePlan
    BY <1>9 DEF ComposePlan
<1>10. CASE Notify
    BY <1>10 DEF Notify
<1>11. CASE RecordPending
    BY <1>11 DEF RecordPending
<1>12. CASE SayProposed
    BY <1>12 DEF SayProposed, Say
<1>13. CASE TakeVote
    <2> DEFINE v == Head(votes)
    <2>1. /\ v \in seen /\ Tail(votes) \in Seq(Vote) /\ Len(Tail(votes)) = Len(votes) - 1
          /\ \A i \in 1 .. Len(Tail(votes)) : Tail(votes)[i] = votes[i + 1]
          /\ v = votes[1]
        BY <1>13 DEF TakeVote
    <2>2. CASE Decisive(v)
        <3>1. /\ vote' = (IF v.approve THEN "approved" ELSE "denied")
              /\ pc' = "record" /\ voter' = v.by
            BY <1>13, <2>2 DEF TakeVote
        <3> QED BY <1>13, <2>1, <2>2, <3>1 DEF TakeVote
    <2>3. CASE ~Decisive(v)
        <3>1. \A w \in seen : Decisive(w) => \E i \in 1 .. Len(Tail(votes)) : Tail(votes)[i] = w
            <4>1. SUFFICES ASSUME NEW w \in seen, Decisive(w)
                           PROVE \E i \in 1 .. Len(Tail(votes)) : Tail(votes)[i] = w
                OBVIOUS
            <4>2. PICK i \in 1 .. Len(votes) : votes[i] = w
                BY <1>13, <4>1 DEF TakeVote
            <4>3. i # 1
                BY <2>1, <2>3, <4>1, <4>2
            <4> QED BY <2>1, <4>2, <4>3
        <3>2. \A i \in 1 .. Len(Tail(votes)) : Tail(votes)[i] \in seen
            <4>1. \A i \in 1 .. Len(votes) : votes[i] \in seen
                BY <1>13 DEF TakeVote
            <4>2. \A i \in 1 .. Len(Tail(votes)) : i + 1 \in 1 .. Len(votes)
                BY <2>1
            <4> QED BY <2>1, <4>1, <4>2
        <3>3. /\ votes' = Tail(votes) /\ seen' = seen /\ offer' = offer
              /\ configured' = configured /\ pc' \in {"wait", "record"}
              /\ vote' \in {"none", "abandoned", "refused"}
              /\ pc' = "wait" => vote' = "none"
            BY <1>13, <2>3 DEF TakeVote
        <3> QED BY <2>1, <3>1, <3>2, <3>3
    <2> QED BY <2>2, <2>3
<1>14. CASE PollExpires
    BY <1>14 DEF PollExpires, Idle
<1>15. CASE StartRecheck
    BY <1>15 DEF StartRecheck, Idle
<1>16. CASE Recheck
    BY <1>16 DEF Recheck
<1>17. CASE RecordVote
    BY <1>17 DEF RecordVote
<1>18. CASE ResolvePending
    BY <1>18 DEF ResolvePending, Approved
<1>19. CASE StandDown
    BY <1>19 DEF StandDown, Say
<1>20. CASE RunPlan
    BY <1>20 DEF RunPlan
<1>21. CASE PlanStep
    BY <1>21 DEF PlanStep
<1>22. CASE PlanEnds
    BY <1>22 DEF PlanEnds, Say
<1>23. CASE Arm
    BY <1>23 DEF Arm
<1>24. CASE RefuseForward
    BY <1>24 DEF RefuseForward, Say
<1>25. CASE Execute
    BY <1>25 DEF Execute
<1>26. CASE Cancelled
    BY <1>26 DEF Cancelled, Say
<1>27. CASE Verify
    BY <1>27 DEF Verify
<1>28. CASE SayOutcome
    BY <1>28 DEF SayOutcome, Say
<1>29. CASE ClearRound
    BY <1>29 DEF ClearRound
<1>30. CASE MarkTriageCleared
    BY <1>30 DEF MarkTriageCleared
<1>31. CASE ObserveCollateral
    BY <1>31 DEF ObserveCollateral
<1>32. CASE ReconcileActivity
    BY <1>32 DEF ReconcileActivity
<1>33. CASE SyntheticTerminal
    BY <1>33 DEF SyntheticTerminal, Say
<1>34. ASSUME NEW v \in Vote, VoteArrives(v) PROVE Polled'
    BY <1>34 DEF VoteArrives
<1>35. ASSUME NEW t \in {"vote", "budget", "recheck"}, TimerFires(t) PROVE Polled'
    BY <1>35 DEF TimerFires
<1>36. CASE JudgeEscalates
    BY <1>36 DEF JudgeEscalates
<1>37. CASE LanePass
    BY <1>37 DEF LanePass
<1>38. CASE LanePassDies
    BY <1>38 DEF LanePassDies
<1>39. CASE UNCHANGED vars
    BY <1>39
<1> QED BY <1>1, <1>2, <1>3, <1>4, <1>5, <1>6, <1>7, <1>8, <1>9, <1>10, <1>11, <1>12,
    <1>13, <1>14, <1>15, <1>16, <1>17, <1>18, <1>19, <1>20, <1>21, <1>22, <1>23, <1>24,
    <1>25, <1>26, <1>27, <1>28, <1>29, <1>30, <1>31, <1>32, <1>33, <1>34, <1>35, <1>36,
    <1>37, <1>38, <1>39
    DEF Next, Session, Early, Polling, Acting, Ending

\* Who may act.
LEMMA EntitledStep == Polled /\ Entitled /\ [Next]_vars => Entitled'
<1> SUFFICES ASSUME Polled /\ Entitled, [Next]_vars PROVE Entitled'
    OBVIOUS
<1> USE DEF Entitled, Before, Asked, Authorized, Entry, Approved,
    vars, decided, poll, answer, triage, ending, plan, lane, early, later, front, Fault, NoFault, Silent, Dies
<1>1. CASE Suppress
    BY <1>1 DEF Suppress
<1>2. CASE Correlate
    BY <1>2 DEF Correlate, Say
<1>3. CASE Investigate
    BY <1>3 DEF Investigate, Say
<1>4. CASE RecordCrash
    BY <1>4 DEF RecordCrash, Say
<1>5. CASE Attribute
    BY <1>5 DEF Attribute, Say
<1>6. CASE ShadowProposal
    BY <1>6 DEF ShadowProposal
<1>7. CASE Classify
    BY <1>7 DEF Classify
<1>8. CASE Gate
    BY <1>8 DEF Gate, Say
<1>9. CASE ComposePlan
    BY <1>9 DEF ComposePlan
<1>10. CASE Notify
    BY <1>10 DEF Notify
<1>11. CASE RecordPending
    BY <1>11 DEF RecordPending
<1>12. CASE SayProposed
    BY <1>12 DEF SayProposed, Say
<1>13. CASE TakeVote
    BY <1>13 DEF TakeVote
<1>14. CASE PollExpires
    BY <1>14 DEF PollExpires
<1>15. CASE StartRecheck
    BY <1>15 DEF StartRecheck
<1>16. CASE Recheck
    BY <1>16 DEF Recheck
<1>17. CASE RecordVote
    BY <1>17 DEF RecordVote
<1>18. CASE ResolvePending
    BY <1>18 DEF ResolvePending
<1>19. CASE StandDown
    BY <1>19 DEF StandDown, Say
<1>20. CASE RunPlan
    BY <1>20 DEF RunPlan
<1>21. CASE PlanStep
    BY <1>21 DEF PlanStep
<1>22. CASE PlanEnds
    BY <1>22 DEF PlanEnds, Say
<1>23. CASE Arm
    BY <1>23 DEF Arm
<1>24. CASE RefuseForward
    BY <1>24 DEF RefuseForward, Say
<1>25. CASE Execute
    BY <1>25 DEF Execute
<1>26. CASE Cancelled
    BY <1>26 DEF Cancelled, Say
<1>27. CASE Verify
    BY <1>27 DEF Verify
<1>28. CASE SayOutcome
    BY <1>28 DEF SayOutcome, Say
<1>29. CASE ClearRound
    BY <1>29 DEF ClearRound
<1>30. CASE MarkTriageCleared
    BY <1>30 DEF MarkTriageCleared
<1>31. CASE ObserveCollateral
    BY <1>31 DEF ObserveCollateral
<1>32. CASE ReconcileActivity
    BY <1>32 DEF ReconcileActivity
<1>33. CASE SyntheticTerminal
    BY <1>33 DEF SyntheticTerminal, Say
<1>34. ASSUME NEW v \in Vote, VoteArrives(v) PROVE Entitled'
    BY <1>34 DEF VoteArrives
<1>35. ASSUME NEW t \in {"vote", "budget", "recheck"}, TimerFires(t) PROVE Entitled'
    BY <1>35 DEF TimerFires
<1>36. CASE JudgeEscalates
    BY <1>36 DEF JudgeEscalates
<1>37. CASE LanePass
    BY <1>37 DEF LanePass
<1>38. CASE LanePassDies
    BY <1>38 DEF LanePassDies
<1>39. CASE UNCHANGED vars
    BY <1>39
<1> QED BY <1>1, <1>2, <1>3, <1>4, <1>5, <1>6, <1>7, <1>8, <1>9, <1>10, <1>11, <1>12,
    <1>13, <1>14, <1>15, <1>16, <1>17, <1>18, <1>19, <1>20, <1>21, <1>22, <1>23, <1>24,
    <1>25, <1>26, <1>27, <1>28, <1>29, <1>30, <1>31, <1>32, <1>33, <1>34, <1>35, <1>36,
    <1>37, <1>38, <1>39
    DEF Next, Session, Early, Polling, Acting, Ending

\* recordTriage: a failed write, a row that is there, or the first one.
LEMMA SayWrites ==
    ASSUME NEW outcome, outcome # "none", Say(outcome)
    PROVE  /\ said' /\ slips \subseteq slips'
           /\ \/ "triage" \in slips' /\ row' = row /\ (rowMutated' <=> rowMutated)
              \/ slips' = slips /\ row # "none" /\ row' = row /\ (rowMutated' <=> rowMutated)
              \/ slips' = slips /\ row = "none" /\ row' # "none" /\ (rowMutated' <=> Mutated)
<1>1. CASE slips' = slips \union {"triage"} /\ row' = row /\ rowMutated' = rowMutated
    BY <1>1 DEF Say
<1>2. CASE slips' = slips /\ row # "none" /\ row' = row /\ rowMutated' = rowMutated
    BY <1>2 DEF Say
<1>3. CASE slips' = slips /\ row = "none" /\ row' = outcome /\ rowMutated' = Mutated
    <2>1. rowMutated' <=> Mutated
        BY <1>3, Zenon
    <2> QED BY <1>3, <2>1 DEF Say
<1> QED BY <1>1, <1>2, <1>3, Zenon DEF Say

\* What is written down.
LEMMA WrittenStep == Written /\ [Next]_vars => Written'
<1> SUFFICES ASSUME Written, [Next]_vars PROVE Written'
    OBVIOUS
<1> USE DEF Written, Before, Asked, Executed, Mutated, Over, LeavesItsRecord,
    vars, decided, poll, answer, triage, ending, plan, lane, early, later, front, Fault, NoFault, Silent, Dies
<1>1. CASE Suppress
    BY <1>1 DEF Suppress
<1>2. CASE Correlate
    BY <1>2, SayWrites DEF Correlate
<1>3. CASE Investigate
    BY <1>3, SayWrites DEF Investigate
<1>4. CASE RecordCrash
    BY <1>4, SayWrites DEF RecordCrash
<1>5. CASE Attribute
    BY <1>5, SayWrites DEF Attribute
<1>6. CASE ShadowProposal
    BY <1>6 DEF ShadowProposal
<1>7. CASE Classify
    BY <1>7 DEF Classify
<1>8. CASE Gate
    BY <1>8, SayWrites DEF Gate
<1>9. CASE ComposePlan
    BY <1>9 DEF ComposePlan
<1>10. CASE Notify
    BY <1>10 DEF Notify
<1>11. CASE RecordPending
    BY <1>11 DEF RecordPending
<1>12. CASE SayProposed
    BY <1>12, SayWrites DEF SayProposed
<1>13. CASE TakeVote
    BY <1>13 DEF TakeVote
<1>14. CASE PollExpires
    BY <1>14 DEF PollExpires
<1>15. CASE StartRecheck
    BY <1>15 DEF StartRecheck
<1>16. CASE Recheck
    BY <1>16 DEF Recheck
<1>17. CASE RecordVote
    BY <1>17 DEF RecordVote
<1>18. CASE ResolvePending
    BY <1>18 DEF ResolvePending
<1>19. CASE StandDown
    BY <1>19, SayWrites DEF StandDown
<1>20. CASE RunPlan
    BY <1>20 DEF RunPlan, Plan!StartPlan
<1>21. CASE PlanStep
    <2>1. known \subseteq known'
        BY <1>21 DEF PlanStep, Plan!PlanStep, Plan!AdmitPlan, Plan!StepExecutes,
            Plan!StepFails, Plan!StepErrs, Plan!Compensate
    <2> QED BY <1>21, <2>1 DEF PlanStep
<1>22. CASE PlanEnds
    BY <1>22, SayWrites DEF PlanEnds
<1>23. CASE Arm
    BY <1>23 DEF Arm
<1>24. CASE RefuseForward
    BY <1>24, SayWrites DEF RefuseForward
<1>25. CASE Execute
    BY <1>25 DEF Execute
<1>26. CASE Cancelled
    BY <1>26, SayWrites DEF Cancelled
<1>27. CASE Verify
    BY <1>27 DEF Verify
<1>28. CASE SayOutcome
    BY <1>28, SayWrites DEF SayOutcome
<1>29. CASE ClearRound
    BY <1>29 DEF ClearRound
<1>30. CASE MarkTriageCleared
    BY <1>30 DEF MarkTriageCleared
<1>31. CASE ObserveCollateral
    BY <1>31 DEF ObserveCollateral
<1>32. CASE ReconcileActivity
    BY <1>32 DEF ReconcileActivity
<1>33. CASE SyntheticTerminal
    BY <1>33, SayWrites DEF SyntheticTerminal
<1>34. ASSUME NEW v \in Vote, VoteArrives(v) PROVE Written'
    BY <1>34 DEF VoteArrives
<1>35. ASSUME NEW t \in {"vote", "budget", "recheck"}, TimerFires(t) PROVE Written'
    BY <1>35 DEF TimerFires
<1>36. CASE JudgeEscalates
    BY <1>36 DEF JudgeEscalates
<1>37. CASE LanePass
    BY <1>37 DEF LanePass
<1>38. CASE LanePassDies
    BY <1>38 DEF LanePassDies
<1>39. CASE UNCHANGED vars
    BY <1>39
<1> QED BY <1>1, <1>2, <1>3, <1>4, <1>5, <1>6, <1>7, <1>8, <1>9, <1>10, <1>11, <1>12,
    <1>13, <1>14, <1>15, <1>16, <1>17, <1>18, <1>19, <1>20, <1>21, <1>22, <1>23, <1>24,
    <1>25, <1>26, <1>27, <1>28, <1>29, <1>30, <1>31, <1>32, <1>33, <1>34, <1>35, <1>36,
    <1>37, <1>38, <1>39
    DEF Next, Session, Early, Polling, Acting, Ending

\* The plan.
LEMMA PlannedStep == Entitled /\ Planned /\ [Next]_vars => Planned'
<1> SUFFICES ASSUME Entitled /\ Planned, [Next]_vars PROVE Planned'
    OBVIOUS
<1> USE DEF Planned, Entitled, PlanAccounts, Before, Asked,
    vars, decided, poll, answer, triage, ending, plan, lane, early, later, front, Fault, NoFault, Silent, Dies
<1>1. CASE Suppress
    BY <1>1 DEF Suppress
<1>2. CASE Correlate
    BY <1>2 DEF Correlate, Say
<1>3. CASE Investigate
    BY <1>3 DEF Investigate, Say
<1>4. CASE RecordCrash
    BY <1>4 DEF RecordCrash, Say
<1>5. CASE Attribute
    BY <1>5 DEF Attribute, Say
<1>6. CASE ShadowProposal
    BY <1>6 DEF ShadowProposal
<1>7. CASE Classify
    BY <1>7 DEF Classify
<1>8. CASE Gate
    BY <1>8 DEF Gate, Say
<1>9. CASE ComposePlan
    BY <1>9 DEF ComposePlan
<1>10. CASE Notify
    BY <1>10 DEF Notify
<1>11. CASE RecordPending
    BY <1>11 DEF RecordPending
<1>12. CASE SayProposed
    BY <1>12 DEF SayProposed, Say
<1>13. CASE TakeVote
    BY <1>13 DEF TakeVote
<1>14. CASE PollExpires
    BY <1>14 DEF PollExpires
<1>15. CASE StartRecheck
    BY <1>15 DEF StartRecheck
<1>16. CASE Recheck
    BY <1>16 DEF Recheck
<1>17. CASE RecordVote
    BY <1>17 DEF RecordVote
<1>18. CASE ResolvePending
    BY <1>18 DEF ResolvePending
<1>19. CASE StandDown
    BY <1>19 DEF StandDown, Say
<1>20. CASE RunPlan
    BY <1>20 DEF RunPlan, Plan!StartPlan
<1>21. CASE PlanStep
    <2>0. acted /\ acted' /\ phase # "none"
        BY <1>21 DEF PlanStep, Plan!PlanStep, Plan!AdmitPlan, Plan!StepExecutes, Plan!StepFails,
            Plan!StepErrs, Plan!Compensate
    <2>1. CASE Plan!AdmitPlan
        BY <1>21, <2>0, <2>1, SessionAssumption DEF Plan!AdmitPlan
    <2>2. CASE Plan!StepExecutes
        BY <1>21, <2>0, <2>2, SessionAssumption DEF Plan!StepExecutes
    <2>3. CASE Plan!StepFails
        BY <1>21, <2>0, <2>3, SessionAssumption DEF Plan!StepFails
    <2>4. CASE Plan!StepErrs
        BY <1>21, <2>0, <2>4, SessionAssumption DEF Plan!StepErrs
    <2>5. CASE Plan!Compensate
        BY <1>21, <2>0, <2>5, SessionAssumption DEF Plan!Compensate
    <2> QED BY <1>21, <2>1, <2>2, <2>3, <2>4, <2>5 DEF PlanStep, Plan!PlanStep
<1>22. CASE PlanEnds
    BY <1>22 DEF PlanEnds, Say
<1>23. CASE Arm
    BY <1>23 DEF Arm
<1>24. CASE RefuseForward
    BY <1>24 DEF RefuseForward, Say
<1>25. CASE Execute
    BY <1>25 DEF Execute
<1>26. CASE Cancelled
    BY <1>26 DEF Cancelled, Say
<1>27. CASE Verify
    BY <1>27 DEF Verify
<1>28. CASE SayOutcome
    BY <1>28 DEF SayOutcome, Say
<1>29. CASE ClearRound
    BY <1>29 DEF ClearRound
<1>30. CASE MarkTriageCleared
    BY <1>30 DEF MarkTriageCleared
<1>31. CASE ObserveCollateral
    BY <1>31 DEF ObserveCollateral
<1>32. CASE ReconcileActivity
    BY <1>32 DEF ReconcileActivity
<1>33. CASE SyntheticTerminal
    BY <1>33 DEF SyntheticTerminal, Say
<1>34. ASSUME NEW v \in Vote, VoteArrives(v) PROVE Planned'
    BY <1>34 DEF VoteArrives
<1>35. ASSUME NEW t \in {"vote", "budget", "recheck"}, TimerFires(t) PROVE Planned'
    BY <1>35 DEF TimerFires
<1>36. CASE JudgeEscalates
    BY <1>36 DEF JudgeEscalates
<1>37. CASE LanePass
    BY <1>37 DEF LanePass
<1>38. CASE LanePassDies
    BY <1>38 DEF LanePassDies
<1>39. CASE UNCHANGED vars
    BY <1>39
<1> QED BY <1>1, <1>2, <1>3, <1>4, <1>5, <1>6, <1>7, <1>8, <1>9, <1>10, <1>11, <1>12,
    <1>13, <1>14, <1>15, <1>16, <1>17, <1>18, <1>19, <1>20, <1>21, <1>22, <1>23, <1>24,
    <1>25, <1>26, <1>27, <1>28, <1>29, <1>30, <1>31, <1>32, <1>33, <1>34, <1>35, <1>36,
    <1>37, <1>38, <1>39
    DEF Next, Session, Early, Polling, Acting, Ending

\* The clear.
LEMMA ClearedStep == Cleared /\ [Next]_vars => Cleared'
<1> SUFFICES ASSUME Cleared, [Next]_vars PROVE Cleared'
    OBVIOUS
<1> USE DEF Cleared, Executed,
    vars, decided, poll, answer, triage, ending, plan, lane, early, later, front, Fault, NoFault, Silent, Dies
<1>1. CASE Suppress
    BY <1>1 DEF Suppress
<1>2. CASE Correlate
    BY <1>2 DEF Correlate, Say
<1>3. CASE Investigate
    BY <1>3 DEF Investigate, Say
<1>4. CASE RecordCrash
    BY <1>4 DEF RecordCrash, Say
<1>5. CASE Attribute
    BY <1>5 DEF Attribute, Say
<1>6. CASE ShadowProposal
    BY <1>6 DEF ShadowProposal
<1>7. CASE Classify
    BY <1>7 DEF Classify
<1>8. CASE Gate
    BY <1>8 DEF Gate, Say
<1>9. CASE ComposePlan
    BY <1>9 DEF ComposePlan
<1>10. CASE Notify
    BY <1>10 DEF Notify
<1>11. CASE RecordPending
    BY <1>11 DEF RecordPending
<1>12. CASE SayProposed
    BY <1>12 DEF SayProposed, Say
<1>13. CASE TakeVote
    BY <1>13 DEF TakeVote
<1>14. CASE PollExpires
    BY <1>14 DEF PollExpires
<1>15. CASE StartRecheck
    BY <1>15 DEF StartRecheck
<1>16. CASE Recheck
    BY <1>16 DEF Recheck
<1>17. CASE RecordVote
    BY <1>17 DEF RecordVote
<1>18. CASE ResolvePending
    BY <1>18 DEF ResolvePending
<1>19. CASE StandDown
    BY <1>19 DEF StandDown, Say
<1>20. CASE RunPlan
    BY <1>20 DEF RunPlan
<1>21. CASE PlanStep
    BY <1>21 DEF PlanStep
<1>22. CASE PlanEnds
    BY <1>22 DEF PlanEnds, Say
<1>23. CASE Arm
    BY <1>23 DEF Arm
<1>24. CASE RefuseForward
    BY <1>24 DEF RefuseForward, Say
<1>25. CASE Execute
    BY <1>25 DEF Execute
<1>26. CASE Cancelled
    BY <1>26 DEF Cancelled, Say
<1>27. CASE Verify
    BY <1>27 DEF Verify
<1>28. CASE SayOutcome
    BY <1>28 DEF SayOutcome, Say
<1>29. CASE ClearRound
    <2>1. PICK r \in {"quiet", "alerting", "belt"} :
            /\ r = "belt" => ~BeltUsed
            /\ rounds' = Append(rounds, r) /\ quiet' = Debounced(r)
            /\ clear' = (Debounced(r) >= ClearReadings)
            /\ Debounced(r) >= ClearReadings => pc' = "mark"
        BY <1>29 DEF ClearRound
    <2>2. /\ Len(rounds') = Len(rounds) + 1 /\ rounds'[Len(rounds) + 1] = r
          /\ \A i \in 1 .. Len(rounds) : rounds'[i] = rounds[i]
          /\ rounds' \in Seq({"quiet", "alerting", "belt"})
        BY <2>1
    <2>3. quiet' \in 0 .. Len(rounds')
        BY <2>1, <2>2 DEF Debounced
    <2>4. \A i \in 1 .. Len(rounds') : i > Len(rounds') - quiet' => rounds'[i] # "alerting"
        BY <2>1, <2>2 DEF Debounced
    <2>5. \A i, j \in 1 .. Len(rounds') : rounds'[i] = "belt" /\ rounds'[j] = "belt" => i = j
        BY <2>1, <2>2 DEF BeltUsed
    <2>6. /\ pc = "clear" /\ pc' \in {"clear", "mark"} /\ exec' = exec /\ ticket' = ticket
        BY <1>29 DEF ClearRound
    <2> QED BY <2>1, <2>2, <2>3, <2>4, <2>5, <2>6
<1>30. CASE MarkTriageCleared
    BY <1>30 DEF MarkTriageCleared
<1>31. CASE ObserveCollateral
    BY <1>31 DEF ObserveCollateral
<1>32. CASE ReconcileActivity
    BY <1>32 DEF ReconcileActivity, Ticket, Unanswered
<1>33. CASE SyntheticTerminal
    BY <1>33 DEF SyntheticTerminal, Say
<1>34. ASSUME NEW v \in Vote, VoteArrives(v) PROVE Cleared'
    BY <1>34 DEF VoteArrives
<1>35. ASSUME NEW t \in {"vote", "budget", "recheck"}, TimerFires(t) PROVE Cleared'
    BY <1>35 DEF TimerFires
<1>36. CASE JudgeEscalates
    BY <1>36 DEF JudgeEscalates
<1>37. CASE LanePass
    BY <1>37 DEF LanePass
<1>38. CASE LanePassDies
    BY <1>38 DEF LanePassDies
<1>39. CASE UNCHANGED vars
    BY <1>39
<1> QED BY <1>1, <1>2, <1>3, <1>4, <1>5, <1>6, <1>7, <1>8, <1>9, <1>10, <1>11, <1>12,
    <1>13, <1>14, <1>15, <1>16, <1>17, <1>18, <1>19, <1>20, <1>21, <1>22, <1>23, <1>24,
    <1>25, <1>26, <1>27, <1>28, <1>29, <1>30, <1>31, <1>32, <1>33, <1>34, <1>35, <1>36,
    <1>37, <1>38, <1>39
    DEF Next, Session, Early, Polling, Acting, Ending

-----------------------------------------------------------------------------
\* The initial states.
LEMMA InitHolds == Init => Polled /\ Entitled /\ Written /\ Planned /\ Cleared
<1> SUFFICES ASSUME Init PROVE Polled /\ Entitled /\ Written /\ Planned /\ Cleared
    OBVIOUS
<1>1. Polled
    BY DEF Init, Polled, Before, AnsweredNotExpired, Unanswered
<1>2. Entitled
    BY DEF Init, Entitled, Before, Asked
<1>3. Written
    BY DEF Init, Written, Before, Asked, Executed, Mutated, LeavesItsRecord, Over,
        Plan!PlanInit
<1>4. Planned
    BY DEF Init, Planned, PlanAccounts, Plan!PlanInit
<1>5. Cleared
    BY DEF Init, Cleared
<1> QED BY <1>1, <1>2, <1>3, <1>4, <1>5

\* The session touches the estate for a poll only on a recorded approval, by an
\* approver where approvers are configured (RunnerWorkflow, the vote loop and
\* RecordVoteActivity, whose error ends the session), for any number of votes,
\* timers and failures.
THEOREM Authorization == Spec => []ActsOnRecordedVote
<1>1. Polled /\ Entitled => ActsOnRecordedVote
    <2> SUFFICES ASSUME Polled, Entitled, acted, band = "poll"
                 PROVE  \/ /\ auto = "approve"
                           /\ [decision |-> "autonomous-approved", by |-> "autonomous", on |-> offer]
                                 \in ledger
                        \/ \E v \in seen :
                            /\ v.approve /\ v.names = offer
                            /\ configured => v.by = "approver"
                            /\ [decision |-> "approved", by |-> v.by, on |-> offer] \in ledger
        BY DEF ActsOnRecordedVote
    <2>1. Approved /\ Entry \in ledger
        BY DEF Entitled, Authorized
    <2>2. CASE vote = "approved"
        BY <2>1, <2>2 DEF Polled, Decisive, Admitted, Entry
    <2>3. CASE vote = "autonomous-approved"
        BY <2>1, <2>3 DEF Polled, Entry
    <2> QED BY <2>1, <2>2, <2>3 DEF Approved
<1> QED BY <1>1, InitHolds, PolledStep, EntitledStep, PTL DEF Spec

\* An operator who answered before the poll was decided is not overruled by
\* the vote timer or the budget (RunnerWorkflow, the order of the selector).
THEOREM AnswerStands == Spec => []AnsweredNotExpired
<1>1. Polled => AnsweredNotExpired
    BY DEF Polled
<1> QED BY <1>1, InitHolds, PolledStep, PTL DEF Spec

\* A session that is over has left its triage row and its poll resolved, and
\* where the writes succeeded its row is marked as mutated just when the single
\* action was executed; a row never claims a mutation that neither the action
\* nor a plan reported (recordTriage, MarkTriageClearedActivity,
\* ResolvePendingActivity, syntheticTerminal).
THEOREM RecordLeft == Spec => []LeavesItsRecord
<1>1. Written => LeavesItsRecord
    BY DEF Written
<1> QED BY <1>1, InitHolds, WrittenStep, PTL DEF Spec

\* A plan of any length accounts for its effects when a step fails
\* (TransactionPlanWorkflow).
THEOREM PlanAccounted == Spec => []PlanAccounts
<1>1. Planned => PlanAccounts
    BY DEF Planned
<1> QED BY <1>1, InitHolds, PolledStep, EntitledStep, PlannedStep, PTL DEF Spec

\* A ticket is closed only on a matching verdict and a full run of quiet
\* readings, of which the provider's recovery is at most one (the clear loop of
\* RunnerWorkflow and Reconcile), for any debounce and any number of rounds.
THEOREM DoneConfirmed == Spec => []DoneIsConfirmed
<1>1. Cleared => DoneIsConfirmed
    <2> SUFFICES ASSUME Cleared, ticket = "Done" PROVE DoneIsConfirmed
        BY DEF DoneIsConfirmed
    <2> DEFINE n == Len(rounds)
               last == SubSeq(rounds, n + 1 - ClearReadings, n)
               belts == {i \in 1 .. Len(last) : last[i] = "belt"}
    <2>1. n \in Nat /\ n >= ClearReadings /\ ClearReadings \in Nat \ {0} /\ quiet >= ClearReadings
        BY SessionAssumption DEF Cleared
    <2>2. /\ Len(last) = ClearReadings
          /\ \A i \in 1 .. ClearReadings :
                /\ last[i] = rounds[n - ClearReadings + i]
                /\ n - ClearReadings + i \in 1 .. n
        BY <2>1 DEF Cleared
    <2>3. \A i \in 1 .. Len(last) : last[i] # "alerting"
        BY <2>1, <2>2 DEF Cleared
    <2>4. \A i, j \in belts : i = j
        <3> SUFFICES ASSUME NEW i \in belts, NEW j \in belts PROVE i = j
            OBVIOUS
        <3>1. n - ClearReadings + i = n - ClearReadings + j
            BY <2>1, <2>2 DEF Cleared
        <3> QED BY <2>1, <2>2, <3>1
    <2>5. Cardinality(belts) <= 1
        <3> HIDE DEF belts
        <3>1. CASE belts = {}
            <4>1. Cardinality(belts) = 0
                BY <3>1, FS_EmptySet, Zenon
            <4> QED BY <4>1
        <3>2. CASE belts # {}
            <4>1. PICK i \in belts : TRUE
                BY <3>2
            <4>2. belts = {i}
                BY <2>4, <4>1
            <4>3. Cardinality(belts) = 1
                BY <4>2, FS_Singleton, Zenon
            <4> QED BY <4>3
        <3> QED BY <3>1, <3>2
    <2> QED BY <2>1, <2>3, <2>5 DEF DoneIsConfirmed, Cleared
<1> QED BY <1>1, InitHolds, ClearedStep, PTL DEF Spec

-----------------------------------------------------------------------------
\* A new row is pending and has no page.
LEMMA EnqueueKeeps ==
    ASSUME LaneInv, NEW ref \in {"own", "other"}, NEW n \in Nat, Esc!Enqueue(ref, n)
    PROVE  LaneInv'
<1> DEFINE new == [ref |-> ref, attempts |-> n, status |-> "pending"]
<1>1. /\ queue' = Append(queue, new) /\ pages' = Append(pages, 0)
      /\ UNCHANGED <<batch, marked, dropped, stoodDown>>
    BY DEF Esc!Enqueue
<1>2. new \in Esc!Row /\ new.status = "pending"
    BY DEF Esc!Row
<1> HIDE DEF new
<1>3. /\ queue \in Seq(Esc!Row) /\ pages \in Seq(Nat) /\ Len(pages) = Len(queue)
      /\ Len(queue) \in Nat /\ batch \subseteq 1 .. Len(queue)
    BY DEF LaneInv, Esc!EscTypeOK
<1>4. /\ queue' \in Seq(Esc!Row) /\ Len(queue') = Len(queue) + 1
      /\ queue'[Len(queue) + 1] = new
      /\ \A i \in 1 .. Len(queue) : queue'[i] = queue[i]
    BY <1>1, <1>2, <1>3
<1>5. /\ pages' \in Seq(Nat) /\ Len(pages') = Len(queue) + 1
      /\ pages'[Len(queue) + 1] = 0
      /\ \A i \in 1 .. Len(queue) : pages'[i] = pages[i]
    BY <1>1, <1>3
<1>6. Esc!EscTypeOK'
    BY <1>1, <1>3, <1>4, <1>5 DEF LaneInv, Esc!EscTypeOK
<1>7. \A i \in 1 .. Len(queue') :
        queue'[i].status = "pending" => pages'[i] = 0
    <2>1. \A i \in 1 .. Len(queue) : queue[i].status = "pending" => pages[i] = 0
        BY DEF LaneInv
    <2>2. ASSUME NEW i \in 1 .. Len(queue), queue'[i].status = "pending"
          PROVE  pages'[i] = 0
        BY <1>4, <1>5, <2>1, <2>2
    <2>3. \A i \in 1 .. Len(queue') : i \in 1 .. Len(queue) \/ i = Len(queue) + 1
        BY <1>3, <1>4
    <2> QED BY <1>5, <2>2, <2>3
<1>8. \A i \in batch' : IF marked' /\ Esc!First(i)'
                        THEN queue'[i].status = "fired" /\ pages'[i] = 0
                        ELSE queue'[i].status = "pending"
    BY <1>1, <1>3, <1>4, <1>5 DEF LaneInv, Esc!First
<1>9. OnePagePerRow'
    <2>1. \A i \in 1 .. Len(queue) : pages[i] <= 1
        BY <1>3 DEF LaneInv, OnePagePerRow
    <2>2. \A i \in 1 .. Len(pages') : i \in 1 .. Len(queue) \/ i = Len(queue) + 1
        BY <1>3, <1>5
    <2>3. \A i \in 1 .. Len(pages') : pages'[i] <= 1
        BY <1>5, <2>1, <2>2
    <2> QED BY <2>3 DEF OnePagePerRow
<1> QED BY <1>6, <1>7, <1>8, <1>9 DEF LaneInv

\* Consuming a row of the queue changes its status and nothing else.
LEMMA Consumes ==
    ASSUME LaneInv, NEW i \in batch, queue' = [queue EXCEPT ![i].status = "fired"]
    PROVE  /\ queue' \in Seq(Esc!Row) /\ Len(queue') = Len(queue)
           /\ queue'[i].status = "fired"
           /\ \A j \in 1 .. Len(queue) : j # i => queue'[j] = queue[j]
<1>1. queue \in Seq(Esc!Row) /\ i \in 1 .. Len(queue)
    BY DEF LaneInv, Esc!EscTypeOK
<1> DEFINE fired1 == [queue[i] EXCEPT !.status = "fired"]
<1>2. fired1 \in Esc!Row /\ fired1.status = "fired"
    <2>1. queue[i] \in Esc!Row
        BY <1>1
    <2> QED BY <2>1 DEF Esc!Row
<1>3. queue' = [queue EXCEPT ![i] = fired1]
    OBVIOUS
<1> HIDE DEF fired1
<1> QED BY <1>1, <1>2, <1>3

\* Marking the first row of the batch.
LEMMA MarkKeeps == ASSUME LaneInv, Esc!MarkFired PROVE LaneInv'
<1>1. PICK i \in batch :
        /\ Esc!First(i)
        /\ \/ /\ queue' = [queue EXCEPT ![i].status = "fired"] /\ marked' = TRUE
              /\ UNCHANGED <<batch, dropped>>
           \/ /\ batch' = batch \ {i} /\ UNCHANGED marked
              /\ \/ UNCHANGED <<queue, dropped>>
                 \/ /\ queue' = [queue EXCEPT ![i].status = "fired"]
                    /\ dropped' = dropped \union {i}
    BY DEF Esc!MarkFired
<1>2. ~marked /\ UNCHANGED <<pages, stoodDown>>
    BY DEF Esc!MarkFired
<1>3. /\ queue \in Seq(Esc!Row) /\ pages \in Seq(Nat) /\ Len(pages) = Len(queue)
      /\ Len(queue) \in Nat /\ batch \subseteq 1 .. Len(queue) /\ i \in 1 .. Len(queue)
      /\ dropped \subseteq 1 .. Len(queue) /\ stoodDown \in Nat
    BY DEF LaneInv, Esc!EscTypeOK
<1>4. \A j \in batch : queue[j].status = "pending" /\ pages[j] = 0
    BY <1>2, <1>3 DEF LaneInv
<1>5. /\ queue' \in Seq(Esc!Row) /\ Len(queue') = Len(queue)
      /\ \A j \in 1 .. Len(queue) : j # i => queue'[j] = queue[j]
      /\ queue' = queue \/ queue'[i].status = "fired"
    BY <1>1, <1>3, Consumes
<1>6. \A j \in 1 .. Len(queue') : queue'[j].status = "pending" => pages'[j] = 0
    BY <1>2, <1>5 DEF LaneInv
<1>7. OnePagePerRow'
    BY <1>2 DEF LaneInv, OnePagePerRow
<1>8. CASE /\ queue' = [queue EXCEPT ![i].status = "fired"] /\ marked' = TRUE
           /\ UNCHANGED <<batch, dropped>>
    <2>1. Esc!EscTypeOK'
        BY <1>2, <1>3, <1>5, <1>8 DEF Esc!EscTypeOK
    <2>2. ASSUME NEW j \in batch'
          PROVE  IF marked' /\ Esc!First(j)'
                 THEN queue'[j].status = "fired" /\ pages'[j] = 0
                 ELSE queue'[j].status = "pending"
        <3>1. CASE j = i
            BY <1>1, <1>2, <1>4, <1>8, <3>1, Consumes DEF Esc!First
        <3>2. CASE j # i
            <4>1. ~Esc!First(j)'
                BY <1>1, <1>3, <1>8, <3>2 DEF Esc!First
            <4> QED BY <1>3, <1>4, <1>5, <1>8, <3>2, <4>1
        <3> QED BY <3>1, <3>2
    <2> QED BY <1>6, <1>7, <2>1, <2>2 DEF LaneInv
<1>9. CASE /\ batch' = batch \ {i} /\ UNCHANGED marked
           /\ dropped' = dropped \/ dropped' = dropped \union {i}
    <2>1. Esc!EscTypeOK'
        BY <1>2, <1>3, <1>5, <1>9 DEF Esc!EscTypeOK, LaneInv
    <2>2. \A j \in batch' : queue'[j].status = "pending"
        BY <1>3, <1>4, <1>5, <1>9
    <2> QED BY <1>2, <1>6, <1>7, <1>9, <2>1, <2>2 DEF LaneInv
<1> QED BY <1>1, <1>8, <1>9

\* Paging for the marked row, or failing to.
LEMMA SignalKeeps == ASSUME LaneInv, Esc!SignalRequeue PROVE LaneInv'
<1>1. PICK i \in batch :
        /\ Esc!First(i) /\ batch' = batch \ {i}
        /\ dropped' = dropped \/ dropped' = dropped \union {i}
        /\ pages' = pages \/ pages' = [pages EXCEPT ![i] = @ + 1]
    BY DEF Esc!SignalRequeue
<1>2. marked /\ marked' = FALSE /\ UNCHANGED <<queue, stoodDown>>
    BY DEF Esc!SignalRequeue
<1>3. /\ queue \in Seq(Esc!Row) /\ pages \in Seq(Nat) /\ Len(pages) = Len(queue)
      /\ Len(queue) \in Nat /\ batch \subseteq 1 .. Len(queue) /\ i \in 1 .. Len(queue)
      /\ dropped \subseteq 1 .. Len(queue) /\ stoodDown \in Nat
    BY DEF LaneInv, Esc!EscTypeOK
<1>4. queue[i].status = "fired" /\ pages[i] = 0
    BY <1>1, <1>2 DEF LaneInv
<1>5. /\ pages' \in Seq(Nat) /\ Len(pages') = Len(pages)
      /\ pages'[i] \in {0, 1}
      /\ \A j \in 1 .. Len(queue) : j # i => pages'[j] = pages[j]
    <2>1. CASE pages' = pages
        BY <1>3, <1>4, <2>1
    <2>2. CASE pages' = [pages EXCEPT ![i] = @ + 1]
        BY <1>3, <1>4, <2>2
    <2> QED BY <1>1, <2>1, <2>2
<1>6. \A j \in batch' : queue'[j].status = "pending"
    <2> SUFFICES ASSUME NEW j \in batch' PROVE queue[j].status = "pending"
        BY <1>2
    <2>1. j \in batch /\ j # i /\ ~Esc!First(j)
        BY <1>1, <1>3 DEF Esc!First
    <2> QED BY <2>1 DEF LaneInv
<1>7. \A j \in 1 .. Len(queue') : queue'[j].status = "pending" => pages'[j] = 0
    BY <1>2, <1>3, <1>4, <1>5 DEF LaneInv
<1>8. Esc!EscTypeOK'
    BY <1>1, <1>2, <1>3, <1>5 DEF Esc!EscTypeOK
<1>9. OnePagePerRow'
    BY <1>3, <1>5 DEF LaneInv, OnePagePerRow
<1> QED BY <1>2, <1>6, <1>7, <1>8, <1>9 DEF LaneInv

\* Every step keeps LaneInv: the session reaches the lane by its hand-off only.
LEMMA LaneStep == LaneInv /\ [Next]_vars => LaneInv'
<1> SUFFICES ASSUME LaneInv, [Next]_vars PROVE LaneInv'
    OBVIOUS
<1>0. ASSUME UNCHANGED lane PROVE LaneInv'
    BY <1>0 DEF lane, LaneInv, OnePagePerRow, Esc!EscTypeOK, Esc!First
<1>1. ASSUME Esc!ScheduleReCheck("own", 0) PROVE LaneInv'
    <2>1. CASE 0 < Cap
        BY <1>1, <2>1, EnqueueKeeps DEF Esc!ScheduleReCheck
    <2>2. CASE ~(0 < Cap)
        BY <2>2, SessionAssumption
    <2> QED BY <2>1, <2>2
<1>2. CASE ReconcileActivity
    BY <1>0, <1>1, <1>2 DEF ReconcileActivity
<1>3. CASE JudgeEscalates
    BY <1>3, EnqueueKeeps DEF JudgeEscalates
<1>4. CASE LanePass
    <2>1. CASE Esc!FireDue
        <3>1. /\ batch' = Esc!Pending /\ marked' = FALSE
              /\ UNCHANGED <<queue, pages, dropped, stoodDown>>
            BY <2>1 DEF Esc!FireDue
        <3> QED BY <3>1 DEF LaneInv, OnePagePerRow, Esc!EscTypeOK, Esc!Pending
    <2> QED BY <1>4, <2>1, MarkKeeps, SignalKeeps DEF LanePass, Esc!Pass
<1>5. CASE LanePassDies
    <2>1. /\ batch' = {} /\ marked' = FALSE /\ UNCHANGED <<queue, pages, stoodDown>>
          /\ dropped' \subseteq dropped \union batch
        BY <1>5 DEF LanePassDies, Esc!PassDies
    <2> QED BY <2>1 DEF LaneInv, OnePagePerRow, Esc!EscTypeOK
<1>6. CASE Early
    <2>1. UNCHANGED lane
        BY <1>6 DEF Early, early, Suppress, Correlate, Investigate, RecordCrash,
            Attribute, ShadowProposal, Classify, Gate, ComposePlan, Notify
    <2> QED BY <1>0, <2>1
<1>7. CASE Polling \/ (\E v \in Vote : VoteArrives(v))
                   \/ (\E t \in {"vote", "budget", "recheck"} : TimerFires(t))
    <2>1. UNCHANGED lane
        BY <1>7 DEF Polling, later, RecordPending, SayProposed, TakeVote, PollExpires,
            StartRecheck, Recheck, RecordVote, ResolvePending, StandDown, VoteArrives,
            TimerFires
    <2> QED BY <1>0, <2>1
<1>8. CASE Acting \/ ClearRound \/ MarkTriageCleared \/ ObserveCollateral
                  \/ SyntheticTerminal
    <2>1. UNCHANGED lane
        BY <1>8 DEF Acting, RunPlan, PlanStep, PlanEnds, Arm, RefuseForward, Execute,
            Cancelled, Verify, SayOutcome, ClearRound, MarkTriageCleared,
            ObserveCollateral, SyntheticTerminal
    <2> QED BY <1>0, <2>1
<1>9. CASE UNCHANGED vars
    BY <1>0, <1>9 DEF vars
<1> QED BY <1>2, <1>3, <1>4, <1>5, <1>6, <1>7, <1>8, <1>9 DEF Next, Session, Ending

\* LaneInv is an invariant of the specification.
LEMMA LaneInvariance == Spec => []LaneInv
<1>1. Init => LaneInv
    <2> SUFFICES ASSUME Init PROVE LaneInv
        OBVIOUS
    <2>1. /\ queue = <<>> /\ pages = <<>> /\ batch = {} /\ marked = FALSE
          /\ dropped = {} /\ stoodDown = 0
        BY DEF Init, Esc!EscInit
    <2>2. Esc!EscTypeOK
        <3>1. queue \in Seq(Esc!Row) /\ pages \in Seq(Nat)
            BY <2>1
        <3>2. Len(pages) = Len(queue) /\ marked \in BOOLEAN /\ stoodDown \in Nat
            BY <2>1
        <3>3. batch \subseteq 1 .. Len(queue) /\ dropped \subseteq 1 .. Len(queue)
            BY <2>1
        <3> QED BY <3>1, <3>2, <3>3 DEF Esc!EscTypeOK
    <2> QED BY <2>1, <2>2 DEF LaneInv, OnePagePerRow
<1> QED BY <1>1, LaneStep, PTL DEF Spec

\* FireDue sends at most one page for a row of escalation_queue, whatever of
\* its store, its pager or its worker fails between the mark and the page, and
\* for any number of rows: no page storm.
THEOREM PagesOnce == Spec => []OnePagePerRow
<1>1. LaneInv => OnePagePerRow
    BY DEF LaneInv
<1> QED BY <1>1, LaneInvariance, PTL

-----------------------------------------------------------------------------
\* Every step of the session, the signals, the timers and the lane keeps the
\* types.
LEMMA PollTypedStep == PollTyped /\ [Next]_vars => PollTyped'
<1> SUFFICES ASSUME PollTyped, [Next]_vars PROVE PollTyped'
    OBVIOUS
<1> USE SessionAssumption DEF PollTyped, Executed,
    vars, decided, poll, answer, triage, ending, plan, lane, early, later, front, Fault, NoFault, Silent, Dies
<1>1. CASE Suppress
    BY <1>1 DEF Suppress
<1>2. CASE Correlate
    BY <1>2 DEF Correlate, Say
<1>3. CASE Investigate
    BY <1>3 DEF Investigate, Say
<1>4. CASE RecordCrash
    BY <1>4 DEF RecordCrash, Say
<1>5. CASE Attribute
    BY <1>5 DEF Attribute, Say
<1>6. CASE ShadowProposal
    BY <1>6 DEF ShadowProposal
<1>7. CASE Classify
    BY <1>7 DEF Classify
<1>8. CASE Gate
    BY <1>8 DEF Gate, Say
<1>9. CASE ComposePlan
    BY <1>9 DEF ComposePlan
<1>10. CASE Notify
    BY <1>10 DEF Notify
<1>11. CASE RecordPending
    BY <1>11 DEF RecordPending
<1>12. CASE SayProposed
    BY <1>12 DEF SayProposed, Say
<1>13. CASE TakeVote
    <2>1. votes' \in Seq(Vote) /\ Head(votes) \in Vote
        BY <1>13 DEF TakeVote
    <2>2. voter' \in {voter, Head(votes).by} /\ UNCHANGED <<decided, seen, fired>>
        BY <1>13 DEF TakeVote
    <2> QED BY <2>1, <2>2 DEF Vote
<1>14. CASE PollExpires
    BY <1>14 DEF PollExpires
<1>15. CASE StartRecheck
    BY <1>15 DEF StartRecheck
<1>16. CASE Recheck
    BY <1>16 DEF Recheck
<1>17. CASE RecordVote
    BY <1>17 DEF RecordVote
<1>18. CASE ResolvePending
    BY <1>18 DEF ResolvePending
<1>19. CASE StandDown
    BY <1>19 DEF StandDown, Say
<1>20. CASE RunPlan
    BY <1>20 DEF RunPlan
<1>21. CASE PlanStep
    BY <1>21 DEF PlanStep, Plan!PlanStep, Plan!AdmitPlan, Plan!StepExecutes,
        Plan!StepFails, Plan!StepErrs, Plan!Compensate, Plan!Fault
<1>22. CASE PlanEnds
    BY <1>22 DEF PlanEnds, Say
<1>23. CASE Arm
    BY <1>23 DEF Arm
<1>24. CASE RefuseForward
    BY <1>24 DEF RefuseForward, Say
<1>25. CASE Execute
    BY <1>25 DEF Execute
<1>26. CASE Cancelled
    BY <1>26 DEF Cancelled, Say
<1>27. CASE Verify
    BY <1>27 DEF Verify
<1>28. CASE SayOutcome
    BY <1>28 DEF SayOutcome, Say
<1>29. CASE ClearRound
    BY <1>29 DEF ClearRound, Debounced
<1>30. CASE MarkTriageCleared
    BY <1>30 DEF MarkTriageCleared
<1>31. CASE ObserveCollateral
    BY <1>31 DEF ObserveCollateral
<1>32. CASE ReconcileActivity
    BY <1>32 DEF ReconcileActivity, Ticket
<1>33. CASE SyntheticTerminal
    BY <1>33 DEF SyntheticTerminal, Say
<1>34. ASSUME NEW v \in Vote, VoteArrives(v) PROVE PollTyped'
    BY <1>34 DEF VoteArrives
<1>35. ASSUME NEW t \in {"vote", "budget", "recheck"}, TimerFires(t) PROVE PollTyped'
    BY <1>35 DEF TimerFires
<1>36. CASE JudgeEscalates
    BY <1>36 DEF JudgeEscalates
<1>37. CASE LanePass
    BY <1>37 DEF LanePass, Esc!Pass, Esc!FireDue, Esc!MarkFired, Esc!SignalRequeue,
        Esc!Fault, Esc!NoFault
<1>38. CASE LanePassDies
    BY <1>38 DEF LanePassDies, Esc!PassDies, Esc!Fault
<1>39. CASE UNCHANGED vars
    BY <1>39
<1> QED BY <1>1, <1>2, <1>3, <1>4, <1>5, <1>6, <1>7, <1>8, <1>9, <1>10, <1>11, <1>12,
    <1>13, <1>14, <1>15, <1>16, <1>17, <1>18, <1>19, <1>20, <1>21, <1>22, <1>23, <1>24,
    <1>25, <1>26, <1>27, <1>28, <1>29, <1>30, <1>31, <1>32, <1>33, <1>34, <1>35, <1>36,
    <1>37, <1>38, <1>39
    DEF Next, Session, Early, Polling, Acting, Ending

\* The debounce compares numbers.
LEMMA DebounceTyped ==
    ASSUME Counted, NEW r
    PROVE  (Debounced(r) >= ClearReadings) \in BOOLEAN
<1>1. Debounced(r) \in Nat /\ ClearReadings \in Nat
    BY SessionAssumption DEF Counted, Debounced
<1> QED BY <1>1

\* recordTriage writes flags.
LEMMA SayTyped ==
    ASSUME RecordTyped, NEW outcome, Say(outcome)
    PROVE  rowMutated' \in BOOLEAN /\ said' \in BOOLEAN
<1>1. CASE rowMutated' = rowMutated
    BY <1>1, Zenon DEF Say, RecordTyped
<1>2. CASE rowMutated' = Mutated
    <2>1. Mutated \in BOOLEAN
        BY DEF Mutated, Executed
    <2> QED BY <1>2, <2>1, Zenon DEF Say
<1> QED BY <1>1, <1>2, Zenon DEF Say

\* The same for the records, the clear and the ticket.
LEMMA RecordTypedStep == PollTyped /\ RecordTyped /\ Counted /\ [Next]_vars => RecordTyped'
<1> SUFFICES ASSUME PollTyped, RecordTyped, Counted, [Next]_vars PROVE RecordTyped'
    OBVIOUS
<1>0. ASSUME NEW outcome, Say(outcome) PROVE rowMutated' \in BOOLEAN /\ said' \in BOOLEAN
    BY <1>0, SayTyped
<1> USE <1>0 DEF RecordTyped, Executed,
    vars, decided, poll, answer, triage, ending, plan, lane, early, later, front, Fault, NoFault, Silent, Dies
<1>1. CASE Suppress
    BY <1>1 DEF Suppress
<1>2. CASE Correlate
    BY <1>2 DEF Correlate
<1>3. CASE Investigate
    BY <1>3 DEF Investigate
<1>4. CASE RecordCrash
    BY <1>4 DEF RecordCrash
<1>5. CASE Attribute
    BY <1>5 DEF Attribute
<1>6. CASE ShadowProposal
    BY <1>6 DEF ShadowProposal
<1>7. CASE Classify
    BY <1>7 DEF Classify
<1>8. CASE Gate
    BY <1>8 DEF Gate
<1>9. CASE ComposePlan
    BY <1>9 DEF ComposePlan
<1>10. CASE Notify
    BY <1>10 DEF Notify
<1>11. CASE RecordPending
    BY <1>11 DEF RecordPending
<1>12. CASE SayProposed
    BY <1>12 DEF SayProposed
<1>13. CASE TakeVote
    BY <1>13 DEF TakeVote
<1>14. CASE PollExpires
    BY <1>14 DEF PollExpires
<1>15. CASE StartRecheck
    BY <1>15 DEF StartRecheck
<1>16. CASE Recheck
    BY <1>16 DEF Recheck
<1>17. CASE RecordVote
    BY <1>17 DEF RecordVote
<1>18. CASE ResolvePending
    BY <1>18 DEF ResolvePending
<1>19. CASE StandDown
    BY <1>19 DEF StandDown
<1>20. CASE RunPlan
    BY <1>20 DEF RunPlan
<1>21. CASE PlanStep
    BY <1>21 DEF PlanStep, Plan!PlanStep, Plan!AdmitPlan, Plan!StepExecutes,
        Plan!StepFails, Plan!StepErrs, Plan!Compensate, Plan!Fault
<1>22. CASE PlanEnds
    BY <1>22 DEF PlanEnds
<1>23. CASE Arm
    BY <1>23 DEF Arm
<1>24. CASE RefuseForward
    BY <1>24 DEF RefuseForward
<1>25. CASE Execute
    BY <1>25 DEF Execute
<1>26. CASE Cancelled
    BY <1>26 DEF Cancelled
<1>27. CASE Verify
    BY <1>27 DEF Verify
<1>28. CASE SayOutcome
    BY <1>28 DEF SayOutcome
<1>29. CASE ClearRound
    <2>1. PICK r : clear' = (Debounced(r) >= ClearReadings)
        BY <1>29, Zenon DEF ClearRound
    <2>2. (Debounced(r) >= ClearReadings) \in BOOLEAN
        BY DebounceTyped
    <2>3. UNCHANGED <<triage, exec, acted, collateral, ticket, pending>>
        BY <1>29 DEF ClearRound
    <2>4. clear' \in BOOLEAN
        BY <2>1, <2>2, Zenon
    <2> HIDE <1>0
    <2> QED BY <2>3, <2>4
<1>30. CASE MarkTriageCleared
    BY <1>30 DEF MarkTriageCleared
<1>31. CASE ObserveCollateral
    BY <1>31 DEF ObserveCollateral
<1>32. CASE ReconcileActivity
    BY <1>32 DEF ReconcileActivity, Ticket
<1>33. CASE SyntheticTerminal
    BY <1>33 DEF SyntheticTerminal
<1>34. ASSUME NEW v \in Vote, VoteArrives(v) PROVE RecordTyped'
    BY <1>34 DEF VoteArrives
<1>35. ASSUME NEW t \in {"vote", "budget", "recheck"}, TimerFires(t) PROVE RecordTyped'
    BY <1>35 DEF TimerFires
<1>36. CASE JudgeEscalates
    BY <1>36 DEF JudgeEscalates
<1>37. CASE LanePass
    BY <1>37 DEF LanePass, Esc!Pass, Esc!FireDue, Esc!MarkFired, Esc!SignalRequeue,
        Esc!Fault, Esc!NoFault
<1>38. CASE LanePassDies
    BY <1>38 DEF LanePassDies, Esc!PassDies, Esc!Fault
<1>39. CASE UNCHANGED vars
    BY <1>39
<1> QED BY <1>1, <1>2, <1>3, <1>4, <1>5, <1>6, <1>7, <1>8, <1>9, <1>10, <1>11, <1>12,
    <1>13, <1>14, <1>15, <1>16, <1>17, <1>18, <1>19, <1>20, <1>21, <1>22, <1>23, <1>24,
    <1>25, <1>26, <1>27, <1>28, <1>29, <1>30, <1>31, <1>32, <1>33, <1>34, <1>35, <1>36,
    <1>37, <1>38, <1>39
    DEF Next, Session, Early, Polling, Acting, Ending

\* The quiet readings and the failures are counted.
LEMMA CountedStep == Counted /\ [Next]_vars => Counted'
<1> SUFFICES ASSUME Counted, [Next]_vars PROVE Counted'
    OBVIOUS
<1> USE SessionAssumption DEF Counted, Executed,
    vars, decided, poll, answer, triage, ending, plan, lane, early, later, front, Fault, NoFault, Silent, Dies
<1>1. CASE Suppress
    BY <1>1 DEF Suppress
<1>2. CASE Correlate
    BY <1>2 DEF Correlate, Say
<1>3. CASE Investigate
    BY <1>3 DEF Investigate, Say
<1>4. CASE RecordCrash
    BY <1>4 DEF RecordCrash, Say
<1>5. CASE Attribute
    BY <1>5 DEF Attribute, Say
<1>6. CASE ShadowProposal
    BY <1>6 DEF ShadowProposal
<1>7. CASE Classify
    BY <1>7 DEF Classify
<1>8. CASE Gate
    BY <1>8 DEF Gate, Say
<1>9. CASE ComposePlan
    BY <1>9 DEF ComposePlan
<1>10. CASE Notify
    BY <1>10 DEF Notify
<1>11. CASE RecordPending
    BY <1>11 DEF RecordPending
<1>12. CASE SayProposed
    BY <1>12 DEF SayProposed, Say
<1>13. CASE TakeVote
    BY <1>13 DEF TakeVote
<1>14. CASE PollExpires
    BY <1>14 DEF PollExpires
<1>15. CASE StartRecheck
    BY <1>15 DEF StartRecheck
<1>16. CASE Recheck
    BY <1>16 DEF Recheck
<1>17. CASE RecordVote
    BY <1>17 DEF RecordVote
<1>18. CASE ResolvePending
    BY <1>18 DEF ResolvePending
<1>19. CASE StandDown
    BY <1>19 DEF StandDown, Say
<1>20. CASE RunPlan
    BY <1>20 DEF RunPlan
<1>21. CASE PlanStep
    BY <1>21 DEF PlanStep, Plan!PlanStep, Plan!AdmitPlan, Plan!StepExecutes,
        Plan!StepFails, Plan!StepErrs, Plan!Compensate, Plan!Fault
<1>22. CASE PlanEnds
    BY <1>22 DEF PlanEnds, Say
<1>23. CASE Arm
    BY <1>23 DEF Arm
<1>24. CASE RefuseForward
    BY <1>24 DEF RefuseForward, Say
<1>25. CASE Execute
    BY <1>25 DEF Execute
<1>26. CASE Cancelled
    BY <1>26 DEF Cancelled, Say
<1>27. CASE Verify
    BY <1>27 DEF Verify
<1>28. CASE SayOutcome
    BY <1>28 DEF SayOutcome, Say
<1>29. CASE ClearRound
    BY <1>29 DEF ClearRound, Debounced
<1>30. CASE MarkTriageCleared
    BY <1>30 DEF MarkTriageCleared
<1>31. CASE ObserveCollateral
    BY <1>31 DEF ObserveCollateral
<1>32. CASE ReconcileActivity
    <2>1. quiet' = quiet /\ (NoFault \/ Fault)
        BY <1>32 DEF ReconcileActivity
    <2> QED BY <2>1
<1>33. CASE SyntheticTerminal
    BY <1>33 DEF SyntheticTerminal, Say
<1>34. ASSUME NEW v \in Vote, VoteArrives(v) PROVE Counted'
    BY <1>34 DEF VoteArrives
<1>35. ASSUME NEW t \in {"vote", "budget", "recheck"}, TimerFires(t) PROVE Counted'
    BY <1>35 DEF TimerFires
<1>36. CASE JudgeEscalates
    BY <1>36 DEF JudgeEscalates
<1>37. CASE LanePass
    BY <1>37 DEF LanePass, Esc!Pass, Esc!FireDue, Esc!MarkFired, Esc!SignalRequeue,
        Esc!Fault, Esc!NoFault
<1>38. CASE LanePassDies
    BY <1>38 DEF LanePassDies, Esc!PassDies, Esc!Fault
<1>39. CASE UNCHANGED vars
    BY <1>39
<1> QED BY <1>1, <1>2, <1>3, <1>4, <1>5, <1>6, <1>7, <1>8, <1>9, <1>10, <1>11, <1>12,
    <1>13, <1>14, <1>15, <1>16, <1>17, <1>18, <1>19, <1>20, <1>21, <1>22, <1>23, <1>24,
    <1>25, <1>26, <1>27, <1>28, <1>29, <1>30, <1>31, <1>32, <1>33, <1>34, <1>35, <1>36,
    <1>37, <1>38, <1>39
    DEF Next, Session, Early, Polling, Acting, Ending

\* The session, its poll, its records and the queue hold what they may, and no
\* more failures happen than the bound: in particular the pages and the rows of
\* the queue (escalation_queue) stay in step, and a batch names existing rows.
THEOREM TypeCorrect == Spec => []TypeOK
<1>1. Init => PollTyped /\ RecordTyped /\ Counted
    <2> SUFFICES ASSUME Init PROVE PollTyped /\ RecordTyped /\ Counted
        OBVIOUS
    <2>1. PollTyped
        BY DEF Init, PollTyped
    <2>2. RecordTyped
        BY DEF Init, RecordTyped
    <2>3. Counted
        BY SessionAssumption DEF Init, Counted
    <2> QED BY <2>1, <2>2, <2>3
<1>2. PollTyped /\ RecordTyped /\ Counted /\ LaneInv => TypeOK
    BY DEF TypeOK, LaneInv
<1> QED BY <1>1, <1>2, PollTypedStep, RecordTypedStep, CountedStep, LaneInvariance, PTL DEF Spec
=============================================================================
