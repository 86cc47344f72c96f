----------------------- MODULE MutationBreakerProofs -----------------------
(***************************************************************************)
(* MutationBreaker is type correct; at a threshold of one, only a re-arm   *)
(* closes an open breaker, and a Trip that goes on without forcing Shadow  *)
(* was overtaken by one.                                                   *)
(***************************************************************************)
EXTENDS MutationBreaker, TLAPS

\* What a failure leaves is a record, and an open one unless it was a closed
\* one below the threshold.
LEMMA FailureRecord ==
    ASSUME NEW r \in Record
    PROVE  /\ AfterFailure(r) \in Record
           /\ FailureThreshold = 1 => AfterFailure(r).state = Open
  BY BreakerAssumption DEF AfterFailure, Record, Rec, Open, Closed, HalfOpen

LEMMA FreshRecord == Fresh \in Record /\ Fresh.state = Closed
  BY DEF Fresh, Rec, Record, Closed

\* Every step keeps the state well typed: the durable record of the breaker,
\* the records in flight of Trip and Rearm, and the modes.
THEOREM TypeCorrect == Spec => []TypeOK
<1>1. Init => TypeOK
  BY FreshRecord DEF Init, TypeOK, Idle, At
<1>2. TypeOK /\ [Next]_vars => TypeOK'
  <2> SUFFICES ASSUME TypeOK, [Next]_vars PROVE TypeOK'
    OBVIOUS
  <2> USE FreshRecord, MutationAssumption DEF TypeOK
  <2>1. ASSUME NEW t \in Task,
               GateTripped(t) \/ GateForce(t) \/ GatePass(t) \/ GateMode(t)
        PROVE  TypeOK'
    BY <2>1 DEF GateTripped, GateForce, GatePass, GateMode, ReadsOpen, Fault,
                Move, At, ForceShadow
  <2>2. ASSUME NEW t \in Task, EffectMatches(t) \/ EffectDeviates(t)
        PROVE  TypeOK'
    BY <2>2 DEF EffectMatches, EffectDeviates, Move, At
  <2>3. ASSUME NEW t \in Task, TripLoad(t) PROVE TypeOK'
    BY <2>3 DEF TripLoad, TripStoreError, Move, At, Fault
  <2>4. ASSUME NEW t \in Task, TripSave(t) PROVE TypeOK'
    <3> DEFINE after == AfterFailure(task[t].loaded)
    <3>1. after \in Record
      BY FailureRecord
    <3> HIDE DEF after
    <3>2. /\ row' \in {row, after}
          /\ TripStoreError(t)
             \/ (Move(t, "recorded", Fresh) /\ UNCHANGED outcome)
          /\ Fault \/ UNCHANGED faults
          /\ UNCHANGED <<acting, stored, resume, rearmed, cause, runs, resumes>>
      BY <2>4 DEF TripSave, after
    <3>3. row' \in Record
      BY <3>1, <3>2
    <3>4. task' \in [Task -> [pc : {"idle", "tripped", "gated", "effect",
                                    "deviated", "recording", "recorded",
                                    "halting"},
                              loaded : Record]] /\ UNCHANGED outcome
      BY <3>2 DEF TripStoreError, Move, At
    <3>5. faults' \in Nat
      BY <3>2 DEF Fault
    <3>6. /\ acting' = acting /\ stored' = stored /\ resume' = resume
          /\ rearmed' = rearmed /\ cause' = cause /\ runs' = runs
          /\ resumes' = resumes
      BY <3>2
    <3> HIDE DEF TypeOK
    <3> QED
      BY TypeOK, <3>3, <3>4, <3>5, <3>6 DEF TypeOK
  <2>5. ASSUME NEW t \in Task, TripSnapshot(t) PROVE TypeOK'
    <3>1. faults' \in Nat
      BY <2>5 DEF TripSnapshot, ReadsOpen, Fault
    <3>2. CASE Move(t, "halting", Fresh) /\ UNCHANGED outcome
      BY <2>5, <3>1, <3>2 DEF TripSnapshot, Move, At
    <3>3. CASE /\ Move(t, "idle", Fresh)
               /\ outcome' = [outcome EXCEPT ![t] = "continued"]
      BY <2>5, <3>1, <3>3 DEF TripSnapshot, Move, At
    <3> QED
      BY <2>5, <3>2, <3>3 DEF TripSnapshot
  <2>10. ASSUME NEW t \in Task, TripForce(t) PROVE TypeOK'
    BY <2>10 DEF TripForce, ForceShadow, Move, At
  <2>6. ASSUME NEW w \in Worker, Escalate(w) \/ RearmLoad(w)
        PROVE  TypeOK'
    BY <2>6 DEF Escalate, RearmLoad, Idle, At, Fault
  <2>7. ASSUME NEW w \in Worker, RearmSave(w) PROVE TypeOK'
    <3>1. row' \in Record
      BY <2>7 DEF RearmSave, AfterReset
    <3>2. rearmed' \subseteq Task
      BY <2>7 DEF RearmSave
    <3> QED
      BY <2>7, <3>1, <3>2 DEF RearmSave, Idle, At, Fault
  <2>8. ASSUME NEW w \in Worker, Resync(w) \/ Restart(w) PROVE TypeOK'
    BY <2>8 DEF Resync, Restart, Idle, At, Fault
  <2>9. CASE UNCHANGED vars
    BY <2>9 DEF vars
  <2> QED
    BY <2>1, <2>2, <2>3, <2>4, <2>5, <2>6, <2>7, <2>8, <2>9, <2>10 DEF Next
<1> QED
  BY <1>1, <1>2, PTL DEF Spec

\* At the default threshold of one, only an operator's re-arm takes the
\* shared breaker out of open: whatever a worker loaded, the failure it saves
\* is an open record.
THEOREM OnlyRearm ==
    ASSUME FailureThreshold = 1
    PROVE  Spec => OnlyRearmCloses
<1> DEFINE Closes ==
      row.state = Open /\ row'.state # Open
        => \E w \in Worker :
            resume[w].pc = "resetting" /\ resume'[w].pc = "idle"
<1>1. TypeOK /\ [Next]_vars => [Closes]_vars
  <2> SUFFICES ASSUME TypeOK, Next, row.state = Open, row'.state # Open
               PROVE  \E w \in Worker :
                        resume[w].pc = "resetting" /\ resume'[w].pc = "idle"
    OBVIOUS
  <2>1. ASSUME NEW t \in Task, TripSave(t) PROVE FALSE
    <3>1. AfterFailure(task[t].loaded).state = Open
      BY FailureRecord DEF TypeOK
    <3> QED
      BY <2>1, <3>1 DEF TripSave
  <2>2. ASSUME NEW t \in Task,
               \/ GateTripped(t) \/ GateForce(t) \/ GatePass(t)
               \/ GateMode(t) \/ EffectMatches(t) \/ EffectDeviates(t)
               \/ TripLoad(t) \/ TripSnapshot(t) \/ TripForce(t)
        PROVE  FALSE
    BY <2>2 DEF GateTripped, GateForce, GatePass, GateMode, EffectMatches,
                EffectDeviates, TripLoad, TripSnapshot, TripForce
  <2>3. ASSUME NEW w \in Worker,
               Escalate(w) \/ RearmLoad(w) \/ Resync(w) \/ Restart(w)
        PROVE  FALSE
    BY <2>3 DEF Escalate, RearmLoad, Resync, Restart
  <2>4. ASSUME NEW w \in Worker, RearmSave(w)
        PROVE  resume[w].pc = "resetting" /\ resume'[w].pc = "idle"
    BY <2>4 DEF RearmSave, TypeOK, Idle, At
  <2> QED
    BY <2>1, <2>2, <2>3, <2>4 DEF Next
<1> QED
  BY <1>1, TypeCorrect, PTL DEF Spec, OnlyRearmCloses

\* Every step keeps the facts about a Trip in progress.
LEMMA HaltStep ==
    ASSUME FailureThreshold = 1, HaltInv, TypeOK', [Next]_vars
    PROVE  HaltInv'
<1> USE MutationAssumption
<1>0. TypeOK /\ TripStands /\ DeviationHalts
  BY DEF HaltInv
<1> DEFINE Parts == TripStands /\ DeviationHalts
<1>1. ASSUME NEW t \in Task,
             \/ GateTripped(t) \/ GateForce(t) \/ GatePass(t) \/ GateMode(t)
             \/ EffectMatches(t)
      PROVE  Parts'
  <2>1. /\ UNCHANGED <<row, rearmed, outcome>>
        /\ \E pc \in {"idle", "tripped", "gated", "effect"} : Move(t, pc, Fresh)
    BY <1>1 DEF GateTripped, GateForce, GatePass, GateMode, EffectMatches
  <2> QED
    BY <1>0, <2>1 DEF Move, At, TypeOK, TripStands, DeviationHalts
<1>10. ASSUME NEW t \in Task, EffectDeviates(t) PROVE Parts'
  BY <1>0, <1>10 DEF EffectDeviates, Move, At, TypeOK, TripStands, DeviationHalts
<1>2. ASSUME NEW t \in Task, TripLoad(t) PROVE Parts'
  BY <1>0, <1>2 DEF TripLoad, TripStoreError, Move, At, TypeOK, TripStands,
                    DeviationHalts
<1>3. ASSUME NEW t \in Task, TripSave(t) PROVE Parts'
  <2> DEFINE after == AfterFailure(task[t].loaded)
  <2>1. after.state = Open
    BY <1>0, FailureRecord DEF TypeOK
  <2>2. task[t].loaded.state # Open => after # task[t].loaded
    BY <2>1
  <2> HIDE DEF after
  <2>3. /\ task[t].pc = "recording"
        /\ UNCHANGED <<rearmed, outcome>>
        /\ \/ row' = after
           \/ row' = row /\ after = task[t].loaded
           \/ row' = row /\ Move(t, "halting", Fresh)
        /\ Move(t, "recorded", Fresh) \/ Move(t, "halting", Fresh)
    BY <1>3 DEF TripSave, TripStoreError, after
  <2>4. CASE row' = after
    BY <1>0, <2>1, <2>3, <2>4 DEF Move, At, TypeOK, TripStands, DeviationHalts
  <2>5. CASE row' = row /\ after = task[t].loaded
    BY <1>0, <2>1, <2>3, <2>5 DEF Move, At, TypeOK, TripStands, DeviationHalts
  <2>6. CASE row' = row /\ Move(t, "halting", Fresh)
    BY <1>0, <2>3, <2>6 DEF Move, At, TypeOK, TripStands, DeviationHalts
  <2> QED
    BY <2>3, <2>4, <2>5, <2>6
<1>4. ASSUME NEW t \in Task, TripSnapshot(t) PROVE Parts'
  <2>1. /\ task[t].pc = "recorded"
        /\ UNCHANGED <<row, rearmed>>
        /\ \/ Move(t, "halting", Fresh) /\ UNCHANGED outcome
           \/ /\ row.state # Open /\ Move(t, "idle", Fresh)
              /\ outcome' = [outcome EXCEPT ![t] = "continued"]
    BY <1>4 DEF TripSnapshot
  <2>2. TripStands'
    BY <1>0, <2>1 DEF Move, At, TypeOK, TripStands
  <2>3. DeviationHalts'
    BY <1>0, <2>1 DEF TypeOK, TripStands, DeviationHalts
  <2> QED
    BY <2>2, <2>3
<1>5. ASSUME NEW t \in Task, TripForce(t) PROVE Parts'
  BY <1>0, <1>5 DEF TripForce, Move, At, TypeOK, TripStands, DeviationHalts
<1>6. ASSUME NEW w \in Worker, Escalate(w) \/ RearmLoad(w) \/ Resync(w)
      PROVE  Parts'
  BY <1>0, <1>6 DEF Escalate, RearmLoad, Resync, TripStands, DeviationHalts
<1>7. ASSUME NEW w \in Worker, RearmSave(w) PROVE Parts'
  <2>1. /\ UNCHANGED <<task, outcome>>
        /\ rearmed \subseteq rearmed'
        /\ row' # row =>
            \A t \in Task : task[t].pc \in {"recording", "recorded"} => t \in rearmed'
    BY <1>7 DEF RearmSave
  <2> QED
    BY <1>0, <2>1 DEF TripStands, DeviationHalts
<1>8. ASSUME NEW w \in Worker, Restart(w) PROVE Parts'
  <2>1. /\ UNCHANGED <<row, rearmed, outcome>>
        /\ \A t \in Task : task'[t] = task[t] \/ task'[t].pc = "idle"
    BY <1>8 DEF Restart, Idle, At
  <2> QED
    BY <1>0, <2>1 DEF TripStands, DeviationHalts
<1>9. ASSUME UNCHANGED vars PROVE Parts'
  BY <1>0, <1>9 DEF vars, TripStands, DeviationHalts
<1> QED
  BY <1>1, <1>2, <1>3, <1>4, <1>5, <1>6, <1>7, <1>8, <1>9, <1>10
  DEF Next, HaltInv

\* At the default threshold of one, a deviation that did not force Shadow was
\* overtaken by an operator's re-arm between its record and its re-read, for
\* any number of workers, actuations, store errors and restarts.
THEOREM Halts ==
    ASSUME FailureThreshold = 1
    PROVE  Spec => []DeviationHalts
<1>1. Init => HaltInv
  <2> SUFFICES ASSUME Init PROVE HaltInv
    OBVIOUS
  <2>1. TypeOK
    BY FreshRecord DEF Init, TypeOK, Idle, At
  <2> QED
    BY <2>1 DEF Init, HaltInv, TripStands, DeviationHalts, Idle, At
<1>2. HaltInv /\ TypeOK' /\ [Next]_vars => HaltInv'
  BY HaltStep
<1>3. HaltInv => DeviationHalts
  BY DEF HaltInv
<1> QED
  BY <1>1, <1>2, <1>3, TypeCorrect, PTL DEF Spec
=============================================================================
