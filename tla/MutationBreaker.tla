-------------------------- MODULE MutationBreaker --------------------------
(***************************************************************************)
(* The armed mutation breaker (core/safety/mutation_breaker.go over        *)
(* core/breaker and core/db/breaker_write.go): the deviation of one        *)
(* actuation halts mutation in every worker that reads the shared row, and *)
(* only an operator's escalation re-arms it.                               *)
(*                                                                         *)
(* A worker runs several actuations at once.  Each passes the breaker gate *)
(* and the mode gate of the interceptor, executes, and on a deviation      *)
(* calls Trip, which loads, saves and then re-reads the row.  The          *)
(* breaker's mutex covers one load-save of one worker: it orders neither   *)
(* two workers nor Trip's save and its re-read.  The mode is the one of    *)
(* ModeControl, reduced to whether a worker may actuate; an escalation     *)
(* activates it before it re-arms the breaker.                             *)
(***************************************************************************)
EXTENDS Breaker

CONSTANTS
    Worker,      \* worker processes
    Task,        \* actuation activities
    Home,        \* the worker of an actuation
    MaxRuns,     \* bound on actuations started
    MaxResumes,  \* bound on operator escalations
    MaxFaults    \* bound on store errors and restarts

ASSUME MutationAssumption ==
    /\ Home \in [Task -> Worker]
    /\ MaxRuns \in Nat
    /\ MaxResumes \in Nat
    /\ MaxFaults \in Nat

VARIABLES
    row,       \* the durable breaker record
    acting,    \* the workers whose cached mode may actuate
    stored,    \* the durable mode: "acting" or "Shadow"
    task,      \* per actuation: how far it is, and the record it loaded
    resume,    \* per worker: the Rearm of an escalation in progress
    rearmed,   \* actuations a re-arm overtook since their deviation
    outcome,   \* per actuation: what its last Trip did
    cause,     \* what forced Shadow since the last escalation
    runs,      \* actuations started
    resumes,   \* escalations started
    faults     \* store errors and restarts so far

vars == <<row, acting, stored, task, resume, rearmed, outcome, cause, runs,
          resumes, faults>>

At(pc, r) == [pc |-> pc, loaded |-> r]
Idle == At("idle", Fresh)

\* What the record, the gates and Trip may hold; a record written by Reset or
\* by a failure is one of the three states.
TypeOK ==
    /\ row \in Record
    /\ acting \subseteq Worker
    /\ stored \in {"acting", "Shadow"}
    /\ task \in [Task -> [pc : {"idle", "tripped", "gated", "effect",
                                "deviated", "recording", "recorded",
                                "halting"},
                          loaded : Record]]
    /\ resume \in [Worker -> [pc : {"idle", "rearming", "resetting"},
                              loaded : Record]]
    /\ rearmed \subseteq Task
    /\ outcome \in [Task -> {"none", "halted", "continued"}]
    /\ cause \in {"none", "trip", "gate"}
    /\ runs \in Nat /\ resumes \in Nat /\ faults \in Nat

Init ==
    /\ row = Fresh
    /\ acting = Worker
    /\ stored = "acting"
    /\ task = [t \in Task |-> Idle]
    /\ resume = [w \in Worker |-> Idle]
    /\ rearmed = {}
    /\ outcome = [t \in Task |-> "none"]
    /\ cause = "none"
    /\ runs = 0 /\ resumes = 0 /\ faults = 0

Fault == faults < MaxFaults /\ faults' = faults + 1

\* The breaker's mutex is free in worker w.
LockFree(w) ==
    /\ resume[w].pc # "resetting"
    /\ \A t \in Task : Home[t] = w => task[t].pc # "recording"

\* The mode controller's lock is free in worker w: no escalation holds it.
ModeLockFree(w) == resume[w].pc = "idle"

Move(t, pc, r) == task' = [task EXCEPT ![t] = At(pc, r)]

\* Chokepoint.ForceShadow in worker w: the cache first, then the durable row.
ForceShadow(w, why) ==
    /\ acting' = acting \ {w}
    /\ stored' = "Shadow"
    /\ cause' = why

\* State: a row that cannot be read reads open.
ReadsOpen ==
    \/ row.state = Open /\ UNCHANGED faults
    \/ Fault

-----------------------------------------------------------------------------
\* The breaker gate, open.
GateTripped(t) ==
    /\ task[t].pc = "idle" /\ runs < MaxRuns
    /\ LockFree(Home[t])
    /\ ReadsOpen
    /\ runs' = runs + 1
    /\ Move(t, "tripped", Fresh)
    /\ UNCHANGED <<row, acting, stored, resume, rearmed, outcome, cause,
                   resumes>>

\* The refusal of the open gate forces the mode to Shadow.
GateForce(t) ==
    /\ task[t].pc = "tripped"
    /\ ModeLockFree(Home[t])
    /\ Move(t, "idle", Fresh)
    /\ ForceShadow(Home[t], "gate")
    /\ UNCHANGED <<row, resume, rearmed, outcome, runs, resumes, faults>>

\* The breaker gate, not open.
GatePass(t) ==
    /\ task[t].pc = "idle" /\ runs < MaxRuns
    /\ LockFree(Home[t])
    /\ row.state # Open
    /\ runs' = runs + 1
    /\ Move(t, "gated", Fresh)
    /\ UNCHANGED <<row, acting, stored, resume, rearmed, outcome, cause,
                   resumes, faults>>

\* GuardMutation at the mode chokepoint, a later gate of the same chain.
GateMode(t) ==
    /\ task[t].pc = "gated" /\ ModeLockFree(Home[t])
    /\ IF Home[t] \in acting THEN Move(t, "effect", Fresh)
                             ELSE Move(t, "idle", Fresh)
    /\ UNCHANGED <<row, acting, stored, resume, rearmed, outcome, cause, runs,
                   resumes, faults>>

\* The effect ended without a trip: it verified, failed to run or changed
\* nothing.
EffectMatches(t) ==
    /\ task[t].pc = "effect"
    /\ Move(t, "idle", Fresh)
    /\ UNCHANGED <<row, acting, stored, resume, rearmed, outcome, cause, runs,
                   resumes, faults>>

\* The effect ran and deviated, or left a gap in the chain: Trip is called.
EffectDeviates(t) ==
    /\ task[t].pc = "effect"
    /\ Move(t, "deviated", Fresh)
    /\ rearmed' = rearmed \ {t}
    /\ outcome' = [outcome EXCEPT ![t] = "none"]
    /\ UNCHANGED <<row, acting, stored, resume, cause, runs, resumes, faults>>

\* Mutant: a store error swallows the deviation.
TripStoreError_Swallowed(t) ==
    /\ Move(t, "idle", Fresh)
    /\ outcome' = [outcome EXCEPT ![t] = "continued"]

\* A store error of either half of RecordFailure fails closed.
TripStoreError(t) ==
    /\ Move(t, "halting", Fresh)
    /\ UNCHANGED outcome

\* Trip, RecordFailure: the load, under the mutex.
TripLoad(t) ==
    /\ task[t].pc = "deviated" /\ LockFree(Home[t])
    /\ \/ /\ Move(t, "recording", row)
          /\ UNCHANGED <<outcome, faults>>
       \/ /\ Fault
          /\ TripStoreError(t)
    /\ UNCHANGED <<row, acting, stored, resume, rearmed, cause, runs, resumes>>

\* Trip, RecordFailure: the save, if the record changed, ends the mutex.
TripSave(t) ==
    /\ task[t].pc = "recording"
    /\ LET after == AfterFailure(task[t].loaded) IN
       \/ /\ row' = IF after = task[t].loaded THEN row ELSE after
          /\ Move(t, "recorded", Fresh)
          /\ UNCHANGED <<outcome, faults>>
       \/ /\ after # task[t].loaded
          /\ Fault
          /\ row' \in {row, after}    \* lost, or landed and reported lost
          /\ TripStoreError(t)
    /\ UNCHANGED <<acting, stored, resume, rearmed, cause, runs, resumes>>

\* Trip, Snapshot: a second read, under the mutex again.  Open or unreadable
\* goes on to force Shadow; anything else returns without a halt.
TripSnapshot(t) ==
    /\ task[t].pc = "recorded" /\ LockFree(Home[t])
    /\ \/ /\ ReadsOpen
          /\ Move(t, "halting", Fresh)
          /\ UNCHANGED outcome
       \/ /\ row.state # Open
          /\ outcome' = [outcome EXCEPT ![t] = "continued"]
          /\ Move(t, "idle", Fresh)
          /\ UNCHANGED faults
    /\ UNCHANGED <<row, acting, stored, resume, rearmed, cause, runs, resumes>>

\* Trip forces Shadow and records the trip.
TripForce(t) ==
    /\ task[t].pc = "halting" /\ ModeLockFree(Home[t])
    /\ ForceShadow(Home[t], "trip")
    /\ outcome' = [outcome EXCEPT ![t] = "halted"]
    /\ Move(t, "idle", Fresh)
    /\ UNCHANGED <<row, resume, rearmed, runs, resumes, faults>>

-----------------------------------------------------------------------------
\* Transition into an actuating mode: audited, saved and activated, with the
\* re-arm of the breaker still to come.
Escalate(w) ==
    /\ ModeLockFree(w) /\ resumes < MaxResumes
    /\ resumes' = resumes + 1
    /\ acting' = acting \union {w}
    /\ stored' = "acting"
    /\ cause' = "none"
    /\ resume' = [resume EXCEPT ![w] = At("rearming", Fresh)]
    /\ UNCHANGED <<row, task, rearmed, outcome, runs, faults>>

\* breakerRearmer.Rearm: the ledger append, then Reset's load.  A failure of
\* either leaves the breaker as it is.
RearmLoad(w) ==
    /\ resume[w].pc = "rearming" /\ LockFree(w)
    /\ \/ /\ resume' = [resume EXCEPT ![w] = At("resetting", row)]
          /\ UNCHANGED faults
       \/ /\ resume' = [resume EXCEPT ![w] = Idle]
          /\ Fault
    /\ UNCHANGED <<row, acting, stored, task, rearmed, outcome, cause, runs,
                   resumes>>

\* Reset's save, unless the record was closed and clean already.
RearmSave(w) ==
    /\ resume[w].pc = "resetting"
    /\ resume' = [resume EXCEPT ![w] = Idle]
    /\ LET after == AfterReset(resume[w].loaded) IN
       /\ \/ /\ row' = IF after = resume[w].loaded THEN row ELSE after
             /\ UNCHANGED faults
          \/ /\ after # resume[w].loaded
             /\ row' \in {row, after}
             /\ Fault
    /\ rearmed' = rearmed \union
                    (IF row' # row
                     THEN {t \in Task : task[t].pc \in {"recording", "recorded"}}
                     ELSE {})
    /\ UNCHANGED <<acting, stored, task, outcome, cause, runs, resumes>>

-----------------------------------------------------------------------------
\* The ticker of a worker picks up the mode another worker's kill or
\* escalation made durable (ModeControl, Resync).
Resync(w) ==
    /\ ModeLockFree(w)
    /\ acting' = IF stored = "acting" THEN acting \union {w} ELSE acting \ {w}
    /\ UNCHANGED <<row, stored, task, resume, rearmed, outcome, cause, runs,
                   resumes, faults>>

\* Worker w dies and restarts with the stored mode: its actuations, a Trip
\* among them, and an escalation that had yet to re-arm are gone.
Restart(w) ==
    /\ Fault
    /\ acting' = IF stored = "acting" THEN acting \union {w} ELSE acting \ {w}
    /\ task' = [t \in Task |-> IF Home[t] = w THEN Idle ELSE task[t]]
    /\ resume' = [resume EXCEPT ![w] = Idle]
    /\ UNCHANGED <<row, stored, rearmed, outcome, cause, runs, resumes>>

Next ==
    \/ \E t \in Task :
        \/ GateTripped(t) \/ GateForce(t) \/ GatePass(t) \/ GateMode(t)
        \/ EffectMatches(t) \/ EffectDeviates(t)
        \/ TripLoad(t) \/ TripSave(t) \/ TripSnapshot(t) \/ TripForce(t)
    \/ \E w \in Worker :
        \/ Escalate(w) \/ RearmLoad(w) \/ RearmSave(w)
        \/ Resync(w) \/ Restart(w)

Spec == Init /\ [][Next]_vars

-----------------------------------------------------------------------------
\* A trip is never cleared but by a re-arm: no stale save of a worker that
\* loaded the row earlier re-closes a breaker another one opened
\* (Breaker.Reset: "the ONLY path back to closed").
OnlyRearmCloses ==
    [][row.state = Open /\ row'.state # Open
        => \E w \in Worker :
            resume[w].pc = "resetting" /\ resume'[w].pc = "idle"]_vars

\* At the default threshold of one, a Trip that returns without forcing
\* Shadow was overtaken by an operator's re-arm between its record and its
\* re-read; a store error of either never lets one pass.
DeviationHalts ==
    \A t \in Task : outcome[t] = "continued" => t \in rearmed

\* The inductive strengthening of DeviationHalts: while a Trip is between its
\* record and its re-read, or has loaded an open record that it need not
\* save, the row is open or a re-arm has overtaken it.
TripStands ==
    \A t \in Task :
        (\/ task[t].pc = "recorded"
         \/ task[t].pc = "recording" /\ task[t].loaded.state = Open)
            => row.state = Open \/ t \in rearmed
HaltInv == TypeOK /\ TripStands /\ DeviationHalts

\* Trip: "when the accrued events reach the threshold, opens the breaker and
\* forces the mode to Shadow", at the threshold of one.
DeviationForcesShadow == \A t \in Task : outcome[t] # "continued"

\* Transition re-arms the breaker because "otherwise the restored mode is
\* nullified by the independent open breaker": once the re-arm landed, no
\* gate undoes the escalation.
ResumeHolds ==
    (/\ row.state = Closed
     /\ faults = 0
     /\ \A w \in Worker : ModeLockFree(w)) => cause # "gate"
=============================================================================
