--------------------------- MODULE TransactionPlan ---------------------------
(***************************************************************************)
(* TransactionPlanWorkflow: the child that runs a plan of several steps    *)
(* under one approval.  It classifies and gates every step, records the    *)
(* plan, executes the steps in order, and on the first failure compensates *)
(* the executed ones from the last to the first.                           *)
(*                                                                         *)
(* An error of the execute activity is retried, and may hide an effect.    *)
(* The rows of the plan and its ledger events are best effort and decide   *)
(* nothing, and are left out.                                              *)
(***************************************************************************)
EXTENDS Naturals

CONSTANTS
    PlanSteps,      \* steps of the recipe, at least two
    MaxFaults       \* bound: failures of stores and workers

VARIABLES
    phase,      \* of the workflow
    at,         \* the step that executes, or the next one to compensate
    applied,    \* history: steps whose effect reached the target
    known,      \* StepsExecuted: steps that reported an execution
    remaining,  \* AppliedRemaining
    faults      \* failures so far

plan == <<phase, at, applied, known, remaining>>

PlanInit ==
    /\ phase = "none" /\ at = 1 /\ applied = {} /\ known = {} /\ remaining = {}

Fault == faults < MaxFaults /\ faults' = faults + 1
NoFault == UNCHANGED faults

\* The session starts the child.
StartPlan == phase' = "admit" /\ UNCHANGED <<at, applied, known, remaining>>

\* Every step is classified and gated and the plan is recorded, before any
\* step executes; a failure of one refuses the plan.
AdmitPlan ==
    /\ phase = "admit"
    /\ phase' \in {"execute", "refused"}
    /\ UNCHANGED <<at, applied, known, remaining, faults>>

\* A step executes: the next one, or the plan is committed.
StepExecutes ==
    /\ phase = "execute"
    /\ applied' = applied \union {at} /\ known' = known \union {at}
    /\ \/ at < PlanSteps /\ at' = at + 1 /\ UNCHANGED phase
       \/ at = PlanSteps /\ phase' = "committed" /\ UNCHANGED at
    /\ UNCHANGED <<remaining, faults>>

\* Mutant: the steps executed so far are left as they are.
StepFails_Stops ==
    /\ phase = "execute"
    /\ phase' = "reverted"
    /\ UNCHANGED <<at, applied, known, remaining, faults>>

\* A gate of the chain refuses the step: the executed ones are compensated,
\* the last one first.
StepFails ==
    /\ phase = "execute"
    /\ phase' = "compensate" /\ at' = at - 1
    /\ UNCHANGED <<applied, known, remaining, faults>>

\* The activity errs, with its effect or without: another attempt, or the
\* step has failed.
StepErrs ==
    /\ phase = "execute" /\ Fault
    /\ applied' \in {applied, applied \union {at}}
    /\ \/ UNCHANGED <<phase, at>>
       \/ phase' = "compensate" /\ at' = at - 1
    /\ UNCHANGED <<known, remaining>>

\* The compensation of a step is asked for without the identifier of a sealed
\* inverse.  The manifest store has none under the empty identifier, so the
\* activity answers that nothing was executed, and the workflow stops there:
\* this step and the ones before it are reported as still applied.
Compensate ==
    /\ phase = "compensate"
    /\ \/ at = 0 /\ phase' = "reverted" /\ UNCHANGED remaining
       \/ at > 0 /\ phase' = "revert-failed" /\ remaining' = 1 .. at
    /\ UNCHANGED <<at, applied, known, faults>>

PlanOver == phase \in {"refused", "committed", "reverted", "revert-failed"}

PlanStep == AdmitPlan \/ StepExecutes \/ StepFails \/ StepErrs \/ Compensate
=============================================================================
