------------------------------ MODULE Breaker ------------------------------
(***************************************************************************)
(* The three-state circuit breaker of core/breaker/breaker.go, as the      *)
(* functions its methods apply to the shared record between their load and *)
(* their save.  Three lanes use it over one durable table: the mutation    *)
(* breaker (MutationBreaker), the model gateway (ModelBreaker) and the     *)
(* judge dead-man (JudgeDeadMan).                                          *)
(*                                                                         *)
(* A method saves only when it changes the record, so "no save" and "save  *)
(* of the loaded record" are told apart by comparing the two.  OpenedAt is *)
(* kept by the lane that reads it.                                         *)
(***************************************************************************)
EXTENDS Naturals

CONSTANTS FailureThreshold, HalfOpenNeeded

ASSUME BreakerAssumption ==
    /\ FailureThreshold \in Nat \ {0}
    /\ HalfOpenNeeded \in Nat \ {0}

Closed == "closed"
HalfOpen == "half_open"
Open == "open"

Record == [state : {Closed, HalfOpen, Open}, failures : Nat, successes : Nat]

Rec(state, failures, successes) ==
    [state |-> state, failures |-> failures, successes |-> successes]

\* A breaker never saved, and what the transition to closed leaves.
Fresh == Rec(Closed, 0, 0)

\* Mutant: a failed probe leaves the breaker half-open.
AfterFailure_Probing(r) ==
    IF r.state = Closed /\ r.failures + 1 >= FailureThreshold
    THEN Rec(Open, r.failures + 1, 0)
    ELSE IF r.state = Closed THEN Rec(Closed, r.failures + 1, r.successes)
    ELSE r

\* RecordFailure: re-open a probing breaker, accrue on a closed one.
AfterFailure(r) ==
    CASE r.state = HalfOpen -> Rec(Open, r.failures, 0)
      [] r.state = Closed ->
            IF r.failures + 1 >= FailureThreshold
            THEN Rec(Open, r.failures + 1, 0)
            ELSE Rec(Closed, r.failures + 1, r.successes)
      [] OTHER -> r

\* Mutant: a successful probe is not counted towards closing.
AfterSuccess_Uncounted(r) == IF r.state = Closed THEN Fresh ELSE r

\* RecordSuccess: count a probe towards closing, clear a closed breaker.
AfterSuccess(r) ==
    CASE r.state = HalfOpen ->
            IF r.successes + 1 >= HalfOpenNeeded
            THEN Fresh
            ELSE Rec(HalfOpen, r.failures, r.successes + 1)
      [] r.state = Closed -> Rec(Closed, 0, r.successes)
      [] OTHER -> r

\* Allow: a cooled-down open breaker admits a probe.  A half-open breaker
\* admits every caller.
Admits(r, cooled) == r.state = Open => cooled
AfterAllow(r, cooled) ==
    IF r.state = Open /\ cooled THEN Rec(HalfOpen, r.failures, 0) ELSE r

\* Mutant: the reset finds nothing to clear.
AfterReset_Keeps(r) == r

\* Reset: closed, whatever it was.
AfterReset(r) == Fresh

\* Mutant: ON CONFLICT DO NOTHING.
AfterCompareAndOpen_Nothing(r) == r

\* CompareAndOpen, one SQL statement over the stored record.
AfterCompareAndOpen(r) ==
    IF r.state = Open THEN r ELSE Rec(Open, r.failures + 1, 0)
=============================================================================
