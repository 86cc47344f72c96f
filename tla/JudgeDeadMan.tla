---------------------------- MODULE JudgeDeadMan ----------------------------
(***************************************************************************)
(* The judge dead-man (core/governance/judge_deadman.go) and the two       *)
(* monitors that drive it (judge_liveness.go, frontier_crosscheck.go), in  *)
(* every worker, over one shared breaker row.  A tick that finds the judge *)
(* dead opens the breaker with one compare-and-open statement and pages    *)
(* the operator only if that statement was the one that opened it; a tick  *)
(* that proves the judge alive resets the breaker, load then save.         *)
(***************************************************************************)
EXTENDS Breaker, FiniteSets

CONSTANTS
    Monitor,      \* the monitors of all workers
    Rearmer,      \* those that may re-arm: judge-liveness
    MaxOutages,   \* bound on deaths of the judge
    MaxFaults     \* bound on store and notifier errors

ASSUME JudgeAssumption ==
    /\ IsFiniteSet(Monitor)
    /\ Rearmer \subseteq Monitor
    /\ MaxOutages \in Nat
    /\ MaxFaults \in Nat

VARIABLES
    row,       \* the durable "judge-death" breaker record
    judge,     \* "alive" or "dead": what the next measurement finds
    tick,      \* per monitor: progress of its tick, and the record it loaded
    pages,     \* pages sent
    openings,  \* times the row went to open
    outages,   \* deaths so far
    faults

vars == <<row, judge, tick, pages, openings, outages, faults>>

At(pc, r) == [pc |-> pc, loaded |-> r]
Idle == At("idle", Fresh)

\* What the shared record and a tick may hold; a record written by Reset or
\* by CompareAndOpen is one of the three states.
TypeOK ==
    /\ row \in Record
    /\ judge \in {"alive", "dead"}
    /\ tick \in [Monitor -> [pc : {"idle", "halting", "paging", "rearming",
                                   "resetting"},
                             loaded : Record]]
    /\ pages \in Nat
    /\ openings \in Nat
    /\ outages \in Nat
    /\ faults \in Nat

Init ==
    /\ row = Fresh
    /\ judge = "alive"
    /\ tick = [m \in Monitor |-> Idle]
    /\ pages = 0
    /\ openings = 0
    /\ outages = 0
    /\ faults = 0

Fault == faults < MaxFaults /\ faults' = faults + 1

Move(m, pc, r) == tick' = [tick EXCEPT ![m] = At(pc, r)]

\* The judge stops, or resumes, scoring sessions.
JudgeDies ==
    /\ judge = "alive" /\ outages < MaxOutages
    /\ judge' = "dead"
    /\ outages' = outages + 1
    /\ UNCHANGED <<row, tick, pages, openings, faults>>

JudgeRecovers ==
    /\ judge = "dead"
    /\ judge' = "alive"
    /\ UNCHANGED <<row, tick, pages, openings, outages, faults>>

\* A tick measures the judge.  Only a proof of life over a large enough
\* sample leads to a re-arm; a thin sample decides nothing.
Measure(m) ==
    /\ tick[m].pc = "idle"
    /\ \/ judge = "dead" /\ Move(m, "halting", Fresh)
       \/ judge = "alive" /\ m \in Rearmer /\ Move(m, "rearming", Fresh)
    /\ UNCHANGED <<row, judge, pages, openings, outages, faults>>

\* Mutant: whoever halts pages, whether or not it opened the breaker.
OpenedNow_Always(r) == TRUE

\* CompareAndOpen returned a row: this statement, and no other, opened the
\* breaker.
OpenedNow(r) == AfterCompareAndOpen(r) # r

\* haltJudgeAndPage over HaltOpen: halt first, page only on the opening.  On
\* a store error the tick ends with no page; the statement may have
\* committed all the same.
HaltOpen(m) ==
    /\ tick[m].pc = "halting"
    /\ \/ /\ row' = AfterCompareAndOpen(row)
          /\ Move(m, IF OpenedNow(row) THEN "paging" ELSE "idle", Fresh)
          /\ UNCHANGED faults
       \/ /\ row' \in {row, AfterCompareAndOpen(row)}
          /\ Move(m, "idle", Fresh)
          /\ Fault
    /\ openings' = IF row' # row THEN openings + 1 ELSE openings
    /\ UNCHANGED <<judge, pages, outages>>

\* Escalation.Warn.  A notifier error ends the tick.
Page(m) ==
    /\ tick[m].pc = "paging"
    /\ \/ pages' = pages + 1 /\ UNCHANGED faults
       \/ UNCHANGED pages /\ Fault
    /\ Move(m, "idle", Fresh)
    /\ UNCHANGED <<row, judge, openings, outages>>

\* JudgeDeadMan.Rearm: Reset's load.
RearmLoad(m) ==
    /\ tick[m].pc = "rearming"
    /\ \/ Move(m, "resetting", row) /\ UNCHANGED faults
       \/ Move(m, "idle", Fresh) /\ Fault
    /\ UNCHANGED <<row, judge, pages, openings, outages>>

\* Reset's save, unless the loaded record was closed and clean.
RearmSave(m) ==
    /\ tick[m].pc = "resetting"
    /\ LET after == AfterReset(tick[m].loaded) IN
       \/ /\ row' = IF after = tick[m].loaded THEN row ELSE after
          /\ UNCHANGED faults
       \/ /\ after # tick[m].loaded
          /\ row' \in {row, after}
          /\ Fault
    /\ Move(m, "idle", Fresh)
    /\ UNCHANGED <<judge, pages, openings, outages>>

Tick(m) ==
    \/ Measure(m) \/ HaltOpen(m) \/ Page(m)
    \/ RearmLoad(m) \/ RearmSave(m)

Next ==
    \/ JudgeDies \/ JudgeRecovers
    \/ \E m \in Monitor : Tick(m)

\* The monitors are Temporal schedules: each keeps ticking, and a tick ends.
Spec ==
    /\ Init /\ [][Next]_vars
    /\ \A m \in Monitor : WF_vars(Tick(m))

-----------------------------------------------------------------------------
\* The monitors that have yet to send the page they decided on.
Paging == {m \in Monitor : tick[m].pc = "paging"}

\* Each opening of the breaker pages the operator at most once, however many
\* monitors of however many workers see the death together and whatever
\* re-arms fall in between (TG-432).
OnePagePerOpening == pages + Cardinality(Paging) <= openings

\* A judge that stays dead ends up halted and stays halted: a re-arm decided
\* while it was alive, landing late, does not outlast the next tick.
DeathHalts == <>[](judge = "dead") => <>[](row.state = Open)

\* A judge that stays alive is re-armed: no halt outlives its outage.  This is
\* the recovery of the liveness monitor (REQ-308), which re-arms on a proof of
\* life by itself; the dead-man's own comments say that nothing does, which
\* RearmIsDeliberate states.
LifeRearms == <>[](judge = "alive") => <>[](row.state = Closed)

\* What JudgeDeadMan says of its halt: it has no automatic recovery, the only
\* path back is Rearm, a deliberate act of an operator.  Every step here is one
\* of the judge or of a scheduled tick, and none of them closes the breaker.
RearmIsDeliberate == [][row.state = Open => row'.state = Open]_vars

\* HaltOpen: on a store error "on the next tick the still-closed breaker is
\* opened and the page fires then, never silently swallowed".
DeathIsPaged == <>[](judge = "dead") => <>(pages > 0 \/ Paging # {})
=============================================================================
