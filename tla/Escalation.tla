----------------------------- MODULE Escalation -----------------------------
(***************************************************************************)
(* The requeue lane: escalation_queue, and the cron that fires its due     *)
(* rows.  A pass reads the due rows, and for each of them marks the row    *)
(* fired and then pages a human, on its own.  The next pass starts when    *)
(* this one has ended: the cron is one workflow, and its activity has one  *)
(* attempt.                                                                *)
(*                                                                         *)
(* The condition checker of the worker answers that every incident is      *)
(* still active, so a row that is re-entered pages.                        *)
(***************************************************************************)
EXTENDS Naturals, Sequences

CONSTANTS
    Cap,            \* TG_ESCALATION_RECHECK_CAP, 3 in the code
    MaxFaults       \* bound: failures of stores, pager and workers

VARIABLES
    queue,      \* escalation_queue: [ref, attempts, status] in the order of seq
    batch,      \* the rows that the running pass has left; {} between passes
    marked,     \* the first row of the batch has been marked by this pass
    pages,      \* history: per row, the pages sent for it
    dropped,    \* history: rows consumed whose re-entry failed
    stoodDown,  \* history: pages to the fallback approver
    faults      \* failures so far

lane == <<queue, batch, marked, pages, dropped, stoodDown>>

EscInit ==
    /\ queue = <<>> /\ batch = {} /\ marked = FALSE
    /\ pages = <<>> /\ dropped = {} /\ stoodDown = 0

Fault == faults < MaxFaults /\ faults' = faults + 1
NoFault == UNCHANGED faults

\* Enqueue: one pending row, at the end of the table.
Enqueue(ref, attempts) ==
    /\ queue' = Append(queue, [ref |-> ref, attempts |-> attempts, status |-> "pending"])
    /\ pages' = Append(pages, 0)
    /\ UNCHANGED <<batch, marked, dropped, stoodDown>>

\* ScheduleReCheck, called by the reconciler: at the cap the fallback approver
\* is paged and no row is written.
ScheduleReCheck(ref, attempts) ==
    IF attempts < Cap
    THEN Enqueue(ref, attempts + 1)
    ELSE stoodDown' = stoodDown + 1 /\ UNCHANGED <<queue, batch, marked, pages, dropped>>

Pending == {i \in 1 .. Len(queue) : queue[i].status = "pending"}

\* DuePending: the pass reads its rows once.  Every pending row is due in time.
FireDue ==
    /\ batch = {} /\ Pending # {}
    /\ batch' = Pending /\ marked' = FALSE
    /\ UNCHANGED <<queue, pages, dropped, stoodDown, faults>>

\* The pass takes its rows in the order of seq.
First(i) == i \in batch /\ \A j \in batch : i <= j

\* MarkFired.  A row that could not be marked stays pending for a later pass;
\* an update whose answer is lost has consumed its row.  Neither is paged now.
MarkFired ==
    /\ ~marked
    /\ \E i \in batch :
        LET consumed == [queue EXCEPT ![i].status = "fired"]
        IN  /\ First(i)
            /\ \/ /\ queue' = consumed /\ marked' = TRUE /\ NoFault
                  /\ UNCHANGED <<batch, dropped>>
               \/ /\ Fault /\ batch' = batch \ {i} /\ UNCHANGED marked
                  /\ \/ UNCHANGED <<queue, dropped>>
                     \/ queue' = consumed /\ dropped' = dropped \union {i}
    /\ UNCHANGED <<pages, stoodDown>>

\* Mutant: a page that failed leaves its row in the batch.
SignalRequeue_Again ==
    /\ marked
    /\ \E i \in batch :
        /\ First(i)
        /\ pages' = [pages EXCEPT ![i] = @ + 1]
        /\ \/ NoFault /\ marked' = FALSE /\ batch' = batch \ {i}
           \/ Fault /\ UNCHANGED <<marked, batch>>
    /\ UNCHANGED <<queue, dropped, stoodDown>>

\* SignalRequeue: the live condition, then the page.  A failure of either is
\* collected and the pass goes on with the next row; a page may have been
\* delivered although its answer was lost.
SignalRequeue ==
    /\ marked /\ marked' = FALSE
    /\ \E i \in batch :
        /\ First(i) /\ batch' = batch \ {i}
        /\ \/ pages' = [pages EXCEPT ![i] = @ + 1] /\ NoFault
              /\ UNCHANGED dropped
           \/ Fault /\ dropped' = dropped \union {i}
              /\ \/ UNCHANGED pages
                 \/ pages' = [pages EXCEPT ![i] = @ + 1]
    /\ UNCHANGED <<queue, stoodDown>>

\* The worker of the pass dies, or the pass exceeds its five minutes: a row
\* already marked has been consumed.
PassDies ==
    /\ batch # {} /\ Fault
    /\ batch' = {} /\ marked' = FALSE
    /\ dropped' = dropped \union {i \in batch : marked /\ First(i)}
    /\ UNCHANGED <<queue, pages, stoodDown>>

Pass == FireDue \/ MarkFired \/ SignalRequeue

Row == [ref : {"own", "other"}, attempts : Nat, status : {"pending", "fired"}]

EscTypeOK ==
    /\ queue \in Seq(Row) /\ pages \in Seq(Nat) /\ Len(pages) = Len(queue)
    /\ batch \subseteq 1 .. Len(queue) /\ marked \in BOOLEAN
    /\ dropped \subseteq 1 .. Len(queue) /\ stoodDown \in Nat
=============================================================================
