----------------------------- MODULE GovLedger -----------------------------
(***************************************************************************)
(* The governance ledger: an append-only, hash-chained table written by    *)
(* several processes (core/audit/ledger.go, core/db/ledger.go).  Each      *)
(* process caches the head of the chain, builds the next row on its cache  *)
(* and inserts it; the primary key on seq refuses a row another process    *)
(* inserted meanwhile, upon which the head is re-read, the row re-chained  *)
(* and the insert retried a bounded number of times.                       *)
(*                                                                         *)
(* The gate of a process admits one append at a time, so an append in      *)
(* progress stands for the held gate; a caller that gives up waiting for   *)
(* it (ErrChainBusy) leaves no trace.  An insert may fail, or commit and   *)
(* still report an error.                                                  *)
(***************************************************************************)
EXTENDS Naturals, FiniteSets

CONSTANTS
    Writer,          \* processes with a ledger of their own
    Decision,        \* governance decisions
    Hash(_, _, _),   \* entryHash: of a row's seq, decision and prev hash
    Genesis,         \* the empty hash before row 1
    MaxRetries,      \* maxSeqCollisionRetries
    MaxAppends,      \* bound on appends started
    MaxFaults        \* bound on store errors and crashes

ASSUME LedgerAssumption ==
    /\ IsFiniteSet(Writer)
    /\ MaxRetries \in Nat
    /\ MaxAppends \in Nat
    /\ MaxFaults \in Nat

VARIABLES
    rows,      \* the table: a row for every seq inserted
    tail,      \* Ledger.lastSeq and lastHash, per process
    append,    \* per process: the append holding the gate; its since is history,
               \* the number of rows when it took the gate
    acked,     \* rows whose append was acknowledged to its caller
    appends,   \* appends started
    faults     \* store errors and crashes so far

vars == <<rows, tail, append, acked, appends, faults>>

Entry(s, d, p, h) == [seq |-> s, decision |-> d, prev |-> p, hash |-> h]
ChainHead(s, h) == [seq |-> s, hash |-> h]
Call(pc, d, n, k) == [pc |-> pc, decision |-> d, attempt |-> n, since |-> k]
NoDecision == "none"
NoCall == Call("idle", NoDecision, 0, 0)
Down == Call("down", NoDecision, 0, 0)

Init ==
    /\ rows = [s \in {} |-> ChainHead(0, Genesis)]
    /\ tail = [w \in Writer |-> ChainHead(0, Genesis)]
    /\ append = [w \in Writer |-> Down]
    /\ acked = {}
    /\ appends = 0
    /\ faults = 0

Fault == faults < MaxFaults /\ faults' = faults + 1

-----------------------------------------------------------------------------
\* LedgerStore.Tail: the row with the highest seq.
TailRead ==
    IF DOMAIN rows = {} THEN ChainHead(0, Genesis)
    ELSE LET top == CHOOSE s \in DOMAIN rows :
                        \A t \in DOMAIN rows : t <= s
         IN ChainHead(top, rows[top].hash)

\* Mutant: a collision retries on the cached tail (the defect of TG-549).
Rechained_Stale(w) == tail[w]

\* After a collision the cache is the stored head.
Rechained(w) == TailRead

\* The row chained onto the cached tail.
Build(w) ==
    LET s == tail[w].seq + 1
        d == append[w].decision
        p == tail[w].hash
    IN Entry(s, d, p, Hash(s, d, p))

\* Mutant: an insert overwrites the row that is there.
SeqTaken_Never(s) == FALSE

\* The primary key of governance_ledger.
SeqTaken(s) == s \in DOMAIN rows

Inserted(e) ==
    [s \in DOMAIN rows \union {e.seq} |-> IF s = e.seq THEN e ELSE rows[s]]

-----------------------------------------------------------------------------
\* NewLedgerFromTail over the stored head.  A tail that cannot be read keeps
\* the process from starting.
Boot(w) ==
    /\ append[w] = Down
    /\ append' = [append EXCEPT ![w] = NoCall]
    /\ tail' = [tail EXCEPT ![w] = TailRead]
    /\ UNCHANGED <<rows, acked, appends, faults>>

Crash(w) ==
    /\ append[w] # Down
    /\ append' = [append EXCEPT ![w] = Down]
    /\ Fault
    /\ UNCHANGED <<rows, tail, acked, appends>>

\* AppendContext takes the gate.
AppendStart(w, d) ==
    /\ append[w] = NoCall
    /\ appends < MaxAppends
    /\ appends' = appends + 1
    /\ append' = [append EXCEPT ![w] =
                    Call("persist", d, 0, Cardinality(DOMAIN rows))]
    /\ UNCHANGED <<rows, tail, acked, faults>>

\* Mutant: the cached tail advances although the insert failed.
TailAfterError_Advances(w) == ChainHead(Build(w).seq, Build(w).hash)

\* An insert that failed leaves the cached tail where it was.
TailAfterError(w) == tail[w]

\* The insert: it lands, collides, or fails - an insert that fails with
\* another error ends the append, whether or not the row landed.
Persist(w) ==
    LET e == Build(w) IN
    /\ append[w].pc = "persist"
    /\ \/ /\ ~SeqTaken(e.seq)
          /\ rows' = Inserted(e)
          /\ tail' = [tail EXCEPT ![w] = ChainHead(e.seq, e.hash)]
          /\ acked' = acked \union {e}
          /\ append' = [append EXCEPT ![w] = NoCall]
          /\ UNCHANGED faults
       \/ /\ SeqTaken(e.seq)
          /\ append' = [append EXCEPT ![w] = Call("collided", @.decision,
                                                  @.attempt, @.since)]
          /\ UNCHANGED <<rows, tail, acked, faults>>
       \/ /\ Fault
          /\ \/ UNCHANGED rows
             \/ ~SeqTaken(e.seq) /\ rows' = Inserted(e)
          /\ tail' = [tail EXCEPT ![w] = TailAfterError(w)]
          /\ append' = [append EXCEPT ![w] = NoCall]
          /\ UNCHANGED acked
    /\ UNCHANGED appends

\* attempt <= maxSeqCollisionRetries, of the attempt to come.
CanRetry(n) == n < MaxRetries

\* A collision: re-read the head and re-chain, up to MaxRetries times.  A
\* read error ends the append.
Rechain(w) ==
    /\ append[w].pc = "collided"
    /\ \/ /\ tail' = [tail EXCEPT ![w] = Rechained(w)]
          /\ append' = [append EXCEPT ![w] =
                IF CanRetry(@.attempt)
                THEN Call("persist", @.decision, @.attempt + 1, @.since)
                ELSE NoCall]
          /\ UNCHANGED faults
       \/ /\ append' = [append EXCEPT ![w] = NoCall]
          /\ UNCHANGED tail
          /\ Fault
    /\ UNCHANGED <<rows, acked, appends>>

Next ==
    \E w \in Writer :
        \/ Boot(w) \/ Crash(w)
        \/ \E d \in Decision : AppendStart(w, d)
        \/ Persist(w) \/ Rechain(w)

Spec == Init /\ [][Next]_vars

-----------------------------------------------------------------------------
\* VerifyChain over the rows in order: no gap, each row linked to the one
\* before it, each hash that of its row.
VerifyChain(rs) ==
    \A s \in DOMAIN rs :
        /\ rs[s].seq = s
        /\ \/ s = 1 /\ rs[s].prev = Genesis
           \/ s - 1 \in DOMAIN rs /\ rs[s].prev = rs[s - 1].hash
        /\ rs[s].hash = Hash(s, rs[s].decision, rs[s].prev)

\* What the table, the caches and an append may hold; an append is retried at
\* most MaxRetries times (AppendContext).
TypeOK ==
    /\ DOMAIN rows \subseteq Nat \ {0}
    /\ \A s \in DOMAIN rows : rows[s].decision \in Decision
    /\ \A w \in Writer : tail[w].seq \in Nat
    /\ append \in [Writer ->
                    [pc : {"down", "idle", "persist", "collided"},
                     decision : Decision \union {NoDecision},
                     attempt : 0..MaxRetries,
                     since : Nat]]
    /\ \A w \in Writer :
        append[w].pc \in {"persist", "collided"}
            => append[w].decision \in Decision
    /\ appends \in Nat
    /\ faults \in Nat

\* The stored chain verifies at every moment, whatever the processes that
\* extend it cached, raced for or lost.
ChainVerifies == VerifyChain(rows)

\* A row acknowledged to a caller stays in the table as it was acknowledged.
AckedStays == \A e \in acked : e.seq \in DOMAIN rows /\ rows[e.seq] = e

\* Every process's cached tail is a row of the table, or the empty head: the
\* reason why a row built on a stale cache can only collide or fit.
TailIsRow ==
    \A w \in Writer :
        \/ tail[w] = ChainHead(0, Genesis)
        \/ /\ tail[w].seq \in DOMAIN rows
           /\ tail[w].hash = rows[tail[w].seq].hash

\* The processes with an append in progress.
Busy == {w \in Writer : append[w].pc \in {"persist", "collided"}}

\* An append that ends unacknowledged, and not for a store error or a crash,
\* was overtaken by at least MaxRetries rows inserted since it took the gate:
\* an append is lost to contention of its own time only, never to a head that
\* other processes moved before it began (AppendContext's recovery, TG-549).
\* Its first collision may be with an older row, every further one is not.
ContentionServed ==
    [][\A w \in Busy :
        w \notin Busy' /\ acked' = acked /\ faults' = faults
            => Cardinality(DOMAIN rows) >= append[w].since + MaxRetries]_vars

\* What ContentionServed rests on: the table did not shrink since an append
\* began, every re-read head is past the one before it, and a collision leaves
\* a row past the cached head.
ContentionInv ==
    \A w \in Busy :
        /\ append[w].since <= Cardinality(DOMAIN rows)
        /\ append[w].attempt > 0
            => append[w].since + append[w].attempt <= tail[w].seq + 1
        /\ append[w].pc = "collided" => SeqTaken(tail[w].seq + 1)

LedgerInv == TypeOK /\ TailIsRow /\ ChainVerifies /\ AckedStays

\* The table, seen as the sequence of its decisions, is an append-only log.
Log == INSTANCE AppendLog WITH log <- [s \in DOMAIN rows |-> rows[s].decision]
IsAppendLog == Log!Spec
=============================================================================
