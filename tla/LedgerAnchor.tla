---------------------------- MODULE LedgerAnchor ----------------------------
(***************************************************************************)
(* The witness of the governance ledger: a recorder that reads the head of *)
(* the chain and records it as an anchor, and a verifier that checks the   *)
(* chain against every anchor (core/audit/anchor.go, temporal/ledgeranchor *)
(* job.go and verify.go, core/db/ledger_anchor.go), beside the writers of  *)
(* GovLedger.  Each reads the two tables in two steps while rows and       *)
(* anchors are being added.  Rows may be lost: a restore from an older     *)
(* backup, or a retention job, cuts the end of the table.                  *)
(***************************************************************************)
EXTENDS GovLedger

CONSTANTS
    Window,       \* trailing rows folded into an anchor
    MaxAnchors,   \* bound on anchors recorded
    MaxLosses     \* bound on losses of rows

ASSUME AnchorAssumption ==
    /\ Window \in Nat \ {0}
    /\ MaxAnchors \in Nat
    /\ MaxLosses \in Nat

VARIABLES
    anchors,    \* the ledger_anchor table
    recorder,   \* the anchor computed and not yet recorded
    verifier,   \* the anchors read by a verification in progress
    alarm,      \* a verification has reported tampering
    losses,     \* losses of rows so far
    witnessed   \* the verified tables that stood under a recorded anchor

anchorVars == <<anchors, recorder, verifier, alarm, losses, witnessed>>
allVars == <<vars, anchorVars>>

Nothing == {}

AnchorInit ==
    /\ Init
    /\ anchors = {}
    /\ recorder = Nothing
    /\ verifier = [pc |-> "idle", anchors |-> {}]
    /\ alarm = FALSE
    /\ losses = 0
    /\ witnessed = {}

\* LedgerStore.Head: the last Window rows that are there.
Recent(rs) ==
    [s \in {t \in DOMAIN rs :
              Cardinality({u \in DOMAIN rs : t < u}) < Window} |-> rs[s].hash]

\* ComputeAnchor: the digest is taken over the head and its recent rows.
ComputeAnchor(s, h, recent) == [seq |-> s, hash |-> h, recent |-> recent]

\* Mutant: the window starts one row early.
WindowSeqs_Wide(s, n) == {t \in 1..s : s <= t + n}

\* headStateFromChain: the rows of a window of n that ends at seq s, without
\* a hole.
WindowSeqs(s, n) == {t \in 1..s : s < t + n}

\* Mutant: the hash under an anchor is not compared.
Contradicts_SeqOnly(rs, a) == a.seq \notin DOMAIN rs

\* An anchor the chain contradicts: its head is gone or has another hash, or
\* the window that ends there has a hole or another digest.
Contradicts(rs, a) ==
    LET window == WindowSeqs(a.seq, Cardinality(DOMAIN a.recent)) IN
    \/ a.seq \notin DOMAIN rs
    \/ rs[a.seq].hash # a.hash
    \/ ~ window \subseteq DOMAIN rs
    \/ ComputeAnchor(a.seq, a.hash, [t \in window |-> rs[t].hash]) # a

\* VerifyAgainstAnchors.
VerifyAgainstAnchors(rs, as) == \A a \in as : ~Contradicts(rs, a)

-----------------------------------------------------------------------------
\* Job.Run: read the head; an empty ledger has nothing to witness.
AnchorHead ==
    /\ recorder = Nothing
    /\ Cardinality(anchors) < MaxAnchors
    /\ DOMAIN rows # {}
    /\ recorder' = {[anchor |-> ComputeAnchor(TailRead.seq, TailRead.hash,
                                             Recent(rows)),
                     under |-> rows]}
    /\ UNCHANGED <<vars, anchors, verifier, alarm, losses, witnessed>>

\* Job.Run: record the anchor, or fail and leave it to the next pass.
AnchorRecord ==
    /\ recorder # Nothing
    /\ \E r \in recorder :
        \/ /\ anchors' = anchors \union {r.anchor}
           /\ witnessed' = witnessed \union {u \in {r.under} : VerifyChain(u)}
           /\ UNCHANGED faults
        \/ Fault /\ UNCHANGED <<anchors, witnessed>>
    /\ recorder' = Nothing
    /\ UNCHANGED <<rows, tail, append, acked, appends, verifier, alarm, losses>>

\* VerifyJob.Run: read the anchors first; without anchors there is nothing
\* to check.
VerifyAnchorsRead ==
    /\ verifier.pc = "idle"
    /\ anchors # {}
    /\ verifier' = [pc |-> "reading", anchors |-> anchors]
    /\ UNCHANGED <<vars, anchors, recorder, alarm, losses, witnessed>>

\* VerifyJob.Run: read the chain and compare; a chain that cannot be read
\* ends the pass.
VerifyChainRead ==
    /\ verifier.pc = "reading"
    /\ verifier' = [pc |-> "idle", anchors |-> {}]
    /\ \/ /\ alarm' = IF VerifyAgainstAnchors(rows, verifier.anchors)
                      THEN alarm ELSE TRUE
          /\ UNCHANGED faults
       \/ Fault /\ UNCHANGED alarm
    /\ UNCHANGED <<rows, tail, append, acked, appends, anchors, recorder,
                   losses, witnessed>>

\* The rows after seq k are lost.
LoseRows(k) ==
    /\ losses < MaxLosses
    /\ losses' = losses + 1
    /\ \E s \in DOMAIN rows : s > k
    /\ rows' = [s \in {t \in DOMAIN rows : t <= k} |-> rows[s]]
    /\ UNCHANGED <<tail, append, acked, appends, faults, anchors, recorder,
                   verifier, alarm, witnessed>>

AnchorNext ==
    \/ Next /\ UNCHANGED anchorVars
    \/ AnchorHead \/ AnchorRecord
    \/ VerifyAnchorsRead \/ VerifyChainRead
    \/ \E k \in 0..MaxAppends : LoseRows(k)

AnchorSpec ==
    /\ AnchorInit /\ [][AnchorNext]_allVars
    /\ WF_allVars(VerifyAnchorsRead) /\ WF_allVars(VerifyChainRead)

-----------------------------------------------------------------------------
\* The rows of table u are all in the ledger, as they were.
Holds(u) == \A s \in DOMAIN u : s \in DOMAIN rows /\ rows[s] = u[s]

\* The verdict is true in both directions, whatever is appended between the
\* reads of a verification (TG-516).  A ledger that lost nothing never raises
\* a tamper alarm; and a chain that passes both checks has every row of every
\* table that verified when an anchor of it was taken: none was lost, replaced
\* or re-linked (the head hash is "a rolling commitment to rows 1..Seq").
VerdictIsTrue ==
    /\ losses = 0 => ~alarm
    /\ VerifyChain(rows) /\ VerifyAgainstAnchors(rows, anchors)
        => \A u \in witnessed : Holds(u)

\* A table the ledger may hold: entries under positive seqs, one of them the
\* last.  Losses may have left holes.
Table(rs) ==
    /\ DOMAIN rs \subseteq Nat \ {0}
    /\ DOMAIN rs # {} => \E t \in DOMAIN rs : \A s \in DOMAIN rs : s <= t
    /\ \A s \in DOMAIN rs :
        rs[s] = Entry(rs[s].seq, rs[s].decision, rs[s].prev, rs[s].hash)

\* Anchor a names the last row of table u.
AnchorOf(u, a) ==
    /\ a.seq \in DOMAIN u /\ a.hash = u[a.seq].hash
    /\ \A s \in DOMAIN u : s <= a.seq

\* The anchors recorded, about to be recorded, or being verified.
AnchorsHeld == anchors \union verifier.anchors \union {r.anchor : r \in recorder}

\* What VerdictIsTrue rests on: every witnessed table verified under its
\* anchor, and a ledger that lost nothing contradicts no anchor.
AnchorInv ==
    /\ Table(rows)
    /\ \A w \in Writer : tail[w].seq \in Nat
    /\ \A r \in recorder : Table(r.under) /\ AnchorOf(r.under, r.anchor)
    /\ \A u \in witnessed :
        Table(u) /\ VerifyChain(u) /\ \E a \in anchors : AnchorOf(u, a)
    /\ losses \in Nat
    /\ losses = 0 =>
        LedgerInv /\ ~alarm /\ \A a \in AnchorsHeld : ~Contradicts(rows, a)

\* A pass that reads the chain reports a loss that VerifyChain cannot see: the
\* chain verifies, but a row of a table that stood under an anchor the pass has
\* read is gone or another, also when it was lost between the two reads.
PassReports ==
    [][(/\ verifier.pc = "reading" /\ verifier'.pc = "idle" /\ UNCHANGED faults
        /\ VerifyChain(rows)
        /\ \E u \in witnessed :
            ~Holds(u) /\ \E a \in verifier.anchors : AnchorOf(u, a))
       => alarm']_allVars

\* A loss that VerifyChain cannot see - the chain verifies and a row that
\* stood under an anchor is gone or another - is reported, unless the chain
\* changes again first.
LossIsReported ==
    <>[](VerifyChain(rows) /\ \E u \in witnessed : ~Holds(u)) => <>alarm

\* VerifyChain: "returns ErrChainBroken if any row was altered, reordered, or
\* removed".
VerifyChainSeesLoss == VerifyChain(rows) => AckedStays
=============================================================================
