-------------------------- MODULE GovLedgerProofs --------------------------
(***************************************************************************)
(* The stored chain verifies, acknowledged rows stay, and the table is an  *)
(* append-only log, for any number of processes, decisions, appends and    *)
(* faults, and whatever the hash function is.                              *)
(*                                                                         *)
(* The argument: the table holds the rows 1..n, and every cached tail is   *)
(* one of them (or the empty head).  A row built on a cached tail before   *)
(* the last one therefore collides, and one that fits is chained to row n. *)
(* Every re-read head is past the one before it, so a writer that lost the *)
(* race as often as it may was overtaken in its own time (ContentionInv).  *)
(*                                                                         *)
(* The anchors, for a hash without collisions: the hash of the head fixes  *)
(* every row below it, so a chain that verifies and has the head of an     *)
(* anchor has every row that stood under it.                               *)
(***************************************************************************)
EXTENDS LedgerAnchor, SequenceTheorems, FiniteSetTheorems, TLAPS

\* Shapes TypeOK leaves open because the range of Hash is not fixed.
Shape ==
    /\ rows = [s \in DOMAIN rows |-> rows[s]]
    /\ tail = [w \in Writer |-> ChainHead(tail[w].seq, tail[w].hash)]

\* The table has no gap.
Contiguous == \E n \in Nat : DOMAIN rows = 1..n

IInv == LedgerInv /\ Shape /\ Contiguous

\* The head read from the table is its last row, or the empty head.
LEMMA TailReadIsRow ==
    ASSUME IInv
    PROVE  /\ TailRead.seq \in Nat
           /\ TailRead = ChainHead(TailRead.seq, TailRead.hash)
           /\ \/ TailRead = ChainHead(0, Genesis)
              \/ /\ TailRead.seq \in DOMAIN rows
                 /\ TailRead.hash = rows[TailRead.seq].hash
<1>1. CASE DOMAIN rows = {}
  BY <1>1 DEF TailRead, ChainHead
<1>2. CASE DOMAIN rows # {}
  <2> DEFINE IsTop(s) == \A t \in DOMAIN rows : t <= s
  <2> DEFINE top == CHOOSE s \in DOMAIN rows : IsTop(s)
  <2>1. PICK n \in Nat : DOMAIN rows = 1..n
    BY DEF IInv, Contiguous
  <2>2. n \in DOMAIN rows /\ IsTop(n)
    BY <1>2, <2>1
  <2>3. top \in DOMAIN rows
    BY <2>2
  <2>4. TailRead = ChainHead(top, rows[top].hash)
    BY <1>2 DEF TailRead
  <2>5. top \in Nat
    BY <2>1, <2>3
  <2> HIDE DEF top
  <2> QED BY <2>3, <2>4, <2>5 DEF ChainHead
<1> QED BY <1>1, <1>2

\* The facts about a writer that its insert rests on.
LEMMA BuildFacts ==
    ASSUME IInv, NEW w \in Writer
    PROVE  /\ Build(w).seq = tail[w].seq + 1
           /\ Build(w).seq \in Nat \ {0}
           /\ Build(w).prev = tail[w].hash
           /\ Build(w).decision = append[w].decision
           /\ Build(w).hash = Hash(Build(w).seq, Build(w).decision,
                                   Build(w).prev)
BY DEF IInv, LedgerInv, TypeOK, Build, Entry

\* A row that fits goes to the end of the table, onto its last row.
LEMMA FitIsNext ==
    ASSUME IInv, NEW w \in Writer, ~SeqTaken(Build(w).seq),
           NEW n \in Nat, DOMAIN rows = 1..n
    PROVE  /\ Build(w).seq = n + 1
           /\ \/ n = 0 /\ Build(w).prev = Genesis
              \/ n \in DOMAIN rows /\ Build(w).prev = rows[n].hash
<1>1. /\ tail[w].seq \in Nat
      /\ tail[w].seq + 1 \notin 1..n
      /\ \/ tail[w] = ChainHead(0, Genesis)
         \/ /\ tail[w].seq \in DOMAIN rows
            /\ tail[w].hash = rows[tail[w].seq].hash
  BY BuildFacts DEF IInv, LedgerInv, TypeOK, TailIsRow, SeqTaken
<1>2. tail[w].seq = n
  <2>1. CASE tail[w] = ChainHead(0, Genesis)
    BY <1>1, <2>1 DEF ChainHead
  <2>2. CASE tail[w].seq \in DOMAIN rows
    BY <1>1, <2>2
  <2> QED BY <1>1, <2>1, <2>2
<1>3. CASE tail[w] = ChainHead(0, Genesis)
  BY <1>2, <1>3, BuildFacts DEF ChainHead
<1>4. CASE /\ tail[w].seq \in DOMAIN rows
           /\ tail[w].hash = rows[tail[w].seq].hash
  BY <1>2, <1>4, BuildFacts
<1> QED BY <1>1, <1>3, <1>4

\* What an insert that lands does to the table.
LEMMA InsertKeeps ==
    ASSUME IInv, NEW w \in Writer, append[w].decision \in Decision,
           ~SeqTaken(Build(w).seq), rows' = Inserted(Build(w))
    PROVE  /\ rows' = [s \in DOMAIN rows' |-> rows'[s]]
           /\ Contiguous'
           /\ DOMAIN rows' \subseteq Nat \ {0}
           /\ \A s \in DOMAIN rows' : rows'[s].decision \in Decision
           /\ \A s \in DOMAIN rows : s \in DOMAIN rows' /\ rows'[s] = rows[s]
           /\ Build(w).seq \in DOMAIN rows'
           /\ rows'[Build(w).seq] = Build(w)
           /\ ChainVerifies'
<1> DEFINE e == Build(w)
<1>0. /\ e.seq \in Nat \ {0}
      /\ e.decision = append[w].decision
      /\ e.hash = Hash(e.seq, e.decision, e.prev)
  BY BuildFacts
<1>1. PICK n \in Nat : DOMAIN rows = 1..n
  BY DEF IInv, Contiguous
<1>2. /\ e.seq = n + 1
      /\ \/ n = 0 /\ e.prev = Genesis
         \/ n \in DOMAIN rows /\ e.prev = rows[n].hash
  BY <1>1, FitIsNext
<1> HIDE DEF e
<1>3. rows' = [s \in DOMAIN rows \union {e.seq} |->
                IF s = e.seq THEN e ELSE rows[s]]
  BY DEF Inserted, e
<1>4. DOMAIN rows' = 1..(n + 1)
  BY <1>1, <1>2, <1>3
<1>5. rows'[e.seq] = e /\ e.seq \in DOMAIN rows'
  BY <1>3
<1>6. \A s \in DOMAIN rows : s \in DOMAIN rows' /\ rows'[s] = rows[s]
  BY <1>1, <1>2, <1>3
<1>7. \A s \in DOMAIN rows' : s = e.seq \/ s \in DOMAIN rows
  BY <1>3
<1>8. Contiguous'
  BY <1>4 DEF Contiguous
<1>9. \A s \in DOMAIN rows' : rows'[s].decision \in Decision
  BY <1>0, <1>5, <1>6, <1>7 DEF IInv, LedgerInv, TypeOK
<1>10. ChainVerifies'
  <2>1. SUFFICES ASSUME NEW s \in DOMAIN rows'
                 PROVE  /\ rows'[s].seq = s
                        /\ \/ s = 1 /\ rows'[s].prev = Genesis
                           \/ /\ s - 1 \in DOMAIN rows'
                              /\ rows'[s].prev = rows'[s - 1].hash
                        /\ rows'[s].hash = Hash(s, rows'[s].decision,
                                                rows'[s].prev)
    BY DEF ChainVerifies, VerifyChain
  <2>2. CASE s = e.seq
    <3>1. CASE n = 0
      BY <1>0, <1>2, <1>5, <2>2, <3>1, <1>1
    <3>2. CASE n \in DOMAIN rows /\ e.prev = rows[n].hash
      <4>1. s - 1 = n
        BY <1>2, <2>2
      <4>2. n \in DOMAIN rows' /\ rows'[n].hash = rows[n].hash
        BY <1>6, <3>2
      <4> QED BY <1>0, <1>5, <2>2, <3>2, <4>1, <4>2
    <3> QED BY <1>2, <3>1, <3>2
  <2>3. CASE s \in DOMAIN rows
    <3>1. /\ rows[s].seq = s
          /\ \/ s = 1 /\ rows[s].prev = Genesis
             \/ s - 1 \in DOMAIN rows /\ rows[s].prev = rows[s - 1].hash
          /\ rows[s].hash = Hash(s, rows[s].decision, rows[s].prev)
      BY <2>3 DEF IInv, LedgerInv, ChainVerifies, VerifyChain
    <3> QED BY <1>6, <2>3, <3>1
  <2> QED BY <1>7, <2>2, <2>3
<1> QED BY <1>3, <1>4, <1>5, <1>6, <1>8, <1>9, <1>10 DEF e

-----------------------------------------------------------------------------
\* IInv holds initially.
LEMMA InitInv == Init => IInv
<1> SUFFICES ASSUME Init PROVE IInv
  OBVIOUS
<1>1. DOMAIN rows = {} /\ rows = [s \in DOMAIN rows |-> rows[s]]
  BY DEF Init
<1>2. tail = [w \in Writer |-> ChainHead(0, Genesis)]
  BY DEF Init
<1>3. TypeOK
  <2>1. append \in [Writer -> [pc : {"down", "idle", "persist", "collided"},
                               decision : Decision \union {NoDecision},
                               attempt : 0..MaxRetries, since : Nat]]
    BY LedgerAssumption DEF Init, Down, Call
  <2> QED BY <1>1, <1>2, <2>1, LedgerAssumption
       DEF Init, TypeOK, ChainHead, Down, Call
<1>4. TailIsRow /\ ChainVerifies /\ AckedStays
  BY <1>1, <1>2 DEF Init, TailIsRow, ChainVerifies, VerifyChain, AckedStays
<1>5. Shape
  BY <1>1, <1>2 DEF Shape, ChainHead
<1>6. DOMAIN rows = 1..0
  BY <1>1
<1>7. Contiguous
  BY <1>6 DEF Contiguous
<1> QED BY <1>3, <1>4, <1>5, <1>7 DEF IInv, LedgerInv

\* Moving one cached tail to a row of an unchanged table keeps the facts
\* about tails.
LEMMA TailMoves ==
    ASSUME IInv, NEW w \in Writer, NEW h,
           h.seq \in Nat, h = ChainHead(h.seq, h.hash),
           \/ h = ChainHead(0, Genesis)
           \/ h.seq \in DOMAIN rows' /\ h.hash = rows'[h.seq].hash,
           \A s \in DOMAIN rows : s \in DOMAIN rows' /\ rows'[s] = rows[s],
           tail' = [tail EXCEPT ![w] = h]
    PROVE  /\ TailIsRow'
           /\ \A v \in Writer : tail'[v].seq \in Nat
           /\ tail' = [v \in Writer |-> ChainHead(tail'[v].seq, tail'[v].hash)]
<1>1. \A v \in Writer : tail'[v] = IF v = w THEN h ELSE tail[v]
  BY DEF IInv, Shape
<1>2. \A v \in Writer : tail[v] = ChainHead(tail[v].seq, tail[v].hash)
  BY DEF IInv, Shape
<1>3. \A v \in Writer : tail'[v] = ChainHead(tail'[v].seq, tail'[v].hash)
  BY <1>1, <1>2
<1>4. tail' = [v \in Writer |-> tail'[v]]
  BY DEF IInv, Shape
<1>5. tail' = [v \in Writer |-> ChainHead(tail'[v].seq, tail'[v].hash)]
  BY <1>3, <1>4
<1>6. TailIsRow'
  <2>1. SUFFICES ASSUME NEW v \in Writer
                 PROVE  \/ tail'[v] = ChainHead(0, Genesis)
                        \/ /\ tail'[v].seq \in DOMAIN rows'
                           /\ tail'[v].hash = rows'[tail'[v].seq].hash
    BY DEF TailIsRow
  <2>2. CASE v = w
    BY <1>1, <2>2
  <2>3. CASE v # w
    <3>1. tail'[v] = tail[v]
      BY <1>1, <2>3
    <3>2. \/ tail[v] = ChainHead(0, Genesis)
          \/ /\ tail[v].seq \in DOMAIN rows
             /\ tail[v].hash = rows[tail[v].seq].hash
      BY DEF IInv, LedgerInv, TailIsRow
    <3> QED BY <3>1, <3>2
  <2> QED BY <2>2, <2>3
<1>7. \A v \in Writer : tail'[v].seq \in Nat
  BY <1>1 DEF IInv, LedgerInv, TypeOK
<1> QED BY <1>5, <1>6, <1>7

\* Rows acknowledged earlier stay when the table only grows.
LEMMA AckedKept ==
    ASSUME IInv,
           \A s \in DOMAIN rows : s \in DOMAIN rows' /\ rows'[s] = rows[s]
    PROVE  \A e \in acked : e.seq \in DOMAIN rows' /\ rows'[e.seq] = e
BY DEF IInv, LedgerInv, AckedStays

\* The call of a writer, as TypeOK types it.
CallType == [pc : {"down", "idle", "persist", "collided"},
             decision : Decision \union {NoDecision},
             attempt : 0..MaxRetries,
             since : Nat]

\* A well-formed call in place of a writer's keeps the facts about calls.
LEMMA CallMoves ==
    ASSUME IInv, NEW w \in Writer, NEW c \in CallType,
           c.pc \in {"persist", "collided"} => c.decision \in Decision,
           append' = [append EXCEPT ![w] = c]
    PROVE  /\ append' \in [Writer -> CallType]
           /\ \A v \in Writer :
                append'[v].pc \in {"persist", "collided"}
                    => append'[v].decision \in Decision
<1>1. append \in [Writer -> CallType]
  BY DEF IInv, LedgerInv, TypeOK, CallType
<1>2. append' \in [Writer -> CallType]
  BY <1>1
<1>3. \A v \in Writer : append'[v] = IF v = w THEN c ELSE append[v]
  BY <1>1
<1>4. \A v \in Writer : append[v].pc \in {"persist", "collided"}
                            => append[v].decision \in Decision
  BY DEF IInv, LedgerInv, TypeOK
<1> QED BY <1>2, <1>3, <1>4

\* The idle and the down call are well formed.
LEMMA IdleCalls ==
    /\ NoCall \in CallType /\ NoCall.pc \notin {"persist", "collided"}
    /\ Down \in CallType /\ Down.pc \notin {"persist", "collided"}
BY LedgerAssumption DEF NoCall, Down, Call, CallType

\* A step that leaves the table and the acknowledged rows alone.
LEMMA QuietStep ==
    ASSUME IInv, UNCHANGED <<rows, acked>>,
           TailIsRow',
           \A v \in Writer : tail'[v].seq \in Nat,
           tail' = [v \in Writer |-> ChainHead(tail'[v].seq, tail'[v].hash)],
           append' \in [Writer -> CallType],
           \A v \in Writer : append'[v].pc \in {"persist", "collided"}
                                => append'[v].decision \in Decision,
           appends' \in Nat, faults' \in Nat
    PROVE  IInv'
<1>1. Contiguous' /\ ChainVerifies' /\ AckedStays'
  BY DEF IInv, LedgerInv, Contiguous, ChainVerifies, VerifyChain, AckedStays
<1>2. Shape'
  BY DEF IInv, Shape
<1>3. TypeOK'
  BY DEF IInv, LedgerInv, TypeOK, CallType
<1> QED BY <1>1, <1>2, <1>3 DEF IInv, LedgerInv

-----------------------------------------------------------------------------
\* Facts of every state that satisfies IInv, as the steps below use them.
LEMMA Now ==
    ASSUME IInv
    PROVE  /\ TailIsRow
           /\ \A v \in Writer : tail[v].seq \in Nat
           /\ tail = [v \in Writer |-> ChainHead(tail[v].seq, tail[v].hash)]
           /\ append \in [Writer -> CallType]
           /\ \A v \in Writer : append[v].pc \in {"persist", "collided"}
                                    => append[v].decision \in Decision
           /\ appends \in Nat /\ faults \in Nat
BY DEF IInv, LedgerInv, TypeOK, Shape, CallType

\* A process that starts takes the stored head for its tail.
LEMMA BootInv == ASSUME IInv, NEW w \in Writer, Boot(w) PROVE IInv'
<1>1. append' = [append EXCEPT ![w] = NoCall] /\ UNCHANGED <<rows, acked>>
  BY DEF Boot
<1>2. tail' = [tail EXCEPT ![w] = TailRead]
  BY DEF Boot
<1>3. /\ TailIsRow'
      /\ \A v \in Writer : tail'[v].seq \in Nat
      /\ tail' = [v \in Writer |-> ChainHead(tail'[v].seq, tail'[v].hash)]
  BY <1>1, <1>2, TailReadIsRow, TailMoves
<1>4. /\ append' \in [Writer -> CallType]
      /\ \A v \in Writer : append'[v].pc \in {"persist", "collided"}
                                => append'[v].decision \in Decision
  BY <1>1, CallMoves, IdleCalls
<1>5. appends' \in Nat /\ faults' \in Nat
  BY Now DEF Boot
<1> QED BY <1>1, <1>3, <1>4, <1>5, QuietStep

\* A crash loses a call and nothing else.
LEMMA CrashInv == ASSUME IInv, NEW w \in Writer, Crash(w) PROVE IInv'
<1>1. append' = [append EXCEPT ![w] = Down] /\ UNCHANGED <<rows, acked, tail>>
  BY DEF Crash
<1>2. /\ append' \in [Writer -> CallType]
      /\ \A v \in Writer : append'[v].pc \in {"persist", "collided"}
                                => append'[v].decision \in Decision
  BY <1>1, CallMoves, IdleCalls
<1>3. appends' \in Nat /\ faults' \in Nat
  BY Now DEF Crash, Fault
<1>4. TailIsRow'
  BY <1>1, Now DEF TailIsRow
<1> QED BY <1>1, <1>2, <1>3, <1>4, Now, QuietStep

\* Taking the gate changes no row and no tail.
LEMMA AppendStartInv ==
    ASSUME IInv, NEW w \in Writer, NEW d \in Decision, AppendStart(w, d)
    PROVE  IInv'
<1> DEFINE c == Call("persist", d, 0, Cardinality(DOMAIN rows))
<1>0. Cardinality(DOMAIN rows) \in Nat
  BY FS_Interval, FS_CardinalityType DEF IInv, Contiguous
<1>1. append' = [append EXCEPT ![w] = c] /\ UNCHANGED <<rows, acked, tail>>
  BY DEF AppendStart
<1>2. c \in CallType /\ c.decision \in Decision
  BY <1>0, LedgerAssumption DEF Call, CallType
<1> HIDE DEF c
<1>3. /\ append' \in [Writer -> CallType]
      /\ \A v \in Writer : append'[v].pc \in {"persist", "collided"}
                                => append'[v].decision \in Decision
  BY <1>1, <1>2, CallMoves
<1>4. appends' \in Nat /\ faults' \in Nat
  BY Now DEF AppendStart
<1>5. TailIsRow'
  BY <1>1, Now DEF TailIsRow
<1> QED BY <1>1, <1>3, <1>4, <1>5, Now, QuietStep

\* An insert that lands, acknowledged or not.
LEMMA LandInv ==
    ASSUME IInv, NEW w \in Writer, append[w].pc = "persist",
           ~SeqTaken(Build(w).seq), rows' = Inserted(Build(w)),
           \/ tail' = [tail EXCEPT ![w] = ChainHead(Build(w).seq, Build(w).hash)]
           \/ tail' = [tail EXCEPT ![w] = tail[w]],
           acked' \subseteq acked \union {Build(w)},
           append' = [append EXCEPT ![w] = NoCall],
           appends' = appends, faults' \in Nat
    PROVE  IInv'
<1> DEFINE e == Build(w)
<1>0. append[w].decision \in Decision
  BY Now
<1>1. /\ rows' = [s \in DOMAIN rows' |-> rows'[s]]
      /\ Contiguous'
      /\ DOMAIN rows' \subseteq Nat \ {0}
      /\ \A s \in DOMAIN rows' : rows'[s].decision \in Decision
      /\ \A s \in DOMAIN rows : s \in DOMAIN rows' /\ rows'[s] = rows[s]
      /\ e.seq \in DOMAIN rows'
      /\ rows'[e.seq] = e
      /\ ChainVerifies'
  BY <1>0, InsertKeeps
<1>2. e.seq \in Nat
  BY BuildFacts
<1> HIDE DEF e
<1>3. /\ append' \in [Writer -> CallType]
      /\ \A v \in Writer : append'[v].pc \in {"persist", "collided"}
                                => append'[v].decision \in Decision
  BY CallMoves, IdleCalls
<1>4. /\ TailIsRow'
      /\ \A v \in Writer : tail'[v].seq \in Nat
      /\ tail' = [v \in Writer |-> ChainHead(tail'[v].seq, tail'[v].hash)]
  <2>1. CASE tail' = [tail EXCEPT ![w] = ChainHead(e.seq, e.hash)]
    <3> DEFINE h == ChainHead(e.seq, e.hash)
    <3>1. /\ h.seq \in Nat
          /\ h = ChainHead(h.seq, h.hash)
          /\ h.seq \in DOMAIN rows'
          /\ h.hash = rows'[h.seq].hash
      BY <1>1, <1>2 DEF ChainHead
    <3> HIDE DEF h
    <3>2. tail' = [tail EXCEPT ![w] = h]
      BY <2>1 DEF h
    <3> QED BY <1>1, <3>1, <3>2, TailMoves
  <2>2. CASE tail' = [tail EXCEPT ![w] = tail[w]]
    <3> DEFINE h == tail[w]
    <3>1. /\ h.seq \in Nat
          /\ h = ChainHead(h.seq, h.hash)
          /\ \/ h = ChainHead(0, Genesis)
             \/ h.seq \in DOMAIN rows /\ h.hash = rows[h.seq].hash
      BY Now DEF TailIsRow
    <3>2. \/ h = ChainHead(0, Genesis)
          \/ h.seq \in DOMAIN rows' /\ h.hash = rows'[h.seq].hash
      BY <1>1, <3>1
    <3>3. tail' = [tail EXCEPT ![w] = h]
      BY <2>2
    <3> HIDE DEF h
    <3> QED BY <1>1, <3>1, <3>2, <3>3, TailMoves
  <2> QED BY <2>1, <2>2 DEF e
<1>5. AckedStays'
  BY <1>1, AckedKept DEF AckedStays, e
<1>6. TypeOK'
  BY <1>1, <1>3, <1>4, Now DEF TypeOK, CallType
<1>7. Shape'
  BY <1>1, <1>4 DEF Shape
<1> QED BY <1>1, <1>4, <1>5, <1>6, <1>7 DEF IInv, LedgerInv

\* The insert, in each of its outcomes, keeps the invariant.
LEMMA PersistInv == ASSUME IInv, NEW w \in Writer, Persist(w) PROVE IInv'
<1> DEFINE e == Build(w)
<1>0. append[w].pc = "persist" /\ appends' = appends
  BY DEF Persist
<1>1. CASE /\ ~SeqTaken(e.seq)
           /\ rows' = Inserted(e)
           /\ tail' = [tail EXCEPT ![w] = ChainHead(e.seq, e.hash)]
           /\ acked' = acked \union {e}
           /\ append' = [append EXCEPT ![w] = NoCall]
           /\ UNCHANGED faults
  <2>1. faults' \in Nat
    BY <1>1, Now
  <2> QED BY <1>0, <1>1, <2>1, LandInv
<1>2. CASE /\ append' = [append EXCEPT ![w] =
                            Call("collided", append[w].decision,
                                 append[w].attempt, append[w].since)]
           /\ UNCHANGED <<rows, tail, acked, faults>>
  <2> DEFINE c == Call("collided", append[w].decision, append[w].attempt,
                       append[w].since)
  <2>1. append[w] \in CallType /\ append[w].decision \in Decision
    BY <1>0, Now
  <2>2. c \in CallType /\ c.decision \in Decision
    BY <2>1 DEF Call, CallType
  <2>3. append' = [append EXCEPT ![w] = c]
    BY <1>2
  <2> HIDE DEF c
  <2>4. /\ append' \in [Writer -> CallType]
        /\ \A v \in Writer : append'[v].pc \in {"persist", "collided"}
                                => append'[v].decision \in Decision
    BY <2>2, <2>3, CallMoves
  <2>5. TailIsRow'
    BY <1>2, Now DEF TailIsRow
  <2> QED BY <1>0, <1>2, <2>4, <2>5, Now, QuietStep
<1>3. CASE /\ Fault
           /\ \/ UNCHANGED rows
              \/ ~SeqTaken(e.seq) /\ rows' = Inserted(e)
           /\ tail' = [tail EXCEPT ![w] = TailAfterError(w)]
           /\ append' = [append EXCEPT ![w] = NoCall]
           /\ UNCHANGED acked
  <2>1. faults' \in Nat
    BY <1>3, Now DEF Fault
  <2>2. tail' = [tail EXCEPT ![w] = tail[w]]
    BY <1>3 DEF TailAfterError
  <2>3. CASE UNCHANGED rows
    <3>1. /\ append' \in [Writer -> CallType]
          /\ \A v \in Writer : append'[v].pc \in {"persist", "collided"}
                                => append'[v].decision \in Decision
      BY <1>3, CallMoves, IdleCalls
    <3>2. tail' = tail
      BY <2>2, Now
    <3>3. TailIsRow'
      BY <2>3, <3>2, Now DEF TailIsRow
    <3> QED BY <1>0, <1>3, <2>1, <2>3, <3>1, <3>2, <3>3, Now, QuietStep
  <2>4. CASE ~SeqTaken(e.seq) /\ rows' = Inserted(e)
    BY <1>0, <1>3, <2>1, <2>2, <2>4, LandInv
  <2> QED BY <1>3, <2>3, <2>4
<1> QED BY <1>1, <1>2, <1>3 DEF Persist

\* Re-reading the head after a collision keeps the invariant.
LEMMA RechainInv == ASSUME IInv, NEW w \in Writer, Rechain(w) PROVE IInv'
<1>0. append[w].pc = "collided" /\ UNCHANGED <<rows, acked, appends>>
  BY DEF Rechain
<1>1. PICK c : /\ append' = [append EXCEPT ![w] = c]
               /\ \/ c = NoCall
                  \/ /\ CanRetry(append[w].attempt)
                     /\ c = Call("persist", append[w].decision,
                                 append[w].attempt + 1, append[w].since)
  BY DEF Rechain
<1>2. c \in CallType /\ (c.pc \in {"persist", "collided"}
                            => c.decision \in Decision)
  <2>1. append[w] \in CallType /\ append[w].decision \in Decision
    BY <1>0, Now
  <2>2. CASE c = NoCall
    BY <2>2, IdleCalls
  <2>3. CASE /\ CanRetry(append[w].attempt)
             /\ c = Call("persist", append[w].decision,
                         append[w].attempt + 1, append[w].since)
    BY <2>1, <2>3, LedgerAssumption DEF Call, CallType, CanRetry
  <2> QED BY <1>1, <2>2, <2>3
<1>3. /\ append' \in [Writer -> CallType]
      /\ \A v \in Writer : append'[v].pc \in {"persist", "collided"}
                                => append'[v].decision \in Decision
  BY <1>1, <1>2, CallMoves
<1>4. appends' \in Nat /\ faults' \in Nat
  <2>1. faults' = faults \/ Fault
    BY DEF Rechain
  <2> QED BY <1>0, <2>1, Now DEF Fault
<1>5. tail' = tail \/ tail' = [tail EXCEPT ![w] = TailRead]
  BY DEF Rechain, Rechained
<1>6. /\ TailIsRow'
      /\ \A v \in Writer : tail'[v].seq \in Nat
      /\ tail' = [v \in Writer |-> ChainHead(tail'[v].seq, tail'[v].hash)]
  <2>1. CASE tail' = tail
    BY <1>0, <2>1, Now DEF TailIsRow
  <2>2. CASE tail' = [tail EXCEPT ![w] = TailRead]
    BY <1>0, <2>2, TailReadIsRow, TailMoves
  <2> QED BY <1>5, <2>1, <2>2
<1> QED BY <1>0, <1>3, <1>4, <1>6, QuietStep

\* Every step keeps IInv.
LEMMA StepInv == IInv /\ [Next]_vars => IInv'
<1> SUFFICES ASSUME IInv, [Next]_vars PROVE IInv'
  OBVIOUS
<1>1. CASE UNCHANGED vars
  <2>1. TailIsRow'
    BY <1>1, Now DEF TailIsRow, vars
  <2> QED BY <1>1, <2>1, Now, QuietStep DEF vars
<1>2. ASSUME NEW w \in Writer, Boot(w) PROVE IInv'
  BY <1>2, BootInv
<1>3. ASSUME NEW w \in Writer, Crash(w) PROVE IInv'
  BY <1>3, CrashInv
<1>4. ASSUME NEW w \in Writer, NEW d \in Decision, AppendStart(w, d)
      PROVE  IInv'
  BY <1>4, AppendStartInv
<1>5. ASSUME NEW w \in Writer, Persist(w) PROVE IInv'
  BY <1>5, PersistInv
<1>6. ASSUME NEW w \in Writer, Rechain(w) PROVE IInv'
  BY <1>6, RechainInv
<1> QED BY <1>1, <1>2, <1>3, <1>4, <1>5, <1>6 DEF Next

\* IInv holds in every reachable state.
LEMMA Invariance == Spec => []IInv
BY InitInv, StepInv, PTL DEF Spec

\* Values keep their types, whatever Hash returns.
THEOREM TypeCorrect == Spec => []TypeOK
<1>1. IInv => TypeOK
  BY DEF IInv, LedgerInv
<1> QED BY <1>1, Invariance, PTL

\* VerifyChain accepts the table of governance_ledger in every state, however
\* many processes append to it with cached heads, and whatever fails.
THEOREM ChainAlwaysVerifies == Spec => []ChainVerifies
<1>1. IInv => ChainVerifies
  BY DEF IInv, LedgerInv
<1> QED BY <1>1, Invariance, PTL

\* A row AppendContext returned to its caller is never replaced or lost.
THEOREM AckedAlwaysStays == Spec => []AckedStays
<1>1. IInv => AckedStays
  BY DEF IInv, LedgerInv
<1> QED BY <1>1, Invariance, PTL

-----------------------------------------------------------------------------
\* The head of a table of n rows is row n.
LEMMA TailReadIsLast ==
    ASSUME NEW n \in Nat, DOMAIN rows = 1..n
    PROVE  TailRead.seq = n
<1>1. CASE n = 0
  <2>1. DOMAIN rows = {}
    BY <1>1
  <2> QED BY <1>1, <2>1 DEF TailRead, ChainHead
<1>2. CASE n # 0
  <2> DEFINE IsTop(s) == \A t \in DOMAIN rows : t <= s
  <2> DEFINE top == CHOOSE s \in DOMAIN rows : IsTop(s)
  <2>1. n \in DOMAIN rows /\ IsTop(n)
    BY <1>2
  <2>2. top \in DOMAIN rows /\ IsTop(top)
    BY <2>1
  <2>3. TailRead = ChainHead(top, rows[top].hash)
    BY <2>1 DEF TailRead
  <2>4. top = n
    BY <2>1, <2>2
  <2> HIDE DEF top
  <2> QED BY <2>3, <2>4 DEF ChainHead
<1> QED BY <1>1, <1>2

\* The appends in progress keep their calls when another writer moves.
LEMMA BusyMoves ==
    ASSUME IInv, NEW w \in Writer, NEW c, append' = [append EXCEPT ![w] = c]
    PROVE  /\ \A v \in Writer : append'[v] = IF v = w THEN c ELSE append[v]
           /\ \A v \in Writer \ {w} : v \in Busy' <=> v \in Busy
           /\ w \in Busy' <=> c.pc \in {"persist", "collided"}
<1>1. \A v \in Writer : append'[v] = IF v = w THEN c ELSE append[v]
  BY Now
<1> QED BY <1>1 DEF Busy

\* A table without a gap has as many rows as the seq of its last one.
LEMMA TableSize ==
    ASSUME NEW T, NEW n \in Nat, T = 1..n
    PROVE  Cardinality(T) = n
<1>1. Cardinality(1..n) = IF 1 > n THEN 0 ELSE n - 1 + 1
  BY FS_Interval
<1> QED BY <1>1

\* No step of a writer removes a row.
LEMMA RowsGrow ==
    ASSUME IInv, [Next]_vars
    PROVE  DOMAIN rows \subseteq DOMAIN rows'
<1>1. UNCHANGED rows \/ \E w \in Writer : rows' = Inserted(Build(w))
  BY DEF Next, vars, Boot, Crash, AppendStart, Persist, Rechain
<1> QED BY <1>1 DEF Inserted

\* Hence the table never gets smaller.
LEMMA SizeGrows ==
    ASSUME IInv, IInv', [Next]_vars
    PROVE  /\ Cardinality(DOMAIN rows) \in Nat /\ Cardinality(DOMAIN rows') \in Nat
           /\ Cardinality(DOMAIN rows) <= Cardinality(DOMAIN rows')
<1>1. PICK n \in Nat : DOMAIN rows = 1..n
  BY DEF IInv, Contiguous
<1>2. PICK m \in Nat : DOMAIN rows' = 1..m
  BY DEF IInv, Contiguous
<1>3. 1..n \subseteq 1..m
  BY <1>1, <1>2, RowsGrow
<1>4. n <= m
  <2>1. CASE n = 0
    BY <2>1
  <2>2. CASE n # 0
    <3>1. n \in 1..n
      BY <2>2
    <3> QED BY <1>3, <3>1
  <2> QED BY <2>1, <2>2
<1>5. Cardinality(DOMAIN rows) = n /\ Cardinality(DOMAIN rows') = m
  BY <1>1, <1>2, TableSize
<1> QED BY <1>4, <1>5

\* What ContentionInv says of one writer.
Overtaken(w) ==
    /\ append[w].since <= Cardinality(DOMAIN rows)
    /\ append[w].attempt > 0
        => append[w].since + append[w].attempt <= tail[w].seq + 1
    /\ append[w].pc = "collided" => SeqTaken(tail[w].seq + 1)

\* A step of writer w leaves every other append as overtaken as it was.
LEMMA OthersServed ==
    ASSUME IInv, IInv', [Next]_vars, ContentionInv, NEW w \in Writer, NEW c,
           append' = [append EXCEPT ![w] = c],
           \A v \in Writer \ {w} : tail'[v] = tail[v],
           w \in Busy' => Overtaken(w)'
    PROVE  ContentionInv'
<1> SUFFICES ASSUME NEW v \in Busy' PROVE Overtaken(v)'
  BY DEF ContentionInv, Overtaken
<1>1. v \in Writer
  BY DEF Busy
<1>2. CASE v = w
  BY <1>2
<1>3. CASE v # w
  <2>0. append'[v] = append[v]
    BY <1>1, <1>3, Now
  <2>1. v \in Busy /\ append'[v] = append[v] /\ tail'[v] = tail[v]
    BY <1>1, <1>3, <2>0 DEF Busy
  <2>2. Overtaken(v)
    BY <2>1 DEF ContentionInv, Overtaken
  <2>3. append[v].since \in Nat
    BY <1>1, Now DEF CallType
  <2> QED BY <2>1, <2>2, <2>3, SizeGrows, RowsGrow DEF Overtaken, SeqTaken
<1> QED BY <1>2, <1>3

\* An append begins with the table as it is.
LEMMA StartServed ==
    ASSUME IInv, IInv', [Next]_vars, ContentionInv, NEW w \in Writer,
           NEW d \in Decision, AppendStart(w, d)
    PROVE  ContentionInv'
<1> DEFINE c == Call("persist", d, 0, Cardinality(DOMAIN rows))
<1>1. append' = [append EXCEPT ![w] = c] /\ UNCHANGED <<rows, tail>>
  BY DEF AppendStart
<1>2. c.pc = "persist" /\ c.attempt = 0 /\ c.since = Cardinality(DOMAIN rows)
  BY DEF Call
<1> HIDE DEF c
<1>3. append'[w] = c
  BY <1>1, Now
<1>4. Overtaken(w)'
  BY <1>1, <1>2, <1>3, SizeGrows DEF Overtaken
<1> QED BY <1>1, <1>4, OthersServed

\* A refused insert found a row past the cached head.
LEMMA CollideServed ==
    ASSUME IInv, IInv', [Next]_vars, ContentionInv, NEW w \in Writer,
           append[w].pc = "persist", SeqTaken(Build(w).seq),
           append' = [append EXCEPT ![w] = Call("collided", append[w].decision,
                                       append[w].attempt, append[w].since)],
           UNCHANGED <<rows, tail>>
    PROVE  ContentionInv'
<1> DEFINE c == Call("collided", append[w].decision, append[w].attempt,
                     append[w].since)
<1>1. append' = [append EXCEPT ![w] = c]
  OBVIOUS
<1>2. c.attempt = append[w].attempt /\ c.since = append[w].since
  BY DEF Call
<1> HIDE DEF c
<1>3. append'[w] = c
  BY <1>1, Now
<1>4. Overtaken(w)
  BY DEF ContentionInv, Overtaken, Busy
<1>5. Overtaken(w)'
  BY <1>2, <1>3, <1>4, BuildFacts DEF Overtaken, SeqTaken
<1> QED BY <1>1, <1>5, OthersServed

\* The rows before an append that collided: at its n-th retry, n of them are
\* younger than the append.
LEMMA CollisionCost ==
    ASSUME IInv, ContentionInv, NEW w \in Writer, append[w].pc = "collided"
    PROVE  /\ append[w].since + append[w].attempt <= Cardinality(DOMAIN rows)
           /\ TailRead.seq = Cardinality(DOMAIN rows)
           /\ Cardinality(DOMAIN rows) \in Nat
           /\ append[w].attempt \in 0..MaxRetries /\ append[w].since \in Nat
<1>1. PICK n \in Nat : DOMAIN rows = 1..n
  BY DEF IInv, Contiguous
<1>2. Cardinality(DOMAIN rows) = n /\ TailRead.seq = n
  BY <1>1, TableSize, TailReadIsLast
<1>3. Overtaken(w)
  BY DEF ContentionInv, Overtaken, Busy
<1>4. /\ append[w].attempt \in 0..MaxRetries /\ append[w].since \in Nat
      /\ tail[w].seq \in Nat
  BY Now DEF CallType
<1>5. tail[w].seq + 1 <= n
  BY <1>1, <1>3 DEF Overtaken, SeqTaken
<1>6. append[w].since + append[w].attempt <= n
  <2>1. CASE append[w].attempt = 0
    BY <1>2, <1>3, <1>4, <2>1 DEF Overtaken
  <2>2. CASE append[w].attempt > 0
    BY <1>3, <1>4, <1>5, <2>2 DEF Overtaken
  <2> QED BY <1>4, <2>1, <2>2, LedgerAssumption
<1> QED BY <1>2, <1>4, <1>6

\* An append that goes on after a collision is at the head of the table.
LEMMA RechainServed ==
    ASSUME IInv, IInv', [Next]_vars, ContentionInv, NEW w \in Writer,
           append[w].pc = "collided", tail' = [tail EXCEPT ![w] = TailRead],
           append' = [append EXCEPT ![w] =
                Call("persist", append[w].decision, append[w].attempt + 1,
                     append[w].since)],
           UNCHANGED rows
    PROVE  ContentionInv'
<1> DEFINE c == Call("persist", append[w].decision, append[w].attempt + 1,
                     append[w].since)
<1>1. append' = [append EXCEPT ![w] = c]
  OBVIOUS
<1>2. /\ c.pc = "persist" /\ c.attempt = append[w].attempt + 1
      /\ c.since = append[w].since
  BY DEF Call
<1> HIDE DEF c
<1>3. append'[w] = c
  BY <1>1, Now
<1>4. \A v \in Writer : tail'[v] = IF v = w THEN TailRead ELSE tail[v]
  BY Now
<1>5. /\ append[w].since <= Cardinality(DOMAIN rows)
      /\ append[w].since + (append[w].attempt + 1) <= TailRead.seq + 1
  BY CollisionCost, LedgerAssumption
<1>6. Overtaken(w)'
  BY <1>2, <1>3, <1>4, <1>5 DEF Overtaken
<1> QED BY <1>1, <1>4, <1>6, OthersServed

\* An append that is over has nothing left to account for.
LEMMA OverServed ==
    ASSUME IInv, IInv', [Next]_vars, ContentionInv, NEW w \in Writer,
           append' = [append EXCEPT ![w] = NoCall]
             \/ append' = [append EXCEPT ![w] = Down],
           \A v \in Writer \ {w} : tail'[v] = tail[v]
    PROVE  ContentionInv'
<1>1. PICK c \in {NoCall, Down} : append' = [append EXCEPT ![w] = c]
  OBVIOUS
<1>2. w \notin Busy'
  BY <1>1, BusyMoves, IdleCalls
<1> QED BY <1>1, <1>2, OthersServed

\* Every step keeps ContentionInv.
LEMMA ContentionStep ==
    ASSUME IInv, IInv', ContentionInv, [Next]_vars
    PROVE  ContentionInv'
<1>1. CASE UNCHANGED vars
  BY <1>1 DEF vars, ContentionInv, Busy, SeqTaken
<1>0. \A w \in Writer : \A h : tail' = [tail EXCEPT ![w] = h]
        => \A v \in Writer \ {w} : tail'[v] = tail[v]
  BY Now
<1>2. ASSUME NEW w \in Writer, Boot(w) \/ Crash(w) PROVE ContentionInv'
  BY <1>0, <1>2, OverServed DEF Boot, Crash
<1>4. ASSUME NEW w \in Writer, NEW d \in Decision, AppendStart(w, d)
      PROVE  ContentionInv'
  BY <1>4, StartServed
<1>5. ASSUME NEW w \in Writer, Persist(w) PROVE ContentionInv'
  <2>1. CASE /\ append' = [append EXCEPT ![w] = NoCall]
             /\ \E h : tail' = [tail EXCEPT ![w] = h]
    BY <1>0, <2>1, OverServed
  <2>2. CASE /\ SeqTaken(Build(w).seq)
             /\ append' = [append EXCEPT ![w] = Call("collided",
                    append[w].decision, append[w].attempt, append[w].since)]
             /\ UNCHANGED <<rows, tail>>
    BY <1>5, <2>2, CollideServed DEF Persist
  <2> QED BY <1>5, <2>1, <2>2 DEF Persist
<1>6. ASSUME NEW w \in Writer, Rechain(w) PROVE ContentionInv'
  <2>1. CASE /\ append' = [append EXCEPT ![w] = NoCall]
             /\ \A v \in Writer \ {w} : tail'[v] = tail[v]
    BY <2>1, OverServed
  <2>2. CASE /\ tail' = [tail EXCEPT ![w] = TailRead]
             /\ append' = [append EXCEPT ![w] = Call("persist",
                    append[w].decision, append[w].attempt + 1, append[w].since)]
    BY <1>6, <2>2, RechainServed DEF Rechain
  <2> QED BY <1>0, <1>6, <2>1, <2>2 DEF Rechain, Rechained
<1> QED BY <1>1, <1>2, <1>4, <1>5, <1>6 DEF Next

\* A step that ends an append unacknowledged and without an error is a last
\* collision, and the rows that caused it are there.
LEMMA LostToContention ==
    ASSUME IInv, ContentionInv, Next, NEW w \in Busy, w \notin Busy',
           acked' = acked, faults' = faults
    PROVE  Cardinality(DOMAIN rows) >= append[w].since + MaxRetries
<1>0. w \in Writer /\ append[w].pc \in {"persist", "collided"} /\ ~Fault
  BY Now DEF Busy, Fault
<1>1. \A v \in Writer : \A c : append' = [append EXCEPT ![v] = c]
        => v = w /\ c.pc \notin {"persist", "collided"}
  BY <1>0, BusyMoves
<1>2. ASSUME NEW v \in Writer, Boot(v) \/ Crash(v) PROVE FALSE
  BY <1>0, <1>1, <1>2 DEF Boot, Crash, Down, Call
<1>3. ASSUME NEW v \in Writer, NEW d \in Decision, AppendStart(v, d) PROVE FALSE
  <2> DEFINE c == Call("persist", d, 0, Cardinality(DOMAIN rows))
  <2>1. append' = [append EXCEPT ![v] = c]
    BY <1>3 DEF AppendStart
  <2>2. c.pc = "persist"
    BY DEF Call
  <2> HIDE DEF c
  <2> QED BY <1>1, <2>1, <2>2
<1>4. ASSUME NEW v \in Writer, Persist(v) PROVE FALSE
  <2>1. CASE ~SeqTaken(Build(v).seq) /\ acked' = acked \union {Build(v)}
    BY <2>1 DEF IInv, LedgerInv, AckedStays, SeqTaken
  <2>2. CASE append' = [append EXCEPT ![v] = Call("collided",
                append[v].decision, append[v].attempt, append[v].since)]
    <3> DEFINE c == Call("collided", append[v].decision, append[v].attempt,
                         append[v].since)
    <3>1. append' = [append EXCEPT ![v] = c]
      BY <2>2
    <3>2. c.pc = "collided"
      BY DEF Call
    <3> HIDE DEF c
    <3> QED BY <1>1, <3>1, <3>2
  <2> QED BY <1>0, <1>4, <2>1, <2>2 DEF Persist
<1>5. ASSUME NEW v \in Writer, Rechain(v)
      PROVE  v = w /\ append[w].pc = "collided" /\ ~CanRetry(append[w].attempt)
  <2> DEFINE c == IF CanRetry(append[v].attempt)
                  THEN Call("persist", append[v].decision,
                            append[v].attempt + 1, append[v].since)
                  ELSE NoCall
  <2>1. append[v].pc = "collided" /\ append' = [append EXCEPT ![v] = c]
    BY <1>0, <1>5 DEF Rechain
  <2>2. CanRetry(append[v].attempt) => c.pc = "persist"
    BY DEF Call
  <2> HIDE DEF c
  <2> QED BY <1>1, <2>1, <2>2
<1>6. append[w].pc = "collided" /\ ~CanRetry(append[w].attempt)
  BY <1>2, <1>3, <1>4, <1>5 DEF Next
<1> QED BY <1>0, <1>6, CollisionCost, LedgerAssumption DEF CanRetry

\* AppendContext loses no append to a head that moved before it began: an
\* append ends unacknowledged, without a store error or a crash, only when
\* MaxRetries rows of other processes were inserted since it took the gate.
THEOREM ContentionAlwaysServed == Spec => ContentionServed
<1>1. Init => ContentionInv
  BY DEF Init, ContentionInv, Busy, Down, Call
<1>2. IInv /\ IInv' /\ ContentionInv /\ [Next]_vars => ContentionInv'
  BY ContentionStep
<1>3. IInv /\ ContentionInv /\ [Next]_vars
        => [\A w \in Busy :
              w \notin Busy' /\ acked' = acked /\ faults' = faults
                => Cardinality(DOMAIN rows) >= append[w].since + MaxRetries]_vars
  BY LostToContention
<1> QED BY <1>1, <1>2, <1>3, Invariance, PTL DEF Spec, ContentionServed

-----------------------------------------------------------------------------
\* The abstract log of a state.
AbsLog == [s \in DOMAIN rows |-> rows[s].decision]

\* A table of n rows is a log of n decisions.
LEMMA LogIsSeq ==
    ASSUME IInv, NEW n \in Nat, DOMAIN rows = 1..n
    PROVE  /\ AbsLog \in Seq(Decision)
           /\ Len(AbsLog) = n
           /\ \A i \in 1..n : AbsLog[i] = rows[i].decision
<1>1. \A i \in 1..n : rows[i].decision \in Decision
  BY DEF IInv, LedgerInv, TypeOK
<1>2. AbsLog = [i \in 1..n |-> rows[i].decision]
  BY DEF AbsLog
<1>3. AbsLog \in [1..n -> Decision]
  BY <1>1, <1>2
<1>4. AbsLog \in Seq(Decision) /\ Len(AbsLog) = n
  BY <1>3
<1> QED BY <1>2, <1>4

\* An insert that lands appends its decision to the log.
LEMMA LandIsAppend ==
    ASSUME IInv, IInv', NEW w \in Writer, append[w].pc = "persist",
           ~SeqTaken(Build(w).seq), rows' = Inserted(Build(w))
    PROVE  \E d \in Decision : AbsLog' = Append(AbsLog, d)
<1> DEFINE d == append[w].decision
<1>1. d \in Decision
  BY Now
<1>2. PICK n \in Nat : DOMAIN rows = 1..n
  BY DEF IInv, Contiguous
<1>3. Build(w).seq = n + 1 /\ Build(w).decision = d
  BY <1>2, FitIsNext, BuildFacts
<1>4. rows' = [s \in DOMAIN rows \union {Build(w).seq} |->
                IF s = Build(w).seq THEN Build(w) ELSE rows[s]]
  BY DEF Inserted
<1>5. /\ DOMAIN rows' = 1..(n + 1)
      /\ rows'[n + 1].decision = d
      /\ \A i \in 1..n : rows'[i] = rows[i]
  BY <1>2, <1>3, <1>4
<1>6. /\ AbsLog \in Seq(Decision)
      /\ Len(AbsLog) = n
      /\ \A i \in 1..n : AbsLog[i] = rows[i].decision
  BY <1>2, LogIsSeq
<1>7. AbsLog' = [i \in 1..(n + 1) |-> rows'[i].decision]
  BY <1>5 DEF AbsLog
<1>8. Append(AbsLog, d) = [i \in 1..(n + 1) |->
                            IF i = n + 1 THEN d ELSE AbsLog[i]]
  BY <1>1, <1>6, AppendProperties, SeqEqual
<1>9. \A i \in 1..(n + 1) :
        rows'[i].decision = IF i = n + 1 THEN d ELSE AbsLog[i]
  BY <1>5, <1>6
<1>10. AbsLog' = Append(AbsLog, d)
  BY <1>7, <1>8, <1>9
<1> QED BY <1>1, <1>10

\* An append changes the log by one decision, and no other step changes it.
LEMMA StepRefines ==
    ASSUME IInv, IInv', [Next]_vars
    PROVE  (\E d \in Decision : AbsLog' = Append(AbsLog, d)) \/ AbsLog' = AbsLog
<1>1. CASE UNCHANGED rows
  BY <1>1 DEF AbsLog
<1>2. ASSUME NEW w \in Writer, Persist(w)
      PROVE  UNCHANGED rows \/ (/\ append[w].pc = "persist"
                                /\ ~SeqTaken(Build(w).seq)
                                /\ rows' = Inserted(Build(w)))
  BY <1>2 DEF Persist
<1>3. UNCHANGED rows \/ \E w \in Writer : Persist(w)
  BY DEF Next, vars, Boot, Crash, AppendStart, Rechain
<1>4. CASE \E w \in Writer : Persist(w)
  BY <1>1, <1>2, <1>4, LandIsAppend
<1> QED BY <1>1, <1>3, <1>4

\* However many processes write it, the governance ledger is one log that
\* changes only by a decision being appended to its end.
THEOREM ImplementsAppendLog == Spec => IsAppendLog
<1>1. Init => Log!Init
  <2> SUFFICES ASSUME Init PROVE AbsLog = << >>
    BY DEF Log!Init, AbsLog
  <2>1. DOMAIN rows = 1..0
    BY DEF Init
  <2>2. AbsLog \in Seq(Decision) /\ Len(AbsLog) = 0
    BY <2>1, InitInv, LogIsSeq
  <2> QED BY <2>2, EmptySeq
<1>2. IInv /\ IInv' /\ [Next]_vars => [Log!Next]_(AbsLog)
  BY StepRefines DEF Log!Next, AbsLog
<1> QED BY <1>1, <1>2, Invariance, PTL DEF Spec, IsAppendLog, Log!Spec, AbsLog

-----------------------------------------------------------------------------
\* A set of numbers has a least element: the initial segments below its
\* elements are finite sets, which strict inclusion orders well.
LEMMA LeastElement ==
    ASSUME NEW S \in SUBSET Nat, S # {}
    PROVE  \E n \in S : \A m \in S : n <= m
<1> DEFINE T == {0..n : n \in S}
           R == StrictSubsetOrdering(Nat)
<1>1. T # {} /\ T \subseteq FiniteSubsetsOf(Nat)
  <2>1. ASSUME NEW n \in S PROVE 0..n \in FiniteSubsetsOf(Nat)
    BY FS_Interval DEF FiniteSubsetsOf
  <2> QED BY <2>1
<1>2. IsWellFoundedOn(R, FiniteSubsetsOf(Nat))
  BY FS_StrictSubsetOrderingWellFounded
<1>3. PICK x \in T : \A y \in T : <<y, x>> \notin R
  <2> HIDE DEF T, R
  <2> QED BY <1>1, <1>2, WFMin
<1>4. PICK n \in S : x = 0..n
  OBVIOUS
<1>5. ASSUME NEW m \in S, m < n PROVE FALSE
  <2>1. 0..m \in T /\ 0..m \subseteq 0..n /\ 0..m # 0..n
    BY <1>5
  <2>2. <<0..m, 0..n>> \in R
    BY <2>1 DEF StrictSubsetOrdering
  <2> QED BY <2>1, <2>2, <1>3, <1>4
<1> QED
  BY <1>5

\* A bounded set of numbers has a greatest element: its least bound.
LEMMA GreatestElement ==
    ASSUME NEW S \in SUBSET Nat, S # {}, NEW b \in Nat, \A s \in S : s <= b
    PROVE  \E n \in S : \A m \in S : m <= n
<1> DEFINE B == {c \in Nat : \A s \in S : s <= c}
<1>1. B \in SUBSET Nat /\ B # {}
  OBVIOUS
<1>2. PICK n \in B : \A m \in B : n <= m
  <2> HIDE DEF B
  <2> QED BY <1>1, LeastElement
<1>3. n \in S
  <2> SUFFICES ASSUME n \notin S PROVE FALSE
    OBVIOUS
  <2>1. PICK s \in S : TRUE
    OBVIOUS
  <2>2. n - 1 \in Nat /\ \A t \in S : t <= n - 1
    BY <2>1
  <2> QED BY <1>2, <2>2
<1> QED BY <1>2, <1>3

\* A row of entryHash stands for one decision and one predecessor: SHA-256 is
\* taken to be free of collisions.
CollisionFree ==
    \A s, d, p, e, q : Hash(s, d, p) = Hash(s, e, q) => d = e /\ p = q

\* Two verified rows with the same seq and hash are the same row.
LEMMA SameHashSameRow ==
    ASSUME CollisionFree, NEW u, NEW rs, Table(u), Table(rs),
           VerifyChain(u), VerifyChain(rs),
           NEW s \in DOMAIN u, s \in DOMAIN rs, rs[s].hash = u[s].hash
    PROVE  rs[s] = u[s]
<1>1. /\ u[s].seq = s /\ u[s].hash = Hash(s, u[s].decision, u[s].prev)
      /\ rs[s].seq = s /\ rs[s].hash = Hash(s, rs[s].decision, rs[s].prev)
  BY DEF VerifyChain
<1>2. u[s].decision = rs[s].decision /\ u[s].prev = rs[s].prev
  BY <1>1 DEF CollisionFree
<1>3. /\ u[s] = Entry(u[s].seq, u[s].decision, u[s].prev, u[s].hash)
      /\ rs[s] = Entry(rs[s].seq, rs[s].decision, rs[s].prev, rs[s].hash)
  BY DEF Table
<1> QED BY <1>1, <1>2, <1>3

\* The head hash commits to the whole table: a chain that verifies and has the
\* anchored row of table u has every row of u.
LEMMA Commitment ==
    ASSUME CollisionFree, NEW u, NEW rs, NEW a, Table(u), Table(rs),
           VerifyChain(u), VerifyChain(rs), AnchorOf(u, a),
           ~Contradicts(rs, a)
    PROVE  \A s \in DOMAIN u : s \in DOMAIN rs /\ rs[s] = u[s]
<1> TAKE m \in DOMAIN u
<1> DEFINE Good(s) == s \in DOMAIN rs /\ rs[s] = u[s]
           S == {s \in DOMAIN u : m <= s /\ Good(s)}
<1>1. DOMAIN u \subseteq Nat \ {0} /\ DOMAIN rs \subseteq Nat \ {0}
  BY DEF Table
<1>2. a.seq \in S
  <2>1. a.seq \in DOMAIN rs /\ rs[a.seq].hash = u[a.seq].hash
    BY DEF Contradicts, AnchorOf
  <2>2. a.seq \in DOMAIN u /\ m <= a.seq
    BY DEF AnchorOf
  <2>3. rs[a.seq] = u[a.seq]
    BY <2>1, <2>2, SameHashSameRow
  <2> QED BY <2>1, <2>2, <2>3
<1>3. PICK n \in S : \A k \in S : n <= k
  <2>1. S \in SUBSET Nat /\ S # {}
    BY <1>1, <1>2
  <2> HIDE DEF S
  <2> QED BY <2>1, LeastElement
<1>4. ASSUME m < n PROVE FALSE
  <2>1. n \in DOMAIN u /\ n \in DOMAIN rs /\ rs[n] = u[n] /\ n # 1
    BY <1>1, <1>4
  <2>2. /\ n - 1 \in DOMAIN u /\ u[n].prev = u[n - 1].hash
        /\ n - 1 \in DOMAIN rs /\ rs[n].prev = rs[n - 1].hash
    BY <2>1 DEF VerifyChain
  <2>3. rs[n - 1] = u[n - 1]
    BY <2>1, <2>2, SameHashSameRow
  <2>4. n - 1 \in S
    BY <1>1, <1>4, <2>2, <2>3
  <2> QED BY <1>1, <1>3, <2>4
<1>5. m = n
  BY <1>1, <1>3, <1>4
<1> QED BY <1>3, <1>5

-----------------------------------------------------------------------------
\* An anchor the table bears out is borne out by every longer table.
LEMMA GrowthKeepsAnchors ==
    ASSUME NEW rs, NEW ts, NEW a, ~Contradicts(rs, a),
           \A s \in DOMAIN rs : s \in DOMAIN ts /\ ts[s] = rs[s]
    PROVE  ~Contradicts(ts, a)
<1> DEFINE window == WindowSeqs(a.seq, Cardinality(DOMAIN a.recent))
<1>1. /\ a.seq \in DOMAIN rs /\ rs[a.seq].hash = a.hash
      /\ window \subseteq DOMAIN rs
      /\ ComputeAnchor(a.seq, a.hash, [t \in window |-> rs[t].hash]) = a
  BY DEF Contradicts
<1> HIDE DEF window
<1>2. [t \in window |-> ts[t].hash] = [t \in window |-> rs[t].hash]
  BY <1>1
<1>3. /\ a.seq \in DOMAIN ts /\ ts[a.seq].hash = a.hash
      /\ window \subseteq DOMAIN ts
      /\ ComputeAnchor(a.seq, a.hash, [t \in window |-> ts[t].hash]) = a
  BY <1>1, <1>2
<1> QED BY <1>3 DEF Contradicts, window

\* The rows folded into an anchor of a table without holes are the window its
\* verification looks at, also when there are fewer rows than Window.
LEMMA FreshAnchor ==
    ASSUME NEW rs, NEW n \in Nat \ {0}, DOMAIN rs = 1..n
    PROVE  ~Contradicts(rs, ComputeAnchor(n, rs[n].hash, Recent(rs)))
<1> DEFINE lo == IF n <= Window THEN 1 ELSE n - Window + 1
           a == ComputeAnchor(n, rs[n].hash, Recent(rs))
           size == Cardinality(DOMAIN a.recent)
<1>1. lo \in 1..n
  BY AnchorAssumption
<1>2. a.seq = n /\ a.hash = rs[n].hash /\ a.recent = Recent(rs)
  BY DEF ComputeAnchor
<1>3. ASSUME NEW t \in 1..n
      PROVE  Cardinality({u \in DOMAIN rs : t < u}) = n - t
  <2>1. {u \in DOMAIN rs : t < u} = (t + 1)..n
    OBVIOUS
  <2>2. t + 1 \in Int /\ n \in Int
    OBVIOUS
  <2>3. Cardinality((t + 1)..n) = IF t + 1 > n THEN 0 ELSE n - (t + 1) + 1
    BY <2>2, FS_Interval
  <2>4. Cardinality((t + 1)..n) = n - t
    BY <2>3
  <2> QED BY <2>1, <2>4
<1>4. {t \in DOMAIN rs : Cardinality({u \in DOMAIN rs : t < u}) < Window}
        = lo..n
  BY <1>3, AnchorAssumption
<1>5. Recent(rs) = [s \in lo..n |-> rs[s].hash]
  BY <1>4 DEF Recent
<1>6. size = n - lo + 1
  BY <1>1, <1>2, <1>5, FS_Interval
<1>7. WindowSeqs(n, size) = lo..n
  BY <1>1, <1>6 DEF WindowSeqs
<1> HIDE DEF size, lo
<1>8. a = ComputeAnchor(n, rs[n].hash, [t \in lo..n |-> rs[t].hash])
  BY <1>5
<1> HIDE DEF a
<1>9. lo..n \subseteq DOMAIN rs
  BY <1>1
<1>10. ~Contradicts(rs, a)
  <2>1. WindowSeqs(a.seq, Cardinality(DOMAIN a.recent)) = lo..n
    BY <1>2, <1>7 DEF size
  <2>2. a.seq \in DOMAIN rs
    BY <1>2
  <2>3. ComputeAnchor(a.seq, a.hash, [t \in lo..n |-> rs[t].hash]) = a
    BY <1>2, <1>8
  <2> QED BY <1>2, <1>9, <2>1, <2>2, <2>3 DEF Contradicts
<1> QED BY <1>10 DEF a

\* The head read from a table is its last row, holes or not.
LEMMA TailReadIsTop ==
    ASSUME Table(rows)
    PROVE  /\ TailRead.seq \in Nat
           /\ DOMAIN rows # {} =>
                /\ TailRead.seq \in DOMAIN rows
                /\ TailRead.hash = rows[TailRead.seq].hash
                /\ \A s \in DOMAIN rows : s <= TailRead.seq
<1>1. CASE DOMAIN rows = {}
  BY <1>1 DEF TailRead, ChainHead
<1>2. CASE DOMAIN rows # {}
  <2> DEFINE IsTop(s) == \A t \in DOMAIN rows : t <= s
  <2> DEFINE top == CHOOSE s \in DOMAIN rows : IsTop(s)
  <2>1. \E s \in DOMAIN rows : IsTop(s)
    BY <1>2 DEF Table
  <2>2. top \in DOMAIN rows /\ IsTop(top)
    BY <2>1
  <2>3. TailRead = ChainHead(top, rows[top].hash)
    BY <1>2 DEF TailRead
  <2>4. top \in Nat
    BY <2>2 DEF Table
  <2> HIDE DEF top
  <2> QED BY <2>2, <2>3, <2>4 DEF ChainHead
<1> QED BY <1>1, <1>2

\* AnchorInv with the facts about the ledger proper that its steps need.
AnchorIInv ==
    /\ AnchorInv
    /\ tail = [w \in Writer |-> tail[w]]
    /\ losses = 0 => IInv

\* An insert extends a table to a table.
LEMMA InsertExtends ==
    ASSUME Table(rows), NEW w \in Writer, tail[w].seq \in Nat,
           ~SeqTaken(Build(w).seq), rows' = Inserted(Build(w))
    PROVE  /\ Table(rows')
           /\ \A s \in DOMAIN rows : s \in DOMAIN rows' /\ rows'[s] = rows[s]
<1> DEFINE e == Build(w)
<1>1. /\ e = Entry(e.seq, e.decision, e.prev, e.hash)
      /\ e.seq \in Nat \ {0} /\ e.seq \notin DOMAIN rows
  BY DEF Build, Entry, SeqTaken
<1> HIDE DEF e
<1>2. rows' = [s \in DOMAIN rows \union {e.seq} |->
                IF s = e.seq THEN e ELSE rows[s]]
  BY DEF Inserted, e
<1>3. /\ DOMAIN rows' = DOMAIN rows \union {e.seq}
      /\ rows'[e.seq] = e
      /\ \A s \in DOMAIN rows : s \in DOMAIN rows' /\ rows'[s] = rows[s]
  BY <1>1, <1>2
<1>4. DOMAIN rows \subseteq Nat \ {0}
  BY DEF Table
<1>5. \E t \in DOMAIN rows' : \A s \in DOMAIN rows' : s <= t
  <2>1. CASE DOMAIN rows = {}
    BY <1>1, <1>3, <2>1
  <2>2. CASE DOMAIN rows # {}
    <3>1. PICK t \in DOMAIN rows : \A s \in DOMAIN rows : s <= t
      BY <2>2 DEF Table
    <3>2. CASE t <= e.seq
      <4>1. \A s \in DOMAIN rows' : s <= e.seq
        BY <1>1, <1>3, <1>4, <3>1, <3>2
      <4> QED BY <1>3, <4>1
    <3>3. CASE ~(t <= e.seq)
      <4>1. \A s \in DOMAIN rows' : s <= t
        BY <1>1, <1>3, <1>4, <3>1, <3>3
      <4> QED BY <1>3, <3>1, <4>1
    <3> QED BY <3>2, <3>3
  <2> QED BY <2>1, <2>2
<1>6. \A s \in DOMAIN rows' : rows'[s] =
        Entry(rows'[s].seq, rows'[s].decision, rows'[s].prev, rows'[s].hash)
  BY <1>1, <1>3 DEF Table
<1> QED BY <1>1, <1>3, <1>4, <1>5, <1>6 DEF Table

\* What a step of the writers does to the table and the cached tails.
LEMMA WriterStep ==
    ASSUME AnchorIInv, Next
    PROVE  /\ Table(rows')
           /\ \A s \in DOMAIN rows : s \in DOMAIN rows' /\ rows'[s] = rows[s]
           /\ \A w \in Writer : tail'[w].seq \in Nat
           /\ tail' = [w \in Writer |-> tail'[w]]
<1>0. /\ Table(rows) /\ \A w \in Writer : tail[w].seq \in Nat
      /\ tail = [w \in Writer |-> tail[w]]
  BY DEF AnchorIInv, AnchorInv
<1>1. PICK w \in Writer :
        \/ Boot(w) \/ Crash(w)
        \/ \E d \in Decision : AppendStart(w, d)
        \/ Persist(w) \/ Rechain(w)
  BY DEF Next
<1>2. \/ rows' = rows
      \/ ~SeqTaken(Build(w).seq) /\ rows' = Inserted(Build(w))
  BY <1>1 DEF Boot, Crash, AppendStart, Persist, Rechain
<1>3. /\ Table(rows')
      /\ \A s \in DOMAIN rows : s \in DOMAIN rows' /\ rows'[s] = rows[s]
  BY <1>0, <1>2, InsertExtends
<1>4. Build(w).seq \in Nat
  BY <1>0 DEF Build, Entry
<1>5. PICK h : h.seq \in Nat /\ tail' = [tail EXCEPT ![w] = h]
  <2>1. \/ tail' = tail
        \/ tail' = [tail EXCEPT ![w] = TailRead]
        \/ tail' = [tail EXCEPT ![w] = tail[w]]
        \/ tail' = [tail EXCEPT ![w] = ChainHead(Build(w).seq, Build(w).hash)]
    BY <1>1 DEF Boot, Crash, AppendStart, Persist, Rechain, Rechained,
                TailAfterError
  <2>2. CASE tail' = tail
    <3>1. tail' = [tail EXCEPT ![w] = tail[w]]
      BY <1>0, <2>2
    <3> QED BY <1>0, <3>1
  <2>3. CASE tail' = [tail EXCEPT ![w] = TailRead]
    BY <1>0, <2>3, TailReadIsTop
  <2>4. CASE tail' = [tail EXCEPT ![w] = tail[w]]
    BY <1>0, <2>4
  <2>5. CASE tail' = [tail EXCEPT ![w] = ChainHead(Build(w).seq, Build(w).hash)]
    <3>1. ChainHead(Build(w).seq, Build(w).hash).seq \in Nat
      BY <1>4 DEF ChainHead
    <3> QED BY <2>5, <3>1
  <2> QED BY <2>1, <2>2, <2>3, <2>4, <2>5
<1>6. /\ \A v \in Writer : tail'[v].seq \in Nat
      /\ tail' = [v \in Writer |-> tail'[v]]
  BY <1>0, <1>5
<1> QED BY <1>3, <1>6

\* A step that leaves the ledger alone, but for the count of faults.
LEMMA LedgerLeft ==
    ASSUME IInv, UNCHANGED <<rows, tail, append, acked, appends>>,
           faults' = faults \/ Fault
    PROVE  IInv'
<1>1. faults' \in Nat
  BY Now DEF Fault
<1>2. TailIsRow'
  BY Now DEF TailIsRow
<1> QED BY <1>1, <1>2, Now, QuietStep

\* A step of the recorder or the verifier: the ledger is left alone, no anchor
\* is held that was not, and no alarm is raised on a ledger that lost nothing.
LEMMA WatcherStep ==
    ASSUME AnchorIInv, UNCHANGED <<rows, tail, append, acked, appends, losses>>,
           faults' = faults \/ Fault,
           \A r \in recorder' : Table(r.under) /\ AnchorOf(r.under, r.anchor),
           anchors \subseteq anchors',
           \A u \in witnessed' : \/ u \in witnessed
                                 \/ /\ Table(u) /\ VerifyChain(u)
                                    /\ \E a \in anchors' : AnchorOf(u, a),
           losses = 0 => ~alarm',
           losses = 0 => \A a \in AnchorsHeld' : ~Contradicts(rows, a)
    PROVE  AnchorIInv'
<1>1. losses = 0 => IInv'
  BY LedgerLeft DEF AnchorIInv
<1>2. losses = 0 => LedgerInv'
  BY <1>1 DEF IInv
<1>3. \A u \in witnessed' :
        Table(u) /\ VerifyChain(u) /\ \E a \in anchors' : AnchorOf(u, a)
  BY DEF AnchorIInv, AnchorInv
<1>4. /\ Table(rows') /\ \A w \in Writer : tail'[w].seq \in Nat
      /\ tail' = [w \in Writer |-> tail'[w]] /\ losses' \in Nat
  BY DEF AnchorIInv, AnchorInv
<1>5. losses' = 0 => LedgerInv' /\ ~alarm'
            /\ \A a \in AnchorsHeld' : ~Contradicts(rows', a)
  BY <1>2
<1> QED BY <1>1, <1>3, <1>4, <1>5 DEF AnchorIInv, AnchorInv

\* The recorder's read of the head: the anchor it computes is borne out.
LEMMA HeadInv == ASSUME AnchorIInv, AnchorHead PROVE AnchorIInv'
<1> DEFINE a == ComputeAnchor(TailRead.seq, TailRead.hash, Recent(rows))
           r == [anchor |-> a, under |-> rows]
<1>1. /\ recorder' = {r} /\ DOMAIN rows # {}
      /\ UNCHANGED <<rows, tail, append, acked, appends, faults, anchors,
                     verifier, alarm, losses, witnessed>>
  BY DEF AnchorHead, vars
<1>2. r.anchor = a /\ r.under = rows
  OBVIOUS
<1>3. Table(rows) /\ AnchorOf(rows, a)
  <2>1. Table(rows)
    BY DEF AnchorIInv, AnchorInv
  <2>2. a.seq = TailRead.seq /\ a.hash = TailRead.hash
    BY DEF ComputeAnchor
  <2> HIDE DEF a
  <2> QED BY <1>1, <2>1, <2>2, TailReadIsTop DEF AnchorOf
<1>4. ASSUME losses = 0 PROVE ~Contradicts(rows, a)
  <2>1. PICK n \in Nat : DOMAIN rows = 1..n
    BY <1>4 DEF AnchorIInv, IInv, Contiguous
  <2>2. n # 0
    BY <1>1, <2>1
  <2>3. TailRead.seq = n
    BY <2>1, TailReadIsLast
  <2>4. TailRead.hash = rows[n].hash
    BY <1>1, <1>3, <2>3, TailReadIsTop
  <2> QED BY <2>1, <2>2, <2>3, <2>4, FreshAnchor
<1> HIDE DEF a, r
<1>5. \A x \in recorder' : Table(x.under) /\ AnchorOf(x.under, x.anchor)
  BY <1>1, <1>2, <1>3
<1>6. \A x \in AnchorsHeld' : x \in AnchorsHeld \/ x = a
  BY <1>1, <1>2 DEF AnchorsHeld
<1>7. losses = 0 => ~alarm' /\ \A x \in AnchorsHeld' : ~Contradicts(rows, x)
  BY <1>1, <1>4, <1>6 DEF AnchorIInv, AnchorInv
<1> QED BY <1>1, <1>5, <1>7, WatcherStep

\* Recording the anchor, or failing to.
LEMMA RecordInv == ASSUME AnchorIInv, AnchorRecord PROVE AnchorIInv'
<1>1. /\ recorder' = {}
      /\ UNCHANGED <<rows, tail, append, acked, appends, verifier, alarm, losses>>
  BY DEF AnchorRecord, Nothing
<1>2. PICK r \in recorder :
        \/ /\ anchors' = anchors \union {r.anchor}
           /\ witnessed' = witnessed \union {u \in {r.under} : VerifyChain(u)}
           /\ UNCHANGED faults
        \/ Fault /\ UNCHANGED <<anchors, witnessed>>
  BY DEF AnchorRecord
<1>3. Table(r.under) /\ AnchorOf(r.under, r.anchor)
  BY DEF AnchorIInv, AnchorInv
<1>4. \A u \in witnessed' : \/ u \in witnessed
                            \/ /\ Table(u) /\ VerifyChain(u)
                               /\ \E a \in anchors' : AnchorOf(u, a)
  BY <1>2, <1>3
<1>5. \A a \in AnchorsHeld' : a \in AnchorsHeld
  BY <1>1, <1>2 DEF AnchorsHeld
<1>6. losses = 0 => ~alarm' /\ \A a \in AnchorsHeld' : ~Contradicts(rows, a)
  BY <1>1, <1>5 DEF AnchorIInv, AnchorInv
<1>7. anchors \subseteq anchors' /\ (faults' = faults \/ Fault)
  BY <1>2
<1> QED BY <1>1, <1>4, <1>6, <1>7, WatcherStep

\* The verifier's two reads.
LEMMA VerifyInv ==
    ASSUME AnchorIInv, VerifyAnchorsRead \/ VerifyChainRead
    PROVE  AnchorIInv'
<1>1. /\ UNCHANGED <<rows, tail, append, acked, appends, losses, anchors,
                     recorder, witnessed>>
      /\ faults' = faults \/ Fault
      /\ verifier'.anchors \subseteq anchors
  <2>1. CASE VerifyAnchorsRead
    BY <2>1 DEF VerifyAnchorsRead, vars
  <2>2. CASE VerifyChainRead
    <3>1. verifier'.anchors = {}
      BY <2>2 DEF VerifyChainRead
    <3> QED BY <2>2, <3>1 DEF VerifyChainRead
  <2> QED BY <2>1, <2>2
<1>2. \/ alarm' = alarm
      \/ ~VerifyAgainstAnchors(rows, verifier.anchors)
  BY DEF VerifyAnchorsRead, VerifyChainRead
<1>3. \A a \in AnchorsHeld' : a \in AnchorsHeld
  BY <1>1 DEF AnchorsHeld
<1>4. verifier.anchors \subseteq AnchorsHeld
  BY DEF AnchorsHeld
<1>5. losses = 0 => ~alarm' /\ \A a \in AnchorsHeld' : ~Contradicts(rows, a)
  BY <1>2, <1>3, <1>4 DEF AnchorIInv, AnchorInv, VerifyAgainstAnchors
<1>6. \A r \in recorder' : Table(r.under) /\ AnchorOf(r.under, r.anchor)
  BY <1>1 DEF AnchorIInv, AnchorInv
<1> QED BY <1>1, <1>5, <1>6, WatcherStep

\* The rows that a loss leaves are a table.
LEMMA LoseInv ==
    ASSUME AnchorIInv, NEW k \in 0..MaxAppends, LoseRows(k)
    PROVE  AnchorIInv'
<1>1. /\ rows' = [s \in {t \in DOMAIN rows : t <= k} |-> rows[s]]
      /\ losses' = losses + 1
      /\ UNCHANGED <<tail, anchors, recorder, witnessed>>
  BY DEF LoseRows
<1>2. Table(rows) /\ k \in Nat /\ losses \in Nat
  BY LedgerAssumption DEF AnchorIInv, AnchorInv
<1>3. /\ DOMAIN rows' \subseteq Nat \ {0}
      /\ \A s \in DOMAIN rows' : s <= k /\ s \in DOMAIN rows /\ rows'[s] = rows[s]
  BY <1>1, <1>2 DEF Table
<1>4. DOMAIN rows' # {} => \E t \in DOMAIN rows' : \A s \in DOMAIN rows' : s <= t
  <2>1. DOMAIN rows' \in SUBSET Nat /\ \A s \in DOMAIN rows' : s <= k
    BY <1>3
  <2> QED BY <1>2, <2>1, GreatestElement
<1>5. Table(rows')
  BY <1>2, <1>3, <1>4 DEF Table
<1>6. losses' \in Nat /\ losses' # 0
  BY <1>1, <1>2
<1> QED BY <1>1, <1>5, <1>6 DEF AnchorIInv, AnchorInv

\* Every step keeps AnchorIInv.
LEMMA AnchorStep == AnchorIInv /\ [AnchorNext]_allVars => AnchorIInv'
<1> SUFFICES ASSUME AnchorIInv, [AnchorNext]_allVars PROVE AnchorIInv'
  OBVIOUS
<1>1. CASE UNCHANGED allVars
  <2>1. /\ UNCHANGED <<rows, tail, append, acked, appends, faults, losses>>
        /\ UNCHANGED <<recorder, anchors, witnessed, verifier, alarm>>
    BY <1>1 DEF allVars, vars, anchorVars
  <2>2. AnchorsHeld' = AnchorsHeld
    BY <2>1 DEF AnchorsHeld
  <2>3. /\ \A r \in recorder' : Table(r.under) /\ AnchorOf(r.under, r.anchor)
        /\ losses = 0 => ~alarm' /\ \A a \in AnchorsHeld' : ~Contradicts(rows, a)
    BY <2>1, <2>2 DEF AnchorIInv, AnchorInv
  <2> QED BY <2>1, <2>3, WatcherStep
<1>2. CASE Next /\ UNCHANGED anchorVars
  <2>1. UNCHANGED <<anchors, recorder, verifier, alarm, losses, witnessed>>
    BY <1>2 DEF anchorVars
  <2>2. /\ Table(rows')
        /\ \A s \in DOMAIN rows : s \in DOMAIN rows' /\ rows'[s] = rows[s]
        /\ \A w \in Writer : tail'[w].seq \in Nat
        /\ tail' = [w \in Writer |-> tail'[w]]
    BY <1>2, WriterStep
  <2>3. losses = 0 => IInv'
    BY <1>2, StepInv DEF AnchorIInv
  <2>4. AnchorsHeld' = AnchorsHeld
    BY <2>1 DEF AnchorsHeld
  <2>5. ASSUME losses = 0, NEW a \in AnchorsHeld' PROVE ~Contradicts(rows', a)
    <3>1. ~Contradicts(rows, a)
      BY <2>4, <2>5 DEF AnchorIInv, AnchorInv
    <3> QED BY <2>2, <3>1, GrowthKeepsAnchors
  <2>6. losses' = 0 => IInv' /\ LedgerInv' /\ ~alarm'
    BY <2>1, <2>3 DEF AnchorIInv, AnchorInv, IInv
  <2>7. /\ \A r \in recorder' : Table(r.under) /\ AnchorOf(r.under, r.anchor)
        /\ \A u \in witnessed' :
            Table(u) /\ VerifyChain(u) /\ \E a \in anchors' : AnchorOf(u, a)
        /\ losses' \in Nat
    BY <2>1 DEF AnchorIInv, AnchorInv
  <2> QED BY <2>1, <2>2, <2>5, <2>6, <2>7 DEF AnchorIInv, AnchorInv
<1>3. CASE AnchorHead
  BY <1>3, HeadInv
<1>4. CASE AnchorRecord
  BY <1>4, RecordInv
<1>5. CASE VerifyAnchorsRead \/ VerifyChainRead
  BY <1>5, VerifyInv
<1>6. ASSUME NEW k \in 0..MaxAppends, LoseRows(k) PROVE AnchorIInv'
  BY <1>6, LoseInv
<1> QED BY <1>1, <1>2, <1>3, <1>4, <1>5, <1>6 DEF AnchorNext

\* AnchorIInv is an invariant of the specification.
LEMMA AnchorInvariance == AnchorSpec => []AnchorIInv
<1>1. AnchorInit => AnchorIInv
  <2> SUFFICES ASSUME AnchorInit PROVE AnchorIInv
    OBVIOUS
  <2>1. IInv
    BY InitInv DEF AnchorInit
  <2>2. DOMAIN rows = {} /\ tail = [w \in Writer |-> ChainHead(0, Genesis)]
    BY DEF AnchorInit, Init
  <2>3. Table(rows)
    BY <2>2 DEF Table
  <2>4. AnchorsHeld = {}
    BY DEF AnchorInit, AnchorsHeld, Nothing
  <2>5. /\ \A w \in Writer : tail[w].seq \in Nat
        /\ tail = [w \in Writer |-> tail[w]]
    BY <2>2 DEF ChainHead
  <2>6. /\ recorder = {} /\ witnessed = {} /\ losses = 0 /\ ~alarm
    BY DEF AnchorInit, Nothing
  <2> QED BY <2>1, <2>3, <2>4, <2>5, <2>6 DEF AnchorIInv, AnchorInv, IInv
<1> QED BY <1>1, AnchorStep, PTL DEF AnchorSpec

\* VerifyAgainstAnchors says the truth, however rows are lost and re-linked:
\* without a loss it never reports tampering (whatever the recorder, the
\* verifier and the writers interleave), and a chain that passes it and
\* VerifyChain has every row of every verified table an anchor was taken of.
THEOREM VerdictAlwaysTrue ==
    ASSUME CollisionFree
    PROVE  AnchorSpec => []VerdictIsTrue
<1>1. AnchorIInv => VerdictIsTrue
  <2> SUFFICES ASSUME AnchorIInv PROVE VerdictIsTrue
    OBVIOUS
  <2>1. ASSUME VerifyChain(rows), VerifyAgainstAnchors(rows, anchors),
               NEW u \in witnessed
        PROVE  Holds(u)
    <3>1. Table(u) /\ VerifyChain(u) /\ Table(rows)
      BY DEF AnchorIInv, AnchorInv
    <3>2. PICK a \in anchors : AnchorOf(u, a)
      BY DEF AnchorIInv, AnchorInv
    <3>3. ~Contradicts(rows, a)
      BY <2>1 DEF VerifyAgainstAnchors
    <3> QED BY <2>1, <3>1, <3>2, <3>3, Commitment DEF Holds
  <2> QED BY <2>1 DEF VerdictIsTrue, AnchorIInv, AnchorInv
<1> QED BY <1>1, AnchorInvariance, PTL

\* A writer's step, whichever call of its store fails, leaves the count of
\* failures or raises it by one.
LEMMA WriterFaults == ASSUME faults \in Nat, Next PROVE faults' \in Nat
BY DEF Next, Boot, Crash, AppendStart, Persist, Rechain, Fault

FaultCount == faults \in Nat

\* Failures are counted.
LEMMA FaultsCounted == AnchorSpec => []FaultCount
<1>1. AnchorInit => FaultCount
  BY DEF AnchorInit, Init, FaultCount
<1>2. FaultCount /\ [AnchorNext]_allVars => FaultCount'
  <2> SUFFICES ASSUME faults \in Nat, [AnchorNext]_allVars PROVE faults' \in Nat
    BY DEF FaultCount
  <2>1. CASE Next /\ UNCHANGED anchorVars
    BY <2>1, WriterFaults
  <2>2. CASE AnchorHead \/ VerifyAnchorsRead \/ UNCHANGED allVars
    BY <2>2 DEF AnchorHead, VerifyAnchorsRead, allVars, vars
  <2>3. CASE AnchorRecord
    BY <2>3 DEF AnchorRecord, Fault
  <2>4. CASE VerifyChainRead
    <3>1. faults' = faults \/ Fault
      BY <2>4, Zenon DEF VerifyChainRead
    <3> QED BY <3>1 DEF Fault
  <2>5. ASSUME NEW k \in 0..MaxAppends, LoseRows(k) PROVE faults' \in Nat
    BY <2>5 DEF LoseRows
  <2> QED BY <2>1, <2>2, <2>3, <2>4, <2>5 DEF AnchorNext
<1> QED BY <1>1, <1>2, PTL DEF AnchorSpec

\* VerifyJob.Run reports every loss it can know of: a pass that reads the chain
\* raises the alarm if the chain verifies and a row under an anchor of the pass
\* is gone or replaced, whatever was lost, appended and re-linked since.
THEOREM PassAlwaysReports ==
    ASSUME CollisionFree
    PROVE  AnchorSpec => PassReports
<1> DEFINE Sees == (/\ verifier.pc = "reading" /\ verifier'.pc = "idle"
                    /\ UNCHANGED faults /\ VerifyChain(rows)
                    /\ \E u \in witnessed :
                        ~Holds(u) /\ \E a \in verifier.anchors : AnchorOf(u, a))
                   => alarm'
<1>1. AnchorIInv /\ FaultCount /\ [AnchorNext]_allVars => [Sees]_allVars
  <2> SUFFICES ASSUME AnchorIInv, faults \in Nat, AnchorNext,
                      verifier.pc = "reading", verifier'.pc = "idle",
                      UNCHANGED faults, VerifyChain(rows),
                      NEW u \in witnessed, ~Holds(u),
                      NEW a \in verifier.anchors, AnchorOf(u, a)
               PROVE  alarm'
    BY DEF FaultCount
  <2>1. VerifyChainRead
    <3>1. ~ UNCHANGED verifier
      OBVIOUS
    <3>2. ~ VerifyAnchorsRead
      BY DEF VerifyAnchorsRead
    <3> QED BY <3>1, <3>2 DEF AnchorNext, anchorVars, AnchorHead, AnchorRecord, LoseRows
  <2>2. alarm' = IF VerifyAgainstAnchors(rows, verifier.anchors)
                 THEN alarm ELSE TRUE
    <3>1. ~Fault
      BY DEF Fault
    <3> QED BY <2>1, <3>1, Zenon DEF VerifyChainRead
  <2>3. Contradicts(rows, a)
    <3>1. Table(u) /\ VerifyChain(u) /\ Table(rows)
      BY DEF AnchorIInv, AnchorInv
    <3> QED BY <3>1, Commitment DEF Holds
  <2>4. ~VerifyAgainstAnchors(rows, verifier.anchors)
    BY <2>3 DEF VerifyAgainstAnchors
  <2> QED BY <2>2, <2>4
<1> QED BY <1>1, AnchorInvariance, FaultsCounted, PTL DEF AnchorSpec, PassReports
=============================================================================
