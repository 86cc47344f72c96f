------------------------- MODULE JudgeDeadManProofs -------------------------
(***************************************************************************)
(* For any finite set of monitors, any number of deaths of the judge and   *)
(* any number of store and notifier errors: the shared breaker record is   *)
(* well formed, and no opening of it pages twice.                          *)
(***************************************************************************)
EXTENDS JudgeDeadMan, FiniteSetTheorems, TLAPS

\* Reset and CompareAndOpen write a record; the second one changes the record
\* just when it opens it.
LEMMA BreakerWrites ==
    ASSUME NEW r \in Record
    PROVE  /\ Fresh \in Record
           /\ AfterReset(r) \in Record
           /\ AfterCompareAndOpen(r) \in Record
           /\ OpenedNow(r) <=> r.state # Open
  BY DEF Fresh, Rec, Record, AfterReset, AfterCompareAndOpen, OpenedNow,
         Closed, HalfOpen, Open

\* Every step keeps the record, the ticks and the counters well typed.
LEMMA TypeStep == TypeOK /\ [Next]_vars => TypeOK'
<1> SUFFICES ASSUME TypeOK, [Next]_vars PROVE TypeOK'
  OBVIOUS
<1>0. /\ Fresh \in Record
      /\ AfterCompareAndOpen(row) \in Record
      /\ \A m \in Monitor : AfterReset(tick[m].loaded) \in Record
  BY BreakerWrites DEF TypeOK
<1> USE <1>0 DEF TypeOK
<1>1. ASSUME JudgeDies \/ JudgeRecovers PROVE TypeOK'
  BY <1>1 DEF JudgeDies, JudgeRecovers
<1>2. ASSUME NEW m \in Monitor, Measure(m) PROVE TypeOK'
  BY <1>2 DEF Measure, Move, At
<1>3. ASSUME NEW m \in Monitor, HaltOpen(m) PROVE TypeOK'
  BY <1>3 DEF HaltOpen, Move, At, Fault
<1>4. ASSUME NEW m \in Monitor, Page(m) PROVE TypeOK'
  BY <1>4 DEF Page, Move, At, Fault
<1>5. ASSUME NEW m \in Monitor, RearmLoad(m) PROVE TypeOK'
  BY <1>5 DEF RearmLoad, Move, At, Fault
<1>6. ASSUME NEW m \in Monitor, RearmSave(m) PROVE TypeOK'
  BY <1>6 DEF RearmSave, Move, At, Fault
<1>7. CASE UNCHANGED vars
  BY <1>7 DEF vars
<1> QED
  BY <1>1, <1>2, <1>3, <1>4, <1>5, <1>6, <1>7 DEF Next, Tick

\* The initial record is closed and clean, and nobody ticks.
LEMMA TypeInit == Init => TypeOK
  BY DEF Init, TypeOK, Idle, At, Fresh, Rec, Record, Closed

\* Every reachable state of the dead-man and its monitors is well typed.
THEOREM TypeCorrect == Spec => []TypeOK
  BY TypeInit, TypeStep, PTL DEF Spec

-----------------------------------------------------------------------------
\* The page a monitor m decided on joins the ones that are on their way.
LEMMA PagingJoins ==
    ASSUME NEW m \in Monitor, TypeOK, tick[m].pc # "paging",
           NEW pc, Move(m, pc, Fresh)
    PROVE  Cardinality(Paging') =
             Cardinality(Paging) + (IF pc = "paging" THEN 1 ELSE 0)
<1>1. IsFiniteSet(Paging)
  BY JudgeAssumption, FS_Subset DEF Paging
<1>2. Paging' = IF pc = "paging" THEN Paging \union {m} ELSE Paging
  BY DEF Move, At, Paging, TypeOK
<1>3. m \notin Paging
  BY DEF Paging
<1> QED
  BY <1>1, <1>2, <1>3, FS_AddElement, FS_CardinalityType

\* A monitor that leaves the page it decided on, sent or not, is one less.
LEMMA PagingLeaves ==
    ASSUME NEW m \in Monitor, TypeOK, tick[m].pc = "paging",
           Move(m, "idle", Fresh)
    PROVE  Cardinality(Paging') = Cardinality(Paging) - 1
<1>1. IsFiniteSet(Paging)
  BY JudgeAssumption, FS_Subset DEF Paging
<1>2. Paging' = Paging \ {m} /\ m \in Paging
  BY DEF Move, At, Paging, TypeOK
<1> QED
  BY <1>1, <1>2, FS_RemoveElement

\* Every step keeps the pages, sent and on their way, covered by openings.
LEMMA PageStep ==
    ASSUME TypeOK, OnePagePerOpening, [Next]_vars
    PROVE  OnePagePerOpening'
<1>0. /\ pages \in Nat /\ openings \in Nat /\ Cardinality(Paging) \in Nat
      /\ pages + Cardinality(Paging) <= openings
  <2>1. IsFiniteSet(Paging)
    BY JudgeAssumption, FS_Subset DEF Paging
  <2> QED
    BY <2>1, FS_CardinalityType DEF TypeOK, OnePagePerOpening
<1>1. ASSUME UNCHANGED <<tick, pages, openings>> PROVE OnePagePerOpening'
  BY <1>1 DEF OnePagePerOpening, Paging
<1>2. ASSUME NEW m \in Monitor, Measure(m) PROVE OnePagePerOpening'
  <2>1. PICK pc \in {"halting", "rearming"} : Move(m, pc, Fresh)
    BY <1>2 DEF Measure
  <2>2. Cardinality(Paging') = Cardinality(Paging)
    BY <1>0, <1>2, <2>1, PagingJoins DEF Measure
  <2> QED
    BY <1>0, <1>2, <2>2 DEF Measure, OnePagePerOpening
<1>3. ASSUME NEW m \in Monitor, HaltOpen(m) PROVE OnePagePerOpening'
  <2>1. CASE /\ row' = AfterCompareAndOpen(row)
             /\ Move(m, IF OpenedNow(row) THEN "paging" ELSE "idle", Fresh)
    <3>1. Cardinality(Paging') =
            Cardinality(Paging) + (IF OpenedNow(row) THEN 1 ELSE 0)
      BY <1>0, <1>3, <2>1, PagingJoins DEF HaltOpen
    <3>2. openings' = IF OpenedNow(row) THEN openings + 1 ELSE openings
      BY <1>3, <2>1 DEF HaltOpen, OpenedNow
    <3> QED
      BY <1>0, <1>3, <3>1, <3>2 DEF HaltOpen, OnePagePerOpening
  <2>2. CASE Move(m, "idle", Fresh)
    <3>1. Cardinality(Paging') = Cardinality(Paging)
      BY <1>0, <1>3, <2>2, PagingJoins DEF HaltOpen
    <3> QED
      BY <1>0, <1>3, <3>1 DEF HaltOpen, OnePagePerOpening
  <2> QED
    BY <1>3, <2>1, <2>2 DEF HaltOpen
<1>4. ASSUME NEW m \in Monitor, Page(m) PROVE OnePagePerOpening'
  <2>1. Cardinality(Paging') = Cardinality(Paging) - 1
    BY <1>4, PagingLeaves DEF Page
  <2>2. openings' = openings /\ pages' \in {pages, pages + 1}
    BY <1>4 DEF Page
  <2> QED
    BY <1>0, <2>1, <2>2 DEF OnePagePerOpening
<1>5. ASSUME NEW m \in Monitor, RearmLoad(m) PROVE OnePagePerOpening'
  <2>1. Paging' = Paging
    BY <1>5 DEF RearmLoad, Move, At, Paging, TypeOK
  <2> QED
    BY <1>5, <2>1 DEF RearmLoad, OnePagePerOpening
<1>6. ASSUME NEW m \in Monitor, RearmSave(m) PROVE OnePagePerOpening'
  <2>1. Paging' = Paging
    BY <1>6 DEF RearmSave, Move, At, Paging, TypeOK
  <2> QED
    BY <1>6, <2>1 DEF RearmSave, OnePagePerOpening
<1> QED
  BY <1>1, <1>2, <1>3, <1>4, <1>5, <1>6
  DEF Next, Tick, JudgeDies, JudgeRecovers, vars

\* Each opening of the judge breaker pages the operator at most once, however
\* many monitors see the death together and whatever re-arms, lost replies
\* and notifier errors fall in between.
THEOREM PagesOnce == Spec => []OnePagePerOpening
<1>1. Init => OnePagePerOpening
  <2> SUFFICES ASSUME Init PROVE OnePagePerOpening
    OBVIOUS
  <2>1. Paging = {}
    BY DEF Init, Paging, Idle, At
  <2> QED
    BY <2>1, FS_EmptySet DEF Init, OnePagePerOpening
<1>2. TypeOK /\ OnePagePerOpening /\ [Next]_vars => OnePagePerOpening'
  BY PageStep
<1> QED
  BY <1>1, <1>2, TypeCorrect, PTL DEF Spec
=============================================================================
