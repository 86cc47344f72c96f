------------------------- MODULE ModeControlProofs -------------------------
(***************************************************************************)
(* For every set of processes and goroutines and every bound: ModeControl  *)
(* is type correct, a safety kill holds until a later save, and nothing    *)
(* actuates on a decision that is not in the ledger.                       *)
(***************************************************************************)
EXTENDS ModeControl, TLAPS

\* The types of the two largest variables, named for the proofs.
OpType == [Process -> [pc : {"boot", Idle, "requested", "held", "seeding"},
                       from : Mode, to : Mode, dec : Nat]]
ResyncType == [Process -> [pc : {Idle, "persisted", "snapped", "loaded"},
                           gen : Nat, stored : Row]]

\* The three outcomes of a Save leave a well-typed row.
LEMMA SaveTyped ==
    ASSUME NEW m \in Mode, NEW d \in Nat, NEW o,
           row \in Row, faults \in Nat, clock' \in Nat, SaveMode(m, d, o)
    PROVE  row' \in Row /\ faults' \in Nat
BY DEF SaveMode, Row, Fault, NoFault

\* Every step keeps the types of the variables.
LEMMA TypeStep == TypeOK /\ [Next]_vars => TypeOK'
<1> SUFFICES ASSUME TypeOK, [Next]_vars PROVE TypeOK'
    OBVIOUS
<1> USE ModeAssumption DEF TypeOK
<1>1. ASSUME NEW p \in Process, Boot(p) PROVE TypeOK'
    <2>1. row.mode # Absent => row.mode \in Mode
        BY DEF Row
    <2>2. faults' \in Nat /\ current' \in [Process -> Mode]
        <3>1. Shadow \in Mode
            BY DEF Mode
        <3> QED BY <1>1, <2>1, <3>1 DEF Resolved, Boot, Fault, NoFault
    <2>3. op' \in OpType
        BY <1>1 DEF Resolved, Boot, OpAt, OpType, Idle, Mode, Shadow
    <2> QED BY <1>1, <2>2, <2>3 DEF Resolved, Boot, OpType
<1>2. ASSUME NEW p \in Process, Crash(p) PROVE TypeOK'
    BY <1>2 DEF Crash, Row, NoRow, NoOp, OpAt, NoKill, KillAt, NoResync, ResyncAt, Idle, Fault, Mode,
                Shadow, Absent
<1>3. ASSUME NEW p \in Process, SeedCheck(p) PROVE TypeOK'
    BY <1>3 DEF Recorded, SeedCheck, OpAt, Idle, Mode, Shadow
<1>4. ASSUME NEW p \in Process, SeedSkip(p) PROVE TypeOK'
    BY <1>4 DEF SeedSkip, NoOp, OpAt, Idle, Mode, Shadow
<1>5. ASSUME NEW p \in Process, NEW to \in Target, TransitionRequest(p, to)
      PROVE  TypeOK'
    BY <1>5 DEF TransitionRequest, OpAt, Idle
<1>6. ASSUME NEW p \in Process, TransitionAudit(p) PROVE TypeOK'
    BY <1>6 DEF Recorded, TransitionAudit, OpAt, Idle
<1>7. ASSUME NEW p \in Process, TransitionRefuse(p) PROVE TypeOK'
    BY <1>7 DEF TransitionRefuse, NoOp, OpAt, Idle, Mode, Shadow
<1>8. ASSUME NEW p \in Process, NEW o \in Outcome, Activate(p, o)
      PROVE  TypeOK'
    <2>1. clock' \in Nat /\ row' \in Row /\ faults' \in Nat
        BY <1>8, SaveTyped DEF Activate
    <2>2. op' \in OpType
        BY <1>8 DEF Activate, NoOp, OpAt, OpType, Idle, Mode, Shadow
    <2>3. current' \in [Process -> Mode]
        BY <1>8 DEF Activate
    <2>4. gen' \in [Process -> Nat]
        BY <1>8 DEF Activate
    <2>5. origin' \in [Process -> Row]
        BY <1>8, <2>1 DEF Activate
    <2>6. latched' \subseteq Process
        <3>1. CASE o = "ok" /\ op[p].pc = "held"
            BY <1>8, <3>1 DEF Activate
        <3>2. CASE o = "ok" /\ op[p].pc # "held"
            BY <1>8, <3>2 DEF Activate
        <3>3. CASE o # "ok"
            BY <1>8, <3>3 DEF Activate
        <3> QED BY <3>1, <3>2, <3>3
    <2> QED BY <1>8, <2>1, <2>2, <2>3, <2>4, <2>5, <2>6 DEF Activate, OpType
<1>9. ASSUME NEW p \in Process, NEW k \in Killer, ForceShadow(p, k)
      PROVE  TypeOK'
    BY <1>9 DEF ForceShadow, KillAt, Mode, Shadow, Idle
<1>10. ASSUME NEW p \in Process, NEW k \in Killer, NEW o \in Outcome,
              ForceShadowSave(p, k, o)
       PROVE  TypeOK'
    <2>1. clock' \in Nat /\ row' \in Row /\ faults' \in Nat
        BY <1>10, SaveTyped DEF ForceShadowSave, Mode, Shadow
    <2> QED BY <1>10, <2>1 DEF ForceShadowSave, NoKill, KillAt, Idle
<1>11. ASSUME NEW p \in Process, NEW k \in Killer, ForceShadowRelease(p, k)
       PROVE  TypeOK'
    <2>1. gen' \in [Process -> Nat]
        <3>1. CASE gen[p] = kill[p][k].myGen
            <4>1. gen' = [gen EXCEPT ![p] = gen[p] + 1]
                BY <1>11, <3>1 DEF LatchIsOurs, ForceShadowRelease
            <4> QED BY <4>1
        <3>2. CASE gen[p] # kill[p][k].myGen
            BY <1>11, <3>2 DEF LatchIsOurs, ForceShadowRelease
        <3> QED BY <3>1, <3>2
    <2>2. latched' \subseteq Process
        BY <1>11 DEF LatchIsOurs, ForceShadowRelease
    <2>3. kill' \in [Process -> [Killer ->
                        [pc : {Idle, "saving", "saved"}, myGen : Nat]]]
        BY <1>11 DEF LatchIsOurs, ForceShadowRelease, NoKill, KillAt, Idle
    <2> QED BY <1>11, <2>1, <2>2, <2>3 DEF LatchIsOurs, ForceShadowRelease
<1>12. ASSUME NEW p \in Process, NEW o \in Outcome, PersistLatchedKill(p, o)
       PROVE  TypeOK'
    <2>1. clock' \in Nat /\ row' \in Row /\ faults' \in Nat
        BY <1>12, SaveTyped DEF RetriesKill, PersistLatchedKill, Mode, Shadow
    <2>2. gen' \in [Process -> Nat]
        <3>1. CASE o = "ok"
            <4>1. gen' = [gen EXCEPT ![p] = gen[p] + 1]
                BY <1>12, <3>1 DEF RetriesKill, PersistLatchedKill
            <4> QED BY <4>1
        <3>2. CASE o # "ok"
            BY <1>12, <3>2 DEF RetriesKill, PersistLatchedKill
        <3> QED BY <3>1, <3>2
    <2>3. latched' \subseteq Process
        BY <1>12 DEF RetriesKill, PersistLatchedKill
    <2>4. resync' \in ResyncType
        BY <1>12 DEF RetriesKill, PersistLatchedKill, ResyncType, ResyncAt, NoRow, Row,
                     Absent, Idle
    <2> QED BY <1>12, <2>1, <2>2, <2>3, <2>4 DEF RetriesKill, PersistLatchedKill, ResyncType
<1>13. ASSUME NEW p \in Process, ResyncSnapshot(p) PROVE TypeOK'
    BY <1>13 DEF ResyncSnapshot, ResyncAt, NoRow, Row, Absent, Idle
<1>14. ASSUME NEW p \in Process, ResyncLoad(p) PROVE TypeOK'
    <2>1. NoRow \in Row
        BY DEF NoRow, Row, Absent
    <2>2. resync' \in ResyncType
        <3>1. PICK r \in {row, NoRow} :
                resync' = [resync EXCEPT ![p] = ResyncAt("loaded", @.gen, r)]
            BY <1>14 DEF ResyncLoad
        <3>2. r \in Row /\ resync[p].gen \in Nat
            BY <2>1
        <3> QED BY <3>1, <3>2 DEF ResyncType, ResyncAt
    <2>3. faults' \in Nat
        BY <1>14 DEF ResyncLoad, Fault, NoFault
    <2> QED BY <1>14, <2>2, <2>3 DEF ResyncLoad, ResyncType
<1>15. ASSUME NEW p \in Process, ResyncApply(p) PROVE TypeOK'
    <2>1. resync' \in ResyncType
        BY <1>15 DEF ReadOvertaken, NextMode, ResyncApply, ResyncType, NoResync, ResyncAt, NoRow, Row,
                     Absent, Idle
    <2>3. current' \in [Process -> Mode]
        BY <1>15 DEF ReadOvertaken, NextMode, ResyncApply, Mode, Shadow
    <2>4. origin' \in [Process -> Row]
        BY <1>15 DEF ReadOvertaken, NextMode, ResyncApply
    <2>5. latched' \subseteq Process
        BY <1>15 DEF ReadOvertaken, NextMode, ResyncApply
    <2> QED BY <1>15, <2>1, <2>3, <2>4, <2>5 DEF ReadOvertaken, NextMode, ResyncApply, ResyncType
<1>16. CASE UNCHANGED vars
    BY <1>16 DEF vars
<1> QED
    BY <1>1, <1>2, <1>3, <1>4, <1>5, <1>6, <1>7, <1>8, <1>9, <1>10, <1>11,
       <1>12, <1>13, <1>14, <1>15, <1>16
    DEF Next, OperatorStep, KillStep, ResyncStep

\* The initial state is well typed.
LEMMA TypeInit == Init => TypeOK
BY DEF Init, TypeOK, Row, NoRow, NoKill, KillAt, NoResync, ResyncAt, NoOp, OpAt, Idle, Mode, Shadow, Absent

\* Every reachable state of the mode controllers and their row is well typed.
THEOREM TypeCorrect == SafetySpec => []TypeOK
BY TypeInit, TypeStep, PTL DEF SafetySpec

-----------------------------------------------------------------------------
\* A Shadow row is clear of every kill, and a row saved now is too.
LEMMA ShadowIdles == ~MayAutoActuate(Shadow) /\ ~MayAutoActuate(Absent)
BY DEF MayAutoActuate, Shadow, Absent

\* No initial state holds a kill.
LEMMA KillInit == Init => KillInv
<1> SUFFICES ASSUME Init PROVE KillInv
    OBVIOUS
<1>1. TypeOK
    BY TypeInit
<1>2. \A p \in Process : ~MayAutoActuate(current[p])
    BY ShadowIdles DEF Init
<1>3. Past
    BY DEF Init, Past, NoRow, NoKill, KillAt, NoResync, ResyncAt
<1>4. LatchGuards
    BY DEF Init, LatchGuards, Clear
<1>5. SavedClears
    BY DEF Init, SavedClears, Clear
<1>6. ReadClears
    BY DEF Init, ReadClears, Clear
<1> QED BY <1>1, <1>2, <1>3, <1>4, <1>5, <1>6 DEF KillInv, KillHolds

\* Every step keeps the strengthened invariant.
LEMMA KillStepKeeps == KillInv /\ [Next]_vars => KillInv'
<1> SUFFICES ASSUME KillInv, [Next]_vars PROVE KillInv'
    OBVIOUS
<1>0. TypeOK /\ TypeOK'
    BY TypeStep DEF KillInv
<1> DEFINE Parts == Past /\ LatchGuards /\ SavedClears /\ ReadClears /\ KillHolds
<1>p. Parts
    BY DEF KillInv
<1>1. ASSUME NEW p \in Process, Boot(p) PROVE Parts'
    <2>1. Past'
        BY <1>0, <1>p, <1>1 DEF TypeOK, Row, Past, Resolved, Boot
    <2>2. LatchGuards'
        BY <1>0, <1>p, <1>1, ShadowIdles DEF TypeOK, Row, Past, LatchGuards, SavedClears, ReadClears, Clear, Resolved, Boot
    <2>3. SavedClears'
        BY <1>0, <1>p, <1>1, ShadowIdles DEF TypeOK, Row, Past, SavedClears, Clear, Resolved, Boot
    <2>4. ReadClears'
        BY <1>0, <1>p, <1>1, ShadowIdles DEF TypeOK, Row, Past, LatchGuards, ReadClears, Clear, Resolved, Boot
    <2>5. KillHolds'
        BY <1>0, <1>p, <1>1, ShadowIdles DEF TypeOK, Row, Past, ReadClears, KillHolds, Clear, Resolved, Boot
    <2> QED BY <2>1, <2>2, <2>3, <2>4, <2>5
<1>2. ASSUME NEW p \in Process, Crash(p) PROVE Parts'
    <2>1. Past'
        BY <1>0, <1>p, <1>2 DEF TypeOK, Row, Past, Crash, NoRow, NoKill, KillAt, NoResync, ResyncAt
    <2>2. LatchGuards'
        BY <1>0, <1>p, <1>2, ShadowIdles DEF TypeOK, Row, Past, LatchGuards, SavedClears, ReadClears, Clear, Crash, NoRow, NoKill, KillAt, NoResync, ResyncAt
    <2>3. SavedClears'
        BY <1>0, <1>p, <1>2, ShadowIdles DEF TypeOK, Row, Past, SavedClears, Clear, Crash, NoRow, NoKill, KillAt, NoResync, ResyncAt
    <2>4. ReadClears'
        BY <1>0, <1>p, <1>2, ShadowIdles DEF TypeOK, Row, Past, LatchGuards, ReadClears, Clear, Crash, NoRow, NoKill, KillAt, NoResync, ResyncAt
    <2>5. KillHolds'
        BY <1>0, <1>p, <1>2, ShadowIdles DEF TypeOK, Row, Past, ReadClears, KillHolds, Clear, Crash, NoRow, NoKill, KillAt, NoResync, ResyncAt
    <2> QED BY <2>1, <2>2, <2>3, <2>4, <2>5
<1>3. ASSUME NEW p \in Process, SeedCheck(p) PROVE Parts'
    <2>1. Past'
        BY <1>0, <1>p, <1>3 DEF TypeOK, Row, Past, SeedCheck
    <2>2. LatchGuards'
        BY <1>0, <1>p, <1>3, ShadowIdles DEF TypeOK, Row, Past, LatchGuards, SavedClears, ReadClears, Clear, SeedCheck
    <2>3. SavedClears'
        BY <1>0, <1>p, <1>3, ShadowIdles DEF TypeOK, Row, Past, SavedClears, Clear, SeedCheck
    <2>4. ReadClears'
        BY <1>0, <1>p, <1>3, ShadowIdles DEF TypeOK, Row, Past, LatchGuards, ReadClears, Clear, SeedCheck
    <2>5. KillHolds'
        BY <1>0, <1>p, <1>3, ShadowIdles DEF TypeOK, Row, Past, ReadClears, KillHolds, Clear, SeedCheck
    <2> QED BY <2>1, <2>2, <2>3, <2>4, <2>5
<1>4. ASSUME NEW p \in Process, SeedSkip(p) PROVE Parts'
    <2>1. Past'
        BY <1>0, <1>p, <1>4 DEF TypeOK, Row, Past, SeedSkip
    <2>2. LatchGuards'
        BY <1>0, <1>p, <1>4, ShadowIdles DEF TypeOK, Row, Past, LatchGuards, SavedClears, ReadClears, Clear, SeedSkip
    <2>3. SavedClears'
        BY <1>0, <1>p, <1>4, ShadowIdles DEF TypeOK, Row, Past, SavedClears, Clear, SeedSkip
    <2>4. ReadClears'
        BY <1>0, <1>p, <1>4, ShadowIdles DEF TypeOK, Row, Past, LatchGuards, ReadClears, Clear, SeedSkip
    <2>5. KillHolds'
        BY <1>0, <1>p, <1>4, ShadowIdles DEF TypeOK, Row, Past, ReadClears, KillHolds, Clear, SeedSkip
    <2> QED BY <2>1, <2>2, <2>3, <2>4, <2>5
<1>5. ASSUME NEW p \in Process, NEW to \in Target, TransitionRequest(p, to) PROVE Parts'
    <2>1. Past'
        BY <1>0, <1>p, <1>5 DEF TypeOK, Row, Past, TransitionRequest
    <2>2. LatchGuards'
        BY <1>0, <1>p, <1>5, ShadowIdles DEF TypeOK, Row, Past, LatchGuards, SavedClears, ReadClears, Clear, TransitionRequest
    <2>3. SavedClears'
        BY <1>0, <1>p, <1>5, ShadowIdles DEF TypeOK, Row, Past, SavedClears, Clear, TransitionRequest
    <2>4. ReadClears'
        BY <1>0, <1>p, <1>5, ShadowIdles DEF TypeOK, Row, Past, LatchGuards, ReadClears, Clear, TransitionRequest
    <2>5. KillHolds'
        BY <1>0, <1>p, <1>5, ShadowIdles DEF TypeOK, Row, Past, ReadClears, KillHolds, Clear, TransitionRequest
    <2> QED BY <2>1, <2>2, <2>3, <2>4, <2>5
<1>6. ASSUME NEW p \in Process, TransitionAudit(p) PROVE Parts'
    <2>1. Past'
        BY <1>0, <1>p, <1>6 DEF TypeOK, Row, Past, TransitionAudit
    <2>2. LatchGuards'
        BY <1>0, <1>p, <1>6, ShadowIdles DEF TypeOK, Row, Past, LatchGuards, SavedClears, ReadClears, Clear, TransitionAudit
    <2>3. SavedClears'
        BY <1>0, <1>p, <1>6, ShadowIdles DEF TypeOK, Row, Past, SavedClears, Clear, TransitionAudit
    <2>4. ReadClears'
        BY <1>0, <1>p, <1>6, ShadowIdles DEF TypeOK, Row, Past, LatchGuards, ReadClears, Clear, TransitionAudit
    <2>5. KillHolds'
        BY <1>0, <1>p, <1>6, ShadowIdles DEF TypeOK, Row, Past, ReadClears, KillHolds, Clear, TransitionAudit
    <2> QED BY <2>1, <2>2, <2>3, <2>4, <2>5
<1>7. ASSUME NEW p \in Process, TransitionRefuse(p) PROVE Parts'
    <2>1. Past'
        BY <1>0, <1>p, <1>7 DEF TypeOK, Row, Past, TransitionRefuse
    <2>2. LatchGuards'
        BY <1>0, <1>p, <1>7, ShadowIdles DEF TypeOK, Row, Past, LatchGuards, SavedClears, ReadClears, Clear, TransitionRefuse
    <2>3. SavedClears'
        BY <1>0, <1>p, <1>7, ShadowIdles DEF TypeOK, Row, Past, SavedClears, Clear, TransitionRefuse
    <2>4. ReadClears'
        BY <1>0, <1>p, <1>7, ShadowIdles DEF TypeOK, Row, Past, LatchGuards, ReadClears, Clear, TransitionRefuse
    <2>5. KillHolds'
        BY <1>0, <1>p, <1>7, ShadowIdles DEF TypeOK, Row, Past, ReadClears, KillHolds, Clear, TransitionRefuse
    <2> QED BY <2>1, <2>2, <2>3, <2>4, <2>5
<1>8. ASSUME NEW p \in Process, NEW o \in Outcome, Activate(p, o) PROVE Parts'
    <2>a. clock' = clock + 1 /\ UNCHANGED <<up, kill, resync, killAt, rebooted>>
        BY <1>8 DEF Activate
    <2>b. row' = row \/ row'.at = clock + 1
        BY <1>8, <2>a DEF Activate, SaveMode
    <2>c. \/ UNCHANGED <<current, origin, gen, latched>>
          \/ /\ gen' = [gen EXCEPT ![p] = gen[p] + 1]
             /\ latched' \subseteq latched
             /\ latched \ {p} \subseteq latched'
             /\ origin' = [origin EXCEPT ![p] = row']
             /\ current' = [current EXCEPT ![p] = op[p].to]
             /\ row'.at = clock + 1
        BY <1>8, <2>a DEF Activate, SaveMode
    <2>d. \A q \in Process :
            /\ gen[q] \in Nat /\ gen[q] <= gen'[q] /\ killAt[q] < clock'
            /\ gen'[q] = gen[q] => (q \in latched <=> q \in latched')
        <3> SUFFICES ASSUME NEW q \in Process
                     PROVE  /\ gen[q] \in Nat /\ gen[q] <= gen'[q]
                            /\ killAt[q] < clock'
                            /\ gen'[q] = gen[q]
                                => (q \in latched <=> q \in latched')
            OBVIOUS
        <3>1. gen[q] \in Nat /\ killAt[q] < clock'
            BY <1>0, <1>p, <2>a DEF TypeOK, Past
        <3>2. CASE UNCHANGED <<current, origin, gen, latched>>
            BY <3>1, <3>2
        <3>3. CASE ~UNCHANGED <<current, origin, gen, latched>>
            <4>1. /\ gen' = [gen EXCEPT ![p] = gen[p] + 1]
                  /\ latched' \subseteq latched /\ latched \ {p} \subseteq latched'
                BY <2>c, <3>3
            <4>2. gen'[q] = IF q = p THEN gen[q] + 1 ELSE gen[q]
                BY <1>0, <4>1 DEF TypeOK
            <4> QED BY <3>1, <4>1, <4>2
        <3> QED BY <3>2, <3>3
    <2>1. Past'
        BY <1>0, <1>p, <2>a, <2>b, <2>d DEF TypeOK, Row, Past
    <2>2. LatchGuards'
        BY <1>0, <1>p, <1>8, ShadowIdles
        DEF TypeOK, Row, Past, LatchGuards, Clear, Activate, SaveMode
    <2>3. SavedClears'
        BY <1>0, <1>p, <1>8, ShadowIdles
        DEF TypeOK, Row, Past, SavedClears, Clear, Activate, SaveMode
    <2>4. ReadClears'
        <3> SUFFICES ASSUME NEW q \in Process, resync[q].pc = "loaded",
                            resync[q].gen = gen'[q]
                     PROVE  /\ q \in latched' \/ Clear(resync[q].stored, q)'
                            /\ \/ MayAutoActuate(resync[q].stored.mode)
                               \/ resync[q].stored.mode = Absent
                               \/ Clear(row, q)'
            BY <2>a DEF ReadClears
        <3>1. gen'[q] = gen[q]
            <4>1. resync[q].gen <= gen[q]
                BY <1>p DEF Past
            <4>2. gen'[q] \in Nat
                BY <1>0 DEF TypeOK
            <4> QED BY <2>d, <4>1, <4>2
        <3> QED BY <1>0, <1>p, <2>a, <2>b, <2>d, <3>1 DEF TypeOK, Row, ReadClears, Clear
    <2>5. KillHolds'
        <3> SUFFICES ASSUME NEW q \in Process, MayAutoActuate(current'[q]),
                            q \notin rebooted
                     PROVE  origin'[q].at > killAt[q]
            BY <2>a DEF KillHolds
        <3> QED BY <1>0, <1>p, <2>a, <2>c, <2>d DEF TypeOK, Row, KillHolds
    <2> QED BY <2>1, <2>2, <2>3, <2>4, <2>5
<1>9. ASSUME NEW p \in Process, NEW k \in Killer, ForceShadow(p, k) PROVE Parts'
    <2>1. Past'
        <3>1. clock' = clock + 1 /\ row' = row /\ resync' = resync /\ up' = up
            BY <1>9 DEF ForceShadow
        <3>2. \A q \in Process : /\ killAt'[q] <= clock'
                                  /\ gen[q] \in Nat /\ gen[q] <= gen'[q]
            BY <1>0, <1>p, <1>9 DEF TypeOK, Past, ForceShadow
        <3>3. \A q \in Process, j \in Killer : kill'[q][j].myGen <= gen'[q]
            BY <1>0, <1>p, <1>9 DEF TypeOK, Past, ForceShadow, KillAt
        <3>4. \A q \in Process : q \notin up' => q \in rebooted'
            BY <1>p, <1>9 DEF Past, ForceShadow, Serving
        <3> QED BY <1>0, <1>p, <3>1, <3>2, <3>3, <3>4 DEF TypeOK, Row, Past
    <2>2. LatchGuards'
        BY <1>0, <1>p, <1>9, ShadowIdles DEF TypeOK, Row, Past, LatchGuards, SavedClears, ReadClears, Clear, ForceShadow, KillAt
    <2>3. SavedClears'
        BY <1>0, <1>p, <1>9, ShadowIdles DEF TypeOK, Row, Past, SavedClears, Clear, ForceShadow, KillAt
    <2>4. ReadClears'
        BY <1>0, <1>p, <1>9, ShadowIdles DEF TypeOK, Row, Past, LatchGuards, ReadClears, Clear, ForceShadow, KillAt
    <2>5. KillHolds'
        BY <1>0, <1>p, <1>9, ShadowIdles DEF TypeOK, Row, Past, ReadClears, KillHolds, Clear, ForceShadow, KillAt
    <2> QED BY <2>1, <2>2, <2>3, <2>4, <2>5
<1>10. ASSUME NEW p \in Process, NEW k \in Killer, NEW o \in Outcome, ForceShadowSave(p, k, o) PROVE Parts'
    <2>1. Past'
        BY <1>0, <1>p, <1>10 DEF TypeOK, Row, Past, ForceShadowSave, SaveMode, KillAt, NoKill
    <2>2. LatchGuards'
        BY <1>0, <1>p, <1>10, ShadowIdles DEF TypeOK, Row, Past, LatchGuards, SavedClears, ReadClears, Clear, ForceShadowSave, SaveMode, KillAt, NoKill
    <2>3. SavedClears'
        <3>1. UNCHANGED <<gen, killAt, rebooted>>
            BY <1>10 DEF ForceShadowSave
        <3>2. CASE row'.mode = Shadow
            BY <3>2, ShadowIdles DEF SavedClears, Clear
        <3>3. CASE row'.mode # Shadow
            <4>1. o = "failed" /\ row' = row
                BY <1>10, <3>3 DEF ForceShadowSave, SaveMode
            <4>2. kill' = [kill EXCEPT ![p][k] = NoKill]
                BY <1>10, <4>1 DEF ForceShadowSave
            <4> QED BY <1>0, <1>p, <3>1, <4>1, <4>2
                    DEF TypeOK, SavedClears, Clear, NoKill, KillAt, Idle
        <3> QED BY <3>2, <3>3
    <2>4. ReadClears'
        BY <1>0, <1>p, <1>10, ShadowIdles DEF TypeOK, Row, Past, LatchGuards, ReadClears, Clear, ForceShadowSave, SaveMode, KillAt, NoKill
    <2>5. KillHolds'
        BY <1>0, <1>p, <1>10, ShadowIdles DEF TypeOK, Row, Past, ReadClears, KillHolds, Clear, ForceShadowSave, SaveMode, KillAt, NoKill
    <2> QED BY <2>1, <2>2, <2>3, <2>4, <2>5
<1>11. ASSUME NEW p \in Process, NEW k \in Killer, ForceShadowRelease(p, k) PROVE Parts'
    <2>1. Past'
        BY <1>0, <1>p, <1>11 DEF TypeOK, Row, Past, LatchIsOurs, ForceShadowRelease, NoKill, KillAt
    <2>2. LatchGuards'
        BY <1>0, <1>p, <1>11, ShadowIdles DEF TypeOK, Row, Past, LatchGuards, SavedClears, ReadClears, Clear, LatchIsOurs, ForceShadowRelease, NoKill, KillAt
    <2>3. SavedClears'
        BY <1>0, <1>p, <1>11, ShadowIdles DEF TypeOK, Row, Past, SavedClears, Clear, LatchIsOurs, ForceShadowRelease, NoKill, KillAt
    <2>4. ReadClears'
        <3> SUFFICES ASSUME NEW q \in Process, resync[q].pc = "loaded",
                            resync[q].gen = gen'[q]
                     PROVE  /\ q \in latched' \/ Clear(resync[q].stored, q)'
                            /\ \/ MayAutoActuate(resync[q].stored.mode)
                               \/ resync[q].stored.mode = Absent
                               \/ Clear(row, q)'
            BY <1>11 DEF LatchIsOurs, ForceShadowRelease, ReadClears
        <3>1. UNCHANGED <<row, resync, killAt, rebooted>>
            BY <1>11 DEF LatchIsOurs, ForceShadowRelease
        <3>2. gen'[q] = gen[q] /\ (q \in latched <=> q \in latched')
            BY <1>0, <1>p, <1>11 DEF TypeOK, Past, LatchIsOurs, ForceShadowRelease
        <3> QED BY <1>p, <3>1, <3>2 DEF ReadClears, Clear
    <2>5. KillHolds'
        BY <1>0, <1>p, <1>11, ShadowIdles DEF TypeOK, Row, Past, ReadClears, KillHolds, Clear, LatchIsOurs, ForceShadowRelease, NoKill, KillAt
    <2> QED BY <2>1, <2>2, <2>3, <2>4, <2>5
<1>12. ASSUME NEW p \in Process, NEW o \in Outcome, PersistLatchedKill(p, o) PROVE Parts'
    <2>1. Past'
        BY <1>0, <1>p, <1>12 DEF TypeOK, Row, Past, PersistLatchedKill, SaveMode, ResyncAt, NoRow
    <2>2. LatchGuards'
        BY <1>0, <1>p, <1>12, ShadowIdles DEF TypeOK, Row, Past, LatchGuards, SavedClears, ReadClears, Clear, PersistLatchedKill, SaveMode, ResyncAt, NoRow
    <2>3. SavedClears'
        BY <1>0, <1>p, <1>12, ShadowIdles DEF TypeOK, Row, Past, SavedClears, Clear, PersistLatchedKill, SaveMode, ResyncAt, NoRow
    <2>4. ReadClears'
        BY <1>0, <1>p, <1>12, ShadowIdles DEF TypeOK, Row, Past, LatchGuards, ReadClears, Clear, PersistLatchedKill, SaveMode, ResyncAt, NoRow
    <2>5. KillHolds'
        BY <1>0, <1>p, <1>12, ShadowIdles DEF TypeOK, Row, Past, ReadClears, KillHolds, Clear, PersistLatchedKill, SaveMode, ResyncAt, NoRow
    <2> QED BY <2>1, <2>2, <2>3, <2>4, <2>5
<1>13. ASSUME NEW p \in Process, ResyncSnapshot(p) PROVE Parts'
    <2>1. Past'
        BY <1>0, <1>p, <1>13 DEF TypeOK, Row, Past, ResyncSnapshot, ResyncAt, NoRow
    <2>2. LatchGuards'
        BY <1>0, <1>p, <1>13, ShadowIdles DEF TypeOK, Row, Past, LatchGuards, SavedClears, ReadClears, Clear, ResyncSnapshot, ResyncAt, NoRow
    <2>3. SavedClears'
        BY <1>0, <1>p, <1>13, ShadowIdles DEF TypeOK, Row, Past, SavedClears, Clear, ResyncSnapshot, ResyncAt, NoRow
    <2>4. ReadClears'
        BY <1>0, <1>p, <1>13, ShadowIdles DEF TypeOK, Row, Past, LatchGuards, ReadClears, Clear, ResyncSnapshot, ResyncAt, NoRow
    <2>5. KillHolds'
        BY <1>0, <1>p, <1>13, ShadowIdles DEF TypeOK, Row, Past, ReadClears, KillHolds, Clear, ResyncSnapshot, ResyncAt, NoRow
    <2> QED BY <2>1, <2>2, <2>3, <2>4, <2>5
<1>14. ASSUME NEW p \in Process, ResyncLoad(p) PROVE Parts'
    <2>1. Past'
        <3>1. PICK r \in {row, NoRow} :
                resync' = [resync EXCEPT ![p] = ResyncAt("loaded", @.gen, r)]
            BY <1>14 DEF ResyncLoad
        <3>2. \A q \in Process : resync'[q].gen = resync[q].gen
            BY <1>0, <3>1 DEF TypeOK, ResyncAt
        <3> QED BY <1>p, <1>14, <3>2 DEF Past, ResyncLoad
    <2>2. LatchGuards'
        BY <1>0, <1>p, <1>14, ShadowIdles DEF TypeOK, Row, Past, LatchGuards, SavedClears, ReadClears, Clear, ResyncLoad, ResyncAt, NoRow
    <2>3. SavedClears'
        BY <1>0, <1>p, <1>14, ShadowIdles DEF TypeOK, Row, Past, SavedClears, Clear, ResyncLoad, ResyncAt, NoRow
    <2>4. ReadClears'
        <3>1. PICK r \in {row, NoRow} :
                resync' = [resync EXCEPT ![p] = ResyncAt("loaded", @.gen, r)]
            BY <1>14 DEF ResyncLoad
        <3>2. UNCHANGED <<row, gen, latched, killAt, rebooted>>
            BY <1>14 DEF ResyncLoad
        <3>3. resync'[p].stored = r
            BY <1>0, <3>1 DEF TypeOK, ResyncAt
        <3>4. \A q \in Process : q # p => resync'[q] = resync[q]
            BY <1>0, <3>1 DEF TypeOK
        <3>5. /\ p \in latched \/ Clear(r, p)
              /\ MayAutoActuate(r.mode) \/ r.mode = Absent \/ Clear(row, p)
            BY <1>p, ShadowIdles DEF LatchGuards, Clear, NoRow
        <3> QED BY <1>p, <3>2, <3>3, <3>4, <3>5 DEF ReadClears, Clear
    <2>5. KillHolds'
        BY <1>0, <1>p, <1>14, ShadowIdles DEF TypeOK, Row, Past, ReadClears, KillHolds, Clear, ResyncLoad, ResyncAt, NoRow
    <2> QED BY <2>1, <2>2, <2>3, <2>4, <2>5
<1>15. ASSUME NEW p \in Process, ResyncApply(p) PROVE Parts'
    <2>1. Past'
        BY <1>0, <1>p, <1>15 DEF TypeOK, Row, Past, ReadOvertaken, NextMode, ResyncApply, NoResync, ResyncAt, NoRow
    <2>2. LatchGuards'
        <3>1. UNCHANGED <<row, killAt, rebooted>>
            BY <1>15 DEF ReadOvertaken, NextMode, ResyncApply
        <3>2. \/ latched' = latched
              \/ /\ latched' = latched \ {p}
                 /\ resync[p].pc = "loaded" /\ resync[p].gen = gen[p]
                 /\ resync[p].stored.mode \in Mode
                 /\ ~MayAutoActuate(resync[p].stored.mode)
            BY <1>15 DEF ReadOvertaken, NextMode, ResyncApply
        <3>3. Absent \notin Mode
            BY DEF Absent, Mode, Shadow
        <3> QED BY <1>p, <3>1, <3>2, <3>3 DEF LatchGuards, ReadClears, Clear
    <2>3. SavedClears'
        BY <1>0, <1>p, <1>15, ShadowIdles DEF TypeOK, Row, Past, SavedClears, Clear, ReadOvertaken, NextMode, ResyncApply, NoResync, ResyncAt, NoRow
    <2>4. ReadClears'
        BY <1>0, <1>p, <1>15, ShadowIdles DEF TypeOK, Row, Past, LatchGuards, ReadClears, Clear, ReadOvertaken, NextMode, ResyncApply, NoResync, ResyncAt, NoRow
    <2>5. KillHolds'
        <3>1. UNCHANGED <<killAt, rebooted>>
            BY <1>15 DEF ReadOvertaken, NextMode, ResyncApply
        <3>2. \/ UNCHANGED <<current, origin>>
              \/ /\ resync[p].pc = "loaded" /\ resync[p].gen = gen[p]
                 /\ origin' = [origin EXCEPT ![p] = resync[p].stored]
                 /\ \/ current' = [current EXCEPT ![p] = Shadow]
                    \/ /\ current' = [current EXCEPT ![p] = resync[p].stored.mode]
                       /\ MayAutoActuate(resync[p].stored.mode) => p \notin latched
            BY <1>15 DEF ReadOvertaken, NextMode, ResyncApply
        <3> SUFFICES ASSUME NEW q \in Process, MayAutoActuate(current'[q]),
                            q \notin rebooted
                     PROVE  origin'[q].at > killAt[q]
            BY <3>1 DEF KillHolds
        <3>3. CASE UNCHANGED <<current, origin>> \/ q # p
            <4>1. current'[q] = current[q] /\ origin'[q] = origin[q]
                BY <1>0, <3>2, <3>3 DEF TypeOK
            <4> QED BY <1>p, <4>1 DEF KillHolds
        <3>4. CASE ~UNCHANGED <<current, origin>> /\ q = p
            <4>1. /\ resync[p].pc = "loaded" /\ resync[p].gen = gen[p]
                  /\ origin'[p] = resync[p].stored
                BY <1>0, <3>2, <3>4 DEF TypeOK
            <4>2. MayAutoActuate(resync[p].stored.mode) /\ p \notin latched
                BY <1>0, <3>2, <3>4, ShadowIdles DEF TypeOK
            <4> QED BY <1>p, <3>4, <4>1, <4>2 DEF ReadClears, Clear
        <3> QED BY <3>3, <3>4
    <2> QED BY <2>1, <2>2, <2>3, <2>4, <2>5
<1>16. ASSUME UNCHANGED vars PROVE Parts'
    BY <1>p, <1>16 DEF vars, Past, LatchGuards, SavedClears, ReadClears, Clear,
                       KillHolds
<1>17. Parts'
    BY <1>1, <1>2, <1>3, <1>4, <1>5, <1>6, <1>7, <1>8, <1>9, <1>10, <1>11,
       <1>12, <1>13, <1>14, <1>15, <1>16
    DEF Next, OperatorStep, KillStep, ResyncStep
<1> QED BY <1>0, <1>17 DEF KillInv

\* A safety kill holds.
THEOREM KillStays == SafetySpec => []KillHolds
<1>1. SafetySpec => []KillInv
    BY KillInit, KillStepKeeps, PTL DEF SafetySpec
<1> QED BY <1>1, PTL DEF KillInv
-----------------------------------------------------------------------------
\* Nothing is decided, and nothing actuates, in an initial state.
LEMMA AuditInit == Init => AuditInv
<1> SUFFICES ASSUME Init PROVE AuditInv
    OBVIOUS
<1>1. TypeOK
    BY TypeInit
<1>2. RowAudited /\ ReadAudited /\ ServedAudited
    BY ShadowIdles DEF Init, RowAudited, ReadAudited, ServedAudited, OnRecord,
                       NoRow, NoResync, ResyncAt
<1>3. OpAudited
    BY DEF Init, OpAudited, NoOp, OpAt, Idle
<1> QED BY <1>1, <1>2, <1>3 DEF AuditInv

\* Every step keeps the decisions behind row, reads and served modes on record.
LEMMA AuditStepKeeps == AuditInv /\ [Next]_vars => AuditInv'
<1> SUFFICES ASSUME AuditInv, [Next]_vars PROVE AuditInv'
    OBVIOUS
<1>0. TypeOK /\ TypeOK'
    BY TypeStep DEF AuditInv
<1> DEFINE Parts == RowAudited /\ OpAudited /\ ReadAudited /\ ServedAudited
<1>p. Parts
    BY DEF AuditInv
<1>1. ASSUME NEW p \in Process, Boot(p) PROVE Parts'
    <2>1. RowAudited'
        BY <1>0, <1>p, <1>1, ShadowIdles DEF TypeOK, Row, RowAudited, OpAudited, OnRecord,
            Boot, Resolved, OpAt
    <2>2. OpAudited'
        BY <1>0, <1>p, <1>1, ShadowIdles DEF TypeOK, Row, OpAudited, OnRecord,
            Boot, Resolved, OpAt
    <2>3. ReadAudited'
        BY <1>0, <1>p, <1>1, ShadowIdles DEF TypeOK, Row, ReadAudited, RowAudited, OnRecord,
            Boot, Resolved, OpAt
    <2>4. ServedAudited'
        BY <1>0, <1>p, <1>1, ShadowIdles DEF TypeOK, Row, ServedAudited, RowAudited, ReadAudited, OpAudited, OnRecord,
            Boot, Resolved, OpAt
    <2> QED BY <2>1, <2>2, <2>3, <2>4
<1>2. ASSUME NEW p \in Process, Crash(p) PROVE Parts'
    <2>1. RowAudited'
        BY <1>0, <1>p, <1>2, ShadowIdles DEF TypeOK, Row, RowAudited, OpAudited, OnRecord,
            Crash, NoRow, NoOp, OpAt, Idle, NoResync, ResyncAt
    <2>2. OpAudited'
        BY <1>0, <1>p, <1>2, ShadowIdles DEF TypeOK, Row, OpAudited, OnRecord,
            Crash, NoRow, NoOp, OpAt, Idle, NoResync, ResyncAt
    <2>3. ReadAudited'
        BY <1>0, <1>p, <1>2, ShadowIdles DEF TypeOK, Row, ReadAudited, RowAudited, OnRecord,
            Crash, NoRow, NoOp, OpAt, Idle, NoResync, ResyncAt
    <2>4. ServedAudited'
        BY <1>0, <1>p, <1>2, ShadowIdles DEF TypeOK, Row, ServedAudited, RowAudited, ReadAudited, OpAudited, OnRecord,
            Crash, NoRow, NoOp, OpAt, Idle, NoResync, ResyncAt
    <2> QED BY <2>1, <2>2, <2>3, <2>4
<1>3. ASSUME NEW p \in Process, SeedCheck(p) PROVE Parts'
    <2>1. RowAudited'
        BY <1>0, <1>p, <1>3, ShadowIdles DEF TypeOK, Row, RowAudited, OpAudited, OnRecord,
            SeedCheck, Recorded, OpAt
    <2>2. OpAudited'
        BY <1>0, <1>p, <1>3, ShadowIdles DEF TypeOK, Row, OpAudited, OnRecord,
            SeedCheck, Recorded, OpAt
    <2>3. ReadAudited'
        BY <1>0, <1>p, <1>3, ShadowIdles DEF TypeOK, Row, ReadAudited, RowAudited, OnRecord,
            SeedCheck, Recorded, OpAt
    <2>4. ServedAudited'
        BY <1>0, <1>p, <1>3, ShadowIdles DEF TypeOK, Row, ServedAudited, RowAudited, ReadAudited, OpAudited, OnRecord,
            SeedCheck, Recorded, OpAt
    <2> QED BY <2>1, <2>2, <2>3, <2>4
<1>4. ASSUME NEW p \in Process, SeedSkip(p) PROVE Parts'
    <2>1. RowAudited'
        BY <1>0, <1>p, <1>4, ShadowIdles DEF TypeOK, Row, RowAudited, OpAudited, OnRecord,
            SeedSkip, NoOp, OpAt, Idle
    <2>2. OpAudited'
        BY <1>0, <1>p, <1>4, ShadowIdles DEF TypeOK, Row, OpAudited, OnRecord,
            SeedSkip, NoOp, OpAt, Idle
    <2>3. ReadAudited'
        BY <1>0, <1>p, <1>4, ShadowIdles DEF TypeOK, Row, ReadAudited, RowAudited, OnRecord,
            SeedSkip, NoOp, OpAt, Idle
    <2>4. ServedAudited'
        BY <1>0, <1>p, <1>4, ShadowIdles DEF TypeOK, Row, ServedAudited, RowAudited, ReadAudited, OpAudited, OnRecord,
            SeedSkip, NoOp, OpAt, Idle
    <2> QED BY <2>1, <2>2, <2>3, <2>4
<1>5. ASSUME NEW p \in Process, NEW to \in Target, TransitionRequest(p, to) PROVE Parts'
    <2>1. RowAudited'
        BY <1>0, <1>p, <1>5, ShadowIdles DEF TypeOK, Row, RowAudited, OpAudited, OnRecord,
            TransitionRequest, OpAt
    <2>2. OpAudited'
        BY <1>0, <1>p, <1>5, ShadowIdles DEF TypeOK, Row, OpAudited, OnRecord,
            TransitionRequest, OpAt
    <2>3. ReadAudited'
        BY <1>0, <1>p, <1>5, ShadowIdles DEF TypeOK, Row, ReadAudited, RowAudited, OnRecord,
            TransitionRequest, OpAt
    <2>4. ServedAudited'
        BY <1>0, <1>p, <1>5, ShadowIdles DEF TypeOK, Row, ServedAudited, RowAudited, ReadAudited, OpAudited, OnRecord,
            TransitionRequest, OpAt
    <2> QED BY <2>1, <2>2, <2>3, <2>4
<1>6. ASSUME NEW p \in Process, TransitionAudit(p) PROVE Parts'
    <2>1. RowAudited'
        BY <1>0, <1>p, <1>6, ShadowIdles DEF TypeOK, Row, RowAudited, OpAudited, OnRecord,
            TransitionAudit, Recorded, OpAt
    <2>2. OpAudited'
        BY <1>0, <1>p, <1>6, ShadowIdles DEF TypeOK, Row, OpAudited, OnRecord,
            TransitionAudit, Recorded, OpAt
    <2>3. ReadAudited'
        BY <1>0, <1>p, <1>6, ShadowIdles DEF TypeOK, Row, ReadAudited, RowAudited, OnRecord,
            TransitionAudit, Recorded, OpAt
    <2>4. ServedAudited'
        BY <1>0, <1>p, <1>6, ShadowIdles DEF TypeOK, Row, ServedAudited, RowAudited, ReadAudited, OpAudited, OnRecord,
            TransitionAudit, Recorded, OpAt
    <2> QED BY <2>1, <2>2, <2>3, <2>4
<1>7. ASSUME NEW p \in Process, TransitionRefuse(p) PROVE Parts'
    <2>1. RowAudited'
        BY <1>0, <1>p, <1>7, ShadowIdles DEF TypeOK, Row, RowAudited, OpAudited, OnRecord,
            TransitionRefuse, NoOp, OpAt, Idle
    <2>2. OpAudited'
        BY <1>0, <1>p, <1>7, ShadowIdles DEF TypeOK, Row, OpAudited, OnRecord,
            TransitionRefuse, NoOp, OpAt, Idle
    <2>3. ReadAudited'
        BY <1>0, <1>p, <1>7, ShadowIdles DEF TypeOK, Row, ReadAudited, RowAudited, OnRecord,
            TransitionRefuse, NoOp, OpAt, Idle
    <2>4. ServedAudited'
        BY <1>0, <1>p, <1>7, ShadowIdles DEF TypeOK, Row, ServedAudited, RowAudited, ReadAudited, OpAudited, OnRecord,
            TransitionRefuse, NoOp, OpAt, Idle
    <2> QED BY <2>1, <2>2, <2>3, <2>4
<1>8. ASSUME NEW p \in Process, NEW o \in Outcome, Activate(p, o) PROVE Parts'
    <2>1. RowAudited'
        BY <1>0, <1>p, <1>8, ShadowIdles DEF TypeOK, Row, RowAudited, OpAudited, OnRecord,
            Activate, SaveMode, NoOp, OpAt, Idle
    <2>2. OpAudited'
        BY <1>0, <1>p, <1>8, ShadowIdles DEF TypeOK, Row, OpAudited, OnRecord,
            Activate, SaveMode, NoOp, OpAt, Idle
    <2>3. ReadAudited'
        BY <1>0, <1>p, <1>8, ShadowIdles DEF TypeOK, Row, ReadAudited, RowAudited, OnRecord,
            Activate, SaveMode, NoOp, OpAt, Idle
    <2>4. ServedAudited'
        <3>1. CASE o = "ok"
            <4>1. /\ current' = [current EXCEPT ![p] = op[p].to]
                  /\ origin' = [origin EXCEPT ![p] = row']
                  /\ row'.dec = op[p].dec /\ op[p].dec \in ledger
                  /\ ledger' = ledger
                BY <1>p, <1>8, <3>1 DEF Activate, SaveMode, OpAudited
            <4> QED BY <1>0, <1>p, <4>1 DEF TypeOK, ServedAudited, OnRecord
        <3>2. CASE o # "ok"
            BY <1>p, <1>8, <3>2 DEF Activate, ServedAudited, OnRecord
        <3> QED BY <3>1, <3>2
    <2> QED BY <2>1, <2>2, <2>3, <2>4
<1>9. ASSUME NEW p \in Process, NEW k \in Killer, ForceShadow(p, k) PROVE Parts'
    <2>1. RowAudited'
        BY <1>0, <1>p, <1>9, ShadowIdles DEF TypeOK, Row, RowAudited, OpAudited, OnRecord,
            ForceShadow
    <2>2. OpAudited'
        BY <1>0, <1>p, <1>9, ShadowIdles DEF TypeOK, Row, OpAudited, OnRecord,
            ForceShadow
    <2>3. ReadAudited'
        BY <1>0, <1>p, <1>9, ShadowIdles DEF TypeOK, Row, ReadAudited, RowAudited, OnRecord,
            ForceShadow
    <2>4. ServedAudited'
        BY <1>0, <1>p, <1>9, ShadowIdles DEF TypeOK, Row, ServedAudited, RowAudited, ReadAudited, OpAudited, OnRecord,
            ForceShadow
    <2> QED BY <2>1, <2>2, <2>3, <2>4
<1>10. ASSUME NEW p \in Process, NEW k \in Killer, NEW o \in Outcome, ForceShadowSave(p, k, o) PROVE Parts'
    <2>1. RowAudited'
        BY <1>0, <1>p, <1>10, ShadowIdles DEF TypeOK, Row, RowAudited, OpAudited, OnRecord,
            ForceShadowSave, SaveMode
    <2>2. OpAudited'
        BY <1>0, <1>p, <1>10, ShadowIdles DEF TypeOK, Row, OpAudited, OnRecord,
            ForceShadowSave, SaveMode
    <2>3. ReadAudited'
        BY <1>0, <1>p, <1>10, ShadowIdles DEF TypeOK, Row, ReadAudited, RowAudited, OnRecord,
            ForceShadowSave, SaveMode
    <2>4. ServedAudited'
        BY <1>0, <1>p, <1>10, ShadowIdles DEF TypeOK, Row, ServedAudited, RowAudited, ReadAudited, OpAudited, OnRecord,
            ForceShadowSave, SaveMode
    <2> QED BY <2>1, <2>2, <2>3, <2>4
<1>11. ASSUME NEW p \in Process, NEW k \in Killer, ForceShadowRelease(p, k) PROVE Parts'
    <2>1. RowAudited'
        BY <1>0, <1>p, <1>11, ShadowIdles DEF TypeOK, Row, RowAudited, OpAudited, OnRecord,
            ForceShadowRelease
    <2>2. OpAudited'
        BY <1>0, <1>p, <1>11, ShadowIdles DEF TypeOK, Row, OpAudited, OnRecord,
            ForceShadowRelease
    <2>3. ReadAudited'
        BY <1>0, <1>p, <1>11, ShadowIdles DEF TypeOK, Row, ReadAudited, RowAudited, OnRecord,
            ForceShadowRelease
    <2>4. ServedAudited'
        BY <1>0, <1>p, <1>11, ShadowIdles DEF TypeOK, Row, ServedAudited, RowAudited, ReadAudited, OpAudited, OnRecord,
            ForceShadowRelease
    <2> QED BY <2>1, <2>2, <2>3, <2>4
<1>12. ASSUME NEW p \in Process, NEW o \in Outcome, PersistLatchedKill(p, o) PROVE Parts'
    <2>1. RowAudited'
        BY <1>0, <1>p, <1>12, ShadowIdles DEF TypeOK, Row, RowAudited, OpAudited, OnRecord,
            PersistLatchedKill, SaveMode, ResyncAt, NoRow
    <2>2. OpAudited'
        BY <1>0, <1>p, <1>12, ShadowIdles DEF TypeOK, Row, OpAudited, OnRecord,
            PersistLatchedKill, SaveMode, ResyncAt, NoRow
    <2>3. ReadAudited'
        BY <1>0, <1>p, <1>12, ShadowIdles DEF TypeOK, Row, ReadAudited, RowAudited, OnRecord,
            PersistLatchedKill, SaveMode, ResyncAt, NoRow
    <2>4. ServedAudited'
        BY <1>0, <1>p, <1>12, ShadowIdles DEF TypeOK, Row, ServedAudited, RowAudited, ReadAudited, OpAudited, OnRecord,
            PersistLatchedKill, SaveMode, ResyncAt, NoRow
    <2> QED BY <2>1, <2>2, <2>3, <2>4
<1>13. ASSUME NEW p \in Process, ResyncSnapshot(p) PROVE Parts'
    <2>1. RowAudited'
        BY <1>0, <1>p, <1>13, ShadowIdles DEF TypeOK, Row, RowAudited, OpAudited, OnRecord,
            ResyncSnapshot, ResyncAt, NoRow
    <2>2. OpAudited'
        BY <1>0, <1>p, <1>13, ShadowIdles DEF TypeOK, Row, OpAudited, OnRecord,
            ResyncSnapshot, ResyncAt, NoRow
    <2>3. ReadAudited'
        BY <1>0, <1>p, <1>13, ShadowIdles DEF TypeOK, Row, ReadAudited, RowAudited, OnRecord,
            ResyncSnapshot, ResyncAt, NoRow
    <2>4. ServedAudited'
        BY <1>0, <1>p, <1>13, ShadowIdles DEF TypeOK, Row, ServedAudited, RowAudited, ReadAudited, OpAudited, OnRecord,
            ResyncSnapshot, ResyncAt, NoRow
    <2> QED BY <2>1, <2>2, <2>3, <2>4
<1>14. ASSUME NEW p \in Process, ResyncLoad(p) PROVE Parts'
    <2>1. RowAudited'
        BY <1>0, <1>p, <1>14, ShadowIdles DEF TypeOK, Row, RowAudited, OpAudited, OnRecord,
            ResyncLoad, ResyncAt, NoRow
    <2>2. OpAudited'
        BY <1>0, <1>p, <1>14, ShadowIdles DEF TypeOK, Row, OpAudited, OnRecord,
            ResyncLoad, ResyncAt, NoRow
    <2>3. ReadAudited'
        <3>1. PICK r \in {row, NoRow} :
                resync' = [resync EXCEPT ![p] = ResyncAt("loaded", @.gen, r)]
            BY <1>14 DEF ResyncLoad
        <3>2. OnRecord(r.mode, r.dec) /\ ledger' = ledger
            BY <1>p, <1>14, ShadowIdles DEF ResyncLoad, RowAudited, OnRecord, NoRow
        <3> QED BY <1>0, <1>p, <3>1, <3>2 DEF TypeOK, ReadAudited, OnRecord, ResyncAt
    <2>4. ServedAudited'
        BY <1>0, <1>p, <1>14, ShadowIdles DEF TypeOK, Row, ServedAudited, RowAudited, ReadAudited, OpAudited, OnRecord,
            ResyncLoad, ResyncAt, NoRow
    <2> QED BY <2>1, <2>2, <2>3, <2>4
<1>15. ASSUME NEW p \in Process, ResyncApply(p) PROVE Parts'
    <2>1. RowAudited'
        BY <1>0, <1>p, <1>15, ShadowIdles DEF TypeOK, Row, RowAudited, OpAudited, OnRecord,
            ResyncApply, NoResync, ResyncAt, NoRow, NextMode
    <2>2. OpAudited'
        BY <1>0, <1>p, <1>15, ShadowIdles DEF TypeOK, Row, OpAudited, OnRecord,
            ResyncApply, NoResync, ResyncAt, NoRow, NextMode
    <2>3. ReadAudited'
        BY <1>0, <1>p, <1>15, ShadowIdles DEF TypeOK, Row, ReadAudited, RowAudited, OnRecord,
            ResyncApply, NoResync, ResyncAt, NoRow, NextMode
    <2>4. ServedAudited'
        <3>1. ledger' = ledger
            BY <1>15 DEF ResyncApply
        <3>2. \/ UNCHANGED <<current, origin>>
              \/ /\ origin' = [origin EXCEPT ![p] = resync[p].stored]
                 /\ \/ current' = [current EXCEPT ![p] = Shadow]
                    \/ current' = [current EXCEPT ![p] = resync[p].stored.mode]
            BY <1>15 DEF ResyncApply, NextMode
        <3> QED BY <1>0, <1>p, <3>1, <3>2, ShadowIdles
                DEF TypeOK, ServedAudited, ReadAudited, OnRecord
    <2> QED BY <2>1, <2>2, <2>3, <2>4
<1>16. ASSUME UNCHANGED vars PROVE Parts'
    BY <1>p, <1>16 DEF vars, RowAudited, OpAudited, ReadAudited, ServedAudited,
                       OnRecord
<1>17. Parts'
    BY <1>1, <1>2, <1>3, <1>4, <1>5, <1>6, <1>7, <1>8, <1>9, <1>10, <1>11,
       <1>12, <1>13, <1>14, <1>15, <1>16
    DEF Next, OperatorStep, KillStep, ResyncStep
<1> QED BY <1>0, <1>17 DEF AuditInv

\* No process serves, and no row holds, an actuating mode whose decision is not
\* in the governance ledger, whatever Save failed, landed unreported or was
\* cut off by a crash.
THEOREM Audited == SafetySpec => []AuditedBeforeEffect
<1>1. SafetySpec => []AuditInv
    BY AuditInit, AuditStepKeeps, PTL DEF SafetySpec
<1>2. AuditInv => AuditedBeforeEffect
    BY DEF AuditInv, AuditedBeforeEffect, RowAudited, ServedAudited, OnRecord
<1> QED BY <1>1, <1>2, PTL
=============================================================================
