-------------------------- MODULE GraduationProofs --------------------------
(***************************************************************************)
(* The graduation store is one ladder, and the durable level rises only on *)
(* earned evidence: for any number of processes, threads and incidents,    *)
(* any thresholds and any failures.                                        *)
(*                                                                         *)
(* The argument: a Record decides on the rung it read, and its write lands *)
(* only if the version it read is still the row's (then the rung it read   *)
(* is the row) or if it read nothing (then it decides on a fresh class).   *)
(* The row's streak never exceeds the incidents whose clean runs were      *)
(* written since the last break, and an incident in flight is not yet one  *)
(* of them, because its credit is claimed once.                            *)
(***************************************************************************)
EXTENDS Graduation, FiniteSetTheorems, TLAPS

CallType ==
    [pc : {"idle", "want", "loaded", "retry"}, ref : Ref \union {NoRef},
     outcome : Outcome, cur : RungType, ver : Nat, tries : 0..MaxRetries]

-----------------------------------------------------------------------------
\* The ladder on well-formed rungs.

\* An outcome leads to a rung.
LEMMA ApplyType ==
    ASSUME NEW r \in RungType, NEW o \in Outcome
    PROVE  applyOutcome(r, o) \in RungType
BY LadderAssumption DEF applyOutcome, Credited, Rung, Fresh, RungType, Level

\* Without a promotion the level stays or falls to approve.
LEMMA ApplyLevel ==
    ASSUME NEW r \in RungType, NEW o \in Outcome,
           ~Promotes(r, applyOutcome(r, o))
    PROVE  applyOutcome(r, o).level \in {r.level, "approve"}
BY DEF applyOutcome, Credited, Rung, Fresh, RungType, Level, Promotes, Autonomous

\* A promotion is one rung, on a clean run, with the streak complete.
LEMMA ApplyPromotes ==
    ASSUME NEW r \in RungType, NEW o \in Outcome,
           Promotes(r, applyOutcome(r, o))
    PROVE  /\ o = "clean"
           /\ \/ /\ r.level = "approve" /\ applyOutcome(r, o).level = "auto_notice"
                 /\ r.clean + 1 >= PromoteThreshold
              \/ /\ r.level = "auto_notice" /\ applyOutcome(r, o).level = "auto"
                 /\ r.notice + 1 >= NoticeThreshold
           /\ applyOutcome(r, o).level = "auto_notice"
                => applyOutcome(r, o).clean = 0 /\ applyOutcome(r, o).notice = 0
BY DEF applyOutcome, Credited, Rung, Fresh, RungType, Level, Promotes, Autonomous

\* The streak a level counts.
StreakOf(r) == IF r.level = "approve" THEN r.clean
               ELSE IF r.level = "auto_notice" THEN r.notice ELSE 0

\* A clean run that does not promote lengthens the streak by at most one.
LEMMA ApplyClean ==
    ASSUME NEW r \in RungType, ~Promotes(r, applyOutcome(r, "clean"))
    PROVE  /\ StreakOf(applyOutcome(r, "clean")) <= StreakOf(r) + 1
           /\ applyOutcome(r, "clean").level = r.level
BY LadderAssumption
   DEF applyOutcome, Credited, Rung, Fresh, RungType, Level, Promotes,
       Autonomous, StreakOf

\* Any other outcome ends it, and so does a promotion.
LEMMA ApplyBreak ==
    ASSUME NEW r \in RungType, NEW o \in Outcome,
           o # "clean" \/ Promotes(r, applyOutcome(r, o))
    PROVE  StreakOf(applyOutcome(r, o)) = 0
BY DEF applyOutcome, Credited, Rung, Fresh, RungType, Level, Promotes,
       Autonomous, StreakOf

\* A fresh class.
LEMMA FreshRung ==
    /\ Fresh \in RungType /\ Fresh.level = "approve" /\ StreakOf(Fresh) = 0
    /\ Fresh.clean = 0
BY DEF Fresh, Rung, RungType, Level, StreakOf

-----------------------------------------------------------------------------
\* What a Record in progress knows of the row.
Current ==
    \A s \in Thread : call[s].pc = "loaded" =>
        /\ call[s].ver <= version
        /\ call[s].ver = 0 => call[s].cur = Fresh
        /\ call[s].ver = version => call[s].cur = row
        /\ call[s].cur.level \in granted \union {"approve"}

\* The streak is covered by distinct incidents.
Streak == IsFiniteSet(earned) /\ StreakOf(row) <= Cardinality(earned)

\* The clean run in flight is of an incident claimed and not yet counted.
InFlight ==
    \A s \in Thread : call[s].pc # "idle" /\ call[s].outcome = "clean" =>
        /\ call[s].ref \in credits /\ call[s].ref \notin earned
        /\ \A v \in Thread :
            (/\ call[v].pc # "idle" /\ call[v].outcome = "clean"
             /\ call[v].ref = call[s].ref)
                => v = s

SeedFirst == seeded \/ executed = {}

IInv ==
    /\ TypeOK /\ Current /\ Streak /\ InFlight /\ SeedFirst
    /\ ServedWasGranted /\ row.level \in granted

-----------------------------------------------------------------------------
\* Facts of every state that satisfies IInv.
LEMMA Now ==
    ASSUME IInv
    PROVE  /\ row \in RungType /\ version \in Nat
           /\ call \in [Thread -> CallType]
           /\ cache \in [Worker -> Level \union {NoCache}]
           /\ credits \subseteq executed /\ executed \subseteq Ref
           /\ earned \subseteq credits /\ granted \subseteq Level
           /\ ratify \in {"idle", "reset"} /\ seeded \in BOOLEAN
           /\ records \in 0..MaxRecords /\ faults \in 0..MaxFaults
           /\ deviant \subseteq Worker
           /\ (version = 0 => row = Fresh)
BY DEF IInv, TypeOK, CallType

\* The same facts make up the type invariant.
LEMMA TypeFrom ==
    ASSUME row \in RungType, version \in Nat,
           call \in [Thread -> CallType],
           cache \in [Worker -> Level \union {NoCache}],
           credits \subseteq executed, executed \subseteq Ref,
           earned \subseteq credits, granted \subseteq Level,
           ratify \in {"idle", "reset"}, seeded \in BOOLEAN,
           records \in 0..MaxRecords, faults \in 0..MaxFaults,
           deviant \subseteq Worker,
           version = 0 => row = Fresh
    PROVE  TypeOK
BY DEF TypeOK, CallType

\* And after a step.
LEMMA TypeNext ==
    ASSUME row' \in RungType, version' \in Nat,
           call' \in [Thread -> CallType],
           cache' \in [Worker -> Level \union {NoCache}],
           credits' \subseteq executed', executed' \subseteq Ref,
           earned' \subseteq credits', granted' \subseteq Level,
           ratify' \in {"idle", "reset"}, seeded' \in BOOLEAN,
           records' \in 0..MaxRecords, faults' \in 0..MaxFaults,
           deviant' \subseteq Worker,
           version' = 0 => row' = Fresh
    PROVE  TypeOK'
BY DEF TypeOK, CallType

\* IInv holds initially.
LEMMA InitInv == Init => IInv
<1> SUFFICES ASSUME Init PROVE IInv
  OBVIOUS
<1>1. \A s \in Thread : call[s] = Idle
  BY DEF Init
<1>2. Idle \in CallType /\ Idle.pc = "idle"
  BY FreshRung, GraduationAssumption DEF Idle, Call, CallType, Outcome
<1>3. row \in RungType /\ StreakOf(row) = 0
  BY FreshRung DEF Init, Rung, RungType, Level, StreakOf
<1>4. version \in Nat /\ (version = 0 => row = Fresh)
  BY GraduationAssumption DEF Init
<1>5. call \in [Thread -> CallType]
  BY <1>2 DEF Init
<1>6. cache \in [Worker -> Level \union {NoCache}]
  BY DEF Init
<1>7. granted \subseteq Level /\ row.level \in granted
  BY <1>3 DEF Init, RungType
<1>8. TypeOK
  BY <1>3, <1>4, <1>5, <1>6, <1>7, TypeFrom, GraduationAssumption DEF Init
<1>9. Current /\ InFlight
  BY <1>1, <1>2 DEF Current, InFlight
<1>10. Streak
  BY <1>3, FS_EmptySet DEF Init, Streak
<1>11. SeedFirst /\ ServedWasGranted
  BY DEF Init, SeedFirst, ServedWasGranted
<1> QED BY <1>7, <1>8, <1>9, <1>10, <1>11 DEF IInv

\* A write that lands was decided on the row, or on a fresh class.
LEMMA DecidedOn ==
    ASSUME IInv, NEW s \in Thread, call[s].pc = "loaded",
           VersionHolds(call[s].ver)
    PROVE  call[s].cur = row \/ call[s].cur = Fresh
<1>1. call[s].ver \in Nat /\ version \in Nat
  BY Now DEF CallType
<1>2. call[s].ver <= version /\ (call[s].ver = 0 => call[s].cur = Fresh)
      /\ (call[s].ver = version => call[s].cur = row)
  BY DEF IInv, Current
<1> QED BY <1>1, <1>2 DEF VersionHolds

\* A Record that has not begun anew keeps what it knows when the row moves on
\* or stays.
LEMMA KeepsCurrent ==
    ASSUME IInv, granted \subseteq granted',
           version' = version + 1 \/ (version' = version /\ row' = row),
           \A v \in Thread : call'[v].pc = "loaded" => call'[v] = call[v]
    PROVE  Current'
<1> SUFFICES ASSUME NEW v \in Thread, call'[v].pc = "loaded"
             PROVE  /\ call'[v].ver <= version'
                    /\ call'[v].ver = 0 => call'[v].cur = Fresh
                    /\ call'[v].ver = version' => call'[v].cur = row'
                    /\ call'[v].cur.level \in granted' \union {"approve"}
  BY DEF Current
<1>1. call'[v] = call[v]
  OBVIOUS
<1>2. /\ call[v].ver <= version
      /\ call[v].ver = 0 => call[v].cur = Fresh
      /\ call[v].ver = version => call[v].cur = row
      /\ call[v].cur.level \in granted \union {"approve"}
  BY <1>1 DEF IInv, Current
<1>3. call[v].ver \in Nat /\ version \in Nat
  BY Now DEF CallType
<1> QED BY <1>1, <1>2, <1>3

\* No new clean run is in flight, and those that are were not counted.
LEMMA KeepsInFlight ==
    ASSUME IInv, credits \subseteq credits',
           \A v \in Thread : call'[v].pc # "idle" =>
                /\ call[v].pc # "idle"
                /\ call'[v].ref = call[v].ref
                /\ call'[v].outcome = call[v].outcome,
           \A v \in Thread :
                call'[v].pc # "idle" /\ call[v].outcome = "clean"
                    => call[v].ref \notin earned' \/ call[v].ref \notin credits
    PROVE  InFlight'
BY DEF IInv, InFlight

\* A write that lands keeps the streak covered by counted incidents.
LEMMA Landed ==
    ASSUME IInv, NEW s \in Thread, call[s].pc = "loaded",
           VersionHolds(call[s].ver), Written(Decided(s)), Remembered(s)
    PROVE  /\ row' \in RungType /\ version' \in Nat /\ version' = version + 1
           /\ granted \subseteq granted' /\ granted' \subseteq Level
           /\ row'.level \in granted'
           /\ earned' \subseteq credits
           /\ earned' \subseteq earned \union {call[s].ref}
           /\ Streak'
<1> DEFINE c == call[s]
<1>1. /\ c \in CallType /\ c.cur \in RungType /\ c.outcome \in Outcome
      /\ row \in RungType /\ version \in Nat /\ earned \subseteq credits
      /\ granted \subseteq Level
  BY Now DEF CallType
<1>2. /\ row' = applyOutcome(c.cur, c.outcome) /\ version' = version + 1
      /\ granted' = granted \union {row'.level}
  BY DEF Written, Decided
<1>3. row' \in RungType
  BY <1>1, <1>2, ApplyType
<1>4. /\ granted \subseteq granted' /\ granted' \subseteq Level
      /\ row'.level \in granted'
  BY <1>1, <1>2, <1>3 DEF RungType
<1>5. earned' = IF c.outcome # "clean" \/ Promotes(row, row') THEN {}
                ELSE earned \union {c.ref}
  BY DEF Remembered
<1>6. c.outcome = "clean" => c.ref \in credits /\ c.ref \notin earned
  BY DEF IInv, InFlight
<1>7. earned' \subseteq credits /\ earned' \subseteq earned \union {c.ref}
  BY <1>1, <1>5, <1>6
<1>8. IsFiniteSet(earned) /\ StreakOf(row) <= Cardinality(earned)
      /\ Cardinality(earned) \in Nat
  BY FS_CardinalityType DEF IInv, Streak
<1>9. c.cur = row \/ c.cur = Fresh
  BY DecidedOn
<1>10. StreakOf(row) \in Nat /\ StreakOf(row') \in Nat
  BY <1>1, <1>3 DEF StreakOf, RungType, Level
<1>11. ASSUME earned' = {} PROVE Streak'
  <2>1. StreakOf(row') = 0
    <3>1. CASE c.outcome # "clean" \/ Promotes(c.cur, row')
      BY <3>1, <1>1, <1>2, ApplyBreak
    <3>2. CASE c.outcome = "clean" /\ ~Promotes(c.cur, row')
      <4>1. Promotes(row, row')
        BY <3>2, <1>5, <1>11
      <4>2. c.cur = Fresh
        BY <4>1, <3>2, <1>9
      <4>3. row'.level = "approve"
        BY <4>2, <3>2, <1>1, <1>2, ApplyClean, FreshRung
      <4> QED BY <4>1, <4>3 DEF Promotes, Autonomous
    <3> QED BY <3>1, <3>2
  <2> QED BY <2>1, <1>11, FS_EmptySet DEF Streak
<1>12. ASSUME earned' # {} PROVE Streak'
  <2>1. c.outcome = "clean" /\ ~Promotes(row, row')
        /\ earned' = earned \union {c.ref}
    BY <1>5, <1>12
  <2>2. IsFiniteSet(earned') /\ Cardinality(earned') = Cardinality(earned) + 1
    BY <2>1, <1>6, <1>8, FS_AddElement
  <2>3. StreakOf(row') <= Cardinality(earned) + 1
    <3>1. CASE Promotes(c.cur, row')
      <4>1. StreakOf(row') = 0
        BY <3>1, <1>1, <1>2, ApplyBreak
      <4> QED BY <4>1, <1>8
    <3>2. CASE ~Promotes(c.cur, row')
      <4>1. StreakOf(row') <= StreakOf(c.cur) + 1
        BY <3>2, <2>1, <1>1, <1>2, ApplyClean
      <4>2. StreakOf(c.cur) <= Cardinality(earned)
        BY <1>8, <1>9, FreshRung
      <4>3. StreakOf(c.cur) \in Nat
        BY <1>9, <1>10, FreshRung
      <4> QED BY <4>1, <4>2, <4>3, <1>8, <1>10
    <3> QED BY <3>1, <3>2
  <2> QED BY <2>2, <2>3 DEF Streak
<1> QED BY <1>1, <1>2, <1>3, <1>4, <1>7, <1>11, <1>12

\* What is served was granted, if only granted levels are newly served.
LEMMA KeepsServed ==
    ASSUME IInv, granted \subseteq granted',
           \A w \in Worker : cache'[w] = cache[w]
                \/ cache'[w] \in granted' \union {"approve", NoCache}
    PROVE  ServedWasGranted'
BY DEF IInv, ServedWasGranted

\* What a step that leaves the row alone keeps.
LEMMA RowKept ==
    ASSUME IInv, UNCHANGED rowVars
    PROVE  /\ row' \in RungType /\ version' \in Nat
           /\ version' = 0 => row' = Fresh
           /\ earned' = earned /\ granted' = granted
           /\ granted' \subseteq Level /\ row'.level \in granted'
           /\ Streak'
<1>1. row' = row /\ version' = version /\ earned' = earned /\ granted' = granted
  BY DEF rowVars
<1>2. Streak /\ row.level \in granted
  BY DEF IInv
<1>3. Streak'
  BY <1>1, <1>2 DEF Streak
<1> QED BY <1>1, <1>2, <1>3, Now

-----------------------------------------------------------------------------
\* One lemma per action.

\* The seed's write is refused: there is no credit yet.
LEMMA SeedInv == IInv /\ SeedDefaults => IInv'
<1> SUFFICES ASSUME IInv, SeedDefaults PROVE IInv'
  OBVIOUS
<1>1. credits = {} /\ executed = {}
  BY Now DEF SeedDefaults, IInv, SeedFirst
<1>2. Ungrounded("auto_notice")
  BY <1>1 DEF Ungrounded, Autonomous
<1>3. UNCHANGED rowVars
  BY <1>2 DEF SeedDefaults, rowVars
<1>4. UNCHANGED <<credits, executed, cache, call, ratify, records, faults,
                  deviant>> /\ seeded' = TRUE
  BY DEF SeedDefaults
<1>5. TypeOK'
  BY <1>3, <1>4, Now, RowKept, TypeNext
<1>6. Current'
  BY <1>3, <1>4, KeepsCurrent DEF rowVars
<1>7. InFlight'
  BY <1>3, <1>4 DEF rowVars, IInv, InFlight
<1>8. ServedWasGranted'
  BY <1>3, <1>4, KeepsServed DEF rowVars
<1> QED BY <1>3, <1>4, <1>5, <1>6, <1>7, <1>8, RowKept DEF IInv, SeedFirst

\* An execution.
LEMMA ExecuteInv == ASSUME IInv, NEW ref \in Ref, Execute(ref) PROVE IInv'
<1>1. UNCHANGED rowVars /\ UNCHANGED <<credits, cache, call, ratify, seeded,
                                      records, faults, deviant>>
      /\ executed' = executed \union {ref} /\ seeded
  BY DEF Execute
<1>2. TypeOK'
  BY <1>1, Now, RowKept, TypeNext
<1>3. Current'
  BY <1>1, KeepsCurrent DEF rowVars
<1>4. InFlight'
  BY <1>1 DEF rowVars, IInv, InFlight
<1>5. ServedWasGranted'
  BY <1>1, KeepsServed DEF rowVars
<1> QED BY <1>1, <1>2, <1>3, <1>4, <1>5, RowKept DEF IInv, SeedFirst

\* A call record is well formed.
LEMMA CallWellFormed ==
    ASSUME NEW pc \in {"idle", "want", "loaded", "retry"},
           NEW ref \in Ref \union {NoRef}, NEW o \in Outcome,
           NEW cur \in RungType, NEW ver \in Nat, NEW tries \in 0..MaxRetries
    PROVE  /\ Call(pc, ref, o, cur, ver, tries) \in CallType
           /\ Call(pc, ref, o, cur, ver, tries).pc = pc
           /\ Call(pc, ref, o, cur, ver, tries).ref = ref
           /\ Call(pc, ref, o, cur, ver, tries).outcome = o
           /\ Call(pc, ref, o, cur, ver, tries).cur = cur
           /\ Call(pc, ref, o, cur, ver, tries).ver = ver
           /\ Call(pc, ref, o, cur, ver, tries).tries = tries
BY DEF Call, CallType

\* A feed that carries no credit.
LEMMA FeedBreakInv ==
    ASSUME IInv, NEW s \in Thread, NEW o \in Outcome, FeedBreak(s, o)
    PROVE  IInv'
<1> DEFINE new == Call("want", NoRef, o, Fresh, 0, 0)
<1>1. UNCHANGED rowVars /\ UNCHANGED <<credits, executed, cache, ratify, seeded,
                                      faults, deviant>>
      /\ o # "clean" /\ records < MaxRecords /\ records' = records + 1
      /\ call' = [call EXCEPT ![s] = new]
  BY DEF FeedBreak, Begin
<1>2. new \in CallType /\ new.pc = "want" /\ new.outcome = o
  BY CallWellFormed, FreshRung, GraduationAssumption
<1> HIDE DEF new
<1>3. call' \in [Thread -> CallType] /\ records' \in 0..MaxRecords
  BY <1>1, <1>2, Now, GraduationAssumption
<1>4. \A v \in Thread : call'[v] = IF v = s THEN new ELSE call[v]
  BY <1>1, Now
<1>5. TypeOK'
  BY <1>1, <1>3, Now, RowKept, TypeNext
<1>6. Current'
  BY <1>1, <1>2, <1>4, KeepsCurrent DEF rowVars
<1>7. InFlight'
  BY <1>1, <1>2, <1>4 DEF rowVars, IInv, InFlight
<1>8. ServedWasGranted'
  BY <1>1, KeepsServed DEF rowVars
<1>9. SeedFirst'
  BY <1>1 DEF IInv, SeedFirst
<1> QED BY <1>1, <1>5, <1>6, <1>7, <1>8, <1>9, RowKept DEF IInv

\* A clean feed: its incident's credit is new, so no other run carries it.
LEMMA FeedCleanInv ==
    ASSUME IInv, NEW s \in Thread, NEW ref \in Ref, FeedClean(s, ref)
    PROVE  IInv'
<1> DEFINE new == Call("want", ref, "clean", Fresh, 0, 0)
<1>1. UNCHANGED rowVars /\ UNCHANGED <<executed, cache, ratify, seeded, deviant>>
      /\ ref \in executed /\ ref \notin credits
      /\ credits' = credits \union {ref} /\ call[s].pc = "idle"
  BY DEF FeedClean, Claimable
<1>2. \/ call' = call /\ records' = records /\ faults' \in 0..MaxFaults
      \/ /\ call' = [call EXCEPT ![s] = new] /\ records' \in 0..MaxRecords
         /\ faults' = faults
  BY Now, GraduationAssumption DEF FeedClean, Begin, NoFault, Fault
<1>3. new \in CallType /\ new.pc = "want" /\ new.outcome = "clean" /\ new.ref = ref
  BY CallWellFormed, FreshRung, GraduationAssumption DEF Outcome
<1> HIDE DEF new
<1>4. call' \in [Thread -> CallType] /\ records' \in 0..MaxRecords
      /\ faults' \in 0..MaxFaults
  BY <1>2, <1>3, Now
<1>5. \A v \in Thread : call'[v] = call[v] \/ (v = s /\ call'[v] = new)
  BY <1>2, Now
<1>6. TypeOK'
  <2>1. credits' \subseteq executed' /\ earned' \subseteq credits'
    BY <1>1, Now DEF rowVars
  <2> QED BY <2>1, <1>1, <1>4, Now, RowKept, TypeNext
<1>7. Current'
  BY <1>1, <1>3, <1>5, KeepsCurrent DEF rowVars
<1>8. InFlight'
  <2>1. earned' = earned /\ earned \subseteq credits
    BY <1>1, Now DEF rowVars
  <2>2. \A v \in Thread : call'[v].pc # "idle" /\ call'[v].outcome = "clean" =>
            \/ /\ call'[v] = call[v] /\ call[v].ref \in credits
               /\ call[v].ref \notin earned
            \/ v = s /\ call'[v].ref = ref
    BY <1>3, <1>5 DEF IInv, InFlight
  <2>3. \A v \in Thread, u \in Thread :
            (/\ call'[v].pc # "idle" /\ call'[v].outcome = "clean"
             /\ call'[u].pc # "idle" /\ call'[u].outcome = "clean"
             /\ call'[u].ref = call'[v].ref) => u = v
    BY <2>2, <1>1 DEF IInv, InFlight
  <2>4. \A v \in Thread : call'[v].pc # "idle" /\ call'[v].outcome = "clean" =>
            call'[v].ref \in credits' /\ call'[v].ref \notin earned'
    BY <2>1, <2>2, <1>1
  <2> QED BY <2>3, <2>4 DEF InFlight
<1>9. ServedWasGranted'
  BY <1>1, KeepsServed DEF rowVars
<1>10. SeedFirst'
  BY <1>1 DEF IInv, SeedFirst
<1> QED BY <1>1, <1>6, <1>7, <1>8, <1>9, <1>10, RowKept DEF IInv

\* A call that reads.
LEMMA LoadFreshInv ==
    ASSUME IInv, NEW s \in Thread, LoadFresh(s)
    PROVE  IInv'
<1> DEFINE c == call[s]
           w == WorkerOf(s)
<1>0. w \in Worker /\ c \in CallType
  BY Now, GraduationAssumption
<1>1. UNCHANGED rowVars /\ UNCHANGED <<credits, executed, ratify, seeded,
                                      records, deviant>>
      /\ c.pc # "idle"
  BY DEF LoadFresh
<1>2. PICK cur, ver :
        /\ call' = [call EXCEPT ![s] =
                        Call("loaded", c.ref, c.outcome, cur, ver, c.tries)]
        /\ cache' = [cache EXCEPT ![w] = cur.level]
        /\ \/ cur = row /\ ver = version /\ faults' = faults
           \/ cur = Fresh /\ ver = 0 /\ faults < MaxFaults /\ faults' = faults + 1
  BY DEF LoadFresh, NoFault, Fault
<1>3. cur \in RungType /\ ver \in Nat /\ faults' \in 0..MaxFaults
      /\ ver <= version
  BY <1>2, Now, FreshRung, GraduationAssumption
<1>4. cur.level \in granted \union {"approve"}
  BY <1>2, FreshRung DEF IInv
<1>5. (ver = 0 => cur = Fresh) /\ (ver = version => cur = row)
  BY <1>2, Now
<1> DEFINE new == Call("loaded", c.ref, c.outcome, cur, ver, c.tries)
<1>6. /\ new \in CallType /\ new.ref = c.ref /\ new.outcome = c.outcome
      /\ new.cur = cur /\ new.ver = ver
  <2>1. c.ref \in Ref \union {NoRef} /\ c.outcome \in Outcome
        /\ c.tries \in 0..MaxRetries
    BY <1>0 DEF CallType
  <2> HIDE DEF c
  <2> QED BY <2>1, <1>3 DEF Call, CallType
<1>7. call' = [call EXCEPT ![s] = new]
  BY <1>2
<1> HIDE DEF new
<1>8. call' \in [Thread -> CallType]
  BY <1>6, <1>7, Now
<1>9. cur.level \in Level
  BY <1>3 DEF RungType
<1>10. cache' \in [Worker -> Level \union {NoCache}]
  BY <1>2, <1>9, Now
<1>11. TypeOK'
  BY <1>1, <1>3, <1>8, <1>10, Now, RowKept, TypeNext
<1>12. \A v \in Thread : call'[v] = IF v = s THEN new ELSE call[v]
  BY <1>7, Now
<1>13. Current'
  <2>1. row' = row /\ version' = version /\ granted' = granted
    BY <1>1 DEF rowVars
  <2> SUFFICES ASSUME NEW v \in Thread, call'[v].pc = "loaded"
               PROVE  /\ call'[v].ver <= version
                      /\ call'[v].ver = 0 => call'[v].cur = Fresh
                      /\ call'[v].ver = version => call'[v].cur = row
                      /\ call'[v].cur.level \in granted \union {"approve"}
    BY <2>1 DEF Current
  <2>2. CASE v = s
    BY <2>2, <1>12, <1>6, <1>3, <1>4, <1>5
  <2>3. CASE v # s
    BY <2>3, <1>12 DEF IInv, Current
  <2> QED BY <2>2, <2>3
<1>14. InFlight'
  <2>1. credits' = credits /\ earned' = earned
    BY <1>1 DEF rowVars
  <2>2. \A v \in Thread : call'[v].pc # "idle" =>
            /\ call[v].pc # "idle" /\ call'[v].ref = call[v].ref
            /\ call'[v].outcome = call[v].outcome
    BY <1>1, <1>6, <1>12
  <2>3. \A v \in Thread : call'[v].pc # "idle" /\ call[v].outcome = "clean"
            => call[v].ref \notin earned
    BY <2>2 DEF IInv, InFlight
  <2> QED BY <2>1, <2>2, <2>3, KeepsInFlight
<1>15. ServedWasGranted'
  <2>1. granted' = granted
    BY <1>1 DEF rowVars
  <2>2. \A x \in Worker : cache'[x] = cache[x] \/ cache'[x] = cur.level
    BY <1>2, Now
  <2> QED BY <2>1, <2>2, <1>4, KeepsServed
<1>16. SeedFirst'
  BY <1>1 DEF IInv, SeedFirst
<1> QED BY <1>1, <1>11, <1>13, <1>14, <1>15, <1>16, RowKept DEF IInv

\* A call that returns, having written or not.
LEMMA ReturnInv ==
    ASSUME IInv, NEW s \in Thread, NEW level, Return(s, level),
           call[s].pc = "loaded",
           level \in granted' \union {"approve"},
           \/ UNCHANGED rowVars
           \/ /\ VersionHolds(call[s].ver) /\ Written(Decided(s))
              /\ Remembered(s),
           UNCHANGED <<credits, executed, ratify, seeded, records>>,
           faults' \in 0..MaxFaults
    PROVE  IInv'
<1> DEFINE w == WorkerOf(s)
<1>0. w \in Worker /\ Idle \in CallType /\ Idle.pc = "idle"
  BY GraduationAssumption, CallWellFormed, FreshRung DEF Idle, Outcome
<1>1. /\ row' \in RungType /\ version' \in Nat /\ (version' = 0 => row' = Fresh)
      /\ granted \subseteq granted' /\ granted' \subseteq Level
      /\ row'.level \in granted' /\ earned' \subseteq credits
      /\ earned' \subseteq earned \union {call[s].ref} /\ Streak'
      /\ version' = version + 1 \/ (version' = version /\ row' = row)
  <2>1. CASE UNCHANGED rowVars
    BY <2>1, RowKept, Now DEF rowVars
  <2>2. CASE VersionHolds(call[s].ver) /\ Written(Decided(s)) /\ Remembered(s)
    <3>1. version' = version + 1 /\ version' # 0
      BY <2>2, Landed, Now
    <3> QED BY <2>2, <3>1, Landed
  <2> QED BY <2>1, <2>2
<1>2. call' = [call EXCEPT ![s] = Idle] /\ cache' = [cache EXCEPT ![w] = level]
  BY DEF Return
<1>3. call' \in [Thread -> CallType]
  BY <1>0, <1>2, Now
<1>4. level \in Level
  BY <1>1 DEF Level
<1>5. cache' \in [Worker -> Level \union {NoCache}]
  BY <1>2, <1>4, Now
<1>6. deviant' \subseteq Worker
  BY <1>0, Now DEF Return
<1>7. TypeOK'
  BY <1>1, <1>3, <1>5, <1>6, Now, TypeNext
<1>8. \A v \in Thread : call'[v].pc # "idle" => v # s /\ call'[v] = call[v]
  BY <1>0, <1>2, Now
<1>9. Current'
  BY <1>1, <1>8, KeepsCurrent
<1>10. InFlight'
  <2>1. CASE UNCHANGED rowVars
    <3>1. \A v \in Thread :
            call'[v].pc # "idle" /\ call[v].outcome = "clean"
                => call[v].ref \notin earned'
      BY <2>1, <1>8 DEF IInv, InFlight, rowVars
    <3> QED BY <3>1, <1>8, KeepsInFlight
  <2>2. CASE VersionHolds(call[s].ver) /\ Written(Decided(s)) /\ Remembered(s)
    <3>1. CASE call[s].outcome # "clean"
      <4>1. earned' = {}
        BY <2>2, <3>1 DEF Remembered
      <4> QED BY <4>1, <1>8, KeepsInFlight
    <3>2. CASE call[s].outcome = "clean"
      <4>1. \A v \in Thread :
              call'[v].pc # "idle" /\ call[v].outcome = "clean"
                  => call[v].ref \notin earned /\ call[v].ref # call[s].ref
        BY <3>2, <1>8 DEF IInv, InFlight
      <4>2. \A v \in Thread :
              call'[v].pc # "idle" /\ call[v].outcome = "clean"
                  => call[v].ref \notin earned'
        BY <4>1, <1>1
      <4> QED BY <4>2, <1>8, KeepsInFlight
    <3> QED BY <3>1, <3>2
  <2> QED BY <2>1, <2>2
<1>11. ServedWasGranted'
  <2>1. \A x \in Worker : cache'[x] = cache[x] \/ cache'[x] = level
    BY <1>2, Now
  <2> QED BY <2>1, <1>1, KeepsServed
<1>12. SeedFirst'
  BY DEF IInv, SeedFirst
<1> QED BY <1>1, <1>7, <1>9, <1>10, <1>11, <1>12 DEF IInv

\* A save that lands.
LEMMA SaveLandsInv ==
    ASSUME IInv, NEW s \in Thread, SaveLands(s)
    PROVE  IInv'
<1>1. /\ call[s].pc = "loaded" /\ VersionHolds(call[s].ver)
      /\ Written(Decided(s)) /\ Remembered(s) /\ Return(s, Decided(s).level)
      /\ UNCHANGED <<credits, executed, ratify, seeded, records>>
      /\ faults' \in 0..MaxFaults
  BY Now DEF SaveLands
<1>2. Decided(s).level \in granted'
  BY <1>1 DEF Written
<1> QED BY <1>1, <1>2, ReturnInv

\* A lost race: the call reads again.
LEMMA SaveLostInv ==
    ASSUME IInv, NEW s \in Thread, SaveLost(s)
    PROVE  IInv'
<1> DEFINE c == call[s]
           w == WorkerOf(s)
           new == Call("retry", c.ref, c.outcome, Fresh, 0, c.tries + 1)
<1>1. UNCHANGED rowVars /\ UNCHANGED <<credits, executed, ratify, seeded,
                                      records, faults, deviant>>
      /\ c.pc = "loaded" /\ c.tries < MaxRetries
      /\ call' = [call EXCEPT ![s] = new]
      /\ cache' = [cache EXCEPT ![w] = NoCache]
  BY DEF SaveLost, CanRetry
<1>2. /\ new \in CallType /\ new.pc = "retry" /\ new.ref = c.ref
      /\ new.outcome = c.outcome
  <2>1. c.ref \in Ref \union {NoRef} /\ c.outcome \in Outcome
        /\ c.tries + 1 \in 0..MaxRetries
    BY <1>1, Now, GraduationAssumption DEF CallType
  <2> HIDE DEF c
  <2> QED BY <2>1, FreshRung, CallWellFormed
<1> HIDE DEF new
<1>3. call' \in [Thread -> CallType]
      /\ cache' \in [Worker -> Level \union {NoCache}]
  BY <1>1, <1>2, Now
<1>4. \A v \in Thread : call'[v] = IF v = s THEN new ELSE call[v]
  BY <1>1, Now
<1>5. TypeOK'
  BY <1>1, <1>3, Now, RowKept, TypeNext
<1>6. Current'
  BY <1>1, <1>2, <1>4, KeepsCurrent DEF rowVars
<1>7. InFlight'
  <2>1. \A v \in Thread : call'[v].pc # "idle" =>
            /\ call[v].pc # "idle" /\ call'[v].ref = call[v].ref
            /\ call'[v].outcome = call[v].outcome
    BY <1>1, <1>2, <1>4
  <2>2. \A v \in Thread : call'[v].pc # "idle" /\ call[v].outcome = "clean"
            => call[v].ref \notin earned'
    BY <2>1, <1>1 DEF IInv, InFlight, rowVars
  <2> QED BY <2>1, <2>2, <1>1, KeepsInFlight
<1>8. ServedWasGranted'
  <2>1. \A x \in Worker : cache'[x] = cache[x] \/ cache'[x] = NoCache
    BY <1>1, Now
  <2> QED BY <2>1, <1>1, KeepsServed DEF rowVars
<1>9. SeedFirst'
  BY <1>1 DEF IInv, SeedFirst
<1> QED BY <1>1, <1>5, <1>6, <1>7, <1>8, <1>9, RowKept DEF IInv

\* A save that fails: what is served is the level read, or a lower one.
LEMMA SaveFailsInv ==
    ASSUME IInv, NEW s \in Thread, SaveFails(s)
    PROVE  IInv'
<1> DEFINE c == call[s]
           level == ServedOnError(c.cur, Decided(s))
<1>1. /\ c.pc = "loaded" /\ Return(s, level)
      /\ UNCHANGED <<credits, executed, ratify, seeded, records>>
  BY DEF SaveFails
<1>2. \/ UNCHANGED rowVars
      \/ VersionHolds(c.ver) /\ Written(Decided(s)) /\ Remembered(s)
  BY DEF SaveFails
<1>3. faults' \in 0..MaxFaults
  BY Now, GraduationAssumption DEF SaveFails, Fault, NoFault
<1>4. c.cur \in RungType /\ c.outcome \in Outcome
  BY Now DEF CallType
<1>5. c.cur.level \in granted \union {"approve"}
  BY <1>1 DEF IInv, Current
<1>6. granted \subseteq granted'
  BY <1>2 DEF rowVars, Written
<1>7. level \in {c.cur.level, "approve"}
  <2>1. CASE Promotes(c.cur, Decided(s))
    BY <2>1 DEF ServedOnError
  <2>2. CASE ~Promotes(c.cur, Decided(s))
    BY <2>2, <1>4, ApplyLevel DEF ServedOnError, Decided
  <2> QED BY <2>1, <2>2
<1>8. level \in granted' \union {"approve"}
  BY <1>5, <1>6, <1>7
<1> QED BY <1>1, <1>2, <1>3, <1>8, ReturnInv

\* Actions that only change what a process serves.
LEMMA CacheInv ==
    ASSUME IInv, NEW w \in Worker, NEW level,
           level \in granted \union {"approve", NoCache},
           cache' = [cache EXCEPT ![w] = level],
           faults' \in 0..MaxFaults,
           UNCHANGED rowVars,
           UNCHANGED <<credits, executed, call, ratify, seeded, records, deviant>>
    PROVE  IInv'
<1>1. level \in Level \union {NoCache}
  BY Now DEF Level
<1>2. cache' \in [Worker -> Level \union {NoCache}]
      /\ \A x \in Worker : cache'[x] = cache[x] \/ cache'[x] = level
  BY <1>1, Now
<1>3. TypeOK'
  BY <1>2, Now, RowKept, TypeNext
<1>4. Current'
  BY KeepsCurrent DEF rowVars
<1>5. InFlight'
  BY DEF rowVars, IInv, InFlight
<1>6. ServedWasGranted'
  BY <1>2, KeepsServed DEF rowVars
<1>7. SeedFirst'
  BY DEF IInv, SeedFirst
<1> QED BY <1>3, <1>4, <1>5, <1>6, <1>7, RowKept DEF IInv

\* The read path fills a cache.
LEMMA FirstTouchInv ==
    ASSUME IInv, NEW w \in Worker, FirstTouch(w)
    PROVE  IInv'
<1>1. PICK level \in {row.level, "approve"} : cache' = [cache EXCEPT ![w] = level]
  BY DEF FirstTouch
<1>2. level \in granted \union {"approve", NoCache}
  BY <1>1 DEF IInv
<1>3. faults' \in 0..MaxFaults
  BY Now, GraduationAssumption DEF FirstTouch, Fault, NoFault
<1>4. UNCHANGED rowVars
      /\ UNCHANGED <<credits, executed, call, ratify, seeded, records, deviant>>
  BY DEF FirstTouch
<1> QED BY <1>1, <1>2, <1>3, <1>4, CacheInv

\* The overlay refresh empties it.
LEMMA ForgetInv ==
    ASSUME IInv, NEW w \in Worker, Forget(w)
    PROVE  IInv'
BY CacheInv, Now DEF Forget

\* The operator's verbs, ratify and demote.
LEMMA VerbInv == IInv /\ (RatifyRead \/ RatifyReset \/ Demote) => IInv'
<1> SUFFICES ASSUME IInv, RatifyRead \/ RatifyReset \/ Demote PROVE IInv'
  OBVIOUS
<1>1. UNCHANGED <<credits, executed, cache, call, seeded, deviant>>
      /\ ratify' \in {"idle", "reset"}
  BY Now DEF RatifyRead, RatifyReset, Demote
<1>2. faults' \in 0..MaxFaults /\ records' \in 0..MaxRecords
  BY Now, GraduationAssumption
     DEF RatifyRead, RatifyReset, Demote, Fault, NoFault
<1>3. UNCHANGED rowVars \/ (Written(Fresh) /\ earned' = {})
  BY DEF RatifyRead, RatifyReset, Demote
<1>4. /\ row' \in RungType /\ version' \in Nat /\ (version' = 0 => row' = Fresh)
      /\ granted \subseteq granted' /\ granted' \subseteq Level
      /\ row'.level \in granted' /\ earned' \subseteq earned /\ Streak'
      /\ version' = version + 1 \/ (version' = version /\ row' = row)
  <2>1. CASE UNCHANGED rowVars
    BY <2>1, RowKept, Now DEF rowVars
  <2>2. CASE Written(Fresh) /\ earned' = {}
    <3>1. row' = Fresh /\ version' = version + 1
          /\ granted' = granted \union {"approve"} /\ earned' = {}
      BY <2>2, FreshRung DEF Written
    <3>2. Streak'
      BY <3>1, FreshRung, FS_EmptySet DEF Streak
    <3>3. "approve" \in Level
      BY DEF Level
    <3> QED BY <3>1, <3>2, <3>3, FreshRung, Now
  <2> QED BY <1>3, <2>1, <2>2
<1>5. TypeOK'
  BY <1>1, <1>2, <1>4, Now, TypeNext
<1>6. Current'
  BY <1>1, <1>4, KeepsCurrent
<1>7. InFlight'
  BY <1>1, <1>4 DEF IInv, InFlight
<1>8. ServedWasGranted'
  BY <1>1, <1>4, KeepsServed
<1>9. SeedFirst'
  BY <1>1 DEF IInv, SeedFirst
<1> QED BY <1>4, <1>5, <1>6, <1>7, <1>8, <1>9 DEF IInv

\* A process that stops.
LEMMA CrashInv ==
    ASSUME IInv, NEW w \in Worker, Crash(w)
    PROVE  IInv'
<1>0. Idle \in CallType /\ Idle.pc = "idle"
  BY GraduationAssumption, CallWellFormed, FreshRung DEF Idle, Outcome
<1>1. UNCHANGED rowVars
      /\ UNCHANGED <<credits, executed, ratify, seeded, records>>
      /\ deviant' \subseteq deviant
      /\ call' = [s \in Thread |-> IF WorkerOf(s) = w THEN Idle ELSE call[s]]
      /\ cache' = [cache EXCEPT ![w] = NoCache]
  BY DEF Crash
<1>2. faults' \in 0..MaxFaults
  BY Now, GraduationAssumption DEF Crash, Fault
<1>3. call' \in [Thread -> CallType]
      /\ cache' \in [Worker -> Level \union {NoCache}]
  BY <1>0, <1>1, Now
<1>4. \A v \in Thread : call'[v].pc # "idle" => call'[v] = call[v]
  BY <1>0, <1>1
<1>5. TypeOK'
  BY <1>1, <1>2, <1>3, Now, RowKept, TypeNext
<1>6. Current'
  BY <1>1, <1>4, KeepsCurrent DEF rowVars
<1>7. InFlight'
  <2>1. \A v \in Thread : call'[v].pc # "idle" /\ call[v].outcome = "clean"
            => call[v].ref \notin earned'
    BY <1>1, <1>4 DEF IInv, InFlight, rowVars
  <2> QED BY <2>1, <1>1, <1>4, KeepsInFlight
<1>8. ServedWasGranted'
  <2>1. \A x \in Worker : cache'[x] = cache[x] \/ cache'[x] = NoCache
    BY <1>1, Now
  <2> QED BY <2>1, <1>1, KeepsServed DEF rowVars
<1>9. SeedFirst'
  BY <1>1 DEF IInv, SeedFirst
<1> QED BY <1>1, <1>5, <1>6, <1>7, <1>8, <1>9, RowKept DEF IInv

-----------------------------------------------------------------------------
\* Every step keeps IInv.
LEMMA StepInv == IInv /\ [Next]_vars => IInv'
<1> SUFFICES ASSUME IInv, [Next]_vars PROVE IInv'
  OBVIOUS
<1>1. CASE SeedDefaults
  BY <1>1, SeedInv
<1>2. CASE \E ref \in Ref : Execute(ref)
  BY <1>2, ExecuteInv
<1>3. ASSUME NEW s \in Thread, Step(s) PROVE IInv'
  <2>1. CASE \E o \in Outcome : FeedBreak(s, o)
    BY <2>1, FeedBreakInv
  <2>2. CASE \E ref \in Ref : FeedClean(s, ref)
    BY <2>2, FeedCleanInv
  <2>3. CASE LoadFresh(s)
    BY <2>3, LoadFreshInv
  <2>4. CASE SaveLands(s)
    BY <2>4, SaveLandsInv
  <2>5. CASE SaveLost(s)
    BY <2>5, SaveLostInv
  <2>6. CASE SaveFails(s)
    BY <2>6, SaveFailsInv
  <2> QED BY <1>3, <2>1, <2>2, <2>3, <2>4, <2>5, <2>6 DEF Step
<1>4. ASSUME NEW w \in Worker, FirstTouch(w) \/ Forget(w) \/ Crash(w)
      PROVE  IInv'
  BY <1>4, FirstTouchInv, ForgetInv, CrashInv
<1>5. CASE RatifyRead \/ RatifyReset \/ Demote
  BY <1>5, VerbInv
<1>6. CASE UNCHANGED vars
  BY <1>6 DEF vars, IInv, TypeOK, Current, Streak, InFlight, SeedFirst,
              ServedWasGranted, StreakOf
<1> QED BY <1>1, <1>2, <1>3, <1>4, <1>5, <1>6 DEF Next

\* IInv is an invariant.
LEMMA Invariance == Spec => []IInv
BY InitInv, StepInv, PTL DEF Spec

\* The ways the row moves: not at all, back to a fresh class, or by a Record.
LEMMA RowMoves ==
    ASSUME IInv, [Next]_vars
    PROVE  \/ row' = row
           \/ row' = Fresh
           \/ \E s \in Thread :
                /\ call[s].pc = "loaded" /\ VersionHolds(call[s].ver)
                /\ row' = applyOutcome(call[s].cur, call[s].outcome)
<1>1. CASE SeedDefaults
  <2>1. credits = {}
    BY <1>1, Now DEF SeedDefaults, IInv, SeedFirst
  <2>2. Ungrounded("auto_notice")
    BY <2>1 DEF Ungrounded, Autonomous
  <2> QED BY <1>1, <2>2 DEF SeedDefaults
<1>2. CASE \E ref \in Ref : Execute(ref)
  BY <1>2 DEF Execute, rowVars
<1>3. ASSUME NEW s \in Thread, Step(s)
      PROVE  \/ row' = row
             \/ /\ call[s].pc = "loaded" /\ VersionHolds(call[s].ver)
                /\ row' = applyOutcome(call[s].cur, call[s].outcome)
  <2>1. CASE SaveLands(s)
    BY <2>1 DEF SaveLands, Written, Decided
  <2>2. CASE SaveFails(s)
    BY <2>2 DEF SaveFails, Written, Decided, rowVars
  <2>3. CASE LoadFresh(s) \/ SaveLost(s)
    BY <2>3 DEF LoadFresh, SaveLost, rowVars
  <2>4. CASE \E o \in Outcome : FeedBreak(s, o)
    BY <2>4 DEF FeedBreak, rowVars
  <2>5. CASE \E ref \in Ref : FeedClean(s, ref)
    BY <2>5 DEF FeedClean, rowVars
  <2> QED BY <1>3, <2>1, <2>2, <2>3, <2>4, <2>5 DEF Step
<1>4. CASE \E w \in Worker : FirstTouch(w) \/ Forget(w) \/ Crash(w)
  BY <1>4 DEF FirstTouch, Forget, Crash, rowVars
<1>5. CASE RatifyRead \/ RatifyReset \/ Demote
  BY <1>5 DEF RatifyRead, RatifyReset, Demote, Written, rowVars
<1>6. CASE UNCHANGED vars
  BY <1>6 DEF vars
<1> QED BY <1>1, <1>2, <1>3, <1>4, <1>5, <1>6 DEF Next

\* The evidence of the Record that raises the level.
LEMMA Evidence ==
    ASSUME IInv, [Next]_vars, Promotes(row, row')
    PROVE  \E s \in Thread :
            LET evidence == earned \union {call[s].ref} IN
            /\ call[s].pc = "loaded" /\ call[s].outcome = "clean"
            /\ evidence \subseteq executed
            /\ Cardinality(evidence) >= Bar(row'.level)
<1>1. row' # row /\ row' # Fresh
  BY FreshRung DEF Promotes, Autonomous
<1>2. PICK s \in Thread :
        /\ call[s].pc = "loaded" /\ VersionHolds(call[s].ver)
        /\ row' = applyOutcome(call[s].cur, call[s].outcome)
  BY <1>1, RowMoves
<1> DEFINE c == call[s]
           evidence == earned \union {c.ref}
<1>3. c.cur \in RungType /\ c.outcome \in Outcome /\ row \in RungType
  BY Now DEF CallType
<1>4. c.cur = row \/ c.cur = Fresh
  BY <1>2, DecidedOn
<1>5. Promotes(c.cur, row')
  <2> SUFFICES ASSUME ~Promotes(c.cur, row') PROVE FALSE
    OBVIOUS
  <2>1. c.cur = Fresh
    BY <1>4
  <2>2. row'.level = "approve"
    BY <2>1, <1>2, <1>3, ApplyLevel, FreshRung
  <2> QED BY <2>2 DEF Promotes, Autonomous
<1>6. /\ c.outcome = "clean"
      /\ \/ /\ c.cur.level = "approve" /\ row'.level = "auto_notice"
            /\ c.cur.clean + 1 >= PromoteThreshold
         \/ /\ c.cur.level = "auto_notice" /\ row'.level = "auto"
            /\ c.cur.notice + 1 >= NoticeThreshold
  BY <1>2, <1>3, <1>5, ApplyPromotes
<1>7. StreakOf(c.cur) + 1 >= Bar(row'.level)
  BY <1>6 DEF StreakOf, Bar
<1>8. c.ref \in credits /\ c.ref \notin earned
  BY <1>2, <1>6 DEF IInv, InFlight
<1>9. evidence \subseteq executed
  BY <1>8, Now
<1>10. /\ IsFiniteSet(earned) /\ StreakOf(row) <= Cardinality(earned)
       /\ Cardinality(earned) \in Nat
  BY FS_CardinalityType DEF IInv, Streak
<1>11. Cardinality(evidence) = Cardinality(earned) + 1
  BY <1>8, <1>10, FS_AddElement
<1>12. StreakOf(c.cur) <= Cardinality(earned) /\ StreakOf(c.cur) \in Nat
  <2>1. StreakOf(row) \in Nat
    BY <1>3 DEF StreakOf, RungType
  <2> QED BY <2>1, <1>4, <1>10, FreshRung
<1>13. Bar(row'.level) \in Nat
  BY LadderAssumption DEF Bar
<1>14. Cardinality(evidence) >= Bar(row'.level)
  <2> HIDE DEF evidence
  <2> QED BY <1>7, <1>10, <1>11, <1>12, <1>13
<1> QED BY <1>2, <1>6, <1>9, <1>14

-----------------------------------------------------------------------------
\* The type invariant, for any number of processes, threads and incidents.
THEOREM TypeCorrect == Spec => []TypeOK
<1>1. IInv => TypeOK
  BY DEF IInv
<1> QED BY <1>1, Invariance, PTL

\* No process serves a level the row never held, however its saves fail: what
\* Record keeps on an error is the level it read or a lower one.
THEOREM Served == Spec => []ServedWasGranted
<1>1. IInv => ServedWasGranted
  BY DEF IInv
<1> QED BY <1>1, Invariance, PTL

\* The durable level rises only on as many distinct executed incidents as the
\* rung costs, with no break written since.
THEOREM Earned == Spec => PromotionEarned
<1>1. IInv /\ [Next]_vars =>
        [Promotes(row, row') =>
            \E s \in Thread :
                LET evidence == earned \union {call[s].ref} IN
                /\ call[s].pc = "loaded" /\ call[s].outcome = "clean"
                /\ evidence \subseteq executed
                /\ Cardinality(evidence) >= Bar(row'.level)]_vars
  BY Evidence
<1> QED BY <1>1, Invariance, PTL DEF Spec, PromotionEarned

\* The processes' Records, each a read and a conditional write with lost
\* races, failed loads and retries between, are the runs of one ladder.
THEOREM ImplementsSerial == Spec => IsSerialLadder
<1>1. Init => Serial!Init
  BY GraduationAssumption
     DEF Init, Serial!Init, Serial!Rung, Serial!Level, Rung, Fresh, Level
<1>2. \A r, o : Serial!applyOutcome(r, o) = applyOutcome(r, o)
  BY DEF Serial!applyOutcome, applyOutcome, Serial!Credited, Credited,
         Serial!Rung, Rung, Serial!Fresh, Fresh
<1>3. Serial!Fresh = Fresh /\ Serial!Outcome = Outcome
  BY DEF Serial!Fresh, Fresh, Serial!Rung, Rung, Serial!Outcome, Outcome
<1>4. IInv /\ [Next]_vars => [Serial!Next]_row
  <2> SUFFICES ASSUME IInv, [Next]_vars, row' # row PROVE Serial!Next
    OBVIOUS
  <2>1. CASE row' = Fresh
    BY <2>1, <1>3 DEF Serial!Next, Serial!Reset
  <2>2. CASE row' # Fresh
    <3>1. PICK s \in Thread :
            /\ call[s].pc = "loaded" /\ VersionHolds(call[s].ver)
            /\ row' = applyOutcome(call[s].cur, call[s].outcome)
      BY <2>2, RowMoves
    <3>2. call[s].outcome \in Outcome
      BY Now DEF CallType
    <3>3. CASE call[s].cur = row
      BY <3>1, <3>2, <3>3, <1>2, <1>3 DEF Serial!Next, Serial!Run
    <3>4. CASE call[s].cur = Fresh
      BY <3>1, <3>2, <3>4, <1>2, <1>3 DEF Serial!Next, Serial!Forfeit
    <3> QED BY <3>1, <3>3, <3>4, DecidedOn
  <2> QED BY <2>1, <2>2
<1> QED BY <1>1, <1>4, Invariance, PTL DEF Spec, IsSerialLadder, Serial!Spec
=============================================================================
