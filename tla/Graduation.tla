----------------------------- MODULE Graduation -----------------------------
(***************************************************************************)
(* How one op-class earns and loses autonomy across processes: the durable *)
(* row with its version (core/db/policy_graduation_store.go), the credits  *)
(* that a promotion must be grounded in (core/db/graduation_credit.go and  *)
(* its triggers), and in each process a Ladder with a cache and a mutex    *)
(* (core/policy/graduation.go).  The interceptor records a deviation at    *)
(* once; the end of a session or of a confirm window feeds the rest, the   *)
(* clean outcome only after claiming the incident's credit                 *)
(* (cmd/worker/main.go, RecordGraduation).                                 *)
(*                                                                         *)
(* Classes do not interact, so one is modelled.  The store may fail, or    *)
(* commit and still report an error.  A thread is a place where a process  *)
(* runs one feed.                                                          *)
(***************************************************************************)
EXTENDS Ladder, FiniteSets

CONSTANTS
    Worker, Thread,
    WorkerOf(_),            \* the process of a thread
    Ref,                    \* incidents
    Legacy,                 \* the row is older than the credits, at auto
    MaxRetries,             \* maxRecordCASRetries
    MaxRecords, MaxFaults   \* bounds on feeds and demotions, and on failures

NoRef == "none"
NoCache == "none"

ASSUME GraduationAssumption ==
    /\ \A s \in Thread : WorkerOf(s) \in Worker
    /\ NoRef \notin Ref
    /\ Legacy \in BOOLEAN
    /\ MaxRetries \in Nat /\ MaxRecords \in Nat /\ MaxFaults \in Nat

VARIABLES
    row,        \* policy_graduation: the rung
    version,    \* its version; 0 while there is no row
    credits,    \* graduation_credit
    executed,   \* incidents with an action_execution
    cache,      \* Ladder.states per process: the level served
    call,       \* the Record of each thread
    ratify,     \* the ratify verb between its read and its reset
    seeded,     \* SeedDefaults has run
    records, faults,
    earned,     \* history: incidents of the clean runs since the last break
    granted,    \* history: levels the row has held
    deviant     \* history: processes that saw a deviation, until a promotion

vars == <<row, version, credits, executed, cache, call, ratify, seeded,
          records, faults, earned, granted, deviant>>
rowVars == <<row, version, earned, granted>>

\* A Record: the outcome it carries, and the rung and version it read.
Call(pc, ref, outcome, cur, ver, tries) ==
    [pc |-> pc, ref |-> ref, outcome |-> outcome, cur |-> cur, ver |-> ver,
     tries |-> tries]
Idle == Call("idle", NoRef, "unverified", Fresh, 0, 0)

Init ==
    /\ row = IF Legacy THEN Rung("auto", 0, 0) ELSE Fresh
    /\ version = IF Legacy THEN 1 ELSE 0
    /\ credits = {} /\ executed = {}
    /\ cache = [w \in Worker |-> NoCache]
    /\ call = [s \in Thread |-> Idle]
    /\ ratify = "idle"
    /\ seeded = Legacy
    /\ records = 0 /\ faults = 0
    /\ earned = {} /\ granted = {row.level} /\ deviant = {}

Fault == faults < MaxFaults /\ faults' = faults + 1
NoFault == UNCHANGED faults

-----------------------------------------------------------------------------
\* The trigger graduation_promotion_requires_credit.  The write is an upsert,
\* so the trigger always sees an INSERT first, with no old level.
Ungrounded(level) == Autonomous(level) /\ credits = {}

\* Mutant: the write does not look at the version.
VersionHolds_Any(ver) == TRUE

\* The WHERE of Save's upsert: no version in hand, or the row's own.  With no
\* row there is no conflict, and the insert lands.
VersionHolds(ver) == ver = 0 \/ ver = version \/ version = 0

\* A write of the row lands.
Written(new) ==
    /\ row' = new
    /\ version' = version + 1
    /\ granted' = granted \union {new.level}

\* SeedDefaults on a fresh deployment, before anything runs.
SeedDefaults ==
    /\ ~seeded
    /\ seeded' = TRUE
    /\ IF version = 0 /\ ~Ungrounded("auto_notice")
       THEN Written(Rung("auto_notice", 0, 0))
       ELSE UNCHANGED <<row, version, granted>>
    /\ UNCHANGED <<credits, executed, cache, call, ratify, records, faults,
                   earned, deviant>>

\* An action of the class ran and its execution was recorded.
Execute(ref) ==
    /\ seeded
    /\ ref \notin executed
    /\ executed' = executed \union {ref}
    /\ UNCHANGED <<rowVars, credits, cache, call, ratify, seeded, records,
                   faults, deviant>>

-----------------------------------------------------------------------------
Begin(s, ref, outcome) ==
    /\ seeded
    /\ records < MaxRecords
    /\ records' = records + 1
    /\ call' = [call EXCEPT ![s] = Call("want", ref, outcome, Fresh, 0, 0)]

\* The interceptor's deviation, an unclean end, or a deferred verdict: a
\* safety signal, recorded as often as it is fed.
FeedBreak(s, outcome) ==
    /\ call[s].pc = "idle"
    /\ outcome # "clean"
    /\ Begin(s, NoRef, outcome)
    /\ UNCHANGED <<rowVars, credits, executed, cache, ratify, seeded, faults,
                   deviant>>

\* GraduationCreditStore.Claim: an executed incident, the first time.
Claimable(ref) == ref \in executed /\ ref \notin credits

\* A clean end claims the incident's credit, and only then is recorded.  An
\* error, even of an insert that landed, drops the run.
FeedClean(s, ref) ==
    /\ call[s].pc = "idle"
    /\ Claimable(ref)
    /\ \/ /\ credits' = credits \union {ref}
          /\ Begin(s, ref, "clean")
          /\ NoFault
       \/ /\ credits' = credits \union {ref}
          /\ Fault
          /\ UNCHANGED <<call, records>>
    /\ UNCHANGED <<rowVars, executed, cache, ratify, seeded, deviant>>

\* Ladder.mu
LockFree(w) ==
    \A s \in Thread : WorkerOf(s) = w => call[s].pc \notin {"loaded", "retry"}

\* loadFreshLocked: what is there, or a fresh class if it cannot be read.
LoadFresh(s) ==
    LET c == call[s]
        w == WorkerOf(s)
        Loaded(cur, ver) ==
            /\ call' = [call EXCEPT ![s] =
                            Call("loaded", c.ref, c.outcome, cur, ver, c.tries)]
            /\ cache' = [cache EXCEPT ![w] = cur.level]
    IN
    /\ c.pc = "retry" \/ (c.pc = "want" /\ LockFree(w))
    /\ \/ Loaded(row, version) /\ NoFault
       \/ Loaded(Fresh, 0) /\ Fault
    /\ UNCHANGED <<rowVars, credits, executed, ratify, seeded, records,
                   deviant>>

CanRetry(c) == c.tries < MaxRetries

\* The rung the outcome leads to, from the rung that was read.
Decided(s) == applyOutcome(call[s].cur, call[s].outcome)

\* The histories of a write of the row.
Remembered(s) ==
    earned' = IF call[s].outcome # "clean" \/ Promotes(row, row') THEN {}
              ELSE earned \union {call[s].ref}

\* The call returns, and the process serves this level.
Return(s, level) ==
    /\ call' = [call EXCEPT ![s] = Idle]
    /\ cache' = [cache EXCEPT ![WorkerOf(s)] = level]
    /\ deviant' = IF call[s].outcome = "deviated"
                  THEN deviant \union {WorkerOf(s)}
                  ELSE IF Promotes(row, row') THEN {} ELSE deviant

\* Record's save lands.
SaveLands(s) ==
    /\ call[s].pc = "loaded"
    /\ ~Ungrounded(Decided(s).level)
    /\ VersionHolds(call[s].ver)
    /\ Written(Decided(s))
    /\ Remembered(s)
    /\ Return(s, Decided(s).level)
    /\ UNCHANGED <<credits, executed, ratify, seeded, records, faults>>

\* A sibling moved the row: read again and decide again.
SaveLost(s) ==
    LET c == call[s] IN
    /\ c.pc = "loaded"
    /\ ~Ungrounded(Decided(s).level)
    /\ ~VersionHolds(c.ver)
    /\ CanRetry(c)
    /\ call' = [call EXCEPT ![s] =
                    Call("retry", c.ref, c.outcome, Fresh, 0, c.tries + 1)]
    /\ cache' = [cache EXCEPT ![WorkerOf(s)] = NoCache]
    /\ UNCHANGED <<rowVars, credits, executed, ratify, seeded, records, faults,
                   deviant>>

\* Mutant: an unpersisted promotion is served.
ServedOnError_Next(cur, new) == new.level

\* The level a process serves after a save that failed: never a promotion.
ServedOnError(cur, new) == IF Promotes(cur, new) THEN cur.level ELSE new.level

\* The save fails: refused by the trigger, out of retries, or the store's
\* error, of a write that may have landed.
SaveFails(s) ==
    LET c == call[s] IN
    /\ c.pc = "loaded"
    /\ \/ /\ \/ Ungrounded(Decided(s).level)
             \/ ~VersionHolds(c.ver) /\ ~CanRetry(c)
          /\ NoFault
          /\ UNCHANGED rowVars
       \/ /\ Fault
          /\ UNCHANGED rowVars
       \/ /\ Fault
          /\ ~Ungrounded(Decided(s).level)
          /\ VersionHolds(c.ver)
          /\ Written(Decided(s))
          /\ Remembered(s)
    /\ Return(s, ServedOnError(c.cur, Decided(s)))
    /\ UNCHANGED <<credits, executed, ratify, seeded, records>>

-----------------------------------------------------------------------------
\* GraduatedVerdict's first touch of the class fills the cache.
FirstTouch(w) ==
    /\ cache[w] = NoCache
    /\ LockFree(w)
    /\ \/ cache' = [cache EXCEPT ![w] = row.level] /\ NoFault
       \/ cache' = [cache EXCEPT ![w] = "approve"] /\ Fault
    /\ UNCHANGED <<rowVars, credits, executed, call, ratify, seeded, records,
                   deviant>>

\* Mutant: the refresh does not evict.
Forget_Kept(w) == UNCHANGED vars

\* Forget, when the overlay is refreshed.
Forget(w) ==
    /\ ~Embedded
    /\ LockFree(w)
    /\ cache[w] # NoCache
    /\ cache' = [cache EXCEPT ![w] = NoCache]
    /\ UNCHANGED <<rowVars, credits, executed, call, ratify, seeded, records,
                   faults, deviant>>

\* The ratify verb finds trust under the name it grants ...
RatifyRead ==
    /\ ~Embedded
    /\ ratify = "idle"
    /\ version # 0 /\ row # Fresh
    /\ ratify' = "reset"
    /\ UNCHANGED <<rowVars, credits, executed, cache, call, seeded, records,
                   faults, deviant>>

\* ... and resets it, whatever was written meanwhile.
RatifyReset ==
    /\ ratify = "reset"
    /\ ratify' = "idle"
    /\ \/ Written(Fresh) /\ earned' = {} /\ NoFault
       \/ UNCHANGED rowVars /\ Fault
    /\ UNCHANGED <<credits, executed, cache, call, seeded, records, deviant>>

\* The operator's demote verb: an unconditional write of the class it read.
\* It leaves the caches alone.
Demote ==
    /\ version # 0
    /\ records < MaxRecords
    /\ records' = records + 1
    /\ Written(Fresh) /\ earned' = {}
    /\ UNCHANGED <<credits, executed, cache, call, ratify, seeded, faults,
                   deviant>>

\* A process stops and starts again, with nothing cached.
Crash(w) ==
    /\ \E s \in Thread : WorkerOf(s) = w /\ call[s].pc # "idle"
    /\ Fault
    /\ call' = [s \in Thread |-> IF WorkerOf(s) = w THEN Idle ELSE call[s]]
    /\ cache' = [cache EXCEPT ![w] = NoCache]
    /\ deviant' = deviant \ {w}
    /\ UNCHANGED <<rowVars, credits, executed, ratify, seeded, records>>

Step(s) ==
    \/ \E outcome \in Outcome : FeedBreak(s, outcome)
    \/ \E ref \in Ref : FeedClean(s, ref)
    \/ LoadFresh(s) \/ SaveLands(s) \/ SaveLost(s) \/ SaveFails(s)

Next ==
    \/ SeedDefaults
    \/ \E ref \in Ref : Execute(ref)
    \/ \E s \in Thread : Step(s)
    \/ \E w \in Worker : FirstTouch(w) \/ Forget(w) \/ Crash(w)
    \/ RatifyRead \/ RatifyReset \/ Demote

Spec == Init /\ [][Next]_vars

\* A Record runs to its end, and the overlay is refreshed over and over.
\* Nobody has to run an action, read a class or demote one.
FairSpec ==
    /\ Spec
    /\ \A w \in Worker : WF_vars(Forget(w))
    /\ \A s \in Thread :
        WF_vars(LoadFresh(s) \/ SaveLands(s) \/ SaveLost(s) \/ SaveFails(s))

-----------------------------------------------------------------------------
RungType == [level : Level, clean : Nat, notice : Nat]

\* What the row, the credits and a Record may hold; only executed incidents
\* are credited, and only credited ones count (GraduationCreditStore.Claim).
TypeOK ==
    /\ row \in RungType /\ version \in Nat
    /\ (version = 0) => row = Fresh
    /\ credits \subseteq executed /\ executed \subseteq Ref
    /\ cache \in [Worker -> Level \union {NoCache}]
    /\ call \in [Thread ->
            [pc : {"idle", "want", "loaded", "retry"}, ref : Ref \union {NoRef},
             outcome : Outcome, cur : RungType, ver : Nat, tries : 0..MaxRetries]]
    /\ ratify \in {"idle", "reset"} /\ seeded \in BOOLEAN
    /\ records \in 0..MaxRecords /\ faults \in 0..MaxFaults
    /\ earned \subseteq credits /\ granted \subseteq Level
    /\ deviant \subseteq Worker

Bar(level) == IF level = "auto_notice" THEN PromoteThreshold ELSE NoticeThreshold

\* The durable level rises only on the evidence of as many clean runs as the
\* rung costs, each of another incident, each executed, none fed twice, and
\* no deviation, unclean run or reset written since - whatever the processes
\* had cached or read before, and whichever saves failed or were lost.
PromotionEarned ==
    [][Promotes(row, row') =>
        \E s \in Thread :
            LET evidence == earned \union {call[s].ref} IN
            /\ call[s].pc = "loaded" /\ call[s].outcome = "clean"
            /\ evidence \subseteq executed
            /\ Cardinality(evidence) >= Bar(row'.level)]_vars

\* The processes' concurrent Records are the runs of one ladder.
Serial == INSTANCE SerialLadder WITH rung <- row
IsSerialLadder == Serial!Spec

\* No process serves a level the row never held: a promotion that was not
\* persisted is not honoured (ErrPromotionNotPersisted).
ServedWasGranted ==
    \A w \in Worker : cache[w] \in granted \union {"approve", NoCache}

\* A process that saw a deviation does not serve autonomy to the class until
\* the class has earned it again.
DeviationDrops ==
    \A w \in deviant : LockFree(w) => ~Autonomous(cache[w])

\* A class that stays demoted in the store, by a sibling's run or by an
\* operator, ends up demoted in every process: the staleness of stateLocked's
\* cache is "bounded".
StalenessEnds ==
    \A w \in Worker :
        <>[](~Autonomous(row.level)) => <>[](~Autonomous(cache[w]))

\* "Save() rewrites the whole row on every counter update", and a same-level
\* rewrite is "always allowed".
SameLevelAllowed ==
    \A s \in Thread :
        (/\ call[s].pc = "loaded" /\ version # 0
         /\ Decided(s).level = row.level)
            => ~Ungrounded(Decided(s).level)

\* A fresh deployment's curated class "MAY act without a vote".
SeededMayAct == seeded /\ records = 0 /\ ~Legacy => Autonomous(row.level)
=============================================================================
