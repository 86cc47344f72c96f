--------------------------- MODULE TargetAdmission ---------------------------
(***************************************************************************)
(* Who may act on a target now: gates 4h and 4h2 of the actuation chain.   *)
(* Gate 4h is a limiter in each process: a cap on the actuations in flight *)
(* and on those admitted in a trailing window, per session and per target  *)
(* (core/actuate/limiter.go).  Gate 4h2 is a row per target in a table all *)
(* processes share: a claim with a time to live and a cooldown             *)
(* (core/db/actuation_target_state.go).  An actuation holds the limiter's  *)
(* lease and then the claim, acts, and gives both back in reverse order    *)
(* (core/actuate/interceptor.go).                                          *)
(*                                                                         *)
(* Times are kept as ages, which stop counting once past the bound they    *)
(* are compared with.  A slot is a place where a process runs one          *)
(* actuation; the activity's deadline ends an actuation within MaxHold of  *)
(* its start.  The store may fail, or commit and still report an error; a  *)
(* release that fails, or runs after its context is done, is lost.         *)
(***************************************************************************)
EXTENDS Naturals, FiniteSets

CONSTANTS
    Slot, Worker,
    WorkerOf(_),        \* the process of a slot
    Session,            \* external refs
    Target,             \* targets as the actions spell them
    Host(_),            \* scopeKey: a target in lower case
    Window,             \* ActuationLimits
    SessionPerWindow, TargetPerWindow, SessionInFlight, TargetInFlight,
    ClaimTTL, Cooldown, \* ActuationTargetStore
    MaxHold             \* StartToCloseTimeout of the execute activity

NoRef == "none"

ASSUME LimitsAssumption ==
    /\ IsFiniteSet(Slot)
    /\ NoRef \notin Session
    /\ \A s \in Slot : WorkerOf(s) \in Worker
    /\ Window \in Nat \ {0}
    /\ SessionPerWindow \in Nat \ {0} /\ TargetPerWindow \in Nat \ {0}
    /\ SessionInFlight \in Nat \ {0} /\ TargetInFlight \in Nat \ {0}
    /\ ClaimTTL \in Nat /\ Cooldown \in Nat /\ MaxHold \in Nat

\* 2 minutes, 2 minutes and 10 minutes; the window is 10 minutes.
ASSUME TimelyAssumption == MaxHold + Cooldown <= ClaimTTL /\ MaxHold < Window

VARIABLES
    row,        \* actuation_target_state: claimed_by, ages of claim and cooldown
    admitted,   \* ActuationLimiter.admitted per process and key
    inFlight,   \* ActuationLimiter.inFlight per process and key
    slot,       \* the actuation of each slot
    turn,       \* per process: admissions in this instant, to tell them apart
    charged,    \* history: the turn in which a slot's actuation was admitted
    fired,      \* history: the effects of a process since it started, per key
    quiet       \* history: age of the last disturbed end of an effect

vars == <<row, admitted, inFlight, slot, turn, charged, fired, quiet>>
history == <<turn, charged, fired, quiet>>

Key == {<<"session", x>> : x \in Session} \union
       {<<"target", Host(t)>> : t \in Target}

Attempt(pc, ses, tgt, hold) ==
    [pc |-> pc, session |-> ses, target |-> tgt, hold |-> hold]
Claims(by, age, cool) == [by |-> by, age |-> age, cool |-> cool]
Idle == Attempt("idle", NoRef, NoRef, 0)
Admission(age, nth) == [age |-> age, nth |-> nth]
Effect(age, adm) == [age |-> age, adm |-> adm]

\* The limiter's keys of an actuation.
KeysOf(a) == {<<"session", a.session>>, <<"target", Host(a.target)>>}

Init ==
    /\ row = [t \in Target |-> Claims(NoRef, 0, Cooldown + 1)]
    /\ admitted = [w \in Worker |-> [k \in Key |-> {}]]
    /\ inFlight = [w \in Worker |-> [k \in Key |-> 0]]
    /\ slot = [s \in Slot |-> Idle]
    /\ turn = [w \in Worker |-> 0]
    /\ charged = [s \in Slot |-> 0]
    /\ fired = [w \in Worker |-> [k \in Key |-> {}]]
    /\ quiet = [t \in Target |-> Cooldown + 1]

Holding(s) == slot[s].pc \in {"claimed", "effect", "release", "disturbed"}
Running(s) == slot[s].pc = "leased" \/ Holding(s)
Move(s, pc) ==
    slot' = [slot EXCEPT ![s] = Attempt(pc, @.session, @.target, @.hold)]
Older(age, bound) == IF age < bound THEN age + 1 ELSE bound

-----------------------------------------------------------------------------
\* Mutant: the events of the current instant are dropped too.
pruneAtOrBefore_Early(adms) == {x \in adms : x.age + 1 < Window}

\* The admissions inside the trailing window.
pruneAtOrBefore(adms) == {x \in adms : x.age < Window}

InFlightCap(k) == IF k[1] = "session" THEN SessionInFlight ELSE TargetInFlight
RateLimit(k) == IF k[1] = "session" THEN SessionPerWindow ELSE TargetPerWindow

\* ActuationLimiter.Admit.  A refusal records nothing and ends the actuation.
LimiterAdmit(s, ses, tgt) ==
    LET w == WorkerOf(s)
        a == Attempt("leased", ses, tgt, 0)
    IN
    /\ slot[s].pc = "idle"
    /\ \A k \in KeysOf(a) :
        /\ inFlight[w][k] < InFlightCap(k)
        /\ Cardinality(pruneAtOrBefore(admitted[w][k])) < RateLimit(k)
    /\ admitted' = [admitted EXCEPT ![w] = [k \in Key |->
            IF k \in KeysOf(a)
            THEN pruneAtOrBefore(@[k]) \union {Admission(0, turn[w])}
            ELSE @[k]]]
    /\ inFlight' = [inFlight EXCEPT ![w] = [k \in Key |->
            IF k \in KeysOf(a) THEN @[k] + 1 ELSE @[k]]]
    /\ slot' = [slot EXCEPT ![s] = a]
    /\ turn' = [turn EXCEPT ![w] = @ + 1]
    /\ charged' = [charged EXCEPT ![s] = turn[w]]
    /\ UNCHANGED <<row, fired, quiet>>

\* Mutant: the lease returns the session's slot and keeps the target's.
LeaseKeys_Session(a) == {<<"session", a.session>>}

\* The keys a lease gives back.
LeaseKeys(a) == KeysOf(a)

\* ActuationLease.Release: the slots come back, the rate budget does not.
LeaseRelease(s) ==
    LET w == WorkerOf(s) IN
    /\ slot[s].pc = "unlease"
    /\ inFlight' = [inFlight EXCEPT ![w] = [k \in Key |->
            IF k \in LeaseKeys(slot[s]) /\ @[k] > 0 THEN @[k] - 1 ELSE @[k]]]
    /\ slot' = [slot EXCEPT ![s] = Idle]
    /\ charged' = [charged EXCEPT ![s] = 0]
    /\ UNCHANGED <<row, admitted, turn, fired, quiet>>

-----------------------------------------------------------------------------
\* Mutant: a claim never expires.
Claimable_NoTTL(r) == r.by = NoRef /\ r.cool > Cooldown

\* Mutant: a claim of another session does not refuse.
Claimable_Shared(r) == r.cool > Cooldown

\* Mutant: the cooldown is not looked at.
Claimable_Hot(r) == r.by = NoRef \/ r.age > ClaimTTL

\* The condition of Admit's upsert: no live claim and no live cooldown.
Claimable(r) ==
    /\ r.by = NoRef \/ r.age > ClaimTTL
    /\ r.cool > Cooldown

Claimed(t, ses) == [row EXCEPT ![t] = Claims(ses, 0, @.cool)]

\* ActuationTargetStore.Admit.  A refusal, or an error of a store that may
\* have committed, ends the actuation.
Claim(s) ==
    LET t == slot[s].target IN
    /\ slot[s].pc = "leased"
    /\ \/ /\ Claimable(row[t])
          /\ row' = Claimed(t, slot[s].session)
          /\ Move(s, "claimed")
       \/ /\ row' = row \/ (Claimable(row[t])
                            /\ row' = Claimed(t, slot[s].session))
          /\ Move(s, "unlease")
    /\ UNCHANGED <<admitted, inFlight, history>>

\* A gate between the claim and the effect refuses: reachability, baseline,
\* necessity.
RefuseClaimed(s) ==
    /\ slot[s].pc = "claimed"
    /\ Move(s, "release")
    /\ UNCHANGED <<row, admitted, inFlight, history>>

\* The admission under which slot s acts.
AdmissionOf(s) == Admission(slot[s].hold, charged[s])

\* The effect fires.
Exec(s) ==
    /\ slot[s].pc = "claimed"
    /\ Move(s, "effect")
    /\ fired' = [fired EXCEPT ![WorkerOf(s)] = [k \in Key |->
            IF k \in KeysOf(slot[s])
            THEN @[k] \union {Effect(0, AdmissionOf(s))} ELSE @[k]]]
    /\ UNCHANGED <<row, admitted, inFlight, turn, charged, quiet>>

\* The effect completed (or changed nothing).
ExecDone(s) ==
    /\ slot[s].pc = "effect"
    /\ Move(s, "release")
    /\ UNCHANGED <<row, admitted, inFlight, history>>

\* The effect failed: the release stamps the cooldown.
ExecFailed(s) ==
    /\ slot[s].pc = "effect"
    /\ Move(s, "disturbed")
    /\ quiet' = [quiet EXCEPT ![slot[s].target] = 0]
    /\ UNCHANGED <<row, admitted, inFlight, turn, charged, fired>>

\* The context is done, by the deadline or by cancellation: an effect in
\* progress is killed, and the release, under the same context, is lost.
Cancel(s) ==
    /\ Running(s)
    /\ Move(s, "unlease")
    /\ quiet' = IF slot[s].pc = "effect"
                THEN [quiet EXCEPT ![slot[s].target] = 0] ELSE quiet
    /\ UNCHANGED <<row, admitted, inFlight, turn, charged, fired>>

\* ActuationTargetStore.Release: it lands, or is lost.
ClaimRelease(s) ==
    LET t == slot[s].target IN
    /\ slot[s].pc \in {"release", "disturbed"}
    /\ \/ row' = row
       \/ /\ row[t].by = slot[s].session
          /\ row' = [row EXCEPT ![t] =
                Claims(NoRef, 0,
                       IF slot[s].pc = "disturbed" THEN 0 ELSE @.cool)]
    /\ Move(s, "unlease")
    /\ UNCHANGED <<admitted, inFlight, history>>

\* A process stops and starts again with an empty limiter.
Crash(w) ==
    /\ \E s \in Slot : WorkerOf(s) = w /\ slot[s].pc # "idle"
    /\ slot' = [s \in Slot |-> IF WorkerOf(s) = w THEN Idle ELSE slot[s]]
    /\ admitted' = [admitted EXCEPT ![w] = [k \in Key |-> {}]]
    /\ inFlight' = [inFlight EXCEPT ![w] = [k \in Key |-> 0]]
    /\ quiet' = [t \in Target |->
            IF \E s \in Slot : WorkerOf(s) = w /\ slot[s].pc = "effect"
                               /\ slot[s].target = t
            THEN 0 ELSE quiet[t]]
    /\ fired' = [fired EXCEPT ![w] = [k \in Key |-> {}]]
    /\ charged' = [s \in Slot |-> IF WorkerOf(s) = w THEN 0 ELSE charged[s]]
    /\ turn' = [turn EXCEPT ![w] = 0]
    /\ UNCHANGED row

\* The activity's deadline has come.
DeadlineDue(s) == Running(s) /\ slot[s].hold = MaxHold

Aged(adm) == Admission(Older(adm.age, Window), adm.nth)

\* Time passes, unless an actuation has reached its deadline.
Tick ==
    /\ \A s \in Slot : ~DeadlineDue(s)
    /\ row' = [t \in Target |->
            Claims(row[t].by,
                   IF row[t].by = NoRef THEN 0
                   ELSE Older(row[t].age, ClaimTTL + 1),
                   Older(row[t].cool, Cooldown + 1))]
    /\ admitted' = [w \in Worker |-> [k \in Key |->
            {Aged(x) : x \in admitted[w][k]}]]
    /\ turn' = [w \in Worker |-> 0]
    /\ slot' = [s \in Slot |-> IF Running(s)
            THEN Attempt(slot[s].pc, slot[s].session, slot[s].target,
                         slot[s].hold + 1)
            ELSE slot[s]]
    /\ fired' = [w \in Worker |-> [k \in Key |->
            {Effect(x.age + 1, Aged(x.adm)) :
                x \in {y \in fired[w][k] : y.age + 1 + MaxHold < Window}}]]
    /\ quiet' = [t \in Target |-> Older(quiet[t], Cooldown + 1)]
    /\ UNCHANGED <<inFlight, charged>>

Step(s) ==
    \/ Claim(s) \/ RefuseClaimed(s) \/ Exec(s) \/ ExecDone(s) \/ ExecFailed(s)
    \/ Cancel(s) \/ ClaimRelease(s) \/ LeaseRelease(s)

Next ==
    \/ \E s \in Slot :
        \/ \E ses \in Session, tgt \in Target : LimiterAdmit(s, ses, tgt)
        \/ Step(s)
    \/ \E w \in Worker : Crash(w)
    \/ Tick

Spec == Init /\ [][Next]_vars

\* Running actuations go on and time passes; nothing must start.
FairSpec == Spec /\ WF_vars(Tick) /\ \A s \in Slot : WF_vars(Step(s))

-----------------------------------------------------------------------------
\* What the claims, the limiters and the actuations may hold; no actuation
\* outlives the deadline of its activity.
TypeOK ==
    /\ row \in [Target -> [by : Session \union {NoRef}, age : 0..ClaimTTL + 1,
                           cool : 0..Cooldown + 1]]
    /\ slot \in [Slot ->
            [pc : {"idle", "leased", "claimed", "effect", "release",
                   "disturbed", "unlease"},
             session : Session \union {NoRef}, target : Target \union {NoRef},
             hold : 0..MaxHold]]
    /\ \A s \in Slot : slot[s].pc # "idle"
            => slot[s].session \in Session /\ slot[s].target \in Target
    /\ inFlight \in [Worker -> [Key -> Nat]]
    /\ \A w \in Worker, k \in Key :
        \A x \in admitted[w][k] : x.age \in 0..Window
    /\ quiet \in [Target -> 0..Cooldown + 1]

\* An actuation between its claim and its release has the row of its target:
\* the claim cannot expire under it.
HolderOwnsRow ==
    \A s \in Slot : Holding(s) =>
        /\ row[slot[s].target].by = slot[s].session
        /\ row[slot[s].target].age <= slot[s].hold

\* No two actuations hold one target, in one process or in two, whatever
\* crashed, expired or was lost: no two effects run on it.
EffectExclusive ==
    \A s1, s2 \in Slot :
        Holding(s1) /\ Holding(s2) /\ slot[s1].target = slot[s2].target
            => s1 = s2

\* After an effect was disturbed - it failed, was cancelled, or its process
\* died - no effect starts on the target for the length of the cooldown,
\* whether or not the release that stamps the cooldown was lost.
DisturbedParks ==
    [][\A s \in Slot : slot[s].pc # "effect" /\ slot'[s].pc = "effect"
            => quiet[slot[s].target] > Cooldown]_vars

\* The actuations of process w that hold a lease on key k.
Leased(w, k) ==
    {s \in Slot : WorkerOf(s) = w /\ slot[s].pc # "idle" /\ k \in KeysOf(slot[s])}

\* The in-flight count of every session and target is the number of
\* actuations of the process that hold a lease on it: no path leaks a place,
\* and none is given back twice.
LeaseExact ==
    \A w \in Worker, k \in Key :
        inFlight[w][k] = Cardinality(Leased(w, k))

\* A process lets no more effects happen to a session or a target than its
\* limit ("the fleet-wide cap is (workers x cap)").  The budget is charged when
\* an actuation is admitted and its effect comes up to MaxHold later, so it is
\* any Window - MaxHold that sees no more effects than that, and a process that
\* restarts begins with an empty window.
WindowCap ==
    \A w \in Worker, k \in Key : Cardinality(fired[w][k]) <= RateLimit(k)

\* What WindowCap rests on: every effect in the window is charged to an
\* admission of its own that the limiter still counts, and an actuation on its
\* way to the effect has one that is not used.
Charging(s) == slot[s].pc \in {"leased", "claimed"}
ChargedTo(s, w, k) == Charging(s) /\ WorkerOf(s) = w /\ k \in KeysOf(slot[s])

Account(w, k) ==
    /\ IsFiniteSet(admitted[w][k])
    /\ Cardinality(pruneAtOrBefore(admitted[w][k])) <= RateLimit(k)
    /\ \A x \in admitted[w][k] : x.age = 0 => x.nth < turn[w]
    /\ \A x \in fired[w][k] :
        /\ x.adm \in admitted[w][k]
        /\ x.adm.age <= x.age + MaxHold /\ x.age + MaxHold < Window
        /\ \A y \in fired[w][k] : x.adm = y.adm => x = y
    /\ \A s \in Slot : ChargedTo(s, w, k) =>
        /\ AdmissionOf(s) \in admitted[w][k]
        /\ \A x \in fired[w][k] : x.adm # AdmissionOf(s)

OwnAdmission ==
    \A s1, s2 \in Slot :
        (/\ Charging(s1) /\ Charging(s2) /\ WorkerOf(s1) = WorkerOf(s2)
         /\ AdmissionOf(s1) = AdmissionOf(s2)) => s1 = s2

BudgetInv == OwnAdmission /\ \A w \in Worker, k \in Key : Account(w, k)

\* No target stays closed: a claim left behind by a crash or by a lost
\* release expires, and a cooldown ends.
NeverWedged == \A t \in Target : []<>Claimable(row[t])

\* "one actuation in flight per target across every actuation-capable
\* process", of the host an action means.
OneEffectPerHost ==
    \A s1, s2 \in Slot :
        (/\ slot[s1].pc = "effect" /\ slot[s2].pc = "effect"
         /\ Host(slot[s1].target) = Host(slot[s2].target))
            => s1 = s2
==============================================================================
