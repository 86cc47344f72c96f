---------------------------- MODULE ModeControl ----------------------------
(***************************************************************************)
(* The autonomy mode of territory-grounder: one durable row (policy_mode)  *)
(* and one ModeController per worker process caching it                    *)
(* (core/policy/mode.go, core/db/policy_mode_store.go).  A controller      *)
(* changes by an operator's Transition, by the boot-time seed, by a safety *)
(* kill (ForceShadow) and by the 10 s Resync ticker.  Whatever the code    *)
(* does outside the controller's mutex, or across the database, is a step  *)
(* of its own here.                                                        *)
(*                                                                         *)
(* Every database write may succeed, fail, or land and still report an     *)
(* error (a deadline that expires after the commit); a process may crash   *)
(* between any two steps.                                                  *)
(***************************************************************************)
EXTENDS Naturals

CONSTANTS
    Process,      \* worker processes (triage plane, actuation plane)
    Runner,       \* the processes that serve operator mode transitions
    Halter,       \* the processes in which a safety kill may be raised
    Proven,       \* the processes whose boot preflight proved green
    Killer,       \* goroutines of a process that may call ForceShadow
    Target,       \* modes an operator asks for
    Configured,   \* the deploy-time TG_INITIAL_MODE
    MaxClock,     \* bound on kills and mode decisions
    MaxFaults     \* bound on store errors and crashes

Shadow == "Shadow"
Mode == {Shadow, "HITL", "Semi-auto", "Full-auto"}
Absent == "absent"    \* no policy_mode row was ever written

\* Mode.MayAutoActuate
MayAutoActuate(m) == m \in {"Semi-auto", "Full-auto"}

ASSUME ModeAssumption ==
    /\ Runner \subseteq Process
    /\ Halter \subseteq Process
    /\ Proven \subseteq Process
    /\ Target \subseteq Mode
    /\ Configured \in Mode
    /\ MaxClock \in Nat
    /\ MaxFaults \in Nat

VARIABLES
    row,       \* the durable row: mode, and two stamps for the properties:
               \* dec, when its decision was taken, and at, when it was saved
    up,        \* the running processes
    current,   \* ModeController.current
    gen,       \* ModeController.gen
    latched,   \* the processes with ModeController.killLatched set
    kill,      \* per goroutine: progress of a ForceShadow call
    resync,    \* progress of the Resync call of the ticker goroutine
    op,        \* the boot seed, then the operator Transition, of a process
    clock,     \* stamps kills and decisions in the order they happen
    faults,    \* store errors and crashes so far
    ledger,    \* stamps of the mode decisions recorded in the audit ledger
    origin,    \* the saved row the cached mode was taken from
    killAt,    \* stamp of the last kill of the process
    rebooted   \* the processes restarted since their last kill

vars == <<row, up, current, gen, latched, kill, resync, op, clock,
          faults, ledger, origin, killAt, rebooted>>

Row == [mode : Mode \union {Absent}, dec : Nat, at : Nat]

NoRow == [mode |-> Absent, dec |-> 0, at |-> 0]
Idle == "idle"
KillAt(pc, g) == [pc |-> pc, myGen |-> g]
ResyncAt(pc, g, r) == [pc |-> pc, gen |-> g, stored |-> r]
OpAt(pc, from, to, d) == [pc |-> pc, from |-> from, to |-> to, dec |-> d]
NoKill == KillAt(Idle, 0)
NoResync == ResyncAt(Idle, 0, NoRow)
NoOp == OpAt(Idle, Shadow, Shadow, 0)

\* What the row and a controller may hold; a controller always serves a mode
\* (resolveFromStore).  "held": a Transition or seed past its gates, still holding the write lock
TypeOK ==
    /\ row \in Row
    /\ up \subseteq Process
    /\ current \in [Process -> Mode]
    /\ gen \in [Process -> Nat]
    /\ latched \subseteq Process
    /\ kill \in [Process -> [Killer ->
                    [pc : {Idle, "saving", "saved"}, myGen : Nat]]]
    /\ resync \in [Process ->
                    [pc : {Idle, "persisted", "snapped", "loaded"},
                     gen : Nat, stored : Row]]
    /\ op \in [Process ->
                    [pc : {"boot", Idle, "requested", "held", "seeding"},
                     from : Mode, to : Mode, dec : Nat]]
    /\ clock \in Nat
    /\ faults \in Nat
    /\ ledger \in SUBSET Nat
    /\ origin \in [Process -> Row]
    /\ killAt \in [Process -> Nat]
    /\ rebooted \subseteq Process

-----------------------------------------------------------------------------
\* The controller's mutex is free: no Transition or seed is between its gates
\* and its activation.
LockFree(p) == op[p].pc \notin {"held", "seeding"}

\* The Temporal worker of p is serving: boot, seed included, is over.
Serving(p) == p \in up /\ op[p].pc # "boot"

Fault == faults < MaxFaults /\ faults' = faults + 1
NoFault == UNCHANGED faults

\* Save of mode m decided at stamp d, with the outcome the caller sees.
\* "lost" lands and still reports an error.
SaveMode(m, d, outcome) ==
    \/ /\ outcome = "ok"
       /\ row' = [mode |-> m, dec |-> d, at |-> clock']
       /\ NoFault
    \/ /\ outcome = "failed"
       /\ UNCHANGED row
       /\ Fault
    \/ /\ outcome = "lost"
       /\ row' = [mode |-> m, dec |-> d, at |-> clock']
       /\ Fault

Outcome == {"ok", "failed", "lost"}

Init ==
    /\ row = NoRow
    /\ up = {}
    /\ current = [p \in Process |-> Shadow]
    /\ gen = [p \in Process |-> 0]
    /\ latched = {}
    /\ kill = [p \in Process |-> [k \in Killer |-> NoKill]]
    /\ resync = [p \in Process |-> NoResync]
    /\ op = [p \in Process |-> NoOp]
    /\ clock = 0
    /\ faults = 0
    /\ ledger = {}
    /\ origin = [p \in Process |-> NoRow]
    /\ killAt = [p \in Process |-> 0]
    /\ rebooted = Process

-----------------------------------------------------------------------------
\* resolveFromStore: an absent row fails closed to Shadow.
Resolved == IF row.mode = Absent THEN Shadow ELSE row.mode

\* NewModeController: the stored mode, or Shadow when it cannot be read.
Boot(p) ==
    /\ p \notin up
    /\ up' = up \union {p}
    /\ \/ /\ current' = [current EXCEPT ![p] = Resolved]
          /\ NoFault
       \/ /\ current' = [current EXCEPT ![p] = Shadow]
          /\ Fault
    /\ origin' = [origin EXCEPT ![p] = row]
    /\ op' = [op EXCEPT ![p] = OpAt("boot", Shadow, Shadow, 0)]
    /\ UNCHANGED <<row, gen, latched, kill, resync, clock, ledger, killAt,
                   rebooted>>

\* The process dies; its memory and whatever it was doing are gone.
Crash(p) ==
    /\ p \in up
    /\ Fault
    /\ up' = up \ {p}
    /\ current' = [current EXCEPT ![p] = Shadow]
    /\ gen' = [gen EXCEPT ![p] = 0]
    /\ latched' = latched \ {p}
    /\ kill' = [kill EXCEPT ![p] = [k \in Killer |-> NoKill]]
    /\ resync' = [resync EXCEPT ![p] = NoResync]
    /\ op' = [op EXCEPT ![p] = NoOp]
    /\ origin' = [origin EXCEPT ![p] = NoRow]
    /\ rebooted' = rebooted \union {p}
    /\ UNCHANGED <<row, clock, ledger, killAt>>

\* Mutant: the decision is not recorded.
Recorded_Never(d) == ledger

\* The mode-transition or mode-seed record, appended before the Save.
Recorded(d) == ledger \union {d}

\* SeedInitialMode, to its ledger append under the lock: only over an absent
\* row, only into a mode other than Shadow, and into an actuating one only
\* under a green preflight.
SeedCheck(p) ==
    /\ p \in up /\ op[p].pc = "boot"
    /\ row.mode = Absent
    /\ Configured # Shadow
    /\ MayAutoActuate(Configured) => p \in Proven
    /\ clock < MaxClock
    /\ clock' = clock + 1
    /\ ledger' = Recorded(clock + 1)
    /\ op' = [op EXCEPT ![p] = OpAt("seeding", Shadow, Configured,
                                     clock + 1)]
    /\ UNCHANGED <<row, up, current, gen, latched, kill, resync,
                   faults, origin, killAt, rebooted>>

\* SeedInitialMode ends without a seed: a row exists, or a gate refused.
SeedSkip(p) ==
    /\ p \in up /\ op[p].pc = "boot"
    /\ op' = [op EXCEPT ![p] = NoOp]
    /\ UNCHANGED <<row, up, current, gen, latched, kill, resync, clock,
                   faults, ledger, origin, killAt, rebooted>>

\* Transition reads its compare-and-swap `from` before it takes the lock.
TransitionRequest(p, to) ==
    /\ p \in Runner /\ Serving(p) /\ op[p].pc = Idle
    /\ op' = [op EXCEPT ![p] = OpAt("requested", current[p], to, 0)]
    /\ UNCHANGED <<row, up, current, gen, latched, kill, resync, clock,
                   faults, ledger, origin, killAt, rebooted>>

\* Transition under the lock, to its ledger append.
TransitionAudit(p) ==
    /\ op[p].pc = "requested"
    /\ current[p] = op[p].from
    /\ MayAutoActuate(op[p].to) => p \in Proven
    /\ clock < MaxClock
    /\ clock' = clock + 1
    /\ ledger' = Recorded(clock + 1)
    /\ op' = [op EXCEPT ![p] = OpAt("held", @.from, @.to, clock + 1)]
    /\ UNCHANGED <<row, up, current, gen, latched, kill, resync,
                   faults, origin, killAt, rebooted>>

\* Transition refused: stale `from`, red preflight, failed authority check or
\* failed ledger append.  The mode is unchanged.
TransitionRefuse(p) ==
    /\ op[p].pc = "requested"
    /\ op' = [op EXCEPT ![p] = NoOp]
    /\ UNCHANGED <<row, up, current, gen, latched, kill, resync, clock,
                   faults, ledger, origin, killAt, rebooted>>

\* The Save that ends a Transition or a seed, and the activation after it.
\* Only a Transition releases the kill latch.
Activate(p, outcome) ==
    /\ op[p].pc \in {"held", "seeding"}
    /\ clock' = clock + 1
    /\ SaveMode(op[p].to, op[p].dec, outcome)
    /\ IF outcome = "ok"
       THEN /\ current' = [current EXCEPT ![p] = op[p].to]
            /\ origin' = [origin EXCEPT ![p] = row']
            /\ gen' = [gen EXCEPT ![p] = @ + 1]
            /\ latched' = IF op[p].pc = "held" THEN latched \ {p} ELSE latched
       ELSE UNCHANGED <<current, origin, gen, latched>>
    /\ op' = [op EXCEPT ![p] = NoOp]
    /\ UNCHANGED <<up, kill, resync, ledger, killAt, rebooted>>

-----------------------------------------------------------------------------
\* ForceShadow under the lock: Shadow in memory first, the latch set until
\* the kill is on record.
ForceShadow(p, k) ==
    /\ p \in Halter /\ Serving(p) /\ LockFree(p)
    /\ kill[p][k].pc = Idle
    /\ clock < MaxClock
    /\ clock' = clock + 1
    /\ killAt' = [killAt EXCEPT ![p] = clock + 1]
    /\ rebooted' = rebooted \ {p}
    /\ current' = [current EXCEPT ![p] = Shadow]
    /\ gen' = [gen EXCEPT ![p] = @ + 1]
    /\ latched' = latched \union {p}
    /\ kill' = [kill EXCEPT ![p][k] = KillAt("saving", gen[p] + 1)]
    /\ UNCHANGED <<row, up, resync, op, faults, ledger, origin>>

\* ForceShadow's best-effort persist, outside the lock.
ForceShadowSave(p, k, outcome) ==
    /\ kill[p][k].pc = "saving"
    /\ UNCHANGED clock
    /\ SaveMode(Shadow, killAt[p], outcome)
    /\ kill' = [kill EXCEPT ![p][k] = IF outcome = "ok"
                                      THEN KillAt("saved", @.myGen)
                                      ELSE NoKill]
    /\ UNCHANGED <<up, current, gen, latched, resync, op, ledger, origin,
                   killAt, rebooted>>

\* The latch is still this call's: no other local write landed since.
LatchIsOurs(p, k) == gen[p] = kill[p][k].myGen

\* ForceShadow, lock retaken: release the latch only if it is still this
\* call's, and invalidate a Resync read taken before the persist.
ForceShadowRelease(p, k) ==
    /\ kill[p][k].pc = "saved"
    /\ LockFree(p)
    /\ IF LatchIsOurs(p, k)
       THEN /\ latched' = latched \ {p}
            /\ gen' = [gen EXCEPT ![p] = @ + 1]
       ELSE UNCHANGED <<latched, gen>>
    /\ kill' = [kill EXCEPT ![p][k] = NoKill]
    /\ UNCHANGED <<row, up, current, resync, op, clock, faults, ledger,
                   origin, killAt, rebooted>>

\* Mutant: a kill whose persist failed is never retried.
RetriesKill_Never(p) == FALSE

-----------------------------------------------------------------------------
\* A kill of p is still not on record, so Resync retries its persist.
RetriesKill(p) == p \in latched

\* Resync, step 1: persistLatchedKill, under the lock.
PersistLatchedKill(p, outcome) ==
    /\ p \in up /\ resync[p].pc = Idle
    /\ LockFree(p)
    /\ UNCHANGED clock
    /\ IF RetriesKill(p)
       THEN SaveMode(Shadow, killAt[p], outcome)
       ELSE outcome = "failed" /\ UNCHANGED <<row, faults>>
    /\ IF outcome = "ok"
       THEN /\ latched' = latched \ {p}
            /\ gen' = [gen EXCEPT ![p] = @ + 1]
       ELSE UNCHANGED <<latched, gen>>
    /\ resync' = [resync EXCEPT ![p] = ResyncAt("persisted", 0, NoRow)]
    /\ UNCHANGED <<up, current, kill, op, ledger, origin, killAt,
                   rebooted>>

\* Resync, step 2: snapshot gen under the read lock.
ResyncSnapshot(p) ==
    /\ resync[p].pc = "persisted"
    /\ LockFree(p)
    /\ resync' = [resync EXCEPT ![p] = ResyncAt("snapped", gen[p], NoRow)]
    /\ UNCHANGED <<row, up, current, gen, latched, kill, op, clock,
                   faults, ledger, origin, killAt, rebooted>>

\* Resync, step 3: Load outside the lock.  A row that is absent, corrupt or
\* cannot be read is the same to the caller: not readable.
ResyncLoad(p) ==
    /\ resync[p].pc = "snapped"
    /\ \/ /\ resync' = [resync EXCEPT
                ![p] = ResyncAt("loaded", @.gen, row)]
          /\ NoFault
       \/ /\ resync' = [resync EXCEPT
                ![p] = ResyncAt("loaded", @.gen, NoRow)]
          /\ Fault
    /\ UNCHANGED <<row, up, current, gen, latched, kill, op, clock,
                   ledger, origin, killAt, rebooted>>

\* Mutant: Resync applies its read whatever happened meanwhile.
ReadOvertaken_Ignored(p) == FALSE

\* A local write landed while Resync was reading.
ReadOvertaken(p) == gen[p] # resync[p].gen

\* Mutant: Resync keeps the cached mode (the defect of TG-570).
NextMode_Cached(p) == current[p]

\* The mode Resync makes active: the stored one, or Shadow when that is
\* unreadable, or actuating while a kill is not on record.
NextMode(p) ==
    LET m == resync[p].stored.mode IN
    IF m \notin Mode \/ (MayAutoActuate(m) /\ p \in latched) THEN Shadow ELSE m

\* Resync, step 4, under the lock.  A non-actuating row releases the latch.
ResyncApply(p) ==
    LET stored == resync[p].stored IN
    /\ resync[p].pc = "loaded"
    /\ LockFree(p)
    /\ IF ReadOvertaken(p)
       THEN UNCHANGED <<current, origin, latched>>
       ELSE /\ current' = [current EXCEPT ![p] = NextMode(p)]
            /\ origin' = [origin EXCEPT ![p] = stored]
            /\ latched' = IF stored.mode \in Mode
                             /\ ~MayAutoActuate(stored.mode)
                          THEN latched \ {p} ELSE latched
    /\ resync' = [resync EXCEPT ![p] = NoResync]
    /\ UNCHANGED <<row, up, gen, kill, op, clock, faults, ledger,
                   killAt, rebooted>>

-----------------------------------------------------------------------------
KillStep(p) ==
    \E k \in Killer :
        \/ ForceShadow(p, k)
        \/ \E o \in Outcome : ForceShadowSave(p, k, o)
        \/ ForceShadowRelease(p, k)

ResyncStep(p) ==
    \/ \E o \in Outcome : PersistLatchedKill(p, o)
    \/ ResyncSnapshot(p)
    \/ ResyncLoad(p)
    \/ ResyncApply(p)

OperatorStep(p) ==
    \/ SeedCheck(p)
    \/ SeedSkip(p)
    \/ \E to \in Target : TransitionRequest(p, to)
    \/ TransitionAudit(p)
    \/ TransitionRefuse(p)
    \/ \E o \in Outcome : Activate(p, o)

Next ==
    \E p \in Process :
        \/ Boot(p)
        \/ Crash(p)
        \/ OperatorStep(p)
        \/ KillStep(p)
        \/ ResyncStep(p)

\* The ticker of a running process keeps running, a ForceShadow in progress
\* and a Transition holding the lock run to their end, and boot reaches its
\* end.  Nobody has to kill, to ask for a mode or to restart a process.
Fairness ==
    /\ \A p \in Process :
        /\ WF_vars(ResyncStep(p)) /\ WF_vars(SeedSkip(p))
        /\ WF_vars(\E o \in Outcome : Activate(p, o))
    /\ \A p \in Halter, k \in Killer :
        /\ WF_vars(\E o \in Outcome : ForceShadowSave(p, k, o))
        /\ WF_vars(ForceShadowRelease(p, k))

SafetySpec == Init /\ [][Next]_vars
Spec == SafetySpec /\ Fairness

-----------------------------------------------------------------------------
\* Chokepoint.MayActuate (core/safety/mutation_chokepoint.go).
MayActuate(p) == p \in up /\ MayAutoActuate(current[p]) /\ p \in Proven

\* A kill holds: after ForceShadow on a running process, the process is in an
\* actuating mode only if that mode was saved after the kill - never the
\* pre-kill row read back, whatever failed and whatever raced.
KillHolds ==
    \A p \in Process :
        MayAutoActuate(current[p]) /\ p \notin rebooted => origin[p].at > killAt[p]

\* No process serves, and no row holds, an actuating mode whose decision is
\* not in the governance ledger (REQ-1502), even when the Save that carried
\* it reported an error or its process died before activating it.
AuditedBeforeEffect ==
    /\ MayAutoActuate(row.mode) => row.dec \in ledger
    /\ \A p \in Process :
        MayAutoActuate(current[p]) => origin[p].dec \in ledger

\* Once the bounded kills, decisions and faults are over, every running
\* process settles on the stored mode: a kill raised elsewhere stops this
\* process (TG-570), and no latch nobody releases refuses a resume.
CacheConverges ==
    \A p \in Process :
        <>[](p \in up /\ row.mode # Absent => current[p] = row.mode)

\* A kill whose persist failed reaches the store, unless its process dies or
\* an operator overrules it.
KillReachesStore ==
    \A p \in Halter :
        p \in latched ~> \/ ~MayAutoActuate(row.mode)
                      \/ row.at > killAt[p]
                      \/ p \notin up

-----------------------------------------------------------------------------
\* The inductive strengthening of KillHolds.  A row is "clear" of p when it
\* is not an actuating mode saved before p's last kill.
Clear(r, p) == MayAutoActuate(r.mode) /\ p \notin rebooted => r.at > killAt[p]

\* Stamps and snapshots lie in the past; a dead process has no kill to keep.
Past ==
    /\ row.at <= clock
    /\ \A p \in Process :
        /\ killAt[p] <= clock
        /\ resync[p].gen <= gen[p]
        /\ \A k \in Killer : kill[p][k].myGen <= gen[p]
        /\ p \notin up => p \in rebooted

\* Without the latch the row is clear.
LatchGuards == \A p \in Process : p \in latched \/ Clear(row, p)

\* A kill that persisted, and was not overtaken, left a clear row behind.
SavedClears ==
    \A p \in Process, k \in Killer :
        kill[p][k].pc = "saved" /\ kill[p][k].myGen = gen[p] => Clear(row, p)

\* A Resync read that will be applied is clear if it is actuating and there
\* is no latch, and a non-actuating one left a clear row behind.
ReadClears ==
    \A p \in Process :
        LET r == resync[p] IN
        r.pc = "loaded" /\ r.gen = gen[p] =>
            /\ p \in latched \/ Clear(r.stored, p)
            /\ MayAutoActuate(r.stored.mode) \/ r.stored.mode = Absent
                \/ Clear(row, p)

\* The kill holds, and so do the facts about latch, generation, persists and
\* reads in flight that make it hold (ForceShadow, Resync).
KillInv ==
    /\ TypeOK
    /\ Past
    /\ LatchGuards
    /\ SavedClears
    /\ ReadClears
    /\ KillHolds

\* The inductive strengthening of AuditedBeforeEffect: the decision of a
\* Transition or seed past its append, of the row, and of every copy of the
\* row, applied or on its way, is on record.
OnRecord(m, d) == MayAutoActuate(m) => d \in ledger
RowAudited == OnRecord(row.mode, row.dec)
OpAudited ==
    \A p \in Process : op[p].pc \in {"held", "seeding"} => op[p].dec \in ledger
ReadAudited ==
    \A p \in Process : OnRecord(resync[p].stored.mode, resync[p].stored.dec)
ServedAudited == \A p \in Process : OnRecord(current[p], origin[p].dec)
AuditInv == TypeOK /\ RowAudited /\ OpAudited /\ ReadAudited /\ ServedAudited

-----------------------------------------------------------------------------
\* What comments of the source say, and the code does not do.

\* ForceShadow: "a restart resolves fail-closed to Shadow regardless".
KillSurvivesRestart ==
    \A p \in Process : MayAutoActuate(current[p]) => origin[p].at > killAt[p]

\* ModeController.killLatched: once the kill is durable, "an actuating row can
\* only be a newer operator resume".
ActuatingRowIsNewerResume ==
    \A p \in Process :
        MayAutoActuate(row.mode) /\ p \in up /\ p \notin rebooted /\ p \notin latched
            => row.dec > killAt[p]

\* SeedInitialMode: re-reading the store under the lock "serializes the seed
\* with" every other writer, so a seed never overrides a persisted mode.
SeedSeesAbsent ==
    \A p \in Process : op[p].pc = "seeding" => row.mode = Absent
=============================================================================
