---------------------------- MODULE ModelBreaker ----------------------------
(***************************************************************************)
(* The circuit breaker of one model rung (adapters/model/breaker.go and    *)
(* modules/model/litellm/routing.go over core/breaker): concurrent calls   *)
(* of several workers ask Allow, call the model, and fold the result in    *)
(* with RecordFailure or RecordSuccess.  Each method is a load and a save  *)
(* under the mutex of its worker's Breaker, which does not reach the other *)
(* workers.  The advisory lane fails open: a store error admits the call.  *)
(*                                                                         *)
(* Time enters only through the cooldown of the stored opening.            *)
(***************************************************************************)
EXTENDS Breaker, FiniteSets

CONSTANTS
    Worker,      \* worker processes
    Call,        \* call sites, each making one call at a time
    Home,        \* the worker of a call site
    MaxOutages,  \* bound on outages of the model
    MaxFaults    \* bound on store errors and cancelled calls

ASSUME ModelAssumption ==
    /\ Home \in [Call -> Worker]
    /\ MaxOutages \in Nat
    /\ MaxFaults \in Nat

VARIABLES
    row,       \* the durable record
    cooldown,  \* "running" or "over", for the stored opening
    model,     \* "up" or "down"
    call,      \* per call site: progress, and the record it loaded
    probes,    \* calls admitted by a half-open breaker, not yet recorded
    outages,
    faults

vars == <<row, cooldown, model, call, probes, outages, faults>>

At(pc, r) == [pc |-> pc, loaded |-> r]
Idle == At("idle", Fresh)

\* What the shared record and a call may hold; a record written by a probe's
\* success is one of the three states.
TypeOK ==
    /\ row \in Record
    /\ cooldown \in {"running", "over"}
    /\ model \in {"up", "down"}
    /\ call \in [Call -> [pc : {"idle", "admitting", "calling", "failed",
                                "served", "recFailure", "recSuccess"},
                          loaded : Record]]
    /\ probes \subseteq Call
    /\ outages \in Nat
    /\ faults \in Nat

Init ==
    /\ row = Fresh
    /\ cooldown = "over"
    /\ model = "up"
    /\ call = [c \in Call |-> Idle]
    /\ probes = {}
    /\ outages = 0
    /\ faults = 0

Fault == faults < MaxFaults /\ faults' = faults + 1
Move(c, pc, r) == call' = [call EXCEPT ![c] = At(pc, r)]

\* Breaker.mu is free in worker w.
LockFree(w) ==
    \A c \in Call : Home[c] = w =>
        call[c].pc \notin {"admitting", "recFailure", "recSuccess"}

\* Save: an opening starts its cooldown.
Save(r) ==
    /\ row' = r
    /\ cooldown' = IF r.state = Open THEN "running" ELSE cooldown

-----------------------------------------------------------------------------
ModelFails ==
    /\ model = "up" /\ outages < MaxOutages
    /\ model' = "down" /\ outages' = outages + 1
    /\ UNCHANGED <<row, cooldown, call, probes, faults>>

ModelRecovers ==
    /\ model = "down" /\ model' = "up"
    /\ UNCHANGED <<row, cooldown, call, probes, outages, faults>>

CooldownElapses ==
    /\ cooldown = "running" /\ cooldown' = "over"
    /\ UNCHANGED <<row, model, call, probes, outages, faults>>

\* Allow: the load and the decision.  An open breaker in its cooldown denies
\* the call; one past it is made half-open first.
Allow(c) ==
    /\ call[c].pc = "idle" /\ LockFree(Home[c])
    /\ \/ /\ Admits(row, cooldown = "over")
          /\ Move(c, IF AfterAllow(row, cooldown = "over") = row
                     THEN "calling" ELSE "admitting", row)
          /\ probes' = IF row.state = HalfOpen
                       THEN probes \union {c} ELSE probes
          /\ UNCHANGED faults
       \/ /\ ~Admits(row, cooldown = "over")
          /\ UNCHANGED <<call, probes, faults>>
       \/ /\ Fault
          /\ Move(c, "calling", Fresh)
          /\ UNCHANGED probes
    /\ UNCHANGED <<row, cooldown, model, outages>>

\* Allow: the save that admits the probe.  Its failure admits it too.
AllowSave(c) ==
    /\ call[c].pc = "admitting"
    /\ \/ Save(AfterAllow(call[c].loaded, TRUE)) /\ UNCHANGED faults
       \/ UNCHANGED <<row, cooldown>> /\ Fault
    /\ Move(c, "calling", Fresh)
    /\ probes' = probes \union {c}
    /\ UNCHANGED <<model, outages>>

\* The call itself.  A cancelled call records nothing.
CallModel(c) ==
    /\ call[c].pc = "calling"
    /\ \/ /\ Move(c, IF model = "up" THEN "served" ELSE "failed", Fresh)
          /\ UNCHANGED <<probes, faults>>
       \/ /\ Fault
          /\ Move(c, "idle", Fresh)
          /\ probes' = probes \ {c}
    /\ UNCHANGED <<row, cooldown, model, outages>>

\* RecordFailure or RecordSuccess: the load.  Its error is reported only.
RecordLoad(c) ==
    /\ call[c].pc \in {"failed", "served"} /\ LockFree(Home[c])
    /\ \/ /\ Move(c, IF call[c].pc = "failed" THEN "recFailure"
                                              ELSE "recSuccess", row)
          /\ UNCHANGED <<probes, faults>>
       \/ /\ Fault
          /\ Move(c, "idle", Fresh)
          /\ probes' = probes \ {c}
    /\ UNCHANGED <<row, cooldown, model, outages>>

\* RecordFailure or RecordSuccess: the save, if the record changed.
RecordSave(c) ==
    LET failed == call[c].pc = "recFailure"
        before == call[c].loaded
        after == IF failed THEN AfterFailure(before) ELSE AfterSuccess(before)
    IN
    /\ call[c].pc \in {"recFailure", "recSuccess"}
    /\ \/ /\ IF after = before THEN UNCHANGED <<row, cooldown>> ELSE Save(after)
          /\ UNCHANGED faults \/ Fault    \* reported lost, and landed
       \/ /\ after # before
          /\ Fault
          /\ UNCHANGED <<row, cooldown>>
    /\ Move(c, "idle", Fresh)
    /\ probes' = probes \ {c}
    /\ UNCHANGED <<model, outages>>

CallStep(c) ==
    \/ Allow(c) \/ AllowSave(c) \/ CallModel(c)
    \/ RecordLoad(c) \/ RecordSave(c)

Next ==
    \/ ModelFails \/ ModelRecovers \/ CooldownElapses
    \/ \E c \in Call : CallStep(c)

\* Time passes and the calls keep coming; the model need not recover.
Spec ==
    /\ Init /\ [][Next]_vars
    /\ WF_vars(CooldownElapses)
    /\ \A c \in Call : WF_vars(CallStep(c))

-----------------------------------------------------------------------------
\* A model that is down for good opens the breaker again and again, although
\* the workers overwrite each other's counts and probes: no interleaving
\* leaves it closed, or probing with every call, for ever.
OutageOpens == <>[](model = "down") => []<>(row.state = Open)

\* A model that is up for good is called again: no interleaving of stale
\* records leaves the shared breaker open or probing for ever.
Recovers == <>[](model = "up") => <>[](row.state = Closed)

\* StateHalfOpen: "exactly one canary call is admitted".
OneCanary == Cardinality(probes) <= 1
=============================================================================
