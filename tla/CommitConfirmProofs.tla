------------------------- MODULE CommitConfirmProofs -------------------------
(***************************************************************************)
(* Proofs about CommitConfirm, for every number of rechecks, attempts and  *)
(* failures.  The safety properties rest on one inductive invariant in     *)
(* parts: where the session is and what the execution has done (Placed),   *)
(* what an abort rests on (AbortRests), which actor is writing (Writing),  *)
(* what the ladder was told (Credits), and which children may still fire   *)
(* (Spent).                                                                *)
(***************************************************************************)
EXTENDS CommitConfirm, TLAPS

\* The session before it dispatches, and the guard of what it dispatched.
Placed ==
    /\ pc = "arm" => row = "none" /\ child = "none"
    /\ pc \in {"arm", "start", "standdown", "execute", "refused"} => exec = "idle"
    /\ exec = "idle" => effect = "none"
    /\ class = "mandated" => pc \in {"arm", "refused"}
    /\ class = "confirmed" /\ pc \notin {"arm", "refused"}
        => "armed" \in ledger /\ row # "none"
    /\ class = "confirmed" /\ pc \notin {"arm", "start", "standdown", "refused"}
        => child # "none"

\* An abort, wherever it is on its way, is one of an action that did not
\* complete and does not start any more.
NotCompleted == exec = "refused" \/ (exec = "idle" /\ pc \in {"standdown", "refused"})

AbortRests ==
    /\ pc = "abort" => exec = "refused"
    /\ "abort" \in signals => exec = "refused"
    /\ want["child"] = "aborted" => exec = "refused"
    /\ row = "aborted" => NotCompleted
    /\ exec \in {"idle", "queued"} => effect = "none"
    /\ exec = "refused" => effect # "applied"

\* An actor has a resolution to write just while its activity runs.
Writing ==
    /\ want["child"] # "none" <=> child = "resolving"
    /\ want["session"] # "none" => pc = "standdown" /\ want["session"] = "aborted"

\* The ladder was told of the resolution that stands.
Credits ==
    /\ "clean" \in fed => row = "confirmed"
    /\ "unclean" \in fed => row \in {"reverted", "revert_failed"}

\* The child has not fired its inverse.
Unfired == \/ child \in {"none", "window", "watch", "seal", "fire"}
           \/ child = "resolving" /\ want["child"] \in {"aborted", "confirmed", "held"}

\* No child that may still fire, or may be started by the sweep, exceeds the
\* inverses that a loss accounts for.
Spent ==
    /\ fires <= 1 + lost
    /\ Unfired => fires <= lost
    /\ child \in {"closed", "failed"} /\ row = "armed" => fires <= lost
    /\ child \in {"watch", "trip"} => row # "armed"

IInv == TypeOK /\ Placed /\ AbortRests /\ Writing /\ ResolutionRecorded
        /\ Credits /\ Spent

-----------------------------------------------------------------------------
\* Every step keeps the types.
LEMMA TypeStep == TypeOK /\ [Next]_vars => TypeOK'
<1> SUFFICES ASSUME TypeOK, [Next]_vars PROVE TypeOK'
    OBVIOUS
<1> USE DEF TypeOK, Verdict, Open, Resolved, Live, Actor, Fault, NoFault, session, forward, window, resolver, outcome, vars
<1>1. CASE ArmCommitConfirmActivity
    <2>1. ledger' \subseteq Resolved \union {"armed"}
        BY <1>1, BoundsAssumption DEF ArmCommitConfirmActivity
    <2>2. faults' \in 0 .. MaxFaults
        BY <1>1, BoundsAssumption DEF ArmCommitConfirmActivity
    <2> QED BY <2>1, <2>2, <1>1 DEF ArmCommitConfirmActivity
<1>2. CASE StartChild
    <2>1. want' \in [Actor -> Resolved \union {"none"}]
        BY <1>2, BoundsAssumption DEF StartChild, Schedules
    <2>2. tries' \in [Actor -> 0 .. ResolveAttempts]
        BY <1>2, BoundsAssumption DEF StartChild, Schedules
    <2>3. lost' \in Nat /\ faults' \in 0 .. MaxFaults
        BY <1>2, BoundsAssumption DEF StartChild, Schedules
    <2>4. adopted' \in BOOLEAN
        BY <1>2, BoundsAssumption DEF StartChild, Schedules
    <2>5. signals' \subseteq {"abort", "confirm-input"}
        BY <1>2, BoundsAssumption DEF StartChild, Schedules
    <2> QED BY <2>1, <2>2, <2>3, <2>4, <2>5, <1>2 DEF StartChild, Schedules
<1>3. CASE Dispatch
    BY <1>3, BoundsAssumption DEF Dispatch
<1>4. CASE ExecuteReturns
    BY <1>4, BoundsAssumption DEF ExecuteReturns
<1>5. CASE VerifyActivity
    BY <1>5, BoundsAssumption DEF VerifyActivity
<1>6. CASE SignalAbort
    <2>1. signals' \subseteq {"abort", "confirm-input"}
        BY <1>6, BoundsAssumption DEF SignalAbort, SignalChild
    <2>2. faults' \in 0 .. MaxFaults
        BY <1>6, BoundsAssumption DEF SignalAbort, SignalChild
    <2> QED BY <2>1, <2>2, <1>6 DEF SignalAbort, SignalChild
<1>7. CASE SignalNudge
    <2>1. signals' \subseteq {"abort", "confirm-input"}
        BY <1>7, BoundsAssumption DEF SignalNudge, SignalChild
    <2>2. faults' \in 0 .. MaxFaults
        BY <1>7, BoundsAssumption DEF SignalNudge, SignalChild
    <2> QED BY <2>1, <2>2, <1>7 DEF SignalNudge, SignalChild
<1>8. CASE ExecuteError
    BY <1>8, BoundsAssumption DEF ExecuteError
<1>9. CASE ForwardRefused
    BY <1>9, BoundsAssumption DEF ForwardRefused
<1>10. CASE LeafFails
    BY <1>10, BoundsAssumption DEF LeafFails
<1>11. CASE ForwardExecutes
    BY <1>11, BoundsAssumption DEF ForwardExecutes
<1>12. CASE ForwardVerified
    BY <1>12, BoundsAssumption DEF ForwardVerified
<1>13. CASE WorkerDies
    BY <1>13, BoundsAssumption DEF WorkerDies
<1>14. ASSUME NEW a \in Actor, ResolveCommitConfirmActivity(a) PROVE TypeOK'
    <2>1. want' \in [Actor -> Resolved \union {"none"}]
        BY <1>14 DEF ResolveCommitConfirmActivity, GoesOn
    <2>2. tries' \in [Actor -> 0 .. ResolveAttempts]
        BY <1>14, BoundsAssumption DEF ResolveCommitConfirmActivity
    <2>3. faults' \in 0 .. MaxFaults
        BY <1>14, BoundsAssumption DEF ResolveCommitConfirmActivity
    <2>4. row' \in Resolved \union {"none", "armed"}
        BY <1>14 DEF ResolveCommitConfirmActivity
    <2>5. ledger' \subseteq Resolved \union {"armed"}
        <3>1. want[a] \in Resolved
            BY <1>14 DEF ResolveCommitConfirmActivity
        <3>2. ledger' = ledger \union {want[a]} \/ ledger' = ledger
            BY <1>14 DEF ResolveCommitConfirmActivity
        <3>3. ledger \subseteq Resolved \union {"armed"}
            OBVIOUS
        <3> QED BY ONLY <3>1, <3>2, <3>3
    <2>6. fed' \subseteq {"clean", "unclean"}
        BY <1>14 DEF ResolveCommitConfirmActivity, Feed
    <2>7. pc' \in {"arm", "start", "standdown", "execute", "await", "abort",
                   "verify", "nudge", "done", "refused", "failed"}
        BY <1>14 DEF ResolveCommitConfirmActivity, GoesOn
    <2>8. child' \in Live \union {"none", "closed", "failed"} /\ left' \in 0 .. HoldRechecks
        BY <1>14, BoundsAssumption DEF ResolveCommitConfirmActivity, GoesOn
    <2> QED BY <1>14, <2>1, <2>2, <2>3, <2>4, <2>5, <2>6, <2>7, <2>8
        DEF ResolveCommitConfirmActivity
<1>15. ASSUME NEW a \in Actor, ResolveGivesUp(a) PROVE TypeOK'
    <2>1. want' \in [Actor -> Resolved \union {"none"}]
        BY <1>15 DEF ResolveGivesUp
    <2>2. gaveUp' \subseteq Resolved
        BY <1>15 DEF ResolveGivesUp
    <2>3. lost' \in Nat
        BY <1>15 DEF ResolveGivesUp
    <2> QED BY <1>15, <2>1, <2>2, <2>3 DEF ResolveGivesUp
<1>16. CASE ReceiveAbort
    BY <1>16, BoundsAssumption DEF ReceiveAbort, Resolves, Schedules
<1>17. CASE ReceiveNudge
    BY <1>17, BoundsAssumption DEF ReceiveNudge, Decides, Resolves, Schedules, Readings
<1>18. CASE TimerElapses
    BY <1>18, BoundsAssumption DEF TimerElapses, Decides, Resolves, Schedules, Readings
<1>19. CASE HoldRecheck
    BY <1>19, BoundsAssumption DEF HoldRecheck
<1>20. CASE SealInverse
    BY <1>20, BoundsAssumption DEF SealInverse, Resolves, Schedules
<1>21. CASE FireInverse
    BY <1>21, BoundsAssumption DEF FireInverse, Resolves, Schedules
<1>22. CASE TripBreaker
    <2>1. halted' \in BOOLEAN
        BY <1>22, BoundsAssumption DEF TripBreaker
    <2>2. faults' \in 0 .. MaxFaults
        BY <1>22, BoundsAssumption DEF TripBreaker
    <2> QED BY <2>1, <2>2, <1>22 DEF TripBreaker
<1>23. CASE Overdue
    BY <1>23, BoundsAssumption DEF Overdue
<1>24. CASE Sweep
    BY <1>24, BoundsAssumption DEF Sweep, Orphaned
<1>25. CASE OperatorRearms
    <2>1. halted' \in BOOLEAN
        BY <1>25, BoundsAssumption DEF OperatorRearms
    <2> QED BY <2>1, <1>25 DEF OperatorRearms
<1>26. CASE UNCHANGED vars
    BY <1>26
<1> QED BY <1>1, <1>2, <1>3, <1>4, <1>5, <1>6, <1>7, <1>8, <1>9, <1>10, <1>11, <1>12, <1>13, <1>14, <1>15, <1>16, <1>17, <1>18, <1>19, <1>20, <1>21, <1>22, <1>23, <1>24, <1>25, <1>26
    DEF Next, SessionStep, Activity, ResolveStep, ChildStep

\* The session stays in its place.
LEMMA PlacedStep == IInv /\ [Next]_vars => Placed'
<1> SUFFICES ASSUME IInv, [Next]_vars PROVE Placed'
    OBVIOUS
<1>0. TypeOK /\ Placed /\ Writing
    BY DEF IInv
<1> USE DEF TypeOK, Placed, Writing, Open, Resolved, Live, Actor, Fault, NoFault, session, forward, window, resolver, outcome, vars
<1>1. CASE ArmCommitConfirmActivity
    BY <1>0, <1>1, BoundsAssumption DEF ArmCommitConfirmActivity
<1>2. CASE StartChild
    BY <1>0, <1>2, BoundsAssumption DEF StartChild, Schedules
<1>3. CASE Dispatch
    BY <1>0, <1>3, BoundsAssumption DEF Dispatch
<1>4. CASE ExecuteReturns
    BY <1>0, <1>4, BoundsAssumption DEF ExecuteReturns
<1>5. CASE VerifyActivity
    BY <1>0, <1>5, BoundsAssumption DEF VerifyActivity
<1>6. CASE SignalAbort
    BY <1>0, <1>6, BoundsAssumption DEF SignalAbort, SignalChild
<1>7. CASE SignalNudge
    BY <1>0, <1>7, BoundsAssumption DEF SignalNudge, SignalChild
<1>8. CASE ExecuteError
    BY <1>0, <1>8, BoundsAssumption DEF ExecuteError
<1>9. CASE ForwardRefused
    BY <1>0, <1>9, BoundsAssumption DEF ForwardRefused
<1>10. CASE LeafFails
    BY <1>0, <1>10, BoundsAssumption DEF LeafFails
<1>11. CASE ForwardExecutes
    BY <1>0, <1>11, BoundsAssumption DEF ForwardExecutes
<1>12. CASE ForwardVerified
    BY <1>0, <1>12, BoundsAssumption DEF ForwardVerified
<1>13. CASE WorkerDies
    BY <1>0, <1>13, BoundsAssumption DEF WorkerDies
<1>14. ASSUME NEW a \in Actor, ResolveCommitConfirmActivity(a) PROVE Placed'
    BY <1>0, <1>14, BoundsAssumption DEF ResolveCommitConfirmActivity, GoesOn, Tail, Feed, Actor
<1>15. ASSUME NEW a \in Actor, ResolveGivesUp(a) PROVE Placed'
    BY <1>0, <1>15, BoundsAssumption DEF ResolveGivesUp, Feed, Actor
<1>16. CASE ReceiveAbort
    BY <1>0, <1>16, BoundsAssumption DEF ReceiveAbort, Resolves, Schedules
<1>17. CASE ReceiveNudge
    BY <1>0, <1>17, BoundsAssumption DEF ReceiveNudge, Decides, Resolves, Schedules, Readings
<1>18. CASE TimerElapses
    BY <1>0, <1>18, BoundsAssumption DEF TimerElapses, Decides, Resolves, Schedules, Readings
<1>19. CASE HoldRecheck
    BY <1>0, <1>19, BoundsAssumption DEF HoldRecheck
<1>20. CASE SealInverse
    BY <1>0, <1>20, BoundsAssumption DEF SealInverse, Resolves, Schedules
<1>21. CASE FireInverse
    BY <1>0, <1>21, BoundsAssumption DEF FireInverse, Resolves, Schedules
<1>22. CASE TripBreaker
    BY <1>0, <1>22, BoundsAssumption DEF TripBreaker
<1>23. CASE Overdue
    BY <1>0, <1>23, BoundsAssumption DEF Overdue
<1>24. CASE Sweep
    BY <1>0, <1>24, BoundsAssumption DEF Sweep, Orphaned
<1>25. CASE OperatorRearms
    BY <1>0, <1>25, BoundsAssumption DEF OperatorRearms
<1>26. CASE UNCHANGED vars
    BY <1>0, <1>26
<1> QED BY <1>1, <1>2, <1>3, <1>4, <1>5, <1>6, <1>7, <1>8, <1>9, <1>10, <1>11, <1>12, <1>13, <1>14, <1>15, <1>16, <1>17, <1>18, <1>19, <1>20, <1>21, <1>22, <1>23, <1>24, <1>25, <1>26
    DEF Next, SessionStep, Activity, ResolveStep, ChildStep

\* Only an action that did not complete is aborted.
LEMMA AbortStep == IInv /\ [Next]_vars => AbortRests'
<1> SUFFICES ASSUME IInv, [Next]_vars PROVE AbortRests'
    OBVIOUS
<1>0. TypeOK /\ Placed /\ AbortRests /\ Writing
    BY DEF IInv
<1> USE DEF TypeOK, Placed, AbortRests, NotCompleted, Writing, Open, Resolved, Live, Actor, Fault, NoFault, session, forward, window, resolver, outcome, vars
<1>1. CASE ArmCommitConfirmActivity
    BY <1>0, <1>1, BoundsAssumption DEF ArmCommitConfirmActivity
<1>2. CASE StartChild
    BY <1>0, <1>2, BoundsAssumption DEF StartChild, Schedules
<1>3. CASE Dispatch
    BY <1>0, <1>3, BoundsAssumption DEF Dispatch
<1>4. CASE ExecuteReturns
    BY <1>0, <1>4, BoundsAssumption DEF ExecuteReturns
<1>5. CASE VerifyActivity
    BY <1>0, <1>5, BoundsAssumption DEF VerifyActivity
<1>6. CASE SignalAbort
    BY <1>0, <1>6, BoundsAssumption DEF SignalAbort, SignalChild
<1>7. CASE SignalNudge
    BY <1>0, <1>7, BoundsAssumption DEF SignalNudge, SignalChild
<1>8. CASE ExecuteError
    BY <1>0, <1>8, BoundsAssumption DEF ExecuteError
<1>9. CASE ForwardRefused
    BY <1>0, <1>9, BoundsAssumption DEF ForwardRefused
<1>10. CASE LeafFails
    BY <1>0, <1>10, BoundsAssumption DEF LeafFails
<1>11. CASE ForwardExecutes
    BY <1>0, <1>11, BoundsAssumption DEF ForwardExecutes
<1>12. CASE ForwardVerified
    BY <1>0, <1>12, BoundsAssumption DEF ForwardVerified
<1>13. CASE WorkerDies
    BY <1>0, <1>13, BoundsAssumption DEF WorkerDies
<1>14. ASSUME NEW a \in Actor, ResolveCommitConfirmActivity(a) PROVE AbortRests'
    BY <1>0, <1>14, BoundsAssumption DEF ResolveCommitConfirmActivity, GoesOn, Tail, Feed, Actor
<1>15. ASSUME NEW a \in Actor, ResolveGivesUp(a) PROVE AbortRests'
    BY <1>0, <1>15, BoundsAssumption DEF ResolveGivesUp, Feed, Actor
<1>16. CASE ReceiveAbort
    BY <1>0, <1>16, BoundsAssumption DEF ReceiveAbort, Resolves, Schedules
<1>17. CASE ReceiveNudge
    BY <1>0, <1>17, BoundsAssumption DEF ReceiveNudge, Decides, Resolves, Schedules, Readings
<1>18. CASE TimerElapses
    BY <1>0, <1>18, BoundsAssumption DEF TimerElapses, Decides, Resolves, Schedules, Readings
<1>19. CASE HoldRecheck
    BY <1>0, <1>19, BoundsAssumption DEF HoldRecheck
<1>20. CASE SealInverse
    BY <1>0, <1>20, BoundsAssumption DEF SealInverse, Resolves, Schedules
<1>21. CASE FireInverse
    BY <1>0, <1>21, BoundsAssumption DEF FireInverse, Resolves, Schedules
<1>22. CASE TripBreaker
    BY <1>0, <1>22, BoundsAssumption DEF TripBreaker
<1>23. CASE Overdue
    BY <1>0, <1>23, BoundsAssumption DEF Overdue
<1>24. CASE Sweep
    BY <1>0, <1>24, BoundsAssumption DEF Sweep, Orphaned
<1>25. CASE OperatorRearms
    BY <1>0, <1>25, BoundsAssumption DEF OperatorRearms
<1>26. CASE UNCHANGED vars
    BY <1>0, <1>26
<1> QED BY <1>1, <1>2, <1>3, <1>4, <1>5, <1>6, <1>7, <1>8, <1>9, <1>10, <1>11, <1>12, <1>13, <1>14, <1>15, <1>16, <1>17, <1>18, <1>19, <1>20, <1>21, <1>22, <1>23, <1>24, <1>25, <1>26
    DEF Next, SessionStep, Activity, ResolveStep, ChildStep

\* An actor writes just while its activity runs.
LEMMA WritingStep == IInv /\ [Next]_vars => Writing'
<1> SUFFICES ASSUME IInv, [Next]_vars PROVE Writing'
    OBVIOUS
<1>0. TypeOK /\ Writing
    BY DEF IInv
<1> USE DEF TypeOK, Writing, Open, Resolved, Live, Actor, Fault, NoFault, session, forward, window, resolver, outcome, vars
<1>1. CASE ArmCommitConfirmActivity
    BY <1>0, <1>1, BoundsAssumption DEF ArmCommitConfirmActivity
<1>2. CASE StartChild
    BY <1>0, <1>2, BoundsAssumption DEF StartChild, Schedules
<1>3. CASE Dispatch
    BY <1>0, <1>3, BoundsAssumption DEF Dispatch
<1>4. CASE ExecuteReturns
    BY <1>0, <1>4, BoundsAssumption DEF ExecuteReturns
<1>5. CASE VerifyActivity
    BY <1>0, <1>5, BoundsAssumption DEF VerifyActivity
<1>6. CASE SignalAbort
    BY <1>0, <1>6, BoundsAssumption DEF SignalAbort, SignalChild
<1>7. CASE SignalNudge
    BY <1>0, <1>7, BoundsAssumption DEF SignalNudge, SignalChild
<1>8. CASE ExecuteError
    BY <1>0, <1>8, BoundsAssumption DEF ExecuteError
<1>9. CASE ForwardRefused
    BY <1>0, <1>9, BoundsAssumption DEF ForwardRefused
<1>10. CASE LeafFails
    BY <1>0, <1>10, BoundsAssumption DEF LeafFails
<1>11. CASE ForwardExecutes
    BY <1>0, <1>11, BoundsAssumption DEF ForwardExecutes
<1>12. CASE ForwardVerified
    BY <1>0, <1>12, BoundsAssumption DEF ForwardVerified
<1>13. CASE WorkerDies
    BY <1>0, <1>13, BoundsAssumption DEF WorkerDies
<1>14. ASSUME NEW a \in Actor, ResolveCommitConfirmActivity(a) PROVE Writing'
    BY <1>0, <1>14, BoundsAssumption DEF ResolveCommitConfirmActivity, GoesOn, Tail, Feed, Actor
<1>15. ASSUME NEW a \in Actor, ResolveGivesUp(a) PROVE Writing'
    BY <1>0, <1>15, BoundsAssumption DEF ResolveGivesUp, Feed, Actor
<1>16. CASE ReceiveAbort
    BY <1>0, <1>16, BoundsAssumption DEF ReceiveAbort, Resolves, Schedules
<1>17. CASE ReceiveNudge
    BY <1>0, <1>17, BoundsAssumption DEF ReceiveNudge, Decides, Resolves, Schedules, Readings
<1>18. CASE TimerElapses
    BY <1>0, <1>18, BoundsAssumption DEF TimerElapses, Decides, Resolves, Schedules, Readings
<1>19. CASE HoldRecheck
    BY <1>0, <1>19, BoundsAssumption DEF HoldRecheck
<1>20. CASE SealInverse
    BY <1>0, <1>20, BoundsAssumption DEF SealInverse, Resolves, Schedules
<1>21. CASE FireInverse
    BY <1>0, <1>21, BoundsAssumption DEF FireInverse, Resolves, Schedules
<1>22. CASE TripBreaker
    BY <1>0, <1>22, BoundsAssumption DEF TripBreaker
<1>23. CASE Overdue
    BY <1>0, <1>23, BoundsAssumption DEF Overdue
<1>24. CASE Sweep
    BY <1>0, <1>24, BoundsAssumption DEF Sweep, Orphaned
<1>25. CASE OperatorRearms
    BY <1>0, <1>25, BoundsAssumption DEF OperatorRearms
<1>26. CASE UNCHANGED vars
    BY <1>0, <1>26
<1> QED BY <1>1, <1>2, <1>3, <1>4, <1>5, <1>6, <1>7, <1>8, <1>9, <1>10, <1>11, <1>12, <1>13, <1>14, <1>15, <1>16, <1>17, <1>18, <1>19, <1>20, <1>21, <1>22, <1>23, <1>24, <1>25, <1>26
    DEF Next, SessionStep, Activity, ResolveStep, ChildStep

\* A resolution gets to the ledger, or its writer is at it or has given up.
LEMMA RecordedStep == IInv /\ [Next]_vars => ResolutionRecorded'
<1> SUFFICES ASSUME IInv, [Next]_vars PROVE ResolutionRecorded'
    OBVIOUS
<1>0. TypeOK /\ Writing /\ ResolutionRecorded
    BY DEF IInv
<1> USE DEF TypeOK, Writing, ResolutionRecorded, Open, Resolved, Live, Actor, Fault, NoFault, session, forward, window, resolver, outcome, vars
<1>1. CASE ArmCommitConfirmActivity
    BY <1>0, <1>1, BoundsAssumption DEF ArmCommitConfirmActivity
<1>2. CASE StartChild
    BY <1>0, <1>2, BoundsAssumption DEF StartChild, Schedules
<1>3. CASE Dispatch
    BY <1>0, <1>3, BoundsAssumption DEF Dispatch
<1>4. CASE ExecuteReturns
    BY <1>0, <1>4, BoundsAssumption DEF ExecuteReturns
<1>5. CASE VerifyActivity
    BY <1>0, <1>5, BoundsAssumption DEF VerifyActivity
<1>6. CASE SignalAbort
    BY <1>0, <1>6, BoundsAssumption DEF SignalAbort, SignalChild
<1>7. CASE SignalNudge
    BY <1>0, <1>7, BoundsAssumption DEF SignalNudge, SignalChild
<1>8. CASE ExecuteError
    BY <1>0, <1>8, BoundsAssumption DEF ExecuteError
<1>9. CASE ForwardRefused
    BY <1>0, <1>9, BoundsAssumption DEF ForwardRefused
<1>10. CASE LeafFails
    BY <1>0, <1>10, BoundsAssumption DEF LeafFails
<1>11. CASE ForwardExecutes
    BY <1>0, <1>11, BoundsAssumption DEF ForwardExecutes
<1>12. CASE ForwardVerified
    BY <1>0, <1>12, BoundsAssumption DEF ForwardVerified
<1>13. CASE WorkerDies
    BY <1>0, <1>13, BoundsAssumption DEF WorkerDies
<1>14. ASSUME NEW a \in Actor, ResolveCommitConfirmActivity(a) PROVE ResolutionRecorded'
    BY <1>0, <1>14, BoundsAssumption DEF ResolveCommitConfirmActivity, GoesOn, Tail, Feed, Actor
<1>15. ASSUME NEW a \in Actor, ResolveGivesUp(a) PROVE ResolutionRecorded'
    BY <1>0, <1>15, BoundsAssumption DEF ResolveGivesUp, Feed, Actor
<1>16. CASE ReceiveAbort
    BY <1>0, <1>16, BoundsAssumption DEF ReceiveAbort, Resolves, Schedules
<1>17. CASE ReceiveNudge
    BY <1>0, <1>17, BoundsAssumption DEF ReceiveNudge, Decides, Resolves, Schedules, Readings
<1>18. CASE TimerElapses
    BY <1>0, <1>18, BoundsAssumption DEF TimerElapses, Decides, Resolves, Schedules, Readings
<1>19. CASE HoldRecheck
    BY <1>0, <1>19, BoundsAssumption DEF HoldRecheck
<1>20. CASE SealInverse
    BY <1>0, <1>20, BoundsAssumption DEF SealInverse, Resolves, Schedules
<1>21. CASE FireInverse
    BY <1>0, <1>21, BoundsAssumption DEF FireInverse, Resolves, Schedules
<1>22. CASE TripBreaker
    BY <1>0, <1>22, BoundsAssumption DEF TripBreaker
<1>23. CASE Overdue
    BY <1>0, <1>23, BoundsAssumption DEF Overdue
<1>24. CASE Sweep
    BY <1>0, <1>24, BoundsAssumption DEF Sweep, Orphaned
<1>25. CASE OperatorRearms
    BY <1>0, <1>25, BoundsAssumption DEF OperatorRearms
<1>26. CASE UNCHANGED vars
    BY <1>0, <1>26
<1> QED BY <1>1, <1>2, <1>3, <1>4, <1>5, <1>6, <1>7, <1>8, <1>9, <1>10, <1>11, <1>12, <1>13, <1>14, <1>15, <1>16, <1>17, <1>18, <1>19, <1>20, <1>21, <1>22, <1>23, <1>24, <1>25, <1>26
    DEF Next, SessionStep, Activity, ResolveStep, ChildStep

\* A resolution that the ladder was told of stands.
LEMMA CreditsStep == IInv /\ [Next]_vars => Credits'
<1> SUFFICES ASSUME IInv, [Next]_vars PROVE Credits'
    OBVIOUS
<1>0. TypeOK /\ Placed /\ Credits
    BY DEF IInv
<1> USE DEF TypeOK, Placed, Credits, Open, Resolved, Live, Actor, Fault, NoFault, session, forward, window, resolver, outcome, vars
<1>1. CASE ArmCommitConfirmActivity
    BY <1>0, <1>1, BoundsAssumption DEF ArmCommitConfirmActivity
<1>2. CASE StartChild
    BY <1>0, <1>2, BoundsAssumption DEF StartChild, Schedules
<1>3. CASE Dispatch
    BY <1>0, <1>3, BoundsAssumption DEF Dispatch
<1>4. CASE ExecuteReturns
    BY <1>0, <1>4, BoundsAssumption DEF ExecuteReturns
<1>5. CASE VerifyActivity
    BY <1>0, <1>5, BoundsAssumption DEF VerifyActivity
<1>6. CASE SignalAbort
    BY <1>0, <1>6, BoundsAssumption DEF SignalAbort, SignalChild
<1>7. CASE SignalNudge
    BY <1>0, <1>7, BoundsAssumption DEF SignalNudge, SignalChild
<1>8. CASE ExecuteError
    BY <1>0, <1>8, BoundsAssumption DEF ExecuteError
<1>9. CASE ForwardRefused
    BY <1>0, <1>9, BoundsAssumption DEF ForwardRefused
<1>10. CASE LeafFails
    BY <1>0, <1>10, BoundsAssumption DEF LeafFails
<1>11. CASE ForwardExecutes
    BY <1>0, <1>11, BoundsAssumption DEF ForwardExecutes
<1>12. CASE ForwardVerified
    BY <1>0, <1>12, BoundsAssumption DEF ForwardVerified
<1>13. CASE WorkerDies
    BY <1>0, <1>13, BoundsAssumption DEF WorkerDies
<1>14. ASSUME NEW a \in Actor, ResolveCommitConfirmActivity(a) PROVE Credits'
    BY <1>0, <1>14, BoundsAssumption DEF ResolveCommitConfirmActivity, GoesOn, Tail, Feed, Actor
<1>15. ASSUME NEW a \in Actor, ResolveGivesUp(a) PROVE Credits'
    BY <1>0, <1>15, BoundsAssumption DEF ResolveGivesUp, Feed, Actor
<1>16. CASE ReceiveAbort
    BY <1>0, <1>16, BoundsAssumption DEF ReceiveAbort, Resolves, Schedules
<1>17. CASE ReceiveNudge
    BY <1>0, <1>17, BoundsAssumption DEF ReceiveNudge, Decides, Resolves, Schedules, Readings
<1>18. CASE TimerElapses
    BY <1>0, <1>18, BoundsAssumption DEF TimerElapses, Decides, Resolves, Schedules, Readings
<1>19. CASE HoldRecheck
    BY <1>0, <1>19, BoundsAssumption DEF HoldRecheck
<1>20. CASE SealInverse
    BY <1>0, <1>20, BoundsAssumption DEF SealInverse, Resolves, Schedules
<1>21. CASE FireInverse
    BY <1>0, <1>21, BoundsAssumption DEF FireInverse, Resolves, Schedules
<1>22. CASE TripBreaker
    BY <1>0, <1>22, BoundsAssumption DEF TripBreaker
<1>23. CASE Overdue
    BY <1>0, <1>23, BoundsAssumption DEF Overdue
<1>24. CASE Sweep
    BY <1>0, <1>24, BoundsAssumption DEF Sweep, Orphaned
<1>25. CASE OperatorRearms
    BY <1>0, <1>25, BoundsAssumption DEF OperatorRearms
<1>26. CASE UNCHANGED vars
    BY <1>0, <1>26
<1> QED BY <1>1, <1>2, <1>3, <1>4, <1>5, <1>6, <1>7, <1>8, <1>9, <1>10, <1>11, <1>12, <1>13, <1>14, <1>15, <1>16, <1>17, <1>18, <1>19, <1>20, <1>21, <1>22, <1>23, <1>24, <1>25, <1>26
    DEF Next, SessionStep, Activity, ResolveStep, ChildStep

\* An inverse is paid for.
LEMMA SpentStep == IInv /\ [Next]_vars => Spent'
<1> SUFFICES ASSUME IInv, [Next]_vars PROVE Spent'
    OBVIOUS
<1>0. TypeOK /\ Placed /\ Writing /\ Spent
    BY DEF IInv
<1> USE DEF TypeOK, Placed, Writing, Spent, Unfired, Open, Resolved, Live, Actor, Fault, NoFault, session, forward, window, resolver, outcome, vars
<1>1. CASE ArmCommitConfirmActivity
    BY <1>0, <1>1, BoundsAssumption DEF ArmCommitConfirmActivity
<1>2. CASE StartChild
    BY <1>0, <1>2, BoundsAssumption DEF StartChild, Schedules
<1>3. CASE Dispatch
    BY <1>0, <1>3, BoundsAssumption DEF Dispatch
<1>4. CASE ExecuteReturns
    BY <1>0, <1>4, BoundsAssumption DEF ExecuteReturns
<1>5. CASE VerifyActivity
    BY <1>0, <1>5, BoundsAssumption DEF VerifyActivity
<1>6. CASE SignalAbort
    BY <1>0, <1>6, BoundsAssumption DEF SignalAbort, SignalChild
<1>7. CASE SignalNudge
    BY <1>0, <1>7, BoundsAssumption DEF SignalNudge, SignalChild
<1>8. CASE ExecuteError
    BY <1>0, <1>8, BoundsAssumption DEF ExecuteError
<1>9. CASE ForwardRefused
    BY <1>0, <1>9, BoundsAssumption DEF ForwardRefused
<1>10. CASE LeafFails
    BY <1>0, <1>10, BoundsAssumption DEF LeafFails
<1>11. CASE ForwardExecutes
    BY <1>0, <1>11, BoundsAssumption DEF ForwardExecutes
<1>12. CASE ForwardVerified
    BY <1>0, <1>12, BoundsAssumption DEF ForwardVerified
<1>13. CASE WorkerDies
    BY <1>0, <1>13, BoundsAssumption DEF WorkerDies
<1>14. ASSUME NEW a \in Actor, ResolveCommitConfirmActivity(a) PROVE Spent'
    BY <1>0, <1>14, BoundsAssumption DEF ResolveCommitConfirmActivity, GoesOn, Tail, Feed, Actor
<1>15. ASSUME NEW a \in Actor, ResolveGivesUp(a) PROVE Spent'
    BY <1>0, <1>15, BoundsAssumption DEF ResolveGivesUp, Feed, Actor
<1>16. CASE ReceiveAbort
    BY <1>0, <1>16, BoundsAssumption DEF ReceiveAbort, Resolves, Schedules
<1>17. CASE ReceiveNudge
    BY <1>0, <1>17, BoundsAssumption DEF ReceiveNudge, Decides, Resolves, Schedules, Readings
<1>18. CASE TimerElapses
    BY <1>0, <1>18, BoundsAssumption DEF TimerElapses, Decides, Resolves, Schedules, Readings
<1>19. CASE HoldRecheck
    BY <1>0, <1>19, BoundsAssumption DEF HoldRecheck
<1>20. CASE SealInverse
    BY <1>0, <1>20, BoundsAssumption DEF SealInverse, Resolves, Schedules
<1>21. CASE FireInverse
    BY <1>0, <1>21, BoundsAssumption DEF FireInverse, Resolves, Schedules
<1>22. CASE TripBreaker
    BY <1>0, <1>22, BoundsAssumption DEF TripBreaker
<1>23. CASE Overdue
    BY <1>0, <1>23, BoundsAssumption DEF Overdue
<1>24. CASE Sweep
    BY <1>0, <1>24, BoundsAssumption DEF Sweep, Orphaned
<1>25. CASE OperatorRearms
    BY <1>0, <1>25, BoundsAssumption DEF OperatorRearms
<1>26. CASE UNCHANGED vars
    BY <1>0, <1>26
<1> QED BY <1>1, <1>2, <1>3, <1>4, <1>5, <1>6, <1>7, <1>8, <1>9, <1>10, <1>11, <1>12, <1>13, <1>14, <1>15, <1>16, <1>17, <1>18, <1>19, <1>20, <1>21, <1>22, <1>23, <1>24, <1>25, <1>26
    DEF Next, SessionStep, Activity, ResolveStep, ChildStep

-----------------------------------------------------------------------------
LEMMA InitHolds == Init => IInv
<1> SUFFICES ASSUME Init PROVE IInv
    OBVIOUS
<1>1. TypeOK
    <2>1. overdue \in BOOLEAN /\ adopted \in BOOLEAN /\ halted \in BOOLEAN
        BY DEF Init
    <2>2. /\ want \in [Actor -> Resolved \union {"none"}]
          /\ tries \in [Actor -> 0 .. ResolveAttempts]
        BY BoundsAssumption DEF Init, Resolved
    <2>3. /\ signals \subseteq {"abort", "confirm-input"}
          /\ ledger \subseteq Resolved \union {"armed"}
          /\ gaveUp \subseteq Resolved /\ fed \subseteq {"clean", "unclean"}
        BY DEF Init
    <2>4. /\ left \in 0 .. HoldRechecks /\ faults \in 0 .. MaxFaults
          /\ fires \in Nat /\ lost \in Nat
        BY BoundsAssumption DEF Init
    <2> QED BY <2>1, <2>2, <2>3, <2>4 DEF Init, TypeOK, Verdict, Resolved, Live
<1>2. Placed /\ AbortRests /\ Writing /\ Credits
    BY DEF Init, Placed, AbortRests, NotCompleted, Writing, Credits, Actor
<1>3. ResolutionRecorded /\ Spent
    BY DEF Init, ResolutionRecorded, Spent, Unfired, Resolved, Actor
<1> QED BY <1>1, <1>2, <1>3 DEF IInv

LEMMA StepHolds == IInv /\ [Next]_vars => IInv'
<1> SUFFICES ASSUME IInv, [Next]_vars PROVE IInv'
    OBVIOUS
<1>1. TypeOK'
    BY TypeStep DEF IInv
<1> QED BY <1>1, PlacedStep, AbortStep, WritingStep, RecordedStep, CreditsStep, SpentStep
    DEF IInv

LEMMA Invariant == Spec => []IInv
<1> QED BY InitHolds, StepHolds, PTL DEF Spec

\* Every reachable state of the window is well typed, for any number of
\* rechecks, attempts and failures.
THEOREM TypeCorrect == Spec => []TypeOK
<1>1. IInv => TypeOK
    BY DEF IInv
<1> QED BY <1>1, Invariant, PTL

\* No effect without its guard: the session dispatches a commit-confirmed
\* action only after the row, its ledger entry and the child (workflow.go,
\* ArmCommitConfirmActivity and the start of the child).
THEOREM Guarded == Spec => []EffectIsGuarded
<1>1. IInv => EffectIsGuarded
    BY DEF IInv, TypeOK, Placed, EffectIsGuarded
<1> QED BY <1>1, Invariant, PTL

\* The row of an action whose effect completed is never aborted, whatever the
\* order of the timeout, the late answer, the signals and the sweep
\* (commit_confirm.go, the abort signal; workflow.go, the error of the
\* execution that leaves the window armed).
THEOREM NeverAbortsCompleted == Spec => []AbortedNotCompleted
<1>1. IInv => AbortedNotCompleted
    BY DEF IInv, AbortRests, NotCompleted, AbortedNotCompleted
<1> QED BY <1>1, Invariant, PTL

\* Every resolution is on the ledger unless its writer is at it or has used
\* its attempts (ResolveCommitConfirmActivity, whose retry finds its own
\* resolution and runs the tail again).
THEOREM Recorded == Spec => []ResolutionRecorded
<1>1. IInv => ResolutionRecorded
    BY DEF IInv
<1> QED BY <1>1, Invariant, PTL

\* The ladder hears of one outcome, a clean one only of a confirmed window,
\* although two children may resolve the row (ResolveCommitConfirmActivity).
THEOREM Credited == Spec => []OneCredit
<1>1. IInv => OneCredit
    BY DEF IInv, Credits, OneCredit
<1> QED BY <1>1, Invariant, PTL

\* At most one inverse beyond the children that were lost before they wrote
\* theirs down (commitConfirmFireInverse, one attempt; the orphan sweep).
THEOREM FiredOnce == Spec => []RefireOnlyAfterLoss
<1>1. IInv => RefireOnlyAfterLoss
    BY DEF IInv, Spent, RefireOnlyAfterLoss
<1> QED BY <1>1, Invariant, PTL
=============================================================================
