------------------------------- MODULE Ladder -------------------------------
(***************************************************************************)
(* The graduation ladder of one op-class as a pure machine: the rung the   *)
(* class has earned and the two streaks of clean runs, and what one run    *)
(* outcome does to them (core/policy/graduation.go, applyOutcome).         *)
(***************************************************************************)
EXTENDS Naturals

CONSTANTS
    PromoteThreshold,   \* clean runs from approve to auto_notice
    NoticeThreshold,    \* clean runs from auto_notice to auto
    Embedded,           \* the class is in the embedded registry
    TierForbidsAuto     \* its safety tier forbids autonomy

ASSUME LadderAssumption ==
    /\ PromoteThreshold \in Nat \ {0} /\ NoticeThreshold \in Nat \ {0}
    /\ Embedded \in BOOLEAN /\ TierForbidsAuto \in BOOLEAN

Level == {"approve", "auto_notice", "auto"}
Outcome == {"clean", "deviated", "unverified"}

\* A class of this level acts without a vote.
Autonomous(level) == level \in {"auto_notice", "auto"}

Rung(level, clean, notice) == [level |-> level, clean |-> clean, notice |-> notice]
Fresh == Rung("approve", 0, 0)

\* A verified clean run.  An overlay class stops at auto_notice, its streak
\* pinned at the bar.
Credited(r) ==
    CASE r.level = "approve" ->
            IF r.clean + 1 >= PromoteThreshold /\ ~TierForbidsAuto
            THEN Rung("auto_notice", 0, 0)
            ELSE Rung("approve", r.clean + 1, r.notice)
      [] r.level = "auto_notice" ->
            IF r.notice + 1 >= NoticeThreshold /\ ~TierForbidsAuto
            THEN IF Embedded THEN Rung("auto", r.clean, 0)
                 ELSE Rung("auto_notice", r.clean, NoticeThreshold)
            ELSE Rung("auto_notice", r.clean, r.notice + 1)
      [] OTHER -> r

applyOutcome(r, outcome) ==
    CASE outcome = "clean" -> Credited(r)
      [] outcome = "deviated" -> Fresh
      [] OTHER -> Rung(r.level, 0, 0)

\* RecordResult.Promoted
Promotes(from, to) ==
    \/ from.level = "approve" /\ Autonomous(to.level)
    \/ from.level = "auto_notice" /\ to.level = "auto"
=============================================================================
