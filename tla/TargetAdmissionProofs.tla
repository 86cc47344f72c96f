------------------------ MODULE TargetAdmissionProofs ------------------------
(***************************************************************************)
(* No two actuations hold one target, and a disturbed target is left alone *)
(* for the cooldown: for any number of processes, slots, sessions and      *)
(* targets, and any times with MaxHold + Cooldown <= ClaimTTL.             *)
(*                                                                         *)
(* The argument: an actuation that holds its target owns the row, and the  *)
(* row's claim is no older than the actuation, so not older than its       *)
(* deadline and not expired; the upsert refuses.  After a disturbed effect *)
(* either the cooldown was stamped, or the claim is still there and        *)
(* expires only MaxHold + Cooldown after the effect began.                 *)
(*                                                                         *)
(* The limiter of a process counts the leases that are out exactly, and    *)
(* lets no more effects happen than its limits: every effect in the window *)
(* is charged to an admission of its own that the limiter still counts,    *)
(* because MaxHold < Window.                                               *)
(***************************************************************************)
EXTENDS TargetAdmission, FiniteSetTheorems, TLAPS

HoldPc == {"claimed", "effect", "release", "disturbed"}
CleanPc == {"claimed", "effect", "release"}

RowType == [by : Session \union {NoRef}, age : 0..ClaimTTL + 1,
            cool : 0..Cooldown + 1]
AttemptType ==
    [pc : {"idle", "leased", "claimed", "effect", "release", "disturbed",
           "unlease"},
     session : Session \union {NoRef}, target : Target \union {NoRef},
     hold : 0..MaxHold]

Typed ==
    /\ row \in [Target -> RowType]
    /\ slot \in [Slot -> AttemptType]
    /\ \A s \in Slot : slot[s].pc # "idle"
            => slot[s].session \in Session /\ slot[s].target \in Target
    /\ quiet \in [Target -> 0..Cooldown + 1]

\* A target disturbed less than a cooldown ago is cooling down, or still has
\* the claim under which it was disturbed.
Parked ==
    \A t \in Target : quiet[t] <= Cooldown =>
        \/ row[t].cool <= quiet[t]
        \/ row[t].by # NoRef /\ row[t].age <= quiet[t] + MaxHold

\* An actuation not disturbed itself holds a target that is quiet.
Undisturbed ==
    \A s \in Slot : slot[s].pc \in CleanPc => quiet[slot[s].target] > Cooldown

IInv == Typed /\ HolderOwnsRow /\ EffectExclusive /\ Parked /\ Undisturbed

\* A row the upsert may claim is held by nobody, and its target is quiet.
LEMMA ClaimableIsFree ==
    ASSUME IInv, NEW t \in Target, Claimable(row[t])
    PROVE  /\ \A s \in Slot : Holding(s) => slot[s].target # t
           /\ quiet[t] > Cooldown
<1>1. row[t] \in RowType /\ quiet[t] \in 0..Cooldown + 1
  BY DEF IInv, Typed
<1>2. ASSUME NEW s \in Slot, Holding(s), slot[s].target = t
      PROVE  FALSE
  <2>1. slot[s] \in AttemptType /\ slot[s].session \in Session
    BY <1>2 DEF IInv, Typed, Holding
  <2>2. row[t].by = slot[s].session /\ row[t].age <= slot[s].hold
    BY <1>2 DEF IInv, HolderOwnsRow
  <2>3. row[t].by # NoRef
    BY <2>1, <2>2, LimitsAssumption
  <2>4. slot[s].hold <= MaxHold /\ slot[s].hold \in Nat
    BY <2>1, LimitsAssumption DEF AttemptType
  <2>5. row[t].age \in Nat
    BY <1>1, LimitsAssumption DEF RowType
  <2>6. row[t].age <= ClaimTTL
    BY <2>2, <2>4, <2>5, LimitsAssumption, TimelyAssumption
  <2> QED BY <2>3, <2>5, <2>6, LimitsAssumption DEF Claimable
<1>3. quiet[t] > Cooldown
  <2>1. SUFFICES ASSUME quiet[t] <= Cooldown PROVE FALSE
    BY <1>1, LimitsAssumption
  <2>2. row[t].age \in Nat /\ row[t].cool \in Nat /\ quiet[t] \in Nat
    BY <1>1, LimitsAssumption DEF RowType
  <2>3. CASE row[t].cool <= quiet[t]
    BY <2>1, <2>2, <2>3, LimitsAssumption DEF Claimable
  <2>4. CASE row[t].by # NoRef /\ row[t].age <= quiet[t] + MaxHold
    BY <2>1, <2>2, <2>4, LimitsAssumption, TimelyAssumption DEF Claimable
  <2> QED BY <2>1, <2>3, <2>4 DEF IInv, Parked
<1> QED BY <1>2, <1>3

\* A slot that moves on without taking a claim, while the rows stay.
LEMMA MoveOn ==
    ASSUME IInv, NEW s \in Slot, NEW c \in AttemptType,
           row' = row, quiet' = quiet, slot' = [slot EXCEPT ![s] = c],
           c.pc # "idle" => c.session \in Session /\ c.target \in Target,
           c.pc \in HoldPc => /\ slot[s].pc \in HoldPc
                              /\ c.session = slot[s].session
                              /\ c.target = slot[s].target
                              /\ c.hold = slot[s].hold,
           c.pc \in CleanPc => slot[s].pc \in CleanPc
    PROVE  IInv'
<1>1. \A v \in Slot : slot'[v] = IF v = s THEN c ELSE slot[v]
  BY DEF IInv, Typed
<1>2. Typed'
  BY <1>1 DEF IInv, Typed
<1>3. HolderOwnsRow'
  BY <1>1 DEF IInv, HolderOwnsRow, Holding, HoldPc
<1>4. EffectExclusive'
  <2>1. \A v \in Slot : Holding(v)' => Holding(v) /\ slot'[v].target = slot[v].target
    BY <1>1 DEF Holding, HoldPc
  <2> QED BY <2>1 DEF IInv, EffectExclusive
<1>5. Parked'
  BY DEF IInv, Parked
<1>6. Undisturbed'
  BY <1>1 DEF IInv, Undisturbed, CleanPc, HoldPc
<1> QED BY <1>2, <1>3, <1>4, <1>5, <1>6 DEF IInv

\* The record a slot's move leaves is well formed.
LEMMA MovedType ==
    ASSUME IInv, NEW s \in Slot, slot[s].pc # "idle",
           NEW pc \in HoldPc \union {"leased", "unlease"}
    PROVE  LET c == Attempt(pc, slot[s].session, slot[s].target, slot[s].hold)
           IN  /\ c \in AttemptType
               /\ c.pc = pc
               /\ c.session = slot[s].session /\ c.session \in Session
               /\ c.target = slot[s].target /\ c.target \in Target
               /\ c.hold = slot[s].hold
BY DEF IInv, Typed, AttemptType, Attempt, HoldPc

\* A move that neither takes a claim nor changes a row.
LEMMA PlainMove ==
    ASSUME IInv, NEW s \in Slot, slot[s].pc # "idle",
           NEW pc \in HoldPc \union {"leased", "unlease"},
           Move(s, pc), row' = row, quiet' = quiet,
           pc \in HoldPc => slot[s].pc \in HoldPc,
           pc \in CleanPc => slot[s].pc \in CleanPc
    PROVE  IInv'
<1> DEFINE c == Attempt(pc, slot[s].session, slot[s].target, slot[s].hold)
<1>1. slot' = [slot EXCEPT ![s] = c]
  BY DEF Move
<1>2. /\ c \in AttemptType
      /\ c.pc = pc
      /\ c.session = slot[s].session /\ c.session \in Session
      /\ c.target = slot[s].target /\ c.target \in Target
      /\ c.hold = slot[s].hold
  BY MovedType
<1> HIDE DEF c
<1> QED BY <1>1, <1>2, MoveOn

\* Facts of every state that satisfies IInv.
LEMMA Now ==
    ASSUME IInv
    PROVE  /\ row \in [Target -> RowType]
           /\ slot \in [Slot -> AttemptType]
           /\ \A s \in Slot : slot[s].pc # "idle"
                => slot[s].session \in Session /\ slot[s].target \in Target
           /\ quiet \in [Target -> 0..Cooldown + 1]
BY DEF IInv, Typed

-----------------------------------------------------------------------------
\* IInv holds initially.
LEMMA InitInv == Init => IInv
<1> SUFFICES ASSUME Init PROVE IInv
  OBVIOUS
<1>1. \A s \in Slot : slot[s] = Idle
  BY DEF Init
<1>2. slot \in [Slot -> AttemptType]
  BY LimitsAssumption DEF Init, Idle, Attempt, AttemptType
<1>3. row \in [Target -> RowType]
  BY LimitsAssumption DEF Init, Claims, RowType
<1>4. quiet \in [Target -> 0..Cooldown + 1] /\ \A t \in Target : quiet[t] > Cooldown
  BY LimitsAssumption DEF Init
<1>5. \A s \in Slot : slot[s].pc = "idle"
  BY <1>1 DEF Idle, Attempt
<1>6. Typed
  BY <1>2, <1>3, <1>4, <1>5 DEF Typed
<1>7. HolderOwnsRow /\ EffectExclusive /\ Undisturbed
  BY <1>5 DEF HolderOwnsRow, EffectExclusive, Undisturbed, Holding, CleanPc
<1>8. Parked
  BY <1>4, LimitsAssumption DEF Parked
<1> QED BY <1>6, <1>7, <1>8 DEF IInv

\* The upsert that claims a row, acknowledged or not.
LEMMA ClaimLands ==
    ASSUME IInv, NEW s \in Slot, slot[s].pc = "leased",
           Claimable(row[slot[s].target]),
           row' = Claimed(slot[s].target, slot[s].session), quiet' = quiet,
           NEW pc \in {"claimed", "unlease"}, Move(s, pc)
    PROVE  IInv'
<1> DEFINE t == slot[s].target
           ses == slot[s].session
           c == Attempt(pc, ses, t, slot[s].hold)
<1>1. /\ c \in AttemptType
      /\ c.pc = pc
      /\ c.session = ses /\ ses \in Session
      /\ c.target = t /\ t \in Target
      /\ c.hold = slot[s].hold
  BY MovedType DEF HoldPc
<1>2. slot' = [slot EXCEPT ![s] = c]
  BY DEF Move
<1>3. /\ \A v \in Slot : Holding(v) => slot[v].target # t
      /\ quiet[t] > Cooldown
  BY <1>1, ClaimableIsFree
<1>4. row' = [row EXCEPT ![t] = Claims(ses, 0, row[t].cool)]
  BY DEF Claimed
<1>5. c.hold \in Nat
  BY <1>1, LimitsAssumption DEF AttemptType
<1> HIDE DEF t, ses, c
<1>6. \A v \in Slot : slot'[v] = IF v = s THEN c ELSE slot[v]
  BY <1>2, Now
<1>7. \A u \in Target : row'[u] = IF u = t THEN Claims(ses, 0, row[t].cool)
                                          ELSE row[u]
  BY <1>4, Now
<1>8. Claims(ses, 0, row[t].cool) \in RowType
  BY <1>1, Now, LimitsAssumption DEF RowType, Claims
<1>9. Typed'
  <2>1. row' \in [Target -> RowType]
    BY <1>4, <1>8, Now
  <2>2. slot' \in [Slot -> AttemptType]
    BY <1>1, <1>2, Now
  <2> QED BY <2>1, <2>2, <1>1, <1>6, Now DEF Typed
<1>10. HolderOwnsRow'
  <2>1. SUFFICES ASSUME NEW v \in Slot, slot'[v].pc \in HoldPc
                 PROVE  /\ row'[slot'[v].target].by = slot'[v].session
                        /\ row'[slot'[v].target].age <= slot'[v].hold
    BY DEF HolderOwnsRow, Holding, HoldPc
  <2>2. CASE v = s
    <3>1. slot'[v] = c
      BY <1>6, <2>2
    <3>2. row'[c.target] = Claims(ses, 0, row[t].cool)
      BY <1>1, <1>7
    <3> QED BY <1>1, <1>5, <3>1, <3>2 DEF Claims
  <2>3. CASE v # s
    <3>1. slot'[v] = slot[v] /\ Holding(v)
      BY <1>6, <2>1, <2>3 DEF Holding, HoldPc
    <3>2. slot[v].target \in Target /\ slot[v].target # t
      BY <1>3, <3>1, Now DEF Holding
    <3>3. row'[slot[v].target] = row[slot[v].target]
      BY <1>7, <3>2
    <3> QED BY <3>1, <3>3 DEF IInv, HolderOwnsRow
  <2> QED BY <2>2, <2>3
<1>11. EffectExclusive'
  <2>1. \A v \in Slot : v # s /\ Holding(v)'
            => Holding(v) /\ slot'[v].target = slot[v].target
    BY <1>6 DEF Holding
  <2>2. slot'[s].target = t
    BY <1>1, <1>6
  <2> QED BY <1>3, <2>1, <2>2 DEF IInv, EffectExclusive
<1>12. Parked'
  <2>1. SUFFICES ASSUME NEW u \in Target, quiet[u] <= Cooldown
                 PROVE  \/ row'[u].cool <= quiet[u]
                        \/ row'[u].by # NoRef /\ row'[u].age <= quiet[u] + MaxHold
    BY DEF Parked
  <2>2. u # t
    BY <1>1, <1>3, <2>1, Now, LimitsAssumption
  <2> QED BY <1>7, <2>1, <2>2 DEF IInv, Parked
<1>13. Undisturbed'
  <2>1. SUFFICES ASSUME NEW v \in Slot, slot'[v].pc \in CleanPc
                 PROVE  quiet[slot'[v].target] > Cooldown
    BY DEF Undisturbed
  <2>2. CASE v = s
    BY <1>1, <1>3, <1>6, <2>2
  <2>3. CASE v # s
    BY <1>6, <2>1, <2>3 DEF IInv, Undisturbed
  <2> QED BY <2>2, <2>3
<1> QED BY <1>9, <1>10, <1>11, <1>12, <1>13 DEF IInv

\* A release that lands.
LEMMA ReleaseLands ==
    ASSUME IInv, NEW s \in Slot, slot[s].pc \in {"release", "disturbed"},
           row' = [row EXCEPT ![slot[s].target] =
                    Claims(NoRef, 0, IF slot[s].pc = "disturbed" THEN 0
                                     ELSE row[slot[s].target].cool)],
           quiet' = quiet, Move(s, "unlease")
    PROVE  IInv'
<1> DEFINE t == slot[s].target
           c == Attempt("unlease", slot[s].session, t, slot[s].hold)
           cool == IF slot[s].pc = "disturbed" THEN 0 ELSE row[t].cool
<1>1. /\ c \in AttemptType
      /\ c.pc = "unlease"
      /\ c.session \in Session
      /\ c.target = t /\ t \in Target
  BY MovedType
<1>2. slot' = [slot EXCEPT ![s] = c]
  BY DEF Move
<1>3. row' = [row EXCEPT ![t] = Claims(NoRef, 0, cool)]
  OBVIOUS
<1>4. Holding(s)
  BY DEF Holding
<1>5. \/ cool = 0
      \/ quiet[t] > Cooldown
  BY DEF IInv, Undisturbed, CleanPc
<1>6. cool \in 0..Cooldown + 1
  BY <1>1, Now, LimitsAssumption DEF RowType
<1> HIDE DEF t, c, cool
<1>7. \A v \in Slot : slot'[v] = IF v = s THEN c ELSE slot[v]
  BY <1>2, Now
<1>8. \A u \in Target : row'[u] = IF u = t THEN Claims(NoRef, 0, cool)
                                          ELSE row[u]
  BY <1>3, Now
<1>9. Typed'
  <2>1. Claims(NoRef, 0, cool) \in RowType
    BY <1>6, LimitsAssumption DEF RowType, Claims
  <2>2. row' \in [Target -> RowType]
    BY <1>3, <2>1, Now
  <2>3. slot' \in [Slot -> AttemptType]
    BY <1>1, <1>2, Now
  <2> QED BY <2>2, <2>3, <1>1, <1>7, Now DEF Typed
<1>10. \A v \in Slot : Holding(v)' =>
            /\ Holding(v) /\ slot'[v] = slot[v]
            /\ slot[v].target \in Target /\ slot[v].target # t
  <2>1. SUFFICES ASSUME NEW v \in Slot, Holding(v)'
                 PROVE  /\ Holding(v) /\ slot'[v] = slot[v]
                        /\ slot[v].target \in Target /\ slot[v].target # t
    OBVIOUS
  <2>2. v # s
    BY <1>1, <1>7, <2>1 DEF Holding
  <2>3. slot'[v] = slot[v] /\ Holding(v)
    BY <1>7, <2>1, <2>2 DEF Holding
  <2>4. slot[v].target \in Target
    BY <2>3, Now DEF Holding
  <2>5. slot[v].target # t
    BY <1>4, <2>2, <2>3 DEF IInv, EffectExclusive, t
  <2> QED BY <2>3, <2>4, <2>5
<1>11. HolderOwnsRow'
  BY <1>8, <1>10 DEF IInv, HolderOwnsRow
<1>12. EffectExclusive'
  BY <1>10 DEF IInv, EffectExclusive
<1>13. Parked'
  <2>1. SUFFICES ASSUME NEW u \in Target, quiet[u] <= Cooldown
                 PROVE  \/ row'[u].cool <= quiet[u]
                        \/ row'[u].by # NoRef /\ row'[u].age <= quiet[u] + MaxHold
    BY DEF Parked
  <2>2. CASE u = t
    <3>1. cool = 0 /\ quiet[u] \in Nat
      BY <1>5, <2>1, <2>2, Now, LimitsAssumption
    <3>2. row'[u].cool = cool
      BY <1>8, <2>2 DEF Claims
    <3> QED BY <3>1, <3>2
  <2>3. CASE u # t
    BY <1>8, <2>1, <2>3 DEF IInv, Parked
  <2> QED BY <2>2, <2>3
<1>14. Undisturbed'
  BY <1>1, <1>7 DEF IInv, Undisturbed, CleanPc
<1> QED BY <1>9, <1>11, <1>12, <1>13, <1>14 DEF IInv

-----------------------------------------------------------------------------
\* A holder's row is claimed, and was claimed no longer than MaxHold ago.
LEMMA HolderRow ==
    ASSUME IInv, NEW s \in Slot, Holding(s)
    PROVE  /\ slot[s].target \in Target
           /\ row[slot[s].target].by # NoRef
           /\ row[slot[s].target].age \in Nat
           /\ row[slot[s].target].age <= MaxHold
<1>1. slot[s] \in AttemptType /\ slot[s].session \in Session
      /\ slot[s].target \in Target
  BY Now DEF Holding
<1>2. /\ row[slot[s].target].by = slot[s].session
      /\ row[slot[s].target].age <= slot[s].hold
  BY DEF IInv, HolderOwnsRow
<1>3. row[slot[s].target].age \in Nat
  BY <1>1, Now, LimitsAssumption DEF RowType
<1>4. slot[s].hold \in Nat /\ slot[s].hold <= MaxHold
  BY <1>1, LimitsAssumption DEF AttemptType
<1> QED BY <1>1, <1>2, <1>3, <1>4, LimitsAssumption

\* Effects that end disturbed: the rows stay, some slots leave their effect,
\* and the targets of those count as disturbed from now.
LEMMA DisturbedEnd ==
    ASSUME IInv, row' = row, slot' \in [Slot -> AttemptType],
           \A v \in Slot : slot'[v].pc # "idle" =>
                /\ slot'[v].session = slot[v].session
                /\ slot'[v].target = slot[v].target
                /\ slot'[v].hold = slot[v].hold
                /\ slot[v].pc # "idle",
           \A v \in Slot : slot'[v].pc \in HoldPc => slot[v].pc \in HoldPc,
           \A v \in Slot : slot'[v].pc \in CleanPc => slot'[v] = slot[v],
           quiet' \in [Target -> 0..Cooldown + 1],
           \A u \in Target :
                \/ quiet'[u] = quiet[u]
                \/ /\ quiet'[u] = 0
                   /\ \E s \in Slot : /\ slot[s].pc = "effect"
                                      /\ slot[s].target = u
                                      /\ slot'[s].pc \notin CleanPc
    PROVE  IInv'
<1>1. Typed'
  BY Now DEF Typed
<1>2. \A v \in Slot : Holding(v)' =>
            /\ Holding(v)
            /\ slot'[v].session = slot[v].session
            /\ slot'[v].target = slot[v].target
            /\ slot'[v].hold = slot[v].hold
  BY DEF Holding, HoldPc
<1>3. HolderOwnsRow'
  BY <1>2 DEF IInv, HolderOwnsRow
<1>4. EffectExclusive'
  BY <1>2 DEF IInv, EffectExclusive
<1>5. Parked'
  <2>1. SUFFICES ASSUME NEW u \in Target, quiet'[u] <= Cooldown
                 PROVE  \/ row[u].cool <= quiet'[u]
                        \/ row[u].by # NoRef /\ row[u].age <= quiet'[u] + MaxHold
    BY DEF Parked
  <2>2. CASE quiet'[u] = quiet[u]
    BY <2>1, <2>2 DEF IInv, Parked
  <2>3. CASE quiet'[u] = 0 /\ \E s \in Slot : slot[s].pc = "effect"
                                              /\ slot[s].target = u
    <3>1. PICK s \in Slot : slot[s].pc = "effect" /\ slot[s].target = u
      BY <2>3
    <3>2. row[u].by # NoRef /\ row[u].age \in Nat /\ row[u].age <= MaxHold
      BY <3>1, HolderRow DEF Holding
    <3> QED BY <2>3, <3>2, LimitsAssumption
  <2> QED BY <2>2, <2>3
<1>6. Undisturbed'
  <2>1. SUFFICES ASSUME NEW v \in Slot, slot'[v].pc \in CleanPc
                 PROVE  quiet'[slot'[v].target] > Cooldown
    BY DEF Undisturbed
  <2>2. slot'[v] = slot[v] /\ slot[v].pc \in CleanPc /\ Holding(v)
    BY <2>1 DEF CleanPc, Holding
  <2>3. quiet[slot[v].target] > Cooldown /\ slot[v].target \in Target
    BY <2>2, Now DEF IInv, Undisturbed, CleanPc
  <2>4. quiet'[slot[v].target] = quiet[slot[v].target]
    <3>1. SUFFICES ASSUME NEW s \in Slot, slot[s].pc = "effect",
                          slot[s].target = slot[v].target,
                          slot'[s].pc \notin CleanPc
                   PROVE  FALSE
      BY <2>3
    <3>2. s = v
      BY <2>2, <3>1 DEF IInv, EffectExclusive, Holding
    <3> QED BY <2>1, <3>1, <3>2
  <2> QED BY <2>2, <2>3, <2>4
<1> QED BY <1>1, <1>3, <1>4, <1>5, <1>6 DEF IInv

\* One slot's effect ends disturbed.
LEMMA OneDisturbed ==
    ASSUME IInv, NEW s \in Slot, slot[s].pc = "effect",
           NEW pc \in {"disturbed", "unlease"}, Move(s, pc), row' = row,
           quiet' = [quiet EXCEPT ![slot[s].target] = 0]
    PROVE  IInv'
<1> DEFINE c == Attempt(pc, slot[s].session, slot[s].target, slot[s].hold)
<1>1. /\ c \in AttemptType
      /\ c.pc = pc
      /\ c.session = slot[s].session
      /\ c.target = slot[s].target
      /\ c.hold = slot[s].hold
  BY MovedType DEF HoldPc
<1>2. slot' = [slot EXCEPT ![s] = c]
  BY DEF Move
<1> HIDE DEF c
<1>3. /\ slot' \in [Slot -> AttemptType]
      /\ \A v \in Slot : slot'[v] = IF v = s THEN c ELSE slot[v]
  BY <1>1, <1>2, Now
<1>4. /\ quiet' \in [Target -> 0..Cooldown + 1]
      /\ \A u \in Target : quiet'[u] = quiet[u]
                           \/ (quiet'[u] = 0 /\ u = slot[s].target)
  BY Now, LimitsAssumption
<1>5. slot'[s].pc \notin CleanPc
  BY <1>1, <1>3 DEF CleanPc
<1>6. \A v \in Slot : slot'[v].pc \in CleanPc => slot'[v] = slot[v]
  BY <1>3, <1>5
<1>7. \A v \in Slot : slot'[v].pc # "idle" =>
                /\ slot'[v].session = slot[v].session
                /\ slot'[v].target = slot[v].target
                /\ slot'[v].hold = slot[v].hold
                /\ slot[v].pc # "idle"
  BY <1>1, <1>3
<1>8. \A v \in Slot : slot'[v].pc \in HoldPc => slot[v].pc \in HoldPc
  BY <1>3 DEF HoldPc
<1>9. \A u \in Target :
                \/ quiet'[u] = quiet[u]
                \/ /\ quiet'[u] = 0
                   /\ \E v \in Slot : /\ slot[v].pc = "effect"
                                      /\ slot[v].target = u
                                      /\ slot'[v].pc \notin CleanPc
  BY <1>4, <1>5
<1> QED BY <1>3, <1>4, <1>6, <1>7, <1>8, <1>9, DisturbedEnd

\* A crash ends every effect of its process.
LEMMA CrashInv == ASSUME IInv, NEW w \in Worker, Crash(w) PROVE IInv'
<1>1. row' = row
  BY DEF Crash
<1>2. \A v \in Slot : slot'[v] = IF WorkerOf(v) = w THEN Idle ELSE slot[v]
  BY DEF Crash
<1>3. Idle \in AttemptType /\ Idle.pc = "idle"
  BY LimitsAssumption DEF Idle, Attempt, AttemptType
<1>4. slot' \in [Slot -> AttemptType]
  <2>1. slot' = [v \in Slot |-> IF WorkerOf(v) = w THEN Idle ELSE slot[v]]
    BY DEF Crash
  <2> QED BY <1>3, <2>1, Now
<1>5. /\ quiet' \in [Target -> 0..Cooldown + 1]
      /\ \A u \in Target : quiet'[u] = quiet[u]
            \/ (/\ quiet'[u] = 0
                /\ \E s \in Slot : WorkerOf(s) = w /\ slot[s].pc = "effect"
                                   /\ slot[s].target = u)
  BY Now, LimitsAssumption DEF Crash
<1>6. \A v \in Slot : slot'[v].pc # "idle" => slot'[v] = slot[v]
  BY <1>2, <1>3
<1>7. \A v \in Slot : WorkerOf(v) = w => slot'[v].pc \notin CleanPc
  BY <1>2, <1>3 DEF CleanPc
<1>8. \A u \in Target :
                \/ quiet'[u] = quiet[u]
                \/ /\ quiet'[u] = 0
                   /\ \E v \in Slot : /\ slot[v].pc = "effect"
                                      /\ slot[v].target = u
                                      /\ slot'[v].pc \notin CleanPc
  BY <1>5, <1>7
<1>9. /\ \A v \in Slot : slot'[v].pc \in HoldPc => slot[v].pc \in HoldPc
      /\ \A v \in Slot : slot'[v].pc \in CleanPc => slot'[v] = slot[v]
  BY <1>6 DEF HoldPc, CleanPc
<1> QED BY <1>1, <1>4, <1>5, <1>6, <1>8, <1>9, DisturbedEnd

\* Ages grow by at most one, and are capped.
LEMMA OlderFacts ==
    ASSUME NEW b \in Nat, NEW a \in 0..b
    PROVE  /\ Older(a, b) \in 0..b
           /\ Older(a, b) <= a + 1
           /\ Older(a, b) < b => Older(a, b) = a + 1
           /\ a = b => Older(a, b) = b
BY DEF Older

\* Time passes.
LEMMA TickInv == ASSUME IInv, Tick PROVE IInv'
<1>1. \A u \in Target :
        /\ row'[u].by = row[u].by
        /\ row'[u].age = IF row[u].by = NoRef THEN 0
                         ELSE Older(row[u].age, ClaimTTL + 1)
        /\ row'[u].cool = Older(row[u].cool, Cooldown + 1)
  BY DEF Tick, Claims
<1>2. \A u \in Target : /\ row[u].age \in 0..ClaimTTL + 1
                        /\ row[u].cool \in 0..Cooldown + 1
                        /\ row[u].by \in Session \union {NoRef}
                        /\ quiet[u] \in 0..Cooldown + 1
  BY Now DEF RowType
<1>3. \A u \in Target : quiet'[u] = Older(quiet[u], Cooldown + 1)
  BY DEF Tick
<1>4. ClaimTTL + 1 \in Nat /\ Cooldown + 1 \in Nat
  BY LimitsAssumption
<1>5. \A u \in Target :
        /\ row'[u].age \in 0..ClaimTTL + 1
        /\ row'[u].age <= row[u].age + 1
        /\ row'[u].cool \in 0..Cooldown + 1
        /\ row'[u].cool <= row[u].cool + 1
        /\ quiet'[u] \in 0..Cooldown + 1
        /\ quiet'[u] <= Cooldown => quiet'[u] = quiet[u] + 1
        /\ quiet[u] > Cooldown => quiet'[u] > Cooldown
  <2>1. TAKE u \in Target
  <2>2. row'[u].age \in 0..ClaimTTL + 1 /\ row'[u].age <= row[u].age + 1
    <3>1. CASE row[u].by = NoRef
      <4>1. row'[u].age = 0
        BY <1>1, <3>1
      <4> QED BY <1>2, <1>4, <4>1
    <3>2. CASE row[u].by # NoRef
      <4>1. row'[u].age = Older(row[u].age, ClaimTTL + 1)
        BY <1>1, <3>2
      <4> QED BY <1>2, <1>4, <4>1, OlderFacts
    <3> QED BY <3>1, <3>2
  <2>3. row'[u].cool \in 0..Cooldown + 1 /\ row'[u].cool <= row[u].cool + 1
    BY <1>1, <1>2, <1>4, OlderFacts
  <2>4. quiet'[u] \in 0..Cooldown + 1 /\ (quiet'[u] < Cooldown + 1 => quiet'[u] = quiet[u] + 1)
        /\ (quiet[u] = Cooldown + 1 => quiet'[u] = Cooldown + 1)
    BY <1>2, <1>3, <1>4, OlderFacts
  <2>5. /\ quiet'[u] <= Cooldown => quiet'[u] = quiet[u] + 1
        /\ quiet[u] > Cooldown => quiet'[u] > Cooldown
    BY <1>2, <2>4, LimitsAssumption
  <2> QED BY <2>2, <2>3, <2>4, <2>5
<1>6. \A v \in Slot :
        /\ slot'[v].pc = slot[v].pc
        /\ slot'[v].session = slot[v].session
        /\ slot'[v].target = slot[v].target
        /\ slot'[v].hold \in 0..MaxHold
        /\ Holding(v) => slot'[v].hold = slot[v].hold + 1
        /\ slot'[v] \in AttemptType
  <2>1. TAKE v \in Slot
  <2>2. slot[v] \in AttemptType
    BY Now
  <2>3. CASE Running(v)
    <3>1. slot'[v] = Attempt(slot[v].pc, slot[v].session, slot[v].target,
                             slot[v].hold + 1)
      BY <2>3 DEF Tick
    <3>2. slot[v].hold # MaxHold
      BY <2>3 DEF Tick, DeadlineDue
    <3>3. slot[v].hold + 1 \in 0..MaxHold
      BY <2>2, <3>2, LimitsAssumption DEF AttemptType
    <3> QED BY <2>2, <3>1, <3>3 DEF Attempt, AttemptType
  <2>4. CASE ~Running(v)
    <3>1. slot'[v] = slot[v] /\ ~Holding(v)
      BY <2>4 DEF Tick, Running
    <3> QED BY <2>2, <3>1 DEF AttemptType
  <2> QED BY <2>3, <2>4
<1>7. Typed'
  <2>1. row' \in [Target -> RowType]
    <3>1. row' = [u \in Target |-> Claims(row'[u].by, row'[u].age, row'[u].cool)]
      BY DEF Tick, Claims
    <3> QED BY <1>1, <1>2, <1>5, <3>1 DEF RowType, Claims
  <2>2. slot' \in [Slot -> AttemptType]
    <3>1. slot' = [v \in Slot |-> slot'[v]]
      BY DEF Tick
    <3> QED BY <1>6, <3>1
  <2>3. quiet' \in [Target -> 0..Cooldown + 1]
    <3>1. quiet' = [u \in Target |-> quiet'[u]]
      BY DEF Tick
    <3> QED BY <1>5, <3>1
  <2> QED BY <1>6, <2>1, <2>2, <2>3, Now DEF Typed
<1>8. \A v \in Slot : (Holding(v)' <=> Holding(v))
  BY <1>6 DEF Holding
<1>9. HolderOwnsRow'
  <2>1. SUFFICES ASSUME NEW v \in Slot, Holding(v)
                 PROVE  /\ row'[slot'[v].target].by = slot'[v].session
                        /\ row'[slot'[v].target].age <= slot'[v].hold
    BY <1>8 DEF HolderOwnsRow
  <2>2. /\ slot[v].target \in Target
        /\ row[slot[v].target].by = slot[v].session
        /\ row[slot[v].target].age <= slot[v].hold
    BY <2>1, HolderRow DEF IInv, HolderOwnsRow
  <2>3. slot[v].hold \in Nat
    BY Now, LimitsAssumption DEF AttemptType
  <2>4. /\ row[slot[v].target].age \in Nat
        /\ row'[slot[v].target].age \in Nat
        /\ row'[slot[v].target].age <= row[slot[v].target].age + 1
    BY <1>2, <1>5, <2>2, LimitsAssumption
  <2>5. slot'[v].hold = slot[v].hold + 1 /\ slot'[v].target = slot[v].target
        /\ slot'[v].session = slot[v].session
    BY <1>6, <2>1
  <2>6. row'[slot[v].target].age <= slot[v].hold + 1
    BY <2>2, <2>3, <2>4
  <2> QED BY <1>1, <2>2, <2>5, <2>6
<1>10. EffectExclusive'
  BY <1>6, <1>8 DEF IInv, EffectExclusive
<1>11. Parked'
  <2>1. SUFFICES ASSUME NEW u \in Target, quiet'[u] <= Cooldown
                 PROVE  \/ row'[u].cool <= quiet'[u]
                        \/ row'[u].by # NoRef /\ row'[u].age <= quiet'[u] + MaxHold
    BY DEF Parked
  <2>2. quiet'[u] = quiet[u] + 1 /\ quiet[u] \in Nat
    BY <1>2, <1>5, <2>1, LimitsAssumption
  <2>3. quiet[u] <= Cooldown
    BY <2>1, <2>2, LimitsAssumption
  <2>4. /\ row[u].age \in Nat /\ row'[u].age \in Nat
        /\ row[u].cool \in Nat /\ row'[u].cool \in Nat
    BY <1>2, <1>5, LimitsAssumption
  <2>5. CASE row[u].cool <= quiet[u]
    BY <1>5, <2>2, <2>4, <2>5
  <2>6. CASE row[u].by # NoRef /\ row[u].age <= quiet[u] + MaxHold
    BY <1>1, <1>5, <2>2, <2>4, <2>6, LimitsAssumption
  <2> QED BY <2>3, <2>5, <2>6 DEF IInv, Parked
<1>12. Undisturbed'
  BY <1>5, <1>6, Now DEF IInv, Undisturbed, CleanPc
<1> QED BY <1>7, <1>9, <1>10, <1>11, <1>12 DEF IInv

-----------------------------------------------------------------------------
\* Every step of one actuation preserves IInv.
LEMMA ActuationInv ==
    ASSUME IInv, NEW s \in Slot, Step(s)
    PROVE  IInv'
<1>1. CASE Claim(s)
  <2>1. slot[s].pc = "leased" /\ quiet' = quiet
    BY <1>1 DEF Claim, history
  <2>2. CASE /\ Claimable(row[slot[s].target])
             /\ row' = Claimed(slot[s].target, slot[s].session)
             /\ Move(s, "claimed")
    BY <2>1, <2>2, ClaimLands
  <2>3. CASE /\ Claimable(row[slot[s].target])
             /\ row' = Claimed(slot[s].target, slot[s].session)
             /\ Move(s, "unlease")
    BY <2>1, <2>3, ClaimLands
  <2>4. CASE row' = row /\ Move(s, "unlease")
    BY <2>1, <2>4, PlainMove DEF HoldPc, CleanPc
  <2> QED BY <1>1, <2>2, <2>3, <2>4 DEF Claim
<1>2. CASE RefuseClaimed(s)
  BY <1>2, PlainMove DEF RefuseClaimed, history, HoldPc, CleanPc
<1>3. CASE Exec(s)
  BY <1>3, PlainMove DEF Exec, HoldPc, CleanPc
<1>4. CASE ExecDone(s)
  BY <1>4, PlainMove DEF ExecDone, history, HoldPc, CleanPc
<1>5. CASE ExecFailed(s)
  BY <1>5, OneDisturbed DEF ExecFailed
<1>6. CASE Cancel(s)
  <2>1. CASE slot[s].pc = "effect"
    BY <1>6, <2>1, OneDisturbed DEF Cancel
  <2>2. CASE slot[s].pc # "effect"
    <3>1. quiet' = quiet /\ row' = row /\ Move(s, "unlease") /\ slot[s].pc # "idle"
      BY <1>6, <2>2 DEF Cancel, Running, Holding
    <3> QED BY <3>1, PlainMove DEF HoldPc, CleanPc
  <2> QED BY <2>1, <2>2
<1>7. CASE ClaimRelease(s)
  <2>1. /\ slot[s].pc \in {"release", "disturbed"}
        /\ quiet' = quiet /\ Move(s, "unlease")
    BY <1>7 DEF ClaimRelease, history
  <2>2. CASE row' = row
    BY <2>1, <2>2, PlainMove DEF HoldPc, CleanPc
  <2>3. CASE row' = [row EXCEPT ![slot[s].target] =
                    Claims(NoRef, 0, IF slot[s].pc = "disturbed" THEN 0
                                     ELSE row[slot[s].target].cool)]
    BY <2>1, <2>3, ReleaseLands
  <2> QED BY <1>7, <2>2, <2>3, Now DEF ClaimRelease
<1>8. CASE LeaseRelease(s)
  <2>1. Idle \in AttemptType /\ Idle.pc = "idle"
    BY LimitsAssumption DEF Idle, Attempt, AttemptType
  <2>2. row' = row /\ quiet' = quiet /\ slot' = [slot EXCEPT ![s] = Idle]
    BY <1>8 DEF LeaseRelease, history
  <2> QED BY <2>1, <2>2, MoveOn DEF HoldPc, CleanPc
<1> QED BY <1>1, <1>2, <1>3, <1>4, <1>5, <1>6, <1>7, <1>8 DEF Step

\* An actuation is admitted by the limiter.
LEMMA AdmitInv ==
    ASSUME IInv, NEW s \in Slot, NEW ses \in Session, NEW tgt \in Target,
           LimiterAdmit(s, ses, tgt)
    PROVE  IInv'
<1> DEFINE a == Attempt("leased", ses, tgt, 0)
<1>1. /\ a \in AttemptType
      /\ a.pc = "leased" /\ a.session \in Session /\ a.target \in Target
  BY LimitsAssumption DEF Attempt, AttemptType
<1>2. row' = row /\ quiet' = quiet /\ slot' = [slot EXCEPT ![s] = a]
  BY DEF LimiterAdmit, history
<1> HIDE DEF a
<1> QED BY <1>1, <1>2, MoveOn DEF HoldPc, CleanPc

\* Every step preserves IInv.
LEMMA StepInv == IInv /\ [Next]_vars => IInv'
<1> SUFFICES ASSUME IInv, [Next]_vars PROVE IInv'
  OBVIOUS
<1>1. ASSUME NEW s \in Slot, NEW ses \in Session, NEW tgt \in Target,
             LimiterAdmit(s, ses, tgt)
      PROVE  IInv'
  BY <1>1, AdmitInv
<1>2. ASSUME NEW s \in Slot, Step(s) PROVE IInv'
  BY <1>2, ActuationInv
<1>3. ASSUME NEW w \in Worker, Crash(w) PROVE IInv'
  BY <1>3, CrashInv
<1>4. CASE Tick
  BY <1>4, TickInv
<1>5. CASE UNCHANGED vars
  BY <1>5 DEF vars, IInv, Typed, HolderOwnsRow, EffectExclusive, Parked,
              Undisturbed, Holding
<1> QED BY <1>1, <1>2, <1>3, <1>4, <1>5 DEF Next

\* IInv is an invariant of the specification.
LEMMA Invariance == Spec => []IInv
BY InitInv, StepInv, PTL DEF Spec

\* No two actuations, in one process or in two, are between the claim and the
\* release of one target (ActuationTargetStore.Admit and Release, gate 4h2),
\* whatever crashed, timed out or was lost.
THEOREM Exclusive == Spec => []EffectExclusive
<1>1. IInv => EffectExclusive
  BY DEF IInv
<1> QED BY <1>1, Invariance, PTL

\* An actuation that fires its effect finds its target quiet.
LEMMA FiresQuiet ==
    ASSUME IInv, [Next]_vars, NEW s \in Slot,
           slot[s].pc # "effect", slot'[s].pc = "effect"
    PROVE  quiet[slot[s].target] > Cooldown
<1>1. SUFFICES slot[s].pc = "claimed"
  BY DEF IInv, Undisturbed, CleanPc
<1>2. ASSUME NEW v \in Slot, NEW ses \in Session, NEW tgt \in Target,
             LimiterAdmit(v, ses, tgt)
      PROVE  FALSE
  BY <1>2, Now DEF LimiterAdmit, Attempt
<1>3. ASSUME NEW v \in Slot, Step(v) PROVE slot[s].pc = "claimed"
  <2>1. CASE Exec(v)
    BY <2>1, Now DEF Exec, Move, Attempt
  <2>2. CASE LeaseRelease(v)
    BY <2>2, Now DEF LeaseRelease, Idle, Attempt
  <2>3. ASSUME NEW pc \in {"claimed", "release", "disturbed", "unlease"},
               Move(v, pc)
        PROVE  FALSE
    BY <2>3, Now DEF Move, Attempt
  <2> QED BY <1>3, <2>1, <2>2, <2>3
          DEF Step, Claim, RefuseClaimed, ExecDone, ExecFailed, Cancel,
              ClaimRelease
<1>4. ASSUME NEW w \in Worker, Crash(w) PROVE FALSE
  BY <1>4, Now DEF Crash, Idle, Attempt
<1>5. CASE Tick
  BY <1>5, Now DEF Tick, Attempt
<1>6. CASE UNCHANGED vars
  BY <1>6 DEF vars
<1> QED BY <1>2, <1>3, <1>4, <1>5, <1>6 DEF Next

\* After an effect failed, was cancelled or died with its process, no effect
\* starts on its target for the length of the cooldown, although the release
\* that stamps the cooldown (ActuationTargetStore.Release) may have been lost.
THEOREM Parks == Spec => DisturbedParks
<1>1. IInv /\ [Next]_vars =>
        [\A s \in Slot : slot[s].pc # "effect" /\ slot'[s].pc = "effect"
            => quiet[slot[s].target] > Cooldown]_vars
  BY FiresQuiet
<1> QED BY <1>1, Invariance, PTL DEF Spec, DisturbedParks

-----------------------------------------------------------------------------
\* The limiter's counts, as functions, and the leases they count.
LeaseInv == inFlight \in [Worker -> [Key -> Nat]] /\ LeaseExact

\* The leases of a process on a key are finitely many.
LEMMA LeasedFinite ==
    ASSUME NEW w, NEW k
    PROVE  IsFiniteSet(Leased(w, k)) /\ Cardinality(Leased(w, k)) \in Nat
<1>1. IsFiniteSet(Leased(w, k))
  BY LimitsAssumption, FS_Subset DEF Leased
<1> QED BY <1>1, FS_CardinalityType

\* A step in which every actuation keeps its lease keeps the counts right.
LEMMA LeasesKept ==
    ASSUME LeaseInv, inFlight' = inFlight,
           \A v \in Slot :
                /\ slot'[v].pc = "idle" <=> slot[v].pc = "idle"
                /\ slot[v].pc # "idle" => /\ slot'[v].session = slot[v].session
                                          /\ slot'[v].target = slot[v].target
    PROVE  LeaseInv'
<1>1. ASSUME NEW w \in Worker, NEW k \in Key PROVE Leased(w, k)' = Leased(w, k)
  BY DEF Leased, KeysOf
<1> QED BY <1>1 DEF LeaseInv, LeaseExact

\* A move of an actuation in progress to a place that is not idle.
LEMMA LeaseMoves ==
    ASSUME IInv, LeaseInv, NEW s \in Slot, slot[s].pc # "idle",
           NEW pc, pc # "idle", Move(s, pc), inFlight' = inFlight
    PROVE  LeaseInv'
<1>1. slot \in [Slot -> AttemptType]
  BY Now
<1>2. slot' = [slot EXCEPT ![s] =
                Attempt(pc, slot[s].session, slot[s].target, slot[s].hold)]
  BY <1>1 DEF Move
<1> QED BY <1>1, <1>2, LeasesKept DEF Attempt

\* Admit takes a place of each of its two keys for one more actuation.
LEMMA LeaseTaken ==
    ASSUME IInv, LeaseInv, NEW s \in Slot, NEW ses \in Session,
           NEW tgt \in Target, LimiterAdmit(s, ses, tgt)
    PROVE  LeaseInv'
<1> DEFINE a == Attempt("leased", ses, tgt, 0)
           w == WorkerOf(s)
<1>1. w \in Worker /\ slot \in [Slot -> AttemptType] /\ slot[s].pc = "idle"
  BY LimitsAssumption, Now DEF LimiterAdmit
<1>2. /\ slot' = [slot EXCEPT ![s] = a] /\ a.pc = "leased"
      /\ inFlight' = [inFlight EXCEPT ![w] = [k \in Key |->
            IF k \in KeysOf(a) THEN inFlight[w][k] + 1 ELSE inFlight[w][k]]]
  BY <1>1 DEF LimiterAdmit, Attempt, LeaseInv
<1> HIDE DEF a, w
<1>3. inFlight' \in [Worker -> [Key -> Nat]]
  BY <1>1, <1>2 DEF LeaseInv
<1>4. ASSUME NEW v \in Worker, NEW k \in Key
      PROVE  inFlight'[v][k] = Cardinality(Leased(v, k)')
  <2>1. inFlight[v][k] = Cardinality(Leased(v, k)) /\ s \notin Leased(v, k)
    BY <1>1 DEF LeaseInv, LeaseExact, Leased
  <2>2. CASE v = w /\ k \in KeysOf(a)
    <3>1. Leased(v, k)' = Leased(v, k) \union {s}
      BY <1>1, <1>2, <2>2 DEF Leased, w
    <3>2. inFlight'[v][k] = inFlight[v][k] + 1
      BY <1>1, <1>2, <2>2 DEF LeaseInv
    <3> QED BY <2>1, <3>1, <3>2, LeasedFinite, FS_AddElement
  <2>3. CASE ~(v = w /\ k \in KeysOf(a))
    <3>1. Leased(v, k)' = Leased(v, k)
      BY <1>1, <1>2, <2>3 DEF Leased, w
    <3>2. inFlight'[v][k] = inFlight[v][k]
      BY <1>1, <1>2, <2>3 DEF LeaseInv
    <3> QED BY <2>1, <3>1, <3>2
  <2> QED BY <2>2, <2>3
<1> QED BY <1>3, <1>4 DEF LeaseInv, LeaseExact

\* Release gives back what Admit took: the count it lowers is not zero.
LEMMA LeaseReturned ==
    ASSUME IInv, LeaseInv, NEW s \in Slot, LeaseRelease(s)
    PROVE  LeaseInv'
<1> DEFINE w == WorkerOf(s)
           Keys == KeysOf(slot[s])
<1>1. w \in Worker /\ slot \in [Slot -> AttemptType] /\ slot[s].pc = "unlease"
  BY LimitsAssumption, Now DEF LeaseRelease
<1>2. /\ slot' = [slot EXCEPT ![s] = Idle] /\ Idle.pc = "idle"
      /\ inFlight' = [inFlight EXCEPT ![w] = [k \in Key |->
            IF k \in Keys /\ inFlight[w][k] > 0 THEN inFlight[w][k] - 1
                                               ELSE inFlight[w][k]]]
  BY <1>1 DEF LeaseRelease, LeaseKeys, Idle, Attempt, LeaseInv
<1>3. \A k : k \in Keys <=> k \in KeysOf(slot[s])
  OBVIOUS
<1> HIDE DEF w, Keys
<1>4. inFlight' \in [Worker -> [Key -> Nat]]
  BY <1>1, <1>2 DEF LeaseInv
<1>5. ASSUME NEW v \in Worker, NEW k \in Key
      PROVE  inFlight'[v][k] = Cardinality(Leased(v, k)')
  <2>1. inFlight[v][k] = Cardinality(Leased(v, k))
    BY DEF LeaseInv, LeaseExact
  <2>2. CASE v = w /\ k \in Keys
    <3>1. Leased(v, k)' = Leased(v, k) \ {s} /\ s \in Leased(v, k)
      BY <1>1, <1>2, <1>3, <2>2 DEF Leased, w
    <3>2. /\ Cardinality(Leased(v, k)') = Cardinality(Leased(v, k)) - 1
          /\ Cardinality(Leased(v, k)) \in Nat \ {0}
      BY <3>1, LeasedFinite, FS_RemoveElement, FS_EmptySet
    <3>3. inFlight'[v][k] = inFlight[v][k] - 1
      BY <1>1, <1>2, <2>1, <2>2, <3>2 DEF LeaseInv
    <3> QED BY <2>1, <3>2, <3>3
  <2>3. CASE ~(v = w /\ k \in Keys)
    <3>1. Leased(v, k)' = Leased(v, k)
      BY <1>1, <1>2, <1>3, <2>3 DEF Leased, w
    <3>2. inFlight'[v][k] = inFlight[v][k]
      BY <1>1, <1>2, <2>3 DEF LeaseInv
    <3> QED BY <2>1, <3>1, <3>2
  <2> QED BY <2>2, <2>3
<1> QED BY <1>4, <1>5 DEF LeaseInv, LeaseExact

\* Every step keeps the counts equal to the leases.
LEMMA LeaseStep ==
    ASSUME IInv, LeaseInv, [Next]_vars
    PROVE  LeaseInv'
<1>1. ASSUME NEW s \in Slot, NEW ses \in Session, NEW tgt \in Target,
             LimiterAdmit(s, ses, tgt)
      PROVE  LeaseInv'
  BY <1>1, LeaseTaken
<1>2. ASSUME NEW s \in Slot, Step(s) PROVE LeaseInv'
  <2>1. CASE LeaseRelease(s)
    BY <2>1, LeaseReturned
  <2>2. CASE ~LeaseRelease(s)
    <3>1. /\ slot[s].pc # "idle" /\ inFlight' = inFlight
          /\ \E pc \in HoldPc \union {"unlease"} : Move(s, pc)
      BY <1>2, <2>2 DEF Step, Claim, RefuseClaimed, Exec, ExecDone, ExecFailed,
                        Cancel, Running, Holding, ClaimRelease, HoldPc
    <3> QED BY <3>1, LeaseMoves DEF HoldPc
  <2> QED BY <2>1, <2>2
<1>3. ASSUME NEW w \in Worker, Crash(w) PROVE LeaseInv'
  <2>1. /\ \A s \in Slot : slot'[s] = IF WorkerOf(s) = w THEN Idle ELSE slot[s]
        /\ inFlight' = [inFlight EXCEPT ![w] = [k \in Key |-> 0]]
        /\ Idle.pc = "idle"
    BY <1>3 DEF Crash, Idle, Attempt
  <2>2. inFlight' \in [Worker -> [Key -> Nat]]
    BY <2>1 DEF LeaseInv
  <2>3. ASSUME NEW v \in Worker, NEW k \in Key
        PROVE  inFlight'[v][k] = Cardinality(Leased(v, k)')
    <3>1. CASE v = w
      <4>1. Leased(v, k)' = {} /\ inFlight'[v][k] = 0
        BY <2>1, <3>1 DEF Leased, LeaseInv
      <4> QED BY <4>1, FS_EmptySet
    <3>2. CASE v # w
      <4>1. Leased(v, k)' = Leased(v, k) /\ inFlight'[v][k] = inFlight[v][k]
        BY <2>1, <3>2 DEF Leased, LeaseInv
      <4> QED BY <4>1 DEF LeaseInv, LeaseExact
    <3> QED BY <3>1, <3>2
  <2> QED BY <2>2, <2>3 DEF LeaseInv, LeaseExact
<1>4. CASE Tick
  <2>1. /\ inFlight' = inFlight
        /\ \A v \in Slot : slot'[v] = slot[v]
            \/ slot'[v] = Attempt(slot[v].pc, slot[v].session, slot[v].target,
                                  slot[v].hold + 1)
    BY <1>4 DEF Tick
  <2>2. \A v \in Slot : /\ slot'[v].pc = slot[v].pc
                        /\ slot'[v].session = slot[v].session
                        /\ slot'[v].target = slot[v].target
    <3> TAKE v \in Slot
    <3>1. CASE slot'[v] = slot[v]
      BY <3>1
    <3>2. CASE slot'[v] = Attempt(slot[v].pc, slot[v].session, slot[v].target,
                                  slot[v].hold + 1)
      BY <3>2 DEF Attempt
    <3> QED BY <2>1, <3>1, <3>2
  <2> QED BY <2>1, <2>2, LeasesKept
<1>5. CASE UNCHANGED vars
  BY <1>5, LeasesKept DEF vars
<1> QED BY <1>1, <1>2, <1>3, <1>4, <1>5 DEF Next

\* LeaseInv is an invariant of the specification.
LEMMA LeaseInvariance == Spec => []LeaseInv
<1>1. Init => LeaseInv
  <2> SUFFICES ASSUME Init PROVE LeaseInv
    OBVIOUS
  <2>1. \A w \in Worker, k \in Key : Leased(w, k) = {}
    BY DEF Init, Leased, Idle, Attempt
  <2> QED BY <2>1, FS_EmptySet DEF Init, LeaseInv, LeaseExact
<1>2. IInv /\ LeaseInv /\ [Next]_vars => LeaseInv'
  BY LeaseStep
<1> QED BY <1>1, <1>2, Invariance, PTL DEF Spec

\* The in-flight count of every session and target is the number of actuations
\* that hold a lease on it, in every process: refusals, cancellations, lost
\* releases and restarts neither leak a place nor return one twice
\* (ActuationLimiter.Admit, ActuationLease.Release).
THEOREM LeasesCounted == Spec => []LeaseExact
<1>1. LeaseInv => LeaseExact
  BY DEF LeaseInv
<1> QED BY <1>1, LeaseInvariance, PTL

-----------------------------------------------------------------------------
\* The limiter's windows and the effects charged to them.
AdmissionType == [age : 0..Window, nth : Nat]
EffectType == [age : Nat, adm : AdmissionType]

BudgetTyped ==
    /\ admitted \in [Worker -> [Key -> SUBSET AdmissionType]]
    /\ fired \in [Worker -> [Key -> SUBSET EffectType]]
    /\ turn \in [Worker -> Nat]
    /\ charged \in [Slot -> Nat]

BudgetIInv == BudgetTyped /\ BudgetInv

\* The admission of an actuation on its way to the effect is not yet old, and
\* its session is a key of the limiter.
LEMMA ChargingFacts ==
    ASSUME IInv, BudgetTyped, NEW s \in Slot, Charging(s)
    PROVE  /\ AdmissionOf(s) \in AdmissionType
           /\ AdmissionOf(s).age = slot[s].hold
           /\ AdmissionOf(s).age <= MaxHold
           /\ AdmissionOf(s).age < Window
           /\ <<"session", slot[s].session>> \in Key
           /\ <<"session", slot[s].session>> \in KeysOf(slot[s])
<1>1. slot[s] \in AttemptType /\ slot[s].session \in Session
  BY Now DEF Charging
<1>2. slot[s].hold \in 0..MaxHold /\ charged[s] \in Nat
  BY <1>1 DEF AttemptType, BudgetTyped
<1>3. /\ AdmissionOf(s).age = slot[s].hold
      /\ AdmissionOf(s) = [age |-> slot[s].hold, nth |-> charged[s]]
  BY DEF AdmissionOf, Admission
<1>4. slot[s].hold \in 0..Window /\ slot[s].hold <= MaxHold /\ slot[s].hold < Window
  BY <1>2, LimitsAssumption, TimelyAssumption
<1>5. AdmissionOf(s) \in AdmissionType
  BY <1>2, <1>3, <1>4 DEF AdmissionType
<1>6. <<"session", slot[s].session>> \in Key
  BY <1>1 DEF Key
<1> QED BY <1>3, <1>4, <1>5, <1>6 DEF KeysOf

\* A step that admits nothing, fires nothing and starts nothing.
LEMMA AccountsKept ==
    ASSUME BudgetInv, admitted' = admitted, fired' = fired, turn' = turn,
           \A v \in Slot : Charging(v)' =>
                /\ Charging(v)
                /\ KeysOf(slot'[v]) = KeysOf(slot[v])
                /\ AdmissionOf(v)' = AdmissionOf(v)
    PROVE  BudgetInv'
<1>1. OwnAdmission'
  BY DEF BudgetInv, OwnAdmission
<1>2. ASSUME NEW w \in Worker, NEW k \in Key PROVE Account(w, k)'
  <2>1. Account(w, k)
    BY DEF BudgetInv
  <2>2. \A v \in Slot : ChargedTo(v, w, k)' =>
            ChargedTo(v, w, k) /\ AdmissionOf(v)' = AdmissionOf(v)
    BY DEF ChargedTo
  <2> QED BY <2>1, <2>2 DEF Account
<1> QED BY <1>1, <1>2 DEF BudgetInv

\* An actuation moves on, without starting an effect.
LEMMA BudgetMoves ==
    ASSUME IInv, BudgetIInv, NEW s \in Slot, NEW pc, Move(s, pc),
           pc \in {"leased", "claimed"} => Charging(s),
           admitted' = admitted, fired' = fired, turn' = turn, charged' = charged
    PROVE  BudgetIInv'
<1>1. slot' = [slot EXCEPT ![s] =
            Attempt(pc, slot[s].session, slot[s].target, slot[s].hold)]
      /\ slot \in [Slot -> AttemptType]
  BY Now DEF Move
<1>2. \A v \in Slot : Charging(v)' =>
                /\ Charging(v)
                /\ KeysOf(slot'[v]) = KeysOf(slot[v])
                /\ AdmissionOf(v)' = AdmissionOf(v)
  <2> TAKE v \in Slot
  <2>1. CASE v = s
    BY <1>1, <2>1 DEF Charging, KeysOf, AdmissionOf, Attempt
  <2>2. CASE v # s
    BY <1>1, <2>2 DEF Charging, KeysOf, AdmissionOf
  <2> QED BY <2>1, <2>2
<1>3. BudgetInv'
  BY <1>2, AccountsKept DEF BudgetIInv
<1> QED BY <1>3 DEF BudgetIInv, BudgetTyped

\* A lease given back leaves no actuation on its way to an effect.
LEMMA BudgetReturned ==
    ASSUME IInv, BudgetIInv, NEW s \in Slot, LeaseRelease(s)
    PROVE  BudgetIInv'
<1>1. /\ slot' = [slot EXCEPT ![s] = Idle] /\ Idle.pc = "idle"
      /\ charged' = [charged EXCEPT ![s] = 0]
      /\ admitted' = admitted /\ fired' = fired /\ turn' = turn
      /\ slot \in [Slot -> AttemptType] /\ charged \in [Slot -> Nat]
  BY Now DEF LeaseRelease, Idle, Attempt, BudgetIInv, BudgetTyped
<1>2. \A v \in Slot : Charging(v)' =>
                /\ Charging(v)
                /\ KeysOf(slot'[v]) = KeysOf(slot[v])
                /\ AdmissionOf(v)' = AdmissionOf(v)
  <2> TAKE v \in Slot
  <2>1. CASE v = s
    BY <1>1, <2>1 DEF Charging
  <2>2. CASE v # s
    BY <1>1, <2>2 DEF Charging, KeysOf, AdmissionOf
  <2> QED BY <2>1, <2>2
<1>3. BudgetInv'
  BY <1>1, <1>2, AccountsKept DEF BudgetIInv
<1> QED BY <1>1, <1>3 DEF BudgetIInv, BudgetTyped

\* The effect uses the admission of its actuation, and no other effect has it.
LEMMA BudgetSpent ==
    ASSUME IInv, BudgetIInv, NEW s \in Slot, Exec(s)
    PROVE  BudgetIInv'
<1> DEFINE e == Effect(0, AdmissionOf(s))
           u == WorkerOf(s)
<1>1. /\ u \in Worker /\ slot \in [Slot -> AttemptType] /\ Charging(s)
      /\ admitted' = admitted /\ turn' = turn /\ charged' = charged
  BY Now, LimitsAssumption DEF Exec, Charging
<1>2. e \in EffectType /\ e.age = 0 /\ e.adm = AdmissionOf(s)
  BY <1>1, ChargingFacts DEF Effect, EffectType, BudgetIInv
<1>3. slot' = [slot EXCEPT ![s] =
            Attempt("effect", slot[s].session, slot[s].target, slot[s].hold)]
  BY <1>1 DEF Exec, Move
<1>4. \A v \in Slot : Charging(v)' =>
        /\ v # s /\ Charging(v)
        /\ KeysOf(slot'[v]) = KeysOf(slot[v])
        /\ AdmissionOf(v)' = AdmissionOf(v)
  <2> TAKE v \in Slot
  <2>1. CASE v = s
    BY <1>1, <1>3, <2>1 DEF Charging, Attempt
  <2>2. CASE v # s
    BY <1>1, <1>3, <2>2 DEF Charging, KeysOf, AdmissionOf
  <2> QED BY <2>1, <2>2
<1>5. fired \in [Worker -> [Key -> SUBSET EffectType]]
  BY DEF BudgetIInv, BudgetTyped
<1>6. fired' = [fired EXCEPT ![u] = [k \in Key |->
            IF k \in KeysOf(slot[s]) THEN fired[u][k] \union {e} ELSE fired[u][k]]]
  BY <1>1, <1>5 DEF Exec
<1> HIDE DEF e
<1>7. BudgetTyped'
  <2>1. fired' \in [Worker -> [Key -> SUBSET EffectType]]
    BY <1>1, <1>2, <1>5, <1>6
  <2> QED BY <1>1, <2>1 DEF BudgetIInv, BudgetTyped
<1>8. OwnAdmission'
  BY <1>4 DEF BudgetIInv, BudgetInv, OwnAdmission
<1>9. ASSUME NEW w \in Worker, NEW k \in Key PROVE Account(w, k)'
  <2>1. Account(w, k)
    BY DEF BudgetIInv, BudgetInv
  <2>2. \A v \in Slot : ChargedTo(v, w, k)' =>
            /\ v # s /\ Charging(v) /\ ChargedTo(v, w, k)
            /\ AdmissionOf(v)' = AdmissionOf(v)
    BY <1>4 DEF ChargedTo
  <2>3. CASE w = u /\ k \in KeysOf(slot[s])
    <3>1. fired'[w][k] = fired[w][k] \union {e}
      BY <1>1, <1>5, <1>6, <2>3
    <3>2. ChargedTo(s, w, k)
      BY <1>1, <2>3 DEF ChargedTo
    <3>3. /\ AdmissionOf(s) \in admitted[w][k]
          /\ \A x \in fired[w][k] : x.adm # AdmissionOf(s)
      BY <2>1, <3>2 DEF Account
    <3>4. AdmissionOf(s).age <= 0 + MaxHold /\ 0 + MaxHold < Window
      <4>1. AdmissionOf(s).age <= MaxHold
        BY <1>1, ChargingFacts DEF BudgetIInv
      <4> QED BY <4>1, LimitsAssumption, TimelyAssumption
    <3>5. \A x \in fired'[w][k] :
            /\ x.adm \in admitted'[w][k]
            /\ x.adm.age <= x.age + MaxHold /\ x.age + MaxHold < Window
      BY <1>1, <1>2, <2>1, <3>1, <3>3, <3>4 DEF Account
    <3>6. \A x \in fired'[w][k] : \A y \in fired'[w][k] : x.adm = y.adm => x = y
      BY <1>2, <2>1, <3>1, <3>3 DEF Account
    <3>7. ASSUME NEW v \in Slot, ChargedTo(v, w, k)'
          PROVE  /\ AdmissionOf(v)' \in admitted'[w][k]
                 /\ \A x \in fired'[w][k] : x.adm # AdmissionOf(v)'
      <4>1. /\ v # s /\ Charging(v) /\ ChargedTo(v, w, k)
            /\ AdmissionOf(v)' = AdmissionOf(v)
        BY <2>2, <3>7
      <4>2. AdmissionOf(v) # AdmissionOf(s)
        BY <1>1, <2>3, <4>1 DEF BudgetIInv, BudgetInv, OwnAdmission, ChargedTo
      <4> QED BY <1>1, <1>2, <2>1, <3>1, <4>1, <4>2 DEF Account
    <3>8. /\ IsFiniteSet(admitted'[w][k])
          /\ Cardinality(pruneAtOrBefore(admitted'[w][k])) <= RateLimit(k)
          /\ \A x \in admitted'[w][k] : x.age = 0 => x.nth < turn'[w]
      BY <1>1, <2>1 DEF Account
    <3> QED BY <3>5, <3>6, <3>7, <3>8 DEF Account
  <2>4. CASE ~(w = u /\ k \in KeysOf(slot[s]))
    <3>1. fired'[w][k] = fired[w][k]
      BY <1>1, <1>5, <1>6, <2>4
    <3> QED BY <1>1, <2>1, <2>2, <3>1 DEF Account
  <2> QED BY <2>3, <2>4
<1> QED BY <1>7, <1>8, <1>9 DEF BudgetIInv, BudgetInv

\* Admit charges each of its two keys with an admission not used before, and
\* drops only what is no longer inside the window.
LEMMA BudgetCharged ==
    ASSUME IInv, BudgetIInv, NEW s \in Slot, NEW ses \in Session,
           NEW tgt \in Target, LimiterAdmit(s, ses, tgt)
    PROVE  BudgetIInv'
<1> DEFINE a == Attempt("leased", ses, tgt, 0)
           u == WorkerOf(s)
           n == Admission(0, turn[u])
<1>1. /\ u \in Worker /\ slot \in [Slot -> AttemptType] /\ ~Charging(s)
      /\ fired' = fired
  BY Now, LimitsAssumption DEF LimiterAdmit, Charging
<1>2. /\ admitted \in [Worker -> [Key -> SUBSET AdmissionType]]
      /\ turn \in [Worker -> Nat] /\ charged \in [Slot -> Nat]
  BY DEF BudgetIInv, BudgetTyped
<1>3. n \in AdmissionType /\ n.age = 0 /\ n.nth = turn[u]
  BY <1>1, <1>2, LimitsAssumption DEF Admission, AdmissionType
<1>4. /\ slot' = [slot EXCEPT ![s] = a] /\ a.hold = 0
      /\ turn' = [turn EXCEPT ![u] = turn[u] + 1]
      /\ charged' = [charged EXCEPT ![s] = turn[u]]
      /\ admitted' = [admitted EXCEPT ![u] = [k \in Key |->
            IF k \in KeysOf(a) THEN pruneAtOrBefore(admitted[u][k]) \union {n}
                               ELSE admitted[u][k]]]
      /\ \A k \in KeysOf(a) : Cardinality(pruneAtOrBefore(admitted[u][k])) < RateLimit(k)
  BY <1>1, <1>2 DEF LimiterAdmit, Attempt
<1>5. slot'[s] = a /\ AdmissionOf(s)' = n
  BY <1>1, <1>2, <1>4 DEF AdmissionOf
<1>6. \A v \in Slot : v # s =>
        /\ Charging(v)' => Charging(v)
        /\ slot'[v] = slot[v]
        /\ AdmissionOf(v)' = AdmissionOf(v)
  BY <1>1, <1>2, <1>4 DEF Charging, AdmissionOf
<1>7. ASSUME NEW w \in Worker, NEW k \in Key, NEW x \in admitted[w][k], w = u
      PROVE  x # n
  BY <1>1, <1>2, <1>3, <1>7 DEF BudgetIInv, BudgetInv, Account
<1>8. Window \in Nat \ {0} /\ MaxHold \in Nat
  BY LimitsAssumption
<1> HIDE DEF a, n
<1>9. BudgetTyped'
  <2>1. \A k \in Key : pruneAtOrBefore(admitted[u][k]) \union {n} \in SUBSET AdmissionType
    BY <1>1, <1>2, <1>3 DEF pruneAtOrBefore
  <2>2. admitted' \in [Worker -> [Key -> SUBSET AdmissionType]]
    BY <1>1, <1>2, <1>4, <2>1
  <2>3. turn' \in [Worker -> Nat] /\ charged' \in [Slot -> Nat]
    BY <1>1, <1>2, <1>4
  <2> QED BY <1>1, <2>2, <2>3 DEF BudgetIInv, BudgetTyped
<1>10. ASSUME NEW v \in Slot, v # s, Charging(v)', WorkerOf(v) = u
       PROVE  AdmissionOf(v)' # n
  <2>1. Charging(v) /\ AdmissionOf(v)' = AdmissionOf(v)
    BY <1>6, <1>10
  <2>2. <<"session", slot[v].session>> \in Key
        /\ <<"session", slot[v].session>> \in KeysOf(slot[v])
    BY <2>1, ChargingFacts DEF BudgetIInv
  <2>3. AdmissionOf(v) \in admitted[u][<<"session", slot[v].session>>]
    BY <1>1, <1>10, <2>1, <2>2 DEF BudgetIInv, BudgetInv, Account, ChargedTo
  <2> QED BY <1>1, <1>7, <2>1, <2>2, <2>3
<1>11. OwnAdmission'
  <2>1. SUFFICES ASSUME NEW s1 \in Slot, NEW s2 \in Slot,
                        Charging(s1)', Charging(s2)', WorkerOf(s1) = WorkerOf(s2),
                        AdmissionOf(s1)' = AdmissionOf(s2)'
                 PROVE  s1 = s2
    BY DEF OwnAdmission
  <2>2. CASE s1 # s /\ s2 # s
    BY <1>6, <2>1, <2>2 DEF BudgetIInv, BudgetInv, OwnAdmission
  <2>3. CASE s1 = s /\ s2 # s
    BY <1>5, <1>10, <2>1, <2>3
  <2>4. CASE s1 # s /\ s2 = s
    BY <1>5, <1>10, <2>1, <2>4
  <2> QED BY <2>2, <2>3, <2>4
<1>12. ASSUME NEW w \in Worker, NEW k \in Key PROVE Account(w, k)'
  <2>1. Account(w, k)
    BY DEF BudgetIInv, BudgetInv
  <2>2. \A v \in Slot : v # s /\ ChargedTo(v, w, k)' =>
            /\ Charging(v) /\ ChargedTo(v, w, k)
            /\ AdmissionOf(v)' = AdmissionOf(v)
    BY <1>6 DEF ChargedTo
  <2>3. CASE w = u /\ k \in KeysOf(a)
    <3> DEFINE P == pruneAtOrBefore(admitted[w][k])
    <3>1. admitted'[w][k] = P \union {n} /\ turn'[w] = turn[w] + 1
      BY <1>1, <1>2, <1>4, <2>3
    <3>2. P \in SUBSET admitted[w][k] /\ n \notin P
      BY <1>7, <2>3 DEF pruneAtOrBefore
    <3>3. IsFiniteSet(P) /\ Cardinality(P) \in Nat
      BY <2>1, <3>2, FS_Subset, FS_CardinalityType DEF Account
    <3>4. IsFiniteSet(P \union {n}) /\ Cardinality(P \union {n}) = Cardinality(P) + 1
      BY <3>2, <3>3, FS_AddElement
    <3>5. pruneAtOrBefore(admitted'[w][k]) = P \union {n}
      BY <1>3, <1>8, <3>1 DEF pruneAtOrBefore
    <3>6. RateLimit(k) \in Nat
      BY LimitsAssumption DEF RateLimit
    <3>7. Cardinality(P) < RateLimit(k)
      BY <1>4, <2>3
    <3>8. \A x \in admitted[w][k] : x.age < Window => x \in P
      BY DEF pruneAtOrBefore
    <3> HIDE DEF P
    <3>9. Cardinality(pruneAtOrBefore(admitted'[w][k])) <= RateLimit(k)
      BY <3>3, <3>4, <3>5, <3>6, <3>7
    <3>10. \A x \in admitted'[w][k] : x.age = 0 => x.nth < turn'[w]
      <4>1. turn[w] \in Nat /\ \A x \in P : x.nth \in Nat
        BY <1>2, <3>2 DEF AdmissionType
      <4> QED BY <1>3, <2>1, <2>3, <3>1, <3>2, <4>1 DEF Account
    <3>11. \A x \in fired'[w][k] :
            /\ x.adm \in admitted'[w][k] /\ x.adm # n
            /\ x.adm.age <= x.age + MaxHold /\ x.age + MaxHold < Window
            /\ \A y \in fired'[w][k] : x.adm = y.adm => x = y
      <4> TAKE x \in fired'[w][k]
      <4>1. /\ x \in fired[w][k] /\ x.adm \in admitted[w][k]
            /\ x.adm.age <= x.age + MaxHold /\ x.age + MaxHold < Window
        BY <1>1, <2>1 DEF Account
      <4>2. x.age \in Nat /\ x.adm.age \in Nat
        BY <1>1, <4>1 DEF BudgetIInv, BudgetTyped, EffectType, AdmissionType
      <4>3. x.adm \in P
        BY <1>8, <3>8, <4>1, <4>2
      <4> QED BY <1>1, <2>1, <3>1, <3>2, <4>1, <4>3 DEF Account
    <3>12. ASSUME NEW v \in Slot, ChargedTo(v, w, k)'
           PROVE  /\ AdmissionOf(v)' \in admitted'[w][k]
                  /\ \A x \in fired'[w][k] : x.adm # AdmissionOf(v)'
      <4>1. CASE v = s
        BY <1>5, <3>1, <3>11, <4>1
      <4>2. CASE v # s
        <5>1. /\ Charging(v) /\ ChargedTo(v, w, k)
              /\ AdmissionOf(v)' = AdmissionOf(v)
          BY <2>2, <3>12, <4>2
        <5>2. AdmissionOf(v).age < Window
          BY <5>1, ChargingFacts DEF BudgetIInv
        <5> QED BY <1>1, <2>1, <3>1, <3>8, <5>1, <5>2 DEF Account
      <4> QED BY <4>1, <4>2
    <3>13. IsFiniteSet(admitted'[w][k])
      BY <3>1, <3>4
    <3> QED BY <3>9, <3>10, <3>11, <3>12, <3>13 DEF Account
  <2>4. CASE ~(w = u /\ k \in KeysOf(a))
    <3>1. admitted'[w][k] = admitted[w][k] /\ fired'[w][k] = fired[w][k]
      BY <1>1, <1>2, <1>4, <2>4
    <3>2. \A x \in admitted[w][k] : x.age = 0 => x.nth < turn'[w]
      <4>1. \A x \in admitted[w][k] : x.nth \in Nat
        BY <1>2 DEF AdmissionType
      <4>2. turn[w] \in Nat /\ turn'[w] \in {turn[w], turn[w] + 1}
        BY <1>1, <1>2, <1>4
      <4> QED BY <2>1, <4>1, <4>2 DEF Account
    <3>3. \A v \in Slot : ChargedTo(v, w, k)' => v # s
      BY <1>5, <2>4 DEF ChargedTo
    <3> QED BY <2>1, <2>2, <3>1, <3>2, <3>3 DEF Account
  <2> QED BY <2>3, <2>4
<1> QED BY <1>9, <1>11, <1>12 DEF BudgetIInv, BudgetInv

\* A process that restarts has no effect, no admission and no actuation left.
LEMMA BudgetCleared ==
    ASSUME IInv, BudgetIInv, NEW u \in Worker, Crash(u)
    PROVE  BudgetIInv'
<1>1. /\ \A s \in Slot : slot'[s] = IF WorkerOf(s) = u THEN Idle ELSE slot[s]
      /\ admitted' = [admitted EXCEPT ![u] = [k \in Key |-> {}]]
      /\ fired' = [fired EXCEPT ![u] = [k \in Key |-> {}]]
      /\ turn' = [turn EXCEPT ![u] = 0]
      /\ charged' = [s \in Slot |-> IF WorkerOf(s) = u THEN 0 ELSE charged[s]]
      /\ Idle.pc = "idle"
  BY DEF Crash, Idle, Attempt
<1>2. /\ admitted \in [Worker -> [Key -> SUBSET AdmissionType]]
      /\ fired \in [Worker -> [Key -> SUBSET EffectType]]
      /\ turn \in [Worker -> Nat] /\ charged \in [Slot -> Nat]
  BY DEF BudgetIInv, BudgetTyped
<1>3. BudgetTyped'
  BY <1>1, <1>2 DEF BudgetTyped
<1>4. \A v \in Slot : Charging(v)' =>
        /\ WorkerOf(v) # u /\ Charging(v)
        /\ KeysOf(slot'[v]) = KeysOf(slot[v])
        /\ AdmissionOf(v)' = AdmissionOf(v)
  <2> TAKE v \in Slot
  <2>1. CASE WorkerOf(v) = u
    BY <1>1, <2>1 DEF Charging
  <2>2. CASE WorkerOf(v) # u
    BY <1>1, <2>2 DEF Charging, AdmissionOf
  <2> QED BY <2>1, <2>2
<1>5. OwnAdmission'
  BY <1>4 DEF BudgetIInv, BudgetInv, OwnAdmission
<1>6. ASSUME NEW w \in Worker, NEW k \in Key PROVE Account(w, k)'
  <2>1. Account(w, k)
    BY DEF BudgetIInv, BudgetInv
  <2>2. \A v \in Slot : ChargedTo(v, w, k)' =>
            /\ w # u /\ ChargedTo(v, w, k)
            /\ AdmissionOf(v)' = AdmissionOf(v)
    BY <1>4 DEF ChargedTo
  <2>3. CASE w = u
    <3>1. admitted'[w][k] = {} /\ fired'[w][k] = {}
      BY <1>1, <1>2, <2>3
    <3>2. pruneAtOrBefore(admitted'[w][k]) = {}
      BY <3>1 DEF pruneAtOrBefore
    <3>3. RateLimit(k) \in Nat
      BY LimitsAssumption DEF RateLimit
    <3>4. /\ IsFiniteSet(admitted'[w][k])
          /\ Cardinality(pruneAtOrBefore(admitted'[w][k])) <= RateLimit(k)
      BY <3>1, <3>2, <3>3, FS_EmptySet
    <3> QED BY <2>2, <2>3, <3>1, <3>4 DEF Account
  <2>4. CASE w # u
    <3>1. /\ admitted'[w][k] = admitted[w][k] /\ fired'[w][k] = fired[w][k]
          /\ turn'[w] = turn[w]
      BY <1>1, <1>2, <2>4
    <3> QED BY <2>1, <2>2, <3>1 DEF Account
  <2> QED BY <2>3, <2>4
<1> QED BY <1>3, <1>5, <1>6 DEF BudgetIInv, BudgetInv

\* An admission grows older by one; two that are inside the window are not
\* confused, and none becomes new again.
LEMMA AgedFacts ==
    ASSUME NEW x \in AdmissionType
    PROVE  /\ Aged(x) \in AdmissionType
           /\ Aged(x).age # 0
           /\ x.age < Window => Aged(x) = Admission(x.age + 1, x.nth)
           /\ Aged(x).age < Window => x.age < Window
           /\ \A y \in AdmissionType :
                x.age < Window /\ y.age < Window /\ Aged(x) = Aged(y) => x = y
<1>1. Window \in Nat \ {0}
  BY LimitsAssumption
<1>2. ASSUME NEW z \in AdmissionType
      PROVE  /\ z.age \in 0..Window /\ z.nth \in Nat
             /\ z = [age |-> z.age, nth |-> z.nth]
             /\ Aged(z) = [age |-> Older(z.age, Window), nth |-> z.nth]
  BY DEF AdmissionType, Aged, Admission
<1>3. ASSUME NEW z \in AdmissionType
      PROVE  /\ Aged(z).age = Older(z.age, Window) /\ Aged(z).nth = z.nth
             /\ Older(z.age, Window) \in 0..Window /\ Older(z.age, Window) # 0
             /\ z.age < Window => Older(z.age, Window) = z.age + 1
             /\ Older(z.age, Window) < Window => z.age < Window
  BY <1>1, <1>2 DEF Older
<1>4. Aged(x) \in AdmissionType
  BY <1>2, <1>3 DEF AdmissionType
<1>5. x.age < Window => Aged(x) = Admission(x.age + 1, x.nth)
  BY <1>2, <1>3 DEF Admission
<1>6. ASSUME NEW y \in AdmissionType, x.age < Window, y.age < Window,
             Aged(x) = Aged(y)
      PROVE  x = y
  <2>1. x.age + 1 = y.age + 1 /\ x.nth = y.nth
    BY <1>3, <1>6
  <2>2. x.age = y.age
    BY <1>2, <2>1
  <2> QED BY <1>2, <2>1, <2>2
<1> QED BY <1>3, <1>4, <1>5, <1>6

\* The set of a finite set's members, each one older, is finite and no larger.
LEMMA AgedSet ==
    ASSUME NEW S, IsFiniteSet(S)
    PROVE  /\ IsFiniteSet({Aged(x) : x \in S})
           /\ Cardinality({Aged(x) : x \in S}) <= Cardinality(S)
<1> DEFINE T == {Aged(x) : x \in S}
           f == [x \in S |-> Aged(x)]
<1>1. f \in Surjection(S, T)
  BY DEF Surjection
<1> HIDE DEF f
<1> QED BY <1>1, FS_Surjection

\* As time passes the budget's entries grow older with the actuations and the
\* effects charged to them.
LEMMA BudgetAges ==
    ASSUME IInv, BudgetIInv, Tick
    PROVE  BudgetIInv'
<1>1. /\ admitted \in [Worker -> [Key -> SUBSET AdmissionType]]
      /\ fired \in [Worker -> [Key -> SUBSET EffectType]]
      /\ turn \in [Worker -> Nat] /\ charged \in [Slot -> Nat]
      /\ slot \in [Slot -> AttemptType]
  BY Now DEF BudgetIInv, BudgetTyped
<1>2. /\ admitted' = [w \in Worker |-> [k \in Key |->
            {Aged(x) : x \in admitted[w][k]}]]
      /\ fired' = [w \in Worker |-> [k \in Key |->
            {Effect(x.age + 1, Aged(x.adm)) :
                x \in {y \in fired[w][k] : y.age + 1 + MaxHold < Window}}]]
      /\ turn' = [w \in Worker |-> 0] /\ charged' = charged
  BY DEF Tick
<1>3. Window \in Nat \ {0} /\ MaxHold \in Nat
  BY LimitsAssumption
<1>4. ASSUME NEW v \in Slot, Charging(v)'
      PROVE  /\ Charging(v)
             /\ KeysOf(slot'[v]) = KeysOf(slot[v])
             /\ AdmissionOf(v) \in AdmissionType
             /\ AdmissionOf(v).age < Window
             /\ AdmissionOf(v)' = Aged(AdmissionOf(v))
  <2>1. CASE Running(v)
    <3>1. slot'[v] = Attempt(slot[v].pc, slot[v].session, slot[v].target,
                             slot[v].hold + 1)
      BY <2>1 DEF Tick
    <3>2. Charging(v) /\ KeysOf(slot'[v]) = KeysOf(slot[v])
      BY <1>4, <3>1 DEF Charging, Attempt, KeysOf
    <3>3. /\ AdmissionOf(v) \in AdmissionType /\ AdmissionOf(v).age < Window
          /\ AdmissionOf(v).age = slot[v].hold
      BY <3>2, ChargingFacts DEF BudgetIInv
    <3>4. AdmissionOf(v)' = Admission(slot[v].hold + 1, charged[v])
      BY <1>2, <3>1 DEF AdmissionOf, Attempt
    <3>5. Aged(AdmissionOf(v)) = Admission(slot[v].hold + 1, AdmissionOf(v).nth)
      BY <3>3, AgedFacts
    <3>6. AdmissionOf(v).nth = charged[v]
      BY DEF AdmissionOf, Admission
    <3> QED BY <3>2, <3>3, <3>4, <3>5, <3>6
  <2>2. CASE ~Running(v)
    <3>1. slot'[v] = slot[v]
      BY <2>2 DEF Tick
    <3> QED BY <1>4, <2>2, <3>1 DEF Charging, Running, Holding
  <2> QED BY <2>1, <2>2
<1>5. ASSUME NEW w \in Worker, NEW k \in Key, NEW z \in fired'[w][k]
      PROVE  \E x \in fired[w][k] :
                /\ z = Effect(x.age + 1, Aged(x.adm))
                /\ x \in EffectType /\ x.adm \in AdmissionType /\ x.age \in Nat
                /\ x.age + 1 + MaxHold < Window /\ x.adm.age < Window
                /\ x.adm \in admitted[w][k]
                /\ x.adm.age <= x.age + MaxHold
  <2>1. PICK x \in fired[w][k] : /\ z = Effect(x.age + 1, Aged(x.adm))
                                 /\ x.age + 1 + MaxHold < Window
    BY <1>2
  <2>2. x \in EffectType
    BY <1>1
  <2>3. x.adm \in AdmissionType /\ x.age \in Nat /\ x.adm.age \in 0..Window
    BY <2>2 DEF EffectType, AdmissionType
  <2>4. x.adm \in admitted[w][k] /\ x.adm.age <= x.age + MaxHold
    BY DEF BudgetIInv, BudgetInv, Account
  <2>5. x.adm.age < Window
    BY <1>3, <2>1, <2>3, <2>4
  <2> QED BY <2>1, <2>2, <2>3, <2>4, <2>5
<1>6. BudgetTyped'
  <2>1. admitted' \in [Worker -> [Key -> SUBSET AdmissionType]]
    <3>1. \A w \in Worker, k \in Key :
            {Aged(x) : x \in admitted[w][k]} \in SUBSET AdmissionType
      BY <1>1, AgedFacts
    <3> QED BY <1>2, <3>1
  <2>2. fired' \in [Worker -> [Key -> SUBSET EffectType]]
    <3>1. \A w \in Worker, k \in Key : fired'[w][k] \in SUBSET EffectType
      <4> SUFFICES ASSUME NEW w \in Worker, NEW k \in Key, NEW z \in fired'[w][k]
                   PROVE  z \in EffectType
        OBVIOUS
      <4>1. PICK x \in fired[w][k] :
                /\ z = Effect(x.age + 1, Aged(x.adm))
                /\ x.adm \in AdmissionType /\ x.age \in Nat
        BY <1>5
      <4>2. Aged(x.adm) \in AdmissionType /\ x.age + 1 \in Nat
        BY <4>1, AgedFacts
      <4> QED BY <4>1, <4>2 DEF Effect, EffectType
    <3>2. fired' = [w \in Worker |-> [k \in Key |-> fired'[w][k]]]
      BY <1>2
    <3> QED BY <3>1, <3>2
  <2>3. turn' \in [Worker -> Nat] /\ charged' \in [Slot -> Nat]
    BY <1>1, <1>2
  <2> QED BY <2>1, <2>2, <2>3 DEF BudgetTyped
<1>7. OwnAdmission'
  <2>1. SUFFICES ASSUME NEW s1 \in Slot, NEW s2 \in Slot,
                        Charging(s1)', Charging(s2)', WorkerOf(s1) = WorkerOf(s2),
                        AdmissionOf(s1)' = AdmissionOf(s2)'
                 PROVE  s1 = s2
    BY DEF OwnAdmission
  <2>2. AdmissionOf(s1) = AdmissionOf(s2)
    BY <1>4, <2>1, AgedFacts
  <2> QED BY <1>4, <2>1, <2>2 DEF BudgetIInv, BudgetInv, OwnAdmission
<1>8. ASSUME NEW w \in Worker, NEW k \in Key PROVE Account(w, k)'
  <2> DEFINE A == admitted[w][k]
             P == pruneAtOrBefore(A)
  <2>1. /\ IsFiniteSet(A) /\ Cardinality(P) <= RateLimit(k)
        /\ \A x \in fired[w][k] : \A y \in fired[w][k] : x.adm = y.adm => x = y
        /\ \A v \in Slot : ChargedTo(v, w, k) =>
            /\ AdmissionOf(v) \in A
            /\ \A x \in fired[w][k] : x.adm # AdmissionOf(v)
    BY DEF BudgetIInv, BudgetInv, Account
  <2>2. A \in SUBSET AdmissionType /\ admitted'[w][k] = {Aged(x) : x \in A}
    BY <1>1, <1>2
  <2>3. IsFiniteSet(admitted'[w][k])
    BY <2>1, <2>2, AgedSet
  <2>4. Cardinality(pruneAtOrBefore(admitted'[w][k])) <= RateLimit(k)
    <3>1. P \in SUBSET A /\ \A x \in A : x.age < Window => x \in P
      BY DEF pruneAtOrBefore
    <3>2. IsFiniteSet(P)
      BY <2>1, <3>1, FS_Subset
    <3>3. pruneAtOrBefore(admitted'[w][k]) \in SUBSET {Aged(x) : x \in P}
      <4> SUFFICES ASSUME NEW z \in admitted'[w][k], z.age < Window
                   PROVE  z \in {Aged(x) : x \in P}
        BY DEF pruneAtOrBefore
      <4>1. PICK x \in A : z = Aged(x)
        BY <2>2
      <4>2. x \in P
        BY <2>2, <3>1, <4>1, AgedFacts
      <4> QED BY <4>1, <4>2
    <3> DEFINE Q == {Aged(x) : x \in P}
               R == pruneAtOrBefore(admitted'[w][k])
    <3>4. IsFiniteSet(Q) /\ Cardinality(Q) <= Cardinality(P)
      BY <3>2, AgedSet
    <3>5. R \in SUBSET Q
      BY <3>3
    <3> HIDE DEF P, Q, R
    <3>6. IsFiniteSet(R) /\ Cardinality(R) <= Cardinality(Q)
      BY <3>4, <3>5, FS_Subset
    <3>7. Cardinality(P) \in Nat /\ Cardinality(Q) \in Nat /\ Cardinality(R) \in Nat
      BY <3>2, <3>4, <3>6, FS_CardinalityType
    <3>8. RateLimit(k) \in Nat
      BY LimitsAssumption DEF RateLimit
    <3>9. Cardinality(R) <= RateLimit(k)
      BY <2>1, <3>4, <3>6, <3>7, <3>8
    <3> QED BY <3>9 DEF R
  <2> HIDE DEF A, P
  <2>5. \A z \in admitted'[w][k] : z.age = 0 => z.nth < turn'[w]
    BY <2>2, AgedFacts
  <2>6. ASSUME NEW z \in fired'[w][k]
        PROVE  /\ z.adm \in admitted'[w][k]
               /\ z.adm.age <= z.age + MaxHold /\ z.age + MaxHold < Window
               /\ \A y \in fired'[w][k] : z.adm = y.adm => z = y
    <3>1. PICK x \in fired[w][k] :
                /\ z = Effect(x.age + 1, Aged(x.adm))
                /\ x.adm \in AdmissionType /\ x.age \in Nat
                /\ x.age + 1 + MaxHold < Window /\ x.adm.age < Window
                /\ x.adm \in admitted[w][k]
                /\ x.adm.age <= x.age + MaxHold
      BY <1>5, <2>6
    <3>2. z.age = x.age + 1 /\ z.adm = Aged(x.adm)
      BY <3>1 DEF Effect
    <3>3. z.adm \in admitted'[w][k]
      BY <2>2, <3>1, <3>2 DEF A
    <3>4. z.adm.age = x.adm.age + 1
      BY <3>1, <3>2, AgedFacts DEF Admission
    <3>5. x.adm.age \in 0..Window
      BY <3>1 DEF AdmissionType
    <3>6. z.adm.age <= z.age + MaxHold /\ z.age + MaxHold < Window
      BY <1>3, <3>1, <3>2, <3>4, <3>5
    <3>7. ASSUME NEW y \in fired'[w][k], z.adm = y.adm PROVE z = y
      <4>1. PICK x2 \in fired[w][k] :
                /\ y = Effect(x2.age + 1, Aged(x2.adm))
                /\ x2.adm \in AdmissionType /\ x2.adm.age < Window
        BY <1>5
      <4>2. y.adm = Aged(x2.adm)
        BY <4>1 DEF Effect
      <4>3. x.adm = x2.adm
        <5>1. /\ Aged(x.adm) = Aged(x2.adm)
              /\ x.adm.age < Window /\ x2.adm.age < Window
              /\ x.adm \in AdmissionType /\ x2.adm \in AdmissionType
          BY <3>1, <3>2, <3>7, <4>1, <4>2
        <5> QED BY <5>1, AgedFacts
      <4>4. x = x2
        BY <2>1, <4>3
      <4> QED BY <3>1, <4>1, <4>4
    <3> QED BY <3>3, <3>6, <3>7
  <2>7. ASSUME NEW v \in Slot, ChargedTo(v, w, k)'
        PROVE  /\ AdmissionOf(v)' \in admitted'[w][k]
               /\ \A z \in fired'[w][k] : z.adm # AdmissionOf(v)'
    <3>1. /\ Charging(v)' /\ Charging(v) /\ ChargedTo(v, w, k)
          /\ AdmissionOf(v) \in AdmissionType /\ AdmissionOf(v).age < Window
          /\ AdmissionOf(v)' = Aged(AdmissionOf(v))
      BY <1>4, <2>7 DEF ChargedTo
    <3>2. AdmissionOf(v)' \in admitted'[w][k]
      BY <2>1, <2>2, <3>1
    <3>3. ASSUME NEW z \in fired'[w][k] PROVE z.adm # AdmissionOf(v)'
      <4>1. PICK x \in fired[w][k] :
                /\ z = Effect(x.age + 1, Aged(x.adm))
                /\ x.adm \in AdmissionType /\ x.adm.age < Window
        BY <1>5
      <4>2. z.adm = Aged(x.adm) /\ x.adm # AdmissionOf(v)
        BY <2>1, <3>1, <4>1 DEF Effect
      <4> QED BY <3>1, <4>1, <4>2, AgedFacts
    <3> QED BY <3>2, <3>3
  <2> QED BY <2>3, <2>4, <2>5, <2>6, <2>7 DEF Account
<1> QED BY <1>6, <1>7, <1>8 DEF BudgetIInv, BudgetInv

\* Every step keeps the accounts.
LEMMA BudgetStep ==
    ASSUME IInv, BudgetIInv, [Next]_vars
    PROVE  BudgetIInv'
<1>1. ASSUME NEW s \in Slot, NEW ses \in Session, NEW tgt \in Target,
             LimiterAdmit(s, ses, tgt)
      PROVE  BudgetIInv'
  BY <1>1, BudgetCharged
<1>2. ASSUME NEW s \in Slot, Step(s) PROVE BudgetIInv'
  <2>1. CASE LeaseRelease(s)
    BY <2>1, BudgetReturned
  <2>2. CASE Exec(s)
    BY <2>2, BudgetSpent
  <2>3. CASE ~LeaseRelease(s) /\ ~Exec(s)
    <3>1. /\ admitted' = admitted /\ fired' = fired /\ turn' = turn
          /\ charged' = charged
          /\ \/ Move(s, "claimed") /\ slot[s].pc = "leased"
             \/ \E pc \in {"release", "disturbed", "unlease"} : Move(s, pc)
      BY <1>2, <2>3 DEF Step, Claim, RefuseClaimed, ExecDone, ExecFailed,
                        Cancel, ClaimRelease, history
    <3>2. CASE Move(s, "claimed") /\ slot[s].pc = "leased"
      BY <3>1, <3>2, BudgetMoves DEF Charging
    <3>3. ASSUME NEW pc \in {"release", "disturbed", "unlease"}, Move(s, pc)
          PROVE  BudgetIInv'
      BY <3>1, <3>3, BudgetMoves
    <3> QED BY <3>1, <3>2, <3>3
  <2> QED BY <2>1, <2>2, <2>3
<1>3. ASSUME NEW w \in Worker, Crash(w) PROVE BudgetIInv'
  BY <1>3, BudgetCleared
<1>4. CASE Tick
  BY <1>4, BudgetAges
<1>5. CASE UNCHANGED vars
  <2>1. \A v \in Slot : Charging(v)' =>
                /\ Charging(v)
                /\ KeysOf(slot'[v]) = KeysOf(slot[v])
                /\ AdmissionOf(v)' = AdmissionOf(v)
    BY <1>5 DEF vars, Charging, KeysOf, AdmissionOf
  <2>2. BudgetInv'
    BY <1>5, <2>1, AccountsKept DEF vars, BudgetIInv
  <2> QED BY <1>5, <2>2 DEF vars, BudgetIInv, BudgetTyped
<1> QED BY <1>1, <1>2, <1>3, <1>4, <1>5 DEF Next

\* The effects in the window have admissions of their own in the limiter's
\* window, and those are within the limit.
LEMMA BudgetIsCap == ASSUME BudgetIInv PROVE WindowCap
<1> SUFFICES ASSUME NEW w \in Worker, NEW k \in Key
             PROVE  Cardinality(fired[w][k]) <= RateLimit(k)
  BY DEF WindowCap
<1> DEFINE F == fired[w][k]
           P == pruneAtOrBefore(admitted[w][k])
           f == [x \in F |-> x.adm]
<1>1. /\ IsFiniteSet(admitted[w][k]) /\ Cardinality(P) <= RateLimit(k)
      /\ \A x \in F :
            /\ x.adm \in admitted[w][k]
            /\ x.adm.age <= x.age + MaxHold /\ x.age + MaxHold < Window
            /\ \A y \in F : x.adm = y.adm => x = y
  BY DEF BudgetIInv, BudgetInv, Account
<1>2. P \in SUBSET admitted[w][k]
  BY DEF pruneAtOrBefore
<1>3. IsFiniteSet(P)
  BY <1>1, <1>2, FS_Subset
<1>4. \A x \in F : x.adm \in P
  <2> TAKE x \in F
  <2>1. x.age \in Nat /\ x.adm.age \in 0..Window
    BY DEF BudgetIInv, BudgetTyped, EffectType, AdmissionType
  <2>2. x.adm.age < Window
    BY <1>1, <2>1, LimitsAssumption
  <2> QED BY <1>1, <2>2 DEF pruneAtOrBefore
<1>5. f \in Injection(F, P)
  BY <1>1, <1>4 DEF Injection, IsInjective
<1> HIDE DEF F, P, f
<1>6. IsFiniteSet(F) /\ Cardinality(F) <= Cardinality(P)
  BY <1>3, <1>5, FS_Injection
<1>7. Cardinality(F) \in Nat /\ Cardinality(P) \in Nat /\ RateLimit(k) \in Nat
  BY <1>3, <1>6, FS_CardinalityType, LimitsAssumption DEF RateLimit
<1>8. Cardinality(F) <= RateLimit(k)
  BY <1>1, <1>6, <1>7
<1> QED BY <1>8 DEF F

\* BudgetIInv is an invariant of the specification.
LEMMA BudgetInvariance == Spec => []BudgetIInv
<1>1. Init => BudgetIInv
  <2> SUFFICES ASSUME Init PROVE BudgetIInv
    OBVIOUS
  <2>1. \A s \in Slot : ~Charging(s)
    BY DEF Init, Charging, Idle, Attempt
  <2>2. \A w \in Worker, k \in Key : admitted[w][k] = {} /\ fired[w][k] = {}
    BY DEF Init
  <2>3. \A k \in Key : RateLimit(k) \in Nat
    BY LimitsAssumption DEF RateLimit
  <2>4. pruneAtOrBefore({}) = {}
    BY DEF pruneAtOrBefore
  <2>5. ASSUME NEW w \in Worker, NEW k \in Key PROVE Account(w, k)
    <3>1. /\ IsFiniteSet(admitted[w][k])
          /\ Cardinality(pruneAtOrBefore(admitted[w][k])) <= RateLimit(k)
      BY <2>2, <2>3, <2>4, FS_EmptySet
    <3> QED BY <2>1, <2>2, <3>1 DEF Account, ChargedTo
  <2>6. BudgetInv
    BY <2>1, <2>5 DEF BudgetInv, OwnAdmission
  <2>7. BudgetTyped
    BY DEF Init, BudgetTyped
  <2> QED BY <2>6, <2>7 DEF BudgetIInv
<1>2. IInv /\ BudgetIInv /\ [Next]_vars => BudgetIInv'
  BY BudgetStep
<1> QED BY <1>1, <1>2, Invariance, PTL DEF Spec

\* A process lets no more effects happen to a session or a target, within any
\* Window - MaxHold, than its per-window limit (ActuationLimiter.Admit), whatever
\* was refused, cancelled or killed between the admission and the effect; all
\* processes together let no more happen than their number times the limit.
THEOREM WindowCapped == Spec => []WindowCap
<1>1. BudgetIInv => WindowCap
  BY BudgetIsCap
<1> QED BY <1>1, BudgetInvariance, PTL

\* The claims, the limiters and the actuations hold what they may; no actuation
\* outlives its deadline, and no count goes below zero.
THEOREM TypeCorrect == Spec => []TypeOK
<1>1. IInv /\ LeaseInv /\ BudgetIInv => TypeOK
  <2> SUFFICES ASSUME IInv, LeaseInv, BudgetIInv PROVE TypeOK
    OBVIOUS
  <2>1. \A w \in Worker, k \in Key :
            \A x \in admitted[w][k] : x.age \in 0..Window
    BY DEF BudgetIInv, BudgetTyped, AdmissionType
  <2>2. inFlight \in [Worker -> [Key -> Nat]]
    BY DEF LeaseInv
  <2> QED BY <2>1, <2>2, Now DEF TypeOK, RowType, AttemptType
<1> QED BY <1>1, Invariance, LeaseInvariance, BudgetInvariance, PTL
=============================================================================
