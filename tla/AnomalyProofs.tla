---------------------------- MODULE AnomalyProofs ----------------------------
(***************************************************************************)
(* Proofs about the anomaly state, for every configuration: its types and  *)
(* coherence, what the data plane reads between two publications, the      *)
(* freezing of the baselines, and, for a cool-down of seven seconds or     *)
(* more, the gradual descent of the severity and the phases of             *)
(* AttackPhases, which the state implements; last, what the history        *)
(* variables of AnomalyHistory say of the counters.                        *)
(***************************************************************************)
EXTENDS AnomalyHistory, TLAPS

-----------------------------------------------------------------------------
(* Facts about the constants.                                              *)

\* A level lasts two seconds at least.
LEMMA LevelDurationType == LevelDuration \in Nat /\ LevelDuration >= 2
  BY AnomalyAssumption, SMT DEF LevelDuration

\* Three levels fit into a cool-down of seven seconds or more.
LEMMA ThreeLevelsFit ==
  ASSUME CoolDown >= 7
  PROVE  3 * LevelDuration < CoolDown
  BY AnomalyAssumption, SMT DEF LevelDuration

LEMMA CycleCapType ==
  /\ CycleCap \in Nat /\ CycleCap >= LevelDuration /\ CycleCap >= Deescalation
  BY AnomalyAssumption, LevelDurationType, SMT DEF CycleCap

\* Saturation stays within its cap.
LEMMA SaturateType ==
  ASSUME NEW n \in Nat, NEW cap \in Nat
  PROVE  Saturate(n, cap) \in 0 .. cap
  BY SMT DEF Saturate

LEMMA RateLimitPctNone == RateLimitPct(NONE) = 100
  BY SMT DEF RateLimitPct, NONE

-----------------------------------------------------------------------------
(* Types.                                                                  *)

StateTypes ==
    /\ active \in BOOLEAN /\ level \in Levels
    /\ consecutive_detect \in 0 .. Persistence
    /\ cycles_at_current_level \in 0 .. CycleCap
    /\ cool_down_remaining \in 0 .. EXTENDED_COOLDOWN_MULTIPLIER * CoolDown
    /\ peak_pps \in Rates
    /\ low_traffic_cycles \in 0 .. TRAFFIC_DROP_CYCLES
    /\ recent_attack_count \in 0 .. ATTACK_FREQ_THRESHOLD

BaselineTypes ==
    /\ frozen \in BOOLEAN /\ learned \in BOOLEAN
    /\ poison_detected \in BOOLEAN /\ poison_window_open \in BOOLEAN
    /\ large_change_count \in 0 .. PoisonThreshold
    /\ poison_age \in 0 .. PoisonRecovery

PcTypes ==
    pc \in [Threads -> {"wait", "lock", "publish", "level", "flag", "pct"}]

IOTypes ==
    /\ publishing \in [Threads -> Levels]
    /\ sample \in [pps : Rates, level : Severities \cup {NONE}]
    /\ shared_level \in Levels /\ shared_active \in BOOLEAN
    /\ shared_pct \in {RateLimitPct(l) : l \in Levels}

LEMMA TypeOKParts == TypeOK <=> StateTypes /\ BaselineTypes /\ PcTypes /\ IOTypes
  BY DEF TypeOK, StateTypes, BaselineTypes, PcTypes, IOTypes

LEMMA GotoType ==
  ASSUME PcTypes, NEW t \in Threads,
         NEW p \in {"wait", "lock", "publish", "level", "flag", "pct"},
         Goto(t, p)
  PROVE  PcTypes'
  BY DEF PcTypes, Goto

LEMMA ChangedType ==
  ASSUME PcTypes, NEW b \in BOOLEAN, Changed(b)
  PROVE  PcTypes'
  <1>1. "detector" \in Threads
    BY DEF Threads
  <1>2. CASE b
    BY <1>1, <1>2, GotoType DEF Changed
  <1>3. CASE ~b
    BY <1>1, <1>3, GotoType DEF Changed
  <1>. QED
    BY <1>2, <1>3

\* What one cycle compares and counts stays within its types.
LEMMA CycleTypes ==
  ASSUME TypeOK
  PROVE  /\ sample.pps \in Rates /\ sample.level \in Levels
         /\ sample.level # NONE => sample.level \in LOW .. CRITICAL
         /\ Peak \in Rates
         /\ LowCycles \in 0 .. TRAFFIC_DROP_CYCLES
         /\ CoolDownLeft \in 0 .. EXTENDED_COOLDOWN_MULTIPLIER * CoolDown
         /\ ConsecutiveDetect \in 0 .. Persistence
         /\ MoreCycles \in 0 .. CycleCap
         /\ \A e \in BOOLEAN : RecentAttacks(e) \in 0 .. ATTACK_FREQ_THRESHOLD
  <1>1. sample.pps \in Rates /\ sample.level \in Severities \cup {NONE}
    BY DEF TypeOK
  <1>2. sample.level \in Levels /\ (sample.level # NONE => sample.level \in LOW .. CRITICAL)
    <2>1. \A l \in Severities : l \in LOW .. CRITICAL
      BY AnomalyAssumption
    <2>. QED
      BY <1>1, <2>1, SMT DEF Levels, NONE, LOW, CRITICAL
  <1>3. Peak \in Rates
    BY <1>1 DEF Peak, TypeOK
  <1>4. LowCycles \in 0 .. TRAFFIC_DROP_CYCLES
    BY SMT DEF LowCycles, Saturate, TRAFFIC_DROP_CYCLES, TypeOK
  <1>5. CoolDownLeft \in 0 .. EXTENDED_COOLDOWN_MULTIPLIER * CoolDown
    BY AnomalyAssumption, SMT DEF CoolDownLeft, TypeOK, EXTENDED_COOLDOWN_MULTIPLIER
  <1>6. ConsecutiveDetect \in 0 .. Persistence
    BY AnomalyAssumption, SMT DEF ConsecutiveDetect, Saturate, TypeOK
  <1>7. MoreCycles \in 0 .. CycleCap
    BY CycleCapType, SMT DEF MoreCycles, Saturate, TypeOK
  <1>8. \A e \in BOOLEAN : RecentAttacks(e) \in 0 .. ATTACK_FREQ_THRESHOLD
    BY SMT DEF RecentAttacks, TypeOK, ATTACK_FREQ_THRESHOLD
  <1>. QED
    BY <1>1, <1>2, <1>3, <1>4, <1>5, <1>6, <1>7, <1>8

\* A cycle at a level leaves a level, and falls only from above LOW.
LEMMA SettleTypes ==
  ASSUME TypeOK, NEW limit, Settle(limit)
  PROVE  /\ level' \in Levels /\ cycles_at_current_level' \in 0 .. CycleCap
         /\ PcTypes'
         /\ level' = level \/ (level > LOW /\ level' = level - 1)
  <1>1. PcTypes /\ level \in Levels /\ MoreCycles \in 0 .. CycleCap /\ CycleCap \in Nat
    BY TypeOKParts, CycleTypes, CycleCapType DEF StateTypes
  <1>2. CASE level > LOW /\ StepDown
    <2>1. PcTypes'
      BY <1>1, <1>2, ChangedType DEF StepDown
    <2>2. level' \in Levels /\ cycles_at_current_level' \in 0 .. CycleCap
      BY <1>1, <1>2, SMT DEF StepDown, Levels, NONE, LOW, CRITICAL
    <2>. QED
      BY <1>2, <2>1, <2>2 DEF StepDown
  <1>3. CASE cycles_at_current_level' = MoreCycles /\ Changed(FALSE) /\ UNCHANGED level
    BY <1>1, <1>3, ChangedType
  <1>. QED
    BY <1>2, <1>3 DEF Settle

LEMMA InitTypes == Init => TypeOK
  <1>. SUFFICES ASSUME Init PROVE TypeOK
    OBVIOUS
  <1>1. StateTypes
    <2>1. 0 \in Rates /\ active \in BOOLEAN /\ peak_pps = 0
      BY AnomalyAssumption DEF Init
    <2>2. /\ 0 \in 0 .. Persistence /\ 0 \in 0 .. CycleCap
          /\ 0 \in 0 .. EXTENDED_COOLDOWN_MULTIPLIER * CoolDown
          /\ 0 \in 0 .. TRAFFIC_DROP_CYCLES /\ 0 \in 0 .. ATTACK_FREQ_THRESHOLD
      BY AnomalyAssumption, CycleCapType, SMT
      DEF EXTENDED_COOLDOWN_MULTIPLIER, TRAFFIC_DROP_CYCLES, ATTACK_FREQ_THRESHOLD
    <2>3. NONE \in Levels
      BY SMT DEF Levels, NONE, CRITICAL
    <2>. QED
      BY <2>1, <2>2, <2>3 DEF Init, StateTypes
  <1>2. BaselineTypes
    <2>1. 0 \in 0 .. PoisonThreshold /\ 0 \in 0 .. PoisonRecovery
      BY AnomalyAssumption, SMT
    <2>. QED
      BY <2>1 DEF Init, BaselineTypes
  <1>3. PcTypes
    BY DEF Init, PcTypes
  <1>4. NONE \in Levels
    BY SMT DEF Levels, NONE, CRITICAL
  <1>5. IOTypes
    BY <1>4, AnomalyAssumption, RateLimitPctNone DEF Init, IOTypes
  <1>. QED
    BY <1>1, <1>2, <1>3, <1>5, TypeOKParts

-----------------------------------------------------------------------------
(* Every transition keeps the types.                                       *)

LEMMA TransitionTypes ==
  ASSUME TypeOK, NEW e \in BOOLEAN, UpdateAnomalyState(e)
  PROVE  StateTypes' /\ PcTypes'
  <1>0. StateTypes /\ PcTypes
    BY TypeOKParts
  <1>1. /\ sample.pps \in Rates /\ sample.level \in Levels
        /\ Peak \in Rates
        /\ LowCycles \in 0 .. TRAFFIC_DROP_CYCLES
        /\ CoolDownLeft \in 0 .. EXTENDED_COOLDOWN_MULTIPLIER * CoolDown
        /\ ConsecutiveDetect \in 0 .. Persistence
        /\ MoreCycles \in 0 .. CycleCap
        /\ RecentAttacks(e) \in 0 .. ATTACK_FREQ_THRESHOLD
    BY CycleTypes
  <1>2. /\ 0 \in Rates /\ 0 \in 0 .. CycleCap /\ 0 \in 0 .. TRAFFIC_DROP_CYCLES
        /\ 0 \in 0 .. EXTENDED_COOLDOWN_MULTIPLIER * CoolDown
        /\ NONE \in Levels /\ TRUE \in BOOLEAN /\ FALSE \in BOOLEAN
    <2>1. 0 \in Rates
      BY AnomalyAssumption
    <2>2. 0 \in 0 .. EXTENDED_COOLDOWN_MULTIPLIER * CoolDown
      BY AnomalyAssumption, SMT DEF EXTENDED_COOLDOWN_MULTIPLIER
    <2>. QED
      BY <2>1, <2>2, CycleCapType, SMT DEF TRAFFIC_DROP_CYCLES, Levels, NONE, CRITICAL
  <1>3. consecutive_detect' \in 0 .. Persistence
    BY <1>1 DEF UpdateAnomalyState
  <1>4. CASE Activate(e)
    <2>1. recent_attack_count' \in 0 .. ATTACK_FREQ_THRESHOLD
      BY <1>1, <1>4, SMT DEF Activate, Saturate, ATTACK_FREQ_THRESHOLD
    <2>2. PcTypes'
      BY <1>0, <1>4, ChangedType DEF Activate
    <2>. QED
      BY <1>1, <1>2, <1>3, <1>4, <2>1, <2>2 DEF Activate, StateTypes
  <1>5. CASE ContinueDetected(e)
    <2>1. level' \in Levels /\ cycles_at_current_level' \in 0 .. CycleCap /\ PcTypes'
      <3>1. CASE sample.level = level /\ cycles_at_current_level' = MoreCycles
                 /\ Changed(FALSE) /\ UNCHANGED level
        BY <1>0, <1>1, <3>1, ChangedType DEF StateTypes
      <3>2. CASE level' = sample.level /\ cycles_at_current_level' = 0 /\ Changed(TRUE)
        BY <1>0, <1>1, <1>2, <3>2, ChangedType
      <3>3. CASE Settle(Deescalation)
        BY <3>3, SettleTypes
      <3>. QED
        BY <1>5, <3>1, <3>2, <3>3 DEF ContinueDetected
    <2>. QED
      BY <1>0, <1>1, <1>2, <1>3, <1>5, <2>1 DEF ContinueDetected, Track, StateTypes
  <1>6. CASE ContinueOnTraffic(e)
    <2>1. level' \in Levels /\ cycles_at_current_level' \in 0 .. CycleCap /\ PcTypes'
      BY <1>6, SettleTypes DEF ContinueOnTraffic
    <2>. QED
      BY <1>0, <1>1, <1>2, <1>3, <1>6, <2>1 DEF ContinueOnTraffic, Track, StateTypes
  <1>7. CASE StartCoolDown(e)
    <2>1. cool_down_remaining' \in 0 .. EXTENDED_COOLDOWN_MULTIPLIER * CoolDown
      BY <1>7, AnomalyAssumption, SMT DEF StartCoolDown, EXTENDED_COOLDOWN_MULTIPLIER
    <2>2. level' \in Levels /\ cycles_at_current_level' \in 0 .. CycleCap /\ PcTypes'
      <3>1. CASE level > LOW /\ StepDown
        <4>1. PcTypes'
          BY <1>0, <3>1, ChangedType DEF StepDown
        <4>2. level \in Levels
          BY <1>0 DEF StateTypes
        <4>. QED
          BY <1>2, <3>1, <4>1, <4>2, SMT DEF StepDown, Levels, NONE, LOW, CRITICAL
      <3>2. CASE Changed(FALSE) /\ UNCHANGED <<level, cycles_at_current_level>>
        BY <1>0, <3>2, ChangedType DEF StateTypes
      <3>. QED
        BY <1>7, <3>1, <3>2 DEF StartCoolDown
    <2>. QED
      BY <1>0, <1>1, <1>3, <1>7, <2>1, <2>2 DEF StartCoolDown, Track, StateTypes
  <1>8. CASE Cooling(e)
    <2>1. cool_down_remaining' \in 0 .. EXTENDED_COOLDOWN_MULTIPLIER * CoolDown
      BY <1>1, <1>8, AnomalyAssumption, SMT DEF Cooling, EXTENDED_COOLDOWN_MULTIPLIER
    <2>2. level' \in Levels /\ cycles_at_current_level' \in 0 .. CycleCap /\ PcTypes'
      BY <1>8, SettleTypes DEF Cooling
    <2>. QED
      BY <1>0, <1>1, <1>3, <1>8, <2>1, <2>2 DEF Cooling, Track, StateTypes
  <1>9. CASE CoolDownComplete(e)
    <2>1. PcTypes'
      BY <1>0, <1>9, ChangedType DEF CoolDownComplete
    <2>. QED
      BY <1>1, <1>2, <1>3, <1>9, <2>1 DEF CoolDownComplete, StateTypes
  <1>10. CASE StayNormal(e)
    <2>1. PcTypes'
      BY <1>0, <1>10, ChangedType DEF StayNormal
    <2>. QED
      BY <1>0, <1>1, <1>3, <1>10, <2>1 DEF StayNormal, StateTypes
  <1>. QED
    BY <1>4, <1>5, <1>6, <1>7, <1>8, <1>9, <1>10 DEF UpdateAnomalyState

\* Below the threshold until poisoning is detected: what bounds the count.
CountBelowThreshold == ~poison_detected => large_change_count < PoisonThreshold

LEMMA GuardTypes ==
  ASSUME TypeOK, CountBelowThreshold, GuardBaselines
  PROVE  BaselineTypes' /\ CountBelowThreshold'
  <1>0. BaselineTypes
    BY TypeOKParts
  <1>1. Updates \in BOOLEAN /\ StillPoisoned \in BOOLEAN
    BY <1>0 DEF Updates, StillPoisoned, BaselineTypes
  <1>2. CASE PoisonProtection
    <2>1. PICK expired \in BOOLEAN, jumped \in BOOLEAN : CheckPoisoning(expired, jumped)
      BY <1>2 DEF GuardBaselines
    <2>. DEFINE restart == expired \/ ~poison_window_open \/ Recovers
                counted == IF restart THEN 0 ELSE large_change_count
    <2>2. frozen' \in BOOLEAN /\ poison_detected' \in BOOLEAN /\ poison_window_open' \in BOOLEAN
      BY <2>1, Zenon DEF CheckPoisoning
    <2>3. poison_age' \in 0 .. PoisonRecovery
      BY <1>0, <2>1, AnomalyAssumption, SMT DEF CheckPoisoning, Saturate, BaselineTypes
    <2>4. counted \in 0 .. PoisonThreshold
      BY <1>0, AnomalyAssumption, SMT DEF BaselineTypes
    <2>5. learned' \in BOOLEAN
      BY <1>1 DEF GuardBaselines
    <2>6. CASE jumped /\ ~StillPoisoned
      <3>1. ~restart /\ ~poison_detected
        BY <2>1, <2>6 DEF CheckPoisoning, StillPoisoned
      <3>2. large_change_count \in Nat /\ large_change_count < PoisonThreshold
        BY <1>0, <3>1, AnomalyAssumption, SMT DEF CountBelowThreshold, BaselineTypes
      <3>3. /\ large_change_count' = large_change_count + 1
            /\ poison_detected' = (StillPoisoned \/ PoisonFound(large_change_count + 1))
        BY <2>1, <2>6, <3>1 DEF CheckPoisoning
      <3>4. large_change_count' \in 0 .. PoisonThreshold
        BY <3>2, <3>3, AnomalyAssumption, SMT
      <3>5. CountBelowThreshold'
        <4>1. ~PoisonFound(large_change_count + 1) =>
                 large_change_count + 1 < PoisonThreshold
          BY <3>2, AnomalyAssumption, SMT DEF PoisonFound
        <4>. QED
          BY <3>3, <4>1, Zenon DEF CountBelowThreshold
      <3>. QED
        BY <2>2, <2>3, <2>5, <3>4, <3>5 DEF BaselineTypes
    <2>7. CASE ~(jumped /\ ~StillPoisoned)
      <3>1. large_change_count' = counted
        BY <2>1, <2>7 DEF CheckPoisoning
      <3>2. poison_detected' = StillPoisoned
        BY <1>1, <2>1, <2>7 DEF CheckPoisoning
      <3>3. large_change_count' \in 0 .. PoisonThreshold
        BY <2>4, <3>1
      <3>4. ~StillPoisoned => counted < PoisonThreshold
        BY <1>0, AnomalyAssumption, SMT DEF StillPoisoned, CountBelowThreshold, BaselineTypes
      <3>5. CountBelowThreshold'
        BY <3>1, <3>2, <3>4 DEF CountBelowThreshold
      <3>. QED
        BY <2>2, <2>3, <2>5, <3>3, <3>5 DEF BaselineTypes
    <2>. QED
      BY <2>6, <2>7
  <1>3. CASE ~PoisonProtection
    BY <1>0, <1>1, <1>3 DEF GuardBaselines, poisonVars, BaselineTypes, CountBelowThreshold
  <1>. QED
    BY <1>2, <1>3

-----------------------------------------------------------------------------
(* Type correctness.                                                       *)

TypeInv == TypeOK /\ CountBelowThreshold

LEMMA InitTypeInv == Init => TypeInv
  <1>1. Init => CountBelowThreshold
    BY AnomalyAssumption, SMT DEF Init, CountBelowThreshold
  <1>. QED
    BY <1>1, InitTypes DEF TypeInv

LEMMA UpdateTypes ==
  ASSUME TypeInv, Update
  PROVE  TypeInv'
  <1>0. /\ TypeOK /\ CountBelowThreshold
        /\ StateTypes /\ PcTypes /\ IOTypes
    BY TypeOKParts DEF TypeInv
  <1>1. StateTypes' /\ PcTypes'
    <2>1. CASE Runs
      <3>1. PICK e \in BOOLEAN : UpdateAnomalyState(e)
        BY <2>1 DEF Update
      <3>. QED
        BY <1>0, <3>1, TransitionTypes
    <2>2. CASE ~Runs
      <3>1. SkipAnomalyState
        BY <2>2 DEF Update
      <3>. QED
        BY <1>0, <3>1, ChangedType DEF SkipAnomalyState, attackVars, StateTypes
    <2>. QED
      BY <2>1, <2>2
  <1>2. BaselineTypes' /\ CountBelowThreshold'
    BY <1>0, GuardTypes DEF Update
  <1>3. IOTypes'
    BY <1>0 DEF Update, sharedVars, IOTypes
  <1>4. TypeOK'
    BY <1>1, <1>2, <1>3 DEF TypeOK, StateTypes, BaselineTypes, PcTypes, IOTypes
  <1>. QED
    BY <1>2, <1>4 DEF TypeInv

LEMMA NextTypes ==
  ASSUME TypeInv, [Next]_vars
  PROVE  TypeInv'
  <1>0. /\ TypeOK /\ CountBelowThreshold
        /\ StateTypes /\ BaselineTypes /\ PcTypes /\ IOTypes
    BY TypeOKParts DEF TypeInv
  <1>. DEFINE Parts == StateTypes /\ BaselineTypes /\ PcTypes /\ IOTypes
  <1>. SUFFICES Parts' /\ CountBelowThreshold'
    BY DEF TypeInv, TypeOK, StateTypes, BaselineTypes, PcTypes, IOTypes
  <1>a. "detector" \in Threads /\ "control" \in Threads
    BY DEF Threads
  <1>1. CASE Sample
    <2>1. PcTypes'
      BY <1>0, <1>1, <1>a, GotoType DEF Sample
    <2>2. sample' \in [pps : Rates, level : Severities \cup {NONE}]
      BY <1>1 DEF Sample
    <2>. QED
      BY <1>0, <1>1, <2>1, <2>2
      DEF Sample, attackVars, baselineVars, poisonVars, sharedVars,
          StateTypes, BaselineTypes, IOTypes, CountBelowThreshold
  <1>2. CASE Update
    <2>1. TypeInv'
      BY <1>2, UpdateTypes
    <2>. QED
      BY <2>1 DEF TypeInv, TypeOK, StateTypes, BaselineTypes, PcTypes, IOTypes
  <1>3. CASE ReadLevel
    <2>1. PcTypes'
      BY <1>0, <1>3, <1>a, GotoType DEF ReadLevel
    <2>2. publishing' \in [Threads -> Levels]
      BY <1>0, <1>3 DEF ReadLevel, StateTypes, IOTypes
    <2>. QED
      BY <1>0, <1>3, <2>1, <2>2
      DEF ReadLevel, attackVars, baselineVars, poisonVars, sharedVars,
          StateTypes, BaselineTypes, IOTypes, CountBelowThreshold
  <1>4. ASSUME NEW t \in Threads, StoreLevel(t)
        PROVE  Parts' /\ CountBelowThreshold'
    <2>1. PcTypes'
      BY <1>0, <1>4, GotoType DEF StoreLevel
    <2>2. shared_level' \in Levels
      BY <1>0, <1>4 DEF StoreLevel, IOTypes
    <2>. QED
      BY <1>0, <1>4, <2>1, <2>2
      DEF StoreLevel, attackVars, baselineVars, poisonVars,
          StateTypes, BaselineTypes, IOTypes, CountBelowThreshold
  <1>5. ASSUME NEW t \in Threads, StoreActive(t)
        PROVE  Parts' /\ CountBelowThreshold'
    <2>1. PcTypes'
      BY <1>0, <1>5, GotoType DEF StoreActive
    <2>2. shared_active' \in BOOLEAN
      BY <1>5 DEF StoreActive
    <2>. QED
      BY <1>0, <1>5, <2>1, <2>2
      DEF StoreActive, attackVars, baselineVars, poisonVars,
          StateTypes, BaselineTypes, IOTypes, CountBelowThreshold
  <1>6. ASSUME NEW t \in Threads, StorePct(t)
        PROVE  Parts' /\ CountBelowThreshold'
    <2>1. PcTypes'
      BY <1>0, <1>6, GotoType DEF StorePct
    <2>2. shared_pct' \in {RateLimitPct(l) : l \in Levels}
      <3>1. publishing[t] \in Levels
        BY <1>0, <1>6 DEF IOTypes
      <3>. QED
        BY <1>6, <3>1 DEF StorePct
    <2>. QED
      BY <1>0, <1>6, <2>1, <2>2
      DEF StorePct, attackVars, baselineVars, poisonVars,
          StateTypes, BaselineTypes, IOTypes, CountBelowThreshold
  <1>7. ASSUME NEW l \in Levels, Overrule(l)
        PROVE  Parts' /\ CountBelowThreshold'
    <2>1. PcTypes'
      BY <1>0, <1>7, <1>a, GotoType DEF Overrule
    <2>2. publishing' \in [Threads -> Levels]
      BY <1>0, <1>7 DEF Overrule, IOTypes
    <2>3. 0 \in 0 .. EXTENDED_COOLDOWN_MULTIPLIER * CoolDown
      BY AnomalyAssumption, SMT DEF EXTENDED_COOLDOWN_MULTIPLIER
    <2>4. StateTypes'
      BY <1>0, <1>7, <2>3 DEF Overrule, StateTypes
    <2>. QED
      BY <1>0, <1>7, <2>1, <2>2, <2>4
      DEF Overrule, baselineVars, poisonVars, sharedVars,
          BaselineTypes, IOTypes, CountBelowThreshold
  <1>8. CASE ControlStep
    <2>1. CASE ClearAnomaly \/ ForceAnomaly
      <3>1. NONE \in Levels
        BY SMT DEF Levels, NONE, CRITICAL
      <3>. QED
        BY AnomalyAssumption, <2>1, <3>1, <1>7 DEF ClearAnomaly, ForceAnomaly
    <2>2. CASE FreezeBaselines \/ UnfreezeBaselines
      <3>1. /\ frozen' \in BOOLEAN
            /\ UNCHANGED <<attackVars, poisonVars, learned, pc, publishing, sample, sharedVars>>
        BY <2>2 DEF FreezeBaselines, UnfreezeBaselines
      <3>2. StateTypes' /\ PcTypes' /\ IOTypes'
        BY <1>0, <3>1 DEF attackVars, sharedVars, StateTypes, PcTypes, IOTypes
      <3>3. BaselineTypes' /\ CountBelowThreshold'
        BY <1>0, <3>1 DEF poisonVars, BaselineTypes, CountBelowThreshold
      <3>. QED
        BY <3>2, <3>3
    <2>3. CASE ResetBaselines
      <3>1. 0 \in 0 .. PoisonThreshold /\ 0 \in 0 .. PoisonRecovery /\ 0 < PoisonThreshold
        BY AnomalyAssumption, SMT
      <3>. QED
        BY <1>0, <2>3, <3>1
        DEF ResetBaselines, attackVars, sharedVars,
            StateTypes, BaselineTypes, PcTypes, IOTypes, CountBelowThreshold
    <2>. QED
      BY <1>8, <2>1, <2>2, <2>3 DEF ControlStep
  <1>9. CASE UNCHANGED vars
    BY <1>0, <1>9
    DEF vars, attackVars, baselineVars, poisonVars, sharedVars,
        StateTypes, BaselineTypes, PcTypes, IOTypes, CountBelowThreshold
  <1>. QED
    BY <1>1, <1>2, <1>3, <1>4, <1>5, <1>6, <1>8, <1>9, <1>a
    DEF Next, Detector, Publish

\* In every configuration each variable keeps its type (TypeOK).
THEOREM TypeCorrect == Spec => []TypeOK
  <1>1. Init => TypeInv
    BY InitTypeInv
  <1>2. TypeInv /\ [Next]_vars => TypeInv'
    BY NextTypes
  <1>3. TypeInv => TypeOK
    BY DEF TypeInv
  <1>. QED
    BY <1>1, <1>2, <1>3, PTL DEF Spec

-----------------------------------------------------------------------------
(* Coherence, and the gradual descent.                                     *)

\* The seconds a level needs to fall to LOW, level by level.
LEMMA DescentSeconds ==
  ASSUME NEW l \in Levels, l > LOW
  PROVE  /\ (l - LOW) * LevelDuration \in Nat
         /\ (l - LOW) * LevelDuration >= LevelDuration
         /\ (l - LOW) * LevelDuration <= 3 * LevelDuration
         /\ (l - 1 - LOW) * LevelDuration = (l - LOW) * LevelDuration - LevelDuration
  <1>1. l = 2 \/ l = 3 \/ l = 4
    BY SMT DEF Levels, NONE, LOW, CRITICAL
  <1>. QED
    BY <1>1, LevelDurationType, SMT DEF LOW

\* An attack starts with a detection, and only outside a cool-down is the
\* traffic compared with the peak.
LEMMA ComparedWhen ==
  /\ Compared => active /\ ~InCoolDown
  /\ InCoolDown => CoolDownLeft = cool_down_remaining
  /\ EffectiveDetected /\ ~active => Detected
  BY DEF Compared, Tracking, CoolDownLeft, TrafficDropped, BelowDrop, TrafficStillHigh,
         EffectiveDetected

LEMMA InitCoherent == Init => StateIsCoherent /\ CoolDownReachesLow
  BY DEF Init, StateIsCoherent, CoolDownReachesLow, InCoolDown, NONE

LEMMA TransitionCoherent ==
  ASSUME TypeOK, StateIsCoherent, NEW e \in BOOLEAN, UpdateAnomalyState(e)
  PROVE  StateIsCoherent'
  <1>0. /\ level \in Levels /\ active \in BOOLEAN
        /\ sample.level # NONE => sample.level \in LOW .. CRITICAL
    BY CycleTypes DEF TypeOK
  <1>1. CASE Activate(e)
    <2>1. sample.level \in LOW .. CRITICAL
      BY <1>0, <1>1, ComparedWhen DEF Activate, Detected
    <2>2. active' /\ level' > NONE
      BY <1>1, <2>1, SMT DEF Activate, LOW, NONE, CRITICAL
    <2>. QED
      BY <1>1, <2>2 DEF StateIsCoherent, Activate
  <1>2. CASE ContinueDetected(e)
    <2>1. active /\ active' /\ level > NONE
      BY <1>2 DEF ContinueDetected, StateIsCoherent
    <2>2. level' > NONE
      <3>1. CASE UNCHANGED level
        BY <2>1, <3>1
      <3>2. CASE sample.level > level /\ level' = sample.level
        <4>1. sample.level \in Levels
          BY CycleTypes
        <4>. QED
          BY <1>0, <2>1, <3>2, <4>1, SMT DEF Levels, NONE, CRITICAL
      <3>3. CASE Settle(Deescalation)
        <4>1. level' = level \/ (level > LOW /\ level' = level - 1)
          BY <3>3, SettleTypes
        <4>. QED
          BY <1>0, <2>1, <4>1, SMT DEF Levels, NONE, LOW, CRITICAL
      <3>. QED
        BY <1>2, <3>1, <3>2, <3>3 DEF ContinueDetected
    <2>. QED
      BY <2>1, <2>2 DEF StateIsCoherent
  <1>3. CASE ContinueOnTraffic(e) \/ Cooling(e)
    <2>1. active /\ active' /\ level > NONE
      BY <1>3 DEF ContinueOnTraffic, Cooling, StateIsCoherent
    <2>2. level' = level \/ (level > LOW /\ level' = level - 1)
      BY <1>3, SettleTypes DEF ContinueOnTraffic, Cooling
    <2>3. level' > NONE
      BY <1>0, <2>1, <2>2, SMT DEF Levels, NONE, LOW, CRITICAL
    <2>. QED
      BY <2>1, <2>3 DEF StateIsCoherent
  <1>4. CASE StartCoolDown(e)
    <2>1. active /\ active' /\ level > NONE
      BY <1>4 DEF StartCoolDown, StateIsCoherent
    <2>2. level' = level \/ (level > LOW /\ level' = level - 1)
      BY <1>4 DEF StartCoolDown, StepDown
    <2>3. level' > NONE
      BY <1>0, <2>1, <2>2, SMT DEF Levels, NONE, LOW, CRITICAL
    <2>. QED
      BY <2>1, <2>3 DEF StateIsCoherent
  <1>5. CASE CoolDownComplete(e)
    <2>1. ~(NONE > NONE)
      BY SMT DEF NONE
    <2>. QED
      BY <1>5, <2>1 DEF CoolDownComplete, StateIsCoherent
  <1>6. CASE StayNormal(e)
    BY <1>6 DEF StayNormal, StateIsCoherent
  <1>. QED
    BY <1>1, <1>2, <1>3, <1>4, <1>5, <1>6 DEF UpdateAnomalyState

\* A cycle of the cool-down keeps enough seconds for the levels left.
LEMMA CoolingDescends ==
  ASSUME CoolDown >= 7, TypeOK, CoolDownReachesLow, NEW e \in BOOLEAN, Cooling(e)
  PROVE  CoolDownReachesLow'
  <1>. DEFINE ld == LevelDuration
              need(l) == (l - LOW) * ld
  <1>1. /\ level \in Levels /\ cycles_at_current_level \in Nat /\ CoolDown \in Nat
        /\ cool_down_remaining \in Nat
        /\ cycles_at_current_level <= CycleCap
    BY CycleCapType, AnomalyAssumption, SMT DEF TypeOK, EXTENDED_COOLDOWN_MULTIPLIER
  <1>2. ld \in Nat /\ ld >= 2 /\ 3 * ld < CoolDown /\ CycleCap \in Nat /\ CycleCap >= ld
    BY LevelDurationType, ThreeLevelsFit, CycleCapType
  <1>3. active /\ CoolDownLeft > 1 /\ cool_down_remaining' = CoolDownLeft - 1 /\ Settle(ld)
    BY DEF Cooling
  <1>4. SUFFICES ASSUME level' > LOW
                 PROVE  /\ cycles_at_current_level' < ld
                        /\ need(level') < cool_down_remaining' + cycles_at_current_level'
    BY DEF CoolDownReachesLow
  <1>5. MoreCycles \in Nat /\ (MoreCycles < ld => MoreCycles = cycles_at_current_level + 1)
    BY <1>1, <1>2, SMT DEF MoreCycles, Saturate
  <1>6. level > LOW
    BY <1>1, <1>3, <1>4, SettleTypes, SMT DEF Levels, NONE, LOW, CRITICAL
  <1>7. /\ need(level) \in Nat /\ need(level) <= 3 * ld
        /\ need(level - 1) = need(level) - ld
    BY <1>1, <1>6, DescentSeconds
  <1>8. CASE MoreCycles >= ld /\ StepDown
    <2>1. level' = level - 1 /\ cycles_at_current_level' = 0
      BY <1>8 DEF StepDown
    <2>2. need(level') = need(level) - ld
      BY <1>7, <2>1
    <2>3. CASE InCoolDown
      <3>1. CoolDownLeft = cool_down_remaining
        BY <2>3, ComparedWhen
      <3>2. /\ cycles_at_current_level < ld
            /\ need(level) < cool_down_remaining + cycles_at_current_level
        BY <1>6, <2>3 DEF CoolDownReachesLow
      <3>. HIDE DEF need, ld
      <3>. QED
        BY <1>1, <1>2, <1>3, <1>7, <2>1, <2>2, <3>1, <3>2, SMT
    <2>4. CASE ~InCoolDown
      <3>1. CoolDownLeft = CoolDown
        BY <1>1, <1>3, <2>4, SMT DEF CoolDownLeft, InCoolDown
      <3>. HIDE DEF need, ld
      <3>. QED
        BY <1>1, <1>2, <1>3, <1>7, <2>1, <2>2, <3>1, SMT
    <2>. QED
      BY <2>3, <2>4
  <1>9. CASE /\ MoreCycles < ld
             /\ level' = level /\ cycles_at_current_level' = cycles_at_current_level + 1
    <2>1. CASE InCoolDown
      <3>1. CoolDownLeft = cool_down_remaining
        BY <2>1, ComparedWhen
      <3>2. need(level) < cool_down_remaining + cycles_at_current_level
        BY <1>6, <2>1 DEF CoolDownReachesLow
      <3>3. need(level') = need(level)
        BY <1>9
      <3>. HIDE DEF need, ld
      <3>. QED
        BY <1>1, <1>2, <1>3, <1>5, <1>7, <1>9, <3>1, <3>2, <3>3, SMT
    <2>2. CASE ~InCoolDown
      <3>1. CoolDownLeft = CoolDown
        BY <1>1, <1>3, <2>2, SMT DEF CoolDownLeft, InCoolDown
      <3>2. need(level') = need(level)
        BY <1>9
      <3>. HIDE DEF need, ld
      <3>. QED
        BY <1>1, <1>2, <1>3, <1>5, <1>7, <1>9, <3>1, <3>2, SMT
    <2>. QED
      BY <2>1, <2>2
  <1>10. (MoreCycles >= ld) \/ (MoreCycles < ld)
    BY <1>2, <1>5, SMT
  <1>. QED
    BY <1>3, <1>5, <1>6, <1>8, <1>9, <1>10 DEF Settle

\* A cool-down that begins has the seconds of all the levels left.
LEMMA StartDescends ==
  ASSUME CoolDown >= 7, TypeOK, NEW e \in BOOLEAN, StartCoolDown(e)
  PROVE  CoolDownReachesLow'
  <1>. DEFINE ld == LevelDuration
              need(l) == (l - LOW) * ld
  <1>1. level \in Levels /\ CoolDown \in Nat
    BY AnomalyAssumption DEF TypeOK
  <1>2. ld \in Nat /\ ld >= 2 /\ 3 * ld < CoolDown
    BY LevelDurationType, ThreeLevelsFit
  <1>3. cool_down_remaining' >= CoolDown /\ cool_down_remaining' \in Nat
    BY <1>1, SMT DEF StartCoolDown, EXTENDED_COOLDOWN_MULTIPLIER
  <1>4. SUFFICES ASSUME level' > LOW
                 PROVE  /\ cycles_at_current_level' < ld
                        /\ need(level') < cool_down_remaining' + cycles_at_current_level'
    BY DEF CoolDownReachesLow
  <1>5. level > LOW /\ level' = level - 1 /\ cycles_at_current_level' = 0
    <2>1. CASE level > LOW /\ StepDown
      BY <2>1 DEF StepDown
    <2>2. CASE level <= LOW /\ UNCHANGED level
      BY <1>1, <1>4, <2>2, SMT DEF Levels, NONE, LOW, CRITICAL
    <2>. QED
      BY <2>1, <2>2 DEF StartCoolDown
  <1>6. /\ need(level) \in Nat /\ need(level) <= 3 * ld
        /\ need(level') = need(level) - ld
    BY <1>1, <1>5, DescentSeconds
  <1>. HIDE DEF need, ld
  <1>. QED
    BY <1>1, <1>2, <1>3, <1>5, <1>6, SMT

\* A cool-down that ends is at LOW.
LEMMA CompleteAtLow ==
  ASSUME CoolDown >= 7, TypeOK, StateIsCoherent, CoolDownReachesLow,
         NEW e \in BOOLEAN, CoolDownComplete(e)
  PROVE  level = LOW /\ InCoolDown
  <1>. DEFINE ld == LevelDuration
              need(l) == (l - LOW) * ld
  <1>1. /\ level \in Levels /\ cycles_at_current_level \in Nat /\ CoolDown \in Nat
        /\ cool_down_remaining \in Nat
    BY CycleCapType, AnomalyAssumption, SMT DEF TypeOK, EXTENDED_COOLDOWN_MULTIPLIER
  <1>2. active /\ CoolDownLeft = 1 /\ level > NONE
    BY DEF CoolDownComplete, StateIsCoherent
  <1>3. CoolDownLeft = cool_down_remaining
    BY <1>1, <1>2, SMT DEF CoolDownLeft
  <1>4. InCoolDown
    BY <1>2, <1>3, SMT DEF InCoolDown
  <1>5. ~(level > LOW)
    <2>. SUFFICES ASSUME level > LOW PROVE FALSE
      OBVIOUS
    <2>1. /\ cycles_at_current_level < ld
          /\ need(level) < cool_down_remaining + cycles_at_current_level
      BY <1>4 DEF CoolDownReachesLow
    <2>2. need(level) \in Nat /\ need(level) >= ld
      BY <1>1, DescentSeconds
    <2>3. ld \in Nat
      BY LevelDurationType
    <2>. HIDE DEF need, ld
    <2>. QED
      BY <1>1, <1>2, <1>3, <2>1, <2>2, <2>3, SMT
  <1>6. level = LOW
    BY <1>1, <1>2, <1>5, SMT DEF Levels, NONE, LOW, CRITICAL
  <1>. QED
    BY <1>4, <1>6

LEMMA TransitionDescends ==
  ASSUME CoolDown >= 7, TypeOK, StateIsCoherent, CoolDownReachesLow,
         NEW e \in BOOLEAN, UpdateAnomalyState(e)
  PROVE  CoolDownReachesLow' /\ (level' < level => level' = level - 1)
  <1>0. level \in Levels
    BY DEF TypeOK
  <1>1. CASE Activate(e)
    <2>1. cool_down_remaining' = 0 /\ level = NONE /\ level' \in Levels
      <3>1. level = NONE
        BY <1>0, <1>1, SMT DEF Activate, StateIsCoherent, Levels, NONE, CRITICAL
      <3>. QED
        BY <1>1, <3>1, CycleTypes DEF Activate
    <2>. QED
      BY <2>1, SMT DEF CoolDownReachesLow, InCoolDown, Levels, NONE, CRITICAL
  <1>2. CASE ContinueDetected(e)
    <2>1. cool_down_remaining' = 0
      BY <1>2 DEF ContinueDetected
    <2>2. level' < level => level' = level - 1
      <3>1. CASE UNCHANGED level
        BY <1>0, <3>1, SMT DEF Levels, NONE, CRITICAL
      <3>2. CASE sample.level > level /\ level' = sample.level
        BY <1>0, <3>2, CycleTypes, SMT DEF Levels, NONE, CRITICAL
      <3>3. CASE Settle(Deescalation)
        BY <1>0, <3>3, SettleTypes, SMT DEF Levels, NONE, CRITICAL
      <3>. QED
        BY <1>2, <3>1, <3>2, <3>3 DEF ContinueDetected
    <2>. QED
      BY <2>1, <2>2, SMT DEF CoolDownReachesLow, InCoolDown
  <1>3. CASE ContinueOnTraffic(e)
    <2>1. cool_down_remaining' = 0 /\ (level' < level => level' = level - 1)
      BY <1>0, <1>3, SettleTypes, SMT DEF ContinueOnTraffic, Levels, NONE, CRITICAL
    <2>. QED
      BY <2>1, SMT DEF CoolDownReachesLow, InCoolDown
  <1>4. CASE StartCoolDown(e)
    <2>1. level' < level => level' = level - 1
      <3>1. level' = level \/ level' = level - 1
        BY <1>4 DEF StartCoolDown, StepDown
      <3>. QED
        BY <1>0, <3>1, SMT DEF Levels, NONE, CRITICAL
    <2>. QED
      BY <1>4, <2>1, StartDescends
  <1>5. CASE Cooling(e)
    <2>1. level' < level => level' = level - 1
      BY <1>0, <1>5, SettleTypes, SMT DEF Cooling, Levels, NONE, CRITICAL
    <2>. QED
      BY <1>5, <2>1, CoolingDescends
  <1>6. CASE CoolDownComplete(e)
    <2>1. level = LOW
      BY <1>6, CompleteAtLow
    <2>2. cool_down_remaining' = 0 /\ level' = NONE
      BY <1>6 DEF CoolDownComplete
    <2>. QED
      BY <2>1, <2>2, SMT DEF CoolDownReachesLow, InCoolDown, LOW, NONE
  <1>7. CASE StayNormal(e)
    <2>1. ~InCoolDown' /\ level' = level
      BY <1>7 DEF StayNormal, InCoolDown
    <2>. QED
      BY <1>0, <2>1, SMT DEF CoolDownReachesLow, Levels, NONE, CRITICAL
  <1>. QED
    BY <1>1, <1>2, <1>3, <1>4, <1>5, <1>6, <1>7 DEF UpdateAnomalyState

\* What one step does to the anomaly state, for the invariants about it.
LEMMA StepCases ==
  ASSUME [Next]_vars
  PROVE  \/ Update
         \/ \E l \in Levels : Overrule(l) /\ ControlStep
         \/ UNCHANGED attackVars
  <1>1. CASE Sample \/ ReadLevel
    BY <1>1 DEF Sample, ReadLevel
  <1>2. CASE \E t \in Threads : Publish(t)
    BY <1>2 DEF Publish, StoreLevel, StoreActive, StorePct
  <1>3. CASE ControlStep
    <2>1. NONE \in Levels
      BY SMT DEF Levels, NONE, CRITICAL
    <2>. QED
      BY AnomalyAssumption, <1>3, <2>1
      DEF ControlStep, ClearAnomaly, ForceAnomaly, FreezeBaselines, UnfreezeBaselines,
          ResetBaselines
  <1>4. CASE UNCHANGED vars
    BY <1>4 DEF vars
  <1>5. "detector" \in Threads /\ "control" \in Threads
    BY DEF Threads
  <1>. QED
    BY <1>1, <1>2, <1>3, <1>4, <1>5 DEF Next, Detector

LEMMA OverruleCoherent ==
  ASSUME NEW l \in Levels, Overrule(l)
  PROVE  StateIsCoherent' /\ CoolDownReachesLow'
  <1>1. (l # NONE) <=> (l > NONE)
    BY SMT DEF Levels, NONE, CRITICAL
  <1>2. ~InCoolDown'
    BY SMT DEF Overrule, InCoolDown
  <1>. QED
    BY <1>1, <1>2 DEF Overrule, StateIsCoherent, CoolDownReachesLow

LEMMA UnchangedCoherent ==
  ASSUME UNCHANGED attackVars
  PROVE  /\ StateIsCoherent => StateIsCoherent'
         /\ CoolDownReachesLow => CoolDownReachesLow'
         /\ InCoolDown' = InCoolDown
  BY DEF attackVars, StateIsCoherent, CoolDownReachesLow, InCoolDown

CoherentInv == TypeInv /\ StateIsCoherent

LEMMA NextCoherent ==
  ASSUME CoherentInv, [Next]_vars
  PROVE  CoherentInv'
  <1>0. TypeInv /\ TypeOK /\ StateIsCoherent
    BY DEF CoherentInv, TypeInv
  <1>1. TypeInv'
    BY <1>0, NextTypes
  <1>2. CASE Update
    <2>1. Runs => StateIsCoherent'
      BY <1>0, <1>2, TransitionCoherent DEF Update
    <2>2. ~Runs => StateIsCoherent'
      BY <1>0, <1>2, UnchangedCoherent DEF Update, SkipAnomalyState
    <2>3. StateIsCoherent'
      BY <2>1, <2>2
    <2>. QED
      BY <1>1, <2>3 DEF CoherentInv
  <1>3. CASE \E l \in Levels : Overrule(l)
    BY <1>1, <1>3, OverruleCoherent DEF CoherentInv
  <1>4. CASE UNCHANGED attackVars
    BY <1>0, <1>1, <1>4, UnchangedCoherent DEF CoherentInv
  <1>. QED
    BY <1>2, <1>3, <1>4, StepCases

\* In every configuration an anomaly is active exactly at a level above NONE,
\* and only an active anomaly cools down (StateIsCoherent).
THEOREM AlwaysCoherent == Spec => []StateIsCoherent
  <1>1. Init => CoherentInv
    BY InitTypeInv, InitCoherent DEF CoherentInv
  <1>2. CoherentInv /\ [Next]_vars => CoherentInv'
    BY NextCoherent
  <1>3. CoherentInv => StateIsCoherent
    BY DEF CoherentInv
  <1>. QED
    BY <1>1, <1>2, <1>3, PTL DEF Spec

DescentInv == CoherentInv /\ CoolDownReachesLow

LEMMA NextDescends ==
  ASSUME CoolDown >= 7, DescentInv, [Next]_vars
  PROVE  /\ DescentInv'
         /\ level' < level => level' = level - 1 \/ ControlStep
  <1>0. CoherentInv /\ TypeOK /\ StateIsCoherent /\ CoolDownReachesLow /\ level \in Levels
    BY DEF DescentInv, CoherentInv, TypeInv, TypeOK
  <1>1. CoherentInv'
    BY <1>0, NextCoherent
  <1>2. ~(level < level)
    BY <1>0, SMT DEF Levels, NONE, CRITICAL
  <1>3. CASE Update
    <2>1. CASE Runs
      BY <1>0, <1>1, <1>3, <2>1, TransitionDescends DEF Update, DescentInv
    <2>2. CASE ~Runs
      BY <1>0, <1>1, <1>2, <1>3, <2>2, UnchangedCoherent
      DEF Update, SkipAnomalyState, attackVars, DescentInv
    <2>. QED
      BY <2>1, <2>2
  <1>4. CASE \E l \in Levels : Overrule(l) /\ ControlStep
    BY <1>1, <1>4, OverruleCoherent DEF DescentInv
  <1>5. CASE UNCHANGED attackVars
    BY <1>0, <1>1, <1>2, <1>5, UnchangedCoherent DEF attackVars, DescentInv
  <1>. QED
    BY <1>3, <1>4, <1>5, StepCases

LEMMA InitDescends == Init => DescentInv
  BY InitTypeInv, InitCoherent DEF DescentInv, CoherentInv

\* With seven seconds of cool-down or more, every cool-down has the seconds
\* its level needs to fall to LOW (CoolDownReachesLow).
THEOREM DescentHasTime ==
  ASSUME CoolDown >= 7
  PROVE  Spec => []CoolDownReachesLow
  <1>1. DescentInv /\ [Next]_vars => DescentInv'
    BY NextDescends
  <1>2. DescentInv => CoolDownReachesLow
    BY DEF DescentInv
  <1>. QED
    BY <1>1, <1>2, InitDescends, PTL DEF Spec

\* With seven seconds of cool-down or more, the severity falls one level at a
\* time unless an operator overrules it (GradualDescent).
THEOREM DescentIsGradual ==
  ASSUME CoolDown >= 7
  PROVE  Spec => GradualDescent
  <1>1. DescentInv /\ [Next]_vars => DescentInv'
    BY NextDescends
  <1>2. DescentInv /\ [Next]_vars =>
           [level' < level => level' = level - 1 \/ ControlStep]_vars
    BY NextDescends
  <1>. QED
    BY <1>1, <1>2, InitDescends, PTL DEF Spec, GradualDescent

-----------------------------------------------------------------------------
(* Refinement of AttackPhases.                                             *)

Phase == IF ~active THEN "normal" ELSE IF InCoolDown THEN "cooldown" ELSE "attack"
Stutter == Phase' = Phase /\ level' = level

\* The phases, one clause each.
LEMMA PhaseIs ==
  /\ ~active => Phase = "normal"
  /\ active /\ InCoolDown => Phase = "cooldown"
  /\ active /\ ~InCoolDown => Phase = "attack"
  BY DEF Phase

LEMMA PhaseWillBe ==
  /\ ~active' => Phase' = "normal"
  /\ active' /\ InCoolDown' => Phase' = "cooldown"
  /\ active' /\ ~InCoolDown' => Phase' = "attack"
  BY DEF Phase

\* A severity that is kept or falls by one, from above LOW.
LEMMA KeptOrFell ==
  ASSUME level \in Levels, level > NONE, Phase \in {"attack", "cooldown"}, Phase' = Phase,
         level' = level \/ (level > LOW /\ level' = level - 1)
  PROVE  Phases!Next \/ Stutter
  <1>1. CASE level' = level
    BY <1>1 DEF Stutter
  <1>2. CASE level > LOW /\ level' = level - 1
    <2>1. level > 1
      BY <1>2 DEF LOW
    <2>2. Phases!Fall
      BY <1>2, <2>1 DEF Phases!Fall, Phase
    <2>. QED
      BY <2>2 DEF Phases!Next
  <1>. QED
    BY <1>1, <1>2

\* The same when the cool-down starts.
LEMMA Calmed ==
  ASSUME level \in Levels, level > NONE, Phase = "attack", Phase' = "cooldown",
         level' = level \/ (level > LOW /\ level' = level - 1)
  PROVE  Phases!Next
  <1>1. level' \in {level, level - 1} \ {0}
    BY SMT DEF Levels, NONE, LOW, CRITICAL
  <1>2. Phases!Calm
    BY <1>1 DEF Phases!Calm, Phase
  <1>. QED
    BY <1>2 DEF Phases!Next

LEMMA TransitionPhases ==
  ASSUME CoolDown >= 7, TypeOK, StateIsCoherent, CoolDownReachesLow,
         NEW e \in BOOLEAN, UpdateAnomalyState(e)
  PROVE  Phases!Next \/ Stutter
  <1>0. /\ level \in Levels /\ CoolDown \in Nat /\ cool_down_remaining \in Nat
        /\ active => level > NONE
    BY AnomalyAssumption, SMT DEF TypeOK, StateIsCoherent, EXTENDED_COOLDOWN_MULTIPLIER
  <1>1. CASE Activate(e)
    <2>1. ~active /\ active' /\ ~InCoolDown' /\ level' = sample.level /\ Detected
      BY <1>1, ComparedWhen, SMT DEF Activate, InCoolDown
    <2>2. Phase = "normal" /\ Phase' = "attack"
      BY <2>1, PhaseIs, PhaseWillBe
    <2>3. level = 0
      BY <1>0, <2>1, SMT DEF StateIsCoherent, Levels, NONE, CRITICAL
    <2>4. level' \in 1 .. CRITICAL
      BY <2>1, CycleTypes DEF Detected, LOW
    <2>5. Phases!Start
      BY <2>2, <2>4 DEF Phases!Start, Phase
    <2>. QED
      BY <2>5 DEF Phases!Next
  <1>2. CASE ContinueDetected(e)
    <2>1. active /\ active' /\ ~InCoolDown /\ ~InCoolDown'
      BY <1>2, SMT DEF ContinueDetected, EffectiveDetected, InCoolDown
    <2>2. Phase = "attack" /\ Phase' = "attack"
      BY <2>1, PhaseIs, PhaseWillBe
    <2>3. CASE UNCHANGED level
      BY <2>2, <2>3 DEF Stutter
    <2>4. CASE sample.level > level /\ level' = sample.level
      <3>1. level' \in level + 1 .. CRITICAL
        BY <1>0, <2>4, CycleTypes, SMT DEF Levels, NONE, CRITICAL
      <3>2. Phases!Rise
        BY <2>2, <3>1 DEF Phases!Rise, Phase
      <3>. QED
        BY <3>2 DEF Phases!Next
    <2>5. CASE Settle(Deescalation)
      BY <1>0, <2>1, <2>2, <2>5, SettleTypes, KeptOrFell
    <2>. QED
      BY <1>2, <2>3, <2>4, <2>5 DEF ContinueDetected
  <1>3. CASE ContinueOnTraffic(e)
    <2>1. active /\ active' /\ ~InCoolDown /\ ~InCoolDown'
      BY <1>3, SMT DEF ContinueOnTraffic, EffectiveDetected, InCoolDown
    <2>2. Phase = "attack" /\ Phase' = "attack"
      BY <2>1, PhaseIs, PhaseWillBe
    <2>3. level' = level \/ (level > LOW /\ level' = level - 1)
      BY <1>3, SettleTypes DEF ContinueOnTraffic
    <2>. QED
      BY <1>0, <2>1, <2>2, <2>3, KeptOrFell
  <1>4. CASE StartCoolDown(e)
    <2>1. active /\ active' /\ CoolDownLeft = 0
      BY <1>4 DEF StartCoolDown
    <2>2. cool_down_remaining = 0
      BY <1>0, <2>1, SMT DEF CoolDownLeft
    <2>3. cool_down_remaining' > 0
      BY <1>0, <1>4, SMT DEF StartCoolDown, EXTENDED_COOLDOWN_MULTIPLIER
    <2>4. ~InCoolDown /\ InCoolDown'
      BY <2>1, <2>2, <2>3, SMT DEF InCoolDown
    <2>5. Phase = "attack" /\ Phase' = "cooldown"
      BY <2>1, <2>4, PhaseIs, PhaseWillBe
    <2>6. level' = level \/ (level > LOW /\ level' = level - 1)
      BY <1>4 DEF StartCoolDown, StepDown
    <2>. QED
      BY <1>0, <2>1, <2>5, <2>6, Calmed
  <1>5. CASE Cooling(e)
    <2>1. active /\ active' /\ cool_down_remaining' = CoolDownLeft - 1 /\ CoolDownLeft > 1
      BY <1>5 DEF Cooling
    <2>2. CoolDownLeft \in Nat
      BY <1>0 DEF CoolDownLeft
    <2>3. InCoolDown'
      <3>1. cool_down_remaining' > 0
        BY <2>1, <2>2, SMT
      <3>. QED
        BY <2>1, <3>1 DEF InCoolDown
    <2>4. Phase' = "cooldown"
      BY <2>1, <2>3, PhaseWillBe
    <2>5. level' = level \/ (level > LOW /\ level' = level - 1)
      BY <1>5, SettleTypes DEF Cooling
    <2>6. CASE InCoolDown
      BY <1>0, <2>1, <2>4, <2>5, <2>6, PhaseIs, KeptOrFell
    <2>7. CASE ~InCoolDown
      BY <1>0, <2>1, <2>4, <2>5, <2>7, PhaseIs, Calmed
    <2>. QED
      BY <2>6, <2>7
  <1>6. CASE CoolDownComplete(e)
    <2>1. level = LOW /\ InCoolDown /\ active /\ ~active' /\ level' = NONE
      BY <1>6, CompleteAtLow DEF CoolDownComplete
    <2>2. Phase = "cooldown" /\ Phase' = "normal"
      BY <2>1, PhaseIs, PhaseWillBe
    <2>3. Phases!Finish
      BY <2>1, <2>2 DEF Phases!Finish, Phase, LOW, NONE
    <2>. QED
      BY <2>3 DEF Phases!Next
  <1>7. CASE StayNormal(e)
    <2>1. ~active /\ ~active' /\ level' = level
      BY <1>7 DEF StayNormal
    <2>. QED
      BY <2>1, PhaseIs, PhaseWillBe DEF Stutter
  <1>. QED
    BY <1>1, <1>2, <1>3, <1>4, <1>5, <1>6, <1>7 DEF UpdateAnomalyState

\* A command that sets the severity is one the operator may give.
LEMMA ControlCases ==
  ASSUME ControlStep
  PROVE  \/ /\ ControlOps \cap {"clear", "force"} # {}
            /\ \E l \in Levels : Overrule(l)
         \/ UNCHANGED attackVars
  <1>1. NONE \in Levels
    BY SMT DEF Levels, NONE, CRITICAL
  <1>. QED
    BY AnomalyAssumption, <1>1 DEF ControlStep, ClearAnomaly, ForceAnomaly, FreezeBaselines, UnfreezeBaselines,
                ResetBaselines

LEMMA OverrulePhases ==
  ASSUME ControlOps \cap {"clear", "force"} # {}, NEW l \in Levels, Overrule(l)
  PROVE  Phases!Next
  <1>1. ~InCoolDown'
    BY SMT DEF Overrule, InCoolDown
  <1>2. CASE l = NONE
    <2>1. Phase' = "normal" /\ level' = 0
      BY <1>2, PhaseWillBe DEF Overrule, NONE
    <2>. QED
      BY <2>1 DEF Phases!Next, Phases!Overrule, Phase
  <1>3. CASE l # NONE
    <2>1. Phase' = "attack"
      BY <1>1, <1>3, PhaseWillBe DEF Overrule
    <2>2. level' \in 1 .. CRITICAL
      BY <1>3, SMT DEF Overrule, Levels, NONE, CRITICAL
    <2>. QED
      BY <2>1, <2>2 DEF Phases!Next, Phases!Overrule, Phase
  <1>. QED
    BY <1>2, <1>3

LEMMA NextPhases ==
  ASSUME CoolDown >= 7, DescentInv, [Next]_vars
  PROVE  Phases!Next \/ Stutter
  <1>0. TypeOK /\ StateIsCoherent /\ CoolDownReachesLow
    BY DEF DescentInv, CoherentInv, TypeInv
  <1>1. UNCHANGED attackVars => Stutter
    BY DEF attackVars, Stutter, Phase, InCoolDown
  <1>2. CASE Update
    <2>1. CASE Runs
      BY <1>0, <1>2, <2>1, TransitionPhases DEF Update
    <2>2. CASE ~Runs
      BY <1>1, <1>2, <2>2 DEF Update, SkipAnomalyState
    <2>. QED
      BY <2>1, <2>2
  <1>3. CASE ControlStep
    BY <1>1, <1>3, ControlCases, OverrulePhases
  <1>4. CASE UNCHANGED attackVars
    BY <1>1, <1>4
  <1>. QED
    BY <1>2, <1>3, <1>4, StepCases

\* With seven seconds of cool-down or more, the anomaly state goes through
\* the phases detection.h promises: every step of it is a step of AttackPhases
\* or a stutter (PhasesSpec).
THEOREM PhasesImplemented ==
  ASSUME CoolDown >= 7
  PROVE  Spec => PhasesSpec
  <1>1. Init => Phases!Init
    BY DEF Init, Phases!Init, NONE
  <1>2. DescentInv /\ [Next]_vars => DescentInv'
    BY NextDescends
  <1>3. DescentInv /\ [Next]_vars => [Phases!Next]_(Phases!phaseVars)
    BY NextPhases DEF Phases!phaseVars, Stutter, Phase
  <1>. QED
    BY <1>1, <1>2, <1>3, InitDescends, PTL DEF Spec, PhasesSpec, Phases!Spec

-----------------------------------------------------------------------------
(* The guard of the baselines.                                             *)

\* Poisoning is only found where the protection is on.
UnprotectedIsClean == ~PoisonProtection => ~poison_detected
GuardInv == PoisonedStaysFrozen /\ UnprotectedIsClean

\* What steps 5 to 6b do to the frozen flag and the suspicion, for any cycle.
LEMMA GuardKeeps ==
  ASSUME GuardInv, GuardBaselines
  PROVE  GuardInv'
  <1>1. poison_detected /\ frozen => FrozenByAttack
    BY DEF FrozenByAttack
  <1>2. CASE PoisonProtection
    <2>. PICK expired \in BOOLEAN, jumped \in BOOLEAN : CheckPoisoning(expired, jumped)
      BY <1>2 DEF GuardBaselines
    <2>. DEFINE restart == expired \/ ~poison_window_open \/ Recovers
                counted == IF restart THEN 0 ELSE large_change_count
                count == IF jumped /\ ~StillPoisoned THEN counted + 1 ELSE counted
                found == jumped /\ ~StillPoisoned /\ PoisonFound(count)
    <2>1. /\ jumped => Updates /\ ~restart
          /\ poison_detected' = (StillPoisoned \/ found)
          /\ frozen' = (~Updates \/ found)
      BY DEF CheckPoisoning
    <2>. HIDE DEF count
    <2>2. StillPoisoned /\ frozen => ~Updates
      BY <1>1 DEF StillPoisoned, Updates
    <2>3. "unfreeze" \notin ControlOps => (poison_detected' => frozen')
      BY <2>1, <2>2 DEF GuardInv, PoisonedStaysFrozen, StillPoisoned
    <2>. QED
      BY <1>2, <2>3 DEF GuardInv, PoisonedStaysFrozen, UnprotectedIsClean
  <1>3. CASE ~PoisonProtection
    <2>1. ~poison_detected /\ poison_detected' = poison_detected
      BY <1>3 DEF GuardBaselines, GuardInv, UnprotectedIsClean, poisonVars
    <2>. QED
      BY <1>3, <2>1 DEF GuardInv, PoisonedStaysFrozen, UnprotectedIsClean
  <1>. QED
    BY <1>2, <1>3

\* Only an update ends the detector's critical section.
LEMMA OnlyUpdateLeavesLock ==
  ASSUME TypeOK, [Next]_vars, pc["detector"] = "lock", pc'["detector"] # "lock"
  PROVE  Update
  <1>1. pc \in [Threads -> {"wait", "lock", "publish", "level", "flag", "pct"}]
    BY DEF TypeOK
  <1>2. \A p \in {"wait", "level", "flag", "pct"} :
           Goto("control", p) => pc'["detector"] = pc["detector"]
    BY <1>1 DEF Goto, Threads
  <1>3. CASE Sample \/ ReadLevel
    BY <1>3 DEF Sample, ReadLevel
  <1>4. CASE Publish("detector")
    BY <1>4 DEF Publish, StoreLevel, StoreActive, StorePct
  <1>5. CASE Publish("control")
    BY <1>2, <1>5 DEF Publish, StoreLevel, StoreActive, StorePct
  <1>6. CASE ControlStep
    BY <1>2, <1>6
    DEF ControlStep, ClearAnomaly, ForceAnomaly, Overrule, FreezeBaselines,
        UnfreezeBaselines, ResetBaselines
  <1>7. CASE UNCHANGED vars
    BY <1>7 DEF vars
  <1>. QED
    BY <1>3, <1>4, <1>5, <1>6, <1>7 DEF Next, Detector

LEMMA NextGuard ==
  ASSUME GuardInv, [Next]_vars
  PROVE  GuardInv'
  <1>1. CASE Update
    BY <1>1, GuardKeeps DEF Update
  <1>2. CASE UNCHANGED <<frozen, poisonVars>>
    BY <1>2 DEF GuardInv, PoisonedStaysFrozen, UnprotectedIsClean, poisonVars
  <1>3. CASE FreezeBaselines \/ UnfreezeBaselines \/ ResetBaselines
    BY <1>3 DEF FreezeBaselines, UnfreezeBaselines, ResetBaselines, GuardInv,
                PoisonedStaysFrozen, UnprotectedIsClean, poisonVars
  <1>4. CASE Sample \/ ReadLevel
    BY <1>2, <1>4 DEF Sample, ReadLevel, baselineVars
  <1>5. CASE \E t \in Threads : Publish(t)
    BY <1>2, <1>5 DEF Publish, StoreLevel, StoreActive, StorePct, baselineVars
  <1>6. CASE ClearAnomaly \/ ForceAnomaly
    BY <1>2, <1>6 DEF ClearAnomaly, ForceAnomaly, Overrule, baselineVars
  <1>7. CASE UNCHANGED vars
    BY <1>2, <1>7 DEF vars, baselineVars
  <1>. QED
    BY <1>1, <1>3, <1>4, <1>5, <1>6, <1>7 DEF Next, Detector, ControlStep, Threads

LEMMA InitGuard == Init => GuardInv
  BY DEF Init, GuardInv, PoisonedStaysFrozen, UnprotectedIsClean

\* In every configuration, baselines found poisoned stay frozen until the
\* recovery, a reset, or an operator's unfreeze (PoisonedStaysFrozen).
THEOREM PoisonedStaysFrozenCorrect == Spec => []PoisonedStaysFrozen
  <1>1. GuardInv => PoisonedStaysFrozen
    BY DEF GuardInv
  <1>. QED
    BY <1>1, InitGuard, NextGuard, PTL DEF Spec

-----------------------------------------------------------------------------
(* What the data plane reads.                                              *)

NoInterference == ControlOps \cap {"clear", "force"} = {}

\* What has been stored so far, wherever the detector stands.
Published ==
  /\ pc["control"] = "wait"
  /\ pc["detector"] \in {"level", "flag", "pct"} => publishing["detector"] = level
  /\ pc["detector"] \in {"wait", "lock", "flag", "pct"} => shared_level = level
  /\ pc["detector"] \in {"wait", "lock", "pct"} => shared_active = active
  /\ pc["detector"] \in {"wait", "lock"} => shared_pct = RateLimitPct(level)

PublishInv == NoInterference => Published

\* Where a step takes the threads.
LEMMA Moves ==
  ASSUME TypeOK, NEW t \in Threads, NEW p, Goto(t, p)
  PROVE  pc'[t] = p /\ \A u \in Threads \ {t} : pc'[u] = pc[u]
  BY DEF TypeOK, Goto

LEMMA ChangedMoves ==
  ASSUME TypeOK, NEW b \in BOOLEAN, Changed(b)
  PROVE  /\ pc'["detector"] = IF b THEN "publish" ELSE "wait"
         /\ pc'["control"] = pc["control"]
  <1>1. "detector" \in Threads /\ "control" \in Threads \ {"detector"}
    BY DEF Threads
  <1>. QED
    BY <1>1, Moves DEF Changed

\* A transition that does not go on to publish changes nothing to publish.
LEMMA SilentCycle ==
  ASSUME TypeOK, NEW e \in BOOLEAN, UpdateAnomalyState(e)
  PROVE  /\ pc'["detector"] \in {"publish", "wait"} /\ pc'["control"] = pc["control"]
         /\ pc'["detector"] = "wait" => level' = level /\ active' = active
  <1>0. ASSUME NEW limit, Settle(limit)
        PROVE  \/ Changed(TRUE)
               \/ Changed(FALSE) /\ level' = level
    BY <1>0 DEF Settle, StepDown
  <1>1. \/ Changed(TRUE)
        \/ Changed(FALSE) /\ level' = level /\ active' = active
    <2>1. CASE Activate(e) \/ CoolDownComplete(e) \/ StayNormal(e)
      BY <2>1 DEF Activate, CoolDownComplete, StayNormal
    <2>2. CASE ContinueDetected(e)
      BY <1>0, <2>2 DEF ContinueDetected
    <2>3. CASE ContinueOnTraffic(e)
      BY <1>0, <2>3 DEF ContinueOnTraffic
    <2>4. CASE StartCoolDown(e)
      BY <2>4 DEF StartCoolDown, StepDown
    <2>5. CASE Cooling(e)
      BY <1>0, <2>5 DEF Cooling
    <2>. QED
      BY <2>1, <2>2, <2>3, <2>4, <2>5 DEF UpdateAnomalyState
  <1>. QED
    BY <1>1, ChangedMoves

LEMMA NextPublish ==
  ASSUME CoherentInv, PublishInv, [Next]_vars
  PROVE  PublishInv'
  <1>. SUFFICES ASSUME NoInterference PROVE Published'
    BY DEF PublishInv, NoInterference
  <1>0. /\ Published /\ TypeOK /\ StateIsCoherent
        /\ "detector" \in Threads \ {"control"} /\ "control" \in Threads \ {"detector"}
    BY DEF PublishInv, CoherentInv, TypeInv, Threads
  <1>1. CASE Sample
    <2>1. pc["detector"] = "wait" /\ pc'["detector"] = "lock" /\ pc'["control"] = pc["control"]
      BY <1>0, <1>1, Moves DEF Sample
    <2>. QED
      BY <1>0, <1>1, <2>1 DEF Sample, Published, attackVars, sharedVars
  <1>2. CASE Update
    <2>1. /\ pc["detector"] = "lock" /\ UNCHANGED sharedVars
          /\ pc'["detector"] \in {"publish", "wait"} /\ pc'["control"] = pc["control"]
          /\ pc'["detector"] = "wait" => level' = level /\ active' = active
      <3>1. CASE Runs
        BY <1>0, <1>2, <3>1, SilentCycle DEF Update
      <3>2. CASE ~Runs
        BY <1>0, <1>2, <3>2, ChangedMoves DEF Update, SkipAnomalyState, attackVars
      <3>. QED
        BY <3>1, <3>2
    <2>. QED
      BY <1>0, <2>1 DEF Published, sharedVars
  <1>3. CASE ReadLevel
    <2>1. /\ pc'["detector"] = "level" /\ pc'["control"] = pc["control"]
          /\ publishing'["detector"] = level
      BY <1>0, <1>3, Moves DEF ReadLevel, TypeOK
    <2>. QED
      BY <1>0, <1>3, <2>1 DEF ReadLevel, Published, attackVars
  <1>4. CASE StoreLevel("detector")
    <2>1. pc["detector"] = "level" /\ pc'["detector"] = "flag" /\ pc'["control"] = pc["control"]
      BY <1>0, <1>4, Moves DEF StoreLevel
    <2>. QED
      BY <1>0, <1>4, <2>1 DEF StoreLevel, Published, attackVars
  <1>5. CASE StoreActive("detector")
    <2>1. pc["detector"] = "flag" /\ pc'["detector"] = "pct" /\ pc'["control"] = pc["control"]
      BY <1>0, <1>5, Moves DEF StoreActive
    <2>2. shared_active' = active
      <3>1. shared_active' = (level > NONE)
        BY <1>0, <1>5, <2>1 DEF StoreActive, Published
      <3>2. active \in BOOLEAN
        BY <1>0 DEF TypeOK
      <3>. QED
        BY <1>0, <3>1, <3>2 DEF StateIsCoherent
    <2>. QED
      BY <1>0, <1>5, <2>1, <2>2 DEF StoreActive, Published, attackVars
  <1>6. CASE StorePct("detector")
    <2>1. pc["detector"] = "pct" /\ pc'["detector"] = "wait" /\ pc'["control"] = pc["control"]
      BY <1>0, <1>6, Moves DEF StorePct
    <2>2. shared_pct' = RateLimitPct(level)
      BY <1>0, <1>6, <2>1 DEF StorePct, Published
    <2>3. level' = level /\ active' = active
      BY <1>6 DEF StorePct, attackVars
    <2>4. RateLimitPct(level') = RateLimitPct(level)
      BY <2>3
    <2>. QED
      BY <1>0, <1>6, <2>1, <2>2, <2>3, <2>4 DEF StorePct, Published
  <1>7. CASE Publish("control")
    BY <1>0, <1>7 DEF Publish, StoreLevel, StoreActive, StorePct, Published
  <1>8. CASE ControlStep
    BY <1>0, <1>8 DEF NoInterference, ControlStep, ClearAnomaly, ForceAnomaly,
       FreezeBaselines, UnfreezeBaselines, ResetBaselines, Published, attackVars, sharedVars
  <1>9. CASE UNCHANGED vars
    BY <1>0, <1>9 DEF vars, attackVars, sharedVars, Published
  <1>. QED
    BY <1>1, <1>2, <1>3, <1>4, <1>5, <1>6, <1>7, <1>8, <1>9 DEF Next, Detector, Publish

LEMMA InitPublish == Init => PublishInv
  <1>. SUFFICES ASSUME Init PROVE Published
    BY DEF PublishInv
  <1>1. pc["control"] = "wait" /\ pc["detector"] = "wait"
    BY DEF Init, Threads
  <1>. QED
    BY <1>1, RateLimitPctNone DEF Init, Published

\* In every configuration without the two commands, the data plane reads what
\* the anomaly state says between two publications (SharedMatches).
THEOREM SharedMatchesCorrect == Spec => []SharedMatches
  <1>1. Init => CoherentInv
    BY InitTypeInv, InitCoherent DEF CoherentInv
  <1>2. PublishInv => SharedMatches
    BY DEF PublishInv, NoInterference, Published, SharedMatches
  <1>. QED
    BY <1>1, <1>2, InitPublish, NextCoherent, NextPublish, PTL DEF Spec

-----------------------------------------------------------------------------
(* The history of the low cycles.                                           *)

\* The code's counter of low cycles has every cycle below 30 % of the peak.
DropsMatch == drop_run \in Nat /\ drop_run <= low_traffic_cycles
HistoryInv == TypeInv /\ DropsMatch

LEMMA CycleEndsByUpdate ==
  ASSUME TypeInv, [Next]_vars, CycleEnds
  PROVE  Update
  BY OnlyUpdateLeavesLock DEF TypeInv, CycleEnds

\* A step that ends no cycle leaves the counter alone.
LEMMA OnlyCyclesCount ==
  ASSUME TypeInv, [Next]_vars, ~CycleEnds
  PROVE  low_traffic_cycles' = low_traffic_cycles
  <1>1. CASE Update
    <2>1. pc \in [Threads -> {"wait", "lock", "publish", "level", "flag", "pct"}]
      BY DEF TypeInv, TypeOK
    <2>2. \A p \in {"publish", "wait"} : ~Goto("detector", p)
      BY <1>1, <2>1 DEF Goto, Update, CycleEnds, Threads
    <2>3. \A b \in BOOLEAN : ~Changed(b)
      BY <2>2 DEF Changed
    <2>4. CASE Runs
      <3>1. PICK expired \in BOOLEAN : UpdateAnomalyState(expired)
        BY <1>1, <2>4 DEF Update
      <3>2. \A limit \in Int : ~Settle(limit)
        BY <2>3 DEF Settle, StepDown
      <3>3. Deescalation \in Int /\ Deescalation \div 2 \in Int /\ LevelDuration \in Int
        BY AnomalyAssumption, LevelDurationType, SMT
      <3>. QED
        BY <2>3, <3>1, <3>2, <3>3
        DEF UpdateAnomalyState, Activate, ContinueDetected, ContinueOnTraffic,
            StartCoolDown, Cooling, CoolDownComplete, StayNormal, StepDown
    <2>5. CASE ~Runs
      BY <1>1, <2>3, <2>5 DEF Update, SkipAnomalyState
    <2>. QED
      BY <2>4, <2>5
  <1>2. CASE \E l \in Levels : Overrule(l) /\ ControlStep
    BY <1>2 DEF Overrule
  <1>3. CASE UNCHANGED attackVars
    BY <1>3 DEF attackVars
  <1>. QED
    BY <1>1, <1>2, <1>3, StepCases

\* A cycle below 30 % of the peak is compared, makes no new peak and is not
\* still high: the code's counter takes one more.
LEMMA BelowDropCounts ==
  ASSUME TypeInv, BelowDrop
  PROVE  /\ active /\ ~InCoolDown
         /\ LowCycles = Saturate(low_traffic_cycles + 1, TRAFFIC_DROP_CYCLES)
  <1>1. active /\ ~InCoolDown /\ Compared /\ 10 * sample.pps < 3 * Peak
    BY ComparedWhen DEF BelowDrop
  <1>2. sample.pps \in Nat /\ peak_pps \in Nat /\ Peak \in Nat
    BY AnomalyAssumption DEF TypeInv, TypeOK, Peak
  <1>3. ~NewPeak
    BY <1>1, <1>2, SMT DEF Peak
  <1>4. ~TrafficStillHigh
    BY <1>1, <1>2, SMT DEF TrafficStillHigh
  <1>. QED
    BY <1>1, <1>3, <1>4 DEF LowCycles

\* What a cycle of an attack that goes on writes into the counter.
LEMMA AttackTracks ==
  ASSUME TypeInv, Update, active, active'
  PROVE  low_traffic_cycles' = LowCycles
  <1>1. Runs
    BY DEF Runs
  <1>2. PICK expired \in BOOLEAN : UpdateAnomalyState(expired)
    BY <1>1 DEF Update
  <1>. QED
    BY <1>2
    DEF UpdateAnomalyState, Activate, ContinueDetected, ContinueOnTraffic, StartCoolDown,
        Cooling, CoolDownComplete, StayNormal, Track

LEMMA NextHistory ==
  ASSUME HistoryInv, [HistoryNext]_historyVars
  PROVE  HistoryInv'
  <1>1. TypeInv /\ drop_run \in Nat /\ drop_run <= low_traffic_cycles
    BY DEF HistoryInv, DropsMatch
  <1>2. [Next]_vars
    BY DEF HistoryNext, historyVars
  <1>3. TypeInv'
    BY <1>1, <1>2, NextTypes
  <1>4. low_traffic_cycles \in Nat /\ low_traffic_cycles' \in Nat
    BY <1>1, <1>3 DEF TypeInv, TypeOK
  <1>5. CASE UNCHANGED historyVars
    BY <1>1, <1>3, <1>5 DEF HistoryInv, DropsMatch, historyVars, vars, attackVars
  <1>6. CASE HistoryNext /\ ~CycleEnds
    BY <1>1, <1>2, <1>3, <1>6, OnlyCyclesCount
    DEF HistoryInv, DropsMatch, HistoryNext
  <1>7. CASE HistoryNext /\ CycleEnds
    <2>1. Update
      BY <1>1, <1>2, <1>7, CycleEndsByUpdate
    <2>3. DropsMatch'
      <3>1. CASE BelowDrop /\ active'
        <4>1. low_traffic_cycles' = Saturate(low_traffic_cycles + 1, TRAFFIC_DROP_CYCLES)
          BY <1>1, <2>1, <3>1, BelowDropCounts, AttackTracks
        <4>2. drop_run' = Saturate(drop_run + 1, TRAFFIC_DROP_CYCLES)
          BY <1>7, <3>1 DEF HistoryNext
        <4>. QED
          BY <1>1, <1>4, <4>1, <4>2, SMT DEF DropsMatch, Saturate, TRAFFIC_DROP_CYCLES
      <3>2. CASE ~(BelowDrop /\ active')
        BY <1>4, <1>7, <3>2, SMT DEF HistoryNext, DropsMatch
      <3>. QED
        BY <3>1, <3>2
    <2>. QED
      BY <1>3, <2>3 DEF HistoryInv
  <1>. QED
    BY <1>5, <1>6, <1>7

LEMMA InitHistory == HistoryInit => HistoryInv
  <1>1. HistoryInit => DropsMatch
    BY SMT DEF HistoryInit, Init, DropsMatch
  <1>. QED
    BY <1>1, InitTypeInv DEF HistoryInit, HistoryInv

\* With any cool-down at all, the third cycle in a row below 30 % of the peak
\* starts it, whatever the detectors say (DropIsNoticed).
THEOREM DropIsNoticedCorrect ==
  ASSUME CoolDown > 0
  PROVE  HistorySpec => DropIsNoticed
  <1>1. HistoryInv /\ [HistoryNext]_historyVars =>
           [CycleEnds /\ active' /\ drop_run' >= TRAFFIC_DROP_CYCLES => InCoolDown']_historyVars
    <2>. SUFFICES ASSUME HistoryInv, HistoryNext, CycleEnds, active',
                         drop_run' >= TRAFFIC_DROP_CYCLES
                  PROVE  InCoolDown'
      OBVIOUS
    <2>1. TypeInv /\ [Next]_vars /\ drop_run \in Nat /\ drop_run <= low_traffic_cycles
      BY DEF HistoryInv, DropsMatch, HistoryNext
    <2>2. Update
      BY <2>1, CycleEndsByUpdate
    <2>3. drop_run' = (IF BelowDrop THEN Saturate(drop_run + 1, TRAFFIC_DROP_CYCLES) ELSE 0)
      BY DEF HistoryNext
    <2>4. BelowDrop /\ drop_run >= 2
      BY <2>1, <2>3, SMT DEF Saturate, TRAFFIC_DROP_CYCLES
    <2>5. low_traffic_cycles \in Nat
      BY <2>1 DEF TypeInv, TypeOK
    <2>6. active /\ ~InCoolDown
          /\ LowCycles = Saturate(low_traffic_cycles + 1, TRAFFIC_DROP_CYCLES)
      BY <2>1, <2>4, BelowDropCounts
    <2>7. LowCycles >= TRAFFIC_DROP_CYCLES
      BY <2>1, <2>4, <2>5, <2>6, SMT DEF Saturate, TRAFFIC_DROP_CYCLES
    <2>8. ~EffectiveDetected /\ CoolDownLeft = CoolDown
      BY <2>4, <2>7 DEF TrafficDropped, EffectiveDetected, CoolDownLeft
    <2>9. PICK expired \in BOOLEAN : UpdateAnomalyState(expired)
      BY <2>2, <2>6 DEF Update, Runs
    <2>10. CoolDownLeft # 0
      BY <2>8, AnomalyAssumption, SMT
    <2>11. Cooling(expired)
      BY <2>6, <2>8, <2>9, <2>10
      DEF UpdateAnomalyState, Activate, ContinueDetected, ContinueOnTraffic, StartCoolDown,
          CoolDownComplete, StayNormal
    <2>12. cool_down_remaining' > 0
      BY <2>8, <2>11, AnomalyAssumption, SMT DEF Cooling
    <2>. QED
      BY <2>12 DEF InCoolDown
  <1>. QED
    BY <1>1, InitHistory, NextHistory, PTL DEF HistorySpec, DropIsNoticed
=============================================================================
