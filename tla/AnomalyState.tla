---------------------------- MODULE AnomalyState ----------------------------
(***************************************************************************)
(* The network-wide anomaly state of Layer 2 (layer2/detection.c), the     *)
(* detection cycle that drives it (layer2/layer2.c), the freezing of the   *)
(* baselines it controls (layer2/baselines.c) and its publication to the   *)
(* data plane (layer1/interlayer/shared_memory.c).                         *)
(*                                                                         *)
(* Two threads: the detector, one cycle a second, and the control socket's *)
(* thread, which clears the anomaly or the baselines for an operator.  The *)
(* state changes under one mutex; the detector samples the traffic before  *)
(* it takes the mutex, and both threads publish after they released it,    *)
(* one atomic store at a time.                                             *)
(*                                                                         *)
(* Abstractions.  One cycle is one second, as the cool-down assumes.  What *)
(* the detectors decide is an input: a level, NONE when nothing was        *)
(* detected.  Rates are natural numbers, compared with the code's ratios.  *)
(* The expiry of the two windows (300 s each by default) is an input too.  *)
(* Counters saturate at the largest value a test of the code distinguishes.*)
(***************************************************************************)
EXTENDS Integers

CONSTANTS
    Rates,              \* packets per second a cycle may see
    Severities,         \* levels the detectors may give a detection
    MinPps,             \* config.min_pps_for_detection
    MinPeak,            \* MIN_PEAK_PPS_FOR_TRACKING
    Persistence,        \* state->persistence_windows
    CoolDown,           \* config.cool_down_seconds, in whole seconds
    Deescalation,       \* DEESCALATION_CYCLES
    FreezeEnabled,      \* config.baseline_freeze_enabled
    PoisonProtection,   \* config.baseline_poison_protection_enabled
    PoisonThreshold,    \* config.baseline_poison_count_threshold
    PoisonRecovery,     \* config.baseline_poison_recovery_sec (0: never)
    ControlOps,         \* the operator's commands in use
    ForceLevels         \* levels an operator may force

NONE == 0
LOW == 1
CRITICAL == 4
Levels == NONE .. CRITICAL

ASSUME AnomalyAssumption ==
    /\ Rates \subseteq Nat /\ 0 \in Rates
    /\ Severities \subseteq LOW .. CRITICAL
    /\ MinPps \in Nat /\ MinPeak \in Nat
    /\ Persistence \in Nat \ {0} /\ CoolDown \in Nat /\ Deescalation \in Nat \ {0}
    /\ FreezeEnabled \in BOOLEAN /\ PoisonProtection \in BOOLEAN
    /\ PoisonThreshold \in Nat \ {0} /\ PoisonRecovery \in Nat
    /\ ControlOps \subseteq {"clear", "force", "freeze", "unfreeze", "reset"}
    /\ ForceLevels \subseteq Levels

TRAFFIC_DROP_CYCLES == 3
ATTACK_FREQ_THRESHOLD == 3
EXTENDED_COOLDOWN_MULTIPLIER == 3

VARIABLES
    \* struct l2_anomaly_state
    active, level, consecutive_detect, cycles_at_current_level,
    cool_down_remaining, peak_pps, low_traffic_cycles, recent_attack_count,
    \* struct three_tier_baseline: the frozen flag and the poison tracker
    frozen, poison_detected, large_change_count, poison_window_open, poison_age,
    learned,            \* whether the last cycle updated the baselines
    \* the threads: where each stands, what it is publishing, the cycle's sample
    pc, publishing, sample,
    \* shared memory, as the data plane's lcores read it
    shared_level, shared_active, shared_pct

attackVars == <<active, level, consecutive_detect, cycles_at_current_level,
                cool_down_remaining, peak_pps, low_traffic_cycles, recent_attack_count>>
poisonVars == <<poison_detected, large_change_count, poison_window_open, poison_age>>
baselineVars == <<frozen, poisonVars, learned>>
sharedVars == <<shared_level, shared_active, shared_pct>>
vars == <<attackVars, baselineVars, pc, publishing, sample, sharedVars>>

Threads == {"detector", "control"}
Saturate(n, cap) == IF n > cap THEN cap ELSE n

\* Seconds of cool-down per level: a quarter of it, two at least.
LevelDurationHalf == IF CoolDown \div 2 < 2 THEN 2 ELSE CoolDown \div 2
LevelDuration == IF CoolDown \div 4 < 2 THEN 2 ELSE CoolDown \div 4
CycleCap == Deescalation + LevelDuration

\* Rate limit the data plane applies at a level, in percent.
RateLimitPct(l) == <<100, 80, 50, 25, 10>>[l + 1]

Goto(t, p) == pc' = [pc EXCEPT ![t] = p]

Init ==
    /\ active = FALSE /\ level = NONE /\ consecutive_detect = 0
    /\ cycles_at_current_level = 0 /\ cool_down_remaining = 0
    /\ peak_pps = 0 /\ low_traffic_cycles = 0 /\ recent_attack_count = 0
    /\ frozen = FALSE /\ poison_detected = FALSE /\ large_change_count = 0
    /\ poison_window_open = FALSE /\ poison_age = 0 /\ learned = FALSE
    /\ pc = [t \in Threads |-> "wait"]
    /\ publishing = [t \in Threads |-> NONE]
    /\ sample = [pps |-> 0, level |-> NONE]
    /\ shared_level = NONE /\ shared_active = FALSE /\ shared_pct = 100

-----------------------------------------------------------------------------
(* Steps 1 to 3 of a cycle: read the features, run the detectors.  Below   *)
(* min_pps_for_detection the detectors are skipped.  No lock is held.      *)

Sample ==
    /\ pc["detector"] = "wait"
    /\ \E pps \in Rates, l \in Severities \cup {NONE} :
          /\ l # NONE => pps >= MinPps
          /\ sample' = [pps |-> pps, level |-> l]
    /\ Goto("detector", "lock")
    /\ UNCHANGED <<attackVars, baselineVars, publishing, sharedVars>>

-----------------------------------------------------------------------------
(* What l2_update_anomaly_state() computes before it chooses a transition. *)

Detected == sample.level # NONE
InCoolDown == active /\ cool_down_remaining > 0

\* Traffic against the attack's peak, tracked outside the cool-down only.
Tracking == active /\ ~InCoolDown
NewPeak == Tracking /\ sample.pps > peak_pps
Peak == IF NewPeak THEN sample.pps ELSE peak_pps
Compared == Tracking /\ Peak > MinPeak
TrafficStillHigh == Compared /\ 2 * sample.pps >= Peak
BelowDrop == Compared /\ 10 * sample.pps < 3 * Peak

LowCycles ==
    LET before == IF NewPeak THEN 0 ELSE low_traffic_cycles
    IN  IF ~Compared THEN before
        ELSE IF TrafficStillHigh THEN 0
        ELSE Saturate(before + 1, TRAFFIC_DROP_CYCLES)

TrafficDroppedLate == BelowDrop /\ LowCycles > TRAFFIC_DROP_CYCLES
TrafficDropped == BelowDrop /\ LowCycles >= TRAFFIC_DROP_CYCLES
CoolDownLeft == IF TrafficDropped THEN CoolDown ELSE cool_down_remaining

EffectiveWhileCooling == (Detected \/ TrafficStillHigh) /\ ~TrafficDropped
EffectiveDetected ==
    (Detected \/ TrafficStillHigh) /\ ~InCoolDown /\ ~TrafficDropped

\* Consecutive raw detections, and whether they allow a first activation.
ConsecutiveNeverReset ==
    IF Detected THEN Saturate(consecutive_detect + 1, Persistence) ELSE consecutive_detect
ConsecutiveDetect ==
    IF Detected THEN Saturate(consecutive_detect + 1, Persistence) ELSE 0
PersistOk == active \/ ConsecutiveDetect >= Persistence

\* Attacks in the frequency window, which has expired or not.
RecentAttacks(expired) == IF expired THEN 0 ELSE recent_attack_count

\* state_changed decides whether the cycle publishes the level.
Changed(b) == Goto("detector", IF b THEN "publish" ELSE "wait")

MoreCycles == Saturate(cycles_at_current_level + 1, CycleCap)

StepDownSilently == level' = level - 1 /\ cycles_at_current_level' = 0 /\ Changed(FALSE)
StepDown == level' = level - 1 /\ cycles_at_current_level' = 0 /\ Changed(TRUE)

SettleBelowLow(limit) ==
    \/ MoreCycles >= limit /\ StepDown
    \/ /\ MoreCycles < limit
       /\ cycles_at_current_level' = MoreCycles
       /\ Changed(FALSE) /\ UNCHANGED level

\* One more cycle at this level; after limit cycles, one level down.
Settle(limit) ==
    \/ level > LOW /\ MoreCycles >= limit /\ StepDown
    \/ /\ ~(level > LOW /\ MoreCycles >= limit)
       /\ cycles_at_current_level' = MoreCycles
       /\ Changed(FALSE) /\ UNCHANGED level

Track == peak_pps' = Peak /\ low_traffic_cycles' = LowCycles

-----------------------------------------------------------------------------
(* The transitions of l2_update_anomaly_state().                           *)

Activate(expired) ==
    /\ EffectiveDetected /\ PersistOk /\ ~active
    /\ active' = TRUE /\ level' = sample.level
    /\ cool_down_remaining' = 0 /\ cycles_at_current_level' = 0
    /\ peak_pps' = sample.pps /\ low_traffic_cycles' = 0
    /\ recent_attack_count' = Saturate(RecentAttacks(expired) + 1, ATTACK_FREQ_THRESHOLD)
    /\ Changed(TRUE)

ContinueDetected(expired) ==
    /\ EffectiveDetected /\ active /\ Detected
    /\ \/ /\ sample.level = level
          /\ cycles_at_current_level' = MoreCycles
          /\ Changed(FALSE) /\ UNCHANGED level
       \/ /\ sample.level > level
          /\ level' = sample.level /\ cycles_at_current_level' = 0 /\ Changed(TRUE)
       \/ sample.level < level /\ Settle(Deescalation)
    /\ cool_down_remaining' = 0
    /\ Track
    /\ recent_attack_count' = RecentAttacks(expired)
    /\ UNCHANGED active

ContinueOnTraffic(expired) ==
    /\ EffectiveDetected /\ active /\ ~Detected
    /\ Settle(Deescalation \div 2)
    /\ cool_down_remaining' = 0
    /\ Track
    /\ recent_attack_count' = RecentAttacks(expired)
    /\ UNCHANGED active

StartCoolDown(expired) ==
    /\ active /\ ~EffectiveDetected /\ CoolDownLeft = 0
    /\ cool_down_remaining' =
          IF RecentAttacks(expired) >= ATTACK_FREQ_THRESHOLD
          THEN EXTENDED_COOLDOWN_MULTIPLIER * CoolDown ELSE CoolDown
    /\ \/ level > LOW /\ StepDown
       \/ level <= LOW /\ Changed(FALSE) /\ UNCHANGED <<level, cycles_at_current_level>>
    /\ Track
    /\ recent_attack_count' = RecentAttacks(expired)
    /\ UNCHANGED active

Cooling(expired) ==
    /\ active /\ ~EffectiveDetected /\ CoolDownLeft > 1
    /\ cool_down_remaining' = CoolDownLeft - 1
    /\ Settle(LevelDuration)
    /\ Track
    /\ recent_attack_count' = RecentAttacks(expired)
    /\ UNCHANGED active

CoolDownComplete(expired) ==
    /\ active /\ ~EffectiveDetected /\ CoolDownLeft = 1
    /\ active' = FALSE /\ level' = NONE /\ cool_down_remaining' = 0
    /\ cycles_at_current_level' = 0 /\ peak_pps' = 0 /\ low_traffic_cycles' = 0
    /\ recent_attack_count' = RecentAttacks(expired)
    /\ Changed(TRUE)

StayNormal(expired) ==
    /\ ~active /\ ~(EffectiveDetected /\ PersistOk)
    /\ recent_attack_count' = RecentAttacks(expired)
    /\ Changed(FALSE)
    /\ UNCHANGED <<active, level, cycles_at_current_level, cool_down_remaining,
                   peak_pps, low_traffic_cycles>>

UpdateAnomalyState(expired) ==
    /\ consecutive_detect' = ConsecutiveDetect
    /\ \/ Activate(expired)
       \/ ContinueDetected(expired)
       \/ ContinueOnTraffic(expired)
       \/ StartCoolDown(expired)
       \/ Cooling(expired)
       \/ CoolDownComplete(expired)
       \/ StayNormal(expired)

\* An idle, quiet cycle leaves the anomaly state alone altogether.
SkipAnomalyState == Changed(FALSE) /\ UNCHANGED attackVars

-----------------------------------------------------------------------------
(* Steps 5 to 6b: freeze or unfreeze by the new state, recover from        *)
(* poisoning, update the baselines, look for poisoning in the update.      *)

FrozenBeforeUpdate ==
    IF ~FreezeEnabled THEN frozen
    ELSE active \/ (frozen /\ poison_detected)
FrozenWhateverPoison == IF ~FreezeEnabled THEN frozen ELSE active'
FrozenForEver == IF ~FreezeEnabled THEN frozen ELSE active' \/ frozen
FrozenByAttack ==
    IF ~FreezeEnabled THEN frozen
    ELSE active' \/ (frozen /\ poison_detected)

Recovers == /\ poison_detected /\ ~active' /\ PoisonRecovery > 0
            /\ poison_age + 1 >= PoisonRecovery

Updates == ~FrozenByAttack \/ Recovers
StillPoisoned == poison_detected /\ ~Recovers

PoisonFoundLate(count) == count > PoisonThreshold
PoisonFound(count) == count >= PoisonThreshold

\* baseline_check_poisoning(); jumped: a mean moved too far this cycle.
CheckPoisoning(expired, jumped) ==
    LET restart == expired \/ ~poison_window_open \/ Recovers
        counted == IF restart THEN 0 ELSE large_change_count
        count == IF jumped /\ ~StillPoisoned THEN counted + 1 ELSE counted
        found == jumped /\ ~StillPoisoned /\ PoisonFound(count)
    IN  /\ jumped => Updates /\ ~restart
        /\ poison_window_open' = TRUE
        /\ large_change_count' = count
        /\ poison_detected' = (StillPoisoned \/ found)
        /\ poison_age' = IF StillPoisoned
                         THEN Saturate(poison_age + 1, PoisonRecovery) ELSE 0
        /\ frozen' = (~Updates \/ found)

GuardBaselines ==
    /\ learned' = Updates
    /\ IF PoisonProtection
       THEN \E expired, jumped \in BOOLEAN : CheckPoisoning(expired, jumped)
       ELSE frozen' = ~Updates /\ UNCHANGED poisonVars

\* The anomaly state skips quiet cycles, unless an attack has to cool down.
RunsOnTraffic == sample.pps >= MinPps
Runs == sample.pps >= MinPps \/ active

\* Steps 4 to 6b, under the mutex.
Update ==
    /\ pc["detector"] = "lock"
    /\ IF Runs
       THEN \E expired \in BOOLEAN : UpdateAnomalyState(expired)
       ELSE SkipAnomalyState
    /\ GuardBaselines
    /\ UNCHANGED <<publishing, sample, sharedVars>>

-----------------------------------------------------------------------------
(* Publication, after the mutex was released: the detector reads the level *)
(* again, and anomaly_set_level() stores three fields one after the other. *)

ReadLevel ==
    /\ pc["detector"] = "publish"
    /\ publishing' = [publishing EXCEPT !["detector"] = level]
    /\ Goto("detector", "level")
    /\ UNCHANGED <<attackVars, baselineVars, sample, sharedVars>>

StoreLevel(t) ==
    /\ pc[t] = "level"
    /\ shared_level' = publishing[t]
    /\ Goto(t, "flag")
    /\ UNCHANGED <<attackVars, baselineVars, publishing, sample, shared_active, shared_pct>>

StoreActiveOnly(t) ==
    /\ pc[t] = "flag"
    /\ shared_active' = (shared_active \/ publishing[t] > NONE)
    /\ Goto(t, "pct")
    /\ UNCHANGED <<attackVars, baselineVars, publishing, sample, shared_level, shared_pct>>

StoreActive(t) ==
    /\ pc[t] = "flag"
    /\ shared_active' = (publishing[t] > NONE)
    /\ Goto(t, "pct")
    /\ UNCHANGED <<attackVars, baselineVars, publishing, sample, shared_level, shared_pct>>

StorePct(t) ==
    /\ pc[t] = "pct"
    /\ shared_pct' = RateLimitPct(publishing[t])
    /\ Goto(t, "wait")
    /\ UNCHANGED <<attackVars, baselineVars, publishing, sample, shared_level, shared_active>>

Publish(t) == StoreLevel(t) \/ StoreActive(t) \/ StorePct(t)

-----------------------------------------------------------------------------
(* The operator's commands, each one critical section; a command that      *)
(* changes the level then publishes it.                                    *)

OverruleKeepsCoolDown(l) ==
    /\ active' = (l # NONE) /\ level' = l
    /\ publishing' = [publishing EXCEPT !["control"] = l]
    /\ Goto("control", "level")
    /\ UNCHANGED <<consecutive_detect, cycles_at_current_level, peak_pps, low_traffic_cycles,
                   recent_attack_count, cool_down_remaining, baselineVars, sample, sharedVars>>

Overrule(l) ==
    /\ active' = (l # NONE) /\ level' = l /\ cool_down_remaining' = 0
    /\ publishing' = [publishing EXCEPT !["control"] = l]
    /\ Goto("control", "level")
    /\ UNCHANGED <<consecutive_detect, cycles_at_current_level, peak_pps, low_traffic_cycles,
                   recent_attack_count, baselineVars, sample, sharedVars>>

ClearAnomaly ==
    /\ "clear" \in ControlOps /\ pc["control"] = "wait"
    /\ Overrule(NONE)

ForceAnomaly ==
    /\ "force" \in ControlOps /\ pc["control"] = "wait"
    /\ \E l \in ForceLevels : Overrule(l)

FreezeBaselines ==
    /\ "freeze" \in ControlOps /\ pc["control"] = "wait"
    /\ frozen' = TRUE
    /\ UNCHANGED <<attackVars, poisonVars, learned, pc, publishing, sample, sharedVars>>

UnfreezeBaselines ==
    /\ "unfreeze" \in ControlOps /\ pc["control"] = "wait"
    /\ frozen' = FALSE
    /\ UNCHANGED <<attackVars, poisonVars, learned, pc, publishing, sample, sharedVars>>

ResetBaselines ==
    /\ "reset" \in ControlOps /\ pc["control"] = "wait"
    /\ frozen' = FALSE /\ poison_detected' = FALSE /\ large_change_count' = 0
    /\ poison_window_open' = FALSE /\ poison_age' = 0
    /\ UNCHANGED <<attackVars, learned, pc, publishing, sample, sharedVars>>

ControlStep == \/ ClearAnomaly \/ ForceAnomaly
               \/ FreezeBaselines \/ UnfreezeBaselines \/ ResetBaselines

-----------------------------------------------------------------------------
Detector == Sample \/ Update \/ ReadLevel \/ Publish("detector")

Next == Detector \/ Publish("control") \/ ControlStep

\* The detector's thread loops for ever and a command runs to its end; no
\* operator has to give one.
Fairness == WF_vars(Detector) /\ WF_vars(Publish("control"))

Spec == Init /\ [][Next]_vars
FairSpec == Spec /\ Fairness

-----------------------------------------------------------------------------
(* Properties.                                                             *)

\* Every variable has its type.
TypeOK ==
    /\ active \in BOOLEAN /\ level \in Levels
    /\ consecutive_detect \in 0 .. Persistence
    /\ cycles_at_current_level \in 0 .. CycleCap
    /\ cool_down_remaining \in 0 .. EXTENDED_COOLDOWN_MULTIPLIER * CoolDown
    /\ peak_pps \in Rates
    /\ low_traffic_cycles \in 0 .. TRAFFIC_DROP_CYCLES
    /\ recent_attack_count \in 0 .. ATTACK_FREQ_THRESHOLD
    /\ frozen \in BOOLEAN /\ learned \in BOOLEAN
    /\ poison_detected \in BOOLEAN /\ poison_window_open \in BOOLEAN
    /\ large_change_count \in 0 .. PoisonThreshold
    /\ poison_age \in 0 .. PoisonRecovery
    /\ pc \in [Threads -> {"wait", "lock", "publish", "level", "flag", "pct"}]
    /\ publishing \in [Threads -> Levels]
    /\ sample \in [pps : Rates, level : Severities \cup {NONE}]
    /\ shared_level \in Levels /\ shared_active \in BOOLEAN
    /\ shared_pct \in {RateLimitPct(l) : l \in Levels}

\* An anomaly is active exactly at a level above NONE, and only an active
\* anomaly cools down, whatever mixture of cycles and commands led here.
StateIsCoherent ==
    /\ active <=> level > NONE
    /\ ~active => cool_down_remaining = 0

\* A cool-down always has more seconds left than its level needs to fall to
\* LOW, one level per LevelDuration: whatever the attack did before, it ends
\* from LOW ("CRITICAL->HIGH->MEDIUM->LOW->NONE", detection.c:459).
CoolDownReachesLow ==
    InCoolDown /\ level > LOW =>
       /\ cycles_at_current_level < LevelDuration
       /\ (level - LOW) * LevelDuration < cool_down_remaining + cycles_at_current_level

\* The severity never falls by more than one level at a time unless an
\* operator overrules it (detection.c:458-459).
GradualDescent ==
    [][level' < level => level' = level - 1 \/ ControlStep]_vars

\* Between two publications the data plane reads what the anomaly state
\* says, all three fields of it, when no operator interferes: no transition
\* that matters is left unpublished.
SharedMatches ==
    ControlOps \cap {"clear", "force"} = {} =>
       (pc["detector"] \in {"wait", "lock"} =>
           /\ shared_level = level
           /\ shared_active = active
           /\ shared_pct = RateLimitPct(level))

\* Baselines found poisoned stay frozen until the recovery, a reset, or an
\* operator's unfreeze, however many attacks come and go meanwhile.
PoisonedStaysFrozen ==
    "unfreeze" \notin ControlOps => (poison_detected => frozen)

\* Traffic that stays under min_pps_for_detection for good.
Quiet == sample.pps < MinPps

\* Once the traffic stays quiet the attack ends, whatever its peak, level
\* and cool-down were (detection.h: "Cool-down -> Normal: Clear attack state").
AttackEnds == <>[]Quiet => <>[]~active

\* ... and the baselines learn again, however often their updates look like
\* poisoning: no freeze is for ever.
LearningResumes == <>[]Quiet => []<>learned

\* An anomaly that is over, cleared by an operator or by its cool-down, is
\* over for the data plane as well, unless a new one starts.
ClearReachesShared == ~active ~> (~shared_active \/ active)

\* The phases of detection.h: normal, attack, cool-down.
Phases == INSTANCE AttackPhases WITH
    MaxLevel <- CRITICAL,
    Overrulable <- ControlOps \cap {"clear", "force"} # {},
    phase <- IF ~active THEN "normal" ELSE IF InCoolDown THEN "cooldown" ELSE "attack",
    severity <- level

\* The anomaly state implements the phases.
PhasesSpec == Phases!Spec
=============================================================================
