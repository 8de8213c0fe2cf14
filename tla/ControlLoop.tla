---------------------------- MODULE ControlLoop ----------------------------
(***************************************************************************)
(* The control loop of one service: hydrateState of                        *)
(* control/autopilot.go, RuntimeOrchestrator.Tick of autopilot/runtime.go  *)
(* and what it calls of safety.go (the emergency override), rollout.go     *)
(* (intent queue, ramps, timer and retries) and decision_policy.go.        *)
(*                                                                         *)
(* Plane.mu is held for the whole of Plane.Tick, so a tick is one step.    *)
(* Backlogs, capacities and rates are whole units.  What the real-valued   *)
(* parts compute is an input of the step: the capacity the optimiser asks  *)
(* for, whether the planned trajectory is unsafe, the capacity the safety  *)
(* engine falls back to, the confidence, and how far the predictor's       *)
(* backlog is from the physical one.                                       *)
(***************************************************************************)
EXTENDS Integers, Sequences, FiniteSets

CONSTANTS
  MaxCapacity,       \* MPC.MaxCapacity; MPC.MinCapacity is 1
  MaxObserved,       \* bound: the largest observed capacity
  MaxRequired,       \* bound: 1.3 times the largest capacity ever required
  CapacityRamp,      \* Safety.MaxCapacityRamp
  RampUp,            \* Rollout.CapRampUpNormal per tick
  RampEmergency,     \* Rollout.CapRampUpEmergency per tick
  RampDown,          \* Rollout.CapRampDown per tick
  RampGain,          \* how much assist and backlog may multiply a ramp
  SLA,               \* SLA_Backlog
  EmergencyBacklog,  \* backlog above which the rollout is in emergency mode
  DegradedBacklog,   \* backlog above which it is in degraded mode
  BarrierDepth,      \* backlog per worker above which Decide has a floor: 5
  OverrideWindow,    \* ticks of override history kept
  QueueMax,          \* Rollout.QueueMax
  RolloutTimeout,    \* Rollout.RolloutTimeout in ticks
  MaxRetries,        \* Rollout.MaxRetries
  MaxBacklog,        \* bound: the largest backlog
  Observed,          \* the backlogs a window may show, 0 for none
  Arrivals,          \* the arrivals a window may show
  ServiceRate,       \* what a unit of capacity serves in a tick
  Drifts,            \* predicted minus physical backlog
  Confidences,       \* ModelConfidence, in hundredths
  Loads              \* infraLoad, in hundredths

ASSUME CapacityAssumption ==
  /\ MaxCapacity \in Nat \ {0} /\ MaxObserved \in Nat \ {0}
  /\ MaxRequired \in Nat /\ CapacityRamp \in Nat
  /\ RampUp \in Nat \ {0} /\ RampEmergency \in Nat \ {0} /\ RampDown \in Nat \ {0}
  /\ RampGain \in Nat \ {0}

ASSUME RolloutAssumption ==
  /\ OverrideWindow \in Nat \ {0} /\ QueueMax \in Nat /\ QueueMax >= 2
  /\ RolloutTimeout \in Nat \ {0} /\ MaxRetries \in Nat

ASSUME BacklogAssumption ==
  /\ MaxBacklog \in Nat /\ Observed \subseteq 0 .. MaxBacklog /\ 0 \in Observed
  /\ Arrivals \subseteq Nat /\ 0 \in Arrivals /\ ServiceRate \in Nat \ {0}
  /\ Drifts \subseteq Int /\ Confidences \subseteq 1 .. 100 /\ Loads \subseteq 0 .. 100

\* newRuntimeOrchestrator: EmergencyBacklog and SLA_Backlog are both 250,
\* DegradedBacklog is 100.
ASSUME ThresholdAssumption ==
  /\ SLA \in Nat \ {0} /\ EmergencyBacklog \in Nat /\ DegradedBacklog \in Nat
  /\ BarrierDepth \in Nat \ {0}
  /\ EmergencyBacklog >= SLA /\ 100 * DegradedBacklog >= 40 * SLA

VARIABLES
  backlog,          \* Plant.Backlog, the predictor's after a tick
  physical,         \* PhysicalBacklog
  target,           \* Plant.CapacityTarget
  active,           \* Rollout.CapacityActive
  retry,            \* Rollout.RetryActive, in units of RetryEnableRamp * Dt
  cache,            \* Rollout.CacheActive, in units of CacheEnableRamp * Dt
  queue,            \* Rollout.IntentQueue, the capacities asked for
  governance,       \* Rollout.Mode
  timer,            \* Rollout.RolloutTimer, in ticks
  retries,          \* Rollout.RetryCount
  lastUnsafe,       \* Safety.LastUnsafe
  overrideHistory,  \* OverrideHistory, 1 for a tick that was overridden
  fallbackCap,      \* LastFallbackCap
  mode,             \* Mode, the autonomy mode
  decision          \* action and mode of the latest Decision

vars == <<backlog, physical, target, active, retry, cache, queue, governance,
          timer, retries, lastUnsafe, overrideHistory, fallbackCap, mode, decision>>

Larger(a, b) == IF a > b THEN a ELSE b
Smaller(a, b) == IF a < b THEN a ELSE b

CapacityBound == Larger(MaxCapacity, Larger(MaxObserved, MaxRequired))

TypeOK ==
  /\ backlog \in 0 .. MaxBacklog /\ physical \in 0 .. MaxBacklog
  /\ target \in 1 .. CapacityBound /\ active \in 1 .. CapacityBound
  /\ retry \in Int /\ cache \in Int
  /\ queue \in Seq(1 .. CapacityBound)
  /\ governance \in {"normal", "degraded", "emergency"}
  /\ timer \in 0 .. RolloutTimeout /\ retries \in 0 .. MaxRetries
  /\ lastUnsafe \in BOOLEAN
  /\ overrideHistory \in Seq({0, 1}) /\ Len(overrideHistory) <= OverrideWindow
  /\ fallbackCap \in 0 .. CapacityBound
  /\ mode \in {"stable", "guarded", "critical", "recovery"}
  /\ decision \in [action : {"none", "hold", "scale_up", "scale_down"},
                   barrier : BOOLEAN]

-----------------------------------------------------------------------------
\* hydrateState: an observed backlog replaces both estimates; without one the
\* physical estimate, when there is any, replaces the predictor's.
HydratedPhysical(seen) == IF seen > 0 THEN seen ELSE physical
HydratedBacklog(seen) == IF HydratedPhysical(seen) > 0 THEN HydratedPhysical(seen) ELSE backlog

\* Decide: under the barrier (a backlog above BarrierDepth times the workers) the
\* target is at least one step above the workers.
Decide(b, workers, cap) ==
  LET deep == b > BarrierDepth * workers
      gap  == (IF deep THEN Larger(cap, workers + 1) ELSE cap) - workers
  IN  [action  |-> IF gap = 0 /\ b < workers THEN "hold"
                   ELSE IF gap > 0 THEN "scale_up" ELSE "scale_down",
       barrier |-> deep]

\* Mutated form of Overrides: no memory of the tick before.
OverridesAlways(unsafe) == unsafe

\* EmergencyOverride: only the first of a run of unsafe plans overrides.
Overrides(unsafe) == unsafe /\ ~lastUnsafe

\* fallbackCapacity: 1.3 times the required capacity, but no more than
\* CapacityRamp above the larger of the planned and the former target.
FallbackCaps(cap) ==
  0 .. Smaller(MaxRequired, Larger(Larger(active, cap), target) + CapacityRamp)

\* The history with the flag of this tick, the oldest one dropped when full.
History(flag) ==
  LET h == Append(overrideHistory, flag)
  IN  IF Len(h) > OverrideWindow THEN Tail(h) ELSE h

\* overrideRate, in hundredths.
OverrideRate(h) == (100 * Cardinality({i \in 1 .. Len(h) : h[i] = 1})) \div Len(h)

\* Mutated form of AutonomyMode: no recovery band below the guarded one.
AutonomyModeNoBand(b, confidence, rate) ==
  LET risk == (100 * b) \div SLA + (100 - confidence) + rate
  IN  IF risk > 110 THEN "critical"
      ELSE IF risk > 62 THEN "guarded"
      ELSE "stable"

\* modeProb: tanh passes 0.80, 0.55 and 0.30 at 1.10, 0.62 and 0.31.
AutonomyMode(b, confidence, rate) ==
  LET risk == (100 * b) \div SLA + (100 - confidence) + rate
  IN  IF risk > 110 THEN "critical"
      ELSE IF risk > 62 THEN "guarded"
      ELSE IF risk < 31 THEN "stable"
      ELSE "recovery"

\* modeNext
Governance(b, length) ==
  IF b > EmergencyBacklog THEN "emergency"
  ELSE IF b > DegradedBacklog \/ 10 * length > 7 * QueueMax THEN "degraded"
  ELSE "normal"

\* enqueue: above QueueMax the intent of least priority goes; priorities are
\* abstract, so any may.  Coalescing replaces an intent by an equal capacity.
Enqueued(cap) ==
  LET q == Append(queue, cap)
  IN  IF Len(q) <= QueueMax THEN {q}
      ELSE {SubSeq(q, 1, k - 1) \o SubSeq(q, k + 1, Len(q)) : k \in 1 .. Len(q)}

\* The fastest a mode ramps, before the assist for a large deficit and for a
\* deep backlog.
RampRate(up, gov) ==
  IF ~up THEN RampDown ELSE IF gov = "normal" THEN RampUp ELSE RampEmergency

\* rampCap
RampCap(cap, gov, gain) ==
  IF cap >= active
  THEN active + Smaller(cap - active, gain * RampRate(TRUE, gov))
  ELSE active - Smaller(active - cap, gain * RampRate(FALSE, gov))

\* Mutated form of Knob: both ramps of the same sign.
KnobDownOnly(x) == x - 2

\* Step of a knob towards the optimiser's setting, which is always 0: up by
\* the enabling ramp, else down by the disabling one, which is twice as steep.
Knob(x) == IF 0 > x THEN x + 1 ELSE x - 2

\* successProb, in hundredths: 0.99 * exp(-0.25 * load) for loads up to 1.
SuccessProb(load) == 99 - (22 * load) \div 100

\* The rollout timer and its retries.
RolloutTimer(load) ==
  IF timer + 1 <= RolloutTimeout
  THEN timer' = timer + 1 /\ UNCHANGED retries
  ELSE /\ timer' = 0
       /\ retries' = IF SuccessProb(load) < 50 /\ retries < MaxRetries
                     THEN retries + 1 ELSE 0

\* Mutated form of Effective: an old fallback still counts.
EffectiveStale(cap, flag, fallback) == Larger(cap, fallback)

\* The capacity asked of the rollout: the fallback counts in its own tick only.
Effective(cap, flag, fallback) == IF flag THEN Larger(cap, fallback) ELSE cap

\* The backlog of the next tick's plant.
Predicted(b, drift) == Smaller(MaxBacklog, Larger(0, b + drift))
-----------------------------------------------------------------------------
\* initialRuntimeState, newRuntimeOrchestrator: a new loop for a window.
Init ==
  /\ \E seen \in Observed, capacity \in 1 .. MaxObserved :
       /\ backlog = seen /\ physical = seen
       /\ target = capacity /\ active = capacity
  /\ retry = 0 /\ cache = 0 /\ queue = <<>> /\ governance = "normal"
  /\ timer = 0 /\ retries = 0
  /\ lastUnsafe = FALSE /\ overrideHistory = <<>> /\ fallbackCap = 0
  /\ mode = "stable" /\ decision = [action |-> "none", barrier |-> FALSE]

\* ShouldOverrideProb and the history: the override, if any, and its capacity.
Safety(cap, unsafe, fallback) ==
  /\ lastUnsafe' = unsafe
  /\ fallbackCap' = IF Overrides(unsafe) THEN fallback ELSE fallbackCap
  /\ overrideHistory' = History(IF Overrides(unsafe) THEN 1 ELSE 0)

\* Mutated form of StepRollout: the queue is not cleared.
StepRolloutKeep(b, cap, gain, load) ==
  \E q \in Enqueued(cap) :
    /\ governance' = Governance(b, Len(q))
    /\ active' = RampCap(q[Len(q)], governance', gain)
    /\ queue' = q
    /\ retry' = Knob(retry) /\ cache' = Knob(cache)
    /\ RolloutTimer(load)

\* RolloutController.Step: the newest intent is taken and the queue cleared.
StepRollout(b, cap, gain, load) ==
  \E q \in Enqueued(cap) :
    /\ governance' = Governance(b, Len(q))
    /\ active' = RampCap(q[Len(q)], governance', gain)
    /\ queue' = <<>>
    /\ retry' = Knob(retry) /\ cache' = Knob(cache)
    /\ RolloutTimer(load)

\* The physical backlog, seeded from the plant whenever it is zero, takes the
\* arrival and loses what the ramped capacity serves.
Reconcile(p, b, arrival) ==
  physical' = Larger(0, (IF p = 0 THEN b ELSE p) + arrival - ServiceRate * active')

\* hydrateState and RuntimeOrchestrator.Tick for a window showing backlog seen
\* and the arrival, when the optimiser asks for cap.
TickWith(seen, arrival, cap, unsafe, fallback, confidence, gain, load, drift) ==
  LET b == HydratedBacklog(seen) IN
  /\ decision' = Decide(b, active, cap)
  /\ Safety(cap, unsafe, fallback)
  /\ mode' = AutonomyMode(b, confidence, OverrideRate(overrideHistory'))
  /\ StepRollout(b, Effective(cap, Overrides(unsafe), fallbackCap'), gain, load)
  /\ Reconcile(HydratedPhysical(seen), b, arrival)
  /\ physical' <= MaxBacklog
  /\ backlog' = Predicted(physical', drift)
  /\ target' = cap

Tick ==
  \E seen \in Observed, arrival \in Arrivals, cap \in 1 .. MaxCapacity, unsafe \in BOOLEAN :
  \E fallback \in (IF Overrides(unsafe) THEN FallbackCaps(cap) ELSE {0}),
     confidence \in Confidences, gain \in 1 .. RampGain, load \in Loads, drift \in Drifts :
    TickWith(seen, arrival, cap, unsafe, fallback, confidence, gain, load, drift)

\* The service had no window in a tick and has one again: pruneLocked deleted
\* the loop, newServiceLoop makes another.
Recreate ==
  /\ \E seen \in Observed, capacity \in 1 .. MaxObserved :
       /\ backlog' = seen /\ physical' = seen
       /\ target' = capacity /\ active' = capacity
  /\ retry' = 0 /\ cache' = 0 /\ queue' = <<>> /\ governance' = "normal"
  /\ timer' = 0 /\ retries' = 0
  /\ lastUnsafe' = FALSE /\ overrideHistory' = <<>> /\ fallbackCap' = 0
  /\ mode' = "stable" /\ decision' = [action |-> "none", barrier |-> FALSE]

Next == Tick \/ Recreate

Spec == Init /\ [][Next]_vars
-----------------------------------------------------------------------------
\* The latest tick was overridden.
Overridden == overrideHistory # <<>> /\ overrideHistory[Len(overrideHistory)] = 1

\* A step of the loop that lives on, as opposed to a new loop.
Ticked == overrideHistory' # <<>>

(* Between two overrides there is a tick with a safe plan, also across the   *)
(* trimming of the history: the override fires on the rising edge only, so   *)
(* the rate that drives the mode never comes above one half of a full        *)
(* history (EmergencyOverride, Tick).                                        *)
OverrideNeedsSafeTick ==
  /\ \A i \in 1 .. Len(overrideHistory) - 1 : ~(overrideHistory[i] = 1 /\ overrideHistory[i + 1] = 1)
  /\ Overridden => lastUnsafe

(* The retry and cache settings pass their goal of zero by no more than one  *)
(* disabling ramp; they do go below zero (Step has no clamp).                *)
KnobsBounded == retry \in -2 .. 0 /\ cache \in -2 .. 0

(* The rollout's and the runtime's mode, computed from one backlog by two    *)
(* sets of thresholds, never contradict each other: an emergency is never    *)
(* run as a stable or recovering service, nor a degraded one as stable.      *)
ModesAgree ==
  /\ governance = "emergency" => mode \in {"guarded", "critical"}
  /\ governance = "degraded" => mode # "stable"

(* Under the barrier the decision never is to hold or to scale down: the     *)
(* floor of Decide is above the workers whatever the optimiser asks for.     *)
BarrierNeverDown == decision.barrier => decision.action = "scale_up"

(* A tick moves the capacity towards what this tick asks for, never towards  *)
(* an intent of an earlier one that is still queued, and never past it, up   *)
(* at most at the rate of the governance mode of that very tick: the mode is *)
(* updated before the ramp, so an emergency is ramped as one at once and a   *)
(* slow mode never ramps at the emergency's rate.                            *)
RampBounded ==
  [][Ticked => /\ active' > active =>
                    /\ active' <= Larger(target', IF Overridden' THEN fallbackCap' ELSE 0)
                    /\ active' - active <= RampGain * RampRate(TRUE, governance')
               /\ active' < active =>
                    /\ active' >= target'
                    /\ active - active' <= RampGain * RampDown]_vars

(* An override is good for its own tick: in every other tick the capacity    *)
(* comes strictly closer to what the optimiser asks for, also from above its *)
(* limit and whatever fallback is remembered, so with a steady optimiser the *)
(* ramps neither stall nor oscillate.                                        *)
Approaches ==
  [][Ticked /\ ~Overridden' =>
       \/ active = target' /\ active' = active
       \/ active < target' /\ active < active' /\ active' <= target'
       \/ active > target' /\ active > active' /\ active' >= target']_vars
=============================================================================
