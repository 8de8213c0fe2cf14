------------------------- MODULE ControlLoop_proofs -------------------------
(***************************************************************************)
(* Proofs about ControlLoop for all rates, limits, thresholds and windows. *)
(***************************************************************************)
EXTENDS ControlLoop, FiniteSetTheorems, TLAPS

USE CapacityAssumption, RolloutAssumption, BacklogAssumption, ThresholdAssumption

(* The capacities in force are among those the bounds name.                  *)
LEMMA BoundFacts ==
  /\ CapacityBound \in Nat
  /\ MaxCapacity <= CapacityBound /\ MaxObserved <= CapacityBound
  /\ MaxRequired <= CapacityBound
BY SMT DEF CapacityBound, Larger

(* No intent outlives its tick.                                              *)
QueueDrained == queue = <<>>

(* With nothing left in the queue the intent of this tick is alone in it, so *)
(* no priority is ever compared.                                             *)
LEMMA SoleIntent ==
  ASSUME QueueDrained, NEW cap \in Nat
  PROVE  Enqueued(cap) = {<<cap>>}
<1>1. Append(queue, cap) = <<cap>> /\ Len(<<cap>>) = 1
  BY DEF QueueDrained
<1>2. 1 <= QueueMax
  OBVIOUS
<1>3. QED
  BY <1>1, <1>2 DEF Enqueued

(* What a fallback is, and what is then asked of the rollout.                *)
LEMMA FallbackType ==
  ASSUME TypeOK, NEW cap \in 1 .. MaxCapacity, NEW fallback \in FallbackCaps(cap)
  PROVE  fallback \in 0 .. CapacityBound
<1>1. fallback \in Nat /\ fallback <= MaxRequired
  BY SMT DEF FallbackCaps, TypeOK, Larger, Smaller
<1>2. QED
  BY <1>1, BoundFacts, SMT

LEMMA EffectiveType ==
  ASSUME NEW cap \in 1 .. MaxCapacity, NEW flag \in BOOLEAN,
         NEW fallback \in 0 .. CapacityBound
  PROVE  /\ Effective(cap, flag, fallback) \in 1 .. CapacityBound
         /\ Effective(cap, flag, fallback) >= cap
         /\ ~flag => Effective(cap, flag, fallback) = cap
         /\ Effective(cap, flag, fallback) <= Larger(cap, IF flag THEN fallback ELSE 0)
BY BoundFacts, SMT DEF Effective, Larger

(* rampCap: towards cap, never past it, at least one unit and at most gain   *)
(* times the rate.                                                           *)
LEMMA RampFacts ==
  ASSUME TypeOK, NEW cap \in 1 .. CapacityBound,
         NEW gov \in {"normal", "degraded", "emergency"}, NEW gain \in 1 .. RampGain
  PROVE  /\ RampCap(cap, gov, gain) \in 1 .. CapacityBound
         /\ cap = active => RampCap(cap, gov, gain) = active
         /\ cap > active => /\ RampCap(cap, gov, gain) > active
                            /\ RampCap(cap, gov, gain) <= cap
                            /\ RampCap(cap, gov, gain) - active <= RampGain * RampRate(TRUE, gov)
         /\ cap < active => /\ RampCap(cap, gov, gain) < active
                            /\ RampCap(cap, gov, gain) >= cap
                            /\ active - RampCap(cap, gov, gain) <= RampGain * RampDown
<1> DEFINE up == RampRate(TRUE, gov)
           down == RampRate(FALSE, gov)
<1>1. up \in Nat \ {0} /\ down \in Nat \ {0} /\ down = RampDown
  BY DEF RampRate
<1>2. ASSUME NEW r \in Nat \ {0}
      PROVE  gain * r \in Nat \ {0} /\ gain * r <= RampGain * r
  BY SMT
<1>3. /\ gain * up \in Nat \ {0} /\ gain * up <= RampGain * up
      /\ gain * down \in Nat \ {0} /\ gain * down <= RampGain * down
  BY <1>1, <1>2
<1>4. active \in 1 .. CapacityBound /\ CapacityBound \in Nat
  BY BoundFacts DEF TypeOK
<1>5. RampGain * up \in Nat /\ RampGain * down \in Nat
  <2>1. ASSUME NEW x \in Nat, NEW y \in Nat
        PROVE  x * y \in Nat
    BY SMT
  <2>2. RampGain \in Nat /\ up \in Nat /\ down \in Nat
    BY <1>1
  <2>3. QED
    BY <2>1, <2>2
<1>6. RampCap(cap, gov, gain) =
        IF cap >= active THEN active + Smaller(cap - active, gain * up)
                         ELSE active - Smaller(active - cap, gain * down)
  BY DEF RampCap
<1> DEFINE gu == gain * up
           gd == gain * down
           Gu == RampGain * up
           Gd == RampGain * down
<1>7. gu \in Nat \ {0} /\ gu <= Gu /\ gd \in Nat \ {0} /\ gd <= Gd /\ Gu \in Nat /\ Gd \in Nat
  BY <1>3, <1>5
<1>8. RampCap(cap, gov, gain) =
        IF cap >= active THEN active + Smaller(cap - active, gu)
                         ELSE active - Smaller(active - cap, gd)
  BY <1>6
<1>9. Gu = RampGain * RampRate(TRUE, gov) /\ Gd = RampGain * RampDown
  BY <1>1
<1> HIDE DEF up, down, gu, gd, Gu, Gd
<1> DEFINE new == RampCap(cap, gov, gain)
<1>10. CASE cap >= active
  <2>1. new = active + Smaller(cap - active, gu)
    BY <1>8, <1>10
  <2> HIDE DEF new
  <2>2. /\ new \in 1 .. CapacityBound /\ new <= cap /\ new >= active
        /\ cap = active => new = active
        /\ cap > active => new > active /\ new - active <= Gu
    BY <1>4, <1>7, <1>10, <2>1, SMT DEF Smaller
  <2>3. ~(cap < active)
    BY <1>4, <1>10, SMT
  <2>4. QED
    BY <1>9, <2>2, <2>3 DEF new
<1>11. CASE cap < active
  <2>1. new = active - Smaller(active - cap, gd)
    BY <1>4, <1>8, <1>11
  <2> HIDE DEF new
  <2>2. /\ new \in 1 .. CapacityBound /\ new >= cap
        /\ new < active /\ active - new <= Gd
    BY <1>4, <1>7, <1>11, <2>1, SMT DEF Smaller
  <2>3. ~(cap > active) /\ cap # active
    BY <1>4, <1>11, SMT
  <2>4. QED
    BY <1>9, <2>2, <2>3 DEF new
<1>12. cap >= active \/ cap < active
  BY <1>4, SMT
<1>13. QED
  BY <1>10, <1>11, <1>12

(* The new history is the old one, without its oldest flag when it was full, *)
(* followed by the flag of this tick.                                        *)
LEMMA HistoryElements ==
  ASSUME TypeOK, NEW flag \in {0, 1}
  PROVE  /\ History(flag) \in Seq({0, 1})
         /\ Len(History(flag)) \in 1 .. OverrideWindow
         /\ History(flag)[Len(History(flag))] = flag
         /\ \E s \in {0, 1} :
              /\ Len(History(flag)) = Len(overrideHistory) + 1 - s
              /\ \A i \in 1 .. Len(overrideHistory) - s : History(flag)[i] = overrideHistory[i + s]
<1> DEFINE h == Append(overrideHistory, flag)
           n == Len(overrideHistory)
<1>1. overrideHistory \in Seq({0, 1}) /\ n \in Nat /\ n <= OverrideWindow
  BY DEF TypeOK
<1>2. /\ h \in Seq({0, 1}) /\ Len(h) = n + 1 /\ h[n + 1] = flag
      /\ \A i \in 1 .. n : h[i] = overrideHistory[i]
  BY <1>1
<1>3. CASE n + 1 > OverrideWindow
  <2>1. History(flag) = Tail(h)
    BY <1>2, <1>3 DEF History
  <2>2. n \in 1 .. OverrideWindow
    BY <1>1, <1>3
  <2>3. /\ Tail(h) \in Seq({0, 1}) /\ Len(Tail(h)) = n
        /\ \A i \in 1 .. n : Tail(h)[i] = h[i + 1]
    BY <1>1, <1>2
  <2>4. Tail(h)[n] = flag /\ \A i \in 1 .. n - 1 : Tail(h)[i] = overrideHistory[i + 1]
    <3>1. n \in 1 .. n /\ \A i \in 1 .. n - 1 : i \in 1 .. n /\ i + 1 \in 1 .. n
      BY <2>2
    <3>2. QED
      BY <1>2, <2>3, <3>1
  <2> HIDE DEF h
  <2>5. /\ Len(Tail(h)) = n + 1 - 1
        /\ \A i \in 1 .. n - 1 : Tail(h)[i] = overrideHistory[i + 1]
    BY <2>2, <2>3, <2>4
  <2>6. QED
    BY <2>1, <2>2, <2>3, <2>4, <2>5
<1>4. CASE ~(n + 1 > OverrideWindow)
  <2>1. History(flag) = h
    BY <1>2, <1>4 DEF History
  <2>2. n + 1 \in 1 .. OverrideWindow
    BY <1>1, <1>4
  <2>3. /\ Len(h) = n + 1 - 0
        /\ \A i \in 1 .. n - 0 : h[i] = overrideHistory[i + 0]
    BY <1>1, <1>2
  <2> HIDE DEF h
  <2>4. QED
    BY <1>2, <2>1, <2>2, <2>3
<1>5. QED
  BY <1>3, <1>4

-----------------------------------------------------------------------------
(* Init and a new loop give every variable its type and the safety parts.    *)
Inv == TypeOK /\ OverrideNeedsSafeTick /\ QueueDrained /\ KnobsBounded /\ BarrierNeverDown

LEMMA InitInv == Init => Inv
<1> SUFFICES ASSUME Init PROVE Inv
  OBVIOUS
<1>1. PICK seen \in Observed, capacity \in 1 .. MaxObserved :
        backlog = seen /\ physical = seen /\ target = capacity /\ active = capacity
  BY DEF Init
<1>2. seen \in 0 .. MaxBacklog /\ capacity \in 1 .. CapacityBound /\ 0 \in 0 .. CapacityBound
  BY BoundFacts
<1>3. TypeOK
  <2>1. /\ backlog \in 0 .. MaxBacklog /\ physical \in 0 .. MaxBacklog
        /\ target \in 1 .. CapacityBound /\ active \in 1 .. CapacityBound
        /\ retry \in Int /\ cache \in Int
        /\ timer \in 0 .. RolloutTimeout /\ retries \in 0 .. MaxRetries
        /\ fallbackCap \in 0 .. CapacityBound
    BY <1>1, <1>2 DEF Init
  <2>2. /\ queue \in Seq(1 .. CapacityBound)
        /\ overrideHistory \in Seq({0, 1}) /\ Len(overrideHistory) <= OverrideWindow
    BY DEF Init
  <2>3. /\ governance \in {"normal", "degraded", "emergency"}
        /\ lastUnsafe \in BOOLEAN
        /\ mode \in {"stable", "guarded", "critical", "recovery"}
        /\ decision \in [action : {"none", "hold", "scale_up", "scale_down"}, barrier : BOOLEAN]
    BY DEF Init
  <2>4. QED
    BY <2>1, <2>2, <2>3 DEF TypeOK
<1>4. QED
  BY <1>3 DEF Inv, Init, OverrideNeedsSafeTick, Overridden, QueueDrained, KnobsBounded, BarrierNeverDown

LEMMA RecreateInv == Recreate => Inv'
<1> SUFFICES ASSUME Recreate PROVE Inv'
  OBVIOUS
<1>1. PICK seen \in Observed, capacity \in 1 .. MaxObserved :
        backlog' = seen /\ physical' = seen /\ target' = capacity /\ active' = capacity
  BY DEF Recreate
<1>2. seen \in 0 .. MaxBacklog /\ capacity \in 1 .. CapacityBound /\ 0 \in 0 .. CapacityBound
  BY BoundFacts
<1>3. TypeOK'
  <2>1. /\ backlog' \in 0 .. MaxBacklog /\ physical' \in 0 .. MaxBacklog
        /\ target' \in 1 .. CapacityBound /\ active' \in 1 .. CapacityBound
        /\ retry' \in Int /\ cache' \in Int
        /\ timer' \in 0 .. RolloutTimeout /\ retries' \in 0 .. MaxRetries
        /\ fallbackCap' \in 0 .. CapacityBound
    BY <1>1, <1>2 DEF Recreate
  <2>2. /\ queue' \in Seq(1 .. CapacityBound)
        /\ overrideHistory' \in Seq({0, 1}) /\ Len(overrideHistory') <= OverrideWindow
    BY DEF Recreate
  <2>3. /\ governance' \in {"normal", "degraded", "emergency"}
        /\ lastUnsafe' \in BOOLEAN
        /\ mode' \in {"stable", "guarded", "critical", "recovery"}
        /\ decision' \in [action : {"none", "hold", "scale_up", "scale_down"}, barrier : BOOLEAN]
    BY DEF Recreate
  <2>4. QED
    BY <2>1, <2>2, <2>3 DEF TypeOK
<1>4. QED
  BY <1>3 DEF Inv, Recreate, OverrideNeedsSafeTick, Overridden, QueueDrained, KnobsBounded, BarrierNeverDown

(* What a tick does to the capacity, given that nothing is queued.           *)
LEMMA TickCapacity ==
  ASSUME TypeOK, QueueDrained,
         NEW b \in Int, NEW cap \in 1 .. CapacityBound, NEW gain \in 1 .. RampGain, NEW load,
         StepRollout(b, cap, gain, load)
  PROVE  /\ governance' = Governance(b, 1)
         /\ governance' \in {"normal", "degraded", "emergency"}
         /\ active' = RampCap(cap, governance', gain)
         /\ queue' = <<>> /\ retry' = Knob(retry) /\ cache' = Knob(cache)
         /\ RolloutTimer(load)
<1>1. Enqueued(cap) = {<<cap>>}
  BY SoleIntent, BoundFacts
<1>2. Len(<<cap>>) = 1 /\ <<cap>>[1] = cap
  OBVIOUS
<1>3. /\ governance' = Governance(b, 1)
      /\ active' = RampCap(cap, governance', gain)
      /\ queue' = <<>> /\ retry' = Knob(retry) /\ cache' = Knob(cache)
      /\ RolloutTimer(load)
  BY <1>1, <1>2 DEF StepRollout
<1>4. Governance(b, 1) \in {"normal", "degraded", "emergency"}
  BY DEF Governance
<1>5. QED
  BY <1>3, <1>4

(* The inputs of a tick and what follows from them.                          *)
LEMMA TickFacts ==
  ASSUME Inv, NEW seen \in Observed, NEW arrival \in Arrivals, NEW cap \in 1 .. MaxCapacity,
         NEW unsafe \in BOOLEAN,
         NEW fallback \in (IF Overrides(unsafe) THEN FallbackCaps(cap) ELSE {0}),
         NEW confidence \in Confidences, NEW gain \in 1 .. RampGain, NEW load \in Loads,
         NEW drift \in Drifts,
         TickWith(seen, arrival, cap, unsafe, fallback, confidence, gain, load, drift)
  PROVE  LET flag == Overrides(unsafe)
             eff  == Effective(cap, flag, fallbackCap')
         IN  /\ flag \in BOOLEAN /\ fallbackCap' \in 0 .. CapacityBound
             /\ HydratedBacklog(seen) \in 0 .. MaxBacklog
             /\ HydratedPhysical(seen) \in 0 .. MaxBacklog
             /\ eff \in 1 .. CapacityBound
             /\ StepRollout(HydratedBacklog(seen), eff, gain, load)
             /\ active' \in 1 .. CapacityBound
<1> DEFINE flag == Overrides(unsafe)
           eff  == Effective(cap, flag, fallbackCap')
<1>1. flag \in BOOLEAN
  BY DEF Overrides, Inv, TypeOK
<1>2. fallbackCap' = IF flag THEN fallback ELSE fallbackCap
  BY DEF TickWith, Safety
<1>3. flag => fallback \in 0 .. CapacityBound
  BY FallbackType DEF Inv
<1>4. fallbackCap' \in 0 .. CapacityBound
  BY <1>1, <1>2, <1>3 DEF Inv, TypeOK
<1>5. /\ HydratedBacklog(seen) \in 0 .. MaxBacklog
      /\ HydratedPhysical(seen) \in 0 .. MaxBacklog
  BY DEF HydratedBacklog, HydratedPhysical, Inv, TypeOK
<1>6. eff \in 1 .. CapacityBound
  BY <1>1, <1>4, EffectiveType
<1>7. StepRollout(HydratedBacklog(seen), eff, gain, load)
  BY DEF TickWith
<1>8. active' \in 1 .. CapacityBound
  <2> HIDE DEF eff, flag
  <2>1. HydratedBacklog(seen) \in Int
    BY <1>5
  <2>2. /\ active' = RampCap(eff, governance', gain)
        /\ governance' \in {"normal", "degraded", "emergency"}
    BY <2>1, <1>6, <1>7, TickCapacity DEF Inv
  <2>3. QED
    BY <2>2, <1>6, RampFacts DEF Inv
<1>9. QED
  BY <1>1, <1>4, <1>5, <1>6, <1>7, <1>8

(* A tick keeps the types.                                                   *)
LEMMA TickType ==
  ASSUME Inv, NEW seen \in Observed, NEW arrival \in Arrivals, NEW cap \in 1 .. MaxCapacity,
         NEW unsafe \in BOOLEAN,
         NEW fallback \in (IF Overrides(unsafe) THEN FallbackCaps(cap) ELSE {0}),
         NEW confidence \in Confidences, NEW gain \in 1 .. RampGain, NEW load \in Loads,
         NEW drift \in Drifts,
         TickWith(seen, arrival, cap, unsafe, fallback, confidence, gain, load, drift)
  PROVE  TypeOK'
<1> DEFINE flag == Overrides(unsafe)
           eff  == Effective(cap, flag, fallbackCap')
           b    == HydratedBacklog(seen)
<1>1. /\ flag \in BOOLEAN /\ fallbackCap' \in 0 .. CapacityBound
      /\ b \in 0 .. MaxBacklog /\ HydratedPhysical(seen) \in 0 .. MaxBacklog
      /\ eff \in 1 .. CapacityBound /\ StepRollout(b, eff, gain, load)
      /\ active' \in 1 .. CapacityBound
  BY TickFacts
<1>2. /\ governance' \in {"normal", "degraded", "emergency"}
      /\ queue' = <<>> /\ retry' = Knob(retry) /\ cache' = Knob(cache)
      /\ RolloutTimer(load)
  <2> HIDE DEF eff, b
  <2>1. b \in Int
    BY <1>1
  <2>2. QED
    BY <1>1, <2>1, TickCapacity DEF Inv
<1>3. physical' \in 0 .. MaxBacklog
  <2>1. ServiceRate * active' \in Int
    <3>1. ASSUME NEW x \in Nat, NEW y \in Nat
          PROVE  x * y \in Int
      BY SMT
    <3>2. ServiceRate \in Nat /\ active' \in Nat
      BY <1>1, BoundFacts
    <3>3. QED
      BY <3>1, <3>2
  <2> DEFINE served == ServiceRate * active'
             base == IF HydratedPhysical(seen) = 0 THEN b ELSE HydratedPhysical(seen)
  <2>2. physical' = Larger(0, base + arrival - served) /\ physical' <= MaxBacklog
    BY DEF TickWith, Reconcile
  <2>3. base \in Int /\ arrival \in Int /\ served \in Int
    BY <1>1, <2>1
  <2> HIDE DEF base, served
  <2>4. QED
    BY <2>2, <2>3, SMT DEF Larger
<1>4. backlog' \in 0 .. MaxBacklog
  <2>1. backlog' = Predicted(physical', drift) /\ drift \in Int /\ MaxBacklog \in Nat
    BY DEF TickWith
  <2>2. ASSUME NEW x \in Int
        PROVE  Smaller(MaxBacklog, Larger(0, x)) \in 0 .. MaxBacklog
    BY SMT DEF Larger, Smaller
  <2>3. physical' + drift \in Int
    BY <1>3, <2>1
  <2>4. QED
    BY <2>1, <2>2, <2>3 DEF Predicted
<1>5. target' \in 1 .. CapacityBound
  BY BoundFacts DEF TickWith
<1>6. retry' \in Int /\ cache' \in Int
  BY <1>2 DEF Knob, Inv, TypeOK
<1>7. timer' \in 0 .. RolloutTimeout /\ retries' \in 0 .. MaxRetries
  <2>1. timer \in 0 .. RolloutTimeout /\ retries \in 0 .. MaxRetries
    BY DEF Inv, TypeOK
  <2>2. CASE timer + 1 <= RolloutTimeout
    BY <1>2, <2>1, <2>2 DEF RolloutTimer
  <2>3. CASE ~(timer + 1 <= RolloutTimeout)
    <3>1. /\ timer' = 0
          /\ retries' = IF SuccessProb(load) < 50 /\ retries < MaxRetries THEN retries + 1 ELSE 0
      <4>1. RolloutTimer(load)
        BY <1>2
      <4>2. QED
        BY <2>3, <4>1, Zenon DEF RolloutTimer
    <3>2. retries' = 0 \/ (retries < MaxRetries /\ retries' = retries + 1)
      BY <3>1, Zenon
    <3>3. QED
      BY <2>1, <3>1, <3>2
  <2>4. QED
    BY <2>2, <2>3
<1>8. /\ overrideHistory' \in Seq({0, 1}) /\ Len(overrideHistory') <= OverrideWindow
  <2>1. PICK f \in {0, 1} : overrideHistory' = History(f)
    BY DEF TickWith, Safety
  <2>2. QED
    BY <2>1, HistoryElements DEF Inv
<1>9. /\ lastUnsafe' \in BOOLEAN
      /\ mode' \in {"stable", "guarded", "critical", "recovery"}
      /\ decision' \in [action : {"none", "hold", "scale_up", "scale_down"}, barrier : BOOLEAN]
  BY DEF TickWith, Safety, AutonomyMode, Decide
<1>10. queue' \in Seq(1 .. CapacityBound)
  BY <1>2
<1>11. QED
  BY <1>1, <1>2, <1>3, <1>4, <1>5, <1>6, <1>7, <1>8, <1>9, <1>10 DEF TypeOK

(* A tick overrides only after one with a safe plan.                         *)
LEMMA TickOverride ==
  ASSUME Inv, NEW seen \in Observed, NEW arrival \in Arrivals, NEW cap \in 1 .. MaxCapacity,
         NEW unsafe \in BOOLEAN,
         NEW fallback \in (IF Overrides(unsafe) THEN FallbackCaps(cap) ELSE {0}),
         NEW confidence \in Confidences, NEW gain \in 1 .. RampGain, NEW load \in Loads,
         NEW drift \in Drifts,
         TickWith(seen, arrival, cap, unsafe, fallback, confidence, gain, load, drift)
  PROVE  OverrideNeedsSafeTick'
<1> DEFINE f == IF Overrides(unsafe) THEN 1 ELSE 0
           h == History(f)
           n == Len(overrideHistory)
<1>1. overrideHistory' = h /\ lastUnsafe' = unsafe /\ f \in {0, 1}
  BY DEF TickWith, Safety
<1>2. /\ h \in Seq({0, 1}) /\ Len(h) \in 1 .. OverrideWindow /\ h[Len(h)] = f
      /\ \E s \in {0, 1} : Len(h) = n + 1 - s /\ \A i \in 1 .. n - s : h[i] = overrideHistory[i + s]
  BY <1>1, HistoryElements DEF Inv
<1>3. PICK s \in {0, 1} : Len(h) = n + 1 - s /\ \A i \in 1 .. n - s : h[i] = overrideHistory[i + s]
  BY <1>2
<1>4. f = 1 => unsafe /\ ~lastUnsafe
  BY DEF Overrides
<1>5. n \in Nat /\ overrideHistory \in Seq({0, 1})
  BY DEF Inv, TypeOK
<1>6. f = 1 /\ n # 0 => overrideHistory[n] # 1
  BY <1>4, <1>5 DEF Inv, OverrideNeedsSafeTick, Overridden
<1> HIDE DEF f, h
<1>7. ASSUME NEW i \in 1 .. Len(h) - 1, h[i] = 1, h[i + 1] = 1
      PROVE  FALSE
  <2>1. i \in 1 .. n - s /\ h[i] = overrideHistory[i + s] /\ i + s \in 1 .. n
    <3>1. Len(h) = n + 1 - s /\ n \in Nat /\ s \in {0, 1}
      BY <1>3, <1>5
    <3> HIDE DEF n
    <3>2. i \in 1 .. n - s /\ i + s \in 1 .. n
      BY <1>7, <3>1
    <3>3. QED
      BY <1>3, <3>2
  <2>2. CASE i + 1 = Len(h)
    <3>1. i + s = n /\ n # 0
      BY <1>3, <1>5, <2>1, <2>2
    <3>2. f = 1
      BY <1>2, <1>7, <2>2
    <3>3. QED
      BY <1>6, <1>7, <2>1, <3>1, <3>2
  <2>3. CASE i + 1 # Len(h)
    <3>1. i + 1 \in 1 .. n - s /\ i + s \in 1 .. n - 1 /\ (i + 1) + s = (i + s) + 1
      BY <1>3, <1>5, <2>1, <2>3
    <3>2. h[i + 1] = overrideHistory[(i + s) + 1]
      BY <1>3, <3>1
    <3>3. QED
      BY <1>7, <2>1, <3>1, <3>2 DEF Inv, OverrideNeedsSafeTick
  <2>4. QED
    BY <2>2, <2>3
<1>8. h # <<>> /\ h[Len(h)] = 1 => unsafe
  BY <1>2, <1>4
<1>9. QED
  BY <1>1, <1>7, <1>8 DEF OverrideNeedsSafeTick, Overridden

LEMMA TickInv == Inv /\ Tick => Inv'
<1> SUFFICES ASSUME Inv, Tick PROVE Inv'
  OBVIOUS
<1>1. PICK seen \in Observed, arrival \in Arrivals, cap \in 1 .. MaxCapacity, unsafe \in BOOLEAN :
      \E fallback \in (IF Overrides(unsafe) THEN FallbackCaps(cap) ELSE {0}),
         confidence \in Confidences, gain \in 1 .. RampGain, load \in Loads, drift \in Drifts :
        TickWith(seen, arrival, cap, unsafe, fallback, confidence, gain, load, drift)
  BY DEF Tick
<1>2. PICK fallback \in (IF Overrides(unsafe) THEN FallbackCaps(cap) ELSE {0}),
           confidence \in Confidences, gain \in 1 .. RampGain, load \in Loads, drift \in Drifts :
        TickWith(seen, arrival, cap, unsafe, fallback, confidence, gain, load, drift)
  BY <1>1
<1>3. TypeOK'
  BY <1>2, TickType
<1>4. OverrideNeedsSafeTick'
  BY <1>2, TickOverride
<1>5. queue' = <<>> /\ retry' = Knob(retry) /\ cache' = Knob(cache)
  <2> DEFINE eff == Effective(cap, Overrides(unsafe), fallbackCap')
             b == HydratedBacklog(seen)
  <2>1. b \in 0 .. MaxBacklog /\ eff \in 1 .. CapacityBound /\ StepRollout(b, eff, gain, load)
    BY <1>2, TickFacts
  <2>2. b \in Int
    BY <2>1
  <2> HIDE DEF b, eff
  <2>3. QED
    BY <2>1, <2>2, TickCapacity DEF Inv
<1>6. KnobsBounded'
  BY <1>5 DEF Inv, KnobsBounded, Knob
<1>7. BarrierNeverDown'
  <2> DEFINE b == HydratedBacklog(seen)
  <2>1. decision' = Decide(b, active, cap)
    BY <1>2 DEF TickWith
  <2>2. active \in Nat /\ cap \in Nat /\ BarrierDepth * active \in Int
    <3>1. ASSUME NEW x \in Nat, NEW y \in Nat
          PROVE  x * y \in Int
      BY SMT
    <3>2. active \in Nat /\ cap \in Nat /\ BarrierDepth \in Nat
      BY BoundFacts DEF Inv, TypeOK
    <3>3. QED
      BY <3>1, <3>2
  <2> HIDE DEF b
  <2>3. b > BarrierDepth * active => Larger(cap, active + 1) - active > 0
    BY <2>2, SMT DEF Larger
  <2>4. decision'.barrier => Larger(cap, active + 1) - active > 0 /\ b > BarrierDepth * active
    BY <2>1, <2>3 DEF Decide
  <2>5. Larger(cap, active + 1) - active > 0 => Larger(cap, active + 1) - active # 0
    BY <2>2, SMT DEF Larger
  <2>6. QED
    BY <2>1, <2>4, <2>5 DEF Decide, BarrierNeverDown
<1>8. QED
  BY <1>3, <1>4, <1>5, <1>6, <1>7 DEF Inv, QueueDrained

LEMMA Invariant == Spec => []Inv
<1>1. Inv /\ UNCHANGED vars => Inv'
  BY DEF vars, Inv, TypeOK, OverrideNeedsSafeTick, Overridden, QueueDrained, KnobsBounded,
         BarrierNeverDown
<1>2. Inv /\ [Next]_vars => Inv'
  BY <1>1, TickInv, RecreateInv DEF Next
<1>3. QED
  BY <1>2, InitInv, PTL DEF Spec

(* Types, and with them the bounds of the capacities: never below one and    *)
(* never above the optimiser's limit, the observed and the required ones.    *)
THEOREM TypeCorrect == Spec => []TypeOK
BY Invariant, PTL DEF Inv

(* The override fires on the rising edge only, for every window length.      *)
THEOREM OverridesSpaced == Spec => []OverrideNeedsSafeTick
BY Invariant, PTL DEF Inv

(* The settings stay within one disabling ramp of their goal.                *)
THEOREM KnobsStay == Spec => []KnobsBounded
BY Invariant, PTL DEF Inv

(* The floor of the decision holds for every depth of the barrier.           *)
THEOREM FloorDecides == Spec => []BarrierNeverDown
BY Invariant, PTL DEF Inv

-----------------------------------------------------------------------------
(* What a tick does to the capacity: the facts both action properties need.  *)
LEMMA TickMoves ==
  ASSUME Inv, Tick
  PROVE  \E cap \in 1 .. MaxCapacity, eff \in 1 .. CapacityBound, gain \in 1 .. RampGain :
           /\ target' = cap
           /\ active' = RampCap(eff, governance', gain)
           /\ governance' \in {"normal", "degraded", "emergency"}
           /\ ~Overridden' => eff = cap
           /\ eff >= cap
           /\ eff <= Larger(cap, IF Overridden' THEN fallbackCap' ELSE 0)
<1>1. PICK seen \in Observed, arrival \in Arrivals, cap \in 1 .. MaxCapacity, unsafe \in BOOLEAN :
      \E fallback \in (IF Overrides(unsafe) THEN FallbackCaps(cap) ELSE {0}),
         confidence \in Confidences, gain \in 1 .. RampGain, load \in Loads, drift \in Drifts :
        TickWith(seen, arrival, cap, unsafe, fallback, confidence, gain, load, drift)
  BY DEF Tick
<1>2. PICK fallback \in (IF Overrides(unsafe) THEN FallbackCaps(cap) ELSE {0}),
           confidence \in Confidences, gain \in 1 .. RampGain, load \in Loads, drift \in Drifts :
        TickWith(seen, arrival, cap, unsafe, fallback, confidence, gain, load, drift)
  BY <1>1
<1> DEFINE flag == Overrides(unsafe)
           eff  == Effective(cap, flag, fallbackCap')
           b    == HydratedBacklog(seen)
<1>3. /\ flag \in BOOLEAN /\ fallbackCap' \in 0 .. CapacityBound
      /\ b \in 0 .. MaxBacklog /\ eff \in 1 .. CapacityBound
      /\ StepRollout(b, eff, gain, load)
  BY <1>2, TickFacts
<1>4. /\ eff >= cap
      /\ ~flag => eff = cap
      /\ eff <= Larger(cap, IF flag THEN fallbackCap' ELSE 0)
  BY <1>3, EffectiveType
<1>5. Overridden' <=> flag
  <2>1. overrideHistory' = History(IF flag THEN 1 ELSE 0)
    BY <1>2 DEF TickWith, Safety
  <2>2. (IF flag THEN 1 ELSE 0) \in {0, 1}
    OBVIOUS
  <2>3. /\ Len(overrideHistory') \in 1 .. OverrideWindow
        /\ overrideHistory' \in Seq({0, 1})
        /\ overrideHistory'[Len(overrideHistory')] = (IF flag THEN 1 ELSE 0)
    BY <2>1, <2>2, HistoryElements DEF Inv
  <2> HIDE DEF flag
  <2>4. QED
    BY <1>3, <2>3 DEF Overridden
<1>6. target' = cap
  BY <1>2 DEF TickWith
<1>7. /\ active' = RampCap(eff, governance', gain)
      /\ governance' \in {"normal", "degraded", "emergency"}
  <2> HIDE DEF eff, b
  <2>1. b \in Int
    BY <1>3
  <2>2. QED
    BY <1>3, <2>1, TickCapacity DEF Inv
<1> HIDE DEF eff, flag, b
<1>8. /\ ~Overridden' => eff = cap
      /\ eff <= Larger(cap, IF Overridden' THEN fallbackCap' ELSE 0)
  <2>1. CASE flag
    BY <1>4, <1>5, <2>1
  <2>2. CASE ~flag
    BY <1>4, <1>5, <2>2
  <2>3. QED
    BY <2>1, <2>2
<1>9. QED
  BY <1>3, <1>4, <1>6, <1>7, <1>8, Zenon

(* A step of the loop that lives on is a tick or changes nothing.            *)
LEMMA TickedIsTick == [Next]_vars /\ Ticked => Tick \/ UNCHANGED vars
BY DEF Next, Recreate, Ticked

(* In a tick that is not overridden the capacity comes strictly closer to    *)
(* what the optimiser asks for, for all rates.                               *)
THEOREM RampsApproach == Spec => Approaches
<1> DEFINE Step == Ticked /\ ~Overridden' =>
                     \/ active = target' /\ active' = active
                     \/ active < target' /\ active < active' /\ active' <= target'
                     \/ active > target' /\ active > active' /\ active' >= target'
<1>1. Inv /\ [Next]_vars => [Step]_vars
  <2> SUFFICES ASSUME Inv, [Next]_vars, vars' # vars, Ticked, ~Overridden'
               PROVE  \/ active = target' /\ active' = active
                      \/ active < target' /\ active < active' /\ active' <= target'
                      \/ active > target' /\ active > active' /\ active' >= target'
    OBVIOUS
  <2>1. Tick
    BY TickedIsTick
  <2>2. PICK cap \in 1 .. MaxCapacity, eff \in 1 .. CapacityBound, gain \in 1 .. RampGain :
          /\ target' = cap /\ active' = RampCap(eff, governance', gain)
          /\ governance' \in {"normal", "degraded", "emergency"} /\ eff = cap
    BY <2>1, TickMoves
  <2>3. /\ eff = active => active' = active
        /\ eff > active => active' > active /\ active' <= eff
        /\ eff < active => active' < active /\ active' >= eff
    <3> DEFINE r == RampCap(eff, governance', gain)
    <3>1. TypeOK /\ active' = r
      BY <2>2 DEF Inv
    <3>2. /\ eff = active => r = active
          /\ eff > active => r > active /\ r <= eff
          /\ eff < active => r < active /\ r >= eff
      BY <2>2, <3>1, RampFacts
    <3> HIDE DEF r
    <3>3. QED
      BY <3>1, <3>2
  <2>4. active \in Int /\ eff \in Int /\ active' \in Int
    <3>1. active \in 1 .. CapacityBound /\ active' \in 1 .. CapacityBound
      BY <2>1, TickInv DEF Inv, TypeOK
    <3>2. QED
      BY <2>2, <3>1, BoundFacts
  <2>5. QED
    BY <2>2, <2>3, <2>4, SMT
<1>2. QED
  BY <1>1, Invariant, PTL DEF Spec, Approaches

(* The capacity never passes what was asked for, nor the rate of its mode.   *)
THEOREM RampsBounded == Spec => RampBounded
<1> DEFINE Up == /\ active' <= Larger(target', IF Overridden' THEN fallbackCap' ELSE 0)
                 /\ active' - active <= RampGain * RampRate(TRUE, governance')
           Down == active' >= target' /\ active - active' <= RampGain * RampDown
           Step == Ticked => (active' > active => Up) /\ (active' < active => Down)
<1>1. Inv /\ [Next]_vars => [Step]_vars
  <2> SUFFICES ASSUME Inv, [Next]_vars, vars' # vars, Ticked
               PROVE  (active' > active => Up) /\ (active' < active => Down)
    OBVIOUS
  <2>1. Tick
    BY TickedIsTick
  <2>2. PICK cap \in 1 .. MaxCapacity, eff \in 1 .. CapacityBound, gain \in 1 .. RampGain :
          /\ target' = cap /\ active' = RampCap(eff, governance', gain)
          /\ governance' \in {"normal", "degraded", "emergency"} /\ eff >= cap
          /\ eff <= Larger(cap, IF Overridden' THEN fallbackCap' ELSE 0)
    BY <2>1, TickMoves
  <2> DEFINE gu == RampGain * RampRate(TRUE, governance')
             gd == RampGain * RampDown
             top == Larger(target', IF Overridden' THEN fallbackCap' ELSE 0)
  <2>3. /\ eff = active => active' = active
        /\ eff > active => active' > active /\ active' <= eff /\ active' - active <= gu
        /\ eff < active => active' < active /\ active' >= eff /\ active - active' <= gd
    <3> DEFINE r == RampCap(eff, governance', gain)
    <3>1. TypeOK /\ active' = r
      BY <2>2 DEF Inv
    <3>2. /\ eff = active => r = active
          /\ eff > active => r > active /\ r <= eff /\ r - active <= gu
          /\ eff < active => r < active /\ r >= eff /\ active - r <= gd
      BY <2>2, <3>1, RampFacts
    <3> HIDE DEF r, gu, gd
    <3>3. QED
      BY <3>1, <3>2
  <2>4. active \in Int /\ eff \in Int /\ active' \in Int /\ cap \in Int
    <3>1. active \in 1 .. CapacityBound /\ active' \in 1 .. CapacityBound
      BY <2>1, TickInv DEF Inv, TypeOK
    <3>2. QED
      BY <2>2, <3>1, BoundFacts
  <2>5. eff <= top /\ top \in Int
    <3>1. fallbackCap' \in Int
      BY <2>1, TickInv DEF Inv, TypeOK
    <3>2. QED
      BY <2>2, <2>4, <3>1, SMT DEF Larger
  <2>6. Up = (active' <= top /\ active' - active <= gu) /\ Down = (active' >= target' /\ active - active' <= gd)
    OBVIOUS
  <2> HIDE DEF gu, gd, top, Up, Down
  <2>7. (active' > active => active' <= top /\ active' - active <= gu)
        /\ (active' < active => active' >= target' /\ active - active' <= gd)
    BY <2>2, <2>3, <2>4, <2>5, SMT
  <2>8. QED
    BY <2>6, <2>7
<1>2. QED
  BY <1>1, Invariant, PTL DEF Spec, RampBounded

-----------------------------------------------------------------------------
(* A lower bound of a quotient.                                              *)
LEMMA QuotientAtLeast ==
  ASSUME NEW x \in Nat, NEW d \in Nat \ {0}, NEW k \in Nat, x >= k * d
  PROVE  x \div d \in Nat /\ x \div d >= k
<1> DEFINE q == x \div d
<1>1. q \in Nat /\ x < d * (q + 1)
  BY SMT
<1> HIDE DEF q
<1>2. ASSUME q + 1 <= k
      PROVE  FALSE
  <2>1. d * (q + 1) <= d * k
    BY <1>1, <1>2, SMT
  <2>2. d * k = k * d
    BY SMT
  <2>3. d * (q + 1) \in Nat /\ d * k \in Nat
    BY <1>1, SMT
  <2>4. QED
    BY <1>1, <2>1, <2>2, <2>3, SMT
<1>3. q >= k
  BY <1>1, <1>2
<1>4. QED
  BY <1>1, <1>3 DEF q

(* The override rate is a natural number.                                    *)
LEMMA RateNatural ==
  ASSUME NEW h \in Seq({0, 1}), h # <<>>
  PROVE  OverrideRate(h) \in Nat
<1> DEFINE ones == {i \in 1 .. Len(h) : h[i] = 1}
<1>1. Len(h) \in Nat \ {0}
  OBVIOUS
<1>2. IsFiniteSet(1 .. Len(h))
  BY <1>1, FS_Interval
<1>3. Cardinality(ones) \in Nat
  BY <1>2, FS_Subset, FS_CardinalityType
<1> HIDE DEF ones
<1>4. 100 * Cardinality(ones) \in Nat /\ 100 * Cardinality(ones) >= 0 * Len(h)
  BY <1>1, <1>3
<1>5. (100 * Cardinality(ones)) \div Len(h) \in Nat
  BY <1>1, <1>4, QuotientAtLeast
<1>6. QED
  BY <1>5 DEF OverrideRate, ones

(* The two modes follow from one backlog by thresholds that do not cross.    *)
LEMMA ModesOfTick ==
  ASSUME NEW b \in Nat, NEW confidence \in Confidences, NEW rate \in Nat
  PROVE  /\ Governance(b, 1) = "emergency" => AutonomyMode(b, confidence, rate) \in {"guarded", "critical"}
         /\ Governance(b, 1) = "degraded" => AutonomyMode(b, confidence, rate) # "stable"
<1> DEFINE load == (100 * b) \div SLA
<1>1. 100 * b \in Nat /\ SLA \in Nat \ {0}
  OBVIOUS
<1>2. b > EmergencyBacklog => load \in Nat /\ load >= 100
  <2>1. b > EmergencyBacklog => 100 * b >= 100 * SLA
    OBVIOUS
  <2>2. QED
    BY <1>1, <2>1, QuotientAtLeast
<1>3. b > DegradedBacklog => load \in Nat /\ load >= 40
  <2>1. b > DegradedBacklog => 100 * b >= 40 * SLA
    OBVIOUS
  <2>2. QED
    BY <1>1, <2>1, QuotientAtLeast
<1>4. confidence \in 1 .. 100 /\ ~(10 * 1 > 7 * QueueMax)
  OBVIOUS
<1> DEFINE risk == load + (100 - confidence) + rate
<1>5. AutonomyMode(b, confidence, rate) =
        IF risk > 110 THEN "critical" ELSE IF risk > 62 THEN "guarded"
        ELSE IF risk < 31 THEN "stable" ELSE "recovery"
  BY DEF AutonomyMode
<1> HIDE DEF load
<1>6. b > EmergencyBacklog => risk \in Int /\ risk > 62
  BY <1>2, <1>4
<1>7. b > DegradedBacklog => risk \in Int /\ ~(risk < 31)
  BY <1>3, <1>4
<1> HIDE DEF risk
<1>8. Governance(b, 1) = "emergency" => b > EmergencyBacklog
  BY <1>4 DEF Governance
<1>9. Governance(b, 1) = "degraded" => b > DegradedBacklog
  BY <1>4 DEF Governance
<1>10. QED
  BY <1>5, <1>6, <1>7, <1>8, <1>9

(* The rollout's mode and the runtime's never contradict each other, for all *)
(* thresholds related as those of newRuntimeOrchestrator are.                *)
THEOREM ModesConsistent == Spec => []ModesAgree
<1>1. Init => ModesAgree
  BY DEF Init, ModesAgree
<1>2. ASSUME Inv, Tick
      PROVE  ModesAgree'
  <2>1. PICK seen \in Observed, arrival \in Arrivals, cap \in 1 .. MaxCapacity, unsafe \in BOOLEAN :
        \E fallback \in (IF Overrides(unsafe) THEN FallbackCaps(cap) ELSE {0}),
           confidence \in Confidences, gain \in 1 .. RampGain, load \in Loads, drift \in Drifts :
          TickWith(seen, arrival, cap, unsafe, fallback, confidence, gain, load, drift)
    BY <1>2 DEF Tick
  <2>2. PICK fallback \in (IF Overrides(unsafe) THEN FallbackCaps(cap) ELSE {0}),
             confidence \in Confidences, gain \in 1 .. RampGain, load \in Loads, drift \in Drifts :
          TickWith(seen, arrival, cap, unsafe, fallback, confidence, gain, load, drift)
    BY <2>1
  <2> DEFINE b == HydratedBacklog(seen)
             eff == Effective(cap, Overrides(unsafe), fallbackCap')
             rate == OverrideRate(overrideHistory')
  <2>3. b \in 0 .. MaxBacklog /\ eff \in 1 .. CapacityBound /\ StepRollout(b, eff, gain, load)
    BY <1>2, <2>2, TickFacts
  <2>4. mode' = AutonomyMode(b, confidence, rate)
    BY <2>2 DEF TickWith
  <2>5. rate \in Nat
    <3>1. PICK f \in {0, 1} : overrideHistory' = History(f)
      BY <2>2 DEF TickWith, Safety
    <3>2. overrideHistory' \in Seq({0, 1}) /\ Len(overrideHistory') \in 1 .. OverrideWindow
      BY <1>2, <3>1, HistoryElements DEF Inv
    <3>3. overrideHistory' # <<>>
      BY <3>2
    <3>4. QED
      BY <3>2, <3>3, RateNatural
  <2> HIDE DEF b, eff, rate
  <2>6. b \in Nat /\ b \in Int
    BY <2>3
  <2>7. governance' = Governance(b, 1)
    BY <1>2, <2>3, <2>6, TickCapacity DEF Inv
  <2>8. QED
    BY <2>4, <2>5, <2>6, <2>7, ModesOfTick DEF ModesAgree
<1>3. Recreate => ModesAgree'
  BY DEF Recreate, ModesAgree
<1>4. ModesAgree /\ UNCHANGED vars => ModesAgree'
  BY DEF vars, ModesAgree
<1>5. Inv /\ ModesAgree /\ [Next]_vars => ModesAgree'
  BY <1>2, <1>3, <1>4 DEF Next
<1>6. QED
  BY <1>1, <1>5, Invariant, PTL DEF Spec

=============================================================================
