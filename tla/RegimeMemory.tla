---------------------------- MODULE RegimeMemory ----------------------------
(***************************************************************************)
(* autopilot/regime_memory.go, as RuntimeOrchestrator.Tick uses it: every  *)
(* tick reads the scores and the capacity hint of the entries so far       *)
(* (StartCap is what it makes of the hint) and then adds its own entry.    *)
(* A control loop that is dropped and made anew starts with a new memory.  *)
(*                                                                         *)
(* Instability, confidence and the normalised backlog are levels 0 .. Top  *)
(* of [0, 1].  Scores are in Unit-ths and capacities in Fine-ths, rounded  *)
(* down; the weights decay(i, n) are in Fine-ths.                          *)
(***************************************************************************)
EXTENDS Integers, FiniteSets, Functions

CONSTANTS
  Size,     \* the length of buffer (128)
  Entries,  \* the entries a tick may add
  NoEntry,  \* a slot never written
  Top,      \* the highest level
  Unit,     \* 1.0 of a score
  Fine      \* 1 worker, and 1.0 of a weight; the least weight, 2/7, is above 0

Entry == [action : {"scale_up", "scale_down", "hold"}, workers : Nat,
          inst : 0 .. Top, back : 0 .. Top, conf : 0 .. Top]

ASSUME MemoryAssumption ==
  /\ Size \in Nat \ {0} /\ Top \in Nat \ {0}
  /\ Unit \in Nat \ {0} /\ Unit % 100 = 0 /\ Fine \in Nat /\ Fine > 3
  /\ Entries \subseteq Entry /\ NoEntry \notin Entries

\* The buffer holds nine entries, and the scales are fine enough for a
\* single reversal among them not to be rounded away.
ASSUME ScaleAssumption == Size >= 9 /\ Fine >= 7 /\ Unit >= 35 * Size

VARIABLES
  buffer,       \* the slots, indexed from 0
  index,        \* the next slot to write
  count,        \* the number of slots in use
  cycleScore,   \* the moving average of reversals
  midRangeCap   \* the capacity remembered from oscillations; 0 when none

vars == <<buffer, index, count, cycleScore, midRangeCap>>

TypeOK ==
  /\ buffer \in [0 .. Size - 1 -> Entries \cup {NoEntry}]
  /\ index \in 0 .. Size - 1
  /\ count \in 0 .. Size
  /\ cycleScore \in 0 .. Unit
  /\ midRangeCap \in Nat

\* NewRegimeMemory
Init ==
  /\ buffer = [i \in 0 .. Size - 1 |-> NoEntry]
  /\ index = 0 /\ count = 0
  /\ cycleScore = 0 /\ midRangeCap = 0

\* Mutated form of get: counts back from the slot to be written next.
getFromIndex(i) == buffer[(index - i + Size) % Size]

\* The i-th entry back, 0 being the newest.
get(i) == buffer[(index - 1 - i + Size) % Size]

-----------------------------------------------------------------------------
\* The scores.  n is count.
Weight(i) == (2 * Fine * count) \div (2 * count + 5 * i)
Weighted(S, val(_)) == SumFunction([i \in S |-> Weight(i) * val(i)])
Weights(S) == SumFunction([i \in S |-> Weight(i)])
Clamp(x) == IF x < 0 THEN 0 ELSE IF x > Unit THEN Unit ELSE x

\* GetTrend, of one signal: the weighted mean of the steps.
TrendOf(sig) ==
  LET S == 0 .. count - 2
  IN  IF count < 4 THEN 0
      ELSE (Unit * Weighted(S, LAMBDA i : get(i)[sig] - get(i + 1)[sig])) \div (Top * Weights(S))

GetTrend == [inst |-> TrendOf("inst"), back |-> TrendOf("back"), conf |-> TrendOf("conf")]

\* What the action i ticks ago is credited with: the change over the four
\* ticks after it, times minus its expected direction.
Response(i) == 7 * (get(i - 4).inst - get(i).inst) + 3 * (get(i - 4).back - get(i).back)

Effect(i) ==
  LET sign == IF get(i).action = "scale_up" THEN 1 ELSE -1
  IN  (Unit + (Unit * sign * Response(i)) \div (40 * Top)) \div 2

GetEffectiveness ==
  LET acted == {i \in 4 .. count - 2 : get(i).action # "hold"}
  IN  CASE count < 6   -> Unit \div 2
        [] acted = {} /\ count >= 6 -> Unit
        [] OTHER       -> Clamp(Weighted(acted, Effect) \div Weights(acted))

\* Mutated form of GetOscillationScore: the sum of flips and crossings only
\* over the pairs in which the action is not "hold" twice.
GetOscillationScoreSteady ==
  LET S == 2 .. count - 1
      cross == {i \in S : (get(i - 1).inst - get(i).inst) * (get(i - 2).inst - get(i - 1).inst) < 0}
  IN  IF count < 6 THEN 0 ELSE (4 * Unit * Weights(cross)) \div (10 * Weights(S))

\* GetOscillationScore: reversals of the instability, its spread around its
\* mean (not divided by the weights), and changes of action, also to "hold".
GetOscillationScore ==
  LET S == 2 .. count - 1
      cross == {i \in S : (get(i - 1).inst - get(i).inst) * (get(i - 2).inst - get(i - 1).inst) < 0}
      flips == {i \in S : get(i - 1).action # get(i).action}
      total == SumFunction([i \in 0 .. count - 1 |-> get(i).inst])
      spread == Weighted(S, LAMBDA i : (count * get(i - 1).inst - total)
                                         * (count * get(i - 1).inst - total))
      one == Fine * count * count * Top * Top
  IN  IF count < 6 THEN 0
      ELSE Clamp(((4 * Unit * Weights(cross)) \div Weights(S)
                  + (4 * Unit * spread) \div (spread + one)
                  + (2 * Unit * Weights(flips)) \div Weights(S)) \div 10)

GetStabilityScore ==
  LET tr == GetTrend
      calm == Unit - Clamp((tr.inst + Unit) \div 2)
  IN  IF count < 4 THEN Unit \div 2
      ELSE Clamp((4 * (Unit - GetOscillationScore) * calm) \div (10 * Unit)
                 + (3 * Clamp((tr.conf + Unit) \div 2)) \div 10
                 + (3 * GetEffectiveness) \div 10)

\* GetMidRangeCap
GetMidRangeCap == IF 100 * cycleScore < 45 * Unit THEN 0 ELSE midRangeCap

-----------------------------------------------------------------------------
\* e reverses the action before it.
Flip(e) ==
  /\ count >= 2
  /\ get(0).action # e.action /\ e.action # "hold" /\ get(0).action # "hold"

\* Mutated form of CycleAfter: the score only ever rises.
CycleAfterNoDecay(e) ==
  IF Flip(e) THEN (85 * cycleScore + 15 * Unit) \div 100 ELSE cycleScore

\* Add: the moving average, from the third entry on.
CycleAfter(e) ==
  IF count < 2 THEN cycleScore
  ELSE (85 * cycleScore + (IF Flip(e) THEN 15 * Unit ELSE 0)) \div 100

\* Mutated form of MidAfter: the first value is averaged with the initial zero.
MidAfterFromZero(e) ==
  IF 100 * CycleAfter(e) > 45 * Unit /\ e.workers > 0
  THEN (9 * midRangeCap + e.workers * Fine) \div 10
  ELSE midRangeCap

\* Add: the hint follows the capacity only while the score is above 0.45.
MidAfter(e) ==
  CASE ~(100 * CycleAfter(e) > 45 * Unit /\ e.workers > 0) -> midRangeCap
    [] 100 * CycleAfter(e) > 45 * Unit /\ e.workers > 0 /\ midRangeCap = 0 -> e.workers * Fine
    [] OTHER -> (9 * midRangeCap + e.workers * Fine) \div 10

Add(e) ==
  /\ cycleScore' = CycleAfter(e)
  /\ midRangeCap' = MidAfter(e)
  /\ buffer' = [buffer EXCEPT ![index] = e]
  /\ index' = (index + 1) % Size
  /\ count' = IF count < Size THEN count + 1 ELSE count

\* Tick, with w workers: the hint read is blended into the capacity that the
\* optimiser starts from.
StartCap(w) ==
  IF GetMidRangeCap > 0 THEN (7 * w * Fine + 3 * GetMidRangeCap) \div 10 ELSE w * Fine

\* newServiceLoop, after PruneActive dropped the loop: NewRegimeMemory.
Recreate ==
  /\ buffer' = [i \in 0 .. Size - 1 |-> NoEntry]
  /\ index' = 0 /\ count' = 0
  /\ cycleScore' = 0 /\ midRangeCap' = 0

Next == Recreate \/ \E e \in Entries : Add(e)

Spec == Init /\ [][Next]_vars
=============================================================================
