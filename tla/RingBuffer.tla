----------------------------- MODULE RingBuffer -----------------------------
(***************************************************************************)
(* telemetry/ringbuffer.go: the fixed-capacity buffer of one service's     *)
(* metric points.  Append takes the buffer's write lock and the readers    *)
(* its read lock for their whole bodies, so each method is one step.       *)
(***************************************************************************)
EXTENDS Integers, Sequences

CONSTANTS
  Point,     \* the metric points that may be appended
  NoPoint,   \* the zero MetricPoint of a slot never written
  Capacity,  \* the length of buf
  MaxAsk     \* largest number of points a reader asks for

ASSUME CapacityAssumption == Capacity \in Nat \ {0}
ASSUME AskAssumption == MaxAsk \in Nat \ {0}
ASSUME NoPointAssumption == NoPoint \notin Point

VARIABLES
  buf,   \* the slots, indexed from 0
  head,  \* index of the next write slot
  size,  \* number of slots in use
  out    \* what the latest read returned

ringVars == <<buf, head, size, out>>

Slots == 0 .. Capacity - 1

RingTypeOK ==
  /\ buf \in [Slots -> Point \cup {NoPoint}]
  /\ head \in Slots
  /\ size \in 0 .. Capacity
  /\ out \in Seq(Point)

-----------------------------------------------------------------------------
\* Mutated form of Start: counts back from the write slot itself.
StartOffByOne(k) == (head - k + 1 + Capacity) % Capacity

\* The first of the newest k slots.
Start(k) == (head - k + Capacity) % Capacity

\* The newest k points, oldest first: the loop of Snapshot and SummaryStats.
Scan(k) == [i \in 1 .. k |-> buf[(Start(k) + i - 1) % Capacity]]

\* NewRingBuffer
RingInit ==
  /\ buf = [i \in Slots |-> NoPoint]
  /\ head = 0
  /\ size = 0
  /\ out = <<>>

\* Mutated form of AppendPoint: head is advanced before the slot is written.
AppendAfterAdvance(p) ==
  /\ buf' = [buf EXCEPT ![(head + 1) % Capacity] = p]
  /\ head' = (head + 1) % Capacity
  /\ size' = IF size < Capacity THEN size + 1 ELSE size
  /\ UNCHANGED out

\* Append
AppendPoint(p) ==
  /\ buf' = [buf EXCEPT ![head] = p]
  /\ head' = (head + 1) % Capacity
  /\ size' = IF size < Capacity THEN size + 1 ELSE size
  /\ UNCHANGED out

\* Snapshot(n): nil when empty; no limit unless 0 < n < size.
Snapshot(n) ==
  /\ out' = IF size = 0 THEN <<>>
            ELSE Scan(IF 0 < n /\ n < size THEN n ELSE size)
  /\ UNCHANGED <<buf, head, size>>

\* Last: the zero point, here the empty sequence, when the buffer is empty.
Last ==
  /\ out' = IF size = 0 THEN <<>> ELSE <<buf[(head - 1 + Capacity) % Capacity]>>
  /\ UNCHANGED <<buf, head, size>>

\* SummaryStats scans every point; its statistics are functions of the scan.
SummaryStats ==
  /\ out' = IF size = 0 THEN <<>> ELSE Scan(size)
  /\ UNCHANGED <<buf, head, size>>

RingNext ==
  \/ \E p \in Point : AppendPoint(p)
  \/ \E n \in 0 .. MaxAsk : Snapshot(n)
  \/ Last
  \/ SummaryStats

RingSpec == RingInit /\ [][RingNext]_ringVars

-----------------------------------------------------------------------------
\* The points held, oldest first.
Contents == [i \in 1 .. size |-> IF head - size + i - 1 >= 0
                                 THEN buf[head - size + i - 1]
                                 ELSE buf[head - size + i - 1 + Capacity]]

Recent == INSTANCE RecentPoints WITH recent <- Contents

(* The ring implements RecentPoints: whatever the interleaving of appends    *)
(* and reads, across any number of wrap-arounds, a read returns exactly the  *)
(* newest points in append order (Append, Snapshot, Last, SummaryStats).     *)
RefinesRecent == Recent!Spec

(* A slot that was never written is unused: the size and head arithmetic     *)
(* never brings the zero point of an unwritten slot within reach of a read.  *)
UsedSlotsWritten == \A i \in 1 .. size : Contents[i] # NoPoint
=============================================================================
