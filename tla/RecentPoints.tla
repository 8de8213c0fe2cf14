---------------------------- MODULE RecentPoints ----------------------------
(***************************************************************************)
(* What a service's ring buffer promises its readers: it holds the last    *)
(* Capacity points that were appended, in the order they were appended,    *)
(* and a read returns the newest ones of them, oldest first.               *)
(* RingBuffer implements this specification.                               *)
(***************************************************************************)
EXTENDS Integers, Sequences

CONSTANTS
  Point,     \* the metric points that may be appended
  Capacity,  \* the number of points kept
  MaxAsk     \* largest number of points a reader asks for

VARIABLES
  recent,    \* the points kept, oldest first
  out        \* what the latest read returned

vars == <<recent, out>>

\* The last k elements of s.
Newest(s, k) == [i \in 1 .. k |-> s[Len(s) - k + i]]

\* s with p appended, the oldest element evicted when s already holds cap.
PushRecent(s, p, cap) == IF Len(s) < cap THEN Append(s, p) ELSE Append(Tail(s), p)

Init ==
  /\ recent = <<>>
  /\ out = <<>>

Push(p) ==
  /\ recent' = PushRecent(recent, p, Capacity)
  /\ UNCHANGED out

\* A reader asking for 0 points gets all of them.
Read(n) ==
  /\ out' = Newest(recent, IF 0 < n /\ n < Len(recent) THEN n ELSE Len(recent))
  /\ UNCHANGED recent

Next ==
  \/ \E p \in Point : Push(p)
  \/ \E n \in 0 .. MaxAsk : Read(n)

Spec == Init /\ [][Next]_vars
=============================================================================
