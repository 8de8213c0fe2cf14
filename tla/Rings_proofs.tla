---------------------------- MODULE Rings_proofs ----------------------------
(***************************************************************************)
(* The two ring buffers of the program.                                    *)
(*                                                                         *)
(* RingBuffer: for every capacity and every set of points, that it is the  *)
(* list of the newest ones.                                                *)
(* RegimeMemory: for every length, every set of entries and any number of  *)
(* ticks, what get reads, how long the oscillation hint lives, between     *)
(* which capacities it leads the optimiser, how success is scored, and     *)
(* that the two detectors of oscillation agree.                            *)
(***************************************************************************)
EXTENDS RingBuffer, MemoryHistory, SumTheorems, SequenceTheorems, TLAPS

-----------------------------------------------------------------------------
(* The points of a service.                                                *)

(* Division by the capacity, for the two ranges the code's indices fall in.  *)
LEMMA ModSmall ==
  ASSUME NEW c \in Nat \ {0}, NEW x \in 0 .. c - 1
  PROVE  x % c = x
BY SMT

LEMMA ModWrap ==
  ASSUME NEW c \in Nat \ {0}, NEW x \in c .. 2 * c - 1
  PROVE  x % c = x - c
BY SMT

(* The slot an index counted from head - k names, with at most one wrap.     *)
LEMMA SlotIndex ==
  ASSUME NEW c \in Nat \ {0}, NEW h \in 0 .. c - 1,
         NEW k \in 1 .. c, NEW i \in 1 .. k
  PROVE  (((h - k + c) % c) + i - 1) % c =
           IF h - k + i - 1 >= 0 THEN h - k + i - 1 ELSE h - k + i - 1 + c
<1>1. CASE h >= k
  <2>1. (h - k + c) % c = h - k
    BY <1>1, ModWrap
  <2>2. (h - k) + i - 1 \in 0 .. c - 1
    BY <1>1
  <2>3. QED
    BY <1>1, <2>1, <2>2, ModSmall
<1>2. CASE h < k
  <2>1. (h - k + c) % c = h - k + c
    <3>1. h - k + c \in 0 .. c - 1
      BY <1>2
    <3>2. QED
      BY <3>1, ModSmall
  <2>2. CASE h - k + i - 1 >= 0
    <3>1. (h - k + c) + i - 1 \in c .. 2 * c - 1
      BY <2>2
    <3>2. ((h - k + c) + i - 1) % c = (h - k + c) + i - 1 - c
      BY <3>1, ModWrap
    <3>3. QED
      BY <2>1, <2>2, <3>2
  <2>3. CASE h - k + i - 1 < 0
    <3>1. (h - k + c) + i - 1 \in 0 .. c - 1
      BY <1>2, <2>3
    <3>2. ((h - k + c) + i - 1) % c = (h - k + c) + i - 1
      BY <3>1, ModSmall
    <3>3. QED
      BY <2>1, <2>3, <3>2
  <2>4. QED
    BY <2>2, <2>3
<1>3. QED
  BY <1>1, <1>2

(* Append, and Append after Tail, element by element.                        *)
LEMMA AppendElements ==
  ASSUME NEW S, NEW s \in Seq(S), NEW e \in S
  PROVE  Append(s, e) = [i \in 1 .. Len(s) + 1 |-> IF i = Len(s) + 1 THEN e ELSE s[i]]
<1> DEFINE n == Len(s)
           t == [i \in 1 .. n + 1 |-> IF i = n + 1 THEN e ELSE s[i]]
<1>1. n \in Nat /\ \A i \in 1 .. n : s[i] \in S
  BY LenProperties, ElementOfSeq
<1>2. t \in Seq(S) /\ Len(t) = n + 1
  <2>1. \A i \in 1 .. n + 1 : (IF i = n + 1 THEN e ELSE s[i]) \in S
    BY <1>1
  <2>2. n + 1 \in Nat /\ t \in [1 .. n + 1 -> S]
    BY <1>1, <2>1
  <2>3. QED
    BY <2>2
<1>3. Append(s, e) \in Seq(S) /\ Len(Append(s, e)) = n + 1
  BY <1>1
<1>4. \A i \in 1 .. n + 1 : Append(s, e)[i] = t[i]
  BY <1>1
<1>5. QED
  BY <1>2, <1>3, <1>4, SeqEqual

LEMMA AppendTailElements ==
  ASSUME NEW S, NEW s \in Seq(S), NEW e \in S, Len(s) # 0
  PROVE  Append(Tail(s), e) = [i \in 1 .. Len(s) |-> IF i = Len(s) THEN e ELSE s[i + 1]]
<1> DEFINE n == Len(s)
           t == Tail(s)
           u == [i \in 1 .. n |-> IF i = n THEN e ELSE s[i + 1]]
<1>1. /\ t \in Seq(S) /\ Len(t) = n - 1 /\ n \in Nat \ {0}
      /\ \A i \in 1 .. n - 1 : t[i] = s[i + 1]
      /\ \A i \in 1 .. n : s[i] \in S
  BY EmptySeq, LenProperties, HeadTailProperties, ElementOfSeq
<1>2. u \in Seq(S) /\ Len(u) = n
  <2>1. \A i \in 1 .. n : (IF i = n THEN e ELSE s[i + 1]) \in S
    <3> SUFFICES ASSUME NEW i \in 1 .. n, i # n PROVE s[i + 1] \in S
      OBVIOUS
    <3>1. n \in Nat
      BY <1>1
    <3> HIDE DEF n
    <3>2. i + 1 \in 1 .. n
      BY <3>1
    <3>3. QED
      BY <1>1, <3>2
  <2>2. n \in Nat /\ u \in [1 .. n -> S]
    BY <1>1, <2>1
  <2>3. QED
    BY <2>2
<1> HIDE DEF t
<1>3. /\ Append(t, e) \in Seq(S) /\ Len(Append(t, e)) = n
      /\ \A i \in 1 .. n : Append(t, e)[i] = IF i = n THEN e ELSE t[i]
  BY <1>1
<1>4. \A i \in 1 .. n : Append(t, e)[i] = u[i]
  BY <1>1, <1>3
<1>5. Append(t, e) = u
  BY <1>2, <1>3, <1>4, SeqEqual
<1>6. QED
  BY <1>5 DEF t

-----------------------------------------------------------------------------
(* The inductive invariant.                                                  *)
IInv == RingTypeOK /\ UsedSlotsWritten

LEMMA ContentsType ==
  ASSUME IInv
  PROVE  /\ Contents \in Seq(Point)
         /\ Len(Contents) = size
         /\ \A i \in 1 .. size : Contents[i] \in Point
<1>1. \A i \in 1 .. size : Contents[i] \in Point
  <2> SUFFICES ASSUME NEW i \in 1 .. size
               PROVE  Contents[i] \in Point
    OBVIOUS
  <2> DEFINE j == IF head - size + i - 1 >= 0
                  THEN head - size + i - 1 ELSE head - size + i - 1 + Capacity
  <2>1. j \in Slots
    BY CapacityAssumption DEF IInv, RingTypeOK, Slots
  <2>2. Contents[i] = buf[j]
    BY DEF Contents
  <2>3. Contents[i] # NoPoint
    BY DEF IInv, UsedSlotsWritten
  <2>4. QED
    BY <2>1, <2>2, <2>3 DEF IInv, RingTypeOK
<1>2. size \in Nat /\ DOMAIN Contents = 1 .. size
  BY CapacityAssumption DEF IInv, RingTypeOK, Contents
<1>3. Contents = [i \in 1 .. size |-> Contents[i]]
  BY DEF Contents
<1>4. Contents \in [1 .. size -> Point]
  BY <1>1, <1>3
<1>5. QED
  BY <1>1, <1>2, <1>4

(* A read of the newest k points returns the last k elements of Contents.    *)
LEMMA ScanNewest ==
  ASSUME IInv, NEW k \in 1 .. size
  PROVE  Scan(k) = Recent!Newest(Contents, k)
<1>1. \A i \in 1 .. k : buf[(Start(k) + i - 1) % Capacity] = Contents[size - k + i]
  <2> SUFFICES ASSUME NEW i \in 1 .. k
               PROVE  buf[(Start(k) + i - 1) % Capacity] = Contents[size - k + i]
    OBVIOUS
  <2>1. /\ Capacity \in Nat \ {0} /\ head \in 0 .. Capacity - 1
        /\ size \in 0 .. Capacity /\ k \in 1 .. Capacity
    BY CapacityAssumption DEF IInv, RingTypeOK, Slots
  <2>2. (Start(k) + i - 1) % Capacity =
          IF head - k + i - 1 >= 0 THEN head - k + i - 1 ELSE head - k + i - 1 + Capacity
    BY <2>1, SlotIndex DEF Start
  <2>3. size - k + i \in 1 .. size
    BY <2>1
  <2>4. head - size + (size - k + i) - 1 = head - k + i - 1
    BY <2>1
  <2>5. QED
    BY <2>2, <2>3, <2>4 DEF Contents
<1>2. QED
  BY <1>1, ContentsType DEF Scan, Recent!Newest

(* Writing at head and advancing it appends to Contents, and evicts the      *)
(* oldest element exactly when the buffer is full.                           *)
LEMMA AppendContents ==
  ASSUME IInv, NEW p \in Point, AppendPoint(p)
  PROVE  Contents' = Recent!PushRecent(Contents, p, Capacity)
<1> DEFINE c == Capacity
<1>0. /\ c \in Nat \ {0} /\ head \in 0 .. c - 1 /\ size \in 0 .. c
      /\ buf' = [buf EXCEPT ![head] = p] /\ buf \in [0 .. c - 1 -> Point \cup {NoPoint}]
      /\ head' = (head + 1) % c
      /\ size' = IF size < c THEN size + 1 ELSE size
  BY CapacityAssumption DEF IInv, RingTypeOK, Slots, AppendPoint
<1>1. head' = IF head = c - 1 THEN 0 ELSE head + 1
  <2>1. CASE head = c - 1
    BY <1>0, <2>1, ModWrap
  <2>2. CASE head # c - 1
    <3>1. head + 1 \in 0 .. c - 1
      BY <1>0, <2>2
    <3>2. QED
      BY <1>0, <2>2, <3>1, ModSmall
  <2>3. QED
    BY <2>1, <2>2
<1>2. Contents' = [i \in 1 .. size' |-> IF head' - size' + i - 1 >= 0
                                        THEN buf'[head' - size' + i - 1]
                                        ELSE buf'[head' - size' + i - 1 + c]]
  BY DEF Contents
<1>3. CASE size < c
  <2>1. size' = size + 1
    BY <1>0, <1>3
  <2>2. ASSUME NEW i \in 1 .. size + 1
        PROVE  Contents'[i] = IF i = size + 1 THEN p ELSE Contents[i]
    <3> DEFINE j == IF head' - size' + i - 1 >= 0
                    THEN head' - size' + i - 1 ELSE head' - size' + i - 1 + c
    <3>1. Contents'[i] = buf'[j]
      BY <1>2, <2>1
    <3>2. CASE i = size + 1
      <4>1. j = head
        BY <1>0, <1>1, <1>3, <2>1, <3>2
      <4>2. QED
        BY <1>0, <3>1, <3>2, <4>1
    <3>3. CASE i # size + 1
      <4>1. i \in 1 .. size
        BY <1>0, <3>3
      <4>2. /\ j \in 0 .. c - 1 /\ j # head
            /\ j = IF head - size + i - 1 >= 0
                   THEN head - size + i - 1 ELSE head - size + i - 1 + c
        BY <1>0, <1>1, <1>3, <2>1, <3>3, <4>1
      <4>3. buf'[j] = buf[j]
        BY <1>0, <4>2
      <4>4. QED
        BY <3>1, <3>3, <4>1, <4>2, <4>3 DEF Contents
    <3>4. QED
      BY <3>2, <3>3
  <2>3. Recent!PushRecent(Contents, p, c) = Append(Contents, p)
    BY <1>3, ContentsType DEF Recent!PushRecent
  <2>4. Append(Contents, p) = [i \in 1 .. size + 1 |-> IF i = size + 1 THEN p ELSE Contents[i]]
    BY ContentsType, AppendElements
  <2>5. Contents' = [i \in 1 .. size + 1 |-> Contents'[i]]
    BY <1>2, <2>1
  <2>6. QED
    BY <2>2, <2>3, <2>4, <2>5
<1>4. CASE size = c
  <2>1. size' = size
    BY <1>0, <1>4
  <2>2. ASSUME NEW i \in 1 .. size
        PROVE  Contents'[i] = IF i = size THEN p ELSE Contents[i + 1]
    <3> DEFINE j == IF head' - size + i - 1 >= 0
                    THEN head' - size + i - 1 ELSE head' - size + i - 1 + c
    <3>1. Contents'[i] = buf'[j]
      BY <1>2, <2>1
    <3>2. CASE i = size
      <4>1. j = head
        BY <1>0, <1>1, <1>4, <3>2
      <4>2. QED
        BY <1>0, <3>1, <3>2, <4>1
    <3>3. CASE i # size
      <4>1. i + 1 \in 1 .. size
        BY <1>0, <3>3
      <4>2. /\ j \in 0 .. c - 1 /\ j # head
            /\ j = IF head - size + (i + 1) - 1 >= 0
                   THEN head - size + (i + 1) - 1 ELSE head - size + (i + 1) - 1 + c
        BY <1>0, <1>1, <1>4, <3>3
      <4>3. buf'[j] = buf[j]
        BY <1>0, <4>2
      <4>4. QED
        BY <3>1, <3>3, <4>1, <4>2, <4>3 DEF Contents
    <3>4. QED
      BY <3>2, <3>3
  <2>3. Recent!PushRecent(Contents, p, c) = Append(Tail(Contents), p)
    BY <1>0, <1>4, ContentsType DEF Recent!PushRecent
  <2>4. Append(Tail(Contents), p) = [i \in 1 .. size |-> IF i = size THEN p ELSE Contents[i + 1]]
    <3>1. Len(Contents) = size /\ size \in Nat \ {0}
      BY <1>0, <1>4, ContentsType
    <3>2. QED
      BY <3>1, ContentsType, AppendTailElements
  <2>5. Contents' = [i \in 1 .. size |-> Contents'[i]]
    BY <1>2, <2>1
  <2>6. QED
    BY <2>2, <2>3, <2>4, <2>5
<1>5. QED
  BY <1>0, <1>3, <1>4

(* Last reads the same slot as a scan of one point.                          *)
LEMMA LastIsScan ==
  ASSUME IInv, size # 0
  PROVE  <<buf[(head - 1 + Capacity) % Capacity]>> = Scan(1)
<1>1. Capacity \in Nat \ {0} /\ head \in 0 .. Capacity - 1
  BY CapacityAssumption DEF IInv, RingTypeOK, Slots
<1>2. ((head - 1 + Capacity) % Capacity) \in 0 .. Capacity - 1
  BY <1>1
<1>3. (Start(1) + 1 - 1) % Capacity = (head - 1 + Capacity) % Capacity
  BY <1>1, <1>2, ModSmall DEF Start
<1>4. Scan(1) = [i \in 1 .. 1 |-> buf[(Start(1) + 1 - 1) % Capacity]]
  BY DEF Scan
<1>5. QED
  BY <1>3, <1>4

-----------------------------------------------------------------------------
LEMMA InitIInv == RingInit => IInv
<1> SUFFICES ASSUME RingInit PROVE IInv
  OBVIOUS
<1>1. RingTypeOK
  <2>1. <<>> \in Seq(Point)
    BY EmptySeq
  <2>2. QED
    BY <2>1, CapacityAssumption DEF RingInit, RingTypeOK, Slots
<1>2. UsedSlotsWritten
  BY DEF RingInit, UsedSlotsWritten
<1>3. QED
  BY <1>1, <1>2 DEF IInv

LEMMA ReadType ==
  ASSUME IInv, NEW k \in 1 .. size
  PROVE  Scan(k) \in Seq(Point)
<1>1. \A i \in 1 .. k : Contents[size - k + i] \in Point
  BY ContentsType DEF IInv, RingTypeOK
<1>2. Recent!Newest(Contents, k) \in [1 .. k -> Point]
  BY <1>1, ContentsType DEF Recent!Newest
<1>3. k \in Nat
  BY DEF IInv, RingTypeOK
<1>4. QED
  BY <1>2, <1>3, ScanNewest

LEMMA NextIInv == IInv /\ [RingNext]_ringVars => IInv'
<1> SUFFICES ASSUME IInv, [RingNext]_ringVars PROVE IInv'
  OBVIOUS
<1>0. size \in Nat /\ Capacity \in Nat \ {0} /\ size <= Capacity
  BY CapacityAssumption DEF IInv, RingTypeOK
<1>1. ASSUME NEW p \in Point, AppendPoint(p)
      PROVE  IInv'
  <2>1. RingTypeOK'
    <3>1. head' \in Slots
      BY <1>0, <1>1 DEF IInv, RingTypeOK, Slots, AppendPoint
    <3>2. size' \in 0 .. Capacity
      BY <1>0, <1>1 DEF IInv, RingTypeOK, AppendPoint
    <3>3. QED
      BY <1>1, <3>1, <3>2 DEF IInv, RingTypeOK, AppendPoint
  <2>2. Contents' = Recent!PushRecent(Contents, p, Capacity)
    BY <1>1, AppendContents
  <2>3. \A i \in 1 .. size' : Contents'[i] \in Point
    <3>1. CASE size < Capacity
      <4>1. Contents' = [i \in 1 .. size + 1 |-> IF i = size + 1 THEN p ELSE Contents[i]]
        BY <2>2, <3>1, ContentsType, AppendElements DEF Recent!PushRecent
      <4>2. size' = size + 1
        BY <1>1, <3>1 DEF AppendPoint
      <4>3. QED
        BY <1>0, <4>1, <4>2, ContentsType
    <3>2. CASE size = Capacity
      <4>1. Len(Contents) = size /\ Len(Contents) # 0 /\ ~(Len(Contents) < Capacity)
        BY <1>0, <3>2, ContentsType
      <4>2. Contents' = [i \in 1 .. size |-> IF i = size THEN p ELSE Contents[i + 1]]
        BY <2>2, <4>1, ContentsType, AppendTailElements DEF Recent!PushRecent
      <4>3. size' = size
        BY <1>0, <1>1, <3>2 DEF AppendPoint
      <4>4. QED
        BY <1>0, <4>2, <4>3, ContentsType
    <3>3. QED
      BY <1>0, <3>1, <3>2
  <2>4. QED
    BY <2>1, <2>3, NoPointAssumption DEF IInv, UsedSlotsWritten
<1>2. ASSUME UNCHANGED <<buf, head, size>>, out' \in Seq(Point)
      PROVE  IInv'
  BY <1>2 DEF IInv, RingTypeOK, UsedSlotsWritten, Contents
<1>3. ASSUME NEW n \in 0 .. MaxAsk, Snapshot(n)
      PROVE  IInv'
  <2>1. out' \in Seq(Point)
    BY <1>0, <1>3, ReadType, EmptySeq, AskAssumption DEF Snapshot
  <2>2. QED
    BY <1>2, <1>3, <2>1 DEF Snapshot
<1>4. ASSUME Last
      PROVE  IInv'
  <2>1. out' \in Seq(Point)
    BY <1>4, LastIsScan, ReadType, <1>0, EmptySeq DEF Last
  <2>2. QED
    BY <1>2, <1>4, <2>1 DEF Last
<1>5. ASSUME SummaryStats
      PROVE  IInv'
  <2>1. out' \in Seq(Point)
    BY <1>0, <1>5, ReadType, EmptySeq DEF SummaryStats
  <2>2. QED
    BY <1>2, <1>5, <2>1 DEF SummaryStats
<1>6. CASE UNCHANGED ringVars
  BY <1>2, <1>6 DEF ringVars, IInv, RingTypeOK
<1>7. QED
  BY <1>1, <1>3, <1>4, <1>5, <1>6 DEF RingNext

(* Type correctness of the buffer: indices stay in range and no read returns *)
(* the zero point of a slot that was never written.                          *)
THEOREM TypeCorrect == RingSpec => []RingTypeOK
<1>1. IInv => RingTypeOK
  BY DEF IInv
<1>2. QED
  BY <1>1, InitIInv, NextIInv, PTL DEF RingSpec

(* The slots within reach of a read have all been written.                   *)
THEOREM ReachesWritten == RingSpec => []UsedSlotsWritten
<1>1. IInv => UsedSlotsWritten
  BY DEF IInv
<1>2. QED
  BY <1>1, InitIInv, NextIInv, PTL DEF RingSpec

-----------------------------------------------------------------------------
(* The ring implements the last-Capacity-points specification: every append  *)
(* is a Push, every read a Read, for every capacity.                         *)
THEOREM Refinement == RingSpec => RefinesRecent
<1>1. RingInit => Recent!Init
  <2> SUFFICES ASSUME RingInit PROVE Contents = <<>> /\ out = <<>>
    BY DEF Recent!Init
  <2>1. QED
    BY DEF RingInit, Contents
<1>2. ASSUME IInv, [RingNext]_ringVars
      PROVE  [Recent!Next]_(Recent!vars)
  <2>0. /\ size \in Nat /\ Capacity \in Nat \ {0} /\ Len(Contents) = size
        /\ MaxAsk \in Nat \ {0}
    BY <1>2, CapacityAssumption, AskAssumption, ContentsType DEF IInv, RingTypeOK
  <2>1. ASSUME NEW p \in Point, AppendPoint(p)
        PROVE  Recent!Push(p)
    BY <1>2, <2>1, AppendContents DEF Recent!Push, AppendPoint
  <2>2. ASSUME NEW n \in 0 .. MaxAsk, UNCHANGED <<buf, head, size>>,
               out' = IF size = 0 THEN <<>> ELSE Scan(IF 0 < n /\ n < size THEN n ELSE size)
        PROVE  Recent!Read(n)
    <3>1. UNCHANGED Contents
      BY <2>2 DEF Contents
    <3>2. CASE size = 0
      <4>1. Recent!Newest(Contents, 0) = <<>>
        BY DEF Recent!Newest
      <4>2. QED
        BY <2>0, <2>2, <3>1, <3>2, <4>1 DEF Recent!Read
    <3>3. CASE size # 0
      BY <1>2, <2>0, <2>2, <3>1, <3>3, ScanNewest DEF Recent!Read
    <3>4. QED
      BY <3>2, <3>3
  <2>3. ASSUME NEW n \in 0 .. MaxAsk, Snapshot(n)
        PROVE  Recent!Read(n)
    BY <2>2, <2>3 DEF Snapshot
  <2>4. ASSUME Last
        PROVE  Recent!Read(1)
    <3>1. out' = IF size = 0 THEN <<>> ELSE Scan(1)
      BY <1>2, <2>4, LastIsScan DEF Last
    <3>2. size # 0 => (IF 0 < 1 /\ 1 < size THEN 1 ELSE size) = 1
      BY <2>0
    <3>3. out' = IF size = 0 THEN <<>> ELSE Scan(IF 0 < 1 /\ 1 < size THEN 1 ELSE size)
      BY <3>1, <3>2
    <3>4. 1 \in 0 .. MaxAsk /\ UNCHANGED <<buf, head, size>>
      BY <2>0, <2>4 DEF Last
    <3>5. QED
      BY <2>2, <3>3, <3>4
  <2>5. ASSUME SummaryStats
        PROVE  Recent!Read(0)
    BY <2>0, <2>2, <2>5 DEF SummaryStats
  <2>6. CASE UNCHANGED ringVars
    BY <2>6 DEF ringVars, Recent!vars, Contents
  <2>7. 0 \in 0 .. MaxAsk /\ 1 \in 0 .. MaxAsk
    BY <2>0
  <2>8. CASE RingNext
    BY <2>1, <2>3, <2>4, <2>5, <2>7, <2>8 DEF RingNext, Recent!Next
  <2>9. QED
    BY <1>2, <2>6, <2>8
<1>3. QED
  BY <1>1, <1>2, InitIInv, NextIInv, PTL DEF RingSpec, RefinesRecent, Recent!Spec

-----------------------------------------------------------------------------
(* The regime memory: the hint.                                            *)

(* The bound on the moving average after k ticks without a reversal: it has  *)
(* lost a factor of 0.85 in each, whatever was rounded down.                 *)
Decayed ==
  /\ cycleScore \in Nat /\ cycleScore <= Unit
  /\ still \in 0 .. 6 /\ count \in Nat
  /\ count < 2 => cycleScore = 0
  /\ still >= 1 => 100 * cycleScore <= 85 * Unit
  /\ still >= 2 => 10000 * cycleScore <= 7225 * Unit
  /\ still >= 3 => 1000000 * cycleScore <= 614125 * Unit
  /\ still >= 4 => 100000000 * cycleScore <= 52200625 * Unit
  /\ still >= 5 => 10000000000 * cycleScore <= 4437053125 * Unit

(* One tick's entry.                                                         *)
LEMMA DecayStep ==
  ASSUME NEW e, Decayed, Add(e), Noting(e) PROVE Decayed'
<1>1. Unit \in Nat \ {0} /\ Size \in Nat \ {0}
  BY MemoryAssumption
<1>2. /\ cycleScore' = CycleAfter(e)
      /\ count' = IF count < Size THEN count + 1 ELSE count
      /\ still' = IF Flip(e) THEN 0 ELSE IF still < 6 THEN still + 1 ELSE 6
  BY DEF Add, Noting
<1>3. CASE Flip(e)
  <2>1. cycleScore' = (85 * cycleScore + 15 * Unit) \div 100
    <3>1. ~(count < 2)
      BY <1>3 DEF Flip, Decayed
    <3> QED BY <1>2, <1>3, <3>1 DEF CycleAfter
  <2>2. still' = 0 /\ count >= 2
    BY <1>2, <1>3 DEF Flip
  <2> QED BY <1>1, <1>2, <2>1, <2>2 DEF Decayed
<1>4. CASE ~Flip(e) /\ count >= 2
  <2>1. cycleScore' = (85 * cycleScore) \div 100
    BY <1>2, <1>4 DEF CycleAfter, Decayed
  <2>2. cycleScore' \in Nat /\ 100 * cycleScore' <= 85 * cycleScore
    BY <2>1 DEF Decayed
  <2>3. still' = IF still < 6 THEN still + 1 ELSE 6
    BY <1>2, <1>4
  <2> QED BY <1>1, <1>2, <1>4, <2>2, <2>3 DEF Decayed
<1>5. CASE ~Flip(e) /\ count < 2
  <2>1. cycleScore' = 0 /\ cycleScore = 0
    BY <1>2, <1>5 DEF CycleAfter, Decayed
  <2>2. still' = IF still < 6 THEN still + 1 ELSE 6
    BY <1>2, <1>5
  <2> QED BY <1>1, <1>2, <2>1, <2>2 DEF Decayed
<1>6. count \in Nat
  BY DEF Decayed
<1> QED BY <1>3, <1>4, <1>5, <1>6

(* After any oscillation, five ticks without a reversal end its hint.        *)
THEOREM HintEnds == HistorySpec => []HintExpires
<1>1. HistoryInit => Decayed
  BY MemoryAssumption DEF HistoryInit, Init, Decayed
<1>2. Decayed /\ [HistoryNext]_historyVars => Decayed'
  <2> SUFFICES ASSUME Decayed, [HistoryNext]_historyVars PROVE Decayed'
    OBVIOUS
  <2>1. ASSUME NEW e \in Entries, NotedAdd(e) PROVE Decayed'
    BY <2>1, DecayStep DEF NotedAdd
  <2>2. CASE NotedRecreate
    BY <2>2, MemoryAssumption DEF NotedRecreate, Recreate, Decayed
  <2>3. CASE UNCHANGED historyVars
    BY <2>3 DEF historyVars, vars, Decayed
  <2> QED BY <2>1, <2>2, <2>3 DEF HistoryNext
<1>3. Decayed => HintExpires
  BY MemoryAssumption DEF Decayed, HintExpires, GetMidRangeCap
<1> QED BY <1>1, <1>2, <1>3, PTL DEF HistorySpec

-----------------------------------------------------------------------------
(* The capacity.                                                           *)

(* m is between capacities of c.                                             *)
Between(m, c) == \E lo, hi \in c : lo * Fine <= m /\ m <= hi * Fine

(* A weighted mean of two values between capacities is between capacities.   *)
LEMMA MeanBetween ==
  ASSUME NEW c \in SUBSET Nat, NEW m \in Nat, NEW n \in Nat, Between(m, c), Between(n, c),
         NEW k \in 0 .. 10
  PROVE  Between((k * m + (10 - k) * n) \div 10, c)
<1> DEFINE r == (k * m + (10 - k) * n) \div 10
<1>1. r \in Nat /\ (m <= n => m <= r /\ r <= n) /\ (n <= m => n <= r /\ r <= m)
  OBVIOUS
<1>2. PICK lm, hm \in c : lm * Fine <= m /\ m <= hm * Fine
  BY DEF Between
<1>3. PICK ln, hn \in c : ln * Fine <= n /\ n <= hn * Fine
  BY DEF Between
<1>4. Fine \in Nat
  BY MemoryAssumption
<1>5. ASSUME NEW x \in c PROVE x * Fine \in Nat
  BY <1>4, <1>5
<1>6. lm * Fine \in Nat /\ hm * Fine \in Nat /\ ln * Fine \in Nat /\ hn * Fine \in Nat
  BY <1>5
<1> HIDE DEF r
<1>7. CASE m <= n
  <2>1. lm * Fine <= r /\ r <= hn * Fine
    BY <1>1, <1>2, <1>3, <1>6, <1>7
  <2> QED BY <2>1 DEF Between, r
<1>8. CASE n <= m
  <2>1. ln * Fine <= r /\ r <= hm * Fine
    BY <1>1, <1>2, <1>3, <1>6, <1>8
  <2> QED BY <2>1 DEF Between, r
<1> QED BY <1>7, <1>8

(* The capacity remembered is between capacities the service has had.        *)
Hull ==
  /\ caps \subseteq Nat /\ midRangeCap \in Nat
  /\ midRangeCap # 0 => Between(midRangeCap, caps)

LEMMA HullStep ==
  ASSUME NEW e \in Entries, Hull, Add(e), Noting(e) PROVE Hull'
<1>1. e.workers \in Nat /\ Fine \in Nat
  BY MemoryAssumption DEF Entry
<1>2. caps' = caps \cup {e.workers} /\ midRangeCap' = MidAfter(e)
  BY DEF Add, Noting
<1>3. caps' \in SUBSET Nat
  BY <1>1, <1>2 DEF Hull
<1>4. e.workers * Fine \in Nat
  BY <1>1
<1>5. Between(e.workers * Fine, caps')
  BY <1>2, <1>4 DEF Between
<1>6. midRangeCap # 0 => Between(midRangeCap, caps')
  BY <1>2 DEF Hull, Between
<1>7. \/ midRangeCap' = midRangeCap
      \/ midRangeCap' = e.workers * Fine
      \/ midRangeCap # 0 /\ midRangeCap' = (9 * midRangeCap + e.workers * Fine) \div 10
  BY <1>2 DEF MidAfter
<1>8. CASE midRangeCap # 0 /\ midRangeCap' = (9 * midRangeCap + e.workers * Fine) \div 10
  <2> DEFINE n == e.workers * Fine
  <2>1. midRangeCap \in Nat
    BY DEF Hull
  <2> HIDE DEF n
  <2>2. n \in Nat /\ Between(n, caps')
    BY <1>4, <1>5 DEF n
  <2>3. Between((9 * midRangeCap + (10 - 9) * n) \div 10, caps')
    BY <1>3, <1>6, <1>8, <2>1, <2>2, MeanBetween
  <2>4. (9 * midRangeCap + (10 - 9) * n) = 9 * midRangeCap + n
    BY <2>1, <2>2
  <2>5. midRangeCap' = (9 * midRangeCap + n) \div 10
    BY <1>8 DEF n
  <2>6. midRangeCap' \in Nat
    BY <2>1, <2>2, <2>5
  <2> QED BY <1>3, <2>3, <2>4, <2>5, <2>6 DEF Hull
<1>9. CASE midRangeCap' = midRangeCap
  BY <1>3, <1>6, <1>9 DEF Hull
<1>10. CASE midRangeCap' = e.workers * Fine
  BY <1>3, <1>4, <1>5, <1>10 DEF Hull
<1> QED BY <1>7, <1>8, <1>9, <1>10

(* Blended twice, the hint never leads the optimiser outside the capacities  *)
(* the service has had.                                                      *)
THEOREM StartBetween == HistorySpec => []StartWithinCaps
<1>1. HistoryInit => Hull
  BY DEF HistoryInit, Init, Hull
<1>2. Hull /\ [HistoryNext]_historyVars => Hull'
  <2> SUFFICES ASSUME Hull, [HistoryNext]_historyVars PROVE Hull'
    OBVIOUS
  <2>1. ASSUME NEW e \in Entries, NotedAdd(e) PROVE Hull'
    BY <2>1, HullStep DEF NotedAdd
  <2>2. CASE NotedRecreate
    BY <2>2 DEF NotedRecreate, Recreate, Hull
  <2>3. CASE UNCHANGED historyVars
    BY <2>3 DEF historyVars, vars, Hull
  <2> QED BY <2>1, <2>2, <2>3 DEF HistoryNext
<1>3. Hull => StartWithinCaps
  <2> SUFFICES ASSUME Hull, NEW w \in caps
               PROVE  \E lo, hi \in caps : lo * Fine <= StartCap(w) /\ StartCap(w) <= hi * Fine
    BY DEF StartWithinCaps
  <2> DEFINE n == w * Fine
  <2>0. w \in Nat /\ Fine \in Nat /\ caps \in SUBSET Nat /\ midRangeCap \in Nat
    BY MemoryAssumption DEF Hull
  <2>1. n \in Nat
    BY <2>0
  <2>2. Between(n, caps)
    BY <2>1 DEF Between
  <2>3. CASE GetMidRangeCap > 0
    <3>1. GetMidRangeCap = midRangeCap /\ midRangeCap # 0
      BY <2>3 DEF GetMidRangeCap
    <3>2. StartCap(w) = (7 * w * Fine + 3 * midRangeCap) \div 10
      BY <2>3, <3>1 DEF StartCap
    <3>3. 7 * w * Fine = 7 * n
      BY <2>0
    <3> HIDE DEF n
    <3>4. Between((7 * n + (10 - 7) * midRangeCap) \div 10, caps)
      BY <2>0, <2>1, <2>2, <3>1, MeanBetween DEF Hull
    <3>5. 7 * n + (10 - 7) * midRangeCap = 7 * w * Fine + 3 * midRangeCap
      BY <2>0, <2>1, <3>3
    <3> QED BY <3>2, <3>4, <3>5 DEF Between
  <2>4. CASE ~(GetMidRangeCap > 0)
    <3>1. StartCap(w) = n
      BY <2>4 DEF StartCap
    <3> QED BY <2>2, <3>1 DEF Between
  <2> QED BY <2>3, <2>4
<1> QED BY <1>1, <1>2, <1>3, PTL DEF HistorySpec

-----------------------------------------------------------------------------
(* The entries.                                                            *)

(* The slot of the i-th entry back, with at most one wrap-around.            *)
Slot(k, i) == IF k - 1 - i >= 0 THEN k - 1 - i ELSE k - 1 - i + Size

LEMMA SlotOf ==
  ASSUME NEW k \in 0 .. Size - 1, NEW i \in 0 .. Size - 1
  PROVE  (k - 1 - i + Size) % Size = Slot(k, i)
BY MemoryAssumption DEF Slot

(* The slot written next, and how entries move away from it.                 *)
LEMMA SlotAfter ==
  ASSUME NEW k \in 0 .. Size - 1, NEW i \in 0 .. Size - 1
  PROVE  /\ (k + 1) % Size \in 0 .. Size - 1
         /\ i = 0 => Slot((k + 1) % Size, i) = k
         /\ i # 0 => /\ Slot((k + 1) % Size, i) = Slot(k, i - 1)
                     /\ Slot(k, i - 1) # k
<1>1. (k + 1) % Size = IF k + 1 = Size THEN 0 ELSE k + 1
  BY MemoryAssumption
<1> QED BY <1>1, MemoryAssumption DEF Slot

(* The history variable after an entry.                                      *)
LEMMA NewestAfter ==
  ASSUME NEW s \in Seq(Entries), NEW e \in Entries, NEW k \in 1 .. Len(s) + 1
  PROVE  LET r == SubSeq(<<e>> \o s, 1, k)
         IN  /\ r \in Seq(Entries) /\ Len(r) = k
             /\ \A i \in 1 .. k : r[i] = IF i = 1 THEN e ELSE s[i - 1]
<1> DEFINE r == SubSeq(<<e>> \o s, 1, k)
<1>1. Len(s) \in Nat
  OBVIOUS
<1>2. /\ <<e>> \o s \in Seq(Entries) /\ Len(<<e>> \o s) = 1 + Len(s)
      /\ \A i \in 1 .. 1 + Len(s) : (<<e>> \o s)[i] = IF i = 1 THEN e ELSE s[i - 1]
  OBVIOUS
<1>3. r \in Seq(Entries) /\ Len(r) = k /\ \A i \in 1 .. k : r[i] = (<<e>> \o s)[i]
  <2>1. k \in Nat /\ k <= Len(<<e>> \o s)
    BY <1>1, <1>2
  <2> QED BY <1>2, <2>1, SubSeqProperties
<1>4. \A i \in 1 .. k : r[i] = IF i = 1 THEN e ELSE s[i - 1]
  BY <1>1, <1>2, <1>3
<1> QED BY <1>3, <1>4

(* The buffer holds the newest entries in their order.                       *)
Reads ==
  /\ index \in 0 .. Size - 1 /\ count \in 0 .. Size
  /\ DOMAIN buffer = 0 .. Size - 1
  /\ newest \in Seq(Entries) /\ count = Len(newest)
  /\ \A i \in 0 .. count - 1 : buffer[Slot(index, i)] = newest[i + 1]

LEMMA ReadsStep ==
  ASSUME NEW e \in Entries, Reads, Add(e), Noting(e) PROVE Reads'
<1>0. Size \in Nat \ {0}
  BY MemoryAssumption
<1>1. /\ buffer' = [buffer EXCEPT ![index] = e]
      /\ index' = (index + 1) % Size
      /\ count' = IF count < Size THEN count + 1 ELSE count
      /\ newest' = SubSeq(<<e>> \o newest, 1, IF count < Size THEN count + 1 ELSE Size)
  BY DEF Add, Noting, Reads
<1>2. count' \in 1 .. count + 1 /\ count' <= Size
      /\ count' = IF count < Size THEN count + 1 ELSE Size
  BY <1>0, <1>1 DEF Reads
<1>3. newest' = SubSeq(<<e>> \o newest, 1, count')
  BY <1>1, <1>2
<1>4. /\ newest' \in Seq(Entries) /\ Len(newest') = count'
      /\ \A i \in 1 .. count' : newest'[i] = IF i = 1 THEN e ELSE newest[i - 1]
  BY <1>2, <1>3, NewestAfter DEF Reads
<1>5. index' \in 0 .. Size - 1
  BY <1>0, <1>1, SlotAfter DEF Reads
<1>6. ASSUME NEW i \in 0 .. count' - 1
      PROVE  buffer'[Slot(index', i)] = newest'[i + 1]
  <2>0. i \in 0 .. Size - 1 /\ index \in 0 .. Size - 1 /\ DOMAIN buffer = 0 .. Size - 1
    BY <1>0, <1>2 DEF Reads
  <2>1. i + 1 \in 1 .. count' /\ i + 1 - 1 = i
    BY <1>2
  <2>2. CASE i = 0
    <3>1. Slot(index', i) = index
      BY <1>1, <2>0, <2>2, SlotAfter
    <3>2. newest'[i + 1] = e
      BY <1>4, <2>1, <2>2
    <3> QED BY <1>1, <2>0, <3>1, <3>2
  <2>3. CASE i # 0
    <3>1. Slot(index', i) = Slot(index, i - 1) /\ Slot(index, i - 1) # index
      BY <1>1, <2>0, <2>3, SlotAfter
    <3>2. newest'[i + 1] = newest[i]
      BY <1>4, <2>0, <2>1, <2>3
    <3>3. i - 1 \in 0 .. count - 1 /\ (i - 1) + 1 = i
      BY <1>2, <2>0, <2>3 DEF Reads
    <3>4. buffer[Slot(index, i - 1)] = newest[i]
      BY <3>3 DEF Reads
    <3>5. Slot(index, i - 1) \in 0 .. Size - 1
      BY <1>0, <2>0, <2>3 DEF Slot
    <3> QED BY <1>1, <2>0, <3>1, <3>2, <3>4, <3>5
  <2> QED BY <2>2, <2>3
<1>7. DOMAIN buffer' = 0 .. Size - 1 /\ count' \in 0 .. Size
  BY <1>0, <1>1, <1>2 DEF Reads
<1> QED BY <1>4, <1>5, <1>6, <1>7 DEF Reads

(* It always does.                                                           *)
LEMMA ReadsAlways == HistorySpec => []Reads
<1>1. ASSUME index' = 0, count' = 0, newest' = <<>>, buffer' = [i \in 0 .. Size - 1 |-> NoEntry]
      PROVE  Reads'
  BY <1>1, MemoryAssumption DEF Reads
<1>2. HistoryInit => Reads
  BY MemoryAssumption DEF HistoryInit, Init, Reads
<1>3. Reads /\ [HistoryNext]_historyVars => Reads'
  <2> SUFFICES ASSUME Reads, [HistoryNext]_historyVars PROVE Reads'
    OBVIOUS
  <2>1. ASSUME NEW e \in Entries, NotedAdd(e) PROVE Reads'
    BY <2>1, ReadsStep DEF NotedAdd
  <2>2. CASE NotedRecreate
    BY <1>1, <2>2 DEF NotedRecreate, Recreate
  <2>3. CASE UNCHANGED historyVars
    BY <2>3 DEF historyVars, vars, Reads, Slot
  <2> QED BY <2>1, <2>2, <2>3 DEF HistoryNext
<1> QED BY <1>2, <1>3, PTL DEF HistorySpec

LEMMA ReadsGet ==
  ASSUME Reads, NEW i \in 0 .. count - 1
  PROVE  get(i) = newest[i + 1] /\ get(i) \in Entries
<1>1. i \in 0 .. Size - 1 /\ index \in 0 .. Size - 1
  BY MemoryAssumption DEF Reads
<1>2. get(i) = buffer[Slot(index, i)]
  BY <1>1, SlotOf DEF get
<1>3. get(i) = newest[i + 1]
  BY <1>2 DEF Reads
<1>4. i + 1 \in 1 .. Len(newest) /\ newest \in Seq(Entries)
  BY DEF Reads
<1>5. newest[i + 1] \in Entries
  BY <1>4
<1> QED BY <1>3, <1>5

(* get(i) is the i-th entry back, for every length and every wrap-around.    *)
THEOREM NewestRead == HistorySpec => []ReadsNewest
<1>1. Reads => ReadsNewest
  BY ReadsGet DEF ReadsNewest, Reads
<1> QED BY <1>1, ReadsAlways, PTL

-----------------------------------------------------------------------------
(* The score of success.                                                   *)

(* No entry in reach is so old that its weight is rounded down to nothing.   *)
LEMMA WeightPositive ==
  ASSUME count \in Nat, NEW i \in 4 .. count - 2
  PROVE  Weight(i) \in Int /\ Weight(i) >= 1
<1> DEFINE x == 2 * Fine * count
           d == 2 * count + 5 * i
<1>1. Fine \in Nat /\ Fine > 3
  BY MemoryAssumption
<1>2. x \in Int /\ x >= 8 * count
  <2>1. Fine * count \in Int /\ Fine * count >= 4 * count
    BY <1>1
  <2>2. x = 2 * (Fine * count)
    BY <1>1
  <2> QED BY <2>1, <2>2
<1>3. d \in Nat \ {0} /\ d <= 7 * count
  OBVIOUS
<1>4. d <= x
  <2> HIDE DEF d, x
  <2> QED BY <1>2, <1>3
<1>5. x \div d \in Int /\ 1 <= x \div d
  <2>1. 1 * d <= x
    BY <1>3, <1>4
  <2> HIDE DEF d, x
  <2> QED BY <1>2, <1>3, <2>1, DivBounds
<1> QED BY <1>5 DEF Weight

(* An action that was followed by a change in its direction counts half at   *)
(* most.                                                                     *)
LEMMA EffectLow ==
  ASSUME NEW i \in Nat, Response(i) \in Int,
         IF get(i).action = "scale_up" THEN Response(i) <= 0 ELSE Response(i) >= 0
  PROVE  Effect(i) \in Int /\ Effect(i) <= Unit \div 2
<1> DEFINE sign == IF get(i).action = "scale_up" THEN 1 ELSE -1
           x == Unit * sign * Response(i)
           d == 40 * Top
<1>1. Unit \in Nat \ {0} /\ Top \in Nat \ {0}
  BY MemoryAssumption
<1>2. d \in Nat \ {0}
  BY <1>1
<1>3. x \in Int /\ x <= 0
  <2>1. CASE get(i).action = "scale_up"
    <3>1. x = Unit * Response(i)
      BY <1>1, <2>1
    <3> QED BY <1>1, <2>1, <3>1
  <2>2. CASE get(i).action # "scale_up"
    <3>1. x = -(Unit * Response(i))
      BY <1>1, <2>2
    <3>2. Unit * Response(i) \in Nat
      BY <1>1, <2>2
    <3> QED BY <3>1, <3>2
  <2> QED BY <2>1, <2>2
<1>4. x \div d \in Int /\ x \div d <= 0
  <2>1. x <= 0 * d
    BY <1>2, <1>3
  <2> HIDE DEF x, d
  <2> QED BY <1>2, <1>3, <2>1, DivBounds
<1>5. Effect(i) = (Unit + x \div d) \div 2
  BY DEF Effect
<1> QED
  <2> HIDE DEF x, d
  <2> QED BY <1>1, <1>4, <1>5

(* What GetEffectiveness makes of actions that work: at most neutral, where  *)
(* a history without any action scores full.                                 *)
SuccessScoresLow ==
  LET acted == {i \in 4 .. count - 2 : get(i).action # "hold"}
      worked == \A i \in acted : IF get(i).action = "scale_up" THEN Response(i) <= 0 ELSE Response(i) >= 0
  IN  count >= 6 /\ worked => (IF acted = {} THEN GetEffectiveness = Unit
                               ELSE 2 * GetEffectiveness <= Unit)

(* Every success lowers the score: weighted in whatever way, successful      *)
(* actions are credited with half at most.                                   *)
THEOREM SuccessLow == HistorySpec => []SuccessScoresLow
<1>1. Reads => SuccessScoresLow
  <2> DEFINE acted == {i \in 4 .. count - 2 : get(i).action # "hold"}
             worked == \A i \in acted : IF get(i).action = "scale_up" THEN Response(i) <= 0
                                        ELSE Response(i) >= 0
  <2> SUFFICES ASSUME Reads, count >= 6, worked
               PROVE  IF acted = {} THEN GetEffectiveness = Unit ELSE 2 * GetEffectiveness <= Unit
    BY DEF SuccessScoresLow
  <2>0. count \in Nat /\ Unit \in Nat \ {0} /\ Unit % 2 = 0
    <3>1. Unit \in Nat \ {0} /\ Unit % 100 = 0
      BY MemoryAssumption
    <3>2. Unit % 2 = 0
      BY <3>1
    <3> QED BY <3>1, <3>2, MemoryAssumption DEF Reads
  <2>1. CASE acted = {}
    BY <2>0, <2>1 DEF GetEffectiveness
  <2>2. CASE acted # {}
    <3> DEFINE v == [i \in acted |-> Weight(i) * Effect(i)]
               w == [i \in acted |-> Weight(i)]
               h == Unit \div 2
               V == SumFunctionOnSet(v, acted)
               W == SumFunctionOnSet(w, acted)
    <3>1. IsFiniteSet(acted)
      <4>1. IsFiniteSet(4 .. count - 2) /\ acted \subseteq 4 .. count - 2
        BY <2>0, FS_Interval
      <4> HIDE DEF acted
      <4> QED BY <4>1, FS_Subset
    <3>2. ASSUME NEW i \in acted
          PROVE  /\ w[i] \in Int /\ w[i] >= 1
                 /\ v[i] \in Int /\ v[i] <= h * w[i]
      <4>1. Weight(i) \in Int /\ Weight(i) >= 1
        BY <2>0, WeightPositive
      <4>2. get(i).inst \in Int /\ get(i).back \in Int /\ get(i - 4).inst \in Int /\ get(i - 4).back \in Int
        <5>1. \A j \in 0 .. count - 1 : get(j) \in Entry
          BY ReadsGet, MemoryAssumption
        <5>2. i \in 0 .. count - 1 /\ i - 4 \in 0 .. count - 1
          BY <2>0
        <5> QED BY <5>1, <5>2, MemoryAssumption DEF Entry
      <4>3. Response(i) \in Int
        BY <4>2 DEF Response
      <4>4. Effect(i) \in Int /\ Effect(i) <= h
        BY <4>3, EffectLow
      <4>5. h \in Int
        BY <2>0
      <4>6. Weight(i) * Effect(i) \in Int /\ Weight(i) * Effect(i) <= h * Weight(i)
        <5> HIDE DEF h
        <5> QED BY <4>1, <4>4, <4>5
      <4> QED BY <4>1, <4>6
    <3>3. h \in Int /\ 2 * h = Unit
      BY <2>0
    <3>4. V <= h * W /\ V \in Int /\ W \in Int /\ W >= 1
      <4> HIDE DEF v, w, h, acted
      <4>1. V <= h * W
        BY <3>1, <3>2, <3>3, SumCompare
      <4>2. V \in Int
        BY <3>1, <3>2, SumInt
      <4>3. \A i \in acted : w[i] \in Nat
        BY <3>2
      <4>4. W \in Nat /\ \A i \in acted : w[i] <= W
        BY <3>1, <4>3, SumNat
      <4>5. PICK i \in acted : TRUE
        BY <2>2
      <4> QED BY <3>2, <4>1, <4>2, <4>4, <4>5
    <3>5. V \div W \in Int /\ V \div W <= h
      <4> HIDE DEF V, W, h
      <4> QED BY <3>3, <3>4, DivBounds
    <3>6. Weighted(acted, Effect) = V /\ Weights(acted) = W
      BY DEF Weighted, Weights, SumFunction
    <3>7. GetEffectiveness = Clamp(V \div W)
      <4> HIDE DEF V, W
      <4> QED BY <2>0, <2>2, <3>6 DEF GetEffectiveness
    <3> QED
      <4> HIDE DEF V, W, h
      <4> QED BY <2>0, <2>2, <3>3, <3>5, <3>7 DEF Clamp
  <2> QED BY <2>1, <2>2
<1> QED BY <1>1, ReadsAlways, PTL

-----------------------------------------------------------------------------
(* The two detectors of oscillation.                                       *)

(* The entry k ticks back reversed the one before it.                        *)
Reversed(k) ==
  /\ k + 2 <= Len(newest)
  /\ newest[k + 1].action # newest[k + 2].action
  /\ newest[k + 1].action # "hold" /\ newest[k + 2].action # "hold"

Quiet(m) == \A k \in 0 .. m - 1 : ~Reversed(k)

(* A score of at most m thousandths.                                         *)
AtMost(c, m) == 1000 * c <= m * Unit

(* The moving average after m ticks without a reversal, and after one that   *)
(* reverses where there was none in the seven before; and what few entries   *)
(* can bring it to.                                                          *)
Waning ==
  /\ Reads
  /\ cycleScore \in Nat /\ AtMost(cycleScore, 1000)
  /\ Quiet(1) => AtMost(cycleScore, 850)
  /\ Quiet(2) => AtMost(cycleScore, 723)
  /\ Quiet(3) => AtMost(cycleScore, 615)
  /\ Quiet(4) => AtMost(cycleScore, 523)
  /\ Quiet(5) => AtMost(cycleScore, 445)
  /\ Quiet(6) => AtMost(cycleScore, 379)
  /\ Quiet(7) => AtMost(cycleScore, 323)
  /\ (\A k \in 1 .. 7 : ~Reversed(k)) => AtMost(cycleScore, 425)
  /\ count <= 2 => cycleScore = 0
  /\ count <= 3 => AtMost(cycleScore, 150)
  /\ count <= 4 => AtMost(cycleScore, 278)
  /\ count <= 5 => AtMost(cycleScore, 387)

(* A moving average that takes 15 in 100 of nothing, or of Unit.             *)
LEMMA Decay ==
  ASSUME NEW e, NEW c \in Nat, c = cycleScore, AtMost(c, 1000), count \in Nat, count < 2 => c = 0,
         NEW d, d = CycleAfter(e)
  PROVE  /\ d \in Nat /\ AtMost(d, 1000)
         /\ count < 2 => d = 0
         /\ ~Flip(e) => AtMost(d, 850)
         /\ ~Flip(e) /\ AtMost(c, 850) => AtMost(d, 723)
         /\ ~Flip(e) /\ AtMost(c, 723) => AtMost(d, 615)
         /\ ~Flip(e) /\ AtMost(c, 615) => AtMost(d, 523)
         /\ ~Flip(e) /\ AtMost(c, 523) => AtMost(d, 445)
         /\ ~Flip(e) /\ AtMost(c, 445) => AtMost(d, 379)
         /\ ~Flip(e) /\ AtMost(c, 379) => AtMost(d, 323)
         /\ AtMost(c, 323) => AtMost(d, 425)
         /\ c = 0 => AtMost(d, 150)
         /\ AtMost(c, 150) => AtMost(d, 278)
         /\ AtMost(c, 278) => AtMost(d, 387)
<1>1. Unit \in Nat
  BY MemoryAssumption
<1>2. /\ d \in Nat
      /\ 100 * d <= 85 * c + 15 * Unit
      /\ ~Flip(e) => 100 * d <= 85 * c
      /\ count < 2 => d = 0
  <2>1. CASE count < 2
    BY <1>1, <2>1 DEF CycleAfter
  <2>2. CASE count >= 2 /\ Flip(e)
    BY <1>1, <2>2 DEF CycleAfter
  <2>3. CASE count >= 2 /\ ~Flip(e)
    BY <1>1, <2>3 DEF CycleAfter
  <2> QED BY <2>1, <2>2, <2>3
<1>3. 1000 * c <= 1000 * Unit
  BY DEF AtMost
<1>4. /\ AtMost(d, 1000)
      /\ AtMost(c, 323) => AtMost(d, 425)
      /\ c = 0 => AtMost(d, 150)
      /\ AtMost(c, 150) => AtMost(d, 278)
      /\ AtMost(c, 278) => AtMost(d, 387)
  BY <1>1, <1>2, <1>3 DEF AtMost
<1>5. ASSUME ~Flip(e)
      PROVE  /\ AtMost(d, 850)
             /\ AtMost(c, 850) => AtMost(d, 723)
             /\ AtMost(c, 723) => AtMost(d, 615)
             /\ AtMost(c, 615) => AtMost(d, 523)
             /\ AtMost(c, 523) => AtMost(d, 445)
             /\ AtMost(c, 445) => AtMost(d, 379)
             /\ AtMost(c, 379) => AtMost(d, 323)
  BY <1>1, <1>2, <1>3, <1>5 DEF AtMost
<1> QED BY <1>2, <1>4, <1>5

LEMMA NewestStep ==
  ASSUME NEW e \in Entries, Reads, Add(e), Noting(e)
  PROVE  /\ count' = (IF count < Size THEN count + 1 ELSE Size)
         /\ Len(newest') = count' /\ newest'[1] = e
         /\ \A i \in 2 .. count' : newest'[i] = newest[i - 1]
<1>1. Size \in Nat \ {0} /\ count \in 0 .. Size /\ newest \in Seq(Entries) /\ count = Len(newest)
  BY MemoryAssumption DEF Reads
<1>2. /\ count' = IF count < Size THEN count + 1 ELSE Size
      /\ newest' = SubSeq(<<e>> \o newest, 1, count')
  BY <1>1 DEF Add, Noting
<1>3. count' \in 1 .. Len(newest) + 1
  BY <1>1, <1>2
<1>4. Len(newest') = count' /\ \A i \in 1 .. count' : newest'[i] = IF i = 1 THEN e ELSE newest[i - 1]
  BY <1>1, <1>2, <1>3, NewestAfter
<1> QED BY <1>2, <1>3, <1>4

LEMMA WaningStep ==
  ASSUME NEW e \in Entries, Waning, Add(e), Noting(e) PROVE Waning'
<1>1. Unit \in Nat \ {0} /\ Size \in Nat /\ Size >= 9
  BY MemoryAssumption, ScaleAssumption
<1>2. Reads /\ Reads' /\ count \in 0 .. Size
  BY ReadsStep DEF Waning, Reads
<1>3. /\ count' = (IF count < Size THEN count + 1 ELSE Size)
      /\ Len(newest') = count' /\ newest'[1] = e
      /\ \A i \in 2 .. count' : newest'[i] = newest[i - 1]
  BY <1>2, NewestStep
<1>4. Flip(e) => Reversed(0)'
  <2> SUFFICES ASSUME Flip(e) PROVE Reversed(0)'
    OBVIOUS
  <2>1. count >= 2 /\ get(0) = newest[1]
    BY <1>2, ReadsGet DEF Flip
  <2>2. 2 <= count' /\ newest'[2] = newest[1]
    BY <1>1, <1>2, <1>3, <2>1
  <2> QED BY <1>3, <2>1, <2>2 DEF Flip, Reversed
<1>5. ASSUME NEW k \in 1 .. 7, Reversed(k - 1) PROVE Reversed(k)'
  <2>1. k + 1 <= count /\ (k - 1) + 1 = k /\ (k - 1) + 2 = k + 1
    BY <1>2, <1>5 DEF Reversed, Reads
  <2>2. k + 2 <= count' /\ k + 1 \in 2 .. count' /\ k + 2 \in 2 .. count'
    BY <1>1, <1>2, <1>3, <2>1
  <2>3. newest'[k + 1] = newest[k] /\ newest'[k + 2] = newest[k + 1]
    <3>1. newest'[k + 1] = newest[(k + 1) - 1] /\ newest'[k + 2] = newest[(k + 2) - 1]
      BY <1>3, <2>2
    <3>2. (k + 1) - 1 = k /\ (k + 2) - 1 = k + 1
      OBVIOUS
    <3> QED BY <3>1, <3>2
  <2> QED BY <1>3, <1>5, <2>1, <2>2, <2>3 DEF Reversed
<1>6. ASSUME NEW m \in 0 .. 6, Quiet(m + 1)' PROVE ~Flip(e) /\ Quiet(m)
  <2>1. \A k \in 0 .. m : ~Reversed(k)'
    BY <1>6 DEF Quiet
  <2>2. ASSUME NEW k \in 0 .. m - 1, Reversed(k) PROVE FALSE
    <3>1. k + 1 \in 1 .. 7 /\ (k + 1) - 1 = k /\ k + 1 \in 0 .. m
      OBVIOUS
    <3>2. Reversed(k + 1)'
      BY <1>5, <2>2, <3>1
    <3> QED BY <2>1, <3>1, <3>2
  <2>3. 0 \in 0 .. m
    OBVIOUS
  <2> QED BY <1>4, <2>1, <2>2, <2>3 DEF Quiet
<1>7. ASSUME \A k \in 1 .. 7 : ~Reversed(k)' PROVE Quiet(7)
  <2> SUFFICES ASSUME NEW k \in 0 .. 6, Reversed(k) PROVE FALSE
    BY DEF Quiet
  <2>1. k + 1 \in 1 .. 7 /\ (k + 1) - 1 = k
    OBVIOUS
  <2> QED BY <1>5, <1>7, <2>1
<1>8. cycleScore' = CycleAfter(e) /\ cycleScore \in Nat /\ AtMost(cycleScore, 1000)
  BY DEF Add, Waning
<1>9. count < 2 => cycleScore = 0
  BY <1>2 DEF Waning
<1>10. /\ Quiet(1)' => ~Flip(e)
       /\ Quiet(2)' => ~Flip(e) /\ Quiet(1)
       /\ Quiet(3)' => ~Flip(e) /\ Quiet(2)
       /\ Quiet(4)' => ~Flip(e) /\ Quiet(3)
       /\ Quiet(5)' => ~Flip(e) /\ Quiet(4)
       /\ Quiet(6)' => ~Flip(e) /\ Quiet(5)
       /\ Quiet(7)' => ~Flip(e) /\ Quiet(6)
  <2>1. Quiet(1)' => ~Flip(e) /\ Quiet(0)
    <3>1. Quiet(0 + 1)' => ~Flip(e) /\ Quiet(0)
      BY <1>6
    <3> QED BY <3>1
  <2>2. Quiet(2)' => ~Flip(e) /\ Quiet(1)
    <3>1. Quiet(1 + 1)' => ~Flip(e) /\ Quiet(1)
      BY <1>6
    <3> QED BY <3>1
  <2>3. Quiet(3)' => ~Flip(e) /\ Quiet(2)
    <3>1. Quiet(2 + 1)' => ~Flip(e) /\ Quiet(2)
      BY <1>6
    <3> QED BY <3>1
  <2>4. Quiet(4)' => ~Flip(e) /\ Quiet(3)
    <3>1. Quiet(3 + 1)' => ~Flip(e) /\ Quiet(3)
      BY <1>6
    <3> QED BY <3>1
  <2>5. Quiet(5)' => ~Flip(e) /\ Quiet(4)
    <3>1. Quiet(4 + 1)' => ~Flip(e) /\ Quiet(4)
      BY <1>6
    <3> QED BY <3>1
  <2>6. Quiet(6)' => ~Flip(e) /\ Quiet(5)
    <3>1. Quiet(5 + 1)' => ~Flip(e) /\ Quiet(5)
      BY <1>6
    <3> QED BY <3>1
  <2>7. Quiet(7)' => ~Flip(e) /\ Quiet(6)
    <3>1. Quiet(6 + 1)' => ~Flip(e) /\ Quiet(6)
      BY <1>6
    <3> QED BY <3>1
  <2> QED BY <2>1, <2>2, <2>3, <2>4, <2>5, <2>6, <2>7
<1>11. /\ count' <= 2 => count < 2
       /\ count' <= 3 => count <= 2
       /\ count' <= 4 => count <= 3
       /\ count' <= 5 => count <= 4
  BY <1>1, <1>2, <1>3
<1>12. /\ Quiet(1)' => AtMost(cycleScore', 850)
       /\ Quiet(2)' => AtMost(cycleScore', 723)
       /\ Quiet(3)' => AtMost(cycleScore', 615)
       /\ Quiet(4)' => AtMost(cycleScore', 523)
       /\ Quiet(5)' => AtMost(cycleScore', 445)
       /\ Quiet(6)' => AtMost(cycleScore', 379)
       /\ Quiet(7)' => AtMost(cycleScore', 323)
  BY <1>2, <1>8, <1>9, <1>10, Decay DEF Waning
<1>13. (\A k \in 1 .. 7 : ~Reversed(k)') => AtMost(cycleScore', 425)
  BY <1>2, <1>7, <1>8, <1>9, Decay DEF Waning
<1>14. /\ cycleScore' \in Nat /\ AtMost(cycleScore', 1000)
       /\ count' <= 2 => cycleScore' = 0
       /\ count' <= 3 => AtMost(cycleScore', 150)
       /\ count' <= 4 => AtMost(cycleScore', 278)
       /\ count' <= 5 => AtMost(cycleScore', 387)
  BY <1>2, <1>8, <1>9, <1>11, Decay DEF Waning
<1> QED BY <1>2, <1>12, <1>13, <1>14 DEF Waning

(* The weights of the entries in reach.                                      *)
LEMMA WeightBetween ==
  ASSUME count \in Nat, NEW i \in 0 .. count - 1
  PROVE  Weight(i) \in Nat /\ Weight(i) <= Fine /\ Fine <= 7 * Weight(i)
<1> DEFINE x == 2 * Fine * count
           d == 2 * count + 5 * i
           q == x \div d
<1>1. Fine \in Nat /\ Fine >= 7 /\ count \in Nat \ {0}
  BY MemoryAssumption, ScaleAssumption
<1>2. x \in Nat /\ d \in Nat \ {0}
  <2>1. Fine * count \in Nat /\ x = 2 * (Fine * count)
    BY <1>1
  <2> QED BY <1>1, <2>1
<1>3. q \in Int /\ d * q <= x /\ x < d * q + d
  <2> HIDE DEF x, d
  <2> QED BY <1>2
<1>4. q <= Fine
  <2>1. x <= Fine * d
    <3>1. Fine * d = 2 * (Fine * count) + 5 * (Fine * i) /\ Fine * i \in Nat /\ Fine * count \in Nat
      BY <1>1
    <3> QED BY <1>1, <3>1
  <2> HIDE DEF x, d
  <2> QED BY <1>1, <1>2, <2>1, DivBounds
<1>5. 2 * Fine < 7 * q + 7
  <2>1. SUFFICES ASSUME 7 * q + 7 <= 2 * Fine PROVE FALSE
    BY <1>1, <1>3
  <2>2. q + 1 \in Int /\ 7 * (q + 1) <= 2 * Fine
    BY <1>3, <2>1
  <2>3. x < d * (q + 1)
    <3> HIDE DEF x, d, q
    <3> QED BY <1>2, <1>3
  <2>4. 7 * x < d * (7 * (q + 1))
    <3> HIDE DEF x, d, q
    <3>1. d * (7 * (q + 1)) = 7 * (d * (q + 1)) /\ d * (q + 1) \in Int
      BY <1>2, <1>3
    <3> QED BY <1>2, <2>3, <3>1
  <2>5. d * (7 * (q + 1)) <= d * (2 * Fine)
    <3> HIDE DEF d, q
    <3> QED BY <1>1, <1>2, <1>3, <2>2
  <2>6. d * (2 * Fine) <= 7 * x
    <3>1. d * (2 * Fine) = 4 * (Fine * count) + 10 * (Fine * i) /\ 7 * x = 14 * (Fine * count)
          /\ Fine * i \in Nat /\ Fine * count \in Nat
      BY <1>1
    <3>2. Fine * i <= Fine * count
      BY <1>1
    <3> QED BY <3>1, <3>2
  <2>7. 7 * x \in Int /\ d * (7 * (q + 1)) \in Int /\ d * (2 * Fine) \in Int
    <3> HIDE DEF x, d, q
    <3> QED BY <1>1, <1>2, <1>3
  <2> HIDE DEF x, d, q
  <2> QED BY <2>4, <2>5, <2>6, <2>7
<1>6. Weight(i) = q
  BY DEF Weight
<1> HIDE DEF q
<1> QED BY <1>1, <1>3, <1>4, <1>5, <1>6

(* A sum of weights times naturals.                                          *)
LEMMA WeightsNat ==
  ASSUME count \in Nat, NEW S \in SUBSET (0 .. count - 1)
  PROVE  Weights(S) \in Nat /\ \A i \in S : Weight(i) <= Weights(S)
<1> DEFINE w == [i \in S |-> Weight(i)]
<1>1. IsFiniteSet(S)
  <2>1. IsFiniteSet(0 .. count - 1)
    BY FS_Interval
  <2> QED BY <2>1, FS_Subset
<1>2. \A i \in S : w[i] = Weight(i) /\ w[i] \in Nat
  BY WeightBetween
<1>3. Weights(S) = SumFunctionOnSet(w, S)
  BY DEF Weights, SumFunction
<1> HIDE DEF w
<1> QED BY <1>1, <1>2, <1>3, SumNat

(* While the hint is offered, an action in reach of the scan differs from    *)
(* the one before it.                                                        *)
LEMMA FlipInReach ==
  ASSUME Waning, GetMidRangeCap > 0
  PROVE  count >= 6 /\ \E i \in 2 .. count - 1 : get(i - 1).action # get(i).action
<1>1. Unit \in Nat \ {0} /\ count \in Nat /\ count = Len(newest) /\ cycleScore \in Nat
  BY MemoryAssumption DEF Waning, Reads
<1>2. ~(100 * cycleScore < 45 * Unit)
  BY DEF GetMidRangeCap
<1>3. ~AtMost(cycleScore, 425) /\ ~AtMost(cycleScore, 387)
  BY <1>1, <1>2 DEF AtMost
<1>4. count >= 6
  BY <1>1, <1>3 DEF Waning
<1>5. PICK k \in 1 .. 7 : Reversed(k)
  BY <1>3 DEF Waning
<1>6. k + 2 <= count /\ newest[k + 1].action # newest[k + 2].action
  BY <1>1, <1>5 DEF Reversed
<1>7. k \in 0 .. count - 1 /\ k + 1 \in 0 .. count - 1 /\ k + 1 \in 2 .. count - 1
      /\ (k + 1) - 1 = k /\ (k + 1) + 1 = k + 2
  BY <1>1, <1>6
<1>8. get(k) = newest[k + 1] /\ get(k + 1) = newest[k + 2]
  <2>1. get(k) = newest[k + 1] /\ get(k + 1) = newest[(k + 1) + 1]
    BY <1>7, ReadsGet DEF Waning
  <2> QED BY <1>7, <2>1
<1>9. get((k + 1) - 1).action # get(k + 1).action
  BY <1>6, <1>7, <1>8
<1> QED BY <1>4, <1>7, <1>9

(* A change of action among the flips is a tenth of the score at least.      *)
LEMMA FlipCounts ==
  ASSUME count \in 6 .. Size, NEW F \in SUBSET (2 .. count - 1), NEW i \in F
  PROVE  /\ Weights(2 .. count - 1) \in Nat \ {0}
         /\ (2 * Unit * Weights(F)) \div Weights(2 .. count - 1) >= 10
<1> DEFINE S == 2 .. count - 1
           w == [j \in S |-> Weight(j)]
           W == Weights(S)
           V == Weights(F)
           g == Weight(i)
<1>1. /\ Unit \in Nat \ {0} /\ Size \in Nat \ {0} /\ Fine \in Nat \ {0} /\ count \in Nat
      /\ Unit >= 35 * Size
  BY MemoryAssumption, ScaleAssumption
<1>2. S \in SUBSET (0 .. count - 1) /\ F \in SUBSET (0 .. count - 1) /\ i \in S /\ i \in 0 .. count - 1
  BY <1>1
<1>3. W \in Nat /\ V \in Nat /\ g <= W /\ g <= V
  BY <1>1, <1>2, WeightsNat
<1>4. g \in Nat /\ Fine <= 7 * g
  BY <1>1, <1>2, WeightBetween
<1>5. W <= Fine * Cardinality(S)
  <2>1. IsFiniteSet(S)
    BY FS_Interval
  <2>2. \A j \in S : w[j] \in Int /\ w[j] <= Fine
    BY <1>1, <1>2, WeightBetween
  <2>3. W = SumFunctionOnSet(w, S)
    BY DEF Weights, SumFunction
  <2> HIDE DEF S, w, W
  <2> QED BY <1>1, <2>1, <2>2, <2>3, SumBound
<1>6. Cardinality(S) \in Nat /\ Cardinality(S) <= Size
  <2>1. 2 \in Int /\ count - 1 \in Int /\ count >= 6 /\ count <= Size
    BY <1>1
  <2>2. Cardinality(2 .. count - 1) = IF 2 > count - 1 THEN 0 ELSE (count - 1) - 2 + 1
    BY <2>1, FS_Interval
  <2> QED BY <1>1, <2>1, <2>2
<1>7. W # 0
  <2> HIDE DEF W, g
  <2> QED BY <1>1, <1>3, <1>4
<1>8. 10 * W <= 2 * Unit * V
  <2> DEFINE c == Cardinality(S)
  <2> HIDE DEF W, V, g, c
  <2>1. c \in Nat /\ c <= Size /\ W <= Fine * c
    BY <1>5, <1>6 DEF c
  <2>2. Fine * c <= Fine * Size
    BY <1>1, <2>1
  <2>3. Fine * Size <= (7 * g) * Size
    BY <1>1, <1>4
  <2>4. (7 * g) * Size = 7 * (Size * g) /\ Size * g \in Nat
    BY <1>1, <1>4
  <2>5. (35 * Size) * g <= Unit * g
    BY <1>1, <1>4
  <2>6. Unit * g <= Unit * V
    BY <1>1, <1>3, <1>4
  <2>7. (35 * Size) * g = 35 * (Size * g)
    BY <1>1, <1>4
  <2>8. Fine * c \in Nat /\ Fine * Size \in Nat /\ Unit * g \in Nat /\ Unit * V \in Nat
    BY <1>1, <1>3, <1>4, <2>1
  <2>9. 2 * Unit * V = 2 * (Unit * V)
    BY <1>1, <1>3
  <2>10. W <= 7 * (Size * g)
    BY <1>3, <2>1, <2>2, <2>3, <2>4, <2>8
  <2>11. 35 * (Size * g) <= Unit * V
    BY <2>4, <2>5, <2>6, <2>7, <2>8
  <2> DEFINE m == Size * g
             x == Unit * V
  <2>12. m \in Nat /\ x \in Nat /\ W <= 7 * m /\ 35 * m <= x
    BY <2>4, <2>8, <2>10, <2>11
  <2> HIDE DEF m, x
  <2>13. 10 * W <= 2 * x
    BY <1>3, <2>12
  <2> QED BY <2>9, <2>13 DEF x
<1>9. 2 * Unit * V \in Int
  <2> HIDE DEF V
  <2> QED BY <1>1, <1>3
<1> HIDE DEF W, V
<1>10. (2 * Unit * V) \div W >= 10
  BY <1>3, <1>7, <1>8, <1>9, DivBounds
<1> QED BY <1>3, <1>7, <1>10 DEF W, V

(* A quotient of naturals is a natural.                                      *)
LEMMA DivNat ==
  ASSUME NEW x \in Nat, NEW d \in Nat \ {0} PROVE x \div d \in Nat
<1>1. 0 * d <= x
  OBVIOUS
<1> QED BY <1>1, DivBounds

LEMMA ScorePositive ==
  ASSUME Reads, count >= 6, NEW i \in 2 .. count - 1, get(i - 1).action # get(i).action
  PROVE  GetOscillationScore > 0
<1> DEFINE S == 2 .. count - 1
           cross == {j \in S : (get(j - 1).inst - get(j).inst) * (get(j - 2).inst - get(j - 1).inst) < 0}
           flips == {j \in S : get(j - 1).action # get(j).action}
           total == SumFunction([j \in 0 .. count - 1 |-> get(j).inst])
           sq(j) == (count * get(j - 1).inst - total) * (count * get(j - 1).inst - total)
           spread == Weighted(S, sq)
           one == Fine * count * count * Top * Top
           A == (4 * Unit * Weights(cross)) \div Weights(S)
           B == (4 * Unit * spread) \div (spread + one)
           C == (2 * Unit * Weights(flips)) \div Weights(S)
<1>1. /\ Unit \in Nat \ {0} /\ Fine \in Nat \ {0} /\ Top \in Nat \ {0} /\ Size \in Nat
      /\ count \in 6 .. Size /\ count \in Nat \ {0}
  BY MemoryAssumption DEF Reads
<1>2. S \in SUBSET (0 .. count - 1) /\ cross \in SUBSET (0 .. count - 1) /\ flips \in SUBSET S
  BY <1>1
<1>3. Weights(S) \in Nat \ {0} /\ C >= 10 /\ C \in Int
  <2>1. i \in flips
    OBVIOUS
  <2>2. Weights(S) \in Nat \ {0} /\ C >= 10
    <3> HIDE DEF flips
    <3> QED BY <1>1, <1>2, <2>1, FlipCounts
  <2>3. Weights(flips) \in Nat
    <3>1. flips \in SUBSET (0 .. count - 1)
      BY <1>2
    <3> QED BY <1>1, <3>1, WeightsNat
  <2>4. 2 * Unit * Weights(flips) \in Int
    <3> HIDE DEF flips
    <3> QED BY <1>1, <2>3
  <2> HIDE DEF flips, S
  <2> QED BY <2>2, <2>4, DivBounds
<1>4. A \in Nat
  <2>1. Weights(cross) \in Nat
    BY <1>1, <1>2, WeightsNat
  <2> HIDE DEF cross, S
  <2>2. 4 * Unit * Weights(cross) \in Nat
    BY <1>1, <2>1
  <2> QED BY <1>3, <2>2, DivNat
<1>5. B \in Nat
  <2>1. \A j \in 0 .. count - 1 : get(j).inst \in Nat
    BY MemoryAssumption, ReadsGet DEF Entry
  <2>2. total \in Nat
    <3> DEFINE h == [j \in 0 .. count - 1 |-> get(j).inst]
               R == 0 .. count - 1
    <3>1. IsFiniteSet(R)
      BY <1>1, FS_Interval
    <3>2. \A j \in R : h[j] \in Nat
      BY <2>1
    <3>3. total = SumFunctionOnSet(h, R)
      BY DEF SumFunction
    <3> HIDE DEF h, R, total
    <3> QED BY <3>1, <3>2, <3>3, SumNat
  <2>3. spread \in Nat
    <3> DEFINE h == [j \in S |-> Weight(j) * sq(j)]
    <3>1. IsFiniteSet(S)
      BY <1>1, FS_Interval
    <3>2. ASSUME NEW j \in S PROVE h[j] \in Nat
      <4>1. j - 1 \in 0 .. count - 1 /\ j \in 0 .. count - 1
        BY <1>1
      <4>2. Weight(j) \in Nat
        BY <1>1, <4>1, WeightBetween
      <4>3. count * get(j - 1).inst - total \in Int
        <5> HIDE DEF total
        <5> QED BY <1>1, <2>1, <2>2, <4>1
      <4>4. \A z \in Int : z * z \in Nat
        OBVIOUS
      <4>5. sq(j) \in Nat
        <5> HIDE DEF total
        <5> QED BY <4>3, <4>4
      <4>6. Weight(j) * sq(j) \in Nat
        <5> HIDE DEF sq
        <5> QED BY <4>2, <4>5
      <4> QED BY <4>6
    <3>3. spread = SumFunctionOnSet(h, S)
      BY DEF Weighted, SumFunction
    <3> HIDE DEF h, S, spread
    <3> QED BY <3>1, <3>2, <3>3, SumNat
  <2>4. one \in Nat \ {0}
    <3>1. \A a, b \in Nat \ {0} : a * b \in Nat \ {0}
      OBVIOUS
    <3>2. Fine * count \in Nat \ {0}
      BY <1>1, <3>1
    <3>3. Fine * count * count \in Nat \ {0}
      BY <1>1, <3>1, <3>2
    <3>4. Fine * count * count * Top \in Nat \ {0}
      BY <1>1, <3>1, <3>3
    <3> QED BY <1>1, <3>1, <3>4
  <2> HIDE DEF spread, one
  <2>5. 4 * Unit * spread \in Nat /\ spread + one \in Nat \ {0}
    BY <1>1, <2>3, <2>4
  <2> QED BY <2>5, DivNat
<1>6. GetOscillationScore = Clamp((A + B + C) \div 10)
  BY <1>1 DEF GetOscillationScore, Weighted
<1> HIDE DEF A, B, C
<1>7. (A + B + C) \div 10 \in Int /\ (A + B + C) \div 10 >= 1
  <2>1. A + B + C \in Int /\ 1 * 10 <= A + B + C
    BY <1>3, <1>4, <1>5
  <2> QED BY <2>1, DivBounds
<1> QED BY <1>1, <1>6, <1>7 DEF Clamp

(* While the oscillation hint is offered, the oscillation score is above     *)
(* zero, for every history of any length.                                    *)
THEOREM DetectorsConsistent == HistorySpec => []DetectorsAgree
<1>1. HistoryInit => Waning
  <2> SUFFICES ASSUME HistoryInit PROVE Waning
    OBVIOUS
  <2>1. Reads /\ count = 0 /\ cycleScore = 0 /\ Unit \in Nat
    BY MemoryAssumption DEF HistoryInit, Init, Reads
  <2>2. \A m \in Nat : AtMost(0, m)
    BY <2>1 DEF AtMost
  <2> QED BY <2>1, <2>2 DEF Waning
<1>2. Waning /\ [HistoryNext]_historyVars => Waning'
  <2> SUFFICES ASSUME Waning, [HistoryNext]_historyVars PROVE Waning'
    OBVIOUS
  <2>1. ASSUME NEW e \in Entries, NotedAdd(e) PROVE Waning'
    BY <2>1, WaningStep DEF NotedAdd
  <2>2. CASE NotedRecreate
    <3>1. Reads' /\ count' = 0 /\ cycleScore' = 0 /\ Unit \in Nat
      BY <2>2, MemoryAssumption DEF NotedRecreate, Recreate, Reads
    <3>2. \A m \in Nat : AtMost(0, m)
      BY <3>1 DEF AtMost
    <3> QED BY <3>1, <3>2 DEF Waning
  <2>3. CASE UNCHANGED historyVars
    BY <2>3 DEF historyVars, vars, Waning, Reads, Slot, Quiet, Reversed
  <2> QED BY <2>1, <2>2, <2>3 DEF HistoryNext
<1>3. Waning => DetectorsAgree
  <2> SUFFICES ASSUME Waning, GetMidRangeCap > 0 PROVE GetOscillationScore > 0
    BY DEF DetectorsAgree
  <2>1. Reads /\ count >= 6
    BY FlipInReach DEF Waning
  <2>2. PICK i \in 2 .. count - 1 : get(i - 1).action # get(i).action
    BY FlipInReach
  <2> QED BY <2>1, <2>2, ScorePositive
<1> QED BY <1>1, <1>2, <1>3, PTL DEF HistorySpec
=============================================================================
