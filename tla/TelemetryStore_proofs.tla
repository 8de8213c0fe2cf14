----------------------- MODULE TelemetryStore_proofs -----------------------
(***************************************************************************)
(* Proofs about TelemetryStore, and about StoreHistory, for every set of   *)
(* services and threads, every sharding, cap, staleness age and bound.     *)
(***************************************************************************)
EXTENDS StoreHistory, FiniteSetTheorems, TLAPS

(* An ingester past the mutex holds its shard's lock; a pruner in a shard    *)
(* holds that shard's lock.                                                  *)
LockHeld ==
  /\ \A i \in Ingester : pcI[i] # "idle" => op[i].svc \in Service /\ op[i].ts \in 1 .. now
  /\ \A i \in Ingester :
       pcI[i] \in {"lookup", "cas", "insert"} => holder[ShardOf[op[i].svc]] = i
  /\ \A p \in Pruner : pcP[p] = "scan" => holder[atP[p]] = p

(* While an ingester registers a service nobody else does.                   *)
StillNew ==
  \A i \in Ingester : pcI[i] \in {"cas", "insert"} => buffers[op[i].svc] = None

CasBelowCap == \A i \in Ingester : pcI[i] = "cas" => loaded[i] < MaxServices

PrunerBehind == \A p \in Pruner : nowP[p] <= now

(* How recent the time noted for a service is, compared with a point about   *)
(* to be appended to its buffer, or to a buffer the service has lost.        *)
Noted ==
  /\ \A i \in Ingester :
       pcI[i] \in {"lock", "lookup", "cas", "insert"} => now - op[i].ts <= Lag
  /\ \A i \in Ingester : pcI[i] = "append" => target[i] \in Buf
  /\ \A i \in Ingester :
       pcI[i] = "append" /\ buffers[op[i].svc] = target[i]
         => op[i].ts - lastSeen[op[i].svc] <= Lag
  /\ \A i \in Ingester :
       pcI[i] = "append" /\ buffers[op[i].svc] # target[i]
         => now - op[i].ts > StaleAge - Lag

Base == TypeOK /\ LockHeld

-----------------------------------------------------------------------------
LEMMA InitBase == Init => Base
<1> SUFFICES ASSUME Init PROVE Base
  OBVIOUS
<1>1. \A b \in Buf : <<>> \in Seq(Time)
  OBVIOUS
<1>2. TypeOK
  BY <1>1, ShardAssumption, BoundAssumption DEF Init, TypeOK, Shard, Thread, Time, NoOp
<1>3. LockHeld
  BY DEF Init, LockHeld
<1>4. QED
  BY <1>2, <1>3 DEF Base

USE DEF clockVars, mapVars, ingestVars, pruneVars, readVars

(* A buffer's contents stay a sequence of times.                             *)
LEMMA PushedType ==
  ASSUME NEW q \in Seq(Time), NEW t \in Time
  PROVE  Pushed(q, t) \in Seq(Time)
<1>1. CASE Len(q) < BufCap
  BY <1>1 DEF Pushed
<1>2. CASE ~(Len(q) < BufCap)
  <2>1. q # <<>>
    BY <1>2, BoundAssumption
  <2>2. Tail(q) \in Seq(Time)
    BY <2>1
  <2>3. QED
    BY <1>2, <2>2 DEF Pushed
<1>3. QED
  BY <1>1, <1>2

LEMMA CollectType ==
  ASSUME NEW q \in [Buf -> Seq(Time)], Collect(q)
  PROVE  ring' \in [Buf -> Seq(Time)]
<1>1. <<>> \in Seq(Time)
  OBVIOUS
<1>2. QED
  BY <1>1 DEF Collect

LEMMA IngestBeginBase ==
  ASSUME Base, NEW i \in Ingester, IngestBegin(i)
  PROVE  Base'
<1>1. TypeOK'
  BY ShardAssumption, BoundAssumption
     DEF Base, TypeOK, LockHeld, IngestBegin, Acquire, Release, GoI, GoP, Shard, Thread, Time, NoOp
<1>2. LockHeld'
  BY ShardAssumption, ThreadAssumption, NoneAssumption
     DEF Base, TypeOK, LockHeld, IngestBegin, Acquire, Release, GoI, GoP, Shard, Thread, NoOp
<1>3. QED
  BY <1>1, <1>2 DEF Base

LEMMA IngestLockBase ==
  ASSUME Base, NEW i \in Ingester, IngestLock(i)
  PROVE  Base'
<1>1. TypeOK'
  BY ShardAssumption, BoundAssumption
     DEF Base, TypeOK, LockHeld, IngestLock, Acquire, Release, GoI, GoP, Shard, Thread, Time, NoOp
<1>2. LockHeld'
  BY ShardAssumption, ThreadAssumption, NoneAssumption
     DEF Base, TypeOK, LockHeld, IngestLock, Acquire, Release, GoI, GoP, Shard, Thread, NoOp
<1>3. QED
  BY <1>1, <1>2 DEF Base

LEMMA IngestKnownBase ==
  ASSUME Base, NEW i \in Ingester, IngestKnown(i)
  PROVE  Base'
<1>1. TypeOK'
  BY ShardAssumption, BoundAssumption
     DEF Base, TypeOK, LockHeld, IngestKnown, Acquire, Release, GoI, GoP, Shard, Thread, Time, NoOp
<1>2. LockHeld'
  BY ShardAssumption, ThreadAssumption, NoneAssumption
     DEF Base, TypeOK, LockHeld, IngestKnown, Acquire, Release, GoI, GoP, Shard, Thread, NoOp
<1>3. QED
  BY <1>1, <1>2 DEF Base

LEMMA IngestRejectBase ==
  ASSUME Base, NEW i \in Ingester, IngestReject(i)
  PROVE  Base'
<1>1. TypeOK'
  BY ShardAssumption, BoundAssumption
     DEF Base, TypeOK, LockHeld, IngestReject, Acquire, Release, GoI, GoP, Shard, Thread, Time, NoOp
<1>2. LockHeld'
  BY ShardAssumption, ThreadAssumption, NoneAssumption
     DEF Base, TypeOK, LockHeld, IngestReject, Acquire, Release, GoI, GoP, Shard, Thread, NoOp
<1>3. QED
  BY <1>1, <1>2 DEF Base

LEMMA IngestLoadBase ==
  ASSUME Base, NEW i \in Ingester, IngestLoad(i)
  PROVE  Base'
<1>1. TypeOK'
  BY ShardAssumption, BoundAssumption
     DEF Base, TypeOK, LockHeld, IngestLoad, Acquire, Release, GoI, GoP, Shard, Thread, Time, NoOp
<1>2. LockHeld'
  BY ShardAssumption, ThreadAssumption, NoneAssumption
     DEF Base, TypeOK, LockHeld, IngestLoad, Acquire, Release, GoI, GoP, Shard, Thread, NoOp
<1>3. QED
  BY <1>1, <1>2 DEF Base

LEMMA IngestCASBase ==
  ASSUME Base, NEW i \in Ingester, IngestCAS(i)
  PROVE  Base'
<1>1. TypeOK'
  <2>1. svcCount' \in Int
    BY DEF Base, TypeOK, IngestCAS
  <2>2. pcI' \in [Ingester -> {"idle", "lock", "lookup", "cas", "insert", "append"}]
    BY DEF Base, TypeOK, IngestCAS, GoI
  <2>3. loaded' \in [Ingester -> Int]
    BY DEF Base, TypeOK, IngestCAS
  <2>4. QED
    BY <2>1, <2>2, <2>3 DEF Base, TypeOK, IngestCAS
<1>2. LockHeld'
  BY ShardAssumption, ThreadAssumption, NoneAssumption
     DEF Base, TypeOK, LockHeld, IngestCAS, Acquire, Release, GoI, GoP, Shard, Thread, NoOp
<1>3. QED
  BY <1>1, <1>2 DEF Base

LEMMA IngestInsertBase ==
  ASSUME Base, NEW i \in Ingester, IngestInsert(i)
  PROVE  Base'
<1>1. TypeOK'
  <2>1. PICK b \in Buf \ Live :
             /\ buffers' = [buffers EXCEPT ![op[i].svc] = b]
             /\ target' = [target EXCEPT ![i] = b]
             /\ ring' = [ring EXCEPT ![b] = <<>>]
    BY DEF IngestInsert
  <2>2. <<>> \in Seq(Time)
    OBVIOUS
  <2>3. ring' \in [Buf -> Seq(Time)] /\ buffers' \in [Service -> Buf \cup {None}]
        /\ target' \in [Ingester -> Buf \cup {None}]
    BY <2>1, <2>2 DEF Base, TypeOK
  <2>4. lastSeen' \in [Service -> Time] /\ holder' \in [Shard -> Thread \cup {None}]
        /\ pcI' \in [Ingester -> {"idle", "lock", "lookup", "cas", "insert", "append"}]
    BY DEF Base, TypeOK, IngestInsert, Release, GoI
  <2>5. QED
    BY <2>3, <2>4 DEF Base, TypeOK, IngestInsert
<1>2. LockHeld'
  BY ShardAssumption, ThreadAssumption, NoneAssumption
     DEF Base, TypeOK, LockHeld, IngestInsert, Acquire, Release, GoI, GoP, Shard, Thread, NoOp
<1>3. QED
  BY <1>1, <1>2 DEF Base

LEMMA IngestAppendBase ==
  ASSUME Base, NEW i \in Ingester, IngestAppend(i)
  PROVE  Base'
<1>1. TypeOK'
  <2>1. ring' \in [Buf -> Seq(Time)]
    <3>1. \A b \in Buf : Pushed(ring[b], op[i].ts) \in Seq(Time)
      BY PushedType DEF Base, TypeOK
    <3>2. [ring EXCEPT ![target[i]] = Pushed(@, op[i].ts)] \in [Buf -> Seq(Time)]
      BY <3>1 DEF Base, TypeOK
    <3>3. QED
      BY <3>2, CollectType DEF IngestAppend
  <2>2. target' \in [Ingester -> Buf \cup {None}]
    BY DEF Base, TypeOK, IngestAppend
  <2>3. op' \in [Ingester -> [svc : Service \cup {None}, ts : Time]]
    BY BoundAssumption DEF Base, TypeOK, IngestAppend, NoOp, Time
  <2>4. pcI' \in [Ingester -> {"idle", "lock", "lookup", "cas", "insert", "append"}]
    BY DEF Base, TypeOK, IngestAppend, GoI
  <2>5. QED
    BY <2>1, <2>2, <2>3, <2>4 DEF Base, TypeOK, IngestAppend
<1>2. LockHeld'
  BY ShardAssumption, ThreadAssumption, NoneAssumption
     DEF Base, TypeOK, LockHeld, IngestAppend, Acquire, Release, GoI, GoP, Shard, Thread, NoOp
<1>3. QED
  BY <1>1, <1>2 DEF Base

LEMMA PruneBeginBase ==
  ASSUME Base, NEW p \in Pruner, PruneBegin(p)
  PROVE  Base'
<1>1. TypeOK'
  BY ShardAssumption, BoundAssumption
     DEF Base, TypeOK, LockHeld, PruneBegin, Acquire, Release, GoI, GoP, Shard, Thread, Time, NoOp
<1>2. LockHeld'
  BY ShardAssumption, ThreadAssumption, NoneAssumption
     DEF Base, TypeOK, LockHeld, PruneBegin, Acquire, Release, GoI, GoP, Shard, Thread, NoOp
<1>3. QED
  BY <1>1, <1>2 DEF Base

LEMMA PruneLockBase ==
  ASSUME Base, NEW p \in Pruner, PruneLock(p)
  PROVE  Base'
<1>1. TypeOK'
  BY ShardAssumption, BoundAssumption
     DEF Base, TypeOK, LockHeld, PruneLock, Acquire, Release, GoI, GoP, Shard, Thread, Time, NoOp
<1>2. LockHeld'
  BY ShardAssumption, ThreadAssumption, NoneAssumption
     DEF Base, TypeOK, LockHeld, PruneLock, Acquire, Release, GoI, GoP, Shard, Thread, NoOp
<1>3. QED
  BY <1>1, <1>2 DEF Base

LEMMA PruneOneBase ==
  ASSUME Base, NEW p \in Pruner, NEW s \in Service, PruneOne(p, s)
  PROVE  Base'
<1>1. TypeOK'
  <2>1. ring' \in [Buf -> Seq(Time)]
    BY CollectType DEF Base, TypeOK, PruneOne
  <2>2. QED
    BY <2>1, BoundAssumption DEF Base, TypeOK, LockHeld, PruneOne, Acquire, Release, GoI, GoP, Shard, Thread, Time, NoOp
<1>2. LockHeld'
  BY ShardAssumption, ThreadAssumption, NoneAssumption
     DEF Base, TypeOK, LockHeld, PruneOne, Acquire, Release, GoI, GoP, Shard, Thread, NoOp
<1>3. QED
  BY <1>1, <1>2 DEF Base

LEMMA PruneUnlockBase ==
  ASSUME Base, NEW p \in Pruner, PruneUnlock(p)
  PROVE  Base'
<1>0. /\ atP \in [Pruner -> Shard] /\ nowP \in [Pruner -> Time] /\ 0 \in Time
      /\ pcP \in [Pruner -> {"idle", "lock", "scan"}]
      /\ NumShards \in Nat \ {0}
  BY ShardAssumption, BoundAssumption DEF Base, TypeOK, Time
<1>1. TypeOK'
  <2>1. CASE /\ atP[p] < NumShards
             /\ atP' = [atP EXCEPT ![p] = @ + 1] /\ nowP' = nowP
             /\ pcP' = [pcP EXCEPT ![p] = "lock"]
    <3>1. atP[p] + 1 \in Shard
      BY <1>0, <2>1 DEF Shard
    <3>2. /\ atP' \in [Pruner -> Shard] /\ nowP' \in [Pruner -> Time]
          /\ pcP' \in [Pruner -> {"idle", "lock", "scan"}]
      BY <1>0, <2>1, <3>1
    <3>3. QED
      BY <3>2 DEF Base, TypeOK, PruneUnlock, Release
  <2>2. CASE /\ atP' = [atP EXCEPT ![p] = 1] /\ nowP' = [nowP EXCEPT ![p] = 0]
             /\ pcP' = [pcP EXCEPT ![p] = "idle"]
    <3>1. 1 \in Shard
      BY <1>0 DEF Shard
    <3>2. /\ atP' \in [Pruner -> Shard] /\ nowP' \in [Pruner -> Time]
          /\ pcP' \in [Pruner -> {"idle", "lock", "scan"}]
      BY <1>0, <2>2, <3>1
    <3>3. QED
      BY <3>2 DEF Base, TypeOK, PruneUnlock, Release
  <2>3. QED
    BY <2>1, <2>2 DEF PruneUnlock, GoP
<1>2. LockHeld'
  <2>1. /\ UNCHANGED <<now, pcI, op>> /\ holder' = [holder EXCEPT ![atP[p]] = None]
        /\ holder[atP[p]] = p /\ holder \in [Shard -> Thread \cup {None}]
    BY DEF PruneUnlock, Release, Base, LockHeld, TypeOK
  <2>2. ASSUME NEW i \in Ingester, pcI'[i] \in {"lookup", "cas", "insert"}
        PROVE  holder'[ShardOf[op'[i].svc]] = i
    BY <2>1, <2>2, ThreadAssumption, ShardAssumption DEF Base, LockHeld, TypeOK
  <2>3. ASSUME NEW q \in Pruner, pcP'[q] = "scan"
        PROVE  holder'[atP'[q]] = q
    <3>1. q # p
      BY <1>0, <2>3 DEF PruneUnlock, GoP
    <3>2. pcP[q] = "scan" /\ atP'[q] = atP[q]
      BY <1>0, <2>3, <3>1 DEF PruneUnlock, GoP
    <3>3. holder[atP[q]] = q
      BY <3>2 DEF Base, LockHeld
    <3>4. QED
      BY <1>0, <2>1, <3>1, <3>2, <3>3
  <2>4. QED
    BY <2>1, <2>2, <2>3 DEF Base, LockHeld
<1>3. QED
  BY <1>1, <1>2 DEF Base

LEMMA ReadBeginBase ==
  ASSUME Base, NEW r \in Reader, ReadBegin(r)
  PROVE  Base'
<1>1. TypeOK'
  <2>0. nowR \in [Reader -> Time] /\ now \in Time
    BY BoundAssumption DEF Base, TypeOK, Time
  <2>1. nowR' \in [Reader -> Time]
    <3>1. CASE nowR' = nowR
      BY <2>0, <3>1
    <3>2. CASE nowR' = [nowR EXCEPT ![r] = now]
      BY <2>0, <3>2
    <3>3. QED
      BY <3>1, <3>2 DEF ReadBegin
  <2>2. pcR' \in [Reader -> {"idle", "collect", "compute"}]
    BY DEF Base, TypeOK, ReadBegin
  <2>3. windows' \in [Reader -> SUBSET Service]
    BY DEF Base, TypeOK, ReadBegin
  <2>4. QED
    BY <2>1, <2>2, <2>3 DEF Base, TypeOK, ReadBegin
<1>2. LockHeld'
  BY ShardAssumption, ThreadAssumption, NoneAssumption
     DEF Base, TypeOK, LockHeld, ReadBegin, Acquire, Release, GoI, GoP, Shard, Thread, NoOp
<1>3. QED
  BY <1>1, <1>2 DEF Base

LEMMA ReadShardBase ==
  ASSUME Base, NEW r \in Reader, ReadShard(r)
  PROVE  Base'
<1>1. TypeOK'
  <2>1. FreshEntries(r, atR[r]) \subseteq Entry
    BY NoneAssumption DEF FreshEntries, Entry, Registered, Base, TypeOK
  <2>2. entries' \in [Reader -> SUBSET Entry]
    BY <2>1 DEF Base, TypeOK, ReadShard
  <2>3. atR' \in [Reader -> Shard]
    BY ShardAssumption DEF Base, TypeOK, ReadShard, Shard
  <2>4. nowR' \in [Reader -> Time]
    <3>1. nowR \in [Reader -> Time] /\ 0 \in Time
      BY BoundAssumption DEF Base, TypeOK, Time
    <3>2. nowR' = nowR \/ nowR' = [nowR EXCEPT ![r] = 0]
      BY DEF ReadShard
    <3>3. QED
      BY <3>1, <3>2
  <2>5. pcR' \in [Reader -> {"idle", "collect", "compute"}]
    BY DEF Base, TypeOK, ReadShard
  <2>6. QED
    BY <2>2, <2>3, <2>4, <2>5 DEF Base, TypeOK, ReadShard
<1>2. LockHeld'
  BY ShardAssumption, ThreadAssumption, NoneAssumption
     DEF Base, TypeOK, LockHeld, ReadShard, Acquire, Release, GoI, GoP, Shard, Thread, NoOp
<1>3. QED
  BY <1>1, <1>2 DEF Base

LEMMA ReadEntryBase ==
  ASSUME Base, NEW r \in Reader, NEW e \in Entry, ReadEntry(r, e)
  PROVE  Base'
<1>1. TypeOK'
  <2>1. ring' \in [Buf -> Seq(Time)]
    BY CollectType DEF Base, TypeOK, ReadEntry
  <2>2. e.svc \in Service
    BY DEF Entry
  <2>3. windows' \in [Reader -> SUBSET Service] /\ entries' \in [Reader -> SUBSET Entry]
    BY <2>2 DEF Base, TypeOK, ReadEntry
  <2>4. QED
    BY <2>1, <2>3 DEF Base, TypeOK, ReadEntry
<1>2. LockHeld'
  BY ShardAssumption, ThreadAssumption, NoneAssumption
     DEF Base, TypeOK, LockHeld, ReadEntry, Acquire, Release, GoI, GoP, Shard, Thread, NoOp
<1>3. QED
  BY <1>1, <1>2 DEF Base

LEMMA ReadEndBase ==
  ASSUME Base, NEW r \in Reader, ReadEnd(r)
  PROVE  Base'
<1>1. TypeOK'
  BY ShardAssumption, BoundAssumption
     DEF Base, TypeOK, LockHeld, ReadEnd, Acquire, Release, GoI, GoP, Shard, Thread, Time, NoOp
<1>2. LockHeld'
  BY ShardAssumption, ThreadAssumption, NoneAssumption
     DEF Base, TypeOK, LockHeld, ReadEnd, Acquire, Release, GoI, GoP, Shard, Thread, NoOp
<1>3. QED
  BY <1>1, <1>2 DEF Base

LEMMA TickBase ==
  ASSUME Base, Tick
  PROVE  Base'
<1>1. TypeOK'
  BY ShardAssumption, BoundAssumption
     DEF Base, TypeOK, LockHeld, Tick, Acquire, Release, GoI, GoP, Shard, Thread, Time, NoOp
<1>2. LockHeld'
  BY ShardAssumption, ThreadAssumption, NoneAssumption
     DEF Base, TypeOK, LockHeld, Tick, Acquire, Release, GoI, GoP, Shard, Thread, NoOp
<1>3. QED
  BY <1>1, <1>2 DEF Base

(* Every step keeps the types and the locking discipline.                    *)
LEMMA NextBase == Base /\ [Next]_vars => Base'
<1> SUFFICES ASSUME Base, [Next]_vars PROVE Base'
  OBVIOUS
<1>1. CASE \E i \in Ingester : IngestBegin(i) \/ IngestStep(i)
  BY <1>1, IngestBeginBase, IngestLockBase, IngestKnownBase, IngestRejectBase, IngestLoadBase,
     IngestCASBase, IngestInsertBase, IngestAppendBase DEF IngestStep
<1>2. CASE \E p \in Pruner : PruneStep(p)
  BY <1>2, PruneBeginBase, PruneLockBase, PruneOneBase, PruneUnlockBase DEF PruneStep
<1>3. CASE \E r \in Reader : ReadStep(r)
  BY <1>3, ReadBeginBase, ReadShardBase, ReadEntryBase, ReadEndBase DEF ReadStep
<1>4. CASE Tick
  BY <1>4, TickBase
<1>5. CASE UNCHANGED vars
  BY <1>5 DEF vars, Base, TypeOK, LockHeld
<1>6. QED
  BY <1>1, <1>2, <1>3, <1>4, <1>5 DEF Next

(* The types hold in every reachable state, whatever the interleaving: no    *)
(* ingester appends to an absent buffer, no index leaves the shards.         *)
THEOREM TypeCorrect == Spec => []TypeOK
<1>1. Spec => []Base
  BY InitBase, NextBase, PTL DEF Spec
<1>2. Base => TypeOK
  BY DEF Base
<1>3. QED
  BY <1>1, <1>2, PTL

-----------------------------------------------------------------------------
(* The whole inductive invariant.                                            *)
IInv == Base /\ StillNew /\ CasBelowCap /\ PrunerBehind /\ Noted /\ AdmissionBound

LEMMA InitIInv == Init => IInv
<1> SUFFICES ASSUME Init PROVE IInv
  OBVIOUS
<1>1. Registered = {} /\ Reserving = {}
  BY DEF Init, Registered, Reserving
<1>2. AdmissionBound
  BY <1>1, FS_EmptySet, BoundAssumption DEF Init, AdmissionBound
<1>3. StillNew /\ CasBelowCap /\ PrunerBehind /\ Noted
  BY DEF Init, StillNew, CasBelowCap, PrunerBehind, Noted
<1>4. QED
  BY <1>2, <1>3, InitBase DEF IInv

(* Which services are registered, and who is about to register one, is known *)
(* from the maps and the ingesters' places.                                  *)
LEMMA CountKept ==
  ASSUME AdmissionBound, UNCHANGED svcCount, Registered' = Registered, Reserving' = Reserving
  PROVE  AdmissionBound'
BY DEF AdmissionBound

(* A step that leaves the maps, the ingesters and the clock alone.           *)
LEMMA Quiet ==
  ASSUME IInv, UNCHANGED <<now, buffers, lastSeen, svcCount, pcI, op, loaded, target>>
  PROVE  StillNew' /\ CasBelowCap' /\ Noted' /\ AdmissionBound'
<1>1. Registered' = Registered /\ Reserving' = Reserving
  BY DEF Registered, Reserving
<1>2. AdmissionBound'
  BY <1>1, CountKept DEF IInv
<1>3. StillNew' /\ CasBelowCap' /\ Noted'
  BY DEF IInv, StillNew, CasBelowCap, Noted
<1>4. QED
  BY <1>2, <1>3

(* The parts of the invariant about the maps, the counter and the points in  *)
(* flight.                                                                   *)
Good == StillNew /\ CasBelowCap /\ Noted /\ AdmissionBound

LEMMA IngestBeginInv ==
  ASSUME IInv, NEW i \in Ingester, IngestBegin(i)
  PROVE  Good'
<1>1. AdmissionBound'
  <2>1. Registered' = Registered
    BY DEF Registered, IngestBegin
  <2>2. Reserving' = Reserving
    BY DEF Reserving, IngestBegin, GoI, Base, TypeOK, IInv
  <2>3. QED
    BY <2>1, <2>2, CountKept DEF IInv, IngestBegin
<1>2. StillNew' /\ CasBelowCap'
  BY DEF IInv, Base, TypeOK, StillNew, CasBelowCap, IngestBegin, GoI, NoOp
<1>3. Noted'
  BY NoneAssumption DEF IInv, Base, TypeOK, LockHeld, Noted, IngestBegin, GoI, Time, NoOp
<1>4. QED
  BY <1>1, <1>2, <1>3 DEF Good

LEMMA IngestLockInv ==
  ASSUME IInv, NEW i \in Ingester, IngestLock(i)
  PROVE  Good'
<1>1. AdmissionBound'
  <2>1. Registered' = Registered
    BY DEF Registered, IngestLock
  <2>2. Reserving' = Reserving
    BY DEF Reserving, IngestLock, GoI, Base, TypeOK, IInv
  <2>3. QED
    BY <2>1, <2>2, CountKept DEF IInv, IngestLock
<1>2. StillNew' /\ CasBelowCap'
  BY DEF IInv, Base, TypeOK, StillNew, CasBelowCap, IngestLock, GoI, NoOp
<1>3. Noted'
  BY NoneAssumption DEF IInv, Base, TypeOK, LockHeld, Noted, IngestLock, GoI, Time, NoOp
<1>4. QED
  BY <1>1, <1>2, <1>3 DEF Good

LEMMA IngestKnownInv ==
  ASSUME IInv, NEW i \in Ingester, IngestKnown(i)
  PROVE  Good'
<1>1. AdmissionBound'
  <2>1. Registered' = Registered
    BY DEF Registered, IngestKnown
  <2>2. Reserving' = Reserving
    BY DEF Reserving, IngestKnown, GoI, Base, TypeOK, IInv
  <2>3. QED
    BY <2>1, <2>2, CountKept DEF IInv, IngestKnown
<1>2. StillNew' /\ CasBelowCap'
  BY DEF IInv, Base, TypeOK, StillNew, CasBelowCap, IngestKnown, GoI, NoOp
<1>3. Noted'
  <2> DEFINE s == op[i].svc
  <2>1. /\ s \in Service /\ op[i].ts \in 1 .. now /\ now \in Nat /\ Lag \in Nat
        /\ now - op[i].ts <= Lag /\ pcI[i] = "lookup" /\ buffers[s] \in Buf
    BY BoundAssumption DEF IInv, Base, TypeOK, LockHeld, Noted, IngestKnown
  <2>2. /\ UNCHANGED <<now, buffers, op>> /\ target' = [target EXCEPT ![i] = buffers[s]]
        /\ lastSeen' = [lastSeen EXCEPT ![s] = op[i].ts] /\ pcI' = [pcI EXCEPT ![i] = "append"]
    BY DEF IngestKnown, GoI
  <2>3. ASSUME NEW j \in Ingester, pcI'[j] = "append"
        PROVE  /\ op[j].svc \in Service /\ op[j].ts \in 1 .. now
               /\ target'[j] \in Buf
               /\ j # i => pcI[j] = "append" /\ target'[j] = target[j]
    BY <2>1, <2>2, <2>3 DEF IInv, Base, TypeOK, LockHeld, Noted
  <2>4. ASSUME NEW j \in Ingester, pcI'[j] = "append", buffers[op[j].svc] = target'[j]
        PROVE  op[j].ts - lastSeen'[op[j].svc] <= Lag
    <3>1. CASE op[j].svc = s
      <4>1. lastSeen'[op[j].svc] = op[i].ts
        BY <2>1, <2>2, <3>1 DEF IInv, Base, TypeOK
      <4>2. QED
        BY <2>1, <2>3, <2>4, <4>1
    <3>2. CASE op[j].svc # s
      BY <2>2, <2>3, <2>4, <3>2 DEF IInv, Base, TypeOK, Noted
    <3>3. QED
      BY <3>1, <3>2
  <2>5. ASSUME NEW j \in Ingester, pcI'[j] = "append", buffers[op[j].svc] # target'[j]
        PROVE  now - op[j].ts > StaleAge - Lag
    BY <2>1, <2>2, <2>3, <2>5 DEF IInv, Base, TypeOK, Noted
  <2>6. ASSUME NEW j \in Ingester, pcI'[j] \in {"lock", "lookup", "cas", "insert"}
        PROVE  now - op[j].ts <= Lag
    BY <2>1, <2>2, <2>6 DEF IInv, Base, TypeOK, Noted
  <2>7. QED
    BY <2>2, <2>3, <2>4, <2>5, <2>6 DEF Noted
<1>4. QED
  BY <1>1, <1>2, <1>3 DEF Good

LEMMA IngestRejectInv ==
  ASSUME IInv, NEW i \in Ingester, IngestReject(i)
  PROVE  Good'
<1>1. AdmissionBound'
  <2>1. Registered' = Registered
    BY DEF Registered, IngestReject
  <2>2. Reserving' = Reserving
    BY DEF Reserving, IngestReject, GoI, Base, TypeOK, IInv
  <2>3. QED
    BY <2>1, <2>2, CountKept DEF IInv, IngestReject
<1>2. StillNew' /\ CasBelowCap'
  BY DEF IInv, Base, TypeOK, StillNew, CasBelowCap, IngestReject, GoI, NoOp
<1>3. Noted'
  BY NoneAssumption DEF IInv, Base, TypeOK, LockHeld, Noted, IngestReject, GoI, Time, NoOp
<1>4. QED
  BY <1>1, <1>2, <1>3 DEF Good

LEMMA IngestLoadInv ==
  ASSUME IInv, NEW i \in Ingester, IngestLoad(i)
  PROVE  Good'
<1>1. AdmissionBound'
  <2>1. Registered' = Registered
    BY DEF Registered, IngestLoad
  <2>2. Reserving' = Reserving
    BY DEF Reserving, IngestLoad, GoI, Base, TypeOK, IInv
  <2>3. QED
    BY <2>1, <2>2, CountKept DEF IInv, IngestLoad
<1>2. StillNew' /\ CasBelowCap'
  BY DEF IInv, Base, TypeOK, StillNew, CasBelowCap, IngestLoad, GoI, NoOp
<1>3. Noted'
  BY NoneAssumption DEF IInv, Base, TypeOK, LockHeld, Noted, IngestLoad, GoI, Time, NoOp
<1>4. QED
  BY <1>1, <1>2, <1>3 DEF Good

LEMMA IngestAppendInv ==
  ASSUME IInv, NEW i \in Ingester, IngestAppend(i)
  PROVE  Good'
<1>1. AdmissionBound'
  <2>1. Registered' = Registered
    BY DEF Registered, IngestAppend
  <2>2. Reserving' = Reserving
    BY DEF Reserving, IngestAppend, GoI, Base, TypeOK, IInv
  <2>3. QED
    BY <2>1, <2>2, CountKept DEF IInv, IngestAppend
<1>2. StillNew' /\ CasBelowCap'
  BY DEF IInv, Base, TypeOK, StillNew, CasBelowCap, IngestAppend, GoI, NoOp
<1>3. Noted'
  BY NoneAssumption DEF IInv, Base, TypeOK, LockHeld, Noted, IngestAppend, GoI, Time, NoOp
<1>4. QED
  BY <1>1, <1>2, <1>3 DEF Good

(* The reservation: the counter was below the cap when it was loaded and has *)
(* not changed since, or the compare-and-swap fails.                         *)
LEMMA IngestCASInv ==
  ASSUME IInv, NEW i \in Ingester, IngestCAS(i)
  PROVE  Good'
<1>0. /\ svcCount \in Int /\ loaded[i] < MaxServices /\ IsFiniteSet(Reserving)
      /\ i \notin Reserving /\ pcI \in [Ingester -> {"idle", "lock", "lookup", "cas", "insert", "append"}]
      /\ MaxServices \in Nat /\ Registered' = Registered
      /\ svcCount <= MaxServices
      /\ svcCount = Cardinality(Registered) + Cardinality(Reserving)
  <2>1. IsFiniteSet(Reserving)
    BY FiniteAssumption, FS_Subset DEF Reserving
  <2>2. QED
    BY <2>1, BoundAssumption
       DEF IInv, Base, TypeOK, CasBelowCap, Reserving, Registered, IngestCAS, AdmissionBound
<1>1. AdmissionBound'
  <2>1. CASE svcCount = loaded[i]
    <3>1. svcCount' = svcCount + 1 /\ pcI' = [pcI EXCEPT ![i] = "insert"]
      BY <2>1 DEF IngestCAS, GoI
    <3>2. Reserving' = Reserving \cup {i}
      BY <1>0, <3>1 DEF Reserving
    <3>3. Cardinality(Reserving \cup {i}) = Cardinality(Reserving) + 1
      BY <1>0, FS_AddElement
    <3>4. Cardinality(Registered) \in Int /\ Cardinality(Reserving) \in Int
      BY <1>0, FiniteAssumption, FS_Subset, FS_CardinalityType DEF Registered
    <3>5. QED
      BY <1>0, <2>1, <3>1, <3>2, <3>3, <3>4 DEF AdmissionBound
  <2>2. CASE svcCount # loaded[i]
    <3>1. svcCount' = svcCount /\ pcI' = [pcI EXCEPT ![i] = "lookup"]
      BY <2>2 DEF IngestCAS, GoI
    <3>2. Reserving' = Reserving
      BY <1>0, <3>1 DEF Reserving
    <3>3. QED
      BY <1>0, <3>1, <3>2 DEF AdmissionBound
  <2>3. QED
    BY <2>1, <2>2
<1>2. StillNew' /\ CasBelowCap'
  <2>1. /\ loaded' = [loaded EXCEPT ![i] = 0] /\ pcI[i] = "cas" /\ UNCHANGED <<buffers, op>>
        /\ \E to \in {"insert", "lookup"} : pcI' = [pcI EXCEPT ![i] = to]
    BY DEF IngestCAS, GoI
  <2>2. \A j \in Ingester : pcI'[j] \in {"cas", "insert"} => pcI[j] \in {"cas", "insert"}
    BY <1>0, <2>1
  <2>3. \A j \in Ingester : pcI'[j] = "cas" => j # i /\ pcI[j] = "cas" /\ loaded'[j] = loaded[j]
    BY <1>0, <2>1 DEF IInv, Base, TypeOK
  <2>4. QED
    BY <2>1, <2>2, <2>3 DEF IInv, StillNew, CasBelowCap
<1>3. Noted'
  <2>1. /\ pcI[i] = "cas" /\ UNCHANGED <<now, buffers, op, target, lastSeen>>
        /\ \E to \in {"insert", "lookup"} : pcI' = [pcI EXCEPT ![i] = to]
    BY DEF IngestCAS, GoI
  <2>2. \A j \in Ingester : /\ pcI'[j] = "append" => pcI[j] = "append"
                            /\ pcI'[j] \in {"lock", "lookup", "cas", "insert"}
                                 => pcI[j] \in {"lock", "lookup", "cas", "insert"}
    BY <1>0, <2>1
  <2>3. QED
    BY <2>1, <2>2 DEF IInv, Noted
<1>4. QED
  BY <1>1, <1>2, <1>3 DEF Good

(* The insertion turns a reservation into a registered service.              *)
LEMMA InsertEffect ==
  ASSUME IInv, NEW i \in Ingester, IngestInsert(i)
  PROVE  /\ op[i].svc \in Service \ Registered /\ op[i].ts \in 1 .. now
         /\ Registered' = Registered \cup {op[i].svc}
         /\ i \in Reserving /\ Reserving' = Reserving \ {i}
         /\ IsFiniteSet(Registered) /\ IsFiniteSet(Reserving)
         /\ Cardinality(Registered) \in Nat /\ Cardinality(Reserving) \in Nat
<1>1. op[i].svc \in Service \ Registered /\ op[i].ts \in 1 .. now /\ i \in Reserving
  BY DEF IngestInsert, IInv, Base, LockHeld, StillNew, Registered, Reserving
<1>2. PICK b \in Buf : buffers' = [buffers EXCEPT ![op[i].svc] = b]
  BY DEF IngestInsert
<1>3. Registered' = Registered \cup {op[i].svc}
  BY <1>1, <1>2, NoneAssumption DEF Registered, IInv, Base, TypeOK
<1>4. Reserving' = Reserving \ {i}
  BY DEF Reserving, IngestInsert, GoI, IInv, Base, TypeOK
<1>5. IsFiniteSet(Registered) /\ IsFiniteSet(Reserving)
  BY FiniteAssumption, FS_Subset DEF Registered, Reserving
<1>6. QED
  BY <1>1, <1>3, <1>4, <1>5, FS_CardinalityType

LEMMA IngestInsertInv ==
  ASSUME IInv, NEW i \in Ingester, IngestInsert(i)
  PROVE  Good'
<1> DEFINE s == op[i].svc
<1>1. AdmissionBound'
  <2>1. Cardinality(Registered \cup {s}) = Cardinality(Registered) + 1
    BY InsertEffect, FS_AddElement
  <2>2. Cardinality(Reserving \ {i}) = Cardinality(Reserving) - 1
    BY InsertEffect, FS_RemoveElement
  <2>3. UNCHANGED svcCount
    BY DEF IngestInsert
  <2>4. /\ Cardinality(Registered') = Cardinality(Registered) + 1
        /\ Cardinality(Reserving') = Cardinality(Reserving) - 1
        /\ Cardinality(Registered) \in Nat /\ Cardinality(Reserving) \in Nat
    BY <2>1, <2>2, InsertEffect
  <2>5. QED
    BY <2>3, <2>4 DEF IInv, AdmissionBound
<1>2. PICK b \in Buf \ Live :
             /\ buffers' = [buffers EXCEPT ![s] = b]
             /\ target' = [target EXCEPT ![i] = b]
  BY DEF IngestInsert
<1>3. /\ pcI' = [pcI EXCEPT ![i] = "append"] /\ pcI[i] = "insert"
      /\ lastSeen' = [lastSeen EXCEPT ![s] = op[i].ts]
      /\ UNCHANGED <<now, op, loaded>>
  BY DEF IngestInsert, GoI
<1>4. /\ s \in Service /\ buffers[s] = None /\ op[i].ts \in 1 .. now /\ now \in Nat
      /\ Lag \in Nat
      /\ \A j \in Ingester : target[j] # b
      /\ b \in Buf /\ b # None
  <2>1. s \in Service /\ buffers[s] = None /\ op[i].ts \in 1 .. now
    BY InsertEffect DEF Registered
  <2>2. now \in Nat /\ Lag \in Nat
    BY BoundAssumption DEF IInv, Base, TypeOK
  <2>3. \A j \in Ingester : target[j] \in Live
    BY DEF Live
  <2>4. b \in Buf /\ b \notin Live /\ b # None
    BY <1>2, NoneAssumption
  <2>5. QED
    BY <2>1, <2>2, <2>3, <2>4
<1>5. ASSUME NEW j \in Ingester, j # i
      PROVE  pcI'[j] = pcI[j] /\ target'[j] = target[j]
  BY <1>2, <1>3, <1>5 DEF IInv, Base, TypeOK
<1>6. pcI'[i] = "append" /\ target'[i] = b /\ buffers'[s] = b /\ lastSeen'[s] = op[i].ts
  BY <1>2, <1>3, <1>4 DEF IInv, Base, TypeOK
<1>7. StillNew'
  <2>1. ASSUME NEW j \in Ingester, pcI'[j] \in {"cas", "insert"}
        PROVE  buffers'[op'[j].svc] = None
    <3>1. j # i /\ pcI[j] \in {"cas", "insert"}
      BY <1>5, <1>6, <2>1
    <3>2. holder[ShardOf[op[j].svc]] = j /\ holder[ShardOf[s]] = i
      BY <1>3, <3>1 DEF IInv, Base, LockHeld
    <3>3. op[j].svc # s
      BY <3>1, <3>2
    <3>4. buffers[op[j].svc] = None
      BY <3>1 DEF IInv, StillNew
    <3>5. QED
      BY <1>2, <1>3, <3>3, <3>4 DEF IInv, Base, TypeOK
  <2>2. QED
    BY <2>1 DEF StillNew
<1>8. CasBelowCap'
  BY <1>3, <1>5, <1>6 DEF IInv, CasBelowCap
<1>9. Noted'
  <2>1. ASSUME NEW j \in Ingester, pcI'[j] = "append", j # i
        PROVE  /\ target'[j] \in Buf
               /\ op'[j].svc # s \/ now' - op'[j].ts > StaleAge - Lag
               /\ buffers'[op'[j].svc] = target'[j] => op'[j].ts - lastSeen'[op'[j].svc] <= Lag
               /\ buffers'[op'[j].svc] # target'[j] => now' - op'[j].ts > StaleAge - Lag
    <3>1. pcI[j] = "append" /\ target[j] \in Buf /\ target'[j] = target[j] /\ op' = op /\ now' = now
          /\ op[j].svc \in Service
      BY <1>3, <1>5, <2>1 DEF IInv, Noted, Base, LockHeld
    <3>2. CASE op[j].svc = s
      <4>1. buffers[s] # target[j]
        BY <1>4, <3>1, NoneAssumption
      <4>2. now - op[j].ts > StaleAge - Lag
        BY <3>1, <3>2, <4>1 DEF IInv, Noted
      <4>3. QED
        BY <1>4, <1>6, <3>1, <3>2, <4>2
    <3>3. CASE op[j].svc # s
      <4>1. buffers'[op[j].svc] = buffers[op[j].svc] /\ lastSeen'[op[j].svc] = lastSeen[op[j].svc]
        BY <1>2, <1>3, <3>1, <3>3 DEF IInv, Base, TypeOK
      <4>2. QED
        BY <3>1, <3>3, <4>1 DEF IInv, Noted
    <3>4. QED
      BY <3>2, <3>3
  <2>2. /\ target'[i] \in Buf /\ buffers'[op'[i].svc] = target'[i]
        /\ op'[i].ts - lastSeen'[op'[i].svc] <= Lag
    BY <1>3, <1>4, <1>6
  <2>3. ASSUME NEW j \in Ingester, pcI'[j] \in {"lock", "lookup", "cas", "insert"}
        PROVE  now' - op'[j].ts <= Lag
    BY <1>3, <1>5, <1>6, <2>3 DEF IInv, Noted
  <2>4. QED
    BY <2>1, <2>2, <2>3 DEF Noted
<1>10. QED
  BY <1>1, <1>7, <1>8, <1>9 DEF Good

(* A pruned service leaves the maps and the count together.                  *)
LEMMA PruneOneInv ==
  ASSUME IInv, NEW p \in Pruner, NEW s \in Service, PruneOne(p, s)
  PROVE  Good'
<1>1. /\ buffers' = [buffers EXCEPT ![s] = None] /\ lastSeen' = [lastSeen EXCEPT ![s] = 0]
      /\ svcCount' = svcCount - 1 /\ UNCHANGED <<now, pcI, op, loaded, target>>
      /\ s \in Registered /\ nowP[p] - lastSeen[s] > StaleAge
  BY DEF PruneOne, StaleInShard
<1>2. /\ nowP[p] \in Int /\ now \in Int /\ nowP[p] <= now /\ lastSeen[s] \in Int
      /\ StaleAge \in Nat /\ Lag \in Nat /\ svcCount \in Int
  BY BoundAssumption DEF IInv, Base, TypeOK, PrunerBehind, Time
<1>3. AdmissionBound'
  <2>1. Registered' = Registered \ {s}
    BY <1>1 DEF Registered, IInv, Base, TypeOK
  <2>2. IsFiniteSet(Registered)
    BY FiniteAssumption, FS_Subset DEF Registered
  <2>3. Cardinality(Registered') = Cardinality(Registered) - 1
    BY <1>1, <2>1, <2>2, FS_RemoveElement
  <2>4. Reserving' = Reserving
    BY <1>1 DEF Reserving
  <2>5. Cardinality(Registered) \in Int /\ Cardinality(Reserving) \in Int
    BY <2>2, FiniteAssumption, FS_Subset, FS_CardinalityType DEF Reserving
  <2>6. QED
    BY <1>1, <1>2, <2>3, <2>4, <2>5, BoundAssumption DEF IInv, AdmissionBound
<1>4. StillNew' /\ CasBelowCap'
  BY <1>1 DEF IInv, Base, TypeOK, LockHeld, StillNew, CasBelowCap
<1>5. Noted'
  <2>1. ASSUME NEW j \in Ingester, pcI[j] = "append"
        PROVE  /\ buffers'[op[j].svc] = target[j] => op[j].ts - lastSeen'[op[j].svc] <= Lag
               /\ buffers'[op[j].svc] # target[j] => now - op[j].ts > StaleAge - Lag
    <3>1. op[j].svc \in Service /\ op[j].ts \in Int /\ target[j] \in Buf /\ target[j] # None
      BY <2>1, NoneAssumption DEF IInv, Base, LockHeld, Noted
    <3>2. CASE op[j].svc = s
      <4>1. buffers'[s] = None
        BY <1>1 DEF IInv, Base, TypeOK
      <4>2. CASE buffers[s] = target[j]
        <5>1. op[j].ts - lastSeen[s] <= Lag
          BY <2>1, <3>2, <4>2 DEF IInv, Noted
        <5>2. QED
          BY <1>1, <1>2, <3>1, <3>2, <4>1, <5>1
      <4>3. CASE buffers[s] # target[j]
        BY <2>1, <3>1, <3>2, <4>1, <4>3 DEF IInv, Noted
      <4>4. QED
        BY <4>2, <4>3
    <3>3. CASE op[j].svc # s
      BY <1>1, <2>1, <3>1, <3>3 DEF IInv, Base, TypeOK, Noted
    <3>4. QED
      BY <3>2, <3>3
  <2>2. QED
    BY <1>1, <2>1 DEF IInv, Noted
<1>6. QED
  BY <1>3, <1>4, <1>5 DEF Good

(* Time passes: points not yet noted stay within Lag of the clock.           *)
LEMMA TickInv ==
  ASSUME IInv, Tick
  PROVE  Good'
<1>1. AdmissionBound'
  <2>1. Registered' = Registered /\ Reserving' = Reserving
    BY DEF Registered, Reserving, Tick
  <2>2. QED
    BY <2>1, CountKept DEF IInv, Tick
<1>2. StillNew' /\ CasBelowCap'
  BY DEF IInv, StillNew, CasBelowCap, Tick
<1>3. Noted'
  <2>1. now \in Int /\ now' = now + 1 /\ Lag \in Int /\ StaleAge \in Int
    BY BoundAssumption DEF Tick, IInv, Base, TypeOK
  <2>2. \A i \in Ingester : op[i].ts \in Int
    BY DEF IInv, Base, TypeOK, Time
  <2>3. \A i \in Ingester :
          pcI[i] \in {"lock", "lookup", "cas", "insert"} => now' - op[i].ts <= Lag
    BY <2>1, <2>2 DEF Tick
  <2>4. \A i \in Ingester : now - op[i].ts > StaleAge - Lag => now' - op[i].ts > StaleAge - Lag
    BY <2>1, <2>2
  <2>5. QED
    BY <2>3, <2>4 DEF Tick, IInv, Noted
<1>4. QED
  BY <1>1, <1>2, <1>3 DEF Good

LEMMA NextBehind == IInv /\ [Next]_vars => PrunerBehind'
<1> SUFFICES ASSUME IInv, [Next]_vars PROVE PrunerBehind'
  OBVIOUS
<1>0. /\ now \in Nat \ {0} /\ nowP \in [Pruner -> Time] /\ \A p \in Pruner : nowP[p] <= now
      /\ \A p \in Pruner : nowP[p] \in Nat
  BY BoundAssumption DEF IInv, Base, TypeOK, PrunerBehind, Time
<1>1. CASE Tick
  BY <1>0, <1>1 DEF Tick, PrunerBehind
<1>2. CASE \E p \in Pruner : PruneBegin(p) \/ PruneUnlock(p)
  <2>1. PICK p \in Pruner : PruneBegin(p) \/ PruneUnlock(p)
    BY <1>2
  <2>2. /\ now' = now
        /\ nowP' = nowP \/ nowP' = [nowP EXCEPT ![p] = now] \/ nowP' = [nowP EXCEPT ![p] = 0]
    BY <2>1 DEF PruneBegin, PruneUnlock
  <2>3. QED
    BY <1>0, <2>2 DEF PrunerBehind
<1>3. CASE UNCHANGED <<now, nowP>>
  BY <1>0, <1>3 DEF PrunerBehind
<1>4. Tick \/ (\E p \in Pruner : PruneBegin(p) \/ PruneUnlock(p)) \/ UNCHANGED <<now, nowP>>
  BY DEF Next, IngestStep, PruneStep, ReadStep, vars, IngestBegin, IngestLock, IngestKnown,
         IngestReject, IngestLoad, IngestCAS, IngestInsert, IngestAppend, PruneLock, PruneOne,
         ReadBegin, ReadShard, ReadEntry, ReadEnd
<1>5. QED
  BY <1>1, <1>2, <1>3, <1>4

(* The invariant is inductive.                                               *)
LEMMA NextIInv == IInv /\ [Next]_vars => IInv'
<1> SUFFICES ASSUME IInv, [Next]_vars PROVE IInv'
  OBVIOUS
<1>1. Good'
  <2>1. CASE \E i \in Ingester : IngestBegin(i) \/ IngestStep(i)
    BY <2>1, IngestBeginInv, IngestLockInv, IngestKnownInv, IngestRejectInv, IngestLoadInv,
       IngestCASInv, IngestInsertInv, IngestAppendInv DEF IngestStep
  <2>2. CASE \E p \in Pruner, s \in Service : PruneOne(p, s)
    BY <2>2, PruneOneInv
  <2>3. CASE Tick
    BY <2>3, TickInv
  <2>4. CASE UNCHANGED <<now, buffers, lastSeen, svcCount, pcI, op, loaded, target>>
    BY <2>4, Quiet DEF Good
  <2>5. CASE \E p \in Pruner : PruneStep(p)
    <3>1. \/ \E p \in Pruner, s \in Service : PruneOne(p, s)
          \/ UNCHANGED <<now, buffers, lastSeen, svcCount, pcI, op, loaded, target>>
      BY <2>5 DEF PruneStep, PruneBegin, PruneLock, PruneUnlock
    <3>2. QED
      BY <2>2, <2>4, <3>1
  <2>6. CASE \E r \in Reader : ReadStep(r)
    <3>1. UNCHANGED <<now, buffers, lastSeen, svcCount, pcI, op, loaded, target>>
      BY <2>6 DEF ReadStep, ReadBegin, ReadShard, ReadEntry, ReadEnd
    <3>2. QED
      BY <2>4, <3>1
  <2>7. CASE UNCHANGED vars
    BY <2>4, <2>7 DEF vars
  <2>8. QED
    BY <2>1, <2>3, <2>5, <2>6, <2>7 DEF Next
<1>2. Base'
  BY NextBase DEF IInv
<1>3. PrunerBehind'
  BY NextBehind
<1>4. QED
  BY <1>1, <1>2, <1>3 DEF IInv, Good

(* svcCount never passes MaxServices and always equals the services in the   *)
(* maps plus the reservations in flight, for any number of threads and       *)
(* shards: the CAS loop of Ingest and the Add(-1) of Prune cannot drift.     *)
THEOREM AdmissionBounded == Spec => []AdmissionBound
<1>1. Spec => []IInv
  BY InitIInv, NextIInv, PTL DEF Spec
<1>2. IInv => AdmissionBound
  BY DEF IInv
<1>3. QED
  BY <1>1, <1>2, PTL

(* A point is appended to a detached buffer only if it is older than         *)
(* StaleAge - Lag: what the unlock before buf.Append can lose is bounded.    *)
THEOREM OnlyOldLost == Spec => []LostOnlyIfOld
<1>1. Spec => []IInv
  BY InitIInv, NextIInv, PTL DEF Spec
<1>2. IInv => LostOnlyIfOld
  BY DEF IInv, Noted, LostOnlyIfOld
<1>3. QED
  BY <1>1, <1>2, PTL

-----------------------------------------------------------------------------
(* An insertion is a Seen step of the registry, which had room.              *)
LEMMA InsertIsSeen ==
  ASSUME IInv, NEW i \in Ingester, IngestInsert(i)
  PROVE  Registry!Seen(op[i].svc)
<1>1. Cardinality(Registered) < MaxServices
  <2>1. Cardinality(Reserving) # 0
    BY InsertEffect, FS_EmptySet
  <2>2. QED
    BY <2>1, InsertEffect, BoundAssumption DEF IInv, AdmissionBound
<1>2. lastSeen' = [lastSeen EXCEPT ![op[i].svc] = op[i].ts] /\ UNCHANGED now
  BY DEF IngestInsert
<1>3. Registry!Cardinality(Registered) < MaxServices
  BY <1>1 DEF Cardinality, Registry!Cardinality
<1>4. QED
  BY <1>2, <1>3, InsertEffect DEF Registry!Seen

(* A refresh is a Seen step of a service already known.                      *)
LEMMA KnownIsSeen ==
  ASSUME IInv, NEW i \in Ingester, IngestKnown(i)
  PROVE  Registry!Seen(op[i].svc)
<1>1. op[i].svc \in Registered /\ op[i].ts \in 1 .. now
  BY DEF IngestKnown, IInv, Base, LockHeld, Registered
<1>2. Registered' = Registered \cup {op[i].svc}
  BY <1>1 DEF IngestKnown, Registered
<1>3. lastSeen' = [lastSeen EXCEPT ![op[i].svc] = op[i].ts] /\ UNCHANGED now
  BY DEF IngestKnown
<1>4. QED
  BY <1>1, <1>2, <1>3 DEF Registry!Seen

(* A deletion is a Forget step of a service that is stale at this instant.   *)
LEMMA PruneIsForget ==
  ASSUME IInv, NEW p \in Pruner, NEW s \in Service, PruneOne(p, s)
  PROVE  Registry!Forget(s)
<1>1. /\ s \in Registered /\ nowP[p] - lastSeen[s] > StaleAge
      /\ buffers' = [buffers EXCEPT ![s] = None]
      /\ lastSeen' = [lastSeen EXCEPT ![s] = 0] /\ UNCHANGED now
  BY DEF PruneOne, StaleInShard
<1>2. /\ nowP[p] \in Int /\ now \in Int /\ nowP[p] <= now /\ lastSeen[s] \in Int
      /\ StaleAge \in Int
  BY BoundAssumption DEF IInv, Base, TypeOK, PrunerBehind, Time
<1>3. now - lastSeen[s] > StaleAge
  BY <1>1, <1>2
<1>4. Registered' = Registered \ {s}
  BY <1>1 DEF Registered, IInv, Base, TypeOK
<1>5. QED
  BY <1>1, <1>3, <1>4 DEF Registry!Forget

(* Every step of the store is a step of the registry or leaves it alone.     *)
LEMMA NextRefines == IInv /\ [Next]_vars => [Registry!Next]_(Registry!vars)
<1> SUFFICES ASSUME IInv, [Next]_vars PROVE [Registry!Next]_(Registry!vars)
  OBVIOUS
<1>1. CASE \E i \in Ingester : IngestKnown(i) \/ IngestInsert(i)
  <2>1. PICK i \in Ingester : IngestKnown(i) \/ IngestInsert(i)
    BY <1>1
  <2>2. Registry!Seen(op[i].svc)
    BY <2>1, InsertIsSeen, KnownIsSeen
  <2>3. op[i].svc \in Service
    BY <2>1 DEF IngestKnown, IngestInsert, IInv, Base, LockHeld
  <2>4. QED
    BY <2>2, <2>3 DEF Registry!Next
<1>2. CASE \E p \in Pruner, s \in Service : PruneOne(p, s)
  BY <1>2, PruneIsForget DEF Registry!Next
<1>3. CASE Tick
  <2>1. Registered' = Registered /\ UNCHANGED lastSeen /\ now' = now + 1
    BY <1>3 DEF Tick, Registered
  <2>2. QED
    BY <2>1 DEF Registry!Next, Registry!Tick
<1>4. CASE UNCHANGED <<buffers, lastSeen, now>>
  <2>1. Registered' = Registered
    BY <1>4 DEF Registered
  <2>2. QED
    BY <1>4, <2>1 DEF Registry!vars
<1>5. \/ \E i \in Ingester : IngestKnown(i) \/ IngestInsert(i)
      \/ \E p \in Pruner, s \in Service : PruneOne(p, s)
      \/ Tick
      \/ UNCHANGED <<buffers, lastSeen, now>>
  BY DEF Next, IngestStep, PruneStep, ReadStep, vars, IngestBegin, IngestLock,
         IngestReject, IngestLoad, IngestCAS, IngestAppend, PruneBegin, PruneLock, PruneUnlock,
         ReadBegin, ReadShard, ReadEntry, ReadEnd
<1>6. QED
  BY <1>1, <1>2, <1>3, <1>4, <1>5

(* The sharded store with its locks, counter and buffers implements the      *)
(* bounded registry: at every instant at most MaxServices services are       *)
(* tracked, and one leaves only when it is stale by the clock.               *)
THEOREM StoreRefinesRegistry == Spec => ImplementsRegistry
<1>1. Init => Registry!Init
  <2>1. ASSUME Init PROVE Registered = {} /\ lastSeen = [s \in Service |-> 0] /\ now = 1
    BY <2>1 DEF Init, Registered
  <2>2. QED
    BY <2>1 DEF Registry!Init
<1>2. Spec => []IInv
  BY InitIInv, NextIInv, PTL DEF Spec
<1>3. Spec => Registry!Spec
  BY <1>1, <1>2, NextRefines, PTL DEF Spec, Registry!Spec
<1>4. QED
  BY <1>3 DEF ImplementsRegistry

-----------------------------------------------------------------------------
HasPoints(b) == b # None /\ ring[b] # <<>>

(* A reader holds an entry of s whose buffer has points: its window is due.  *)
Collected(r, s) == \E e \in entries[r] : e.svc = s /\ HasPoints(e.buf)

(* What a reader under way owes the services that have been steady so far.   *)
OwedIn(r) ==
  /\ pcR[r] = "idle" => steady[r] = {}
  /\ pcR[r] # "collect" => atR[r] = 1
  /\ pcR[r] = "collect" => \A s \in steady[r] :
       /\ HasPoints(buffers[s])
       /\ nowR[r] - lastSeen[s] <= Cutoff
       /\ ShardOf[s] < atR[r] => Collected(r, s)
  /\ pcR[r] = "compute" => \A s \in steady[r] : s \in windows[r] \/ Collected(r, s)

ReaderInv == \A r \in Reader : steady[r] \subseteq Service /\ OwedIn(r)

(* A buffer that is pointed to before and after a step loses no points in    *)
(* it: a full one evicts a point only to take another, a new buffer is one   *)
(* nothing pointed to, and the collector clears only what nobody points to.  *)
LEMMA PointsStay ==
  ASSUME IInv, [Next]_vars, NEW b \in Live, b \in Live', HasPoints(b)
  PROVE  HasPoints(b)'
<1>1. b # None /\ ring[b] # <<>>
  BY DEF HasPoints
<1>2. b \in Buf
  BY <1>1 DEF Live, IInv, Base, TypeOK, Entry
<1>3. ring \in [Buf -> Seq(Time)]
  BY DEF IInv, Base, TypeOK
<1>4. CASE UNCHANGED ring \/ Collect(ring)
  BY <1>1, <1>2, <1>4 DEF HasPoints, Collect
<1>5. CASE \E i \in Ingester : IngestInsert(i)
  <2>1. PICK a \in Buf \ Live : ring' = [ring EXCEPT ![a] = <<>>]
    BY <1>5 DEF IngestInsert
  <2>. QED  BY <1>1, <1>2, <1>3, <2>1 DEF HasPoints
<1>6. CASE \E i \in Ingester : IngestAppend(i)
  <2>1. PICK i \in Ingester : Collect([ring EXCEPT ![target[i]] = Pushed(@, op[i].ts)])
    BY <1>6 DEF IngestAppend
  <2>2. ring'[b] = [ring EXCEPT ![target[i]] = Pushed(@, op[i].ts)][b]
    BY <1>2, <2>1 DEF Collect
  <2>3. Pushed(ring[b], op[i].ts) # <<>>
    <3>1. ring[b] \in Seq(Time) /\ Tail(ring[b]) \in Seq(Time) /\ op[i].ts \in Time
      BY <1>1, <1>2, <1>3 DEF IInv, Base, TypeOK
    <3>2. ASSUME NEW q \in Seq(Time) PROVE Append(q, op[i].ts) # <<>>
      BY <3>1
    <3>. QED  BY <3>1, <3>2 DEF Pushed
  <2>. QED  BY <1>1, <1>2, <1>3, <2>2, <2>3 DEF HasPoints
<1>7. \/ UNCHANGED ring \/ Collect(ring)
      \/ \E i \in Ingester : IngestInsert(i) \/ IngestAppend(i)
  BY DEF Next, IngestStep, PruneStep, ReadStep, vars, IngestBegin, IngestLock, IngestKnown,
         IngestReject, IngestLoad, IngestCAS, PruneBegin, PruneLock, PruneOne, PruneUnlock,
         ReadBegin, ReadShard, ReadEntry, ReadEnd, Tick
<1>. QED  BY <1>4, <1>5, <1>6, <1>7

(* A service that is in the map before and after a step has the same buffer. *)
LEMMA SameBuffer ==
  ASSUME IInv, [Next]_vars, NEW s \in Service, buffers[s] # None, buffers'[s] # None
  PROVE  buffers'[s] = buffers[s]
<1>1. CASE \E i \in Ingester : IngestInsert(i)
  <2>1. PICK i \in Ingester : IngestInsert(i)
    BY <1>1
  <2>2. op[i].svc # s
    BY <2>1, InsertEffect DEF Registered
  <2>. QED  BY <2>1, <2>2 DEF IngestInsert, IInv, Base, TypeOK
<1>2. CASE \E p \in Pruner, x \in Service : PruneOne(p, x)
  BY <1>2 DEF PruneOne, IInv, Base, TypeOK
<1>3. CASE UNCHANGED buffers
  BY <1>3
<1>4. \/ \E i \in Ingester : IngestInsert(i)
      \/ \E p \in Pruner, x \in Service : PruneOne(p, x)
      \/ UNCHANGED buffers
  BY DEF Next, IngestStep, PruneStep, ReadStep, vars, IngestBegin, IngestLock, IngestKnown,
         IngestReject, IngestLoad, IngestCAS, IngestAppend, PruneBegin, PruneLock, PruneUnlock,
         ReadBegin, ReadShard, ReadEntry, ReadEnd, Tick
<1>. QED  BY <1>1, <1>2, <1>3, <1>4

(* A reader's entries keep their points while it keeps them.                 *)
LEMMA CollectedStays ==
  ASSUME IInv, [Next]_vars, NEW r \in Reader, NEW s \in Service,
         NEW e \in entries[r], e \in entries'[r], e.svc = s, HasPoints(e.buf)
  PROVE  Collected(r, s)'
<1>1. e.buf \in Live /\ e.buf \in Live'
  BY DEF Live
<1>. QED  BY <1>1, PointsStay DEF Collected, HasPoints

(* The steps that are not r's leave what it owes and what it has.            *)
LEMMA OthersLeaveOwed ==
  ASSUME IInv, ReaderInv, [Next]_vars, Remembered, NEW r \in Reader,
         pcR'[r] = pcR[r], atR'[r] = atR[r], nowR'[r] = nowR[r],
         entries'[r] = entries[r], windows'[r] = windows[r]
  PROVE  steady'[r] \subseteq Service /\ OwedIn(r)'
<1>1. steady'[r] = SteadyAfter(r) /\ steady[r] \subseteq Service /\ OwedIn(r)
  BY DEF Remembered, ReaderInv
<1>2. pcR[r] \in {"idle", "collect", "compute"}
  BY DEF IInv, Base, TypeOK
<1>3. ASSUME NEW s \in Service, Collected(r, s) PROVE Collected(r, s)'
  <2>1. PICK e \in entries[r] : e.svc = s /\ HasPoints(e.buf)
    BY <1>3 DEF Collected
  <2>. QED  BY <2>1, CollectedStays
<1>4. CASE pcR[r] = "idle"
  <2>1. steady'[r] = {}
    BY <1>1, <1>4 DEF SteadyAfter
  <2>. QED  BY <1>1, <1>4, <2>1 DEF OwedIn
<1>5. CASE pcR[r] = "collect"
  <2>1. steady'[r] = {s \in steady[r] : s \in Registered' /\ nowR[r] - lastSeen'[s] <= Cutoff}
    BY <1>1, <1>5 DEF SteadyAfter
  <2>2. ASSUME NEW s \in steady'[r]
        PROVE  /\ s \in Service /\ HasPoints(buffers[s])' /\ nowR'[r] - lastSeen'[s] <= Cutoff
               /\ ShardOf[s] < atR'[r] => Collected(r, s)'
    <3>1. /\ s \in Service /\ buffers'[s] # None /\ nowR[r] - lastSeen'[s] <= Cutoff
          /\ HasPoints(buffers[s])
          /\ ShardOf[s] < atR[r] => Collected(r, s)
      BY <1>1, <1>5, <2>1, <2>2 DEF Registered, OwedIn
    <3>2. buffers'[s] = buffers[s]
      BY <3>1, SameBuffer DEF HasPoints
    <3>3. buffers[s] \in Live /\ buffers[s] \in Live'
      BY <3>1, <3>2 DEF Live
    <3>4. ring'[buffers[s]] # <<>> /\ buffers[s] # None
      BY <3>1, <3>3, PointsStay DEF HasPoints
    <3>5. HasPoints(buffers[s])'
      BY <3>2, <3>4 DEF HasPoints
    <3>. QED  BY <1>3, <3>1, <3>5
  <2>. QED  BY <1>5, <2>2 DEF OwedIn
<1>6. CASE pcR[r] = "compute"
  <2>1. steady'[r] = steady[r]
    BY <1>1, <1>6 DEF SteadyAfter
  <2>. QED  BY <1>1, <1>3, <1>6, <2>1 DEF OwedIn
<1>. QED  BY <1>2, <1>4, <1>5, <1>6

(* AllWindows begins: every steady service is still to be collected.         *)
LEMMA BeginOwes ==
  ASSUME IInv, ReaderInv, [Next]_vars, Remembered, NEW r \in Reader, ReadBegin(r)
  PROVE  steady'[r] \subseteq Service /\ OwedIn(r)'
<1>1. /\ steady'[r] = SteadyAfter(r) /\ pcR[r] = "idle"
      /\ UNCHANGED <<now, buffers, ring, lastSeen, atR, entries>>
  BY DEF Remembered, ReadBegin
<1>2. CASE pcR'[r] = "idle"
  BY <1>1, <1>2 DEF SteadyAfter, OwedIn, ReaderInv
<1>3. CASE pcR'[r] = "collect"
  <2>1. steady'[r] = {s \in Service : Readable(s, now)}
    BY <1>1, <1>3 DEF SteadyAfter
  <2>2. nowR'[r] = now
    BY <1>1, <1>3 DEF ReadBegin, IInv, Base, TypeOK
  <2>3. atR[r] = 1
    BY <1>1 DEF ReaderInv, OwedIn
  <2>. QED  BY <1>1, <1>3, <2>1, <2>2, <2>3, ShardAssumption DEF Shard, OwedIn, Readable, HasPoints
<1>. QED  BY <1>1, <1>2, <1>3 DEF ReadBegin, IInv, Base, TypeOK

(* A shard is visited: what it holds of the steady services is collected.    *)
LEMMA ShardCollects ==
  ASSUME IInv, ReaderInv, [Next]_vars, Remembered, NEW r \in Reader, ReadShard(r)
  PROVE  steady'[r] \subseteq Service /\ OwedIn(r)'
<1>1. /\ pcR[r] = "collect" /\ UNCHANGED <<buffers, ring, lastSeen>>
      /\ entries'[r] = entries[r] \cup FreshEntries(r, atR[r])
  BY DEF ReadShard, IInv, Base, TypeOK
<1>2. /\ steady'[r] \subseteq steady[r] /\ steady[r] \subseteq Service /\ OwedIn(r)
  BY <1>1 DEF Remembered, SteadyAfter, ReaderInv
<1>3. ASSUME NEW s \in steady'[r]
      PROVE  /\ s \in Service /\ HasPoints(buffers[s]) /\ nowR[r] - lastSeen[s] <= Cutoff
             /\ ShardOf[s] <= atR[r] => Collected(r, s)'
  <2>1. /\ s \in Service /\ HasPoints(buffers[s]) /\ nowR[r] - lastSeen[s] <= Cutoff
        /\ ShardOf[s] < atR[r] => Collected(r, s)
    BY <1>1, <1>2, <1>3 DEF OwedIn
  <2>2. CASE ShardOf[s] = atR[r]
    <3>1. [svc |-> s, buf |-> buffers[s]] \in FreshEntries(r, atR[r])
      BY <2>1, <2>2 DEF FreshEntries, Registered, HasPoints
    <3>2. HasPoints(buffers[s])'
      BY <1>1, <2>1 DEF HasPoints
    <3>3. [svc |-> s, buf |-> buffers[s]] \in entries'[r]
      BY <1>1, <3>1
    <3>4. Collected(r, s)'
      BY <1>1, <3>2, <3>3 DEF Collected, HasPoints
    <3>. QED  BY <2>1, <3>4
  <2>3. CASE ShardOf[s] < atR[r]
    BY <1>1, <2>1, <2>3 DEF Collected, HasPoints
  <2>4. ShardOf[s] \in Int /\ atR[r] \in Int
    BY <2>1, ShardAssumption DEF Shard, IInv, Base, TypeOK
  <2>. QED  BY <2>1, <2>2, <2>3, <2>4
<1>4. \A s \in steady'[r] : HasPoints(buffers[s])'
  BY <1>1, <1>3 DEF HasPoints
<1>5. /\ atR \in [Reader -> Shard] /\ pcR \in [Reader -> {"idle", "collect", "compute"}]
      /\ \A s \in Service : ShardOf[s] \in 1 .. NumShards
      /\ NumShards \in Nat /\ atR[r] \in 1 .. NumShards
  BY ShardAssumption DEF IInv, Base, TypeOK, Shard
<1>6. CASE atR[r] < NumShards /\ atR' = [atR EXCEPT ![r] = @ + 1] /\ pcR' = pcR /\ nowR' = nowR
  <2>1. \A s \in steady'[r] : ShardOf[s] < atR'[r] => ShardOf[s] <= atR[r]
    BY <1>3, <1>5, <1>6
  <2>. QED  BY <1>1, <1>2, <1>3, <1>4, <1>6, <2>1 DEF OwedIn
<1>7. CASE /\ atR[r] = NumShards
           /\ atR' = [atR EXCEPT ![r] = 1] /\ pcR' = [pcR EXCEPT ![r] = "compute"]
  <2>1. atR'[r] = 1 /\ pcR'[r] = "compute"
    BY <1>5, <1>7
  <2>2. \A s \in steady'[r] : ShardOf[s] <= atR[r]
    BY <1>3, <1>5, <1>7
  <2>. QED  BY <1>2, <1>3, <2>1, <2>2 DEF OwedIn
<1>. QED  BY <1>6, <1>7 DEF ReadShard

(* An entry is read: the service whose buffer has points gets its window.    *)
LEMMA EntryPays ==
  ASSUME IInv, ReaderInv, [Next]_vars, Remembered, NEW r \in Reader, NEW e \in Entry,
         ReadEntry(r, e)
  PROVE  steady'[r] \subseteq Service /\ OwedIn(r)'
<1>1. /\ pcR[r] = "compute" /\ pcR'[r] = "compute" /\ e \in entries[r] /\ UNCHANGED atR
      /\ entries'[r] = entries[r] \ {e}
      /\ windows'[r] = IF ring[e.buf] = <<>> THEN windows[r] ELSE windows[r] \cup {e.svc}
  BY DEF ReadEntry, IInv, Base, TypeOK
<1>2. steady'[r] = steady[r] /\ steady[r] \subseteq Service /\ OwedIn(r)
  BY <1>1 DEF Remembered, SteadyAfter, ReaderInv
<1>3. ASSUME NEW s \in steady[r], s \notin windows'[r] PROVE Collected(r, s)'
  <2>1. s \notin windows[r] /\ ~(e.svc = s /\ HasPoints(e.buf))
    BY <1>1, <1>3 DEF HasPoints
  <2>2. PICK f \in entries[r] : f.svc = s /\ HasPoints(f.buf)
    BY <1>1, <1>2, <2>1 DEF OwedIn, Collected
  <2>3. f \in entries'[r]
    BY <1>1, <2>1, <2>2
  <2>. QED  BY <1>2, <2>2, <2>3, CollectedStays
<1>. QED  BY <1>1, <1>2, <1>3 DEF OwedIn

LEMMA EndOwesNothing ==
  ASSUME IInv, ReaderInv, Remembered, NEW r \in Reader, ReadEnd(r)
  PROVE  steady'[r] \subseteq Service /\ OwedIn(r)'
<1>1. pcR[r] = "compute" /\ pcR'[r] = "idle" /\ UNCHANGED atR /\ steady'[r] = SteadyAfter(r)
  BY DEF ReadEnd, Remembered, IInv, Base, TypeOK
<1>2. steady'[r] = {} /\ atR[r] = 1
  BY <1>1 DEF SteadyAfter, ReaderInv, OwedIn
<1>. QED  BY <1>1, <1>2 DEF OwedIn

LEMMA NextReaderInv ==
  ASSUME IInv, ReaderInv, [HistoryNext]_historyVars PROVE ReaderInv'
<1>1. CASE UNCHANGED historyVars
  BY <1>1 DEF historyVars, vars, ReaderInv, OwedIn, Collected, HasPoints
<1>2. CASE HistoryNext
  <2>1. Next /\ Remembered
    BY <1>2 DEF HistoryNext
  <2>. SUFFICES ASSUME NEW r \in Reader PROVE steady'[r] \subseteq Service /\ OwedIn(r)'
    BY DEF ReaderInv
  <2>2. CASE ReadStep(r)
    BY <2>1, <2>2, BeginOwes, ShardCollects, EntryPays, EndOwesNothing DEF ReadStep
  <2>3. CASE ~ReadStep(r)
    <3>1. CASE \E x \in Reader : ReadStep(x)
      <4>1. PICK x \in Reader : ReadStep(x)
        BY <3>1
      <4>2. x # r
        BY <2>3, <4>1
      <4>3. /\ pcR'[r] = pcR[r] /\ atR'[r] = atR[r] /\ nowR'[r] = nowR[r]
            /\ entries'[r] = entries[r] /\ windows'[r] = windows[r]
        BY <4>1, <4>2 DEF ReadStep, ReadBegin, ReadShard, ReadEntry, ReadEnd, IInv, Base, TypeOK
      <4>. QED  BY <2>1, <4>3, OthersLeaveOwed
    <3>2. CASE UNCHANGED <<pcR, atR, nowR, entries, windows>>
      BY <2>1, <3>2, OthersLeaveOwed
    <3>3. (\E x \in Reader : ReadStep(x)) \/ UNCHANGED <<pcR, atR, nowR, entries, windows>>
      BY <2>1 DEF Next, IngestStep, PruneStep, IngestBegin, IngestLock, IngestKnown,
         IngestReject, IngestLoad, IngestCAS, IngestInsert, IngestAppend, PruneBegin, PruneLock,
         PruneOne, PruneUnlock, Tick
    <3>. QED  BY <3>1, <3>2, <3>3
  <2>. QED  BY <2>2, <2>3
<1>. QED  BY <1>1, <1>2

(* For any number of readers, ingesters and pruners, a call of AllWindows    *)
(* returns a window for every service that was registered, fresh and not     *)
(* empty all along, and returns early only when there is none.               *)
THEOREM NoServiceMissed == HistorySpec => []NothingMissed
<1>1. HistoryInit => IInv /\ ReaderInv
  BY InitIInv DEF HistoryInit, Init, ReaderInv, OwedIn
<1>2. IInv /\ ReaderInv /\ [HistoryNext]_historyVars => (IInv /\ ReaderInv)'
  BY NextIInv, NextReaderInv DEF HistoryNext, historyVars
<1>3. IInv /\ ReaderInv => NothingMissed
  <2>. SUFFICES ASSUME IInv, ReaderInv PROVE NothingMissed
    OBVIOUS
  <2>1. ASSUME NEW r \in Reader, pcR[r] = "compute", entries[r] = {}
        PROVE  steady[r] \subseteq windows[r]
    BY <2>1 DEF ReaderInv, OwedIn, Collected
  <2>2. ASSUME svcCount = 0 PROVE Registered = {}
    <3>1. IsFiniteSet(Registered) /\ IsFiniteSet(Reserving)
      BY FiniteAssumption, FS_Subset DEF Registered, Reserving
    <3>2. Cardinality(Registered) \in Nat /\ Cardinality(Reserving) \in Nat
      BY <3>1, FS_CardinalityType
    <3>3. Cardinality(Registered) = 0
      BY <2>2, <3>2 DEF IInv, AdmissionBound
    <3>. QED  BY <3>1, <3>3, FS_EmptySet
  <2>. QED  BY <2>1, <2>2 DEF NothingMissed
<1>. QED  BY <1>1, <1>2, <1>3, PTL DEF HistorySpec

-----------------------------------------------------------------------------
(* The time noted for a registered service is at most Lag behind the newest  *)
(* of its points that were accepted.                                         *)
NewestInv ==
  /\ newest \in [Service -> Time]
  /\ \A s \in Service :
       /\ newest[s] <= now
       /\ s \in Registered => newest[s] - lastSeen[s] <= Lag
       /\ s \notin Registered => newest[s] = 0

(* Only an ingester that notes its point's service accepts a point.          *)
LEMMA AcceptedByNoting ==
  ASSUME IInv, Next, NEW s \in Service, Accepted(s) # {}
  PROVE  \E i \in Ingester : /\ IngestKnown(i) \/ IngestInsert(i)
                             /\ op[i].svc = s /\ Accepted(s) = {op[i].ts}
<1>1. PICK i \in Ingester : op[i].svc = s /\ pcI[i] \in {"lookup", "insert"} /\ pcI'[i] = "append"
  BY DEF Accepted
<1>2. pcI \in [Ingester -> {"idle", "lock", "lookup", "cas", "insert", "append"}]
  BY DEF IInv, Base, TypeOK
<1>3. PICK j \in Ingester : IngestBegin(j) \/ IngestStep(j)
  BY <1>1 DEF Next, PruneStep, ReadStep, PruneBegin, PruneLock, PruneOne, PruneUnlock,
     ReadBegin, ReadShard, ReadEntry, ReadEnd, Tick
<1>4. PICK to \in {"idle", "lock", "lookup", "cas", "insert", "append"} : pcI' = [pcI EXCEPT ![j] = to]
  BY <1>3 DEF IngestStep, IngestBegin, IngestLock, IngestKnown, IngestReject, IngestLoad,
     IngestCAS, IngestInsert, IngestAppend, GoI
<1>5. \A k \in Ingester : pcI[k] \in {"lookup", "insert"} /\ pcI'[k] = "append" => k = j
  BY <1>2, <1>4
<1>6. i = j
  BY <1>1, <1>5
<1>7. Accepted(s) = {op[i].ts}
  BY <1>1, <1>5, <1>6 DEF Accepted
<1>8. IngestKnown(i) \/ IngestInsert(i)
  BY <1>1, <1>2, <1>3, <1>6 DEF IngestStep, IngestBegin, IngestLock, IngestReject, IngestLoad,
     IngestCAS, IngestAppend, GoI
<1>. QED  BY <1>1, <1>7, <1>8

(* A service leaves the map only when a pruner deletes it.                   *)
LEMMA LeavesByPruning ==
  ASSUME IInv, Next, NEW s \in Registered, s \notin Registered'
  PROVE  \E p \in Pruner : PruneOne(p, s)
<1>1. buffers[s] # None /\ s \in Service /\ buffers'[s] = None
  BY DEF Registered
<1>2. CASE \E i \in Ingester : IngestInsert(i)
  BY <1>1, <1>2, InsertEffect
<1>3. CASE \E p \in Pruner, x \in Service : PruneOne(p, x)
  <2>1. PICK p \in Pruner, x \in Service : PruneOne(p, x)
    BY <1>3
  <2>2. x = s
    BY <1>1, <2>1 DEF PruneOne, IInv, Base, TypeOK
  <2>. QED  BY <2>1, <2>2
<1>4. CASE UNCHANGED buffers
  BY <1>1, <1>4
<1>5. \/ \E i \in Ingester : IngestInsert(i)
      \/ \E p \in Pruner, x \in Service : PruneOne(p, x)
      \/ UNCHANGED buffers
  BY DEF Next, IngestStep, PruneStep, ReadStep, IngestBegin, IngestLock, IngestKnown,
         IngestReject, IngestLoad, IngestCAS, IngestAppend, PruneBegin, PruneLock, PruneUnlock,
         ReadBegin, ReadShard, ReadEntry, ReadEnd, Tick
<1>. QED  BY <1>2, <1>3, <1>4, <1>5

(* A registered service whose points no step accepts was registered before,  *)
(* with the same time noted.                                                 *)
LEMMA UnnotedStays ==
  ASSUME IInv, Next, NEW s \in Service, s \in Registered', Accepted(s) = {}
  PROVE  s \in Registered /\ lastSeen'[s] = lastSeen[s]
<1>1. buffers'[s] # None
  BY DEF Registered
<1>2. CASE \E i \in Ingester : IngestKnown(i) \/ IngestInsert(i)
  <2>1. PICK i \in Ingester : IngestKnown(i) \/ IngestInsert(i)
    BY <1>2
  <2>2. pcI[i] \in {"lookup", "insert"} /\ pcI'[i] = "append"
    BY <2>1 DEF IngestKnown, IngestInsert, GoI, IInv, Base, TypeOK
  <2>3. op[i].svc # s
    BY <2>2 DEF Accepted
  <2>. QED  BY <1>1, <2>1, <2>3 DEF IngestKnown, IngestInsert, IInv, Base, TypeOK, Registered
<1>3. CASE \E p \in Pruner, x \in Service : PruneOne(p, x)
  BY <1>1, <1>3 DEF PruneOne, IInv, Base, TypeOK, Registered
<1>4. CASE UNCHANGED <<buffers, lastSeen>>
  BY <1>1, <1>4 DEF Registered
<1>5. \/ \E i \in Ingester : IngestKnown(i) \/ IngestInsert(i)
      \/ \E p \in Pruner, x \in Service : PruneOne(p, x)
      \/ UNCHANGED <<buffers, lastSeen>>
  BY DEF Next, IngestStep, PruneStep, ReadStep, IngestBegin, IngestLock,
         IngestReject, IngestLoad, IngestCAS, IngestAppend, PruneBegin, PruneLock, PruneUnlock,
         ReadBegin, ReadShard, ReadEntry, ReadEnd, Tick
<1>. QED  BY <1>2, <1>3, <1>4, <1>5

(* The larger of two times.                                                  *)
LEMMA MaxOfTwo ==
  ASSUME NEW a \in Time, NEW b \in Time
  PROVE  Max({a} \cup {b}) = IF a < b THEN b ELSE a
<1>. DEFINE m == IF a < b THEN b ELSE a
<1>1. m \in {a} \cup {b} /\ \A y \in {a} \cup {b} : m >= y
  BY DEF Time
<1>2. \A x \in {a} \cup {b} : (\A y \in {a} \cup {b} : x >= y) => x = m
  BY DEF Time
<1>. QED  BY <1>1, <1>2 DEF Max

LEMMA MaxOfOne ==
  ASSUME NEW a \in Time PROVE Max({a} \cup {}) = a
  BY DEF Max, Time

LEMMA NextNewestInv ==
  ASSUME IInv, NewestInv, [HistoryNext]_historyVars PROVE NewestInv'
<1>1. CASE UNCHANGED historyVars
  BY <1>1 DEF historyVars, vars, NewestInv, Registered
<1>2. CASE HistoryNext
  <2>1. Next /\ newest' = [s \in Service |->
                    IF s \in Registered' THEN Max({newest[s]} \cup Accepted(s)) ELSE 0]
    BY <1>2 DEF HistoryNext, Remembered
  <2>2. /\ now \in Time /\ now' \in Time /\ now <= now' /\ Lag \in Nat /\ 0 \in Time
        /\ lastSeen \in [Service -> Time] /\ newest \in [Service -> Time]
        /\ \A t \in Time : t \in Nat
    <3>1. now' = now \/ (now' = now + 1 /\ now < MaxTime)
      BY <2>1 DEF Next, IngestStep, PruneStep, ReadStep, IngestBegin, IngestLock, IngestKnown,
         IngestReject, IngestLoad, IngestCAS, IngestInsert, IngestAppend, PruneBegin, PruneLock,
         PruneOne, PruneUnlock, ReadBegin, ReadShard, ReadEntry, ReadEnd, Tick
    <3>2. now \in 1 .. MaxTime /\ lastSeen \in [Service -> Time] /\ newest \in [Service -> Time]
      BY DEF IInv, Base, TypeOK, NewestInv
    <3>. QED  BY <3>1, <3>2, BoundAssumption DEF Time
  <2>3. ASSUME NEW s \in Service
        PROVE  /\ newest'[s] \in Time /\ newest'[s] <= now'
               /\ s \in Registered' => newest'[s] - lastSeen'[s] <= Lag
               /\ s \notin Registered' => newest'[s] = 0
    <3>1. CASE s \notin Registered'
      BY <2>1, <2>2, <3>1
    <3>2. CASE s \in Registered' /\ Accepted(s) # {}
      <4>1. PICK i \in Ingester : /\ IngestKnown(i) \/ IngestInsert(i)
                                  /\ op[i].svc = s /\ Accepted(s) = {op[i].ts}
        BY <2>1, <3>2, AcceptedByNoting
      <4>2. /\ op[i].ts \in Time /\ op[i].ts <= now /\ now - op[i].ts <= Lag
            /\ now' = now /\ lastSeen'[s] = op[i].ts
        BY <4>1 DEF IngestKnown, IngestInsert, IInv, Base, TypeOK, LockHeld, Noted
      <4>3. newest'[s] = IF newest[s] < op[i].ts THEN op[i].ts ELSE newest[s]
        BY <2>1, <2>2, <3>2, <4>1, <4>2, MaxOfTwo
      <4>4. newest[s] <= now /\ newest[s] \in Nat /\ op[i].ts \in Nat /\ now \in Nat
        BY <2>2, <4>2 DEF NewestInv
      <4>. QED  BY <2>2, <3>2, <4>2, <4>3, <4>4
    <3>3. CASE s \in Registered' /\ Accepted(s) = {}
      <4>1. newest'[s] = newest[s]
        BY <2>1, <2>2, <3>3, MaxOfOne
      <4>2. s \in Registered /\ lastSeen'[s] = lastSeen[s]
        BY <2>1, <3>3, UnnotedStays
      <4>3. newest[s] <= now /\ newest[s] - lastSeen[s] <= Lag
        BY <4>2 DEF NewestInv
      <4>4. newest[s] \in Nat
        BY <2>2
      <4>. QED  BY <2>2, <3>3, <4>1, <4>2, <4>3, <4>4
    <3>. QED  BY <3>1, <3>2, <3>3
  <2>. QED  BY <2>1, <2>3 DEF NewestInv
<1>. QED  BY <1>1, <1>2

(* Whatever the order in which two scrapers of a service finish, a service   *)
(* is pruned only when every point accepted for it is older than             *)
(* StaleAge - Lag.                                                           *)
THEOREM PrunedWhenSilent == HistorySpec => PrunedOnlyIfSilent
<1>1. HistoryInit => IInv /\ NewestInv
  BY InitIInv, BoundAssumption DEF HistoryInit, Init, NewestInv, Registered, Time
<1>2. IInv /\ NewestInv /\ [HistoryNext]_historyVars => (IInv /\ NewestInv)'
  BY NextIInv, NextNewestInv DEF HistoryNext, historyVars
<1>3. IInv /\ NewestInv /\ [HistoryNext]_historyVars =>
        [\A s \in Service : s \in Registered /\ s \notin Registered' =>
             now - newest[s] > StaleAge - Lag]_historyVars
  <2>. SUFFICES ASSUME IInv, NewestInv, HistoryNext, NEW s \in Registered, s \notin Registered'
                PROVE  now - newest[s] > StaleAge - Lag
    BY DEF Registered
  <2>1. PICK p \in Pruner : PruneOne(p, s)
    BY LeavesByPruning DEF HistoryNext
  <2>2. nowP[p] - lastSeen[s] > StaleAge /\ nowP[p] <= now
    BY <2>1 DEF PruneOne, StaleInShard, IInv, PrunerBehind
  <2>3. s \in Service /\ newest[s] - lastSeen[s] <= Lag
    BY DEF Registered, NewestInv
  <2>4. /\ nowP[p] \in Int /\ now \in Int /\ lastSeen[s] \in Int /\ newest[s] \in Int
        /\ StaleAge \in Int /\ Lag \in Int
    BY <2>3, BoundAssumption DEF IInv, Base, TypeOK, NewestInv, Time
  <2>. QED  BY <2>2, <2>3, <2>4
<1>. QED  BY <1>1, <1>2, <1>3, PTL DEF HistorySpec, PrunedOnlyIfSilent
=============================================================================
