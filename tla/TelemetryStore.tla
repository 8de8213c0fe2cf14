--------------------------- MODULE TelemetryStore ---------------------------
(***************************************************************************)
(* telemetry/store.go: the sharded store.  Ingester threads (Prometheus    *)
(* scrapers and the edge consumer) call Ingest, pruner threads (the tick   *)
(* and the topology maintainer) call Prune, and reader threads (the tick   *)
(* and the API server) call AllWindows, all at once.                       *)
(*                                                                         *)
(* A step is the code between two points another thread can observe: lock  *)
(* operations, the atomic counter svcCount, and the ring buffers, whose    *)
(* methods are atomic (RingBuffer) and keep the newest points              *)
(* (RecentPoints).  A point is abstracted to its timestamp.                *)
(***************************************************************************)
EXTENDS Integers, Sequences, FiniteSets

CONSTANTS
  Service,      \* the service identifiers
  NumShards,    \* the number of lock domains
  ShardOf,      \* shardFor: the shard of each service
  MaxServices,  \* maxSvc
  StaleAge,     \* staleAge
  Cutoff,       \* freshnessCutoff of AllWindows
  BufCap,       \* bufCap
  Ingester,     \* threads calling Ingest
  Pruner,       \* threads calling Prune
  Reader,       \* threads calling AllWindows
  Buf,          \* identities of ring buffers
  None,         \* no buffer, no lock holder, no service
  Lag,          \* bound: oldest age of a point when Ingest notes it in lastSeen
  MaxTime       \* bound: the clock stops here

Shard == 1 .. NumShards
Time == 0 .. MaxTime
Thread == Ingester \cup Pruner

ASSUME ShardAssumption == NumShards \in Nat \ {0} /\ ShardOf \in [Service -> Shard]
ASSUME BoundAssumption ==
  /\ MaxServices \in Nat /\ BufCap \in Nat \ {0}
  /\ StaleAge \in Nat /\ Cutoff \in Nat /\ Lag \in Nat /\ MaxTime \in Nat \ {0}
ASSUME FiniteAssumption ==
  IsFiniteSet(Service) /\ IsFiniteSet(Ingester)
ASSUME NoneAssumption ==
  None \notin Service \cup Buf \cup Ingester \cup Pruner
ASSUME ThreadAssumption == Ingester \cap Pruner = {}

VARIABLES
  now,       \* the clock
  holder,    \* the thread holding each shard's mutex for writing
  buffers,   \* each service's ring buffer in its shard's map
  lastSeen,  \* each service's entry in lastSeen; 0 when absent
  svcCount,  \* the atomic admission counter
  ring,      \* the contents of the ring buffers
  pcI,       \* where each ingester is in Ingest
  op,        \* the point each ingester is ingesting
  loaded,    \* the value of svcCount it loaded
  target,    \* the buffer it will append to
  pcP,       \* where each pruner is in Prune
  atP,       \* its shard index
  nowP,      \* its argument now
  pcR,       \* where each reader is in AllWindows
  atR,       \* its shard index
  nowR,      \* the clock it read
  entries,   \* the buffer pointers it collected
  windows    \* the services it has a window for

clockVars == <<now>>
mapVars == <<buffers, lastSeen, svcCount>>
ingestVars == <<pcI, op, loaded, target>>
pruneVars == <<pcP, atP, nowP>>
readVars == <<pcR, atR, nowR, entries, windows>>
vars == <<now, holder, buffers, lastSeen, svcCount, ring,
          pcI, op, loaded, target, pcP, atP, nowP, pcR, atR, nowR, entries, windows>>

Entry == [svc : Service, buf : Buf]

TypeOK ==
  /\ now \in 1 .. MaxTime
  /\ holder \in [Shard -> Thread \cup {None}]
  /\ buffers \in [Service -> Buf \cup {None}]
  /\ lastSeen \in [Service -> Time]
  /\ svcCount \in Int
  /\ ring \in [Buf -> Seq(Time)]
  /\ pcI \in [Ingester -> {"idle", "lock", "lookup", "cas", "insert", "append"}]
  /\ op \in [Ingester -> [svc : Service \cup {None}, ts : Time]]
  /\ loaded \in [Ingester -> Int]
  /\ target \in [Ingester -> Buf \cup {None}]
  /\ pcP \in [Pruner -> {"idle", "lock", "scan"}]
  /\ atP \in [Pruner -> Shard]
  /\ nowP \in [Pruner -> Time]
  /\ pcR \in [Reader -> {"idle", "collect", "compute"}]
  /\ atR \in [Reader -> Shard]
  /\ nowR \in [Reader -> Time]
  /\ entries \in [Reader -> SUBSET Entry]
  /\ windows \in [Reader -> SUBSET Service]

Registered == {s \in Service : buffers[s] # None}

\* The buffers some map, thread or reader still points to.
Live == {buffers[s] : s \in Service} \cup {target[i] : i \in Ingester}
        \cup UNION {{e.buf : e \in entries[r]} : r \in Reader}

\* s with p appended, the oldest element evicted when s already holds BufCap.
Pushed(s, p) == IF Len(s) < BufCap THEN Append(s, p) ELSE Append(Tail(s), p)

NoOp == [svc |-> None, ts |-> 0]

\* NewStore
Init ==
  /\ now = 1
  /\ holder = [h \in Shard |-> None]
  /\ buffers = [s \in Service |-> None]
  /\ lastSeen = [s \in Service |-> 0]
  /\ svcCount = 0
  /\ ring = [b \in Buf |-> <<>>]
  /\ pcI = [i \in Ingester |-> "idle"]
  /\ op = [i \in Ingester |-> NoOp]
  /\ loaded = [i \in Ingester |-> 0]
  /\ target = [i \in Ingester |-> None]
  /\ pcP = [p \in Pruner |-> "idle"]
  /\ atP = [p \in Pruner |-> 1]
  /\ nowP = [p \in Pruner |-> 0]
  /\ pcR = [r \in Reader |-> "idle"]
  /\ atR = [r \in Reader |-> 1]
  /\ nowR = [r \in Reader |-> 0]
  /\ entries = [r \in Reader |-> {}]
  /\ windows = [r \in Reader |-> {}]

\* The mutex of shard h is free for t to take, and t takes it.
Acquire(t, h) ==
  /\ holder[h] = None
  /\ holder' = [holder EXCEPT ![h] = t]

Release(h) == holder' = [holder EXCEPT ![h] = None]

\* Buffers nothing points to any more are collected; the others become r.
Collect(r) == ring' = [b \in Buf |-> IF b \in Live' THEN r[b] ELSE <<>>]

GoI(i, to) == pcI' = [pcI EXCEPT ![i] = to]
GoP(p, to) == pcP' = [pcP EXCEPT ![p] = to]

-----------------------------------------------------------------------------
\* Ingest.  sanitizePoint has accepted the point; its timestamp was taken when
\* the scrape built it, some time before the point reaches the store.
IngestBegin(i) ==
  /\ pcI[i] = "idle"
  /\ \E s \in Service, t \in 1 .. now :
       /\ now - t <= Lag
       /\ op' = [op EXCEPT ![i] = [svc |-> s, ts |-> t]]
  /\ GoI(i, "lock")
  /\ UNCHANGED <<clockVars, holder, mapVars, ring, loaded, target, pruneVars, readVars>>

IngestLock(i) ==
  /\ pcI[i] = "lock"
  /\ Acquire(i, ShardOf[op[i].svc])
  /\ GoI(i, "lookup")
  /\ UNCHANGED <<clockVars, mapVars, ring, op, loaded, target, pruneVars, readVars>>

\* Mutated form of IngestKnown: a known service's lastSeen is not refreshed.
IngestKnownNoRefresh(i) ==
  LET s == op[i].svc IN
  /\ pcI[i] = "lookup"
  /\ buffers[s] # None
  /\ target' = [target EXCEPT ![i] = buffers[s]]
  /\ Release(ShardOf[s])
  /\ GoI(i, "append")
  /\ UNCHANGED <<clockVars, mapVars, ring, op, loaded, pruneVars, readVars>>

\* The service has a buffer: note the time, unlock.
IngestKnown(i) ==
  LET s == op[i].svc IN
  /\ pcI[i] = "lookup"
  /\ buffers[s] # None
  /\ target' = [target EXCEPT ![i] = buffers[s]]
  /\ lastSeen' = [lastSeen EXCEPT ![s] = op[i].ts]
  /\ Release(ShardOf[s])
  /\ GoI(i, "append")
  /\ UNCHANGED <<clockVars, buffers, svcCount, ring, op, loaded, pruneVars, readVars>>

\* Mutated form of IngestReject: the early return forgets to unlock.
IngestRejectKeepsLock(i) ==
  /\ pcI[i] = "lookup"
  /\ buffers[op[i].svc] = None
  /\ svcCount >= MaxServices
  /\ op' = [op EXCEPT ![i] = NoOp]
  /\ GoI(i, "idle")
  /\ UNCHANGED <<clockVars, holder, mapVars, ring, loaded, target, pruneVars, readVars>>

\* A new service and svcCount at its cap: unlock, drop the point.
IngestReject(i) ==
  /\ pcI[i] = "lookup"
  /\ buffers[op[i].svc] = None
  /\ svcCount >= MaxServices
  /\ Release(ShardOf[op[i].svc])
  /\ op' = [op EXCEPT ![i] = NoOp]
  /\ GoI(i, "idle")
  /\ UNCHANGED <<clockVars, mapVars, ring, loaded, target, pruneVars, readVars>>

\* A new service and room for it: svcCount.Load.
IngestLoad(i) ==
  /\ pcI[i] = "lookup"
  /\ buffers[op[i].svc] = None
  /\ svcCount < MaxServices
  /\ loaded' = [loaded EXCEPT ![i] = svcCount]
  /\ GoI(i, "cas")
  /\ UNCHANGED <<clockVars, holder, mapVars, ring, op, target, pruneVars, readVars>>

\* Mutated form of IngestCAS: the counter is added to without comparing.
IngestAddBlindly(i) ==
  /\ pcI[i] = "cas"
  /\ svcCount' = svcCount + 1
  /\ loaded' = [loaded EXCEPT ![i] = 0]
  /\ GoI(i, "insert")
  /\ UNCHANGED <<clockVars, holder, buffers, lastSeen, ring, op, target, pruneVars, readVars>>

\* CompareAndSwap: on failure the loop loads the counter again.
IngestCAS(i) ==
  /\ pcI[i] = "cas"
  /\ IF svcCount = loaded[i]
       THEN svcCount' = svcCount + 1 /\ GoI(i, "insert")
       ELSE UNCHANGED svcCount /\ GoI(i, "lookup")
  /\ loaded' = [loaded EXCEPT ![i] = 0]
  /\ UNCHANGED <<clockVars, holder, buffers, lastSeen, ring, op, target, pruneVars, readVars>>

\* The admitted service gets its buffer and its lastSeen entry; unlock.
IngestInsert(i) ==
  LET s == op[i].svc IN
  /\ pcI[i] = "insert"
  /\ Buf \ Live # {}
  /\ LET b == CHOOSE b \in Buf \ Live : TRUE
     IN  /\ buffers' = [buffers EXCEPT ![s] = b]
         /\ target' = [target EXCEPT ![i] = b]
         /\ ring' = [ring EXCEPT ![b] = <<>>]
  /\ lastSeen' = [lastSeen EXCEPT ![s] = op[i].ts]
  /\ Release(ShardOf[s])
  /\ GoI(i, "append")
  /\ UNCHANGED <<clockVars, svcCount, op, loaded, pruneVars, readVars>>

\* buf.Append, with no shard lock held: the service may be gone by now.
IngestAppend(i) ==
  /\ pcI[i] = "append"
  /\ target' = [target EXCEPT ![i] = None]
  /\ op' = [op EXCEPT ![i] = NoOp]
  /\ GoI(i, "idle")
  /\ UNCHANGED <<clockVars, holder, mapVars, loaded, pruneVars, readVars>>
  /\ Collect([ring EXCEPT ![target[i]] = Pushed(@, op[i].ts)])

-----------------------------------------------------------------------------
\* Prune
PruneBegin(p) ==
  /\ pcP[p] = "idle"
  /\ nowP' = [nowP EXCEPT ![p] = now]
  /\ GoP(p, "lock")
  /\ UNCHANGED <<clockVars, holder, mapVars, ring, ingestVars, atP, readVars>>

PruneLock(p) ==
  /\ pcP[p] = "lock"
  /\ Acquire(p, atP[p])
  /\ GoP(p, "scan")
  /\ UNCHANGED <<clockVars, mapVars, ring, ingestVars, atP, nowP, readVars>>

StaleInShard(p) ==
  {s \in Registered : ShardOf[s] = atP[p] /\ nowP[p] - lastSeen[s] > StaleAge}

\* Mutated form of PruneOne: the counter is not decremented.
PruneNoDecrement(p, s) ==
  /\ pcP[p] = "scan"
  /\ s \in StaleInShard(p)
  /\ buffers' = [buffers EXCEPT ![s] = None]
  /\ lastSeen' = [lastSeen EXCEPT ![s] = 0]
  /\ UNCHANGED <<clockVars, holder, svcCount, ingestVars, pruneVars, readVars>>
  /\ Collect(ring)

\* Mutated form of PruneOne: the age test is against the moving clock and
\* includes the boundary.
PruneAtBoundary(p, s) ==
  /\ pcP[p] = "scan"
  /\ s \in Registered /\ ShardOf[s] = atP[p] /\ now - lastSeen[s] >= StaleAge
  /\ buffers' = [buffers EXCEPT ![s] = None]
  /\ lastSeen' = [lastSeen EXCEPT ![s] = 0]
  /\ svcCount' = svcCount - 1
  /\ UNCHANGED <<clockVars, holder, ingestVars, pruneVars, readVars>>
  /\ Collect(ring)

\* The loop body: one stale service leaves both maps and the count.
PruneOne(p, s) ==
  /\ pcP[p] = "scan"
  /\ s \in StaleInShard(p)
  /\ buffers' = [buffers EXCEPT ![s] = None]
  /\ lastSeen' = [lastSeen EXCEPT ![s] = 0]
  /\ svcCount' = svcCount - 1
  /\ UNCHANGED <<clockVars, holder, ingestVars, pruneVars, readVars>>
  /\ Collect(ring)

\* Mutated form of PruneUnlock: the walk starts over before the last shard.
PruneSkipsLast(p) ==
  /\ pcP[p] = "scan"
  /\ StaleInShard(p) = {}
  /\ Release(atP[p])
  /\ atP' = [atP EXCEPT ![p] = 1]
  /\ nowP' = [nowP EXCEPT ![p] = 0]
  /\ GoP(p, "idle")
  /\ UNCHANGED <<clockVars, mapVars, ring, ingestVars, readVars>>

\* The shard's map has been walked: unlock, go on to the next shard.
PruneUnlock(p) ==
  /\ pcP[p] = "scan"
  /\ StaleInShard(p) = {}
  /\ Release(atP[p])
  /\ \/ /\ atP[p] < NumShards
        /\ atP' = [atP EXCEPT ![p] = @ + 1]
        /\ GoP(p, "lock")
        /\ nowP' = nowP
     \/ /\ atP[p] = NumShards
        /\ atP' = [atP EXCEPT ![p] = 1]
        /\ GoP(p, "idle")
        /\ nowP' = [nowP EXCEPT ![p] = 0]
  /\ UNCHANGED <<clockVars, mapVars, ring, ingestVars, readVars>>

-----------------------------------------------------------------------------
\* AllWindows: nothing to do when svcCount is 0, else read the clock.
ReadBegin(r) ==
  /\ pcR[r] = "idle"
  /\ windows' = [windows EXCEPT ![r] = {}]
  /\ \/ svcCount = 0 /\ pcR' = pcR /\ nowR' = nowR
     \/ /\ svcCount # 0
        /\ pcR' = [pcR EXCEPT ![r] = "collect"]
        /\ nowR' = [nowR EXCEPT ![r] = now]
  /\ UNCHANGED <<clockVars, holder, mapVars, ring, ingestVars, pruneVars, atR, entries>>

\* The entries of shard h whose lastSeen is within the cutoff.
FreshEntries(r, h) ==
  {[svc |-> s, buf |-> buffers[s]] :
     s \in {x \in Registered : ShardOf[x] = h /\ nowR[r] - lastSeen[x] <= Cutoff}}

\* Mutated form of ReadShard: the last shard is not visited.
ReadAllButLast(r) ==
  /\ pcR[r] = "collect"
  /\ holder[atR[r]] = None
  /\ entries' = [entries EXCEPT ![r] = IF atR[r] < NumShards THEN @ \cup FreshEntries(r, atR[r]) ELSE @]
  /\ \/ /\ atR[r] < NumShards
        /\ atR' = [atR EXCEPT ![r] = @ + 1]
        /\ pcR' = pcR /\ nowR' = nowR
     \/ /\ atR[r] = NumShards
        /\ atR' = [atR EXCEPT ![r] = 1]
        /\ nowR' = [nowR EXCEPT ![r] = 0]
        /\ pcR' = [pcR EXCEPT ![r] = "compute"]
  /\ UNCHANGED <<clockVars, holder, mapVars, ring, ingestVars, pruneVars, windows>>

\* Phase 1 on one shard, under its read lock.
ReadShard(r) ==
  /\ pcR[r] = "collect"
  /\ holder[atR[r]] = None
  /\ entries' = [entries EXCEPT ![r] = @ \cup FreshEntries(r, atR[r])]
  /\ \/ /\ atR[r] < NumShards
        /\ atR' = [atR EXCEPT ![r] = @ + 1]
        /\ pcR' = pcR /\ nowR' = nowR
     \/ /\ atR[r] = NumShards
        /\ atR' = [atR EXCEPT ![r] = 1]
        /\ nowR' = [nowR EXCEPT ![r] = 0]
        /\ pcR' = [pcR EXCEPT ![r] = "compute"]
  /\ UNCHANGED <<clockVars, holder, mapVars, ring, ingestVars, pruneVars, windows>>

\* Phase 2 on one entry, with no shard lock: an empty buffer gives no window.
ReadEntry(r, e) ==
  /\ pcR[r] = "compute"
  /\ e \in entries[r]
  /\ entries' = [entries EXCEPT ![r] = @ \ {e}]
  /\ windows' = [windows EXCEPT ![r] = IF ring[e.buf] = <<>> THEN @ ELSE @ \cup {e.svc}]
  /\ UNCHANGED <<clockVars, holder, mapVars, ingestVars, pruneVars, pcR, atR, nowR>>
  /\ Collect(ring)

ReadEnd(r) ==
  /\ pcR[r] = "compute"
  /\ entries[r] = {}
  /\ pcR' = [pcR EXCEPT ![r] = "idle"]
  /\ UNCHANGED <<clockVars, holder, mapVars, ring, ingestVars, pruneVars, atR, nowR, entries, windows>>

-----------------------------------------------------------------------------
\* Time passes.  Lag bounds the age a point can reach before its shard's map
\* has noted it: the rest of its scrape and the wait for the mutex.
Tick ==
  /\ now < MaxTime
  /\ \A i \in Ingester : pcI[i] \in {"lock", "lookup", "cas", "insert"} => now - op[i].ts < Lag
  /\ now' = now + 1
  /\ UNCHANGED <<holder, mapVars, ring, ingestVars, pruneVars, readVars>>

IngestStep(i) ==
  \/ IngestLock(i) \/ IngestKnown(i) \/ IngestReject(i) \/ IngestLoad(i)
  \/ IngestCAS(i) \/ IngestInsert(i) \/ IngestAppend(i)

PruneStep(p) ==
  \/ PruneBegin(p) \/ PruneLock(p) \/ PruneUnlock(p)
  \/ \E s \in Service : PruneOne(p, s)

ReadStep(r) ==
  \/ ReadBegin(r) \/ ReadShard(r) \/ ReadEnd(r)
  \/ \E e \in Entry : ReadEntry(r, e)

Next ==
  \/ \E i \in Ingester : IngestBegin(i) \/ IngestStep(i)
  \/ \E p \in Pruner : PruneStep(p)
  \/ \E r \in Reader : ReadStep(r)
  \/ Tick

Spec == Init /\ [][Next]_vars

\* A thread inside Ingest goes on, Go's mutexes starve nobody, and the tick and
\* the maintainer call Prune again and again.  Nothing makes a point arrive.
Fairness ==
  /\ \A i \in Ingester : WF_vars(IngestStep(i)) /\ SF_vars(IngestLock(i))
  /\ \A p \in Pruner : WF_vars(PruneStep(p)) /\ SF_vars(PruneLock(p))

FairSpec == Spec /\ Fairness

-----------------------------------------------------------------------------
\* Ingesters that have been counted but whose service is not in the map yet.
Reserving == {i \in Ingester : pcI[i] = "insert"}

(* svcCount counts exactly the services in the maps and the reservations in  *)
(* flight, and never passes the cap, although the counter is read, compared  *)
(* and set with other shards' ingesters and pruners in between (the CAS loop *)
(* of Ingest against Add(-1) of Prune).                                      *)
AdmissionBound ==
  /\ svcCount = Cardinality(Registered) + Cardinality(Reserving)
  /\ svcCount <= MaxServices

(* A point that Ingest accepted is about to be appended to a buffer that     *)
(* Prune has detached, and so lost, only if it is older than StaleAge - Lag: *)
(* the unlock between lastSeen and Append does not lose a recent point.      *)
LostOnlyIfOld ==
  \A i \in Ingester :
    pcI[i] = "append" /\ buffers[op[i].svc] # target[i] => now - op[i].ts > StaleAge - Lag

(* Every Ingest call returns: neither the mutex nor the compare-and-swap     *)
(* loop keeps it for ever.                                                   *)
IngestReturns == \A i \in Ingester : pcI[i] # "idle" ~> pcI[i] = "idle"

(* A stale service does not stay: it is pruned, or a point refreshes it.     *)
StaleGoes ==
  \A s \in Service :
    s \in Registered /\ now - lastSeen[s] > StaleAge
      ~> s \notin Registered \/ now - lastSeen[s] <= StaleAge

Registry == INSTANCE BoundedRegistry WITH known <- Registered

(* The sharded store implements the bounded registry: the cap is never       *)
(* exceeded at any instant, and a service is forgotten only when stale.      *)
ImplementsRegistry == Registry!Spec
=============================================================================
