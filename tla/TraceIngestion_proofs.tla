----------------------- MODULE TraceIngestion_proofs -----------------------
(***************************************************************************)
(* Proofs about the way of a trace into the graph: EdgePipeline with its   *)
(* history variables, for every set of services, every cap, weight and     *)
(* age; and parseOTLPJSON, for every payload.                              *)
(***************************************************************************)
EXTENDS EdgeHistory, OTLPParse, FiniteSetTheorems, SequenceTheorems, TLAPS

(* What every Update relies on.                                              *)
Shape ==
  /\ now \in 1 .. MaxTime
  /\ nodes \subseteq Service
  /\ lastSeen \in [Service -> 0 .. MaxTime]
  /\ edges \subseteq Call
  /\ weight \in [Pair -> 0 .. FlushWeight]
  /\ batch \subseteq Call
  /\ chan \in Seq(Call)
  /\ silent \in [Call -> Nat]
  /\ reported \in [Service -> 0 .. MaxTime]

(* An edge has lost one of its decays with every update that did not report  *)
(* it, and no other.                                                         *)
Decaying == \A e \in edges : weight[e] + silent[e] = FlushWeight

(* A node was last seen when a window of it last came, or later.             *)
SeenSince ==
  \A s \in Service : IF s \in nodes THEN reported[s] <= lastSeen[s] ELSE reported[s] = 0

PipelineInv == Shape /\ NodesBounded /\ Decaying /\ SeenSince /\ EdgesHaveSource

-----------------------------------------------------------------------------
(* Whatever order the candidates are walked in, what is admitted comes from  *)
(* them and fits under the cap.                                              *)
LEMMA AdmittedFits ==
  ASSUME NEW n \in SUBSET Service, Cardinality(n) <= MaxNodes,
         NEW cands \in SUBSET Service, NEW m \in Admitted(n, cands)
  PROVE  n \subseteq m /\ m \subseteq n \cup cands /\ m \subseteq Service /\ Cardinality(m) <= MaxNodes
<1>. DEFINE new == cands \ n
            room == IF Cardinality(n) < MaxNodes THEN MaxNodes - Cardinality(n) ELSE 0
            some == IF Cardinality(new) < room THEN Cardinality(new) ELSE room
<1>1. IsFiniteSet(n) /\ IsFiniteSet(new)
  BY FS_Subset, GraphAssumption
<1>2. Cardinality(n) \in Nat /\ Cardinality(new) \in Nat
  BY <1>1, FS_CardinalityType
<1>3. PICK added \in SUBSET new : Cardinality(added) = some /\ m = n \cup added
  BY DEF Admitted, kSubset
<1>4. IsFiniteSet(added) /\ n \cap added = {}
  BY <1>1, FS_Subset
<1>5. Cardinality(n \cap added) = 0
  BY <1>4, FS_EmptySet
<1>6. Cardinality(m) = Cardinality(n) + Cardinality(added) - Cardinality(n \cap added)
  BY <1>1, <1>3, <1>4, FS_Union
<1>7. some <= MaxNodes - Cardinality(n)
  BY <1>2, GraphAssumption
<1>8. Cardinality(m) <= MaxNodes
  BY <1>2, <1>3, <1>5, <1>6, <1>7, GraphAssumption
<1>. QED  BY <1>3, <1>8

(* What an Update with the windows win that reports rep does, wherever the   *)
(* maps' order leads it.                                                     *)
Updated(win, rep) ==
  /\ nodes' \subseteq Service /\ NodesBounded'
  /\ lastSeen' \in [Service -> 0 .. MaxTime]
  /\ edges' \subseteq Call /\ weight' \in [Pair -> 0 .. FlushWeight]
  /\ \A e \in edges' :
       \/ e \in DOMAIN rep /\ weight'[e] = FlushWeight
       \/ e \in edges \ DOMAIN rep /\ weight'[e] = weight[e] - 1
  /\ \A e \in edges' : e[1] \in nodes' \cup win \/ (e \in edges /\ e[1] \notin nodes)
  /\ \A s \in nodes' : IF s \in win THEN lastSeen'[s] = now
                       ELSE s \in nodes => lastSeen'[s] = lastSeen[s]
  /\ \A s \in nodes \ nodes' : now - lastSeen[s] > StaleAge
  /\ \A e \in edges \ edges' : weight[e] <= 1 \/ e[1] \in nodes \ nodes'

(* The calls of rep must have a window with traffic at their source, as in   *)
(* both callers of Update.                                                   *)
LEMMA UpdateEffect ==
  ASSUME Shape, NodesBounded,
         NEW win \in SUBSET Service, NEW busy, NEW rep, Update(win, busy, rep),
         DOMAIN rep \subseteq Call,
         \A e \in DOMAIN rep : rep[e] = FlushWeight /\ e[1] \in busy \cap win
  PROVE  Updated(win, rep)
<1>0. PICK n1 \in Admitted(nodes, win) : \E n2 \in Admitted(n1, {e[2] : e \in DOMAIN rep}) :
        LET seen == Refreshed(n1, n2, win)
            old == {s \in n2 : now - seen[s] > StaleAge}
            kept == DOMAIN rep \cup {e \in edges : Left(e, win, busy, rep) > 0}
        IN  /\ nodes' = n2 \ old
            /\ lastSeen' = [s \in Service |-> IF s \in old THEN 0 ELSE seen[s]]
            /\ edges' = kept \ Orphaned(kept, old)
            /\ weight' = [e \in Pair |-> IF e \in edges' THEN Left(e, win, busy, rep) ELSE 0]
  BY DEF Update
<1>1. PICK n2 \in Admitted(n1, {e[2] : e \in DOMAIN rep}) :
        LET seen == Refreshed(n1, n2, win)
            old == {s \in n2 : now - seen[s] > StaleAge}
            kept == DOMAIN rep \cup {e \in edges : Left(e, win, busy, rep) > 0}
        IN  /\ nodes' = n2 \ old
            /\ lastSeen' = [s \in Service |-> IF s \in old THEN 0 ELSE seen[s]]
            /\ edges' = kept \ Orphaned(kept, old)
            /\ weight' = [e \in Pair |-> IF e \in edges' THEN Left(e, win, busy, rep) ELSE 0]
  BY <1>0
<1>. DEFINE seen == Refreshed(n1, n2, win)
            old == {s \in n2 : now - seen[s] > StaleAge}
            kept == DOMAIN rep \cup {e \in edges : Left(e, win, busy, rep) > 0}
<1>2. /\ nodes' = n2 \ old
      /\ lastSeen' = [s \in Service |-> IF s \in old THEN 0 ELSE seen[s]]
      /\ edges' = kept \ Orphaned(kept, old)
      /\ weight' = [e \in Pair |-> IF e \in edges' THEN Left(e, win, busy, rep) ELSE 0]
  BY <1>1
<1>3. nodes \subseteq n1 /\ n1 \subseteq nodes \cup win /\ n1 \subseteq Service /\ Cardinality(n1) <= MaxNodes
  BY AdmittedFits DEF Shape, NodesBounded
<1>4. {e[2] : e \in DOMAIN rep} \subseteq Service
  BY PipelineAssumption DEF Pair
<1>5. n1 \subseteq n2 /\ n2 \subseteq Service /\ Cardinality(n2) <= MaxNodes
  BY <1>3, <1>4, AdmittedFits
<1>6. nodes' \subseteq Service /\ NodesBounded'
  <2>1. IsFiniteSet(n2)
    BY <1>5, FS_Subset, GraphAssumption
  <2>2. Cardinality(n2) \in Nat /\ Cardinality(n2 \ old) \in Nat /\ Cardinality(n2 \ old) <= Cardinality(n2)
    BY <2>1, FS_Subset, FS_CardinalityType
  <2>. QED  BY <1>2, <1>5, <2>2, GraphAssumption DEF NodesBounded
<1>7. \A s \in Service : seen[s] = IF s \in (win \cap n1) \cup (n2 \ n1) THEN now ELSE lastSeen[s]
  BY DEF Refreshed
<1>8. lastSeen' \in [Service -> 0 .. MaxTime]
  BY <1>2, <1>7, GraphAssumption DEF Shape
<1>9. \A s \in nodes' : IF s \in win THEN lastSeen'[s] = now
                                   ELSE s \in nodes => lastSeen'[s] = lastSeen[s]
  <2>. SUFFICES ASSUME NEW s \in nodes'
                PROVE  IF s \in win THEN lastSeen'[s] = now
                                   ELSE s \in nodes => lastSeen'[s] = lastSeen[s]
    OBVIOUS
  <2>1. s \in n2 /\ s \notin old /\ s \in Service
    BY <1>2, <1>5
  <2>2. lastSeen'[s] = seen[s]
    BY <1>2, <2>1
  <2>. QED  BY <1>3, <1>7, <2>1, <2>2
<1>10. \A s \in nodes \ nodes' : now - lastSeen[s] > StaleAge
  <2>. SUFFICES ASSUME NEW s \in nodes \ nodes' PROVE now - lastSeen[s] > StaleAge
    OBVIOUS
  <2>1. s \in n1 /\ s \in old /\ s \in Service
    BY <1>2, <1>3, <1>5
  <2>2. seen[s] # now
    BY <2>1, GraphAssumption DEF Shape
  <2>. QED  BY <1>7, <2>1, <2>2
<1>11. \A e \in edges' : e \in Pair /\ e \in kept /\ e[1] \notin old
  BY <1>2, PipelineAssumption DEF Orphaned, Shape
<1>12. \A e \in DOMAIN rep : Left(e, win, busy, rep) = FlushWeight
  BY DEF Left
<1>13. \A e \in edges : e \notin DOMAIN rep => Left(e, win, busy, rep) = weight[e] - 1
  BY DEF Left
<1>14. \A e \in edges' :
         \/ e \in DOMAIN rep /\ weight'[e] = FlushWeight
         \/ e \in edges \ DOMAIN rep /\ weight'[e] = weight[e] - 1 /\ weight'[e] > 0
  BY <1>2, <1>11, <1>12, <1>13
<1>15. weight' \in [Pair -> 0 .. FlushWeight]
  <2>. SUFFICES ASSUME NEW e \in Pair PROVE weight'[e] \in 0 .. FlushWeight
    BY <1>2
  <2>1. CASE e \notin edges'
    BY <1>2, <2>1, PipelineAssumption, GraphAssumption
  <2>2. CASE e \in edges'
    BY <1>14, <2>2, PipelineAssumption, GraphAssumption DEF Shape
  <2>. QED  BY <2>1, <2>2
<1>16. edges' \subseteq Call
  BY <1>2 DEF Shape
<1>17. \A e \in edges' : e[1] \in nodes' \cup win \/ (e \in edges /\ e[1] \notin nodes)
  BY <1>2, <1>3, <1>5, <1>11
<1>18. \A e \in edges \ edges' : weight[e] <= 1 \/ e[1] \in nodes \ nodes'
  <2>. SUFFICES ASSUME NEW e \in edges \ edges' PROVE weight[e] <= 1 \/ e[1] \in nodes \ nodes'
    OBVIOUS
  <2>1. e \in Pair /\ weight[e] \in Nat
    BY PipelineAssumption DEF Shape
  <2>2. CASE e \notin kept
    BY <1>13, <2>1, <2>2
  <2>3. CASE e[1] \in old
    <3>1. e[1] \in n2 /\ e[1] \notin nodes' /\ e[1] \in Service
      BY <1>2, <1>5, <2>3
    <3>2. seen[e[1]] # now
      BY <2>3, GraphAssumption DEF Shape
    <3>. QED  BY <1>3, <1>7, <3>1, <3>2
  <2>. QED  BY <1>2, <2>2, <2>3 DEF Orphaned
<1>. QED  BY <1>6, <1>8, <1>9, <1>10, <1>14, <1>15, <1>16, <1>17, <1>18 DEF Updated

LEMMA InitPipelineInv == HistoryInit => PipelineInv
<1>. SUFFICES ASSUME HistoryInit PROVE PipelineInv
  OBVIOUS
<1>1. Cardinality({}) = 0
  BY FS_EmptySet
<1>2. NodesBounded
  BY <1>1, GraphAssumption DEF HistoryInit, Init, GraphInit, NodesBounded
<1>3. Shape
  BY GraphAssumption, PipelineAssumption DEF HistoryInit, Init, GraphInit, Shape
<1>4. Decaying /\ SeenSince /\ EdgesHaveSource
  BY DEF HistoryInit, Init, GraphInit, Decaying, SeenSince, EdgesHaveSource
<1>. QED  BY <1>2, <1>3, <1>4 DEF PipelineInv

(* An update that reports win, and rep at least as far as the graph took it, *)
(* keeps the invariant.                                                      *)
LEMMA UpdateKeeps ==
  ASSUME PipelineInv,
         NEW win \in SUBSET Service, NEW busy, NEW rep, Update(win, busy, rep),
         DOMAIN rep \subseteq Call,
         \A e \in DOMAIN rep : rep[e] = FlushWeight /\ e[1] \in busy \cap win,
         NEW R, DOMAIN rep \cap edges' \subseteq R, Noted(win, R),
         \A e \in R : e \in edges' => weight'[e] = FlushWeight,
         now' = now, batch' \subseteq Call, chan' = chan
  PROVE  PipelineInv'
<1>1. Updated(win, rep)
  BY UpdateEffect DEF PipelineInv
<1>2. Shape'
  <2>1. silent' \in [Call -> Nat] /\ reported' \in [Service -> 0 .. MaxTime]
    BY GraphAssumption DEF Noted, PipelineInv, Shape
  <2>. QED  BY <1>1, <2>1 DEF PipelineInv, Shape, Updated
<1>3. Decaying'
  <2>. SUFFICES ASSUME NEW e \in edges' PROVE weight'[e] + silent'[e] = FlushWeight
    BY DEF Decaying
  <2>1. e \in Call /\ e \in Pair /\ weight'[e] \in 0 .. FlushWeight
    BY <1>1, PipelineAssumption DEF Updated
  <2>2. CASE e \in R
    BY <2>1, <2>2, PipelineAssumption, GraphAssumption DEF Noted
  <2>3. CASE e \notin R
    <3>1. e \in edges /\ weight'[e] = weight[e] - 1
      BY <1>1, <2>3 DEF Updated
    <3>2. silent'[e] = silent[e] + 1
      BY <2>1, <2>3 DEF Noted
    <3>3. weight[e] \in Nat /\ silent[e] \in Nat /\ weight[e] + silent[e] = FlushWeight
      BY <2>1, <3>1, PipelineAssumption DEF PipelineInv, Shape, Decaying
    <3>. QED  BY <3>1, <3>2, <3>3, GraphAssumption
  <2>. QED  BY <2>2, <2>3
<1>4. SeenSince'
  <2>. SUFFICES ASSUME NEW s \in Service
                PROVE IF s \in nodes' THEN reported'[s] <= lastSeen'[s] ELSE reported'[s] = 0
    BY DEF SeenSince
  <2>1. reported'[s] = IF s \notin nodes' THEN 0 ELSE IF s \in win THEN now ELSE reported[s]
    BY DEF Noted
  <2>2. lastSeen'[s] \in Nat /\ now \in Nat
    BY <1>1, GraphAssumption DEF PipelineInv, Shape, Updated
  <2>3. CASE s \in nodes' /\ s \notin win
    <3>1. s \in nodes => reported[s] <= lastSeen[s] /\ lastSeen'[s] = lastSeen[s]
      BY <1>1, <2>3 DEF PipelineInv, SeenSince, Updated
    <3>2. s \notin nodes => reported[s] = 0
      BY DEF PipelineInv, SeenSince
    <3>. QED  BY <2>1, <2>2, <2>3, <3>1, <3>2
  <2>. QED  BY <1>1, <2>1, <2>2, <2>3 DEF Updated
<1>5. EdgesHaveSource'
  <2>. SUFFICES ASSUME NEW e \in edges' PROVE e[1] \in nodes' \cup refused'
    BY DEF EdgesHaveSource
  <2>1. e[1] \in nodes' \cup win \/ e[1] \in refused
    BY <1>1 DEF PipelineInv, EdgesHaveSource, Updated
  <2>. QED  BY <2>1 DEF Noted
<1>. QED  BY <1>1, <1>2, <1>3, <1>4, <1>5 DEF PipelineInv, Updated

LEMMA TickKeeps ==
  ASSUME PipelineInv, Tick, Noted(Within(Fresh), {})
  PROVE  PipelineInv'
<1>1. PICK busy \in SUBSET Within(Fresh) : Update(Within(Fresh), busy, <<>>)
  BY DEF Tick
<1>2. Within(Fresh) \in SUBSET Service
  BY DEF Within
<1>3. DOMAIN <<>> = {}
  OBVIOUS
<1>4. now' = now /\ batch' \subseteq Call /\ chan' = chan
  BY DEF Tick, PipelineInv, Shape
<1>. QED  BY <1>1, <1>2, <1>3, <1>4, UpdateKeeps

(* Of the calls in a batch, the flush reports one per source.                *)
LEMMA FlushUpdates ==
  ASSUME Flush
  PROVE  LET srcs == {e[1] : e \in batch}
         IN  \E R \in SUBSET batch : Update(srcs, srcs, [e \in R |-> FlushWeight])
<1>. DEFINE srcs == {e[1] : e \in batch}
<1>1. PICK last \in [srcs -> batch] :
        /\ \A s \in srcs : last[s][1] = s
        /\ Update(srcs, srcs, [e \in {last[s] : s \in srcs} |-> FlushWeight])
  BY DEF Flush
<1>2. {last[s] : s \in srcs} \in SUBSET batch
  OBVIOUS
<1>. QED  BY <1>1, <1>2

(* Either thread's update has its effect.                                    *)
LEMMA StepUpdates ==
  ASSUME PipelineInv, Tick \/ Flush
  PROVE  \E win, rep : Updated(win, rep)
<1>1. CASE Tick
  <2>1. PICK busy \in SUBSET Within(Fresh) : Update(Within(Fresh), busy, <<>>)
    BY <1>1 DEF Tick
  <2>2. Within(Fresh) \in SUBSET Service /\ DOMAIN <<>> = {}
    BY DEF Within
  <2>3. Updated(Within(Fresh), <<>>)
    BY <2>1, <2>2, UpdateEffect DEF PipelineInv
  <2>. QED  BY <2>3
<1>2. CASE Flush
  <2>. DEFINE srcs == {e[1] : e \in batch}
  <2>1. PICK R \in SUBSET batch : Update(srcs, srcs, [e \in R |-> FlushWeight])
    BY <1>2, FlushUpdates
  <2>. DEFINE rep == [e \in R |-> FlushWeight]
  <2>2. srcs \in SUBSET Service
    BY PipelineAssumption DEF PipelineInv, Shape, Pair
  <2>3. /\ DOMAIN rep \subseteq Call
        /\ \A e \in DOMAIN rep : rep[e] = FlushWeight /\ e[1] \in srcs \cap srcs
    BY DEF PipelineInv, Shape
  <2>4. Update(srcs, srcs, rep)
    BY <2>1
  <2>. HIDE DEF rep, srcs
  <2>5. Updated(srcs, rep)
    BY <2>2, <2>3, <2>4, UpdateEffect DEF PipelineInv
  <2>. QED  BY <2>5
<1>. QED  BY <1>1, <1>2

LEMMA FlushKeeps ==
  ASSUME PipelineInv, Flush,
         Noted({e[1] : e \in batch}, {e \in batch : weight'[e] = FlushWeight})
  PROVE  PipelineInv'
<1>. DEFINE srcs == {e[1] : e \in batch}
<1>1. PICK R \in SUBSET batch : Update(srcs, srcs, [e \in R |-> FlushWeight])
  BY FlushUpdates
<1>. DEFINE rep == [e \in R |-> FlushWeight]
<1>2. srcs \in SUBSET Service
  BY PipelineAssumption DEF PipelineInv, Shape, Pair
<1>3. /\ DOMAIN rep \subseteq Call
      /\ \A e \in DOMAIN rep : rep[e] = FlushWeight /\ e[1] \in srcs \cap srcs
  BY DEF PipelineInv, Shape
<1>4. Update(srcs, srcs, rep) /\ DOMAIN rep = R
  BY <1>1
<1>5. now' = now /\ batch' \subseteq Call /\ chan' = chan
  BY DEF Flush
<1>. HIDE DEF rep, srcs
<1>6. \A e \in edges' : e \in DOMAIN rep => weight'[e] = FlushWeight
  <2>1. Updated(srcs, rep)
    BY <1>2, <1>3, <1>4, UpdateEffect DEF PipelineInv
  <2>. QED  BY <2>1 DEF Updated
<1>7. DOMAIN rep \cap edges' \subseteq {e \in batch : weight'[e] = FlushWeight}
  BY <1>4, <1>6
<1>8. Noted(srcs, {e \in batch : weight'[e] = FlushWeight})
  BY DEF srcs
<1>. QED  BY <1>2, <1>3, <1>4, <1>5, <1>7, <1>8, UpdateKeeps

(* The other steps leave the graph alone.                                    *)
LEMMA QuietKeeps ==
  ASSUME PipelineInv, Quiet, UNCHANGED graphVars,
         now' \in 1 .. MaxTime, batch' \subseteq Call, chan' \in Seq(Call)
  PROVE  PipelineInv'
BY DEF PipelineInv, Shape, NodesBounded, Decaying, SeenSince, EdgesHaveSource, Quiet, graphVars

LEMMA NextPipelineInv == PipelineInv /\ [HistoryNext]_historyVars => PipelineInv'
<1>. SUFFICES ASSUME PipelineInv, [HistoryNext]_historyVars PROVE PipelineInv'
  OBVIOUS
<1>. USE DEF PipelineInv, Shape
<1>1. CASE (\E e \in Call : Deliver(e) \/ Drop(e)) /\ Quiet
  <2>1. PICK e \in Call : Deliver(e) \/ Drop(e)
    BY <1>1
  <2>2. CASE Deliver(e)
    <3>1. UNCHANGED graphVars /\ now' = now /\ batch' = batch
      BY <2>2 DEF Deliver
    <3>2. chan' \in Seq(Call)
      BY <2>2 DEF Deliver
    <3>. QED  BY <1>1, <3>1, <3>2, QuietKeeps
  <2>3. CASE Drop(e)
    <3>1. UNCHANGED graphVars /\ now' = now /\ batch' = batch /\ chan' = chan
      BY <2>3 DEF Drop, vars, graphVars
    <3>. QED  BY <1>1, <3>1, QuietKeeps
  <2>. QED  BY <2>1, <2>2, <2>3
<1>2. CASE (\E s \in Service : Scrape(s)) /\ Quiet
  <2>1. UNCHANGED graphVars /\ now' = now /\ batch' = batch /\ chan' = chan
    BY <1>2 DEF Scrape
  <2>. QED  BY <1>2, <2>1, QuietKeeps
<1>3. CASE Consume /\ Quiet
  <2>1. UNCHANGED graphVars /\ now' = now
    BY <1>3 DEF Consume
  <2>2. Head(chan) \in Call /\ Tail(chan) \in Seq(Call)
    BY <1>3 DEF Consume
  <2>3. batch' \subseteq Call /\ chan' \in Seq(Call)
    BY <1>3, <2>2 DEF Consume
  <2>. QED  BY <1>3, <2>1, <2>3, QuietKeeps
<1>4. CASE Clock /\ Quiet
  <2>1. UNCHANGED graphVars /\ now' \in 1 .. MaxTime /\ batch' = batch /\ chan' = chan
    BY <1>4, GraphAssumption DEF Clock
  <2>. QED  BY <1>4, <2>1, QuietKeeps
<1>5. CASE Tick /\ Noted(Within(Fresh), {})
  BY <1>5, TickKeeps
<1>6. CASE Flush /\ Noted({e[1] : e \in batch}, {e \in batch : weight'[e] = FlushWeight})
  BY <1>6, FlushKeeps
<1>7. CASE UNCHANGED historyVars
  <2>1. Quiet /\ UNCHANGED graphVars /\ now' = now /\ batch' = batch /\ chan' = chan
    BY <1>7 DEF historyVars, vars, Quiet, graphVars
  <2>. QED  BY <2>1, QuietKeeps
<1>. QED  BY <1>1, <1>2, <1>3, <1>4, <1>5, <1>6, <1>7 DEF HistoryNext

-----------------------------------------------------------------------------
(* The node cap holds whatever services the windows and the calls name and   *)
(* in whatever order the two upsert loops walk them.                         *)
THEOREM CapHolds == HistorySpec => []NodesBounded
<1>1. PipelineInv => NodesBounded
  BY DEF PipelineInv
<1>. QED  BY <1>1, InitPipelineInv, NextPipelineInv, PTL DEF HistorySpec

(* Every edge of a snapshot was reported by one of the last updates of       *)
(* either thread: decay and deletion by the tick and by the flush leave no   *)
(* dead call visible.                                                        *)
THEOREM VisibleReported == HistorySpec => []VisibleIsRecent
<1>1. PipelineInv => VisibleIsRecent
  <2>. SUFFICES ASSUME PipelineInv, NEW e \in SnapshotEdges
                PROVE  silent[e] <= Full - Visible
    BY DEF VisibleIsRecent
  <2>1. e \in edges /\ weight[e] >= Visible
    BY DEF SnapshotEdges
  <2>2. e \in Call /\ weight[e] \in Nat /\ silent[e] \in Nat /\ weight[e] + silent[e] = FlushWeight
    BY <2>1, PipelineAssumption DEF PipelineInv, Shape, Decaying
  <2>. QED  BY <2>1, <2>2, GraphAssumption, PipelineAssumption
<1>. QED  BY <1>1, InitPipelineInv, NextPipelineInv, PTL DEF HistorySpec

(* No edge is left behind by a node that was pruned: its source has a node,  *)
(* or found the graph full.                                                  *)
THEOREM SourcesKept == HistorySpec => []EdgesHaveSource
<1>1. PipelineInv => EdgesHaveSource
  BY DEF PipelineInv
<1>. QED  BY <1>1, InitPipelineInv, NextPipelineInv, PTL DEF HistorySpec

(* A call that is still reported loses its edge to no decay of the other     *)
(* thread, and not because its target is pruned.                             *)
THEOREM LeavesDead == HistorySpec => EdgeLeavesOnlyIfDead
<1>. DEFINE Dead == \A e \in edges \ edges' :
                      silent[e] + 1 >= FlushWeight \/ e[1] \in nodes \ nodes'
<1>1. PipelineInv /\ [HistoryNext]_historyVars => [Dead]_historyVars
  <2>. SUFFICES ASSUME PipelineInv, HistoryNext, NEW e \in edges \ edges'
                PROVE  silent[e] + 1 >= FlushWeight \/ e[1] \in nodes \ nodes'
    OBVIOUS
  <2>1. (Tick \/ Flush) \/ edges' = edges
    BY DEF HistoryNext, Deliver, Drop, vars, Scrape, Consume, Clock, graphVars
  <2>2. weight[e] <= 1 \/ e[1] \in nodes \ nodes'
    BY <2>1, StepUpdates DEF Updated
  <2>3. e \in Call /\ weight[e] \in Nat /\ silent[e] \in Nat /\ weight[e] + silent[e] = FlushWeight
    BY PipelineAssumption DEF PipelineInv, Shape, Decaying
  <2>. QED  BY <2>2, <2>3, PipelineAssumption
<1>. QED
  BY <1>1, InitPipelineInv, NextPipelineInv, PTL DEF HistorySpec, EdgeLeavesOnlyIfDead

(* Only nodes of services without a window for StaleAge are pruned, although *)
(* two threads refresh them with windows of different ages.                  *)
THEOREM PrunedUnreported == HistorySpec => PrunedOnlyIfUnreported
<1>. DEFINE Pruned == \A s \in nodes \ nodes' : now - reported[s] > StaleAge
<1>1. PipelineInv /\ [HistoryNext]_historyVars => [Pruned]_historyVars
  <2>. SUFFICES ASSUME PipelineInv, HistoryNext, NEW s \in nodes \ nodes'
                PROVE  now - reported[s] > StaleAge
    OBVIOUS
  <2>1. (Tick \/ Flush) \/ nodes' = nodes
    BY DEF HistoryNext, Deliver, Drop, vars, Scrape, Consume, Clock, graphVars
  <2>2. now - lastSeen[s] > StaleAge
    BY <2>1, StepUpdates DEF Updated
  <2>3. /\ s \in Service /\ reported[s] <= lastSeen[s]
        /\ reported[s] \in Nat /\ lastSeen[s] \in Nat /\ now \in Nat
    BY GraphAssumption DEF PipelineInv, Shape, SeenSince
  <2>. QED  BY <2>2, <2>3, GraphAssumption
<1>. QED
  BY <1>1, InitPipelineInv, NextPipelineInv, PTL DEF HistorySpec, PrunedOnlyIfUnreported

-----------------------------------------------------------------------------
\* The services a span can be given, whatever the line: strings.Index starts
\* from the beginning of the text every time.
Given == {NameRead, Empty}
Ids == {Empty} \cup {Read(payload[c[1]], c[2]) : c \in (1 .. Len(payload)) \X {"spanId", "parentSpanId"}}
OneNameSpan == [svc : Given, id : Ids, parent : Ids]

\* Every span found so far, the one being read and the name in hand carry the
\* same name or none, so no edge is found.
ParseInv ==
  /\ payload \in Seq(Line)
  /\ pos \in 0 .. Len(payload)
  /\ currentSvc \in Given
  /\ currentSpan \in Seq(OneNameSpan) /\ Len(currentSpan) <= 1
  /\ spans \in Seq(OneNameSpan)
  /\ found = {}

LEMMA InitParseInv == ParseInit => ParseInv
  BY ParseAssumption DEF ParseInit, ParseInv, Given

(* Names and ids are those of the payload, which does not change.            *)
LEMMA OneNameKept == payload' = payload => Given' = Given /\ Ids' = Ids /\ OneNameSpan' = OneNameSpan
  BY DEF Given, Ids, OneNameSpan, NameRead, Has, Read

(* A line of the scan gives no span another name.                            *)
LEMMA ScanLineParseInv == ParseInv /\ ScanLine => ParseInv'
<1>. SUFFICES ASSUME ParseInv, ScanLine PROVE ParseInv'
  OBVIOUS
<1>. DEFINE l == payload[pos + 1]
            svc == IF Has(l, "service.name") /\ NameRead # Empty THEN NameRead ELSE currentSvc
            opened == [svc |-> svc, id |-> Read(l, "spanId"), parent |-> Empty]
            started == IF Has(l, "spanId") THEN <<opened>> ELSE currentSpan
            r == [started[1] EXCEPT !.parent = Read(l, "parentSpanId")]
<1>0. UNCHANGED <<payload, found>> /\ pos' = pos + 1 /\ pos < Len(payload) /\ currentSvc' = svc
  BY DEF ScanLine
<1>1. pos' \in 0 .. Len(payload) /\ pos + 1 \in 1 .. Len(payload)
  BY <1>0 DEF ParseInv
<1>2. Given' = Given /\ OneNameSpan' = OneNameSpan
  BY <1>0, OneNameKept
<1>3. svc \in Given
  BY DEF ParseInv, Given
<1>4. Read(l, "spanId") \in Ids /\ Read(l, "parentSpanId") \in Ids
  <2>1. <<pos + 1, "spanId">> \in (1 .. Len(payload)) \X {"spanId", "parentSpanId"}
        /\ <<pos + 1, "parentSpanId">> \in (1 .. Len(payload)) \X {"spanId", "parentSpanId"}
    BY <1>1
  <2>. QED  BY <2>1 DEF Ids
<1>5. spans' \in Seq(OneNameSpan)
  BY DEF ScanLine, ParseInv
<1>6. started \in Seq(OneNameSpan) /\ Len(started) <= 1
  <2>1. opened \in OneNameSpan
    BY <1>3, <1>4 DEF OneNameSpan, Ids
  <2>. QED  BY <2>1 DEF ParseInv
<1>7. started # <<>> => r \in OneNameSpan
  <2>1. started # <<>> => started[1] \in OneNameSpan
    BY <1>6
  <2>. QED  BY <1>4, <2>1 DEF OneNameSpan
<1>8. currentSpan' = IF Has(l, "parentSpanId") /\ started # <<>> THEN <<r>> ELSE started
  BY DEF ScanLine, SpanAfter
<1>. HIDE DEF r, started, svc, l
<1>9. started # <<>> => <<r>> \in Seq(OneNameSpan) /\ Len(<<r>>) = 1
  BY <1>7
<1>10. currentSpan' \in Seq(OneNameSpan) /\ Len(currentSpan') <= 1
  BY <1>6, <1>8, <1>9
<1>. QED  BY <1>0, <1>1, <1>2, <1>3, <1>5, <1>10 DEF ParseInv

(* Spans that carry one name have no caller in another service.              *)
LEMMA OneNameNoCall ==
  ASSUME spans \in Seq(OneNameSpan), NEW i \in 1 .. Len(spans), NEW j \in 1 .. Len(spans)
  PROVE  ~CalledFrom(i, j)
<1>1. spans[i] \in OneNameSpan /\ spans[j] \in OneNameSpan
  OBVIOUS
<1>2. spans[i].svc \in Given /\ spans[j].svc \in Given
  BY <1>1 DEF OneNameSpan
<1>. QED  BY <1>2 DEF CalledFrom, Decides, Given

LEMMA NextParseInv == ParseInv /\ [ParseNext]_parseVars => ParseInv'
<1>. SUFFICES ASSUME ParseInv, [ParseNext]_parseVars PROVE ParseInv'
  OBVIOUS
<1>1. CASE ScanLine
  BY <1>1, ScanLineParseInv
<1>2. CASE LastSpan
  <2>1. UNCHANGED <<payload, pos, currentSvc, found>> /\ currentSpan' = <<>>
    BY <1>2 DEF LastSpan
  <2>2. Given' = Given /\ OneNameSpan' = OneNameSpan
    BY <2>1, OneNameKept
  <2>3. spans' \in Seq(OneNameSpan)
    BY <1>2 DEF LastSpan, ParseInv
  <2>4. <<>> \in Seq(OneNameSpan) /\ Len(<<>>) <= 1
    OBVIOUS
  <2>. QED  BY <2>1, <2>2, <2>3, <2>4 DEF ParseInv
<1>3. CASE Extract
  <2>1. UNCHANGED <<payload, pos, currentSvc, currentSpan, spans>>
    BY <1>3 DEF Extract
  <2>2. Given' = Given /\ OneNameSpan' = OneNameSpan
    BY <2>1, OneNameKept
  <2>3. \A i, j \in 1 .. Len(spans) : ~CalledFrom(i, j)
    BY OneNameNoCall DEF ParseInv
  <2>4. found' = {}
    BY <1>3, <2>3 DEF Extract
  <2>. QED  BY <2>1, <2>2, <2>4 DEF ParseInv
<1>4. CASE UNCHANGED parseVars
  <2>1. Given' = Given /\ OneNameSpan' = OneNameSpan
    BY <1>4, OneNameKept DEF parseVars
  <2>. QED  BY <1>4, <2>1 DEF parseVars, ParseInv
<1>. QED  BY <1>1, <1>2, <1>3, <1>4 DEF ParseNext

(* Whatever a trace exporter sends, parseOTLPJSON returns no edge: all the   *)
(* spans of a payload get the name that stands first in it.                  *)
THEOREM NeverAnEdge == ParseSpec => [](found = {})
<1>1. ParseInv => found = {}
  BY DEF ParseInv
<1>. QED  BY <1>1, InitParseInv, NextParseInv, PTL DEF ParseSpec

-----------------------------------------------------------------------------
\* The spans so far, with the one being read.
All == spans \o currentSpan

\* The place of line i's span among them.
Rank(i) == Cardinality(SpanLines \cap 1 .. i)

\* The lines up to n that give a parent to line i's span.
ParentsUpTo(i, n) ==
  {k \in i .. n : Has(payload[k], "parentSpanId") /\ \A j \in i + 1 .. k : j \notin SpanLines}

\* sp is line i's span as the lines up to n give it.
Stands(sp, i, n) ==
  /\ sp.id = Read(payload[i], "spanId")
  /\ ParentsUpTo(i, n) = {} => sp.parent = Empty
  /\ \A k \in ParentsUpTo(i, n) :
       ParentsUpTo(i, n) = {k} => sp.parent = Read(payload[k], "parentSpanId")

\* Each span line scanned has its span; only at the end is none being read.
KeptInv ==
  /\ ParseInv
  /\ Len(All) = Rank(pos)
  /\ \A i \in SpanLines : i <= pos => Stands(All[Rank(i)], i, pos)
  /\ currentSpan = <<>> /\ spans # <<>> => pos = Len(payload)
  /\ done => pos = Len(payload) /\ currentSpan = <<>>

(* A span line is counted once, and its rank is below that of a later one.   *)
LEMMA Ranks ==
  ASSUME Len(payload) \in Nat, NEW n \in 0 .. Len(payload)
  PROVE  /\ Rank(n) \in Nat /\ Rank(0) = 0
         /\ n + 1 \in SpanLines => Rank(n + 1) = Rank(n) + 1
         /\ n + 1 \notin SpanLines => Rank(n + 1) = Rank(n)
         /\ \A i \in SpanLines : i <= n =>
              /\ Rank(i) \in 1 .. Rank(n)
              /\ (\E j \in i + 1 .. n : j \in SpanLines) => Rank(i) < Rank(n)
              /\ (\A j \in i + 1 .. n : j \notin SpanLines) => Rank(i) = Rank(n)
<1>. DEFINE upTo(m) == SpanLines \cap 1 .. m
<1>1. ASSUME NEW m \in 0 .. Len(payload) PROVE IsFiniteSet(upTo(m)) /\ Cardinality(upTo(m)) \in Nat
  <2>1. IsFiniteSet(1 .. m)
    BY FS_Interval
  <2>. QED  BY <2>1, FS_Subset, FS_CardinalityType
<1>2. Rank(n) \in Nat
  BY <1>1 DEF Rank
<1>3. Rank(0) = 0
  <2>1. upTo(0) = {}
    OBVIOUS
  <2>. QED  BY <2>1, FS_EmptySet DEF Rank
<1>4. ASSUME n + 1 \in SpanLines PROVE Rank(n + 1) = Rank(n) + 1
  <2>1. upTo(n + 1) = upTo(n) \cup {n + 1} /\ n + 1 \notin upTo(n)
    BY <1>4
  <2>. QED  BY <1>1, <2>1, FS_AddElement DEF Rank
<1>5. ASSUME n + 1 \notin SpanLines PROVE Rank(n + 1) = Rank(n)
  <2>1. upTo(n + 1) = upTo(n)
    BY <1>5
  <2>. QED  BY <2>1 DEF Rank
<1>6. ASSUME NEW i \in SpanLines, i <= n
      PROVE  /\ Rank(i) \in 1 .. Rank(n)
             /\ (\E j \in i + 1 .. n : j \in SpanLines) => Rank(i) < Rank(n)
             /\ (\A j \in i + 1 .. n : j \notin SpanLines) => Rank(i) = Rank(n)
  <2>0. i \in 1 .. Len(payload)
    BY DEF SpanLines
  <2>1. i \in upTo(i) /\ upTo(i) \subseteq upTo(n)
    BY <1>6, <2>0
  <2>2. Rank(i) \in Nat /\ Rank(i) # 0
    <3>1. IsFiniteSet(upTo(i)) /\ upTo(i) # {} /\ Rank(i) = Cardinality(upTo(i))
      BY <1>1, <2>0, <2>1 DEF Rank
    <3>. HIDE DEF upTo
    <3>. QED  BY <3>1, FS_EmptySet, FS_CardinalityType
  <2>3. Rank(i) <= Rank(n)
    BY <1>1, <2>1, FS_Subset DEF Rank
  <2>4. ASSUME NEW j \in i + 1 .. n, j \in SpanLines PROVE Rank(i) < Rank(n)
    <3>1. j \in upTo(n) /\ j \notin upTo(i)
      BY <2>0, <2>4
    <3>2. /\ IsFiniteSet(upTo(n)) /\ Cardinality(upTo(n)) \in Nat /\ Cardinality(upTo(i)) \in Nat
          /\ Rank(i) = Cardinality(upTo(i)) /\ Rank(n) = Cardinality(upTo(n))
      <4>1. i \in 0 .. Len(payload) /\ n \in 0 .. Len(payload)
        BY <2>0
      <4>2. IsFiniteSet(upTo(n)) /\ Cardinality(upTo(n)) \in Nat
        BY <1>1
      <4>3. Cardinality(upTo(i)) \in Nat
        BY <1>1, <4>1
      <4>. QED  BY <4>2, <4>3 DEF Rank
    <3>. HIDE DEF upTo
    <3>3. upTo(i) # upTo(n)
      BY <3>1
    <3>. QED  BY <2>1, <3>2, <3>3, FS_Subset
  <2>5. ASSUME \A j \in i + 1 .. n : j \notin SpanLines PROVE Rank(i) = Rank(n)
    <3>1. upTo(n) = upTo(i)
      BY <1>6, <2>0, <2>5
    <3>. QED  BY <3>1 DEF Rank
  <2>. QED  BY <1>2, <2>2, <2>3, <2>4, <2>5
<1>. QED  BY <1>2, <1>3, <1>4, <1>5, <1>6

(* What a line of the scan does to the spans: one that has a span id adds a  *)
(* span and leaves the others; any other touches only the last.              *)
LEMMA AllAfter ==
  ASSUME KeptInv, ScanLine
  PROVE  LET l == payload[pos + 1]
             n == Len(All)
             parent == Read(l, "parentSpanId")
         IN  /\ n \in Nat
             /\ Has(l, "spanId") =>
                  /\ Len(All') = n + 1 /\ \A m \in 1 .. n : All'[m] = All[m]
                  /\ All'[n + 1].id = Read(l, "spanId")
                  /\ All'[n + 1].parent = IF Has(l, "parentSpanId") THEN parent ELSE Empty
             /\ ~Has(l, "spanId") =>
                  /\ Len(All') = n
                  /\ \A m \in 1 .. n : m < n \/ ~Has(l, "parentSpanId") => All'[m] = All[m]
                  /\ n > 0 /\ Has(l, "parentSpanId") =>
                       All'[n].id = All[n].id /\ All'[n].parent = parent
             /\ currentSpan' = <<>> => spans' = <<>>
<1>. DEFINE l == payload[pos + 1]
            n == Len(All)
            parent == Read(l, "parentSpanId")
            svc == IF Has(l, "service.name") /\ NameRead # Empty THEN NameRead ELSE currentSvc
            opened == [svc |-> svc, id |-> Read(l, "spanId"), parent |-> Empty]
<1>1. /\ currentSpan' = SpanAfter(l, svc)
      /\ spans' = IF Has(l, "spanId") THEN spans \o currentSpan ELSE spans
  BY DEF ScanLine
<1>2. /\ currentSpan \in Seq(OneNameSpan) /\ Len(currentSpan) \in 0 .. 1
      /\ spans \in Seq(OneNameSpan) /\ Len(spans) \in Nat
  <2>1. /\ currentSpan \in Seq(OneNameSpan) /\ Len(currentSpan) <= 1
        /\ spans \in Seq(OneNameSpan)
    BY DEF KeptInv, ParseInv
  <2>2. Len(currentSpan) \in Nat /\ Len(spans) \in Nat
    BY <2>1
  <2>3. \A m \in Nat : m <= 1 => m \in 0 .. 1
    OBVIOUS
  <2>. QED  BY <2>1, <2>2, <2>3, Zenon
<1>3. currentSpan = <<>> => spans = <<>>
  BY DEF KeptInv, ParseInv, ScanLine
<1>4. All \in Seq(OneNameSpan) /\ n \in Nat /\ n = Len(spans) + Len(currentSpan)
  BY <1>2, ConcatProperties DEF All
<1>5. CASE Has(l, "spanId")
  <2>. DEFINE s == IF Has(l, "parentSpanId") THEN [opened EXCEPT !.parent = parent] ELSE opened
  <2>1. currentSpan' = <<s>> /\ spans' = All
    BY <1>1, <1>5 DEF SpanAfter, All
  <2>2. s.id = Read(l, "spanId") /\ s.parent = IF Has(l, "parentSpanId") THEN parent ELSE Empty
    OBVIOUS
  <2>3. All' = Append(All, s)
    <3>. HIDE DEF s
    <3>1. All' = All \o <<s>>
      BY <2>1 DEF All
    <3>. QED  BY <1>4, <3>1
  <2>. HIDE DEF s
  <2>4. Len(All') = n + 1 /\ All'[n + 1] = s /\ \A m \in 1 .. n : All'[m] = All[m]
    BY <1>4, <2>3
  <2>5. currentSpan' # <<>>
    BY <2>1
  <2>. QED  BY <1>4, <1>5, <2>2, <2>4, <2>5
<1>6. CASE ~Has(l, "spanId") /\ (~Has(l, "parentSpanId") \/ currentSpan = <<>>)
  <2>1. currentSpan' = currentSpan /\ spans' = spans /\ All' = All
    BY <1>1, <1>6 DEF SpanAfter, All
  <2>2. currentSpan = <<>> => n = 0
    BY <1>3, <1>4
  <2>. QED  BY <1>3, <1>4, <1>6, <2>1, <2>2
<1>7. CASE ~Has(l, "spanId") /\ Has(l, "parentSpanId") /\ currentSpan # <<>>
  <2>. DEFINE s == [currentSpan[1] EXCEPT !.parent = parent]
  <2>1. currentSpan' = <<s>> /\ spans' = spans
    BY <1>1, <1>7 DEF SpanAfter
  <2>2. Len(currentSpan) = 1
    BY <1>2, <1>7
  <2>3. currentSpan[1] \in OneNameSpan
    BY <1>2, <2>2
  <2>4. s.id = currentSpan[1].id /\ s.parent = parent
    BY <2>3 DEF OneNameSpan
  <2>. HIDE DEF s
  <2>5. All' = spans \o <<s>>
    BY <2>1 DEF All
  <2>6. n = Len(spans) + 1 /\ All[n] = currentSpan[1] /\ \A m \in 1 .. Len(spans) : All[m] = spans[m]
    BY <1>2, <1>4, <2>2 DEF All
  <2>7. Len(All') = n /\ All'[n] = s /\ \A m \in 1 .. Len(spans) : All'[m] = spans[m]
    BY <1>2, <2>5, <2>6
  <2>8. currentSpan' # <<>>
    BY <2>1
  <2>. QED  BY <1>2, <1>4, <1>7, <2>4, <2>6, <2>7, <2>8
<1>. QED  BY <1>5, <1>6, <1>7

(* A line that opens a span adds no parent to the one before it; another     *)
(* line is the next of the span that is open.                                *)
LEMMA ParentsGrow ==
  ASSUME NEW i \in Nat, NEW n \in Nat, i <= n
  PROVE  /\ (\E j \in i + 1 .. n + 1 : j \in SpanLines) \/ ~Has(payload[n + 1], "parentSpanId")
              => ParentsUpTo(i, n + 1) = ParentsUpTo(i, n)
         /\ (\A j \in i + 1 .. n + 1 : j \notin SpanLines) /\ Has(payload[n + 1], "parentSpanId")
              => ParentsUpTo(i, n + 1) = ParentsUpTo(i, n) \cup {n + 1}
<1>1. ParentsUpTo(i, n) \subseteq ParentsUpTo(i, n + 1)
  BY DEF ParentsUpTo
<1>2. \A k \in ParentsUpTo(i, n + 1) : k \in ParentsUpTo(i, n) \/ k = n + 1
  BY DEF ParentsUpTo
<1>3. n + 1 \in ParentsUpTo(i, n + 1) <=>
        Has(payload[n + 1], "parentSpanId") /\ \A j \in i + 1 .. n + 1 : j \notin SpanLines
  BY DEF ParentsUpTo
<1>. QED  BY <1>1, <1>2, <1>3

LEMMA ScanLineKeeps == KeptInv /\ ScanLine => KeptInv'
<1>. SUFFICES ASSUME KeptInv, ScanLine PROVE KeptInv'
  OBVIOUS
<1>. DEFINE l == payload[pos + 1]
            n == Len(All)
<1>1. /\ payload' = payload /\ pos' = pos + 1 /\ pos < Len(payload) /\ ~done /\ ~done'
      /\ pos \in 0 .. Len(payload) /\ Len(payload) \in Nat /\ pos + 1 \in 1 .. Len(payload)
  BY DEF ScanLine, KeptInv, ParseInv
<1>2. SpanLines' = SpanLines
  BY <1>1 DEF SpanLines
<1>3. pos + 1 \in SpanLines <=> Has(l, "spanId")
  BY <1>1 DEF SpanLines
<1>4. n \in Nat /\ n = Rank(pos) /\ Len(All') = Rank(pos + 1)
  BY <1>1, <1>3, AllAfter, Ranks DEF KeptInv
<1>5. ASSUME NEW i \in SpanLines, i <= pos + 1 PROVE Stands(All'[Rank(i)], i, pos + 1)
  <2>0. i \in 1 .. Len(payload)
    BY DEF SpanLines
  <2>1. CASE i = pos + 1
    <3>1. Has(l, "spanId") /\ Rank(i) = n + 1
      BY <1>1, <1>3, <1>4, <2>1, Ranks
    <3>2. /\ All'[n + 1].id = Read(l, "spanId")
          /\ All'[n + 1].parent = IF Has(l, "parentSpanId") THEN Read(l, "parentSpanId") ELSE Empty
      BY <3>1, AllAfter
    <3>3. ParentsUpTo(i, pos + 1) = IF Has(l, "parentSpanId") THEN {pos + 1} ELSE {}
      BY <1>1, <2>1 DEF ParentsUpTo
    <3>. QED  BY <2>1, <3>1, <3>2, <3>3 DEF Stands
  <2>2. CASE i <= pos
    <3>0. i \in Nat /\ pos \in Nat /\ Rank(i) \in 1 .. n
      BY <1>1, <1>4, <2>0, <2>2, Ranks
    <3>1. Stands(All[Rank(i)], i, pos)
      BY <2>2 DEF KeptInv
    <3>2. CASE (\E j \in i + 1 .. pos + 1 : j \in SpanLines) \/ ~Has(l, "parentSpanId")
      <4>1. ParentsUpTo(i, pos + 1) = ParentsUpTo(i, pos)
        BY <2>2, <3>0, <3>2, ParentsGrow
      <4>2. CASE Has(l, "spanId")
        BY <3>0, <3>1, <4>1, <4>2, AllAfter DEF Stands
      <4>3. CASE ~Has(l, "spanId")
        <5>1. Rank(i) < n \/ ~Has(l, "parentSpanId")
          <6>1. ASSUME NEW j \in i + 1 .. pos + 1, j \in SpanLines PROVE Rank(i) < n
            <7>1. j \in i + 1 .. pos
              BY <1>3, <3>0, <4>3, <6>1
            <7>. QED  BY <1>1, <1>4, <2>2, <6>1, <7>1, Ranks
          <6>. QED  BY <3>2, <6>1
        <5>2. All'[Rank(i)] = All[Rank(i)]
          BY <3>0, <4>3, <5>1, AllAfter
        <5>. QED  BY <3>1, <4>1, <5>2 DEF Stands
      <4>. QED  BY <4>2, <4>3
    <3>3. CASE (\A j \in i + 1 .. pos + 1 : j \notin SpanLines) /\ Has(l, "parentSpanId")
      <4>1. ~Has(l, "spanId")
        <5>1. pos + 1 \in i + 1 .. pos + 1
          BY <2>2, <3>0
        <5>. QED  BY <1>3, <3>3, <5>1
      <4>2. Rank(i) = n
        <5>1. \A j \in i + 1 .. pos : j \notin SpanLines
          BY <3>0, <3>3
        <5>. QED  BY <1>1, <1>4, <2>2, <5>1, Ranks
      <4>3. All'[n].id = All[n].id /\ All'[n].parent = Read(l, "parentSpanId")
        BY <3>0, <3>3, <4>1, <4>2, AllAfter
      <4>4. ParentsUpTo(i, pos + 1) = ParentsUpTo(i, pos) \cup {pos + 1}
        BY <2>2, <3>0, <3>3, ParentsGrow
      <4>5. \A k \in ParentsUpTo(i, pos + 1) : ParentsUpTo(i, pos + 1) = {k} => k = pos + 1
        BY <4>4
      <4>. QED  BY <3>1, <4>2, <4>3, <4>4, <4>5 DEF Stands
    <3>. QED  BY <3>2, <3>3
  <2>. QED  BY <1>1, <1>5, <2>0, <2>1, <2>2
<1>6. \A i \in SpanLines' : i <= pos' => Stands(All[Rank(i)], i, pos)'
  <2>. SUFFICES ASSUME NEW i \in SpanLines, i <= pos + 1 PROVE Stands(All[Rank(i)], i, pos)'
    BY <1>1, <1>2
  <2>1. ParentsUpTo(i, pos)' = ParentsUpTo(i, pos + 1)
    BY <1>1, <1>2 DEF ParentsUpTo, Has
  <2>2. Rank(i)' = Rank(i)
    BY <1>2 DEF Rank
  <2>. DEFINE sp == All'[Rank(i)]
              up == ParentsUpTo(i, pos + 1)
  <2>3. ParentsUpTo(i, pos)' = up /\ All[Rank(i)]' = sp
    BY <1>1, <2>1, <2>2
  <2>4. Stands(sp, i, pos + 1)
    BY <1>5
  <2>5. /\ sp.id = Read(payload[i], "spanId")
        /\ up = {} => sp.parent = Empty
        /\ \A k \in up : up = {k} => sp.parent = Read(payload[k], "parentSpanId")
    BY <2>4 DEF Stands
  <2>. HIDE DEF up, sp
  <2>. QED  BY <1>1, <2>3, <2>5 DEF Stands
<1>7. Len(All)' = Rank(pos)'
  BY <1>1, <1>2, <1>4 DEF Rank
<1>8. ParseInv'
  BY ScanLineParseInv DEF KeptInv
<1>9. currentSpan' = <<>> => spans' = <<>>
  BY AllAfter
<1>. QED  BY <1>1, <1>6, <1>7, <1>8, <1>9 DEF KeptInv

LEMMA InitKeptInv == ParseInit => KeptInv
<1>. SUFFICES ASSUME ParseInit PROVE KeptInv
  OBVIOUS
<1>1. ParseInv
  BY InitParseInv
<1>2. All = <<>> /\ pos = 0 /\ currentSpan = <<>> /\ spans = <<>> /\ ~done
  BY DEF ParseInit, All
<1>3. Len(payload) \in Nat
  BY <1>1 DEF ParseInv
<1>4. Rank(pos) = 0
  BY <1>2, <1>3, Ranks
<1>5. \A i \in SpanLines : ~(i <= pos)
  BY <1>2 DEF SpanLines
<1>6. Len(All) = 0
  BY <1>2
<1>. QED  BY <1>1, <1>2, <1>4, <1>5, <1>6 DEF KeptInv

(* The other steps leave the spans and what is known of them as they are.    *)
LEMMA RestKeeps ==
  ASSUME KeptInv, ParseInv', payload' = payload, pos' = pos, All' = All,
         currentSpan' = <<>> => spans' = <<>> \/ pos = Len(payload),
         done' => pos = Len(payload) /\ currentSpan' = <<>>
  PROVE  KeptInv'
<1>1. SpanLines' = SpanLines
  BY DEF SpanLines
<1>2. \A i : Rank(i)' = Rank(i) /\ ParentsUpTo(i, pos)' = ParentsUpTo(i, pos)
  BY <1>1 DEF Rank, ParentsUpTo, Has
<1>3. \A i \in SpanLines' : i <= pos' => Stands(All[Rank(i)], i, pos)'
  <2>. SUFFICES ASSUME NEW i \in SpanLines, i <= pos PROVE Stands(All[Rank(i)], i, pos)'
    BY <1>1
  <2>. DEFINE sp == All[Rank(i)]
              up == ParentsUpTo(i, pos)
  <2>1. /\ sp.id = Read(payload[i], "spanId")
        /\ up = {} => sp.parent = Empty
        /\ \A k \in up : up = {k} => sp.parent = Read(payload[k], "parentSpanId")
    BY DEF Stands, KeptInv
  <2>2. ParentsUpTo(i, pos)' = up /\ All[Rank(i)]' = sp
    BY <1>2
  <2>. HIDE DEF up, sp
  <2>. QED  BY <2>1, <2>2 DEF Stands
<1>4. Len(All)' = Rank(pos)'
  BY <1>1 DEF Rank, KeptInv
<1>. QED  BY <1>3, <1>4 DEF KeptInv

LEMMA NextKeptInv == KeptInv /\ [ParseNext]_parseVars => KeptInv'
<1>. SUFFICES ASSUME KeptInv, [ParseNext]_parseVars PROVE KeptInv'
  OBVIOUS
<1>1. ParseInv'
  BY NextParseInv DEF KeptInv
<1>2. CASE ScanLine
  BY <1>2, ScanLineKeeps
<1>3. CASE LastSpan
  <2>1. /\ payload' = payload /\ pos' = pos /\ pos = Len(payload) /\ currentSpan' = <<>>
        /\ spans' = spans \o currentSpan /\ currentSpan # <<>> /\ done' = done
    BY <1>3 DEF LastSpan
  <2>2. All \in Seq(OneNameSpan)
    BY ConcatProperties DEF All, KeptInv, ParseInv
  <2>3. All' = All
    BY <2>1, <2>2 DEF All
  <2>. QED  BY <1>1, <2>1, <2>3, RestKeeps DEF KeptInv
<1>4. CASE UNCHANGED <<payload, pos, currentSpan, spans>>
  <2>1. All' = All
    BY <1>4 DEF All
  <2>2. done' => pos = Len(payload) /\ currentSpan = <<>>
    BY <1>4 DEF ParseNext, ScanLine, LastSpan, Extract, parseVars, KeptInv
  <2>3. currentSpan = <<>> => spans = <<>> \/ pos = Len(payload)
    BY DEF KeptInv
  <2>. QED  BY <1>1, <1>4, <2>1, <2>2, <2>3, RestKeeps
<1>5. ScanLine \/ LastSpan \/ UNCHANGED <<payload, pos, currentSpan, spans>>
  BY DEF ParseNext, Extract, parseVars
<1>. QED  BY <1>2, <1>3, <1>4, <1>5

(* Of every text with a value on each line the pass keeps all spans, the     *)
(* last one included, in the order of the text, each with its parent.        *)
THEOREM NoSpanLost == ParseSpec => []SpansKept
<1>1. KeptInv => SpansKept
  <2>. SUFFICES ASSUME KeptInv, done
                PROVE  /\ Len(spans) = Cardinality(SpanLines)
                       /\ \A i \in SpanLines :
                            LET sp == spans[Cardinality(SpanLines \cap 1 .. i)]
                            IN  /\ sp.id = Read(payload[i], "spanId")
                                /\ ParentLines(i) = {} => sp.parent = Empty
                                /\ \A k \in ParentLines(i) :
                                     ParentLines(i) = {k} => sp.parent = Read(payload[k], "parentSpanId")
    BY DEF SpansKept
  <2>1. pos = Len(payload) /\ currentSpan = <<>> /\ spans \in Seq(OneNameSpan) /\ Len(payload) \in Nat
    BY DEF KeptInv, ParseInv
  <2>2. All = spans
    BY <2>1 DEF All
  <2>3. SpanLines \cap 1 .. pos = SpanLines
    BY <2>1 DEF SpanLines
  <2>4. Len(spans) = Cardinality(SpanLines)
    BY <2>2, <2>3 DEF KeptInv, Rank
  <2>5. \A i \in SpanLines : Stands(spans[Rank(i)], i, pos)
    BY <2>1, <2>2 DEF KeptInv, SpanLines
  <2>6. \A i : ParentLines(i) = ParentsUpTo(i, pos)
    BY <2>1 DEF ParentLines, ParentsUpTo
  <2>. QED  BY <2>4, <2>5, <2>6 DEF Stands, Rank
<1>. QED  BY <1>1, InitKeptInv, NextKeptInv, PTL DEF ParseSpec
=============================================================================
