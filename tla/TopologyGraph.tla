---------------------------- MODULE TopologyGraph ----------------------------
(***************************************************************************)
(* topology/graph.go: the service graph.  Update runs under Graph.mu and   *)
(* is called from two threads, the tick and the edge consumer, so it is    *)
(* one step (EdgePipeline composes the callers).                           *)
(*                                                                         *)
(* An edge's weight is abstracted to the number of the decay that takes it *)
(* below 0.005 and deletes it: 0 when it was reported below that already.  *)
(* Snapshot keeps the edges with at least Visible left (weight 0.02).  A   *)
(* node's NormalisedLoad is abstracted to whether it is positive.          *)
(***************************************************************************)
EXTENDS Integers, FiniteSets, FiniteSetsExt

CONSTANTS
  Service,   \* the service identifiers
  MaxNodes,  \* maxNodes
  StaleAge,  \* nodeStaleAge
  Full,      \* the decay that deletes an edge of weight 1
  Visible,   \* the decays left at edgeWeightFloor
  MaxTime    \* bound: the clock stops here

ASSUME GraphAssumption ==
  /\ IsFiniteSet(Service)
  /\ MaxNodes \in Nat /\ StaleAge \in Nat /\ MaxTime \in Nat \ {0}
  /\ Full \in Nat \ {0} /\ Visible \in 1 .. Full

VARIABLES
  now,       \* the clock
  nodes,     \* the services with a Node
  lastSeen,  \* each node's LastSeen; 0 when there is no node
  edges,     \* the <<source, target>> pairs with an Edge
  weight,    \* each edge's weight; 0 when there is no edge
  loaded     \* the nodes with NormalisedLoad > 0

graphVars == <<nodes, lastSeen, edges, weight, loaded>>

Pair == Service \X Service

GraphTypeOK ==
  /\ now \in 1 .. MaxTime
  /\ nodes \subseteq Service
  /\ lastSeen \in [Service -> 0 .. MaxTime]
  /\ edges \subseteq Pair
  /\ weight \in [Pair -> 0 .. Full]
  /\ loaded \subseteq nodes

\* New
GraphInit ==
  /\ now = 1
  /\ nodes = {} /\ lastSeen = [s \in Service |-> 0]
  /\ edges = {} /\ weight = [e \in Pair |-> 0]
  /\ loaded = {}

\* Mutated form of Admitted: the cap is tested once, before the loop.
AdmittedAll(n, cands) == {IF Cardinality(n) < MaxNodes THEN n \cup cands ELSE n}

\* What n can become when cands are added one by one while there is room:
\* which ones get in depends on the order Go walks the map.
Admitted(n, cands) ==
  LET new == cands \ n
      room == IF Cardinality(n) < MaxNodes THEN MaxNodes - Cardinality(n) ELSE 0
  IN  {n \cup a : a \in kSubset(IF Cardinality(new) < room THEN Cardinality(new) ELSE room, new)}

\* propagateLoad: the nodes that eight sweeps reach from n along es.
Reached(n, es) ==
  LET f[k \in 0 .. 8] ==
        IF k = 0 THEN n
        ELSE LET m == f[k - 1] IN m \cup {e[2] : e \in {x \in es : x[1] \in m}}
  IN  f[8]

\* Mutated form of Left: only the edges of sources without a window decay.
LeftOfQuiet(e, win, busy, rep) ==
  IF e[1] \in win THEN (IF e \in DOMAIN rep THEN rep[e] ELSE weight[e]) ELSE weight[e] - 1

\* The weight of e after an Update that reports the weights rep for the calls
\* of services in win, busy having traffic: refreshed, kept, or decayed.
Left(e, win, busy, rep) ==
  CASE e \in DOMAIN rep /\ e[1] \in busy -> rep[e]
    [] e \in DOMAIN rep /\ e[1] \notin busy -> weight[e]
    [] OTHER -> weight[e] - 1

\* Mutated form of Refreshed: LastSeen is set only when the node is created.
RefreshedOnce(n1, n2, win) ==
  [s \in Service |-> IF s \in n2 \ nodes THEN now ELSE lastSeen[s]]

\* LastSeen after the upserts: windows refresh their node, a call's target is
\* given a time only when its node is new.
Refreshed(n1, n2, win) ==
  [s \in Service |-> IF s \in (win \cap n1) \cup (n2 \ n1) THEN now ELSE lastSeen[s]]

\* Mutated form of Orphaned: pruning a node leaves its edges.
OrphanedNone(es, old) == {}

\* Mutated form of Orphaned: the edges to a pruned node go too.
OrphanedBoth(es, old) == {e \in es : e[1] \in old \/ e[2] \in old}

\* The edges that go with the nodes old: those they are the source of.
Orphaned(es, old) == {e \in es : e[1] \in old}

\* Update, with windows for win.
Update(win, busy, rep) ==
  \E n1 \in Admitted(nodes, win) : \E n2 \in Admitted(n1, {e[2] : e \in DOMAIN rep}) :
    LET seen == Refreshed(n1, n2, win)
        old == {s \in n2 : now - seen[s] > StaleAge}
        kept == DOMAIN rep \cup {e \in edges : Left(e, win, busy, rep) > 0}
    IN  /\ nodes' = n2 \ old
        /\ lastSeen' = [s \in Service |-> IF s \in old THEN 0 ELSE seen[s]]
        /\ edges' = kept \ Orphaned(kept, old)
        /\ weight' = [e \in Pair |-> IF e \in edges' THEN Left(e, win, busy, rep) ELSE 0]
        /\ loaded' = Reached(((loaded \ win) \cup busy) \cap nodes',
                             {e \in edges' : weight'[e] > 0 /\ e[2] \in nodes'})

\* The edges of Snapshot.
SnapshotEdges == {e \in edges : weight[e] >= Visible}

(* However many services the windows and the calls of an update name, and in *)
(* whatever order they are walked, the graph never has more than MaxNodes    *)
(* nodes: the two upsert loops test the same cap.                            *)
NodesBounded == Cardinality(nodes) <= MaxNodes
=============================================================================
