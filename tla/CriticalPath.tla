---------------------------- MODULE CriticalPath ----------------------------
(***************************************************************************)
(* topology/graph.go, criticalPath: a longest-path relaxation with one     *)
(* round per node, over maps that Go walks in random order, and the walk   *)
(* back along prev from a service with the highest value.                  *)
(*                                                                         *)
(* Weights are multiples of 1 / MaxWeight.  No service calls itself        *)
(* (parseOTLPJSON only reports calls between two services), so the targets *)
(* of one source are relaxed in one step.  A node's NormalisedLoad is      *)
(* abstracted to whether it is positive.                                   *)
(***************************************************************************)
EXTENDS Integers, Sequences, FiniteSets

CONSTANTS
  Service,    \* the service identifiers
  None,       \* the empty service identifier
  MaxWeight,  \* 1.0 of an edge's weight
  Graphs      \* the graphs that criticalPath is called on

Graph == [nodes : SUBSET Service, weight : [Service \X Service -> 0 .. MaxWeight],
          loaded : SUBSET Service]

ASSUME GraphsAssumption ==
  /\ None \notin Service /\ IsFiniteSet(Service)
  /\ MaxWeight \in Nat \ {0}
  /\ Graphs \subseteq Graph
  /\ \A g \in Graphs : \A s \in Service : g.weight[<<s, s>>] = 0

VARIABLES
  graph,  \* the graph, read-locked
  pc,     \* "relax", "walk" or "found"
  dist,   \* the weight found so far of a path to each service
  prev,   \* the service before it on that path
  todo,   \* the sources this round has still to relax
  round,  \* the rounds completed
  cur,    \* the service the walk has come to
  path,   \* CriticalPath.Nodes
  total,  \* CriticalPath.TotalWeight; 0 for the fallback to the highest load
  sum     \* history: the weight of path's edges

pathVars == <<pc, dist, prev, todo, round, cur, path, total, sum>>

TypeOK ==
  /\ graph \in Graphs
  /\ pc \in {"relax", "walk", "found"}
  /\ dist \in [Service -> Nat]
  /\ prev \in [Service -> Service \cup {None}]
  /\ todo \subseteq Service /\ round \in Nat
  /\ cur \in Service \cup {None}
  /\ path \in Seq(Service) /\ total \in Nat /\ sum \in Nat

Weight(s, t) == graph.weight[<<s, t>>]
Sources(g) == {s \in Service : \E t \in Service : g.weight[<<s, t>>] > 0}

\* The call: no node, no path.
Begin(g) ==
  /\ graph' = g
  /\ pc' = IF g.nodes = {} THEN "found" ELSE "relax"
  /\ dist' = [s \in Service |-> 0] /\ prev' = [s \in Service |-> None]
  /\ todo' = Sources(g) /\ round' = 0
  /\ cur' = None /\ path' = <<>> /\ total' = 0 /\ sum' = 0

Init ==
  /\ graph \in Graphs
  /\ pc = IF graph.nodes = {} THEN "found" ELSE "relax"
  /\ dist = [s \in Service |-> 0] /\ prev = [s \in Service |-> None]
  /\ todo = Sources(graph) /\ round = 0
  /\ cur = None /\ path = <<>> /\ total = 0 /\ sum = 0

Better(s) == {t \in Service : Weight(s, t) > 0 /\ dist[s] + Weight(s, t) > dist[t]}

\* Mutated form of RelaxFrom: prev is set for every target.
RelaxFromAll(s) ==
  /\ pc = "relax" /\ s \in todo
  /\ dist' = [t \in Service |-> IF t \in Better(s) THEN dist[s] + Weight(s, t) ELSE dist[t]]
  /\ prev' = [t \in Service |-> IF Weight(s, t) > 0 THEN s ELSE prev[t]]
  /\ todo' = todo \ {s}
  /\ UNCHANGED <<graph, pc, round, cur, path, total, sum>>

\* The inner loop, for one source.
RelaxFrom(s) ==
  /\ pc = "relax" /\ s \in todo
  /\ dist' = [t \in Service |-> IF t \in Better(s) THEN dist[s] + Weight(s, t) ELSE dist[t]]
  /\ prev' = [t \in Service |-> IF t \in Better(s) THEN s ELSE prev[t]]
  /\ todo' = todo \ {s}
  /\ UNCHANGED <<graph, pc, round, cur, path, total, sum>>

\* Mutated form of MoreRounds: a single pass over the edges.
MoreRoundsNone == FALSE

\* The outer loop's condition, after round + 1 rounds.
MoreRounds == round + 1 < Cardinality(graph.nodes)

NextRound ==
  /\ pc = "relax" /\ todo = {} /\ MoreRounds
  /\ todo' = Sources(graph) /\ round' = round + 1
  /\ UNCHANGED <<graph, pc, dist, prev, cur, path, total, sum>>

Reached == {s \in Service : dist[s] > 0}

\* The service with the highest value; of several, the first that is walked.
PickBest ==
  /\ pc = "relax" /\ todo = {} /\ ~MoreRounds
  /\ \E b \in Reached :
       /\ \A s \in Service : dist[s] <= dist[b]
       /\ cur' = b /\ total' = dist[b]
  /\ pc' = "walk"
  /\ UNCHANGED <<graph, dist, prev, todo, round, path, sum>>

\* No edge was relaxed: the node with the highest load, if any has load.
Fallback ==
  /\ pc = "relax" /\ todo = {} /\ ~MoreRounds /\ Reached = {}
  /\ IF graph.nodes \cap graph.loaded = {} THEN path' = <<>>
     ELSE \E n \in graph.nodes \cap graph.loaded : path' = <<n>>
  /\ pc' = "found"
  /\ UNCHANGED <<graph, dist, prev, todo, round, cur, total, sum>>

OnPath(s) == \E i \in 1 .. Len(path) : path[i] = s

Walk ==
  /\ pc = "walk" /\ cur # None /\ ~OnPath(cur)
  /\ path' = <<cur>> \o path
  /\ cur' = prev[cur]
  /\ sum' = IF path = <<>> THEN 0 ELSE sum + Weight(cur, path[1])
  /\ UNCHANGED <<graph, pc, dist, prev, todo, round, total>>

WalkEnds ==
  /\ pc = "walk" /\ (cur = None \/ OnPath(cur))
  /\ pc' = "found"
  /\ UNCHANGED <<graph, dist, prev, todo, round, cur, path, total, sum>>

PathStep ==
  \/ \E s \in Service : RelaxFrom(s)
  \/ NextRound \/ PickBest \/ Fallback \/ Walk \/ WalkEnds

PathNext == PathStep \/ \E g \in Graphs : pc = "found" /\ Begin(g)
PathSpec == Init /\ [][PathNext]_<<graph, pathVars>>

-----------------------------------------------------------------------------
(* Nodes is a path of the graph, each edge with positive weight, and unless  *)
(* the walk was cut by a cycle it weighs at least the TotalWeight reported   *)
(* with it, although dist[prev[s]] may have risen since prev[s] was set.     *)
PathCovers ==
  pc = "found" /\ total > 0 =>
    /\ path # <<>>
    /\ \A i \in 1 .. Len(path) - 1 : Weight(path[i], path[i + 1]) > 0
    /\ prev[path[1]] = None => total <= sum
=============================================================================
