------------------------------ MODULE Analysis ------------------------------
(***************************************************************************)
(* api/server.go, computeState: the graph's snapshot with its critical     *)
(* path, the windows read after it, the solver, and the system-level       *)
(* aggregation; and simulation/whatif.go, which makes the same analyses of *)
(* changed windows for POST /api/simulate.                                 *)
(***************************************************************************)
EXTENDS NetworkCoupling

VARIABLES
  stage,  \* "snapshot", "solve" or "report"
  state   \* what computeState returns

vars == <<graph, pathVars, solverVars, stage, state>>

NoState == [services |-> <<>>, now |-> FALSE, converging |-> FALSE, bottleneck |-> None,
            danger |-> <<>>]

AnalysisInit ==
  /\ Init
  /\ windows = <<>> /\ rho = [s \in Service |-> 0]
  /\ left = {} /\ moved = FALSE /\ iter = 0 /\ converged = FALSE
  /\ stage = "snapshot" /\ state = NoState

\* s.graph.Snapshot()
Snapshot ==
  /\ stage = "snapshot" /\ PathStep
  /\ UNCHANGED <<solverVars, stage, state>>

\* s.store.AllWindows: without windows, computeState returns an empty state.
\* What criticalPath worked with is gone by now.
ReadWindows ==
  /\ stage = "snapshot" /\ pc = "found"
  /\ \E wins \in Windows : SolveBegin(wins) /\ stage' = IF DOMAIN wins = {} THEN "report" ELSE "solve"
  /\ dist' = [s \in Service |-> 0] /\ prev' = [s \in Service |-> None]
  /\ sum' = 0 /\ total' = 0 /\ round' = 0 /\ cur' = None
  /\ UNCHANGED <<graph, pc, todo, path, state>>

\* ComputeFixedPointEquilibrium
Solve ==
  /\ stage = "solve"
  /\ NextSweep \/ \E s \in Service : Visit(s)
  /\ UNCHANGED <<graph, pathVars, stage, state>>

\* Bottlenecks: the highest utilisation; of equal ones the least identifier.
Bottlenecks ==
  {s \in DOMAIN windows : rho[s] > 0 /\ \A t \in DOMAIN windows : rho[t] <= rho[s]}

\* ComputePerturbationSensitivity: losing capacity raises the risk of the
\* services that have load and are not at the limit of 1.5.
Sensitive == {s \in DOMAIN windows : rho[s] > 0 /\ 2 * rho[s] < 3 * U}

\* MostDangerousPath: of the amplification analysis, else the critical path,
\* else the most sensitive service.
Dangers(ps) ==
  CASE <<>> \notin ps                              -> ps
    [] <<>> \in ps /\ path # <<>>                  -> {path}
    [] <<>> \in ps /\ path = <<>> /\ Sensitive # {} -> {<<s>> : s \in Sensitive}
    [] OTHER                                       -> {<<>>}

Report ==
  /\ stage = "solve" /\ Solved
  /\ converged' = ~moved
  /\ \E b \in (IF Bottlenecks = {} THEN {None} ELSE Bottlenecks), d \in Dangers(AmplificationPaths) :
       state' = [services   |-> [s \in DOMAIN windows |->
                                  [pressure |-> Coupling(windows, s).pressure,
                                   keystone |-> s \in graph.nodes /\ Keystone(s)]],
                 now        |-> \E s \in DOMAIN windows : Coupling(windows, s).now,
                 converging |-> IsConverging(windows),
                 bottleneck |-> b,
                 danger     |-> d]
  /\ stage' = "report"
  /\ UNCHANGED <<graph, pathVars, windows, rho, left, moved, iter>>

\* The next tick.  Its graph may be another one: each is also an initial one.
NextTick ==
  /\ stage = "report"
  /\ Begin(graph)
  /\ SolveBegin(<<>>)
  /\ stage' = "snapshot" /\ state' = NoState

Next == Snapshot \/ ReadWindows \/ Solve \/ Report \/ NextTick

Spec == AnalysisInit /\ [][Next]_vars

-----------------------------------------------------------------------------
Endpoints == {s \in Service : Callers(s) # {} \/ Callees(s) # {}}

PathWeight(p) == SumFunction([i \in 1 .. Len(p) - 1 |-> Weight(p[i], p[i + 1])])

Acyclic == \A s \in Service : \A p \in SimplePaths({s}) : Weight(p[Len(p)], s) = 0

(* On a graph without cycles whose calls all have a node at both ends, the   *)
(* critical path is a heaviest path and TotalWeight its weight, in whatever  *)
(* order the maps are walked: as many rounds as nodes are enough.            *)
HeaviestPath ==
  stage = "snapshot" /\ pc = "found" /\ Acyclic /\ Endpoints \subseteq graph.nodes =>
    /\ total = sum
    /\ \A p \in SimplePaths(Service) : PathWeight(p) <= total

(* The solver converges, and what it returns does not depend on the order in *)
(* which Go walks the windows: it is the least solution of the equations.    *)
OrderIndependent == stage = "report" /\ windows # <<>> => converged /\ rho = Solution(windows)

\* Traffic comes to s along at most n calls, perhaps its own around a cycle.
TrafficReaches(s, n) ==
  \E p \in SimplePaths(DOMAIN windows) :
    /\ windows[p[1]].rate > 0
    /\ \/ p[Len(p)] = s /\ Len(p) \in 2 .. n + 1
       \/ p[1] = s /\ Weight(p[Len(p)], s) > 0 /\ Len(p) <= n

\* The calls of a chain of callers, with the one that closes it to a cycle.
Calls(p) == Len(p) - (IF \E i \in DOMAIN p : p[i] \in Callers(p[1]) THEN 0 ELSE 1)

(* Pressure finds its way along the calls and nowhere else: a service is     *)
(* given more than its own exactly if traffic reaches it within as many      *)
(* calls as there are rounds, through services without a window as well.     *)
(* The length reported with it is that of the longest chain of callers, and  *)
(* one more if a cycle closes that chain, up to the cap.                     *)
PressureFollowsCalls ==
  stage = "report" /\ windows # <<>> =>
    \A s \in Service :
      /\ Pressure(windows)[s] > Own(windows)[s]
           <=> TrafficReaches(s, Floor(Cardinality(graph.nodes), MaxRounds))
      /\ Depth(s) = Floor(Max({Calls(p) : p \in {q \in SimplePaths(Service) : q[Len(q)] = s}}), MaxDepth)

(* The solver starts below the solution and never overshoots: no sweep       *)
(* lowers a utilisation, so stopping it early only understates the load.     *)
NeverLowers == [][stage = "solve" /\ stage' = "solve" => \A s \in Service : rho[s] <= rho'[s]]_vars
=============================================================================
