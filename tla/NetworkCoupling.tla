-------------------------- MODULE NetworkCoupling --------------------------
(***************************************************************************)
(* The analyses of a snapshot that need no iteration to a limit:           *)
(* ComputeNetworkCoupling (modelling/network.go), with a fixed number of   *)
(* rounds, and modelling/topology_sensitivity.go.                          *)
(*                                                                         *)
(* Pressures are in P-ths.  A path that an analysis returns is one of a    *)
(* set: of equal ones the first that the walk over a map meets.            *)
(***************************************************************************)
EXTENDS Equilibrium

CONSTANTS
  P,          \* 1.0 of a pressure
  MaxRounds,  \* the cap on nIter (20)
  MaxDepth,   \* the cap on upstreamDepth (6)
  MaxHops     \* the hops of reachCount (4)

ASSUME CouplingAssumption ==
  /\ P \in Nat \ {0} /\ P % 100 = 0
  /\ MaxRounds \in Nat /\ MaxDepth \in Nat /\ MaxHops \in Nat

\* Mutated form of Callers: the edges indexed by their source.
CalleesAsCallers(s) == {c \in Service : Weight(s, c) > 0}

Callers(s) == {c \in Service : Weight(c, s) > 0}
Callees(s) == {c \in Service : Weight(s, c) > 0}

-----------------------------------------------------------------------------
\* The normalised local rate.
Own(wins) ==
  LET maxRate == Max({1} \cup {wins[s].rate : s \in DOMAIN wins})
  IN  [s \in Service |-> IF s \in DOMAIN wins THEN (P * wins[s].rate) \div maxRate ELSE 0]

\* What k calls of the least weight leave of a pressure of x.
Fading(x) ==
  LET f[k \in Nat] == IF k = 0 THEN x ELSE (6 * f[k - 1]) \div (40 * MaxWeight)
  IN  f

\* P is a scale on which no pressure is rounded to nothing on its way.
ASSUME FadingAssumption ==
  \A wins \in Windows : \A s \in DOMAIN wins :
    wins[s].rate > 0 => Fading(Own(wins)[s])[Floor(Cardinality(Service), MaxRounds)] > 0

\* What the callers have, by the weight of their calls.
Incoming(p, s) == SumFunction([c \in Callers(s) |-> p[c] * Weight(c, s)])

\* One round: 0.6 * 0.25 of it comes on top of the targets' pressure.
Spread(p) ==
  [s \in Service |->
    IF Callers(s) = {} THEN p[s]
    ELSE Floor(p[s] + (6 * Incoming(p, s)) \div (40 * MaxWeight), 2 * P)]

Pressures(wins) ==
  LET f[k \in Nat] == IF k = 0 THEN Own(wins) ELSE Spread(f[k - 1])
  IN  f

\* pressure, after the rounds.
Pressure(wins) == Pressures(wins)[Floor(Cardinality(graph.nodes), MaxRounds)]

\* PathSaturationRisk, as the number of callers above 0.85.
SaturatedCallers(wins, s) == {c \in Callers(s) : 100 * Pressure(wins)[c] > 85 * P}

\* CoupledArrivalRate, in 20 * MaxWeight-ths.
CoupledRate(wins, s) ==
  Floor(20 * MaxWeight * wins[s].rate
          + 3 * MapThenSumSet(LAMBDA c : Weight(c, s) * wins[c].rate, Callers(s) \cap DOMAIN wins),
        50 * MaxWeight * wins[s].rate)

\* PathEquilibriumRho
EqRho(wins, s) ==
  LET ep == Pressure(wins)[s] IN Floor(ep + (ep * ep) \div (5 * P), 2 * P)

\* PathSaturationHorizonSec = 0, as it also is in the zero value that
\* computeState gets for every service when the graph has no node.
SaturatesNow(wins, s) == graph.nodes = {} \/ EqRho(wins, s) >= P

\* upstreamDepth, with the hops left instead of the hops gone: the callers
\* above each service, a service met again ending the chain.
Upstream ==
  LET u[k \in Nat] ==
        [seen \in SUBSET Service |-> [t \in Service |->
          IF k = 0 \/ t \in seen THEN 0
          ELSE Max({0} \cup {1 + u[k - 1][seen \cup {t}][c] : c \in Callers(t)})]]
  IN  u

Depth(s) == Upstream[MaxDepth][{}][s]

\* ComputeNetworkCoupling's result for s.
Coupling(wins, s) ==
  [pressure |-> Pressure(wins)[s], saturated |-> SaturatedCallers(wins, s),
   rate |-> CoupledRate(wins, s), length |-> Depth(s), eqRho |-> EqRho(wins, s),
   now |-> SaturatesNow(wins, s)]

\* The utilisation a window shows, without its queue.
Util(w) == IF Observed(w) THEN Floor((P * w.rate) \div w.mu, 2 * P) ELSE 0

\* ComputeNetworkEquilibrium: the numerators of the two means; a service
\* without traffic counts in the second one only.
IsConverging(wins) ==
  LET busy == {s \in DOMAIN wins : wins[s].rate > 0}
      rhos == MapThenSumSet(LAMBDA s : Util(wins[s]) * wins[s].rate, busy)
      eqs == MapThenSumSet(LAMBDA s : EqRho(wins, s) * Max({1, wins[s].rate}), DOMAIN wins)
  IN  graph.nodes # {} /\ busy # {} /\ eqs < rhos

-----------------------------------------------------------------------------
\* reachCount, of the calls' targets.
Reach(s) ==
  LET f[k \in 0 .. MaxHops] ==
        IF k = 0 THEN {s} ELSE f[k - 1] \cup UNION {Callees(t) : t \in f[k - 1]}
  IN  f[MaxHops] \ {s}

Incident(s) == MapThenSumSet(LAMBDA t : Weight(s, t) + Weight(t, s), Service)

\* IsKeystone: the maximum is taken over the services that call another.
Keystone(s) ==
  LET maxWeight == Max({MaxWeight} \cup {Incident(t) : t \in Sources(graph)})
  IN  5 * Incident(s) > 3 * maxWeight
      \/ Cardinality(Reach(s)) > Cardinality(graph.nodes) \div 2

\* The walks of findMaxAmplificationPath: simple paths from the nodes that
\* nothing calls, or from all nodes.
Starts ==
  LET roots == {s \in graph.nodes : Callers(s) = {}}
  IN  IF roots = {} THEN graph.nodes ELSE roots

SimplePaths(from) ==
  {p \in UNION {[1 .. n -> Service] : n \in 1 .. Cardinality(Service)} :
     /\ p[1] \in from
     /\ \A i, j \in DOMAIN p : i # j => p[i] # p[j]
     /\ \A i \in 1 .. Len(p) - 1 : Weight(p[i], p[i + 1]) > 0}

\* The product of a path's weights, of edges e[i], in MaxWeight^n-ths for
\* n = Cardinality(Service).
Product(p) ==
  LET f[i \in 1 .. Cardinality(Service) + 1] ==
        IF i = 1 THEN MaxWeight
        ELSE f[i - 1] * (IF i <= Len(p) THEN Weight(p[i - 1], p[i]) ELSE MaxWeight)
  IN  f[Cardinality(Service) + 1]

Score(p) == Product(p) * Len(p)

\* MaxAmplificationPath
AmplificationPaths ==
  LET ps == SimplePaths(Starts)
  IN  IF Sources(graph) = {} \/ ps = {} THEN {<<>>} ELSE {p \in ps : \A q \in ps : Score(q) <= Score(p)}
=============================================================================
