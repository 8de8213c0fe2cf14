--------------------------- MODULE Analysis_proofs ---------------------------
(***************************************************************************)
(* For every set of graphs and of windows, every order of the maps and any *)
(* number of ticks: the path criticalPath reports is a path of the graph   *)
(* and weighs at least what is reported with it, and is a heaviest one     *)
(* where there is no cycle; the solver only rises, stays below the least   *)
(* solution of its equations, stops by itself, and has this solution then; *)
(* the solution moves the way a what-if scenario does; and pressure and    *)
(* the length reported with it follow the calls.                           *)
(***************************************************************************)
EXTENDS WhatIf, SumTheorems, SequenceTheorems, TLAPS

(* The graphs are what their assumption says.                                *)
LEMMA GraphTyped ==
  ASSUME NEW g \in Graphs
  PROVE  /\ g.nodes \subseteq Service
         /\ \A s, t \in Service : g.weight[<<s, t>>] \in Nat
         /\ \A s \in Service : g.weight[<<s, s>>] = 0
<1>1. g \in Graph
  BY GraphsAssumption
<1>2. g.nodes \subseteq Service /\ g.weight \in [Service \X Service -> 0 .. MaxWeight]
  BY <1>1 DEF Graph
<1>3. ASSUME NEW s \in Service, NEW t \in Service PROVE g.weight[<<s, t>>] \in Nat
  <2>1. <<s, t>> \in Service \X Service
    OBVIOUS
  <2>2. g.weight[<<s, t>>] \in 0 .. MaxWeight
    BY <1>2, <2>1
  <2> QED BY <2>2, GraphsAssumption
<1> QED BY <1>2, <1>3, GraphsAssumption

-----------------------------------------------------------------------------
(* The relaxation.                                                         *)

(* What links prev to dist: a value may have risen since it was used, so it  *)
(* is an inequality.                                                         *)
Linked ==
  /\ dist \in [Service -> Nat] /\ prev \in [Service -> Service \cup {None}]
  /\ \A t \in Service : prev[t] = None <=> dist[t] = 0
  /\ \A t \in Service : prev[t] # None =>
       /\ Weight(prev[t], t) > 0
       /\ dist[t] <= dist[prev[t]] + Weight(prev[t], t)

(* Relaxing a source lowers nothing and takes every call of it into account. *)
LEMMA RelaxRaises ==
  ASSUME graph \in Graphs, Linked, NEW s \in Service, RelaxFrom(s)
  PROVE  \A t \in Service :
           /\ dist[t] \in Nat /\ dist'[t] \in Nat /\ dist[t] <= dist'[t]
           /\ Weight(s, t) > 0 => dist[s] + Weight(s, t) <= dist'[t]
<1> SUFFICES ASSUME NEW t \in Service
             PROVE  /\ dist[t] \in Nat /\ dist'[t] \in Nat /\ dist[t] <= dist'[t]
                    /\ Weight(s, t) > 0 => dist[s] + Weight(s, t) <= dist'[t]
  OBVIOUS
<1>1. dist' = [x \in Service |-> IF x \in Better(s) THEN dist[s] + Weight(s, x) ELSE dist[x]]
  BY DEF RelaxFrom
<1>2. dist[t] \in Nat /\ dist[s] \in Nat /\ Weight(s, t) \in Nat
  BY GraphTyped DEF Linked, Weight
<1>3. t \in Better(s) <=> Weight(s, t) > 0 /\ dist[s] + Weight(s, t) > dist[t]
  BY DEF Better
<1> QED BY <1>1, <1>2, <1>3

(* Relaxing a source keeps prev and dist linked, in whatever order the       *)
(* sources come.                                                             *)
LEMMA RelaxLinks ==
  ASSUME graph \in Graphs, Linked, todo \subseteq Service, NEW s \in Service, RelaxFrom(s)
  PROVE  Linked'
<1>1. /\ dist' = [t \in Service |-> IF t \in Better(s) THEN dist[s] + Weight(s, t) ELSE dist[t]]
      /\ prev' = [t \in Service |-> IF t \in Better(s) THEN s ELSE prev[t]]
      /\ UNCHANGED graph
  BY DEF RelaxFrom
<1>2. ASSUME NEW x \in Service, NEW t \in Service
      PROVE  Weight(x, t) \in Nat
  BY GraphTyped DEF Weight
<1>3. \A t \in Service : dist[t] \in Nat /\ dist'[t] \in Nat /\ dist[t] <= dist'[t]
  BY RelaxRaises
<1>4. dist' \in [Service -> Nat] /\ prev' \in [Service -> Service \cup {None}]
  <2>1. DOMAIN dist' = Service /\ dist' = [t \in Service |-> dist'[t]]
    BY <1>1
  <2>2. dist' \in [Service -> Nat]
    BY <1>3, <2>1
  <2>3. prev' \in [Service -> Service \cup {None}]
    BY <1>1 DEF Linked
  <2> QED BY <2>2, <2>3
<1>5. ASSUME NEW t \in Service
      PROVE  /\ prev'[t] = None <=> dist'[t] = 0
             /\ prev'[t] # None =>
                  /\ Weight(prev'[t], t) > 0
                  /\ dist'[t] <= dist'[prev'[t]] + Weight(prev'[t], t)
  <2>1. CASE t \in Better(s)
    <3>1. /\ prev'[t] = s /\ dist'[t] = dist[s] + Weight(s, t)
          /\ Weight(s, t) > 0
      BY <1>1, <2>1 DEF Better
    <3>2. s # None
      BY GraphsAssumption
    <3>3. dist'[t] # 0 /\ dist'[t] <= dist'[s] + Weight(s, t)
      BY <1>2, <1>3, <3>1
    <3> QED BY <3>1, <3>2, <3>3
  <2>2. CASE t \notin Better(s)
    <3>1. prev'[t] = prev[t] /\ dist'[t] = dist[t]
      BY <1>1, <2>2
    <3>2. CASE prev[t] # None
      <4>1. prev[t] \in Service /\ Weight(prev[t], t) > 0
            /\ dist[t] <= dist[prev[t]] + Weight(prev[t], t) /\ dist[t] # 0
        BY <3>2 DEF Linked
      <4>2. Weight(prev[t], t) \in Nat
        BY <1>2, <4>1
      <4>3. dist[prev[t]] <= dist'[prev[t]] /\ dist[prev[t]] \in Nat /\ dist'[prev[t]] \in Nat
            /\ dist[t] \in Nat
        BY <1>3, <4>1
      <4>4. dist[t] <= dist'[prev[t]] + Weight(prev[t], t)
        BY <4>1, <4>2, <4>3
      <4> QED BY <3>1, <3>2, <4>1, <4>4
    <3>3. CASE prev[t] = None
      BY <3>1, <3>3 DEF Linked
    <3> QED BY <3>2, <3>3
  <2> QED BY <2>1, <2>2
<1> QED BY <1>1, <1>4, <1>5 DEF Linked, Weight

-----------------------------------------------------------------------------
(* The walk back.                                                          *)

(* The path walked so far, and what is still to come of its weight.          *)
Walked ==
  /\ \A i \in 1 .. Len(path) - 1 : Weight(path[i], path[i + 1]) > 0
  /\ path[1] \in Service
  /\ total <= sum + dist[path[1]]

PathInv ==
  /\ graph \in Graphs /\ todo \subseteq Service /\ Linked
  /\ path \in Seq(Service) /\ total \in Nat /\ sum \in Nat
  /\ cur \in Service \cup {None}
  /\ pc = "relax" => total = 0 /\ path = <<>> /\ sum = 0
  /\ pc = "walk" => total > 0
  /\ total > 0 /\ path = <<>> =>
       pc = "walk" /\ cur # None /\ total = dist[cur] /\ sum = 0
  /\ total > 0 /\ path # <<>> => Walked
  /\ pc = "walk" /\ path # <<>> => cur = prev[path[1]]

(* A call starts with nothing found.                                         *)
LEMMA Fresh ==
  /\ Init => PathInv
  /\ \A g \in Graphs : Begin(g) => PathInv'
<1>1. ASSUME Init PROVE PathInv
  <2>1. graph \in Graphs /\ todo \subseteq Service /\ Linked
    BY <1>1 DEF Init, Sources, Linked
  <2>2. /\ path = <<>> /\ total = 0 /\ sum = 0 /\ cur = None /\ pc # "walk"
    BY <1>1 DEF Init
  <2> QED BY <2>1, <2>2 DEF PathInv
<1>2. ASSUME NEW g \in Graphs, Begin(g) PROVE PathInv'
  <2>1. graph' \in Graphs /\ todo' \subseteq Service /\ Linked'
    BY <1>2 DEF Begin, Sources, Linked
  <2>2. /\ path' = <<>> /\ total' = 0 /\ sum' = 0 /\ cur' = None /\ pc' # "walk"
    BY <1>2 DEF Begin
  <2> QED BY <2>1, <2>2 DEF PathInv
<1> QED BY <1>1, <1>2

(* prev and dist stay linked while they and the graph are left alone.        *)
LEMMA LinkedStays == Linked /\ UNCHANGED <<graph, dist, prev>> => Linked'
BY DEF Linked, Weight

(* One step back along prev.                                                 *)
LEMMA WalkKeeps == PathInv /\ Walk => PathInv'
<1> SUFFICES ASSUME PathInv, Walk PROVE PathInv'
  OBVIOUS
<1>1. /\ pc = "walk" /\ cur \in Service /\ path' = <<cur>> \o path /\ cur' = prev[cur]
      /\ sum' = IF path = <<>> THEN 0 ELSE sum + Weight(cur, path[1])
      /\ UNCHANGED <<graph, pc, dist, prev, todo, round, total>>
  BY DEF Walk, PathInv
<1>2. /\ path \in Seq(Service) /\ Len(path) \in Nat
      /\ path' \in Seq(Service) /\ Len(path') = 1 + Len(path)
      /\ \A i \in 1 .. 1 + Len(path) : path'[i] = IF i = 1 THEN cur ELSE path[i - 1]
  <2>1. path \in Seq(Service)
    BY DEF PathInv
  <2> QED BY <1>1, <2>1
<1>3. path' # <<>> /\ path'[1] = cur /\ cur' = prev'[path'[1]]
  BY <1>1, <1>2
<1>4. cur' \in Service \cup {None}
  BY <1>1 DEF PathInv, Linked
<1>5. Linked' /\ total > 0 /\ total \in Nat /\ sum \in Nat /\ dist[cur] \in Nat
  BY <1>1, LinkedStays DEF PathInv, Linked
<1>6. CASE path = <<>>
  <2>1. sum' = 0 /\ total = dist[cur] /\ Len(path') = 1
    BY <1>1, <1>2, <1>6, <1>5 DEF PathInv
  <2>2. Walked'
    BY <1>1, <1>3, <1>5, <2>1 DEF Walked
  <2> QED BY <1>1, <1>2, <1>3, <1>4, <1>5, <2>1, <2>2 DEF PathInv
<1>7. CASE path # <<>>
  <2>1. Walked /\ cur = prev[path[1]]
    BY <1>1, <1>5, <1>7 DEF PathInv
  <2>2. path[1] \in Service /\ cur # None
    BY <1>1, <2>1, GraphsAssumption DEF Walked
  <2>3. Weight(cur, path[1]) > 0 /\ dist[path[1]] <= dist[cur] + Weight(cur, path[1])
        /\ dist[path[1]] \in Nat
    BY <2>1, <2>2 DEF PathInv, Linked
  <2>4. Weight(cur, path[1]) \in Nat
    BY <1>1, <2>2, GraphTyped DEF PathInv, Weight
  <2>5. sum' \in Nat /\ total <= sum' + dist[cur]
    BY <1>1, <1>5, <1>7, <2>1, <2>3, <2>4 DEF Walked
  <2>6. ASSUME NEW i \in 1 .. Len(path') - 1 PROVE Weight(path'[i], path'[i + 1]) > 0
    <3>1. path'[i + 1] = path[i] /\ path'[i] = IF i = 1 THEN cur ELSE path[i - 1]
      BY <1>2, <2>6
    <3>2. CASE i = 1
      <4>1. path'[i] = cur /\ path'[i + 1] = path[1]
        BY <3>1, <3>2
      <4> QED BY <2>3, <4>1
    <3>3. CASE i # 1
      <4>1. i - 1 \in 1 .. Len(path) - 1 /\ i - 1 + 1 = i
        BY <1>2, <2>6, <3>3
      <4>2. Weight(path[i - 1], path[i]) > 0
        BY <2>1, <4>1 DEF Walked
      <4>3. path'[i] = path[i - 1]
        BY <3>1, <3>3
      <4> QED BY <3>1, <4>2, <4>3
    <3> QED BY <3>2, <3>3
  <2>7. Walked'
    BY <1>1, <1>3, <2>5, <2>6 DEF Walked, Weight
  <2> QED BY <1>1, <1>2, <1>3, <1>4, <1>5, <2>5, <2>7 DEF PathInv
<1> QED BY <1>6, <1>7

(* The other steps of a call.                                                *)
LEMMA StepKeeps == PathInv /\ PathStep => PathInv'
<1> SUFFICES ASSUME PathInv, PathStep PROVE PathInv'
  OBVIOUS
<1>1. ASSUME NEW s \in Service, RelaxFrom(s) PROVE PathInv'
  <2>1. Linked'
    BY <1>1, RelaxLinks DEF PathInv
  <2>2. /\ pc = "relax" /\ todo' \subseteq Service
        /\ UNCHANGED <<graph, pc, round, cur, path, total, sum>>
    BY <1>1 DEF RelaxFrom, PathInv
  <2> QED BY <2>1, <2>2 DEF PathInv
<1>2. CASE NextRound
  <2>1. /\ pc = "relax" /\ todo' \subseteq Service
        /\ UNCHANGED <<graph, pc, dist, prev, cur, path, total, sum>>
    BY <1>2 DEF NextRound, Sources
  <2> QED BY <2>1, LinkedStays DEF PathInv
<1>3. CASE PickBest
  <2>1. PICK b \in Reached : cur' = b /\ total' = dist[b]
    BY <1>3 DEF PickBest
  <2>2. b \in Service /\ dist[b] \in Nat /\ dist[b] > 0 /\ b # None
    BY GraphsAssumption DEF Reached, PathInv, Linked
  <2>3. /\ pc = "relax" /\ pc' = "walk"
        /\ UNCHANGED <<graph, dist, prev, todo, round, path, sum>>
    BY <1>3 DEF PickBest
  <2> QED BY <2>1, <2>2, <2>3, LinkedStays DEF PathInv
<1>4. CASE Fallback
  <2>1. /\ pc = "relax" /\ pc' = "found"
        /\ UNCHANGED <<graph, dist, prev, todo, round, cur, total, sum>>
    BY <1>4 DEF Fallback
  <2>2. graph.nodes \subseteq Service
    BY GraphTyped DEF PathInv
  <2>3. path' = <<>> \/ \E n \in Service : path' = <<n>>
    BY <1>4, <2>2 DEF Fallback
  <2>4. path' \in Seq(Service)
    <3>1. <<>> \in Seq(Service)
      OBVIOUS
    <3>2. ASSUME NEW n \in Service PROVE <<n>> \in Seq(Service)
      OBVIOUS
    <3> QED BY <2>3, <3>1, <3>2
  <2> QED BY <2>1, <2>4, LinkedStays DEF PathInv
<1>5. CASE WalkEnds
  <2>1. /\ pc = "walk" /\ pc' = "found" /\ (cur = None \/ OnPath(cur))
        /\ UNCHANGED <<graph, dist, prev, todo, round, cur, path, total, sum>>
    BY <1>5 DEF WalkEnds
  <2>2. path # <<>>
    BY <2>1 DEF PathInv, OnPath
  <2>3. Walked => Walked'
    BY <2>1 DEF Walked, Weight
  <2> QED BY <2>1, <2>2, <2>3, LinkedStays DEF PathInv
<1> QED BY <1>1, <1>2, <1>3, <1>4, <1>5, WalkKeeps DEF PathStep

(* Every path reported is a path of the graph, and not lighter than the      *)
(* weight reported with it unless a cycle cut the walk short.                *)
THEOREM ReportedPathCovers == PathSpec => []PathCovers
<1>1. PathInv /\ [PathNext]_<<graph, pathVars>> => PathInv'
  <2> SUFFICES ASSUME PathInv, [PathNext]_<<graph, pathVars>> PROVE PathInv'
    OBVIOUS
  <2>1. CASE UNCHANGED <<graph, pathVars>>
    <3>1. Walked => Walked'
      BY <2>1 DEF pathVars, Walked, Weight
    <3> QED BY <2>1, <3>1, LinkedStays DEF pathVars, PathInv
  <2> QED BY <2>1, StepKeeps, Fresh DEF PathNext
<1>2. PathInv => PathCovers
  <2> SUFFICES ASSUME PathInv, pc = "found", total > 0
               PROVE  /\ path # <<>>
                      /\ \A i \in 1 .. Len(path) - 1 : Weight(path[i], path[i + 1]) > 0
                      /\ prev[path[1]] = None => total <= sum
    BY DEF PathCovers
  <2>1. path # <<>> /\ Walked
    BY DEF PathInv
  <2>2. prev[path[1]] = None => dist[path[1]] = 0
    BY <2>1 DEF PathInv, Linked, Walked
  <2>3. sum \in Nat /\ total \in Nat
    BY DEF PathInv
  <2> QED BY <2>1, <2>2, <2>3 DEF Walked
<1> QED BY <1>1, <1>2, Fresh, PTL DEF PathSpec

-----------------------------------------------------------------------------
(* The solver.                                                             *)

(* What the solver works on.                                                 *)
Given(wins) ==
  /\ graph \in Graphs
  /\ DOMAIN wins \subseteq Service
  /\ IsFiniteSet(DOMAIN wins)
  /\ \A s \in DOMAIN wins : wins[s] \in Window /\ wins[s].rate \in Nat /\ wins[s].mu \in Nat

LEMMA WindowsGiven ==
  ASSUME NEW wins, graph \in Graphs, wins \in Windows PROVE Given(wins)
<1>1. wins \in [DOMAIN wins -> Window] /\ DOMAIN wins \subseteq Service
  BY EquilibriumAssumption
<1>2. IsFiniteSet(DOMAIN wins)
  BY <1>1, GraphsAssumption, FS_Subset
<1>3. \A s \in DOMAIN wins : wins[s] \in Window
  BY <1>1
<1> QED BY <1>1, <1>2, <1>3 DEF Given, Window

(* The terms that the callers add, their sum, and the rest of a target.      *)
CallerTerms(wins, r, s) == [c \in DOMAIN wins |-> Weight(c, s) * wins[c].rate * Floor(r[c], U)]
Injected(wins, r, s) == SumFunctionOnSet(CallerTerms(wins, r, s), DOMAIN wins)
Base(wins, s) == 10 * MaxWeight * U * wins[s].rate
Scale(wins, s) == 10 * MaxWeight * Mu(wins[s])
Limit == (3 * U) \div 2

LEMMA TargetIs ==
  ASSUME NEW wins, NEW r, NEW s
  PROVE  Target(wins, r, s) = Floor((Base(wins, s) + Injected(wins, r, s)) \div Scale(wins, s), Limit)
<1>1. SumFunction(CallerTerms(wins, r, s)) = Injected(wins, r, s)
  BY DEF SumFunction, Injected, CallerTerms
<1> QED BY <1>1 DEF Target, CallerTerms, Base, Scale, Limit

LEMMA PartsTyped ==
  ASSUME NEW wins, Given(wins), NEW r \in [Service -> Nat], NEW s \in DOMAIN wins
  PROVE  /\ Base(wins, s) \in Nat /\ Scale(wins, s) \in Nat \ {0} /\ Limit \in Nat
         /\ Injected(wins, r, s) \in Nat
         /\ \A c \in DOMAIN wins : CallerTerms(wins, r, s)[c] \in Nat
<1>1. U \in Nat \ {0} /\ MaxWeight \in Nat \ {0}
  BY EquilibriumAssumption, GraphsAssumption
<1>2. wins[s].rate \in Nat /\ Mu(wins[s]) \in Nat \ {0}
  BY DEF Given, Mu, Observed
<1>3. Base(wins, s) \in Nat
  <2>1. 10 * MaxWeight \in Nat /\ 10 * MaxWeight * U \in Nat
    BY <1>1
  <2> QED BY <1>2, <2>1 DEF Base
<1>4. Scale(wins, s) \in Nat \ {0}
  <2>1. 10 * MaxWeight \in Nat \ {0}
    BY <1>1
  <2> QED BY <1>2, <2>1 DEF Scale
<1>5. Limit \in Nat
  BY <1>1 DEF Limit
<1>6. ASSUME NEW c \in DOMAIN wins PROVE CallerTerms(wins, r, s)[c] \in Nat
  <2>1. Weight(c, s) \in Nat
    BY GraphTyped DEF Weight, Given
  <2>2. wins[c].rate \in Nat /\ Floor(r[c], U) \in Nat
    BY <1>1 DEF Given, Floor
  <2>3. Weight(c, s) * wins[c].rate \in Nat
    BY <2>1, <2>2
  <2>4. Weight(c, s) * wins[c].rate * Floor(r[c], U) \in Nat
    BY <2>2, <2>3
  <2> QED BY <2>4 DEF CallerTerms
<1>7. Injected(wins, r, s) \in Nat
  BY <1>6, SumNat DEF Given, Injected
<1> QED BY <1>3, <1>4, <1>5, <1>6, <1>7

LEMMA TargetNat ==
  ASSUME NEW wins, Given(wins), NEW r \in [Service -> Nat], NEW s \in DOMAIN wins
  PROVE  Target(wins, r, s) \in Nat
<1> DEFINE x == Base(wins, s) + Injected(wins, r, s)
           d == Scale(wins, s)
<1>1. x \in Nat /\ d \in Nat \ {0} /\ Limit \in Nat
  BY PartsTyped
<1>2. x \div d \in Int /\ 0 <= x \div d
  <2>1. 0 * d <= x
    BY <1>1
  <2> HIDE DEF x, d
  <2> QED BY <1>1, <2>1, DivBounds
<1>3. Target(wins, r, s) = Floor(x \div d, Limit)
  BY TargetIs
<1> QED
  <2> HIDE DEF x, d
  <2> QED BY <1>1, <1>2, <1>3 DEF Floor

(* More load, a lower service rate or more of the callers' traffic: no lower *)
(* target.                                                                   *)
LEMMA TargetCompare ==
  ASSUME NEW v, Given(v), NEW w, Given(w), DOMAIN v = DOMAIN w,
         NEW q \in [Service -> Nat], NEW r \in [Service -> Nat], NEW s \in DOMAIN v,
         v[s].rate <= w[s].rate, Mu(w[s]) <= Mu(v[s]),
         \A c \in DOMAIN v : v[c].rate * Floor(q[c], U) <= w[c].rate * Floor(r[c], U)
  PROVE  Target(v, q, s) <= Target(w, r, s)
<1> DEFINE f == CallerTerms(v, q, s)
           g == CallerTerms(w, r, s)
           x == Base(v, s) + Injected(v, q, s)
           y == Base(w, s) + Injected(w, r, s)
           d == Scale(v, s)
           e == Scale(w, s)
<1>1. ASSUME NEW c \in DOMAIN v
      PROVE  f[c] \in Int /\ g[c] \in Int /\ f[c] <= 1 * g[c]
  <2>1. f[c] \in Nat /\ g[c] \in Nat
    BY PartsTyped
  <2> DEFINE k == Weight(c, s)
             a == v[c].rate
             i == Floor(q[c], U)
             b == w[c].rate
             j == Floor(r[c], U)
  <2>2. k \in Nat /\ a \in Nat /\ i \in Nat /\ b \in Nat /\ j \in Nat /\ a * i <= b * j
    BY GraphTyped, EquilibriumAssumption DEF Weight, Given, Floor
  <2>3. f[c] = (k * a) * i /\ g[c] = (k * b) * j
    BY DEF CallerTerms
  <2>4. (k * a) * i <= (k * b) * j
    <3> HIDE DEF k, a, i, b, j
    <3>1. (k * a) * i = k * (a * i) /\ (k * b) * j = k * (b * j)
      BY <2>2
    <3>2. a * i \in Nat /\ b * j \in Nat
      BY <2>2
    <3>3. \A m, n \in Nat : m <= n => k * m <= k * n
      BY <2>2
    <3> QED BY <2>2, <3>1, <3>2, <3>3
  <2> QED BY <2>1, <2>3, <2>4
<1>2. Injected(v, q, s) <= 1 * Injected(w, r, s)
  <2> HIDE DEF f, g
  <2>1. SumFunctionOnSet(f, DOMAIN v) <= 1 * SumFunctionOnSet(g, DOMAIN v)
    BY <1>1, SumCompare DEF Given
  <2> QED BY <2>1 DEF Injected, f, g
<1>3. Base(v, s) <= Base(w, s)
  <2> DEFINE k == 10 * MaxWeight * U
             a == v[s].rate
             b == w[s].rate
  <2>1. k \in Nat /\ a \in Nat /\ b \in Nat /\ a <= b
    <3>1. MaxWeight \in Nat /\ U \in Nat
      BY GraphsAssumption, EquilibriumAssumption
    <3>2. 10 * MaxWeight \in Nat
      BY <3>1
    <3> QED BY <3>1, <3>2 DEF Given
  <2>2. k * a <= k * b
    <3> HIDE DEF k, a, b
    <3> QED BY <2>1
  <2> QED BY <2>2 DEF Base
<1>4. e <= d
  <2> DEFINE k == 10 * MaxWeight
             a == Mu(v[s])
             b == Mu(w[s])
  <2>1. k \in Nat /\ a \in Nat /\ b \in Nat /\ b <= a
    BY GraphsAssumption DEF Given, Mu
  <2>2. k * b <= k * a
    <3> HIDE DEF k, a, b
    <3> QED BY <2>1
  <2> QED BY <2>2 DEF Scale
<1>5. /\ Base(v, s) \in Nat /\ Injected(v, q, s) \in Nat /\ d \in Nat \ {0}
      /\ Base(w, s) \in Nat /\ Injected(w, r, s) \in Nat /\ e \in Nat \ {0} /\ Limit \in Nat
  BY PartsTyped
<1>6. x \in Nat /\ y \in Nat /\ x <= y
  BY <1>2, <1>3, <1>5
<1>7. x \div d <= y \div e /\ x \div d \in Int /\ y \div e \in Int
  <2> HIDE DEF x, y, d, e
  <2>1. x \in Int /\ y \in Int
    BY <1>6
  <2>2. x \div d \in Int /\ y \div e \in Int
    BY <1>5, <2>1, DivBounds
  <2>3. x \div d <= y \div e
    BY <1>4, <1>5, <1>6, DivCompare
  <2> QED BY <2>2, <2>3
<1>8. Target(v, q, s) = Floor(x \div d, Limit) /\ Target(w, r, s) = Floor(y \div e, Limit)
  BY TargetIs
<1> QED
  <2> HIDE DEF x, y, d, e
  <2> QED BY <1>5, <1>7, <1>8 DEF Floor

(* More load anywhere never lowers a target.                                 *)
LEMMA TargetMonotone ==
  ASSUME NEW wins, Given(wins), NEW q \in [Service -> Nat], NEW r \in [Service -> Nat],
         \A c \in DOMAIN wins : q[c] <= r[c], NEW s \in DOMAIN wins
  PROVE  Target(wins, q, s) <= Target(wins, r, s)
<1>1. ASSUME NEW c \in DOMAIN wins
      PROVE  wins[c].rate * Floor(q[c], U) <= wins[c].rate * Floor(r[c], U)
  <2> DEFINE k == wins[c].rate
             x == Floor(q[c], U)
             y == Floor(r[c], U)
  <2>1. k \in Nat /\ x \in Nat /\ y \in Nat /\ x <= y
    BY EquilibriumAssumption DEF Given, Floor
  <2> HIDE DEF k, x, y
  <2>2. k * x <= k * y
    BY <2>1
  <2> QED BY <2>2 DEF k, x, y
<1>2. wins[s].rate <= wins[s].rate /\ Mu(wins[s]) <= Mu(wins[s])
  BY DEF Given, Mu
<1> QED BY <1>1, <1>2, TargetCompare

(* No service starts above any of its targets.                               *)
LEMMA StartLow ==
  ASSUME NEW wins, Given(wins), NEW r \in [Service -> Nat], NEW s \in DOMAIN wins
  PROVE  Start(wins)[s] <= Target(wins, r, s)
<1>1. s \in Service
  BY DEF Given
<1>2. CASE ~Observed(wins[s])
  BY <1>1, <1>2, TargetNat DEF Start
<1>3. CASE Observed(wins[s])
  <2> DEFINE u == U * wins[s].rate
             m == wins[s].mu
             k == 10 * MaxWeight
             x == Base(wins, s) + Injected(wins, r, s)
             d == Scale(wins, s)
             q == u \div m
  <2>1. u \in Nat /\ m \in Nat \ {0} /\ k \in Nat \ {0}
    BY <1>3, EquilibriumAssumption, GraphsAssumption DEF Given, Observed
  <2>2. d = k * m
    BY <1>3 DEF Scale, Mu
  <2>3. Base(wins, s) = k * u
    <3>1. U \in Nat /\ wins[s].rate \in Nat /\ MaxWeight \in Nat
      BY EquilibriumAssumption, GraphsAssumption DEF Given
    <3> QED BY <3>1 DEF Base
  <2>4. /\ d \in Nat \ {0} /\ Limit \in Nat
        /\ Injected(wins, r, s) \in Nat
    BY PartsTyped
  <2>5. q \in Int /\ m * q <= u
    <3> HIDE DEF u, m
    <3> QED BY <2>1
  <2>6. q * d <= k * u /\ q * d \in Int /\ k * u \in Int
    <3> HIDE DEF q, u, m, k, d
    <3>1. q * d = k * (m * q) /\ m * q \in Int
      BY <2>1, <2>2, <2>5
    <3>2. k * (m * q) <= k * u /\ k * u \in Int /\ k * (m * q) \in Int
      BY <2>1, <2>5, <3>1
    <3> QED BY <3>1, <3>2
  <2>7. x \in Int /\ q * d <= x
    <3> HIDE DEF q, u, k, d
    <3> QED BY <2>3, <2>4, <2>6
  <2>8. q <= x \div d /\ x \div d \in Int
    <3> HIDE DEF x, d, q
    <3> QED BY <2>4, <2>5, <2>7, DivBounds
  <2>9. Target(wins, r, s) = Floor(x \div d, Limit) /\ Start(wins)[s] = Floor(q, Limit)
    BY <1>1, <1>3, TargetIs DEF Start, Limit
  <2> QED
    <3> HIDE DEF x, d, q
    <3> QED BY <2>4, <2>5, <2>8, <2>9 DEF Floor
<1> QED BY <1>2, <1>3

LEMMA StartTyped == \A wins : Given(wins) => Start(wins) \in [Service -> Nat]
<1> SUFFICES ASSUME NEW wins, Given(wins), NEW s \in Service PROVE Start(wins)[s] \in Nat
  BY DEF Start
<1>1. CASE s \in DOMAIN wins /\ Observed(wins[s])
  <2> DEFINE u == U * wins[s].rate
             m == wins[s].mu
  <2>1. u \in Nat /\ m \in Nat \ {0} /\ U \in Nat
    BY <1>1, EquilibriumAssumption DEF Given, Observed
  <2>2. u \div m \in Int /\ 0 <= u \div m
    <3>1. 0 * m <= u
      BY <2>1
    <3> HIDE DEF u, m
    <3> QED BY <2>1, <3>1, DivBounds
  <2>3. Start(wins)[s] = Floor(u \div m, (3 * U) \div 2)
    BY <1>1 DEF Start
  <2> QED
    <3> HIDE DEF u, m
    <3> QED BY <2>1, <2>2, <2>3 DEF Floor
<1>2. CASE ~(s \in DOMAIN wins /\ Observed(wins[s]))
  BY <1>2 DEF Start
<1> QED BY <1>1, <1>2

(* A damped step goes up towards its target and not past it, and is zero     *)
(* only at the target.                                                       *)
LEMMA DampedBetween ==
  ASSUME NEW a \in Nat, NEW b \in Nat, a <= b
  PROVE  /\ Damped(a, b) \in Nat /\ a <= Damped(a, b) /\ Damped(a, b) <= b
         /\ Damped(a, b) = a => a = b
BY DEF Damped

-----------------------------------------------------------------------------
(* r is no lower than what the equations make of it.                         *)
Covering(wins, r) == \A s \in DOMAIN wins : Target(wins, r, s) <= r[s]

(* Below the targets and below every solution, and no load without a window. *)
Low(wins, q) ==
  /\ q \in [Service -> Nat]
  /\ \A s \in Service \ DOMAIN wins : q[s] = 0
  /\ \A s \in DOMAIN wins : q[s] <= Target(wins, q, s)
  /\ \A r \in [Service -> Nat] : Covering(wins, r) => \A s \in DOMAIN wins : q[s] <= r[s]

LEMMA StartIsLow == ASSUME NEW wins, Given(wins) PROVE Low(wins, Start(wins))
<1>1. Start(wins) \in [Service -> Nat]
  BY StartTyped
<1>2. \A s \in Service \ DOMAIN wins : Start(wins)[s] = 0
  BY DEF Start
<1>3. ASSUME NEW s \in DOMAIN wins PROVE Start(wins)[s] <= Target(wins, Start(wins), s)
  BY <1>1, StartLow
<1>4. ASSUME NEW r \in [Service -> Nat], Covering(wins, r), NEW s \in DOMAIN wins
      PROVE  Start(wins)[s] <= r[s]
  <2>1. Start(wins)[s] <= Target(wins, r, s) /\ Target(wins, r, s) <= r[s]
    BY <1>4, StartLow DEF Covering
  <2>2. Start(wins)[s] \in Nat /\ Target(wins, r, s) \in Nat /\ r[s] \in Nat
    BY <1>1, TargetNat DEF Given
  <2> QED BY <2>1, <2>2
<1> QED BY <1>1, <1>2, <1>3, <1>4 DEF Low

(* The services this sweep has visited are at their targets.                 *)
Settled == \A s \in DOMAIN windows \ left : rho[s] = Target(windows, rho, s)

(* During the sweeps.                                                        *)
Solving ==
  /\ Given(windows) /\ Low(windows, rho) /\ left \subseteq DOMAIN windows
  /\ ~moved => Settled

(* The graph is the same throughout.                                         *)
LEMMA SameGraph ==
  ASSUME UNCHANGED graph
  PROVE  /\ \A s : (Target(windows, rho, s))' = Target(windows', rho', s)
         /\ (Low(windows, rho))' <=> Low(windows', rho')
         /\ (Given(windows))' <=> Given(windows')
         /\ (Solution(windows))' = Solution(windows')
<1>1. \A w, r, s : (Target(w, r, s))' = Target(w, r, s)
  BY DEF Target, Weight
<1>2. (Low(windows, rho))' <=> Low(windows', rho')
  BY <1>1 DEF Low, Covering
<1>3. (Given(windows))' <=> Given(windows')
  BY DEF Given
<1>4. (Solution(windows))' = Solution(windows')
  BY DEF Solution, Iterates, Targets, Start, Target, Weight, Room
<1> QED BY <1>1, <1>2, <1>3, <1>4

LEMMA SolveStarts ==
  ASSUME NEW wins \in Windows, graph \in Graphs, SolveBegin(wins), UNCHANGED graph
  PROVE  Solving'
<1>1. windows' = wins /\ rho' = Start(wins) /\ left' = DOMAIN wins
  BY DEF SolveBegin
<1>2. Given(wins) /\ Low(wins, Start(wins))
  BY WindowsGiven, StartIsLow
<1>3. Settled'
  BY <1>1 DEF Settled
<1> QED BY <1>1, <1>2, <1>3, SameGraph DEF Solving

(* One visit.                                                                *)
LEMMA VisitKeeps ==
  ASSUME Solving, NEW s \in Service, Visit(s), UNCHANGED graph
  PROVE  Solving' /\ \A t \in Service : rho[t] <= rho'[t]
<1> DEFINE T(r, t) == Target(windows, r, t)
<1>1. /\ s \in left /\ s \in DOMAIN windows
      /\ rho' = [rho EXCEPT ![s] = Damped(rho[s], T(rho, s))]
      /\ left' = left \ {s} /\ moved' = (moved \/ rho'[s] # rho[s])
      /\ windows' = windows /\ Given(windows)
  BY DEF Visit, Solving
<1>2. rho \in [Service -> Nat] /\ rho[s] \in Nat /\ T(rho, s) \in Nat /\ rho[s] <= T(rho, s)
  BY <1>1, TargetNat DEF Solving, Low
<1>3. /\ rho'[s] = Damped(rho[s], T(rho, s)) /\ rho'[s] \in Nat
      /\ rho[s] <= rho'[s] /\ rho'[s] <= T(rho, s)
      /\ rho'[s] = rho[s] => rho[s] = T(rho, s)
  <2>1. rho'[s] = Damped(rho[s], T(rho, s))
    BY <1>1, <1>2
  <2> HIDE DEF T
  <2> QED BY <1>2, <2>1, DampedBetween
<1>4. rho' \in [Service -> Nat] /\ \A t \in Service : t # s => rho'[t] = rho[t]
  <2> HIDE DEF T
  <2> QED BY <1>1, <1>2, <1>3
<1>5. \A t \in Service : rho[t] <= rho'[t]
  BY <1>2, <1>3, <1>4
<1>6. DOMAIN windows \subseteq Service
  BY <1>1 DEF Given
<1>7. ASSUME NEW t \in DOMAIN windows
      PROVE  T(rho, t) \in Nat /\ T(rho', t) \in Nat /\ T(rho, t) <= T(rho', t)
  BY <1>1, <1>2, <1>4, <1>5, <1>6, TargetNat, TargetMonotone
<1>8. ASSUME NEW t \in DOMAIN windows PROVE rho'[t] <= T(rho', t)
  <2>1. rho[t] <= T(rho, t) /\ rho[t] \in Nat /\ t \in Service
    BY <1>2, <1>6 DEF Solving, Low
  <2>2. rho'[t] <= T(rho, t)
    BY <1>3, <1>4, <2>1
  <2>3. rho'[t] \in Nat
    BY <1>4, <1>6
  <2> HIDE DEF T
  <2> QED BY <1>7, <2>2, <2>3
<1>9. ASSUME NEW r \in [Service -> Nat], Covering(windows, r), NEW t \in DOMAIN windows
      PROVE  rho'[t] <= r[t]
  <2>1. \A c \in DOMAIN windows : rho[c] <= r[c]
    BY <1>9 DEF Solving, Low
  <2>2. CASE t # s
    BY <1>4, <1>6, <2>1, <2>2
  <2>3. CASE t = s
    <3>1. T(rho, s) <= T(r, s) /\ T(r, s) \in Nat
      BY <1>1, <1>2, <2>1, TargetMonotone, TargetNat
    <3>2. T(r, s) <= r[s] /\ r[s] \in Nat
      BY <1>1, <1>9 DEF Covering
    <3> HIDE DEF T
    <3> QED BY <1>2, <1>3, <2>3, <3>1, <3>2
  <2> QED BY <2>2, <2>3
<1>10. Low(windows, rho')
  <2>1. \A t \in Service \ DOMAIN windows : rho'[t] = 0
    BY <1>1, <1>4 DEF Solving, Low
  <2> QED BY <1>4, <1>8, <1>9, <2>1 DEF Low
<1>11. ASSUME ~moved' PROVE Settled'
  <2>1. ~moved /\ rho'[s] = rho[s]
    BY <1>1, <1>11
  <2>2. rho' = rho
    BY <1>2, <1>4, <2>1
  <2>3. ASSUME NEW t \in DOMAIN windows \ left' PROVE rho[t] = T(rho, t)
    <3>1. CASE t = s
      BY <1>3, <2>1, <3>1
    <3>2. CASE t # s
      BY <1>1, <2>1, <2>3, <3>2 DEF Solving, Settled
    <3> QED BY <3>1, <3>2
  <2> QED BY <1>1, <2>2, <2>3, SameGraph DEF Settled
<1>12. (Given(windows))'
  BY <1>1, SameGraph
<1> QED BY <1>1, <1>5, <1>10, <1>11, <1>12, SameGraph DEF Solving

(* The next sweep.                                                           *)
LEMMA SweepKeeps ==
  ASSUME Solving, NextSweep, UNCHANGED graph
  PROVE  Solving' /\ rho' = rho
<1>1. windows' = windows /\ rho' = rho /\ left' = DOMAIN windows
  BY DEF NextSweep
<1>2. (Low(windows, rho))'
  BY <1>1, SameGraph DEF Solving
<1>3. Settled'
  BY <1>1 DEF Settled
<1>4. (Given(windows))'
  BY <1>1, SameGraph DEF Solving
<1> QED BY <1>1, <1>2, <1>3, <1>4 DEF Solving

-----------------------------------------------------------------------------
(* What the solver returns as converged: a solution of the equations, and no *)
(* higher than any other.                                                    *)
LeastSolution ==
  converged => /\ Given(windows) /\ Low(windows, rho)
               /\ \A s \in DOMAIN windows : rho[s] = Target(windows, rho, s)

SolverInv ==
  /\ graph \in Graphs
  /\ stage \in {"snapshot", "solve", "report"}
  /\ stage = "solve" => Solving /\ ~converged
  /\ stage = "snapshot" => ~converged
  /\ stage = "report" => Given(windows)
  /\ LeastSolution

(* criticalPath only reads the graph.                                        *)
LEMMA PathStepReads == PathStep => graph' = graph
BY DEF PathStep, RelaxFrom, NextRound, PickBest, Fallback, Walk, WalkEnds

LEMMA LeastSolutionStays ==
  ASSUME LeastSolution, UNCHANGED <<graph, windows, rho, converged>>
  PROVE  LeastSolution'
BY SameGraph DEF LeastSolution

(* Within the sweeps.                                                        *)
LEMMA SolveKeeps ==
  ASSUME SolverInv, Solve
  PROVE  /\ Solving' /\ \A s \in Service : rho[s] <= rho'[s]
         /\ UNCHANGED <<graph, stage, converged>>
<1>1. Solving /\ UNCHANGED <<graph, stage>>
  BY DEF Solve, SolverInv
<1>2. CASE NextSweep
  <2>1. Solving' /\ rho' = rho
    BY <1>1, <1>2, SweepKeeps
  <2>2. \A s \in Service : rho[s] \in Nat
    BY <1>1 DEF Solving, Low
  <2> QED BY <1>1, <1>2, <2>1, <2>2 DEF NextSweep
<1>3. ASSUME NEW s \in Service, Visit(s)
      PROVE  Solving' /\ (\A t \in Service : rho[t] <= rho'[t]) /\ UNCHANGED converged
  BY <1>1, <1>3, VisitKeeps DEF Visit
<1> QED BY <1>1, <1>2, <1>3 DEF Solve

LEMMA SolverInvAlways ==
  /\ AnalysisInit => SolverInv
  /\ SolverInv /\ [Next]_vars => SolverInv'
<1>1. AnalysisInit => SolverInv
  BY DEF AnalysisInit, Init, SolverInv, LeastSolution
<1>2. SolverInv /\ [Next]_vars => SolverInv'
  <2> SUFFICES ASSUME SolverInv, [Next]_vars PROVE SolverInv'
    OBVIOUS
  <2>1. CASE Snapshot
    <3>1. UNCHANGED <<graph, solverVars, stage>> /\ stage = "snapshot"
      BY <2>1, PathStepReads DEF Snapshot
    <3> QED BY <3>1, LeastSolutionStays DEF SolverInv, solverVars
  <2>2. CASE ReadWindows
    <3>1. PICK wins \in Windows :
            SolveBegin(wins) /\ stage' = IF DOMAIN wins = {} THEN "report" ELSE "solve"
      BY <2>2 DEF ReadWindows
    <3>2. UNCHANGED graph /\ graph \in Graphs
      BY <2>2 DEF ReadWindows, SolverInv
    <3>3. Solving'
      BY <3>1, <3>2, SolveStarts
    <3>4. ~converged'
      BY <3>1 DEF SolveBegin
    <3> QED BY <3>1, <3>2, <3>3, <3>4 DEF SolverInv, LeastSolution, Solving
  <2>3. CASE Solve
    <3>1. stage = "solve" /\ ~converged
      BY <2>3 DEF Solve, SolverInv
    <3> QED BY <2>3, <3>1, SolveKeeps DEF SolverInv, LeastSolution
  <2>4. CASE Report
    <3>1. /\ Solving /\ left = {} /\ converged' = ~moved /\ stage' = "report"
          /\ UNCHANGED <<graph, windows, rho>>
      BY <2>4 DEF Report, Solved, SolverInv
    <3>2. ASSUME converged'
          PROVE  Low(windows, rho) /\ \A s \in DOMAIN windows : rho[s] = Target(windows, rho, s)
      BY <3>1, <3>2 DEF Solving, Settled
    <3>3. LeastSolution'
      BY <3>1, <3>2, SameGraph DEF LeastSolution, Solving
    <3>4. (Given(windows))'
      BY <3>1, SameGraph DEF Solving
    <3> QED BY <3>1, <3>3, <3>4 DEF SolverInv
  <2>5. CASE NextTick
    <3>1. graph' = graph /\ stage' = "snapshot" /\ ~converged'
      BY <2>5 DEF NextTick, Begin, SolveBegin
    <3> QED BY <3>1 DEF SolverInv, LeastSolution
  <2>6. CASE UNCHANGED vars
    <3>1. UNCHANGED <<graph, windows, rho, left, moved, iter, converged, stage>>
      BY <2>6 DEF vars, solverVars
    <3>2. Solving => Solving'
      BY <3>1, SameGraph DEF Solving, Settled
    <3>3. Given(windows) => (Given(windows))'
      BY <3>1, SameGraph
    <3> QED BY <3>1, <3>2, <3>3, LeastSolutionStays DEF SolverInv
  <2> QED BY <2>1, <2>2, <2>3, <2>4, <2>5, <2>6 DEF Next
<1> QED BY <1>1, <1>2

(* No sweep lowers a utilisation: a solver that is stopped early has         *)
(* understated the load, never overstated it.                                *)
THEOREM OnlyRises == Spec => NeverLowers
<1>1. ASSUME SolverInv, [Next]_vars
      PROVE  [stage = "solve" /\ stage' = "solve" => \A s \in Service : rho[s] <= rho'[s]]_vars
  <2> SUFFICES ASSUME stage = "solve", stage' = "solve", ~UNCHANGED vars
               PROVE  \A s \in Service : rho[s] <= rho'[s]
    OBVIOUS
  <2>1. Solve
    BY <1>1 DEF Next, Snapshot, ReadWindows, Report, NextTick
  <2> QED BY <1>1, <2>1, SolveKeeps
<1> QED BY <1>1, SolverInvAlways, PTL DEF Spec, NeverLowers

-----------------------------------------------------------------------------
(* The solution that the what-if engine is given: Solution iterates the      *)
(* targets from Start until nothing changes.                                 *)

Upto(wins, g, n) ==
  \A k \in 0 .. n : g[k] = IF k = 0 THEN Start(wins) ELSE Targets(wins, g[k - 1])

LEMMA UptoUnique ==
  ASSUME NEW wins, NEW n \in Nat, NEW g, NEW h, Upto(wins, g, n), Upto(wins, h, n)
  PROVE  g[n] = h[n]
<1> DEFINE T == {k \in Nat : k <= n => g[k] = h[k]}
<1>1. 0 \in T
  BY DEF Upto
<1>2. ASSUME NEW k \in Nat, k \in T PROVE k + 1 \in T
  <2> SUFFICES ASSUME k + 1 <= n PROVE g[k + 1] = h[k + 1]
    OBVIOUS
  <2>1. k + 1 \in 0 .. n /\ k + 1 # 0 /\ (k + 1) - 1 = k /\ k <= n
    OBVIOUS
  <2>2. g[k + 1] = Targets(wins, g[k]) /\ h[k + 1] = Targets(wins, h[k])
    BY <2>1 DEF Upto
  <2> QED BY <1>2, <2>1, <2>2
<1>3. n \in T
  <2> HIDE DEF T
  <2> QED BY <1>1, <1>2, NatSetInduction
<1> QED BY <1>3

LEMMA UptoExists == \A wins : \A n \in Nat : \E g : Upto(wins, g, n)
<1> SUFFICES ASSUME NEW wins PROVE \A n \in Nat : \E g : Upto(wins, g, n)
  OBVIOUS
<1> DEFINE T == {n \in Nat : \E g : Upto(wins, g, n)}
<1>1. 0 \in T
  <2>1. Upto(wins, [k \in Nat |-> Start(wins)], 0)
    BY DEF Upto
  <2> QED BY <2>1
<1>2. ASSUME NEW n \in Nat, n \in T PROVE n + 1 \in T
  <2>1. PICK g : Upto(wins, g, n)
    BY <1>2
  <2> DEFINE h == [k \in Nat |-> IF k <= n THEN g[k] ELSE Targets(wins, g[n])]
  <2>2. ASSUME NEW k \in 0 .. n + 1
        PROVE  h[k] = IF k = 0 THEN Start(wins) ELSE Targets(wins, h[k - 1])
    <3>1. CASE k = 0
      BY <2>1, <3>1 DEF Upto
    <3>2. CASE k # 0 /\ k <= n
      <4>1. g[k] = Targets(wins, g[k - 1])
        BY <2>1, <3>2 DEF Upto
      <4>2. h[k] = g[k] /\ h[k - 1] = g[k - 1]
        BY <3>2
      <4> QED BY <3>2, <4>1, <4>2
    <3>3. CASE k = n + 1
      <4>1. h[k] = Targets(wins, g[n]) /\ h[k - 1] = g[n] /\ k # 0
        BY <3>3
      <4> QED BY <4>1
    <3> QED BY <3>1, <3>2, <3>3
  <2> HIDE DEF h
  <2>3. Upto(wins, h, n + 1)
    BY <2>2 DEF Upto
  <2> QED BY <2>3
<1>3. Nat \subseteq T
  <2> HIDE DEF T
  <2> QED BY <1>1, <1>2, NatSetInduction
<1> QED BY <1>3

(* The iterates exist and are what their recursion says.                     *)
LEMMA IteratesAre ==
  ASSUME NEW wins
  PROVE  /\ Iterates(wins)[0] = Start(wins)
         /\ \A k \in Nat : Iterates(wins)[k + 1] = Targets(wins, Iterates(wins)[k])
<1> DEFINE Is(f) == f = [k \in Nat |-> IF k = 0 THEN Start(wins) ELSE Targets(wins, f[k - 1])]
           c(n) == CHOOSE g : Upto(wins, g, n)
           f0 == [k \in Nat |-> c(k)[k]]
<1>1. \A n \in Nat : Upto(wins, c(n), n)
  BY UptoExists
<1> HIDE DEF c
<1>2. f0[0] = Start(wins)
  BY <1>1 DEF Upto
<1>3. ASSUME NEW k \in Nat, k # 0 PROVE f0[k] = Targets(wins, f0[k - 1])
  <2>1. k \in 0 .. k /\ k - 1 \in Nat /\ 0 .. k - 1 \subseteq 0 .. k
    BY <1>3
  <2>2. c(k)[k] = Targets(wins, c(k)[k - 1])
    BY <1>1, <1>3, <2>1 DEF Upto
  <2>3. Upto(wins, c(k), k - 1) /\ Upto(wins, c(k - 1), k - 1)
    BY <1>1, <2>1 DEF Upto
  <2>4. c(k)[k - 1] = c(k - 1)[k - 1]
    BY <2>1, <2>3, UptoUnique
  <2> QED BY <2>1, <2>2, <2>4
<1>4. Is(f0)
  <2>1. \A k \in Nat : f0[k] = IF k = 0 THEN Start(wins) ELSE Targets(wins, f0[k - 1])
    BY <1>2, <1>3
  <2>2. f0 = [k \in Nat |-> f0[k]]
    OBVIOUS
  <2> HIDE DEF f0
  <2> QED BY <2>1, <2>2
<1>5. Iterates(wins) = CHOOSE f : Is(f)
  BY Zenon DEF Iterates
<1>6. Is(Iterates(wins))
  <2> HIDE DEF Is, f0
  <2> QED BY <1>4, <1>5
<1> DEFINE it == Iterates(wins)
<1> HIDE DEF it
<1>7. it = [k \in Nat |-> IF k = 0 THEN Start(wins) ELSE Targets(wins, it[k - 1])]
  BY <1>6 DEF it
<1>8. it[0] = Start(wins)
  BY <1>7
<1>9. ASSUME NEW k \in Nat PROVE it[k + 1] = Targets(wins, it[k])
  <2>1. k + 1 \in Nat /\ k + 1 # 0 /\ (k + 1) - 1 = k
    OBVIOUS
  <2> QED BY <1>7, <2>1
<1> QED BY <1>8, <1>9 DEF it

LEMMA TargetsLow ==
  ASSUME NEW wins, Given(wins), NEW q, Low(wins, q)
  PROVE  Low(wins, Targets(wins, q)) /\ \A s \in Service : q[s] <= Targets(wins, q)[s]
<1> DEFINE n == Targets(wins, q)
<1>1. q \in [Service -> Nat] /\ DOMAIN wins \subseteq Service
  BY DEF Low, Given
<1>2. ASSUME NEW s \in DOMAIN wins PROVE n[s] = Target(wins, q, s) /\ n[s] \in Nat
  BY <1>1, TargetNat DEF Targets
<1>3. ASSUME NEW s \in Service \ DOMAIN wins PROVE n[s] = 0 /\ q[s] = 0
  BY DEF Targets, Low
<1>4. n \in [Service -> Nat]
  <2>1. n = [s \in Service |-> n[s]] /\ \A s \in Service : n[s] \in Nat
    BY <1>2, <1>3 DEF Targets
  <2> HIDE DEF n
  <2> QED BY <2>1
<1> HIDE DEF n
<1>5. \A s \in Service : q[s] <= n[s]
  <2>1. \A s \in DOMAIN wins : q[s] <= n[s]
    BY <1>2 DEF Low
  <2> QED BY <1>3, <2>1
<1>6. ASSUME NEW s \in DOMAIN wins PROVE n[s] <= Target(wins, n, s)
  BY <1>1, <1>2, <1>4, <1>5, TargetMonotone
<1>7. ASSUME NEW r \in [Service -> Nat], Covering(wins, r), NEW s \in DOMAIN wins
      PROVE  n[s] <= r[s]
  <2>1. \A c \in DOMAIN wins : q[c] <= r[c]
    BY <1>7 DEF Low
  <2>2. n[s] <= Target(wins, r, s)
    BY <1>1, <1>2, <2>1, TargetMonotone
  <2>3. Target(wins, r, s) <= r[s] /\ Target(wins, r, s) \in Nat /\ r[s] \in Nat /\ n[s] \in Nat
    BY <1>1, <1>2, <1>7, TargetNat DEF Covering
  <2> QED BY <2>2, <2>3
<1>8. Low(wins, n)
  BY <1>3, <1>4, <1>6, <1>7 DEF Low
<1> QED BY <1>5, <1>8 DEF n

LEMMA TargetLimited ==
  ASSUME NEW wins, Given(wins), NEW r \in [Service -> Nat], NEW s \in DOMAIN wins
  PROVE  Target(wins, r, s) <= Limit
<1> DEFINE x == (Base(wins, s) + Injected(wins, r, s)) \div Scale(wins, s)
<1>1. Limit \in Nat /\ x \in Int
  BY PartsTyped, DivBounds
<1>2. Target(wins, r, s) = Floor(x, Limit)
  BY TargetIs
<1> HIDE DEF x
<1> QED BY <1>1, <1>2 DEF Floor

(* All iterates are low, and each is as high as the one before.              *)
LEMMA IteratesLow ==
  ASSUME NEW wins, Given(wins)
  PROVE  \A k \in Nat : /\ Low(wins, Iterates(wins)[k])
                        /\ \A s \in Service : Iterates(wins)[k][s] <= Iterates(wins)[k + 1][s]
<1> DEFINE f == Iterates(wins)
           T == {k \in Nat : Low(wins, f[k])}
<1>1. f[0] = Start(wins) /\ \A k \in Nat : f[k + 1] = Targets(wins, f[k])
  BY IteratesAre
<1> HIDE DEF f
<1>2. 0 \in T
  BY <1>1, StartIsLow
<1>3. ASSUME NEW k \in Nat, k \in T PROVE k + 1 \in T
  BY <1>1, <1>3, TargetsLow
<1>4. Nat \subseteq T
  <2> HIDE DEF T
  <2> QED BY <1>2, <1>3, NatSetInduction
<1>5. ASSUME NEW k \in Nat
      PROVE  Low(wins, f[k]) /\ \A s \in Service : f[k][s] <= f[k + 1][s]
  <2>1. Low(wins, f[k])
    BY <1>4
  <2> QED BY <1>1, <2>1, TargetsLow
<1> QED BY <1>5 DEF f

(* They stop rising, since they have no more room to do so than to their     *)
(* limits.                                                                   *)
LEMMA IteratesStop ==
  ASSUME NEW wins, Given(wins)
  PROVE  Room \in Nat /\ \E k \in 0 .. Room : Iterates(wins)[k + 1] = Iterates(wins)[k]
<1> DEFINE f == Iterates(wins)
           top == [s \in Service |-> Limit]
           Total(q) == SumFunctionOnSet(q, Service)
<1>1. IsFiniteSet(Service) /\ Limit \in Nat /\ \A s \in Service : top[s] = Limit
  BY GraphsAssumption, EquilibriumAssumption DEF Limit
<1>2. Room = Total(top)
  BY DEF Room, SumFunction, Limit
<1>3. Room \in Nat
  <2> HIDE DEF top
  <2> QED BY <1>1, <1>2, SumNat
<1>4. ASSUME NEW k \in Nat
      PROVE  /\ f[k] \in [Service -> Nat] /\ Total(f[k]) \in Nat /\ Total(f[k]) <= Room
             /\ \A s \in Service : f[k][s] <= f[k + 1][s]
  <2>1. Low(wins, f[k]) /\ \A s \in Service : f[k][s] <= f[k + 1][s]
    BY IteratesLow
  <2> HIDE DEF f
  <2>2. f[k] \in [Service -> Nat]
    BY <2>1 DEF Low
  <2>3. ASSUME NEW s \in Service PROVE f[k][s] \in Nat /\ f[k][s] <= Limit
    <3>1. CASE s \in DOMAIN wins
      <4>1. f[k][s] <= Target(wins, f[k], s) /\ Target(wins, f[k], s) <= Limit
        BY <2>1, <2>2, <3>1, TargetLimited DEF Low
      <4> QED BY <1>1, <2>2, <3>1, <4>1, TargetNat
    <3>2. CASE s \notin DOMAIN wins
      BY <1>1, <2>1, <3>2 DEF Low
    <3> QED BY <3>1, <3>2
  <2> HIDE DEF top
  <2>4. Total(f[k]) \in Nat
    BY <1>1, <2>3, SumNat
  <2>5. Total(f[k]) <= 1 * Total(top)
    <3>1. \A s \in Service : f[k][s] \in Int /\ top[s] \in Int /\ f[k][s] <= 1 * top[s]
      BY <1>1, <2>3
    <3> QED BY <1>1, <3>1, SumCompare
  <2>6. Total(f[k]) <= Room
    BY <1>2, <1>3, <2>4, <2>5
  <2> QED BY <2>1, <2>2, <2>4, <2>6
<1> SUFFICES ASSUME \A k \in 0 .. Room : f[k + 1] # f[k] PROVE FALSE
  BY <1>3 DEF f
<1> HIDE DEF f
<1> DEFINE V == {k \in Nat : k <= Room + 1 => k <= Total(f[k])}
<1>5. 0 \in V
  BY <1>4
<1>6. ASSUME NEW k \in Nat, k \in V PROVE k + 1 \in V
  <2> SUFFICES ASSUME k + 1 <= Room + 1 PROVE k + 1 <= Total(f[k + 1])
    OBVIOUS
  <2>1. f[k + 1] # f[k] /\ k <= Total(f[k])
    BY <1>3, <1>6
  <2>2. f[k] \in [Service -> Nat] /\ f[k + 1] \in [Service -> Nat] /\ k + 1 \in Nat
        /\ Total(f[k]) \in Nat /\ Total(f[k + 1]) \in Nat
    BY <1>4
  <2>3. PICK s \in Service : f[k + 1][s] # f[k][s]
    BY <2>1, <2>2
  <2>4. Total(f[k]) < Total(f[k + 1])
    <3>1. \A t \in Service : f[k][t] \in Int /\ f[k + 1][t] \in Int /\ f[k][t] <= f[k + 1][t]
      BY <1>4, <2>2
    <3>2. f[k][s] < f[k + 1][s]
      BY <2>3, <3>1
    <3> QED BY <1>1, <3>1, <3>2, SumStrict
  <2> QED BY <2>1, <2>2, <2>4
<1>7. Room + 1 \in V
  <2> HIDE DEF V
  <2> QED BY <1>3, <1>5, <1>6, NatSetInduction
<1>8. Room + 1 \in Nat /\ Room + 1 <= Total(f[Room + 1])
  BY <1>3, <1>7
<1> QED BY <1>3, <1>4, <1>8

(* Solution is the least solution of the equations.                          *)
LEMMA SolutionLeast ==
  ASSUME NEW wins, Given(wins)
  PROVE  /\ Low(wins, Solution(wins))
         /\ \A s \in DOMAIN wins : Solution(wins)[s] = Target(wins, Solution(wins), s)
<1> DEFINE f == Iterates(wins)
           k == CHOOSE n \in 0 .. Room : f[n + 1] = f[n]
<1>1. k \in 0 .. Room /\ f[k + 1] = f[k]
  <2>1. \E n \in 0 .. Room : f[n + 1] = f[n]
    BY IteratesStop
  <2> QED BY <2>1
<1>2. k \in Nat
  BY <1>1, IteratesStop
<1>3. Solution(wins) = f[k]
  BY DEF Solution
<1> HIDE DEF k
<1>4. Low(wins, f[k]) /\ f[k + 1] = Targets(wins, f[k])
  BY <1>2, IteratesLow, IteratesAre
<1>5. \A s \in DOMAIN wins : f[k][s] = Target(wins, f[k], s)
  BY <1>1, <1>4 DEF Targets, Given
<1> QED BY <1>3, <1>4, <1>5

(* What the solver returns as converged does not depend on the order of its  *)
(* sweeps: it is the least solution of the equations, which Solution is.     *)
THEOREM ConvergedIsSolution == Spec => [](converged => rho = Solution(windows))
<1>1. SolverInv => (converged => rho = Solution(windows))
  <2> SUFFICES ASSUME LeastSolution, converged PROVE rho = Solution(windows)
    BY DEF SolverInv
  <2> DEFINE sol == Solution(windows)
  <2>1. /\ Given(windows) /\ Low(windows, rho)
        /\ \A s \in DOMAIN windows : rho[s] = Target(windows, rho, s)
    BY DEF LeastSolution
  <2>2. Low(windows, sol) /\ \A s \in DOMAIN windows : sol[s] = Target(windows, sol, s)
    BY <2>1, SolutionLeast
  <2> HIDE DEF sol
  <2>3. rho \in [Service -> Nat] /\ sol \in [Service -> Nat] /\ DOMAIN windows \subseteq Service
    BY <2>1, <2>2 DEF Low, Given
  <2>4. Covering(windows, rho) /\ Covering(windows, sol)
    BY <2>1, <2>2, <2>3 DEF Covering
  <2>5. ASSUME NEW s \in Service PROVE rho[s] = sol[s]
    <3>1. CASE s \in DOMAIN windows
      <4>1. rho[s] <= sol[s] /\ sol[s] <= rho[s]
        BY <2>1, <2>2, <2>3, <2>4, <3>1 DEF Low
      <4> QED BY <2>3, <4>1
    <3>2. CASE s \notin DOMAIN windows
      BY <2>1, <2>2, <3>2 DEF Low
    <3> QED BY <3>1, <3>2
  <2>6. rho = sol
    BY <2>3, <2>5
  <2> QED BY <2>6 DEF sol
<1> QED BY <1>1, SolverInvAlways, PTL DEF Spec

-----------------------------------------------------------------------------
(* How long the solver takes, and what it has when it is cut off.            *)

Rise(q) == SumFunctionOnSet(q, Service)

(* The total has as much room as the services have.                          *)
LEMMA RiseBounded ==
  ASSUME NEW wins, Given(wins), NEW q, Low(wins, q)
  PROVE  Rise(q) \in Nat /\ Room \in Nat /\ Rise(q) <= Room
<1> DEFINE top == [s \in Service |-> Limit]
<1>1. IsFiniteSet(Service) /\ Limit \in Nat /\ \A s \in Service : top[s] = Limit
  BY GraphsAssumption, EquilibriumAssumption DEF Limit
<1>2. Room = SumFunctionOnSet(top, Service)
  BY DEF Room, SumFunction, Limit
<1> HIDE DEF top
<1>3. ASSUME NEW s \in Service PROVE q[s] \in Nat /\ q[s] <= Limit
  <2>1. CASE s \in DOMAIN wins
    <3>1. q \in [Service -> Nat] /\ q[s] <= Target(wins, q, s)
      BY <2>1 DEF Low
    <3>2. Target(wins, q, s) <= Limit /\ Target(wins, q, s) \in Nat
      BY <2>1, <3>1, TargetLimited, TargetNat
    <3> QED BY <1>1, <3>1, <3>2
  <2>2. CASE s \notin DOMAIN wins
    BY <1>1, <2>2 DEF Low
  <2> QED BY <2>1, <2>2
<1>4. Rise(q) \in Nat /\ Room \in Nat
  BY <1>1, <1>2, <1>3, SumNat DEF Rise
<1>5. Rise(q) <= 1 * SumFunctionOnSet(top, Service)
  <2>1. \A s \in Service : q[s] \in Int /\ top[s] \in Int /\ q[s] <= 1 * top[s]
    BY <1>1, <1>3
  <2> QED BY <1>1, <2>1, SumCompare DEF Rise
<1> QED BY <1>2, <1>4, <1>5

(* Each sweep that is followed by another has raised the total.              *)
Climbing == iter \in Nat /\ moved \in BOOLEAN /\ iter + (IF moved THEN 1 ELSE 0) <= Rise(rho)

CutInv ==
  /\ stage = "solve" => Climbing
  /\ stage = "report" => Low(windows, rho)
  /\ stage \in {"solve", "report"} => windows \in Windows
  /\ MaxIter > Room /\ stage = "report" /\ DOMAIN windows # {} => converged

(* A visit that moves raises the total.                                      *)
LEMMA VisitClimbs ==
  ASSUME Solving, Climbing, NEW s \in Service, Visit(s), UNCHANGED graph
  PROVE  Climbing'
<1>1. Solving' /\ \A t \in Service : rho[t] <= rho'[t]
  BY VisitKeeps
<1>2. iter' = iter /\ moved' = (moved \/ rho'[s] # rho[s]) /\ (moved \/ rho'[s] # rho[s]) \in BOOLEAN
  BY DEF Visit
<1>3. rho \in [Service -> Nat] /\ rho' \in [Service -> Nat]
  BY <1>1, SameGraph DEF Solving, Low
<1>4. Rise(rho) \in Nat /\ Rise(rho') \in Nat
  BY <1>3, SumNat, GraphsAssumption DEF Rise
<1>5. Rise(rho) <= 1 * Rise(rho')
  <2>1. \A t \in Service : rho[t] \in Int /\ rho'[t] \in Int /\ rho[t] <= 1 * rho'[t]
    BY <1>1, <1>3
  <2> QED BY <2>1, SumCompare, GraphsAssumption DEF Rise
<1>6. rho'[s] # rho[s] => Rise(rho) < Rise(rho')
  <2> SUFFICES ASSUME rho'[s] # rho[s] PROVE Rise(rho) < Rise(rho')
    OBVIOUS
  <2>1. \A t \in Service : rho[t] \in Int /\ rho'[t] \in Int /\ rho[t] <= rho'[t]
    BY <1>1, <1>3
  <2>2. rho[s] < rho'[s]
    BY <2>1
  <2> QED BY <2>1, <2>2, SumStrict, GraphsAssumption DEF Rise
<1>7. Rise(rho)' = Rise(rho')
  BY DEF Rise
<1>8. iter \in Nat /\ moved \in BOOLEAN /\ iter + (IF moved THEN 1 ELSE 0) <= Rise(rho)
  BY DEF Climbing
<1>9. iter + (IF moved' THEN 1 ELSE 0) <= Rise(rho')
  <2>1. CASE moved
    BY <1>2, <1>4, <1>5, <1>8, <2>1
  <2>2. CASE ~moved /\ rho'[s] # rho[s]
    BY <1>2, <1>4, <1>6, <1>8, <2>2
  <2>3. CASE ~moved /\ rho'[s] = rho[s]
    BY <1>2, <1>4, <1>5, <1>8, <2>3
  <2> QED BY <1>8, <2>1, <2>2, <2>3
<1> QED BY <1>2, <1>7, <1>8, <1>9 DEF Climbing

LEMMA CutInvAlways ==
  /\ AnalysisInit => CutInv
  /\ SolverInv /\ CutInv /\ [Next]_vars => CutInv'
<1>1. AnalysisInit => CutInv
  BY DEF AnalysisInit, CutInv
<1>2. ASSUME SolverInv, CutInv, [Next]_vars PROVE CutInv'
  <2>0. Room' = Room
    BY DEF Room
  <2>1. CASE Snapshot
    <3>1. stage' = "snapshot"
      BY <2>1 DEF Snapshot
    <3> QED BY <3>1 DEF CutInv
  <2>2. CASE ReadWindows
    <3>1. PICK wins \in Windows :
            SolveBegin(wins) /\ stage' = IF DOMAIN wins = {} THEN "report" ELSE "solve"
      BY <2>2 DEF ReadWindows
    <3>2. UNCHANGED graph /\ graph \in Graphs
      BY <1>2, <2>2 DEF ReadWindows, SolverInv
    <3>3. Solving'
      BY <3>1, <3>2, SolveStarts
    <3>4. windows' = wins /\ rho' = Start(wins) /\ iter' = 0 /\ ~moved' /\ moved' \in BOOLEAN
      BY <3>1 DEF SolveBegin
    <3>5. Rise(rho') \in Nat
      <4>1. rho' \in [Service -> Nat]
        BY <3>2, <3>4, WindowsGiven, StartTyped
      <4> QED BY <4>1, SumNat, GraphsAssumption DEF Rise
    <3>6. Climbing'
      BY <3>4, <3>5 DEF Climbing, Rise
    <3> QED BY <3>1, <3>3, <3>4, <3>6 DEF CutInv, Solving
  <2>3. CASE Solve
    <3>1. /\ stage = "solve" /\ stage' = "solve" /\ UNCHANGED graph /\ Solving /\ Climbing
          /\ windows \in Windows
      BY <1>2, <2>3 DEF Solve, SolverInv, CutInv
    <3>2. ASSUME NextSweep PROVE Climbing' /\ windows' = windows
      <4>1. iter' = iter + 1 /\ moved = TRUE /\ moved' = FALSE /\ rho' = rho /\ windows' = windows
        BY <3>1, <3>2 DEF NextSweep, Climbing
      <4>2. iter \in Nat /\ iter + 1 <= Rise(rho)
        BY <3>1, <4>1 DEF Climbing
      <4>3. Rise(rho)' = Rise(rho)
        BY <4>1 DEF Rise
      <4>4. iter' \in Nat /\ iter' + 0 = iter + 1
        BY <4>1, <4>2
      <4> QED BY <4>1, <4>2, <4>3, <4>4 DEF Climbing
    <3>3. ASSUME NEW s \in Service, Visit(s) PROVE Climbing' /\ windows' = windows
      BY <3>1, <3>3, VisitClimbs DEF Visit
    <3> QED BY <2>3, <3>1, <3>2, <3>3 DEF Solve, CutInv
  <2>4. CASE Report
    <3>1. /\ Solving /\ Climbing /\ Solved /\ converged' = ~moved /\ stage' = "report"
          /\ UNCHANGED <<graph, windows, rho>> /\ windows \in Windows
      BY <1>2, <2>4 DEF Report, SolverInv, CutInv
    <3>2. (Low(windows, rho))'
      BY <3>1, SameGraph DEF Solving
    <3>3. Rise(rho) \in Nat /\ Room \in Nat /\ Rise(rho) <= Room
      BY <3>1, RiseBounded DEF Solving
    <3>4. ASSUME MaxIter > Room PROVE converged'
      <4> SUFFICES ASSUME moved PROVE FALSE
        BY <3>1
      <4>1. iter + 1 = MaxIter /\ iter + 1 <= Room
        BY <3>1, <3>3, <3>4 DEF Solved, Climbing
      <4> QED BY <3>3, <3>4, <4>1, EquilibriumAssumption
    <3> QED BY <2>0, <3>1, <3>2, <3>4 DEF CutInv
  <2>5. CASE NextTick
    <3>1. stage' = "snapshot"
      BY <2>5 DEF NextTick
    <3> QED BY <3>1 DEF CutInv
  <2>6. CASE UNCHANGED vars
    <3>1. UNCHANGED <<graph, windows, rho, moved, iter, converged, stage>>
      BY <2>6 DEF vars, solverVars
    <3> QED BY <1>2, <2>0, <3>1, SameGraph DEF CutInv, Climbing, Rise
  <2> QED BY <1>2, <2>1, <2>2, <2>3, <2>4, <2>5, <2>6 DEF Next
<1> QED BY <1>1, <1>2

(* The solver stops by itself: it makes no more sweeps than the utilisations *)
(* can still rise, for every graph with its cycles, all windows and every    *)
(* order.                                                                    *)
THEOREM SweepsBounded == Spec => [](stage = "solve" => iter <= Room)
<1>1. SolverInv /\ CutInv => (stage = "solve" => iter <= Room)
  <2> SUFFICES ASSUME Solving, Climbing PROVE iter <= Room
    BY DEF SolverInv, CutInv
  <2>1. Rise(rho) \in Nat /\ Room \in Nat /\ Rise(rho) <= Room
    BY RiseBounded DEF Solving
  <2> QED BY <2>1 DEF Climbing
<1> QED BY <1>1, SolverInvAlways, CutInvAlways, PTL DEF Spec

(* At any time, and so when maxIter cuts it off as well, the solver has no   *)
(* service above the solution: an answer that has not converged understates  *)
(* the load and never overstates it.                                         *)
THEOREM NeverOvershoots ==
  Spec => [](stage \in {"solve", "report"} => \A s \in Service : rho[s] <= Solution(windows)[s])
<1>1. SolverInv /\ CutInv =>
        (stage \in {"solve", "report"} => \A s \in Service : rho[s] <= Solution(windows)[s])
  <2> SUFFICES ASSUME Given(windows), Low(windows, rho), NEW s \in Service
               PROVE  rho[s] <= Solution(windows)[s]
    BY DEF SolverInv, CutInv, Solving
  <2> DEFINE sol == Solution(windows)
  <2>1. Low(windows, sol) /\ \A t \in DOMAIN windows : sol[t] = Target(windows, sol, t)
    BY SolutionLeast
  <2> HIDE DEF sol
  <2>2. sol \in [Service -> Nat] /\ DOMAIN windows \subseteq Service
    BY <2>1 DEF Low, Given
  <2>3. Covering(windows, sol)
    BY <2>1, <2>2 DEF Covering
  <2>4. CASE s \in DOMAIN windows
    BY <2>2, <2>3, <2>4 DEF Low, sol
  <2>5. CASE s \notin DOMAIN windows
    BY <2>1, <2>5 DEF Low, sol
  <2> QED BY <2>4, <2>5
<1> QED BY <1>1, SolverInvAlways, CutInvAlways, PTL DEF Spec

LEMMA NoneGiven == ASSUME NEW S, NEW w \in [{} -> S] PROVE w = <<>>
<1>1. DOMAIN w = {} /\ DOMAIN <<>> = {}
  OBVIOUS
<1> QED BY <1>1

-----------------------------------------------------------------------------
(* Where calls do not go in circles, far fewer sweeps are enough: the        *)
(* services settle layer by layer, each layer by halving what is left.       *)

(* gap[k] is the most that k damped steps leave of a utilisation's way, and  *)
(* h of them leave nothing.                                                  *)
Shrinks(gap, h) ==
  /\ gap \in [Nat -> Nat] /\ gap[0] = Limit /\ gap[h] = 0
  /\ \A k \in Nat : gap[k + 1] = (9 * gap[k]) \div 20

(* Every call goes to a higher one of n layers.                              *)
Layering(ht, n) ==
  /\ ht \in [Service -> 0 .. n - 1]
  /\ \A c, s \in Service : Weight(c, s) > 0 => ht[c] < ht[s]

Layered(n) == \E ht : Layering(ht, n)

(* The layers below l are at their targets, and l itself has made j steps,   *)
(* the services visited in this sweep one more.                              *)
Near(r, ahead, ht, gap, l, j, t) ==
  /\ ht[t] < l => r[t] = Target(windows, r, t)
  /\ ht[t] = l => Target(windows, r, t) - r[t] <= gap[IF t \in ahead THEN j ELSE j + 1]

(* A target comes from the callers alone.                                    *)
LEMMA TargetSame ==
  ASSUME NEW wins, Given(wins), NEW q \in [Service -> Nat], NEW r \in [Service -> Nat],
         NEW t \in DOMAIN wins, \A c \in DOMAIN wins : Weight(c, t) > 0 => q[c] = r[c]
  PROVE  Target(wins, q, t) = Target(wins, r, t)
<1>1. ASSUME NEW c \in DOMAIN wins
      PROVE  Weight(c, t) * wins[c].rate * Floor(q[c], U) = Weight(c, t) * wins[c].rate * Floor(r[c], U)
  <2>1. CASE Weight(c, t) > 0
    BY <2>1
  <2>2. CASE ~(Weight(c, t) > 0)
    <3>1. Weight(c, t) \in Nat /\ c \in Service /\ t \in Service
      BY GraphTyped DEF Weight, Given
    <3>2. Weight(c, t) = 0
      BY <2>2, <3>1
    <3> DEFINE a == wins[c].rate
               x == Floor(q[c], U)
               y == Floor(r[c], U)
    <3>3. a \in Nat /\ x \in Nat /\ y \in Nat
      BY <3>1, EquilibriumAssumption DEF Given, Floor
    <3> HIDE DEF a, x, y
    <3>4. 0 * a * x = 0 * a * y
      BY <3>3
    <3> QED BY <3>2, <3>4 DEF a, x, y
  <2> QED BY <2>1, <2>2
<1>2. CallerTerms(wins, q, t) = CallerTerms(wins, r, t)
  BY <1>1 DEF CallerTerms
<1> QED BY <1>2, TargetIs DEF Injected

LEMMA DampedGap ==
  ASSUME NEW a \in Nat, NEW b \in Nat, a <= b, NEW g \in Nat, b - a <= g
  PROVE  b - Damped(a, b) <= (9 * g) \div 20 /\ (a = b => Damped(a, b) = a)
BY DEF Damped

(* A visit: no layer that is done moves, and what moves is not done.         *)
LEMMA VisitReaches ==
  ASSUME Solving, NEW s \in Service, Visit(s), UNCHANGED graph,
         NEW n \in Nat, NEW h \in Nat, NEW gap, Shrinks(gap, h), NEW ht, Layering(ht, n),
         NEW l \in Nat, NEW j \in Nat,
         \A t \in DOMAIN windows : Near(rho, left, ht, gap, l, j, t)
  PROVE  /\ \A t \in DOMAIN windows : Near(rho', left', ht, gap, l, j, t)
         /\ rho'[s] # rho[s] => l < n
<1> DEFINE T(r, t) == Target(windows, r, t)
<1>1. /\ s \in left /\ s \in DOMAIN windows /\ left' = left \ {s}
      /\ rho' = [rho EXCEPT ![s] = Damped(rho[s], T(rho, s))]
      /\ Given(windows) /\ DOMAIN windows \subseteq Service
      /\ rho \in [Service -> Nat] /\ \A t \in DOMAIN windows : rho[t] <= T(rho, t)
  BY DEF Visit, Solving, Given, Low
<1>2. \A t \in DOMAIN windows : T(rho, t) \in Nat /\ rho[t] \in Nat /\ ht[t] \in Nat /\ ht[t] < n
  BY <1>1, TargetNat DEF Layering
<1>3. rho'[s] = Damped(rho[s], T(rho, s)) /\ \A t \in Service : t # s => rho'[t] = rho[t]
  <2> HIDE DEF T
  <2> QED BY <1>1
<1>4. rho' \in [Service -> Nat]
  <2>1. Damped(rho[s], T(rho, s)) \in Nat
    BY <1>1, <1>2, DampedBetween
  <2> HIDE DEF T
  <2> QED BY <1>1, <2>1
<1>5. ht[s] < l => rho'[s] = rho[s]
  <2> SUFFICES ASSUME ht[s] < l PROVE Damped(rho[s], T(rho, s)) = rho[s]
    BY <1>3
  <2>1. rho[s] = T(rho, s)
    BY <1>1 DEF Near
  <2> HIDE DEF T
  <2> QED BY <1>1, <1>2, <2>1, DampedGap
<1>6. ASSUME NEW t \in DOMAIN windows, ht[t] <= l PROVE T(rho', t) = T(rho, t)
  <2> DEFINE r == rho'
  <2>1. ASSUME NEW c \in DOMAIN windows, Weight(c, t) > 0 PROVE rho'[c] = rho[c]
    <3>1. ht[c] < ht[t]
      BY <1>1, <2>1 DEF Layering
    <3>2. ht[c] < l
      BY <1>2, <1>6, <3>1
    <3> QED BY <1>1, <1>3, <1>5, <3>2
  <2>2. r \in [Service -> Nat] /\ \A c \in DOMAIN windows : Weight(c, t) > 0 => r[c] = rho[c]
    BY <1>4, <2>1
  <2> HIDE DEF r
  <2>3. Target(windows, r, t) = Target(windows, rho, t)
    BY <1>1, <2>2, TargetSame
  <2> QED BY <2>3 DEF r
<1>7. ASSUME NEW t \in DOMAIN windows PROVE Near(rho', left', ht, gap, l, j, t)
  <2>1. Near(rho, left, ht, gap, l, j, t)
    OBVIOUS
  <2>2. ASSUME ht[t] < l PROVE rho'[t] = T(rho', t)
    <3>1. rho'[t] = rho[t]
      BY <1>1, <1>3, <1>5, <2>2
    <3>2. T(rho', t) = T(rho, t)
      BY <1>2, <1>6, <2>2
    <3> QED BY <2>1, <2>2, <3>1, <3>2 DEF Near
  <2>3. ASSUME ht[t] = l PROVE T(rho', t) - rho'[t] <= gap[IF t \in left' THEN j ELSE j + 1]
    <3>1. T(rho', t) = T(rho, t)
      BY <1>2, <1>6, <2>3
    <3>2. T(rho, t) - rho[t] <= gap[IF t \in left THEN j ELSE j + 1]
      BY <2>1, <2>3 DEF Near
    <3>3. CASE t # s
      BY <1>1, <1>3, <3>1, <3>2, <3>3
    <3>4. CASE t = s
      <4>1. T(rho, s) - rho[s] <= gap[j] /\ gap[j] \in Nat /\ gap[j + 1] = (9 * gap[j]) \div 20
        BY <1>1, <3>2, <3>4 DEF Shrinks
      <4>2. T(rho, s) - Damped(rho[s], T(rho, s)) <= gap[j + 1]
        <5> HIDE DEF T
        <5> QED BY <1>1, <1>2, <4>1, DampedGap
      <4> QED BY <1>1, <1>3, <3>1, <3>4, <4>2
    <3> QED BY <3>3, <3>4
  <2> QED BY <2>2, <2>3 DEF Near
<1>8. rho'[s] # rho[s] => l < n
  BY <1>1, <1>2, <1>5
<1> QED BY <1>7, <1>8

(* The next sweep, and the next layer when this one has made its steps.      *)
LEMMA SweepReaches ==
  ASSUME Solving, left = {},
         NEW n \in Nat, NEW h \in Nat, NEW gap, Shrinks(gap, h), NEW ht, Layering(ht, n),
         NEW l \in Nat, NEW j \in Nat, j < h,
         \A t \in DOMAIN windows : Near(rho, left, ht, gap, l, j, t)
  PROVE  LET m == IF j + 1 < h THEN l ELSE l + 1
             k == IF j + 1 < h THEN j + 1 ELSE 0
         IN  \A t \in DOMAIN windows : Near(rho, DOMAIN windows, ht, gap, m, k, t)
<1> DEFINE T(t) == Target(windows, rho, t)
<1>1. /\ Given(windows) /\ DOMAIN windows \subseteq Service
      /\ rho \in [Service -> Nat] /\ \A t \in DOMAIN windows : rho[t] <= T(t)
  BY DEF Solving, Given, Low
<1>2. \A t \in DOMAIN windows : /\ T(t) \in Nat /\ rho[t] \in Nat /\ ht[t] \in Nat
                                /\ T(t) <= Limit
  BY <1>1, TargetNat, TargetLimited DEF Layering
<1>3. ASSUME NEW t \in DOMAIN windows
      PROVE  /\ ht[t] < l => rho[t] = T(t)
             /\ ht[t] = l => T(t) - rho[t] <= gap[j + 1]
  BY DEF Near
<1> HIDE DEF T
<1>4. CASE j + 1 < h
  <2>1. ASSUME NEW t \in DOMAIN windows PROVE Near(rho, DOMAIN windows, ht, gap, l, j + 1, t)
    BY <1>3 DEF Near, T
  <2> QED BY <1>4, <2>1
<1>5. CASE ~(j + 1 < h)
  <2>1. j + 1 = h /\ gap[h] = 0 /\ gap[0] = Limit
    BY <1>5 DEF Shrinks
  <2>2. ASSUME NEW t \in DOMAIN windows, ht[t] < l + 1 PROVE rho[t] = T(t)
    <3>1. CASE ht[t] < l
      BY <1>3, <3>1
    <3>2. CASE ht[t] = l
      BY <1>1, <1>2, <1>3, <2>1, <3>2
    <3> QED BY <1>2, <2>2, <3>1, <3>2
  <2>3. ASSUME NEW t \in DOMAIN windows PROVE T(t) - rho[t] <= gap[0]
    <3>1. T(t) \in Nat /\ rho[t] \in Nat /\ T(t) <= Limit /\ Limit \in Nat
      BY <1>2, EquilibriumAssumption DEF Limit
    <3> QED BY <2>1, <3>1
  <2>4. ASSUME NEW t \in DOMAIN windows PROVE Near(rho, DOMAIN windows, ht, gap, l + 1, 0, t)
    BY <2>2, <2>3 DEF Near, T
  <2> QED BY <1>5, <2>4
<1> QED BY <1>4, <1>5

LEMMA NearSame ==
  ASSUME UNCHANGED <<graph, windows>>
  PROVE  /\ \A ht, gap, l, j, t : (Near(rho, left, ht, gap, l, j, t))' <=> Near(rho', left', ht, gap, l, j, t)
         /\ \A ht, n : (Layering(ht, n))' <=> Layering(ht, n)
<1>1. \A r, s : (Target(windows, r, s))' = Target(windows, r, s)
  BY DEF Target, Weight
<1>2. \A t : (Target(windows, rho, t))' = Target(windows, rho', t)
  BY SameGraph
<1>3. \A ht, n : (Layering(ht, n))' <=> Layering(ht, n)
  BY DEF Layering, Weight
<1>4. \A ht, gap, l, j, t : (Near(rho, left, ht, gap, l, j, t))' <=> Near(rho', left', ht, gap, l, j, t)
  BY <1>2 DEF Near
<1> QED BY <1>3, <1>4

(* The sweeps completed: h for each layer that is done, and j.               *)
Progress(ht, n, h, gap) ==
  \E l \in Nat, j \in Nat :
    /\ j < h /\ iter = l * h + j
    /\ \A t \in DOMAIN windows : Near(rho, left, ht, gap, l, j, t)
    /\ moved => l < n

SettleInv(n, h, gap) ==
  /\ stage = "solve" => moved \in BOOLEAN /\ \A ht : Layering(ht, n) => Progress(ht, n, h, gap)
  /\ stage = "report" /\ DOMAIN windows # {} /\ Layered(n) => converged

LEMMA LayersTake ==
  ASSUME NEW n \in Nat, NEW h \in Nat, NEW l \in Nat, l < n
  PROVE  (l + 1) * h = l * h + h /\ l * h + h <= n * h /\ l * h \in Nat /\ n * h \in Nat
<1>1. (l + 1) * h = l * h + h /\ l * h \in Nat /\ n * h \in Nat
  OBVIOUS
<1>2. PICK d \in Nat : n = (l + 1) + d
  <2>1. n - (l + 1) \in Nat /\ n = (l + 1) + (n - (l + 1))
    OBVIOUS
  <2> QED BY <2>1
<1>3. n * h = (l + 1) * h + d * h /\ d * h \in Nat
  BY <1>2
<1> QED BY <1>1, <1>3

LEMMA ProgressStarts ==
  ASSUME NEW wins, Given(wins), SolveBegin(wins), UNCHANGED graph,
         NEW n \in Nat, NEW h \in Nat, NEW gap, Shrinks(gap, h), NEW ht, Layering(ht, n)
  PROVE  (Progress(ht, n, h, gap))'
<1>1. /\ windows' = wins /\ rho' = Start(wins) /\ left' = DOMAIN wins
      /\ iter' = 0 /\ moved' = FALSE
  BY DEF SolveBegin
<1> DEFINE r == Start(wins)
<1>2. r \in [Service -> Nat] /\ DOMAIN wins \subseteq Service
  BY StartTyped DEF Given
<1>3. h > 0
  <2>1. Limit \in Nat /\ Limit > 0
    BY EquilibriumAssumption DEF Limit
  <2> QED BY <2>1 DEF Shrinks
<1>4. ASSUME NEW t \in DOMAIN wins
      PROVE  /\ Target(wins, r, t) - r[t] <= gap[0] /\ ht[t] \in Nat
  <2>1. r[t] \in Nat /\ Target(wins, r, t) \in Nat /\ Target(wins, r, t) <= Limit /\ Limit \in Nat
    BY <1>2, TargetNat, TargetLimited, EquilibriumAssumption DEF Limit
  <2>2. gap[0] = Limit /\ ht[t] \in Nat
    BY <1>2 DEF Shrinks, Layering
  <2> HIDE DEF r
  <2> QED BY <2>1, <2>2
<1>5. \A t : (Target(windows, rho, t))' = Target(wins, r, t)
  BY <1>1, SameGraph
<1>6. ASSUME NEW t \in DOMAIN wins PROVE (Near(rho, left, ht, gap, 0, 0, t))'
  <2>1. ~(ht[t] < 0)
    BY <1>4
  <2>2. Target(wins, r, t) - r[t] <= gap[IF t \in DOMAIN wins THEN 0 ELSE 0 + 1]
    BY <1>4
  <2> QED BY <1>1, <1>5, <2>1, <2>2 DEF Near
<1>7. 0 \in Nat /\ iter' = 0 * h + 0
  BY <1>1
<1> QED BY <1>1, <1>3, <1>6, <1>7 DEF Progress

LEMMA ProgressVisit ==
  ASSUME Solving, moved \in BOOLEAN, NEW s \in Service, Visit(s), UNCHANGED graph,
         NEW n \in Nat, NEW h \in Nat, NEW gap, Shrinks(gap, h), NEW ht, Layering(ht, n),
         Progress(ht, n, h, gap)
  PROVE  (Progress(ht, n, h, gap))'
<1>1. PICK l \in Nat, j \in Nat :
        /\ j < h /\ iter = l * h + j
        /\ \A t \in DOMAIN windows : Near(rho, left, ht, gap, l, j, t)
        /\ moved => l < n
  BY DEF Progress
<1>2. windows' = windows /\ iter' = iter /\ moved' = (moved \/ rho'[s] # rho[s])
  BY DEF Visit
<1>3. /\ \A t \in DOMAIN windows : Near(rho', left', ht, gap, l, j, t)
      /\ rho'[s] # rho[s] => l < n
  BY <1>1, VisitReaches
<1>4. \A t \in DOMAIN windows : (Near(rho, left, ht, gap, l, j, t))'
  BY <1>2, <1>3, NearSame
<1>5. moved' => l < n
  BY <1>1, <1>2, <1>3
<1> QED BY <1>1, <1>2, <1>4, <1>5 DEF Progress

LEMMA ProgressSweep ==
  ASSUME Solving, NextSweep, moved \in BOOLEAN, UNCHANGED graph,
         NEW n \in Nat, NEW h \in Nat, NEW gap, Shrinks(gap, h), NEW ht, Layering(ht, n),
         Progress(ht, n, h, gap)
  PROVE  (Progress(ht, n, h, gap))'
<1>1. PICK l \in Nat, j \in Nat :
        /\ j < h /\ iter = l * h + j
        /\ \A t \in DOMAIN windows : Near(rho, left, ht, gap, l, j, t)
        /\ moved => l < n
  BY DEF Progress
<1>2. /\ left = {} /\ left' = DOMAIN windows /\ moved' = FALSE /\ iter' = iter + 1
      /\ windows' = windows /\ rho' = rho
  BY DEF NextSweep
<1> DEFINE m == IF j + 1 < h THEN l ELSE l + 1
           k == IF j + 1 < h THEN j + 1 ELSE 0
<1>3. \A t \in DOMAIN windows : Near(rho, DOMAIN windows, ht, gap, m, k, t)
  BY <1>1, <1>2, SweepReaches
<1>4. m \in Nat /\ k \in Nat /\ k < h
  BY <1>1
<1>5. iter + 1 = m * h + k
  <2>1. (l + 1) * h = l * h + h /\ l * h \in Nat
    OBVIOUS
  <2>2. CASE j + 1 < h
    BY <1>1, <2>1, <2>2
  <2>3. CASE ~(j + 1 < h)
    <3>1. j + 1 = h /\ m = l + 1 /\ k = 0
      BY <1>1, <2>3
    <3> HIDE DEF m, k
    <3>2. m * h = l * h + h /\ iter = l * h + j
      BY <1>1, <2>1, <3>1
    <3> QED BY <2>1, <3>1, <3>2
  <2> QED BY <2>2, <2>3
<1> HIDE DEF m, k
<1>6. \A t \in DOMAIN windows : (Near(rho, left, ht, gap, m, k, t))'
  BY <1>2, <1>3, NearSame
<1> QED BY <1>2, <1>4, <1>5, <1>6 DEF Progress

LEMMA SettleInvAlways ==
  ASSUME NEW n \in Nat, NEW h \in Nat, NEW gap, Shrinks(gap, h), MaxIter > n * h
  PROVE  /\ AnalysisInit => SettleInv(n, h, gap)
         /\ SolverInv /\ SettleInv(n, h, gap) /\ [Next]_vars => (SettleInv(n, h, gap))'
<1>1. AnalysisInit => SettleInv(n, h, gap)
  BY DEF AnalysisInit, SettleInv
<1>2. ASSUME SolverInv, SettleInv(n, h, gap), [Next]_vars PROVE (SettleInv(n, h, gap))'
  <2>1. CASE Snapshot
    <3>1. stage' = "snapshot"
      BY <2>1 DEF Snapshot
    <3> QED BY <3>1 DEF SettleInv
  <2>2. CASE ReadWindows
    <3>1. PICK wins \in Windows :
            SolveBegin(wins) /\ stage' = IF DOMAIN wins = {} THEN "report" ELSE "solve"
      BY <2>2 DEF ReadWindows
    <3>2. UNCHANGED graph /\ Given(wins)
      BY <1>2, <2>2, WindowsGiven DEF ReadWindows, SolverInv
    <3>3. ASSUME NEW ht, Layering(ht, n) PROVE (Progress(ht, n, h, gap))'
      BY <3>1, <3>2, <3>3, ProgressStarts
    <3>4. windows' = wins /\ moved' \in BOOLEAN
      BY <3>1 DEF SolveBegin
    <3>5. \A ht : (Layering(ht, n))' <=> Layering(ht, n)
      BY <3>2 DEF Layering, Weight
    <3> QED BY <3>1, <3>3, <3>4, <3>5 DEF SettleInv
  <2>3. CASE Solve
    <3>1. /\ stage = "solve" /\ stage' = "solve" /\ UNCHANGED graph /\ Solving /\ moved \in BOOLEAN
      BY <1>2, <2>3 DEF Solve, SolverInv, SettleInv
    <3>2. windows' = windows /\ moved' \in BOOLEAN
      BY <2>3, <3>1 DEF Solve, NextSweep, Visit
    <3>3. ASSUME NEW ht, (Layering(ht, n))' PROVE (Progress(ht, n, h, gap))'
      <4>1. Layering(ht, n)
        BY <3>1, <3>2, <3>3, NearSame
      <4>2. Progress(ht, n, h, gap)
        BY <1>2, <3>1, <4>1 DEF SettleInv
      <4>3. CASE NextSweep
        BY <3>1, <4>1, <4>2, <4>3, ProgressSweep
      <4>4. ASSUME NEW s \in Service, Visit(s) PROVE (Progress(ht, n, h, gap))'
        BY <3>1, <4>1, <4>2, <4>4, ProgressVisit
      <4> QED BY <2>3, <4>3, <4>4 DEF Solve
    <3> QED BY <3>1, <3>2, <3>3 DEF SettleInv
  <2>4. CASE Report
    <3>1. /\ stage = "solve" /\ Solved /\ converged' = ~moved /\ stage' = "report" /\ moved \in BOOLEAN
          /\ UNCHANGED <<graph, windows>>
      BY <1>2, <2>4 DEF Report, SettleInv
    <3>2. ASSUME NEW ht, Layering(ht, n) PROVE ~moved
      <4> SUFFICES ASSUME moved PROVE FALSE
        OBVIOUS
      <4>1. Progress(ht, n, h, gap)
        BY <1>2, <3>1, <3>2 DEF SettleInv
      <4>2. PICK l \in Nat, j \in Nat : j < h /\ iter = l * h + j /\ l < n
        BY <4>1 DEF Progress
      <4>3. iter + 1 = MaxIter
        BY <3>1 DEF Solved
      <4>4. l * h + h <= n * h /\ l * h \in Nat /\ n * h \in Nat
        BY <4>2, LayersTake
      <4> DEFINE a == l * h
                 b == n * h
      <4>5. a + h <= b /\ a \in Nat /\ b \in Nat /\ iter = a + j /\ MaxIter > b
        BY <4>2, <4>4
      <4> HIDE DEF a, b
      <4> QED BY <4>2, <4>3, <4>5, EquilibriumAssumption
    <3>3. Layered(n)' <=> Layered(n)
      BY <3>1 DEF Layered, Layering, Weight
    <3> QED BY <3>1, <3>2, <3>3 DEF SettleInv, Layered
  <2>5. CASE NextTick
    <3>1. stage' = "snapshot"
      BY <2>5 DEF NextTick
    <3> QED BY <3>1 DEF SettleInv
  <2>6. CASE UNCHANGED vars
    <3>1. UNCHANGED <<graph, windows, rho, left, moved, iter, converged, stage>>
      BY <2>6 DEF vars, solverVars
    <3>2. Layered(n)' <=> Layered(n)
      BY <3>1 DEF Layered, Layering, Weight
    <3>3. \A ht : (Progress(ht, n, h, gap))' <=> Progress(ht, n, h, gap)
      BY <3>1, NearSame DEF Progress
    <3>4. \A ht : (Layering(ht, n))' <=> Layering(ht, n)
      BY <3>1, NearSame
    <3> QED BY <1>2, <3>1, <3>2, <3>3, <3>4 DEF SettleInv
  <2> QED BY <1>2, <2>1, <2>2, <2>3, <2>4, <2>5, <2>6 DEF Next
<1> QED BY <1>1, <1>2

(* With h sweeps for each of n layers the solver converges, in every order   *)
(* of the visits, to the same answer: maxIter = 50 is enough for the two     *)
(* layers of callers and called at the code's epsilon, where h is 18.        *)
THEOREM LayersSettle ==
  ASSUME NEW n \in Nat, NEW h \in Nat, NEW gap, Shrinks(gap, h), MaxIter > n * h
  PROVE  Spec => [](Layered(n) => OrderIndependent)
<1>1. SolverInv /\ CutInv /\ SettleInv(n, h, gap) /\ (converged => rho = Solution(windows))
        => (Layered(n) => OrderIndependent)
  <2> SUFFICES ASSUME CutInv, SettleInv(n, h, gap), Layered(n), stage = "report", windows # <<>>,
                      converged => rho = Solution(windows)
               PROVE  converged /\ rho = Solution(windows)
    BY DEF OrderIndependent
  <2>1. windows \in [DOMAIN windows -> Window]
    BY EquilibriumAssumption DEF CutInv
  <2>2. DOMAIN windows # {}
    BY <2>1, NoneGiven
  <2> QED BY <2>2 DEF SettleInv
<1>2. AnalysisInit => SettleInv(n, h, gap)
  BY SettleInvAlways
<1>3. SolverInv /\ SettleInv(n, h, gap) /\ [Next]_vars => (SettleInv(n, h, gap))'
  BY SettleInvAlways
<1> QED BY <1>1, <1>2, <1>3, SolverInvAlways, CutInvAlways, ConvergedIsSolution, PTL DEF Spec

-----------------------------------------------------------------------------
(* The scenarios of the what-if engine.                                      *)

(* Windows whose equations another solution covers have a lower one.         *)
LEMMA SolutionsCompare ==
  ASSUME NEW v, Given(v), NEW r \in [Service -> Nat], Covering(v, r), NEW s \in Service
  PROVE  Solution(v)[s] <= r[s]
<1>1. Low(v, Solution(v))
  BY SolutionLeast
<1>2. CASE s \in DOMAIN v
  BY <1>1, <1>2 DEF Low
<1>3. CASE s \notin DOMAIN v
  <2>1. Solution(v)[s] = 0 /\ r[s] \in Nat
    BY <1>1, <1>3 DEF Low
  <2> QED BY <2>1
<1> QED BY <1>2, <1>3

(* What Up returns.                                                          *)
LEMMA UpBetween ==
  ASSUME NEW a \in Nat, NEW c \in Nat \ {0}
  PROVE  /\ Up(a, c) \in Nat
         /\ a <= c * Up(a, c) /\ c * Up(a, c) < a + c
<1> DEFINE n == a + c - 1
           q == n \div c
<1>1. n \in Nat
  OBVIOUS
<1> HIDE DEF n
<1>2. q \in Int /\ 0 <= q /\ c * q <= n /\ n < c * q + c
  BY <1>1
<1>3. Up(a, c) = q
  BY DEF Up, n
<1> HIDE DEF q
<1>4. c * q \in Int
  BY <1>2
<1> DEFINE m == c * q
<1>5. m \in Int /\ m <= n /\ n < m + c
  BY <1>2, <1>4
<1> HIDE DEF m
<1>6. a <= m /\ m < a + c
  BY <1>5 DEF n
<1> QED BY <1>2, <1>3, <1>6 DEF m

(* b c-ths of a are at least a, or at most a, as b is of c.                  *)
LEMMA UpCompare ==
  ASSUME NEW a \in Nat, NEW b \in Nat, NEW c \in Nat \ {0}
  PROVE  /\ Up(b * a, c) \in Nat
         /\ b >= c => a <= Up(b * a, c)
         /\ b <= c => Up(b * a, c) <= a
         /\ Up(b * a, c) = 0 => b * a = 0
<1> DEFINE n == b * a
           q == Up(n, c)
           m == c * q
<1>1. n \in Nat
  OBVIOUS
<1> HIDE DEF n
<1>2. q \in Nat /\ n <= m /\ m < n + c
  BY <1>1, UpBetween
<1> HIDE DEF q
<1>3. m \in Nat /\ c * a \in Nat
  BY <1>2
<1>4. ASSUME b >= c PROVE a <= q
  <2>1. c * a <= n
    BY <1>4 DEF n
  <2>2. CASE q < a
    <3>1. c * (q + 1) <= c * a
      BY <1>2, <2>2
    <3>2. c * (q + 1) = c * q + c
      BY <1>2
    <3>3. m + c <= n
      <4> DEFINE x == c * a
                 z == c * (q + 1)
      <4>1. x \in Nat /\ z <= x /\ z = m + c /\ x <= n
        BY <1>3, <2>1, <3>1, <3>2
      <4> HIDE DEF x, z, m
      <4> QED BY <1>1, <1>3, <4>1
    <3> HIDE DEF m
    <3> QED BY <1>1, <1>2, <1>3, <3>3
  <2> QED BY <1>2, <2>2
<1>5. ASSUME b <= c PROVE q <= a
  <2>1. n <= c * a
    BY <1>5 DEF n
  <2>2. CASE a < q
    <3>1. c * (a + 1) <= c * q
      BY <1>2, <2>2
    <3>2. c * (a + 1) = c * a + c
      OBVIOUS
    <3>3. n + c <= m
      <4> DEFINE x == c * a
                 z == c * (a + 1)
      <4>1. x \in Nat /\ z <= m /\ z = x + c /\ n <= x
        BY <1>3, <2>1, <3>1, <3>2
      <4> HIDE DEF x, z, m
      <4> QED BY <1>1, <1>3, <4>1
    <3> HIDE DEF m
    <3> QED BY <1>1, <1>2, <1>3, <3>3
  <2> QED BY <1>2, <2>2
<1>6. ASSUME q = 0 PROVE n = 0
  <2>1. m = 0
    BY <1>6
  <2> HIDE DEF m
  <2> QED BY <1>1, <1>2, <2>1
<1> QED BY <1>2, <1>4, <1>5, <1>6 DEF q, n

(* The traffic a request makes of a rate.                                    *)
LEMMA TrafficIs ==
  ASSUME NEW req \in Request, NEW rate \in Nat
  PROVE  /\ Factor(req) \in Nat \ {0}
         /\ Traffic(rate, req) \in Nat
         /\ Factor(req) >= Parts => rate <= Traffic(rate, req)
         /\ Factor(req) <= Parts => Traffic(rate, req) <= rate
         /\ Traffic(rate, req) = 0 <=> rate = 0
<1>1. Factor(req) \in Nat \ {0} /\ Parts \in Nat \ {0}
  BY RequestsAssumption DEF Request, Factor
<1> DEFINE k == Factor(req)
           c == Parts
           q == Up(k * rate, c)
<1> HIDE DEF k, c
<1>2. k \in Nat \ {0} /\ c \in Nat \ {0}
  BY <1>1 DEF k, c
<1>3. /\ q \in Nat
      /\ k >= c => rate <= q
      /\ k <= c => q <= rate
      /\ q = 0 => k * rate = 0
  BY <1>2, UpCompare
<1>4. k * rate = 0 => rate = 0
  BY <1>2
<1>5. rate = 0 => q = 0
  <2> SUFFICES ASSUME rate = 0 PROVE q = 0
    OBVIOUS
  <2>1. k * rate = 0
    BY <1>2
  <2>2. c * q < 0 + c
    BY <1>2, <2>1, UpBetween
  <2> HIDE DEF q
  <2>3. CASE q >= 1
    <3>1. c <= c * q /\ c * q \in Nat
      BY <1>2, <1>3, <2>3
    <3> QED BY <1>2, <2>2, <3>1
  <2> QED BY <1>3, <2>3
<1>6. Traffic(rate, req) = q
  BY DEF Traffic, k, c
<1> HIDE DEF q
<1> QED BY <1>1, <1>3, <1>4, <1>5, <1>6 DEF k, c

(* The service rate that latency leaves.                                     *)
LEMMA SlowedIs ==
  ASSUME NEW req \in Request, NEW mu \in Nat
  PROVE  /\ Slowed(mu, req) \in Nat
         /\ req.latency = 0 => Slowed(mu, req) = mu
         /\ mu > 0 => Slowed(mu, req) <= mu
<1>1. req.latency \in Nat /\ req.found \in Nat /\ Parts \in Nat \ {0}
  BY RequestsAssumption DEF Request
<1> DEFINE c == Parts + req.latency
<1>2. c \in Nat \ {0} /\ Parts <= c
  BY <1>1
<1>3. Slowed(mu, req) = IF req.latency = 0 THEN mu
                        ELSE IF mu = 0 THEN req.found ELSE Up(Parts * mu, c)
  BY DEF Slowed
<1> HIDE DEF c
<1>4. Up(Parts * mu, c) \in Nat /\ Up(Parts * mu, c) <= mu
  BY <1>1, <1>2, UpCompare
<1> DEFINE q == Up(Parts * mu, c)
<1> HIDE DEF q
<1> QED BY <1>1, <1>3, <1>4 DEF q

(* One window that is no lighter than another.                               *)
AtLeast(y, x) == x.rate <= y.rate /\ Mu(y) <= Mu(x)

LEMMA TrafficOnly ==
  ASSUME NEW req \in Request, NEW x \in Window, NEW y \in Window,
         y.rate = Traffic(x.rate, req), y.mu = x.mu
  PROVE  /\ Factor(req) >= Parts => AtLeast(y, x)
         /\ Factor(req) <= Parts => AtLeast(x, y)
<1> DEFINE a == x.rate
           b == y.rate
           m == x.mu
<1>1. a \in Nat /\ b \in Nat /\ m \in Nat
  BY DEF Window
<1>2. /\ Factor(req) >= Parts => a <= b
      /\ Factor(req) <= Parts => b <= a
      /\ b = 0 <=> a = 0
  BY <1>1, TrafficIs
<1>3. Mu(x) = (IF a > 0 /\ m > 0 THEN m ELSE 1) /\ Mu(y) = (IF b > 0 /\ m > 0 THEN m ELSE 1)
  BY DEF Mu, Observed
<1> HIDE DEF a, b, m
<1>4. Mu(x) = Mu(y) /\ Mu(x) \in Nat
  BY <1>1, <1>2, <1>3
<1> QED BY <1>2, <1>4 DEF AtLeast, a, b

LEMMA ChangedIs ==
  ASSUME NEW req \in Request, NEW x \in Window
  PROVE  /\ Changed(x, req) \in Window
         /\ ~req.failure /\ Factor(req) >= Parts /\ (req.latency > 0 => x.mu > 0)
              => AtLeast(Changed(x, req), x)
         /\ ~req.failure /\ Factor(req) <= Parts /\ req.latency = 0
              => AtLeast(x, Changed(x, req))
<1> DEFINE y == Changed(x, req)
           a == x.rate
           m == x.mu
           b == Traffic(a, req)
           n == Slowed(m, req)
<1>1. a \in Nat /\ m \in Nat
  BY DEF Window
<1>2. b \in Nat /\ (Factor(req) >= Parts => a <= b) /\ (b = 0 <=> a = 0)
  BY <1>1, TrafficIs
<1>3. n \in Nat /\ (req.latency = 0 => n = m) /\ (m > 0 => n <= m)
  BY <1>1, SlowedIs
<1>4. y = IF req.failure THEN [rate |-> 0, mu |-> 0] ELSE [rate |-> b, mu |-> n]
  BY DEF Changed
<1>5. req.latency \in Nat
  BY DEF Request
<1> HIDE DEF y, b, n
<1>6. y \in Window
  BY <1>2, <1>3, <1>4 DEF Window
<1>7. ASSUME ~req.failure, Factor(req) >= Parts, req.latency > 0 => m > 0
      PROVE  AtLeast(y, x)
  <2>1. y.rate = b /\ y.mu = n
    BY <1>4, <1>7
  <2>2. Mu(x) = (IF a > 0 /\ m > 0 THEN m ELSE 1) /\ Mu(y) = (IF b > 0 /\ n > 0 THEN n ELSE 1)
    BY <2>1 DEF Mu, Observed
  <2>3. n <= m
    BY <1>1, <1>3, <1>5, <1>7
  <2> HIDE DEF a, m
  <2>4. Mu(y) <= Mu(x)
    BY <1>1, <1>2, <1>3, <2>2, <2>3
  <2> QED BY <1>2, <1>7, <2>1, <2>4 DEF AtLeast, a
<1>8. ASSUME ~req.failure, Factor(req) <= Parts, req.latency = 0 PROVE AtLeast(x, y)
  <2>1. y.rate = Traffic(x.rate, req) /\ y.mu = x.mu
    BY <1>3, <1>4, <1>8 DEF b
  <2> QED BY <1>6, <1>8, <2>1, TrafficOnly
<1> QED BY <1>6, <1>7, <1>8 DEF y, m

LEMMA PerturbedIs ==
  ASSUME NEW wins, Given(wins), NEW req \in Request
  PROVE  /\ Given(Perturbed(wins, req)) /\ DOMAIN Perturbed(wins, req) = DOMAIN wins
         /\ Heavier(wins, req) =>
              \A s \in DOMAIN wins : AtLeast(Perturbed(wins, req)[s], wins[s])
         /\ Lighter(wins, req) =>
              \A s \in DOMAIN wins : AtLeast(wins[s], Perturbed(wins, req)[s])
<1> DEFINE w == Perturbed(wins, req)
           t == req.target
<1>1. \A s \in DOMAIN wins : wins[s] \in Window
  BY DEF Given
<1>2. DOMAIN w = DOMAIN wins
  BY DEF Perturbed
<1>3. CASE t \in DOMAIN wins
  <2>1. w[t] = Changed(wins[t], req) /\ \A s \in DOMAIN wins \ {t} : w[s] = wins[s]
    BY <1>3 DEF Perturbed
  <2> HIDE DEF w
  <2>2. /\ w[t] \in Window
        /\ Heavier(wins, req) => AtLeast(w[t], wins[t])
        /\ Lighter(wins, req) => AtLeast(wins[t], w[t])
    BY <1>1, <1>3, <2>1, ChangedIs DEF Heavier, Lighter
  <2>3. \A s \in DOMAIN wins : AtLeast(wins[s], wins[s])
    BY <1>1 DEF AtLeast, Window, Mu
  <2>4. \A s \in DOMAIN w : w[s] \in Window
    BY <1>1, <1>2, <2>1, <2>2
  <2>6. Given(w)
    BY <1>2, <2>4 DEF Given, Window
  <2>7. /\ Heavier(wins, req) => \A s \in DOMAIN wins : AtLeast(w[s], wins[s])
        /\ Lighter(wins, req) => \A s \in DOMAIN wins : AtLeast(wins[s], w[s])
    <3>1. \A s \in DOMAIN wins : s = t \/ w[s] = wins[s]
      BY <2>1
    <3> QED BY <2>2, <2>3, <3>1
  <2> QED BY <1>2, <2>6, <2>7 DEF w
<1>4. CASE t \notin DOMAIN wins
  <2>1. ASSUME NEW s \in DOMAIN wins
        PROVE  /\ w[s] \in Window
               /\ Factor(req) >= Parts => AtLeast(w[s], wins[s])
               /\ Factor(req) <= Parts => AtLeast(wins[s], w[s])
    <3> DEFINE x == wins[s]
               y == w[s]
    <3>1. y = [x EXCEPT !.rate = Traffic(@, req)] /\ x \in Window
      BY <1>1, <1>4 DEF Perturbed
    <3> HIDE DEF x, y
    <3>2. x.rate \in Nat /\ x.mu \in Nat
      BY <3>1 DEF Window
    <3>3. Traffic(x.rate, req) \in Nat
      BY <3>2, TrafficIs
    <3>4. y.rate = Traffic(x.rate, req) /\ y.mu = x.mu /\ y = [rate |-> Traffic(x.rate, req), mu |-> x.mu]
      BY <3>1 DEF Window
    <3>5. y \in Window
      BY <3>2, <3>3, <3>4 DEF Window
    <3> QED BY <3>1, <3>4, <3>5, TrafficOnly DEF x, y
  <2> HIDE DEF w
  <2>3. Given(w)
    BY <1>2, <2>1 DEF Given, Window
  <2> QED BY <1>2, <2>1, <2>3 DEF Heavier, Lighter, w
<1> QED BY <1>3, <1>4

(* More traffic or latency.                                                  *)
LEMMA HeavierSolution ==
  ASSUME NEW v, Given(v), NEW w, Given(w), DOMAIN v = DOMAIN w,
         \A s \in DOMAIN v : v[s].rate <= w[s].rate /\ Mu(w[s]) <= Mu(v[s]),
         NEW t \in Service
  PROVE  Solution(v)[t] <= Solution(w)[t]
<1> DEFINE r == Solution(w)
<1>1. Low(w, r) /\ \A s \in DOMAIN w : r[s] = Target(w, r, s)
  BY SolutionLeast
<1> HIDE DEF r
<1>2. r \in [Service -> Nat] /\ DOMAIN v \subseteq Service
  BY <1>1 DEF Low, Given
<1>3. ASSUME NEW c \in DOMAIN v
      PROVE  v[c].rate * Floor(r[c], U) <= w[c].rate * Floor(r[c], U)
  <2> DEFINE a == v[c].rate
             b == w[c].rate
             k == Floor(r[c], U)
  <2>1. a \in Nat /\ b \in Nat /\ k \in Nat /\ a <= b
    BY <1>2, EquilibriumAssumption DEF Given, Floor
  <2> HIDE DEF a, b, k
  <2>2. a * k <= b * k
    BY <2>1
  <2> QED BY <2>2 DEF a, b, k
<1>4. \A s \in DOMAIN v : Target(v, r, s) <= Target(w, r, s)
  BY <1>2, <1>3, TargetCompare
<1>5. Covering(v, r)
  BY <1>1, <1>4 DEF Covering
<1> QED BY <1>2, <1>5, SolutionsCompare DEF r

(* The prediction moves the right way in every scenario that only adds or    *)
(* only takes load, for every graph, cyclic or not, and all windows.         *)
THEOREM ScenariosDirected == Spec => []ScenarioDirections
<1>1. SolverInv => ScenarioDirections
  <2> SUFFICES ASSUME SolverInv, stage = "report", NEW req \in Requests, NEW s \in Service
               PROVE  /\ Heavier(windows, req) =>
                           Solution(windows)[s] <= Solution(Perturbed(windows, req))[s]
                      /\ Lighter(windows, req) =>
                           Solution(Perturbed(windows, req))[s] <= Solution(windows)[s]
    BY DEF ScenarioDirections, Run
  <2> DEFINE w == Perturbed(windows, req)
  <2>1. Given(windows) /\ req \in Request
    BY RequestsAssumption DEF SolverInv
  <2>2. /\ Given(w) /\ DOMAIN w = DOMAIN windows
        /\ Heavier(windows, req) => \A c \in DOMAIN windows : AtLeast(w[c], windows[c])
        /\ Lighter(windows, req) => \A c \in DOMAIN windows : AtLeast(windows[c], w[c])
    BY <2>1, PerturbedIs
  <2> HIDE DEF w
  <2>3. Heavier(windows, req) => Solution(windows)[s] <= Solution(w)[s]
    BY <2>1, <2>2, HeavierSolution DEF AtLeast
  <2>4. Lighter(windows, req) => Solution(w)[s] <= Solution(windows)[s]
    BY <2>1, <2>2, HeavierSolution DEF AtLeast
  <2> QED BY <2>3, <2>4 DEF w
<1> QED BY <1>1, SolverInvAlways, PTL DEF Spec

-----------------------------------------------------------------------------
(* Paths.                                                                  *)

(* The weights of a path's calls, the terms of PathWeight.                   *)
CallWeights(p) == [i \in 1 .. Len(p) - 1 |-> Weight(p[i], p[i + 1])]

LEMMA PathWeightIs ==
  ASSUME NEW p PROVE PathWeight(p) = SumFunctionOnSet(CallWeights(p), 1 .. Len(p) - 1)
BY DEF PathWeight, CallWeights, SumFunction

(* p visits no service twice and follows calls.                              *)
IsSimple(p) ==
  /\ p \in Seq(Service) /\ Len(p) >= 1
  /\ \A i, j \in 1 .. Len(p) : i # j => p[i] # p[j]
  /\ \A i \in 1 .. Len(p) - 1 : Weight(p[i], p[i + 1]) > 0

(* A path without repetitions among the services of S is no longer than S.   *)
LEMMA NoLonger ==
  ASSUME NEW p \in Seq(Service), NEW S, IsFiniteSet(S), \A i \in 1 .. Len(p) : p[i] \in S,
         \A i, j \in 1 .. Len(p) : i # j => p[i] # p[j]
  PROVE  Len(p) <= Cardinality(S)
<1>1. Len(p) \in Nat /\ p \in [1 .. Len(p) -> Service]
  OBVIOUS
<1>2. p = [i \in 1 .. Len(p) |-> p[i]]
  BY <1>1
<1>3. p \in [1 .. Len(p) -> S]
  BY <1>2
<1>4. p \in Injection(1 .. Len(p), S)
  BY <1>1, <1>3 DEF Injection, IsInjective
<1>5. Cardinality(1 .. Len(p)) <= Cardinality(S)
  BY <1>4, FS_Injection
<1>6. Cardinality(1 .. Len(p)) = Len(p)
  <2> DEFINE n == Len(p)
  <2>1. n \in Nat /\ ~(1 > n) => n - 1 + 1 = n
    OBVIOUS
  <2> HIDE DEF n
  <2>2. n \in Nat => Cardinality(1 .. n) = n
    BY FS_Interval
  <2> QED BY <1>1, <2>2 DEF n
<1> QED BY <1>5, <1>6

LEMMA SimpleIs ==
  ASSUME NEW p
  PROVE  /\ p \in SimplePaths(Service) <=> IsSimple(p)
         /\ \A s \in Service : p \in SimplePaths({s}) <=> IsSimple(p) /\ p[1] = s
         /\ \A from \in SUBSET Service : p \in SimplePaths(from) <=> IsSimple(p) /\ p[1] \in from
<1>1. ASSUME NEW from, from \subseteq Service
      PROVE  p \in SimplePaths(from) <=> IsSimple(p) /\ p[1] \in from
  <2>1. ASSUME p \in SimplePaths(from) PROVE IsSimple(p) /\ p[1] \in from
    <3>1. PICK n \in 1 .. Cardinality(Service) : p \in [1 .. n -> Service]
      BY <2>1 DEF SimplePaths
    <3>2. n \in Nat /\ n >= 1
      BY <3>1, GraphsAssumption, FS_CardinalityType
    <3>3. p \in Seq(Service) /\ Len(p) = n /\ DOMAIN p = 1 .. n
      BY <3>1, <3>2
    <3> QED BY <2>1, <3>2, <3>3 DEF SimplePaths, IsSimple
  <2>2. ASSUME IsSimple(p), p[1] \in from PROVE p \in SimplePaths(from)
    <3>1. p \in Seq(Service) /\ Len(p) \in Nat /\ p \in [1 .. Len(p) -> Service] /\ DOMAIN p = 1 .. Len(p)
      BY <2>2 DEF IsSimple
    <3>2. Len(p) <= Cardinality(Service)
      <4>1. \A i \in 1 .. Len(p) : p[i] \in Service
        BY <3>1
      <4> QED BY <2>2, <3>1, <4>1, NoLonger, GraphsAssumption DEF IsSimple
    <3>3. Cardinality(Service) \in Nat
      BY GraphsAssumption, FS_CardinalityType
    <3>4. Len(p) \in 1 .. Cardinality(Service)
      BY <2>2, <3>1, <3>2, <3>3 DEF IsSimple
    <3> QED BY <2>2, <3>1, <3>4 DEF SimplePaths, IsSimple
  <2> QED BY <2>1, <2>2
<1>2. IsSimple(p) => p[1] \in Service
  BY DEF IsSimple
<1> QED BY <1>1, <1>2

LEMMA CallWeightsNat ==
  ASSUME graph \in Graphs, NEW p \in Seq(Service)
  PROVE  /\ \A i \in 1 .. Len(p) - 1 : CallWeights(p)[i] \in Nat
         /\ PathWeight(p) \in Nat
<1>1. ASSUME NEW i \in 1 .. Len(p) - 1 PROVE CallWeights(p)[i] \in Nat
  <2>1. p[i] \in Service /\ p[i + 1] \in Service
    OBVIOUS
  <2> QED BY <2>1, GraphTyped DEF CallWeights, Weight
<1>2. IsFiniteSet(1 .. Len(p) - 1)
  <2>1. Len(p) \in Nat
    OBVIOUS
  <2> QED BY <2>1, FS_Interval
<1>3. SumFunctionOnSet(CallWeights(p), 1 .. Len(p) - 1) \in Nat
  BY <1>1, <1>2, SumNat
<1> QED BY <1>1, <1>3, PathWeightIs

(* A path of one service weighs nothing.                                     *)
LEMMA SingleWeight ==
  ASSUME NEW p, Len(p) = 1 PROVE PathWeight(p) = 0
<1>1. 1 .. Len(p) - 1 = {}
  OBVIOUS
<1> QED BY <1>1, PathWeightIs, SumEmpty

(* The beginning of a path.                                                  *)
LEMMA Prefix ==
  ASSUME NEW p, IsSimple(p), NEW k \in 1 .. Len(p)
  PROVE  LET q == SubSeq(p, 1, k)
         IN  IsSimple(q) /\ Len(q) = k /\ \A i \in 1 .. k : q[i] = p[i]
<1> DEFINE q == SubSeq(p, 1, k)
<1>1. p \in Seq(Service) /\ Len(p) \in Nat
  BY DEF IsSimple
<1>2. q \in Seq(Service) /\ Len(q) = k /\ \A i \in 1 .. k : q[i] = p[i]
  BY <1>1, SubSeqProperties
<1>3. \A i, j \in 1 .. Len(q) : i # j => q[i] # q[j]
  BY <1>1, <1>2 DEF IsSimple
<1>4. ASSUME NEW i \in 1 .. Len(q) - 1 PROVE Weight(q[i], q[i + 1]) > 0
  <2>1. q[i] = p[i] /\ q[i + 1] = p[i + 1] /\ i \in 1 .. Len(p) - 1
    BY <1>1, <1>2, <1>4
  <2> QED BY <2>1 DEF IsSimple
<1> QED BY <1>1, <1>2, <1>3, <1>4 DEF IsSimple

(* All but the last call.                                                    *)
LEMMA ButLast ==
  ASSUME graph \in Graphs, NEW p, IsSimple(p), Len(p) > 1
  PROVE  LET q == SubSeq(p, 1, Len(p) - 1)
         IN  /\ IsSimple(q) /\ Len(q) = Len(p) - 1 /\ q[Len(q)] = p[Len(p) - 1]
             /\ PathWeight(p) = PathWeight(q) + Weight(p[Len(p) - 1], p[Len(p)])
<1> DEFINE n == Len(p)
           q == SubSeq(p, 1, n - 1)
<1>1. p \in Seq(Service) /\ n \in Nat /\ n > 1
  BY DEF IsSimple
<1>2. IsSimple(q) /\ Len(q) = n - 1 /\ \A i \in 1 .. n - 1 : q[i] = p[i]
  <2>1. n - 1 \in 1 .. n
    BY <1>1
  <2> QED BY <2>1, Prefix
<1> DEFINE f == CallWeights(p)
           g == CallWeights(q)
<1>4. n - 2 \in Nat /\ (n - 2) + 1 = n - 1 /\ \A i \in 1 .. n - 1 : f[i] \in Int
  BY <1>1, CallWeightsNat
<1>5. SumFunctionOnSet(f, 1 .. n - 1) = SumFunctionOnSet(f, 1 .. n - 2) + f[n - 1]
  <2> HIDE DEF f, n
  <2>1. \A i \in 1 .. (n - 2) + 1 : f[i] \in Int
    BY <1>4
  <2>2. SumFunctionOnSet(f, 1 .. (n - 2) + 1) = SumFunctionOnSet(f, 1 .. n - 2) + f[(n - 2) + 1]
    BY <1>4, <2>1, SumLast
  <2> QED BY <1>4, <2>2
<1>6. SumFunctionOnSet(f, 1 .. n - 2) = SumFunctionOnSet(g, 1 .. n - 2)
  <2>1. IsFiniteSet(1 .. n - 2)
    BY <1>4, FS_Interval
  <2>2. ASSUME NEW i \in 1 .. n - 2 PROVE f[i] \in Int /\ f[i] = g[i]
    <3>1. i \in 1 .. n - 1 /\ i + 1 \in 1 .. n - 1 /\ i \in 1 .. Len(q) - 1
      BY <1>1, <1>2
    <3> QED BY <1>2, <1>4, <3>1 DEF CallWeights
  <2> HIDE DEF f, g, n
  <2> QED BY <2>1, <2>2, SumSame
<1>7. PathWeight(p) = SumFunctionOnSet(f, 1 .. n - 1) /\ PathWeight(q) = SumFunctionOnSet(g, 1 .. n - 2)
  <2>1. Len(q) - 1 = n - 2
    BY <1>1, <1>2
  <2> QED BY <2>1, PathWeightIs
<1>8. f[n - 1] = Weight(p[n - 1], p[n])
  BY <1>1 DEF CallWeights
<1>9. q[Len(q)] = p[n - 1]
  BY <1>1, <1>2
<1> QED BY <1>2, <1>5, <1>6, <1>7, <1>8, <1>9

(* A call in front.                                                          *)
LEMMA InFront ==
  ASSUME graph \in Graphs, NEW p \in Seq(Service), Len(p) >= 1, NEW c \in Service
  PROVE  PathWeight(<<c>> \o p) = Weight(c, p[1]) + PathWeight(p)
<1> DEFINE q == <<c>> \o p
           n == Len(p) - 1
           f == CallWeights(q)
           g == CallWeights(p)
<1>1. Len(p) \in Nat /\ n \in Nat
  OBVIOUS
<1>2. /\ q \in Seq(Service) /\ Len(q) = 1 + Len(p)
      /\ \A i \in 1 .. 1 + Len(p) : q[i] = IF i = 1 THEN c ELSE p[i - 1]
  OBVIOUS
<1>3. Len(q) - 1 = n + 1
  BY <1>1, <1>2
<1>4. \A i \in 1 .. n + 1 : f[i] \in Int
  <2>1. \A i \in 1 .. Len(q) - 1 : f[i] \in Nat
    <3> HIDE DEF q
    <3> QED BY <1>2, CallWeightsNat
  <2> HIDE DEF f
  <2> QED BY <1>3, <2>1
<1>5. ASSUME NEW i \in 1 .. n PROVE g[i] = f[i + 1]
  <2>1. i \in 1 .. Len(p) - 1 /\ i + 1 \in 1 .. Len(q) - 1
    BY <1>1, <1>3
  <2>2. q[i + 1] = p[i] /\ q[i + 1 + 1] = p[i + 1]
    BY <1>1, <1>2
  <2> QED BY <2>1, <2>2 DEF CallWeights
<1>6. SumFunctionOnSet(f, 1 .. n + 1) = f[1] + SumFunctionOnSet(g, 1 .. n)
  <2> HIDE DEF f, g, n
  <2> QED BY <1>1, <1>4, <1>5, SumFirst
<1>7. f[1] = Weight(c, p[1])
  <2>1. 1 \in 1 .. Len(q) - 1 /\ q[1] = c /\ q[1 + 1] = p[1]
    BY <1>1, <1>2, <1>3
  <2> QED BY <2>1 DEF CallWeights
<1>8. PathWeight(q) = SumFunctionOnSet(f, 1 .. n + 1) /\ PathWeight(p) = SumFunctionOnSet(g, 1 .. n)
  BY <1>3, PathWeightIs
<1> QED BY <1>6, <1>7, <1>8

-----------------------------------------------------------------------------
(* The heaviest path.                                                      *)

(* The relaxation has taken every path of at most n services into account.   *)
UpTo(n) ==
  \A p \in SimplePaths(Service) : Len(p) <= n => PathWeight(p) <= dist[p[Len(p)]]

(* In this round, those whose last call is from a source already relaxed.    *)
Through(n) ==
  \A p \in SimplePaths(Service) :
    Len(p) > 1 /\ Len(p) <= n /\ p[Len(p) - 1] \notin todo => PathWeight(p) <= dist[p[Len(p)]]

Heaviest == \A p \in SimplePaths(Service) : PathWeight(p) <= total

(* The path walked so far is simple, and sum is its weight.                  *)
Weighed ==
  /\ path # <<>> => IsSimple(path) /\ sum = PathWeight(path)
  /\ path = <<>> => sum = 0

HeavyInv ==
  /\ PathInv /\ round \in Nat /\ Weighed
  /\ pc = "relax" => UpTo(round + 1) /\ Through(round + 2)
  /\ pc # "relax" /\ Endpoints \subseteq graph.nodes => Heaviest
  /\ pc = "found" /\ Acyclic => total <= sum

LEMMA SamePaths ==
  ASSUME UNCHANGED graph
  PROVE  /\ (SimplePaths(Service))' = SimplePaths(Service)
         /\ \A p : (PathWeight(p))' = PathWeight(p)
         /\ Endpoints' = Endpoints /\ Sources(graph)' = Sources(graph)
         /\ Acyclic' <=> Acyclic
         /\ \A s, t : Weight(s, t)' = Weight(s, t)
         /\ IsSimple(path)' <=> IsSimple(path')
         /\ PathWeight(path)' = PathWeight(path')
BY DEF SimplePaths, PathWeight, Weight, Endpoints, Callers, Callees, Sources, Acyclic, IsSimple

(* What the whole call knows of a simple path.                               *)
LEMMA PathFacts ==
  ASSUME PathInv, NEW p \in SimplePaths(Service)
  PROVE  /\ IsSimple(p) /\ Len(p) \in Nat /\ Len(p) >= 1
         /\ p[Len(p)] \in Service /\ dist[p[Len(p)]] \in Nat /\ PathWeight(p) \in Nat
<1>1. IsSimple(p) /\ graph \in Graphs
  BY SimpleIs DEF PathInv
<1>2. p \in Seq(Service) /\ Len(p) \in Nat /\ Len(p) >= 1
  BY <1>1 DEF IsSimple
<1>3. p[Len(p)] \in Service
  BY <1>2
<1> QED BY <1>1, <1>2, <1>3, CallWeightsNat DEF PathInv, Linked

(* One source.                                                               *)
LEMMA RelaxHeavy ==
  ASSUME HeavyInv, NEW s \in Service, RelaxFrom(s)
  PROVE  HeavyInv'
<1>1. PathInv'
  BY StepKeeps DEF HeavyInv, PathStep
<1>2. /\ pc = "relax" /\ todo' = todo \ {s}
      /\ UNCHANGED <<graph, pc, round, cur, path, total, sum>>
      /\ graph \in Graphs /\ Linked /\ round \in Nat
  BY DEF RelaxFrom, HeavyInv, PathInv
<1>3. ASSUME NEW p \in SimplePaths(Service)
      PROVE  /\ Len(p) <= round + 1 => PathWeight(p) <= dist'[p[Len(p)]]
             /\ Len(p) > 1 /\ Len(p) <= round + 2 /\ p[Len(p) - 1] \notin todo'
                  => PathWeight(p) <= dist'[p[Len(p)]]
  <2> DEFINE t == p[Len(p)]
  <2>1. /\ IsSimple(p) /\ Len(p) \in Nat /\ t \in Service /\ dist[t] \in Nat
        /\ PathWeight(p) \in Nat
    BY PathFacts DEF HeavyInv
  <2>2. dist'[t] \in Nat /\ dist[t] <= dist'[t]
        /\ (Weight(s, t) > 0 => dist[s] + Weight(s, t) <= dist'[t])
    BY <1>2, <2>1, RelaxRaises
  <2>3. PathWeight(p) <= dist[t] => PathWeight(p) <= dist'[t]
    <3> HIDE DEF t
    <3> QED BY <2>1, <2>2
  <2>4. Len(p) <= round + 1 => PathWeight(p) <= dist[t]
    BY <1>2 DEF HeavyInv, UpTo
  <2>5. ASSUME Len(p) > 1, Len(p) <= round + 2, p[Len(p) - 1] \notin todo'
        PROVE  PathWeight(p) <= dist'[t]
    <3>1. CASE p[Len(p) - 1] \notin todo
      <4>1. PathWeight(p) <= dist[t]
        BY <1>2, <2>5, <3>1 DEF HeavyInv, Through
      <4> QED BY <2>3, <4>1
    <3>2. CASE p[Len(p) - 1] \in todo
      <4> DEFINE q == SubSeq(p, 1, Len(p) - 1)
      <4>1. p[Len(p) - 1] = s
        BY <1>2, <2>5, <3>2
      <4>2. /\ IsSimple(q) /\ Len(q) = Len(p) - 1 /\ q[Len(q)] = s
            /\ PathWeight(p) = PathWeight(q) + Weight(s, t)
        BY <1>2, <2>1, <2>5, <4>1, ButLast
      <4>3. q \in SimplePaths(Service) /\ Len(q) <= round + 1
        BY <1>2, <2>1, <2>5, <4>2, SimpleIs
      <4>4. PathWeight(q) <= dist[s]
        BY <1>2, <4>2, <4>3 DEF HeavyInv, UpTo
      <4>5. Weight(s, t) > 0
        <5>1. Len(p) - 1 \in 1 .. Len(p) - 1 /\ Len(p) - 1 + 1 = Len(p)
          BY <2>1, <2>5
        <5> QED BY <2>1, <4>1, <5>1 DEF IsSimple
      <4>6. PathWeight(q) \in Nat /\ dist[s] \in Nat /\ Weight(s, t) \in Nat
        <5>1. PathWeight(q) \in Nat
          BY <4>3, PathFacts DEF HeavyInv
        <5>2. Weight(s, t) \in Nat
          BY <1>2, <2>1, GraphTyped DEF Weight
        <5> QED BY <1>2, <5>1, <5>2 DEF Linked
      <4> HIDE DEF q, t
      <4> QED BY <2>2, <4>2, <4>4, <4>5, <4>6
    <3> QED BY <3>1, <3>2
  <2> QED BY <2>3, <2>4, <2>5
<1>4. UpTo(round + 1)' /\ Through(round + 2)'
  BY <1>2, <1>3, SamePaths DEF UpTo, Through
<1>5. path = <<>> /\ sum = 0
  BY <1>2 DEF HeavyInv, PathInv
<1> QED BY <1>1, <1>2, <1>4, <1>5 DEF HeavyInv, Weighed

(* When all sources have been relaxed.                                       *)
LEMMA RoundDone ==
  ASSUME HeavyInv, todo = {}, pc = "relax"
  PROVE  UpTo(round + 2)
<1> SUFFICES ASSUME NEW p \in SimplePaths(Service), Len(p) <= round + 2
             PROVE  PathWeight(p) <= dist[p[Len(p)]]
  BY DEF UpTo
<1>1. Len(p) \in Nat /\ Len(p) >= 1 /\ dist[p[Len(p)]] \in Nat
  BY PathFacts DEF HeavyInv
<1>2. CASE Len(p) = 1
  BY <1>1, <1>2, SingleWeight
<1>3. CASE Len(p) > 1
  BY <1>3 DEF HeavyInv, Through
<1>4. \A n \in Nat : n >= 1 => n = 1 \/ n > 1
  OBVIOUS
<1> QED BY <1>1, <1>2, <1>3, <1>4

LEMMA RoundHeavy == HeavyInv /\ NextRound => HeavyInv'
<1> SUFFICES ASSUME HeavyInv, NextRound PROVE HeavyInv'
  OBVIOUS
<1>1. PathInv'
  BY StepKeeps DEF HeavyInv, PathStep
<1>2. /\ pc = "relax" /\ todo = {} /\ todo' = Sources(graph) /\ round' = round + 1
      /\ UNCHANGED <<graph, pc, dist, prev, cur, path, total, sum>>
      /\ round \in Nat
  BY DEF NextRound, HeavyInv
<1>3. UpTo(round + 2)
  BY <1>2, RoundDone
<1>4. round' + 1 = round + 2
  BY <1>2
<1>5. UpTo(round + 1)'
  BY <1>2, <1>3, <1>4, SamePaths DEF UpTo
<1>6. Through(round + 2)'
  <2> SUFFICES ASSUME NEW p \in SimplePaths(Service), Len(p) > 1,
                      p[Len(p) - 1] \notin Sources(graph)
               PROVE  FALSE
    BY <1>2, SamePaths DEF Through
  <2>1. IsSimple(p) /\ Len(p) \in Nat
    BY PathFacts DEF HeavyInv
  <2>2. Len(p) - 1 \in 1 .. Len(p) - 1 /\ Len(p) - 1 + 1 = Len(p)
    BY <2>1
  <2>3. Weight(p[Len(p) - 1], p[Len(p)]) > 0
    BY <2>1, <2>2 DEF IsSimple
  <2>4. p[Len(p) - 1] \in Service /\ p[Len(p)] \in Service
    BY <2>1, <2>2 DEF IsSimple
  <2> QED BY <2>3, <2>4 DEF Sources, Weight
<1>7. path = <<>> /\ sum = 0
  BY <1>2 DEF HeavyInv, PathInv
<1> QED BY <1>1, <1>2, <1>5, <1>6, <1>7 DEF HeavyInv, Weighed

(* When there were as many rounds as nodes, no path is left.                 *)
LEMMA RoundsEnough ==
  ASSUME HeavyInv, todo = {}, pc = "relax", ~MoreRounds, Endpoints \subseteq graph.nodes,
         NEW p \in SimplePaths(Service)
  PROVE  PathWeight(p) <= dist[p[Len(p)]]
<1>1. IsSimple(p) /\ Len(p) \in Nat /\ p \in Seq(Service) /\ round \in Nat
  BY PathFacts DEF HeavyInv, IsSimple
<1>2. graph.nodes \subseteq Service /\ IsFiniteSet(graph.nodes)
  BY GraphTyped, GraphsAssumption, FS_Subset DEF HeavyInv, PathInv
<1>3. Cardinality(graph.nodes) \in Nat /\ Cardinality(graph.nodes) <= round + 1
  BY <1>1, <1>2, FS_CardinalityType DEF MoreRounds
<1>4. CASE Len(p) <= 1
  <2>1. Len(p) <= round + 2
    BY <1>1, <1>4
  <2> QED BY <2>1, RoundDone DEF UpTo
<1>5. CASE Len(p) > 1
  <2>1. ASSUME NEW i \in 1 .. Len(p) PROVE p[i] \in graph.nodes
    <3>1. p[i] \in Service
      BY <1>1
    <3>2. CASE i = Len(p)
      <4>1. i - 1 \in 1 .. Len(p) - 1 /\ i - 1 + 1 = i
        BY <1>1, <1>5, <3>2
      <4>2. Weight(p[i - 1], p[i]) > 0 /\ p[i - 1] \in Service
        BY <1>1, <4>1 DEF IsSimple
      <4> QED BY <3>1, <4>2 DEF Endpoints, Callers
    <3>3. CASE i # Len(p)
      <4>1. i \in 1 .. Len(p) - 1
        BY <1>1, <3>3
      <4>2. Weight(p[i], p[i + 1]) > 0 /\ p[i + 1] \in Service
        BY <1>1, <4>1 DEF IsSimple
      <4> QED BY <3>1, <4>2 DEF Endpoints, Callees
    <3> QED BY <3>2, <3>3
  <2>2. Len(p) <= Cardinality(graph.nodes)
    BY <1>1, <1>2, <2>1, NoLonger DEF IsSimple
  <2>3. Len(p) <= round + 2
    BY <1>1, <1>3, <2>2
  <2> QED BY <2>3, RoundDone DEF UpTo
<1> QED BY <1>1, <1>4, <1>5

LEMMA PickHeavy == HeavyInv /\ PickBest => HeavyInv'
<1> SUFFICES ASSUME HeavyInv, PickBest PROVE HeavyInv'
  OBVIOUS
<1>1. PathInv'
  BY StepKeeps DEF HeavyInv, PathStep
<1>2. /\ pc = "relax" /\ pc' = "walk" /\ todo = {} /\ ~MoreRounds
      /\ UNCHANGED <<graph, dist, prev, todo, round, path, sum>>
      /\ path = <<>> /\ sum = 0
  BY DEF PickBest, HeavyInv, PathInv
<1>3. PICK b \in Reached : (\A s \in Service : dist[s] <= dist[b]) /\ total' = dist[b]
  BY DEF PickBest
<1>4. ASSUME Endpoints \subseteq graph.nodes, NEW p \in SimplePaths(Service)
      PROVE  PathWeight(p) <= total'
  <2>1. PathWeight(p) <= dist[p[Len(p)]]
    BY <1>2, <1>4, RoundsEnough
  <2>2. dist[p[Len(p)]] <= dist[b] /\ dist[p[Len(p)]] \in Nat /\ PathWeight(p) \in Nat
    BY <1>3, PathFacts DEF HeavyInv
  <2>3. dist[b] \in Nat
    BY DEF Reached, HeavyInv, PathInv, Linked
  <2> QED BY <1>3, <2>1, <2>2, <2>3
<1>5. Endpoints' \subseteq graph'.nodes => Heaviest'
  BY <1>2, <1>4, SamePaths DEF Heaviest
<1> QED BY <1>1, <1>2, <1>5 DEF HeavyInv, Weighed

LEMMA FallbackHeavy == HeavyInv /\ Fallback => HeavyInv'
<1> SUFFICES ASSUME HeavyInv, Fallback PROVE HeavyInv'
  OBVIOUS
<1>1. PathInv'
  BY StepKeeps DEF HeavyInv, PathStep
<1>2. /\ pc = "relax" /\ pc' = "found" /\ todo = {} /\ ~MoreRounds /\ Reached = {}
      /\ UNCHANGED <<graph, dist, prev, todo, round, cur, total, sum>>
      /\ total = 0 /\ sum = 0
  BY DEF Fallback, HeavyInv, PathInv
<1>3. ASSUME Endpoints \subseteq graph.nodes, NEW p \in SimplePaths(Service)
      PROVE  PathWeight(p) <= total
  <2>1. PathWeight(p) <= dist[p[Len(p)]]
    BY <1>2, <1>3, RoundsEnough
  <2>2. p[Len(p)] \in Service /\ dist[p[Len(p)]] \in Nat
    BY PathFacts DEF HeavyInv
  <2>3. dist[p[Len(p)]] = 0
    BY <1>2, <2>2 DEF Reached
  <2> QED BY <1>2, <2>1, <2>3
<1>4. Endpoints' \subseteq graph'.nodes => Heaviest'
  BY <1>2, <1>3, SamePaths DEF Heaviest
<1>5. path' = <<>> \/ \E n \in Service : path' = <<n>>
  <2>1. graph.nodes \subseteq Service
    BY GraphTyped DEF HeavyInv, PathInv
  <2> QED BY <2>1 DEF Fallback
<1>6. ASSUME NEW n \in Service, path' = <<n>> PROVE IsSimple(path') /\ PathWeight(path') = 0
  <2>1. path' \in Seq(Service) /\ Len(path') = 1
    BY <1>6
  <2>2. IsSimple(path')
    BY <2>1 DEF IsSimple
  <2> QED BY <2>1, <2>2, SingleWeight
<1>7. Weighed'
  BY <1>2, <1>5, <1>6, SamePaths DEF Weighed
<1>8. total' <= sum'
  BY <1>2
<1> QED BY <1>1, <1>2, <1>4, <1>7, <1>8 DEF HeavyInv

LEMMA WalkHeavy == HeavyInv /\ Walk => HeavyInv'
<1> SUFFICES ASSUME HeavyInv, Walk PROVE HeavyInv'
  OBVIOUS
<1>1. PathInv'
  BY StepKeeps DEF HeavyInv, PathStep
<1>2. /\ pc = "walk" /\ cur \in Service /\ ~OnPath(cur) /\ path' = <<cur>> \o path
      /\ sum' = IF path = <<>> THEN 0 ELSE sum + Weight(cur, path[1])
      /\ UNCHANGED <<graph, pc, dist, prev, todo, round, total>>
      /\ path \in Seq(Service) /\ graph \in Graphs /\ total > 0
  BY DEF Walk, HeavyInv, PathInv
<1>3. /\ Len(path) \in Nat /\ path' \in Seq(Service) /\ Len(path') = 1 + Len(path)
      /\ \A i \in 1 .. 1 + Len(path) : path'[i] = IF i = 1 THEN cur ELSE path[i - 1]
      /\ path' # <<>>
  BY <1>2
<1>4. \A i \in 1 .. Len(path') - 1 : Weight(path'[i], path'[i + 1]) > 0
  <2>1. Walked'
    BY <1>1, <1>2, <1>3 DEF PathInv
  <2> QED BY <1>2, <2>1 DEF Walked, Weight
<1>5. ASSUME NEW i \in 1 .. Len(path'), NEW j \in 1 .. Len(path'), i # j
      PROVE  path'[i] # path'[j]
  <2>1. ASSUME NEW k \in 1 .. Len(path), NEW l \in 1 .. Len(path), k # l
        PROVE  path[k] # path[l]
    <3>1. path # <<>>
      BY <1>3, <2>1
    <3> QED BY <2>1, <3>1 DEF HeavyInv, Weighed, IsSimple
  <2>2. \A k \in 1 .. Len(path) : path[k] # cur
    BY <1>2 DEF OnPath
  <2>3. CASE i # 1 /\ j # 1
    <3>1. i - 1 \in 1 .. Len(path) /\ j - 1 \in 1 .. Len(path) /\ i - 1 # j - 1
      BY <1>3, <1>5, <2>3
    <3> QED BY <1>3, <2>1, <2>3, <3>1
  <2>4. CASE i = 1
    <3>1. j - 1 \in 1 .. Len(path) /\ path'[i] = cur /\ path'[j] = path[j - 1]
      BY <1>3, <1>5, <2>4
    <3> QED BY <2>2, <3>1
  <2>5. CASE j = 1
    <3>1. i - 1 \in 1 .. Len(path) /\ path'[j] = cur /\ path'[i] = path[i - 1]
      BY <1>3, <1>5, <2>5
    <3> QED BY <2>2, <3>1
  <2> QED BY <2>3, <2>4, <2>5
<1>6. IsSimple(path')
  BY <1>3, <1>4, <1>5 DEF IsSimple
<1>7. sum' = PathWeight(path')
  <2>1. CASE path = <<>>
    <3>1. Len(path') = 1
      BY <1>3, <2>1
    <3> QED BY <1>2, <2>1, <3>1, SingleWeight
  <2>2. CASE path # <<>>
    <3>1. Len(path) >= 1
      BY <1>2, <2>2
    <3>2. PathWeight(path') = Weight(cur, path[1]) + PathWeight(path)
      BY <1>2, <3>1, InFront
    <3>3. sum = PathWeight(path) /\ sum \in Nat
      BY <2>2 DEF HeavyInv, Weighed, PathInv
    <3>4. Weight(cur, path[1]) \in Nat
      <4>1. path[1] \in Service
        BY <1>2, <3>1
      <4> QED BY <1>2, <4>1, GraphTyped DEF Weight
    <3> QED BY <1>2, <2>2, <3>2, <3>3, <3>4
  <2> QED BY <2>1, <2>2
<1>8. Weighed'
  BY <1>2, <1>3, <1>6, <1>7, SamePaths DEF Weighed
<1>9. Endpoints' \subseteq graph'.nodes => Heaviest'
  BY <1>2, SamePaths DEF HeavyInv, Heaviest
<1> QED BY <1>1, <1>2, <1>8, <1>9 DEF HeavyInv

(* A walk that ends on itself has gone around a cycle.                       *)
LEMMA WalkEndsHeavy == HeavyInv /\ WalkEnds => HeavyInv'
<1> SUFFICES ASSUME HeavyInv, WalkEnds PROVE HeavyInv'
  OBVIOUS
<1>1. PathInv'
  BY StepKeeps DEF HeavyInv, PathStep
<1>2. /\ pc = "walk" /\ pc' = "found" /\ (cur = None \/ OnPath(cur))
      /\ UNCHANGED <<graph, dist, prev, todo, round, cur, path, total, sum>>
      /\ path \in Seq(Service) /\ total > 0 /\ total \in Nat /\ sum \in Nat
  BY DEF WalkEnds, HeavyInv, PathInv
<1>3. path # <<>>
  BY <1>2 DEF HeavyInv, PathInv, OnPath
<1>4. Walked /\ cur = prev[path[1]] /\ IsSimple(path) /\ path[1] \in Service
  BY <1>2, <1>3 DEF HeavyInv, Weighed, PathInv, Walked
<1>5. ASSUME Acyclic PROVE total <= sum
  <2>1. CASE cur = None
    <3>1. dist[path[1]] = 0
      BY <1>4, <2>1 DEF HeavyInv, PathInv, Linked
    <3> QED BY <1>2, <1>4, <3>1 DEF Walked
  <2>2. CASE cur # None
    <3>1. PICK k \in 1 .. Len(path) : path[k] = cur
      BY <1>2, <2>2 DEF OnPath
    <3> DEFINE q == SubSeq(path, 1, k)
    <3>2. IsSimple(q) /\ Len(q) = k /\ \A i \in 1 .. k : q[i] = path[i]
      BY <1>4, <3>1, Prefix
    <3>3. k \in Nat /\ k >= 1
      BY <1>2
    <3>4. q[1] = path[1] /\ q[Len(q)] = cur
      BY <3>1, <3>2, <3>3
    <3>5. q \in SimplePaths({path[1]})
      BY <1>4, <3>2, <3>4, SimpleIs
    <3>6. Weight(cur, path[1]) = 0
      BY <1>4, <1>5, <3>4, <3>5 DEF Acyclic
    <3>7. Weight(cur, path[1]) > 0
      BY <1>4, <2>2 DEF HeavyInv, PathInv, Linked
    <3> QED BY <3>6, <3>7
  <2> QED BY <2>1, <2>2
<1>6. Weighed'
  BY <1>2, <1>3, SamePaths DEF HeavyInv, Weighed
<1>7. Endpoints' \subseteq graph'.nodes => Heaviest'
  BY <1>2, SamePaths DEF HeavyInv, Heaviest
<1>8. Acyclic' => total' <= sum'
  BY <1>2, <1>5, SamePaths
<1> QED BY <1>1, <1>2, <1>6, <1>7, <1>8 DEF HeavyInv

(* A call before its first round.                                            *)
LEMMA InitHeavy == Init => HeavyInv
<1> SUFFICES ASSUME Init PROVE HeavyInv
  OBVIOUS
<1>1. PathInv
  BY Fresh
<1>2. /\ pc = (IF graph.nodes = {} THEN "found" ELSE "relax")
      /\ dist = [s \in Service |-> 0] /\ todo = Sources(graph) /\ round = 0
      /\ path = <<>> /\ total = 0 /\ sum = 0
  BY DEF Init
<1>3. ASSUME NEW p \in SimplePaths(Service), Len(p) <= 1
      PROVE  PathWeight(p) = 0 /\ dist[p[Len(p)]] = 0
  <2>a. Len(p) \in Nat /\ Len(p) >= 1 /\ p[Len(p)] \in Service
    BY <1>1, PathFacts
  <2>b. \A n \in Nat : n >= 1 /\ n <= 1 => n = 1
    OBVIOUS
  <2>1. Len(p) = 1 /\ p[Len(p)] \in Service
    BY <1>3, <2>a, <2>b
  <2> QED BY <1>2, <2>1, SingleWeight
<1>4. ASSUME NEW p \in SimplePaths(Service), Len(p) > 1
      PROVE  p[Len(p) - 1] \in Sources(graph) /\ p[Len(p) - 1] \in Endpoints
  <2>1. IsSimple(p) /\ Len(p) \in Nat
    BY <1>1, PathFacts
  <2>2. Len(p) - 1 \in 1 .. Len(p) - 1 /\ Len(p) - 1 + 1 = Len(p)
    BY <1>4, <2>1
  <2>3. Weight(p[Len(p) - 1], p[Len(p)]) > 0
    BY <2>1, <2>2 DEF IsSimple
  <2>4. p[Len(p) - 1] \in Service /\ p[Len(p)] \in Service
    BY <2>1, <2>2 DEF IsSimple
  <2> QED BY <2>3, <2>4 DEF Sources, Weight, Endpoints, Callees
<1>5. \A p \in SimplePaths(Service) : Len(p) <= 1 \/ Len(p) > 1
  BY <1>1, PathFacts
<1>6. UpTo(round + 1) /\ Through(round + 2)
  <2>1. round + 1 = 1
    BY <1>2
  <2>2. UpTo(1)
    BY <1>3 DEF UpTo
  <2>3. Through(round + 2)
    BY <1>2, <1>4 DEF Through
  <2> QED BY <2>1, <2>2, <2>3
<1>7. pc # "relax" /\ Endpoints \subseteq graph.nodes => Heaviest
  <2> SUFFICES ASSUME pc # "relax", Endpoints \subseteq graph.nodes, NEW p \in SimplePaths(Service)
               PROVE  PathWeight(p) <= total
    BY DEF Heaviest
  <2>1. Endpoints = {}
    BY <1>2
  <2>2. Len(p) <= 1
    BY <1>4, <1>5, <2>1
  <2> QED BY <1>2, <1>3, <2>2
<1>8. Weighed /\ total <= sum /\ round \in Nat
  BY <1>2 DEF Weighed
<1> QED BY <1>1, <1>6, <1>7, <1>8 DEF HeavyInv

LEMMA PathStepHeavy == HeavyInv /\ PathStep => HeavyInv'
BY RelaxHeavy, RoundHeavy, PickHeavy, FallbackHeavy, WalkHeavy, WalkEndsHeavy DEF PathStep

(* Where no call closes a cycle and every service that calls or is called is *)
(* a node, the path reported is a heaviest one, its weight the one reported, *)
(* for every number of services and every order of the maps.                 *)
THEOREM PathIsHeaviest == Spec => []HeaviestPath
<1> DEFINE Inv == graph \in Graphs /\ (stage = "snapshot" => HeavyInv)
<1>1. AnalysisInit => Inv
  BY InitHeavy DEF AnalysisInit, HeavyInv, PathInv, Init
<1>2. Inv /\ [Next]_vars => Inv'
  <2> SUFFICES ASSUME Inv, [Next]_vars PROVE Inv'
    OBVIOUS
  <2>1. CASE Snapshot
    <3>1. HeavyInv'
      BY <2>1, PathStepHeavy DEF Snapshot
    <3> QED BY <3>1 DEF HeavyInv, PathInv
  <2>2. CASE ReadWindows \/ Solve \/ Report
    <3>1. graph' = graph /\ stage' # "snapshot"
      BY <2>2 DEF ReadWindows, Solve, Report
    <3> QED BY <3>1
  <2>3. CASE NextTick
    <3>1. Init'
      BY <2>3 DEF NextTick, Begin, Init
    <3>2. (Init => HeavyInv)'
      BY InitHeavy, PTL
    <3>3. HeavyInv'
      BY <3>1, <3>2
    <3> QED BY <3>3 DEF HeavyInv, PathInv
  <2>4. CASE UNCHANGED vars
    <3>1. UNCHANGED <<graph, pathVars, stage>>
      BY <2>4 DEF vars
    <3>2. HeavyInv => HeavyInv'
      <4>1. PathInv => PathInv'
        <5>1. Walked => Walked'
          BY <3>1 DEF pathVars, Walked, Weight
        <5> QED BY <3>1, <5>1, LinkedStays DEF pathVars, PathInv
      <4>2. /\ UpTo(round + 1) => UpTo(round + 1)'
            /\ Through(round + 2) => Through(round + 2)'
            /\ Heaviest => Heaviest'
            /\ Weighed => Weighed'
        BY <3>1, SamePaths DEF pathVars, UpTo, Through, Heaviest, Weighed
      <4> QED BY <3>1, <4>1, <4>2, SamePaths DEF pathVars, HeavyInv
    <3> QED BY <3>1, <3>2
  <2> QED BY <2>1, <2>2, <2>3, <2>4 DEF Next
<1>3. Inv => HeaviestPath
  <2> SUFFICES ASSUME HeavyInv, pc = "found", Acyclic, Endpoints \subseteq graph.nodes
               PROVE  total = sum /\ \A p \in SimplePaths(Service) : PathWeight(p) <= total
    BY DEF HeaviestPath
  <2>1. Heaviest /\ total <= sum /\ total \in Nat /\ sum \in Nat
    BY DEF HeavyInv, PathInv
  <2>2. sum <= total
    <3>1. CASE path = <<>>
      BY <2>1, <3>1 DEF HeavyInv, Weighed
    <3>2. CASE path # <<>>
      <4>1. path \in SimplePaths(Service) /\ sum = PathWeight(path)
        BY <3>2, SimpleIs DEF HeavyInv, Weighed
      <4> QED BY <2>1, <4>1 DEF Heaviest
    <3> QED BY <3>1, <3>2
  <2> QED BY <2>1, <2>2 DEF Heaviest
<1> QED
  <2> HIDE DEF Inv
  <2> QED BY <1>1, <1>2, <1>3, PTL DEF Spec

-----------------------------------------------------------------------------
(* Maxima.                                                                 *)

LEMMA MaxBounded ==
  ASSUME NEW S \in SUBSET Nat, S # {}, NEW b \in Nat, \A x \in S : x <= b
  PROVE  Max(S) \in S /\ \A x \in S : x <= Max(S)
<1>1. \E x \in S : \A y \in S : x >= y
  <2> SUFFICES ASSUME \A x \in S : \E y \in S : ~(x >= y) PROVE FALSE
    OBVIOUS
  <2> DEFINE T == {k \in Nat : \E x \in S : x >= k}
  <2>1. 0 \in T
    <3>1. PICK x \in S : TRUE
      OBVIOUS
    <3>2. x \in Nat /\ x >= 0
      OBVIOUS
    <3> QED BY <3>2
  <2>2. ASSUME NEW k \in Nat, k \in T PROVE k + 1 \in T
    <3>1. PICK x \in S : x >= k
      BY <2>2
    <3>2. PICK y \in S : ~(x >= y)
      OBVIOUS
    <3>3. y >= k + 1
      BY <3>1, <3>2
    <3> QED BY <3>3
  <2>3. b + 1 \in T
    <3> HIDE DEF T
    <3> QED BY <2>1, <2>2, NatSetInduction
  <2>4. PICK x \in S : x >= b + 1
    BY <2>3
  <2> QED BY <2>4
<1>2. Max(S) \in S /\ \A y \in S : Max(S) >= y
  BY <1>1 DEF Max
<1> QED BY <1>2

(* The highest value of a map over a finite set.                             *)
LEMMA MaxOver ==
  ASSUME NEW D, IsFiniteSet(D), NEW f, \A x \in D : f[x] \in Nat, NEW n \in Nat
  PROVE  LET m == Max({n} \cup {f[x] : x \in D})
         IN  /\ m \in Nat /\ n <= m /\ \A x \in D : f[x] <= m
             /\ m = n \/ \E x \in D : m = f[x]
<1> DEFINE S == {n} \cup {f[x] : x \in D}
           b == n + SumFunctionOnSet(f, D)
<1>1. SumFunctionOnSet(f, D) \in Nat /\ \A x \in D : f[x] <= SumFunctionOnSet(f, D)
  BY SumNat
<1>2. S \in SUBSET Nat /\ S # {} /\ n \in S /\ \A x \in D : f[x] \in S
  OBVIOUS
<1>3. b \in Nat /\ \A y \in S : y <= b
  BY <1>1
<1>4. \A y \in S : y = n \/ \E x \in D : y = f[x]
  OBVIOUS
<1> HIDE DEF S, b
<1>5. Max(S) \in S /\ \A y \in S : y <= Max(S)
  BY <1>2, <1>3, MaxBounded
<1> QED BY <1>2, <1>4, <1>5 DEF S

-----------------------------------------------------------------------------
(* The pressure.                                                           *)

Pressed == [Service -> 0 .. 2 * P]

(* A service's own pressure comes from its window.                           *)
LEMMA OwnIs ==
  ASSUME NEW wins, Given(wins)
  PROVE  /\ Own(wins) \in Pressed
         /\ \A s \in Service : /\ Own(wins)[s] <= P
                               /\ Own(wins)[s] > 0 => s \in DOMAIN wins /\ wins[s].rate > 0
<1> DEFINE rate == [s \in DOMAIN wins |-> wins[s].rate]
           m == Max({1} \cup {wins[s].rate : s \in DOMAIN wins})
<1>1. \A s \in DOMAIN wins : rate[s] \in Nat /\ wins[s].rate = rate[s]
  BY DEF Given
<1>2. {wins[s].rate : s \in DOMAIN wins} = {rate[s] : s \in DOMAIN wins}
  BY <1>1
<1>3. m \in Nat /\ 1 <= m /\ \A s \in DOMAIN wins : rate[s] <= m
  <2> HIDE DEF rate
  <2> QED BY <1>1, <1>2, MaxOver DEF Given
<1>4. Own(wins) = [s \in Service |-> IF s \in DOMAIN wins THEN (P * wins[s].rate) \div m ELSE 0]
  BY DEF Own
<1>5. P \in Nat \ {0}
  BY CouplingAssumption
<1> HIDE DEF m, rate
<1>6. ASSUME NEW s \in Service
      PROVE  /\ Own(wins)[s] \in Nat /\ Own(wins)[s] <= P
             /\ Own(wins)[s] > 0 => s \in DOMAIN wins /\ wins[s].rate > 0
  <2>1. CASE s \in DOMAIN wins
    <3> DEFINE r == wins[s].rate
               x == P * r
    <3>1. r \in Nat /\ r <= m /\ m \in Nat \ {0} /\ Own(wins)[s] = x \div m
      BY <1>1, <1>3, <1>4, <2>1
    <3> HIDE DEF r
    <3>2. x \in Int /\ 0 * m <= x /\ x <= P * m
      BY <1>5, <3>1
    <3>3. r = 0 => x <= 0 * m
      BY <1>5, <3>1
    <3> HIDE DEF x
    <3>4. x \div m \in Int /\ 0 <= x \div m /\ x \div m <= P /\ (r = 0 => x \div m <= 0)
      BY <1>5, <3>1, <3>2, <3>3, DivBounds
    <3> QED BY <2>1, <3>1, <3>4 DEF r
  <2>2. CASE s \notin DOMAIN wins
    BY <1>4, <1>5, <2>2
  <2> QED BY <2>1, <2>2
<1>7. Own(wins) \in Pressed
  <2>1. \A s \in Service : Own(wins)[s] \in 0 .. 2 * P
    BY <1>5, <1>6
  <2>2. Own(wins) = [s \in Service |-> Own(wins)[s]]
    BY <1>4
  <2> QED BY <2>1, <2>2 DEF Pressed
<1> QED BY <1>6, <1>7

(* What one call of the least weight leaves.                                 *)
Passed(x) == (6 * x) \div (40 * MaxWeight)

LEMMA PassedLess ==
  ASSUME NEW x \in Nat
  PROVE  /\ Passed(x) \in Nat /\ Passed(x) <= x
         /\ \A y \in Nat : x <= y => Passed(x) <= Passed(y)
         /\ Passed(0) = 0
<1> DEFINE d == 40 * MaxWeight
<1>1. d \in Nat \ {0} /\ d >= 40
  BY GraphsAssumption
<1> HIDE DEF d
<1>2. 6 * x \in Nat /\ 0 * d <= 6 * x /\ 6 * x <= x * d
  <2>1. x * d >= x * 40
    BY <1>1
  <2> QED BY <1>1, <2>1
<1>3. (6 * x) \div d \in Nat /\ (6 * x) \div d <= x
  BY <1>1, <1>2, DivBounds
<1>4. ASSUME NEW y \in Nat, x <= y PROVE (6 * x) \div d <= (6 * y) \div d
  BY <1>1, <1>4, DivMonotone
<1>5. (6 * 0) \div d = 0
  <2>1. 0 \div d <= 0 /\ 0 <= 0 \div d /\ 0 \div d \in Int
    BY <1>1, DivBounds
  <2> QED BY <2>1
<1> QED BY <1>3, <1>4, <1>5 DEF d, Passed

(* One round: no pressure falls; it rises only with a caller that has some,  *)
(* and by at least what a call of the least weight leaves of a caller's.     *)
LEMMA SpreadIs ==
  ASSUME graph \in Graphs, NEW p \in Pressed
  PROVE  /\ Spread(p) \in Pressed
         /\ \A s \in Service :
              /\ p[s] <= Spread(p)[s]
              /\ p[s] < Spread(p)[s] => \E c \in Callers(s) : p[c] > 0
              /\ \A c \in Callers(s) : Floor(p[s] + Passed(p[c]), 2 * P) <= Spread(p)[s]
<1>1. P \in Nat \ {0} /\ 2 * P \in Nat
  BY CouplingAssumption
<1>2. ASSUME NEW s \in Service
      PROVE  /\ Spread(p)[s] \in 0 .. 2 * P /\ p[s] <= Spread(p)[s]
             /\ p[s] < Spread(p)[s] => \E c \in Callers(s) : p[c] > 0
             /\ \A c \in Callers(s) : Floor(p[s] + Passed(p[c]), 2 * P) <= Spread(p)[s]
  <2> DEFINE f == [c \in Callers(s) |-> p[c] * Weight(c, s)]
             i == Incoming(p, s)
  <2>1. p[s] \in 0 .. 2 * P /\ p[s] \in Nat
    BY DEF Pressed
  <2>2. CASE Callers(s) = {}
    <3>1. Spread(p)[s] = p[s]
      BY <2>2 DEF Spread
    <3> QED BY <2>1, <2>2, <3>1
  <2>3. CASE Callers(s) # {}
    <3>1. Spread(p)[s] = Floor(p[s] + Passed(i), 2 * P)
      BY <2>3 DEF Spread, Passed
    <3>2. IsFiniteSet(Callers(s)) /\ Callers(s) \subseteq Service
      <4>1. Callers(s) \subseteq Service
        BY DEF Callers
      <4> QED BY <4>1, GraphsAssumption, FS_Subset
    <3>3. ASSUME NEW c \in Callers(s)
          PROVE  f[c] \in Nat /\ p[c] \in Nat /\ p[c] <= f[c] /\ (p[c] = 0 => f[c] = 0)
      <4> DEFINE a == p[c]
                 w == Weight(c, s)
      <4>1. a \in Nat /\ w \in Nat /\ w > 0
        BY <1>1, <3>2, GraphTyped DEF Pressed, Callers, Weight
      <4>2. f[c] = a * w
        OBVIOUS
      <4> HIDE DEF a, w
      <4>3. a * w \in Nat /\ a <= a * w /\ (a = 0 => a * w = 0)
        BY <4>1
      <4> QED BY <4>1, <4>2, <4>3 DEF a
    <3>4. i = SumFunctionOnSet(f, Callers(s))
      BY DEF Incoming, SumFunction
    <3> HIDE DEF f
    <3>5. i \in Nat /\ \A c \in Callers(s) : f[c] <= i
      BY <3>2, <3>3, <3>4, SumNat
    <3>6. (\A c \in Callers(s) : p[c] = 0) => i = 0
      <4> SUFFICES ASSUME \A c \in Callers(s) : p[c] = 0 PROVE i = 0
        OBVIOUS
      <4>1. \A c \in Callers(s) : f[c] \in Int /\ f[c] <= 0
        BY <3>3
      <4>2. SumFunctionOnSet(f, Callers(s)) <= 0 * Cardinality(Callers(s))
        BY <3>2, <4>1, SumBound
      <4>3. Cardinality(Callers(s)) \in Nat
        BY <3>2, FS_CardinalityType
      <4> QED BY <3>4, <3>5, <4>2, <4>3
    <3> HIDE DEF i
    <3>7. Passed(i) \in Nat /\ (i = 0 => Passed(i) = 0)
      BY <3>5, PassedLess
    <3>8. ASSUME NEW c \in Callers(s) PROVE Passed(p[c]) \in Nat /\ Passed(p[c]) <= Passed(i)
      <4>1. p[c] \in Nat /\ p[c] <= i
        BY <3>3, <3>5
      <4> QED BY <3>5, <4>1, PassedLess
    <3>9. Spread(p)[s] \in 0 .. 2 * P /\ p[s] <= Spread(p)[s]
      BY <1>1, <2>1, <3>1, <3>7 DEF Floor
    <3>10. ASSUME p[s] < Spread(p)[s] PROVE \E c \in Callers(s) : p[c] > 0
      <4>1. i # 0
        BY <1>1, <2>1, <3>1, <3>7, <3>10 DEF Floor
      <4> QED BY <3>3, <3>6, <4>1
    <3>11. ASSUME NEW c \in Callers(s) PROVE Floor(p[s] + Passed(p[c]), 2 * P) <= Spread(p)[s]
      BY <1>1, <2>1, <3>1, <3>7, <3>8 DEF Floor
    <3> QED BY <3>9, <3>10, <3>11
  <2> QED BY <2>2, <2>3
<1>3. Spread(p) \in Pressed
  <2>1. Spread(p) = [s \in Service |-> Spread(p)[s]]
    BY DEF Spread
  <2> QED BY <1>2, <2>1 DEF Pressed
<1> QED BY <1>2, <1>3

(* The rounds.                                                               *)
LEMMA PressuresAre ==
  ASSUME NEW wins, Given(wins)
  PROVE  /\ Pressures(wins)[0] = Own(wins)
         /\ \A k \in Nat : /\ Pressures(wins)[k] \in Pressed
                           /\ Pressures(wins)[k + 1] = Spread(Pressures(wins)[k])
<1> DEFINE G == [p \in Pressed |-> Spread(p)]
           Is(f) == f = [k \in Nat |-> IF k = 0 THEN Own(wins) ELSE Spread(f[k - 1])]
<1>1. graph \in Graphs
  BY DEF Given
<1>2. G \in [Pressed -> Pressed]
  BY <1>1, SpreadIs
<1>3. Own(wins) \in Pressed
  BY OwnIs
<1>4. PICK f \in [Nat -> Pressed] : f[0] = Own(wins) /\ \A k \in Nat : f[k + 1] = G[f[k]]
  <2> HIDE DEF G
  <2> QED BY <1>2, <1>3, Recursion
<1>5. ASSUME NEW k \in Nat PROVE f[k] = IF k = 0 THEN Own(wins) ELSE Spread(f[k - 1])
  <2>1. CASE k = 0
    BY <1>4, <2>1
  <2>2. CASE k # 0
    <3>1. k - 1 \in Nat /\ (k - 1) + 1 = k
      BY <2>2
    <3>2. f[k] = G[f[k - 1]] /\ f[k - 1] \in Pressed
      BY <1>4, <3>1
    <3> QED BY <2>2, <3>2
  <2> QED BY <2>1, <2>2
<1>6. Is(f)
  <2>1. f = [k \in Nat |-> f[k]]
    BY <1>4
  <2> QED BY <1>5, <2>1
<1>7. Pressures(wins) = CHOOSE g : Is(g)
  BY Zenon DEF Pressures
<1>8. Is(Pressures(wins))
  <2> HIDE DEF Is
  <2> QED BY <1>6, <1>7
<1> DEFINE h == Pressures(wins)
<1> HIDE DEF h, G
<1>9. h = [k \in Nat |-> IF k = 0 THEN Own(wins) ELSE Spread(h[k - 1])]
  BY <1>8 DEF h
<1>10. h[0] = Own(wins)
  BY <1>9
<1>11. ASSUME NEW k \in Nat PROVE h[k + 1] = Spread(h[k])
  <2>1. k + 1 \in Nat /\ k + 1 # 0 /\ (k + 1) - 1 = k
    OBVIOUS
  <2> QED BY <1>9, <2>1
<1> DEFINE T == {k \in Nat : h[k] \in Pressed}
<1>12. Nat \subseteq T
  <2>1. 0 \in T
    BY <1>3, <1>10
  <2>2. ASSUME NEW k \in Nat, k \in T PROVE k + 1 \in T
    <3>1. h[k] \in Pressed
      BY <2>2
    <3> QED BY <1>1, <1>11, <3>1, SpreadIs
  <2> HIDE DEF T
  <2> QED BY <2>1, <2>2, NatSetInduction
<1>13. \A k \in Nat : h[k] \in Pressed
  BY <1>12
<1> QED BY <1>10, <1>11, <1>13 DEF h

(* No round lowers a pressure.                                               *)
LEMMA PressuresRise ==
  ASSUME NEW wins, Given(wins), NEW s \in Service, NEW n \in Nat
  PROVE  \A k \in 0 .. n : Pressures(wins)[k][s] <= Pressures(wins)[n][s]
<1> DEFINE f == Pressures(wins)
           T == {m \in Nat : \A k \in 0 .. m : f[k][s] <= f[m][s]}
<1>1. \A k \in Nat : f[k] \in Pressed /\ f[k][s] \in Nat /\ f[k][s] <= f[k + 1][s]
  <2>1. ASSUME NEW k \in Nat
        PROVE  f[k] \in Pressed /\ f[k][s] \in Nat /\ f[k][s] <= f[k + 1][s]
    <3>1. f[k] \in Pressed /\ f[k + 1] = Spread(f[k]) /\ graph \in Graphs
      BY PressuresAre DEF Given
    <3> HIDE DEF f
    <3>2. f[k][s] \in Nat
      BY <3>1, CouplingAssumption DEF Pressed
    <3>3. f[k][s] <= Spread(f[k])[s]
      BY <3>1, SpreadIs
    <3> QED BY <3>1, <3>2, <3>3
  <2> QED BY <2>1
<1> HIDE DEF f
<1>2. 0 \in T
  BY <1>1
<1>3. ASSUME NEW m \in Nat, m \in T PROVE m + 1 \in T
  <2>1. ASSUME NEW k \in 0 .. m + 1 PROVE f[k][s] <= f[m + 1][s]
    <3>1. CASE k = m + 1
      <4>1. f[m + 1][s] \in Nat
        BY <1>1
      <4> QED BY <3>1, <4>1
    <3>2. CASE k # m + 1
      <4>1. k \in 0 .. m
        BY <3>2
      <4>2. f[k][s] <= f[m][s] /\ f[m][s] <= f[m + 1][s]
        BY <1>1, <1>3, <4>1
      <4>3. f[k][s] \in Nat /\ f[m][s] \in Nat /\ f[m + 1][s] \in Nat
        BY <1>1, <4>1
      <4> QED BY <4>2, <4>3
    <3> QED BY <3>1, <3>2
  <2> QED BY <2>1
<1>4. n \in T
  <2> HIDE DEF T
  <2> QED BY <1>2, <1>3, NatSetInduction
<1> QED BY <1>4 DEF f

(* How long a pressure lasts on its way.                                     *)
LEMMA FadingIs ==
  ASSUME NEW x \in Nat
  PROVE  /\ Fading(x)[0] = x
         /\ \A k \in Nat : /\ Fading(x)[k] \in Nat /\ Fading(x)[k] <= x
                           /\ Fading(x)[k + 1] = Passed(Fading(x)[k])
                           /\ Fading(x)[k + 1] <= Fading(x)[k]
<1> DEFINE G == [y \in Nat |-> Passed(y)]
           Is(f) == f = [k \in Nat |-> IF k = 0 THEN x ELSE (6 * f[k - 1]) \div (40 * MaxWeight)]
<1>1. G \in [Nat -> Nat]
  BY PassedLess
<1>2. PICK f \in [Nat -> Nat] : f[0] = x /\ \A k \in Nat : f[k + 1] = G[f[k]]
  <2> DEFINE N == Nat
             y == x
  <2>1. y \in N /\ G \in [N -> N]
    BY <1>1
  <2> HIDE DEF N, G, y
  <2>2. \E f \in [Nat -> N] : f[0] = y /\ \A k \in Nat : f[k + 1] = G[f[k]]
    BY <2>1, Recursion
  <2> QED BY <2>2 DEF N, y
<1>3. ASSUME NEW k \in Nat PROVE f[k] = IF k = 0 THEN x ELSE Passed(f[k - 1])
  <2>1. CASE k = 0
    BY <1>2, <2>1
  <2>2. CASE k # 0
    <3>1. k - 1 \in Nat /\ (k - 1) + 1 = k
      BY <2>2
    <3>2. f[k] = G[f[k - 1]] /\ f[k - 1] \in Nat
      BY <1>2, <3>1
    <3> QED BY <2>2, <3>2
  <2> QED BY <2>1, <2>2
<1>4. Is(f)
  <2>1. f = [k \in Nat |-> f[k]]
    BY <1>2
  <2>2. f = [k \in Nat |-> IF k = 0 THEN x ELSE Passed(f[k - 1])]
    BY <1>3, <2>1
  <2> QED BY <2>2 DEF Passed
<1>5. Fading(x) = CHOOSE g : Is(g)
  BY Zenon DEF Fading
<1>6. Is(Fading(x))
  <2> HIDE DEF Is
  <2> QED BY <1>4, <1>5
<1> DEFINE h == Fading(x)
<1> HIDE DEF h, G
<1>7. h = [k \in Nat |-> IF k = 0 THEN x ELSE Passed(h[k - 1])]
  BY <1>6 DEF h, Passed
<1>8. h[0] = x
  BY <1>7
<1>9. ASSUME NEW k \in Nat PROVE h[k + 1] = Passed(h[k])
  <2>1. k + 1 \in Nat /\ k + 1 # 0 /\ (k + 1) - 1 = k
    OBVIOUS
  <2> QED BY <1>7, <2>1
<1> DEFINE T == {k \in Nat : h[k] \in Nat /\ h[k] <= x}
<1>10. Nat \subseteq T
  <2>1. 0 \in T
    BY <1>8
  <2>2. ASSUME NEW k \in Nat, k \in T PROVE k + 1 \in T
    <3>1. h[k] \in Nat /\ h[k] <= x /\ h[k + 1] = Passed(h[k])
      BY <1>9, <2>2
    <3>2. Passed(h[k]) \in Nat /\ Passed(h[k]) <= h[k]
      BY <3>1, PassedLess
    <3> QED BY <3>1, <3>2
  <2> HIDE DEF T
  <2> QED BY <2>1, <2>2, NatSetInduction
<1>11. ASSUME NEW k \in Nat
       PROVE  /\ h[k] \in Nat /\ h[k] <= x
              /\ h[k + 1] = Passed(h[k]) /\ h[k + 1] <= h[k]
  <2>1. h[k] \in Nat /\ h[k] <= x /\ h[k + 1] = Passed(h[k])
    BY <1>9, <1>10
  <2> QED BY <2>1, PassedLess
<1> QED BY <1>8, <1>11 DEF h

(* Lasting n calls, it lasts fewer.                                          *)
LEMMA FadingLasts ==
  ASSUME NEW x \in Nat, NEW n \in Nat, Fading(x)[n] > 0
  PROVE  \A k \in 0 .. n : Fading(x)[k] > 0
<1> DEFINE f == Fading(x)
           T == {m \in Nat : m <= n => f[n - m] > 0}
<1>1. \A k \in Nat : f[k] \in Nat /\ f[k + 1] <= f[k]
  BY FadingIs
<1> HIDE DEF f
<1>2. 0 \in T
  BY DEF f
<1>3. ASSUME NEW m \in Nat, m \in T PROVE m + 1 \in T
  <2> SUFFICES ASSUME m + 1 <= n PROVE f[n - (m + 1)] > 0
    OBVIOUS
  <2>1. n - (m + 1) \in Nat /\ (n - (m + 1)) + 1 = n - m /\ n - m \in Nat
    OBVIOUS
  <2>2. f[n - m] > 0 /\ f[n - m] <= f[n - (m + 1)] /\ f[n - m] \in Nat /\ f[n - (m + 1)] \in Nat
    BY <1>1, <1>3, <2>1
  <2> QED BY <2>2
<1>4. Nat \subseteq T
  <2> HIDE DEF T
  <2> QED BY <1>2, <1>3, NatSetInduction
<1>5. ASSUME NEW k \in 0 .. n PROVE f[k] > 0
  <2>1. n - k \in Nat /\ n - k <= n /\ n - (n - k) = k
    OBVIOUS
  <2>2. n - k \in T
    BY <1>4, <2>1
  <2> QED BY <2>1, <2>2
<1> QED BY <1>5 DEF f

-----------------------------------------------------------------------------
(* The pressure follows the calls.                                         *)

(* One more call.                                                            *)
LEMMA OneMore ==
  ASSUME NEW p, IsSimple(p), NEW s \in Service, Weight(p[Len(p)], s) > 0,
         \A i \in 1 .. Len(p) : p[i] # s
  PROVE  LET q == Append(p, s)
         IN  /\ IsSimple(q) /\ Len(q) = Len(p) + 1 /\ q[Len(q)] = s /\ q[1] = p[1]
             /\ \A i \in 1 .. Len(p) : q[i] = p[i]
<1> DEFINE q == Append(p, s)
           n == Len(p)
<1>1. p \in Seq(Service) /\ n \in Nat /\ n >= 1
  BY DEF IsSimple
<1>2. q \in Seq(Service) /\ Len(q) = n + 1 /\ q[n + 1] = s /\ \A i \in 1 .. n : q[i] = p[i]
  BY <1>1
<1> HIDE DEF q
<1>3. ASSUME NEW i \in 1 .. n + 1, NEW j \in 1 .. n + 1, i # j PROVE q[i] # q[j]
  <2>1. CASE i = n + 1
    <3>1. j \in 1 .. n
      BY <1>1, <1>3, <2>1
    <3> QED BY <1>2, <2>1, <3>1
  <2>2. CASE j = n + 1
    <3>1. i \in 1 .. n
      BY <1>1, <1>3, <2>2
    <3> QED BY <1>2, <2>2, <3>1
  <2>3. CASE i # n + 1 /\ j # n + 1
    <3>1. i \in 1 .. n /\ j \in 1 .. n
      BY <1>1, <2>3
    <3>2. p[i] # p[j]
      BY <1>3, <3>1 DEF IsSimple
    <3> QED BY <1>2, <3>1, <3>2
  <2> QED BY <2>1, <2>2, <2>3
<1>4. ASSUME NEW i \in 1 .. n PROVE Weight(q[i], q[i + 1]) > 0
  <2>1. CASE i = n
    <3>1. q[i] = p[n] /\ q[i + 1] = s
      BY <1>1, <1>2, <2>1
    <3> QED BY <3>1
  <2>2. CASE i # n
    <3>1. i \in 1 .. n - 1 /\ i + 1 \in 1 .. n
      BY <1>1, <2>2
    <3>2. q[i] = p[i] /\ q[i + 1] = p[i + 1]
      BY <1>2, <3>1
    <3>3. Weight(p[i], p[i + 1]) > 0
      BY <3>1 DEF IsSimple
    <3> QED BY <3>2, <3>3
  <2> QED BY <2>1, <2>2
<1>5. IsSimple(q)
  <2>1. Len(q) - 1 = n
    BY <1>1, <1>2
  <2>2. \A i, j \in 1 .. Len(q) : i # j => q[i] # q[j]
    BY <1>2, <1>3
  <2>3. \A i \in 1 .. Len(q) - 1 : Weight(q[i], q[i + 1]) > 0
    BY <1>4, <2>1
  <2> QED BY <1>1, <1>2, <2>2, <2>3 DEF IsSimple
<1>6. q[1] = p[1] /\ q[Len(q)] = s
  BY <1>1, <1>2
<1> QED BY <1>2, <1>5, <1>6 DEF q

(* Traffic comes to s along at most n calls.                                 *)
Fed(wins, s, n) ==
  \E p : /\ IsSimple(p) /\ p[1] \in DOMAIN wins /\ wins[p[1]].rate > 0
         /\ p[Len(p)] = s /\ Len(p) <= n + 1

(* A service that has pressure is fed by then.                               *)
LEMMA PressureFed ==
  ASSUME NEW wins, Given(wins)
  PROVE  \A k \in Nat : \A s \in Service : Pressures(wins)[k][s] > 0 => Fed(wins, s, k)
<1> DEFINE f == Pressures(wins)
           T == {k \in Nat : \A s \in Service : f[k][s] > 0 => Fed(wins, s, k)}
<1>1. f[0] = Own(wins) /\ \A k \in Nat : f[k] \in Pressed /\ f[k + 1] = Spread(f[k])
  BY PressuresAre
<1> HIDE DEF f
<1>2. 0 \in T
  <2> SUFFICES ASSUME NEW s \in Service, f[0][s] > 0 PROVE Fed(wins, s, 0)
    OBVIOUS
  <2>1. s \in DOMAIN wins /\ wins[s].rate > 0
    BY <1>1, OwnIs
  <2> DEFINE p == <<s>>
  <2>2. p \in Seq(Service) /\ Len(p) = 1 /\ p[1] = s /\ p[Len(p)] = s
    OBVIOUS
  <2> HIDE DEF p
  <2>3. IsSimple(p)
    BY <2>2 DEF IsSimple
  <2>4. /\ IsSimple(p) /\ p[1] \in DOMAIN wins /\ wins[p[1]].rate > 0
        /\ p[Len(p)] = s /\ Len(p) <= 0 + 1
    BY <2>1, <2>2, <2>3
  <2> QED BY <2>4 DEF Fed
<1>3. ASSUME NEW k \in Nat, k \in T PROVE k + 1 \in T
  <2> SUFFICES ASSUME NEW s \in Service, f[k + 1][s] > 0 PROVE Fed(wins, s, k + 1)
    OBVIOUS
  <2>1. f[k] \in Pressed /\ f[k][s] \in Nat /\ graph \in Graphs
    BY <1>1, CouplingAssumption DEF Pressed, Given
  <2>2. CASE f[k][s] > 0
    <3>1. Fed(wins, s, k)
      BY <1>3, <2>2
    <3>2. PICK p : /\ IsSimple(p) /\ p[1] \in DOMAIN wins /\ wins[p[1]].rate > 0
                   /\ p[Len(p)] = s /\ Len(p) <= k + 1
      BY <3>1 DEF Fed
    <3>3. Len(p) <= (k + 1) + 1
      BY <3>2 DEF IsSimple
    <3> QED BY <3>2, <3>3 DEF Fed
  <2>3. CASE ~(f[k][s] > 0)
    <3>1. f[k][s] < f[k + 1][s]
      BY <2>1, <2>3
    <3>2. PICK c \in Callers(s) : f[k][c] > 0
      BY <1>1, <2>1, <3>1, SpreadIs
    <3>3. c \in Service /\ Weight(c, s) > 0
      BY DEF Callers
    <3>4. Fed(wins, c, k)
      BY <1>3, <3>2, <3>3
    <3>5. PICK p : /\ IsSimple(p) /\ p[1] \in DOMAIN wins /\ wins[p[1]].rate > 0
                   /\ p[Len(p)] = c /\ Len(p) <= k + 1
      BY <3>4 DEF Fed
    <3>6. Len(p) \in Nat /\ p \in Seq(Service)
      BY <3>5 DEF IsSimple
    <3>7. CASE \A i \in 1 .. Len(p) : p[i] # s
      <4> DEFINE q == Append(p, s)
      <4>1. IsSimple(q) /\ Len(q) = Len(p) + 1 /\ q[Len(q)] = s /\ q[1] = p[1]
        BY <3>3, <3>5, <3>7, OneMore
      <4> HIDE DEF q
      <4> QED BY <3>5, <3>6, <4>1 DEF Fed
    <3>8. ASSUME NEW i \in 1 .. Len(p), p[i] = s PROVE Fed(wins, s, k + 1)
      <4> DEFINE q == SubSeq(p, 1, i)
      <4>1. IsSimple(q) /\ Len(q) = i /\ \A j \in 1 .. i : q[j] = p[j]
        BY <3>5, Prefix
      <4> HIDE DEF q
      <4>2. q[1] = p[1] /\ q[Len(q)] = s /\ Len(q) <= (k + 1) + 1
        BY <3>5, <3>6, <3>8, <4>1
      <4> QED BY <3>5, <4>1, <4>2 DEF Fed
    <3> QED BY <3>7, <3>8
  <2> QED BY <2>2, <2>3
<1>4. Nat \subseteq T
  <2> HIDE DEF T
  <2> QED BY <1>2, <1>3, NatSetInduction
<1> QED BY <1>4 DEF f

(* More than its own pressure comes to a service in some round.              *)
LEMMA RisesSomewhere ==
  ASSUME NEW wins, Given(wins), NEW s \in Service, NEW n \in Nat,
         Pressures(wins)[n][s] > Own(wins)[s]
  PROVE  \E j \in 0 .. n - 1 : Pressures(wins)[j][s] < Pressures(wins)[j + 1][s]
<1> DEFINE f == Pressures(wins)
           T == {m \in Nat : m <= n => f[m][s] <= f[0][s]}
<1>1. f[0] = Own(wins) /\ \A k \in Nat : f[k][s] \in Nat
  <2>1. ASSUME NEW k \in Nat PROVE f[k][s] \in Nat
    <3>1. f[k] \in Pressed
      BY PressuresAre
    <3> HIDE DEF f
    <3> QED BY <3>1, CouplingAssumption DEF Pressed
  <2> QED BY <2>1, PressuresAre
<1> SUFFICES ASSUME \A j \in 0 .. n - 1 : ~(f[j][s] < f[j + 1][s]) PROVE FALSE
  OBVIOUS
<1>2. f[n][s] > f[0][s]
  BY <1>1
<1> HIDE DEF f
<1>3. 0 \in T
  BY <1>1
<1>4. ASSUME NEW m \in Nat, m \in T PROVE m + 1 \in T
  <2> SUFFICES ASSUME m + 1 <= n PROVE f[m + 1][s] <= f[0][s]
    OBVIOUS
  <2>1. m \in 0 .. n - 1 /\ f[m][s] <= f[0][s]
    BY <1>4
  <2>2. ~(f[m][s] < f[m + 1][s])
    BY <2>1
  <2>3. f[m][s] \in Nat /\ f[m + 1][s] \in Nat /\ f[0][s] \in Nat
    BY <1>1
  <2> QED BY <2>1, <2>2, <2>3
<1>5. n \in T
  <2> HIDE DEF T
  <2> QED BY <1>3, <1>4, NatSetInduction
<1>6. f[n][s] \in Nat /\ f[0][s] \in Nat
  BY <1>1
<1> QED BY <1>2, <1>5, <1>6

LEMMA PressureReaches ==
  ASSUME Given(windows), NEW s \in Service, NEW n \in Nat,
         Pressures(windows)[n][s] > Own(windows)[s]
  PROVE  TrafficReaches(s, n)
<1> DEFINE f == Pressures(windows)
<1>1. PICK j \in 0 .. n - 1 : f[j][s] < f[j + 1][s]
  BY RisesSomewhere
<1>2. j \in Nat /\ j + 1 <= n
  OBVIOUS
<1>3. f[j] \in Pressed /\ f[j + 1] = Spread(f[j]) /\ graph \in Graphs /\ DOMAIN windows \subseteq Service
  BY <1>2, PressuresAre DEF Given
<1>4. PICK c \in Callers(s) : f[j][c] > 0
  <2> HIDE DEF f
  <2> QED BY <1>1, <1>3, SpreadIs
<1>5. c \in Service /\ Weight(c, s) > 0
  BY DEF Callers
<1>6. Fed(windows, c, j)
  BY <1>2, <1>4, <1>5, PressureFed
<1>7. PICK p : /\ IsSimple(p) /\ p[1] \in DOMAIN windows /\ windows[p[1]].rate > 0
               /\ p[Len(p)] = c /\ Len(p) <= j + 1
  BY <1>6 DEF Fed
<1>8. Len(p) \in Nat /\ Len(p) >= 1 /\ p \in Seq(Service)
  BY <1>7 DEF IsSimple
<1> HIDE DEF f
<1>9. CASE \A i \in 1 .. Len(p) : p[i] # s
  <2> DEFINE q == Append(p, s)
  <2>1. IsSimple(q) /\ Len(q) = Len(p) + 1 /\ q[Len(q)] = s /\ q[1] = p[1]
    BY <1>5, <1>7, <1>9, OneMore
  <2> HIDE DEF q
  <2>2. q \in SimplePaths(DOMAIN windows)
    BY <1>3, <1>7, <2>1, SimpleIs
  <2>3. Len(q) \in 2 .. n + 1
    BY <1>2, <1>7, <1>8, <2>1
  <2>4. windows[q[1]].rate > 0
    BY <1>7, <2>1
  <2> QED BY <2>1, <2>2, <2>3, <2>4 DEF TrafficReaches
<1>10. ASSUME NEW i \in 1 .. Len(p), p[i] = s, i # 1 PROVE TrafficReaches(s, n)
  <2> DEFINE q == SubSeq(p, 1, i)
  <2>1. IsSimple(q) /\ Len(q) = i /\ \A k \in 1 .. i : q[k] = p[k]
    BY <1>7, Prefix
  <2> HIDE DEF q
  <2>2. q[1] = p[1] /\ q[Len(q)] = s /\ Len(q) \in 2 .. n + 1
    BY <1>2, <1>7, <1>8, <1>10, <2>1
  <2>3. q \in SimplePaths(DOMAIN windows)
    BY <1>3, <1>7, <2>1, <2>2, SimpleIs
  <2>4. windows[q[1]].rate > 0
    BY <1>7, <2>2
  <2> QED BY <2>2, <2>3, <2>4 DEF TrafficReaches
<1>11. CASE p[1] = s
  <2>1. p \in SimplePaths(DOMAIN windows)
    BY <1>3, <1>7, SimpleIs
  <2>2. Weight(p[Len(p)], s) > 0 /\ Len(p) <= n
    BY <1>2, <1>5, <1>7, <1>8
  <2> QED BY <1>7, <1>11, <2>1, <2>2 DEF TrafficReaches
<1> QED BY <1>9, <1>10, <1>11

(* Along a path every service has at least what the calls so far leave of    *)
(* the first one's pressure.                                                 *)
LEMMA Along ==
  ASSUME NEW wins, Given(wins), NEW p, IsSimple(p), NEW x \in Nat, x = Own(wins)[p[1]]
  PROVE  \A k \in Nat : k + 1 <= Len(p) => Fading(x)[k] <= Pressures(wins)[k][p[k + 1]]
<1> DEFINE f == Pressures(wins)
           g == Fading(x)
           T == {k \in Nat : k + 1 <= Len(p) => g[k] <= f[k][p[k + 1]]}
<1>1. /\ f[0] = Own(wins) /\ graph \in Graphs
      /\ \A k \in Nat : f[k] \in Pressed /\ f[k + 1] = Spread(f[k])
  BY PressuresAre DEF Given
<1>2. g[0] = x /\ \A k \in Nat : g[k] \in Nat /\ g[k] <= x /\ g[k + 1] = Passed(g[k])
  BY FadingIs
<1>3. P \in Nat \ {0} /\ x <= P /\ p \in Seq(Service) /\ Len(p) \in Nat
  BY CouplingAssumption, OwnIs DEF IsSimple
<1> HIDE DEF f, g
<1>4. 0 \in T
  BY <1>1, <1>2
<1>5. ASSUME NEW k \in Nat, k \in T PROVE k + 1 \in T
  <2> SUFFICES ASSUME (k + 1) + 1 <= Len(p) PROVE g[k + 1] <= f[k + 1][p[(k + 1) + 1]]
    OBVIOUS
  <2> DEFINE c == p[k + 1]
             t == p[(k + 1) + 1]
  <2>1. k + 1 \in 1 .. Len(p) - 1 /\ (k + 1) + 1 \in 1 .. Len(p) /\ k + 1 \in 1 .. Len(p)
    BY <1>3
  <2>2. c \in Service /\ t \in Service
    BY <1>3, <2>1
  <2>3. Weight(c, t) > 0
    BY <2>1 DEF IsSimple
  <2>4. g[k] <= f[k][c]
    BY <1>5, <2>1
  <2> HIDE DEF c, t
  <2>5. c \in Callers(t)
    BY <2>2, <2>3 DEF Callers
  <2>6. f[k] \in Pressed /\ f[k + 1] = Spread(f[k])
    BY <1>1
  <2>7. Floor(f[k][t] + Passed(f[k][c]), 2 * P) <= f[k + 1][t] /\ f[k + 1][t] \in Nat
    <3>1. Spread(f[k]) \in Pressed
      BY <1>1, <2>6, SpreadIs
    <3>2. Floor(f[k][t] + Passed(f[k][c]), 2 * P) <= Spread(f[k])[t]
      BY <1>1, <2>2, <2>5, <2>6, SpreadIs
    <3>3. Spread(f[k])[t] \in Nat
      BY <1>3, <2>2, <3>1 DEF Pressed
    <3> QED BY <2>6, <3>2, <3>3
  <2>8. f[k][t] \in Nat /\ f[k][c] \in Nat
    BY <1>3, <2>2, <2>6 DEF Pressed
  <2>9. Passed(g[k]) <= Passed(f[k][c]) /\ Passed(f[k][c]) \in Nat /\ Passed(g[k]) \in Nat
    BY <1>2, <2>4, <2>8, PassedLess
  <2>10. g[k + 1] = Passed(g[k]) /\ Passed(g[k]) <= P
    <3>1. k + 1 \in Nat
      OBVIOUS
    <3>2. g[k + 1] <= x /\ g[k + 1] = Passed(g[k])
      BY <1>2, <3>1
    <3> QED BY <1>3, <2>9, <3>2
  <2> DEFINE a == f[k][t]
             b == Passed(f[k][c])
             d == Passed(g[k])
  <2>11. a \in Nat /\ b \in Nat /\ d \in Nat /\ d <= b /\ d <= P
    BY <2>8, <2>9, <2>10
  <2> HIDE DEF a, b, d
  <2>12. d <= Floor(a + b, 2 * P)
    BY <1>3, <2>11 DEF Floor
  <2>13. Floor(a + b, 2 * P) \in Nat
    BY <1>3, <2>11 DEF Floor
  <2>14. g[k + 1] = d /\ Floor(a + b, 2 * P) <= f[k + 1][t] /\ f[k + 1][t] \in Nat
    BY <2>7, <2>10 DEF a, b, d
  <2>15. g[k + 1] <= f[k + 1][t]
    BY <2>11, <2>12, <2>13, <2>14
  <2> QED BY <2>15 DEF t
<1>6. Nat \subseteq T
  <2> HIDE DEF T
  <2> QED BY <1>4, <1>5, NatSetInduction
<1> QED BY <1>6 DEF f, g

(* A caller whose pressure leaves something gives a service more than its    *)
(* own, from the next round on.                                              *)
LEMMA LastCall ==
  ASSUME NEW wins, Given(wins), NEW s \in Service, NEW c \in Callers(s), NEW k \in Nat, NEW n \in Nat,
         k + 1 <= n, NEW y \in Nat, y <= Pressures(wins)[k][c], Passed(y) > 0
  PROVE  Pressures(wins)[n][s] > Own(wins)[s]
<1> DEFINE f == Pressures(wins)
<1>1. /\ f[0] = Own(wins) /\ f[k] \in Pressed /\ f[k + 1] = Spread(f[k])
      /\ f[n] \in Pressed /\ f[k + 1] \in Pressed /\ graph \in Graphs
  BY PressuresAre DEF Given
<1>2. P \in Nat \ {0} /\ Own(wins)[s] <= P /\ Own(wins) \in Pressed
  BY CouplingAssumption, OwnIs
<1>3. f[0][s] <= f[k][s] /\ f[k + 1][s] <= f[n][s]
  BY PressuresRise
<1> HIDE DEF f
<1>4. c \in Service
  BY DEF Callers
<1>5. /\ Own(wins)[s] \in Nat /\ f[k][s] \in Nat /\ f[k][c] \in Nat
      /\ f[k + 1][s] \in Nat /\ f[n][s] \in Nat
  BY <1>1, <1>2, <1>4 DEF Pressed
<1>6. Floor(f[k][s] + Passed(f[k][c]), 2 * P) <= f[k + 1][s]
  BY <1>1, SpreadIs
<1>7. Passed(f[k][c]) \in Nat /\ Passed(f[k][c]) > 0
  <2>1. Passed(y) <= Passed(f[k][c]) /\ Passed(y) \in Nat /\ Passed(f[k][c]) \in Nat
    BY <1>5, PassedLess DEF f
  <2> QED BY <2>1
<1>8. Own(wins)[s] < f[k + 1][s]
  BY <1>1, <1>2, <1>3, <1>5, <1>6, <1>7 DEF Floor
<1> QED BY <1>3, <1>5, <1>8 DEF f

LEMMA ReachesPressure ==
  ASSUME Given(windows), windows \in Windows, NEW s \in Service,
         NEW n \in Nat, n <= Floor(Cardinality(Service), MaxRounds), TrafficReaches(s, n)
  PROVE  Pressures(windows)[n][s] > Own(windows)[s]
<1> DEFINE f == Pressures(windows)
           m == Floor(Cardinality(Service), MaxRounds)
<1>1. PICK p \in SimplePaths(DOMAIN windows) :
        /\ windows[p[1]].rate > 0
        /\ \/ p[Len(p)] = s /\ Len(p) \in 2 .. n + 1
           \/ p[1] = s /\ Weight(p[Len(p)], s) > 0 /\ Len(p) <= n
  BY DEF TrafficReaches
<1>2. IsSimple(p) /\ p[1] \in DOMAIN windows /\ p[1] \in Service
  BY SimpleIs DEF Given
<1>3. p \in Seq(Service) /\ Len(p) \in Nat /\ Len(p) >= 1
  BY <1>2 DEF IsSimple
<1> DEFINE x == Own(windows)[p[1]]
<1>4. x \in Nat
  BY <1>2, OwnIs, CouplingAssumption DEF Pressed
<1>5. m \in Nat
  BY GraphsAssumption, FS_CardinalityType, CouplingAssumption DEF Floor
<1>6. Fading(x)[m] > 0
  BY <1>1, <1>2, FadingAssumption
<1> HIDE DEF x, m
<1>7. \A k \in 0 .. m : Fading(x)[k] > 0
  BY <1>4, <1>5, <1>6, FadingLasts
<1>8. \A k \in Nat : k + 1 <= Len(p) => Fading(x)[k] <= f[k][p[k + 1]]
  <2>1. x = Own(windows)[p[1]]
    BY DEF x
  <2> QED BY <1>2, <1>4, <2>1, Along
<1> HIDE DEF f
<1>9. ASSUME NEW k \in Nat, k + 1 <= n, k + 1 <= Len(p), p[k + 1] \in Callers(s)
      PROVE  f[n][s] > Own(windows)[s]
  <2>1. Fading(x)[k] \in Nat /\ Fading(x)[k + 1] = Passed(Fading(x)[k])
    BY <1>4, FadingIs
  <2>2. k + 1 \in 0 .. m
    BY <1>5, <1>9 DEF m
  <2>3. Passed(Fading(x)[k]) > 0 /\ Fading(x)[k] <= f[k][p[k + 1]]
    BY <1>7, <1>8, <1>9, <2>1, <2>2
  <2> QED BY <1>9, <2>1, <2>3, LastCall DEF f
<1>10. CASE p[Len(p)] = s /\ Len(p) \in 2 .. n + 1
  <2> DEFINE k == Len(p) - 2
  <2>1. k \in Nat /\ k + 1 = Len(p) - 1 /\ k + 1 <= n /\ k + 1 <= Len(p) /\ k + 1 \in 1 .. Len(p) - 1
        /\ (k + 1) + 1 = Len(p)
    BY <1>3, <1>10
  <2>2. Weight(p[k + 1], p[(k + 1) + 1]) > 0
    BY <1>2, <2>1 DEF IsSimple
  <2> HIDE DEF k
  <2>3. p[k + 1] \in Callers(s)
    <3>1. p[k + 1] \in Service /\ p[(k + 1) + 1] = s
      BY <1>3, <1>10, <2>1
    <3> QED BY <2>2, <3>1 DEF Callers
  <2> QED BY <1>9, <2>1, <2>3 DEF f
<1>11. CASE p[1] = s /\ Weight(p[Len(p)], s) > 0 /\ Len(p) <= n
  <2> DEFINE k == Len(p) - 1
  <2>1. k \in Nat /\ k + 1 = Len(p) /\ k + 1 <= n /\ k + 1 <= Len(p)
    BY <1>3, <1>11
  <2> HIDE DEF k
  <2>2. p[k + 1] \in Callers(s)
    <3>1. p[k + 1] \in Service /\ Weight(p[k + 1], s) > 0
      BY <1>3, <1>11, <2>1
    <3> QED BY <3>1 DEF Callers
  <2> QED BY <1>9, <2>1, <2>2 DEF f
<1> QED BY <1>1, <1>10, <1>11 DEF f
-----------------------------------------------------------------------------
(* The length of the longest chain of callers.                             *)

Heights == [SUBSET Service -> [Service -> Nat]]

\* One more hop above each service.
Above(v) ==
  [seen \in SUBSET Service |-> [t \in Service |->
    IF t \in seen THEN 0 ELSE Max({0} \cup {1 + v[seen \cup {t}][c] : c \in Callers(t)})]]

LEMMA AboveIs ==
  ASSUME NEW v \in Heights
  PROVE  /\ Above(v) \in Heights
         /\ \A seen \in SUBSET Service : \A t \in Service :
              /\ t \in seen => Above(v)[seen][t] = 0
              /\ t \notin seen =>
                   /\ \A c \in Callers(t) : 1 + v[seen \cup {t}][c] <= Above(v)[seen][t]
                   /\ \/ Above(v)[seen][t] = 0
                      \/ \E c \in Callers(t) : Above(v)[seen][t] = 1 + v[seen \cup {t}][c]
<1> DEFINE M(seen, t) == Max({0} \cup {1 + v[seen \cup {t}][c] : c \in Callers(t)})
           a == Above(v)
<1>1. ASSUME NEW seen \in SUBSET Service, NEW t \in Service
      PROVE  /\ M(seen, t) \in Nat /\ \A c \in Callers(t) : 1 + v[seen \cup {t}][c] <= M(seen, t)
             /\ M(seen, t) = 0 \/ \E c \in Callers(t) : M(seen, t) = 1 + v[seen \cup {t}][c]
  <2> DEFINE D == Callers(t)
             w == v[seen \cup {t}]
             f == [c \in D |-> 1 + w[c]]
             m == Max({0} \cup {f[c] : c \in D})
  <2>1. D \subseteq Service /\ IsFiniteSet(D)
    BY GraphsAssumption, FS_Subset DEF Callers
  <2>2. w \in [Service -> Nat]
    <3>1. seen \cup {t} \in SUBSET Service
      OBVIOUS
    <3> QED BY <3>1 DEF Heights
  <2> HIDE DEF D, w
  <2>3. \A c \in D : f[c] \in Nat /\ f[c] = 1 + w[c]
    BY <2>1, <2>2
  <2>4. {f[c] : c \in D} = {1 + w[c] : c \in D}
    BY <2>3
  <2> HIDE DEF f
  <2>5. m \in Nat /\ (\A c \in D : f[c] <= m) /\ (m = 0 \/ \E c \in D : m = f[c])
    <3>1. \A c \in D : f[c] \in Nat
      BY <2>3
    <3>2. 0 \in Nat
      OBVIOUS
    <3> HIDE DEF m
    <3> QED BY <2>1, <3>1, <3>2, MaxOver, Zenon DEF m
  <2>6. m = M(seen, t)
    BY <2>4 DEF D, w
  <2> HIDE DEF m, M
  <2>7. (\A c \in D : 1 + w[c] <= m) /\ (m = 0 \/ \E c \in D : m = 1 + w[c])
    BY <2>3, <2>5
  <2> QED BY <2>5, <2>6, <2>7 DEF D, w
<1>2. a = [seen \in SUBSET Service |-> [t \in Service |-> IF t \in seen THEN 0 ELSE M(seen, t)]]
  BY DEF Above
<1> HIDE DEF M, a
<1>3. ASSUME NEW seen \in SUBSET Service, NEW t \in Service
      PROVE  a[seen][t] = IF t \in seen THEN 0 ELSE M(seen, t)
  BY <1>2
<1>4. a \in Heights
  BY <1>1, <1>2 DEF Heights
<1>5. ASSUME NEW seen \in SUBSET Service, NEW t \in Service
      PROVE  /\ t \in seen => a[seen][t] = 0
             /\ t \notin seen =>
                  /\ \A c \in Callers(t) : 1 + v[seen \cup {t}][c] <= a[seen][t]
                  /\ a[seen][t] = 0 \/ \E c \in Callers(t) : a[seen][t] = 1 + v[seen \cup {t}][c]
  <2>1. CASE t \in seen
    BY <1>3, <2>1
  <2>2. CASE t \notin seen
    <3>1. a[seen][t] = M(seen, t)
      BY <1>3, <2>2
    <3> QED BY <1>1, <2>2, <3>1
  <2> QED BY <2>1, <2>2
<1> QED BY <1>4, <1>5 DEF a

LEMMA UpstreamAre ==
  /\ \A seen \in SUBSET Service, t \in Service : Upstream[0][seen][t] = 0
  /\ \A k \in Nat : Upstream[k] \in Heights /\ Upstream[k + 1] = Above(Upstream[k])
<1> DEFINE Zero == [seen \in SUBSET Service |-> [t \in Service |-> 0]]
           G == [v \in Heights |-> Above(v)]
           Hops(k, v) ==
             [seen \in SUBSET Service |-> [t \in Service |->
               IF k = 0 \/ t \in seen THEN 0
               ELSE Max({0} \cup {1 + v[seen \cup {t}][c] : c \in Callers(t)})]]
           Is(f) == f = [k \in Nat |-> Hops(k, f[k - 1])]
<1>1. G \in [Heights -> Heights]
  BY AboveIs
<1>2. Zero \in Heights
  BY DEF Heights
<1>3. PICK f \in [Nat -> Heights] : f[0] = Zero /\ \A k \in Nat : f[k + 1] = G[f[k]]
  <2> HIDE DEF G, Zero
  <2> QED BY <1>1, <1>2, Recursion
<1>4. \A v : Hops(0, v) = Zero
  OBVIOUS
<1>5. \A v : \A k \in Nat : k # 0 => Hops(k, v) = Above(v)
  BY DEF Above
<1>6. ASSUME NEW k \in Nat PROVE f[k] = Hops(k, f[k - 1])
  <2> HIDE DEF Hops, Zero
  <2>1. CASE k = 0
    BY <1>3, <1>4, <2>1
  <2>2. CASE k # 0
    <3>1. k - 1 \in Nat /\ (k - 1) + 1 = k
      BY <2>2
    <3>2. f[k] = G[f[k - 1]] /\ f[k - 1] \in Heights
      BY <1>3, <3>1
    <3> QED BY <1>5, <2>2, <3>2
  <2> QED BY <2>1, <2>2
<1>7. Is(f)
  <2> HIDE DEF Hops
  <2>1. f = [k \in Nat |-> f[k]]
    BY <1>3
  <2> QED BY <1>6, <2>1
<1>8. Upstream = CHOOSE g : Is(g)
  BY Zenon DEF Upstream
<1>9. Is(Upstream)
  <2> HIDE DEF Is
  <2> QED BY <1>7, <1>8
<1> DEFINE h == Upstream
<1> HIDE DEF h, G, Hops, Zero
<1>10. \A k \in Nat : h[k] = Hops(k, h[k - 1])
  BY <1>9 DEF h
<1>11. h[0] = Zero
  BY <1>4, <1>10
<1>12. ASSUME NEW k \in Nat PROVE h[k + 1] = Above(h[k])
  <2>1. k + 1 \in Nat /\ k + 1 # 0 /\ (k + 1) - 1 = k
    OBVIOUS
  <2> QED BY <1>5, <1>10, <2>1
<1> DEFINE T == {k \in Nat : h[k] \in Heights}
<1>13. Nat \subseteq T
  <2>1. 0 \in T
    BY <1>2, <1>11
  <2>2. ASSUME NEW k \in Nat, k \in T PROVE k + 1 \in T
    <3>1. h[k] \in Heights
      BY <2>2
    <3> QED BY <1>12, <3>1, AboveIs
  <2> HIDE DEF T
  <2> QED BY <2>1, <2>2, NatSetInduction
<1>14. \A seen \in SUBSET Service, t \in Service : h[0][seen][t] = 0
  BY <1>11 DEF Zero
<1> QED BY <1>12, <1>13, <1>14 DEF h
(* A chain of callers that ends at t and avoids the services seen, the calls *)
(* it counts, and the call that closes it: from a service seen or its own.   *)
Chain(p, seen, t) == IsSimple(p) /\ p[Len(p)] = t /\ \A i \in 1 .. Len(p) : p[i] \notin seen
Closes(p, seen) == \E c \in Callers(p[1]) : c \in seen \/ \E i \in 1 .. Len(p) : p[i] = c
CallsIn(p, seen) == Len(p) - (IF Closes(p, seen) THEN 0 ELSE 1)

LEMMA CallsInIs ==
  ASSUME NEW p, NEW seen, IsSimple(p)
  PROVE  CallsIn(p, seen) \in Nat /\ CallsIn(p, seen) <= Len(p)
BY DEF CallsIn, IsSimple

(* The chain of one service.                                                 *)
LEMMA Alone ==
  ASSUME NEW t \in Service, NEW seen \in SUBSET Service, t \notin seen
  PROVE  \E p : /\ Chain(p, seen, t) /\ Len(p) = 1
                /\ (\E c \in Callers(t) : c \in seen \cup {t}) => CallsIn(p, seen) = 1
<1> DEFINE p == <<t>>
<1>1. p \in Seq(Service) /\ Len(p) = 1 /\ p[1] = t /\ p[Len(p)] = t /\ \A i \in 1 .. Len(p) : p[i] = t
  OBVIOUS
<1> HIDE DEF p
<1>2. IsSimple(p)
  BY <1>1 DEF IsSimple
<1>3. Chain(p, seen, t)
  BY <1>1, <1>2 DEF Chain
<1>4. ASSUME NEW c \in Callers(t), c \in seen \cup {t} PROVE CallsIn(p, seen) = 1
  <2>1. 1 \in 1 .. Len(p)
    BY <1>1
  <2>2. Closes(p, seen)
    BY <1>1, <1>4, <2>1 DEF Closes
  <2> QED BY <1>1, <2>2 DEF CallsIn
<1> QED BY <1>1, <1>3, <1>4

(* One more service at the end of a chain is one more call.                  *)
LEMMA ChainGrows ==
  ASSUME NEW t \in Service, NEW seen \in SUBSET Service, NEW p, NEW q,
         IsSimple(p), IsSimple(q), Len(p) = Len(q) + 1, p[Len(p)] = t,
         \A i \in 1 .. Len(q) : p[i] = q[i]
  PROVE  CallsIn(p, seen) = CallsIn(q, seen \cup {t}) + 1
<1>1. Len(q) \in Nat /\ Len(q) >= 1 /\ 1 \in 1 .. Len(q) /\ p[1] = q[1]
  BY DEF IsSimple
<1>2. ASSUME NEW c
      PROVE  (c \in seen \/ \E i \in 1 .. Len(p) : p[i] = c)
               <=> (c \in seen \cup {t} \/ \E i \in 1 .. Len(q) : q[i] = c)
  <2>1. ASSUME NEW i \in 1 .. Len(p), p[i] = c
        PROVE  c = t \/ \E j \in 1 .. Len(q) : q[j] = c
    <3>1. CASE i = Len(p)
      BY <2>1, <3>1
    <3>2. CASE i # Len(p)
      <4>1. i \in 1 .. Len(q)
        BY <1>1, <3>2
      <4> QED BY <2>1, <4>1
    <3> QED BY <3>1, <3>2
  <2>2. ASSUME NEW j \in 1 .. Len(q), q[j] = c
        PROVE  \E i \in 1 .. Len(p) : p[i] = c
    <3>1. j \in 1 .. Len(p)
      BY <1>1
    <3> QED BY <2>2, <3>1
  <2>3. Len(p) \in 1 .. Len(p)
    BY <1>1
  <2> QED BY <2>1, <2>2, <2>3
<1>3. Closes(p, seen) <=> Closes(q, seen \cup {t})
  BY <1>1, <1>2 DEF Closes
<1> QED BY <1>1, <1>3 DEF CallsIn

(* A chain of several services comes from a chain to one of the callers.     *)
LEMMA ChainEnds ==
  ASSUME NEW t \in Service, NEW seen \in SUBSET Service, NEW p, Chain(p, seen, t), Len(p) > 1
  PROVE  \E c \in Callers(t) : \E q :
           /\ c \notin seen \cup {t} /\ Chain(q, seen \cup {t}, c)
           /\ CallsIn(p, seen) = CallsIn(q, seen \cup {t}) + 1
<1>1. IsSimple(p) /\ p \in Seq(Service) /\ Len(p) \in Nat /\ p[Len(p)] = t
  BY DEF Chain, IsSimple
<1> DEFINE n == Len(p) - 1
           q == SubSeq(p, 1, n)
           c == p[n]
<1>2. n \in 1 .. Len(p) /\ n \in Nat /\ n + 1 = Len(p) /\ n \in 1 .. Len(p) - 1
  BY <1>1
<1> HIDE DEF n
<1>3. IsSimple(q) /\ Len(q) = n /\ \A i \in 1 .. n : q[i] = p[i]
  BY <1>1, <1>2, Prefix
<1> HIDE DEF q
<1>4. c \in Callers(t)
  <2>1. c \in Service
    BY <1>1, <1>2
  <2>2. Weight(p[n], p[n + 1]) > 0
    BY <1>1, <1>2 DEF IsSimple
  <2> QED BY <1>1, <1>2, <2>1, <2>2 DEF Callers
<1>5. ASSUME NEW i \in 1 .. n PROVE p[i] \notin seen \cup {t}
  <2>1. i \in 1 .. Len(p) /\ Len(p) \in 1 .. Len(p) /\ i # Len(p)
    BY <1>2
  <2>2. p[i] # p[Len(p)]
    BY <1>1, <2>1 DEF IsSimple
  <2>3. p[i] \notin seen
    BY <2>1 DEF Chain
  <2> QED BY <1>1, <2>2, <2>3
<1>6. c \notin seen \cup {t} /\ q[Len(q)] = c
  <2>1. n \in 1 .. n
    BY <1>2
  <2> QED BY <1>3, <1>5, <2>1
<1>7. Chain(q, seen \cup {t}, c)
  <2>1. \A i \in 1 .. Len(q) : q[i] \notin seen \cup {t}
    BY <1>3, <1>5
  <2> QED BY <1>3, <1>6, <2>1 DEF Chain
<1>8. CallsIn(p, seen) = CallsIn(q, seen \cup {t}) + 1
  <2>1. Len(p) = Len(q) + 1 /\ \A i \in 1 .. Len(q) : p[i] = q[i]
    BY <1>2, <1>3
  <2> QED BY <1>1, <1>3, <2>1, ChainGrows
<1> QED BY <1>4, <1>6, <1>7, <1>8

(* A chain to a caller goes on to the service.                               *)
LEMMA ChainGoesOn ==
  ASSUME NEW t \in Service, NEW seen \in SUBSET Service, t \notin seen,
         NEW c \in Callers(t), NEW q, Chain(q, seen \cup {t}, c)
  PROVE  \E p : Chain(p, seen, t) /\ CallsIn(p, seen) = CallsIn(q, seen \cup {t}) + 1
<1> DEFINE p == Append(q, t)
<1>1. IsSimple(q) /\ Len(q) \in Nat /\ q[Len(q)] = c
  BY DEF Chain, IsSimple
<1>2. \A i \in 1 .. Len(q) : q[i] # t /\ q[i] \notin seen
  BY DEF Chain
<1>3. Weight(q[Len(q)], t) > 0
  BY <1>1 DEF Callers
<1>4. /\ IsSimple(p) /\ Len(p) = Len(q) + 1 /\ p[Len(p)] = t
      /\ \A i \in 1 .. Len(q) : p[i] = q[i]
  BY <1>1, <1>2, <1>3, OneMore
<1> HIDE DEF p
<1>5. ASSUME NEW i \in 1 .. Len(p) PROVE p[i] \notin seen
  <2>1. CASE i = Len(p)
    BY <1>4, <2>1
  <2>2. CASE i # Len(p)
    <3>1. i \in 1 .. Len(q)
      BY <1>1, <1>4, <2>2
    <3> QED BY <1>2, <1>4, <3>1
  <2> QED BY <2>1, <2>2
<1>6. Chain(p, seen, t)
  BY <1>4, <1>5 DEF Chain
<1>7. CallsIn(p, seen) = CallsIn(q, seen \cup {t}) + 1
  BY <1>1, <1>4, ChainGrows
<1> QED BY <1>6, <1>7
(* What k hops find above a service: the calls of a longest chain up to k.   *)
FoundIn(k, seen, t) ==
  /\ \A p : Chain(p, seen, t) => Floor(CallsIn(p, seen), k) <= Upstream[k][seen][t]
  /\ Upstream[k][seen][t] <= k
  /\ \E p : Chain(p, seen, t) /\ Upstream[k][seen][t] <= CallsIn(p, seen)

LEMMA UpstreamCounts ==
  \A k \in Nat : \A seen \in SUBSET Service : \A t \in Service : t \notin seen => FoundIn(k, seen, t)
<1> DEFINE u == Upstream
           T == {k \in Nat : \A seen \in SUBSET Service : \A t \in Service :
                               /\ t \in seen => u[k][seen][t] = 0
                               /\ t \notin seen => FoundIn(k, seen, t)}
<1>1. /\ \A seen \in SUBSET Service, t \in Service : u[0][seen][t] = 0
      /\ \A k \in Nat : u[k] \in Heights /\ u[k + 1] = Above(u[k])
  BY UpstreamAre
<1>2. \A k \in Nat : \A seen \in SUBSET Service : \A t \in Service : u[k][seen][t] \in Nat
  BY <1>1 DEF Heights
<1> HIDE DEF u
<1>3. 0 \in T
  <2> SUFFICES ASSUME NEW seen \in SUBSET Service, NEW t \in Service, t \notin seen
               PROVE  FoundIn(0, seen, t)
    BY <1>1
  <2>1. u[0][seen][t] = 0
    BY <1>1
  <2>2. PICK p : Chain(p, seen, t)
    BY Alone, Zenon
  <2>3. \A q : Chain(q, seen, t) => CallsIn(q, seen) \in Nat
    BY CallsInIs DEF Chain
  <2>4. \A q : Chain(q, seen, t) => Floor(CallsIn(q, seen), 0) <= 0
    BY <2>3 DEF Floor
  <2>5. 0 <= CallsIn(p, seen)
    BY <2>2, <2>3
  <2> QED BY <2>1, <2>2, <2>4, <2>5 DEF FoundIn, u
<1>4. ASSUME NEW k \in Nat, k \in T PROVE k + 1 \in T
  <2>1. ASSUME NEW seen \in SUBSET Service, NEW t \in Service, t \in seen
        PROVE  u[k + 1][seen][t] = 0
    <3> DEFINE v == u[k]
    <3>1. v \in Heights /\ u[k + 1] = Above(v)
      BY <1>1
    <3> HIDE DEF v
    <3>2. Above(v)[seen][t] = 0
      BY <2>1, <3>1, AboveIs
    <3> QED BY <3>1, <3>2
  <2>2. ASSUME NEW seen \in SUBSET Service, NEW t \in Service, t \notin seen
        PROVE  FoundIn(k + 1, seen, t)
    <3> DEFINE more == seen \cup {t}
               m == u[k + 1][seen][t]
    <3>1. /\ \A c \in Callers(t) : 1 + u[k][more][c] <= m
          /\ m = 0 \/ \E c \in Callers(t) : m = 1 + u[k][more][c]
      <4> DEFINE v == u[k]
                 a == Above(v)[seen][t]
      <4>1. v \in Heights /\ u[k + 1] = Above(v)
        BY <1>1
      <4> HIDE DEF v
      <4>2. /\ \A c \in Callers(t) : 1 + v[more][c] <= a
            /\ a = 0 \/ \E c \in Callers(t) : a = 1 + v[more][c]
        BY <2>2, <4>1, AboveIs
      <4>3. m = a
        BY <4>1
      <4> HIDE DEF a, m
      <4> QED BY <4>2, <4>3 DEF v
    <3>2. m \in Nat /\ more \in SUBSET Service
      BY <1>2
    <3> HIDE DEF m
    <3>3. ASSUME NEW c \in Callers(t)
          PROVE  /\ c \in Service /\ u[k][more][c] \in Nat
                 /\ c \in more => u[k][more][c] = 0
                 /\ c \notin more => FoundIn(k, more, c)
      <4>1. c \in Service
        BY DEF Callers
      <4> QED BY <1>2, <1>4, <3>2, <4>1
    <3>4. ASSUME NEW p, Chain(p, seen, t) PROVE Floor(CallsIn(p, seen), k + 1) <= m
      <4>1. CallsIn(p, seen) \in Nat /\ CallsIn(p, seen) <= Len(p) /\ Len(p) \in Nat /\ Len(p) >= 1
        BY <3>4, CallsInIs DEF Chain, IsSimple
      <4>2. CASE Len(p) > 1
        <5>0. PICK c \in Callers(t) : \E q : /\ c \notin more /\ Chain(q, more, c)
                                            /\ CallsIn(p, seen) = CallsIn(q, more) + 1
          BY <3>4, <4>2, ChainEnds
        <5>1. PICK q : /\ c \notin more /\ Chain(q, more, c)
                       /\ CallsIn(p, seen) = CallsIn(q, more) + 1
          BY <5>0
        <5>2. Floor(CallsIn(q, more), k) <= u[k][more][c]
          BY <3>3, <5>1 DEF FoundIn, u
        <5>3. CallsIn(q, more) \in Nat
          BY <5>1, CallsInIs DEF Chain
        <5>4. u[k][more][c] \in Nat /\ 1 + u[k][more][c] <= m
          BY <3>1, <3>3
        <5> QED BY <3>2, <5>1, <5>2, <5>3, <5>4 DEF Floor
      <4>3. CASE Len(p) = 1 /\ CallsIn(p, seen) = 0
        BY <3>2, <4>3 DEF Floor
      <4>4. CASE Len(p) = 1 /\ CallsIn(p, seen) # 0
        <5>1. Closes(p, seen)
          BY <4>4 DEF CallsIn
        <5>2. p[1] = t
          BY <3>4, <4>4 DEF Chain
        <5>3. PICK c : c \in Callers(t)
          BY <5>1, <5>2 DEF Closes
        <5>4. u[k][more][c] \in Nat /\ 1 + u[k][more][c] <= m
          BY <3>1, <3>3, <5>3
        <5>5. CallsIn(p, seen) = 1
          BY <4>1, <4>4
        <5> QED BY <3>2, <5>4, <5>5 DEF Floor
      <4>5. Len(p) > 1 \/ Len(p) = 1
        <5> DEFINE l == Len(p)
        <5>1. l \in Nat /\ l >= 1
          BY <4>1
        <5> HIDE DEF l
        <5>2. l > 1 \/ l = 1
          BY <5>1
        <5> QED BY <5>2 DEF l
      <4> QED BY <4>2, <4>3, <4>4, <4>5
    <3>5. m <= k + 1 /\ \E p : Chain(p, seen, t) /\ m <= CallsIn(p, seen)
      <4>1. PICK p : /\ Chain(p, seen, t) /\ Len(p) = 1
                     /\ (\E c \in Callers(t) : c \in more) => CallsIn(p, seen) = 1
        BY <2>2, Alone, Zenon
      <4>2. CallsIn(p, seen) \in Nat
        BY <4>1, CallsInIs DEF Chain
      <4>3. CASE m = 0
        BY <4>1, <4>2, <4>3
      <4>4. ASSUME NEW c \in Callers(t), m = 1 + u[k][more][c], c \in more
            PROVE  m <= k + 1 /\ m <= CallsIn(p, seen)
        <5>1. m = 1
          <6>1. u[k][more][c] = 0
            BY <3>3, <4>4
          <6> QED BY <4>4, <6>1
        <5>2. CallsIn(p, seen) = 1
          BY <4>1, <4>4
        <5> QED BY <5>1, <5>2
      <4>5. ASSUME NEW c \in Callers(t), m = 1 + u[k][more][c], c \notin more
            PROVE  m <= k + 1 /\ \E r : Chain(r, seen, t) /\ m <= CallsIn(r, seen)
        <5>1. u[k][more][c] <= k /\ \E q : Chain(q, more, c) /\ u[k][more][c] <= CallsIn(q, more)
          BY <3>3, <4>5 DEF FoundIn, u
        <5>2. PICK q : Chain(q, more, c) /\ u[k][more][c] <= CallsIn(q, more)
          BY <5>1
        <5>3. PICK r : Chain(r, seen, t) /\ CallsIn(r, seen) = CallsIn(q, more) + 1
          BY <2>2, <5>2, ChainGoesOn
        <5>4. CallsIn(q, more) \in Nat /\ u[k][more][c] \in Nat
          BY <3>3, <5>2, CallsInIs DEF Chain
        <5>5. m <= k + 1 /\ m <= CallsIn(r, seen)
          BY <4>5, <5>1, <5>2, <5>3, <5>4
        <5> QED BY <5>3, <5>5
      <4> HIDE DEF more
      <4> QED BY <3>1, <4>1, <4>3, <4>4, <4>5
    <3> QED BY <3>4, <3>5 DEF FoundIn, m, u
  <2> QED BY <2>1, <2>2
<1>5. Nat \subseteq T
  <2> HIDE DEF T
  <2> QED BY <1>3, <1>4, NatSetInduction
<1> QED BY <1>5

(* The calls of a chain of callers, as Analysis counts them.                 *)
LEMMA CallsAre ==
  ASSUME NEW s \in Service, NEW p
  PROVE  /\ p \in {q \in SimplePaths(Service) : q[Len(q)] = s} <=> Chain(p, {}, s)
         /\ Chain(p, {}, s) => Calls(p) = CallsIn(p, {})
<1>1. p \in {q \in SimplePaths(Service) : q[Len(q)] = s} <=> Chain(p, {}, s)
  BY SimpleIs DEF Chain
<1>2. ASSUME Chain(p, {}, s) PROVE Calls(p) = CallsIn(p, {})
  <2>1. DOMAIN p = 1 .. Len(p)
    BY <1>2 DEF Chain, IsSimple
  <2>2. Closes(p, {}) <=> \E i \in DOMAIN p : p[i] \in Callers(p[1])
    BY <2>1 DEF Closes
  <2> QED BY <2>2 DEF Calls, CallsIn
<1> QED BY <1>1, <1>2

(* upstreamDepth finds the longest chain, up to its cap.                     *)
LEMMA DepthIs ==
  ASSUME NEW s \in Service
  PROVE  Depth(s) = Floor(Max({Calls(p) : p \in {q \in SimplePaths(Service) : q[Len(q)] = s}}), MaxDepth)
<1> DEFINE C == {q \in SimplePaths(Service) : q[Len(q)] = s}
           S == {Calls(p) : p \in C}
           d == Depth(s)
<1>1. \A p : /\ p \in C <=> Chain(p, {}, s)
             /\ p \in C => Calls(p) = CallsIn(p, {})
  BY CallsAre
<1>2. MaxDepth \in Nat /\ FoundIn(MaxDepth, {}, s) /\ d = Upstream[MaxDepth][{}][s]
  BY CouplingAssumption, UpstreamCounts DEF Depth
<1>3. d \in Nat
  <2>1. Upstream[MaxDepth] \in Heights /\ {} \in SUBSET Service
    BY <1>2, UpstreamAre
  <2> QED BY <1>2, <2>1 DEF Heights
<1> HIDE DEF C, d
<1>4. ASSUME NEW p \in C
      PROVE  /\ Calls(p) \in Nat /\ Calls(p) <= Cardinality(Service)
             /\ Floor(Calls(p), MaxDepth) <= d
  <2>1. Chain(p, {}, s) /\ Calls(p) = CallsIn(p, {})
    BY <1>1
  <2>2. IsSimple(p)
    BY <2>1 DEF Chain
  <2>3. CallsIn(p, {}) \in Nat /\ CallsIn(p, {}) <= Len(p) /\ Len(p) \in Nat
    BY <2>2, CallsInIs DEF IsSimple
  <2>4. IsFiniteSet(Service) /\ Cardinality(Service) \in Nat
    BY GraphsAssumption, FS_CardinalityType
  <2>5. /\ p \in Seq(Service) /\ \A i \in 1 .. Len(p) : p[i] \in Service
        /\ \A i, j \in 1 .. Len(p) : i # j => p[i] # p[j]
    BY <2>2 DEF IsSimple
  <2>6. Len(p) <= Cardinality(Service)
    BY <2>4, <2>5, NoLonger
  <2>7. Floor(CallsIn(p, {}), MaxDepth) <= d
    BY <1>2, <2>1 DEF FoundIn
  <2> QED BY <2>1, <2>3, <2>4, <2>6, <2>7
<1>5. PICK p : p \in C /\ d <= Calls(p)
  BY <1>1, <1>2 DEF FoundIn
<1> DEFINE b == Cardinality(Service)
<1>6. S \in SUBSET Nat /\ S # {} /\ b \in Nat /\ \A x \in S : x <= b
  <2>1. b \in Nat
    BY GraphsAssumption, FS_CardinalityType
  <2> QED BY <1>4, <1>5, <2>1
<1> DEFINE m == Max(S)
<1>7. m \in S /\ \A x \in S : x <= m
  <2> HIDE DEF S, b
  <2> QED BY <1>6, MaxBounded
<1>8. d <= m
  <2>1. Calls(p) \in S /\ Calls(p) \in Nat /\ m \in Nat
    BY <1>4, <1>5, <1>6, <1>7
  <2>2. Calls(p) <= m
    BY <1>7, <2>1
  <2> HIDE DEF m
  <2> QED BY <1>3, <1>5, <2>1, <2>2
<1>9. PICK q \in C : m = Calls(q)
  BY <1>7
<1>10. Floor(m, MaxDepth) <= d /\ m \in Nat
  BY <1>4, <1>9
<1>11. d <= MaxDepth
  BY <1>2 DEF FoundIn
<1> HIDE DEF m, S
<1>12. d = Floor(m, MaxDepth)
  BY <1>2, <1>3, <1>8, <1>10, <1>11 DEF Floor
<1> QED BY <1>12 DEF m, S, C, d
(* Pressure finds its way along the calls, as far as there are rounds, and   *)
(* nowhere else; and the length reported with it is that of the longest      *)
(* chain of callers: ComputeNetworkCoupling's rounds and upstreamDepth say   *)
(* what the graph says.                                                      *)
THEOREM PressureFollows == Spec => []PressureFollowsCalls
<1>1. SolverInv /\ CutInv => PressureFollowsCalls
  <2> SUFFICES ASSUME Given(windows), windows \in Windows, NEW s \in Service
               PROVE  /\ Pressure(windows)[s] > Own(windows)[s]
                           <=> TrafficReaches(s, Floor(Cardinality(graph.nodes), MaxRounds))
                      /\ Depth(s) = Floor(Max({Calls(p) : p \in {q \in SimplePaths(Service) : q[Len(q)] = s}}),
                                          MaxDepth)
    BY DEF SolverInv, CutInv, PressureFollowsCalls
  <2> DEFINE n == Floor(Cardinality(graph.nodes), MaxRounds)
  <2>1. graph.nodes \subseteq Service
    BY GraphTyped DEF Given
  <2>2. /\ Cardinality(graph.nodes) \in Nat /\ Cardinality(Service) \in Nat
        /\ Cardinality(graph.nodes) <= Cardinality(Service)
    BY <2>1, GraphsAssumption, FS_Subset, FS_CardinalityType
  <2>3. n \in Nat /\ n <= Floor(Cardinality(Service), MaxRounds)
    BY <2>2, CouplingAssumption DEF Floor
  <2>4. Pressure(windows) = Pressures(windows)[n]
    BY DEF Pressure
  <2> HIDE DEF n
  <2>5. Pressures(windows)[n][s] > Own(windows)[s] => TrafficReaches(s, n)
    BY <2>3, PressureReaches
  <2>6. TrafficReaches(s, n) => Pressures(windows)[n][s] > Own(windows)[s]
    BY <2>3, ReachesPressure
  <2> QED BY <2>4, <2>5, <2>6, DepthIs DEF n
<1> QED BY <1>1, SolverInvAlways, CutInvAlways, PTL DEF Spec
=============================================================================
