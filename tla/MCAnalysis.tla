----------------------------- MODULE MCAnalysis -----------------------------
(***************************************************************************)
(* Analysis on every graph of three services with at most MaxEdges calls,  *)
(* and windows of four kinds.                                              *)
(***************************************************************************)
EXTENDS WhatIf, TLC

CONSTANT MaxEdges  \* a bound of the check: the edges of a graph

Interchangeable == Permutations(Service)

Pairs == {e \in Service \X Service : e[1] # e[2]}
Weights == UNION {[es -> 1 .. MaxWeight] : es \in UNION {kSubset(n, Pairs) : n \in 0 .. MaxEdges}}

\* All services are nodes, or the services that nothing calls.
MCGraphs ==
  {[nodes |-> ns, loaded |-> ns,
    weight |-> [e \in Service \X Service |-> IF e \in DOMAIN w THEN w[e] ELSE 0]] :
     w \in Weights, ns \in {Service, {}}}
  \cup
  {[nodes |-> {s \in Service : \A e \in DOMAIN w : e[2] # s}, loaded |-> {},
    weight |-> [e \in Service \X Service |-> IF e \in DOMAIN w THEN w[e] ELSE 0]] : w \in Weights}

\* A window without data; a quiet service; a busy one; one without latency.
Kinds == {[rate |-> 0, mu |-> 0], [rate |-> 2, mu |-> 10], [rate |-> 9, mu |-> 10]}
Timeless == [rate |-> 2, mu |-> 0]

\* Half and double the traffic, latency added alone and to more traffic, and a
\* failure, of a service or of all.
MCRequests ==
  {[target |-> t, factor |-> x[1], latency |-> x[2], found |-> x[3], failure |-> x[4]] :
     t \in Service \cup {None},
     x \in {<<1, 0, 0, FALSE>>, <<4, 0, 0, FALSE>>, <<0, 1, 7, FALSE>>, <<3, 1, 0, FALSE>>,
           <<0, 0, 0, TRUE>>}}

\* At most one service is without latency, among busy ones.
MCWindows ==
  UNION {[svcs -> Kinds] : svcs \in SUBSET Service}
  \cup UNION {{[w EXCEPT ![s] = Timeless] : s \in DOMAIN w} :
              w \in UNION {[svcs -> {[rate |-> 9, mu |-> 10]}] : svcs \in SUBSET Service}}

-----------------------------------------------------------------------------
(* readme.md: "Exact time until a service hits rho = 1"; network.go: "0      *)
(* means already saturated".  A state says NOW only if a service is at its   *)
(* capacity.                                                                 *)
NowMeansSaturated == state.now => \E s \in DOMAIN windows : rho[s] >= U
=============================================================================
