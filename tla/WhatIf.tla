------------------------------- MODULE WhatIf -------------------------------
(***************************************************************************)
(* simulation/whatif.go, as handleSimulate of api/server.go calls it: the  *)
(* scenario is applied to a copy of the windows, and the analyses are made *)
(* of both.  The forward simulation of the fluid plants and the network    *)
(* field, which is numeric and has a random source, is left out; the       *)
(* dangerous path is the one of computeState (Analysis, Dangers).          *)
(*                                                                         *)
(* A request multiplies the traffic by factor Parts-ths and adds latency    *)
(* Parts-ths of the target's own latency.  A window without a latency has   *)
(* none to add to: its service rate is then the request's found, 0 if it    *)
(* lacks connections too.  Rates are rounded up, so that a rate stays one.  *)
(***************************************************************************)
EXTENDS Analysis

CONSTANTS
  Parts,    \* 1.0 of a factor
  Requests  \* the requests that are posted

Request == [target : Service \cup {None}, factor : Nat, latency : Nat, found : Nat,
            failure : BOOLEAN]

ASSUME RequestsAssumption == Parts \in Nat \ {0} /\ Requests \subseteq Request

Up(a, b) == (a + b - 1) \div b

\* A multiplier that is not positive means 1.
Factor(req) == IF req.factor = 0 THEN Parts ELSE req.factor

\* The traffic that a request makes of a rate.
Traffic(rate, req) == Up(Factor(req) * rate, Parts)

\* Mutated form of Slowed: the latency is set to what is injected.
SlowedTo(mu, req) ==
  IF req.latency = 0 THEN mu
  ELSE IF mu = 0 THEN req.found ELSE Up(Parts * mu, req.latency)

\* The service rate with the latency injected.
Slowed(mu, req) ==
  IF req.latency = 0 THEN mu
  ELSE IF mu = 0 THEN req.found ELSE Up(Parts * mu, Parts + req.latency)

\* The target's window: latency, traffic, and then the failure, which takes
\* rate and connections.
Changed(w, req) ==
  IF req.failure THEN [rate |-> 0, mu |-> 0]
  ELSE [rate |-> Traffic(w.rate, req), mu |-> Slowed(w.mu, req)]

\* perturbWindows: of a target without a window only the multiplier is used,
\* for all services.
Perturbed(wins, req) ==
  IF req.target \in DOMAIN wins
  THEN [wins EXCEPT ![req.target] = Changed(@, req)]
  ELSE [s \in DOMAIN wins |-> [wins[s] EXCEPT !.rate = Traffic(@, req)]]

\* Run, with the utilisations in place of the collapse probabilities, which
\* rise with each of them.
Run(wins, req) == [base |-> Solution(wins), after |-> Solution(Perturbed(wins, req))]

-----------------------------------------------------------------------------
\* What the request asks of the target's window beyond its traffic adds to a
\* known latency, or is nothing.
Heavier(wins, req) ==
  /\ Factor(req) >= Parts
  /\ req.target \in DOMAIN wins =>
       ~req.failure /\ (req.latency > 0 => wins[req.target].mu > 0)
Lighter(wins, req) ==
  /\ Factor(req) <= Parts
  /\ req.target \in DOMAIN wins => ~req.failure /\ req.latency = 0

(* A what-if scenario moves the prediction the right way, for the service it *)
(* changes and for all that it calls: more traffic or latency (whatif.go:23, *)
(* 27) relieves no service, and less traffic burdens none.                   *)
ScenarioDirections ==
  stage = "report" /\ windows # <<>> =>
    \A req \in Requests :
      LET res == Run(windows, req)
      IN  /\ Heavier(windows, req) => \A s \in Service : res.base[s] <= res.after[s]
          /\ Lighter(windows, req) => \A s \in Service : res.after[s] <= res.base[s]
=============================================================================
