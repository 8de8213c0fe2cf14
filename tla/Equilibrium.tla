---------------------------- MODULE Equilibrium ----------------------------
(***************************************************************************)
(* modelling/network.go, ComputeFixedPointEquilibrium, on the windows that *)
(* computeState reads after it took the graph's snapshot: Gauss-Seidel     *)
(* sweeps with damping over a map that Go walks in random order.           *)
(*                                                                         *)
(* Utilisations are in U-ths.  Targets are rounded down and damped steps   *)
(* up, so that a step is zero only at the target (epsilon is one U-th).    *)
(* A window is abstracted to its mean rate and to mu, the service rate     *)
(* that its latency, queue and connections give; mu = 0 when one of these  *)
(* is missing.                                                             *)
(***************************************************************************)
EXTENDS CriticalPath, FiniteSetsExt

CONSTANTS
  U,        \* 1.0 of a utilisation
  MaxIter,  \* maxIter
  Windows   \* the maps of windows that AllWindows may return

Window == [rate : Nat, mu : Nat]

ASSUME EquilibriumAssumption ==
  /\ U \in Nat \ {0} /\ U % 2 = 0 /\ MaxIter \in Nat \ {0}
  /\ \A w \in Windows : w \in [DOMAIN w -> Window] /\ DOMAIN w \subseteq Service

VARIABLES
  windows,   \* the windows
  rho,       \* the utilisation of each service with a window; 0 for the others
  left,      \* the services this sweep has still to visit
  moved,     \* maxDelta >= epsilon
  iter,      \* the sweeps completed
  converged  \* the result's Converged

solverVars == <<windows, rho, left, moved, iter, converged>>

Floor(x, y) == IF x < y THEN x ELSE y
Observed(w) == w.rate > 0 /\ w.mu > 0
Mu(w) == IF Observed(w) THEN w.mu ELSE 1

\* Mutated form of Start: a service without data starts at one.
StartLoaded(wins) ==
  [s \in Service |-> IF s \in DOMAIN wins /\ Observed(wins[s])
                     THEN Floor((U * wins[s].rate) \div wins[s].mu, (3 * U) \div 2) ELSE U]

\* The initial utilisations.
Start(wins) ==
  [s \in Service |-> IF s \in DOMAIN wins /\ Observed(wins[s])
                     THEN Floor((U * wins[s].rate) \div wins[s].mu, (3 * U) \div 2) ELSE 0]

\* newRho: a tenth of each caller's weighted rate, by its utilisation, comes
\* on top of the service's own rate.
Target(wins, r, s) ==
  LET injected == SumFunction([c \in DOMAIN wins |-> Weight(c, s) * wins[c].rate * Floor(r[c], U)])
  IN  Floor((10 * MaxWeight * U * wins[s].rate + injected) \div (10 * MaxWeight * Mu(wins[s])),
            (3 * U) \div 2)

\* omega = 0.55
Damped(old, new) == old - (11 * (old - new)) \div 20

SolveBegin(wins) ==
  /\ windows' = wins
  /\ rho' = Start(wins)
  /\ left' = DOMAIN wins
  /\ moved' = FALSE /\ iter' = 0 /\ converged' = FALSE

\* Mutated form of Visit: maxDelta is the last visit's delta.
VisitLastDelta(s) ==
  /\ s \in left
  /\ rho' = [rho EXCEPT ![s] = Damped(rho[s], Target(windows, rho, s))]
  /\ left' = left \ {s}
  /\ moved' = (rho'[s] # rho[s])
  /\ UNCHANGED <<windows, iter, converged>>

\* One service's turn in a sweep.
Visit(s) ==
  /\ s \in left
  /\ rho' = [rho EXCEPT ![s] = Damped(rho[s], Target(windows, rho, s))]
  /\ left' = left \ {s}
  /\ moved' = (moved \/ rho'[s] # rho[s])
  /\ UNCHANGED <<windows, iter, converged>>

NextSweep ==
  /\ left = {} /\ moved /\ iter + 1 < MaxIter
  /\ left' = DOMAIN windows /\ moved' = FALSE /\ iter' = iter + 1
  /\ UNCHANGED <<windows, rho, converged>>

Solved == left = {} /\ (~moved \/ iter + 1 = MaxIter)

\* All targets at once.
Targets(wins, r) == [s \in Service |-> IF s \in DOMAIN wins THEN Target(wins, r, s) ELSE 0]

Iterates(wins) ==
  LET f[k \in Nat] == IF k = 0 THEN Start(wins) ELSE Targets(wins, f[k - 1])
  IN  f

\* The utilisations can rise no further than to their limits.
Room == SumFunction([s \in Service |-> (3 * U) \div 2])

\* What the solver returns for wins, whatever the order of its sweeps (shown
\* by OrderIndependent): the least fixed point above Start.
Solution(wins) ==
  LET f == Iterates(wins)
  IN  f[CHOOSE k \in 0 .. Room : f[k + 1] = f[k]]
=============================================================================
