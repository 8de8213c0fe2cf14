------------------------------ MODULE Coupler ------------------------------
(***************************************************************************)
(* modelling/coupler.go, ApplyCoupling: what a tick carries over to the    *)
(* next one of each service's window.  Results are integers, rounded down; *)
(* the variance, which nothing here reads, is left out.                    *)
(***************************************************************************)
EXTENDS FiniteSetsExt, Integers

CONSTANTS
  Service,    \* the service identifiers
  Calls,      \* the snapshot's edges of positive weight: pairs of services
  Rates,      \* the MeanRequestRates of a window, per second
  LatencyMs,  \* its MeanLatencyMs
  Conns,      \* its MeanActiveConns
  MaxQueue    \* a bound: queueBaseline is cut off here

VARIABLES
  states,  \* the services with a couplerState
  queue,   \* queueBaseline
  latency, \* latencyPersisted
  memory,  \* demandMemory
  buffer,  \* propBuffer
  index,   \* propIdx
  offered  \* history: the rate of each service's last window; 0 with none

vars == <<states, queue, latency, memory, buffer, index, offered>>

Zero == [s \in Service |-> 0]
NoDelay == [i \in 0 .. 2 |-> 0]

TypeOK ==
  /\ states \subseteq Service
  /\ queue \in [Service -> 0 .. MaxQueue]
  /\ latency \in [Service -> Nat] /\ memory \in [Service -> Nat]
  /\ buffer \in [Service -> [0 .. 2 -> Nat]] /\ index \in [Service -> 0 .. 2]
  /\ offered \in [Service -> Rates \cup {0}]

Init ==
  /\ states = {} /\ queue = Zero /\ latency = Zero /\ memory = Zero
  /\ buffer = [s \in Service |-> NoDelay] /\ index = Zero /\ offered = Zero

\* injectedLoad: 0.15 of the queues of the callers, at a weight of 1.
Injected(s) == (15 * MapThenSumSet(LAMBDA c : queue[c], {c \in states : <<c, s>> \in Calls})) \div 100

\* A state is made at a service's first window.
LatencyOf(s) == IF s \in states THEN latency[s] ELSE Max({LatencyMs, 10})
MemoryOf(s, rate) == IF s \in states THEN memory[s] ELSE rate

Demand(s, rate) == (7 * rate + 3 * MemoryOf(s, rate)) \div 10

\* The delay line: what was injected two ticks ago comes out.
BufferAfter(s) == [buffer[s] EXCEPT ![index[s]] = Injected(s)]
IndexAfter(s) == (index[s] + 1) % 3

SvcRate(s) == (1000 * Conns) \div LatencyOf(s)

\* The backlog after the two seconds of a tick.
QueueAfter(s, rate) ==
  LET net == Demand(s, rate) + BufferAfter(s)[IndexAfter(s)] - SvcRate(s)
  IN  Max({0, Min({MaxQueue, queue[s] + 2 * net})})

\* The latency follows the backlog, fast upwards and slowly downwards.
LatencyAfter(s, rate) ==
  LET raw == LatencyMs + (60 * QueueAfter(s, rate)) \div Conns
      old == LatencyOf(s)
  IN  IF raw > old THEN (8 * raw + 2 * old) \div 10 ELSE (raw + 9 * old) \div 10

\* A tick whose windows show rate; states of services without one are deleted.
\* computeState returns before it when there is no window at all.
ApplyCoupling(wins, rate) ==
  /\ wins # {}
  /\ states' = wins
  /\ queue' = [s \in Service |-> IF s \in wins THEN QueueAfter(s, rate[s]) ELSE 0]
  /\ latency' = [s \in Service |-> IF s \in wins THEN LatencyAfter(s, rate[s]) ELSE 0]
  /\ memory' = [s \in Service |-> IF s \in wins THEN Demand(s, rate[s]) ELSE 0]
  /\ buffer' = [s \in Service |-> IF s \in wins THEN BufferAfter(s) ELSE NoDelay]
  /\ index' = [s \in Service |-> IF s \in wins THEN IndexAfter(s) ELSE 0]
  /\ offered' = [s \in Service |-> IF s \in wins THEN rate[s] ELSE 0]

Next == \E wins \in SUBSET Service : \E rate \in [wins -> Rates] : ApplyCoupling(wins, rate)

\* The orchestrator's ticker goes on.
Spec == Init /\ [][Next]_vars /\ WF_vars(Next)

-----------------------------------------------------------------------------
\* Every service is offered at most half of what it serves at its own latency.
LightRates == {rate \in Rates \cup {0} : 2 * rate * LatencyMs <= 1000 * Conns}
Calm == offered \in [Service -> LightRates]

Drained == \A s \in Service : queue[s] = 0

(* coupler.go:88: "Latency growth caused by backlog must be written and     *)
(* decay gradually".  Once every service is lightly loaded for good, the    *)
(* backlog and the latency that a burst left behind are worked off.         *)
BacklogDrains == <>[]Calm => []<>Drained
=============================================================================
