# Verification of phaseShift

TLA+ models of the qphysics agent: a Go program that ingests metrics and traces
of services, keeps them in a sharded store and a service graph, and every two
seconds runs a prediction pipeline and a control loop per service. Source paths
are relative to the repository.

## The system

| part | state | operations | met by |
|---|---|---|---|
| ring buffer, `telemetry/ringbuffer.go` | slots, head, size, under its own RWMutex | Append, Snapshot, Last, SummaryStats | scrapers, edge consumer, tick, API |
| store, `telemetry/store.go` | 64 shards, each a mutex with `buffers` and `lastSeen`; atomic `svcCount`; `appliedScales` (sync.Map) | Ingest, Prune, AllWindows, Window, ServiceIDs, SetAppliedScale | scrapers and consumer write; tick and maintainer prune; tick and handlers read |
| graph, `topology/graph.go` | nodes and weighted edges under one RWMutex | Update (upsert, decay, prune, propagate), Snapshot | tick and edge consumer update |
| trace ingestion, `ingestion/prom.go` | a channel of 1024 edges | HandleTraces, parseOTLPJSON | HTTP handlers send, the consumer receives |
| edge consumer, `main.go` | a batch of edges | consume and seed the store, flush every 5 s | channel, store, graph |
| orchestrator, `main.go` | fluid plants under plantMu | doTick every 2 s | store, graph, control plane, server |
| maintainer, `main.go` | none | prunes engines, store and plants | shares all three with the tick |
| control plane, `control/autopilot.go` | one loop per service, latest snapshot, under one RWMutex | Tick, PruneActive, Snapshot | writes directives back into the store |
| API server, `api/server.go` | published state, tick count | UpdateState/computeState, handlers | reads the store a second time; one goroutine per service |
| engines, `modelling/{signal,queueing,coupler}.go` | a state per service (sharded; the coupler's is a plain map) | Update, RunQueueModel, ApplyCoupling, Prune | called by computeState, pruned by the maintainer |
| autopilot runtime, `autopilot/*.go` | plant, rollout, safety, memory of a loop | Tick | called by the control plane |
| regime memory, `autopilot/regime_memory.go` | a ring of entries, a moving average of reversals, a capacity hint | Add, the scores, GetMidRangeCap | read and then extended by each Tick; made anew with its loop |
| analyses, `modelling/network.go`, `topology_sensitivity.go` | none kept | critical path, coupling, fixed-point solver, sensitivity | computeState and the what-if engine call them on a snapshot and the windows |
| what-if, `simulation/whatif.go` | none but a random source | Run | POST /api/simulate |
| discovery, `discovery/detect.go` | none kept | probes of Prometheus, collector, Docker | main, before the goroutines start |
| scraper, `ingestion/prom.go` | the points of one cycle | Run, scrapeAll | HTTP queries; ingests into the store |
| start and end, `main.go`, `Server.Start` | one context | signal, launch, Shutdown | everything above |

What is hard here: four kinds of goroutine share the store with no common lock;
admission to the store is a compare-and-swap across shards; Ingest and
AllWindows go on using a buffer after they released the lock that protected it;
the tick reads the store twice; the maintainer acts on a list it read earlier;
two threads decay the same graph; edges pass a bounded channel and a batch;
every analysis walks maps, whose order Go randomises, and updates in place;
discovery probes hanging hosts one after the other under one time budget; any
query of a scrape may fail; a signal may come at any of these points.
`PROJECT.json` lists these hazards at their lines.

## Modules

| module | models | steps |
|---|---|---|
| `RecentPoints` | what a ring buffer promises: the last Capacity points in order | |
| `RingBuffer` | `ringbuffer.go` | a method (each holds the lock for its whole body) |
| `BoundedRegistry` | what the store promises: at most MaxServices, forgotten only when stale | |
| `TelemetryStore` | `store.go`: ingester, pruner and reader threads | code between lock operations, accesses of `svcCount`, ring-buffer calls |
| `OTLPParse` | `parseOTLPJSON` | a line of the text, the final span, the extraction |
| `TopologyGraph` | `Graph.Update`, `Graph.Snapshot` | Update is one step, under Graph.mu |
| `StoreHistory` | the store with what was offered, accepted, registered and seen by a reader, and the promises in those terms | those of `TelemetryStore` |
| `EdgePipeline` | TopologyGraph with HandleTraces' channel, the edge consumer and the tick's updates | a channel operation, a flush, a tick's Update |
| `EdgeHistory` | the pipeline with the latest reports of edges and nodes, and the promises in those terms | those of `EdgePipeline` |
| `ControlLoop` | hydrateState and `RuntimeOrchestrator.Tick` with the override of `safety.go`, `rollout.go` and `Decide` | a tick of one service, under Plane.mu; a new loop |
| `RegimeMemory` | `regime_memory.go`, and the capacity Tick starts the optimiser from | a tick's entry; a new loop |
| `MemoryHistory` | the memory with its newest entries, the ticks since a reversal, the capacities so far | those of `RegimeMemory` |
| `CriticalPath` | `Graph.criticalPath` | a source relaxed, a round, a step of the walk back |
| `Equilibrium` | `ComputeFixedPointEquilibrium` | a service visited, a sweep |
| `NetworkCoupling` | `ComputeNetworkCoupling`, `ComputeNetworkEquilibrium`, `topology_sensitivity.go` | operators |
| `Analysis` | the system-level part of `computeState`: composes the three above | snapshot, windows, solver, report |
| `WhatIf` | `perturbWindows` and the analyses `Engine.Run` makes of its result, after a report of `Analysis` | operators |
| `Coupler` | `ApplyCoupling`: delay line, backlog and latency carried over | a tick |
| `Discovery` | `Discover` and its probes | a request |
| `PromScraper` | `scrapeAll` | a query, a point ingested |
| `Startup` | `main` and `Server.Start`: composes Discovery and PromScraper | discovery, launch, a signal, the server's return |
| `Agent` | `doTick`, `computeState`, `runTopologyMaintainer` and the per-service states they create and delete | code between two lock regions |

`MC*` modules hold the values and bounds of the checks, the `*History` modules
the history variables and the properties that need them, so that theorems can
be stated about them without the bounds; `*_proofs` hold the theorems, and
`SumTheorems` facts about the sums and quotients that several models compute. A definition whose comment begins "Mutated form of" is
a planted bug with which each property has been seen to fail.

How the parts compose: `RingBuffer` implements `RecentPoints`;
`TelemetryStore` uses that contract for its buffers (`Pushed`) and implements
`BoundedRegistry`; `Agent` sees the store through its two ages (fresh: 30 s,
stale: 5 min), `EdgePipeline` through the time of each service's latest point.
`EdgePipeline` starts at the channel: it takes the calls that a parser is to
deliver. With the parser as it is (`OTLPParse`, below) none arrives, and the
two are checked one after the other in one run. The two rings share a run as
well, `MCRings`, and nothing else.
`Analysis` takes the graph as given for the same reason: its graphs are those
an agent with a working parser would have. `CriticalPath`, `Equilibrium` and
`NetworkCoupling` extend one another, as the operators of each read the graph
and the windows of the one before.

Abstractions. A metric point is opaque, or its timestamp; statistics are left
out. In the store, services map to shards by an arbitrary constant function. An
edge's weight is the number of decays until it is deleted, since a refresh sets
it and a decay multiplies it by a constant: weight 1 is deleted by the 27th
decay and weight 0.1, which the flush writes, by the 16th. In `Agent` a control
decision is any scale within the clamp, and a fluid plant exists or not. In `OTLPParse` a line is the sequence of the keys that the pass looks for, with
their values, so that a text is printed with a key on each line or with all on
one; a value after a space is read as empty. The
engines' states of one service are created and deleted together. Age and arrival are
free, so no relation between the tick's 2 s and the store's ages is assumed.
In `ControlLoop` numbers are whole units, and
what the real-valued parts yield is an input of the tick: the optimiser's
capacity (any within its limits; it never moves its retry and cache settings
from 0), whether the plan is unsafe, the fallback, the confidence, the
assistance a ramp gets and the predictor's drift. The measured arrival is
taken after the sanity gate. The success probability keeps the
agent's parameters, with which a rollout never retries.
In `RegimeMemory` the signals are levels and the scores are integers rounded
down; decay(i, n) is the rational the code computes. In `Equilibrium` and
`NetworkCoupling` utilisations and pressures are integer multiples of 1/U and
1/P, rounded down; `FadingAssumption` asks for a P so fine that no pressure is
rounded to nothing in as many calls as there are rounds (the code itself stops
its rounds once the pressures change by less than 1e-5 in all). A
window is its mean rate and the service rate the code derives from it. The
solver's targets are rounded down and its damped steps up, so that it stops
exactly at a fixed point, where the code stops within an epsilon; with values
between 0 and 1.5 a hundredth is coarser than that epsilon, and the number of
sweeps is the model's own. In `WhatIf` traffic is multiplied by any fraction,
and latency is added as a fraction of the target's own, or gives a service rate
to a window that had no latency; changed rates are rounded up, as a rate above
zero stays one. In `Discovery` time is whole seconds and an answer
comes at once, at the time-out or never. In `PromScraper` a point is the queries
its rate and its mean latency are from.
The order in which Go walks a map is nondeterministic wherever it matters:
which services a full graph admits, which call of a source survives a flush,
the order of applied directives and of the per-service goroutines.

## Runs

| run | question | bounds | result |
|---|---|---|---|
| `store_safety` | cap, lost points, pruning, completeness of AllWindows, refinement | 2 services on 2 shards, room for 1, 2 ingesters, a pruner, a reader, 3 instants | holds |
| `store_liveness` | does Ingest return, do stale services go? | 2 services, 2 ingesters, a pruner | holds |
| `agent` | is the directive in force and in the analysed windows the loop's own? does the published state follow the store, is state released? | 1 service, 2 scales, tick and maintainer | holds |
| `edge_pipeline` | are spans kept; node cap, visible edges are recent, reported edges stay, every edge has a source, pruned nodes are unreported | texts of up to 4 lines of 11 kinds; 3 services, 2 calls, room for 2 nodes, channel of 1, 3 instants | holds |
| `otlp` | does a parent in another service make an edge? | texts of 5 keys over 2 names and 2 span ids, with a key per line and on one line | violated |
| `control_loop` | overrides, modes, knobs and ramps of a control loop | capacities to 4, backlog to 6, history of 3, 4 observed and 2 arriving loads | holds |
| `rings` | do reads return the newest points, and the newest entries, across wrap-arounds; how long does the oscillation hint live, where does it lead, do the two detectors agree? | 3 points, 3 slots, requests of up to 4; 9 entries, 13 ticks, 3 kinds of entry | holds |
| `effectiveness` | do actions that work score neutral or better? | the same memory | violated |
| `analysis` | critical path, solver, coupling and scenarios in every order of the maps | every graph of 3 services and up to 3 calls of 2 weights, 4 kinds of window, 5 scenarios of each service and of all | holds |
| `analysis_now` | does NOW mean that a service is saturated? | the same | violated |
| `coupler` | is the backlog of a burst worked off under a light load? | 1 service without calls, 3 loads, backlog cut off at 60 | violated |
| `startup` | discovery's time, missed candidates, failing queries, the end after a signal | 1, 3 or 7 candidates, 10 s, 5 queries, 2 services | holds |

Why the bounds are enough. The admission race needs two ingesters in different
shards and one free place; Prune's interplay with Ingest needs one pruner, a
second shard for it to walk to, and a clock that can pass StaleAge once. A ring
of three slots has a wrap that splits a read in both ways. A node cap of 2 is
met by the three services of two calls; three instants let a node's age pass
StaleAge = 1. A history of three is trimmed while it holds two overrides;
capacities start above, in and below the optimiser's range, and the fallback
reaches beyond it; the backlogs lie on both sides of the barrier and of both
rollout thresholds. A parent in another service is told with two names, two span ids and a parent
id: five keys. The last span is lost, or a parent given to another, within four
lines. Nine slots are more than the six entries the scores ask for,
so all scores are computed before and after the ring wraps, and as few as keep the
last reversal of a fading oscillation in reach of the scan; thirteen
ticks hold an oscillation long enough to pass the hint's threshold, the five
quiet ticks that end it, and the start of another. Three services with three
calls are the smallest graphs with a chain, a cycle and two paths of different
length to one service; the kinds of window are one without data, one without latency (of one service
among busy ones), one far below and one near its capacity, and the scenarios
halve and double traffic, add latency alone and to more traffic, and fail. Pressures are 20000-ths, as FadingAssumption asks, and
the depth is capped at 2 instead of 6, so that three services have chains beyond
the cap. Seven hanging candidates use up ten seconds twice
over; five queries include two for the rate, two for the latency and one that
sets neither. In `Agent` the services meet only in the lists that the tick
and the maintainer walk: one service has all the interleavings of its own state
with the two, and the two safety properties are proved for every set of
services. In `Coupler` the cut at 60 lies far above the backlog that no light
load of the run can work off any more.

Deadlock is checked in all runs but `otlp`, where a call ends, and
`startup`, where the process does.

Fairness. `store_liveness` gives each thread weak fairness of its steps, and
strong fairness of taking a mutex: Go's sync.Mutex hands a lock over to a waiter
of more than 1 ms. Callers are not forced to call. `agent` assumes that
the two ticker loops keep running and nothing about arriving or ageing points.
`startup` assumes that a probe ends (each has a time-out), that main goes on,
and that ListenAndServe returns after Shutdown; requests may last for ever and
no scraper need make a step. `coupler` assumes that ticks go on.

## Findings

`analysis_now`: `network.go:220` compares a service's rate with the highest rate
of all services, not with its service rate. The busiest service has pressure 1
and an "equilibrium utilisation" of 1.2 whatever its capacity, so its horizon is
0 and the state announces saturation NOW as soon as there is one request per
second. Without nodes in the graph every horizon is a missing map entry's zero,
again NOW. `network.go:54` says that 0 means "already saturated",
`readme.md:23` promises the exact time until a queue diverges.

`otlp`: at every line with a "service.name" the parser searches the name from
the beginning of the text (`prom.go:399`), so all spans get the first one and
no parent is in another service; of a text on a single line it reads the first
span only (`prom.go:410`). The counterexample is the smallest call, a span of
`back` whose parent is a span of `front`, and no edge comes out. `NeverAnEdge` proves it
of every text. As nothing fills `MetricPoint.UpstreamCalls`, the graph of a
running agent has no edges, where `readme.md:59` says "Parses span parent/child
→ topology edges" and `prom.go:367` "handles the common case correctly".

`effectiveness`: `regime_memory.go:185` multiplies the response by minus the
expected direction of line 157. Pressure that falls after scale-ups, as
expected, gives a score below the 0.5 that line 140 calls neutral; the more an
action helps, the lower. `SuccessLow` proves it for every history of actions
that worked. A history without actions scores full.

`coupler`: `coupler.go:74` computes the service rate from the persisted latency,
and lines 89-96 that latency from the backlog. A service of 50 ms and one
connection serves 20 requests per second; after one tick of 25 its backlog of
10 makes the latency 530 ms, the service rate drops to 2, and at 10 requests
per second, even at 5, backlog and latency grow for ever, where `coupler.go:88`
says that the growth must "decay gradually". It ends when the service has no
window in a tick.

Seen while modelling, and shown by a theorem or stated in a module:

- `decision_policy.go:40` says the floor "strictly prevents the controller from
  scaling down". `FloorDecides` proves it of the Decision, which only goes into
  telemetry and memory; the rollout follows the optimiser and the capacity may
  go down while the decision reads "scale_up".
- `Agent`: the plant's Hazard and Reservoir are written into windows that
  computeState does not use (`main.go:162-167` says the dashboard shows them),
  and the maintainer deletes engine state created after it read its list
  (`main.go:362`), so the smoothed rates of a live service start over.
- `Agent`: a service that comes back between the two reads of a tick is
  analysed with the directive of its former life, which `appliedScales` keeps
  (`store.go:181`).
- `RegimeMemory`: the remembered capacity is never reset, so an oscillation at
  another load starts from the capacity of the former one (`regime_memory.go:54`).
- `NetworkCoupling`: pressure grows with every round, and the rounds are the
  number of nodes; ComputeNetworkEquilibrium divides by the rates of the services
  with traffic what it summed over all; upstreamDepth counts one hop more when a
  cycle closes the chain; a path of the amplification analysis is a single
  node when no weight is above one half.
- `Equilibrium`: a window without data has a service rate of one request per
  second, so a single caller makes it look overloaded.
- `WhatIf`: a failure takes the target's load away and gives it to nobody
  (`whatif.go:31-32` says it is redistributed to upstream callers); the failed
  service counts as one with a service rate of one request per second. Latency
  injected into a window that lacks only latency gives it a service rate and may
  relieve it. ScenarioDirections claims nothing of these two. Latency and
  failure of a target without a window are ignored.
- `Discovery`: "never blocks longer than ~10 seconds" holds up to the dial's
  time-out, and a Prometheus behind five hanging ones is not found.
- `PromScraper`: a point is stamped when its first query answers
  (`prom.go:199`) and ingested after the last.

## Proofs

All for every value of the constants, under the named assumptions of the
modules (positive capacity and number of shards, finite sets of services and
threads, `None` distinct).

- `Rings_proofs`, the two rings of the program. Of the ring buffer:
  `TypeCorrect`, `ReachesWritten`, `Refinement`. The lemmas
  relate the wrapped indices to `Contents`; the central one, `AppendContents`,
  says that an append changes the contents as `PushRecent` does, with the case of
  a full ring apart. Of the regime memory: `NewestRead`, `HintEnds`,
  `StartBetween`, `SuccessLow`, `DetectorsConsistent`. `Reads` relates the slots to the history across the
  wrap-around, by the ring's lemma about indices; `Decayed` bounds
  the moving average by 0.85^k after k quiet ticks, with all rounding; `Hull`
  says that the remembered capacity is between two the service has had.
  SuccessLow, the sign of the finding for every history, compares two weighted sums term by term: each effect is at most half
  its weight, and no weight is rounded to zero as long as Fine > 3 (the decay of
  the oldest entry is above 2/7), which `MemoryAssumption` therefore demands.
  DetectorsConsistent needs to know when the last reversal was: `Waning` bounds the
  moving average after up to seven ticks without one, after a lone one, and of
  a short history, so that a hint on offer (average of 0.45 or more) has a
  reversal two to eight entries back and six entries to scan (`FlipInReach`);
  and one change of action is enough for the score (`FlipCounts`), unless the
  scale rounds it away. Hence `ScaleAssumption`: nine entries at least, and
  scores in at least 35 parts per entry. The code's 128 entries and floats
  are far within it; in a memory of eight entries a long oscillation, six quiet
  ticks and one reversal offer a hint with nothing left for the scan to see.
- `TelemetryStore_proofs`: `TypeCorrect`, `AdmissionBounded`, `OnlyOldLost`,
  `StoreRefinesRegistry`, `NoServiceMissed`, `PrunedWhenSilent`. The inductive
  invariant IInv adds to type
  correctness and the bound that a thread inside its critical section holds its
  shard's mutex (`LockHeld`), that a service being admitted is still
  unregistered (`StillNew`), that a compare-and-swap that succeeds loaded a value below the
  cap (`CasBelowCap`), that a pruner's time is not ahead of the clock
  (`PrunerBehind`), and what lastSeen says of the points on their way to a
  buffer (`Noted`). Without StillNew an insertion could replace a
  buffer and the count would not be preserved; without CasBelowCap the cap would
  not be. The last two theorems are about `StoreHistory`, with invariants of their
  own: `ReaderInv` follows a service that has qualified since a reader began
  through the shards to come, the entries in hand and the result (a buffer that
  is in hand is the registered one, `SameBuffer`, and never empties,
  `PointsStay`); `NewestInv` keeps the newest
  accepted point at most Lag ahead of lastSeen, since every step that
  sets lastSeen back notes a point no older than that.
- `TraceIngestion_proofs`: of the parser `NeverAnEdge`, for all texts, and
  `NoSpanLost`, for texts of every length with a value on each line; of the
  graph `CapHolds`, `VisibleReported`, `LeavesDead`, `SourcesKept`
  and `PrunedUnreported`, for every cap, threshold and interleaving of tick and
  flush. `ParseInv` says that all spans carry the one name NameRead
  returns, or none: then no two differ; `KeptInv` that the spans so far, with the
  one being read, are those of the lines so far, each at its `Rank` among the
  lines that open one and with the parents read since (`ParentsUpTo`).
  `PipelineInv` says of the graph that an edge has lost one decay with every
  update that did not report it and no other (`Decaying`), that a node was
  last seen when its service was last reported or later (`SeenSince`), and that edges
  have sources.
- `ControlLoop_proofs`: `TypeCorrect`, `OverridesSpaced`, `KnobsStay`, `FloorDecides`, `ModesConsistent`,
  and of the steps `RampsApproach` and `RampsBounded`, for every ramp rate,
  limit and window, under the relations of the thresholds that
  newRuntimeOrchestrator sets (`ThresholdAssumption`, and a queue of at least
  two). `Inv` is their conjunction: that nothing is queued between ticks
  (`QueueDrained`) is what makes the intent taken the one of this tick, and that
  an override leaves LastUnsafe set is what keeps the next tick from
  overriding. `HistoryElements` carries adjacency across the trimming.
- `Agent_proofs`: `TypeCorrect`, `OwnDirective`, `DirectiveHolds`, for every set
  of services and every interleaving of tick, maintainer and points. The first
  is about the services of both reads of a tick. The
  invariant adds what each stage of a tick may rely on (`Stages`: windows are
  dropped at its end; after Plane.Tick each has a loop that decided) and that
  a decision not waiting to be applied is in force (`InForce`). Without Stages
  a service could be analysed with a directive of a loop that was dropped.
- `Analysis_proofs`, for every set of graphs and windows and every order of
  the maps. `ReportedPathCovers`: a walk back that a cycle cut short may
  weigh less than the weight reported, every other does not. `Linked` is what
  survives of the equation dist[t] = dist[prev[t]] + weight once dist[prev[t]] has
  risen: an inequality, and it is enough for the walk back. `PathIsHeaviest`: after
  n rounds no path of up to n + 1 services is heavier than its end's dist
  (`UpTo`), and within a round the same of one more service behind the sources
  already relaxed (`Through`); a simple path has no more services than there are nodes, so
  the rounds are enough; and the walk back meets itself only where there is
  a cycle, so that it adds up to all of dist (`Weighed`). `OnlyRises` and
  `ConvergedIsSolution`: targets are monotone in the
  utilisations (`TargetMonotone`), no service starts above its target, and a damped
  step stays below it (`DampedBetween`); so the sweeps stay below the targets
  and below every solution (`Low`), and a sweep without movement has
  visited only services at their targets (`Settled`). `Solution` is the iterate
  of the targets that repeats itself: the iterates rise from Start, and their
  limits leave room for finitely many rises only (`Room`), so there is one, and
  it too is below every solution. `ScenariosDirected` compares the solutions
  of the windows and of the changed ones: a target also rises with a window's
  rate and falls with its service rate (`TargetCompare`), so the solution of
  heavier windows is above the start and the targets of lighter ones, hence
  above their least solution (`SolutionsCompare`); what a request does to a
  window makes it heavier or lighter, with all rounding (`UpCompare`, `ChangedIs`).

  How long the solver takes. `SweepsBounded`: each sweep that is followed by
  another has raised the total of the utilisations (`Climbing`), so there are no more
  than `Room` sweeps, cycles or not; `NeverOvershoots`: a solver cut off before has no
  service above the solution. Room is far above the code's cap of 50;
  `LayersSettle` says where that is enough: if every call goes to a higher one of n
  layers and h damped steps use up the highest utilisation (`Shrinks`), n * h
  sweeps are. The invariant `Progress` counts sweeps as l layers done, which
  move no more, and j steps of the next, each of which leaves at most 9/20 of
  the way (`DampedGap`). With the run's hundredths h is 6; with the code's
  epsilon of 1e-6 it is 18, so 50 sweeps are enough for two layers and no
  theorem covers three, or cycles.

  `PressureFollows`, both directions and the depth. A service that has pressure
  after k rounds is at the end of a simple path of at most k calls from one with
  traffic (`PressureFed`, by induction on the rounds; a path that meets the
  service is cut off there), and one that got more than its own has got it in
  some round from a caller (`RisesSomewhere`). Conversely along a path every
  service has at least what is left of the first one's pressure (`Along`), which
  FadingAssumption keeps above zero. upstreamDepth (`UpstreamCounts`, by induction
  on the hops left): a chain of callers that avoids the services seen is the
  chain of a caller that avoids one more, and one call longer; a call from a
  service seen closes it.
- `Startup_proofs`: `DiscoveryEnds`, `MissedLate`, `FirstAnswers`. `InTime` and
  `Paced` bound the time at each step of Discover, the first by the budget and
  the second by two time-outs per candidate; `FirstSoFar` says what a point
  under way holds.
- `SumTheorems`: SumFunctionOnSet is a recursive function, of which nothing follows
  by unfolding. `SetInduction` gets induction over finite sets from the
  well-foundedness of the strict subset relation, as a statement about a set of
  sets; with it the sum is shown to exist and to be what one gets by taking out
  any term first (`SumAny`), hence independent of the order in which the
  code walks a map, and to preserve bounds (`SumCompare`, `SumBound`).
  `Recursion` gives the function that a step function iterates, from which the
  rounds of NetworkCoupling get their values.

Model-checked only. The liveness properties (`IngestReturns`, `StaleGoes`,
`PublishedFollows`, `GoneReleased`, `SignalEnds`), which need fairness. That
fifty sweeps are enough on the cyclic graphs of the run, beyond what
`LayersSettle` covers. The four violated properties are TLC's counterexamples.

## Not modelled

- Statistics and sanitising of points (`computeWindow`, `sanitizePoint`), the
  signal and queue models, the coupler's variance, the stochastic and
  stability scores, the network field and the fluid plants, the noise: formulas
  over reals. What is modelled of them is when their state is made and deleted.
- The optimiser, the predictor and the identification (`mpc.go`, `predictor.go`,
  `identification.go`): real-valued search and estimation; their results are
  inputs of `ControlLoop`. `controller.go` is not used by the program.
- The scores of `confidence_engine.go`, `instability_engine.go`,
  `anomaly_classifier.go` and `supervisor.go`: inputs of the tick.
- The forward simulation of the what-if engine, with its random source.
- The dashboard and the HTTP handlers, which read one snapshot; data races that
  only affect a displayed counter are listed as hazards.

## Plan

1. `ControlLoop` with a history variable for the backlog measured so far, to
   show what the re-seeding of PhysicalBacklog adds; the arrival gate of
   `runtime.go:231`.
2. The engines' arithmetic where it is discrete: CUSUM reset and warm-up
   of the signal state; the coupler composed with the queue model that reads it.
3. The discrete parts of `supervisor.go` and `anomaly_classifier.go`.
4. Theorems: a bound on the solver's sweeps on graphs with cycles below Room,
   from the weights around a cycle, and the bound of the coupler's delay line.
