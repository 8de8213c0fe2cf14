-------------------------------- MODULE Agent --------------------------------
(***************************************************************************)
(* cmd/qphysics-agent/main.go with the parts of api/server.go,             *)
(* control/autopilot.go and modelling/{signal,queueing,coupler}.go it      *)
(* drives: the orchestrator's tick, the topology maintainer, and the       *)
(* per-service state they share.  A step is the code between two lock      *)
(* regions.                                                                *)
(*                                                                         *)
(* The store is what TelemetryStore promises, seen through its two ages: a *)
(* service is fresh (AllWindows returns it), quiet, stale (Prune removes   *)
(* it) or absent.  A window is abstracted to the scale directive it        *)
(* carries and to whether its Hazard is the plant's; a control loop to the *)
(* scale of its latest decision.                                           *)
(***************************************************************************)
EXTENDS Naturals, FiniteSets

CONSTANTS
  Service,   \* the service identifiers
  MaxScale   \* bound: scale directives are 1 .. MaxScale; 0 is "none"

ASSUME ScaleAssumption == MaxScale \in Nat \ {0}

Scale == 0 .. MaxScale
NoScales == [s \in Service |-> 0]

VARIABLES
  status,     \* each service in the store
  scale,      \* store.appliedScales
  plants,     \* the services with a fluid plant
  loops,      \* Plane.loops and Plane.latest: the scale of each loop's last decision
  engines,    \* the services with a signalPerService and a PhysicalQueueState
  coupled,    \* the services with a couplerState
  published,  \* the services of Server.state
  pcT,        \* where the orchestrator is in doTick
  tickWin,    \* doTick's windows
  toApply,    \* the updates Plane.Tick has not applied yet
  stateWin,   \* computeState's windows
  toRun,      \* the services whose goroutine is still to run
  pcM,        \* where the maintainer is
  ids         \* its activeSet

storeVars == <<status, scale>>
tickVars == <<pcT, tickWin, toApply, stateWin, toRun>>
maintainVars == <<pcM, ids>>
vars == <<status, scale, plants, loops, engines, coupled, published,
          pcT, tickWin, toApply, stateWin, toRun, pcM, ids>>

Windows == [svcs : SUBSET Service, scale : [Service -> Scale], hazard : SUBSET Service]

TypeOK ==
  /\ status \in [Service -> {"absent", "stale", "quiet", "fresh"}]
  /\ scale \in [Service -> Scale]
  /\ plants \subseteq Service
  /\ loops \in [Service -> Scale]
  /\ engines \subseteq Service
  /\ coupled \subseteq Service /\ published \subseteq Service
  /\ pcT \in {"idle", "windows", "fluid", "control", "apply", "drop", "dropPrune", "prune",
              "reread", "run", "publish"}
  /\ tickWin \in Windows /\ stateWin \in Windows
  /\ toApply \subseteq Service /\ toRun \subseteq Service
  /\ pcM \in {"idle", "engines", "store", "plants"}
  /\ ids \subseteq Service

Registered == {s \in Service : status[s] # "absent"}
Fresh == {s \in Service : status[s] = "fresh"}

NoWindows == [svcs |-> {}, scale |-> NoScales, hazard |-> {}]

\* store.AllWindows(60, 30s): computeWindow leaves Hazard and Reservoir at zero.
AllWindows == [svcs   |-> Fresh,
               scale  |-> [s \in Service |-> IF s \in Fresh THEN scale[s] ELSE 0],
               hazard |-> {}]

\* store.Prune
PrunedStore == [s \in Service |-> IF status[s] = "stale" THEN "absent" ELSE status[s]]

Init ==
  /\ status = [s \in Service |-> "absent"]
  /\ scale = NoScales
  /\ plants = {} /\ loops = NoScales /\ engines = {}
  /\ coupled = {} /\ published = {}
  /\ pcT = "idle" /\ tickWin = NoWindows /\ stateWin = NoWindows
  /\ toApply = {} /\ toRun = {}
  /\ pcM = "idle" /\ ids = {}

-----------------------------------------------------------------------------
\* A scraper, or the edge consumer, ingests a point of s.
Arrive(s) ==
  /\ status[s] # "fresh"
  /\ status' = [status EXCEPT ![s] = "fresh"]
  /\ UNCHANGED <<scale, plants, loops, engines, coupled, published, tickVars, maintainVars>>

\* Time passes with no point of s: 30 s, then 5 min.
Age(s) ==
  /\ \/ status[s] = "fresh" /\ status' = [status EXCEPT ![s] = "quiet"]
     \/ status[s] = "quiet" /\ status' = [status EXCEPT ![s] = "stale"]
  /\ UNCHANGED <<scale, plants, loops, engines, coupled, published, tickVars, maintainVars>>

-----------------------------------------------------------------------------
\* doTick: store.HasServices.
TickBegin ==
  /\ pcT = "idle"
  /\ pcT' = IF Registered # {} THEN "windows" ELSE "drop"
  /\ UNCHANGED <<storeVars, plants, loops, engines, coupled, published,
                 tickWin, toApply, stateWin, toRun, maintainVars>>

\* store.AllWindows; graph.Update and graph.Snapshot follow when there are any.
TickWindows ==
  /\ pcT = "windows"
  /\ tickWin' = AllWindows
  /\ pcT' = IF Fresh # {} THEN "fluid" ELSE "dropPrune"
  /\ UNCHANGED <<storeVars, plants, loops, engines, coupled, published,
                 toApply, stateWin, toRun, maintainVars>>

\* updateFluidStates: Hazard and Reservoir go into doTick's windows; plants of
\* services with no window are deleted.
TickFluid ==
  /\ pcT = "fluid"
  /\ plants' = tickWin.svcs
  /\ tickWin' = [tickWin EXCEPT !.hazard = tickWin.svcs]
  /\ pcT' = "control"
  /\ UNCHANGED <<storeVars, loops, engines, coupled, published,
                 toApply, stateWin, toRun, maintainVars>>

\* Plane.Tick, under Plane.mu: every window's loop is created if missing and
\* takes one step; other loops are dropped.  Capacity and observed capacity
\* both move, so capacityScale may land anywhere within its clamp.
TickControl ==
  /\ pcT = "control"
  /\ \E d \in [tickWin.svcs -> 1 .. MaxScale] :
       loops' = [s \in Service |-> IF s \in tickWin.svcs THEN d[s] ELSE 0]
  /\ toApply' = tickWin.svcs
  /\ pcT' = "apply"
  /\ UNCHANGED <<storeVars, plants, engines, coupled, published,
                 tickWin, stateWin, toRun, maintainVars>>

\* Mutated form of TickApply: a directive is applied only to a service that
\* has none yet.
TickApplyOnce(s) ==
  /\ pcT = "apply"
  /\ s \in toApply
  /\ scale' = IF scale[s] = 0 THEN [scale EXCEPT ![s] = loops[s]] ELSE scale
  /\ toApply' = toApply \ {s}
  /\ pcT' = IF toApply = {s} THEN "prune" ELSE "apply"
  /\ UNCHANGED <<status, plants, loops, engines, coupled, published,
                 tickWin, stateWin, toRun, maintainVars>>

\* Mutated form of TickApply: a directive is kept only for a service that
\* still reports.
TickApplyIfFresh(s) ==
  /\ pcT = "apply"
  /\ s \in toApply
  /\ scale' = IF status[s] = "fresh" THEN [scale EXCEPT ![s] = loops[s]] ELSE scale
  /\ toApply' = toApply \ {s}
  /\ pcT' = IF toApply = {s} THEN "prune" ELSE "apply"
  /\ UNCHANGED <<status, plants, loops, engines, coupled, published,
                 tickWin, stateWin, toRun, maintainVars>>

\* The apply loop of Plane.Tick: store.SetAppliedScale, with no lock held.
TickApply(s) ==
  /\ pcT = "apply"
  /\ s \in toApply
  /\ scale' = [scale EXCEPT ![s] = loops[s]]
  /\ toApply' = toApply \ {s}
  /\ pcT' = IF toApply = {s} THEN "prune" ELSE "apply"
  /\ UNCHANGED <<status, plants, loops, engines, coupled, published,
                 tickWin, stateWin, toRun, maintainVars>>

\* No service, or no window: Plane.PruneActive(nil) drops every loop.  The
\* applied scales stay.
TickDrop ==
  /\ \/ pcT = "drop" /\ pcT' = "reread"
     \/ pcT = "dropPrune" /\ pcT' = "prune"
  /\ loops' = NoScales
  /\ UNCHANGED <<storeVars, plants, engines, coupled, published,
                 tickWin, toApply, stateWin, toRun, maintainVars>>

TickPrune ==
  /\ pcT = "prune"
  /\ status' = PrunedStore
  /\ pcT' = "reread"
  /\ UNCHANGED <<scale, plants, loops, engines, coupled, published,
                 tickWin, toApply, stateWin, toRun, maintainVars>>

-----------------------------------------------------------------------------
\* srv.UpdateState -> computeState reads the store again; with no window it
\* returns at once, else the coupler takes one step for the windows and drops
\* its other states, and computeState starts one goroutine per window.
StateWindows ==
  /\ pcT = "reread"
  /\ stateWin' = AllWindows
  /\ toRun' = Fresh
  /\ coupled' = IF Fresh # {} THEN Fresh ELSE coupled
  /\ pcT' = IF Fresh # {} THEN "run" ELSE "publish"
  /\ UNCHANGED <<storeVars, plants, loops, engines, published,
                 tickWin, toApply, maintainVars>>

\* One service's goroutine: sigProc.Update and qEngine.RunQueueModel create
\* their states if missing.  The last one releases wg.Wait.
RunEngines(s) ==
  /\ pcT = "run"
  /\ s \in toRun
  /\ engines' = engines \cup {s}
  /\ toRun' = toRun \ {s}
  /\ pcT' = IF toRun = {s} THEN "publish" ELSE "run"
  /\ UNCHANGED <<storeVars, plants, loops, coupled, published,
                 tickWin, toApply, stateWin, maintainVars>>

\* Mutated form of Publish: a state is stored only when it has services.
PublishIfAny ==
  /\ pcT = "publish"
  /\ published' = IF stateWin.svcs = {} THEN published ELSE stateWin.svcs
  /\ tickWin' = NoWindows /\ stateWin' = NoWindows
  /\ pcT' = "idle"
  /\ UNCHANGED <<storeVars, plants, loops, engines, coupled, toApply, toRun, maintainVars>>

\* UpdateState stores the new state under Server.mu; the tick ends.
Publish ==
  /\ pcT = "publish"
  /\ published' = stateWin.svcs
  /\ tickWin' = NoWindows /\ stateWin' = NoWindows
  /\ pcT' = "idle"
  /\ UNCHANGED <<storeVars, plants, loops, engines, coupled, toApply, toRun, maintainVars>>

-----------------------------------------------------------------------------
\* runTopologyMaintainer: store.ServiceIDs.
MaintainBegin ==
  /\ pcM = "idle"
  /\ ids' = Registered
  /\ pcM' = "engines"
  /\ UNCHANGED <<storeVars, plants, loops, engines, coupled, published, tickVars>>

\* qEngine.Prune and sigProc.Prune.
MaintainEngines ==
  /\ pcM = "engines"
  /\ engines' = engines \cap ids
  /\ pcM' = "store"
  /\ UNCHANGED <<storeVars, plants, loops, coupled, published, tickVars, ids>>

MaintainStore ==
  /\ pcM = "store"
  /\ status' = PrunedStore
  /\ pcM' = "plants"
  /\ UNCHANGED <<scale, plants, loops, engines, coupled, published, tickVars, ids>>

\* Mutated form of MaintainPlants: the maintainer leaves the plants alone.
MaintainNoPlants ==
  /\ pcM = "plants"
  /\ ids' = {}
  /\ pcM' = "idle"
  /\ UNCHANGED <<storeVars, plants, loops, engines, coupled, published, tickVars>>

\* The fluid plants, under plantMu.
MaintainPlants ==
  /\ pcM = "plants"
  /\ plants' = plants \cap ids
  /\ ids' = {}
  /\ pcM' = "idle"
  /\ UNCHANGED <<storeVars, loops, engines, coupled, published, tickVars>>

-----------------------------------------------------------------------------
TickStep ==
  \/ TickBegin \/ TickWindows \/ TickFluid \/ TickControl \/ TickDrop \/ TickPrune
  \/ StateWindows \/ Publish
  \/ \E s \in Service : TickApply(s) \/ RunEngines(s)

MaintainStep ==
  MaintainBegin \/ MaintainEngines \/ MaintainStore \/ MaintainPlants

Next ==
  \/ \E s \in Service : Arrive(s) \/ Age(s)
  \/ TickStep
  \/ MaintainStep

Spec == Init /\ [][Next]_vars

\* Both loops run off tickers for as long as the agent does.  Points need not
\* arrive, and need not stop arriving.
Fairness == WF_vars(TickStep) /\ WF_vars(MaintainStep)

FairSpec == Spec /\ Fairness

-----------------------------------------------------------------------------
(* A service the control plane decided for in this tick is analysed with     *)
(* that decision: of a service of both reads, computeState's second          *)
(* AllWindows reads the directive this tick applied, although directives     *)
(* outlive the loops that issued them (SetAppliedScale after Plane.mu is     *)
(* released).  A service that came back between the reads is analysed with   *)
(* the directive it had before.                                              *)
AnalysedWithOwnDirective ==
  \A s \in stateWin.svcs \cap tickWin.svcs : stateWin.scale[s] = loops[s]

(* Between two ticks the store holds, for every control loop, exactly the    *)
(* loop's latest decision: what /api/control shows is in force.              *)
DirectiveInForce ==
  pcT = "idle" => \A s \in Service : loops[s] # 0 => scale[s] = loops[s]

(* The dashboard follows the store: a service that keeps reporting is        *)
(* published, and one that stays silent leaves the published state.          *)
PublishedFollows ==
  \A s \in Service :
    /\ status[s] = "fresh" ~> s \in published \/ status[s] # "fresh"
    /\ status[s] = "absent" ~> s \notin published \/ status[s] # "absent"

(* The plant, the control loop and the engine states of a service that is    *)
(* gone and stays away are released, even when no window is left at all.     *)
GoneReleased ==
  \A s \in Service :
    status[s] = "absent"
      ~> status[s] # "absent" \/ (s \notin plants \cup engines /\ loops[s] = 0)
=============================================================================
