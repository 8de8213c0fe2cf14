---------------------------- MODULE Agent_proofs ----------------------------
(***************************************************************************)
(* For every set of services and every interleaving of the orchestrator,   *)
(* the maintainer and the arriving points: the directives of the control   *)
(* plane are in force between two ticks, and a tick analyses the services  *)
(* it decided for with its own.                                            *)
(***************************************************************************)
EXTENDS Agent, TLAPS

(* What the windows of a read of the store are.                              *)
LEMMA WindowsTyped == TypeOK => AllWindows \in Windows /\ Fresh \subseteq Service
BY ScaleAssumption DEF TypeOK, AllWindows, Windows, Fresh, Scale

(* No windows are windows.                                                   *)
LEMMA NoWindowsTyped == NoWindows \in Windows /\ NoScales \in [Service -> Scale]
<1>1. 0 \in Scale
  BY ScaleAssumption DEF Scale
<1> QED BY <1>1 DEF NoWindows, NoScales, Windows

(* The steps of the orchestrator up to Plane.Tick keep the types.            *)
LEMMA TypeFirstHalf ==
  ASSUME TypeOK, TickBegin \/ TickWindows \/ TickFluid \/ TickControl PROVE TypeOK'
<1>1. CASE TickBegin
  BY <1>1 DEF TypeOK, TickBegin, storeVars, maintainVars
<1>2. CASE TickWindows
  BY <1>2, WindowsTyped DEF TypeOK, TickWindows, storeVars, maintainVars
<1>3. CASE TickFluid
  <2>1. tickWin.svcs \subseteq Service
    BY DEF TypeOK, Windows
  <2>2. tickWin' \in Windows
    BY <1>3, <2>1 DEF TickFluid, TypeOK, Windows
  <2>3. plants' \subseteq Service /\ pcT' = "control"
    BY <1>3, <2>1 DEF TickFluid
  <2>4. UNCHANGED <<status, scale, loops, engines, coupled, published, toApply, stateWin, toRun,
                    pcM, ids>>
    BY <1>3 DEF TickFluid, storeVars, maintainVars
  <2> QED BY <2>2, <2>3, <2>4 DEF TypeOK
<1>4. CASE TickControl
  <2>1. tickWin.svcs \subseteq Service
    BY DEF TypeOK, Windows
  <2>2. PICK d \in [tickWin.svcs -> 1 .. MaxScale] :
          loops' = [s \in Service |-> IF s \in tickWin.svcs THEN d[s] ELSE 0]
    BY <1>4 DEF TickControl
  <2>3. loops' \in [Service -> Scale]
    BY <2>1, <2>2, ScaleAssumption DEF Scale
  <2>4. toApply' \subseteq Service /\ pcT' = "apply"
    BY <1>4, <2>1 DEF TickControl
  <2>5. UNCHANGED <<status, scale, plants, engines, coupled, published, tickWin, stateWin, toRun,
                    pcM, ids>>
    BY <1>4 DEF TickControl, storeVars, maintainVars
  <2> QED BY <2>3, <2>4, <2>5 DEF TypeOK
<1> QED BY <1>1, <1>2, <1>3, <1>4

(* The others.                                                               *)
LEMMA TypeSecondHalf ==
  ASSUME TypeOK,
         \/ TickDrop \/ TickPrune \/ StateWindows \/ Publish
         \/ \E s \in Service : TickApply(s) \/ RunEngines(s)
  PROVE  TypeOK'
<1>0. PrunedStore \in [Service -> {"absent", "stale", "quiet", "fresh"}]
  BY DEF TypeOK, PrunedStore
<1>1. CASE TickDrop
  <2>1. NoScales \in [Service -> Scale]
    BY NoWindowsTyped
  <2>2. loops' = NoScales /\ pcT' \in {"reread", "prune"}
    BY <1>1 DEF TickDrop
  <2>3. UNCHANGED <<status, scale, plants, engines, coupled, published, tickWin, toApply, stateWin,
                    toRun, pcM, ids>>
    BY <1>1 DEF TickDrop, storeVars, maintainVars
  <2> QED BY <2>1, <2>2, <2>3 DEF TypeOK
<1>2. CASE TickPrune
  BY <1>0, <1>2 DEF TypeOK, TickPrune, maintainVars
<1>3. CASE StateWindows
  BY <1>3, WindowsTyped DEF TypeOK, StateWindows, storeVars, maintainVars
<1>4. CASE Publish
  <2>1. NoWindows \in Windows
    BY NoWindowsTyped
  <2>2. stateWin.svcs \subseteq Service
    BY DEF TypeOK, Windows
  <2> QED BY <1>4, <2>1, <2>2 DEF TypeOK, Publish, storeVars, maintainVars
<1>5. ASSUME NEW s \in Service, TickApply(s) PROVE TypeOK'
  BY <1>5 DEF TypeOK, TickApply, maintainVars
<1>6. ASSUME NEW s \in Service, RunEngines(s) PROVE TypeOK'
  BY <1>6 DEF TypeOK, RunEngines, storeVars, maintainVars
<1> QED BY <1>1, <1>2, <1>3, <1>4, <1>5, <1>6

(* Points and the maintainer.                                                *)
LEMMA TypeOthers ==
  ASSUME TypeOK, MaintainStep \/ \E s \in Service : Arrive(s) \/ Age(s)
  PROVE  TypeOK'
<1>0. PrunedStore \in [Service -> {"absent", "stale", "quiet", "fresh"}]
  BY DEF TypeOK, PrunedStore
<1>1. CASE MaintainBegin
  BY <1>1 DEF TypeOK, MaintainBegin, storeVars, tickVars, Registered
<1>2. CASE MaintainEngines
  BY <1>2 DEF TypeOK, MaintainEngines, storeVars, tickVars
<1>3. CASE MaintainStore
  BY <1>0, <1>3 DEF TypeOK, MaintainStore, tickVars
<1>4. CASE MaintainPlants
  BY <1>4 DEF TypeOK, MaintainPlants, storeVars, tickVars
<1>5. ASSUME NEW s \in Service, Arrive(s) PROVE TypeOK'
  BY <1>5 DEF TypeOK, Arrive, tickVars, maintainVars
<1>6. ASSUME NEW s \in Service, Age(s) PROVE TypeOK'
  BY <1>6 DEF TypeOK, Age, tickVars, maintainVars
<1> QED BY <1>1, <1>2, <1>3, <1>4, <1>5, <1>6 DEF MaintainStep

(* Types are an invariant.                                                   *)
THEOREM TypeCorrect == Spec => []TypeOK
<1>1. Init => TypeOK
  BY NoWindowsTyped DEF Init, TypeOK
<1>2. TypeOK /\ [Next]_vars => TypeOK'
  <2>1. ASSUME TypeOK, Next PROVE TypeOK'
    BY <2>1, TypeFirstHalf, TypeSecondHalf, TypeOthers DEF Next, TickStep
  <2>2. ASSUME TypeOK, UNCHANGED vars PROVE TypeOK'
    BY <2>2 DEF TypeOK, vars
  <2> QED BY <2>1, <2>2
<1> QED BY <1>1, <1>2, PTL DEF Spec

-----------------------------------------------------------------------------
(* What each stage of a tick may rely on: the windows it reads are dropped   *)
(* at its end, and once Plane.Tick has run, every window has a loop that     *)
(* decided.                                                                  *)
Stages ==
  /\ pcT \in {"idle", "windows", "drop", "dropPrune"} => tickWin.svcs = {}
  /\ pcT \in {"apply", "prune", "reread", "run", "publish"} =>
       \A s \in tickWin.svcs : loops[s] # 0
  /\ pcT \notin {"run", "publish"} => stateWin.svcs = {}
  /\ pcT # "apply" => toApply = {}

(* A decision that is not waiting to be applied is in force: the invariant   *)
(* of which DirectiveInForce is the case between two ticks.                  *)
InForce == \A s \in Service \ toApply : loops[s] # 0 => scale[s] = loops[s]

IInv == TypeOK /\ Stages /\ InForce /\ AnalysedWithOwnDirective

Rest == Stages /\ InForce /\ AnalysedWithOwnDirective
view == <<pcT, tickWin, toApply, stateWin, scale, loops>>

(* A step that leaves these variables alone keeps the invariant.             *)
LEMMA ViewKeeps == Rest /\ UNCHANGED view => Rest'
BY DEF Rest, Stages, InForce, AnalysedWithOwnDirective, view

(* Each step of the orchestrator keeps it.                                   *)
LEMMA TickKeeps ==
  ASSUME IInv, TickStep PROVE Rest'
<1> USE DEF Rest, Stages, InForce, AnalysedWithOwnDirective
<1>0. tickWin.svcs \subseteq Service /\ stateWin.svcs \subseteq Service
  BY DEF IInv, TypeOK, Windows
<1>1. CASE TickBegin
  BY <1>1 DEF TickBegin, IInv, storeVars
<1>2. CASE TickWindows
  BY <1>2 DEF TickWindows, IInv, storeVars, AllWindows
<1>3. CASE TickFluid
  BY <1>3 DEF TickFluid, IInv, storeVars
<1>4. CASE TickControl
  <2>1. PICK d \in [tickWin.svcs -> 1 .. MaxScale] :
          loops' = [s \in Service |-> IF s \in tickWin.svcs THEN d[s] ELSE 0]
    BY <1>4 DEF TickControl
  <2>2. \A s \in tickWin.svcs : loops'[s] # 0
    BY <1>0, <2>1, ScaleAssumption
  <2>3. \A s \in Service \ tickWin.svcs : loops'[s] = 0
    BY <2>1
  <2>4. /\ pcT = "control" /\ pcT' = "apply" /\ toApply' = tickWin.svcs
        /\ UNCHANGED <<tickWin, stateWin, scale>>
    BY <1>4 DEF TickControl, storeVars
  <2>5. stateWin.svcs = {}
    BY <2>4 DEF IInv
  <2> QED BY <2>2, <2>3, <2>4, <2>5
<1>5. CASE TickDrop
  <2>1. tickWin.svcs = {} /\ stateWin.svcs = {} /\ toApply = {}
    BY <1>5 DEF TickDrop, IInv
  <2>2. /\ loops' = NoScales /\ pcT' \in {"reread", "prune"}
        /\ UNCHANGED <<tickWin, toApply, stateWin, scale>>
    BY <1>5 DEF TickDrop, storeVars
  <2> QED BY <2>1, <2>2 DEF NoScales
<1>6. CASE TickPrune
  BY <1>6 DEF TickPrune, IInv
<1>7. CASE StateWindows
  <2>1. /\ pcT = "reread" /\ stateWin' = AllWindows /\ toApply = {}
        /\ pcT' = IF Fresh # {} THEN "run" ELSE "publish"
        /\ UNCHANGED <<tickWin, toApply, loops, scale>>
    BY <1>7 DEF StateWindows, storeVars, IInv
  <2>2. \A s \in tickWin.svcs : loops[s] # 0 /\ scale[s] = loops[s]
    BY <1>0, <2>1 DEF IInv
  <2>3. \A s \in Fresh : stateWin'.scale[s] = scale[s]
    BY <2>1 DEF AllWindows, Fresh
  <2>4. stateWin'.svcs = Fresh
    BY <2>1 DEF AllWindows
  <2>5. AnalysedWithOwnDirective'
    BY <2>1, <2>2, <2>3, <2>4
  <2>6. Stages' /\ InForce'
    BY <2>1, <2>2 DEF IInv
  <2> QED BY <2>5, <2>6
<1>8. CASE Publish
  BY <1>8 DEF Publish, IInv, storeVars, NoWindows
<1>9. ASSUME NEW s \in Service, TickApply(s) PROVE Rest'
  <2>1. /\ pcT = "apply" /\ s \in toApply
        /\ scale' = [scale EXCEPT ![s] = loops[s]]
        /\ toApply' = toApply \ {s}
        /\ pcT' = IF toApply = {s} THEN "prune" ELSE "apply"
        /\ UNCHANGED <<tickWin, stateWin, loops>>
    BY <1>9 DEF TickApply
  <2>2. scale \in [Service -> Scale]
    BY DEF IInv, TypeOK
  <2>3. stateWin.svcs = {}
    BY <2>1 DEF IInv
  <2>4. InForce'
    BY <2>1, <2>2 DEF IInv
  <2>5. Stages'
    BY <2>1, <2>3 DEF IInv
  <2> QED BY <2>1, <2>3, <2>4, <2>5
<1>10. ASSUME NEW s \in Service, RunEngines(s) PROVE Rest'
  BY <1>10 DEF RunEngines, IInv, storeVars
<1> QED BY <1>1, <1>2, <1>3, <1>4, <1>5, <1>6, <1>7, <1>8, <1>9, <1>10 DEF TickStep

(* The invariant holds throughout.                                           *)
LEMMA Inductive == Spec => []IInv
<1>1. Init => Rest
  BY DEF Init, Rest, Stages, InForce, AnalysedWithOwnDirective, NoWindows, NoScales
<1>2. TypeOK /\ Rest /\ [Next]_vars => Rest'
  <2> SUFFICES ASSUME TypeOK, Rest, [Next]_vars PROVE Rest'
    OBVIOUS
  <2>1. CASE TickStep
    BY <2>1, TickKeeps DEF IInv, Rest
  <2>2. CASE UNCHANGED view
    BY <2>2, ViewKeeps
  <2>3. CASE MaintainStep
    BY <2>3, ViewKeeps DEF MaintainStep, MaintainBegin, MaintainEngines, MaintainStore,
                           MaintainPlants, storeVars, tickVars, view
  <2>4. ASSUME NEW s \in Service, Arrive(s) \/ Age(s) PROVE Rest'
    BY <2>4, ViewKeeps DEF Arrive, Age, tickVars, view
  <2>5. CASE UNCHANGED vars
    BY <2>5, ViewKeeps DEF vars, view
  <2> QED BY <2>1, <2>3, <2>4, <2>5 DEF Next
<1>3. TypeOK /\ Rest => IInv
  BY DEF Rest, IInv
<1> QED BY <1>1, <1>2, <1>3, TypeCorrect, PTL DEF Spec

(* computeState reads the store a second time after the directives were      *)
(* applied: a service that was in the first read too is analysed with the    *)
(* directive of this tick.                                                   *)
THEOREM OwnDirective == Spec => []AnalysedWithOwnDirective
BY Inductive, PTL DEF IInv

(* What /api/control shows of a control loop between two ticks is what the   *)
(* store holds for its service.                                              *)
THEOREM DirectiveHolds == Spec => []DirectiveInForce
<1>1. IInv => DirectiveInForce
  BY DEF IInv, Stages, InForce, DirectiveInForce
<1> QED BY <1>1, Inductive, PTL
=============================================================================
