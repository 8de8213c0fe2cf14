---------------------------- MODULE EdgeHistory ----------------------------
(***************************************************************************)
(* EdgePipeline with history variables for its properties:                 *)
(*   silent[e]   the updates since one last reported the call e            *)
(*   reported[s] the time a window of s last reached the graph             *)
(*   refused     the services with a window that found the graph full and  *)
(*               have had no node since                                    *)
(***************************************************************************)
EXTENDS EdgePipeline

VARIABLES silent, reported, refused

HistoryInit ==
  /\ Init
  /\ silent = [e \in Call |-> 0]
  /\ reported = [s \in Service |-> 0]
  /\ refused = {}

Quiet == UNCHANGED <<silent, reported, refused>>

\* An Update that reported win and rep.
Noted(win, rep) ==
  /\ silent' = [e \in Call |-> IF e \in rep \/ e \notin edges' THEN 0 ELSE silent[e] + 1]
  /\ reported' = [s \in Service |-> IF s \notin nodes' THEN 0
                                    ELSE IF s \in win THEN now ELSE reported[s]]
  /\ refused' = (refused \cup win) \ nodes'

HistoryNext ==
  \/ (\E e \in Call : Deliver(e) \/ Drop(e)) /\ Quiet
  \/ (\E s \in Service : Scrape(s)) /\ Quiet
  \/ Consume /\ Quiet
  \/ Clock /\ Quiet
  \/ Tick /\ Noted(Within(Fresh), {})
  \/ Flush /\ Noted({e[1] : e \in batch}, {e \in batch : weight'[e] = FlushWeight})

historyVars == <<vars, silent, reported, refused>>
HistorySpec == HistoryInit /\ [][HistoryNext]_historyVars

-----------------------------------------------------------------------------
(* An edge of a snapshot is a recent one: one of the last updates, whichever *)
(* of the two threads made them, reported it.                                *)
VisibleIsRecent == \A e \in SnapshotEdges : silent[e] <= Full - Visible

(* An edge leaves the graph only when no update reported it for as many      *)
(* updates as its weight lasts, or when its source is pruned: no update of   *)
(* the other thread takes away a call that is still reported, and none goes  *)
(* with its target.                                                          *)
EdgeLeavesOnlyIfDead ==
  [][\A e \in edges \ edges' :
       silent[e] + 1 >= FlushWeight \/ e[1] \in nodes \ nodes']_historyVars

(* A node is pruned only when no window of its service reached the graph for *)
(* longer than the staleness age.                                            *)
PrunedOnlyIfUnreported ==
  [][\A s \in nodes \ nodes' : now - reported[s] > StaleAge]_historyVars

(* An edge leaves a node of the graph: whichever thread decays, prunes or    *)
(* reports it, its source has a node, or had found the graph full when it    *)
(* reported the call.  (Its target need not have one: it is pruned with the  *)
(* edges it is the source of only.)                                          *)
EdgesHaveSource == \A e \in edges : e[1] \in nodes \cup refused
=============================================================================
