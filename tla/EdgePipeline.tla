---------------------------- MODULE EdgePipeline ----------------------------
(***************************************************************************)
(* How trace edges reach the topology graph, and what the tick does to it: *)
(* OTelReceiver.HandleTraces (ingestion/prom.go) sends edges on a bounded  *)
(* channel, runOTelEdgeConsumer (main.go) seeds the store, batches them    *)
(* and flushes the batch every 5 s, and doTick updates the same graph with *)
(* the store's windows, which report no calls: no source of points fills   *)
(* MetricPoint.UpstreamCalls.                                              *)
(*                                                                         *)
(* The store is reduced to the time of each service's latest point.        *)
(***************************************************************************)
EXTENDS TopologyGraph, Sequences

CONSTANTS
  Call,         \* the calls that traces contain
  ChanCap,      \* the capacity of edgeCh
  FlushWeight,  \* the weight of a flushed edge: 1 call in 10 requests
  Fresh,        \* freshnessCutoff of the tick's AllWindows
  Known         \* freshnessCutoff of the consumer's Window

ASSUME PipelineAssumption ==
  /\ Call \subseteq Pair /\ ChanCap \in Nat \ {0}
  /\ FlushWeight \in 1 .. Full
  /\ Fresh \in Nat /\ Known \in Nat

VARIABLES
  chan,       \* edgeCh
  batch,      \* the consumer's batch
  lastPoint   \* the timestamp of each service's latest point; 0 when none

vars == <<now, nodes, lastSeen, edges, weight, loaded, chan, batch, lastPoint>>

TypeOK ==
  /\ GraphTypeOK
  /\ chan \in Seq(Call) /\ Len(chan) <= ChanCap
  /\ batch \subseteq Call
  /\ lastPoint \in [Service -> 0 .. MaxTime]

Init ==
  /\ GraphInit
  /\ chan = <<>> /\ batch = {}
  /\ lastPoint = [s \in Service |-> 0]

\* The services with a point no older than age.
Within(age) == {s \in Service : lastPoint[s] # 0 /\ now - lastPoint[s] <= age}

-----------------------------------------------------------------------------
\* HandleTraces, one edge: sent if the channel has room, else dropped.
Deliver(e) ==
  /\ Len(chan) < ChanCap
  /\ chan' = Append(chan, e)
  /\ UNCHANGED <<now, graphVars, batch, lastPoint>>

Drop(e) ==
  /\ Len(chan) = ChanCap
  /\ UNCHANGED vars

\* A scraper ingests a point of s.
Scrape(s) ==
  /\ lastPoint' = [lastPoint EXCEPT ![s] = now]
  /\ UNCHANGED <<now, graphVars, chan, batch>>

\* The consumer takes an edge, and seeds the services of it that have no
\* recent point.
Consume ==
  /\ chan # <<>>
  /\ chan' = Tail(chan)
  /\ batch' = batch \cup {Head(chan)}
  /\ lastPoint' = [s \in Service |->
       IF s \in {Head(chan)[1], Head(chan)[2]} \ Within(Known) THEN now ELSE lastPoint[s]]
  /\ UNCHANGED <<now, graphVars>>

\* The consumer's ticker: a window per source, with one of the source's calls
\* (wmap[e.Source] is assigned once per call; the last one stands).
Flush ==
  /\ batch # {}
  /\ LET srcs == {e[1] : e \in batch}
     IN  \E last \in [srcs -> batch] :
           /\ \A s \in srcs : last[s][1] = s
           /\ Update(srcs, srcs, [e \in {last[s] : s \in srcs} |-> FlushWeight])
  /\ batch' = {}
  /\ UNCHANGED <<now, chan, lastPoint>>

\* doTick: the windows of the fresh services, some with traffic, no calls.
Tick ==
  /\ Within(Fresh) # {}
  /\ \E busy \in SUBSET Within(Fresh) : Update(Within(Fresh), busy, <<>>)
  /\ UNCHANGED <<now, chan, batch, lastPoint>>

Clock ==
  /\ now < MaxTime
  /\ now' = now + 1
  /\ UNCHANGED <<graphVars, chan, batch, lastPoint>>

Next ==
  \/ \E e \in Call : Deliver(e) \/ Drop(e)
  \/ \E s \in Service : Scrape(s)
  \/ Consume \/ Flush \/ Tick \/ Clock

Spec == Init /\ [][Next]_vars

=============================================================================
