---------------------------- MODULE StoreHistory ----------------------------
(***************************************************************************)
(* TelemetryStore with two history variables, which no step reads:         *)
(*   steady[r]  the services that have been registered, fresh for r and    *)
(*              with points in their buffer ever since r entered           *)
(*              AllWindows                                                 *)
(*   newest[s]  the newest timestamp accepted for s since it was inserted  *)
(***************************************************************************)
EXTENDS TelemetryStore, FiniteSetsExt

VARIABLES steady, newest

Readable(s, t) == buffers[s] # None /\ ring[buffers[s]] # <<>> /\ t - lastSeen[s] <= Cutoff

HistoryInit ==
  /\ Init
  /\ steady = [r \in Reader |-> {}]
  /\ newest = [s \in Service |-> 0]

SteadyAfter(r) ==
  CASE pcR[r] = "idle" /\ pcR'[r] = "collect" -> {s \in Service : Readable(s, now)}
    [] pcR[r] = "collect" ->
         {s \in steady[r] : s \in Registered' /\ nowR[r] - lastSeen'[s] <= Cutoff}
    [] pcR'[r] = "compute" -> steady[r]
    [] OTHER -> {}

\* The timestamps of s that this step accepts.
Accepted(s) ==
  {op[i].ts : i \in {j \in Ingester : /\ op[j].svc = s
                                      /\ pcI[j] \in {"lookup", "insert"} /\ pcI'[j] = "append"}}

Remembered ==
  /\ steady' = [r \in Reader |-> SteadyAfter(r)]
  /\ newest' = [s \in Service |->
       IF s \in Registered' THEN Max({newest[s]} \cup Accepted(s)) ELSE 0]

HistoryNext == Next /\ Remembered
historyVars == <<vars, steady, newest>>
HistorySpec == HistoryInit /\ [][HistoryNext]_historyVars
FairHistorySpec == HistorySpec /\ Fairness

-----------------------------------------------------------------------------
(* AllWindows misses no service: one that stays registered and fresh while   *)
(* the shards are visited, and had points when the call began, has a window  *)
(* at the end, and the early return on svcCount = 0 is taken only when no    *)
(* service is registered.                                                    *)
NothingMissed ==
  /\ \A r \in Reader : pcR[r] = "compute" /\ entries[r] = {} => steady[r] \subseteq windows[r]
  /\ svcCount = 0 => Registered = {}

(* A service is pruned only when every point accepted for it is older than   *)
(* StaleAge - Lag: lastSeen may step back when two scrapers of one service   *)
(* finish out of order, but never by more than Lag.                          *)
PrunedOnlyIfSilent ==
  [][\A s \in Service : s \in Registered /\ s \notin Registered' =>
       now - newest[s] > StaleAge - Lag]_historyVars
=============================================================================
