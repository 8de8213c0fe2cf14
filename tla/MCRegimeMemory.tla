--------------------------- MODULE MCRegimeMemory ---------------------------
(***************************************************************************)
(* RegimeMemory and its history for TLC: three kinds of entry, and at most *)
(* MaxTicks ticks before the loop is dropped.                              *)
(***************************************************************************)
EXTENDS MemoryHistory

CONSTANT MaxTicks  \* a bound of the check: ticks in the life of one loop

VARIABLE ticks  \* the ticks of this loop

\* A loaded service that is scaled up, a quiet one scaled down, and a pause.
MCEntries ==
  {[action |-> "scale_up",   workers |-> 1, inst |-> 2, back |-> 2, conf |-> 0],
   [action |-> "scale_down", workers |-> 3, inst |-> 0, back |-> 1, conf |-> 2],
   [action |-> "hold",       workers |-> 2, inst |-> 0, back |-> 0, conf |-> 2]}

MCInit == HistoryInit /\ ticks = 0

MCNext ==
  \/ ticks < MaxTicks /\ ticks' = ticks + 1 /\ \E e \in Entries : NotedAdd(e)
  \/ NotedRecreate /\ ticks' = 0

MCSpec == MCInit /\ [][MCNext]_<<historyVars, ticks>>
=============================================================================
