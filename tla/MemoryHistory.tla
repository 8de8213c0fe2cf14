---------------------------- MODULE MemoryHistory ----------------------------
(***************************************************************************)
(* RegimeMemory with history variables, and what it promises in their      *)
(* terms:                                                                  *)
(*   newest  the last entries added, newest first, at most Size            *)
(*   still   the entries added since the last reversal, at most 6          *)
(*   caps    the capacities of all entries                                 *)
(***************************************************************************)
EXTENDS RegimeMemory, Sequences

VARIABLES newest, still, caps

HistoryInit == Init /\ newest = <<>> /\ still = 6 /\ caps = {}

Noting(e) ==
  /\ newest' = SubSeq(<<e>> \o newest, 1, IF Len(newest) < Size THEN Len(newest) + 1 ELSE Size)
  /\ still' = IF Flip(e) THEN 0 ELSE IF still < 6 THEN still + 1 ELSE 6
  /\ caps' = caps \cup {e.workers}

NotedAdd(e) == Add(e) /\ Noting(e)
NotedRecreate == Recreate /\ newest' = <<>> /\ still' = 6 /\ caps' = {}

HistoryNext == NotedRecreate \/ \E e \in Entries : NotedAdd(e)
historyVars == <<vars, newest, still, caps>>
HistorySpec == HistoryInit /\ [][HistoryNext]_historyVars

-----------------------------------------------------------------------------
(* The scores are computed from the newest Size entries in their order,      *)
(* whatever the index: get(i) is the i-th entry back, across every           *)
(* wrap-around, and count never reaches a slot that was not written.         *)
ReadsNewest == count = Len(newest) /\ \A i \in 0 .. count - 1 : get(i) = newest[i + 1]

(* The hint of an oscillation expires: five ticks without a reversal, and    *)
(* the optimiser starts from the true capacity again, however long the       *)
(* oscillation lasted (GetMidRangeCap's threshold and Add's decay).          *)
HintExpires == still >= 5 => GetMidRangeCap = 0

(* The capacity the optimiser is started from lies between capacities the    *)
(* service has had, although the hint is kept from one oscillation to the    *)
(* next and blended twice.                                                   *)
StartWithinCaps ==
  \A w \in caps : \E lo, hi \in caps : lo * Fine <= StartCap(w) /\ StartCap(w) <= hi * Fine

(* The two detectors of oscillation agree: while the hint is offered (moving *)
(* average of reversals) the score read by confidence, damping and anomaly   *)
(* (weighted scan of the buffer) is above zero.                              *)
DetectorsAgree == GetMidRangeCap > 0 => GetOscillationScore > 0

(* regime_memory.go:157 and :140: a response in the expected direction is    *)
(* effect, and neutral is 'not "broken", just unknown'.  So when each action *)
(* in reach was followed by pressure that moved the way it should, the score *)
(* is no worse than neutral.                                                 *)
SuccessAtLeastNeutral ==
  LET acted == {i \in 4 .. count - 2 : get(i).action # "hold"}
      worked == \A i \in acted : IF get(i).action = "scale_up" THEN Response(i) <= 0 ELSE Response(i) >= 0
  IN  count >= 6 /\ acted # {} /\ worked => 2 * GetEffectiveness >= Unit
=============================================================================
