--------------------------- MODULE MCEdgePipeline ---------------------------
(***************************************************************************)
(* EdgeHistory for three services, one of which calls the other two, and   *)
(* OTLPParse on one payload before the pipeline's first step.  The two     *)
(* meet only in the edges found, and the parser finds none, so they need   *)
(* not be interleaved.                                                     *)
(***************************************************************************)
EXTENDS EdgeHistory, OTLPParse, SequencesExt, TLC

CONSTANTS a, b, c, x, y, front

MCCall == {<<a, b>>, <<a, c>>}

\* The two services that a calls are interchangeable.
Interchangeable == Permutations({b, c})

MCKey(k, v) == [key |-> k, val |-> v]
MCLines ==
  {<<>>, <<MCKey("service.name", front)>>, <<MCKey("service.name", Empty)>>}
    \cup {<<MCKey("spanId", i)>> : i \in {x, y, Empty}}
    \cup {<<MCKey("parentSpanId", i)>> : i \in {x, y}}
    \cup {<<MCKey("spanId", x), MCKey("parentSpanId", y)>>,
          <<MCKey("parentSpanId", x), MCKey("spanId", y)>>,
          <<MCKey("spanId", x), MCKey("parentSpanId", Empty), MCKey("spanId", y), MCKey("parentSpanId", x)>>}
MCPayload == BoundedSeq(MCLines, 4)

-----------------------------------------------------------------------------
MCInit == HistoryInit /\ ParseInit

\* The handler has its edges, and the payload is forgotten.
Answered ==
  /\ done /\ payload # <<>>
  /\ payload' = <<>> /\ pos' = 0 /\ currentSvc' = Empty
  /\ spans' = <<>> /\ found' = {}
  /\ UNCHANGED <<currentSpan, done, historyVars>>

MCNext ==
  \/ ParseNext /\ UNCHANGED historyVars
  \/ Answered
  \/ done /\ payload = <<>> /\ HistoryNext /\ UNCHANGED parseVars

MCSpec == MCInit /\ [][MCNext]_<<historyVars, parseVars>>
=============================================================================
