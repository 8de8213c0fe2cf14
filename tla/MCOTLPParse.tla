----------------------------- MODULE MCOTLPParse -----------------------------
(***************************************************************************)
(* OTLPParse on all texts of TextKeys keys in which no service and no span *)
(* is given twice, each printed with one key per line and on a single      *)
(* line.                                                                   *)
(***************************************************************************)
EXTENDS OTLPParse, SequencesExt

CONSTANT TextKeys  \* a bound of the check: the keys of a text

MCKeys == {k \in Key : k.val # Empty}
MCTexts ==
  {text \in [1 .. TextKeys -> MCKeys] :
     \A i, j \in 1 .. TextKeys : text[i] = text[j] => i = j \/ text[i].key = "parentSpanId"}
MCPayload == UNION {{<<text>>, [i \in DOMAIN text |-> <<text[i]>>]} : text \in MCTexts}

-----------------------------------------------------------------------------
\* What the text says: a span belongs to the service named last before it,
\* and has the parents given between it and the next span.
Text == FlattenSeq(payload)
At(key) == {i \in DOMAIN Text : Text[i].key = key}

ServiceOf(i) ==
  {Text[n].val : n \in {n \in At("service.name") : n < i /\ \A m \in At("service.name") : m <= n \/ m > i}}

ParentOf(i) ==
  {Text[n].val : n \in {n \in At("parentSpanId") : n > i /\ \A j \in At("spanId") : j <= i \/ j > n}}

Calls ==
  UNION {ServiceOf(c[1]) \X ServiceOf(c[2]) :
           c \in {d \in At("spanId") \X At("spanId") : Text[d[1]].val \in ParentOf(d[2])}}

(* readme.md: "Parses span parent/child -> topology edges"; prom.go: "This   *)
(* handles the common case correctly".  A parent span in another service     *)
(* makes an edge.                                                            *)
CallsFound == done => \A c \in Calls : c[1] # c[2] => c \in found
=============================================================================
