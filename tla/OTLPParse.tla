------------------------------ MODULE OTLPParse ------------------------------
(***************************************************************************)
(* parseOTLPJSON of internal/agent/ingestion/prom.go: one pass over the    *)
(* lines of a trace payload, then the edges between the spans it found.    *)
(*                                                                         *)
(* A line is abstracted to the keys the pass looks for, in their order: a  *)
(* text may be printed with a key on each line or all of them on one.      *)
(* Empty is a value that is "", or that is not read because the text has a *)
(* space after the colon.  Latency, which is not computed, and IsError are *)
(* left out.                                                               *)
(***************************************************************************)
EXTENDS Naturals, Sequences, FiniteSets

CONSTANTS
  Name,     \* service names
  SpanId,   \* span ids
  Empty,
  Payload   \* the payloads received, as sequences of lines

Key == [key : {"service.name"}, val : Name \cup {Empty}]
         \cup [key : {"spanId", "parentSpanId"}, val : SpanId \cup {Empty}]
Line == Seq(Key)

ASSUME ParseAssumption == Payload \subseteq Seq(Line) /\ Empty \notin Name \cup SpanId

VARIABLES
  payload,      \* the text s
  pos,          \* the lines scanned
  currentSvc,   \* Empty until a name is read
  currentSpan,  \* the span being read; a sequence of at most one
  spans,        \* the spans completed
  found,        \* edges, the result
  done

parseVars == <<payload, pos, currentSvc, currentSpan, spans, found, done>>

Span == [svc : Name \cup {Empty}, id : SpanId \cup {Empty}, parent : SpanId \cup {Empty}]

ParseTypeOK ==
  /\ payload \in Seq(Line)
  /\ pos \in 0 .. Len(payload)
  /\ currentSvc \in Name \cup {Empty}
  /\ currentSpan \in Seq(Span) /\ Len(currentSpan) <= 1
  /\ spans \in Seq(Span)
  /\ found \subseteq Name \X Name
  /\ done \in BOOLEAN

ParseInit ==
  /\ payload \in Payload
  /\ pos = 0
  /\ currentSvc = Empty
  /\ currentSpan = <<>> /\ spans = <<>>
  /\ found = {}
  /\ done = FALSE

\* strings.Contains
Has(l, k) == \E i \in 1 .. Len(l) : l[i].key = k

\* extractJSONStringValue: the value of the first k on the line.
Read(l, k) == l[CHOOSE i \in 1 .. Len(l) : l[i].key = k /\ \A j \in 1 .. i - 1 : l[j].key # k].val

\* The name read at every "service.name" line: strings.Index searches the
\* whole text, so it is the first one in it.
NameRead ==
  LET first == CHOOSE k \in 1 .. Len(payload) :
                 /\ Has(payload[k], "service.name")
                 /\ \A j \in 1 .. k - 1 : ~Has(payload[j], "service.name")
  IN  Read(payload[first], "service.name")

\* The span being read after line l: a new one if l has a span id, with the
\* parent id of l if it has one.  A parent id before any span is ignored, and
\* so are the other spans of the line.
SpanAfter(l, svc) ==
  LET started == IF Has(l, "spanId")
                 THEN <<[svc |-> svc, id |-> Read(l, "spanId"), parent |-> Empty]>>
                 ELSE currentSpan
  IN  IF Has(l, "parentSpanId") /\ started # <<>>
      THEN <<[started[1] EXCEPT !.parent = Read(l, "parentSpanId")]>>
      ELSE started

\* One line of the scan.
ScanLine ==
  /\ pos < Len(payload)
  /\ LET l == payload[pos + 1]
         svc == IF Has(l, "service.name") /\ NameRead # Empty THEN NameRead ELSE currentSvc
     IN  /\ currentSvc' = svc
         /\ spans' = IF Has(l, "spanId") THEN spans \o currentSpan ELSE spans
         /\ currentSpan' = SpanAfter(l, svc)
  /\ pos' = pos + 1
  /\ UNCHANGED <<payload, found, done>>

\* Span j gives spanSvc[id]: the last span with that id and a service.
Decides(j, id) ==
  /\ spans[j].id = id /\ spans[j].svc # Empty
  /\ \A k \in j + 1 .. Len(spans) : spans[k].id # id \/ spans[k].svc = Empty

\* Span i makes an edge from span j: j gives the service of i's parent, and
\* it is not i's own.
CalledFrom(i, j) ==
  /\ spans[i].parent # Empty /\ spans[i].svc # Empty
  /\ Decides(j, spans[i].parent)
  /\ spans[j].svc # spans[i].svc

\* Mutated form of LastSpan: the span being read at the end is lost.
LastSpanLost == /\ pos = Len(payload) /\ currentSpan # <<>>
                /\ currentSpan' = <<>>
                /\ UNCHANGED <<payload, pos, currentSvc, spans, found, done>>

\* After the last line, the span being read is complete.
LastSpan ==
  /\ pos = Len(payload) /\ currentSpan # <<>>
  /\ spans' = spans \o currentSpan
  /\ currentSpan' = <<>>
  /\ UNCHANGED <<payload, pos, currentSvc, found, done>>

\* The edges, without repetition.
Extract ==
  /\ pos = Len(payload) /\ currentSpan = <<>> /\ ~done
  /\ LET index == 1 .. Len(spans)
         calls == {c \in index \X index : CalledFrom(c[1], c[2])}
     IN  found' = {<<spans[c[2]].svc, spans[c[1]].svc>> : c \in calls}
  /\ done' = TRUE
  /\ UNCHANGED <<payload, pos, currentSvc, currentSpan, spans>>

ParseNext == ScanLine \/ LastSpan \/ Extract

ParseSpec == ParseInit /\ [][ParseNext]_parseVars

-----------------------------------------------------------------------------
\* A text that is printed with a value on each line.
OneValuePerLine ==
  \A i \in 1 .. Len(payload) : \A m, n \in 1 .. Len(payload[i]) :
    payload[i][m].key = payload[i][n].key => m = n

\* What the lines say.  The parents of the span opened at line i are those
\* given before the next span.
SpanLines == {i \in 1 .. Len(payload) : Has(payload[i], "spanId")}

ParentLines(i) ==
  {k \in i .. Len(payload) : Has(payload[k], "parentSpanId")
                               /\ \A j \in i + 1 .. k : j \notin SpanLines}

(* Although a span is completed only by the next one or by the end of the    *)
(* text, and its parent comes on a later line: of a text with a value on     *)
(* each line the pass keeps every span, the last one included, in their      *)
(* order, and gives each the parent that the text gives it.                  *)
SpansKept ==
  done /\ OneValuePerLine =>
    /\ Len(spans) = Cardinality(SpanLines)
    /\ \A i \in SpanLines :
         LET sp == spans[Cardinality(SpanLines \cap 1 .. i)]
         IN  /\ sp.id = Read(payload[i], "spanId")
             /\ ParentLines(i) = {} => sp.parent = Empty
             /\ \A k \in ParentLines(i) :
                  ParentLines(i) = {k} => sp.parent = Read(payload[k], "parentSpanId")
=============================================================================
