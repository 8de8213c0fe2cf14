----------------------------- MODULE PromScraper -----------------------------
(***************************************************************************)
(* ingestion/prom.go, PromScraper: the cycle of one scraper (scrapers only *)
(* share the store).  A cycle makes its queries one after the other, and   *)
(* each may fail.  A point is created by the first query that names its    *)
(* service, completed by the later ones, and ingested at the end.          *)
(*                                                                         *)
(* A point is abstracted to the query its rate is from and the one its     *)
(* mean latency is from (0: none).                                         *)
(***************************************************************************)
EXTENDS Integers, FiniteSets

CONSTANTS
  Service,       \* the values of the job label
  Queries,       \* the number of queries (12)
  RateQ, LatQ    \* the numbers of those for the rate (1 .. 3), the latency (5, 6)

ASSUME ScraperAssumption ==
  /\ Queries \in Nat \ {0}
  /\ RateQ \subseteq 1 .. Queries /\ LatQ \subseteq 1 .. Queries

VARIABLES
  query,     \* the query of scrapeAll that is next; 0 between two cycles
  points,    \* the services with a point in this cycle
  rate,      \* the query that set each point's RequestRate
  latency,   \* the query that set each point's Latency.Mean
  ingested,  \* each service's point ingested in this cycle
  nonzero    \* history: each service's queries answered with a value other than 0

scrapeVars == <<query, points, rate, latency, ingested, nonzero>>

Zero == [s \in Service |-> 0]
Point == [rate : RateQ \cup {0}, latency : LatQ \cup {0, -1},
          true : SUBSET (1 .. Queries)]
NoPoint == [rate |-> 0, latency |-> 0, true |-> {}]

ScrapeTypeOK ==
  /\ query \in 0 .. Queries + 1
  /\ points \subseteq Service
  /\ rate \in [Service -> RateQ \cup {0}] /\ latency \in [Service -> LatQ \cup {0}]
  /\ ingested \in [Service -> Point]
  /\ nonzero \in [Service -> SUBSET (1 .. Queries)]

ScrapeInit ==
  /\ query = 0 /\ points = {} /\ rate = Zero /\ latency = Zero
  /\ ingested = [s \in Service |-> NoPoint] /\ nonzero = [s \in Service |-> {}]

\* A tick of Run starts scrapeAll.
ScrapeBegin ==
  /\ query = 0
  /\ query' = 1 /\ points' = {} /\ rate' = Zero /\ latency' = Zero
  /\ nonzero' = [s \in Service |-> {}]
  /\ ingested' = [s \in Service |-> NoPoint]

\* Mutated form of SetOnce: a later answer overwrites.
SetLast(old, qs, pos) == [s \in Service |-> IF query \in qs /\ s \in pos THEN query ELSE old[s]]

\* The setters of rate and latency: the first value other than zero stays.
SetOnce(old, qs, pos) ==
  [s \in Service |-> IF query \in qs /\ s \in pos /\ old[s] = 0 THEN query ELSE old[s]]

\* queryPrometheus, and the loop over its result: it names the services in
\* named, with a value other than 0 for those in pos.  An error leaves it
\* empty.
Query(named, pos) ==
  /\ query \in 1 .. Queries
  /\ points' = points \cup named
  /\ rate' = SetOnce(rate, RateQ, pos) /\ latency' = SetOnce(latency, LatQ, pos)
  /\ nonzero' = [s \in Service |-> IF s \in pos THEN nonzero[s] \cup {query} ELSE nonzero[s]]
  /\ query' = query + 1
  /\ UNCHANGED ingested

\* The default of 10 ms is latency -1.
Completed(s) ==
  [rate |-> rate[s], latency |-> IF latency[s] = 0 /\ rate[s] # 0 THEN -1 ELSE latency[s],
   true |-> nonzero[s]]

IngestPoint(s) ==
  /\ query = Queries + 1 /\ s \in points
  /\ ingested' = [ingested EXCEPT ![s] = Completed(s)]
  /\ points' = points \ {s}
  /\ UNCHANGED <<query, rate, latency, nonzero>>

ScrapeEnd ==
  /\ query = Queries + 1 /\ points = {}
  /\ query' = 0 /\ rate' = Zero /\ latency' = Zero
  /\ nonzero' = [s \in Service |-> {}]
  /\ UNCHANGED <<points, ingested>>

-----------------------------------------------------------------------------
(* What a point says of its service is what the first query that answered    *)
(* said: a service has no traffic only if no query for a rate answered with  *)
(* any, and the default latency only if none answered with a latency,        *)
(* whichever queries failed or timed out in between.                         *)
FirstAnswerStands ==
  \A s \in Service :
    LET p == ingested[s]
        First(q, qs) == IF p.true \cap qs = {} THEN q \in {0, -1}
                        ELSE q \in p.true \cap qs /\ \A r \in p.true \cap qs : q <= r
    IN  First(p.rate, RateQ) /\ First(p.latency, LatQ)
=============================================================================
