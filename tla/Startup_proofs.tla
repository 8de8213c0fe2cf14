--------------------------- MODULE Startup_proofs ---------------------------
(***************************************************************************)
(* For every number of candidates and queries, and every budget and        *)
(* timeout: discovery ends in time, and what a scraper ingests is what the *)
(* first queries answered.                                                 *)
(***************************************************************************)
EXTENDS Startup, TLAPS

-----------------------------------------------------------------------------
(* Discovery.                                                              *)

(* The bound at each step: only what follows the dial may be past Budget.  *)
InTime ==
  /\ elapsed \in Nat
  /\ step \in {"prom", "targets", "otel", "dial", "docker", "done"}
  /\ elapsed <= Budget \/ (step \in {"docker", "done"} /\ elapsed <= Budget + DialTimeout)

(* A request that carries the context ends by the end of Budget, or at once. *)
LEMMA AllowedWithin ==
  ASSUME elapsed \in Nat
  PROVE  /\ Allowed \in Nat
         /\ elapsed + Allowed <= Budget \/ Allowed = 0
BY DiscoveryAssumption DEF Allowed, Left, Floor

(* No step of Discover passes its bound.                                     *)
LEMMA StaysInTime == InTime /\ DiscoverStep => InTime'
<1> SUFFICES ASSUME InTime, DiscoverStep PROVE InTime'
  OBVIOUS
<1>0. Allowed \in Nat /\ (elapsed + Allowed <= Budget \/ Allowed = 0)
  BY AllowedWithin DEF InTime
<1>1. ASSUME ProbePrometheus PROVE InTime'
  <2>1. PICK b \in Behaviour : /\ elapsed' = elapsed + Floor(b.after, Allowed)
                               /\ step' \in {"targets", "prom"}
    BY <1>1 DEF ProbePrometheus
  <2>2. b.after \in Nat
    <3>1. CASE b \in [answers : {TRUE}, after : {0, HTTPTimeout}]
      BY <3>1, DiscoveryAssumption
    <3>2. CASE b \in [answers : {FALSE}, after : {0, DialTimeout, Budget}]
      BY <3>2, DiscoveryAssumption
    <3> QED BY <3>1, <3>2 DEF Behaviour
  <2>3. Floor(b.after, Allowed) \in Nat /\ Floor(b.after, Allowed) <= Allowed
    BY <2>2, <1>0 DEF Floor
  <2>4. step = "prom"
    BY <1>1 DEF ProbePrometheus
  <2> QED BY <1>0, <2>1, <2>3, <2>4, DiscoveryAssumption DEF InTime
<1>2. ASSUME ListTargets PROVE InTime'
  BY <1>0, <1>2, DiscoveryAssumption DEF ListTargets, InTime
<1>3. ASSUME ProbeOTel PROVE InTime'
  BY <1>0, <1>3, DiscoveryAssumption DEF ProbeOTel, InTime
<1>4. ASSUME DialOTel PROVE InTime'
  BY <1>4, DiscoveryAssumption DEF DialOTel, InTime
<1>5. ASSUME ProbeDocker PROVE InTime'
  BY <1>0, <1>5, DiscoveryAssumption DEF ProbeDocker, InTime
<1> QED BY <1>1, <1>2, <1>3, <1>4, <1>5 DEF DiscoverStep

(* "It never blocks longer than ~10 seconds total": for every list of        *)
(* candidates, Discover takes at most its budget and the dial's timeout.     *)
THEOREM DiscoveryEnds == Spec => []DiscoveryBounded
<1>1. Init => InTime
  BY DiscoveryAssumption DEF Init, DiscInit, InTime
<1>2. InTime /\ [Next]_vars => InTime'
  <2> SUFFICES ASSUME InTime, [Next]_vars PROVE InTime'
    OBVIOUS
  <2>1. CASE Discover
    BY <2>1, StaysInTime DEF Discover
  <2>2. CASE Launch
    BY <2>2, DiscoveryAssumption DEF Launch, InTime
  <2>3. CASE UNCHANGED discVars
    BY <2>3 DEF discVars, InTime
  <2> QED
    BY <2>1, <2>2, <2>3 DEF Next, Signal, Scrape, ScraperStops, RequestBegin, RequestEnd,
                            ServerReturns, vars
<1>3. InTime => DiscoveryBounded
  BY DiscoveryAssumption DEF InTime, DiscoveryBounded
<1> QED BY <1>1, <1>2, <1>3, PTL DEF Spec

-----------------------------------------------------------------------------
(* What a candidate costs those behind it.                                 *)

(* Where the probes stand after next - 1 candidates of two timeouts each.    *)
Cost(n) == (n - 1) * 2 * HTTPTimeout

Paced ==
  /\ next \in Nat \ {0} /\ elapsed \in Nat
  /\ step \in {"prom", "targets", "otel", "dial", "docker", "done"}
  /\ ~cancelled /\ step = "prom" => elapsed <= Cost(next)
  /\ ~cancelled /\ step = "targets" => elapsed <= Cost(next) + HTTPTimeout
  /\ MissedOnlyIfLate

LEMMA CostOfOne ==
  ASSUME NEW n \in Nat \ {0}
  PROVE  Cost(n) \in Nat /\ Cost(n + 1) = Cost(n) + 2 * HTTPTimeout
<1>1. HTTPTimeout \in Nat
  BY DiscoveryAssumption
<1>2. (n - 1) * 2 * HTTPTimeout \in Nat
  BY <1>1
<1>3. (n + 1 - 1) * 2 * HTTPTimeout = (n - 1) * 2 * HTTPTimeout + 2 * HTTPTimeout
  BY <1>1
<1> QED BY <1>2, <1>3 DEF Cost

(* A request lasts a timeout at most.                                        *)
LEMMA AllowedTimeout ==
  ASSUME elapsed \in Nat
  PROVE  Allowed \in Nat /\ Allowed <= HTTPTimeout
BY DiscoveryAssumption DEF Allowed, Left, Floor

(* A candidate that answers at once is missed only at the end of the budget. *)
LEMMA ProbePaced == Paced /\ ProbePrometheus => Paced'
<1> SUFFICES ASSUME Paced, ProbePrometheus PROVE Paced'
  OBVIOUS
<1>0. HTTPTimeout \in Nat /\ Budget \in Nat /\ Allowed \in Nat /\ Allowed <= HTTPTimeout
  BY DiscoveryAssumption, AllowedTimeout DEF Paced
<1>1. PICK b \in Behaviour :
        /\ elapsed' = elapsed + Floor(b.after, Allowed)
        /\ b.answers /\ b.after = 0 /\ missed' # missed => ~(Left > 0)
        /\ missed' = missed \/ (missed' = missed \cup {next} /\ b.answers /\ b.after = 0)
        /\ \/ step' = "targets" /\ next' = next
           \/ step' = "prom" /\ next' = next + 1
  BY <1>0 DEF ProbePrometheus
<1>2. b.after \in Nat
  <2>1. CASE b \in [answers : {TRUE}, after : {0, HTTPTimeout}]
    BY <2>1, DiscoveryAssumption
  <2>2. CASE b \in [answers : {FALSE}, after : {0, DialTimeout, Budget}]
    BY <2>2, DiscoveryAssumption
  <2> QED BY <2>1, <2>2 DEF Behaviour
<1>3. Floor(b.after, Allowed) \in Nat /\ Floor(b.after, Allowed) <= HTTPTimeout
  BY <1>0, <1>2 DEF Floor
<1>4. step = "prom" /\ UNCHANGED cancelled /\ next \in Nat \ {0} /\ elapsed \in Nat
  BY DEF ProbePrometheus, Paced
<1>5. Cost(next) \in Nat /\ Cost(next + 1) = Cost(next) + 2 * HTTPTimeout
  BY <1>4, CostOfOne
<1>6. ~cancelled => elapsed <= Cost(next)
  BY <1>4 DEF Paced
<1>7. MissedOnlyIfLate'
  <2>1. CASE missed' = missed
    BY <1>4, <2>1 DEF Paced, MissedOnlyIfLate
  <2>2. CASE missed' # missed
    <3>1. missed' = missed \cup {next} /\ ~(Left > 0)
      BY <1>1, <2>2
    <3>2. ~cancelled => elapsed >= Budget
      BY <1>0, <1>4, <3>1 DEF Left
    <3>3. ~cancelled => Cost(next) >= Budget
      BY <1>0, <1>4, <1>5, <1>6, <3>2
    <3> QED BY <1>4, <3>1, <3>3 DEF Paced, MissedOnlyIfLate, Cost
  <2> QED BY <2>1, <2>2
<1>8. CASE step' = "targets" /\ next' = next
  BY <1>0, <1>1, <1>3, <1>4, <1>5, <1>6, <1>7, <1>8 DEF Paced
<1>9. CASE step' = "prom" /\ next' = next + 1
  <2>1. ~cancelled => elapsed' <= Cost(next')
    BY <1>0, <1>1, <1>3, <1>4, <1>5, <1>6, <1>9
  <2> QED BY <1>1, <1>3, <1>4, <1>7, <1>9, <2>1 DEF Paced
<1> QED BY <1>1, <1>8, <1>9

(* The other steps keep the pace, or end the probing of candidates.          *)
LEMMA OthersPaced == Paced /\ DiscoverStep => Paced'
<1> SUFFICES ASSUME Paced, DiscoverStep PROVE Paced'
  OBVIOUS
<1>0. HTTPTimeout \in Nat /\ DialTimeout \in Nat /\ Allowed \in Nat /\ Allowed <= HTTPTimeout
      /\ next \in Nat \ {0} /\ elapsed \in Nat
  BY DiscoveryAssumption, AllowedTimeout DEF Paced
<1>1. CASE ListTargets
  <2>1. PICK d \in 0 .. Allowed : elapsed' = elapsed + d
    BY <1>1 DEF ListTargets
  <2>2. /\ step = "targets" /\ step' = "prom" /\ next' = next + 1
        /\ UNCHANGED <<cancelled, missed>>
    BY <1>1 DEF ListTargets
  <2>3. Cost(next) \in Nat /\ Cost(next + 1) = Cost(next) + 2 * HTTPTimeout
    BY <1>0, CostOfOne
  <2>4. ~cancelled => elapsed <= Cost(next) + HTTPTimeout
    BY <2>2 DEF Paced
  <2>5. ~cancelled => elapsed' <= Cost(next')
    BY <1>0, <2>1, <2>2, <2>3, <2>4
  <2>6. elapsed' \in Nat /\ next' \in Nat \ {0}
    BY <1>0, <2>1, <2>2
  <2>7. MissedOnlyIfLate'
    BY <2>2 DEF Paced, MissedOnlyIfLate
  <2> QED BY <2>2, <2>5, <2>6, <2>7 DEF Paced
<1>2. ASSUME elapsed' \in Nat, step' \in {"dial", "docker", "done"},
             UNCHANGED <<next, cancelled, missed>>
      PROVE  Paced'
  <2>1. MissedOnlyIfLate'
    BY <1>2 DEF Paced, MissedOnlyIfLate
  <2> QED BY <1>2, <2>1 DEF Paced
<1>3. CASE ProbeOTel
  BY <1>0, <1>2, <1>3 DEF ProbeOTel
<1>4. CASE DialOTel
  BY <1>0, <1>2, <1>4 DEF DialOTel
<1>5. CASE ProbeDocker
  BY <1>0, <1>2, <1>5 DEF ProbeDocker
<1> QED BY <1>1, <1>3, <1>4, <1>5, ProbePaced DEF DiscoverStep

(* A healthy Prometheus that answers at once is missed only behind so many   *)
(* slow ones that two timeouts for each use up the budget.                   *)
THEOREM MissedLate == Spec => []MissedOnlyIfLate
<1>1. Init => Paced
  <2>1. Cost(1) = 0
    BY DiscoveryAssumption DEF Cost
  <2> QED BY <2>1 DEF Init, DiscInit, Paced, MissedOnlyIfLate
<1>2. Paced /\ [Next]_vars => Paced'
  <2> SUFFICES ASSUME Paced, [Next]_vars PROVE Paced'
    OBVIOUS
  <2>1. CASE Discover
    BY <2>1, OthersPaced DEF Discover
  <2>2. CASE Launch
    BY <2>2 DEF Launch, Paced, MissedOnlyIfLate
  <2>3. CASE UNCHANGED discVars /\ (cancelled' = cancelled \/ cancelled')
    BY <2>3 DEF discVars, Paced, MissedOnlyIfLate
  <2> QED
    BY <2>1, <2>2, <2>3 DEF Next, Signal, Scrape, ScraperStops, RequestBegin, RequestEnd,
                            ServerReturns, vars
<1> QED BY <1>1, <1>2, PTL DEF Spec, Paced

-----------------------------------------------------------------------------
(* The scraper.                                                            *)

(* q is the first of the queries in a; 0 when there is none.               *)
FirstOf(q, a) == IF a = {} THEN q = 0 ELSE q \in a /\ \A r \in a : q <= r

(* What a point under way says of its service is what was answered first.  *)
FirstSoFar ==
  /\ query \in 0 .. Queries + 1
  /\ nonzero \in [Service -> SUBSET (1 .. query - 1)]
  /\ rate \in [Service -> Int] /\ latency \in [Service -> Int]
  /\ \A s \in Service : /\ FirstOf(rate[s], nonzero[s] \cap RateQ)
                        /\ FirstOf(latency[s], nonzero[s] \cap LatQ)

(* A point keeps the values that are already set, so the first one stays.    *)
LEMMA SetOnceFirst ==
  ASSUME NEW qs \in SUBSET (1 .. Queries), NEW old \in [Service -> Int],
         NEW named, NEW pos, Query(named, pos), FirstSoFar,
         \A s \in Service : FirstOf(old[s], nonzero[s] \cap qs)
  PROVE  /\ SetOnce(old, qs, pos) \in [Service -> Int]
         /\ \A s \in Service : FirstOf(SetOnce(old, qs, pos)[s], nonzero'[s] \cap qs)
<1>1. query \in 1 .. Queries
  BY DEF Query
<1>2. SetOnce(old, qs, pos) \in [Service -> Int]
  BY <1>1 DEF SetOnce
<1>3. ASSUME NEW s \in Service
      PROVE  FirstOf(SetOnce(old, qs, pos)[s], nonzero'[s] \cap qs)
  <2> DEFINE a == nonzero[s] \cap qs
  <2>1. a \subseteq 1 .. query - 1 /\ FirstOf(old[s], a)
    BY DEF FirstSoFar
  <2>2. nonzero'[s] = IF s \in pos THEN nonzero[s] \cup {query} ELSE nonzero[s]
    BY DEF Query
  <2>3. SetOnce(old, qs, pos)[s] = IF query \in qs /\ s \in pos /\ old[s] = 0 THEN query ELSE old[s]
    BY DEF SetOnce
  <2>4. CASE query \in qs /\ s \in pos
    <3>1. nonzero'[s] \cap qs = a \cup {query}
      BY <2>2, <2>4
    <3>2. CASE a = {}
      BY <1>1, <2>1, <2>3, <2>4, <3>1, <3>2 DEF FirstOf
    <3>3. CASE a # {}
      <4>1. old[s] \in a /\ (\A r \in a : old[s] <= r) /\ old[s] # 0 /\ old[s] <= query
        BY <1>1, <2>1, <3>3 DEF FirstOf
      <4> QED BY <1>1, <2>3, <3>1, <4>1 DEF FirstOf
    <3> QED BY <3>2, <3>3
  <2>5. CASE ~(query \in qs /\ s \in pos)
    <3>1. nonzero'[s] \cap qs = a
      BY <2>2, <2>5
    <3> QED BY <2>1, <2>3, <2>5, <3>1
  <2> QED BY <2>4, <2>5
<1> QED BY <1>2, <1>3

(* A query keeps points true to the first answers.                           *)
LEMMA QueryKeeps ==
  ASSUME NEW named, NEW pos, FirstSoFar, Query(named, pos)
  PROVE  FirstSoFar'
<1>1. query \in 1 .. Queries /\ query' = query + 1 /\ Queries \in Nat
  BY ScraperAssumption DEF Query
<1>2. nonzero' \in [Service -> SUBSET (1 .. query' - 1)]
  BY <1>1 DEF Query, FirstSoFar
<1>3. /\ rate' \in [Service -> Int]
      /\ \A s \in Service : FirstOf(rate'[s], nonzero'[s] \cap RateQ)
  BY SetOnceFirst, ScraperAssumption DEF Query, FirstSoFar
<1>4. /\ latency' \in [Service -> Int]
      /\ \A s \in Service : FirstOf(latency'[s], nonzero'[s] \cap LatQ)
  BY SetOnceFirst, ScraperAssumption DEF Query, FirstSoFar
<1> QED BY <1>1, <1>2, <1>3, <1>4 DEF FirstSoFar

(* A cycle begins and ends with nothing set.                                 *)
LEMMA FreshCycle ==
  ASSUME query' \in 0 .. Queries + 1, nonzero' = [s \in Service |-> {}],
         rate' = Zero, latency' = Zero
  PROVE  FirstSoFar'
<1>1. /\ nonzero' \in [Service -> SUBSET (1 .. query' - 1)]
      /\ rate' \in [Service -> Int] /\ latency' \in [Service -> Int]
  BY DEF Zero
<1>2. ASSUME NEW s \in Service
      PROVE  FirstOf(rate'[s], nonzero'[s] \cap RateQ) /\ FirstOf(latency'[s], nonzero'[s] \cap LatQ)
  BY DEF Zero, FirstOf
<1> QED BY <1>1, <1>2 DEF FirstSoFar

(* What IngestPoint makes of a true point is a true point.                   *)
LEMMA CompletedFirst ==
  ASSUME NEW s \in Service, FirstSoFar, FirstAnswerStands,
         ingested \in [Service -> [rate : Int, latency : Int, true : SUBSET Int]],
         IngestPoint(s)
  PROVE  FirstAnswerStands' /\ ingested' \in [Service -> [rate : Int, latency : Int, true : SUBSET Int]]
<1>1. ingested' = [ingested EXCEPT ![s] = Completed(s)]
  BY DEF IngestPoint
<1>2. Completed(s) \in [rate : Int, latency : Int, true : SUBSET Int]
  <2>1. nonzero[s] \subseteq Int /\ rate[s] \in Int /\ latency[s] \in Int
    BY DEF FirstSoFar
  <2> QED BY <2>1 DEF Completed
<1>3. ingested' \in [Service -> [rate : Int, latency : Int, true : SUBSET Int]]
  BY <1>1, <1>2
<1>4. ASSUME NEW t \in Service, t # s PROVE ingested'[t] = ingested[t]
  BY <1>1, <1>4
<1>5. ingested'[s] = Completed(s)
  BY <1>1
<1>6. /\ FirstOf(rate[s], nonzero[s] \cap RateQ)
      /\ FirstOf(latency[s], nonzero[s] \cap LatQ)
      /\ Completed(s).true = nonzero[s] /\ Completed(s).rate = rate[s]
      /\ Completed(s).latency = IF latency[s] = 0 /\ rate[s] # 0 THEN -1 ELSE latency[s]
  BY DEF FirstSoFar, Completed
<1>7. \A r \in nonzero[s] : r >= 1
  BY ScraperAssumption DEF FirstSoFar
<1>8. nonzero[s] \cap LatQ # {} => latency[s] # 0
  BY <1>6, <1>7 DEF FirstOf
<1>9. FirstAnswerStands'
  BY <1>4, <1>5, <1>6, <1>8 DEF FirstAnswerStands, FirstOf
<1> QED BY <1>3, <1>9

(* Points are true to the first answers, under way and once ingested.      *)
Truthful ==
  /\ FirstSoFar /\ FirstAnswerStands
  /\ ingested \in [Service -> [rate : Int, latency : Int, true : SUBSET Int]]

(* The step of a scraper keeps its points truthful.                          *)
LEMMA ScrapeTruthful == Truthful /\ ScrapeStep => Truthful'
<1> SUFFICES ASSUME Truthful, ScrapeStep PROVE Truthful'
  OBVIOUS
<1>0. Queries \in Nat /\ query \in 0 .. Queries + 1
  BY ScraperAssumption DEF Truthful, FirstSoFar
<1>1. CASE ScrapeBegin
  <2>1. FirstSoFar'
    BY <1>0, <1>1, FreshCycle DEF ScrapeBegin
  <2>2. ingested' = [s \in Service |-> NoPoint]
    BY <1>1 DEF ScrapeBegin
  <2> QED BY <2>1, <2>2 DEF Truthful, FirstAnswerStands, NoPoint
<1>2. ASSUME NEW named, NEW pos, Query(named, pos) PROVE Truthful'
  <2>1. FirstSoFar'
    BY <1>2, QueryKeeps DEF Truthful
  <2>2. UNCHANGED ingested
    BY <1>2 DEF Query
  <2> QED BY <2>1, <2>2 DEF Truthful, FirstAnswerStands
<1>3. ASSUME NEW s \in Service, IngestPoint(s) PROVE Truthful'
  <2>1. FirstSoFar'
    BY <1>3 DEF Truthful, FirstSoFar, IngestPoint
  <2> QED BY <1>3, <2>1, CompletedFirst DEF Truthful
<1>4. CASE ScrapeEnd
  <2>1. FirstSoFar'
    BY <1>0, <1>4, FreshCycle DEF ScrapeEnd
  <2>2. UNCHANGED ingested
    BY <1>4 DEF ScrapeEnd
  <2> QED BY <2>1, <2>2 DEF Truthful, FirstAnswerStands
<1> QED BY <1>1, <1>2, <1>3, <1>4 DEF ScrapeStep

(* Whichever queries fail, in any number of cycles: an ingested point has    *)
(* the rate and the latency of the first query that answered with one.       *)
THEOREM FirstAnswers == Spec => []FirstAnswerStands
<1>1. Init => Truthful
  <2> SUFFICES ASSUME Init PROVE Truthful
    OBVIOUS
  <2>1. /\ query = 0 /\ nonzero = [s \in Service |-> {}] /\ rate = Zero /\ latency = Zero
        /\ ingested = [s \in Service |-> NoPoint]
    BY DEF Init, ScrapeInit
  <2>2. FirstSoFar
    BY <2>1, ScraperAssumption DEF FirstSoFar, FirstOf, Zero
  <2> QED BY <2>1, <2>2 DEF Truthful, FirstAnswerStands, NoPoint
<1>2. Truthful /\ [Next]_vars => Truthful'
  <2> SUFFICES ASSUME Truthful, [Next]_vars PROVE Truthful'
    OBVIOUS
  <2>1. CASE Scrape
    BY <2>1, ScrapeTruthful DEF Scrape
  <2>2. CASE UNCHANGED scrapeVars
    BY <2>2 DEF scrapeVars, Truthful, FirstSoFar, FirstAnswerStands
  <2> QED
    BY <2>1, <2>2 DEF Next, Signal, Discover, Launch, ScraperStops, RequestBegin, RequestEnd,
                      ServerReturns, vars
<1> QED BY <1>1, <1>2, PTL DEF Spec, Truthful
=============================================================================
