------------------------------- MODULE Startup -------------------------------
(***************************************************************************)
(* cmd/qphysics-agent/main.go, main: discovery, then the goroutines, then  *)
(* the API server, whose Start returning ends the process; and a signal at *)
(* any time.  One of the scrapers is followed; the tick and the maintainer *)
(* are in Agent.                                                           *)
(***************************************************************************)
EXTENDS Discovery, PromScraper

VARIABLES
  life,      \* "discover", "serve" or "exited"
  scraping,  \* the scraper followed runs
  receiver,  \* runOTelHTTPServer has port 4318
  requests   \* an API request is being handled

vars == <<discVars, cancelled, scrapeVars, life, scraping, receiver, requests>>

Init ==
  /\ DiscInit /\ ScrapeInit
  /\ life = "discover" /\ scraping = FALSE /\ receiver = FALSE /\ requests = FALSE

Running == life # "exited"

\* The goroutine of signal.Notify: cancel().
Signal ==
  /\ Running /\ ~cancelled
  /\ cancelled' = TRUE
  /\ UNCHANGED <<discVars, scrapeVars, life, scraping, receiver, requests>>

Discover ==
  /\ life = "discover" /\ DiscoverStep
  /\ UNCHANGED <<scrapeVars, life, scraping, receiver, requests>>

\* main goes on: a scraper per URL found, the receiver on port 4318 unless
\* somebody else (a collector that was just found there) has the port, and
\* the API server, whose port may be taken as well: then main ends.  What
\* Discover returned is read again for the summary that is displayed only.
Launch ==
  /\ life = "discover" /\ step = "done"
  /\ scraping' = (found # {})
  /\ receiver' \in (IF otel THEN BOOLEAN ELSE {TRUE})
  /\ life' \in {"serve", "exited"}
  /\ found' = {} /\ missed' = {} /\ elapsed' = 0 /\ next' = 1
  /\ urls' = (CHOOSE n \in Lists : TRUE) /\ otel' = FALSE /\ docker' = FALSE
  /\ UNCHANGED <<step, cancelled, scrapeVars, requests>>

\* Run and scrapeAll.  Once the context is cancelled, requests fail at once,
\* and the cycle under way still ingests what it has.  Another may begin:
\* select picks either of ctx.Done and a tick when both are ready.
ScrapeStep ==
  \/ ScrapeBegin
  \/ Query({}, {})
  \/ ~cancelled /\ \E named \in SUBSET Service :
                     \E pos \in SUBSET named : Query(named, pos)
  \/ \E s \in Service : IngestPoint(s)
  \/ ScrapeEnd

Scrape ==
  /\ life = "serve" /\ scraping /\ ScrapeStep
  /\ UNCHANGED <<discVars, cancelled, life, scraping, receiver, requests>>

\* The scraper's select takes ctx.Done between two cycles.
ScraperStops ==
  /\ life = "serve" /\ scraping /\ cancelled /\ query = 0
  /\ scraping' = FALSE
  /\ UNCHANGED <<discVars, cancelled, scrapeVars, life, receiver, requests>>

\* An API request arrives, and is answered.
RequestBegin ==
  /\ life = "serve" /\ ~requests /\ requests' = TRUE
  /\ UNCHANGED <<discVars, cancelled, scrapeVars, life, scraping, receiver>>

RequestEnd ==
  /\ life = "serve" /\ requests /\ requests' = FALSE
  /\ UNCHANGED <<discVars, cancelled, scrapeVars, life, scraping, receiver>>

\* Mutated form of ServerReturns: main waits for the requests.
ServerReturnsIdle ==
  /\ life = "serve" /\ cancelled /\ ~requests
  /\ life' = "exited"
  /\ UNCHANGED <<discVars, cancelled, scrapeVars, scraping, receiver, requests>>

\* Shutdown makes ListenAndServe return at once; main ends, with whatever
\* request or cycle is under way.
ServerReturns ==
  /\ life = "serve" /\ cancelled
  /\ life' = "exited"
  /\ UNCHANGED <<discVars, cancelled, scrapeVars, scraping, receiver, requests>>

Next ==
  \/ Signal \/ Discover \/ Launch \/ Scrape \/ ScraperStops
  \/ RequestBegin \/ RequestEnd \/ ServerReturns

Spec == Init /\ [][Next]_vars

\* Every probe has a timeout, and goroutines are scheduled.  Requests may
\* last for ever.
FairSpec == Spec /\ WF_vars(Discover) /\ WF_vars(Launch) /\ WF_vars(ServerReturns)

-----------------------------------------------------------------------------
TypeOK ==
  /\ DiscTypeOK /\ ScrapeTypeOK
  /\ life \in {"discover", "serve", "exited"}
  /\ scraping \in BOOLEAN /\ receiver \in BOOLEAN /\ requests \in BOOLEAN

(* A signal ends the process, also one that comes while candidates are being *)
(* probed or a request hangs.                                                *)
SignalEnds == cancelled ~> life = "exited"
=============================================================================
