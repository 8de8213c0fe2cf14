----------------------------- MODULE Discovery -----------------------------
(***************************************************************************)
(* discovery/detect.go: Discover probes the candidate Prometheus URLs one  *)
(* after the other, then the OpenTelemetry collector, then Docker, all     *)
(* under main's context of ten seconds.  Time is counted in seconds.       *)
(***************************************************************************)
EXTENDS Integers, Sequences

CONSTANTS
  Lists,        \* what candidatePrometheusURLs may return, as numbers of URLs
  Budget,       \* the timeout of discCtx (10)
  HTTPTimeout,  \* probeClient's timeout, and Docker's (2)
  DialTimeout   \* the timeout of the dial to port 4317 (1)

ASSUME DiscoveryAssumption ==
  /\ Lists \subseteq Nat
  /\ Budget \in Nat /\ HTTPTimeout \in Nat /\ DialTimeout \in Nat

VARIABLES
  step,       \* where Discover is
  urls,       \* the number of candidates
  next,       \* the candidate to probe, from 1
  found,      \* env.PrometheusURLs
  otel,       \* the collector's Healthy
  docker,     \* env.IsDocker
  elapsed,    \* the seconds since Discover was called
  cancelled,  \* main's context is cancelled: a signal came
  missed      \* history: candidates that would have answered at once

discVars == <<step, urls, next, found, otel, docker, elapsed, missed>>

DiscTypeOK ==
  /\ step \in {"prom", "targets", "otel", "dial", "docker", "done"}
  /\ urls \in Lists /\ next \in 1 .. urls + 1
  /\ found \subseteq 1 .. urls /\ missed \subseteq 1 .. urls
  /\ otel \in BOOLEAN /\ docker \in BOOLEAN /\ cancelled \in BOOLEAN
  /\ elapsed \in Nat

\* candidatePrometheusURLs: the override, localhost, or Kubernetes as well.
DiscInit ==
  /\ step = "prom" /\ urls \in Lists /\ next = 1
  /\ found = {} /\ missed = {} /\ otel = FALSE
  /\ docker \in BOOLEAN
  /\ elapsed = 0 /\ cancelled = FALSE

Floor(x, y) == IF x < y THEN x ELSE y

\* Mutated form of Left: the probes do not carry the context.
LeftAlways == Budget

\* The seconds left to the context.
Left == IF cancelled \/ elapsed >= Budget THEN 0 ELSE Budget - elapsed

\* Mutated form of Allowed: the client has no timeout of its own.
AllowedByContext == Left

\* The seconds an HTTP request can last.
Allowed == Floor(HTTPTimeout, Left)

\* How a candidate behaves: the seconds until it answers, or until the
\* connection fails; a hanging one has done neither when the client gives up.
Behaviour == [answers : {TRUE}, after : {0, HTTPTimeout}]
               \cup [answers : {FALSE}, after : {0, DialTimeout, Budget}]

\* probePrometheus: GET /-/healthy.
ProbePrometheus ==
  /\ step = "prom" /\ next <= urls
  /\ \E b \in Behaviour :
       LET ok == b.answers /\ Left > 0 /\ b.after <= Allowed
       IN  /\ elapsed' = elapsed + Floor(b.after, Allowed)
           /\ found' = IF ok THEN found \cup {next} ELSE found
           /\ missed' = IF b.answers /\ b.after = 0 /\ ~ok THEN missed \cup {next} ELSE missed
           /\ step' = IF ok THEN "targets" ELSE "prom"
           /\ next' = IF ok THEN next ELSE next + 1
  /\ UNCHANGED <<urls, otel, docker, cancelled>>

\* discoverServicesFromPrometheus; its answer only goes into the summary.
ListTargets ==
  /\ step = "targets"
  /\ \E d \in 0 .. Allowed : elapsed' = elapsed + d
  /\ step' = "prom" /\ next' = next + 1
  /\ UNCHANGED <<urls, found, otel, docker, cancelled, missed>>

\* probeOTelCollector: any answer below 500 is healthy; an error leads to the
\* dial.
ProbeOTel ==
  /\ step = "prom" /\ next > urls
  /\ \E d \in 0 .. Allowed : elapsed' = elapsed + d
  /\ \/ step' = "dial" /\ otel' = FALSE
     \/ /\ Left > 0
        /\ otel' \in BOOLEAN /\ step' = IF docker THEN "docker" ELSE "done"
  /\ UNCHANGED <<urls, next, found, docker, cancelled, missed>>

\* net.DialTimeout, which the context does not end.
DialOTel ==
  /\ step = "dial"
  /\ \E d \in 0 .. DialTimeout : elapsed' = elapsed + d
  /\ otel' \in BOOLEAN /\ step' = IF docker THEN "docker" ELSE "done"
  /\ UNCHANGED <<urls, next, found, docker, cancelled, missed>>

\* probeDockerAPI
ProbeDocker ==
  /\ step = "docker"
  /\ \E d \in 0 .. Allowed : elapsed' = elapsed + d
  /\ step' = "done"
  /\ UNCHANGED <<urls, next, found, otel, docker, cancelled, missed>>

DiscoverStep == ProbePrometheus \/ ListTargets \/ ProbeOTel \/ DialOTel \/ ProbeDocker

DiscSpec == DiscInit /\ [][DiscoverStep]_<<discVars, cancelled>>

-----------------------------------------------------------------------------
(* "It never blocks longer than ~10 seconds total": however many candidates  *)
(* hang, Discover overruns its context by the dial to port 4317 at most.     *)
DiscoveryBounded == elapsed <= Budget + DialTimeout

(* A Prometheus that would have answered at once is missed only when slow    *)
(* ones are before it in the list: each may take two timeouts, for its       *)
(* health and for its targets, so the first Budget \div (2 * HTTPTimeout)    *)
(* and one more are probed in any case.                                      *)
MissedOnlyIfLate ==
  ~cancelled => \A u \in missed : (u - 1) * 2 * HTTPTimeout >= Budget
=============================================================================
