--------------------------- MODULE BoundedRegistry ---------------------------
(***************************************************************************)
(* What the telemetry store promises about the set of services it tracks:  *)
(* at most MaxServices are known at a time, a service becomes known only   *)
(* by being seen, and it is forgotten only when the time it was last seen  *)
(* lies more than StaleAge back.  TelemetryStore implements this.          *)
(***************************************************************************)
EXTENDS Integers, FiniteSets

CONSTANTS
  Service,      \* the service identifiers
  MaxServices,  \* the admission cap
  StaleAge      \* age beyond which a service is forgotten

VARIABLES
  known,     \* the services tracked
  lastSeen,  \* the time each known service was last seen; 0 for the others
  now        \* the clock

vars == <<known, lastSeen, now>>

Init ==
  /\ known = {}
  /\ lastSeen = [s \in Service |-> 0]
  /\ now = 1

Seen(s) ==
  /\ s \in known \/ Cardinality(known) < MaxServices
  /\ known' = known \cup {s}
  /\ \E t \in 1 .. now : lastSeen' = [lastSeen EXCEPT ![s] = t]
  /\ UNCHANGED now

Forget(s) ==
  /\ s \in known
  /\ now - lastSeen[s] > StaleAge
  /\ known' = known \ {s}
  /\ lastSeen' = [lastSeen EXCEPT ![s] = 0]
  /\ UNCHANGED now

Tick ==
  /\ now' = now + 1
  /\ UNCHANGED <<known, lastSeen>>

Next ==
  \/ \E s \in Service : Seen(s) \/ Forget(s)
  \/ Tick

Spec == Init /\ [][Next]_vars
=============================================================================
