------------------------------ MODULE MCRings ------------------------------
(***************************************************************************)
(* The two rings of the program in one check: the buffer of a service's    *)
(* points and the memory of a control loop.  They share nothing, so one of *)
(* them moves while the other is empty.                                    *)
(***************************************************************************)
EXTENDS MCRegimeMemory, RingBuffer

RingsInit == MCInit /\ RingInit

RingsNext ==
  \/ MCNext /\ size = 0 /\ UNCHANGED ringVars
  \/ RingNext /\ ticks = 0 /\ UNCHANGED <<historyVars, ticks>>

RingsSpec == RingsInit /\ [][RingsNext]_<<historyVars, ticks, ringVars>>
=============================================================================
