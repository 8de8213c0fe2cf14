--------------------------- MODULE MCControlLoop ---------------------------
(***************************************************************************)
(* ControlLoop with small constants for TLC.                               *)
(***************************************************************************)
EXTENDS ControlLoop

\* The predictor is one unit of backlog below or above the physical one.
MCDrifts == {-1, 1}
=============================================================================
