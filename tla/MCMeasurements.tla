--------------------------- MODULE MCMeasurements ---------------------------
(***************************************************************************)
(* Instances of Measurements for TLC.                                      *)
(***************************************************************************)
EXTENDS Measurements

CONSTANTS t0, t1

=============================================================================
