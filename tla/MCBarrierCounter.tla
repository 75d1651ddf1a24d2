-------------------------- MODULE MCBarrierCounter --------------------------
(***************************************************************************)
(* Instances of BarrierCounter for TLC.                                    *)
(***************************************************************************)
EXTENDS BarrierCounter

CONSTANTS t0, t1, t2, t3, n1, n2, n3
=============================================================================
