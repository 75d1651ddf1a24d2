----------------------------- MODULE MCCallbacks ----------------------------
(***************************************************************************)
(* Instances of Callbacks for TLC.                                         *)
(***************************************************************************)
EXTENDS CallbacksBarriers

CONSTANTS t0, t1, t2

=============================================================================
