----------------------------- MODULE MCSession ------------------------------
(***************************************************************************)
(* Instances of Session for TLC.                                           *)
(***************************************************************************)
EXTENDS Session

CONSTANTS t0, t1

\* Names of events, known or not, also twice, and separators, a trailing one
\* included.
MCEnvironments ==
  {<<>>, <<"cyc">>, <<"cyc", ",", "ins">>, <<"cyc", ",", "cyc">>, <<"ins", ",", "foo">>,
   <<"ins", ",">>, <<",">>}
=============================================================================
