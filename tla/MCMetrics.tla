----------------------------- MODULE MCMetrics ------------------------------
(***************************************************************************)
(* Instances of Metrics for TLC.                                           *)
(***************************************************************************)
EXTENDS Metrics, TLC

MCTypeOf == (0 :> "ROOT_TASK" @@ 1 :> "CHUNK_TASK" @@ 2 :> "EXP_TASK" @@ 3 :> "BARRIER"
              @@ 5 :> "IMP_TASK")

\* Graphs of one to five nodes; some ids are of nodes that were deleted.
MCNodeSets == {{0}, {0, 2}, {0, 1, 3}, {0, 1, 2, 3}, {0, 1, 2, 3, 5}}

\* The metrics that read the graph, in the order in which they depend on each
\* other.
Usual(es, times) == {<< <<"tim", ",", "cri", ",", "dot">>, Max(DOMAIN times)>>}

\* All strings of up to five lexemes: well-formed or not, metrics repeated or not.
Strings == SeqOf(Kinds \cup {","}, 5)

\* A chain, a diamond, and a tree.
Sample ==
  {<< <<0, 1>>, <<1, 2>>, <<2, 3>> >>, << <<0, 1>>, <<0, 2>>, <<1, 3>>, <<2, 3>> >>,
   << <<0, 1>>, <<0, 2>>, <<2, 3>> >>}

\* Of the graphs of five nodes, a star and two paths.
FiveNodes ==
  {<< <<0, 1>>, <<0, 2>>, <<0, 3>>, <<0, 5>> >>, << <<0, 1>>, <<1, 3>>, <<0, 2>>, <<2, 5>> >>}

\* Every string on the sample, the usual one on the other graphs.
MCInputs(es, times) ==
  IF Cardinality(DOMAIN times) > 4 /\ es \notin FiveNodes THEN {}
  ELSE Usual(es, times) \cup
       IF es \in Sample /\ Range(times) = {1} THEN Strings \X {NULL} ELSE {}
=============================================================================
