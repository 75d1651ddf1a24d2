------------------------- MODULE CallbacksBarriers --------------------------
(***************************************************************************)
(* The barriers of the parallel regions in Callbacks are those of          *)
(* BarrierCounter.  Team sizes are the requested ones.                     *)
(***************************************************************************)
EXTENDS CallbacksInvariant

regionTeam == [r \in 1..MaxRegions |-> TeamOf(r)]
regionEntered == [r \in 1..MaxRegions |-> EnteredIn(r)]
regionNode == [r \in 1..MaxRegions |-> NodeIn(r)]
regionCnt == [r \in 1..MaxRegions |-> CountIn(r)]
regionBarrier == [r \in 1..MaxRegions |-> BarrierIn(r)]

B == INSTANCE BarrierCounter WITH
  Regions <- 1..MaxRegions, Nodes <- Node, MaxBarriers <- MaxConstructs + 1,
  team <- regionTeam, entered <- regionEntered, node <- regionNode,
  cnt <- regionCnt, barrier <- regionBarrier

\* Whatever the other callbacks and the other regions do in between, with
\* threads that finish a barrier's callback late and workers that leave a region
\* after parallel_end, each region's barriers follow the counting protocol.
ImplementsBarrierCounter == B!Spec
=============================================================================
