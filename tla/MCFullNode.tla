----------------------------- MODULE MCFullNode -----------------------------
(***************************************************************************)
(* A full node whose storer falls behind by any number of jobs: with this  *)
(* chain the queue never has as many as Backlog.  Every second masterchain *)
(* block brings in a shard block, and the node has the first three, so     *)
(* that states are collected; or the first four, and then a broadcast may  *)
(* come too.                                                               *)
(***************************************************************************)
EXTENDS FullNode

MCShardBlocks == {<<"s", 1>>, <<"s", 2>>}
MCPrevs == [b \in MCShardBlocks |-> {<<"s", b[2] - 1>>}]
MCTop == <<{<<"s", 0>>}, {<<"s", 0>>}, {<<"s", 1>>}, {<<"s", 1>>}, {<<"s", 2>>}>>
MCMasterRef == [b \in MCShardBlocks |-> 2 * b[2]]
MCMinRef == <<0, 0, 2, 2, 4>> @@ (0 :> 0)

LagInit == FullNodeFrom(Begin, Broadcasts) \/ FullNodeFrom(Begin + 1, 0)
LagSpec == LagInit /\ [][FullNodeNext]_fullNodeVars

=============================================================================
