------------------------------- MODULE MCNode -------------------------------
(***************************************************************************)
(* The start of a node, the running full node, the collation of shard      *)
(* blocks, the validator groups, the shard configuration, the neighbours   *)
(* in an overlay and the download of a state share no state in these       *)
(* models.  A behaviour exercises one of them, the one that part names.    *)
(***************************************************************************)
EXTENDS NodeBoot, FullNode, Collation, ValidatorGroups, ShardConfig, Neighbours,
  StateDownload

VARIABLE part

nodeVars == <<bootVars, fullNodeVars, collationVars, groupVars, layoutVars, neighbourVars,
  downloadVars, part>>

MCShardBlocks == {<<"s", 1>>, <<"s", 2>>}
MCPrevs == [b \in MCShardBlocks |-> {<<"s", b[2] - 1>>}]
MCTop == <<{<<"s", 1>>}, {<<"s", 2>>}, {<<"s", 2>>}>>
MCMasterRef == [b \in MCShardBlocks |-> b[2] - 1]
MCMinRef == [k \in 0 .. 3 |-> IF k = 0 THEN 0 ELSE Min({MCMasterRef[b] : b \in MCTop[k]})]

MCListPeers == [a |-> {"x", "y"}, b |-> {"y", "z"}]

MCUtime == [k \in 0 .. NetHead |-> <<1, 4, 8, 10, 11>>[k + 1]]
MCShardSeqno == [k \in 0 .. NetHead |-> <<0, 0, 1, 1, 2>>[k + 1]]
MCValidators == [k \in KeyBlocks |-> {<<"a", "b", "c", "d", "e", "f">>[i] : i \in k + 1 .. k + 3}]

NodeInit ==
  /\ BootInit /\ FullNodeInit /\ CollationInit /\ GroupsInit /\ LayoutInit
  /\ NeighboursInit /\ DownloadInit
  /\ part \in {"boot", "full_node", "collation", "groups", "layout", "neighbours", "download"}
  /\ part # "boot" => mem.saved.init = 0
  /\ part # "collation" => msgs = <<>> /\ Len(chain) = 1 /\ master[1].fsm = "none" /\ work.build = "async"
  /\ part # "layout" => \A s \in DOMAIN conf.shards : s = <<>> /\ conf.shards[s].want = "merge"
  /\ part # "neighbours" => count = 0
  /\ part # "download" => length = 0

NodeNext ==
  /\ UNCHANGED part
  /\ \/ /\ part = "boot" /\ BootNext
        /\ UNCHANGED <<fullNodeVars, collationVars, groupVars, layoutVars, neighbourVars, downloadVars>>
     \/ /\ part = "full_node" /\ FullNodeNext
        /\ UNCHANGED <<bootVars, collationVars, groupVars, layoutVars, neighbourVars, downloadVars>>
     \/ /\ part = "collation" /\ CollationNext
        /\ UNCHANGED <<bootVars, fullNodeVars, groupVars, layoutVars, neighbourVars, downloadVars>>
     \/ /\ part = "groups" /\ GroupsNext
        /\ UNCHANGED <<bootVars, fullNodeVars, collationVars, layoutVars, neighbourVars, downloadVars>>
     \/ /\ part = "layout" /\ LayoutNext
        /\ UNCHANGED <<bootVars, fullNodeVars, collationVars, groupVars, neighbourVars, downloadVars>>
     \/ /\ part = "neighbours" /\ NeighboursNext
        /\ UNCHANGED <<bootVars, fullNodeVars, collationVars, groupVars, layoutVars, downloadVars>>
     \/ /\ part = "download" /\ DownloadNext
        /\ UNCHANGED <<bootVars, fullNodeVars, collationVars, groupVars, layoutVars, neighbourVars>>

NodeSpec ==
  /\ NodeInit /\ [][NodeNext]_nodeVars
  /\ WF_fullNodeVars(part = "full_node" /\ FullNodeProgress)
  /\ WF_bootVars(part = "boot" /\ BootProgress) /\ WF_bootVars(part = "boot" /\ TimeIsOver)

\* CatchesUp of the full node: with crashes at any point it applies every
\* block, unless a crash has damaged one.
FullNodeCatchesUp == part = "full_node" => CatchesUp

\* NodeComesUp of the start: after crashes, failed downloads and lists of other
\* blocks the node boots and its clients reach the head of the network.
NodeBootsAndFollows == part = "boot" => NodeComesUp

=============================================================================
