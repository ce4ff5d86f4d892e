------------------------------ MODULE FullNode ------------------------------
(***************************************************************************)
(* How a node stores and applies blocks (engine.rs, engine_operations.rs,  *)
(* full_node/apply_block.rs, full_node/shard_client.rs, internal_db/,      *)
(* storage/src/): the masterchain client, the shard client, the broadcasts *)
(* and the keeper of persistent states work on the same block handles; the *)
(* handles and the node state are written by a storer thread that takes    *)
(* its jobs from a queue, everything else is written at once.              *)
(*                                                                         *)
(* A block is <<chain, seqno>>.  Its contents, its proof and its state are *)
(* reduced to being there or not; the network has every block.             *)
(***************************************************************************)
EXTENDS Integers, Sequences, FiniteSets, FiniteSetsExt, SequencesExt, Bitwise

CONSTANTS
  ShardBlocks,   \* the blocks of the processed workchain, the zero state apart
  Prevs,         \* the blocks a block follows: one, or two after a merge
  RightHalves,   \* the first blocks of the right half of a split shard
  Top,           \* a sequence: the shard blocks each masterchain block refers to
  MasterRef,     \* the masterchain block a shard block refers to
  MinRef,        \* min_ref_mc_seqno of the state of a masterchain block
  BroadcastWindow, \* SHARD_BROADCAST_WINDOW
  Begin,         \* the masterchain block up to which the node has everything at first
  Backlog,       \* bound: the jobs in the storer's queue, which has no limit in
                 \* the code and which nobody waits for
  Broadcasts,    \* bound: broadcasts of blocks
  Crashes        \* bound: crashes of the node

\* update_shard_config: the state of a masterchain block needs those that its
\* shard blocks refer to.
ASSUME MinRefAssumption ==
  \A k \in 1 .. Len(Top) : \A b \in Top[k] \cap ShardBlocks : MinRef[k] <= MasterRef[b]

VARIABLES
  node,          \* what the running node keeps in memory
  disk           \* what survives a crash

fullNodeVars == <<node, disk>>

LastMaster == Len(Top)
Master(k) == <<"m", k>>
MasterBlocks == {Master(k) : k \in 0 .. LastMaster}
IsMaster(b) == b[1] = "m"
Seqno(b) == b[2]
Zero == <<"s", 0>>
Blocks == MasterBlocks \cup ShardBlocks \cup {Zero}
Previous(b) == IF IsMaster(b) THEN {Master(Seqno(b) - 1)} ELSE Prevs[b]

TopBlocks(k) == IF k = 0 THEN {Zero} ELSE Top[k]
Idle == [pc |-> "none", full |-> FALSE, mc |-> 0]
NotStoring == [by |-> "none", next |-> FALSE]

-----------------------------------------------------------------------------
(* Block handles, the storer and the node state                            *)

\* BlockHandle: its flags and the masterchain block it is applied for.
NoHandle == [flags |-> {}, ref |-> 0]

Has(n, b, f) == f \in n.h[b].flags

\* store_handle: the job writes the handle as it is when its turn comes, so a
\* handle that is last in the queue need not be queued again.
StoreHandle(n, b) ==
  IF n.jobs # <<>> /\ Last(n.jobs) = <<"handle", b>> THEN n
  ELSE [n EXCEPT !.jobs = Append(@, <<"handle", b>>)]

\* set_flag, and the flush after a change from false to true.
SetFlags(n, b, flags) ==
  IF flags \subseteq n.h[b].flags THEN n
  ELSE StoreHandle([n EXCEPT !.h[b].flags = @ \cup flags], b)

\* store_state: the cached value changes at once, the stored one in its turn; a
\* job that is last in the queue need not be queued again.
SaveNodeState(n, key, k) ==
  [n EXCEPT !.state[key] = k,
            !.jobs = IF @ # <<>> /\ Last(@) = <<"state", key, k>> THEN @ ELSE Append(@, <<"state", key, k>>)]

\* One turn of the storer thread; FLAG_ARCHIVING is not serialised.
Store ==
  /\ node.up /\ node.jobs # <<>>
  /\ LET job == Head(node.jobs)
     IN  disk' = IF job[1] = "handle" THEN [disk EXCEPT !.h[job[2]] = [node.h[job[2]] EXCEPT !.flags = @ \ {"archiving"}]]
                 ELSE [disk EXCEPT !.state[job[2]] = job[3]]
  /\ node' = [node EXCEPT !.jobs = Tail(@)]

-----------------------------------------------------------------------------
(* Receiving blocks: a new block is a file of its own until it is archived *)

\* get_file: by the flags of the handle, from the archive or from the file.
Readable(h, b, part) ==
  /\ part \in h.flags
  /\ <<b, part>> \in IF "archived" \in h.flags THEN disk.archive ELSE disk.files

\* store_block_data and store_block_proof create the handle, then write the
\* file, then set the flag.
StartStoring(n, b, by, next) ==
  [SetFlags(n, b, {"exists"}) EXCEPT !.storing[b] = [by |-> by, next |-> next]]

\* process_block_broadcast: a block that is stored already is skipped.
Broadcast(b) ==
  /\ node.up /\ node.storing[b] = NotStoring /\ ~Has(node, b, "data")
  /\ node.broadcasts < Broadcasts
  /\ node' = [StartStoring(node, b, "broadcast", Seqno(b) = node.state.last + 1) EXCEPT !.broadcasts = @ + 1]
  /\ UNCHANGED disk

\* What the broadcast does with the stored block: a masterchain block is
\* applied if it was the next one when the broadcast came in, a shard block
\* is pre-applied unless it is too new.
AfterBroadcast(n, b) ==
  IF IsMaster(b) THEN IF n.storing[b].next THEN {<<b, TRUE, Seqno(b)>>} ELSE {}
  ELSE IF n.state.client + BroadcastWindow >= MasterRef[b] THEN {<<b, FALSE, n.state.client>>} ELSE {}

\* store_block_data and store_block_proof: the file (add_file), then the flag.
AddFiles(d, b) == [d EXCEPT !.files = @ \cup {<<b, "data">>, <<b, "proof">>}]
StoreBlockData(n, b) == SetFlags(n, b, {"data"})
StoreBlockProof(n, b) == SetFlags(n, b, {"proof"})

StoreBlock(b) ==
  /\ node.up /\ node.storing[b] # NotStoring
  /\ disk' = AddFiles(disk, b)
  /\ node' = [StoreBlockProof(StoreBlockData(node, b), b) EXCEPT
                !.want = @ \cup IF node.storing[b].by = "broadcast" THEN AfterBroadcast(node, b) ELSE {},
                !.storing[b] = NotStoring]

-----------------------------------------------------------------------------
(* Applying blocks.  node.want holds the calls of download_and_apply_block *)
(* and apply_block that have not returned: <<block, full, mc_seq_no>>.     *)

\* A block is applied, or it has its state and was to be pre-applied.
Satisfied(n, b, full) == Has(n, b, "applied") \/ (~full /\ Has(n, b, "state"))
Returned(n) == [n EXCEPT !.want = {r \in @ : ~Satisfied(n, r[1], r[2])}]
Request(n, b, full, mc) == Returned([n EXCEPT !.want = @ \cup {<<b, full, mc>>}])

\* download_and_apply_block_worker: a block without a handle is downloaded; a
\* handle without data belongs to somebody who is storing the block.
Download(r) ==
  /\ node.up /\ ~Has(node, r[1], "exists")
  /\ node' = StartStoring(node, r[1], "client", FALSE)
  /\ UNCHANGED disk

\* check_prev_blocks: the previous blocks are asked for in the same way.
CheckPrevBlocks(r) == {<<q, r[2], r[3]>> : q \in Previous(r[1])}

\* block_applying_awaiters: one task at a time applies a block.  It starts
\* with load_block and check_prev_blocks.
StartApply(r) ==
  /\ node.up /\ node.task[r[1]] = Idle
  /\ Readable(node.h[r[1]], r[1], "data")
  /\ node.storing[r[1]].by # "client"
  /\ node' = Returned([node EXCEPT
                 !.task[r[1]] = [pc |-> "prev", full |-> r[2], mc |-> r[3]],
                 !.want = @ \cup CheckPrevBlocks(r)])
  /\ UNCHANGED disk

At(b, pc) == node.up /\ node.task[b].pc = pc
Goto(n, b, pc) == [n EXCEPT !.task[b] = IF pc = "none" THEN Idle ELSE [@ EXCEPT !.pc = pc]]

\* ShardStateDb::put, unless the state is there.
StoreState(d, b) == IF Has(node, b, "state") THEN d ELSE [d EXCEPT !.states = @ \cup {b}]

\* calc_shard_state and store_shard_state_dynamic, from the previous states.
ApplyState(b) ==
  /\ At(b, "prev")
  /\ \A q \in Previous(b) : Satisfied(node, q, node.task[b].full)
  /\ (IF Has(node, b, "state") THEN {b} ELSE Previous(b)) \subseteq disk.states
  /\ disk' = StoreState(disk, b)
  /\ node' = Returned(Goto(SetFlags(node, b, {"state"}), b, IF node.task[b].full THEN "index" ELSE "none"))

\* set_next_prev_ids: the links are written before their flags are set.
StorePrev(n, b) == SetFlags(n, b, IF Cardinality(Previous(b)) = 2 THEN {"prev1", "prev2"} ELSE {"prev1"})
StoreNext(n, q, b) == SetFlags(n, q, {IF b \in RightHalves THEN "next2" ELSE "next1"})
SetLinks(n, b) ==
  LET Link(q, m) == StoreNext(m, q, b)
  IN  StorePrev(FoldSet(Link, n, Previous(b)), b)

\* An error of the task of b reaches everybody who waits for it: the calls
\* return it, and the tasks that have asked for b as a previous block fail too.
Fail(n, b) ==
  LET fails[x \in Blocks] == x = b \/ (n.task[x].pc = "prev" /\ \E q \in Previous(x) : fails[q])
  IN  [n EXCEPT !.task = [x \in Blocks |-> IF fails[x] THEN Idle ELSE @[x]],
                !.want = {r \in @ : ~fails[r[1]]}]

\* set_masterchain_ref_seq_no: a second, different reference is an error, but
\* it has been or-ed into the first one.
RefIsRefused(b, mc) == node.h[b].ref \notin {0, mc}
AssignMcRef(n, b, mc) ==
  IF n.h[b].ref = mc THEN n
  ELSE IF RefIsRefused(b, mc) THEN [n EXCEPT !.h[b].ref = @ | mc]
  ELSE StoreHandle([n EXCEPT !.h[b].ref = mc], b)

\* BlockIndexDb::add_handle: a seqno below the last one of the chain is an error.
IndexIsPast(b) == ~Has(node, b, "indexed") /\ Seqno(b) < disk.index[b[1]]
IndexHandle(d, b) == IF Has(node, b, "indexed") THEN d ELSE [d EXCEPT !.index[b[1]] = Seqno(b)]

\* set_next_prev_ids, save_last_applied_mc_block_id, assign_mc_ref_seq_no and
\* index_handle; a crash between them leaves nothing that a crash before or
\* after all of them would not, as the storer writes their handles in turn.
ApplyIndex(b) ==
  /\ At(b, "index")
  /\ LET mc == node.task[b].mc
         linked == SetLinks(node, b)
         saved == IF IsMaster(b) THEN SaveNodeState(linked, "last", Seqno(b)) ELSE linked
         assigned == AssignMcRef(saved, b, mc)
     IN  IF RefIsRefused(b, mc) \/ IndexIsPast(b) THEN node' = Fail(assigned, b) /\ UNCHANGED disk
         ELSE /\ node' = Goto(SetFlags(assigned, b, {"indexed"}), b, "archive")
              /\ disk' = IndexHandle(disk, b)

\* The parts of a block that move_to_archive copies to the package of the
\* masterchain block the handle refers to.
ArchivedParts(b) == {<<b, part>> : part \in {"data", "proof"} \cap node.h[b].flags}
AddToPackage(d, parts) == [d EXCEPT !.archive = @ \cup parts]

\* archive_block and move_to_archive, once for a handle in memory: the files
\* are copied and the flag is set; they are removed in a later step.  An
\* error, such as a file that is not there, is only logged.
Archive(b) ==
  /\ At(b, "archive")
  /\ LET parts == ArchivedParts(b)
         skip == {"archived", "archiving"} \cap node.h[b].flags # {} \/ ~(parts \subseteq disk.files)
         moving == [node EXCEPT !.h[b].flags = @ \cup {"archiving"}]
     IN  /\ disk' = IF skip THEN disk ELSE AddToPackage(disk, parts)
         /\ node' = IF skip THEN Goto(moving, b, "applied")
                    ELSE Goto(SetFlags(moving, b, {"archived"}), b, "remove")

\* AllowStateGcSmartResolver::advance, from the slower of the shard client
\* and the keeper of persistent states.  (On a validator the last rotation
\* block holds it back further.)
Advance(n) ==
  LET k == Min({n.state.client, n.state.keeper})
      r == MinRef[k]
  IN  IF k <= n.gc.processed THEN n
      ELSE IF r <= n.gc.mc THEN [n EXCEPT !.gc.processed = k]
      ELSE [n EXCEPT !.gc = [processed |-> k, mc |-> r, shards |-> TopBlocks(r)]]

\* The end of move_to_archive, and store_block_applied; a masterchain block
\* advances the collection of states.
ApplyDone(b) ==
  /\ At(b, "remove") \/ At(b, "applied")
  /\ disk' = IF At(b, "remove") THEN [disk EXCEPT !.files = {f \in @ : f[1] # b}] ELSE disk
  /\ LET n == Returned(Goto(SetFlags(node, b, {"applied"}), b, "none"))
     IN  node' = IF IsMaster(b) THEN Advance(n) ELSE n

-----------------------------------------------------------------------------
(* The masterchain client, the shard client and the keeper                 *)

\* load_next_master_block: a known next block is applied, another is
\* downloaded and stored first.
MasterClient ==
  /\ node.up /\ node.mcur < LastMaster
  /\ LET b == Master(node.mcur + 1)
         prev == Master(node.mcur)
         stored == {"data", "proof"} \subseteq node.h[b].flags
     IN  \/ /\ Has(node, b, "applied")
            /\ node' = [node EXCEPT !.mcur = @ + 1]
         \/ /\ ~Has(node, b, "applied") /\ (Has(node, prev, "next1") \/ stored)
            /\ node' = Request(node, b, TRUE, Seqno(b))
         \/ /\ ~Has(node, prev, "next1") /\ ~stored /\ node.storing[b] = NotStoring
            /\ Has(node, prev, "state")
            /\ node' = StartStoring(node, b, "client", FALSE)
  /\ UNCHANGED disk

\* load_shard_blocks_cycle: SHARD_CLIENT_WINDOW masterchain blocks at a time.
MutClientMayTake(n) == Cardinality(n.work) < 2
ClientMayTake(n) == n.work = {}

ShardClientTakes ==
  /\ node.up /\ node.cur < LastMaster /\ ClientMayTake(node)
  /\ Has(node, Master(node.cur + 1), "applied")
  /\ Readable(node.h[Master(node.cur + 1)], Master(node.cur + 1), "data")
  /\ node' = [node EXCEPT !.cur = @ + 1, !.work = @ \cup {node.cur + 1}]
  /\ UNCHANGED disk

\* load_shard_blocks: asks for the shard blocks, again after an error.
ShardClientAsks(k) ==
  /\ node.up
  /\ LET asked == {<<b, TRUE, k>> : b \in {t \in TopBlocks(k) : ~Has(node, t, "applied")}}
     IN  ~(asked \subseteq node.want) /\ node' = [node EXCEPT !.want = @ \cup asked]
  /\ UNCHANGED disk

\* load_shard_blocks, when every shard block is applied.
MutDoneUnapplied(k) ==
  /\ node.up /\ k \in node.work
  /\ node' = [SaveNodeState(node, "client", k) EXCEPT !.work = @ \ {k}]
  /\ UNCHANGED disk
ShardClientDone(k) ==
  /\ node.up /\ k \in node.work
  /\ \A b \in TopBlocks(k) : Has(node, b, "applied")
  /\ node' = [SaveNodeState(node, "client", k) EXCEPT !.work = @ \ {k}]
  /\ UNCHANGED disk

\* persistent_states_keeper: takes the next applied block and loads its state.
Keeper ==
  /\ node.up /\ node.state.keeper < LastMaster
  /\ Has(node, Master(node.state.keeper + 1), "applied")
  /\ Readable(node.h[Master(node.state.keeper + 1)], Master(node.state.keeper + 1), "data")
  /\ Master(node.state.keeper) \in disk.states
  /\ node' = SaveNodeState(node, "keeper", node.state.keeper + 1)
  /\ UNCHANGED disk

\* allow_state_gc: below the lowest masterchain block that is referred to, or
\* below the block of the same shard, else of a shard that intersects it.
Intersect(a, b) == a[1] = b[1] \/ a[1] = "s" \/ b[1] = "s"
AllowStateGc(b) ==
  IF IsMaster(b) THEN 0 < Seqno(b) /\ Seqno(b) < node.gc.mc
  ELSE LET same == {t \in node.gc.shards : t[1] = b[1]}
       IN  \E t \in IF same # {} THEN same ELSE {u \in node.gc.shards : Intersect(u, b)} : Seqno(b) < Seqno(t)

\* For the properties: the collector goes by the entries in memory, and removes
\* a state that those on the disk have not passed.
Overtakes(b) == IsMaster(b) /\ Seqno(b) >= Min({disk.state.client, disk.state.keeper})

CollectState(b) ==
  /\ node.up /\ AllowStateGc(b)
  /\ disk' = [disk EXCEPT !.states = @ \ {b}, !.overtaken = @ \/ Overtakes(b)]
  /\ UNCHANGED node

-----------------------------------------------------------------------------
(* Crash and warm boot                                                     *)

Started(h, state, crashes, broadcasts) ==
  [up |-> TRUE, h |-> h, jobs |-> <<>>, state |-> state, want |-> {}, crashes |-> crashes, broadcasts |-> broadcasts,
   task |-> [b \in Blocks |-> Idle], storing |-> [b \in Blocks |-> NotStoring],
   mcur |-> 0, cur |-> state.client, work |-> {}, gc |-> [processed |-> 0, mc |-> 0, shards |-> {}]]

\* The handle of a block that has been applied for masterchain block k; with
\* Begin = 0 this is the node after its cold boot from the zero state.
AppliedHandle(b, k, next) ==
  [flags |-> {"exists", "state", "indexed", "applied"}
               \cup (IF Seqno(b) = 0 THEN {} ELSE {"data", "proof", "prev1", "archived"})
               \cup {IF x \in RightHalves THEN "next2" ELSE "next1" : x \in next},
   ref |-> k]

\* The shard blocks that masterchain block k refers to, and those before them.
Brings(k) ==
  LET anc[S \in SUBSET (ShardBlocks \cup {Zero})] ==
        LET older == UNION {Prevs[b] : b \in S \ {Zero}} IN IF older = {} THEN S ELSE S \cup anc[older]
  IN  anc[TopBlocks(k)]

FirstRef(b) == IF IsMaster(b) THEN Seqno(b) ELSE Min({k \in 0 .. LastMaster : b \in Brings(k)})

\* A node that has everything up to masterchain block begin, after some broadcasts.
FullNodeFrom(begin, broadcasts) ==
  LET old == {b \in Blocks : FirstRef(b) <= begin}
      After(b) == {x \in old : Seqno(x) > 0 /\ b \in Previous(x)}
  IN  /\ disk = [h |-> [b \in Blocks |-> IF b \in old THEN AppliedHandle(b, FirstRef(b), After(b)) ELSE NoHandle],
                 state |-> [last |-> begin, client |-> begin, keeper |-> begin],
                 files |-> {}, archive |-> {b \in old : Seqno(b) > 0} \X {"data", "proof"}, states |-> old, overtaken |-> FALSE,
                 index |-> [c \in {b[1] : b \in Blocks} |-> Max({0} \cup {Seqno(b) : b \in {o \in old : o[1] = c}})]]
      /\ node = Started(disk.h, disk.state, 0, broadcasts)

FullNodeInit == FullNodeFrom(Begin, 0)

Crash ==
  /\ node.up /\ node.crashes < Crashes
  /\ node' = [Started(disk.h, disk.state, node.crashes + 1, node.broadcasts) EXCEPT !.up = FALSE]
  /\ UNCHANGED disk

\* warm_boot: back from the last block to one that is applied; its state must
\* be there, and the blocks on the way must have a state and a previous block.
\* The masterchain client starts at the last key block, here the zero state.
MutWarmBootAtLast(d) ==
  "applied" \in d.h[Master(d.state.last)].flags /\ Master(d.state.last) \in d.states
WarmBoot(d) ==
  \E a \in 0 .. d.state.last :
    /\ "applied" \in d.h[Master(a)].flags
    /\ Master(a) \in d.states
    /\ \A k \in a + 1 .. d.state.last :
         "applied" \notin d.h[Master(k)].flags /\ {"exists", "state", "prev1"} \subseteq d.h[Master(k)].flags

Restart == ~node.up /\ WarmBoot(disk) /\ node' = [node EXCEPT !.up = TRUE] /\ UNCHANGED disk

-----------------------------------------------------------------------------

New == Blocks \ {Master(0), Zero}

ApplyStep(b) == StoreBlock(b) \/ ApplyState(b) \/ ApplyIndex(b) \/ Archive(b) \/ ApplyDone(b)

FullNodeProgress ==
  \/ Store \/ Restart
  \/ /\ Len(node.jobs) < Backlog
     /\ \/ MasterClient \/ ShardClientTakes \/ Keeper
        \/ \E k \in node.work : ShardClientAsks(k) \/ ShardClientDone(k)
        \/ \E r \in node.want : Download(r) \/ StartApply(r)
        \/ \E b \in New : ApplyStep(b)

FullNodeNext ==
  \/ FullNodeProgress
  \/ \E b \in New : Broadcast(b)
  \/ \E b \in disk.states : CollectState(b)
  \/ Crash

FullNodeSpec == FullNodeInit /\ [][FullNodeNext]_fullNodeVars /\ WF_fullNodeVars(FullNodeProgress)

-----------------------------------------------------------------------------
(* Properties                                                              *)

\* Wherever the node crashes and however many jobs the storer has not yet
\* written: the block the shard client starts from is applied with all it refers
\* to, that of the keeper is applied, and the warm boot finds its way from the
\* last block back to an applied one.  The states it and the keeper need are
\* there too, unless the collector, which goes by the entries in memory, has
\* overtaken the entries on the disk (the node then falls back to a cold boot).
RestartIsPossible ==
  /\ \A k \in 0 .. disk.state.client : \A b \in TopBlocks(k) \cup {Master(k)} : "applied" \in disk.h[b].flags
  /\ "applied" \in disk.h[Master(disk.state.keeper)].flags
  /\ WarmBoot([disk EXCEPT !.states = @ \cup MasterBlocks])
  /\ disk.overtaken \/ (WarmBoot(disk) /\ Master(disk.state.keeper) \in disk.states)

\* A shard block is archived under the first masterchain block that brings it
\* in, in whatever order the blocks come and are applied.
FirstReference == \A b \in ShardBlocks : node.h[b].ref \in {0, FirstRef(b)}

\* A block that a crash has left in a state the node does not get out of: a
\* handle without data that nobody is storing, data that is neither in its
\* file nor marked as archived, a flag that was lost while the index went on,
\* a reference to the masterchain block that happened to ask for it.
Damaged(b) ==
  \/ Has(node, b, "exists") /\ ~Has(node, b, "data") /\ node.storing[b] = NotStoring
  \/ Has(node, b, "data") /\ ~Readable(node.h[b], b, "data")
  \/ ~Has(node, b, "indexed") /\ Seqno(b) < disk.index[b[1]]
  \/ ~Has(node, b, "applied") /\ IsMaster(b) /\ node.h[b].ref \notin {0, Seqno(b)}

\* With crashes at any point the node applies every block, masterchain and
\* shard, unless a crash has damaged one or the warm boot lacks a state.
CatchesUp == []<>(node.state.client = LastMaster \/ disk.overtaken \/ \E b \in New : Damaged(b))

=============================================================================
