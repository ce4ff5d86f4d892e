----------------------------- MODULE Collation ------------------------------
(***************************************************************************)
(* Delivery of messages between the shards of a workchain                  *)
(* (validator/out_msg_queue.rs, validator/collator.rs,                     *)
(* validator/validate_query.rs, validating_utils.rs): shard blocks take    *)
(* messages from the output queues of their neighbours as the last         *)
(* masterchain block shows them, remember how far they got (ProcessedUpto) *)
(* and drop the messages their neighbours have taken, while the shard      *)
(* splits and merges.                                                      *)
(*                                                                         *)
(* There are two accounts; a shard is the set of its accounts.  A message  *)
(* is its number, which is also the order of the hashes; it goes from its  *)
(* source to its destination in one hop.  The masterchain has no messages  *)
(* of its own.  The validators of a shard agree on one block after given   *)
(* previous blocks; a block that the masterchain passes over is forgotten. *)
(***************************************************************************)
EXTENDS Integers, Sequences, FiniteSets, FiniteSetsExt

CONSTANTS
  ChainLimit,    \* the longest chain of blocks that is not in the masterchain, 8
  LtAlign,       \* get_lt_align
  ShortDequeue,  \* CapShortDequeue
  Builds,        \* the collators of the nodes, "async" or "sync" (feature async_collator)
  MaxMessages,   \* bound: messages
  MaxBlocks,     \* bound: shard blocks
  MaxMasters     \* bound: masterchain blocks

VARIABLES
  msgs,          \* the messages: source, destination and created_lt
  chain,         \* the shard blocks, with their states
  master,        \* the masterchain blocks
  work           \* the block that is being collated

collationVars == <<msgs, chain, master, work>>

Accounts == {0, 1}
Shards == {{0}, {1}, Accounts}
Halves == {{0}, {1}}
Sibling(s) == Accounts \ s

LastMc == Len(master)
Tops(k) == master[k].tops

\* The blocks that b comes after, b included.
Ancestors(b) ==
  LET anc[i \in DOMAIN chain] == {i} \cup UNION {anc[p] : p \in chain[i].prevs}
  IN  anc[b]

Before(m, n) == msgs[m].lt < msgs[n].lt \/ (msgs[m].lt = msgs[n].lt /\ m < n)
First(M) == CHOOSE m \in M : \A n \in M \ {m} : Before(m, n)

-----------------------------------------------------------------------------
(* ProcessedUpto and OutMsgQueueInfo                                       *)

MaxHash == MaxMessages + 1

EntryContains(a, b) ==
  /\ b.shard \subseteq a.shard /\ a.mc >= b.mc
  /\ a.lt > b.lt \/ (a.lt = b.lt /\ a.hash >= b.hash)

Compactify(proc) == {e \in proc : \A f \in proc \ {e} : ~EntryContains(f, e)}

\* compute_shard_end_lt: of the shard an account was in at masterchain block k.
ShardEndLt(k, a) == LET t == CHOOSE b \in Tops(k) : a \in chain[b].shard IN chain[t].lt

\* ProcessedUptoStuff::already_processed: a message from another shard must
\* have been in its queue when masterchain block e.mc was made.
MutEntryProcessed(e, m) ==
  /\ msgs[m].dst \in e.shard
  /\ msgs[m].lt < e.lt \/ (msgs[m].lt = e.lt /\ m <= e.hash)
EntryProcessed(e, m) ==
  /\ msgs[m].dst \in e.shard
  /\ msgs[m].lt < e.lt \/ (msgs[m].lt = e.lt /\ m <= e.hash)
  /\ msgs[m].src \in e.shard \/ msgs[m].lt < ShardEndLt(e.mc, msgs[m].src)

AlreadyProcessed(info, m) == msgs[m].dst \in info.shard /\ \E e \in info.proc : EntryProcessed(e, m)

\* from_shard_state, merge and split.
Info(b) == [shard |-> chain[b].shard, queue |-> chain[b].queue, proc |-> chain[b].proc]

MergeInfo(x, y) ==
  [shard |-> x.shard \cup y.shard, queue |-> x.queue \cup y.queue, proc |-> Compactify(x.proc \cup y.proc)]

SplitInfo(x, s) ==
  [shard |-> s, queue |-> {m \in x.queue : msgs[m].src \in s},
   proc |-> Compactify({[e EXCEPT !.shard = @ \cap s] : e \in {f \in x.proc : f.shard \cap s # {}}})]

-----------------------------------------------------------------------------
(* MsgQueueManager                                                         *)

AfterMerge(prevs) == Cardinality(prevs) = 2
AfterSplit(s, prevs) == \E b \in prevs : s # chain[b].shard /\ s \subseteq chain[b].shard

PrevInfo(s, prevs) ==
  IF AfterMerge(prevs) THEN LET x == CHOOSE b \in prevs : 0 \in chain[b].shard
                                y == CHOOSE b \in prevs : 1 \in chain[b].shard
                            IN  MergeInfo(Info(x), Info(y))
  ELSE LET b == CHOOSE p \in prevs : TRUE IN IF AfterSplit(s, prevs) THEN SplitInfo(Info(b), s) ELSE Info(b)

\* add_trivial_neighbor: what takes the place of neighbour n, as the
\* masterchain shows it.  After a split the part of the sibling gets our own
\* shard as its name (case 2); further on it is filtered out of what the
\* masterchain still shows (case 3).
FilterMessages(n, s) == [n EXCEPT !.shard = Sibling(s), !.queue = {m \in @ : msgs[m].dst \in s /\ msgs[m].src \notin s}]
AddTrivialNeighbor(n, s, prevs) ==
  IF n.shard \cap s = {} THEN <<n>>
  ELSE IF n.shard \subseteq s THEN <<PrevInfo(s, prevs)>>
  ELSE IF AfterSplit(s, prevs) THEN <<[SplitInfo(n, Sibling(s)) EXCEPT !.shard = s], PrevInfo(s, prevs)>>
  ELSE <<FilterMessages(n, s), PrevInfo(s, prevs)>>

\* add_trivial_neighbor_after_merge, and case 4 of add_trivial_neighbor: the
\* second half of a merged shard is disabled.
Disabled(k, s) == {b \in Tops(k) : chain[b].shard # s /\ chain[b].shard \subseteq s /\ 0 \notin chain[b].shard}

\* MsgQueueManager::init
MutNeighbors(k, s, prevs) ==
  LET Of(B) == IF B = {} THEN <<>> ELSE AddTrivialNeighbor(Info(CHOOSE b \in B : TRUE), s, prevs)
      left == {b \in Tops(k) : 0 \in chain[b].shard}
  IN  Of(left) \o Of(Tops(k) \ left)
Neighbors(k, s, prevs) ==
  LET Of(B) == IF B = {} THEN <<>> ELSE AddTrivialNeighbor(Info(CHOOSE b \in B : TRUE), s, prevs)
      left == {b \in Tops(k) : 0 \in chain[b].shard}
  IN  Of(left) \o Of(Tops(k) \ (left \cup Disabled(k, s)))

\* request_mc_state: a masterchain block after the last known one is an error.
RequestMcState(k, mc) == mc <= k

\* load_out_queue_info asks for the masterchain blocks of all entries.
LoadOutQueueInfo(k, b) == \A e \in chain[b].proc : RequestMcState(k, e.mc)

\* MsgQueueManager::already_processed
DeliveredTo(nbs, m) == \E i \in DOMAIN nbs : AlreadyProcessed(nbs[i], m)

\* The messages the merged queues of the neighbours hold for shard s.
MergeOutQueue(nbs, s) == {m \in UNION {nbs[i].queue : i \in DOMAIN nbs} : msgs[m].dst \in s}

\* find_message: the first neighbour whose shard contains the source.
FindMessage(nbs, m) ==
  \E i \in DOMAIN nbs :
    /\ msgs[m].src \in nbs[i].shard /\ m \in nbs[i].queue
    /\ \A j \in 1 .. i - 1 : msgs[m].src \notin nbs[j].shard

-----------------------------------------------------------------------------
(* Collation of a shard block                                              *)

\* All nodes have collators of the same build.
NoWork(build) == [pc |-> "none", build |-> build]

\* check_this_shard_mc_info: which blocks a block of shard s may follow when
\* masterchain block k is the last one.
MayFollow(k, s, prevs) ==
  LET old == {b \in Tops(k) : chain[b].shard \cap s # {}}
      Same(b) == chain[b].shard = s /\ ~chain[b].split
  IN  \/ /\ prevs = old
         /\ \/ Cardinality(old) = 2 /\ master[k].fsm = "merge"
            \/ \E b \in old : \/ chain[b].split /\ s # chain[b].shard /\ s \subseteq chain[b].shard
                              \/ Same(b) /\ master[k].fsm # "merge"
      \/ \E b \in DOMAIN chain :
           /\ prevs = {b} /\ b \notin old /\ Same(b) /\ old \subseteq Ancestors(b)
           /\ \A o \in old : /\ chain[b].seqno < chain[o].seqno + ChainLimit
                             /\ chain[o].split <=> chain[o].shard # s /\ s \subseteq chain[o].shard
                             /\ (master[k].fsm = "merge") <=> chain[o].shard # s /\ chain[o].shard \subseteq s

\* init_lt: the next multiple of get_lt_align.
StartLt(lt) == IF lt % LtAlign = 0 THEN lt ELSE lt + LtAlign - (lt % LtAlign)

\* do_collate begins with the queues of the neighbours and of the previous
\* blocks, and with nothing executed.
NewBlock(build, k, s, prevs, nbs, start) ==
  [pc |-> "clean", build |-> build, shard |-> s, prevs |-> prevs, mc |-> k, nbs |-> nbs, start |-> start,
   info |-> PrevInfo(s, prevs), todo |-> MergeOutQueue(nbs, s), last |-> 0, empty |-> FALSE,
   full |-> FALSE, partial |-> FALSE, skipped |-> FALSE,
   min |-> start + 1, max |-> IF build = "sync" THEN start ELSE start + 1, acc |-> [a \in s |-> start + 1],
   end |-> start, new |-> {}, next |-> {}, ran |-> {}, imported |-> {}, dequeued |-> {},
   made |-> {}, trans |-> {}]

\* import_data, prepare_data and request_neighbor_msg_queues
StartCollation(k, s, prevs) ==
  /\ work.pc = "none" /\ Len(chain) < MaxBlocks
  /\ MayFollow(k, s, prevs) /\ \A b \in prevs \cup Tops(k) : LoadOutQueueInfo(k, b)
  /\ \A b \in DOMAIN chain : ~(chain[b].shard = s /\ chain[b].prevs = prevs)
  /\ LET start == StartLt(Max({master[k].lt} \cup {chain[b].lt : b \in prevs}))
     IN  work' = NewBlock(work.build, k, s, prevs, Neighbors(k, s, prevs), start)
  /\ UNCHANGED <<msgs, chain, master>>

\* The sequential collator runs all external messages at one lt (do_collate).
BeginExternal(w) == [w EXCEPT !.pc = "external", !.min = IF w.build = "sync" THEN w.max + 1 ELSE @]

\* clean_out_msg_queue, which stops when the block is full.
CleanOutMsgQueue(D, full) ==
  /\ work.pc = "clean"
  /\ LET done == {m \in work.info.queue : DeliveredTo(work.nbs, m)}
         w == [work EXCEPT !.info.queue = @ \ D, !.dequeued = D, !.full = full, !.partial = D # done]
     IN  /\ D \subseteq done /\ (D = {} => done = {} /\ ~full) /\ (D # done => full)
         /\ work' = IF work.todo = {} THEN [BeginExternal(w) EXCEPT !.empty = TRUE] ELSE [w EXCEPT !.pc = "inbound"]
  /\ UNCHANGED <<msgs, chain, master>>

\* start_account_job: a transaction of account a begins at the lt of the
\* account, or at min_lt if that is later.
TransactionLt(w, a) == Max({w.acc[a], w.min})

\* new_transaction: the messages it sends, to the accounts in out (none or one).
Sends(a, lt, out) ==
  /\ Len(msgs) + Cardinality(out) <= MaxMessages
  /\ msgs' = msgs \o [i \in 1 .. Cardinality(out) |-> [src |-> a, dst |-> CHOOSE d \in out : TRUE, lt |-> lt + 1]]

\* finalize_transaction: account a has run message m, or an external one, and
\* has sent what is in out; new messages wait for the next round.
External == 0
FinalizeTransaction(w, a, m, out) ==
  LET lt == TransactionLt(w, a) + 1 + Cardinality(out)
      id == {Len(msgs) + 1 : d \in out}
  IN  [w EXCEPT !.acc[a] = lt, !.max = Max({@, lt}), !.end = Max({w.max, lt}), !.next = @ \cup id, !.made = @ \cup id,
                !.trans = @ \cup {[acc |-> a, lt |-> TransactionLt(w, a), in |-> m, out |-> id]}]

Outs == {{}} \cup {{d} : d \in Accounts}

\* update_last_proc_int_msg
LastProc(w, m) == [w EXCEPT !.last = m]
OutOfOrder(w, m) == w.last # 0 /\ ~Before(w.last, m)

\* check_inbound_internal_message: the message comes from the shard that its
\* neighbour is named after.
FromNeighbor(nb, m) == msgs[m].src \in nb.shard

\* process_inbound_internal_messages, one message; the block may be full or
\* the time over after any of them.  A message that two neighbours hold comes
\* a second time (update_last_proc_int_msg), and one must come from the shard
\* its neighbour is named after (check_inbound_internal_message).
TakeInbound(w, m, full) == [w EXCEPT !.todo = @ \ {m}, !.full = full,
                                     !.pc = IF full \/ w.todo = {m} THEN "external" ELSE "inbound",
                                     !.empty = w.todo = {m}]
BadInbound(w, m) ==
  LET from == {i \in DOMAIN w.nbs : m \in w.nbs[i].queue}
  IN  \/ Cardinality(from) > 1
      \/ ~AlreadyProcessed(w.info, m) /\ \E i \in from : ~FromNeighbor(w.nbs[i], m)
InboundMessage(out, full) ==
  /\ work.pc = "inbound" /\ work.build = "async" /\ (work.full => full)
  /\ LET m == First(work.todo)
         w == TakeInbound(LastProc(work, m), m, full)
         done == AlreadyProcessed(work.info, m)
         wrong == BadInbound(work, m)
     IN  \/ /\ ~wrong /\ done /\ out = {}
            /\ work' = w /\ UNCHANGED msgs
         \/ /\ ~wrong /\ ~done /\ Sends(msgs[m].dst, TransactionLt(w, msgs[m].dst), out)
            /\ work' = FinalizeTransaction([w EXCEPT !.ran = @ \cup {m}, !.imported = @ \cup {m},
                                             !.info.queue = @ \ {m}], msgs[m].dst, m, out)
         \/ /\ wrong /\ out = {}
            /\ work' = [work EXCEPT !.pc = "failed"] /\ UNCHANGED msgs
  /\ UNCHANGED <<chain, master>>

\* process_inbound_external_messages: an external message makes an account
\* send a message; then the transactions are waited for.
ExternalMessage(a, d) ==
  /\ work.pc = "external" /\ work.build = "async" /\ ~work.full
  /\ Sends(a, TransactionLt(work, a), {d})
  /\ work' = FinalizeTransaction(work, a, External, {d})
  /\ UNCHANGED <<chain, master>>

\* wait_transactions: what comes next has a later lt than all there is.
WaitTransactions(w) == [w EXCEPT !.min = w.max, !.new = w.next, !.next = {}]

EndExternal ==
  /\ work.pc = "external" /\ work.build = "async"
  /\ work' = [WaitTransactions(work) EXCEPT !.pc = "new", !.full = @ \/ ~work.empty]
  /\ UNCHANGED <<msgs, chain, master>>

\* process_new_messages, one message: it is executed at once or enqueued.
NewMessage(out, full) ==
  /\ work.pc = "new" /\ work.build = "async" /\ work.new # {} /\ (work.full => full)
  /\ LET m == First(work.new)
         w == [work EXCEPT !.new = @ \ {m}, !.full = full]
     IN  \/ /\ (msgs[m].dst \notin work.shard \/ full) /\ out = {}
            /\ work' = [w EXCEPT !.info.queue = @ \cup {m}] /\ UNCHANGED msgs
         \/ /\ msgs[m].dst \in work.shard /\ ~full
            /\ Sends(msgs[m].dst, TransactionLt(w, msgs[m].dst), out)
            /\ work' = IF OutOfOrder(work, m) THEN [work EXCEPT !.pc = "failed"]
                       ELSE FinalizeTransaction([LastProc(w, m) EXCEPT !.ran = @ \cup {m}], msgs[m].dst, m, out)
  /\ UNCHANGED <<chain, master>>

NewMessagesDone ==
  /\ work.pc = "new" /\ work.new = {}
  /\ work' = IF work.next = {} THEN [work EXCEPT !.pc = "finish"] ELSE WaitTransactions(work)
  /\ UNCHANGED <<msgs, chain, master>>

-----------------------------------------------------------------------------
(* The sequential collator (validator/collator_sync.rs)                    *)

\* execute: the transaction begins at req_lt, or at the lt of the account.
SyncLt(w, a, req) == Max({w.acc[a], req})

\* execute and new_transaction; a new message is at once among the others.
SyncExecute(w, a, m, req, out) ==
  LET lt == SyncLt(w, a, req) + 1 + Cardinality(out)
      id == {Len(msgs) + 1 : d \in out}
  IN  [w EXCEPT !.acc[a] = lt, !.max = Max({@, lt - 1}), !.end = Max({w.max, lt - 1}), !.new = @ \cup id, !.made = @ \cup id,
                !.trans = @ \cup {[acc |-> a, lt |-> SyncLt(w, a, req), in |-> m, out |-> id]}]

\* process_inbound_internal_messages, one message: it is taken from the queues
\* before the loop sees that the block is full.
SyncInbound(out, full) ==
  /\ work.pc = "inbound" /\ work.build = "sync" /\ (work.full => full)
  /\ LET m == First(work.todo)
         last == work.todo = {m}
         w == [LastProc(work, m) EXCEPT !.todo = @ \ {m}, !.full = full, !.empty = last]
         Go(v) == IF last THEN BeginExternal(v) ELSE v
         done == AlreadyProcessed(work.info, m)
     IN  \/ /\ work.full /\ out = {}
            /\ work' = BeginExternal([work EXCEPT !.todo = @ \ {m}, !.empty = last, !.skipped = TRUE]) /\ UNCHANGED msgs
         \/ /\ ~work.full /\ ~BadInbound(work, m) /\ done /\ ~full /\ out = {}
            /\ work' = Go(w) /\ UNCHANGED msgs
         \/ /\ ~work.full /\ ~BadInbound(work, m) /\ ~done /\ Sends(msgs[m].dst, SyncLt(work, msgs[m].dst, work.max), out)
            /\ work' = Go(SyncExecute([w EXCEPT !.ran = @ \cup {m}, !.imported = @ \cup {m}, !.info.queue = @ \ {m}],
                                      msgs[m].dst, m, work.max, out))
         \/ /\ ~work.full /\ BadInbound(work, m) /\ out = {}
            /\ work' = [work EXCEPT !.pc = "failed"] /\ UNCHANGED msgs
  /\ UNCHANGED <<chain, master>>

\* process_inbound_external_messages, one message.
SyncExternal(a, d) ==
  /\ work.pc = "external" /\ work.build = "sync" /\ ~work.full
  /\ Sends(a, SyncLt(work, a, work.min), {d})
  /\ work' = SyncExecute(work, a, External, work.min, {d})
  /\ UNCHANGED <<chain, master>>

\* do_collate: new messages run from the lt reached so far, or are only
\* enqueued if messages are left in the queues of the neighbours.
SyncEndExternal ==
  /\ work.pc = "external" /\ work.build = "sync"
  /\ work' = [work EXCEPT !.pc = "new", !.min = work.max, !.full = @ \/ ~work.empty]
  /\ UNCHANGED <<msgs, chain, master>>

\* process_new_messages, one message.
SyncNew(out, full) ==
  /\ work.pc = "new" /\ work.build = "sync" /\ work.new # {} /\ (work.full => full)
  /\ LET m == First(work.new)
         w == [work EXCEPT !.new = @ \ {m}, !.full = full]
         req == Max({msgs[m].lt + 1, work.min})
     IN  \/ /\ (msgs[m].dst \notin work.shard \/ work.full) /\ out = {}
            /\ work' = [w EXCEPT !.info.queue = @ \cup {m}] /\ UNCHANGED msgs
         \/ /\ msgs[m].dst \in work.shard /\ ~work.full /\ Sends(msgs[m].dst, SyncLt(work, msgs[m].dst, req), out)
            /\ work' = IF OutOfOrder(work, m) THEN [work EXCEPT !.pc = "failed"]
                       ELSE SyncExecute([LastProc(w, m) EXCEPT !.ran = @ \cup {m}], msgs[m].dst, m, req, out)
  /\ UNCHANGED <<chain, master>>

-----------------------------------------------------------------------------
(* What both collators do last                                             *)

\* update_processed_upto
UpdateProcessedUpto(w) ==
  LET Entry(lt, hash) == [shard |-> w.shard, mc |-> w.mc, lt |-> lt, hash |-> hash]
  IN  IF w.last # 0 THEN Compactify(w.info.proc \cup {Entry(msgs[w.last].lt, w.last)})
      ELSE IF w.empty THEN Compactify(w.info.proc \cup {Entry(master[w.mc].lt - 1, MaxHash)})
      ELSE w.info.proc

-----------------------------------------------------------------------------
(* Validation of the block, from its messages and the two queues           *)

\* start_up: one previous block, of the shard or of its parent, or two halves.
PrevsAreValid(s, prevs) ==
  IF AfterMerge(prevs) THEN \A b \in prevs : chain[b].shard # s /\ chain[b].shard \subseteq s /\ chain[b].seqno # 0
  ELSE \A b \in prevs : s \subseteq chain[b].shard

\* start_up2: a shard that is about to split has no block of its own any more.
PrevStatesAreValid(w) == \A b \in w.prevs : chain[b].shard = w.shard => ~chain[b].split

\* init_parse: the header has the flags that the previous blocks call for.
HeaderIsValid(w) ==
  /\ w.start < w.end + 1
  /\ ~(AfterMerge(w.prevs) /\ AfterSplit(w.shard, w.prevs))
  /\ AfterSplit(w.shard, w.prevs) => w.shard # Accounts

\* get_ref_mc_state and try_unpack_mc_state
RefMcStateIsValid(w) == MayFollow(w.mc, w.shard, w.prevs)

\* check_utime_lt: the block starts after everything it refers to.
LtIsValid(w) == master[w.mc].lt < w.start /\ \A b \in w.prevs : chain[b].lt < w.start

\* The InMsgDescr and the OutMsgDescr of the block, as finalize_transaction,
\* dequeue_message and process_new_messages fill them.
InMsgDescr(w) == w.ran
InMsg(w, m) == IF m \in w.imported THEN "final" ELSE "immediately"

OutMsgDescr(w) == w.made \cup w.dequeued \cup {m \in w.imported : msgs[m].src \in w.shard}
OutMsg(w, m) ==
  IF m \in w.made THEN IF m \in w.ran THEN "immediately" ELSE "new"
  ELSE IF m \in w.imported THEN "dequeue_immediately"
  ELSE IF ShortDequeue THEN "dequeue_short" ELSE "dequeue"

HasInMsg(w, m, kinds) == m \in InMsgDescr(w) /\ InMsg(w, m) \in kinds
HasOutMsg(w, m, kinds) == m \in OutMsgDescr(w) /\ OutMsg(w, m) \in kinds

\* precheck_one_transaction
TransactionFits(w, t) == w.start < t.lt /\ t.lt + 1 + Cardinality(t.out) <= w.end + 1

\* precheck_one_account_block: the transactions of an account do not overlap.
AccountBlockIsValid(w, a) ==
  LET T == {t \in w.trans : t.acc = a}
  IN  /\ a \in w.shard /\ \A t \in T : TransactionFits(w, t)
      /\ \A t, u \in T : t # u => t.lt + 1 + Cardinality(t.out) <= u.lt \/ u.lt + 1 + Cardinality(u.out) <= t.lt

\* precheck_one_message_queue_update
QueueUpdateIsValid(w, prev, next) ==
  /\ \A m \in prev.queue \ next.queue : /\ HasOutMsg(w, m, {"dequeue", "dequeue_short", "dequeue_immediately"})
                                        /\ msgs[m].lt < w.start
  /\ \A m \in next.queue \ prev.queue : /\ HasOutMsg(w, m, {"new"})
                                        /\ w.start <= msgs[m].lt /\ msgs[m].lt < w.end + 1

\* check_imported_message: it is in the queue of the neighbour it comes from.
ImportIsValid(w, prev, m) == msgs[m].dst \in w.shard /\ FindMessage(w.nbs, m) /\ ~AlreadyProcessed(prev, m)

\* check_in_msg, whatever the record is: one transaction of the destination
\* runs the message.
InMsgHasTransaction(w, m) == \E t \in w.trans : t.in = m /\ t.acc = msgs[m].dst /\ msgs[m].dst \in w.shard

\* check_in_msg, msg_import_imm: the message was made by this block.
InMsgImmediately(w, m) == msgs[m].src \in w.shard /\ HasOutMsg(w, m, {"immediately"})

\* check_in_msg, msg_import_fin: one of our own is dequeued by this block.
InMsgFinal(w, prev, m) ==
  IF msgs[m].src \in w.shard THEN HasOutMsg(w, m, {"dequeue_immediately"}) ELSE ImportIsValid(w, prev, m)

InMsgIsValid(w, prev, m) ==
  /\ InMsgHasTransaction(w, m)
  /\ IF InMsg(w, m) = "immediately" THEN InMsgImmediately(w, m) ELSE InMsgFinal(w, prev, m)

\* check_out_msg: what is made here has its transaction.
OutMsgHasTransaction(w, m) == m \in w.made => \E t \in w.trans : m \in t.out /\ t.acc = msgs[m].src /\ t.acc \in w.shard

\* check_out_msg: the record and the two queues agree.
QueueEntryIsValid(w, prev, next, m) ==
  CASE OutMsg(w, m) = "new" -> m \notin prev.queue /\ m \in next.queue
    [] OutMsg(w, m) = "immediately" -> m \notin prev.queue /\ m \notin next.queue
    [] OTHER -> m \in prev.queue /\ m \notin next.queue

\* check_out_msg, msg_export_imm and msg_export_new: a message for this shard
\* that is not executed at once is later than all that the block has processed
\* (update_min_enqueued_lt_hash, see ProcessedUptoIsValid).
OutMsgImmediately(w, m) == HasInMsg(w, m, {"immediately"}) /\ msgs[m].dst \in w.shard
OutMsgNew(w, m) == msgs[m].src \in w.shard

\* check_out_msg, msg_export_deq: a neighbour has processed the message.
OutMsgDequeue(w, m) == DeliveredTo(w.nbs, m)

\* check_out_msg, msg_export_deq_imm: the block has imported it.
OutMsgDequeueImmediately(w, m) == HasInMsg(w, m, {"final"}) /\ {msgs[m].src, msgs[m].dst} \subseteq w.shard

\* check_out_msg: nothing is checked of a short record.
OutMsgIsValid(w, prev, next, m) ==
  /\ OutMsgHasTransaction(w, m)
  /\ OutMsg(w, m) # "dequeue_short" =>
       /\ QueueEntryIsValid(w, prev, next, m)
       /\ CASE OutMsg(w, m) = "immediately" -> OutMsgImmediately(w, m)
            [] OutMsg(w, m) = "new" -> OutMsgNew(w, m)
            [] OutMsg(w, m) = "dequeue" -> OutMsgDequeue(w, m)
            [] OutMsg(w, m) = "dequeue_immediately" -> OutMsgDequeueImmediately(w, m)

\* check_one_transaction: its message is older, its messages have their records.
TransactionInIsValid(w, t) ==
  t.in # External => HasInMsg(w, t.in, {"immediately", "final"}) /\ msgs[t.in].lt < t.lt /\ msgs[t.in].dst = t.acc
TransactionOutIsValid(w, t) == \A m \in t.out : HasOutMsg(w, m, {"immediately", "new"}) /\ msgs[m].src = t.acc

\* check_message_processing_order: an account takes the messages in the order
\* in which they were created.
ProcessingOrderIsValid(w) ==
  \A t, u \in {v \in w.trans : v.in # External} : t.acc = u.acc /\ t.lt < u.lt => msgs[t.in].lt <= msgs[u.in].lt

\* is_simple_update_of: at most one entry is new.
ContainsValue(proc, e) == \E f \in proc : EntryContains(f, e)
NewEntries(prev, next) == {e \in next.proc : ~ContainsValue(prev.proc, e)}

\* update_max_processed_lt_hash and update_min_enqueued_lt_hash: the messages
\* that the block has processed, and those it has left for itself.
CountedAsProcessed(w) == {m \in InMsgDescr(w) : InMsg(w, m) = "immediately" \/ msgs[m].src \notin w.shard}
CountedAsEnqueued(w) == {m \in OutMsgDescr(w) : OutMsg(w, m) = "new" /\ msgs[m].dst \in w.shard}

\* check_processed_upto; it returns the claimed entry.
ProcessedUptoIsValid(w, prev, next) ==
  /\ next.proc = Compactify(next.proc)
  /\ \A e \in prev.proc : ContainsValue(next.proc, e)
  /\ Cardinality(NewEntries(prev, next)) <= 1
  /\ \A e \in NewEntries(prev, next) : e.shard = w.shard /\ e.mc = w.mc /\ e.lt < w.end + 1 /\ e.lt # 0
  /\ \A m \in CountedAsProcessed(w) : \E e \in NewEntries(prev, next) : msgs[m].lt < e.lt \/ (msgs[m].lt = e.lt /\ m <= e.hash)
  /\ \A m \in CountedAsEnqueued(w) : \A e \in NewEntries(prev, next) : e.lt < msgs[m].lt \/ (e.lt = msgs[m].lt /\ e.hash < m)

\* check_neighbor_outbound_message_processed
NeighborMessageIsValid(w, prev, next, m) ==
  IF AlreadyProcessed(prev, m)
  THEN /\ AlreadyProcessed(next, m) /\ m \notin InMsgDescr(w)
       /\ msgs[m].src \in w.shard => HasOutMsg(w, m, {"dequeue_short", "dequeue_immediately"})
  ELSE AlreadyProcessed(next, m) => HasInMsg(w, m, {"final"})

\* check_in_queue: stops at the first message that is left.
InQueueIsValid(w, prev, next) ==
  LET all == MergeOutQueue(w.nbs, w.shard)
  IN  \A m \in all : (\A n \in all : Before(n, m) => AlreadyProcessed(next, n)) => NeighborMessageIsValid(w, prev, next, m)

\* try_validate
IsValid(w, next) ==
  \E prev \in {PrevInfo(w.shard, w.prevs)} :
    /\ PrevsAreValid(w.shard, w.prevs) /\ HeaderIsValid(w) /\ RefMcStateIsValid(w) /\ PrevStatesAreValid(w)
    /\ LtIsValid(w)
    /\ \A t \in w.trans : AccountBlockIsValid(w, t.acc)
    /\ QueueUpdateIsValid(w, prev, next)
    /\ \A m \in InMsgDescr(w) : InMsgIsValid(w, prev, m)
    /\ \A m \in OutMsgDescr(w) : OutMsgIsValid(w, prev, next, m)
    /\ \A t \in w.trans : TransactionInIsValid(w, t) /\ TransactionOutIsValid(w, t)
    /\ ProcessedUptoIsValid(w, prev, next)
    /\ InQueueIsValid(w, prev, next)
    /\ ProcessingOrderIsValid(w)

\* finalize_block; the block is accepted when the validators find it valid.
FinalizeBlock(split) ==
  /\ work.pc = "finish"
  /\ split => master[work.mc].fsm = "split" /\ work.shard = Accounts /\ \A b \in work.prevs : chain[b].shard = Accounts
  /\ LET next == [work.info EXCEPT !.proc = UpdateProcessedUpto(work)]
         seqno == 1 + Max({chain[b].seqno : b \in work.prevs})
     IN  IF IsValid(work, next)
         THEN /\ chain' = Append(chain, [shard |-> work.shard, prevs |-> work.prevs, seqno |-> seqno, lt |-> work.end + 1,
                                         queue |-> next.queue, proc |-> next.proc, split |-> split,
                                         ran |-> work.ran, made |-> work.made])
              /\ work' = NoWork(work.build)
         ELSE work' = [work EXCEPT !.pc = "rejected"] /\ UNCHANGED chain
  /\ UNCHANGED <<msgs, master>>

-----------------------------------------------------------------------------
(* Masterchain blocks                                                      *)

\* may_update_shard_block_info: the block continues the chain of the listed
\* ones, over a split or a merge only if the masterchain has ordered it.
MayRegister(k, t) ==
  LET old == {b \in Tops(k) : chain[b].shard \cap chain[t].shard # {}}
  IN  /\ old \subseteq Ancestors(t) /\ t \notin old
      /\ \A o \in old :
           /\ chain[t].seqno <= chain[o].seqno + ChainLimit
           /\ chain[o].split <=> chain[t].shard # chain[o].shard /\ chain[t].shard \subseteq chain[o].shard
           /\ (master[k].fsm = "merge") <=> chain[t].shard # chain[o].shard /\ chain[o].shard \subseteq chain[t].shard
      /\ chain[t].split => master[k].fsm = "split"

\* import_new_shard_top_blocks: the halves of a split shard come together.
NewTops(k) ==
  LET able == {t \in DOMAIN chain : t \in Tops(k) \/ MayRegister(k, t)}
  IN  {T \in {{t, u} : t, u \in able} : /\ UNION {chain[t].shard : t \in T} = Accounts
                                        /\ \A t, u \in T : t # u => chain[t].shard \cap chain[u].shard = {}}

\* update_one_shard: when a split or a merge begins is up to the load.
UpdateShardConfig(k, tops) ==
  IF \E t \in tops : chain[t].shard = Accounts
  THEN IF \E t \in tops : chain[t].split THEN {"none"} ELSE IF master[k].fsm = "split" THEN {"split"} ELSE {"none", "split"}
  ELSE IF master[k].fsm = "merge" THEN {"merge"} ELSE {"none", "merge"}

\* One that changes nothing for the shards is left out.
CollateMaster(tops, fsm) ==
  /\ work.pc = "none" /\ LastMc < MaxMasters /\ (tops # Tops(LastMc) \/ fsm # master[LastMc].fsm)
  /\ master' = Append(master, [tops |-> tops, fsm |-> fsm,
                               lt |-> 2 + StartLt(Max({master[LastMc].lt} \cup {chain[t].lt : t \in tops}))])
  /\ UNCHANGED <<msgs, chain, work>>

-----------------------------------------------------------------------------

\* A block the shard already has when the model starts, with at most one
\* message in its queue.
OldBlock(shard, M) == [shard |-> shard, prevs |-> {}, seqno |-> 1, lt |-> 4, queue |-> M, proc |-> {},
                       split |-> FALSE, ran |-> {}, made |-> M]

CollationInit ==
  /\ work \in {NoWork(build) : build \in Builds}
  /\ msgs \in {<<>>} \cup {<<[src |-> 0, dst |-> d, lt |-> 2]>> : d \in Accounts}
  /\ \/ /\ chain = <<OldBlock(Accounts, DOMAIN msgs)>>
        /\ \E fsm \in {"none", "split"} : master = <<[tops |-> {1}, fsm |-> fsm, lt |-> LtAlign + 2]>>
     \/ /\ chain = <<OldBlock({0}, DOMAIN msgs), OldBlock({1}, {})>>
        /\ \E fsm \in {"none", "merge"} : master = <<[tops |-> {1, 2}, fsm |-> fsm, lt |-> LtAlign + 2]>>

\* A collator may have the last masterchain block or the one before it.
CollationNext ==
  \/ \E k \in {LastMc - 1, LastMc} \cap DOMAIN master : \E s \in Shards : \E b, c \in DOMAIN chain : StartCollation(k, s, {b, c})
  \/ \E D \in SUBSET (IF work.pc = "clean" THEN work.info.queue ELSE {}) : \E full \in BOOLEAN : CleanOutMsgQueue(D, full)
  \/ \E out \in Outs : \E full \in BOOLEAN : InboundMessage(out, full) \/ NewMessage(out, full) \/ SyncInbound(out, full) \/ SyncNew(out, full)
  \/ \E a \in IF work.pc = "external" THEN work.shard ELSE {} : \E d \in Accounts : ExternalMessage(a, d) \/ SyncExternal(a, d)
  \/ EndExternal \/ SyncEndExternal \/ NewMessagesDone
  \/ \E split \in BOOLEAN : FinalizeBlock(split)
  \/ \E tops \in NewTops(LastMc) : \E fsm \in UpdateShardConfig(LastMc, tops) : CollateMaster(tops, fsm)

CollationSpec == CollationInit /\ [][CollationNext]_collationVars

-----------------------------------------------------------------------------
(* Properties                                                              *)

\* What the masterchain has confirmed.
Confirmed == UNION {Ancestors(t) : t \in Tops(LastMc)}

\* Every message of a confirmed block is processed by at most one confirmed
\* block; one that is not processed yet is still in the queue of the shard it
\* comes from, and the shard it goes to does not take it for processed.
DeliveredOnce ==
  \A b \in Confirmed : \A m \in chain[b].made :
    \/ \E c \in Confirmed : m \in chain[c].ran /\ \A d \in Confirmed \ {c} : m \notin chain[d].ran
    \/ /\ \A c \in Confirmed : m \notin chain[c].ran
       /\ \A t \in Tops(LastMc) : /\ msgs[m].src \in chain[t].shard => m \in chain[t].queue
                                  /\ ~AlreadyProcessed(Info(t), m)

\* In these cases the code makes a block that it then refuses: the first block
\* after a split with messages in the queue (the part of the sibling has the
\* wrong name), the first one after a merge that is full before its queue is
\* clean, and a block of the sequential collator that is full before its first
\* message and takes the only one there is for processed.
Refusing(w) ==
  \/ AfterSplit(w.shard, w.prevs) /\ MergeOutQueue(w.nbs, w.shard) # {}
  \/ AfterMerge(w.prevs) /\ w.partial
  \/ w.skipped /\ w.empty /\ w.last = 0

\* The collator meets no error and the validators accept its block.
CollatedIsValid == work.pc \in {"failed", "rejected"} => Refusing(work)

=============================================================================
