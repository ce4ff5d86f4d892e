------------------------------ MODULE NodeBoot ------------------------------
(***************************************************************************)
(* The start of a full node (boot.rs, Engine::boot): a cold boot from the  *)
(* zero state or from the key block of the global configuration, the chain *)
(* of key block proofs up to a recent one (block_proof.rs), the choice of  *)
(* a persistent state and its download from the peers (full_node_client.rs *)
(* and, at the peer, full_node_service.rs; state_helper.rs), the three     *)
(* entries of the node state database, and the warm boot after a crash.    *)
(* A booted node runs its masterchain client, its shard client and its     *)
(* keeper of persistent states, here a block per step: FullNode has their  *)
(* details.  The network has the masterchain blocks 0 .. NetHead and one   *)
(* shard.  Handles and entries are kept in memory and written by one       *)
(* storer, in the order of its queue.                                      *)
(***************************************************************************)
EXTENDS Integers, Sequences, FiniteSets, FiniteSetsExt

CONSTANTS
  NetHead,       \* the last masterchain block of the network
  KeyBlocks,     \* the key blocks, block 0 among them
  Utime,         \* gen_utime of a masterchain block
  ShardSeqno,    \* the shard block a masterchain block refers to
  Validators,    \* the validator set in the configuration of a key block
  Liars,         \* validators that sign other blocks than those of the chain
  InitBlocks,    \* init_mc_block_id, from the global configuration
  PssPeriod, ClassicPeriod, \* 2^PSS_PERIOD_BITS, 2^PSS_PERIOD_BITS_CLASSIC
  BootTime,      \* the time of the boot
  KeyStep,       \* key_block_utime_step
  IdsLimit,      \* key block ids of an answer
  Copies,        \* bound: entries of one validator in a proof
  BootBacklog,   \* bound: jobs of the storer at which the node waits for it
  MaxFaults      \* bound: crashes, persistent states that no peer is found for
                 \* and wrong lists of key blocks

ASSUME ChainAssumption ==
  /\ NetHead \in Nat /\ KeyBlocks \subseteq 0 .. NetHead /\ 0 \in KeyBlocks /\ InitBlocks \subseteq KeyBlocks
  /\ ShardSeqno \in [0 .. NetHead -> Nat] /\ \A k \in 0 .. NetHead : ShardSeqno[k] <= ShardSeqno[NetHead]
  /\ IdsLimit \in Nat /\ Copies \in Nat

\* check_signatures is worth what the honest validators of each set are.
ASSUME LiarsAssumption ==
  \A k \in KeyBlocks : /\ IsFiniteSet(Validators[k])
                       /\ 3 * Cardinality(Liars \cap Validators[k]) <= 2 * Cardinality(Validators[k])

VARIABLES
  mem,           \* the flags of the block handles, the entries of the node state
                 \* (last applied, shard client, keeper) and the storer's queue
  durable,       \* the flags and the entries that are on the disk
  boot,          \* the start of the node, or "run"
  clients,       \* the masterchain block that each client has reached
  faults         \* how many faults there have been

bootVars == <<mem, durable, boot, clients, faults>>

Mc(k) == <<"mc", k>>
Sc(k) == <<"sc", k>>
Alien(k) == <<"alien", k>>  \* a block of that seqno which is not of the chain
BootBlocks == {Mc(k) : k \in 0 .. NetHead} \cup {Sc(n) : n \in 0 .. ShardSeqno[NetHead]}
                \cup {Alien(k) : k \in KeyBlocks \ {0}}

PrevKey(k) == Max({j \in KeyBlocks : j < k})
NextKeys(k, head) == {j \in KeyBlocks : k < j /\ j < head}

None == 0 - 1

-----------------------------------------------------------------------------
(* A peer: full_node_service.rs.  A peer has applied the blocks up to head. *)

\* get_next_key_block_ids: the key blocks after k in the state of the last block
\* of the peer, which knows those before that block, in order and at most
\* IdsLimit of them; it answers with an empty list when it does not know k.
GetNextKeyBlockIds(k, head) ==
  LET next == NextKeys(k, head) IN
  {[i \in DOMAIN ids |-> Mc(ids[i])] :
     ids \in {f \in [1 .. Min({Cardinality(next), IdsLimit}) -> next] :
                \A i \in DOMAIN f : Cardinality({h \in next : h <= f[i]}) = i}}

\* prepare_persistent_state: nodes of this code keep the states of one period,
\* other nodes those of the classic period.
IsPersistentState(utime, prevUtime, period) == utime \div period # prevUtime \div period
HasPersistentState(k) ==
  k \in KeyBlocks \ {0} /\ \E p \in {PssPeriod, ClassicPeriod} : IsPersistentState(Utime[k], Utime[PrevKey(k)], p)

-----------------------------------------------------------------------------
(* Proofs of key blocks: block_proof.rs. *)

\* Liars have signed the blocks of another chain.
Signers(b) == IF b[1] = "alien" THEN Liars ELSE Validators[PrevKey(b[2])]

\* The block it is for, the block whose cells it has, whether the configuration
\* is among them, the validator set that signed and the dictionary of signatures:
\* the entries of a validator are numbered.
KeyBlockProof(b) ==
  [for |-> b, block |-> b, config |-> TRUE, set |-> Validators[PrevKey(b[2])], entries |-> Signers(b) \X {1}]

\* prepare_key_block_proof and download_key_block_proof of some peer: the proof,
\* one with any other dictionary of signatures that there are, or one that has
\* been put together in another way.
SentProofs(b) ==
  LET p == KeyBlockProof(b) IN
  {p, [p EXCEPT !.config = FALSE]} \cup {[p EXCEPT !.entries = e] : e \in SUBSET (Signers(b) \X (1 .. Copies))}
    \cup UNION {{KeyBlockProof(c), [p EXCEPT !.block = c], [p EXCEPT !.set = KeyBlockProof(c).set]} :
                c \in {Mc(k) : k \in KeyBlocks \ {0}} \ {b}}

\* deserialize and virtualize_block
Deserialize(p, b) == p.for = b
VirtualizeBlock(p) == p.block = p.for

\* The header that pre_check_block_proof reads is that of the block.
PreCheckBlockProof(p) == VirtualizeBlock(p)
PreCheckKeyBlockProof(p) == p.config

\* check_crypto_signatures, every weight 1: it adds the weight of a validator
\* for every entry of the dictionary that names it.
SignedWeight(p, set) == Cardinality({e \in p.entries : e[1] \in set})

MutCheckSignatures(p, set) == p.set = set /\ 3 * SignedWeight(p, set) >= 2 * Cardinality(set)

CheckSignatures(p, set) == p.set = set /\ 3 * SignedWeight(p, set) > 2 * Cardinality(set)

\* The set of the key block before (process_prev_key_block_proof), or of the
\* zero state (process_given_state)
CheckWithPrevKeyBlock(p, prev) ==
  /\ PreCheckBlockProof(p) /\ PrevKey(p.block[2]) = prev /\ prev < p.for[2]
  /\ PreCheckKeyBlockProof(p) /\ CheckSignatures(p, Validators[prev])
CheckWithMasterState(p) ==
  /\ PreCheckBlockProof(p) /\ PrevKey(p.block[2]) <= 0
  /\ PreCheckKeyBlockProof(p) /\ CheckSignatures(p, Validators[0])

-----------------------------------------------------------------------------
(* The boot: boot.rs and Engine::boot. *)

Down == [pc |-> "down"]
BootAt(pc) == boot.pc = pc
BootTo(pc) == boot' = [boot EXCEPT !.pc = pc]

Flags(b) == mem.handles[b]
Saved(key) == mem.saved[key]
CanGoOn == Len(mem.storing) < BootBacklog

\* A job for a handle writes the flags it has when the storer comes to it, a
\* job for an entry the value it was queued with.
SetHandle(m, b, flags) == [m EXCEPT !.handles[b] = @ \cup flags, !.storing = Append(@, b)]
SaveEntry(m, key, k) == [m EXCEPT !.saved[key] = k, !.storing = Append(@, <<key, k>>)]

\* An error ends the process; what is not written is lost.
Exit == boot' = Down /\ mem' = [durable EXCEPT !.storing = <<>>]

\* warm_boot: back from the last applied block to one that has the flag.
WarmBlock ==
  {k \in 0 .. Saved("last") :
     /\ {"state", "applied"} \subseteq Flags(Mc(k)) /\ k >= Saved("init")
     /\ \A j \in k + 1 .. Saved("last") : {"state", "prev"} \subseteq Flags(Mc(j)) /\ "applied" \notin Flags(Mc(j))}

NewBoot(start, cold) ==
  [pc |-> IF cold THEN "init" ELSE "shard", start |-> start, cold |-> cold, late |-> FALSE, keys |-> <<>>, asked |-> <<>>,
   period |-> PssPeriod, todo |-> <<>>]

\* A warm boot goes on from the last key block, a failed one is followed by a
\* cold one.
StartNode ==
  /\ BootAt("down")
  /\ \/ \E k \in WarmBlock : boot' = NewBoot(IF k \in KeyBlocks THEN k ELSE PrevKey(k), FALSE)
     \/ WarmBlock = {} /\ boot' = NewBoot(None, TRUE)
  /\ UNCHANGED <<mem, durable, clients, faults>>

\* run_cold: the zero state, or the proof link of the block of the
\* configuration; a zero state that the node has is not marked as applied.
RunCold ==
  \E init \in {Saved("init")} : \E flag \in {IF init = 0 THEN "state" ELSE "link"} :
    /\ BootAt("init")
    /\ IF flag \in Flags(Mc(init)) \/ (init # 0 /\ "proof" \in Flags(Mc(init)))
       THEN boot' = [boot EXCEPT !.pc = "ask", !.keys = <<init>>] /\ UNCHANGED mem
       ELSE /\ mem' = SetHandle(mem, Mc(init), {flag})
            /\ boot' = [boot EXCEPT !.pc = IF init = 0 THEN "zero" ELSE "ask", !.keys = <<init>>]
    /\ UNCHANGED <<durable, clients, faults>>

ZeroApplied ==
  /\ BootAt("zero") /\ mem' = SetHandle(mem, Mc(0), {"applied"}) /\ BootTo("ask")
  /\ UNCHANGED <<durable, clients, faults>>

LastKey == boot.keys[Len(boot.keys)]

\* get_key_blocks: download_next_key_blocks_ids from some peer
AskKeyBlocks ==
  /\ BootAt("ask")
  /\ \E head \in 0 .. NetHead : \E ids \in GetNextKeyBlockIds(LastKey, head) :
       boot' = [boot EXCEPT !.pc = "proof", !.asked = ids]
  /\ UNCHANGED <<mem, durable, clients, faults>>

\* A peer names a block of another chain, or leaves a key block out.
WrongKeyBlocks ==
  /\ BootAt("ask") /\ faults < MaxFaults
  /\ \E k \in NextKeys(LastKey, NetHead) :
       \E b \in {Alien(k)} \cup {Mc(j) : j \in NextKeys(k, NetHead)} :
         boot' = [boot EXCEPT !.pc = "proof", !.asked = <<b>>]
  /\ faults' = faults + 1
  /\ UNCHANGED <<mem, durable, clients>>

\* For the properties: the proof names a validator twice; it is for another
\* block, has the cells of another one, lacks some, or names another validator set.
Repeats(p) == \E e, f \in p.entries : e # f /\ e[1] = f[1]
Forged(p, b) == p.for # b \/ p.block # b \/ ~p.config \/ p.set # KeyBlockProof(b).set
Marks(p, b) == (IF Repeats(p) THEN {"repeated"} ELSE {}) \cup (IF Forged(p, b) THEN {"forged"} ELSE {})

\* download_key_block_proof: a proof the node has was checked before; one that
\* fails the check is downloaded again and again.  What a node does that has
\* taken over a block of another chain is not followed further.
ProofIsGood(p, b) ==
  Deserialize(p, b) /\ IF LastKey = 0 THEN CheckWithMasterState(p) ELSE CheckWithPrevKeyBlock(p, LastKey)

DownloadKeyBlockProof ==
  /\ BootAt("proof") /\ boot.asked # <<>>
  /\ \E b \in {Head(boot.asked)} :
       \/ "proof" \in Flags(b) /\ UNCHANGED mem
       \/ /\ "proof" \notin Flags(b)
          /\ \E p \in SentProofs(b) :
               /\ ProofIsGood(p, b)
               /\ mem' = SetHandle(mem, b, {"proof"} \cup Marks(p, b))
  /\ boot' = IF Head(boot.asked)[1] = "alien" THEN [boot EXCEPT !.pc = "astray"]
             ELSE [boot EXCEPT !.keys = Append(@, Head(boot.asked)[2]), !.asked = Tail(@)]
  /\ UNCHANGED <<durable, clients, faults>>

MutKeyBlocksDone ==
  /\ BootAt("proof") /\ boot.asked = <<>>
  /\ BootTo(IF 2 * KeyStep > BootTime - Utime[LastKey] THEN "choose" ELSE "ask")
  /\ UNCHANGED <<mem, durable, clients, faults>>

\* The last block is recent, or the time for the key blocks is over.
KeyBlocksDone ==
  /\ BootAt("proof") /\ boot.asked = <<>>
  /\ BootTo(IF 2 * KeyStep > BootTime - Utime[LastKey] \/ boot.late THEN "choose" ELSE "ask")
  /\ UNCHANGED <<mem, durable, clients, faults>>

TimeIsOver ==
  /\ boot.pc \in {"ask", "proof"} /\ ~boot.late /\ boot' = [boot EXCEPT !.late = TRUE]
  /\ UNCHANGED <<mem, durable, clients, faults>>

\* choose_masterchain_state: the last key block with a persistent state; the
\* first of the list is taken to have one.
ChooseMasterchainState(keys, period) ==
  keys[Max({i \in 1 .. Len(keys) : i = 1 \/ IsPersistentState(Utime[keys[i]], Utime[keys[i - 1]], period)})]

\* cold_boot: the blocks and states to download, of the masterchain first
ChooseState ==
  /\ BootAt("choose")
  /\ \E k \in {ChooseMasterchainState(boot.keys, boot.period)} :
       boot' = [boot EXCEPT !.pc = "block", !.start = k,
                            !.todo = (IF k = 0 THEN <<>> ELSE <<Mc(k)>>) \o <<Sc(ShardSeqno[k])>>]
  /\ UNCHANGED <<mem, durable, clients, faults>>

\* cold_boot tries the states of the classic period when this one fails.
AttemptFails ==
  IF boot.period = PssPeriod
  THEN boot' = [boot EXCEPT !.pc = "choose", !.period = ClassicPeriod] /\ UNCHANGED mem
  ELSE Exit

Fetched ==
  boot' = IF Len(boot.todo) = 1 THEN [boot EXCEPT !.pc = "last", !.todo = <<>>] ELSE [boot EXCEPT !.pc = "block", !.todo = Tail(@)]

\* download_zero_state and the check of what it returns
DownloadZeroState(b) ==
  IF "state" \notin Flags(b) THEN mem' = SetHandle(mem, b, {"state"}) /\ BootTo("applied")
  ELSE IF boot.start = 0 \/ "applied" \in Flags(b) THEN Fetched /\ UNCHANGED mem
  ELSE AttemptFails

\* The block and its proof are taken from the database, as by BlockDownloader.
HasWholeBlock(b) == "data" \in Flags(b) /\ {"proof", "link"} \cap Flags(b) # {}

\* download_block_and_state: the block, unless the node has it with a proof;
\* Engine::download_block fails for a block that has lost its proof.
DownloadBlock(b) ==
  \/ HasWholeBlock(b) /\ BootTo("state") /\ UNCHANGED mem
  \/ "data" \notin Flags(b) /\ mem' = SetHandle(mem, b, {"data"}) /\ BootTo("link")
  \/ "data" \in Flags(b) /\ ~HasWholeBlock(b) /\ AttemptFails

FetchBlock ==
  /\ BootAt("block")
  /\ \E b \in {Head(boot.todo)} : IF b[2] = 0 THEN DownloadZeroState(b) ELSE DownloadBlock(b)
  /\ UNCHANGED <<durable, clients, faults>>

StoreLink ==
  /\ BootAt("link") /\ BootTo("state")
  /\ \E b \in {Head(boot.todo)} :
       mem' = IF "proof" \in Flags(b) THEN mem ELSE SetHandle(mem, b, {IF b[1] = "mc" THEN "proof" ELSE "link"})
  /\ UNCHANGED <<durable, clients, faults>>

\* download_persistent_state, from a peer that has the state; its root is the
\* one the block announces
FetchState ==
  /\ BootAt("state") /\ BootTo("applied")
  /\ \/ "state" \in Flags(Head(boot.todo)) /\ UNCHANGED mem
     \/ /\ "state" \notin Flags(Head(boot.todo)) /\ HasPersistentState(boot.start)
        /\ mem' = SetHandle(mem, Head(boot.todo), {"state"})
  /\ UNCHANGED <<durable, clients, faults>>

\* No peer with the state answers in time, or its root is wrong.
FetchStateFails ==
  /\ BootAt("state") /\ "state" \notin Flags(Head(boot.todo)) /\ faults < MaxFaults
  /\ AttemptFails /\ faults' = faults + 1
  /\ UNCHANGED <<durable, clients>>

FetchedApplied ==
  /\ BootAt("applied") /\ Fetched
  /\ mem' = IF "applied" \in Flags(Head(boot.todo)) THEN mem ELSE SetHandle(mem, Head(boot.todo), {"applied"})
  /\ UNCHANGED <<durable, clients, faults>>

\* Engine::boot after the boot: the three entries of the node state, of which
\* only a cold boot may make the last two.
SaveLast ==
  /\ BootAt("last") /\ mem' = SaveEntry(mem, "last", boot.start) /\ BootTo("shard")
  /\ UNCHANGED <<durable, clients, faults>>

SaveClient(key, next) ==
  /\ BootAt(key)
  /\ IF Saved(key) # None THEN BootTo(next) /\ UNCHANGED mem
     ELSE IF boot.cold THEN BootTo(next) /\ mem' = SaveEntry(mem, key, boot.start)
     ELSE Exit
  /\ UNCHANGED <<durable, faults>>

\* check_sync: the masterchain client starts from the last applied block instead
\* when the node is behind.
FirstMaster == {boot.start, Saved("last")}

SaveShard == SaveClient("shard", "keeper") /\ UNCHANGED clients
SaveKeeper ==
  /\ SaveClient("keeper", "run")
  /\ \E k \in FirstMaster :
       clients' = [master |-> k, shard |-> Saved("shard"), keeper |-> mem'.saved.keeper]

-----------------------------------------------------------------------------
(* The clients of the running node, and crashes. *)

\* download_and_apply_block: the first block, up to the one after the client's,
\* that has yet to be applied; the entry is saved before the flag is set.
ToApply == 1 + Max({k \in 0 .. clients.master : {"state", "applied"} \subseteq Flags(Mc(k))} \cup {None})

Linked(k) == "prev" \in Flags(Mc(k)) /\ Saved("last") = k

ApplyMaster ==
  \E k \in {ToApply} :
    /\ BootAt("run") /\ 0 < k /\ k <= NetHead /\ "applied" \notin Flags(Mc(k)) /\ ~Linked(k)
    /\ mem' = SaveEntry(SetHandle(SetHandle(mem, Mc(k - 1), {"next"}), Mc(k), {"data", "proof", "state", "prev"}), "last", k)
    /\ UNCHANGED <<durable, boot, clients, faults>>

MarkMaster ==
  \E k \in {ToApply} :
    /\ BootAt("run") /\ 0 < k /\ k <= NetHead /\ "applied" \notin Flags(Mc(k)) /\ Linked(k)
    /\ mem' = SetHandle(mem, Mc(k), {"applied"})
    /\ UNCHANGED <<durable, boot, clients, faults>>

FollowMaster ==
  /\ BootAt("run") /\ clients.master < NetHead /\ "applied" \in Flags(Mc(clients.master + 1))
  /\ clients' = [clients EXCEPT !.master = @ + 1]
  /\ UNCHANGED <<mem, durable, boot, faults>>

\* wait_next_applied_mc_block
NextIsApplied(k) == k < NetHead /\ "next" \in Flags(Mc(k)) /\ "applied" \in Flags(Mc(k + 1))

\* load_shard_blocks: a shard block is applied after the one before it.
ApplyShard ==
  \E k \in {clients.shard}, n \in 1 .. ShardSeqno[NetHead] :
    /\ BootAt("run") /\ NextIsApplied(k) /\ n <= ShardSeqno[k + 1]
    /\ "applied" \notin Flags(Sc(n)) /\ "applied" \in Flags(Sc(n - 1))
    /\ mem' = SetHandle(mem, Sc(n), {"data", "link", "state", "prev", "applied"})
    /\ UNCHANGED <<durable, boot, clients, faults>>

FollowShard ==
  \E k \in {clients.shard} :
    /\ BootAt("run") /\ NextIsApplied(k) /\ "applied" \in Flags(Sc(ShardSeqno[k + 1]))
    /\ mem' = SaveEntry(mem, "shard", k + 1) /\ clients' = [clients EXCEPT !.shard = k + 1]
    /\ UNCHANGED <<durable, boot, faults>>

\* persistent_states_keeper at block k: it asks for the handle of the key
\* block before a key block.
KeeperEnds(k) == "state" \notin Flags(Mc(k)) \/ (k \in KeyBlocks \ {0} /\ Flags(Mc(PrevKey(k))) = {})

FollowKeeper ==
  \E k \in {clients.keeper} :
    /\ BootAt("run") /\ ~KeeperEnds(k) /\ NextIsApplied(k)
    /\ mem' = SaveEntry(mem, "keeper", k + 1) /\ clients' = [clients EXCEPT !.keeper = k + 1]
    /\ UNCHANGED <<durable, boot, faults>>

StoreJob ==
  /\ mem.storing # <<>>
  /\ \E job \in {Head(mem.storing)} :
       durable' = IF job \in BootBlocks THEN [durable EXCEPT !.handles[job] = Flags(job)]
                  ELSE [durable EXCEPT !.saved[job[1]] = job[2]]
  /\ mem' = [mem EXCEPT !.storing = Tail(@)]
  /\ UNCHANGED <<boot, clients, faults>>

NodeCrashes ==
  /\ ~BootAt("down") /\ faults < MaxFaults /\ faults' = faults + 1
  /\ Exit
  /\ UNCHANGED <<durable, clients>>

-----------------------------------------------------------------------------
NoClients == [master |-> None, shard |-> None, keeper |-> None]

BootInit ==
  /\ mem \in {[handles |-> [b \in BootBlocks |-> {}], storing |-> <<>>,
               saved |-> [init |-> k, last |-> None, shard |-> None, keeper |-> None]] : k \in InitBlocks}
  /\ durable = mem
  /\ boot = Down /\ clients = NoClients /\ faults = 0

BootProgress ==
  \/ StoreJob
  \/ /\ CanGoOn
     /\ \/ StartNode \/ RunCold \/ ZeroApplied \/ AskKeyBlocks \/ DownloadKeyBlockProof \/ KeyBlocksDone \/ ChooseState
        \/ FetchBlock \/ StoreLink \/ FetchState \/ FetchedApplied \/ SaveLast \/ SaveShard \/ SaveKeeper
        \/ ApplyMaster \/ MarkMaster \/ FollowMaster \/ ApplyShard \/ FollowShard \/ FollowKeeper

BootNext == BootProgress \/ TimeIsOver \/ WrongKeyBlocks \/ FetchStateFails \/ NodeCrashes

BootSpec == BootInit /\ [][BootNext]_bootVars /\ WF_bootVars(BootProgress) /\ WF_bootVars(TimeIsOver)

-----------------------------------------------------------------------------
(* Properties. *)

\* Whatever the peers answer, and across crashes, the node has a proof of a
\* key block only if it has proofs of all the key blocks before it, back to the
\* zero state or to the block of the configuration; it never takes over a proof
\* put together wrongly; and it takes over a block that is not of the chain only
\* with a proof that names a validator twice, whose weight is then added twice
\* (check_with_prev_key_block_proof_ and check_signatures of block_proof.rs,
\* check_crypto_signatures of validator_utils.rs).
TrustIsChained ==
  \A flags \in {mem.handles, durable.handles} :
    /\ \A b \in BootBlocks : (b[1] = "alien" /\ flags[b] # {} => "repeated" \in flags[b]) /\ "forged" \notin flags[b]
    /\ \A k \in KeyBlocks : "proof" \in flags[Mc(k)] /\ Saved("init") < k =>
         PrevKey(k) <= Saved("init") \/ "proof" \in flags[Mc(PrevKey(k))]

\* What stops a node for good:
\* a crash after the last applied block was saved and before the other two
\* entries (engine.rs 1375, 1384, 1396);
HalfSaved == Saved("last") # None /\ (Saved("shard") = None \/ Saved("keeper") = None) /\ WarmBlock # {}
\* a crash between a shard block and its proof (boot.rs 303, engine_operations.rs 279);
Unproved == \E b \in BootBlocks : "data" \in Flags(b) /\ ~HasWholeBlock(b)
\* a crash between a zero state and its flag, which is not set again: the boot
\* fails for it, or the next block waits for it (boot.rs 225 and 213);
ZeroUnapplied == \E b \in {Mc(0), Sc(0)} : "state" \in Flags(b) /\ "applied" \notin Flags(b)
\* a block that an earlier boot has applied, without a link from the block
\* before it, and that a client has to pass (boot.rs 336, apply_block_worker);
LeftBehind ==
  \E k \in 1 .. NetHead : /\ "applied" \in Flags(Mc(k)) /\ "prev" \notin Flags(Mc(k))
                          /\ (clients.shard < k \/ clients.keeper < k)
\* a boot from the block of the configuration, which ends the keeper
\* (engine.rs 1162);
KeeperEnded == KeeperEnds(clients.keeper)
\* a list of key blocks that is not of this chain (boot.rs 268), or a proof of
\* one that repeats a signature (validator_utils.rs 92).
Misled ==
  /\ BootAt("proof") /\ boot.asked # <<>> /\ "proof" \notin Flags(Head(boot.asked))
  /\ \A p \in SentProofs(Head(boot.asked)) : ~ProofIsGood(p, Head(boot.asked))

NodeIsStuck ==
  \/ BootAt("down") /\ (HalfSaved \/ Unproved \/ ZeroUnapplied)
  \/ BootAt("run") /\ (ZeroUnapplied \/ LeftBehind \/ KeeperEnded)
  \/ Misled \/ BootAt("astray")

\* After every crash and failed download the node boots again, and its clients
\* reach the last block of the network, in the cases above alone excepted.
NodeComesUp ==
  []<>(NodeIsStuck \/ (BootAt("run") /\ \A c \in DOMAIN clients : clients[c] = NetHead))
=============================================================================
