---------------------------- MODULE CatchainSync ----------------------------
(***************************************************************************)
(* How the catchain receivers of several validators exchange their blocks  *)
(* (catchain/src/receiver.rs, and the calls to the overlay in catchain.rs):*)
(* a delivered block goes to the neighbours of the moment, and each        *)
(* validator keeps asking others for what it has not delivered, with a     *)
(* difference query, a query for each missing dependency, and fork proofs  *)
(* as answers.  Messages are lost, late and out of order.                  *)
(*                                                                         *)
(* Each correct validator has the memory of ReceivedBlock; a block is in   *)
(* its database when it has been received (CatchainReceiver has the two    *)
(* threads).  The other validators send what they like.                    *)
(***************************************************************************)
EXTENDS ReceivedBlock

CONSTANTS
  Correct,        \* the validators that run this code
  Shown,          \* bound: the blocks of the others that each of them is shown
  MaxNeighbours,  \* MAX_NEIGHBOURS_COUNT
  MaxSend,        \* MAX_BLOCKS_TO_SEND, or less of an overloaded validator
  MaxOwn,         \* bound: the blocks that each one's catchain asks for
  MaxLosses       \* bound: the messages that are lost

Foreign == UNION {Shown[n] : n \in Correct}

ASSUME CorrectAssumption == Correct \subseteq Sources /\ \A blk \in Foreign : Src(blk.id) \notin Correct

VARIABLES
  members,        \* the memory of each correct validator's receiver
  contents,       \* the contents of the blocks of the correct validators
  net,            \* the messages on their way
  recent,         \* the blocks sent to a validator within the throttling delay
  losses          \* history: the number of lost messages

syncVars == <<members, contents, net, recent, losses>>

NumSources == Cardinality(Sources)

SourceOf(n, s) == members[n].sources[s]
Blames(n, s) == SourceOf(n, s).blamed
Alive(n) == ~members[n].panicked

Update(to, b) == [kind |-> "update", to |-> to, block |-> b]
Fork(to, s) == [kind |-> "fork", to |-> to, source |-> s]

ContentsOf(b) == IF b \in DOMAIN contents THEN contents[b] ELSE CHOOSE blk \in Foreign : blk.id = b

-----------------------------------------------------------------------------
(* The memory of a receiver                                                *)

\* create_block_with_payload, the write, and the scheduler.
Take(r, blk) ==
  LET made == CreateBlockWithPayload(r, blk)
  IN  RunScheduler(IF CreationFailed(r, made, blk.id) THEN made ELSE Written(made, blk.id))

\* Not again within BLOCK_SENDING_THROTTLING_DELAY.
MarkBlockForSending(n, to, b) == <<n, to, b>> \notin recent

\* choose_neighbours, a random choice from the sources that are not blamed.  It
\* is made again and again, so a task finds any choice in place.
ChooseNeighbours(n) ==
  LET others == {s \in Sources \ {n} : ~Blames(n, s)}
      items(S, s) == Min({MaxNeighbours, NumSources}) - Cardinality({t \in S : t < s})
  IN  {S \in SUBSET others : /\ \A s \in S : items(S, s) > 0
                             /\ \A s \in others \ S : items(S, s) < NumSources - s}

\* deliver_block: what is newly delivered goes to the neighbours.
Deliveries(n, r, neighbours) ==
  {d \in {n} \X neighbours \X DOMAIN r.blocks :
     IsDelivered(r, d[3]) /\ ~IsDelivered(members[n], d[3]) /\ MarkBlockForSending(n, d[2], d[3])}

\* A task of the receiver n ends with the memory r.
Finish(n, r, messages) ==
  /\ members' = [members EXCEPT ![n] = r]
  /\ \E sent \in {Deliveries(n, r, S \cap Correct) : S \in ChooseNeighbours(n)} :
       /\ net' = messages \cup {Update(d[2], d[3]) : d \in sent}
       /\ recent' = recent \cup sent

-----------------------------------------------------------------------------
(* Own blocks                                                              *)

LastOwn(n, r) ==
  CHOOSE b \in {Root} \cup {c \in DOMAIN r.blocks : Src(c) = n} :
    \A c \in DOMAIN r.blocks : Src(c) = n => Height(c) <= Height(b)

NextOwn(n, r, payload, deps) ==
  [id |-> <<n, Height(LastOwn(n, r)) + 1, payload>>, prev |-> LastOwn(n, r), deps |-> deps]

OwnRequests(n) == {b \in DOMAIN members[n].blocks : Src(b) = n /\ Accused(b) = {}}

\* What the catchain may name: delivered blocks that no earlier own block
\* covers, one of each source that is not blamed.
OwnDeps(n) ==
  LET covered == Ancestors(members[n].blocks, {LastOwn(n, members[n])})
      tops == {b \in DOMAIN members[n].blocks \ covered :
                 Src(b) \in Sources \ {n} /\ IsDelivered(members[n], b) /\ ~Blames(n, Src(b))}
  IN  {D \in SUBSET tops : \A b, c \in D : Src(b) = Src(c) => b = c}

\* The block, and after it the fork proofs that have waited for one.
OwnBlocks(n, r, payload, deps) ==
  LET step(m, request) ==
        [memory |-> Take([m.memory EXCEPT !.pending_blocks = Tail(@)], NextOwn(n, m.memory, request.payload, request.deps)),
         made |-> Append(m.made, NextOwn(n, m.memory, request.payload, request.deps))]
      first == [memory |-> Take(r, NextOwn(n, r, payload, deps)), made |-> <<NextOwn(n, r, payload, deps)>>]
  IN  FoldLeft(step, first, first.memory.pending_blocks)

AddOwnBlock(n) ==
  /\ Alive(n) /\ Cardinality(OwnRequests(n)) < MaxOwn[n]
  /\ \E D \in OwnDeps(n) : \E own \in {OwnBlocks(n, members[n], <<"own", {}>>, SetToSeq(D))} :
       /\ contents' = [b \in {blk.id : blk \in ToSet(own.made)} |-> CHOOSE blk \in ToSet(own.made) : blk.id = b] @@ contents
       /\ Finish(n, own.memory, net)
  /\ UNCHANGED losses

-----------------------------------------------------------------------------
(* Messages                                                                *)

\* receive_block, of an update or of an answer to a query for the block.  An own
\* block is always known: here nobody restarts.
Accept(n, blk, messages) ==
  /\ Alive(n)
  /\ IF IsInitialized(members[n], blk.id) THEN net' = messages /\ UNCHANGED <<members, recent>>
     ELSE Finish(n, Take(members[n], blk), messages)
  /\ UNCHANGED <<contents, losses>>

ReceiveUpdate(n, b) == Update(n, b) \in net /\ Accept(n, ContentsOf(b), net \ {Update(n, b)})

ReceiveForeign(n) == \E blk \in Shown[n] : ~IsInitialized(members[n], blk.id) /\ Accept(n, blk, net)

\* synchronize_with: the heights of the difference query, -1 for a blamed
\* source, and the missing blocks below the first one that is not delivered.
KnownHeights(n) == [s \in Sources |-> IF Blames(n, s) THEN 0 - 1 ELSE SourceOf(n, s).delivered_height]

\* get_pending_deps
PendingDeps(r, b) ==
  LET Reach(bs) == bs \cup UNION {{r.blocks[c].prev} \cup ToSet(r.blocks[c].deps) : c \in {d \in bs : r.blocks[d].state = "Initialized"}}
  IN  {c \in FoldSet(LAMBDA k, bs : Reach(bs), {b}, 1 .. Cardinality(DOMAIN r.blocks)) : r.blocks[c].state = "Null"}

FirstUndelivered(n, s) ==
  IF ~HasUndelivered(members[n], s) THEN {}
  ELSE {b \in SourceOf(n, s).blocks : Height(b) = SourceOf(n, s).delivered_height + 1}

\* process_get_difference_query: how many blocks of each source are sent.
Missing(n, heights) ==
  [s \in Sources |-> IF heights[s] < 0 THEN 0 ELSE Max({0, SourceOf(n, s).delivered_height - heights[s]})]

SendLimit(missing) ==
  1 + Max({k \in 0 .. MaxSend : FoldSet(LAMBDA s, sum : sum + Min({missing[s], k}), 0, Sources) <= MaxSend})

BlocksToSend(n, heights) ==
  LET missing == Missing(n, heights)
  IN  UNION {{<<s, h>> : h \in heights[s] + 1 .. heights[s] + Min({missing[s], SendLimit(missing)})} : s \in {t \in Sources : missing[t] > 0}}

BlockAt(n, s, h) == {b \in SourceOf(n, s).blocks : Height(b) = h}

\* Mutant of KnownForks: a fork is told to those that have less of the source.
MutKnownForks(n, heights) ==
  {s \in Sources : heights[s] \in 0 .. SourceOf(n, s).delivered_height - 1 /\ SourceOf(n, s).fork_found}

\* The forks that a validator which has these heights is told about.
KnownForks(n, heights) == {s \in Sources : heights[s] >= 0 /\ SourceOf(n, s).fork_found}

\* The blocks after the heights that are sent, unless they have just been; each
\* of them is expected at its height.
SendBlocks(n, from, heights) ==
  \E asked \in {BlocksToSend(n, heights)} :
  \E found \in {UNION {BlockAt(n, a[1], a[2]) : a \in asked}} :
  \E marked \in {{b \in found : MarkBlockForSending(n, from, b)}} :
    /\ recent' = recent \cup {<<n, from, b>> : b \in marked}
    /\ members' = [members EXCEPT ![n].panicked = @ \/ Cardinality(found) < Cardinality(asked)]
    /\ net' = net \cup {Update(from, b) : b \in marked}

\* process_get_difference_query
AnswerDifference(n, from, heights) ==
  \E forks \in {KnownForks(n, heights)} :
    \/ forks # {} /\ net' = net \cup {Fork(from, Min(forks))} /\ UNCHANGED <<members, recent>>
    \/ forks = {} /\ SendBlocks(n, from, heights)

\* Mutant of AnswerGetBlock: the block is looked for among the source's blocks.
MutAnswerGetBlock(n, from, b) ==
  IF b \in SourceOf(n, Src(b)).blocks /\ IsInitialized(members[n], b) THEN {Update(from, b)} ELSE {}

\* process_get_block_query
AnswerGetBlock(n, from, b) == IF IsInitialized(members[n], b) THEN {Update(from, b)} ELSE {}

\* synchronize: a source that is not blamed is asked; a query that is lost, or
\* refused by an overloaded validator, changes nothing.
MayAsk(n, s) == Alive(n) /\ Alive(s) /\ s # n /\ ~Blames(n, s)

\* synchronize_with: the difference query and its answer,
Synchronize(n, s) == MayAsk(n, s) /\ AnswerDifference(s, n, KnownHeights(n)) /\ UNCHANGED <<contents, losses>>

\* and a query for each missing block.
RequestMissing(n, s) ==
  /\ MayAsk(n, s)
  /\ \E b \in FirstUndelivered(n, s) : \E d \in PendingDeps(members[n], b) : net' = net \cup AnswerGetBlock(s, n, d)
  /\ UNCHANGED <<members, contents, recent, losses>>

\* got_fork_proof, of two blocks that the source has signed.
GotForkProof(n, s) ==
  /\ Fork(n, s) \in net /\ Alive(n)
  /\ Finish(n, SetForkProof(members[n], s), net \ {Fork(n, s)})
  /\ UNCHANGED <<contents, losses>>

\* A message or an answer is lost, comes after the query has timed out, or meets
\* an overloaded validator.
Lose ==
  /\ losses < MaxLosses /\ losses' = losses + 1
  /\ \E m \in net : net' = net \ {m}
  /\ UNCHANGED <<members, contents, recent>>

\* BLOCK_SENDING_THROTTLING_DELAY is over (bound: for all at once).
ThrottlingEnds ==
  /\ recent # {} /\ recent' = {}
  /\ UNCHANGED <<members, contents, net, losses>>

-----------------------------------------------------------------------------
SyncInit ==
  /\ members = [n \in Correct |-> EmptyReceiver]
  /\ contents = [b \in {} |-> b]
  /\ net = {} /\ recent = {} /\ losses = 0

SyncNext ==
  \/ \E n \in Correct :
       \/ AddOwnBlock(n) \/ ReceiveForeign(n)
       \/ \E m \in net : m.kind = "update" /\ ReceiveUpdate(n, m.block)
       \/ \E s \in Sources : GotForkProof(n, s)
       \/ \E s \in Correct : Synchronize(n, s) \/ RequestMissing(n, s)
  \/ Lose \/ ThrottlingEnds

\* The names of the blocks that the validators can make.
SyncBlocks ==
  {blk.id : blk \in Foreign} \cup Correct \X (1 .. MaxHeight) \X ({<<"own", {}>>} \cup {ForkProof(s) : s \in Sources \ Correct})

\* A difference query of n brings nothing from s that is not on its way.
Answered(n, s) ==
  \/ ~MayAsk(n, s)
  \/ LET heights == KnownHeights(n)
     IN  IF KnownForks(s, heights) # {} THEN Fork(n, Min(KnownForks(s, heights))) \in net
         ELSE \A a \in BlocksToSend(s, heights) : \A b \in BlockAt(s, a[1], a[2]) : ~MarkBlockForSending(s, n, b)

\* Nor does a query for a block.
Requested(n, s) ==
  \/ ~MayAsk(n, s)
  \/ \A b \in FirstUndelivered(n, s) : \A d \in PendingDeps(members[n], b) : AnswerGetBlock(s, n, d) \subseteq net

\* Each validator asks each other one again and again, and what is not lost
\* arrives in the end: weak fairness of each of the steps, written as what
\* it comes to, that the step does not stay possible.
SyncFairness ==
  /\ \A n \in Correct :
       /\ \A b \in {c \in SyncBlocks : Src(c) # n} : []<>(Alive(n) => Update(n, b) \notin net)
       /\ \A s \in Sources \ Correct : []<>(Alive(n) => Fork(n, s) \notin net)
       /\ \A s \in Correct \ {n} : []<>Answered(n, s) /\ []<>Requested(n, s)
  /\ []<>(recent = {})

SyncSpec == SyncInit /\ [][SyncNext]_syncVars /\ SyncFairness

-----------------------------------------------------------------------------
(* Properties                                                              *)

\* The blocks that the validators make reach all of them: what one of them has
\* delivered of these is in the end delivered by each of the others, with
\* messages lost, resends held back, answers limited, and dependencies on blocks
\* of a source that is blamed, which only the query for a block still brings
\* (process_get_difference_query, process_get_block_query, synchronize_with).
BlocksSpread ==
  <>[] \A n, m \in Correct : \A b \in DOMAIN contents : IsDelivered(members[n], b) => IsDelivered(members[m], b)

\* A fork that one of the validators has found is in the end known to each of
\* the others, though the fork proof of add_fork_proof waits for an own block that
\* may never be asked for: the answers to difference queries carry it.
ForksSpread ==
  <>[] \A n, m \in Correct : \A s \in Sources : SourceOf(n, s).fork_found => SourceOf(m, s).fork_found
=============================================================================
