-------------------------- MODULE CatchainReceiver --------------------------
(***************************************************************************)
(* The catchain receiver of one validator (catchain/src/receiver.rs): the  *)
(* main thread that receives blocks and creates the validator's own, the   *)
(* utility thread that writes them to the database, the queues between the *)
(* two, and the start from the database after a crash.                     *)
(*                                                                         *)
(* The other validators are the environment: they send the blocks of       *)
(* RemoteBlocks in any order and any number of times, and send back blocks *)
(* of ours.  The catchain above asks for own blocks on delivered ones.     *)
(***************************************************************************)
EXTENDS ReceivedBlock

CONSTANTS
  Self,          \* the index of this validator
  RemoteBlocks,  \* the contents of the blocks of the others
  OwnPayloads,   \* the payloads of the own blocks
  MaxDeps,       \* options.max_deps
  MaxRequests,   \* bound: own blocks asked for by the catchain
  MaxCrashes,    \* bound: crashes of the node
  MaxTasks       \* bound: tasks in the two queues when a block is received

ASSUME SelfAssumption == Self \in Sources
ASSUME RemoteAssumption == \A blk \in RemoteBlocks : Src(blk.id) # Self

VARIABLES
  r,             \* the memory of the receiver
  db,            \* the database: the contents of the blocks in it
  db_root,       \* the database entry at the zero hash: the last own block
  last_sent,     \* last_sent_block
  active_send,   \* an own block is on its way through the queues
  utility,       \* the tasks of the utility thread
  closures,      \* the closures it has posted to the main thread
  up,            \* the process runs
  covered,       \* the blocks that earlier requests of the catchain depend on
  sent,          \* history: the own blocks any other validator can have got
  requests,      \* history: the number of own blocks asked for
  crashes        \* history: the number of crashes

volatile == <<r, last_sent, active_send, utility, closures, up, covered>>
durable == <<db, db_root>>
vars == <<volatile, durable, sent, requests, crashes>>

NoBlock == Root

-----------------------------------------------------------------------------
(* What the receiver does with its memory                                  *)

\* The own blocks that are in the map as initialized can be asked for.
OwnVisible(q) ==
  {[id |-> b, prev |-> q.blocks[b].prev, deps |-> q.blocks[b].deps] :
     b \in {c \in DOMAIN q.blocks : Src(c) = Self /\ IsInitialized(q, c)}}

\* The end of every task of the main thread.
EndTask(q) == /\ r' = q
              /\ sent' = sent \cup OwnVisible(q)

OwnBlock(prev, request) ==
  [id |-> <<Self, Height(prev) + 1, request.payload>>, prev |-> prev, deps |-> request.deps]

\* add_block_impl: the block is signed and handed to the utility thread.
AddBlockImpl(prev, request) ==
  /\ active_send' = TRUE
  /\ utility' = Append(utility, [kind |-> "own", blk |-> OwnBlock(prev, request)])

-----------------------------------------------------------------------------
(* The main thread                                                         *)

\* A validator can only send a block whose own ancestors it got from us.
CanArrive(blk) ==
  \A b \in ToSet(Named(blk)) : Src(b) = Self => \E own \in sent : own.id = b

\* receive_block, from a message or from the answer to a query.
ReceiveBlock(blk) ==
  /\ up /\ ~r.panicked
  /\ CanArrive(blk)
  /\ Len(utility) + Len(closures) < MaxTasks
  /\ ~IsInitialized(r, blk.id)
  /\ PreValidateBlock(blk, MaxDeps)
  /\ IF Src(blk.id) = Self
       THEN r' = [r EXCEPT !.panicked = TRUE] /\ UNCHANGED <<utility, sent>>
       ELSE /\ EndTask(RunScheduler(CreateBlockWithPayload(r, blk)))
            /\ utility' = IF CreationFailed(r, r', blk.id) THEN utility
                          ELSE Append(utility, [kind |-> "received", blk |-> blk])
  /\ UNCHANGED <<last_sent, active_send, closures, up, covered, durable, requests, crashes>>

\* The catchain asks for a block on delivered blocks that no earlier request
\* of it depends on, at most one of each source that is not blamed.
Requests ==
  {[payload |-> p, deps |-> SetToSeq(ds)] :
     p \in OwnPayloads,
     ds \in {D \in SUBSET {b \in DOMAIN r.blocks \ covered :
                             Src(b) \in Sources \ {Self} /\ IsDelivered(r, b) /\ ~r.sources[Src(b)].blamed} :
               /\ Cardinality(D) <= MaxDeps
               /\ \A b, c \in D : Src(b) = Src(c) => b = c}}

AddBlock(request) ==
  /\ up /\ ~r.panicked
  /\ requests < MaxRequests
  /\ requests' = requests + 1
  /\ covered' = covered \cup Ancestors(r.blocks, ToSet(request.deps))
  /\ IF active_send
       THEN /\ r' = [r EXCEPT !.pending_blocks = Append(@, request)]
            /\ UNCHANGED <<active_send, utility>>
       ELSE AddBlockImpl(last_sent, request) /\ UNCHANGED r
  /\ UNCHANGED <<last_sent, closures, up, durable, sent, crashes>>

\* A block of another validator is in the database.
BlockWrittenToDb ==
  /\ up /\ ~r.panicked
  /\ closures # <<>> /\ Head(closures).kind = "received"
  /\ closures' = Tail(closures)
  /\ EndTask(RunScheduler(Written(r, Head(closures).blk.id)))
  /\ UNCHANGED <<last_sent, active_send, utility, up, covered, durable, requests, crashes>>

\* Mutant of SendPending: the flag is not reset after the last block.
MutSendPending(q) == EndTask(q) /\ UNCHANGED <<active_send, utility>>

\* The next one of the pending own blocks may start.
SendPending(q) ==
  IF q.pending_blocks = <<>>
    THEN /\ EndTask(q)
         /\ active_send' = FALSE
         /\ UNCHANGED utility
    ELSE /\ EndTask([q EXCEPT !.pending_blocks = Tail(@)])
         /\ AddBlockImpl(last_sent', Head(q.pending_blocks))

\* An own block is in the database: it joins the others.
OwnBlockWritten ==
  /\ up /\ ~r.panicked
  /\ closures # <<>> /\ Head(closures).kind = "own"
  /\ closures' = Tail(closures)
  /\ \E made \in {CreateBlockWithPayload(r, Head(closures).blk)} :
     \E failed \in {CreationFailed(r, made, Head(closures).blk.id)} :
       /\ last_sent' = IF failed THEN last_sent ELSE Head(closures).blk.id
       /\ \E q \in {RunScheduler(IF failed THEN made ELSE Written(made, Head(closures).blk.id))} :
            SendPending(q)
  /\ UNCHANGED <<up, covered, durable, requests, crashes>>

-----------------------------------------------------------------------------
(* The utility thread                                                      *)

\* Mutant of PutReceivedBlock: the block is not in the database when the main
\* thread is told that it is.
MutPutReceivedBlock ==
  /\ up /\ utility # <<>> /\ Head(utility).kind = "received"
  /\ utility' = Tail(utility)
  /\ closures' = Append(closures, Head(utility))
  /\ UNCHANGED <<r, last_sent, active_send, up, covered, durable, sent, requests, crashes>>

PutReceivedBlock ==
  /\ up /\ utility # <<>> /\ Head(utility).kind = "received"
  /\ db' = [b \in {Head(utility).blk.id} |-> Head(utility).blk] @@ db
  /\ utility' = Tail(utility)
  /\ closures' = Append(closures, Head(utility))
  /\ UNCHANGED <<r, last_sent, active_send, up, covered, db_root, sent, requests, crashes>>

\* An own block takes two writes: the block, then its hash as the root.
PutOwnBlock ==
  /\ up /\ utility # <<>> /\ Head(utility).kind = "own"
  /\ db' = [b \in {Head(utility).blk.id} |-> Head(utility).blk] @@ db
  /\ utility' = <<[Head(utility) EXCEPT !.kind = "root"]>> \o Tail(utility)
  /\ UNCHANGED <<r, last_sent, active_send, closures, up, covered, db_root, sent, requests, crashes>>

\* Mutant of PutRoot: the block is sent and the root is not written.
MutPutRoot ==
  /\ up /\ utility # <<>> /\ Head(utility).kind = "root"
  /\ utility' = Tail(utility)
  /\ closures' = Append(closures, [Head(utility) EXCEPT !.kind = "own"])
  /\ UNCHANGED <<r, last_sent, active_send, up, covered, durable, sent, requests, crashes>>

PutRoot ==
  /\ up /\ utility # <<>> /\ Head(utility).kind = "root"
  /\ db_root' = Head(utility).blk.id
  /\ utility' = Tail(utility)
  /\ closures' = Append(closures, [Head(utility) EXCEPT !.kind = "own"])
  /\ UNCHANGED <<r, last_sent, active_send, up, covered, db, sent, requests, crashes>>

-----------------------------------------------------------------------------
(* Crash and restart                                                       *)

Crash ==
  /\ up /\ crashes < MaxCrashes
  /\ crashes' = crashes + 1
  /\ up' = FALSE
  /\ r' = EmptyReceiver
  /\ last_sent' = Root
  /\ active_send' = FALSE
  /\ utility' = <<>>
  /\ closures' = <<>>
  /\ covered' = {}
  /\ UNCHANGED <<durable, sent, requests>>

\* read_block_from_db for the blocks still to read, the last own block first,
\* each followed by its dependencies and its previous block.
ResolveDependencies(m, q, missing) ==
  IF \A i \in DOMAIN missing : missing[i] \in DOMAIN db
    THEN [memory |-> RunScheduler(q), queue |-> Tail(m.queue) \o missing]
    ELSE [m EXCEPT !.memory.panicked = TRUE]

ReadBlockFromDb(m, q, blk) ==
  IF CreationFailed(m.memory, q, blk.id)
    THEN [m EXCEPT !.memory.panicked = TRUE]
    ELSE ResolveDependencies(m, Written(q, blk.id),
                             SelectSeq(blk.deps \o <<blk.prev>>, LAMBDA b : ~IsInitialized(q, b)))

ReadNext(m) ==
  IF m.queue = <<>> \/ m.memory.panicked THEN m
  ELSE IF IsInitialized(m.memory, Head(m.queue)) THEN [m EXCEPT !.queue = Tail(@)]
  ELSE ReadBlockFromDb(m, CreateBlockWithPayload(m.memory, db[Head(m.queue)]), db[Head(m.queue)])

ReadDb ==
  FoldSet(LAMBDA k, m : ReadNext(m), [memory |-> EmptyReceiver, queue |-> <<db_root>>],
          1 .. (MaxDeps + 1) * Cardinality(DOMAIN db)).memory

\* The receiver is created again and starts from the database.
Restart ==
  /\ ~up
  /\ up' = TRUE
  /\ last_sent' = db_root
  /\ \E q \in {IF db_root = NoBlock THEN EmptyReceiver ELSE ReadDb} :
       /\ EndTask([q EXCEPT !.panicked = @ \/ ~IsDelivered(q, db_root)])
       /\ covered' = Ancestors(q.blocks, {db_root})
  /\ UNCHANGED <<active_send, utility, closures, durable, requests, crashes>>

-----------------------------------------------------------------------------

Init ==
  /\ r = EmptyReceiver
  /\ db = [b \in {} |-> b]
  /\ db_root = NoBlock
  /\ last_sent = Root
  /\ active_send = FALSE
  /\ utility = <<>>
  /\ closures = <<>>
  /\ up = TRUE
  /\ covered = {}
  /\ sent = {}
  /\ requests = 0
  /\ crashes = 0

MainTask == BlockWrittenToDb \/ OwnBlockWritten

UtilityTask == PutReceivedBlock \/ PutOwnBlock \/ PutRoot

Next ==
  \/ \E blk \in RemoteBlocks \cup sent : ReceiveBlock(blk)
  \/ \E request \in Requests : AddBlock(request)
  \/ MainTask
  \/ UtilityTask
  \/ Crash
  \/ Restart

\* The two threads take the next task of their queues, and a stopped node is
\* started again: weak fairness, with the conditions under which the three can
\* be taken written out.
Fairness ==
  /\ []<>(~up \/ r.panicked \/ closures = <<>>) \/ []<><<MainTask>>_vars
  /\ []<>(~up \/ utility = <<>>) \/ []<><<UtilityTask>>_vars
  /\ []<>up \/ []<><<Restart>>_vars

Spec == Init /\ [][Next]_vars

FairSpec == Spec /\ Fairness

-----------------------------------------------------------------------------
(* Properties                                                              *)

\* Types of the state: the receiver's map holds known block records, and the
\* queues hold tasks of the kinds the two threads know.
TypeOK ==
  /\ \A b \in DOMAIN r.blocks :
       /\ r.blocks[b].state \in {"Null", "Initialized", "Delivered", "Ill"}
       /\ r.blocks[b].pending_deps \in 0 .. (MaxDeps + 1)
       /\ r.blocks[b].fork_id \in 0 .. r.total_forks
  /\ \A i \in DOMAIN utility : utility[i].kind \in {"received", "own", "root"}
  /\ \A i \in DOMAIN closures : closures[i].kind \in {"received", "own"}
  /\ last_sent \in DOMAIN r.blocks
  /\ <<active_send, up, r.panicked>> \in BOOLEAN \X BOOLEAN \X BOOLEAN

\* The heights a delivered block carries for the forks, which decide whether
\* later blocks are ill, are the greatest heights among its ancestors.
HeightsCoverAncestors ==
  \A b \in DOMAIN r.blocks \ {Root} :
    r.blocks[b].state = "Delivered" =>
      \A f \in 1 .. r.total_forks :
        At(r.blocks[b].forks_dep_heights, f) =
          Max({0} \cup {Height(a) : a \in {c \in Ancestors(r.blocks, {b}) : r.blocks[c].fork_id = f}})

\* Whoever is known to have signed two blocks of one height is blamed,
\* whatever the order in which the two, and what names them, arrived.
ForkersAreBlamed ==
  \A b, c \in DOMAIN r.blocks \ {Root} :
    Src(b) = Src(c) /\ Height(b) = Height(c) /\ b # c => r.sources[Src(b)].blamed

\* No assertion of the receiver fails, at run time or when it starts.
NeverPanics == ~r.panicked

\* A delivered block stays delivered for as long as the process runs: what
\* the consensus was given is never made ill afterwards.
DeliveredIsFinal ==
  [][up /\ up' => \A b \in DOMAIN r.blocks : IsDelivered(r, b) => IsDelivered(r', b)]_vars

\* A block whose ancestors have all arrived is delivered or found to be ill,
\* unless the node stops first: no order of the database's answers leaves it
\* waiting for ever.
Arrived(b) == up /\ \A a \in Ancestors(r.blocks, {b}) : IsInitialized(r, a)

ArrivedIsDelivered ==
  \A b \in {blk.id : blk \in RemoteBlocks} :
    Arrived(b) ~> (~up \/ r.panicked \/ BlockState(r, b) = "Ill" \/ IsDelivered(r, b))

\* Every own block asked for is sent in the end, unless the node stops: the
\* pending blocks are not forgotten when the one before them is written.
RequestsAreServed ==
  active_send ~> (~up \/ r.panicked \/ (~active_send /\ r.pending_blocks = <<>>))

-----------------------------------------------------------------------------
(* The own blocks implement OwnChain                                       *)

RootContent == [id |-> Root, prev |-> Root, deps |-> <<>>]

Content(b) == IF b = Root THEN RootContent ELSE db[b]

Own(blk) == [height |-> Height(blk.id), body |-> blk]

OwnBodies ==
  LET ids == Sources \X Nat \X (STRING \X SUBSET Sources)
  IN  [id : ids, prev : ids \cup {Root}, deps : Seq(ids)]

\* The own block in the queues, if any, and how far it is.
OwnFlight ==
  LET tasks == ToSet(utility) \cup {[t EXCEPT !.kind = "rooted"] : t \in {c \in ToSet(closures) : c.kind = "own"}}
      stages == [own |-> "signed", root |-> "stored", rooted |-> "rooted"]
      own == {[stage |-> stages[t.kind], block |-> Own(t.blk)] : t \in {u \in tasks : u.kind # "received"}}
  IN  IF own = {} THEN [stage |-> "none", block |-> Own(RootContent)] ELSE CHOOSE f \in own : TRUE

Chain == INSTANCE OwnChain WITH
  Body <- OwnBodies, Genesis <- RootContent,
  db <- {Own(db[b]) : b \in {c \in DOMAIN db : Src(c) = Self}},
  root <- Own(Content(db_root)), last <- Own(Content(last_sent)),
  flight <- OwnFlight, sent <- {Own(blk) : blk \in sent}, up <- up

\* The receiver's handling of its own blocks, with its two queues, its two
\* writes and its start from the database, does what OwnChain promises.
ImplementsOwnChain == Chain!Spec

-----------------------------------------------------------------------------
(* What the documentation and the assertions say and the code does not do  *)

\* The receiver starts from its database with its last block delivered, as
\* read_db asserts.
StartsFromLastBlock == up => IsDelivered(r, db_root) \/ active_send
=============================================================================
