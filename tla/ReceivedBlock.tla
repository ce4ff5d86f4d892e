---------------------------- MODULE ReceivedBlock ----------------------------
(***************************************************************************)
(* The life of a block in a catchain receiver                              *)
(* (catchain/src/received_block.rs): created when something names it,      *)
(* initialized when its contents arrive, scheduled when its previous block *)
(* and its dependencies are delivered and it is in the database, and then  *)
(* delivered, or found to be ill.                                          *)
(*                                                                         *)
(* The contents of a block are a record [id, prev, deps].                  *)
(***************************************************************************)
EXTENDS ReceiverSource

CONSTANT
  WarnEnabled    \* the log level lets warnings through

\* The root of the session: height 0, of the source after the last one.
Root == <<Cardinality(Sources), 0, <<"root", {}>>>>

NewBlock ==
  [state |-> "Null", in_db |-> FALSE, pending_deps |-> 0, rev_deps |-> <<>>,
   fork_id |-> 0, forks_dep_heights |-> <<>>, has_next |-> FALSE,
   prev |-> Root, deps |-> <<>>]

RootBlock == [NewBlock EXCEPT !.state = "Delivered"]

EmptyReceiver ==
  [blocks |-> [b \in {Root} |-> RootBlock], sources |-> [s \in Sources |-> NewSource],
   blocks_to_run |-> <<>>, pending_blocks |-> <<>>, total_forks |-> 0, panicked |-> FALSE]

IsInitialized(r, b) == b \in DOMAIN r.blocks /\ r.blocks[b].state \in {"Initialized", "Delivered"}
IsDelivered(r, b) == b \in DOMAIN r.blocks /\ r.blocks[b].state = "Delivered"

Named(blk) == <<blk.prev>> \o blk.deps

\* Every block that a block depends on, itself included.
Ancestors(blocks, bs) ==
  FoldSet(LAMBDA k, as : as \cup UNION {{blocks[b].prev} \cup ToSet(blocks[b].deps) : b \in as \cap DOMAIN blocks},
          bs, 1 .. Cardinality(DOMAIN blocks))

\* The checks a block must pass before anything is done with it.  Signatures
\* are taken as verified, and no block names the root as a dependency.
PreValidateBlock(blk, max_deps) ==
  /\ Height(blk.id) > 0
  /\ Src(blk.id) \in Sources
  /\ Src(blk.prev) = (IF Height(blk.id) > 1 THEN Src(blk.id) ELSE Src(Root))
  /\ Height(blk.prev) + 1 = Height(blk.id)
  /\ Len(blk.deps) <= max_deps
  /\ \A i \in DOMAIN blk.deps :
       /\ Src(blk.deps[i]) \in Sources \ {Src(blk.id)}
       /\ \A j \in DOMAIN blk.deps : Src(blk.deps[i]) = Src(blk.deps[j]) => i = j

\* Mutant of MaxHeights: the vector is not resized.
MutMaxHeights(left, right) ==
  [i \in DOMAIN left |-> IF At(left, i) < At(right, i) THEN At(right, i) ELSE At(left, i)]

MaxHeights(left, right) ==
  [i \in 1 .. (IF Len(left) > Len(right) THEN Len(left) ELSE Len(right)) |->
     IF At(left, i) < At(right, i) THEN At(right, i) ELSE At(left, i)]

ScheduleIfReady(r, b) ==
  IF r.blocks[b].pending_deps = 0 /\ r.blocks[b].in_db
    THEN [r EXCEPT !.blocks_to_run = Append(@, b)]
    ELSE r

\* A block that something names, by its hash alone.
CreateBlock(r, b) ==
  IF b \in DOMAIN r.blocks
    THEN r
    ELSE [ProcessNewBlock(r, b) EXCEPT !.blocks = [c \in {b} |-> NewBlock] @@ @]

\* The block, and all that wait for it, directly or not.
Dependents(r, b) ==
  FoldSet(LAMBDA k, bs : bs \cup {c \in UNION {ToSet(r.blocks[x].rev_deps) : x \in bs} :
                                    r.blocks[c].state # "Ill"},
          {b}, 1 .. Cardinality(DOMAIN r.blocks))

MakeIll(r, bs) ==
  FoldSet(LAMBDA b, q : MarkAsBlamed([q EXCEPT !.blocks[b].state = "Ill"], Src(b)), r, bs)

\* The block's previous block and dependencies that are not delivered will
\* wake it up.
AwaitDependencies(r, b, waited, delivered) ==
  ScheduleIfReady(
    [r EXCEPT !.blocks =
       [c \in DOMAIN @ |->
          IF c = b
            THEN [@[c] EXCEPT !.pending_deps = Len(waited),
                              !.forks_dep_heights = FoldLeft(LAMBDA h, d : MaxHeights(h, r.blocks[d].forks_dep_heights),
                                                             @, delivered)]
            ELSE IF c \in ToSet(waited) THEN [@[c] EXCEPT !.rev_deps = Append(@, b)] ELSE @[c]]],
    b)

InitializeFrom(r, b, named) ==
  IF \E i \in DOMAIN named : r.blocks[named[i]].state = "Ill"
    THEN MakeIll(r, Dependents(r, b))
    ELSE BlockReceived(AwaitDependencies(r, b, SelectSeq(named, LAMBDA d : ~IsDelivered(r, d)),
                                         SelectSeq(named, LAMBDA d : IsDelivered(r, d))), b)

Initialize(r, blk) ==
  IF r.blocks[blk.id].state # "Null"
    THEN r
    ELSE InitializeFrom(
           [FoldLeft(CreateBlock, r, Named(blk))
              EXCEPT !.blocks[blk.id].prev = blk.prev,
                     !.blocks[blk.id].deps = blk.deps,
                     !.blocks[blk.id].state = "Initialized"],
           blk.id, Named(blk))

\* A block that comes up ill is kept when something named it before, and is
\* forgotten by the map, though not by its source, when it is new.
CreateBlockWithPayload(r, blk) ==
  IF blk.id \in DOMAIN r.blocks
    THEN Initialize(r, blk)
    ELSE LET made == Initialize(CreateBlock(r, blk.id), blk)
         IN  IF made.blocks[blk.id].state # "Ill" THEN made
             ELSE [made EXCEPT !.blocks = [b \in DOMAIN @ \ {blk.id} |-> @[b]]]

\* The call returned an error: the block came up ill.
CreationFailed(before, after, b) ==
  /\ BlockState(after, b) = "Ill"
  /\ b \in DOMAIN before.blocks => before.blocks[b].state = "Null"

SetForkId(r, b, fork) ==
  [r EXCEPT !.blocks[b].fork_id = fork,
            !.blocks[b].forks_dep_heights = SetAt(@, fork, Height(b)),
            !.panicked = @ \/ At(r.blocks[b].forks_dep_heights, fork) >= Height(b)]

\* The first block delivered after a block continues its fork, the others
\* start new ones.
InitializeFork(r, b) ==
  LET prev == r.blocks[b].prev
  IN  IF Height(b) = 1 \/ r.blocks[prev].has_next
        THEN SetForkId(AddFork(r, Src(b)), b, r.total_forks + 1)
        ELSE SetForkId([r EXCEPT !.blocks[prev].has_next = TRUE], b, r.blocks[prev].fork_id)

\* A dependency already covered by the previous block.
IsOldDep(r, heights, dep) == Height(dep) <= At(heights, r.blocks[dep].fork_id)

\* A dependency of a blamed source although the previous block knew another
\* fork of that source, or a block that blames it.
IsBlamedDep(r, heights, source, dep) ==
  /\ source.blamed
  /\ \/ \E i \in DOMAIN source.fork_ids : source.fork_ids[i] # r.blocks[dep].fork_id /\ At(heights, source.fork_ids[i]) # 0
     \/ \E i \in DOMAIN source.blamed_heights :
          source.blamed_heights[i] # 0 /\ At(heights, i) >= source.blamed_heights[i]

\* The first dependency that makes the block ill, none or one.
WrongDep(r, heights, deps) ==
  {i \in DOMAIN deps :
     /\ IsOldDep(r, heights, deps[i]) \/ IsBlamedDep(r, heights, r.sources[Src(deps[i])], deps[i])
     /\ \A j \in 1 .. (i - 1) :
          ~(IsOldDep(r, heights, deps[j]) \/ IsBlamedDep(r, heights, r.sources[Src(deps[j])], deps[j]))}

\* The dependency's source and the previous block are still borrowed when the
\* block is made ill: to write the warning borrows the second again, and to
\* blame the author of a dependent block may borrow the first.
BorrowFails(ill, dep) == WarnEnabled \/ \E c \in ill : Src(c) = Src(dep)

DiscardFor(r, b, dep, ill) ==
  [MakeIll(IF IsOldDep(r, r.blocks[r.blocks[b].prev].forks_dep_heights, dep)
             THEN r ELSE Blame(r, Src(b), r.blocks[b].fork_id, Height(b)), ill)
     EXCEPT !.panicked = @ \/ BorrowFails(ill, dep)]

PreDeliverPayload(r, b) ==
  IF NotAFork \in Accused(b)
    THEN MakeIll(r, Dependents(r, b))
    ELSE FoldSet(LAMBDA s, q : SetForkProof(q, s), r, Accused(b))

PreDeliver(r, b, wrong) ==
  IF wrong = {}
    THEN PreDeliverPayload(r, b)
    ELSE DiscardFor(r, b, r.blocks[b].deps[CHOOSE i \in wrong : TRUE], Dependents(r, b))

DependencyDelivered(r, b, heights) ==
  IF r.blocks[b].state = "Ill"
    THEN r
    ELSE ScheduleIfReady([r EXCEPT !.blocks[b].forks_dep_heights = MaxHeights(@, heights),
                                   !.blocks[b].pending_deps = @ - 1], b)

Deliver(r, b) ==
  IF r.blocks[b].state = "Ill"
    THEN r
    ELSE BlockDelivered(
           FoldLeft(LAMBDA q, c : DependencyDelivered(q, c, r.blocks[b].forks_dep_heights),
                    [r EXCEPT !.blocks[b].state = "Delivered", !.blocks[b].rev_deps = <<>>],
                    r.blocks[b].rev_deps),
           b)

PreDeliverAndDeliver(r, b) ==
  Deliver(PreDeliver(r, b, WrongDep(r, r.blocks[r.blocks[b].prev].forks_dep_heights, r.blocks[b].deps)), b)

Process(r, b) ==
  IF r.blocks[b].state # "Initialized"
    THEN r
    ELSE PreDeliverAndDeliver(
           InitializeFork([r EXCEPT !.panicked = @ \/ r.blocks[b].pending_deps # 0 \/ ~r.blocks[b].in_db], b), b)

\* Mutant of Written: the block is noted as written only when it is ready.
MutWritten(r, b) ==
  IF r.blocks[b].in_db \/ r.blocks[b].pending_deps # 0
    THEN r ELSE ScheduleIfReady([r EXCEPT !.blocks[b].in_db = TRUE], b)

Written(r, b) ==
  IF r.blocks[b].in_db THEN r ELSE ScheduleIfReady([r EXCEPT !.blocks[b].in_db = TRUE], b)

\* The scheduler runs the queue dry at the end of every task of the main
\* thread; a block is scheduled once.
RunScheduler(r) ==
  FoldSet(LAMBDA k, q : IF q.blocks_to_run = <<>> \/ q.panicked
                          THEN q
                          ELSE Process([q EXCEPT !.blocks_to_run = Tail(@)], Head(q.blocks_to_run)),
          r, 1 .. Cardinality(DOMAIN r.blocks))
=============================================================================
