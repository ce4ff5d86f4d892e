------------------------------ MODULE Catchain ------------------------------
(***************************************************************************)
(* The catchain processor of one validator (catchain/src/catchain.rs): it  *)
(* takes the blocks that the receiver delivers, shows each of them once to *)
(* the validator session (preprocess), keeps the top blocks that no later  *)
(* block covers, and repeatedly gives some of them to the session          *)
(* (process_blocks), which answers with the payload of an own block that   *)
(* depends on them.                                                        *)
(*                                                                         *)
(* The receiver and the session are the environment.  The receiver, after  *)
(* its own specification, delivers a block after all that it depends on,   *)
(* the own blocks in the order in which they were asked for, and a second  *)
(* fork of a source only after it has blamed the source.                   *)
(***************************************************************************)
EXTENDS Integers, Sequences, SequencesExt, FiniteSetsExt

CONSTANTS
  Sources,      \* the validators
  Self,         \* local_idx
  Forkers,      \* the validators that may fork
  MaxDeps,      \* options.max_deps
  MaxHeight,    \* bound: the height of the blocks of the others
  MaxBlocks,    \* bound: the number of blocks of the others
  MaxRestored,  \* bound: own blocks read from the database at the start
  MaxEmpty,     \* bound: own blocks made without dependencies by the timer
  MaxRequests   \* bound: calls of request_new_block

ASSUME SourcesAssumption == IsFiniteSet(Sources) /\ Self \in Sources /\ Forkers \subseteq Sources \ {Self}
ASSUME BoundsAssumption == {MaxDeps, MaxHeight, MaxBlocks, MaxRestored, MaxEmpty, MaxRequests} \subseteq Nat

VARIABLES
  blocks,             \* the delivered blocks: their previous block and dependencies
  preprocessed,       \* the blocks shown to the session
  processed,          \* the blocks covered by a call of process_blocks
  top_blocks,
  top_source_blocks,  \* the last block of each source, or NoBlock
  blamed_sources,
  receiver_started,
  active_process,     \* the session is working on the next own block
  force_process,      \* the session has asked for a further own block
  process_deps,       \* the dependencies of the own block in work
  timer,              \* next_block_generation_time: "armed", or "infinite"
  in_flight,          \* the dependencies of the own blocks given to the receiver
  early,              \* history: blocks shown before one that they depend on
  empty,              \* history: the number of own blocks without dependencies, up to the bound
  requests            \* history: the number of calls of request_new_block

marks == <<preprocessed, processed, early>>
tops == <<top_blocks, top_source_blocks, blamed_sources>>
flow == <<receiver_started, active_process, force_process, process_deps, timer, in_flight>>
vars == <<blocks, marks, tops, flow, empty, requests>>

-----------------------------------------------------------------------------
(* Blocks: an identifier is <<source, fork, height>>                       *)

Src(b) == b[1]
Fork(b) == <<b[1], b[2]>>
Height(b) == b[3]

\* What get_prev returns for the first block of a source.
NoBlock == <<>>

\* The blocks that a block names: its previous block and its dependencies.
Named(blk) == ({blk.prev} \ {NoBlock}) \cup blk.deps

\* All that a set of blocks depends on, itself included.
Ancestors(graph, bs) ==
  LET from[b \in DOMAIN graph] == {b} \cup UNION {from[a] : a \in Named(graph[b])}
  IN  UNION {from[b] : b \in bs}

\* forks_dep_heights of a block, for one fork.
DepHeight(graph, b, fork) ==
  Max({0} \cup {Height(a) : a \in {x \in Ancestors(graph, {b}) : Fork(x) = fork}})

IsDescendantOf(graph, b, ancestor) == Height(ancestor) <= DepHeight(graph, b, Fork(ancestor))

-----------------------------------------------------------------------------
(* The new block generation flow                                           *)

\* What is put on the stack, the previous block on top; no property tells the
\* order of the dependencies apart.
Pushed(waited, prev) == SetToSeq(waited \ {prev}) \o SetToSeq(waited \cap {prev})

\* One turn of the loop of recursive_blocks_update: the block on top of the
\* stack is left to the blocks that it waits for, or is marked.
VisitBlock(m, b, waited, prev) ==
  IF b \in m.marked THEN [m EXCEPT !.stack = Front(@)]
  ELSE IF waited # {} THEN [m EXCEPT !.stack = @ \o Pushed(waited, prev)]
  ELSE [stack |-> Front(m.stack), marked |-> m.marked \cup {b}, order |-> Append(m.order, b)]

\* Mutant of NextTurn: only the chain of previous blocks is followed.
MutNextTurn(graph, m) ==
  IF m.stack = <<>> THEN m
  ELSE LET b == Last(m.stack)
       IN  VisitBlock(m, b, {graph[b].prev} \ ({NoBlock} \cup m.marked), graph[b].prev)

\* A block waits for the blocks it names that are not marked.
NextTurn(graph, m) ==
  IF m.stack = <<>> THEN m
  ELSE LET b == Last(m.stack)
       IN  VisitBlock(m, b, Named(graph[b]) \ m.marked, graph[b].prev)

\* A block is left to others once, so that this many turns empty the stack.
MaxTurns(graph) == (MaxDeps + 3) * Cardinality(DOMAIN graph)

RecursiveBlocksUpdate(graph, b, marked) ==
  LET visit[k \in 0 .. MaxTurns(graph)] ==
        IF k = 0 THEN [stack |-> <<b>>, marked |-> marked, order |-> <<>>]
        ELSE NextTurn(graph, visit[k - 1])
  IN  visit[MaxTurns(graph)]

\* The blocks that come before one that they name in the order of a visit.
OutOfOrder(graph, before, order) ==
  {order[i] : i \in {j \in DOMAIN order :
     ~(Named(graph[order[j]]) \subseteq before \cup ToSet(SubSeq(order, 1, j - 1)))}}

\* send_preprocess
SendPreprocess(graph, b) ==
  \E visit \in {RecursiveBlocksUpdate(graph, b, preprocessed)} :
    /\ preprocessed' = visit.marked
    /\ early' = early \cup OutOfOrder(graph, preprocessed, visit.order)

\* set_processed, for each of the chosen blocks.
SetProcessed(chosen) ==
  LET done[i \in 0 .. Len(chosen)] ==
        IF i = 0 THEN processed ELSE RecursiveBlocksUpdate(blocks, chosen[i], done[i - 1]).marked
  IN  done[Len(chosen)]

\* Mutant of SendProcess: all top blocks are taken, also those above max_deps.
MutSendProcess ==
  \E chosen \in SUBSET {b \in top_blocks : Src(b) \notin blamed_sources} :
    /\ chosen = top_blocks \/ Cardinality(chosen) = MaxDeps
    /\ Cardinality(chosen) <= MaxDeps
    /\ top_blocks' = {}
    /\ processed' = SetProcessed(SetToSeq(chosen))
    /\ process_deps' = chosen
    /\ empty' = IF chosen = {} /\ empty < MaxEmpty THEN empty + 1 ELSE empty

\* send_process: top blocks are taken at random, those of blamed sources are
\* dropped, until there are none or max_deps are chosen.
SendProcess ==
  \E taken \in SUBSET top_blocks :
  \E chosen \in {{b \in taken : Src(b) \notin blamed_sources}} :
    /\ \/ taken = top_blocks /\ Cardinality(chosen) <= MaxDeps
       \/ Cardinality(chosen) = MaxDeps
    /\ top_blocks' = top_blocks \ taken
    /\ processed' = SetProcessed(SetToSeq(chosen))
    /\ process_deps' = chosen
    /\ empty' = IF chosen = {} /\ empty < MaxEmpty THEN empty + 1 ELSE empty

\* set_next_block_generation_time
SetNextBlockGenerationTime == timer' = "armed"

-----------------------------------------------------------------------------
(* Calls of the receiver                                                   *)

OnStarted ==
  /\ ~receiver_started
  /\ receiver_started' = TRUE
  /\ active_process' = TRUE
  /\ SendProcess
  /\ UNCHANGED <<blocks, preprocessed, early, top_source_blocks, blamed_sources, force_process, timer, in_flight, requests>>

\* The timer is armed when there is nothing on top and nothing in work.
ArmIfIdle(top) ==
  IF top = {} /\ ~active_process /\ receiver_started
    THEN SetNextBlockGenerationTime
    ELSE UNCHANGED timer

\* Mutant of TopsAfter: a new block does not replace its dependencies.
MutTopsAfter(b, blk) == (top_blocks \ {blk.prev}) \cup (IF Src(b) = Self THEN {} ELSE {b})

\* The top blocks once a block of a source that is not blamed is there.
TopsAfter(b, blk) == (top_blocks \ Named(blk)) \cup (IF Src(b) = Self THEN {} ELSE {b})

OnNewBlock(b, blk) ==
  /\ blocks' = [x \in {b} \cup DOMAIN blocks |-> IF x = b THEN blk ELSE blocks[x]]
  /\ IF Src(b) \in blamed_sources
       THEN /\ top_blocks' = top_blocks \ {blk.prev}
            /\ ArmIfIdle(top_blocks)
            /\ UNCHANGED <<preprocessed, early, top_source_blocks>>
       ELSE /\ SendPreprocess(blocks', b)
            /\ top_blocks' = TopsAfter(b, blk)
            /\ top_source_blocks' = [top_source_blocks EXCEPT ![Src(b)] = b]
            /\ ArmIfIdle(IF top_blocks = {} THEN {} ELSE top_blocks')
  /\ UNCHANGED <<processed, blamed_sources, receiver_started, active_process, force_process, process_deps>>

\* Mutant of TopsWithout: the blocks that only the blamed source covered are
\* not put back.
MutTopsWithout(blamed, last) == {b \in top_blocks : Src(b) \notin blamed}

\* The top blocks recomputed from the last blocks of the sources.
TopsWithout(blamed, last) ==
  LET heads == {s \in Sources \ blamed : last[s] # NoBlock}
  IN  {last[s] : s \in {i \in heads \ {Self} :
         /\ last[i] \notin processed
         /\ \A j \in heads \ {i} : ~IsDescendantOf(blocks, last[j], last[i])}}

OnBlame(s) ==
  /\ s \notin blamed_sources
  /\ blamed_sources' = blamed_sources \cup {s}
  /\ top_source_blocks' = [top_source_blocks EXCEPT ![s] = NoBlock]
  /\ top_blocks' = TopsWithout(blamed_sources', top_source_blocks')
  /\ UNCHANGED <<blocks, marks, flow, empty, requests>>

-----------------------------------------------------------------------------
(* Calls of the session and of the main loop                               *)

RequestNewBlock ==
  /\ receiver_started
  /\ requests < MaxRequests
  /\ requests' = requests + 1
  /\ force_process' = TRUE
  /\ IF active_process THEN UNCHANGED timer ELSE SetNextBlockGenerationTime
  /\ UNCHANGED <<blocks, marks, tops, receiver_started, active_process, process_deps, in_flight, empty>>

FinishProcessing ==
  /\ active_process' = FALSE
  /\ process_deps' = {}
  /\ timer' = "armed"
  /\ UNCHANGED <<processed, top_blocks, force_process, empty>>

\* The session's answer to process_blocks.
ProcessedBlock ==
  /\ active_process
  /\ in_flight' = Append(in_flight, process_deps)
  /\ IF top_blocks # {} \/ force_process
       THEN /\ force_process' = FALSE
            /\ SendProcess
            /\ UNCHANGED <<active_process, timer>>
       ELSE FinishProcessing
  /\ UNCHANGED <<blocks, preprocessed, early, top_source_blocks, blamed_sources, receiver_started, requests>>

\* The main loop when the generation time has come.
GenerateNewBlock ==
  /\ receiver_started
  /\ timer = "armed"
  /\ top_blocks # {} \/ empty < MaxEmpty
  /\ timer' = "infinite"
  /\ IF active_process
       THEN UNCHANGED <<processed, top_blocks, active_process, process_deps, empty>>
       ELSE active_process' = TRUE /\ SendProcess
  /\ UNCHANGED <<blocks, preprocessed, early, top_source_blocks, blamed_sources,
                 receiver_started, force_process, in_flight, requests>>

-----------------------------------------------------------------------------
(* The environment                                                         *)

LastHeight(fork) == Max({0} \cup {Height(b) : b \in {x \in DOMAIN blocks : Fork(x) = fork}})

Extend(s, f, h) == [id |-> <<s, f, h + 1>>, prev |-> IF h = 0 THEN NoBlock ELSE <<s, f, h>>]

\* The places for the next block of a source: after the last block of a fork
\* or, once the source is blamed, at the start of a second fork.
Places(s) ==
  {Extend(s, 0, LastHeight(<<s, 0>>))}
  \cup
  IF s \notin Forkers \cap blamed_sources THEN {}
  ELSE IF LastHeight(<<s, 1>>) > 0 THEN {Extend(s, 1, LastHeight(<<s, 1>>))}
  ELSE {[Extend(s, 0, h) EXCEPT !.id = <<s, 1, h + 1>>] : h \in 0 .. LastHeight(<<s, 0>>) - 1}

\* The receiver finds a block ill when a dependency of it is covered by the
\* previous block, or is on another fork than the one known to that block.
IsIllDep(prev, d) ==
  /\ prev # NoBlock
  /\ \/ IsDescendantOf(blocks, prev, d)
     \/ Src(d) \in blamed_sources /\ \E f \in {0, 1} : <<Src(d), f>> # Fork(d) /\ DepHeight(blocks, prev, <<Src(d), f>>) > 0

OnePerSource(ds) == \A b, c \in ds : Src(b) = Src(c) => b = c

\* The dependencies a new block of a source can have.
PossibleDeps(s, prev) ==
  {ds \in SUBSET {d \in DOMAIN blocks : Src(d) # s /\ ~IsIllDep(prev, d)} :
     Cardinality(ds) <= MaxDeps /\ OnePerSource(ds)}

\* A block of another validator is delivered.
DeliverBlock(s) ==
  /\ Cardinality({b \in DOMAIN blocks : Src(b) # Self}) < MaxBlocks
  /\ \E place \in Places(s) : \E ds \in PossibleDeps(s, place.prev) :
       /\ Height(place.id) <= MaxHeight
       /\ OnNewBlock(place.id, [prev |-> place.prev, deps |-> ds])
  /\ UNCHANGED <<in_flight, empty, requests>>

\* An own block of an earlier life of the node is delivered before the start.
RestoreOwnBlock ==
  /\ ~receiver_started
  /\ \E place \in Places(Self) : \E ds \in PossibleDeps(Self, place.prev) :
       /\ Height(place.id) <= MaxRestored
       /\ OnNewBlock(place.id, [prev |-> place.prev, deps |-> ds])
  /\ UNCHANGED <<in_flight, empty, requests>>

\* The next own block is written and delivered, unless the receiver finds it
\* ill: then no own block comes any more.
DeliverOwnBlock ==
  /\ in_flight # <<>>
  /\ in_flight' = Tail(in_flight)
  /\ \E place \in Places(Self) :
       /\ Head(in_flight) \in PossibleDeps(Self, place.prev)
       /\ OnNewBlock(place.id, [prev |-> place.prev, deps |-> Head(in_flight)])
  /\ UNCHANGED <<empty, requests>>

-----------------------------------------------------------------------------
Init ==
  /\ blocks = [b \in {} |-> NoBlock]
  /\ preprocessed = {}
  /\ processed = {}
  /\ top_blocks = {}
  /\ top_source_blocks = [s \in Sources |-> NoBlock]
  /\ blamed_sources = {}
  /\ receiver_started = FALSE
  /\ active_process = FALSE
  /\ force_process = FALSE
  /\ process_deps = {}
  /\ timer = "armed"
  /\ in_flight = <<>>
  /\ early = {}
  /\ empty = 0
  /\ requests = 0

Next ==
  \/ OnStarted
  \/ \E s \in Sources \ {Self} : DeliverBlock(s)
  \/ RestoreOwnBlock
  \/ DeliverOwnBlock
  \/ \E s \in Forkers : OnBlame(s)
  \/ RequestNewBlock
  \/ ProcessedBlock
  \/ GenerateNewBlock

Spec == Init /\ [][Next]_vars

\* The receiver starts, the session answers, and the main loop looks at the
\* clock in every turn.
Fairness ==
  /\ []<>receiver_started \/ []<><<OnStarted>>_vars
  /\ []<>(~active_process) \/ []<><<ProcessedBlock>>_vars
  /\ []<>(~(receiver_started /\ timer = "armed" /\ top_blocks # {})) \/ []<><<GenerateNewBlock>>_vars

FairSpec == Spec /\ Fairness

-----------------------------------------------------------------------------
(* Properties                                                              *)

TypeOK ==
  /\ \A b \in DOMAIN blocks : /\ Src(b) \in Sources /\ Height(b) > 0
                              /\ Named(blocks[b]) \subseteq DOMAIN blocks
  /\ preprocessed \subseteq DOMAIN blocks
  /\ processed \subseteq preprocessed
  /\ top_blocks \subseteq preprocessed
  /\ \A s \in Sources : top_source_blocks[s] = NoBlock \/ top_source_blocks[s] \in DOMAIN blocks
  /\ blamed_sources \subseteq Forkers
  /\ {receiver_started, active_process, force_process} \subseteq BOOLEAN
  /\ process_deps \subseteq processed
  /\ timer \in {"armed", "infinite"}
  /\ early \subseteq DOMAIN blocks

\* The session computes the state after a block from the states after the
\* blocks it names: each of them is shown to it first, also those of blamed
\* sources that only a later block brings in.
PreprocessedInOrder == early = {}

\* What the own blocks still to come will depend on, in their order.
OwnRequests == in_flight \o (IF active_process THEN <<process_deps>> ELSE <<>>)

\* What the own block after the first i of these will have as ancestors.
CoveredBefore(i) ==
  Ancestors(blocks, ({top_source_blocks[Self]} \ {NoBlock}) \cup UNION {OwnRequests[j] : j \in 1 .. i - 1})

\* As long as nobody is blamed, the receivers accept every own block: it
\* names at most one block of a source and none that its predecessor covers,
\* in whatever order blocks arrive while earlier own blocks are on their way.
OwnBlocksAreValid ==
  blamed_sources = {} =>
    \A i \in DOMAIN OwnRequests :
      /\ OnePerSource(OwnRequests[i])
      /\ OwnRequests[i] \cap CoveredBefore(i) = {}

\* The blocks that the own blocks, made or in work, build on.
Covered == processed \cup CoveredBefore(1)

\* Nothing is forgotten: a block of a source in good standing is covered by
\* the own chain, or by a top block that will be, also after a source whose
\* block covered it has been blamed.
TopsCoverTheRest ==
  {b \in DOMAIN blocks : Src(b) \notin blamed_sources \cup {Self}}
    \subseteq Covered \cup Ancestors(blocks, top_blocks)

\* Every delivered block is in time covered by an own block, unless its
\* source is blamed.
Ids == (Sources \ {Self}) \X {0} \X (1 .. MaxHeight)

BlocksAreProcessed ==
  \A b \in Ids : (b \in DOMAIN blocks) ~> (b \in Covered \/ Src(b) \in blamed_sources)
=============================================================================
