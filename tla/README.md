# TLA+ specifications of the TON node

The repository is a node of the TON blockchain in Rust. These modules model its
protocol core and the parts of the node around it, check them with TLC on small
instances, and prove its central safety arguments with TLAPS. `PROJECT.json` maps every
definition to its source lines ("map"), lists the hazards each property is for, and
gives every property a mutant: a wrong variant of a definition (an operator `Mut...`)
under which TLC must find the property violated. Nothing else refers to the mutants.

## 1. The system

| part | source | state | operations | hard behaviour |
|---|---|---|---|---|
| session state | `validator-session/src/{round_attempt,round,old_round,session_state}.rs` | votes, precommits and suggestions of each attempt; blocks, approvals, locks, signatures of each round | one per message, the implicit step `make_one`, `merge` | views merged in any order, faulty nodes, assertions |
| session processor | `session_processor.rs`, `session.rs` | real and virtual state, flags of collation, validation, signing | `preprocess_block`, `process_blocks`, callbacks, `check_all` | answers that arrive in a later round or after a restart |
| catchain: received blocks | `catchain/src/received_block.rs` | state of a block, what it waits for, forks it blames | initialise, deliver, mark ill | blocks arrive before their dependencies |
| catchain: receiver | `receiver.rs`, `receiver_source.rs` | blocks by hash, heights and blame of sources, database, two threads | receive, own blocks, synchronise, fork proofs, restart | loss, reordering, forks, crash |
| catchain: processor | `catchain.rs` | top blocks, own block in work | `preprocess_block`, `send_process`, `processed_block` | order, blame of a source with blocks in work |
| start of the node | `src/src/boot.rs`, `engine.rs` | handles, states, last applied block | key block proofs, states, warm and cold boot | crash between two writes, failing downloads |
| full node | `engine.rs`, `full_node`, `block_proof.rs`, `storage/src` | handles, flags, archives, states | download, apply, archive, collect | many waiters for one operation, writes that are queued |
| collation | `validator/{collator,collator_sync,validate_query,out_msg_queue}.rs` | message queues, processed_upto, logical times | collate, validate | splits and merges of shards, full blocks |
| shard configuration | `collator.rs`, `validate_query.rs`, `shard_blocks.rs` | the layout in the masterchain | announce, split, merge, register, rotate | windows that expire, sessions and layout changing together |
| validator groups | `validator/{validator_manager,validator_group}.rs` | groups per session, validator lists | start, stop, rotate, accept | tasks that start late, restart |
| overlay neighbours | `network/{neighbours,node_network}.rs` | a lock-free cache with indices | insert, replace, ping, query | two tasks that write at once |
| state download | `full_node/state_helper.rs`, `network/full_node_client.rs` | parts by offset | ask, retry, put together | unknown length, threads past the end |

A validator session runs over a catchain: each node puts messages into its blocks,
which refer to the blocks of others it has seen, and every replica computes the session
state after each block. A round proposes blocks, collects approvals and votes in
attempts (time slices): a block voted by nodes of the cutoff weight (over two thirds)
may be precommitted, a block precommitted in one attempt by the cutoff weight is signed,
and with signatures of the cutoff weight the round ends. A node that precommitted is
locked on the block until it sees another one voted in a later attempt. What a session
decides becomes a shard or masterchain block; the validator manager starts a session for
each shard of the layout in the masterchain, and every full node downloads, checks and
applies the result.

## 2. Modules

| module | models |
|---|---|
| `SessionDescription` | weights, cutoff, priorities, VOTEFOR author, slow mode, the sorted vectors |
| `RoundAttempt`, `Round`, `SessionState` | the session's immutable objects: one operator per method |
| `Session` | all replicas, with faulty and stopping nodes |
| `SessionVoting`, `SessionVoting_proofs` | abstract voting of one round with the lock rule, its inductive invariant, the proofs, and that the cutoff weight gives its quorums |
| `SessionProcessor`, `SessionProcessor_proofs` | the flags of one processor, its callbacks, rounds and restart, and the proofs |
| `ReceivedBlock`, `ReceiverSource` | the blocks and the sources of a receiver |
| `CatchainReceiver` | one receiver: two threads, database, crash and restart |
| `OwnChain`, `OwnChain_proofs` | what a receiver promises of its own blocks, and the proof |
| `CatchainSync` | several receivers that synchronise over a network that loses messages |
| `Catchain`, `Catchain_proofs` | the catchain processor between receiver and session, and the proofs |
| `NodeBoot`, `NodeBoot_proofs` | the start of a node, with crashes, and the proof that its trust is chained |
| `FullNode` | the running clients of a node, with crashes |
| `Collation` | collator against validators: the messages |
| `ShardConfig`, `ShardConfig_proofs` | collator against validators: the shard layout and its sessions, and the proofs |
| `ValidatorGroups`, `ValidatorGroups_proofs` | the validator manager, its groups and lists, and the proofs |
| `Neighbours`, `StateDownload` | the overlay's cache of neighbours, the download of a state; `Network_proofs` has the proofs of both |
| `MC...` | instances for TLC |

**Session.** `SessionDescription` to `SessionState` are pure operators, as the code's
states are immutable. A block is a number (its order is that of the identifiers),
candidate 0 is SKIP, a signature is the node that made it and is taken as verified, and
the sorted vectors are sets. `ProcessBlocks(n)` is one `process_blocks` call: it merges
some blocks of others, applies the messages that collator, validator and signer have
ready, and runs `create_action`/`apply_action` until EMPTY; the block is then
preprocessed by all replicas. A faulty node sends any message that is not refused at
once; it has one chain, as the catchain refuses forks. `AssertionsHold` gathers the
assertions of `merge` and of the operations on merged states.

**Session processor.** One round-indexed processor with the flags of the code and a
network that decides: the answers of collator, validator and signer are pending handlers
that come in any order, late, or never. `clock` has the slots that the delays of the code
distinguish.

**Catchain.** `CatchainReceiver` follows the code's main thread and utility thread: each
queue entry is a step, and a crash may fall between any two. `CatchainSync` reuses the
operators of `ReceivedBlock` and `ReceiverSource` for several receivers; a query and its
answer are one step (an answer after the handler has expired is dropped by the code),
neighbours are chosen anew for each task, and the throttling of sends ends for all blocks
at once. `Catchain` takes delivered blocks and blames as inputs, which `CatchainReceiver`
orders; the dependencies of a block are a set, and one turn of the loop of
`recursive_blocks_update` is the operator `NextTurn`.

**Node.** `NodeBoot` and `FullNode` keep a memory and a disk: handle flags and node state
entries are written by a storer later, files at once. `FullNode` has the masterchain
client, the shard client, broadcasts and the keeper of persistent states, which all
store and apply the same blocks. `Collation` has two accounts, shards that are one of
them or both, and messages with logical times; a collated block is validated by the
checks of `validate_query.rs` on the same queues. `ShardConfig` has one workchain whose
shards are bit sequences. `ValidatorGroups` gives each group its own queue of tasks.
`Neighbours` splits the insert and replace operations at their atomic map operations.
`StateDownload` has the threads that fetch slices until one shorter than asked for comes.

**Compositions.** `Session` implements `SessionVoting` for round 0 (`StepsRefine`; votes
and precommits are the history variable `ballots`, clocks are the attempts).
`CatchainReceiver` implements `OwnChain` (`ImplementsOwnChain`). `CatchainSync` composes
receivers. The parts of `MCNode` share no state in these models, so that a behaviour
exercises one of them.

## 3. Runs

| run | instance | shows | states |
|---|---|---|---|
| `session_rounds` | 2 equal nodes, two rounds from the empty state, the last two blocks of a node may be merged | receivers compute the sender's state (`ReceiversAgree`); old rounds carry approvals and signatures of the cutoff weight (`DecidedIsApproved`) | 47,607 |
| `session_locks` | 3 nodes of weights 2, 1, 1, one locked on a block that others do not know to be voted; three attempts | `Agreement`, `MergeCommutes`, `StepsRefine` | 66,733 |
| `session_faulty` | the same weights, node 2 faulty | `DecisionIsBacked`, `AssertionsHold` | 99,564 |
| `session_live` | one node may stop at any time | `RoundsComplete` | 74,403 |
| `voting` | 4 nodes, one faulty, 2 candidates, 2 attempts | `IInv`, `Agreement` | 104,795 |
| `receiver_restart` | two own payloads, remote blocks, two crashes | `NeverPanics`, `ImplementsOwnChain` | 449,791 |
| `receiver_forks` | one receiver and a proved fork with a crash; two receivers each shown one side of a fork, one message lost | `HeightsCoverAncestors`, `ForkersAreBlamed`, `DeliveredIsFinal`, `ArrivedIsDelivered`, `RequestsAreServed`, `BlocksSpread`, `ForksSpread` | 171,476 |
| `receiver_reload` | a fork seen before a restart | violation of `StartsFromLastBlock` | |
| `catchain` | 3 sources, one forks, blame, restored blocks | `PreprocessedInOrder`, `OwnBlocksAreValid`, `TopsCoverTheRest`, `BlocksAreProcessed` | 311,098 |
| `session_processor` | two rounds, a restart, all orders of answers | `AnswersAreCurrent`, `NeverPanics`, `ApprovalIsSent` | 448,624 |
| `storer_lag` | five masterchain blocks, every second with a shard block; a full node that has the first three, or the first four and gets a broadcast; a storer that lags as far as it may, one crash | `RestartIsPossible` | 3,394,993 |
| `node` | seven parts, see below | thirteen properties | 1,452,157 |

The parts of `node`:

- boot (`TrustIsChained`, `NodeBootsAndFollows`): a network of five masterchain blocks,
  four of them key blocks with moving validator sets, two liars, one fault. A proof comes
  with any set of signature entries in which each validator is named up to twice.
- full node (`FirstReference`, `FullNodeCatchesUp`): three masterchain and two shard
  blocks, one broadcast, one crash.
- collation (`DeliveredOnce`, `CollatedIsValid`): two messages, four shard blocks, three
  masterchain blocks, both builds of the collator.
- groups (`RoundsFollowTheChain`, `StoppedStaysStopped`, `PeersStayReachable`): three
  masterchain states, one round per session, a restart. By hand with two rounds:
  6.2 million states, no error.
- layout (`LayoutIsAccepted`, `SessionsFollowTheLayout`): one split level, windows of two
  time units, five time units. A shard wants to split or to merge: with one level, wanting
  neither acts like the wish that the depth does not allow. By hand with longer chains and more rotations: 2.3 million
  states, no error; with two split levels see *merge reset refused* in section 5.
- neighbours (`NeighboursAreIndexed`): three peers and two places, so that the cache
  overflows, with one failure before a replacement. By hand with more failures: 185,872
  states, no error.
- download (`DownloadedIsWhole`): three threads, parts of size 2, lengths that are
  empty, exact multiples and not. By hand with all lengths to 8: 53,395 states, no error.

Bounds. Two candidates suffice for a conflict; weights 2, 1, 1 have the minimal quorums
{0,1} and {0,2}, so that a light node may be absent or faulty; two attempts allow a
decision and a conflicting vote, three a lock, its release and a new lock. The runs that
start in the middle of a round start in states computed by the operators from messages
nodes may send. One crash suffices for each window between two writes; receivers have
two so that recovery itself is interrupted. Heights up to three give a fork below a block
that names both sides. Deadlock is not checked: every instance stops at its bounds.

The queue of the storer (`block_handle_db.rs:37`) has no limit and nothing waits for it.
In `node` its length is bounded, to 2 jobs for the full node (`Backlog`) and 3 for the boot
(`BootBacklog`), so `FullNodeCatchesUp` and `NodeBootsAndFollows` are checked for a storer
that lags by that much; `NodeBoot_proofs` has no such bound. `RestartIsPossible` is about
the lag itself, and `storer_lag` checks it with a bound of 40 jobs that no behaviour of the
instance reaches (the queue stays below 24). A broadcast comes there only with one new
masterchain block: with two, the instance is too large.

Two assumptions are not in the code. `ValidatorGroups` lets the countdown of a group
(`start_at`, half of a catchain lifetime from now, `validator_manager.rs:457-460`) end only
when the manager has worked through the states it replays after a restart: the replay is
taken to be shorter than the countdown, and `StoppedStaysStopped` depends on it.
`StateDownload` asks a peer that runs the service code of this repository; a peer that
sends a part of another length than asked for trips the `assert_eq` of
`state_helper.rs:161`.

Fairness, and why the code gives it:

- session: running nodes of the cutoff weight keep building blocks on the newest blocks
  of the others. Catchain resends blocks and keeps asking for new ones. A round with
  competing candidates may go on for ever; only one can be approved in this run;
- receiver: both threads take their next task, and a stopped process is restarted;
- synchronisation: timers ask every source that is not blamed again and again, and a
  message that is not lost arrives; losses are bounded;
- catchain: the receiver starts, the session answers, the main loop looks at the clock;
- processor: catchain starts and keeps calling, the main loop wakes up;
- full node and boot: tokio tasks and the storer keep running, a crashed node is started
  again, time passes, and peers that have the data answer in the end.

Most of these are written as `[]<>` of a state predicate or of the action, which is
weak fairness with the guard written out: TLC evaluates it faster than ENABLED.

## 4. Proofs

TLC explores small instances; the theorems below hold for every value of the constants
that satisfies the named assumptions. Each theorem about a specification rests on an
inductive invariant, which TLC checked on an instance first.

`SessionVoting_proofs` proves for every set of nodes, candidates, attempts and quorums in
which two quorums share an honest node: `TypeCorrect`, `Invariance` (`[]IInv`),
`RoundAgreement` (`[]Agreement`) and `DecisionsAreFinal`. Agreement is not inductive: two
decisions are impossible because of what nodes have voted. `IInv` adds that an honest
node votes once in an attempt (`OneVote`) and not beyond its clock (`Clocked`), that
precommits follow voted blocks (`PrecommitsVoted`), that locked nodes changed their vote
only after a later voted block (`LocksRespected`), and that a block can be voted in an
attempt only when every other block is blocked in all earlier ones (`VotesSafe`). A new
voted block either has voters that did not precommit another block, who block it, or one
of them was locked, and the later voted block that released it blocks the decision
already. The run `voting` checks `IInv`, and `session_locks` that the code's session
takes only steps of this voting. That the quorums of the code are such quorums is
`CutoffQuorumsIntersect`: for any number of nodes and any weights, two sets of the cutoff
weight of `SessionDescription` (two thirds of the total and one more) share a node outside
every set of less than a third of the total weight. It follows from the weights of
disjoint sets adding up (`WeightAdds`), by induction over the subsets of the nodes
(`SubsetInduction`): the fold that computes a weight takes the nodes in an unknown order,
so that the order is shown not to matter first (`WeightWithout`).

`OwnChain_proofs` proves for every set of block contents and any number of crashes
between the two writes (the block, then the root entry that names the last own block)
that a validator never shows two blocks of one height (`OwnChainNeverForks`) and that
what another validator can have is in the database (`SentBlocksAreDurable`). That alone
is not inductive: after a crash the next height follows from the root, so the invariant
says that shown blocks are durable and at or below the root, that the root is durable,
and that the block in flight is the one after it. `receiver_restart` links it to
`CatchainReceiver`.

`SessionProcessor_proofs` proves `LateAnswersLeaveNoTrace` (`[]AnswersAreCurrent`) and
`AssertionsOfProcessorHold` (`[]NeverPanics`) for any number of rounds, any plan of
proposals, any order of states and answers and any restarts (`ProcessorAssumption`:
bounds are numbers and proposals are planned for rounds there are). A task of the session
thread is a chain of calls, so the invariant is a predicate of the processor (`Good`) that
every call keeps, from `request_new_block` to `process_blocks`. `AnswersAreCurrent` alone
is not inductive, as a callback changes the sets of the round: an awaited validation is of
a candidate of the round it was asked in, whose data is kept while that round lasts
(`CallOK`). With it, whatever is judged has its data (`JudgedOK`), which is what the
assertions of `process_broadcast` need. The assertion on the block to commit needs that
all states of a round name one outcome (`StateOK`), that the block this node has signed is
that outcome, and that this node is asked for a commit only when the state does not have
its signature (`SignedOK`): `choose_block_to_sign` (`session_state.rs:196`) returns nothing
otherwise, so that a restart, which forgets what was signed, does not reach the assertion.

`NodeBoot_proofs` proves `BootIsChained` (`[]TrustIsChained`) for every masterchain, every
choice of key blocks and validator sets, every answer of peers and any number of crashes.
`ChainAssumption` says what a chain is, `LiarsAssumption` that of no validator set more
than two thirds sign blocks of another chain, the threshold of `check_signatures`. The
weight is added for every entry of a proof's dictionary of signatures, so a proof that
names a validator twice may pass with too few of them: the property names this case
(section 5). Without repeats the entries map one to one to the validators that signed
(`WeightWithoutRepeats`), and less than the threshold can be of another chain. That
the proofs on the disk go back to the first block is not inductive: flags are written
later than they are set, in the order of the storer's queue, and with the value they have
by then. `MemInv` therefore says of every masterchain block, not of key blocks only, that
with its proof the node has that of the key block before it, in memory and on the disk
(`Chained`); that a job of the queue finds the proof of the key block before it on the
disk or earlier in the queue (`QueueIsOrdered`); that a proof that is not on the disk is
in the queue (`ProofsAreStored`); and that what is applied or linked has a proof
(`FlagsAreSound`), as the running node proves a block with the one before it.
`BootFollows` ties the stages of the boot to this: every key block in its list is proved.

`ValidatorGroups_proofs` proves `HandlersFollowTheChain` (`[]RoundsFollowTheChain`),
`DestroyedSessionsStayStopped` (`[]StoppedStaysStopped`) and
`PeersOfSessionsStayReachable` (`[]PeersStayReachable`) for every masterchain, every set of
validator lists (`ListsAssumption`) and any crashes. `GroupsInvariance` is the invariant for the first two:
sessions come one after another in the masterchain and keep their lists (`ChainIsOrdered`),
the manager agrees with the last state it has worked through (`ManagerFollows`), a group
knows the first state and the last block of its session (`GroupsFollow`), exactly the
groups that the masterchain needs no more are stopped (`StopsFollow`), and a destroyed
session is over, with the manager beyond it once a group is active (`DestroyedIsOver`).
The last is what a replay after a crash needs: the manager starts again from an earlier
state, and neither its memory nor the groups say that the session was destroyed. The third
theorem has an invariant of its own: a peer is counted once for each known list that has
it (`Counted`), and the lists of groups and of the manager are known (`ListsAreKnown`).

`Network_proofs` proves `NeighboursStayIndexed` (`[]NeighboursAreIndexed`) for any
peers and any limit (`NeighbourLimitAssumption`). Both writers act in several atomic steps,
so the invariant follows each of them through its steps: every place below the count has
an index or a writer that is about to store it (`PlacesAreIndexed`), every neighbour has
one index, or a writer that is about to store it or to remove the neighbour
(`ValuesAreIndexed`), and what a writer in the middle of a change relies on still holds
(`WritersAgree`). It holds as long as the writers have not raced (section 5).

It also proves `DownloadIsWhole` (`[]DownloadedIsWhole`) for every length of a state, size
of parts and number of tasks. The invariant says that a part that has
come is the slice at its offset (`PartsAreSlices`), that a task has all of its own offsets
below the present one behind it (`NothingSkipped`), and that a task ends only at the end
of the state (`DoneAtTheEnd`). The tasks divide the offsets by their remainders, so when
all have ended every part has come, and what is appended is always the beginning of the
state (`JoinedIsPrefix`): the first missing part is the end and never a gap.

`Catchain_proofs` proves `BlocksAreShownInOrder` (`[]PreprocessedInOrder`),
`OwnBlocksStayValid` (`[]OwnBlocksAreValid`), `NothingIsForgotten` (`[]TopsCoverTheRest`)
and `TypeCorrect` for every finite set of sources (`SourcesAssumption`: this node does not
fork) and every limit of dependencies, and for any number of blocks, requests, empty blocks
and blames (`BoundsAssumption` only says that the bounds are numbers). Half of it is about
the data. `AncestorsAre` shows that `Ancestors` is the least set around some blocks that
has all they name; `VisitIs` that the loop of `recursive_blocks_update` ends within
`MaxTurns`, marks its block and all that was waited for, and in order. Its measure is the
height of the stack and `max_deps` + 2 for each block that neither is marked nor waits
(`Cost`): a turn takes a block from the stack, or makes one wait for at most `max_deps` + 1
others. The invariant (`CInv`) says that what is shown and what is processed is closed,
that the first fork of a source has no gap and the second is only there once it is blamed
(`Shape`), and that top blocks are last blocks of sources in good standing (`HeadsAre`,
`TopsAre`). Validity of own blocks is not inductive, as blocks arrive while earlier own
blocks are on their way: as long as nobody is blamed no block names a top block, and no
request has a block that the own chain or an earlier request covers (`Apart`). With it the
top blocks that are taken next are apart from all requests. Coverage after a blame
(`CoversBlame`) is an argument along the ages of blocks: a last block that is left out of
the top blocks is processed, or is below a younger last block.

`ShardConfig_proofs` proves `LayoutStaysGood` (`[]LayoutInv`) and `SessionsFollow`
(`[]SessionsFollowTheLayout`) for every depth of splitting, every delay and interval
(`WindowAssumption`, `SplitAssumption`: the bounds of the configuration parameters) and
any blocks, rotations and wishes of shards (`Wants`). That a decided block can be registered is not inductive: it
depends on which session the block is of and on what the masterchain has of that session.
The invariant says of the state that its shards cover the workchain and do not overlap,
that each is described, is under its own name, and merges only with its sibling and in one
window (`GoodLayout`); of every block not yet registered that its session is no later
than the current one of its shard (`Ranked`), that it is newer than what is registered
(`Newer`), and that it is at the end of a chain that the current layout leads to
(`Registrable`). The argument about a new masterchain block follows each shard through
`update_shard_config`: it stays, is replaced by its halves, or by its parent (`Fates`).
`CollatorsAreAccepted` proves `[]LayoutIsAccepted` for `max_split` at most 1, the instance
of the run for all delays, blocks and rotations. The hypothesis is needed: with a second
level there is one reason for a refusal, a shard that gives up a merge because its
sibling is gone or about to split (`AcceptedUnlessAlone`), and TLC finds it (*merge reset
refused* in section 5). With one level a sibling cannot split.

Left to TLC:

- liveness and everything with ENABLED;
- the refinements `StepsRefine` and `ImplementsOwnChain`, and the invariants of `Session`,
  `CatchainReceiver` and `Collation`. Induction over data can be had for a set of numbers
  or of sets (`UpTo` in `Catchain_proofs`, `SubsetInduction` in `SessionVoting_proofs`),
  but the operators here (merges of states, the scheduler's queue, the message queues) are
  several times as large as those of `Catchain`, and are written with folds over sets and
  sequences, of which each would first need its own such induction;
- `FullNode`: its references are or-ed as bit masks, and its archives and collector are
  folds over the chain; `RestartIsPossible` is checked with a storer that lags without an
  effective bound, and has no proof.

## 5. Findings and observations

The run that expects a violation:

- `receiver_reload`: fork identifiers depend on the order of delivery and the database is
  read in another order, so an own block that depended on one side of a fork may be found
  ill after a restart, and `assert!(... is_delivered())` (`receiver.rs:1226`) fails.

Met while modelling, without a run of their own. Where a property would fail in one of
these cases, the model names the case and the property excludes exactly it (*merge reset
refused* is the exception: it lies beyond the bounds of the run).

Session and catchain:

- `round_attempt.rs:672` tests `max_attempts == 0` where the sender (`round.rs:274`) tests
  `> 0`: early suggestions are accepted. Agreement does not depend on it.
- `pre_deliver` (`received_block.rs:675`) may blame an author depending on the order of
  arrival; `receive_block` (`receiver.rs:348`) never looks at blame, while the catchain
  README says that blamed sources are ignored.
- `receiver_source.rs:112`: the assertion fails when an ill block comes twice;
  `received_block.rs:649-650` borrows a mutably borrowed block in a `warn!`
  (`WarnEnabled`).
- `get_difference` bounds its answer by `right`, so more than the documented 100 blocks
  may be sent. `get_blocks` and `get_block_history` have no sender.
- `receiver.rs:1100`: a signing error leaves `active_send` set. `database.rs:62`: an
  error of `put_block` is treated as success.

Start and full node:

- A handle may be on the disk without its file (a shard block is then waited for without
  end); `move_to_archive` removes files before the flag is durable; the index is written
  before the flag, and `add_handle` then refuses the block for ever; a broadcast after a
  crash may leave a block with the wrong masterchain reference (`Damaged`).
- Boot: a crash between the node state entries (`engine.rs:1375-1398`), or between a
  shard block and its proof (`engine_operations.rs:275-281`), a zero state stored but not
  applied (`boot.rs:224-228`), a second attempt that boots from an earlier block, a
  configured init block for which the keeper fails (`engine.rs:1163`), and a list of key
  blocks that names a block which never passes the check. Each is named (`HalfSaved`,
  `Unproved`, `ZeroUnapplied`, `LeftBehind`, `KeeperEnded`, `Misled`), and
  `NodeBootsAndFollows` says that there are no others but the next.
- `check_crypto_signatures` (`validator_utils.rs:84-95`) adds the weight of a validator for
  every entry that names it, so a signature given twice counts twice, and a proof that
  repeats validators may pass with less than two thirds of the weight. `TrustIsChained`
  says that this is the only way in which a node takes a block of another chain; the node
  is then `astray`, which `NodeBootsAndFollows` names too.
- The collector of states goes by the node state entries in memory, while their writes
  wait in the storer's queue. When three masterchain blocks' entries wait there, it may
  take the state that the keeper's entry on the disk still names; a crash then leaves a
  node that has to boot from the last persistent state. `CollectState` marks exactly this
  (`Overtakes`, `disk.overtaken`), and `RestartIsPossible` and `FullNodeCatchesUp` except
  it. The chain of `storer_lag` is too short for it; by hand TLC reaches it with a
  longer one, where the property held in simulation.

Collation and layout:

- `Refusing` names three cases in which validators refuse what a collator makes: the
  first block after a split with a non-empty queue (`add_trivial_neighbor` names the
  sibling's part with the own shard although its comment says sibling); a partial
  cleaning of the queue in the first block after a merge; and the sequential collator
  that takes a message before it finds the block full (`collator_sync.rs:1604-1608`).
- *merge reset refused*: `collator.rs:2575` resets a merge window when the sibling
  registers a block before a split, but `validate_query.rs:889-892` refuses that while
  the window is open. It needs two split levels, which the run does not have;
  `CollatorsAreAccepted` has it as its hypothesis.
- A sibling whose split window expires in the block in which both want to merge
  announces alone, and the two may never merge.

Groups:

- With trace logging `start_with_status` waits for its own lock
  (`validator_group.rs:357`). Future sessions get an id with catchain seqno 1
  (`validator_manager.rs:690`), so that a prepared group is not the one that is started.
  An error in `update_shards` ends the manager.

Network:

- When both tasks insert the same peer at once the loser leaves a hole in the indices,
  and pings fail from then on; an overflow lets a ping step to an index that is never
  filled. `races` records both, and `NeighboursAreIndexed` holds without them.
- `check_persistent_state` makes all its checks after a success and keeps a peer busy for
  each; a thread past the end may use up its attempts before the last part arrives.

## 6. Not modelled

- Synchronisation by archives (`sync.rs`): `Engine::run` starts it with `FakeSync`, so
  the node does not run it. Unsafe resynchronisation of a catchain (`receiver.rs:849`)
  guesses a height from answers and is off unless asked for.
- Collation: transit and masterchain messages, closing of windows, special transactions,
  value flow, libraries, re-execution of transactions and the virtual machine: data
  whose checks depend on the serialised cells.
- The marking of cells in the state collector: states are whole in the model. Packages of
  archives and their collection.
- The candidate database, validator options, start and stop of session threads.
- ADNL, RLDP, DHT, catchain overlays and the control server: I/O. RocksDB wrappers,
  configuration, telemetry, export, log replay, slashing statistics: I/O or counters
  that no other part reads.

## 7. Plan

In order of weight: the collector's marking against concurrent saves, transit messages in
`Collation`, the candidate database.
