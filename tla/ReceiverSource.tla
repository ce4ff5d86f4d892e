--------------------------- MODULE ReceiverSource ---------------------------
(***************************************************************************)
(* What a catchain receiver knows about each of the other validators       *)
(* (catchain/src/receiver_source.rs).                                      *)
(*                                                                         *)
(* The memory of a receiver is one record r, passed to and returned by the *)
(* operators of this module and of ReceivedBlock:                          *)
(*   blocks         the map from a block's hash to the block               *)
(*   sources        one record for each validator                          *)
(*   blocks_to_run  the blocks scheduled for delivery                      *)
(*   pending_blocks the own blocks that wait for the one being sent        *)
(*   total_forks    the number of forks of all sources                     *)
(*   panicked       an assertion has failed                                *)
(*                                                                         *)
(* A block's hash covers its source, its height and its payload, so a      *)
(* block is identified by the triple of the three.  A payload is a pair:   *)
(* what tells it apart from another one, and the set of sources its fork   *)
(* proof accuses (empty for a payload that is no fork proof).              *)
(***************************************************************************)
EXTENDS Integers, Sequences, FiniteSets, SequencesExt

CONSTANTS
  Sources,       \* the indices of the validators of the session
  MaxHeight      \* bound: no block is higher

ASSUME SourcesAssumption == Sources \subseteq Nat /\ IsFiniteSet(Sources)
ASSUME MaxHeightAssumption == MaxHeight \in Nat

Src(b) == b[1]
Height(b) == b[2]
Accused(b) == b[3][2]

\* A fork proof whose two sides are not two blocks of one source and height.
NotAFork == -1

ForkProof(s) == <<"fork", {s}>>

NewSource ==
  [blamed |-> FALSE, delivered_height |-> 0, received_height |-> 0, blocks |-> {},
   fork_found |-> FALSE, fork_ids |-> <<>>, blamed_heights |-> <<>>]

\* A vector of heights indexed by fork: what lies behind its end reads as 0.
At(heights, fork) == IF fork \in DOMAIN heights THEN heights[fork] ELSE 0

SetAt(heights, fork, height) ==
  [i \in 1 .. (IF fork > Len(heights) THEN fork ELSE Len(heights)) |->
     IF i = fork THEN height ELSE At(heights, i)]

\* A block object that is not in the map is one whose creation failed.
BlockState(r, b) == IF b \in DOMAIN r.blocks THEN r.blocks[b].state ELSE "Ill"

\* Mutant of MarkAsBlamed: the blocks of the source are made ill.
MutMarkBlocksIll(r, s) ==
  [r EXCEPT !.sources[s].blamed = TRUE, !.sources[s].blocks = {}, !.sources[s].delivered_height = 0,
            !.blocks = [b \in DOMAIN @ |-> IF Src(b) = s THEN [@[b] EXCEPT !.state = "Ill"] ELSE @[b]]]

MarkAsBlamed(r, s) ==
  IF r.sources[s].blamed
    THEN r
    ELSE [r EXCEPT !.sources[s].blamed = TRUE,
                   !.sources[s].blocks = {},
                   !.sources[s].delivered_height = 0]

\* Mutant of ProcessNewBlock: the block replaces the one at its height.
MutProcessNewBlock(r, b) ==
  [r EXCEPT !.sources[Src(b)].blocks = {c \in @ : Height(c) # Height(b)} \cup {b}]

\* The block becomes the one the source has at its height; a second block at
\* a height is a fork, and its proof waits to be sent in a block of our own.
ProcessNewBlock(r, b) ==
  LET s == Src(b)
      existing == {c \in r.sources[s].blocks : Height(c) = Height(b)}
  IN  IF r.sources[s].fork_found THEN r
      ELSE IF existing = {} THEN [r EXCEPT !.sources[s].blocks = @ \cup {b}]
      ELSE IF b \in existing THEN [r EXCEPT !.panicked = TRUE]
      ELSE MarkAsBlamed(
             [r EXCEPT !.sources[s].fork_found = TRUE,
                       !.pending_blocks = Append(@, [payload |-> ForkProof(s), deps |-> <<>>])],
             s)

SetForkProof(r, s) == MarkAsBlamed([r EXCEPT !.sources[s].fork_found = TRUE], s)

\* The identifier of the new fork is the new number of forks.
AddFork(r, s) ==
  [(IF Len(r.sources[s].fork_ids) > 0 THEN MarkAsBlamed(r, s) ELSE r)
     EXCEPT !.total_forks = @ + 1,
            !.sources[s].fork_ids = Append(@, r.total_forks + 1)]

Blame(r, s, fork, height) ==
  [MarkAsBlamed(r, s) EXCEPT !.sources[s].blamed_heights =
     IF At(@, fork) = 0 \/ At(@, fork) > height THEN SetAt(@, fork, height) ELSE @]

\* The height up to which the source's blocks are all in one of the states,
\* counted on from the given height.
ReachedHeight(r, s, from, states) ==
  CHOOSE h \in from .. (MaxHeight + 1) :
    /\ \A i \in (from + 1) .. h :
         \E c \in r.sources[s].blocks : Height(c) = i /\ BlockState(r, c) \in states
    /\ \A c \in r.sources[s].blocks : Height(c) = h + 1 => BlockState(r, c) \notin states

Step(from, height) == IF from + 1 = height THEN height ELSE from

BlockReceived(r, b) ==
  IF r.sources[Src(b)].blamed
    THEN r
    ELSE [r EXCEPT !.sources[Src(b)].received_height =
            ReachedHeight(r, Src(b), Step(@, Height(b)), {"Initialized", "Delivered"})]

BlockDelivered(r, b) ==
  IF r.sources[Src(b)].blamed
    THEN r
    ELSE [r EXCEPT !.sources[Src(b)].delivered_height =
            ReachedHeight(r, Src(b), Step(@, Height(b)), {"Delivered"})]

HasUnreceived(r, s) ==
  \/ r.sources[s].blamed
  \/ \E b \in r.sources[s].blocks : Height(b) > r.sources[s].received_height

HasUndelivered(r, s) == r.sources[s].delivered_height < r.sources[s].received_height
=============================================================================
