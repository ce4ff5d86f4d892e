------------------------- MODULE SessionDescription -------------------------
(***************************************************************************)
(* The parameters of a validator session and the arithmetic every replica  *)
(* does on them (validator-session/src/session_description.rs): node       *)
(* weights and the 2/3 cutoff, the priority of a node as a block proposer  *)
(* in a round, and the author of the VOTEFOR message of an attempt.        *)
(*                                                                         *)
(* Blocks are positive numbers, in the order of their identifiers (256-bit *)
(* hashes in the code); Source gives the node that collated a block.  SKIP *)
(* is the all-zero identifier of the "skip this round" candidate, which    *)
(* sorts before every block.                                               *)
(***************************************************************************)
EXTENDS Integers, FiniteSets, FiniteSetsExt

CONSTANTS
    TotalNodes,        \* number of validators; node indices are 0 .. TotalNodes-1
    NodeWeight,        \* weight of every node
    Blocks,            \* identifiers of the blocks that can be proposed
    Source,            \* the node that collated a block
    RoundCandidates,   \* options.round_candidates
    MaxRoundAttempts,  \* options.max_round_attempts
    MaxAttempt         \* bound: attempts (time slices) considered

Nodes == 0 .. TotalNodes - 1

ASSUME DescriptionAssumption ==
    /\ TotalNodes \in Nat \ {0}
    /\ NodeWeight \in [Nodes -> Nat]
    /\ Blocks \subseteq Nat \ {0}
    /\ Source \in [Blocks -> Nodes]
    /\ RoundCandidates \in Nat \ {0}
    /\ MaxRoundAttempts \in Nat
    /\ MaxAttempt \in Nat \ {0}

SKIP == 0
NONE == -1
Candidates == Blocks \cup {SKIP}

\* The smallest attempt number a state ever records (1024 in the code).
MIN_ATTEMPT_ID == 1
Attempts == MIN_ATTEMPT_ID .. MaxAttempt

Weight(S) == MapThenSumSet(LAMBDA n : NodeWeight[n], S)
TotalWeight == Weight(Nodes)
CutoffWeight == (TotalWeight * 2) \div 3 + 1

\* Sets of nodes that reach the cutoff weight (the outer set makes TLC
\* enumerate them once).
Quorums == {Q : Q \in {S \in SUBSET Nodes : Weight(S) >= CutoffWeight}}
IsCutoff(S) == S \in Quorums

\* Position of a node in the proposers' order of a round, -1 when it may
\* not propose.
GetNodePriority(src, round) ==
    LET first    == round % TotalNodes
        distance == IF src < first THEN src + TotalNodes - first ELSE src - first
    IN  IF distance < RoundCandidates THEN distance ELSE -1

MaxPriority == RoundCandidates - 1

GetVoteForAuthor(attempt) == attempt % TotalNodes

\* More than MaxRoundAttempts attempts after its first one in the round, a
\* node votes only for what the VOTEFOR author of the attempt suggests.
IsSlowMode(first, attempt) ==
    \/ first > 0 /\ first + MaxRoundAttempts <= attempt
    \/ MaxRoundAttempts = 0

-----------------------------------------------------------------------------
(* The vectors of the state (vector.rs): a sorted one is the set of its     *)
(* items, one that has a flag or a signature of every node is the set of    *)
(* the nodes that gave one.                                                 *)

PushSorted(vector, item) == vector \cup {item}
MergeSorted(l, r) == l \cup r
ChangeVector(vector, src) == vector \cup {src}
MergeVector(l, r) == l \cup r
=============================================================================
