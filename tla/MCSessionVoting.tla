-------------------------- MODULE MCSessionVoting --------------------------
(* Instances of SessionVoting for TLC. *)
EXTENDS SessionVoting, TLC

\* Nodes of equal weight: more than two thirds are a quorum.
MCQuorum == {Q \in SUBSET Node : 3 * Cardinality(Q) > 2 * Cardinality(Node)}

\* Any two nodes: with the fewest nodes, many attempts.
MCPairs == {Q \in SUBSET Node : Cardinality(Q) >= 2}

\* Honest nodes are alike, and so are candidates.
MCSymmetry == Permutations(Node \ Faulty) \cup Permutations(Candidate)
=============================================================================
