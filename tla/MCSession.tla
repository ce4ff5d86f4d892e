----------------------------- MODULE MCSession -----------------------------
(* Instances of Session for TLC. *)
EXTENDS Session

\* Three nodes; the first one holds half of the weight.
MCWeight == IF TotalNodes = 2 THEN <<3, 1>> ELSE <<2, 1, 1>>
MCEqualWeight == [n \in 0 .. TotalNodes - 1 |-> 1]
MCNodeWeight == [n \in 0 .. TotalNodes - 1 |-> MCWeight[n + 1]]
\* One block per node.
MCSource == [b \in Blocks |-> b - 1]
MCApproving == [c \in Candidates |-> Nodes]
MCOnlyBlocks == [c \in Candidates |-> IF c = SKIP THEN {} ELSE Nodes]
=============================================================================
