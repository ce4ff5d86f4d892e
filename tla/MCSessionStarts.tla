-------------------------- MODULE MCSessionStarts --------------------------
(* Runs of Session that start in the middle of round 0, after messages that *)
(* the operators of the specification apply.                                *)
EXTENDS MCSession, TLC

Step(s, n, a, messages) == RunActions(ApplyMessages(s, n, a, messages), n, a)
ApproveAll == {Message("ApprovedBlock", 0, c) : c \in {d \in Candidates : Approving[d] # {}}}

\* The approval phase of round 0 is over: node 0 proposed, nodes 1, 2 and 0
\* approved the block and SKIP in turn, each seeing the one before; only
\* node 0 has seen all approvals and, unless it needs a suggestion, voted.
Proposed  == Step(CreateEmpty, 0, 1, {Message("SubmittedBlock", 0, 1)})
Approved1 == Step(Merge(CreateEmpty, Proposed), 1, 1, ApproveAll)
Approved2 == Step(Merge(CreateEmpty, Approved1), 2, 1, ApproveAll)
Approved0 == Step(Merge(Proposed, Approved2), 0, 1, ApproveAll)

StartFrom(f) ==
    /\ real_state = f
    /\ states = [n \in Nodes |-> <<f[n]>>]
    /\ ballots = [r \in Rounds |->
          IF r = 0 THEN [votes |-> UNION {VotesOf(f[n].current_round, n) : n \in Nodes},
                         precommits |-> UNION {PrecommitsOf(f[n].current_round, n) : n \in Nodes}]
          ELSE [votes |-> {}, precommits |-> {}]]
ApprovedInit == StartFrom(0 :> Approved0 @@ 1 :> Approved1 @@ 2 :> Approved2)
VotingSpec == ApprovedInit /\ [][Next]_vars
FairVotingSpec == VotingSpec /\ Fairness

\* Node 0 voted for the block in attempt 1 (Approved0); node 1 saw it, voted
\* too and precommitted, so that it is locked on the block, which nobody else
\* knows; node 2 is in attempt 2, suggested SKIP and voted for it.
Locked1    == Step(Merge(Approved1, Approved0), 1, 1, {})
Suggested2 == RunActions(VoteFor(Merge(Approved2, Approved0), 2, 2, SKIP), 2, 2)
LockedInit == StartFrom(0 :> Approved0 @@ 1 :> Locked1 @@ 2 :> Suggested2)
LockedSpec == LockedInit /\ [][Next]_vars
=============================================================================
