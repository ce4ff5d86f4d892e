---------------------------- MODULE RoundAttempt ----------------------------
(***************************************************************************)
(* The attempts of a round (validator-session/src/round_attempt.rs).  The  *)
(* code keeps an object per attempt, created on demand and found by binary *)
(* search; here the ballots of all attempts are three sets of tuples:      *)
(*    votes       <<a, n, c>>  node n voted for candidate c in attempt a   *)
(*    precommits  <<a, n>>     node n precommitted in attempt a            *)
(*    vote_for    <<a, c>>     c is suggested to the voters of attempt a   *)
(* An attempt of the code that holds nothing behaves as a missing one, and *)
(* both are an attempt that no tuple mentions.                             *)
(***************************************************************************)
EXTENDS SessionDescription

BallotBoxType == [votes : SUBSET (Attempts \X Nodes \X Candidates),
                  precommits : SUBSET (Attempts \X Nodes),
                  vote_for : SUBSET (Attempts \X Candidates)]

EmptyBox == [votes |-> {}, precommits |-> {}, vote_for |-> {}]

\* The first candidate of a set, in the order of identifiers.
FirstOf(S) == IF S = {} THEN NONE ELSE Min(S)

\* The first candidate voted for by nodes of the cutoff weight.
GetVotedBlock(box, a) ==
    FirstOf({c \in Candidates : IsCutoff({n \in Nodes : <<a, n, c>> \in box.votes})})

\* The suggestion of an attempt; merging two keeps the smaller identifier.
GetVoteForBlock(box, a) == FirstOf({c \in Candidates : <<a, c>> \in box.vote_for})

CheckVoteReceivedFrom(box, a, src) == \E c \in Candidates : <<a, src, c>> \in box.votes

\* Mutant of CheckAttemptIsPrecommitted: precommits of all attempts count.
MutCheckAttemptIsPrecommitted(box, a) ==
    IsCutoff({n \in Nodes : \E b \in Attempts : <<b, n>> \in box.precommits})

CheckAttemptIsPrecommitted(box, a) == IsCutoff({n \in Nodes : <<a, n>> \in box.precommits})

\* The steps a node takes in an attempt: vote for the block it is bound to
\* choose, otherwise precommit the voted block.
WantsToVote(box, a, src, block) == ~CheckVoteReceivedFrom(box, a, src) /\ block # NONE

WantsToPrecommit(box, a, src) == <<a, src>> \notin box.precommits /\ GetVotedBlock(box, a) # NONE

\* A node's vote for a candidate, and the votes of two views.
PushVote(votes, a, src, block) == votes \cup {<<a, src, block>>}
MergeVotes(l, r) == l \cup r

TryVote(box, a, src, block) == [box EXCEPT !.votes = PushVote(@, a, src, block)]

TryPrecommit(box, a, src) == [box EXCEPT !.precommits = ChangeVector(@, <<a, src>>)]

\* What VOTE, PRECOMMIT, EMPTY and "no message" do alike: the message's own
\* candidate is compared with the expected one in a log line only.
ApplyDefaultAction(box, a, src, block) ==
    IF WantsToVote(box, a, src, block) THEN TryVote(box, a, src, block)
    ELSE IF WantsToPrecommit(box, a, src) THEN TryPrecommit(box, a, src)
    ELSE box

\* first is the first attempt of src in the round, approved the candidates
\* that reached the cutoff of approvals.
VoteForIsAccepted(box, a, src, first, approved, candidate) ==
    /\ GetVoteForBlock(box, a) = NONE
    /\ src = GetVoteForAuthor(a)
    /\ ~(first = 0 /\ MaxRoundAttempts > 0)
    /\ ~(first + MaxRoundAttempts > a /\ MaxRoundAttempts = 0)
    /\ candidate \in approved

ApplyVoteForAction(box, a, src, first, approved, candidate) ==
    IF VoteForIsAccepted(box, a, src, first, approved, candidate)
    THEN [box EXCEPT !.vote_for = @ \cup {<<a, candidate>>}]
    ELSE box

\* Mutant of MergeBox: the votes of the right side are lost.
MutMergeBox(l, r) == [votes |-> IF l.votes = {} THEN r.votes ELSE l.votes,
                      precommits |-> MergeVector(l.precommits, r.precommits),
                      vote_for |-> l.vote_for \cup r.vote_for]

MergeBox(l, r) == [votes |-> MergeVotes(l.votes, r.votes),
                   precommits |-> MergeVector(l.precommits, r.precommits),
                   vote_for |-> l.vote_for \cup r.vote_for]
=============================================================================
