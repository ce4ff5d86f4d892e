------------------------------- MODULE Session -------------------------------
(***************************************************************************)
(* A validator session: replicas that exchange catchain blocks.  A block   *)
(* carries the messages of its author; every replica computes from it the  *)
(* session state after the block (preprocess_block), merging the states of *)
(* the blocks it depends on.  An honest replica builds a block from its    *)
(* real_state (process_blocks); a faulty one puts any message in it, but,  *)
(* as the catchain detects forks, it has one chain of blocks only.         *)
(*                                                                         *)
(* states[n] holds the states after the last Lag blocks of node n, newest  *)
(* first: a replica may merge a block that its author has already extended.*)
(***************************************************************************)
EXTENDS SessionState

CONSTANTS
    Faulty,     \* nodes that do not follow process_blocks
    Running,    \* honest nodes that never stop; the others may crash
    Approving,  \* for every candidate, the nodes whose validator accepts it
    Signing,    \* nodes whose keyring answers signing requests
    Prompt,     \* TRUE: answers are there before the next process_blocks
    MaxRound,   \* bound: a node that reached a later round stops
    Lag         \* bound: how many of a node's last blocks can still be merged

ASSUME SessionAssumption ==
    /\ Faulty \subseteq Nodes
    /\ Running \subseteq Nodes \ Faulty
    /\ Approving \in [Candidates -> SUBSET Nodes]
    /\ Signing \subseteq Nodes
    /\ Prompt \in BOOLEAN
    /\ MaxRound \in Nat
    /\ Lag \in Nat \ {0}

VARIABLES
    real_state,   \* SessionProcessor.real_state of every node
    states,       \* the states replicas compute for the last blocks of a node
    ballots       \* history: who voted and precommitted, in every round

vars == <<real_state, states, ballots>>

Honest == Nodes \ Faulty
Rounds == 0 .. MaxRound + 1

BallotsType == [votes : SUBSET (Nodes \X Attempts \X Candidates),
                precommits : SUBSET (Nodes \X Attempts)]

TypeOK ==
    /\ real_state \in [Nodes -> SessionStateType]
    /\ \A n \in Nodes : Len(states[n]) <= Lag /\ states[n] \in Seq(SessionStateType)
    /\ ballots \in [Rounds -> BallotsType]

Init ==
    /\ real_state = [n \in Nodes |-> CreateEmpty]
    /\ states = [n \in Nodes |-> <<>>]
    /\ ballots = [r \in Rounds |-> [votes |-> {}, precommits |-> {}]]

-----------------------------------------------------------------------------

\* What a node merges: for every other node nothing (0) or one of its last
\* blocks.
Dependencies(n) ==
    {d \in [Nodes -> 0 .. Lag] :
        d[n] = 0 /\ \A m \in Nodes : d[m] <= Len(states[m])}

\* The states of the dependencies are merged one after the other.
MergeDependencies(state, d) ==
    LET merged[k \in 0 .. TotalNodes] ==
          IF k = 0 THEN state
          ELSE IF d[k - 1] = 0 THEN merged[k - 1]
          ELSE Merge(merged[k - 1], states[k - 1][d[k - 1]])
    IN  merged[TotalNodes]

MergedStates(n) == {MergeDependencies(real_state[n], d) : d \in Dependencies(n)}

\* The votes and precommits of n that a round records.
VotesOf(round, n) ==
    {v \in {n} \X Attempts \X Candidates : <<v[2], n, v[3]>> \in round.attempts.votes}

PrecommitsOf(round, n) ==
    {p \in {n} \X Attempts : <<p[2], n>> \in round.attempts.precommits}

\* The block of n goes out: other replicas compute the state after it.
Publish(n, state) ==
    /\ states' = [states EXCEPT ![n] = SubSeq(<<state>> \o @, 1, Min({Lag, Len(@) + 1}))]
    /\ ballots' = [ballots EXCEPT ![state.current_round.seqno] =
                     [votes |-> @.votes \cup VotesOf(state.current_round, n),
                      precommits |-> @.precommits \cup PrecommitsOf(state.current_round, n)]]

Message(kind, round, candidate) == [kind |-> kind, round |-> round, candidate |-> candidate]

\* Messages an honest node may put in a block, as far as the collator, the
\* validator and the signer have answered: at most one block of its own, and
\* approvals of what it is asked to approve.
Submissions(state, n) ==
    {b \in Blocks : /\ Source[b] = n
                    /\ GetNodePriority(n, state.current_round.seqno) >= 0
                    /\ ~CheckBlockIsSentBy(state.current_round, n)}

Contents(state, n) ==
    LET r == state.current_round.seqno
        submit == {{}} \cup {{Message("SubmittedBlock", r, b)} : b \in Submissions(state, n)}
        approve == {Message("ApprovedBlock", r, c) :
                       c \in {d \in ChooseBlocksToApprove(state.current_round, n) :
                                 n \in Approving[d]}}
    IN  {s \cup t : s \in submit, t \in IF Prompt THEN {approve} ELSE SUBSET approve}

ApplyMessages(state, n, a, messages) ==
    FoldSet(LAMBDA msg, s : ApplyAction(s, n, a, msg), state, messages)

SignerAnswers(n) == {x \in BOOLEAN : (x => n \in Signing) /\ (~x => ~Prompt \/ n \notin Signing)}

Commit(state, n, a, sign) ==
    LET block == ChooseBlockToSign(state, n)
    IN  IF sign /\ block # NONE
        THEN ApplyAction(state, n, a, Message("Commit", state.current_round.seqno, block))
        ELSE state

\* The VOTEFOR message suggests a random approved block.
Suggestions(state, n, a) ==
    IF CheckNeedGenerateVoteFor(state.current_round, n, a)
    THEN ApprovedBlocks(state.current_round) ELSE {NONE}

VoteFor(state, n, a, suggestion) ==
    IF suggestion = NONE THEN state
    ELSE ApplyAction(state, n, a, Message("VoteFor", state.current_round.seqno, suggestion))

\* Mutant of RunActions: one step only.
MutRunActions(state, n, a) ==
    ApplyAction(state, n, a, Message("Empty", state.current_round.seqno, NONE))

\* create_action and apply_action in turn until create_action answers EMPTY,
\* which is applied too: a vote, a precommit and EMPTY at most (after them
\* receivers would otherwise find an implicit step to add).
RunAction(run, n, a) ==
    IF run.done THEN run
    ELSE [done |-> CreateActionIsEmpty(run.state.current_round, n, a),
          state |-> ApplyAction(run.state, n, a,
                                Message("Empty", run.state.current_round.seqno, NONE))]

RunActions(state, n, a) ==
    FoldSet(LAMBDA k, run : RunAction(run, n, a), [done |-> FALSE, state |-> state], 1 .. 3).state

-----------------------------------------------------------------------------

\* process_blocks in attempt a, from the merged state: send what is ready,
\* suggest, vote and precommit.
Sent(merged, n, a) == {Commit(ApplyMessages(merged, n, a, messages), n, a, sign) :
                          messages \in Contents(merged, n), sign \in SignerAnswers(n)}

Suggested(s, n, a) == {VoteFor(s, n, a, c) : c \in Suggestions(s, n, a)}

Finals(merged, n, a) ==
    UNION {{RunActions(t, n, a) : t \in Suggested(s, n, a)} : s \in Sent(merged, n, a)}

\* The results of process_blocks for an honest node and a merged state, with
\* the attempt they are reached in.  Clocks do not go back.
Outcomes(n, merged) ==
    IF real_state[n].current_round.seqno > MaxRound THEN {}
    ELSE UNION {Finals(merged, n, a) \X {a} :
                   a \in {b \in Attempts : b >= GetTs(real_state[n], n)}}

\* The payload goes to the catchain, and all replicas preprocess the block.
ProcessBlocksFrom(n, merged) ==
    \E <<final, a>> \in Outcomes(n, merged) :
        /\ real_state' = [real_state EXCEPT ![n] = final]
        /\ Publish(n, MakeAll(final, n, a))

ProcessBlocks(n) == \E merged \in MergedStates(n) : ProcessBlocksFrom(n, merged)

\* A block of a faulty node holds any message, or (a message of a round to
\* come) none that counts; its time does not go back, as it would be clamped.
\* Approvals and submissions it has already made, and commits before there
\* is a precommitted block, are refused like the latter and left out.
FaultyMessages(state, n) ==
    LET round == state.current_round
        r     == round.seqno
    IN  {Message("Empty", r + 1, NONE)}
        \cup {Message("SubmittedBlock", r, b) : b \in
                {c \in Blocks : Source[c] = n /\ c \notin round.sent_blocks}}
        \cup {Message("ApprovedBlock", r, c) : c \in
                {d \in Candidates : <<d, n>> \notin round.approvals}}
        \cup {Message("VoteFor", r, c) : c \in Candidates}
        \cup {Message(kind, r - 1, c) : kind \in {"ApprovedBlock", "Commit"}, c \in
                {d \in Candidates : r > 0}}
        \cup {Message("Commit", r, c) : c \in
                {d \in Candidates : round.precommitted_block # NONE}}

FaultyOutcomes(n, merged, a) ==
    {MakeAll(ApplyAction(merged, n, a, msg), n, a) : msg \in FaultyMessages(merged, n)}

FaultyBlock(n) ==
    /\ real_state[n].current_round.seqno <= MaxRound
    /\ \E merged \in MergedStates(n), a \in {b \in Attempts : b >= GetTs(real_state[n], n)} :
         \E final \in FaultyOutcomes(n, merged, a) :
            /\ real_state' = [real_state EXCEPT ![n] = final]
            /\ Publish(n, final)

Next == \/ \E n \in Honest : ProcessBlocks(n)
        \/ \E n \in Faulty : FaultyBlock(n)

Spec == Init /\ [][Next]_vars

\* Catchain keeps delivering blocks and asking for new ones: weak fairness
\* of process_blocks on the newest blocks of all others, for every running
\* node (CaughtUp is the negation of ENABLED, which TLC evaluates slowly).
NewestBlocks(n) == [m \in Nodes |-> IF m = n \/ states[m] = <<>> THEN 0 ELSE 1]
NewestState(n) == MergeDependencies(real_state[n], NewestBlocks(n))
CaughtUp(n) == \A <<final, a>> \in Outcomes(n, NewestState(n)) : final = real_state[n]
Fairness ==
    \A n \in Running : \/ []<>CaughtUp(n)
                       \/ []<><<ProcessBlocksFrom(n, NewestState(n))>>_vars
FairSpec == Spec /\ Fairness

-----------------------------------------------------------------------------

AllStates == {real_state[n] : n \in Nodes} \cup
             UNION {{states[n][k] : k \in 1 .. Len(states[n])} : n \in Nodes}

\* The block a state holds to be decided in a round, NONE when it does not
\* know yet.
Decided(state, r) ==
    IF r < state.current_round.seqno THEN OldRound(state, r).block
    ELSE IF r = state.current_round.seqno THEN state.current_round.precommitted_block
    ELSE NONE

\* No two replicas ever hold different blocks to be decided in a round,
\* whether the round is still being signed or finished: two precommitted
\* blocks would fail the assertion in RoundState::merge, and a finished
\* round would keep its own block silently (OldRoundState::merge).
Agreement ==
    \A s, t \in AllStates, r \in Rounds :
        \/ Decided(s, r) = NONE
        \/ Decided(t, r) = NONE
        \/ Decided(s, r) = Decided(t, r)

\* No assertion fails, whatever faulty nodes send: any two states that can meet
\* satisfy those of RoundState::merge, and every state satisfies those that the
\* other operations rely on: a lock points to an attempt whose voted block is
\* still there, old rounds are contiguous, a signed round is closed, its block
\* is known.
AssertionsHold == \A s \in AllStates : StateAsserts(s) /\ \A t \in AllStates : MergeAsserts(s, t)

\* Every replica computes for an honest node's block exactly the state the
\* node had when it sent it: the hash in the block matches, and there is no
\* implicit vote or precommit to add (preprocess_block's hash check).
ReceiversAgree == \A n \in Honest : states[n] # <<>> => real_state[n] = states[n][1]

\* The order in which two replicas' states are merged does not matter.
MergeCommutes == \A s, t \in AllStates : Merge(s, t) = Merge(t, s)

\* A block is decided only when, in some attempt, nodes of the cutoff weight
\* voted for it and nodes of the cutoff weight precommitted, whoever relays
\* the news.
DecisionIsBacked ==
    \A s \in AllStates, r \in Rounds :
        Decided(s, r) # NONE =>
            \E a \in Attempts :
                /\ IsCutoff({n \in Nodes : <<n, a, Decided(s, r)>> \in ballots[r].votes})
                /\ IsCutoff({n \in Nodes : <<n, a>> \in ballots[r].precommits})

\* A decided block carries approvals of the cutoff weight, in the round and
\* after it became an old round: they are handed to the validator with the
\* committed block.
DecidedIsApproved ==
    \A s \in AllStates :
        /\ s.current_round.precommitted_block # NONE =>
              IsCutoff(ApproversOf(s.current_round, s.current_round.precommitted_block))
        /\ \A i \in 1 .. Len(s.old_rounds) :
              /\ IsCutoff(s.old_rounds[i].approve_signatures)
              /\ IsCutoff(s.old_rounds[i].signatures)

Voting == INSTANCE SessionVoting WITH
    Node <- Nodes, Candidate <- Candidates, Attempt <- Attempts, Quorum <- Quorums,
    votes <- ballots[0].votes, precommits <- ballots[0].precommits,
    clock <- [n \in Nodes |-> GetTs(real_state[n], n)]

\* The replicas together implement the voting of round 0: no honest node
\* votes twice in an attempt, goes back to an earlier one, precommits what
\* no quorum voted for, or leaves the block it is locked on without a later
\* voted block.
StepsRefine == [][Voting!Next]_(Voting!vars)

\* When a single block can be approved, every node that keeps running gets
\* to the end of the last round, whenever the others stop and however the
\* running ones disagree on the attempt they are in.
RoundsComplete == <>(\A n \in Running : real_state[n].current_round.seqno > MaxRound)
=============================================================================
