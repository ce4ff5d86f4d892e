-------------------------------- MODULE Round --------------------------------
(***************************************************************************)
(* One round of a validator session (validator-session/src/round.rs and    *)
(* old_round.rs): proposed blocks and their approvals, the attempts, the   *)
(* lock of every node (last_precommit), the precommitted block and the     *)
(* commit signatures, with the operations that change them: one per        *)
(* message, the implicit step make_one, and the merge of two replicas'     *)
(* views.  Signatures are assumed to be checked: a message whose signature *)
(* does not verify changes nothing.                                        *)
(***************************************************************************)
EXTENDS RoundAttempt

RoundType ==
    [seqno : Nat,
     sent_blocks : SUBSET Candidates,
     approvals : SUBSET (Candidates \X Nodes),
     first_attempt : [Nodes -> Attempts \cup {0}],
     last_precommit : [Nodes -> Attempts \cup {0}],
     attempts : BallotBoxType,
     precommitted_block : Candidates \cup {NONE},
     signatures : SUBSET Nodes]

CreateCurrentRound(seqno) ==
    [seqno |-> seqno,
     sent_blocks |-> {},
     approvals |-> {},
     first_attempt |-> [n \in Nodes |-> 0],
     last_precommit |-> [n \in Nodes |-> 0],
     attempts |-> EmptyBox,
     precommitted_block |-> NONE,
     signatures |-> {}]

-----------------------------------------------------------------------------
(* Queries.                                                                 *)

CheckBlockIsSentBy(round, src) ==
    \E b \in round.sent_blocks \ {SKIP} : Source[b] = src

ApproversOf(round, c) == {n \in Nodes : <<c, n>> \in round.approvals}

ApprovedBlocks(round) == {c \in round.sent_blocks : IsCutoff(ApproversOf(round, c))}

\* Mutant of CheckBlockIsSigned: one signature will do.
MutCheckBlockIsSigned(round) == round.signatures # {}

CheckBlockIsSigned(round) == IsCutoff(round.signatures)

\* Attempts that have a voted block.
VotedAttempts(box) == {a \in Attempts : GetVotedBlock(box, a) # NONE}

PrecommittedAttempts(box) == {a \in Attempts : CheckAttemptIsPrecommitted(box, a)}

\* A source that proposed two blocks in the round gets none of them
\* approved; SKIP is offered until the node has approved it.
ChooseBlocksToApprove(round, src) ==
    LET proposed == round.sent_blocks \ {SKIP}
    IN  {b \in proposed :
            /\ <<b, src>> \notin round.approvals
            /\ \A d \in proposed : Source[d] = Source[b] => d = b}
        \cup {c \in {SKIP} : <<SKIP, src>> \notin round.approvals}

\* Rank of a candidate: the proposer's priority, SKIP comes last.
CandidatePriority(round, c) ==
    IF c = SKIP THEN MaxPriority + 1 ELSE GetNodePriority(Source[c], round.seqno)

BestApproved(round) ==
    LET approved == ApprovedBlocks(round)
    IN  FirstOf({c \in approved : \A d \in approved :
                    CandidatePriority(round, c) <= CandidatePriority(round, d)})

\* Mutant of ChooseBlockToVote: the lock is ignored.
MutChooseBlockToVote(round, src, a) ==
    IF round.sent_blocks = {} THEN NONE
    ELSE IF IsSlowMode(round.first_attempt[src], a)
         THEN GetVoteForBlock(round.attempts, a)
    ELSE IF VotedAttempts(round.attempts) # {}
         THEN GetVotedBlock(round.attempts, Max(VotedAttempts(round.attempts)))
    ELSE BestApproved(round)

\* The block a node is bound to vote for in an attempt: the one it is locked
\* on; after MaxRoundAttempts attempts the VOTEFOR suggestion; otherwise the
\* newest voted block, and failing that the approved block of best priority.
ChooseBlockToVote(round, src, a) ==
    IF round.sent_blocks = {} THEN NONE
    ELSE IF round.last_precommit[src] > 0
         THEN GetVotedBlock(round.attempts, round.last_precommit[src])
    ELSE IF IsSlowMode(round.first_attempt[src], a)
         THEN GetVoteForBlock(round.attempts, a)
    ELSE IF VotedAttempts(round.attempts) # {}
         THEN GetVotedBlock(round.attempts, Max(VotedAttempts(round.attempts)))
    ELSE BestApproved(round)

CheckNeedGenerateVoteFor(round, src, a) ==
    /\ src = GetVoteForAuthor(a)
    /\ round.precommitted_block = NONE
    /\ MaxRoundAttempts > 0 =>
          /\ round.first_attempt[src] # 0
          /\ round.first_attempt[src] + MaxRoundAttempts <= a
    /\ GetVoteForBlock(round.attempts, a) = NONE
    /\ ApprovedBlocks(round) # {}

\* create_action answers EMPTY.
CreateActionIsEmpty(round, src, a) ==
    \/ round.precommitted_block # NONE
    \/ /\ ~WantsToVote(round.attempts, a, src, ChooseBlockToVote(round, src, a))
       /\ ~WantsToPrecommit(round.attempts, a, src)

-----------------------------------------------------------------------------
(* Messages.                                                                *)

UpdateFirstAttempt(round, src, a) ==
    IF round.first_attempt[src] = 0 \/ round.first_attempt[src] > a
    THEN [round EXCEPT !.first_attempt[src] = a]
    ELSE round

ApplySubmittedBlockAction(round, src, b) ==
    IF GetNodePriority(src, round.seqno) < 0 \/ CheckBlockIsSentBy(round, src)
    THEN round
    ELSE [round EXCEPT !.sent_blocks = PushSorted(@, b)]

\* A node's approval of a candidate, and the approvals of two views.
PushApproval(approvals, c, src) == approvals \cup {<<c, src>>}
MergeApprovals(l, r) == l \cup r

ApplyApprovedBlockAction(round, src, c) ==
    IF \/ c # SKIP /\ c \notin round.sent_blocks
       \/ <<c, src>> \in round.approvals
       \/ c # SKIP /\ \E d \in round.sent_blocks \ {SKIP} :
                          Source[d] = Source[c] /\ <<d, src>> \in round.approvals
    THEN round
    ELSE [round EXCEPT !.sent_blocks = PushSorted(@, c), !.approvals = PushApproval(@, c, src)]

ApplyCommittedBlockAction(round, src, c) ==
    IF round.precommitted_block = NONE \/ round.precommitted_block # c
       \/ src \in round.signatures
    THEN round
    ELSE [round EXCEPT !.signatures = ChangeVector(@, src)]

\* The locks after src took a step in attempt a, with ballots now box.  A
\* voted block that differs from the one of the newest lock releases every
\* lock of attempt a and before; the node's own precommit sets its lock.
UpdateLastPrecommit(round, src, a, box) ==
    LET newest == Max({round.last_precommit[n] : n \in Nodes})
        voted  == GetVotedBlock(box, a)
        new_voted_block_appears ==
            newest # 0 /\ voted # NONE /\ GetVotedBlock(round.attempts, newest) # voted
        kept   == [n \in Nodes |->
                     IF new_voted_block_appears /\ round.last_precommit[n] <= a
                     THEN 0 ELSE round.last_precommit[n]]
    IN  IF /\ <<a, src>> \in box.precommits
           /\ kept[src] < a
           /\ a > newest \/ ~new_voted_block_appears
        THEN [kept EXCEPT ![src] = a]
        ELSE kept

\* The ballots after a message: VOTEFOR suggests, all others (VOTE,
\* PRECOMMIT, EMPTY) take the default step.
BallotsAfter(round, src, a, msg) ==
    IF msg.kind = "VoteFor"
    THEN ApplyVoteForAction(round.attempts, a, src, round.first_attempt[src],
                            ApprovedBlocks(round), msg.candidate)
    ELSE ApplyDefaultAction(round.attempts, a, src, ChooseBlockToVote(round, src, a))

\* The round once src has changed the ballots to box in attempt a.
UpdateRound(round, src, a, box) ==
    [round EXCEPT
       !.attempts = box,
       !.last_precommit = UpdateLastPrecommit(round, src, a, box),
       !.precommitted_block =
          IF CheckAttemptIsPrecommitted(box, a) THEN GetVotedBlock(box, a) ELSE NONE]

ApplyActionOnAttempt(round, src, a, msg) ==
    IF round.precommitted_block # NONE THEN round
    ELSE UpdateRound(round, src, a, BallotsAfter(round, src, a, msg))

\* Every message first records that src is in the round (UpdateFirstAttempt).
ApplyRoundAction(round, src, a, msg) ==
    CASE msg.kind = "SubmittedBlock" -> ApplySubmittedBlockAction(round, src, msg.candidate)
      [] msg.kind = "ApprovedBlock"  -> ApplyApprovedBlockAction(round, src, msg.candidate)
      [] msg.kind = "RejectedBlock"  -> round
      [] msg.kind = "Commit"         -> ApplyCommittedBlockAction(round, src, msg.candidate)
      [] OTHER                       -> ApplyActionOnAttempt(round, src, a, msg)

\* The step a replica takes for src when its block is exhausted: the vote or
\* precommit src did not spell out.  It moves neither the lock of src nor
\* the precommitted block.
MakeOneRound(round, src, a) ==
    IF round.precommitted_block # NONE THEN round
    ELSE [round EXCEPT !.attempts =
            ApplyDefaultAction(@, a, src, ChooseBlockToVote(round, src, a))]

-----------------------------------------------------------------------------
(* Merge of two views of the same round.                                    *)

MergeFirstAttempt(l, r) == IF l = 0 THEN r ELSE IF r = 0 \/ l < r THEN l ELSE r

\* Mutant of DiversedVotedAttempt: the newest voted attempt instead of the
\* newest one with another block.
MutDiversedVotedAttempt(box) ==
    LET voted == VotedAttempts(box)
    IN  IF \A a \in voted : GetVotedBlock(box, a) = GetVotedBlock(box, Max(voted))
        THEN 0 ELSE Max(voted)

\* The newest attempt whose voted block differs from the newest voted block,
\* 0 when there is none: locks of this attempt and before are released.
DiversedVotedAttempt(box) ==
    LET voted == VotedAttempts(box)
        other == {a \in voted : GetVotedBlock(box, a) # GetVotedBlock(box, Max(voted))}
    IN  IF other = {} THEN 0 ELSE Max(other)

MergePrecommittedBlock(l, r, box) ==
    IF l.precommitted_block # NONE THEN l.precommitted_block
    ELSE IF r.precommitted_block # NONE THEN r.precommitted_block
    ELSE IF PrecommittedAttempts(box) # {}
         THEN GetVotedBlock(box, Max(PrecommittedAttempts(box)))
    ELSE NONE

\* Mutant of MergeLastPrecommit: the right side wins, not the newer lock.
MutMergeLastPrecommit(l, r, box) ==
    LET unlocked == DiversedVotedAttempt(box)
    IN  [n \in Nodes |->
            LET newest == IF r.last_precommit[n] # 0 THEN r.last_precommit[n]
                          ELSE l.last_precommit[n]
            IN  IF newest > unlocked THEN newest ELSE 0]

MergeLastPrecommit(l, r, box) ==
    LET unlocked == DiversedVotedAttempt(box)
    IN  [n \in Nodes |->
            LET newest == Max({l.last_precommit[n], r.last_precommit[n]})
            IN  IF newest > unlocked THEN newest ELSE 0]

MergeRoundWith(l, r, box) ==
    [seqno |-> l.seqno,
     sent_blocks |-> MergeSorted(l.sent_blocks, r.sent_blocks),
     approvals |-> MergeApprovals(l.approvals, r.approvals),
     first_attempt |-> [n \in Nodes |->
                          MergeFirstAttempt(l.first_attempt[n], r.first_attempt[n])],
     last_precommit |-> MergeLastPrecommit(l, r, box),
     attempts |-> box,
     precommitted_block |-> MergePrecommittedBlock(l, r, box),
     signatures |-> MergeVector(l.signatures, r.signatures)]

MergeRound(l, r) == MergeRoundWith(l, r, MergeBox(l.attempts, r.attempts))

\* The assertions of the merge: two precommitted blocks are the same one; an
\* attempt precommitted by the cutoff has a voted block; nobody is locked
\* when no attempt has a voted block.
MergeRoundAsserts(l, r) ==
    LET box == MergeBox(l.attempts, r.attempts)
    IN  /\ \/ l.precommitted_block = NONE
           \/ r.precommitted_block = NONE
           \/ l.precommitted_block = r.precommitted_block
        /\ PrecommittedAttempts(box) \subseteq VotedAttempts(box)
        /\ VotedAttempts(box) = {} =>
              \A n \in Nodes : l.last_precommit[n] = 0 /\ r.last_precommit[n] = 0

\* The assertions of choose_block_to_vote and apply_action_on_attempt: a
\* lock points to an attempt with a voted block, and an attempt precommitted
\* by the cutoff has one.
RoundAsserts(round) ==
    /\ \A n \in Nodes : round.last_precommit[n] # 0 =>
                           round.last_precommit[n] \in VotedAttempts(round.attempts)
    /\ PrecommittedAttempts(round.attempts) \subseteq VotedAttempts(round.attempts)

-----------------------------------------------------------------------------
(* Finished rounds keep the committed block, its signatures and approvals.  *)

OldRoundType == [seqno : Nat, block : Candidates \cup {NONE},
                 signatures : SUBSET Nodes, approve_signatures : SUBSET Nodes]

CreateOldRound(round) ==
    [seqno |-> round.seqno,
     block |-> round.precommitted_block,
     signatures |-> round.signatures,
     approve_signatures |-> ApproversOf(round, round.precommitted_block)]

MergeOldRoundWithRound(old, round) ==
    [old EXCEPT
       !.signatures = MergeVector(@, round.signatures),
       !.approve_signatures = MergeVector(@, ApproversOf(round, old.block))]

MergeOldRound(l, r) ==
    [l EXCEPT !.signatures = MergeVector(@, r.signatures),
              !.approve_signatures = MergeVector(@, r.approve_signatures)]

\* A late approval, and a late signature, of the committed block.
ApproveOldBlock(old, src, c) ==
    IF c # old.block THEN old ELSE [old EXCEPT !.approve_signatures = ChangeVector(@, src)]
CommitOldBlock(old, src, c) ==
    IF c # old.block THEN old ELSE [old EXCEPT !.signatures = ChangeVector(@, src)]

ApplyOldRoundAction(old, src, msg) ==
    CASE msg.kind = "ApprovedBlock" -> ApproveOldBlock(old, src, msg.candidate)
      [] msg.kind = "Commit"        -> CommitOldBlock(old, src, msg.candidate)
      [] OTHER                      -> old
=============================================================================
