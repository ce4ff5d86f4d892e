-------------------------- MODULE SessionProcessor --------------------------
(***************************************************************************)
(* The session processor of one validator                                  *)
(* (validator-session/src/session_processor.rs): the flags of a round, the *)
(* candidates it knows, and the answers of the collator, the validator and *)
(* other nodes, which arrive in any order and in any later round.          *)
(*                                                                         *)
(* A session state is reduced to what the processor asks of it: the        *)
(* proposed blocks of the round, the approvals of this node and of others, *)
(* the precommitted block and whether this node has signed.  The votes are *)
(* in module Session; that a round has one outcome is its Agreement.       *)
(***************************************************************************)
EXTENDS Integers, FiniteSets, FiniteSetsExt

CONSTANTS
  MaxRound,      \* bound: the rounds are 0 .. MaxRound
  Plans,         \* pairs: the rounds in which this node proposes a block, and in which another does
  MaxSeen,       \* bound: blocks waiting to be processed
  MaxCrashes     \* bound: restarts of the node

ASSUME ProcessorAssumption == {MaxRound, MaxSeen, MaxCrashes} \subseteq Nat /\ \A s \in Plans : s[1] \cup s[2] \subseteq 0 .. MaxRound

VARIABLES
  p,          \* the processor
  handlers,   \* completion_handlers: the answers it waits for
  clock,      \* the time since round_started_at, see Slots
  net,        \* the state after the newest block of the others
  seen,       \* the states of preprocessed blocks that are not yet processed
  outcome,    \* the block that is decided in a round, or None
  busy,       \* the catchain is making blocks
  crashes,    \* history: the number of restarts
  plan        \* who proposes in which rounds: never changes

vars == <<p, handlers, clock, net, seen, outcome, busy, crashes, plan>>

OwnRounds == plan[1]
OtherRounds == plan[2]
Rounds == 0 .. MaxRound
None == <<"none">>
SKIP == <<"skip">>
Own(r) == <<r, "own">>
Other(r) == <<r, "other">>
RoundOf(c) == c[1]

\* The slots of a round: before any proposal, when proposals are due, and
\* when the empty block is and missing candidates are asked for.
Slots == 0 .. 2
ProposalSlot(c) == IF c = SKIP THEN 2 ELSE 1

-----------------------------------------------------------------------------
(* Session states                                                          *)

NewState(r) ==
  [round |-> r, sent |-> {}, approved |-> {}, vouched |-> {}, precommitted |-> None, signed |-> FALSE]

MergeStates(left, right) ==
  IF left.round > right.round THEN left
  ELSE IF left.round < right.round THEN right
  ELSE [round |-> left.round,
        sent |-> left.sent \cup right.sent,
        approved |-> left.approved \cup right.approved,
        vouched |-> left.vouched \cup right.vouched,
        precommitted |-> IF left.precommitted = None THEN right.precommitted ELSE left.precommitted,
        signed |-> left.signed \/ right.signed]

ChooseBlocksToApprove(state) == (state.sent \cup {SKIP}) \ state.approved

\* Mutant of ChooseBlockToSign: also a node that has signed is given a block.
MutChooseBlockToSign(state) == state.precommitted

\* The precommitted block, for a node that has not signed in the round.
ChooseBlockToSign(state) == IF state.signed THEN None ELSE state.precommitted

-----------------------------------------------------------------------------
(* The processor                                                           *)

NewProcessor ==
  [started |-> FALSE, real |-> NewState(0), virtual |-> NewState(0), current_round |-> 0,
   requested |-> FALSE, requested_now |-> FALSE,
   pending_generate |-> FALSE, generated |-> FALSE, sent_generated |-> FALSE, generated_block |-> SKIP,
   blocks |-> {}, pending_approve |-> {}, pending_reject |-> {}, rejected |-> {},
   approved |-> {}, too_new |-> {}, active_requests |-> {},
   signed |-> FALSE, signed_block |-> SKIP, calls |-> {}, panic |-> "no"]

\* A call of the validator or of another node; the answer finds its handler.
Call(q, kind, c) == [q EXCEPT !.calls = @ \cup {[kind |-> kind, round |-> q.current_round, block |-> c]}]

Panic(q, ok, name) == IF ok \/ q.panic # "no" THEN q ELSE [q EXCEPT !.panic = name]

RequestNewBlock(q, now) ==
  IF q.requested_now \/ (~now /\ q.requested) THEN q
  ELSE [q EXCEPT !.requested = TRUE, !.requested_now = @ \/ now]

CheckSignSlot(q) ==
  IF q.real.signed THEN [q EXCEPT !.signed = TRUE]
  ELSE IF q.signed THEN RequestNewBlock(q, FALSE)
  ELSE IF ChooseBlockToSign(q.virtual) = None THEN q
  ELSE RequestNewBlock([q EXCEPT !.signed = TRUE, !.signed_block = ChooseBlockToSign(q.virtual)], FALSE)

\* Validation of a candidate whose data is there.
NotifyCandidate(q, c) ==
  Panic(Call([q EXCEPT !.pending_approve = @ \cup {c}], "validate", c), RoundOf(c) = q.current_round, "candidate")

\* The data of a candidate is asked from a node that has approved it.
RequestCandidate(q, c) ==
  IF c \in q.active_requests \/ c \notin q.virtual.vouched
    THEN q
    ELSE Call([q EXCEPT !.active_requests = @ \cup {c}], "download", c)

\* Mutant of TryApproveBlock: nothing is requested for an approved block.
MutTryApproveBlock(q, c, slot) ==
  IF c \in q.approved \cup q.pending_approve \cup q.rejected \/ slot < ProposalSlot(c) THEN q
  ELSE IF c = SKIP THEN RequestNewBlock([q EXCEPT !.approved = @ \cup {SKIP}], FALSE)
  ELSE IF c \in q.blocks THEN NotifyCandidate(q, c)
  ELSE IF slot = 2 THEN RequestCandidate(q, c)
  ELSE q

TryApproveBlock(q, c, slot) ==
  IF c \in q.approved THEN IF c \in q.too_new THEN q ELSE RequestNewBlock(q, FALSE)
  ELSE IF c \in q.pending_approve \cup q.rejected \/ slot < ProposalSlot(c) THEN q
  ELSE IF c = SKIP THEN RequestNewBlock([q EXCEPT !.approved = @ \cup {SKIP}], FALSE)
  ELSE IF c \in q.blocks THEN NotifyCandidate(q, c)
  ELSE IF slot = 2 THEN RequestCandidate(q, c)
  ELSE q

\* The proposed blocks that choose_blocks_to_approve returns, which are at most
\* two in this model, then the empty one.
CheckApprove(q, slot) ==
  LET proposed == ChooseBlocksToApprove(q.virtual) \ {SKIP}
      rest == {c \in proposed : c # CHOOSE d \in proposed : TRUE}
      Try(s, S) == IF S = {} THEN s ELSE TryApproveBlock(s, CHOOSE c \in S : TRUE, slot)
  IN  Try(Try(Try(q, proposed), rest), ChooseBlocksToApprove(q.virtual) \cap {SKIP})

CheckGenerateSlot(q, slot) ==
  IF q.generated \/ q.pending_generate THEN q
  ELSE IF Own(q.real.round) \in q.real.sent THEN [q EXCEPT !.generated = TRUE, !.sent_generated = TRUE]
  ELSE IF q.current_round \notin OwnRounds \/ slot = 0 THEN q
  ELSE Call([q EXCEPT !.pending_generate = TRUE], "collate", Own(q.current_round))

\* check_action and check_vote_for_slot; vote: the state has something to
\* vote for, which it has not once a block is precommitted.
CheckVotes(q, vote) ==
  IF vote /\ q.virtual.precommitted = None THEN RequestNewBlock(q, FALSE) ELSE q

CheckAll(q, slot, vote) ==
  IF ~q.started \/ q.panic # "no" THEN q
  ELSE IF q.virtual.round # q.current_round THEN RequestNewBlock(q, FALSE)
  ELSE CheckVotes(CheckGenerateSlot(CheckApprove(CheckSignSlot(q), slot), slot), vote)

\* Mutant of NewRound: rejected blocks and running validations are kept.
MutNewRound(q, round) ==
  Panic([q EXCEPT !.current_round = round,
                  !.pending_generate = FALSE, !.generated = FALSE, !.sent_generated = FALSE,
                  !.pending_reject = {}, !.approved = {}, !.too_new = {},
                  !.signed = FALSE, !.signed_block = SKIP, !.active_requests = {},
                  !.blocks = {c \in @ : RoundOf(c) >= round}],
        q.current_round < round, "round")

\* new_round: what belongs to the old round is dropped, except the answers
\* still to come; the outcomes are reported.
NewRound(q, round) ==
  Panic([q EXCEPT !.current_round = round,
                  !.pending_generate = FALSE, !.generated = FALSE, !.sent_generated = FALSE,
                  !.pending_approve = {}, !.pending_reject = {}, !.rejected = {}, !.approved = {}, !.too_new = {},
                  !.signed = FALSE, !.signed_block = SKIP, !.active_requests = {},
                  !.blocks = {c \in @ : RoundOf(c) >= round}],
        q.current_round < round, "round")

\* The round of the real state is started; a new round looks at its slots.
EnterRound(q, vote) ==
  IF q.real.round = q.current_round THEN q ELSE CheckAll(NewRound(q, q.real.round), 0, vote)

\* The end of a task of the session thread: the clock starts again with a
\* round, and the calls made are on their way.
EndTask(q, answered) ==
  /\ p' = [q EXCEPT !.calls = {}]
  /\ handlers' = (handlers \ answered) \cup q.calls
  /\ clock' = IF q.current_round # p.current_round THEN 0 ELSE clock

-----------------------------------------------------------------------------
(* Calls of the catchain                                                   *)

Running == p.panic = "no"

\* What a round may be decided for: a block that some have approved.
Decisions(state) ==
  IF outcome[state.round] # None THEN {outcome[state.round]} ELSE state.vouched \cup {SKIP}

Precommits(state) ==
  IF state.precommitted # None THEN {} ELSE {[state EXCEPT !.precommitted = c] : c \in Decisions(state)}

\* A block of another node is preprocessed; the state after it is newer.
NetSteps ==
  {[net EXCEPT !.sent = @ \cup {Other(r)}] : r \in {net.round} \cap OtherRounds}
  \cup {[net EXCEPT !.vouched = @ \cup {c}] : c \in net.sent}
  \cup {[net EXCEPT !.sent = @ \cup p.real.sent, !.approved = p.real.approved, !.signed = p.real.signed] :
          r \in {net.round} \cap {p.real.round}}
  \cup Precommits(net)
  \cup {NewState(net.round + 1) : r \in {net.round} \cap {k \in 0 .. MaxRound - 1 : net.precommitted # None}}

\* The outcome of a round is fixed when the first state has it.
Decide(state) == outcome' = [outcome EXCEPT ![state.round] = IF @ = None THEN state.precommitted ELSE @]

PreprocessBlock ==
  /\ Running
  /\ Cardinality(seen) < MaxSeen
  /\ \E state \in NetSteps \ {net} : \E vote \in BOOLEAN :
       /\ net' = state
       /\ seen' = seen \cup {state}
       /\ Decide(state)
       /\ EndTask(CheckAll(EnterRound([p EXCEPT !.virtual = MergeStates(@, state)], vote), clock, vote), {})
  /\ UNCHANGED <<busy, crashes, plan>>

CatchainStarted ==
  /\ Running /\ ~p.started
  /\ \E vote \in BOOLEAN :
       EndTask(CheckAll([p EXCEPT !.started = TRUE,
                                  !.calls = {[kind |-> "restore", round |-> p.current_round, block |-> c] :
                                               c \in p.virtual.approved \ {SKIP}}], clock, vote), {})
  /\ UNCHANGED <<net, seen, outcome, busy, crashes, plan>>

\* The own messages of a block: a proposal, approvals, and the signature.
SubmitGenerated(q) ==
  IF q.generated /\ ~q.sent_generated
    THEN Panic([q EXCEPT !.sent_generated = TRUE, !.real.sent = @ \cup {q.generated_block}],
               q.generated_block \in q.blocks, "generated")
    ELSE q

SendApprovals(q, to_approve) == [q EXCEPT !.real.approved = @ \cup (to_approve \cap (q.approved \ q.too_new))]

SendCommit(q, to_sign) ==
  IF q.signed /\ to_sign # None
    THEN Panic([q EXCEPT !.real.signed = TRUE], to_sign = q.signed_block, "commit")
    ELSE q

OwnMessages(q) ==
  SendCommit([SendApprovals(SubmitGenerated(q), ChooseBlocksToApprove(q.real)) EXCEPT !.pending_reject = {}],
             ChooseBlockToSign(q.real))

\* The votes of this node may be the ones that the precommitted block, and
\* its signature the one that the end of the round, were waiting for.
OwnVotes(state) ==
  {state} \cup Precommits(state)
  \cup {NewState(state.round + 1) : r \in {state.round} \cap {k \in 0 .. MaxRound - 1 : state.signed}}

\* MergeStates of the real state and of all of these, in any order: the states
\* of the newest round; a round has one outcome.
MergedReal(states) ==
  LET all == states \cup {p.real}
      round == Max({s.round : s \in all})
      newest == {s \in all : s.round = round}
      decided == {s.precommitted : s \in newest} \ {None}
  IN  [round |-> round,
       sent |-> UNION {s.sent : s \in newest},
       approved |-> UNION {s.approved : s \in newest},
       vouched |-> UNION {s.vouched : s \in newest},
       precommitted |-> IF decided = {} THEN None ELSE CHOOSE c \in decided : TRUE,
       signed |-> \E s \in newest : s.signed]

\* process_blocks for some of the blocks, at least one if there are any.
ProcessBlocks ==
  /\ Running /\ p.started
  /\ p.requested \/ seen # {}
  /\ \E states \in SUBSET seen : \E vote \in BOOLEAN :
     \E q \in {OwnMessages(EnterRound([p EXCEPT !.requested = FALSE, !.requested_now = FALSE, !.real = MergedReal(states)], vote))} :
     \E made \in OwnVotes(q.real) :
       /\ states # {} \/ seen = {}
       /\ seen' = {s \in seen \ states : \A t \in states : MergeStates(s, t) # t}
       /\ Decide(made)
       /\ EndTask([EnterRound([q EXCEPT !.real = made], vote) EXCEPT !.virtual = MergeStates(@, made)], {})
  /\ busy' = TRUE
  /\ UNCHANGED <<net, crashes, plan>>

FinishedCatchainProcessing ==
  /\ Running
  /\ busy /\ seen = {} /\ ~p.requested
  /\ busy' = FALSE
  /\ \E vote \in BOOLEAN : EndTask(CheckAll([p EXCEPT !.virtual = p.real], clock, vote), {})
  /\ UNCHANGED <<net, seen, outcome, crashes, plan>>

-----------------------------------------------------------------------------
(* Candidates and answers                                                  *)

\* process_broadcast
AddBroadcast(q, c) ==
  IF RoundOf(c) < q.current_round \/ c \in q.blocks THEN q
  ELSE IF RoundOf(c) # q.current_round THEN [q EXCEPT !.blocks = @ \cup {c}]
  ELSE IF c \in ChooseBlocksToApprove(q.virtual)
    THEN Panic(TryApproveBlock([q EXCEPT !.blocks = @ \cup {c}], c, clock),
               c \notin q.pending_approve \cup q.approved \cup q.pending_reject \cup q.rejected, "broadcast")
    ELSE Panic([q EXCEPT !.blocks = @ \cup {c}],
               c \notin q.pending_approve \cup q.approved \cup q.pending_reject \cup q.rejected, "broadcast")

\* The broadcast of a candidate, of the round of the sender.
ProcessBroadcast ==
  /\ Running
  /\ \E c \in {Other(r) : r \in OtherRounds \cap 0 .. net.round + 1} :
       /\ EndTask(AddBroadcast(p, c), {})
  /\ UNCHANGED <<net, seen, outcome, busy, crashes, plan>>

GeneratedBlock(q, round) ==
  IF round # q.current_round THEN q
  ELSE RequestNewBlock([q EXCEPT !.blocks = @ \cup {Own(round)}, !.pending_generate = FALSE,
                                 !.generated = TRUE, !.generated_block = Own(round)], TRUE)

\* candidate_approved_signed; the block may be valid only from a later time.
CandidateDecisionOk(q, round, c, too_new) ==
  IF round # q.current_round THEN q
  ELSE IF too_new
    THEN [q EXCEPT !.pending_approve = @ \ {c}, !.approved = @ \cup {c}, !.too_new = @ \cup {c}]
    ELSE RequestNewBlock([q EXCEPT !.pending_approve = @ \ {c}, !.approved = @ \cup {c}], FALSE)

CandidateDecisionFail(q, round, c) ==
  IF round # q.current_round THEN q
  ELSE [q EXCEPT !.pending_approve = @ \ {c}, !.pending_reject = @ \cup {c}, !.rejected = @ \cup {c}]

DownloadEnded(q, round, c) ==
  IF round # q.current_round THEN q ELSE [q EXCEPT !.active_requests = @ \ {c}]

\* The result of a call.  Nothing is changed when a block could not be made.
Answered(h, result) ==
  CASE h.kind = "collate"  -> IF result = "fail" THEN p ELSE GeneratedBlock(p, h.round)
    [] h.kind = "validate" -> IF result = "fail" THEN CandidateDecisionFail(p, h.round, h.block)
                              ELSE CandidateDecisionOk(p, h.round, h.block, result = "too_new")
    [] h.kind = "download" -> IF result = "fail" THEN DownloadEnded(p, h.round, h.block)
                              ELSE AddBroadcast(DownloadEnded(p, h.round, h.block), h.block)
    [] h.kind = "restore"  -> IF result = "fail" THEN p ELSE AddBroadcast(p, h.block)

\* A handler is run once, with the answer or, when it has expired, with an
\* error: an answer that finds no handler is dropped.
Answer(h, result) ==
  /\ Running
  /\ h \in handlers
  /\ result = "too_new" => h.kind = "validate"
  /\ EndTask(Answered(h, result), {h})
  /\ UNCHANGED <<net, seen, outcome, busy, crashes, plan>>

-----------------------------------------------------------------------------
(* Time and restarts                                                       *)

\* The main loop wakes up at the next slot of the round, or when a block
\* becomes valid.
Awake ==
  /\ Running /\ (clock < 2 \/ p.too_new # {})
  /\ \E slot \in {IF clock < 2 THEN clock + 1 ELSE 2} : \E vote \in BOOLEAN :
     \E q \in {CheckAll([p EXCEPT !.too_new = {}], slot, vote)} :
       /\ p' = [q EXCEPT !.calls = {}]
       /\ handlers' = handlers \cup q.calls
       /\ clock' = slot
  /\ UNCHANGED <<net, seen, outcome, busy, crashes, plan>>

\* The node starts again from its last own block, before the catchain does.
Restart ==
  /\ crashes < MaxCrashes
  /\ crashes' = crashes + 1
  /\ \E own \in {p.real} :
       p' = [EnterRound([NewProcessor EXCEPT !.real = own, !.virtual = MergeStates(own, net)], FALSE) EXCEPT !.calls = {}]
  /\ handlers' = {}
  /\ clock' = 0
  /\ seen' = {net} \ {NewState(0)}
  /\ busy' = FALSE
  /\ UNCHANGED <<net, outcome, plan>>

Init ==
  /\ p = NewProcessor
  /\ handlers = {}
  /\ clock = 0
  /\ net = NewState(0)
  /\ seen = {}
  /\ outcome = [r \in Rounds |-> None]
  /\ busy = FALSE
  /\ crashes = 0
  /\ plan \in Plans

Next ==
  \/ PreprocessBlock
  \/ CatchainStarted
  \/ ProcessBlocks
  \/ FinishedCatchainProcessing
  \/ ProcessBroadcast
  \/ \E h \in handlers, result \in {"ok", "too_new", "fail"} : Answer(h, result)
  \/ Awake
  \/ Restart

Spec == Init /\ [][Next]_vars

\* The catchain starts and keeps calling, the main loop wakes up: weak
\* fairness of the four actions, with their guards written out.
Fairness ==
  /\ []<>(p.started \/ ~Running) \/ []<><<CatchainStarted>>_vars
  /\ []<>(~(Running /\ p.started /\ (p.requested \/ seen # {}))) \/ []<><<ProcessBlocks>>_vars
  /\ []<>(~(Running /\ busy /\ seen = {} /\ ~p.requested)) \/ []<><<FinishedCatchainProcessing>>_vars
  /\ []<>(~(Running /\ (clock < 2 \/ p.too_new # {}))) \/ []<><<Awake>>_vars

FairSpec == Spec /\ Fairness

-----------------------------------------------------------------------------
(* Properties                                                              *)

CandidatesOf(r) == {Own(r), Other(r)}

TypeOK ==
  /\ p.current_round \in Rounds
  /\ p.real.round = p.current_round \/ ~Running
  /\ p.sent_generated => p.generated
  /\ p.pending_reject \subseteq p.rejected
  /\ p.too_new \subseteq p.approved
  /\ clock \in Slots
  /\ p.panic \in {"no", "candidate", "round", "generated", "commit", "broadcast"}
  /\ \A h \in handlers : h.round \in Rounds /\ h.kind \in {"collate", "validate", "download", "restore"}

\* No answer, however late, leaves a trace in a round that it does not belong
\* to: what is pending, approved, rejected or asked for is of the current
\* round.
AnswersAreCurrent ==
  /\ (p.pending_approve \cup p.rejected \cup p.approved \cup p.active_requests) \ {SKIP} \subseteq CandidatesOf(p.current_round)
  /\ p.generated /\ ~p.sent_generated => p.generated_block = Own(p.current_round)

\* The assertions of process_broadcast, try_approve_block, new_round and
\* process_blocks hold, also after a restart: check_sign_slot then takes from
\* the state that this node has signed, but not which block, and process_blocks
\* compares that block with the one to commit.
NeverPanics == p.panic = "no"

\* Approvals do not get stuck: while the node runs, again and again all it has
\* approved in the round is in its blocks, also what was approved when the
\* proposal was only in the virtual state, or before it was valid.
ApprovalIsSent == []<>(Running => p.approved \subseteq p.real.approved)
=============================================================================
