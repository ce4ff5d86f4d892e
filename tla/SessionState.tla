---------------------------- MODULE SessionState ----------------------------
(***************************************************************************)
(* The state of a session as one replica computes it from a catchain block *)
(* (validator-session/src/session_state.rs): the attempt each node reached *)
(* (attempt_ids), the current round and the finished ones.  Every operator *)
(* is deterministic: replicas that saw the same blocks must compute the    *)
(* same state.                                                             *)
(***************************************************************************)
EXTENDS Round, Sequences

SessionStateType ==
    [attempt_ids : [Nodes -> Attempts \cup {0}],
     current_round : RoundType,
     old_rounds : Seq(OldRoundType)]

CreateEmpty == [attempt_ids |-> [n \in Nodes |-> 0],
                current_round |-> CreateCurrentRound(0),
                old_rounds |-> <<>>]

\* Rounds are numbered from 0, sequences from 1.
OldRound(state, seqno) == state.old_rounds[seqno + 1]

GetTs(state, src) == state.attempt_ids[src]

\* A node's attempts never go back, nor below MIN_ATTEMPT_ID.
ClampAttempt(state, src, a) == Max({a, GetTs(state, src), MIN_ATTEMPT_ID})

\* A round signed by nodes of the cutoff weight is finished: it becomes an
\* old round and the next one starts.
SwitchRound(state) ==
    IF ~CheckBlockIsSigned(state.current_round) THEN state
    ELSE [state EXCEPT
            !.old_rounds = Append(@, CreateOldRound(state.current_round)),
            !.current_round = CreateCurrentRound(@.seqno + 1)]

\* Messages of a round to come change only the attempt.
ApplyActionAt(state, src, a, msg) ==
    CASE msg.round > state.current_round.seqno -> [state EXCEPT !.attempt_ids[src] = a]
      [] msg.round = state.current_round.seqno ->
            SwitchRound([state EXCEPT
                !.attempt_ids[src] = a,
                !.current_round = ApplyRoundAction(UpdateFirstAttempt(@, src, a), src, a, msg)])
      [] msg.round < state.current_round.seqno ->
            [state EXCEPT
                !.attempt_ids[src] = a,
                !.old_rounds[msg.round + 1] = ApplyOldRoundAction(@, src, msg)]

ApplyAction(state, src, attempt, msg) ==
    ApplyActionAt(state, src, ClampAttempt(state, src, attempt), msg)

MakeOneAt(state, src, a) ==
    [state EXCEPT !.attempt_ids[src] = a,
                  !.current_round = MakeOneRound(UpdateFirstAttempt(@, src, a), src, a)]

MakeOne(state, src, attempt) == MakeOneAt(state, src, ClampAttempt(state, src, attempt))

\* make_one until nothing changes: at most the vote, the precommit and the
\* step that finds nothing to do.
MakeAll(state, src, attempt) ==
    FoldSet(LAMBDA k, s : MakeOne(s, src, attempt), state, 1 .. 3)

\* Mutant of ChooseBlockToSign: any signature, not the node's own, ends it.
MutChooseBlockToSign(state, src) ==
    IF state.current_round.signatures # {} THEN NONE
    ELSE state.current_round.precommitted_block

ChooseBlockToSign(state, src) ==
    IF src \in state.current_round.signatures THEN NONE
    ELSE state.current_round.precommitted_block

-----------------------------------------------------------------------------

\* Old rounds known to both sides are merged, the longer tail is kept.
MergeOldRounds(l, r) ==
    [i \in 1 .. Max({Len(l), Len(r)}) |->
        IF i > Len(l) THEN r[i] ELSE IF i > Len(r) THEN l[i] ELSE MergeOldRound(l[i], r[i])]

\* A replica that is behind contributes its view of the round to the old
\* round of the other.
MergeLagging(olds, round) ==
    [olds EXCEPT ![round.seqno + 1] = MergeOldRoundWithRound(@, round)]

Merge(l, r) ==
    LET olds == MergeOldRounds(l.old_rounds, r.old_rounds)
        lr   == l.current_round
        rr   == r.current_round
    IN  SwitchRound(
          [attempt_ids |-> [n \in Nodes |-> Max({l.attempt_ids[n], r.attempt_ids[n]})],
           old_rounds |-> IF lr.seqno < rr.seqno THEN MergeLagging(olds, lr)
                          ELSE IF lr.seqno > rr.seqno THEN MergeLagging(olds, rr)
                          ELSE olds,
           current_round |-> IF lr.seqno < rr.seqno THEN rr
                             ELSE IF lr.seqno > rr.seqno THEN lr
                             ELSE MergeRound(lr, rr)])

\* The assertions a merge runs into.
MergeAsserts(l, r) ==
    \/ l.current_round.seqno # r.current_round.seqno
    \/ MergeRoundAsserts(l.current_round, r.current_round)

\* The assertions that hold of a state by itself: old rounds are numbered
\* without gaps, and the round that becomes an old round has a precommitted
\* block that is known.
StateAsserts(state) ==
    /\ Len(state.old_rounds) = state.current_round.seqno
    /\ \A i \in 1 .. Len(state.old_rounds) :
          state.old_rounds[i].seqno = i - 1 /\ state.old_rounds[i].block # NONE
    /\ ~CheckBlockIsSigned(state.current_round)
    /\ state.current_round.precommitted_block # NONE =>
          state.current_round.precommitted_block \in state.current_round.sent_blocks
    /\ RoundAsserts(state.current_round)
=============================================================================
