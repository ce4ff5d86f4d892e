---------------------- MODULE SessionProcessor_proofs -----------------------
(***************************************************************************)
(* Proofs about the session processor: for any number of rounds, any plan  *)
(* of proposals, any order of answers and any number of restarts, what it  *)
(* keeps for a round belongs to that round, and its assertions hold.       *)
(***************************************************************************)
EXTENDS SessionProcessor, WellFoundedInduction, TLAPS

Candidates == UNION {CandidatesOf(r) : r \in Rounds}
Ballots == Candidates \cup {SKIP}
Outcomes == [Rounds -> Ballots \cup {None}]
States ==
  [round : Rounds, sent : SUBSET Candidates, approved : SUBSET Ballots, vouched : SUBSET Candidates,
   precommitted : Ballots \cup {None}, signed : BOOLEAN]
Kinds == {"collate", "validate", "download", "restore"}
Calls == [kind : Kinds, round : Rounds, block : Candidates]
Panics == {"no", "candidate", "round", "generated", "commit", "broadcast"}
Processors ==
  [started : BOOLEAN, real : States, virtual : States, current_round : Rounds,
   requested : BOOLEAN, requested_now : BOOLEAN,
   pending_generate : BOOLEAN, generated : BOOLEAN, sent_generated : BOOLEAN, generated_block : Ballots,
   blocks : SUBSET Candidates, pending_approve : SUBSET Ballots, pending_reject : SUBSET Ballots,
   rejected : SUBSET Ballots, approved : SUBSET Ballots, too_new : SUBSET Ballots, active_requests : SUBSET Ballots,
   signed : BOOLEAN, signed_block : Ballots \cup {None}, calls : SUBSET Calls, panic : Panics]

\* A session state holds the proposals of its round, and the outcome of the
\* round if a block is precommitted.
StateOK(s, oc) ==
  /\ s \in States
  /\ s.sent \subseteq CandidatesOf(s.round) /\ s.vouched \subseteq CandidatesOf(s.round)
  /\ s.precommitted \in {None, oc[s.round]}

\* What waits for an answer: a validation is of a candidate of the round of
\* the call, whose data the processor has for as long as the round lasts.
CallOK(h, q) ==
  /\ h.round <= q.current_round
  /\ h.kind = "validate" => /\ h.block \in CandidatesOf(h.round)
                            /\ h.round = q.current_round => h.block \in q.blocks

\* What is judged is a candidate of the round whose data is there.
Judged(q) == q.pending_approve \cup q.pending_reject \cup q.rejected \cup q.approved
JudgedOK(q) ==
  /\ \A c \in Judged(q) \ {SKIP} : c \in q.blocks /\ c \in CandidatesOf(q.current_round)
  /\ q.active_requests \subseteq CandidatesOf(q.current_round)

GeneratedOK(q) ==
  q.generated /\ ~q.sent_generated => q.generated_block = Own(q.current_round) /\ q.generated_block \in q.blocks

\* The block this node has signed is the outcome of the round, unless only its
\* blocks say that it has signed: after a restart the flag comes from them.
SignedOK(q, oc) ==
  q.signed /\ q.real.round = q.current_round /\ ~q.real.signed =>
    q.signed_block = oc[q.current_round] /\ q.signed_block # None

PanicOK(q) == q.panic = "no"

\* The processor within a task, with the outcomes oc.
Good(q, oc) ==
  /\ q \in Processors
  /\ StateOK(q.real, oc) /\ StateOK(q.virtual, oc) /\ q.current_round <= q.real.round
  /\ JudgedOK(q) /\ GeneratedOK(q) /\ SignedOK(q, oc) /\ PanicOK(q)
  /\ \A h \in q.calls : CallOK(h, q)

\* The processor between tasks.
ProcessorOK(q, oc) == Good(q, oc) /\ q.real.round = q.current_round /\ q.calls = {}

Inv ==
  /\ outcome \in Outcomes /\ clock \in Slots /\ plan \in Plans
  /\ ProcessorOK(p, outcome)
  /\ \A h \in handlers : h \in Calls /\ CallOK(h, p)
  /\ \A s \in seen \cup {net} : StateOK(s, outcome)

-----------------------------------------------------------------------------
(* Candidates and session states                                           *)

\* A candidate is of the round its name says, and neither the empty block nor
\* the absence of one.
LEMMA CandidateFacts ==
  ASSUME NEW r \in Rounds, NEW c \in CandidatesOf(r)
  PROVE  RoundOf(c) = r /\ c \in Candidates /\ c # SKIP /\ c # None
<1>1. c \in Candidates
  BY DEF Candidates
<1>2. CASE c = Own(r)
  BY <1>1, <1>2 DEF Own, RoundOf, SKIP, None
<1>3. CASE c = Other(r)
  BY <1>1, <1>3 DEF Other, RoundOf, SKIP, None
<1> QED
  BY <1>2, <1>3 DEF CandidatesOf

\* A candidate has the round of its name.
LEMMA RoundOfCandidate ==
  ASSUME NEW c \in Candidates
  PROVE  RoundOf(c) \in Rounds /\ c \in CandidatesOf(RoundOf(c)) /\ c # SKIP /\ c # None
<1>1. PICK r \in Rounds : c \in CandidatesOf(r)
  BY DEF Candidates
<1> QED
  BY <1>1, CandidateFacts

\* The two candidates of a round.
LEMMA OwnAndOther ==
  ASSUME NEW r \in Rounds
  PROVE  {Own(r), Other(r)} \subseteq CandidatesOf(r) /\ {Own(r), Other(r)} \subseteq Candidates
BY DEF CandidatesOf, Candidates

\* Rounds are natural numbers from 0, and a round but the last has a next one.
LEMMA RoundsAreNaturals == Rounds \subseteq Nat /\ 0 \in Rounds /\ \A r \in 0 .. MaxRound - 1 : r + 1 \in Rounds
BY ProcessorAssumption DEF Rounds

\* MergeStates takes nothing into a round that does not belong to it.
LEMMA MergeIsOK ==
  ASSUME NEW oc, NEW a, NEW b, StateOK(a, oc), StateOK(b, oc)
  PROVE  StateOK(MergeStates(a, b), oc)
<1> USE RoundsAreNaturals
<1>1. a.round \in Nat /\ b.round \in Nat
  BY DEF StateOK, States
<1>2. CASE a.round > b.round
  BY <1>2 DEF MergeStates
<1>3. CASE a.round < b.round
  BY <1>1, <1>3 DEF MergeStates
<1>4. CASE a.round = b.round
  <2> DEFINE m == MergeStates(a, b)
  <2>1. m = [round |-> a.round, sent |-> a.sent \cup b.sent, approved |-> a.approved \cup b.approved,
             vouched |-> a.vouched \cup b.vouched,
             precommitted |-> IF a.precommitted = None THEN b.precommitted ELSE a.precommitted,
             signed |-> a.signed \/ b.signed]
    BY <1>1, <1>4 DEF MergeStates
  <2>2. m \in States
    BY <2>1 DEF StateOK, States
  <2>3. m.precommitted \in {None, oc[m.round]}
    BY <1>4, <2>1 DEF StateOK
  <2>4. m.sent \subseteq CandidatesOf(m.round) /\ m.vouched \subseteq CandidatesOf(m.round)
    BY <1>4, <2>1 DEF StateOK
  <2> QED
    BY <2>2, <2>3, <2>4 DEF StateOK
<1> QED
  BY <1>1, <1>2, <1>3, <1>4

-----------------------------------------------------------------------------
(* The steps of check_all                                                  *)

\* A step that leaves the states and the round alone and forgets no candidate.
Same(q, r) ==
  /\ r.current_round = q.current_round /\ r.real = q.real /\ r.virtual = q.virtual
  /\ q.blocks \subseteq r.blocks

\* request_new_block.
LEMMA RequestIsGood ==
  ASSUME NEW oc, NEW q, Good(q, oc), NEW now \in BOOLEAN
  PROVE  Good(RequestNewBlock(q, now), oc) /\ Same(q, RequestNewBlock(q, now))
<1> DEFINE r == [q EXCEPT !.requested = TRUE, !.requested_now = @ \/ now]
<1>1. q \in Processors
  BY DEF Good
<1>2. r \in Processors
  BY <1>1 DEF Processors
<1>3. Good(r, oc) /\ Same(q, r)
  BY <1>1, <1>2 DEF Processors, Good, Same, JudgedOK, Judged, GeneratedOK, SignedOK, PanicOK, CallOK
<1>4. Same(q, q)
  BY DEF Same
<1> QED
  BY <1>3, <1>4 DEF RequestNewBlock

\* The block that is signed is the one the virtual state has precommitted.
LEMMA CheckSignIsGood ==
  ASSUME NEW oc, NEW q, Good(q, oc), q.virtual.round = q.current_round
  PROVE  Good(CheckSignSlot(q), oc) /\ Same(q, CheckSignSlot(q))
<1>1. q \in Processors
  BY DEF Good
<1>2. CASE q.real.signed
  <2> DEFINE r == [q EXCEPT !.signed = TRUE]
  <2>1. r \in Processors
    BY <1>1 DEF Processors
  <2>2. Good(r, oc) /\ Same(q, r)
    BY <1>1, <1>2, <2>1 DEF Processors, Good, Same, JudgedOK, Judged, GeneratedOK, SignedOK, PanicOK, CallOK
  <2> QED
    BY <1>2, <2>2 DEF CheckSignSlot
<1>3. CASE ~q.real.signed /\ q.signed
  BY <1>3, RequestIsGood DEF CheckSignSlot
<1>4. CASE ~q.real.signed /\ ~q.signed /\ ChooseBlockToSign(q.virtual) = None
  BY <1>4 DEF CheckSignSlot, Same
<1>5. CASE ~q.real.signed /\ ~q.signed /\ ChooseBlockToSign(q.virtual) # None
  <2> DEFINE r == [q EXCEPT !.signed = TRUE, !.signed_block = ChooseBlockToSign(q.virtual)]
  <2>2. ChooseBlockToSign(q.virtual) = q.virtual.precommitted /\ q.virtual.precommitted = oc[q.current_round]
        /\ q.virtual.precommitted # None
    BY <1>5 DEF Good, StateOK, ChooseBlockToSign
  <2>1. r \in Processors
    BY <1>1, <2>2 DEF Processors, States
  <2>3. Good(r, oc) /\ Same(q, r)
    BY <1>1, <1>5, <2>1, <2>2 DEF Processors, Good, Same, JudgedOK, Judged, GeneratedOK, SignedOK, PanicOK, CallOK
  <2>4. CheckSignSlot(q) = RequestNewBlock(r, FALSE)
    BY <1>5 DEF CheckSignSlot
  <2> HIDE DEF r
  <2>5. Good(RequestNewBlock(r, FALSE), oc) /\ Same(r, RequestNewBlock(r, FALSE))
    BY <2>3, RequestIsGood
  <2> QED
    BY <2>3, <2>4, <2>5 DEF Same
<1> QED
  BY <1>2, <1>3, <1>4, <1>5

\* try_approve_block of a candidate of the round, or of the empty block.
LEMMA TryApproveIsGood ==
  ASSUME NEW oc, NEW q, Good(q, oc), NEW slot, NEW c \in CandidatesOf(q.current_round) \cup {SKIP}
  PROVE  Good(TryApproveBlock(q, c, slot), oc) /\ Same(q, TryApproveBlock(q, c, slot))
<1>1. q \in Processors /\ q.current_round \in Rounds /\ Same(q, q)
  BY DEF Good, Processors, Same
<1>2. Good(RequestNewBlock(q, FALSE), oc) /\ Same(q, RequestNewBlock(q, FALSE))
  BY RequestIsGood
<1>3. CASE c = SKIP
  <2> DEFINE r == [q EXCEPT !.approved = @ \cup {SKIP}]
  <2>1. r \in Processors
    BY <1>1 DEF Processors, Ballots
  <2>2. Good(r, oc) /\ Same(q, r)
    BY <1>1, <2>1 DEF Processors, Good, Same, JudgedOK, Judged, GeneratedOK, SignedOK, PanicOK, CallOK
  <2>3. TryApproveBlock(q, c, slot) \in {q, RequestNewBlock(q, FALSE), RequestNewBlock(r, FALSE)}
    BY <1>3 DEF TryApproveBlock
  <2> HIDE DEF r
  <2>4. Good(RequestNewBlock(r, FALSE), oc) /\ Same(r, RequestNewBlock(r, FALSE))
    BY <2>2, RequestIsGood
  <2>5. Same(q, RequestNewBlock(r, FALSE))
    BY <2>2, <2>4 DEF Same
  <2> QED
    BY <1>1, <1>2, <2>3, <2>4, <2>5
<1>4. CASE c # SKIP
  <2>1. c \in CandidatesOf(q.current_round) /\ c \in Candidates /\ c \in Ballots /\ RoundOf(c) = q.current_round
    BY <1>1, <1>4, CandidateFacts DEF Ballots
  <2>2. ASSUME c \in q.blocks
        PROVE  Good(NotifyCandidate(q, c), oc) /\ Same(q, NotifyCandidate(q, c))
    <3> DEFINE h == [kind |-> "validate", round |-> q.current_round, block |-> c]
               r == [[q EXCEPT !.pending_approve = @ \cup {c}] EXCEPT !.calls = @ \cup {h}]
    <3>1. NotifyCandidate(q, c) = r
      BY <1>1, <2>1 DEF NotifyCandidate, Panic, Call, Processors
    <3>2. h \in Calls /\ CallOK(h, q)
      <4>1. h \in Calls
        BY <1>1, <2>1 DEF Calls, Kinds
      <4>2. h.round <= q.current_round
        <5>1. h.round = q.current_round /\ q.current_round \in Nat
          BY <1>1, RoundsAreNaturals
        <5> QED
          BY <5>1
      <4> QED
        BY <4>1, <4>2, <1>1, <2>1, <2>2 DEF CallOK
    <3> HIDE DEF h
    <3>3. r \in Processors
      BY <1>1, <2>1, <3>2 DEF Processors
    <3>4. Good(r, oc) /\ Same(q, r)
      BY <1>1, <2>1, <2>2, <3>2, <3>3 DEF Processors, Good, Same, JudgedOK, Judged, GeneratedOK, SignedOK, PanicOK, CallOK
    <3> QED
      BY <3>1, <3>4
  <2>3. Good(RequestCandidate(q, c), oc) /\ Same(q, RequestCandidate(q, c))
    <3> DEFINE h == [kind |-> "download", round |-> q.current_round, block |-> c]
               r == [[q EXCEPT !.active_requests = @ \cup {c}] EXCEPT !.calls = @ \cup {h}]
    <3>1. RequestCandidate(q, c) \in {q, r}
      BY <1>1 DEF RequestCandidate, Call, Processors
    <3>2. h \in Calls /\ CallOK(h, q)
      <4>1. h \in Calls
        BY <1>1, <2>1 DEF Calls, Kinds
      <4>2. h.round <= q.current_round
        <5>1. h.round = q.current_round /\ q.current_round \in Nat
          BY <1>1, RoundsAreNaturals
        <5> QED
          BY <5>1
      <4> QED
        BY <4>1, <4>2, <1>1, <2>1 DEF CallOK
    <3> HIDE DEF h
    <3>3. r \in Processors
      BY <1>1, <2>1, <3>2 DEF Processors
    <3>4. Good(r, oc) /\ Same(q, r)
      BY <1>1, <2>1, <3>2, <3>3 DEF Processors, Good, Same, JudgedOK, Judged, GeneratedOK, SignedOK, PanicOK, CallOK
    <3> QED
      BY <1>1, <3>1, <3>4
  <2>4. \/ TryApproveBlock(q, c, slot) \in {q, RequestNewBlock(q, FALSE), RequestCandidate(q, c)}
        \/ c \in q.blocks /\ TryApproveBlock(q, c, slot) = NotifyCandidate(q, c)
    BY <1>4 DEF TryApproveBlock
  <2> QED
    BY <1>1, <1>2, <2>2, <2>3, <2>4
<1> QED
  BY <1>3, <1>4

\* check_approve: the proposed blocks and the empty one in turn.
LEMMA CheckApproveIsGood ==
  ASSUME NEW oc, NEW q, Good(q, oc), q.virtual.round = q.current_round, NEW slot
  PROVE  Good(CheckApprove(q, slot), oc) /\ Same(q, CheckApprove(q, slot))
<1> DEFINE proposed == ChooseBlocksToApprove(q.virtual) \ {SKIP}
           rest == {c \in proposed : c # CHOOSE d \in proposed : TRUE}
           Try(s, S) == IF S = {} THEN s ELSE TryApproveBlock(s, CHOOSE c \in S : TRUE, slot)
           q1 == Try(q, proposed)
           q2 == Try(q1, rest)
           q3 == Try(q2, ChooseBlocksToApprove(q.virtual) \cap {SKIP})
<1>1. q.virtual.sent \subseteq CandidatesOf(q.current_round)
  BY DEF Good, StateOK
<1>2. proposed \subseteq CandidatesOf(q.current_round) /\ rest \subseteq CandidatesOf(q.current_round)
  BY <1>1 DEF ChooseBlocksToApprove
<1>3. ASSUME NEW s, Good(s, oc), Same(q, s), NEW S \in SUBSET (CandidatesOf(q.current_round) \cup {SKIP})
      PROVE  Good(Try(s, S), oc) /\ Same(q, Try(s, S))
  <2>1. CASE S = {}
    BY <1>3, <2>1
  <2>2. CASE S # {}
    <3>1. PICK c \in S : c = CHOOSE d \in S : TRUE
      BY <2>2
    <3>2. c \in CandidatesOf(s.current_round) \cup {SKIP}
      BY <1>3 DEF Same
    <3>3. Good(TryApproveBlock(s, c, slot), oc) /\ Same(s, TryApproveBlock(s, c, slot))
      BY <1>3, <3>2, TryApproveIsGood
    <3>4. Same(q, TryApproveBlock(s, c, slot))
      BY <1>3, <3>3 DEF Same
    <3> QED
      BY <2>2, <3>1, <3>3, <3>4
  <2> QED
    BY <2>1, <2>2
<1>4. CheckApprove(q, slot) = q3
  BY DEF CheckApprove
<1> HIDE DEF Try
<1>5. Good(q1, oc) /\ Same(q, q1)
  <2>1. Same(q, q)
    BY DEF Same
  <2> QED
    BY <1>2, <1>3, <2>1
<1> HIDE DEF q1
<1>6. Good(q2, oc) /\ Same(q, q2)
  BY <1>2, <1>3, <1>5
<1> HIDE DEF q2
<1>7. Good(q3, oc) /\ Same(q, q3)
  BY <1>3, <1>6
<1> QED
  BY <1>4, <1>7

\* check_generate_slot: a collation is asked for the current round.
LEMMA CheckGenerateIsGood ==
  ASSUME NEW oc, NEW q, Good(q, oc), NEW slot
  PROVE  Good(CheckGenerateSlot(q, slot), oc) /\ Same(q, CheckGenerateSlot(q, slot))
<1> DEFINE h == [kind |-> "collate", round |-> q.current_round, block |-> Own(q.current_round)]
           r == [q EXCEPT !.generated = TRUE, !.sent_generated = TRUE]
           t == [[q EXCEPT !.pending_generate = TRUE] EXCEPT !.calls = @ \cup {h}]
<1>1. q \in Processors /\ q.current_round \in Rounds /\ Same(q, q)
  BY DEF Good, Processors, Same
<1>2. CheckGenerateSlot(q, slot) \in {q, r, t}
  BY <1>1 DEF CheckGenerateSlot, Call, Processors
<1>3. Good(r, oc) /\ Same(q, r)
  <2>1. r \in Processors
    BY <1>1 DEF Processors
  <2> QED
    BY <1>1, <2>1 DEF Processors, Good, Same, JudgedOK, Judged, GeneratedOK, SignedOK, PanicOK, CallOK
<1>4. Good(t, oc) /\ Same(q, t)
  <2>1. h \in Calls /\ CallOK(h, q)
    <3>1. h \in Calls
      BY <1>1, OwnAndOther DEF Calls, Kinds
    <3>2. h.round <= q.current_round
      <4>1. h.round = q.current_round /\ q.current_round \in Nat
        BY <1>1, RoundsAreNaturals
      <4> QED
        BY <4>1
    <3> QED
      BY <3>1, <3>2 DEF CallOK
  <2> HIDE DEF h
  <2>2. t \in Processors
    BY <1>1, <2>1 DEF Processors
  <2> QED
    BY <1>1, <2>1, <2>2 DEF Processors, Good, Same, JudgedOK, Judged, GeneratedOK, SignedOK, PanicOK, CallOK
<1> QED
  BY <1>1, <1>2, <1>3, <1>4

\* check_all, in any slot and with or without something to vote for.
LEMMA CheckAllIsGood ==
  ASSUME NEW oc, NEW q, Good(q, oc), NEW slot, NEW vote \in BOOLEAN
  PROVE  Good(CheckAll(q, slot, vote), oc) /\ Same(q, CheckAll(q, slot, vote))
<1>1. Same(q, q) /\ Good(RequestNewBlock(q, FALSE), oc) /\ Same(q, RequestNewBlock(q, FALSE))
  <2>1. Same(q, q)
    BY DEF Same
  <2> QED
    BY <2>1, RequestIsGood
<1>2. CASE q.virtual.round = q.current_round
  <2> DEFINE q1 == CheckSignSlot(q)
             q2 == CheckApprove(q1, slot)
             q3 == CheckGenerateSlot(q2, slot)
             q4 == CheckVotes(q3, vote)
  <2>1. CheckAll(q, slot, vote) \in {q, q4}
    BY <1>2 DEF CheckAll
  <2>2. Good(q1, oc) /\ Same(q, q1)
    BY <1>2, CheckSignIsGood
  <2> HIDE DEF q1
  <2>3. Good(q2, oc) /\ Same(q1, q2)
    <3>1. q1.virtual.round = q1.current_round
      BY <1>2, <2>2 DEF Same
    <3> QED
      BY <2>2, <3>1, CheckApproveIsGood
  <2> HIDE DEF q2
  <2>4. Good(q3, oc) /\ Same(q2, q3)
    BY <2>3, CheckGenerateIsGood
  <2> HIDE DEF q3
  <2>5. Good(q4, oc) /\ Same(q3, q4)
    <3>1. Good(RequestNewBlock(q3, FALSE), oc) /\ Same(q3, RequestNewBlock(q3, FALSE))
      BY <2>4, RequestIsGood
    <3>2. Same(q3, q3)
      BY DEF Same
    <3> QED
      BY <2>4, <3>1, <3>2 DEF CheckVotes
  <2> HIDE DEF q4
  <2>6. Same(q, q4)
    BY <2>2, <2>3, <2>4, <2>5 DEF Same
  <2> QED
    BY <1>1, <2>1, <2>5, <2>6
<1>3. CASE q.virtual.round # q.current_round
  BY <1>1, <1>3 DEF CheckAll
<1> QED
  BY <1>2, <1>3

-----------------------------------------------------------------------------
(* Rounds                                                                  *)

\* A step that forgets only candidates of rounds that are over.
Keeps(q, r) ==
  /\ q.current_round <= r.current_round
  /\ \A c \in q.blocks : r.current_round <= RoundOf(c) => c \in r.blocks

\* Keeps, over two steps.
LEMMA KeepsIsTransitive ==
  ASSUME NEW q, NEW r, NEW t, Keeps(q, r), Keeps(r, t),
         q.current_round \in Rounds, r.current_round \in Rounds, t.current_round \in Rounds, q.blocks \subseteq Candidates
  PROVE  Keeps(q, t)
<1>1. q.current_round \in Nat /\ r.current_round \in Nat /\ t.current_round \in Nat
  BY RoundsAreNaturals
<1>2. \A c \in q.blocks : RoundOf(c) \in Nat
  BY RoundOfCandidate, RoundsAreNaturals
<1> QED
  BY <1>1, <1>2 DEF Keeps

\* A step within the round forgets nothing.
LEMMA SameKeeps ==
  ASSUME NEW q, NEW r, Same(q, r), q.current_round \in Rounds
  PROVE  Keeps(q, r)
<1>1. q.current_round \in Nat
  BY RoundsAreNaturals
<1> QED
  BY <1>1 DEF Same, Keeps

\* An awaited answer stays one that may come.
LEMMA CallStaysOK ==
  ASSUME NEW q, NEW r, Keeps(q, r), q.current_round \in Rounds, r.current_round \in Rounds,
         NEW h \in Calls, CallOK(h, q)
  PROVE  CallOK(h, r)
<1>1. h.round \in Nat /\ q.current_round \in Nat /\ r.current_round \in Nat
  BY RoundsAreNaturals DEF Calls
<1>2. h.round <= r.current_round
  BY <1>1 DEF Keeps, CallOK
<1>3. ASSUME h.kind = "validate", h.round = r.current_round PROVE h.block \in r.blocks
  <2>1. h.round = q.current_round
    BY <1>1, <1>3 DEF Keeps, CallOK
  <2>2. h.block \in q.blocks /\ h.block \in CandidatesOf(h.round) /\ h.round \in Rounds
    BY <1>3, <2>1 DEF CallOK
  <2>3. RoundOf(h.block) = h.round
    BY <2>2, CandidateFacts
  <2> QED
    BY <1>1, <1>3, <2>2, <2>3 DEF Keeps
<1> QED
  BY <1>2, <1>3 DEF CallOK

\* Nothing of the old round is left in the new one.
LEMMA NewRoundIsGood ==
  ASSUME NEW oc, NEW q, Good(q, oc), q.real.round # q.current_round
  PROVE  /\ Good(NewRound(q, q.real.round), oc)
         /\ Keeps(q, NewRound(q, q.real.round))
         /\ NewRound(q, q.real.round).real = q.real
         /\ NewRound(q, q.real.round).virtual = q.virtual
         /\ NewRound(q, q.real.round).current_round = q.real.round
<1> DEFINE r == [q EXCEPT !.current_round = q.real.round,
                  !.pending_generate = FALSE, !.generated = FALSE, !.sent_generated = FALSE,
                  !.pending_approve = {}, !.pending_reject = {}, !.rejected = {}, !.approved = {}, !.too_new = {},
                  !.signed = FALSE, !.signed_block = SKIP, !.active_requests = {},
                  !.blocks = {c \in @ : RoundOf(c) >= q.real.round}]
<1>1. q \in Processors /\ q.current_round \in Rounds /\ q.real.round \in Rounds
  BY DEF Good, Processors, States
<1>2. q.current_round \in Nat /\ q.real.round \in Nat /\ q.current_round < q.real.round
  <2>1. q.current_round \in Nat /\ q.real.round \in Nat /\ q.current_round <= q.real.round
    BY <1>1, RoundsAreNaturals DEF Good
  <2> QED
    BY <2>1
<1>3. NewRound(q, q.real.round) = r
  BY <1>2 DEF NewRound, Panic
<1>4. r \in Processors
  BY <1>1 DEF Processors, Ballots
<1>5. /\ r.current_round = q.real.round /\ r.real = q.real /\ r.virtual = q.virtual /\ r.calls = q.calls /\ r.panic = q.panic
      /\ r.generated = FALSE /\ r.signed = FALSE /\ Judged(r) = {} /\ r.active_requests = {}
      /\ r.blocks = {c \in q.blocks : RoundOf(c) >= q.real.round}
  BY <1>1 DEF Processors, Judged
<1> HIDE DEF r
<1>6. Keeps(q, r)
  BY <1>1, <1>2, <1>5 DEF Keeps
<1>7. \A h \in r.calls : CallOK(h, r)
  <2> SUFFICES ASSUME NEW h \in q.calls PROVE CallOK(h, r)
    BY <1>5
  <2>1. h \in Calls /\ CallOK(h, q)
    BY <1>1 DEF Good, Processors
  <2> QED
    BY <1>1, <1>5, <1>6, <2>1, CallStaysOK
<1>8. JudgedOK(r) /\ GeneratedOK(r) /\ PanicOK(r)
  BY <1>5 DEF JudgedOK, GeneratedOK, PanicOK, Good
<1>9. SignedOK(r, oc)
  BY <1>2, <1>5 DEF SignedOK, Good
<1>10. r.current_round <= r.real.round
  BY <1>2, <1>5
<1> QED
  BY <1>3, <1>4, <1>5, <1>6, <1>7, <1>8, <1>9, <1>10 DEF Good

\* After EnterRound the processor is in the round of its real state.
LEMMA EnterRoundIsGood ==
  ASSUME NEW oc, NEW q, Good(q, oc), NEW vote \in BOOLEAN
  PROVE  /\ Good(EnterRound(q, vote), oc)
         /\ Keeps(q, EnterRound(q, vote))
         /\ EnterRound(q, vote).real = q.real
         /\ EnterRound(q, vote).virtual = q.virtual
         /\ EnterRound(q, vote).current_round = q.real.round
<1>1. q.current_round \in Rounds /\ q.real.round \in Rounds /\ q.blocks \subseteq Candidates
  BY DEF Good, Processors, States
<1>2. CASE q.real.round = q.current_round
  <2>1. Same(q, q)
    BY DEF Same
  <2>2. Keeps(q, q)
    BY <1>1, <2>1, SameKeeps
  <2> QED
    BY <1>2, <2>2 DEF EnterRound
<1>3. CASE q.real.round # q.current_round
  <2> DEFINE r == NewRound(q, q.real.round)
             t == CheckAll(r, 0, vote)
  <2>1. EnterRound(q, vote) = t
    BY <1>3 DEF EnterRound
  <2>2. Good(r, oc) /\ Keeps(q, r) /\ r.real = q.real /\ r.virtual = q.virtual /\ r.current_round = q.real.round
    BY <1>3, NewRoundIsGood
  <2> HIDE DEF r
  <2>3. Good(t, oc) /\ Same(r, t)
    BY <2>2, CheckAllIsGood
  <2> HIDE DEF t
  <2>4. t.current_round = r.current_round /\ t.real = r.real /\ t.virtual = r.virtual
    BY <2>3 DEF Same
  <2>5. Keeps(r, t)
    BY <1>1, <2>2, <2>3, SameKeeps
  <2>6. Keeps(q, t)
    BY <1>1, <2>2, <2>4, <2>5, KeepsIsTransitive
  <2> QED
    BY <2>1, <2>2, <2>3, <2>4, <2>6
<1> QED
  BY <1>2, <1>3

-----------------------------------------------------------------------------
(* New states and outcomes                                                 *)

\* The outcomes of rounds are fixed once and for all.
Extends(oc, new) == oc \in Outcomes /\ new \in Outcomes /\ \A r \in Rounds : oc[r] # None => new[r] = oc[r]

\* A state keeps its outcome when that of another round is fixed.
LEMMA StateStaysOK ==
  ASSUME NEW oc, NEW new, Extends(oc, new), NEW s, StateOK(s, oc)
  PROVE  StateOK(s, new)
<1>1. s.round \in Rounds
  BY DEF StateOK, States
<1> QED
  BY <1>1 DEF StateOK, Extends

\* And so does the block this node has signed.
LEMMA GoodStaysGood ==
  ASSUME NEW oc, NEW new, Extends(oc, new), NEW q, Good(q, oc)
  PROVE  Good(q, new)
<1>1. q.current_round \in Rounds
  BY DEF Good, Processors
<1>2. StateOK(q.real, new) /\ StateOK(q.virtual, new)
  BY StateStaysOK DEF Good
<1>3. SignedOK(q, new)
  BY <1>1 DEF Good, SignedOK, Extends
<1> QED
  BY <1>2, <1>3 DEF Good

\* Any well-formed state may become the virtual one.
LEMMA SetVirtual ==
  ASSUME NEW oc, NEW q, Good(q, oc), NEW v, StateOK(v, oc)
  PROVE  LET r == [q EXCEPT !.virtual = v]
         IN  /\ Good(r, oc) /\ r.current_round = q.current_round /\ r.real = q.real
             /\ r.blocks = q.blocks /\ r.virtual = v /\ r.calls = q.calls
<1> DEFINE r == [q EXCEPT !.virtual = v]
<1>1. q \in Processors /\ v \in States
  BY DEF Good, StateOK
<1>2. r \in Processors
  BY <1>1 DEF Processors
<1>3. /\ Good(r, oc) /\ r.current_round = q.current_round /\ r.real = q.real
      /\ r.blocks = q.blocks /\ r.virtual = v /\ r.calls = q.calls
  BY <1>1, <1>2 DEF Processors, Good, JudgedOK, Judged, GeneratedOK, SignedOK, PanicOK, CallOK
<1> QED
  BY <1>3

\* The real state may advance, but does not forget a signature.
LEMMA SetReal ==
  ASSUME NEW oc, NEW q, Good(q, oc), NEW v, StateOK(v, oc), q.current_round <= v.round,
         v.round = q.current_round => q.real.round = v.round /\ (q.real.signed => v.signed)
  PROVE  LET r == [q EXCEPT !.real = v]
         IN  /\ Good(r, oc) /\ r.current_round = q.current_round /\ r.real = v
             /\ r.blocks = q.blocks /\ r.virtual = q.virtual /\ r.calls = q.calls
<1> DEFINE r == [q EXCEPT !.real = v]
<1>1. q \in Processors /\ v \in States
  BY DEF Good, StateOK
<1>2. r \in Processors
  BY <1>1 DEF Processors
<1>3. /\ Good(r, oc) /\ r.current_round = q.current_round /\ r.real = v
      /\ r.blocks = q.blocks /\ r.virtual = q.virtual /\ r.calls = q.calls
  BY <1>1, <1>2 DEF Processors, Good, JudgedOK, Judged, GeneratedOK, SignedOK, PanicOK, CallOK
<1> QED
  BY <1>3

-----------------------------------------------------------------------------
(* Own blocks                                                              *)

\* A block of this node keeps its state in the round and leaves the flag of
\* the signature where it is.
Advances(q, r) ==
  /\ r.current_round = q.current_round /\ r.virtual = q.virtual /\ r.blocks = q.blocks /\ r.calls = q.calls
  /\ r.real.round = q.real.round /\ r.real.precommitted = q.real.precommitted
  /\ r.signed = q.signed /\ r.signed_block = q.signed_block
  /\ q.real.signed => r.real.signed

\* The proposal in an own block is a candidate of the round whose data is there.
LEMMA SubmitIsGood ==
  ASSUME NEW oc, NEW q, Good(q, oc), q.real.round = q.current_round
  PROVE  Good(SubmitGenerated(q), oc) /\ Advances(q, SubmitGenerated(q))
         /\ SubmitGenerated(q).real.signed = q.real.signed
<1> DEFINE r == [q EXCEPT !.sent_generated = TRUE, !.real.sent = @ \cup {q.generated_block}]
<1>1. q \in Processors /\ q.current_round \in Rounds /\ q.real \in States /\ Advances(q, q)
  BY DEF Good, Processors, Advances
<1>2. CASE q.generated /\ ~q.sent_generated
  <2>1. q.generated_block = Own(q.current_round) /\ q.generated_block \in q.blocks /\ q.generated_block \in Candidates
    BY <1>1, <1>2 DEF Good, GeneratedOK, Processors
  <2>2. SubmitGenerated(q) = r
    BY <1>2, <2>1 DEF SubmitGenerated, Panic
  <2> DEFINE v == [q.real EXCEPT !.sent = @ \cup {q.generated_block}]
  <2>3. v \in States /\ v.round = q.real.round /\ v.sent = q.real.sent \cup {q.generated_block}
        /\ v.vouched = q.real.vouched /\ v.precommitted = q.real.precommitted /\ v.signed = q.real.signed
    BY <1>1, <2>1 DEF States
  <2>4. q.generated_block \in CandidatesOf(q.real.round)
    BY <1>1, <2>1, OwnAndOther
  <2> DEFINE w == [q EXCEPT !.sent_generated = TRUE]
  <2>5. r = [w EXCEPT !.real = v]
    BY <1>1 DEF Processors
  <2> HIDE DEF v
  <2>6. StateOK(v, oc)
    BY <2>3, <2>4 DEF StateOK, Good
  <2>7. Good(w, oc) /\ w.real = q.real /\ w.current_round = q.current_round
    <3>1. w \in Processors
      BY <1>1 DEF Processors
    <3> QED
      BY <1>1, <3>1 DEF Processors, Good, JudgedOK, Judged, GeneratedOK, SignedOK, PanicOK, CallOK
  <2>8. Good(r, oc)
    <3>1. w.current_round <= v.round /\ v.round = w.real.round /\ (w.real.signed => v.signed)
      BY <2>3, <2>7 DEF Good
    <3> HIDE DEF w
    <3> QED
      BY <2>5, <2>6, <2>7, <3>1, SetReal
  <2>9. Advances(q, r) /\ r.real.signed = q.real.signed
    BY <1>1, <2>3, <2>5 DEF Processors, Advances
  <2> QED
    BY <2>2, <2>8, <2>9
<1>3. CASE ~(q.generated /\ ~q.sent_generated)
  BY <1>1, <1>3 DEF SubmitGenerated
<1> QED
  BY <1>2, <1>3

\* The approvals in an own block.
LEMMA ApprovalsAreGood ==
  ASSUME NEW oc, NEW q, Good(q, oc), NEW to_approve
  PROVE  Good(SendApprovals(q, to_approve), oc) /\ Advances(q, SendApprovals(q, to_approve))
         /\ SendApprovals(q, to_approve).real.signed = q.real.signed
<1> DEFINE v == [q.real EXCEPT !.approved = @ \cup (to_approve \cap (q.approved \ q.too_new))]
           r == [q EXCEPT !.real = v]
<1>1. q \in Processors /\ q.real \in States
  BY DEF Good, Processors
<1>2. v \in States /\ v.round = q.real.round /\ v.sent = q.real.sent
      /\ v.vouched = q.real.vouched /\ v.precommitted = q.real.precommitted /\ v.signed = q.real.signed
  BY <1>1 DEF States, Processors
<1>3. SendApprovals(q, to_approve) = r
  BY <1>1 DEF SendApprovals, Processors
<1> HIDE DEF v
<1>4. StateOK(v, oc)
  BY <1>2 DEF StateOK, Good
<1>5. Good(r, oc)
  <2>1. q.current_round <= v.round
    BY <1>2 DEF Good
  <2> QED
    BY <1>2, <1>4, <2>1, SetReal
<1>6. Advances(q, r) /\ r.real.signed = q.real.signed
  BY <1>1, <1>2 DEF Processors, Advances
<1> QED
  BY <1>3, <1>5, <1>6

\* The assertion on the block to commit: choose_block_to_sign gives one only to
\* a node that has not signed, and then both it and the block this node has
\* signed are the outcome of the round.
LEMMA CommitIsGood ==
  ASSUME NEW oc, NEW q, Good(q, oc), q.real.round = q.current_round,
         NEW to_sign, to_sign # None => to_sign = q.real.precommitted /\ ~q.real.signed
  PROVE  Good(SendCommit(q, to_sign), oc) /\ Advances(q, SendCommit(q, to_sign))
<1> DEFINE v == [q.real EXCEPT !.signed = TRUE]
           r == [q EXCEPT !.real = v]
<1>1. q \in Processors /\ q.real \in States /\ Advances(q, q)
  BY DEF Good, Processors, Advances
<1>2. CASE q.signed /\ to_sign # None
  <2>1. v \in States /\ v.round = q.real.round /\ v.sent = q.real.sent
        /\ v.vouched = q.real.vouched /\ v.precommitted = q.real.precommitted /\ v.signed = TRUE
    BY <1>1 DEF States, Processors
  <2>2. [q EXCEPT !.real.signed = TRUE] = r
    BY <1>1 DEF Processors
  <2> HIDE DEF v
  <2>3. StateOK(v, oc)
    BY <2>1 DEF StateOK, Good
  <2>4. Good(r, oc)
    <3>1. q.current_round <= v.round
      BY <2>1 DEF Good
    <3> QED
      BY <2>1, <2>3, <3>1, SetReal
  <2>5. Advances(q, r)
    BY <1>1, <2>1 DEF Processors, Advances
  <2>6. to_sign = q.signed_block
    BY <1>2 DEF Good, SignedOK, StateOK
  <2>7. SendCommit(q, to_sign) = r
    BY <1>2, <2>2, <2>6 DEF SendCommit, Panic
  <2> QED
    BY <2>4, <2>5, <2>7
<1>3. CASE ~(q.signed /\ to_sign # None)
  BY <1>1, <1>3 DEF SendCommit
<1> QED
  BY <1>2, <1>3

\* All messages of an own block.
LEMMA OwnMessagesAreGood ==
  ASSUME NEW oc, NEW q, Good(q, oc), q.real.round = q.current_round
  PROVE  Good(OwnMessages(q), oc) /\ Advances(q, OwnMessages(q))
<1> DEFINE q1 == SubmitGenerated(q)
           q2 == SendApprovals(q1, ChooseBlocksToApprove(q.real))
           q3 == [q2 EXCEPT !.pending_reject = {}]
           q4 == SendCommit(q3, ChooseBlockToSign(q.real))
<1>1. OwnMessages(q) = q4
  BY DEF OwnMessages
<1>2. Good(q1, oc) /\ Advances(q, q1) /\ q1.real.signed = q.real.signed
  BY SubmitIsGood
<1> HIDE DEF q1
<1>3. Good(q2, oc) /\ Advances(q1, q2) /\ q2.real.signed = q1.real.signed
  BY <1>2, ApprovalsAreGood
<1> HIDE DEF q2
<1>4. Good(q3, oc) /\ Advances(q2, q3) /\ q3.real.signed = q2.real.signed
  <2>1. q2 \in Processors
    BY <1>3 DEF Good
  <2>2. q3 \in Processors
    BY <2>1 DEF Processors
  <2>3. Good(q3, oc)
    BY <1>3, <2>1, <2>2 DEF Processors, Good, JudgedOK, Judged, GeneratedOK, SignedOK, PanicOK, CallOK
  <2>4. Advances(q2, q3) /\ q3.real.signed = q2.real.signed
    BY <2>1 DEF Processors, Advances
  <2> QED
    BY <2>3, <2>4
<1> HIDE DEF q3
<1>5. q3.real.round = q3.current_round /\ q3.real.precommitted = q.real.precommitted /\ q3.real.signed = q.real.signed
  BY <1>2, <1>3, <1>4 DEF Advances
<1> DEFINE to_sign == ChooseBlockToSign(q.real)
<1>8. to_sign # None => to_sign = q3.real.precommitted /\ ~q3.real.signed
  BY <1>5 DEF ChooseBlockToSign
<1> HIDE DEF to_sign
<1>6. Good(q4, oc) /\ Advances(q3, q4)
  BY <1>4, <1>5, <1>8, CommitIsGood DEF to_sign
<1> HIDE DEF q4
<1>7. Advances(q, q4)
  BY <1>2, <1>3, <1>4, <1>6 DEF Advances
<1> QED
  BY <1>1, <1>6, <1>7

-----------------------------------------------------------------------------
(* Candidates and answers                                                  *)

\* The assertions of process_broadcast: a candidate that comes for the first
\* time has not been judged.
LEMMA BroadcastIsGood ==
  ASSUME NEW oc, NEW q, Good(q, oc), NEW c \in Candidates
  PROVE  Good(AddBroadcast(q, c), oc) /\ Same(q, AddBroadcast(q, c))
<1> DEFINE r == [q EXCEPT !.blocks = @ \cup {c}]
           judged == q.pending_approve \cup q.approved \cup q.pending_reject \cup q.rejected
<1>1. q \in Processors /\ q.current_round \in Rounds /\ Same(q, q)
  BY DEF Good, Processors, Same
<1>2. RoundOf(c) \in Rounds /\ c \in CandidatesOf(RoundOf(c)) /\ c # SKIP
  BY RoundOfCandidate
<1>3. Good(r, oc) /\ Same(q, r) /\ r.current_round = q.current_round
  <2>1. r \in Processors
    BY <1>1 DEF Processors
  <2> QED
    BY <1>1, <2>1 DEF Processors, Good, Same, JudgedOK, Judged, GeneratedOK, SignedOK, PanicOK, CallOK
<1>4. c \notin q.blocks => c \notin judged
  BY <1>2 DEF Good, JudgedOK, Judged
<1>5. \/ AddBroadcast(q, c) \in {q, r}
      \/ /\ AddBroadcast(q, c) = TryApproveBlock(r, c, clock)
         /\ RoundOf(c) = q.current_round
  BY <1>4 DEF AddBroadcast, Panic
<1> HIDE DEF r, judged
<1>6. ASSUME RoundOf(c) = q.current_round
      PROVE  Good(TryApproveBlock(r, c, clock), oc) /\ Same(q, TryApproveBlock(r, c, clock))
  <2>1. c \in CandidatesOf(r.current_round) \cup {SKIP}
    BY <1>2, <1>3, <1>6
  <2>2. Good(TryApproveBlock(r, c, clock), oc) /\ Same(r, TryApproveBlock(r, c, clock))
    BY <1>3, <2>1, TryApproveIsGood
  <2>3. Same(q, TryApproveBlock(r, c, clock))
    BY <1>3, <2>2 DEF Same
  <2> QED
    BY <2>2, <2>3
<1> QED
  BY <1>1, <1>3, <1>5, <1>6

\* A collated block is taken only in the round it was made for.
LEMMA GeneratedIsGood ==
  ASSUME NEW oc, NEW q, Good(q, oc), NEW round \in Rounds
  PROVE  Good(GeneratedBlock(q, round), oc) /\ Same(q, GeneratedBlock(q, round))
<1> DEFINE r == [q EXCEPT !.blocks = @ \cup {Own(round)}, !.pending_generate = FALSE,
                          !.generated = TRUE, !.generated_block = Own(round)]
<1>1. q \in Processors /\ Same(q, q) /\ Own(round) \in Candidates
  BY OwnAndOther DEF Good, Same
<1>2. CASE round = q.current_round
  <2>1. r \in Processors
    BY <1>1 DEF Processors, Ballots
  <2>2. Good(r, oc) /\ Same(q, r)
    BY <1>1, <1>2, <2>1 DEF Processors, Good, Same, JudgedOK, Judged, GeneratedOK, SignedOK, PanicOK, CallOK
  <2>3. GeneratedBlock(q, round) = RequestNewBlock(r, TRUE)
    BY <1>2 DEF GeneratedBlock
  <2> HIDE DEF r
  <2>4. Good(RequestNewBlock(r, TRUE), oc) /\ Same(r, RequestNewBlock(r, TRUE))
    BY <2>2, RequestIsGood
  <2>5. Same(q, RequestNewBlock(r, TRUE))
    BY <2>2, <2>4 DEF Same
  <2> QED
    BY <2>3, <2>4, <2>5
<1>3. CASE round # q.current_round
  BY <1>1, <1>3 DEF GeneratedBlock
<1> QED
  BY <1>2, <1>3

\* A verdict is taken only in the round the candidate was validated in.
LEMMA VerdictIsGood ==
  ASSUME NEW oc, NEW q, Good(q, oc), NEW h \in Calls, CallOK(h, q), h.kind = "validate",
         NEW too_new \in BOOLEAN
  PROVE  /\ Good(CandidateDecisionOk(q, h.round, h.block, too_new), oc)
         /\ Same(q, CandidateDecisionOk(q, h.round, h.block, too_new))
         /\ Good(CandidateDecisionFail(q, h.round, h.block), oc)
         /\ Same(q, CandidateDecisionFail(q, h.round, h.block))
<1> DEFINE c == h.block
           later == [q EXCEPT !.pending_approve = @ \ {c}, !.approved = @ \cup {c}, !.too_new = @ \cup {c}]
           now == [q EXCEPT !.pending_approve = @ \ {c}, !.approved = @ \cup {c}]
           no == [q EXCEPT !.pending_approve = @ \ {c}, !.pending_reject = @ \cup {c}, !.rejected = @ \cup {c}]
<1>1. q \in Processors /\ Same(q, q)
  BY DEF Good, Same
<1>2. CASE h.round = q.current_round
  <2>1. c \in q.blocks /\ c \in CandidatesOf(q.current_round) /\ c \in Ballots
    BY <1>1, <1>2 DEF CallOK, Processors, Ballots
  <2> HIDE DEF c
  <2>2. Good(later, oc) /\ Same(q, later)
    <3>1. later \in Processors
      BY <1>1, <2>1 DEF Processors
    <3> QED
      BY <1>1, <2>1, <3>1 DEF Processors, Good, Same, JudgedOK, Judged, GeneratedOK, SignedOK, PanicOK, CallOK
  <2>3. Good(now, oc) /\ Same(q, now)
    <3>1. now \in Processors
      BY <1>1, <2>1 DEF Processors
    <3> QED
      BY <1>1, <2>1, <3>1 DEF Processors, Good, Same, JudgedOK, Judged, GeneratedOK, SignedOK, PanicOK, CallOK
  <2>4. Good(no, oc) /\ Same(q, no)
    <3>1. no \in Processors
      BY <1>1, <2>1 DEF Processors
    <3> QED
      BY <1>1, <2>1, <3>1 DEF Processors, Good, Same, JudgedOK, Judged, GeneratedOK, SignedOK, PanicOK, CallOK
  <2>5. CandidateDecisionOk(q, h.round, h.block, too_new) \in {later, RequestNewBlock(now, FALSE)}
    BY <1>2 DEF CandidateDecisionOk, c
  <2>6. CandidateDecisionFail(q, h.round, h.block) = no
    BY <1>2 DEF CandidateDecisionFail, c
  <2> HIDE DEF later, now, no
  <2>7. Good(RequestNewBlock(now, FALSE), oc) /\ Same(now, RequestNewBlock(now, FALSE))
    BY <2>3, RequestIsGood
  <2>8. Same(q, RequestNewBlock(now, FALSE))
    BY <2>3, <2>7 DEF Same
  <2> QED
    BY <2>2, <2>4, <2>5, <2>6, <2>7, <2>8
<1>3. CASE h.round # q.current_round
  BY <1>1, <1>3 DEF CandidateDecisionOk, CandidateDecisionFail
<1> QED
  BY <1>2, <1>3

\* The end of a download.
LEMMA DownloadEndedIsGood ==
  ASSUME NEW oc, NEW q, Good(q, oc), NEW round, NEW c
  PROVE  Good(DownloadEnded(q, round, c), oc) /\ Same(q, DownloadEnded(q, round, c))
<1> DEFINE r == [q EXCEPT !.active_requests = @ \ {c}]
<1>1. q \in Processors /\ Same(q, q)
  BY DEF Good, Same
<1>2. r \in Processors
  BY <1>1 DEF Processors
<1>3. Good(r, oc) /\ Same(q, r)
  BY <1>1, <1>2 DEF Processors, Good, Same, JudgedOK, Judged, GeneratedOK, SignedOK, PanicOK, CallOK
<1> QED
  BY <1>1, <1>3 DEF DownloadEnded

\* The result of any call, in whatever round it arrives.
LEMMA AnswerIsGood ==
  ASSUME NEW oc, Good(p, oc), NEW h \in Calls, CallOK(h, p), NEW result
  PROVE  Good(Answered(h, result), oc) /\ Same(p, Answered(h, result))
<1>1. h.kind \in Kinds /\ h.round \in Rounds /\ h.block \in Candidates /\ Same(p, p)
  BY DEF Calls, Same
<1>2. CASE h.kind = "collate"
  <2>1. Answered(h, result) \in {p, GeneratedBlock(p, h.round)}
    BY <1>2 DEF Answered
  <2> QED
    BY <1>1, <2>1, GeneratedIsGood
<1>3. CASE h.kind = "validate"
  <2>1. Answered(h, result) \in {CandidateDecisionFail(p, h.round, h.block),
                                 CandidateDecisionOk(p, h.round, h.block, TRUE),
                                 CandidateDecisionOk(p, h.round, h.block, FALSE)}
    BY <1>3 DEF Answered, CandidateDecisionOk
  <2>2. ASSUME NEW too_new \in BOOLEAN
        PROVE  /\ Good(CandidateDecisionOk(p, h.round, h.block, too_new), oc)
               /\ Same(p, CandidateDecisionOk(p, h.round, h.block, too_new))
               /\ Good(CandidateDecisionFail(p, h.round, h.block), oc)
               /\ Same(p, CandidateDecisionFail(p, h.round, h.block))
    BY <1>3, VerdictIsGood
  <2> QED
    BY <2>1, <2>2
<1>4. CASE h.kind = "download"
  <2> DEFINE q == DownloadEnded(p, h.round, h.block)
  <2>1. Answered(h, result) \in {q, AddBroadcast(q, h.block)}
    BY <1>4 DEF Answered
  <2>2. Good(q, oc) /\ Same(p, q)
    BY DownloadEndedIsGood
  <2> HIDE DEF q
  <2>3. Good(AddBroadcast(q, h.block), oc) /\ Same(q, AddBroadcast(q, h.block))
    BY <1>1, <2>2, BroadcastIsGood
  <2>4. Same(p, AddBroadcast(q, h.block))
    BY <2>2, <2>3 DEF Same
  <2> QED
    BY <2>1, <2>2, <2>3, <2>4
<1>5. CASE h.kind = "restore"
  <2>1. Answered(h, result) \in {p, AddBroadcast(p, h.block)}
    BY <1>5 DEF Answered
  <2> QED
    BY <1>1, <2>1, BroadcastIsGood
<1> QED
  BY <1>1, <1>2, <1>3, <1>4, <1>5 DEF Kinds

-----------------------------------------------------------------------------
(* Merged states and new states                                            *)

\* A set of naturals has a least element, and Min is it.
LEMMA MinIsLeast ==
  ASSUME NEW S \in SUBSET Nat, S # {}
  PROVE  Min(S) \in S /\ \A y \in S : Min(S) <= y
<1>1. PICK x \in S : \A y \in S : ~ (<<y, x>> \in OpToRel(<, Nat))
  BY WFMin, NatLessThanWellFounded
<1>2. ASSUME NEW y \in S PROVE x <= y
  <2>1. <<y, x>> \in OpToRel(<, Nat) <=> y < x
    BY DEF OpToRel
  <2>2. ~ (y < x)
    BY <1>1, <2>1, Zenon
  <2> QED
    BY <2>2
<1> QED
  BY <1>2 DEF Min

\* A bounded one has a greatest, and Max is it.
LEMMA MaxIsGreatest ==
  ASSUME NEW n \in Nat, NEW S \in SUBSET (0 .. n), S # {}
  PROVE  Max(S) \in S /\ \A y \in S : y <= Max(S)
<1> DEFINE T == {n - y : y \in S}
<1>1. T \in SUBSET Nat /\ T # {}
  <2>1. \A y \in S : n - y \in Nat
    OBVIOUS
  <2> QED
    BY <2>1
<1>2. PICK x \in S : Min(T) = n - x
  BY <1>1, MinIsLeast
<1>3. \A y \in S : n - x <= n - y
  BY <1>1, <1>2, MinIsLeast
<1>4. \A y \in S : x >= y
  BY <1>3
<1> QED
  BY <1>4 DEF Max

\* The merge of the real state with states of the others is a state of the
\* newest round, and keeps the signature of the real one.
LEMMA MergedRealIsOK ==
  ASSUME NEW oc, NEW states, p.real.round \in Rounds,
         \A s \in states \cup {p.real} : StateOK(s, oc)
  PROVE  LET m == MergedReal(states)
         IN  /\ StateOK(m, oc) /\ p.real.round <= m.round
             /\ p.real.signed /\ m.round = p.real.round => m.signed
<1> DEFINE all == states \cup {p.real}
           R == {s.round : s \in all}
           round == Max(R)
           newest == {s \in all : s.round = round}
           decided == {s.precommitted : s \in newest} \ {None}
           m == MergedReal(states)
<1>1. R \in SUBSET Rounds /\ R # {} /\ p.real.round \in R
  BY DEF StateOK, States
<1>2. round \in R /\ \A y \in R : y <= round
  <2>1. MaxRound \in Nat /\ Rounds = 0 .. MaxRound
    BY ProcessorAssumption DEF Rounds
  <2> HIDE DEF R
  <2> QED
    BY <1>1, <2>1, MaxIsGreatest
<1>3. m = [round |-> round, sent |-> UNION {s.sent : s \in newest}, approved |-> UNION {s.approved : s \in newest},
           vouched |-> UNION {s.vouched : s \in newest},
           precommitted |-> IF decided = {} THEN None ELSE CHOOSE c \in decided : TRUE,
           signed |-> \E s \in newest : s.signed]
  BY DEF MergedReal
<1>4. round \in Rounds /\ p.real.round <= round
  BY <1>1, <1>2
<1> HIDE DEF round, m
<1>5. \A s \in newest : s \in States /\ s.round = round /\ s.sent \subseteq CandidatesOf(round)
                        /\ s.vouched \subseteq CandidatesOf(round) /\ s.precommitted \in {None, oc[round]}
                        /\ s.sent \subseteq Candidates /\ s.vouched \subseteq Candidates /\ s.approved \subseteq Ballots
                        /\ s.precommitted \in Ballots \cup {None}
  BY DEF StateOK, States
<1>6. m.precommitted \in {None, oc[round]} /\ m.precommitted \in Ballots \cup {None}
  <2>1. CASE decided = {}
    BY <1>3, <2>1
  <2>2. CASE decided # {}
    <3>1. m.precommitted \in decided
      BY <1>3, <2>2
    <3> QED
      BY <1>5, <3>1
  <2> QED
    BY <2>1, <2>2
<1>7. m.sent \subseteq CandidatesOf(round) /\ m.vouched \subseteq CandidatesOf(round)
      /\ m.sent \subseteq Candidates /\ m.vouched \subseteq Candidates /\ m.approved \subseteq Ballots
  BY <1>3, <1>5
<1>8. m \in States /\ m.round = round
  BY <1>3, <1>4, <1>6, <1>7 DEF States
<1>9. StateOK(m, oc)
  BY <1>6, <1>7, <1>8 DEF StateOK
<1>10. m.signed <=> \E s \in newest : s.signed
  BY <1>3
<1>12. p.real.signed /\ m.round = p.real.round => m.signed
  BY <1>8, <1>10
<1>13. p.real.round <= m.round
  BY <1>4, <1>8
<1> QED
  BY <1>9, <1>12, <1>13 DEF m

\* A state that may be the first to have the outcome of its round.
StateNew(s, oc) ==
  /\ s \in States
  /\ s.sent \subseteq CandidatesOf(s.round) /\ s.vouched \subseteq CandidatesOf(s.round)
  /\ s.precommitted \in {None, oc[s.round]} \/ oc[s.round] = None

\* Decide fixes the outcome of a round that has none and changes no other.
LEMMA DecideIsOK ==
  ASSUME outcome \in Outcomes, NEW s, StateNew(s, outcome), Decide(s)
  PROVE  Extends(outcome, outcome') /\ StateOK(s, outcome')
<1>1. s.round \in Rounds /\ s.precommitted \in Ballots \cup {None}
  BY DEF StateNew, States
<1>2. outcome' \in Outcomes
  BY <1>1 DEF Decide, Outcomes
<1>3. \A r \in Rounds : outcome[r] # None => outcome'[r] = outcome[r]
  BY <1>1 DEF Decide, Outcomes
<1>4. s.precommitted \in {None, outcome'[s.round]}
  BY <1>1 DEF Decide, Outcomes, StateNew
<1> QED
  BY <1>2, <1>3, <1>4 DEF Extends, StateOK, StateNew

\* The first state of a round.
LEMMA NewStateIsOK ==
  ASSUME NEW oc, NEW r \in Rounds
  PROVE  StateOK(NewState(r), oc) /\ NewState(r).round = r /\ NewState(r).signed = FALSE
BY DEF NewState, StateOK, States

\* A precommitted block is the outcome of the round, or becomes it.
LEMMA PrecommitIsNew ==
  ASSUME outcome \in Outcomes, NEW v, StateOK(v, outcome), NEW s \in Precommits(v)
  PROVE  StateNew(s, outcome) /\ s.round = v.round /\ s.signed = v.signed
<1>1. v \in States /\ v.round \in Rounds
  BY DEF StateOK, States
<1>2. PICK c \in Decisions(v) : s = [v EXCEPT !.precommitted = c]
  BY DEF Precommits
<1>3. c \in Ballots \cup {None} /\ (c = outcome[v.round] \/ outcome[v.round] = None)
  BY <1>1 DEF Decisions, Outcomes, States, Ballots
<1>4. s \in States /\ s.round = v.round /\ s.signed = v.signed /\ s.sent = v.sent /\ s.vouched = v.vouched /\ s.precommitted = c
  BY <1>1, <1>2, <1>3 DEF States
<1> QED
  BY <1>3, <1>4 DEF StateNew, StateOK

\* The state after an own block: of the same round, or the first of the next.
LEMMA OwnVotesAreNew ==
  ASSUME outcome \in Outcomes, NEW v, StateOK(v, outcome), NEW s \in OwnVotes(v)
  PROVE  /\ StateNew(s, outcome) /\ v.round <= s.round
         /\ s.signed => v.signed /\ s.round = v.round
         /\ v.signed /\ s.round = v.round => s.signed
<1>1. v.round \in Rounds /\ v.round \in Nat
  BY RoundsAreNaturals DEF StateOK, States
<1>2. CASE s = v
  BY <1>1, <1>2 DEF StateNew, StateOK
<1>3. CASE s \in Precommits(v)
  BY <1>1, <1>3, PrecommitIsNew
<1>4. CASE v.round \in 0 .. MaxRound - 1 /\ s = NewState(v.round + 1)
  <2>1. v.round + 1 \in Rounds
    BY <1>4, RoundsAreNaturals
  <2>2. StateOK(s, outcome) /\ s.round = v.round + 1 /\ s.signed = FALSE
    BY <1>4, <2>1, NewStateIsOK
  <2> QED
    BY <1>1, <2>2 DEF StateNew, StateOK
<1> QED
  BY <1>2, <1>3, <1>4 DEF OwnVotes

\* The state after a block of another node.
LEMMA NetStepsAreNew ==
  ASSUME Inv, NEW s \in NetSteps
  PROVE  StateNew(s, outcome)
<1>1. /\ StateOK(net, outcome) /\ net \in States /\ net.round \in Rounds /\ net.round \in Nat
      /\ StateOK(p.real, outcome) /\ p.real \in States /\ p.real.round \in Nat /\ outcome \in Outcomes
  BY RoundsAreNaturals DEF Inv, ProcessorOK, Good, StateOK, States
<1>2. CASE s = [net EXCEPT !.sent = @ \cup {Other(net.round)}]
  <2>1. Other(net.round) \in CandidatesOf(net.round) /\ Other(net.round) \in Candidates
    BY <1>1, OwnAndOther
  <2>2. s \in States /\ s.round = net.round /\ s.signed = net.signed /\ s.precommitted = net.precommitted
        /\ s.sent = net.sent \cup {Other(net.round)} /\ s.vouched = net.vouched
    BY <1>1, <1>2, <2>1 DEF States
  <2> QED
    BY <1>1, <2>1, <2>2 DEF StateNew, StateOK
<1>3. CASE \E c \in net.sent : s = [net EXCEPT !.vouched = @ \cup {c}]
  <2>1. PICK c \in net.sent : s = [net EXCEPT !.vouched = @ \cup {c}]
    BY <1>3
  <2>2. s \in States /\ s.round = net.round /\ s.signed = net.signed /\ s.precommitted = net.precommitted
        /\ s.sent = net.sent /\ s.vouched = net.vouched \cup {c}
    BY <1>1, <2>1 DEF States
  <2> QED
    BY <1>1, <2>1, <2>2 DEF StateNew, StateOK
<1>4. CASE /\ net.round = p.real.round
           /\ s = [net EXCEPT !.sent = @ \cup p.real.sent, !.approved = p.real.approved, !.signed = p.real.signed]
  <2>1. s \in States /\ s.round = net.round /\ s.signed = p.real.signed /\ s.precommitted = net.precommitted
        /\ s.sent = net.sent \cup p.real.sent /\ s.vouched = net.vouched
    BY <1>1, <1>4 DEF States
  <2> QED
    BY <1>1, <1>4, <2>1 DEF StateNew, StateOK
<1>5. CASE s \in Precommits(net)
  <2>1. StateNew(s, outcome) /\ s.round = net.round /\ s.signed = net.signed
    BY <1>1, <1>5, PrecommitIsNew
  <2> QED
    BY <1>1, <2>1
<1>6. CASE net.round \in 0 .. MaxRound - 1 /\ s = NewState(net.round + 1)
  <2>1. net.round + 1 \in Rounds
    BY <1>6, RoundsAreNaturals
  <2>2. StateOK(s, outcome) /\ s.signed = FALSE
    BY <1>6, <2>1, NewStateIsOK
  <2> QED
    BY <2>2 DEF StateNew, StateOK
<1> QED
  BY <1>2, <1>3, <1>4, <1>5, <1>6 DEF NetSteps

-----------------------------------------------------------------------------
(* The invariant                                                           *)

HandlersOK(H, q) == \A h \in H : h \in Calls /\ CallOK(h, q)

\* The end of a task: what it has called for is awaited like the rest.
LEMMA EndTaskIsOK ==
  ASSUME NEW oc, NEW q, Good(q, oc), q.real.round = q.current_round,
         p \in Processors, Keeps(p, q), HandlersOK(handlers, p), NEW H \in SUBSET handlers
  PROVE  /\ ProcessorOK([q EXCEPT !.calls = {}], oc)
         /\ [q EXCEPT !.calls = {}].real = q.real
         /\ HandlersOK(H \cup q.calls, [q EXCEPT !.calls = {}])
<1> DEFINE r == [q EXCEPT !.calls = {}]
<1>1. q \in Processors /\ p.current_round \in Rounds /\ q.current_round \in Rounds
  BY DEF Good, Processors
<1>2. r \in Processors
  BY <1>1 DEF Processors
<1>3. r.current_round = q.current_round /\ r.real = q.real /\ r.blocks = q.blocks /\ r.calls = {}
  BY <1>1 DEF Processors
<1>4. Good(r, oc)
  BY <1>1, <1>2 DEF Processors, Good, JudgedOK, Judged, GeneratedOK, SignedOK, PanicOK, CallOK
<1> HIDE DEF r
<1>5. ASSUME NEW h \in H \cup q.calls PROVE h \in Calls /\ CallOK(h, r)
  <2>1. h \in Calls /\ CallOK(h, q)
    <3>1. CASE h \in H
      <4>1. h \in Calls /\ CallOK(h, p)
        BY <3>1 DEF HandlersOK
      <4> QED
        BY <1>1, <4>1, CallStaysOK
    <3>2. CASE h \in q.calls
      BY <1>1, <3>2 DEF Good, Processors
    <3> QED
      BY <3>1, <3>2
  <2> QED
    BY <1>3, <2>1 DEF CallOK
<1>6. ProcessorOK(r, oc) /\ r.real = q.real /\ HandlersOK(H \cup q.calls, r)
  BY <1>3, <1>4, <1>5 DEF ProcessorOK, HandlersOK
<1> QED
  BY <1>6 DEF r

\* A task that leaves the round and the states as they are.
LEMMA TaskIsOK ==
  ASSUME Inv, NEW q, Good(q, outcome'), Keeps(p, q), q.real.round = q.current_round,
         NEW H, EndTask(q, H), UNCHANGED plan, outcome' \in Outcomes
  PROVE  /\ outcome' \in Outcomes /\ clock' \in Slots /\ plan' \in Plans
         /\ ProcessorOK(p', outcome')
         /\ \A h \in handlers' : h \in Calls /\ CallOK(h, p')
         /\ p'.real = q.real
<1>1. p \in Processors /\ HandlersOK(handlers, p)
  BY DEF Inv, ProcessorOK, Good, HandlersOK
<1>2. p' = [q EXCEPT !.calls = {}] /\ handlers' = (handlers \ H) \cup q.calls
  BY DEF EndTask
<1>3. handlers \ H \in SUBSET handlers
  OBVIOUS
<1>4. ProcessorOK(p', outcome') /\ HandlersOK(handlers', p') /\ p'.real = q.real
  BY <1>1, <1>2, <1>3, EndTaskIsOK
<1>5. clock' \in Slots
  BY DEF EndTask, Slots, Inv
<1> QED
  BY <1>4, <1>5 DEF Inv, HandlersOK

\* A task within the round that changes no state of the session.
LEMMA QuietTaskIsOK ==
  ASSUME Inv, NEW q, Good(q, outcome), Same(p, q),
         NEW H, EndTask(q, H), UNCHANGED <<net, seen, outcome, plan>>
  PROVE  Inv'
<1>1. p.current_round \in Rounds /\ p.real.round = p.current_round
  BY DEF Inv, ProcessorOK, Good, Processors
<1>2. Keeps(p, q) /\ q.real.round = q.current_round /\ q.real = p.real
  <2>1. Keeps(p, q)
    BY <1>1, SameKeeps
  <2> QED
    BY <1>1, <2>1 DEF Same
<1>3. Good(q, outcome') /\ outcome' \in Outcomes
  BY DEF Inv
<1>4. /\ outcome' \in Outcomes /\ clock' \in Slots /\ plan' \in Plans
      /\ ProcessorOK(p', outcome')
      /\ \A h \in handlers' : h \in Calls /\ CallOK(h, p')
      /\ p'.real = q.real
  BY <1>2, <1>3, TaskIsOK
<1>5. \A s \in (seen \cup {net})' : StateOK(s, outcome')
  BY <1>2, <1>4 DEF Inv
<1> QED
  BY <1>4, <1>5 DEF Inv

\* The invariant holds at the start.
LEMMA InitHolds == Init => Inv
<1> SUFFICES ASSUME Init PROVE Inv
  OBVIOUS
<1>1. StateOK(NewState(0), outcome) /\ NewState(0).round = 0 /\ NewState(0).signed = FALSE /\ 0 \in Rounds
  BY NewStateIsOK, RoundsAreNaturals
<1>2. outcome \in Outcomes
  BY DEF Init, Outcomes
<1>3. p \in Processors
  BY <1>1 DEF Init, NewProcessor, Processors, StateOK, Ballots, Panics
<1>4. ProcessorOK(p, outcome)
  BY <1>1, <1>3 DEF Init, NewProcessor, ProcessorOK, Good, JudgedOK, Judged, GeneratedOK, SignedOK, PanicOK
<1>5. \A s \in seen \cup {net} : StateOK(s, outcome)
  BY <1>1 DEF Init
<1> QED
  BY <1>2, <1>4, <1>5 DEF Init, Inv, Slots

\* preprocess_block.
LEMMA PreprocessKeepsInv == Inv /\ PreprocessBlock => Inv'
<1> SUFFICES ASSUME Inv, PreprocessBlock PROVE Inv'
  OBVIOUS
<1>1. PICK state \in NetSteps, vote \in BOOLEAN :
        /\ net' = state /\ seen' = seen \cup {state} /\ Decide(state)
        /\ EndTask(CheckAll(EnterRound([p EXCEPT !.virtual = MergeStates(@, state)], vote), clock, vote), {})
  BY DEF PreprocessBlock
<1>2. UNCHANGED plan
  BY DEF PreprocessBlock
<1>3. StateNew(state, outcome)
  BY NetStepsAreNew
<1>4. Extends(outcome, outcome') /\ StateOK(state, outcome') /\ outcome' \in Outcomes
  <2>1. Extends(outcome, outcome') /\ StateOK(state, outcome')
    BY <1>1, <1>3, DecideIsOK DEF Inv
  <2> QED
    BY <2>1 DEF Extends
<1> DEFINE v == MergeStates(p.virtual, state)
           q1 == [p EXCEPT !.virtual = v]
           q2 == EnterRound(q1, vote)
           q3 == CheckAll(q2, clock, vote)
<1>5. Good(p, outcome) /\ p.current_round \in Rounds /\ p.blocks \subseteq Candidates
      /\ p.real.round = p.current_round /\ p \in Processors
  BY DEF Inv, ProcessorOK, Good, Processors
<1>6. Good(p, outcome') /\ StateOK(p.virtual, outcome')
  <2>1. Good(p, outcome')
    BY <1>4, <1>5, GoodStaysGood
  <2> QED
    BY <2>1 DEF Good
<1>7. StateOK(v, outcome')
  BY <1>4, <1>6, MergeIsOK
<1>8. EndTask(q3, {})
  <2>1. q1 = [p EXCEPT !.virtual = MergeStates(@, state)]
    BY <1>5 DEF Processors
  <2> QED
    BY <1>1, <2>1
<1> HIDE DEF v
<1>9. Good(q1, outcome') /\ q1.current_round = p.current_round /\ q1.real = p.real /\ q1.blocks = p.blocks
  BY <1>6, <1>7, SetVirtual
<1> HIDE DEF q1
<1>10. Good(q2, outcome') /\ q2.real = p.real /\ q2.current_round = p.real.round
  BY <1>9, EnterRoundIsGood
<1> HIDE DEF q2
<1>11. Good(q3, outcome') /\ Same(q2, q3)
  BY <1>10, CheckAllIsGood
<1> HIDE DEF q3
<1>12. q3.real = p.real /\ q3.current_round = p.current_round
  BY <1>5, <1>10, <1>11 DEF Same
<1>13. Keeps(p, q3)
  <2>1. q2.current_round = q1.current_round /\ Keeps(q1, q2)
    BY <1>5, <1>9, <1>10, EnterRoundIsGood DEF q2
  <2>2. Keeps(p, q2)
    BY <1>9, <2>1 DEF Keeps
  <2>3. Keeps(q2, q3)
    BY <1>5, <1>10, <1>11, SameKeeps
  <2> QED
    BY <1>5, <1>10, <1>12, <2>2, <2>3, KeepsIsTransitive
<1>14. /\ outcome' \in Outcomes /\ clock' \in Slots /\ plan' \in Plans
       /\ ProcessorOK(p', outcome')
       /\ \A h \in handlers' : h \in Calls /\ CallOK(h, p')
       /\ p'.real = q3.real
  <2>1. Good(q3, outcome') /\ q3.real.round = q3.current_round
    BY <1>2, <1>5, <1>11, <1>12
  <2> QED
    BY <1>2, <1>4, <1>8, <1>13, <2>1, TaskIsOK
<1>15. \A s \in (seen \cup {net})' : StateOK(s, outcome')
  <2> SUFFICES ASSUME NEW s \in (seen \cup {net})' PROVE StateOK(s, outcome')
    OBVIOUS
  <2>1. StateOK(s, outcome')
    <3>1. CASE s = state
      BY <1>3, <1>4, <3>1
    <3>2. CASE s \in seen
      <4>1. StateOK(s, outcome)
        BY <3>2 DEF Inv
      <4> QED
        BY <1>4, <4>1, StateStaysOK
    <3> QED
      BY <1>1, <3>1, <3>2
  <2> QED
    BY <2>1
<1> QED
  BY <1>14, <1>15 DEF Inv

\* catchain_started.
LEMMA CatchainStartedKeepsInv == Inv /\ CatchainStarted => Inv'
<1> SUFFICES ASSUME Inv, CatchainStarted PROVE Inv'
  OBVIOUS
<1> DEFINE C == {[kind |-> "restore", round |-> p.current_round, block |-> c] : c \in p.virtual.approved \ {SKIP}}
           q == [p EXCEPT !.started = TRUE, !.calls = C]
<1>1. PICK vote \in BOOLEAN : EndTask(CheckAll(q, clock, vote), {})
  BY DEF CatchainStarted
<1>2. Good(p, outcome) /\ p \in Processors /\ p.current_round \in Rounds /\ p.virtual \in States
  BY DEF Inv, ProcessorOK, Good, Processors
<1>3. \A h \in C : h \in Calls /\ CallOK(h, p)
  <2> SUFFICES ASSUME NEW c \in p.virtual.approved \ {SKIP}
               PROVE  LET h == [kind |-> "restore", round |-> p.current_round, block |-> c] IN h \in Calls /\ CallOK(h, p)
    OBVIOUS
  <2>1. c \in Candidates
    BY <1>2 DEF States, Ballots
  <2>2. p.current_round \in Nat
    BY <1>2, RoundsAreNaturals
  <2>3. p.current_round <= p.current_round
    BY <2>2
  <2> QED
    BY <1>2, <2>1, <2>3 DEF Calls, Kinds, CallOK
<1> HIDE DEF C
<1>4. q \in Processors
  BY <1>2, <1>3 DEF Processors
<1>5. Good(q, outcome) /\ Same(p, q)
  BY <1>2, <1>3, <1>4 DEF Processors, Good, Same, JudgedOK, Judged, GeneratedOK, SignedOK, PanicOK, CallOK
<1> HIDE DEF q
<1>6. Good(CheckAll(q, clock, vote), outcome) /\ Same(q, CheckAll(q, clock, vote))
  BY <1>5, CheckAllIsGood
<1>7. Same(p, CheckAll(q, clock, vote))
  BY <1>5, <1>6 DEF Same
<1> QED
  BY <1>1, <1>6, <1>7, QuietTaskIsOK DEF CatchainStarted

\* process_broadcast.
LEMMA BroadcastKeepsInv == Inv /\ ProcessBroadcast => Inv'
<1> SUFFICES ASSUME Inv, ProcessBroadcast PROVE Inv'
  OBVIOUS
<1>1. PICK r \in OtherRounds : EndTask(AddBroadcast(p, Other(r)), {})
  BY DEF ProcessBroadcast
<1>2. Other(r) \in Candidates
  <2>1. r \in Rounds
    BY ProcessorAssumption DEF OtherRounds, Inv, Rounds
  <2> QED
    BY <2>1, OwnAndOther
<1>3. Good(AddBroadcast(p, Other(r)), outcome) /\ Same(p, AddBroadcast(p, Other(r)))
  BY <1>2, BroadcastIsGood DEF Inv, ProcessorOK
<1> QED
  BY <1>1, <1>3, QuietTaskIsOK DEF ProcessBroadcast

\* A callback of the collator, the validator or another node.
LEMMA AnswerKeepsInv ==
  ASSUME Inv, NEW h, NEW result, Answer(h, result)
  PROVE  Inv'
<1>1. h \in Calls /\ CallOK(h, p) /\ Good(p, outcome)
  BY DEF Inv, ProcessorOK, Answer
<1>2. Good(Answered(h, result), outcome) /\ Same(p, Answered(h, result))
  BY <1>1, AnswerIsGood
<1> QED
  BY <1>2, QuietTaskIsOK DEF Answer

\* The main loop wakes up: check_all in a later slot.
LEMMA AwakeKeepsInv == Inv /\ Awake => Inv'
<1> SUFFICES ASSUME Inv, Awake PROVE Inv'
  OBVIOUS
<1> DEFINE r == [p EXCEPT !.too_new = {}]
<1>1. PICK slot \in {IF clock < 2 THEN clock + 1 ELSE 2}, vote \in BOOLEAN :
        /\ p' = [CheckAll(r, slot, vote) EXCEPT !.calls = {}]
        /\ handlers' = handlers \cup CheckAll(r, slot, vote).calls
        /\ clock' = slot
  BY DEF Awake
<1>2. UNCHANGED <<net, seen, outcome, plan>>
  BY DEF Awake
<1>3. Good(p, outcome) /\ p \in Processors /\ p.current_round \in Rounds /\ p.real.round = p.current_round
      /\ HandlersOK(handlers, p)
  BY DEF Inv, ProcessorOK, Good, Processors, HandlersOK
<1>4. r \in Processors
  BY <1>3 DEF Processors
<1>5. Good(r, outcome) /\ Same(p, r)
  BY <1>3, <1>4 DEF Processors, Good, Same, JudgedOK, Judged, GeneratedOK, SignedOK, PanicOK, CallOK
<1> HIDE DEF r
<1> DEFINE q == CheckAll(r, slot, vote)
<1>6. Good(q, outcome) /\ Same(r, q)
  BY <1>5, CheckAllIsGood
<1> HIDE DEF q
<1>7. Same(p, q)
  BY <1>5, <1>6 DEF Same
<1>8. Keeps(p, q)
  BY <1>3, <1>7, SameKeeps
<1>9. q.real.round = q.current_round /\ q.real = p.real
  BY <1>3, <1>7 DEF Same
<1>10. /\ ProcessorOK([q EXCEPT !.calls = {}], outcome)
       /\ [q EXCEPT !.calls = {}].real = q.real
       /\ HandlersOK(handlers \cup q.calls, [q EXCEPT !.calls = {}])
  BY <1>3, <1>6, <1>8, <1>9, EndTaskIsOK
<1>11. ProcessorOK(p', outcome') /\ p'.real = p.real /\ HandlersOK(handlers', p')
  BY <1>1, <1>2, <1>9, <1>10 DEF q
<1>12. clock' \in Slots
  BY <1>1 DEF Inv, Slots
<1>13. \A s \in (seen \cup {net})' : StateOK(s, outcome')
  BY <1>2, <1>11 DEF Inv
<1> QED
  BY <1>2, <1>11, <1>12, <1>13 DEF Inv, HandlersOK

\* process_blocks: the states of the others, a round they may end, the own
\* messages, and a round that this node's votes may end.
LEMMA ProcessBlocksKeepsInv == Inv /\ ProcessBlocks => Inv'
<1> SUFFICES ASSUME Inv, ProcessBlocks PROVE Inv'
  OBVIOUS
<1>1. PICK states \in SUBSET seen, vote \in BOOLEAN :
        \E q \in {OwnMessages(EnterRound([p EXCEPT !.requested = FALSE, !.requested_now = FALSE,
                                                  !.real = MergedReal(states)], vote))} :
        \E made \in OwnVotes(q.real) :
          /\ seen' = {s \in seen \ states : \A t \in states : MergeStates(s, t) # t}
          /\ Decide(made)
          /\ EndTask([EnterRound([q EXCEPT !.real = made], vote) EXCEPT !.virtual = MergeStates(@, made)], {})
  BY DEF ProcessBlocks
<1>2. UNCHANGED <<net, plan>> /\ outcome \in Outcomes
  BY DEF ProcessBlocks, Inv
<1> DEFINE m == MergedReal(states)
           q0 == [p EXCEPT !.requested = FALSE, !.requested_now = FALSE]
           q1 == [q0 EXCEPT !.real = m]
           q2 == EnterRound(q1, vote)
           q == OwnMessages(q2)
<1>3. PICK made \in OwnVotes(q.real) :
        /\ seen' \subseteq seen
        /\ Decide(made)
        /\ EndTask([EnterRound([q EXCEPT !.real = made], vote) EXCEPT !.virtual = MergeStates(@, made)], {})
  <2>1. p \in Processors
    BY DEF Inv, ProcessorOK, Good
  <2>2. q1 = [p EXCEPT !.requested = FALSE, !.requested_now = FALSE, !.real = MergedReal(states)]
    BY <2>1 DEF Processors
  <2> QED
    BY <1>1, <2>2
<1>4. Good(p, outcome) /\ p \in Processors /\ p.current_round \in Rounds /\ p.real.round = p.current_round
      /\ p.blocks \subseteq Candidates /\ p.real.round \in Rounds
  BY DEF Inv, ProcessorOK, Good, Processors
<1>5. /\ StateOK(m, outcome) /\ p.real.round <= m.round
      /\ p.real.signed /\ m.round = p.real.round => m.signed
  <2>2. StateOK(p.real, outcome)
    BY <1>4 DEF Good
  <2>3. \A s \in states \cup {p.real} : StateOK(s, outcome)
    BY <2>2 DEF Inv
  <2> QED
    BY <1>4, <2>3, MergedRealIsOK
<1> HIDE DEF m
<1>6. Good(q0, outcome) /\ q0.current_round = p.current_round /\ q0.real = p.real /\ q0.blocks = p.blocks
  <2>1. q0 \in Processors
    BY <1>4 DEF Processors
  <2> QED
    BY <1>4, <2>1 DEF Processors, Good, JudgedOK, Judged, GeneratedOK, SignedOK, PanicOK, CallOK
<1> HIDE DEF q0
<1>7. Good(q1, outcome) /\ q1.current_round = p.current_round /\ q1.real = m /\ q1.blocks = p.blocks
  <2>1. q0.current_round <= m.round
    BY <1>4, <1>5, <1>6
  <2>2. m.round = q0.current_round => q0.real.round = m.round /\ (q0.real.signed => m.signed)
    BY <1>4, <1>5, <1>6
  <2> QED
    BY <1>5, <1>6, <2>1, <2>2, SetReal
<1> HIDE DEF q1
<1>8. Good(q2, outcome) /\ Keeps(q1, q2) /\ q2.real = m /\ q2.current_round = m.round
  BY <1>7, EnterRoundIsGood
<1> HIDE DEF q2
<1>9. Good(q, outcome) /\ Advances(q2, q)
  BY <1>2, <1>8, OwnMessagesAreGood
<1> HIDE DEF q
<1>10. q.current_round = m.round /\ q.real.round = m.round /\ (m.signed => q.real.signed) /\ q.blocks = q2.blocks
       /\ StateOK(q.real, outcome) /\ m.round \in Rounds
  BY <1>5, <1>8, <1>9 DEF Advances, Good, StateOK, States
<1>11. /\ StateNew(made, outcome) /\ q.real.round <= made.round
       /\ made.signed => q.real.signed /\ made.round = q.real.round
       /\ q.real.signed /\ made.round = q.real.round => made.signed
  BY <1>2, <1>10, OwnVotesAreNew
<1>12. Extends(outcome, outcome') /\ StateOK(made, outcome') /\ outcome' \in Outcomes /\ made.round \in Rounds
  <2>1. Extends(outcome, outcome') /\ StateOK(made, outcome')
    BY <1>2, <1>3, <1>11, DecideIsOK
  <2> QED
    BY <2>1 DEF Extends, StateOK, States
<1>13. Good(q, outcome')
  BY <1>9, <1>12, GoodStaysGood
<1> DEFINE q5 == [q EXCEPT !.real = made]
           q6 == EnterRound(q5, vote)
           v == MergeStates(q6.virtual, made)
           q7 == [q6 EXCEPT !.virtual = v]
<1>14. Good(q5, outcome') /\ q5.current_round = m.round /\ q5.real = made /\ q5.blocks = q.blocks
  <2>1. q.current_round <= made.round
    BY <1>10, <1>11
  <2> QED
    BY <1>10, <1>11, <1>12, <1>13, <2>1, SetReal
<1>15. EndTask([q6 EXCEPT !.virtual = MergeStates(@, made)], {})
  BY <1>3
<1> HIDE DEF q5
<1>16. Good(q6, outcome') /\ Keeps(q5, q6) /\ q6.real = made /\ q6.current_round = made.round
  BY <1>14, EnterRoundIsGood
<1> HIDE DEF q6
<1>17. EndTask(q7, {})
  <2>1. q6 \in Processors
    BY <1>16 DEF Good
  <2>2. [q6 EXCEPT !.virtual = MergeStates(@, made)] = q7
    BY <2>1 DEF Processors
  <2> QED
    BY <1>15, <2>2
<1>18. StateOK(v, outcome')
  <2>1. StateOK(q6.virtual, outcome')
    BY <1>16 DEF Good
  <2> QED
    BY <1>12, <2>1, MergeIsOK
<1> HIDE DEF v
<1>19. Good(q7, outcome') /\ q7.current_round = q6.current_round /\ q7.real = made /\ q7.blocks = q6.blocks
  BY <1>16, <1>18, SetVirtual
<1> HIDE DEF q7
<1>20. Keeps(p, q7)
  <2>1. Keeps(p, q5)
    BY <1>7, <1>8, <1>10, <1>14 DEF Keeps
  <2>2. Keeps(q5, q7)
    BY <1>16, <1>19 DEF Keeps
  <2>3. q5.current_round \in Rounds /\ q7.current_round \in Rounds
    BY <1>10, <1>12, <1>14, <1>16, <1>19
  <2> QED
    BY <1>4, <2>1, <2>2, <2>3, KeepsIsTransitive
<1>21. /\ outcome' \in Outcomes /\ clock' \in Slots /\ plan' \in Plans
       /\ ProcessorOK(p', outcome')
       /\ \A h \in handlers' : h \in Calls /\ CallOK(h, p')
       /\ p'.real = made
  <2>1. Good(q7, outcome') /\ q7.real.round = q7.current_round
    BY <1>2, <1>16, <1>19
  <2> QED
    BY <1>2, <1>12, <1>17, <1>19, <1>20, <2>1, TaskIsOK
<1>22. \A s \in (seen \cup {net})' : StateOK(s, outcome')
  <2> SUFFICES ASSUME NEW s \in (seen \cup {net})' PROVE StateOK(s, outcome')
    OBVIOUS
  <2>1. StateOK(s, outcome)
    BY <1>2, <1>3 DEF Inv
  <2> QED
    BY <1>12, <2>1, StateStaysOK
<1> QED
  BY <1>21, <1>22 DEF Inv

\* finished_catchain_processing.
LEMMA FinishedKeepsInv == Inv /\ FinishedCatchainProcessing => Inv'
<1> SUFFICES ASSUME Inv, FinishedCatchainProcessing PROVE Inv'
  OBVIOUS
<1> DEFINE q1 == [p EXCEPT !.virtual = p.real]
<1>1. PICK vote \in BOOLEAN : EndTask(CheckAll(q1, clock, vote), {})
  BY DEF FinishedCatchainProcessing
<1>2. UNCHANGED <<net, seen, outcome, plan>>
  BY DEF FinishedCatchainProcessing
<1>3. Good(p, outcome) /\ StateOK(p.real, outcome) /\ p.current_round \in Rounds /\ p.real.round = p.current_round
      /\ p.blocks \subseteq Candidates /\ outcome \in Outcomes
  BY DEF Inv, ProcessorOK, Good, Processors
<1>4. Good(q1, outcome) /\ q1.current_round = p.current_round /\ q1.real = p.real /\ q1.blocks = p.blocks
  BY <1>3, SetVirtual
<1> HIDE DEF q1
<1> DEFINE q2 == CheckAll(q1, clock, vote)
<1>5. Good(q2, outcome) /\ Same(q1, q2)
  BY <1>4, CheckAllIsGood
<1>6. EndTask(q2, {})
  BY <1>1
<1> HIDE DEF q2
<1>7. q2.current_round = p.current_round /\ q2.real = p.real /\ p.blocks \subseteq q2.blocks
  BY <1>4, <1>5 DEF Same
<1>8. Keeps(p, q2)
  <2>1. p.current_round \in Nat
    BY <1>3, RoundsAreNaturals
  <2> QED
    BY <1>7, <2>1 DEF Keeps
<1>9. /\ outcome' \in Outcomes /\ clock' \in Slots /\ plan' \in Plans
      /\ ProcessorOK(p', outcome')
      /\ \A h \in handlers' : h \in Calls /\ CallOK(h, p')
      /\ p'.real = q2.real
  <2>1. Good(q2, outcome') /\ q2.real.round = q2.current_round /\ outcome' \in Outcomes
    BY <1>2, <1>3, <1>5, <1>7
  <2> QED
    BY <1>2, <1>6, <1>8, <2>1, TaskIsOK
<1>10. \A s \in (seen \cup {net})' : StateOK(s, outcome')
  BY <1>2, <1>7, <1>9 DEF Inv
<1> QED
  BY <1>9, <1>10 DEF Inv

\* A restart forgets all but the last own block.
LEMMA RestartKeepsInv == Inv /\ Restart => Inv'
<1> SUFFICES ASSUME Inv, Restart PROVE Inv'
  OBVIOUS
<1> DEFINE v == MergeStates(p.real, net)
           q1 == [NewProcessor EXCEPT !.real = p.real, !.virtual = v]
           q2 == EnterRound(q1, FALSE)
           q3 == [q2 EXCEPT !.calls = {}]
<1>1. p' = q3 /\ handlers' = {} /\ clock' = 0 /\ seen' = {net} \ {NewState(0)}
      /\ UNCHANGED <<net, outcome, plan>>
  BY DEF Restart
<1>2. StateOK(p.real, outcome) /\ StateOK(net, outcome) /\ outcome \in Outcomes
  BY DEF Inv, ProcessorOK, Good
<1>4. StateOK(v, outcome)
  BY <1>2, MergeIsOK
<1> HIDE DEF v
<1>5. StateOK(NewState(0), outcome) /\ NewState(0).round = 0 /\ 0 \in Rounds /\ p.real.round \in Nat
  BY <1>2, NewStateIsOK, RoundsAreNaturals DEF StateOK, States
<1>6. q1 \in Processors
  BY <1>2, <1>4, <1>5 DEF NewProcessor, Processors, StateOK, Ballots, Panics
<1>7. Good(q1, outcome)
  <2>1. /\ q1.current_round = 0 /\ q1.real = p.real /\ q1.virtual = v /\ q1.calls = {} /\ q1.panic = "no"
        /\ q1.generated = FALSE /\ q1.signed = FALSE /\ Judged(q1) = {} /\ q1.active_requests = {}
    BY DEF NewProcessor, Judged
  <2> HIDE DEF q1
  <2>2. q1.current_round <= q1.real.round
    BY <1>5, <2>1
  <2> QED
    BY <1>2, <1>4, <1>6, <2>1, <2>2 DEF Good, JudgedOK, GeneratedOK, SignedOK, PanicOK
<1>8. q1.real = p.real
  BY DEF NewProcessor
<1> HIDE DEF q1
<1>9. Good(q2, outcome) /\ q2.real = p.real /\ q2.current_round = p.real.round
  <2>1. ASSUME NEW vote \in BOOLEAN
        PROVE  LET r == EnterRound(q1, vote)
               IN  Good(r, outcome) /\ r.real = q1.real /\ r.current_round = q1.real.round
    BY <1>7, EnterRoundIsGood
  <2> QED
    BY <1>8, <2>1
<1> HIDE DEF q2
<1>10. ProcessorOK(q3, outcome)
  <2>1. q2 \in Processors
    BY <1>9 DEF Good
  <2>2. q3 \in Processors
    BY <2>1 DEF Processors
  <2> QED
    BY <1>9, <2>1, <2>2 DEF Processors, ProcessorOK, Good, JudgedOK, Judged, GeneratedOK, SignedOK, PanicOK, CallOK
<1> HIDE DEF q3
<1>11. \A s \in (seen \cup {net})' : StateOK(s, outcome')
  BY <1>1, <1>2
<1> QED
  BY <1>1, <1>2, <1>10, <1>11 DEF Inv, Slots

\* Every step keeps the invariant.
LEMMA NextKeepsInv == Inv /\ [Next]_vars => Inv'
<1> SUFFICES ASSUME Inv, [Next]_vars PROVE Inv'
  OBVIOUS
<1>1. CASE \E h \in handlers, result \in {"ok", "too_new", "fail"} : Answer(h, result)
  BY <1>1, AnswerKeepsInv
<1>2. CASE UNCHANGED vars
  BY <1>2 DEF vars, Inv, ProcessorOK, Good, StateOK, CallOK, Judged, JudgedOK, GeneratedOK, SignedOK, PanicOK
<1> QED
  BY <1>1, <1>2, PreprocessKeepsInv, CatchainStartedKeepsInv, ProcessBlocksKeepsInv, FinishedKeepsInv,
     BroadcastKeepsInv, AwakeKeepsInv, RestartKeepsInv DEF Next

\* The processor is well-formed in every behaviour, and everything it keeps
\* for a round is of that round.
THEOREM ProcessorInvariance == Spec => []Inv
<1>1. Init => Inv
  BY InitHolds
<1>2. Inv /\ [Next]_vars => Inv'
  BY NextKeepsInv
<1> QED
  BY <1>1, <1>2, PTL DEF Spec

\* AnswersAreCurrent: an answer of the collator, the validator or another
\* node that arrives after new_round leaves nothing in the round it finds.
THEOREM LateAnswersLeaveNoTrace == Spec => []AnswersAreCurrent
<1>1. Inv => AnswersAreCurrent
  BY DEF Inv, ProcessorOK, Good, JudgedOK, Judged, GeneratedOK, AnswersAreCurrent
<1> QED
  BY <1>1, ProcessorInvariance, PTL

\* NeverPanics: no assertion of the session processor fails, whatever answers
\* come late and however often the node restarts.
THEOREM AssertionsOfProcessorHold == Spec => []NeverPanics
<1>1. Inv => NeverPanics
  BY DEF Inv, ProcessorOK, Good, PanicOK, NeverPanics
<1> QED
  BY <1>1, ProcessorInvariance, PTL

=============================================================================
