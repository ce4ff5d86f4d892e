----------------------- MODULE SessionVoting_proofs -----------------------
(***************************************************************************)
(* Proof that the voting of a round decides at most one block, for any set *)
(* of nodes, candidates and attempts, and any quorums that intersect in an *)
(* honest node.  StepFacts says what one step may do to an honest node;    *)
(* each part of IInv is then preserved because of these facts alone.       *)
(*                                                                         *)
(* The last part shows that the quorums of SessionDescription, sets of the *)
(* cutoff weight, intersect that way when less than a third of the weight  *)
(* is faulty.                                                              *)
(***************************************************************************)
EXTENDS SessionVoting, SessionDescription, FiniteSetTheorems, WellFoundedInduction, TLAPS

\* What a step does to the ballots of one honest node.
HonestStep(n) ==
    /\ clock'[n] >= clock[n]
    /\ \A a \in Attempt, c \in Candidate :
          <<n, a, c>> \in votes' /\ <<n, a, c>> \notin votes =>
              /\ clock'[n] = a
              /\ LockAllows(n, a, c)
              /\ \A d \in Candidate : <<n, a, d>> \in votes' => d = c
    /\ \A a \in Attempt :
          <<n, a>> \in precommits' /\ <<n, a>> \notin precommits =>
              /\ clock'[n] = a
              /\ \E c \in Candidate : Voted(a, c)'

Facts ==
    /\ votes \subseteq votes'
    /\ precommits \subseteq precommits'
    /\ \A n \in Honest : HonestStep(n)

-----------------------------------------------------------------------------

\* Type correctness of the initial state and of a step.
LEMMA InitType == Init => TypeOK
  BY DEF Init, TypeOK

LEMMA NextType == TypeOK /\ [Next]_vars => TypeOK'
<1> SUFFICES ASSUME TypeOK, [Next]_vars PROVE TypeOK'
  OBVIOUS
<1>1. ASSUME NEW n \in Honest, NEW a \in Attempt, Ballot(n, a) PROVE TypeOK'
  BY <1>1 DEF Ballot, TypeOK, Honest
<1>2. ASSUME NEW n \in Faulty, FaultyBallot(n) PROVE TypeOK'
  BY <1>2, VotingAssumption DEF FaultyBallot, TypeOK
<1>3. CASE UNCHANGED vars
  BY <1>3 DEF vars, TypeOK
<1> QED
  BY <1>1, <1>2, <1>3 DEF Next

\* Clocks and attempts are numbers.
LEMMA Numbers ==
    /\ \A a \in Attempt : a \in Nat
    /\ TypeOK => \A n \in Honest : n \in Node /\ clock[n] \in Nat
    /\ TypeOK' => \A n \in Honest : n \in Node /\ clock'[n] \in Nat
<1>1. Attempt \subseteq Nat
  BY VotingAssumption
<1>2. ASSUME NEW f \in [Node -> Attempt \cup {0}], NEW n \in Node PROVE f[n] \in Nat
  <2>1. f[n] \in Attempt \/ f[n] = 0
    OBVIOUS
  <2>2. CASE f[n] \in Attempt
    BY <1>1, <2>2
  <2>3. CASE f[n] = 0
    BY <2>3
  <2> QED
    BY <2>1, <2>2, <2>3
<1>3. TypeOK => clock \in [Node -> Attempt \cup {0}]
  BY DEF TypeOK
<1>4. TypeOK' => clock' \in [Node -> Attempt \cup {0}]
  BY DEF TypeOK
<1>5. \A n \in Honest : n \in Node
  BY DEF Honest
<1> QED
  BY <1>1, <1>2, <1>3, <1>4, <1>5

\* A vote and a precommit in one block of an honest node, or a step of
\* others, is all that a step does to it.
LEMMA StepFacts == TypeOK /\ [Next]_vars => Facts
<1> SUFFICES ASSUME TypeOK, [Next]_vars PROVE Facts
  OBVIOUS
<1> USE VotingAssumption
<1>1. ASSUME NEW m \in Honest, NEW x \in Attempt, Ballot(m, x) PROVE Facts
  <2>1. votes \subseteq votes' /\ precommits \subseteq precommits'
    BY <1>1 DEF Ballot
  <2>2. ASSUME NEW n \in Honest PROVE HonestStep(n)
    <3>1. clock'[n] >= clock[n]
      <4>1. clock[n] \in Nat /\ x \in Nat /\ n \in Node /\ m \in Node
        BY Numbers
      <4>2. clock \in [Node -> Attempt \cup {0}] /\ clock' = [clock EXCEPT ![m] = x] /\ x >= clock[m]
        BY <1>1 DEF Ballot, TypeOK
      <4>3. clock'[n] = IF n = m THEN x ELSE clock[n]
        BY <4>1, <4>2
      <4> QED
        BY <4>1, <4>2, <4>3
    <3>2. ASSUME NEW a \in Attempt, NEW c \in Candidate,
                 <<n, a, c>> \in votes', <<n, a, c>> \notin votes
          PROVE  /\ clock'[n] = a
                 /\ LockAllows(n, a, c)
                 /\ \A d \in Candidate : <<n, a, d>> \in votes' => d = c
      <4>1. PICK e \in Candidate : /\ \A d \in Candidate : <<m, x, d>> \notin votes
                                   /\ LockAllows(m, x, e)
                                   /\ votes' = votes \cup {<<m, x, e>>}
        BY <1>1, <3>2 DEF Ballot
      <4>2. n = m /\ a = x /\ c = e
        BY <3>2, <4>1
      <4> QED
        BY <1>1, <4>1, <4>2 DEF Ballot, TypeOK, Honest
    <3>3. ASSUME NEW a \in Attempt, <<n, a>> \in precommits', <<n, a>> \notin precommits
          PROVE  clock'[n] = a /\ \E c \in Candidate : Voted(a, c)'
      <4>1. (\E c \in Candidate : VotedIn(votes', x, c)) /\ precommits' = precommits \cup {<<m, x>>}
        BY <1>1, <3>3 DEF Ballot
      <4>2. n = m /\ a = x
        BY <3>3, <4>1
      <4> QED
        BY <1>1, <4>1, <4>2 DEF Ballot, TypeOK, Honest, Voted
    <3> QED
      BY <3>1, <3>2, <3>3 DEF HonestStep
  <2> QED
    BY <2>1, <2>2 DEF Facts
<1>2. ASSUME NEW m \in Faulty, FaultyBallot(m) PROVE Facts
  <2>1. votes \subseteq votes' /\ precommits \subseteq precommits'
    BY <1>2 DEF FaultyBallot
  <2>2. ASSUME NEW n \in Honest PROVE HonestStep(n)
    <3>1. n # m /\ n \in Node
      BY DEF Honest
    <3>2. clock'[n] = clock[n] /\ clock[n] \in Nat
      <4>1. clock \in [Node -> Attempt \cup {0}] /\ \E a \in Attempt : clock' = [clock EXCEPT ![m] = a]
        BY <1>2 DEF FaultyBallot, TypeOK
      <4> QED
        BY <3>1, <4>1, Numbers
    <3>3. \A a \in Attempt, c \in Candidate : <<n, a, c>> \in votes' => <<n, a, c>> \in votes
      BY <1>2, <3>1 DEF FaultyBallot
    <3>4. \A a \in Attempt : <<n, a>> \in precommits' => <<n, a>> \in precommits
      BY <1>2, <3>1 DEF FaultyBallot
    <3> QED
      BY <3>2, <3>3, <3>4 DEF HonestStep
  <2> QED
    BY <2>1, <2>2 DEF Facts
<1>3. CASE UNCHANGED vars
  <2>1. \A n \in Honest : clock'[n] >= clock[n]
    BY <1>3, Numbers DEF vars
  <2> QED
    BY <1>3, <2>1 DEF vars, Facts, HonestStep
<1> QED
  BY <1>1, <1>2, <1>3 DEF Next

-----------------------------------------------------------------------------

\* Two voted blocks of one attempt are the same: two quorums share an honest
\* node, and it voted once.
LEMMA VotedUnique ==
    ASSUME NEW vs, NEW a \in Attempt, NEW c \in Candidate, NEW d \in Candidate,
           \A n \in Honest : <<n, a, c>> \in vs /\ <<n, a, d>> \in vs => c = d,
           VotedIn(vs, a, c), VotedIn(vs, a, d)
    PROVE  c = d
<1>1. PICK Q1 \in Quorum : \A n \in Q1 : <<n, a, c>> \in vs
  BY DEF VotedIn
<1>2. PICK Q2 \in Quorum : \A n \in Q2 : <<n, a, d>> \in vs
  BY DEF VotedIn
<1>3. PICK n \in Q1 \cap Q2 : n \notin Faulty
  BY VotingAssumption
<1>4. n \in Honest
  BY <1>3, VotingAssumption DEF Honest
<1> QED
  BY <1>1, <1>2, <1>3, <1>4

\* Voted blocks stay voted, superseded locks superseded.
LEMMA VotedStays ==
    ASSUME Facts
    PROVE  /\ \A a \in Attempt, c \in Candidate : Voted(a, c) => Voted(a, c)'
           /\ \A p \in Attempt, b \in Candidate : Superseded(p, b) => Superseded(p, b)'
<1>1. \A a \in Attempt, c \in Candidate : Voted(a, c) => Voted(a, c)'
  BY DEF Facts, Voted, VotedIn
<1> QED
  BY <1>1 DEF Superseded

LEMMA OneVoteStep == OneVote /\ Facts => OneVote'
  BY DEF OneVote, Facts, HonestStep

LEMMA ClockedStep == TypeOK /\ TypeOK' /\ Clocked /\ Facts => Clocked'
<1> SUFFICES ASSUME TypeOK, TypeOK', Clocked, Facts, NEW n \in Honest, NEW a \in Attempt
             PROVE  /\ <<n, a>> \in precommits' => a <= clock'[n]
                    /\ \A c \in Candidate : <<n, a, c>> \in votes' => a <= clock'[n]
  BY DEF Clocked
<1>0. HonestStep(n)
  BY DEF Facts
<1>1. clock[n] \in Nat /\ clock'[n] \in Nat /\ a \in Nat /\ clock'[n] >= clock[n]
  BY <1>0, Numbers DEF HonestStep
<1>2. ASSUME <<n, a>> \in precommits' PROVE a <= clock'[n]
  BY <1>0, <1>1, <1>2 DEF Clocked, HonestStep
<1>3. ASSUME NEW c \in Candidate, <<n, a, c>> \in votes' PROVE a <= clock'[n]
  <2>1. CASE <<n, a, c>> \in votes
    <3>1. a <= clock[n]
      BY <2>1 DEF Clocked
    <3> QED
      BY <1>1, <3>1
  <2>2. CASE <<n, a, c>> \notin votes
    <3>1. clock'[n] = a
      BY <1>0, <1>3, <2>2 DEF HonestStep
    <3> QED
      BY <1>1, <3>1
  <2> QED
    BY <2>1, <2>2
<1> QED
  BY <1>2, <1>3

LEMMA PrecommitsVotedStep == PrecommitsVoted /\ Facts => PrecommitsVoted'
<1> SUFFICES ASSUME PrecommitsVoted, Facts, NEW n \in Honest, NEW a \in Attempt,
                    <<n, a>> \in precommits'
             PROVE  \E c \in Candidate : Voted(a, c)'
  BY DEF PrecommitsVoted
<1>1. CASE <<n, a>> \in precommits
  BY <1>1, VotedStays DEF PrecommitsVoted
<1>2. CASE <<n, a>> \notin precommits
  BY <1>2 DEF Facts, HonestStep
<1> QED
  BY <1>1, <1>2

\* The heart of the argument: an honest node that precommitted b and, after
\* the step, has voted for another block in a later attempt, had seen before
\* the step a later voted block.
LEMMA LockHeld ==
    ASSUME IInv, Facts, OneVote', Clocked', TypeOK',
           NEW n \in Honest, NEW p \in Attempt, NEW a \in Attempt,
           NEW b \in Candidate, NEW c \in Candidate,
           <<n, p>> \in precommits', Voted(p, b)', <<n, a, c>> \in votes', p < a, c # b
    PROVE  Superseded(p, b)
<1>1. a <= clock'[n] /\ clock'[n] \in Nat /\ a \in Nat /\ p \in Nat
  BY Numbers DEF Clocked
<1>2. <<n, p>> \in precommits
  BY <1>1 DEF Facts, HonestStep
<1>3. Voted(p, b)
  <2>1. PICK e \in Candidate : Voted(p, e)
    BY <1>2 DEF IInv, PrecommitsVoted
  <2>2. Voted(p, e)'
    BY <2>1, VotedStays
  <2>3. e = b
    BY <2>2, VotedUnique DEF OneVote, Voted
  <2> QED
    BY <2>1, <2>3
<1>4. CASE <<n, a, c>> \in votes
  BY <1>2, <1>3, <1>4 DEF IInv, LocksRespected
<1>5. CASE <<n, a, c>> \notin votes
  <2>1. LockAllows(n, a, c)
    BY <1>5 DEF Facts, HonestStep
  <2> QED
    BY <2>1, <1>2, <1>3 DEF LockAllows
<1> QED
  BY <1>4, <1>5

\* A blocked decision stays blocked: an honest node that left attempt p does
\* not come back to precommit in it.
LEMMA BlockedStays ==
    ASSUME TypeOK, TypeOK', Facts, NEW p \in Attempt, NEW b \in Candidate, Blocked(p, b)
    PROVE  Blocked(p, b)'
<1>1. PICK Q \in Quorum : \A n \in Q \ Faulty :
         /\ clock[n] > p
         /\ <<n, p>> \in precommits => \E c \in Candidate : c # b /\ Voted(p, c)
  BY DEF Blocked
<1>2. ASSUME NEW n \in Q \ Faulty
      PROVE  /\ clock'[n] > p
             /\ <<n, p>> \in precommits' => \E c \in Candidate : c # b /\ Voted(p, c)'
  <2>1. n \in Honest
    BY VotingAssumption DEF Honest
  <2>2. clock[n] \in Nat /\ clock'[n] \in Nat /\ p \in Nat /\ clock'[n] >= clock[n]
    <3>1. HonestStep(n)
      BY <2>1 DEF Facts
    <3> QED
      BY <2>1, <3>1, Numbers DEF HonestStep
  <2>3. clock'[n] > p
    <3>1. clock[n] > p
      BY <1>1
    <3> QED
      BY <2>2, <3>1
  <2>4. <<n, p>> \in precommits' => <<n, p>> \in precommits
    BY <2>1, <2>2, <2>3 DEF Facts, HonestStep
  <2> QED
    BY <1>1, <2>3, <2>4, VotedStays
<1> QED
  BY <1>2 DEF Blocked

\* A new voted block: either its voters have not precommitted b in p, and
\* block it, or one of them was locked and had seen a later voted block,
\* which blocks b already.
LEMMA VotesSafeStep ==
    ASSUME IInv, Facts, OneVote', Clocked', TypeOK', PrecommitsVoted'
    PROVE  VotesSafe'
<1> SUFFICES ASSUME NEW p \in Attempt, NEW a \in Attempt, NEW b \in Candidate, NEW c \in Candidate,
                    p < a, c # b, Voted(a, c)'
             PROVE  Blocked(p, b)'
  BY DEF VotesSafe
<1>1. PICK Q \in Quorum : \A n \in Q : <<n, a, c>> \in votes'
  BY DEF Voted, VotedIn
<1>2. ASSUME NEW n \in Q \ Faulty PROVE n \in Honest /\ clock'[n] > p
  <2>1. n \in Honest
    BY VotingAssumption DEF Honest
  <2>2. a <= clock'[n]
    BY <1>1, <2>1 DEF Clocked
  <2> QED
    BY <2>1, <2>2, Numbers
<1>3. CASE \A n \in Q \ Faulty :
             <<n, p>> \in precommits' => \E e \in Candidate : e # b /\ Voted(p, e)'
  BY <1>2, <1>3 DEF Blocked
<1>4. ASSUME NEW n \in Q \ Faulty, <<n, p>> \in precommits',
             \A e \in Candidate : Voted(p, e)' => e = b
      PROVE  Blocked(p, b)'
  <2>1. Voted(p, b)'
    BY <1>2, <1>4 DEF PrecommitsVoted
  <2>2. Superseded(p, b)
    BY <1>1, <1>2, <1>4, <2>1, LockHeld
  <2>3. Blocked(p, b)
    BY <2>2, VotingAssumption DEF Superseded, IInv, VotesSafe
  <2> QED
    BY <2>3, BlockedStays DEF IInv
<1> QED
  BY <1>3, <1>4

\* IInv holds initially, and every step preserves it.
LEMMA InitIInv == Init => IInv
<1> SUFFICES ASSUME Init PROVE IInv
  OBVIOUS
<1>1. \A Q \in Quorum : Q # {}
  BY VotingAssumption
<1>2. \A a \in Attempt, c \in Candidate : ~Voted(a, c)
  BY <1>1 DEF Init, Voted, VotedIn
<1> QED
  BY <1>2, InitType
  DEF Init, IInv, OneVote, Clocked, PrecommitsVoted, LocksRespected, VotesSafe

LEMMA NextIInv == IInv /\ [Next]_vars => IInv'
<1> SUFFICES ASSUME IInv, [Next]_vars PROVE IInv'
  OBVIOUS
<1>1. TypeOK' /\ Facts
  BY NextType, StepFacts DEF IInv
<1>2. OneVote'
  BY <1>1, OneVoteStep DEF IInv
<1>3. Clocked'
  BY <1>1, ClockedStep DEF IInv
<1>4. PrecommitsVoted'
  BY <1>1, PrecommitsVotedStep DEF IInv
<1>5. LocksRespected'
  <2> SUFFICES ASSUME NEW n \in Honest, NEW p \in Attempt, NEW a \in Attempt,
                      NEW b \in Candidate, NEW c \in Candidate,
                      <<n, p>> \in precommits', Voted(p, b)', <<n, a, c>> \in votes', p < a, c # b
               PROVE  Superseded(p, b)'
    BY DEF LocksRespected
  <2>1. Superseded(p, b)
    BY <1>1, <1>2, <1>3, LockHeld
  <2> QED
    BY <1>1, <2>1, VotedStays
<1>6. VotesSafe'
  BY <1>1, <1>2, <1>3, <1>4, VotesSafeStep
<1> QED
  BY <1>1, <1>2, <1>3, <1>4, <1>5, <1>6 DEF IInv

\* The inductive invariant forbids two decisions.
LEMMA IInvAgreement == IInv => Agreement
<1> SUFFICES ASSUME IInv PROVE Agreement
  OBVIOUS
<1>1. ASSUME NEW a \in Attempt, NEW b \in Attempt, NEW c \in Candidate, NEW d \in Candidate,
             Precommitted(a, c), Precommitted(b, d), a < b, c # d
      PROVE  FALSE
  <2>1. Blocked(a, c)
    BY <1>1 DEF Precommitted, IInv, VotesSafe
  <2>2. PICK Q1 \in Quorum : \A n \in Q1 \ Faulty :
           <<n, a>> \in precommits => \E e \in Candidate : e # c /\ Voted(a, e)
    BY <2>1 DEF Blocked
  <2>3. PICK Q2 \in Quorum : \A n \in Q2 : <<n, a>> \in precommits
    BY <1>1 DEF Precommitted
  <2>4. PICK n \in Q1 \cap Q2 : n \notin Faulty
    BY VotingAssumption
  <2>5. PICK e \in Candidate : e # c /\ Voted(a, e)
    BY <2>2, <2>3, <2>4
  <2> QED
    BY <1>1, <2>5, VotedUnique DEF Precommitted, IInv, OneVote, Voted
<1>2. ASSUME NEW a \in Attempt, NEW c \in Candidate, NEW d \in Candidate,
             Precommitted(a, c), Precommitted(a, d)
      PROVE  c = d
  BY <1>2, VotedUnique DEF Precommitted, IInv, OneVote, Voted
<1>3. \A a, b \in Attempt : a < b \/ b < a \/ a = b
  BY VotingAssumption
<1> QED
  BY <1>1, <1>2, <1>3 DEF Agreement

-----------------------------------------------------------------------------

\* The state of the voting is always well typed.
THEOREM TypeCorrect == Spec => []TypeOK
  BY InitType, NextType, PTL DEF Spec

\* The invariant that TLC checks on the instances of MCSessionVoting holds
\* in every one.
THEOREM Invariance == Spec => []IInv
  BY InitIInv, NextIInv, PTL DEF Spec

\* However many attempts a round takes and whatever faulty nodes do, it
\* decides at most one block.
THEOREM RoundAgreement == Spec => []Agreement
  BY Invariance, IInvAgreement, PTL

\* A decision is never withdrawn nor replaced by a later step.
Final ==
    \A a \in Attempt, c \in Candidate : Precommitted(a, c) =>
        Precommitted(a, c)' /\ \A b \in Attempt, d \in Candidate : Precommitted(b, d)' => d = c

\* Decisions of the round are final.
THEOREM DecisionsAreFinal == Spec => [][Final]_vars
<1>1. IInv /\ IInv' /\ [Next]_vars => Final
  <2> SUFFICES ASSUME IInv, IInv', [Next]_vars,
                      NEW a \in Attempt, NEW c \in Candidate, Precommitted(a, c)
               PROVE  /\ Precommitted(a, c)'
                      /\ \A b \in Attempt, d \in Candidate : Precommitted(b, d)' => d = c
    BY DEF Final
  <2>1. Facts
    BY StepFacts DEF IInv
  <2>2. Precommitted(a, c)'
    BY <2>1, VotedStays DEF Facts, Precommitted
  <2>3. Agreement'
    BY IInvAgreement, PTL
  <2> QED
    BY <2>2, <2>3 DEF Agreement
<1> QED
  BY <1>1, Invariance, PTL DEF Spec

-----------------------------------------------------------------------------
(* The quorums of the code: sets of nodes of the cutoff weight             *)

\* What holds for 0 and goes on from each number to the next holds up to n.
LEMMA UpTo ==
    ASSUME NEW n \in Nat, NEW G, 0 \in G, \A k \in 1 .. n : k - 1 \in G => k \in G
    PROVE  \A k \in 0 .. n : k \in G
<1> DEFINE late == {k \in 0 .. n : k \notin G}
<1> SUFFICES ASSUME late # {} PROVE FALSE OBVIOUS
<1>1. late \subseteq Nat OBVIOUS
<1>2. PICK z \in late : \A v \in late : ~ (<<v, z>> \in OpToRel(<, Nat))
  BY <1>1, WFMin, NatLessThanWellFounded
<1>3. z \in 1 .. n OBVIOUS
<1>4. z - 1 \in G
  <2>1. SUFFICES ASSUME z - 1 \notin G PROVE FALSE OBVIOUS
  <2>2. z - 1 \in late /\ z - 1 \in Nat /\ z \in Nat BY <1>3, <2>1
  <2>3. <<z - 1, z>> \in OpToRel(<, Nat) <=> z - 1 < z BY <2>2 DEF OpToRel
  <2>4. z - 1 < z BY <2>2
  <2> QED BY <1>2, <2>2, <2>3, <2>4, Zenon
<1> QED BY <1>3, <1>4

\* What holds for a set whenever it holds for the set without any one of its
\* elements holds for all subsets of a finite set.
LEMMA SubsetInduction ==
    ASSUME NEW S, IsFiniteSet(S), NEW G,
           \A s \in SUBSET S : (\A x \in s : s \ {x} \in G) => s \in G
    PROVE  \A s \in SUBSET S : s \in G
<1> DEFINE wrong == {s \in SUBSET S : s \notin G}
           sizes == {Cardinality(s) : s \in wrong}
<1>1. \A s \in SUBSET S : IsFiniteSet(s) /\ Cardinality(s) \in Nat BY FS_Subset, FS_CardinalityType
<1>2. SUFFICES ASSUME wrong # {} PROVE FALSE OBVIOUS
<1>3. sizes \in SUBSET Nat /\ sizes # {} BY <1>1, <1>2
<1>4. PICK n \in sizes : \A v \in sizes : ~ (<<v, n>> \in OpToRel(<, Nat))
  BY <1>3, WFMin, NatLessThanWellFounded
<1>5. PICK s \in wrong : n = Cardinality(s) OBVIOUS
<1>6. ASSUME NEW x \in s PROVE s \ {x} \in G
  <2>1. SUFFICES ASSUME s \ {x} \notin G PROVE FALSE OBVIOUS
  <2> DEFINE m == Cardinality(s \ {x})
  <2>2. m \in sizes BY <2>1
  <2>3. m = n - 1 /\ m \in Nat /\ n \in Nat BY <1>1, <1>5, FS_RemoveElement
  <2> HIDE DEF m
  <2>4. <<m, n>> \in OpToRel(<, Nat) <=> m < n BY <2>3 DEF OpToRel
  <2>5. m < n BY <2>3
  <2> QED BY <1>4, <2>2, <2>4, <2>5, Zenon
<1> QED BY <1>6

\* The function that Weight folds with.
First(s) == CHOOSE x \in s : TRUE
IsFold(f, S) ==
    f = [s \in SUBSET S |-> IF s = {} THEN 0 ELSE NodeWeight[First(s)] + f[s \ {First(s)}]]
FoldOf(S) == CHOOSE f : IsFold(f, S)

\* A choice from a set that is not empty is in it.
LEMMA FirstIs ==
    ASSUME NEW s, s # {}
    PROVE  First(s) \in s
BY DEF First

\* The fold is a function with numbers as values that solves its equation.
LEMMA FoldIs ==
    ASSUME NEW S \in SUBSET Nodes
    PROVE  IsFold(FoldOf(S), S) /\ FoldOf(S) \in [SUBSET S -> Nat]
<1> DEFINE P == SUBSET S
           Below(g, n) == \A s \in P : Cardinality(s) <= n =>
                            g[s] = IF s = {} THEN 0 ELSE NodeWeight[First(s)] + g[s \ {First(s)}]
           G == {n \in Nat : \E g \in [P -> Nat] : Below(g, n)}
           size == Cardinality(S)
<1>1. IsFiniteSet(S) /\ \A x \in S : NodeWeight[x] \in Nat
  <2>1. IsFiniteSet(Nodes) BY DescriptionAssumption, FS_Interval DEF Nodes
  <2> QED BY <2>1, FS_Subset, DescriptionAssumption
<1>2. \A s \in P : IsFiniteSet(s) /\ Cardinality(s) \in Nat /\ Cardinality(s) <= size
  BY <1>1, FS_Subset, FS_CardinalityType
<1>3. \A s \in P : s # {} => First(s) \in s /\ First(s) \in S /\ s \ {First(s)} \in P BY FirstIs
<1>4. \A s \in P : s # {} => Cardinality(s \ {First(s)}) = Cardinality(s) - 1
  BY <1>2, <1>3, FS_RemoveElement
<1>5. \A s \in P : Cardinality(s) = 0 <=> s = {} BY <1>2, FS_EmptySet
<1>6. 0 \in G
  <2> DEFINE g == [s \in P |-> 0]
  <2>1. g \in [P -> Nat] /\ Below(g, 0) BY <1>2, <1>5
  <2> HIDE DEF g
  <2> QED BY <2>1
<1>7. ASSUME NEW n \in 1 .. size, n - 1 \in G PROVE n \in G
  <2>1. PICK g \in [P -> Nat] : Below(g, n - 1) BY <1>7
  <2> DEFINE Value(s) == IF s = {} THEN 0 ELSE NodeWeight[First(s)] + g[s \ {First(s)}]
             h == [s \in P |-> IF Cardinality(s) <= n - 1 THEN g[s] ELSE Value(s)]
  <2>2. \A s \in P : Value(s) \in Nat BY <1>1, <1>3
  <2>3. h \in [P -> Nat] BY <2>2
  <2>4. ASSUME NEW s \in P, Cardinality(s) <= n PROVE h[s] = Value(s)
    <3>1. CASE Cardinality(s) <= n - 1 BY <2>1, <3>1
    <3>2. CASE ~(Cardinality(s) <= n - 1) BY <3>2
    <3> QED BY <3>1, <3>2
  <2>5. ASSUME NEW s \in P, Cardinality(s) <= n, s # {} PROVE h[s \ {First(s)}] = g[s \ {First(s)}]
    BY <1>2, <1>3, <1>4, <1>7, <2>5
  <2>6. ASSUME NEW s \in P, Cardinality(s) <= n
        PROVE  h[s] = IF s = {} THEN 0 ELSE NodeWeight[First(s)] + h[s \ {First(s)}]
    <3>1. h[s] = Value(s) BY <2>4, <2>6
    <3>2. s # {} => h[s \ {First(s)}] = g[s \ {First(s)}] BY <2>5, <2>6
    <3> HIDE DEF h
    <3> QED BY <3>1, <3>2
  <2> HIDE DEF h
  <2>7. Below(h, n) BY <2>6
  <2>8. n \in Nat BY <1>7
  <2> HIDE DEF Below
  <2> QED BY <2>3, <2>7, <2>8
<1>8. size \in Nat BY <1>1, FS_CardinalityType
<1>9. size \in G
  <2> HIDE DEF G, size
  <2>1. \A n \in 1 .. size : n - 1 \in G => n \in G BY <1>7
  <2>2. \A n \in 0 .. size : n \in G BY <1>6, <1>8, <2>1, UpTo
  <2> QED BY <1>8, <2>2
<1>10. PICK g \in [P -> Nat] : Below(g, size) BY <1>9
<1>11. IsFold(g, S) BY <1>2, <1>10 DEF IsFold
<1>12. IsFold(FoldOf(S), S) BY <1>11 DEF FoldOf
<1> DEFINE f == FoldOf(S)
<1>13. f \in [SUBSET S -> Nat]
  <2> HIDE DEF f
  <2>1. f = [s \in P |-> IF s = {} THEN 0 ELSE NodeWeight[First(s)] + f[s \ {First(s)}]]
    BY <1>12 DEF IsFold, f
  <2>2. \A s \in P : f[s] = IF s = {} THEN 0 ELSE NodeWeight[First(s)] + f[s \ {First(s)}] BY <2>1
  <2> DEFINE H == {s \in P : f[s] \in Nat}
  <2>3. ASSUME NEW s \in P, \A x \in s : s \ {x} \in H PROVE s \in H
    <3>1. CASE s = {}
      <4>1. f[s] = 0 BY <2>2, <3>1
      <4> QED BY <4>1
    <3>2. CASE s # {}
      <4>1. First(s) \in s /\ First(s) \in S BY <1>3, <3>2
      <4>2. s \ {First(s)} \in H BY <2>3, <4>1
      <4>3. f[s] = NodeWeight[First(s)] + f[s \ {First(s)}] BY <2>2, <3>2
      <4>4. f[s \ {First(s)}] \in Nat BY <4>2
      <4>5. NodeWeight[First(s)] \in Nat BY <1>1, <4>1
      <4>6. f[s] \in Nat BY <4>3, <4>4, <4>5
      <4> QED BY <4>6
    <3> QED BY <3>1, <3>2
  <2>4. \A s \in P : s \in H
    <3> HIDE DEF H
    <3>1. \A s \in SUBSET S : (\A x \in s : s \ {x} \in H) => s \in H BY <2>3
    <3> QED BY <1>1, <3>1, SubsetInduction
  <2>5. DOMAIN f = P BY <2>1
  <2> QED BY <2>1, <2>4
<1> QED BY <1>12, <1>13

\* The equation of the fold at one set, and the range of its values.
LEMMA FoldAt ==
    ASSUME NEW S \in SUBSET Nodes, NEW s \in SUBSET S
    PROVE  /\ FoldOf(S)[s] \in Nat
           /\ s = {} => FoldOf(S)[s] = 0
           /\ s # {} => /\ First(s) \in s
                        /\ NodeWeight[First(s)] \in Nat
                        /\ FoldOf(S)[s] = NodeWeight[First(s)] + FoldOf(S)[s \ {First(s)}]
<1> DEFINE f == FoldOf(S)
<1>1. f = [t \in SUBSET S |-> IF t = {} THEN 0 ELSE NodeWeight[First(t)] + f[t \ {First(t)}]]
  BY FoldIs DEF IsFold
<1>2. f \in [SUBSET S -> Nat] BY FoldIs
<1>3. s # {} => First(s) \in s /\ First(s) \in Nodes BY FirstIs
<1>4. s # {} => NodeWeight[First(s)] \in Nat BY <1>3, DescriptionAssumption
<1> HIDE DEF f
<1>5. f[s] = IF s = {} THEN 0 ELSE NodeWeight[First(s)] + f[s \ {First(s)}] BY <1>1
<1>6. f[s] \in Nat BY <1>2
<1> QED BY <1>3, <1>4, <1>5, <1>6 DEF f

\* The operator of the community modules computes that fold.
LEMMA WeightIsFold ==
    ASSUME NEW S
    PROVE  Weight(S) = FoldOf(S)[S]
BY Zenon DEF Weight, MapThenSumSet, MapThenFoldSet, FoldOf, IsFold, First

\* The nodes are finitely many.
LEMMA NodesAreFinite == IsFiniteSet(Nodes)
BY DescriptionAssumption, FS_Interval DEF Nodes

\* A part weighs the same whatever set the fold was started from.
LEMMA FoldsAgree ==
    ASSUME NEW S \in SUBSET Nodes
    PROVE  Weight(S) = FoldOf(Nodes)[S]
<1> DEFINE f == FoldOf(S)
           g == FoldOf(Nodes)
           G == {s \in SUBSET S : f[s] = g[s]}
<1> HIDE DEF f, g
<1>1. ASSUME NEW s \in SUBSET S, \A x \in s : s \ {x} \in G PROVE s \in G
  <2>1. CASE s = {}
    <3>1. f[s] = 0 /\ g[s] = 0 BY FoldAt, <2>1 DEF f, g
    <3> QED BY <3>1
  <2>2. CASE s # {}
    <3>1. First(s) \in s /\ f[s] = NodeWeight[First(s)] + f[s \ {First(s)}] BY FoldAt, <2>2 DEF f
    <3>2. g[s] = NodeWeight[First(s)] + g[s \ {First(s)}] BY FoldAt, <2>2 DEF g
    <3>3. s \ {First(s)} \in G BY <1>1, <3>1
    <3>4. f[s \ {First(s)}] = g[s \ {First(s)}] BY <3>3
    <3>5. f[s] = g[s] BY <3>1, <3>2, <3>4
    <3> QED BY <3>5
  <2> QED BY <2>1, <2>2
<1>2. IsFiniteSet(S) BY NodesAreFinite, FS_Subset
<1>3. S \in G
  <2> HIDE DEF G
  <2>1. \A s \in SUBSET S : (\A x \in s : s \ {x} \in G) => s \in G BY <1>1
  <2>2. \A s \in SUBSET S : s \in G BY <1>2, <2>1, SubsetInduction
  <2> QED BY <2>2
<1>4. f[S] = g[S] BY <1>3
<1> QED BY <1>4, WeightIsFold DEF f, g

\* Weight of a set, from the weights of its parts.
LEMMA WeightAt ==
    ASSUME NEW s \in SUBSET Nodes
    PROVE  /\ Weight(s) \in Nat
           /\ s = {} => Weight(s) = 0
           /\ s # {} => /\ First(s) \in s
                        /\ NodeWeight[First(s)] \in Nat
                        /\ Weight(s) = NodeWeight[First(s)] + Weight(s \ {First(s)})
<1>1. Weight(s) = FoldOf(Nodes)[s] BY FoldsAgree
<1>2. Weight(s \ {First(s)}) = FoldOf(Nodes)[s \ {First(s)}] BY FoldsAgree
<1> QED BY <1>1, <1>2, FoldAt

\* The order in which the nodes are taken does not matter.
LEMMA WeightWithout ==
    ASSUME NEW S \in SUBSET Nodes, NEW x \in S
    PROVE  /\ NodeWeight[x] \in Nat
           /\ Weight(S) = NodeWeight[x] + Weight(S \ {x})
<1> DEFINE Splits(s) == \A y \in s : Weight(s) = NodeWeight[y] + Weight(s \ {y})
           G == {s \in SUBSET Nodes : Splits(s)}
<1>1. \A y \in Nodes : NodeWeight[y] \in Nat BY DescriptionAssumption
<1>2. ASSUME NEW s \in SUBSET Nodes, \A y \in s : s \ {y} \in G PROVE s \in G
  <2>1. ASSUME NEW y \in s PROVE Weight(s) = NodeWeight[y] + Weight(s \ {y})
    <3> DEFINE c == First(s)
               a == s \ {c}
               b == s \ {y}
               r == s \ {c, y}
    <3>1. c \in s /\ Weight(s) = NodeWeight[c] + Weight(a) BY WeightAt
    <3> HIDE DEF c
    <3>2. CASE y = c BY <3>1, <3>2
    <3>3. CASE y # c
      <4>1. a \in G /\ b \in G BY <1>2, <3>1
      <4>2. y \in a /\ c \in b /\ a \ {y} = r /\ b \ {c} = r BY <3>1, <3>3
      <4>3. Weight(a) = NodeWeight[y] + Weight(a \ {y}) BY <4>1, <4>2
      <4>4. Weight(b) = NodeWeight[c] + Weight(b \ {c}) BY <4>1, <4>2
      <4>5. Weight(r) \in Nat /\ NodeWeight[y] \in Nat /\ NodeWeight[c] \in Nat BY <1>1, <3>1, WeightAt
      <4>6. Weight(a) = NodeWeight[y] + Weight(r) BY <4>2, <4>3
      <4>7. Weight(b) = NodeWeight[c] + Weight(r) BY <4>2, <4>4
      <4> HIDE DEF a, b, r
      <4>8. Weight(s) = NodeWeight[y] + Weight(b) BY <3>1, <4>5, <4>6, <4>7
      <4> QED BY <4>8 DEF b
    <3> QED BY <3>2, <3>3
  <2> QED BY <2>1
<1>3. S \in G
  <2> HIDE DEF G
  <2>1. \A s \in SUBSET Nodes : (\A y \in s : s \ {y} \in G) => s \in G BY <1>2
  <2>2. \A s \in SUBSET Nodes : s \in G BY NodesAreFinite, <2>1, SubsetInduction
  <2> QED BY <2>2
<1>4. Splits(S) BY <1>3
<1> QED BY <1>1, <1>4

\* Disjoint sets add up.
LEMMA WeightAdds ==
    ASSUME NEW A \in SUBSET Nodes, NEW B \in SUBSET Nodes, A \cap B = {}
    PROVE  Weight(A \cup B) = Weight(A) + Weight(B)
<1> DEFINE G == {s \in SUBSET A : Weight(s \cup B) = Weight(s) + Weight(B)}
<1>1. ASSUME NEW s \in SUBSET A, \A x \in s : s \ {x} \in G PROVE s \in G
  <2>1. CASE s = {}
    <3>1. Weight(s) = 0 /\ Weight(B) \in Nat /\ s \cup B = B BY <2>1, WeightAt
    <3>2. Weight(s \cup B) = Weight(B) BY <3>1, Zenon
    <3>3. Weight(s \cup B) = Weight(s) + Weight(B) BY <3>1, <3>2
    <3> QED BY <3>3
  <2>2. CASE s # {}
    <3>1. PICK x \in s : TRUE BY <2>2
    <3> DEFINE r == s \ {x}
    <3>2. r \in G BY <1>1
    <3>3. Weight(r \cup B) = Weight(r) + Weight(B) BY <3>2
    <3>4. (s \cup B) \ {x} = r \cup B OBVIOUS
    <3>5. NodeWeight[x] \in Nat /\ Weight(s) = NodeWeight[x] + Weight(r) BY WeightWithout
    <3>6. Weight(s \cup B) = NodeWeight[x] + Weight((s \cup B) \ {x}) BY WeightWithout
    <3>7. Weight(r) \in Nat /\ Weight(B) \in Nat BY WeightAt
    <3>8. Weight(s \cup B) = NodeWeight[x] + Weight(r \cup B) BY <3>4, <3>6
    <3> HIDE DEF r
    <3>9. Weight(s \cup B) = Weight(s) + Weight(B) BY <3>3, <3>5, <3>7, <3>8
    <3> QED BY <3>9
  <2> QED BY <2>1, <2>2
<1>2. IsFiniteSet(A) BY NodesAreFinite, FS_Subset
<1>3. A \in G
  <2> HIDE DEF G
  <2>1. \A s \in SUBSET A : (\A x \in s : s \ {x} \in G) => s \in G BY <1>1
  <2>2. \A s \in SUBSET A : s \in G BY <1>2, <2>1, SubsetInduction
  <2> QED BY <2>2
<1> QED BY <1>3

\* A part of a set weighs no more than the set.
LEMMA WeightGrows ==
    ASSUME NEW B \in SUBSET Nodes, NEW A \in SUBSET B
    PROVE  Weight(A) <= Weight(B)
<1>1. A \cup (B \ A) = B /\ A \cap (B \ A) = {} OBVIOUS
<1>2. Weight(A \cup (B \ A)) = Weight(A) + Weight(B \ A) BY <1>1, WeightAdds
<1>3. Weight(A) \in Nat /\ Weight(B \ A) \in Nat BY WeightAt
<1>4. Weight(B) = Weight(A) + Weight(B \ A) BY <1>1, <1>2
<1> QED BY <1>3, <1>4

\* More than two thirds twice is more than the whole and a third.
LEMMA CutoffArithmetic ==
    ASSUME NEW t \in Nat, NEW f \in Nat, NEW p \in Nat, NEW q \in Nat, NEW both \in Nat, NEW either \in Nat,
           3 * f < t, p >= (t * 2) \div 3 + 1, q >= (t * 2) \div 3 + 1,
           either <= t, both <= f, p + q = either + both
    PROVE  FALSE
<1> DEFINE d == (t * 2) \div 3
<1>1. d \in Nat /\ 3 * d + 2 >= 2 * t OBVIOUS
<1> HIDE DEF d
<1>2. p >= d + 1 /\ q >= d + 1 BY DEF d
<1> QED BY <1>1, <1>2

\* Any two sets of the cutoff weight, two thirds of the total and one more,
\* have a node in common that is not among faulty ones of less than a third
\* of the total weight: what SessionVoting assumes of its quorums holds of the
\* ones that SessionDescription computes.
THEOREM CutoffQuorumsIntersect ==
    ASSUME NEW F \in SUBSET Nodes, 3 * Weight(F) < TotalWeight
    PROVE  \A Q1, Q2 \in Quorums : \E n \in Q1 \cap Q2 : n \notin F
<1> SUFFICES ASSUME NEW Q1 \in Quorums, NEW Q2 \in Quorums, Q1 \cap Q2 \subseteq F PROVE FALSE
  OBVIOUS
<1>1. /\ Q1 \in SUBSET Nodes /\ Weight(Q1) >= (TotalWeight * 2) \div 3 + 1
      /\ Q2 \in SUBSET Nodes /\ Weight(Q2) >= (TotalWeight * 2) \div 3 + 1
  BY DEF Quorums, CutoffWeight
<1> DEFINE both == Q1 \cap Q2
           rest == Q2 \ Q1
<1>2. Q1 \cup rest = Q1 \cup Q2 /\ Q1 \cap rest = {} /\ both \cup rest = Q2 /\ both \cap rest = {}
  OBVIOUS
<1>3. both \in SUBSET Nodes /\ rest \in SUBSET Nodes /\ both \in SUBSET F /\ Q1 \cup Q2 \in SUBSET Nodes
  BY <1>1
<1> HIDE DEF both, rest
<1>4. Weight(Q1 \cup Q2) = Weight(Q1) + Weight(rest)
  <2>1. Weight(Q1 \cup rest) = Weight(Q1) + Weight(rest) BY <1>1, <1>2, <1>3, WeightAdds
  <2> QED BY <1>2, <2>1
<1>5. Weight(Q2) = Weight(both) + Weight(rest)
  <2>1. Weight(both \cup rest) = Weight(both) + Weight(rest) BY <1>2, <1>3, WeightAdds
  <2> QED BY <1>2, <2>1
<1>6. Weight(Q1 \cup Q2) <= TotalWeight BY <1>3, WeightGrows DEF TotalWeight
<1>7. Weight(both) <= Weight(F) BY <1>3, WeightGrows
<1>8. /\ Weight(Q1) \in Nat /\ Weight(Q2) \in Nat /\ Weight(both) \in Nat /\ Weight(rest) \in Nat
      /\ Weight(Q1 \cup Q2) \in Nat /\ Weight(F) \in Nat
  BY <1>1, <1>3, WeightAt
<1>9. TotalWeight \in Nat BY WeightAt DEF TotalWeight
<1>10. Weight(Q1) + Weight(Q2) = Weight(Q1 \cup Q2) + Weight(both) BY <1>4, <1>5, <1>8
<1> QED BY <1>1, <1>6, <1>7, <1>8, <1>9, <1>10, CutoffArithmetic
=============================================================================
