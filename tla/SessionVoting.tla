--------------------------- MODULE SessionVoting ---------------------------
(***************************************************************************)
(* What the voting of one round promises, without views, messages or       *)
(* merges: nodes vote and precommit in numbered attempts.  Each honest     *)
(* node votes once in an attempt, precommits only what a quorum voted for, *)
(* never goes back to an earlier attempt, and after a precommit votes for  *)
(* another block only when a later attempt has another voted block (the    *)
(* lock, last_precommit in round.rs).  Faulty nodes do what they like.     *)
(*                                                                         *)
(* Session implements this specification (property StepsRefine); the proof *)
(* of agreement is in SessionVoting_proofs.                                *)
(***************************************************************************)
EXTENDS Integers, FiniteSets

CONSTANTS Node, Faulty, Candidate, Attempt, Quorum

ASSUME VotingAssumption ==
    /\ Faulty \subseteq Node
    /\ Attempt \subseteq Nat
    /\ Quorum \subseteq SUBSET Node
    /\ \A Q1, Q2 \in Quorum : \E n \in Q1 \cap Q2 : n \notin Faulty

VARIABLES
    votes,       \* <<n, a, c>>: node n voted for candidate c in attempt a
    precommits,  \* <<n, a>>: node n precommitted the voted block of attempt a
    clock        \* the attempt a node is in, 0 before its first one

vars == <<votes, precommits, clock>>

Honest == Node \ Faulty

\* Candidate c is a voted block of attempt a.
VotedIn(vs, a, c) == \E Q \in Quorum : \A n \in Q : <<n, a, c>> \in vs
Voted(a, c) == VotedIn(votes, a, c)

\* Attempt a is precommitted by a quorum, and c is its voted block.
Precommitted(a, c) ==
    /\ Voted(a, c)
    /\ \E Q \in Quorum : \A n \in Q : <<n, a>> \in precommits

Init ==
    /\ votes = {}
    /\ precommits = {}
    /\ clock = [n \in Node |-> 0]

\* A later attempt than p has a voted block other than b.
Superseded(p, b) == \E q \in Attempt, d \in Candidate : q > p /\ d # b /\ Voted(q, d)

\* Mutant of LockAllows: the comparison of attempts is reversed.
MutLockAllows(n, a, c) ==
    \A p \in Attempt, b \in Candidate :
        (p >= a /\ <<n, p>> \in precommits /\ Voted(p, b) /\ b # c) => Superseded(p, b)

\* n is not locked on a block other than c in an attempt before a.
LockAllows(n, a, c) ==
    \A p \in Attempt, b \in Candidate :
        (p < a /\ <<n, p>> \in precommits /\ Voted(p, b) /\ b # c) => Superseded(p, b)

\* One block of an honest node: it may vote, it may precommit, in attempt a.
Ballot(n, a) ==
    /\ a >= clock[n]
    /\ clock' = [clock EXCEPT ![n] = a]
    /\ \/ votes' = votes
       \/ \E c \in Candidate :
             /\ \A d \in Candidate : <<n, a, d>> \notin votes
             /\ LockAllows(n, a, c)
             /\ votes' = votes \cup {<<n, a, c>>}
    /\ \/ precommits' = precommits
       \/ /\ \E c \in Candidate : VotedIn(votes', a, c)
          /\ precommits' = precommits \cup {<<n, a>>}

FaultyBallot(n) ==
    /\ \E a \in Attempt : clock' = [clock EXCEPT ![n] = a]
    /\ \/ votes' = votes
       \/ \E a \in Attempt, c \in Candidate : votes' = votes \cup {<<n, a, c>>}
    /\ \/ precommits' = precommits
       \/ \E a \in Attempt : precommits' = precommits \cup {<<n, a>>}

Next == \/ \E n \in Honest, a \in Attempt : Ballot(n, a)
        \/ \E n \in Faulty : FaultyBallot(n)

Spec == Init /\ [][Next]_vars

-----------------------------------------------------------------------------

TypeOK ==
    /\ votes \subseteq Node \X Attempt \X Candidate
    /\ precommits \subseteq Node \X Attempt
    /\ clock \in [Node -> Attempt \cup {0}]

\* The round decides at most one block, however many attempts it takes.
Agreement ==
    \A a, b \in Attempt, c, d \in Candidate :
        Precommitted(a, c) /\ Precommitted(b, d) => c = d

-----------------------------------------------------------------------------
(* The inductive invariant behind Agreement.                               *)

OneVote ==
    \A n \in Honest, a \in Attempt, c, d \in Candidate :
        <<n, a, c>> \in votes /\ <<n, a, d>> \in votes => c = d

\* An honest node has not acted in attempts to come.
Clocked ==
    \A n \in Honest, a \in Attempt :
        /\ <<n, a>> \in precommits => a <= clock[n]
        /\ \A c \in Candidate : <<n, a, c>> \in votes => a <= clock[n]

PrecommitsVoted ==
    \A n \in Honest, a \in Attempt :
        <<n, a>> \in precommits => \E c \in Candidate : Voted(a, c)

\* An honest node that precommitted b and later voted for another block had
\* seen a later voted block.
LocksRespected ==
    \A n \in Honest, p, a \in Attempt, b, c \in Candidate :
        (<<n, p>> \in precommits /\ Voted(p, b) /\ <<n, a, c>> \in votes /\ p < a /\ c # b)
            => Superseded(p, b)

\* No quorum will ever precommit b in attempt p: the honest members of some
\* quorum have left the attempt without precommitting b in it.
Blocked(p, b) ==
    \E Q \in Quorum : \A n \in Q \ Faulty :
        /\ clock[n] > p
        /\ <<n, p>> \in precommits => \E c \in Candidate : c # b /\ Voted(p, c)

\* A block is voted only when all others are blocked in earlier attempts.
VotesSafe ==
    \A p, a \in Attempt, b, c \in Candidate :
        p < a /\ c # b /\ Voted(a, c) => Blocked(p, b)

\* The inductive invariant; it implies Agreement.
IInv == TypeOK /\ OneVote /\ Clocked /\ PrecommitsVoted /\ LocksRespected /\ VotesSafe
=============================================================================
