------------------------- MODULE MCCatchainReceiver -------------------------
(***************************************************************************)
(* Small sets of blocks for the catchain receiver.  Validator 0 is the     *)
(* node itself, validator 1 may fork, validator 2 follows the protocol.    *)
(***************************************************************************)
EXTENDS CatchainReceiver

Custom(tag) == <<tag, {}>>

Block(src, height, payload, prev, deps) ==
  [id |-> <<src, height, payload>>, prev |-> prev, deps |-> deps]

a1 == Block(1, 1, Custom("x"), Root, <<>>)
a2 == Block(1, 2, Custom("x"), a1.id, <<>>)
c1 == Block(2, 1, Custom("x"), Root, <<a1.id>>)
c2 == Block(2, 2, Custom("x"), c1.id, <<a2.id, <<0, 1, Custom("p")>>>>)

\* Validator 1 signs a second block of height 2; validator 2 has seen only
\* that one, and then blames validator 1 for the two.
a2fork == Block(1, 2, Custom("y"), a1.id, <<>>)
c1fork == Block(2, 1, Custom("x"), Root, <<a2fork.id>>)
c2proof == Block(2, 2, ForkProof(1), c1fork.id, <<>>)

Honest == {a1, a2, c1, c2}
ForkSeen == {a1, a2, a2fork, c1fork}
Proved == ForkSeen \cup {c2proof}
Payloads == {Custom("p")}
TwoPayloads == {Custom("p"), Custom("q")}
=============================================================================
