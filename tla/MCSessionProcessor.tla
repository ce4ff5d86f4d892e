------------------------- MODULE MCSessionProcessor -------------------------
(* Two rounds: an answer of the first arrives in the second, in which this *)
(* node proposes a block, or another one does.                             *)
EXTENDS SessionProcessor

MCPlans == {<<{0}, {1}>>, <<{1}, {0}>>}
=============================================================================
