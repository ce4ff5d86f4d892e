--------------------------- MODULE MCCatchainSync ---------------------------
(***************************************************************************)
(* One receiver with its threads, its database and restarts                *)
(* (CatchainReceiver), or several receivers that exchange blocks           *)
(* (CatchainSync): a behaviour is of one part, chosen at the start, and    *)
(* leaves the state of the other alone.                                    *)
(***************************************************************************)
EXTENDS MCCatchainReceiver, CatchainSync

VARIABLE part

\* The faulty validator shows each of the others another block of height 1.
b1 == Block(1, 1, Custom("x"), Root, <<>>)
b1fork == Block(1, 1, Custom("y"), Root, <<>>)
OneSideEach == (0 :> {b1}) @@ (2 :> {b1fork})
OneWriter == (0 :> 1) @@ (2 :> 0)

PartInit == part \in {"receiver", "sync"} /\ Init /\ SyncInit

PartNext ==
  \/ part = "receiver" /\ Next /\ UNCHANGED <<syncVars, part>>
  \/ part = "sync" /\ SyncNext /\ UNCHANGED <<vars, part>>

\* Each fairness condition holds of the initial state that the other part keeps.
PartSpec == PartInit /\ [][PartNext]_<<vars, syncVars, part>> /\ Fairness /\ SyncFairness
=============================================================================
