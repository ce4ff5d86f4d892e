------------------------------ MODULE OwnChain ------------------------------
(***************************************************************************)
(* What a catchain receiver promises about the blocks of its own           *)
(* validator, abstracted from CatchainReceiver: a block is signed on the   *)
(* last one, stored, made the root of the database, and only then shown to *)
(* the others; after a crash the root is the last block.  The promise is   *)
(* that no two blocks of one height are ever shown, because the others     *)
(* would blame a validator for that.                                       *)
(***************************************************************************)
EXTENDS Integers

CONSTANTS
  Body,          \* what a block can hold
  Genesis        \* what the root of the session holds

VARIABLES
  db,            \* the own blocks in the database
  root,          \* the block the database names as the last one
  last,          \* the block the next one is built on
  flight,        \* the block being written, and how far it is
  sent,          \* the blocks the others can have
  up             \* the process runs

vars == <<db, root, last, flight, sent, up>>

Block == [height : Nat, body : Body \cup {Genesis}]
Origin == [height |-> 0, body |-> Genesis]
NoFlight == [stage |-> "none", block |-> Origin]

SignedOn(block) ==
  [stage : {"signed"}, block : [height : {block.height + 1}, body : Body]]

Init ==
  /\ db = {}
  /\ root = Origin
  /\ last = Origin
  /\ flight = NoFlight
  /\ sent = {}
  /\ up = TRUE

Sign ==
  /\ up /\ flight.stage = "none"
  /\ flight' \in SignedOn(last)
  /\ UNCHANGED <<db, root, last, sent, up>>

\* A block that a crash kept from becoming the root may be overwritten.
Store ==
  /\ up /\ flight.stage = "signed"
  /\ flight' = [flight EXCEPT !.stage = "stored"]
  /\ \E old \in SUBSET {b \in db : b.height = flight.block.height} :
       db' = (db \ old) \cup {flight.block}
  /\ UNCHANGED <<root, last, sent, up>>

WriteRoot ==
  /\ up /\ flight.stage = "stored"
  /\ flight' = [flight EXCEPT !.stage = "rooted"]
  /\ root' = flight.block
  /\ UNCHANGED <<db, last, sent, up>>

\* The block is shown to the others; the next one that waits is signed at once.
Finish ==
  /\ up /\ flight.stage = "rooted"
  /\ last' = flight.block
  /\ sent' = sent \cup {flight.block}
  /\ flight' = NoFlight \/ flight' \in SignedOn(last')
  /\ UNCHANGED <<db, root, up>>

Crash ==
  /\ up
  /\ up' = FALSE
  /\ last' = Origin
  /\ flight' = NoFlight
  /\ UNCHANGED <<db, root, sent>>

\* The chain is read from the root on, and all of it can be asked for.
Restart ==
  /\ ~up
  /\ up' = TRUE
  /\ last' = root
  /\ sent' = sent \cup ({root} \ {Origin})
  /\ UNCHANGED <<db, root, flight>>

Next == Sign \/ Store \/ WriteRoot \/ Finish \/ Crash \/ Restart

Spec == Init /\ [][Next]_vars

-----------------------------------------------------------------------------
(* Properties                                                              *)

\* The types of the state.
TypeOK ==
  /\ db \subseteq Block
  /\ root \in Block
  /\ last \in Block
  /\ flight \in [stage : {"none", "signed", "stored", "rooted"}, block : Block]
  /\ sent \subseteq Block
  /\ up \in BOOLEAN

\* The others never see two different blocks of one height.
NoSelfFork == \A b, c \in sent : b.height = c.height => b = c

\* A block that the others can have is in the database.
SentIsDurable == sent \subseteq db

\* No block shown is above the root of the database, and the one at its
\* height is the root.
SentBelowRoot ==
  \A b \in sent : b.height <= root.height /\ (b.height = root.height => b = root)

\* A running node builds above everything it has shown.
SentBelowLast == up => \A b \in sent : b.height <= last.height

\* The block being written is one above the last, which is the root until the
\* block itself is.
FlightIsNext ==
  /\ flight.stage # "none" => up /\ flight.block.height = last.height + 1
  /\ up /\ flight.stage # "rooted" => root = last
  /\ flight.stage = "rooted" => flight.block = root
  /\ flight.stage \in {"stored", "rooted"} => flight.block \in db

RootIsDurable == root # Origin => root \in db

\* The inductive invariant: the promise and what it rests on.
IInv ==
  /\ TypeOK
  /\ NoSelfFork
  /\ SentIsDurable
  /\ SentBelowRoot
  /\ SentBelowLast
  /\ FlightIsNext
  /\ RootIsDurable
=============================================================================
