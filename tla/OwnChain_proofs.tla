-------------------------- MODULE OwnChain_proofs --------------------------
(***************************************************************************)
(* A validator never shows two blocks of one height, for any number of     *)
(* blocks, of crashes and of things a block can hold.                      *)
(***************************************************************************)
EXTENDS OwnChain, TLAPS

\* Nothing is shown, written or in flight at the start.
LEMMA InitHolds == Init => IInv
BY DEF Init, IInv, TypeOK, NoSelfFork, SentIsDurable, SentBelowRoot, SentBelowLast,
       FlightIsNext, RootIsDurable, Origin, NoFlight, Block

\* Every step of the threads, a crash and a restart preserve the invariant.
LEMMA StepHolds == IInv /\ [Next]_vars => IInv'
<1> SUFFICES ASSUME IInv, [Next]_vars
             PROVE  IInv'
    OBVIOUS
<1> USE DEF IInv, TypeOK
<1>1. CASE Sign
  <2>1. /\ flight'.stage = "signed"
        /\ flight'.block \in Block
        /\ flight'.block.height = last.height + 1
        /\ flight' = [stage |-> "signed", block |-> flight'.block]
        BY <1>1 DEF Sign, SignedOn, Block
  <2>2. UNCHANGED <<db, root, last, sent, up>> /\ up /\ root = last
        BY <1>1 DEF Sign, FlightIsNext
  <2> QED
      BY <2>1, <2>2 DEF NoSelfFork, SentIsDurable, SentBelowRoot, SentBelowLast, FlightIsNext, RootIsDurable, Origin
<1>2. CASE Store
  <2>1. PICK old \in SUBSET {b \in db : b.height = flight.block.height} :
          db' = (db \ old) \cup {flight.block}
        BY <1>2 DEF Store
  <2>2. \A b \in sent : b.height < flight.block.height
        BY <1>2 DEF Store, SentBelowLast, FlightIsNext, Block
  <2>3. SentIsDurable' /\ RootIsDurable'
        BY <1>2, <2>1, <2>2 DEF Store, SentIsDurable, RootIsDurable, FlightIsNext, Block
  <2> QED
      BY <1>2, <2>1, <2>3 DEF Store, NoSelfFork, SentBelowRoot, SentBelowLast, FlightIsNext
<1>3. CASE WriteRoot
  <2>1. \A b \in sent : b.height < flight.block.height
        BY <1>3 DEF WriteRoot, SentBelowLast, FlightIsNext, Block
  <2>2. SentBelowRoot'
        BY <1>3, <2>1 DEF WriteRoot, SentBelowRoot, Block
  <2> QED
      BY <1>3, <2>2 DEF WriteRoot, NoSelfFork, SentIsDurable, SentBelowLast, FlightIsNext, RootIsDurable, Origin
<1>4. CASE Finish
  <2>1. /\ flight.block = root
        /\ root \in db
        /\ root.height = last.height + 1
        /\ UNCHANGED <<db, root, up>> /\ up
        BY <1>4 DEF Finish, FlightIsNext
  <2>2. last' = root /\ sent' = sent \cup {root}
        BY <1>4, <2>1 DEF Finish
  <2>3. NoSelfFork' /\ SentIsDurable' /\ SentBelowRoot'
        BY <2>1, <2>2 DEF NoSelfFork, SentIsDurable, SentBelowRoot, Block
  <2>4. SentBelowLast'
        BY <2>1, <2>2 DEF SentBelowLast, SentBelowRoot, Block
  <2>5. CASE flight' = NoFlight
        BY <2>1, <2>2, <2>3, <2>4, <2>5 DEF FlightIsNext, RootIsDurable, NoFlight, Origin, Block
  <2>6. CASE flight' \in SignedOn(last')
    <3>1. /\ flight'.stage = "signed"
          /\ flight'.block \in Block
          /\ flight'.block.height = last'.height + 1
          /\ flight' = [stage |-> "signed", block |-> flight'.block]
          BY <2>2, <2>6 DEF SignedOn, Block
    <3> QED
        BY <2>1, <2>2, <2>3, <2>4, <3>1 DEF FlightIsNext, RootIsDurable
  <2> QED
      BY <1>4, <2>5, <2>6 DEF Finish
<1>5. CASE Crash
  BY <1>5 DEF Crash, NoSelfFork, SentIsDurable, SentBelowRoot, SentBelowLast, FlightIsNext, RootIsDurable,
              NoFlight, Origin, Block
<1>6. CASE Restart
  <2>1. NoSelfFork' /\ SentIsDurable' /\ SentBelowRoot' /\ SentBelowLast'
        BY <1>6 DEF Restart, NoSelfFork, SentIsDurable, SentBelowRoot, SentBelowLast, RootIsDurable, Block
  <2> QED
      BY <1>6, <2>1 DEF Restart, FlightIsNext, RootIsDurable
<1>7. CASE UNCHANGED vars
  BY <1>7 DEF vars, NoSelfFork, SentIsDurable, SentBelowRoot, SentBelowLast, FlightIsNext, RootIsDurable
<1> QED
    BY <1>1, <1>2, <1>3, <1>4, <1>5, <1>6, <1>7 DEF Next

\* The invariant holds in every state of every behaviour.
THEOREM Invariance == Spec => []IInv
<1> QED
    BY InitHolds, StepHolds, PTL DEF Spec

\* Two blocks of one height are never shown to the other validators: the
\* order block, root, then send in add_block_impl is enough, crashes included.
THEOREM OwnChainNeverForks == Spec => []NoSelfFork
<1>1. IInv => NoSelfFork
      BY DEF IInv
<1> QED
    BY <1>1, Invariance, PTL

\* Whatever the others can have of this validator is in its database.
THEOREM SentBlocksAreDurable == Spec => []SentIsDurable
<1>1. IInv => SentIsDurable
      BY DEF IInv
<1> QED
    BY <1>1, Invariance, PTL
=============================================================================
