------------------------- MODULE Network_proofs -------------------------
(***************************************************************************)
(* Proofs about the two parts of the node that ask other nodes.            *)
(*                                                                         *)
(* The index of the neighbours stays dense and one to one, for any set of  *)
(* peers, any limit and any number of insertions, replacements and queries,*)
(* as long as the two tasks have not met in the two ways that races        *)
(* records.                                                                *)
(*                                                                         *)
(* A state that is put together from its parts is whole, for any length,   *)
(* any size of a part, any number of tasks and any order in which the      *)
(* parts come, the errors and the retries included.                        *)
(***************************************************************************)
EXTENDS Neighbours, StateDownload, FiniteSetTheorems, WellFoundedInduction, TLAPS

-----------------------------------------------------------------------------
(* The neighbours                                                          *)

Steps == {"place", "overflow", "value", "index", "remove"}
Busy == [step : Steps, peer : Peers, index : Nat, old : Peers]

\* An insertion that has a place and not yet its index, and a replacement that
\* has not yet taken over the index of the old neighbour.
Inserting(w) == writer[w].step \in {"value", "index"} /\ writer[w].old = writer[w].peer
Replacing(w) == writer[w].step \in {"value", "index"} /\ writer[w].old # writer[w].peer

\* The places that are not to be given back.
Beyond(w) == IF writer[w].step = "overflow" THEN 1 ELSE 0
Placed == count - Beyond("update") - Beyond("reload")

Indexed(p) == \E i \in DOMAIN indices : indices[i] = p

NeighboursTypeOK ==
  /\ values \in SUBSET Peers
  /\ DOMAIN indices \in SUBSET Nat /\ indices \in [DOMAIN indices -> Peers]
  /\ count \in Nat /\ Placed \in Nat /\ next \in Nat
  /\ unreliable \in [Peers -> 0 .. FailUnreliability + 1]
  /\ writer \in [Writers -> {Nothing} \cup Busy]
  /\ races \in {0, 1}

\* Only the task that reloads replaces, and what is removed was replaced.
WriterRoles ==
  /\ writer["update"].step # "remove"
  /\ writer["update"] # Nothing => writer["update"].old = writer["update"].peer
  /\ \A w \in Writers :
       /\ writer[w].step \in {"place", "overflow"} => writer[w].old = writer[w].peer
       /\ writer[w].step = "remove" => writer[w].old # writer[w].peer

\* A place is beyond the limit only when all of those within it are taken, and
\* the next ping is at a place within it.
PlacesWithinLimit ==
  /\ Placed \in 0 .. NeighbourLimit
  /\ \A w \in Writers : writer[w].step = "overflow" => Placed = NeighbourLimit
  /\ next = 0 \/ next < Placed

\* Every place has an index or a task that is about to store it, never both.
PlacesAreIndexed ==
  /\ DOMAIN indices \subseteq 0 .. Placed - 1
  /\ \A w \in Writers : Inserting(w) => writer[w].index \in (0 .. Placed - 1) \ DOMAIN indices
  /\ \A i \in 0 .. Placed - 1 : i \in DOMAIN indices \/ \E w \in Writers : Inserting(w) /\ writer[w].index = i
  /\ \A v, w \in Writers : v # w /\ Inserting(v) /\ Inserting(w) => writer[v].index # writer[w].index

\* Every neighbour has one index, or a task that is about to store it or to
\* remove the neighbour.
ValuesAreIndexed ==
  /\ \A i, j \in DOMAIN indices : indices[i] = indices[j] => i = j
  /\ \A i \in DOMAIN indices : indices[i] \in values
  /\ \A p \in values :
       \/ Indexed(p)
       \/ \E w \in Writers : writer[w].step = "index" /\ writer[w].peer = p
       \/ \E w \in Writers : writer[w].step = "remove" /\ writer[w].old = p

\* What a task that is in the middle of a change relies on.
WritersAgree ==
  \A w \in Writers :
    /\ writer[w].step = "index" => writer[w].peer \in values /\ ~ Indexed(writer[w].peer)
    /\ Replacing(w) => writer[w].index \in DOMAIN indices /\ indices[writer[w].index] = writer[w].old
    /\ writer[w].step = "remove" => writer[w].old \in values /\ ~ Indexed(writer[w].old)
    /\ \A v \in Writers \ {w} : writer[v].step = "index" =>
         /\ writer[w].step = "index" => writer[v].peer # writer[w].peer
         /\ Replacing(w) \/ writer[w].step = "remove" => writer[v].peer # writer[w].old

IndexInv == WriterRoles /\ PlacesWithinLimit /\ PlacesAreIndexed /\ ValuesAreIndexed /\ WritersAgree

NeighboursInv == NeighboursTypeOK /\ (races = 0 => IndexInv)

-----------------------------------------------------------------------------
(* The extrema of sets of numbers                                          *)

\* A set of natural numbers has a least element, and Min is it.
LEMMA MinIsLeast ==
  ASSUME NEW S \in SUBSET Nat, S # {}
  PROVE  Min(S) \in S /\ \A y \in S : Min(S) <= y
<1>1. PICK x \in S : \A y \in S : ~ (<<y, x>> \in OpToRel(<, Nat))
  BY WFMin, NatLessThanWellFounded
<1>2. ASSUME NEW y \in S PROVE x <= y
  <2>1. <<y, x>> \in OpToRel(<, Nat) <=> y < x
    BY DEF OpToRel
  <2>2. ~ (y < x)
    BY <1>1, <2>1, Zenon
  <2> QED
    BY <2>2
<1> QED
  BY <1>2 DEF Min

\* A bounded one has a greatest, and Max is it.
LEMMA MaxIsGreatest ==
  ASSUME NEW n \in Nat, NEW S \in SUBSET (0 .. n), S # {}
  PROVE  Max(S) \in S /\ \A y \in S : y <= Max(S)
<1> DEFINE T == {n - y : y \in S}
<1>1. T \in SUBSET Nat /\ T # {}
  <2>1. \A y \in S : n - y \in Nat
    OBVIOUS
  <2> QED
    BY <2>1
<1>2. PICK x \in S : Min(T) = n - x
  BY <1>1, MinIsLeast
<1>3. \A y \in S : n - x <= n - y
  BY <1>1, <1>2, MinIsLeast
<1>4. \A y \in S : x >= y
  BY <1>3
<1> QED
  BY <1>4 DEF Max

-----------------------------------------------------------------------------
\* The old neighbour of a replacement has an index.
LEMMA ReplaceableIsIterated ==
  ASSUME NeighboursTypeOK, Iterated # {}
  PROVE  Replaceable \subseteq Iterated
<1> DEFINE S == {unreliable[indices[i]] : i \in Iterated}
<1>1. S \in SUBSET (0 .. FailUnreliability + 1) /\ S # {}
  BY DEF NeighboursTypeOK, Iterated
<1>2. Max(S) \in S
  <2>1. FailUnreliability + 1 \in Nat
    BY UnreliabilityAssumption
  <2> QED
    BY <1>1, <2>1, MaxIsGreatest
<1> DEFINE W == {i \in Iterated : unreliable[indices[i]] = Max(S)}
<1>3. W \in SUBSET Nat /\ W # {}
  BY <1>2 DEF Iterated, NeighboursTypeOK
<1>4. Min(W) \in W
  BY <1>3, MinIsLeast
<1> QED
  BY <1>4 DEF Replaceable

\* No task has started and every place that was taken has its index.
LEMMA NeighboursInitHolds == NeighboursInit => NeighboursInv
<1> SUFFICES ASSUME NeighboursInit PROVE NeighboursInv
  OBVIOUS
<1>1. indices \in [0 .. count - 1 -> Peers] /\ \A i, j \in 0 .. count - 1 : indices[i] = indices[j] => i = j
  BY DEF NeighboursInit, Injection, IsInjective
<1>2. count \in 0 .. NeighbourLimit /\ Placed = count
  BY NeighbourLimitAssumption DEF NeighboursInit, Placed, Beyond, Nothing, Writers
<1>3. \A w \in Writers : writer[w] = Nothing /\ writer[w].step = "idle"
  BY DEF NeighboursInit, Nothing
<1>4. values = {indices[i] : i \in 0 .. count - 1} /\ next = 0
  BY <1>1 DEF NeighboursInit, Range
<1>5. NeighboursTypeOK
  BY <1>1, <1>2, <1>4, NeighbourLimitAssumption, UnreliabilityAssumption DEF NeighboursInit, NeighboursTypeOK
<1>6. WriterRoles /\ PlacesWithinLimit /\ WritersAgree
  BY <1>2, <1>3, <1>4 DEF WriterRoles, PlacesWithinLimit, WritersAgree, Replacing, Writers
<1>7. PlacesAreIndexed /\ ValuesAreIndexed
  BY <1>1, <1>2, <1>3, <1>4 DEF PlacesAreIndexed, ValuesAreIndexed, Inserting, Indexed
<1> QED
  BY <1>5, <1>6, <1>7 DEF NeighboursInv, IndexInv

\* Types are kept by every step.
LEMMA NeighboursStepTypes == NeighboursTypeOK /\ [NeighboursNext]_neighbourVars => NeighboursTypeOK'
<1> SUFFICES ASSUME NeighboursTypeOK, [NeighboursNext]_neighbourVars PROVE NeighboursTypeOK'
  OBVIOUS
<1> USE UnreliabilityAssumption, NeighbourLimitAssumption DEF NeighboursTypeOK
<1>1. ASSUME NEW w \in Writers, NEW p \in Peers, Insert(w, p) PROVE NeighboursTypeOK'
  <2>1. writer' \in [Writers -> {Nothing} \cup Busy]
    BY <1>1 DEF Insert, Busy, Steps
  <2>2. Placed' = Placed
    BY <1>1 DEF Insert, Placed, Beyond, Nothing, Writers
  <2> QED
    BY <1>1, <2>1, <2>2 DEF Insert
<1>2. ASSUME NEW p \in Peers, Replace(p) PROVE NeighboursTypeOK'
  <2>1. PICK i \in Replaceable :
          writer' = [writer EXCEPT !["reload"] = [step |-> "value", peer |-> p, index |-> i, old |-> indices[i]]]
    BY <1>2 DEF Replace
  <2>2. i \in Nat /\ indices[i] \in Peers
    BY <1>2, ReplaceableIsIterated DEF Replace, Iterated
  <2>3. writer' \in [Writers -> {Nothing} \cup Busy]
    BY <2>1, <2>2 DEF Busy, Steps, Writers
  <2>4. Placed' = Placed
    BY <1>2, <2>1 DEF Replace, Placed, Beyond, Nothing, Writers
  <2> QED
    BY <1>2, <2>3, <2>4 DEF Replace
<1>3. ASSUME NEW w \in Writers, TakePlace(w) PROVE NeighboursTypeOK'
  <2>1. writer' \in [Writers -> {Nothing} \cup Busy]
    BY <1>3 DEF TakePlace, Busy, Steps, Nothing
  <2>2. count' \in Nat /\ Placed' \in Nat
    BY <1>3 DEF TakePlace, Placed, Beyond, Nothing, Writers, Busy, Steps
  <2> QED
    BY <1>3, <2>1, <2>2 DEF TakePlace
<1>4. ASSUME NEW w \in Writers, GiveBack(w) PROVE NeighboursTypeOK'
  <2>1. writer' \in [Writers -> {Nothing} \cup Busy]
    BY <1>4 DEF GiveBack
  <2>2. count' \in Nat /\ Placed' \in Nat
    BY <1>4 DEF GiveBack, Placed, Beyond, Nothing, Writers
  <2> QED
    BY <1>4, <2>1, <2>2 DEF GiveBack
<1>5. ASSUME NEW w \in Writers, StoreValue(w) PROVE NeighboursTypeOK'
  <2>1. writer' \in [Writers -> {Nothing} \cup Busy]
    BY <1>5 DEF StoreValue, Busy, Steps, Nothing
  <2>2. Placed' = Placed
    BY <1>5 DEF StoreValue, Placed, Beyond, Nothing, Writers, Busy, Steps
  <2>3. values' \in SUBSET Peers
    BY <1>5 DEF StoreValue, Busy, Steps, Nothing
  <2> QED
    BY <1>5, <2>1, <2>2, <2>3 DEF StoreValue
<1>6. ASSUME NEW w \in Writers, StoreIndex(w) PROVE NeighboursTypeOK'
  <2>1. writer' \in [Writers -> {Nothing} \cup Busy]
    BY <1>6 DEF StoreIndex, Busy, Steps, Nothing
  <2>2. Placed' = Placed
    BY <1>6 DEF StoreIndex, Placed, Beyond, Nothing, Writers, Busy, Steps
  <2>3. writer[w].index \in Nat /\ writer[w].peer \in Peers
    BY <1>6 DEF StoreIndex, Busy, Steps, Nothing
  <2>4. DOMAIN indices' \in SUBSET Nat /\ indices' \in [DOMAIN indices' -> Peers]
    BY <1>6, <2>3 DEF StoreIndex
  <2> QED
    BY <1>6, <2>1, <2>2, <2>4 DEF StoreIndex
<1>7. ASSUME NEW w \in Writers, RemoveOld(w) PROVE NeighboursTypeOK'
  <2>1. writer' \in [Writers -> {Nothing} \cup Busy] /\ Placed' = Placed
    BY <1>7 DEF RemoveOld, Placed, Beyond, Nothing, Writers
  <2>2. unreliable' \in [Peers -> 0 .. FailUnreliability + 1]
    <3>1. 0 \in 0 .. FailUnreliability + 1
      OBVIOUS
    <3> QED
      BY <1>7, <3>1 DEF RemoveOld
  <2> QED
    BY <1>7, <2>1, <2>2 DEF RemoveOld
<1>8. ASSUME NEW p \in Peers, NEW success \in BOOLEAN, UpdateNeighbourStats(p, success)
      PROVE  unreliable' \in [Peers -> 0 .. FailUnreliability + 1]
  <2>1. unreliable[p] \in 0 .. FailUnreliability + 1
    OBVIOUS
  <2> QED
    BY <1>8, <2>1 DEF UpdateNeighbourStats, QuerySuccess, QueryFailed
<1>9. CASE Ping
  <2>1. indices[next] \in Peers /\ next' \in Nat
    BY <1>9 DEF Ping, NextForPing, NextIndex
  <2>2. unreliable' \in [Peers -> 0 .. FailUnreliability + 1]
    BY <1>8, <1>9, <2>1 DEF Ping
  <2> QED
    BY <1>9, <2>1, <2>2 DEF Ping, Placed, Beyond
<1>10. CASE SendAdnlQuery \/ SendRldpQuery
  <2>1. unreliable' \in [Peers -> 0 .. FailUnreliability + 1]
    <3>1. Choosable \subseteq Peers /\ values \subseteq Peers
      BY DEF Choosable, Iterated
    <3>2. \E p \in Peers, success \in BOOLEAN : UpdateNeighbourStats(p, success)
      BY <1>10, <3>1 DEF SendAdnlQuery, SendRldpQuery
    <3> QED
      BY <1>8, <3>2
  <2> QED
    BY <1>10, <2>1 DEF SendAdnlQuery, SendRldpQuery, Placed, Beyond
<1>11. CASE UNCHANGED neighbourVars
  BY <1>11 DEF neighbourVars, Placed, Beyond
<1> QED
  BY <1>1, <1>2, <1>3, <1>4, <1>5, <1>6, <1>7, <1>9, <1>10, <1>11
  DEF NeighboursNext, UpdatePeers, ReloadNeighbours, WriterStep, Writers

-----------------------------------------------------------------------------
(* A step of a task changes its own record only.                           *)

LEMMA InsertHolds ==
  ASSUME NeighboursTypeOK, IndexInv, NEW w \in Writers, NEW p \in Peers, Insert(w, p)
  PROVE  IndexInv'
<1>1. /\ writer'[w] = [step |-> "place", peer |-> p, index |-> count, old |-> p]
      /\ \A v \in Writers : v # w => writer'[v] = writer[v]
      /\ writer[w].step = "idle"
  BY DEF Insert, NeighboursTypeOK, Nothing
<1>2. UNCHANGED <<values, indices, count, next>> /\ Placed' = Placed
  BY <1>1 DEF Insert, Placed, Beyond, Writers
<1> USE <1>1, <1>2 DEF IndexInv
<1>3. WriterRoles' /\ PlacesWithinLimit'
  BY DEF WriterRoles, PlacesWithinLimit, Writers, Nothing
<1>4. PlacesAreIndexed'
  BY DEF PlacesAreIndexed, Inserting, Writers
<1>5. ValuesAreIndexed'
  BY DEF ValuesAreIndexed, Indexed, Writers
<1>6. WritersAgree'
  BY DEF WritersAgree, Replacing, Indexed, Writers
<1> QED
  BY <1>3, <1>4, <1>5, <1>6

LEMMA ReplaceHolds ==
  ASSUME NeighboursTypeOK, IndexInv, NEW p \in Peers, Replace(p)
  PROVE  IndexInv'
<1>1. PICK i \in Replaceable :
        writer' = [writer EXCEPT !["reload"] = [step |-> "value", peer |-> p, index |-> i, old |-> indices[i]]]
  BY DEF Replace
<1>2. i \in DOMAIN indices /\ indices[i] \in values /\ p \notin values /\ p # indices[i]
  BY ReplaceableIsIterated DEF Replace, Iterated, IndexInv, ValuesAreIndexed
<1>3. /\ writer'["reload"] = [step |-> "value", peer |-> p, index |-> i, old |-> indices[i]]
      /\ writer'["update"] = writer["update"]
      /\ writer["reload"].step = "idle"
  BY <1>1 DEF Replace, NeighboursTypeOK, Nothing, Writers
<1>4. UNCHANGED <<values, indices, count, next>> /\ Placed' = Placed
  BY <1>3 DEF Replace, Placed, Beyond
<1> USE <1>2, <1>3, <1>4 DEF IndexInv
<1>5. WriterRoles' /\ PlacesWithinLimit'
  BY DEF WriterRoles, PlacesWithinLimit, Writers, Nothing
<1>6. PlacesAreIndexed'
  BY DEF PlacesAreIndexed, Inserting, Writers
<1>7. ValuesAreIndexed'
  BY DEF ValuesAreIndexed, Indexed, Writers
<1>8. WritersAgree'
  BY DEF WritersAgree, Replacing, Indexed, Writers
<1> QED
  BY <1>5, <1>6, <1>7, <1>8

LEMMA TakePlaceHolds ==
  ASSUME NeighboursTypeOK, IndexInv, NEW w \in Writers, TakePlace(w)
  PROVE  IndexInv'
<1>0. writer[w] \in Busy /\ writer[w].step = "place" /\ writer[w].old = writer[w].peer
  BY DEF TakePlace, NeighboursTypeOK, Nothing, IndexInv, WriterRoles
<1>1. \A v \in Writers : v # w => writer'[v] = writer[v]
  BY DEF TakePlace, NeighboursTypeOK
<1>2. UNCHANGED <<values, indices, next>>
  BY DEF TakePlace
<1> USE <1>0, <1>1, <1>2 DEF IndexInv
<1>3. CASE writer'[w].step \in {"idle", "overflow"}
  <2>1. /\ Placed' = Placed
        /\ writer'[w].step = "idle" => writer'[w] = Nothing
        /\ writer'[w].step = "overflow" => writer'[w].old = writer'[w].peer /\ Placed = NeighbourLimit
    BY <1>3, NeighbourLimitAssumption DEF TakePlace, Placed, Beyond, Writers, Nothing, PlacesWithinLimit, NeighboursTypeOK, Busy
  <2> USE <1>3, <2>1
  <2>3. WriterRoles' /\ PlacesWithinLimit'
    BY DEF WriterRoles, PlacesWithinLimit, Writers, Nothing
  <2>4. PlacesAreIndexed'
    BY DEF PlacesAreIndexed, Inserting, Writers
  <2>5. ValuesAreIndexed'
    BY DEF ValuesAreIndexed, Indexed, Writers
  <2>6. WritersAgree'
    BY DEF WritersAgree, Replacing, Indexed, Writers
  <2> QED
    BY <2>3, <2>4, <2>5, <2>6
<1>4. CASE writer'[w].step = "value"
  <2>1. /\ writer'[w].old = writer'[w].peer /\ writer'[w].index = count
        /\ count < NeighbourLimit /\ count' = count + 1
    <3>1. writer[w].peer \notin values
      BY <1>4 DEF TakePlace, NeighboursTypeOK, Nothing
    <3>2. /\ count' = count + 1
          /\ writer'[w] = [writer[w] EXCEPT !.step = IF count >= NeighbourLimit THEN "overflow" ELSE "value",
                                            !.index = count]
      BY <3>1 DEF TakePlace, NeighboursTypeOK
    <3>3. count < NeighbourLimit
      BY <1>4, <3>2, NeighbourLimitAssumption DEF Busy, NeighboursTypeOK
    <3> QED
      BY <3>2, <3>3 DEF Busy
  <2>2. Placed = count /\ Placed' = count + 1
    BY <1>4, <2>1, NeighbourLimitAssumption DEF Placed, Beyond, Writers, PlacesWithinLimit, NeighboursTypeOK
  <2> USE <1>4, <2>1, <2>2, NeighbourLimitAssumption
  <2>3. WriterRoles'
    BY DEF WriterRoles, Writers, Nothing
  <2>7. PlacesWithinLimit'
    BY DEF PlacesWithinLimit, Writers, Beyond, Placed, NeighboursTypeOK
  <2>4. PlacesAreIndexed'
    BY DEF PlacesAreIndexed, Inserting, Writers, NeighboursTypeOK
  <2>5. ValuesAreIndexed'
    BY DEF ValuesAreIndexed, Indexed, Writers
  <2>6. WritersAgree'
    BY DEF WritersAgree, Replacing, Indexed, Writers
  <2> QED
    BY <2>3, <2>4, <2>5, <2>6, <2>7
<1> QED
  BY <1>3, <1>4 DEF TakePlace, NeighboursTypeOK, Nothing, Busy

LEMMA GiveBackHolds ==
  ASSUME NeighboursTypeOK, IndexInv, NEW w \in Writers, GiveBack(w)
  PROVE  IndexInv'
<1>1. /\ writer'[w] = Nothing /\ writer'[w].step = "idle"
      /\ \A v \in Writers : v # w => writer'[v] = writer[v]
      /\ writer[w].step = "overflow"
  BY DEF GiveBack, NeighboursTypeOK, Nothing
<1>2. UNCHANGED <<values, indices, next>> /\ Placed' = Placed
  BY <1>1 DEF GiveBack, Placed, Beyond, Writers, NeighboursTypeOK
<1> USE <1>1, <1>2 DEF IndexInv
<1>3. WriterRoles' /\ PlacesWithinLimit'
  BY DEF WriterRoles, PlacesWithinLimit, Writers, Nothing
<1>4. PlacesAreIndexed'
  BY DEF PlacesAreIndexed, Inserting, Writers
<1>5. ValuesAreIndexed'
  BY DEF ValuesAreIndexed, Indexed, Writers
<1>6. WritersAgree'
  BY DEF WritersAgree, Replacing, Indexed, Writers
<1> QED
  BY <1>3, <1>4, <1>5, <1>6

LEMMA StoreValueHolds ==
  ASSUME NeighboursTypeOK, IndexInv, races' = 0, NEW w \in Writers, StoreValue(w)
  PROVE  IndexInv'
<1>0. writer[w] \in Busy /\ writer[w].step = "value"
  BY DEF StoreValue, NeighboursTypeOK, Nothing
<1>1. \A v \in Writers : v # w => writer'[v] = writer[v]
  BY DEF StoreValue, NeighboursTypeOK
<1>2. UNCHANGED <<indices, count, next>>
  BY DEF StoreValue
<1> USE <1>0, <1>1, <1>2 DEF IndexInv
<1>3. CASE writer[w].peer \notin values
  <2>1. /\ writer'[w].step = "index" /\ writer'[w].peer = writer[w].peer
        /\ writer'[w].old = writer[w].old /\ writer'[w].index = writer[w].index
    BY <1>3 DEF StoreValue, NeighboursTypeOK, Busy
  <2>2. values' = values \cup {writer[w].peer} /\ Placed' = Placed
    BY <1>3, <2>1 DEF StoreValue, Placed, Beyond, Writers
  <2> USE <1>3, <2>1, <2>2
  <2>3. WriterRoles' /\ PlacesWithinLimit'
    BY DEF WriterRoles, PlacesWithinLimit, Writers, Nothing
  <2>4. PlacesAreIndexed'
    BY DEF PlacesAreIndexed, Inserting, Writers
  <2>5. ValuesAreIndexed'
    BY DEF ValuesAreIndexed, Indexed, Writers
  <2>6. WritersAgree'
    BY DEF WritersAgree, ValuesAreIndexed, Replacing, Indexed, Writers
  <2> QED
    BY <2>3, <2>4, <2>5, <2>6
<1>4. CASE writer[w].peer \in values
  <2>1. writer'[w] = Nothing /\ writer'[w].step = "idle"
    BY <1>4 DEF StoreValue, NeighboursTypeOK, Nothing
  <2>2. writer[w].old # writer[w].peer
    BY <1>4 DEF StoreValue
  <2>3. values' = values /\ Placed' = Placed
    BY <1>4, <2>1 DEF StoreValue, Placed, Beyond, Writers
  <2> USE <1>4, <2>1, <2>2, <2>3
  <2>4. WriterRoles' /\ PlacesWithinLimit'
    BY DEF WriterRoles, PlacesWithinLimit, Writers, Nothing
  <2>5. PlacesAreIndexed'
    BY DEF PlacesAreIndexed, Inserting, Writers
  <2>6. ValuesAreIndexed'
    BY DEF ValuesAreIndexed, Indexed, Writers
  <2>7. WritersAgree'
    BY DEF WritersAgree, Replacing, Indexed, Writers
  <2> QED
    BY <2>4, <2>5, <2>6, <2>7
<1> QED
  BY <1>3, <1>4

LEMMA StoreIndexHolds ==
  ASSUME NeighboursTypeOK, IndexInv, NEW w \in Writers, StoreIndex(w)
  PROVE  IndexInv'
<1>0. writer[w] \in Busy /\ writer[w].step = "index"
  BY DEF StoreIndex, NeighboursTypeOK, Nothing
<1>1. \A v \in Writers : v # w => writer'[v] = writer[v]
  BY DEF StoreIndex, NeighboursTypeOK
<1>2. /\ UNCHANGED <<values, count, next>>
      /\ DOMAIN indices' = DOMAIN indices \cup {writer[w].index}
      /\ indices'[writer[w].index] = writer[w].peer
      /\ \A i \in DOMAIN indices : i # writer[w].index => indices'[i] = indices[i]
  BY DEF StoreIndex
<1>3. writer[w].peer \in values /\ \A i \in DOMAIN indices : indices[i] # writer[w].peer
  BY <1>0 DEF IndexInv, WritersAgree, Indexed
<1> USE <1>0, <1>1, <1>2, <1>3 DEF IndexInv
<1>4. CASE writer[w].old = writer[w].peer
  <2>1. writer'[w] = Nothing /\ writer'[w].step = "idle" /\ Inserting(w)
    BY <1>4 DEF StoreIndex, NeighboursTypeOK, Nothing, Inserting
  <2>2. Placed' = Placed /\ writer[w].index \notin DOMAIN indices /\ writer[w].index \in 0 .. Placed - 1
    BY <1>4, <2>1 DEF Placed, Beyond, Writers, PlacesAreIndexed
  <2> USE <1>4, <2>1, <2>2
  <2>4. WriterRoles' /\ PlacesWithinLimit'
    BY DEF WriterRoles, PlacesWithinLimit, Writers, Nothing
  <2>5. PlacesAreIndexed'
    BY DEF PlacesAreIndexed, Inserting, Writers
  <2>6. ValuesAreIndexed'
    BY DEF ValuesAreIndexed, Indexed, Writers
  <2>7. WritersAgree'
    BY DEF WritersAgree, Replacing, Indexed, Writers
  <2> QED
    BY <2>4, <2>5, <2>6, <2>7
<1>5. CASE writer[w].old # writer[w].peer
  <2>1. /\ writer'[w].step = "remove" /\ writer'[w].peer = writer[w].peer
        /\ writer'[w].old = writer[w].old /\ writer'[w].index = writer[w].index
        /\ Replacing(w)
    BY <1>5 DEF StoreIndex, NeighboursTypeOK, Busy, Replacing
  <2>2. /\ Placed' = Placed /\ w = "reload"
        /\ writer[w].index \in DOMAIN indices /\ indices[writer[w].index] = writer[w].old
    BY <1>5, <2>1 DEF Placed, Beyond, Writers, WritersAgree, WriterRoles, Nothing
  <2> USE <1>5, <2>1, <2>2
  <2>4. WriterRoles' /\ PlacesWithinLimit'
    BY DEF WriterRoles, PlacesWithinLimit, Writers, Nothing
  <2>5. PlacesAreIndexed'
    BY DEF PlacesAreIndexed, Inserting, Writers
  <2>6. ValuesAreIndexed'
    BY DEF ValuesAreIndexed, Indexed, Writers
  <2>7. WritersAgree'
    <3>1. writer[w].old \in values /\ ~ Indexed(writer[w].old)'
      BY DEF ValuesAreIndexed, Indexed
    <3>2. writer["update"].step = "index" =>
            /\ writer["update"].peer \in values /\ ~ Indexed(writer["update"].peer)'
            /\ writer["update"].peer # writer[w].old
      BY DEF WritersAgree, Indexed, Writers
    <3>3. ~ Replacing("update")
      BY DEF WriterRoles, Replacing, Nothing
    <3> QED
      BY <3>1, <3>2, <3>3 DEF WritersAgree, Replacing, Indexed, Writers
  <2> QED
    BY <2>4, <2>5, <2>6, <2>7
<1> QED
  BY <1>4, <1>5

LEMMA RemoveOldHolds ==
  ASSUME NeighboursTypeOK, IndexInv, NEW w \in Writers, RemoveOld(w)
  PROVE  IndexInv'
<1>1. /\ writer'[w] = Nothing /\ writer'[w].step = "idle"
      /\ \A v \in Writers : v # w => writer'[v] = writer[v]
      /\ writer[w].step = "remove"
  BY DEF RemoveOld, NeighboursTypeOK, Nothing
<1>2. UNCHANGED <<indices, count, next>> /\ values' = values \ {writer[w].old} /\ Placed' = Placed
  BY <1>1 DEF RemoveOld, Placed, Beyond, Writers, NeighboursTypeOK
<1> USE <1>1, <1>2 DEF IndexInv
<1>3. WriterRoles' /\ PlacesWithinLimit'
  BY DEF WriterRoles, PlacesWithinLimit, Writers, Nothing
<1>4. PlacesAreIndexed'
  BY DEF PlacesAreIndexed, Inserting, Writers
<1>5. ValuesAreIndexed'
  BY DEF ValuesAreIndexed, WritersAgree, WriterRoles, Indexed, Writers
<1>6. WritersAgree'
  BY DEF WritersAgree, WriterRoles, Replacing, Indexed, Writers, Nothing
<1> QED
  BY <1>3, <1>4, <1>5, <1>6

LEMMA PingHolds ==
  ASSUME NeighboursTypeOK, IndexInv, races' = 0, Ping
  PROVE  IndexInv'
<1>1. UNCHANGED <<values, indices, count, writer>> /\ count <= NeighbourLimit /\ next' = NextIndex
  BY NeighbourLimitAssumption DEF Ping, NextForPing, NeighboursTypeOK
<1>2. Placed' = Placed /\ Placed = count
  BY <1>1, NeighbourLimitAssumption DEF Placed, Beyond, IndexInv, PlacesWithinLimit, NeighboursTypeOK, Writers
<1>3. next' = 0 \/ next' < Placed
  BY <1>1, <1>2 DEF NextIndex, NeighboursTypeOK
<1>4. PlacesWithinLimit'
  BY <1>1, <1>2, <1>3 DEF IndexInv, PlacesWithinLimit
<1> QED
  BY <1>1, <1>2, <1>4 DEF IndexInv, WriterRoles, PlacesAreIndexed, ValuesAreIndexed, WritersAgree, Inserting, Replacing, Indexed

\* Every step of the two tasks, a ping and a query preserve the invariant.
LEMMA NeighboursStepHolds == NeighboursInv /\ [NeighboursNext]_neighbourVars => NeighboursInv'
<1> SUFFICES ASSUME NeighboursInv, [NeighboursNext]_neighbourVars, races' = 0 PROVE IndexInv'
  BY NeighboursStepTypes DEF NeighboursInv, IndexInv
<1>1. races = 0
  BY DEF NeighboursNext, neighbourVars, UpdatePeers, ReloadNeighbours, WriterStep, Insert, Replace, TakePlace,
    GiveBack, StoreValue, StoreIndex, RemoveOld, Ping, SendAdnlQuery, SendRldpQuery, NeighboursInv, NeighboursTypeOK
<1>2. NeighboursTypeOK /\ IndexInv
  BY <1>1 DEF NeighboursInv, IndexInv
<1>3. CASE UNCHANGED <<values, indices, count, next, writer>>
  BY <1>2, <1>3 DEF IndexInv, WriterRoles, PlacesWithinLimit, PlacesAreIndexed, ValuesAreIndexed, WritersAgree,
    Inserting, Replacing, Indexed, Placed, Beyond
<1>4. CASE SendAdnlQuery \/ SendRldpQuery \/ UNCHANGED neighbourVars
  BY <1>3, <1>4 DEF SendAdnlQuery, SendRldpQuery, neighbourVars
<1> QED
  BY <1>2, <1>4, InsertHolds, ReplaceHolds, TakePlaceHolds, GiveBackHolds, StoreValueHolds, StoreIndexHolds,
     RemoveOldHolds, PingHolds
  DEF NeighboursNext, UpdatePeers, ReloadNeighbours, WriterStep, Writers

\* Between the changes the index and the neighbours agree.
LEMMA NeighboursInvImplies == NeighboursInv => NeighboursAreIndexed
<1> SUFFICES ASSUME NeighboursInv, races = 0, \A w \in Writers : writer[w] = Nothing
             PROVE  /\ DOMAIN indices = 0 .. count - 1 /\ Range(indices) = values /\ Cardinality(values) = count
                    /\ count > 0 => next \in DOMAIN indices
  BY DEF NeighboursAreIndexed
<1>1. \A w \in Writers : writer[w].step = "idle"
  BY DEF Nothing
<1>2. Placed = count
  BY <1>1 DEF Placed, Beyond, Writers, NeighboursInv, IndexInv, NeighboursTypeOK
<1>3. DOMAIN indices = 0 .. count - 1
  BY <1>1, <1>2 DEF NeighboursInv, IndexInv, PlacesAreIndexed, Inserting
<1>4. Range(indices) = values
  BY <1>1 DEF NeighboursInv, IndexInv, ValuesAreIndexed, Indexed, Range
<1>5. count > 0 => next \in DOMAIN indices
  BY <1>2, <1>3 DEF NeighboursInv, IndexInv, PlacesWithinLimit, NeighboursTypeOK
<1>6. Cardinality(values) = count
  <2>1. indices \in Bijection(0 .. count - 1, values)
    BY <1>3, <1>4 DEF NeighboursInv, IndexInv, NeighboursTypeOK, ValuesAreIndexed, Bijection, Injection, Surjection, IsInjective, Range
  <2>2. ExistsBijection(0 .. count - 1, values)
    BY <2>1 DEF ExistsBijection
  <2>3. IsFiniteSet(0 .. count - 1) /\ Cardinality(0 .. count - 1) = count
    <3>1. count \in Nat /\ 0 \in Int /\ count - 1 \in Int
      BY DEF NeighboursInv, IndexInv, NeighboursTypeOK
    <3> QED
      BY <3>1, FS_Interval
  <2> QED
    BY <2>2, <2>3, FS_Bijection
<1> QED
  BY <1>3, <1>4, <1>5, <1>6

\* The neighbours, their index and the place of the next ping agree whenever
\* neither task is in the middle of a change (neighbours.rs).
THEOREM NeighboursStayIndexed == NeighboursSpec => []NeighboursAreIndexed
<1>1. NeighboursInit => NeighboursInv
  BY NeighboursInitHolds
<1>2. NeighboursInv /\ [NeighboursNext]_neighbourVars => NeighboursInv'
  BY NeighboursStepHolds
<1>3. NeighboursInv => NeighboursAreIndexed
  BY NeighboursInvImplies
<1> QED
  BY <1>1, <1>2, <1>3, PTL DEF NeighboursSpec

-----------------------------------------------------------------------------
(* The download of a state                                                *)

Threads == Cardinality(Fetchers)

\* The offset of a part, and the number of the k-th part of a task.
Offset(j) == j * PartSize
PartOf(t, k) == t + Threads * k

FullLength(o) == IF o + PartSize <= length THEN PartSize ELSE length - o

DownloadSteps == {"find", "fetch", "assemble", "assembled", "failed"}

FetcherType == fetcher \in [Fetchers -> [step : {"check", "asked", "done", "failed"}, offset : Nat, errors : Nat]]
FetchersAreNew == fetcher = [t \in Fetchers |-> NewFetcher(t)]

DownloadTypeOK ==
  /\ length \in Nat
  /\ total \in {Unknown, length}
  /\ download \in [step : DownloadSteps, attempt : Nat]
  /\ joined \in [at : Nat, size : Nat]
  /\ FetcherType

\* What has come is a part of the state, whole unless it is the last one, whose
\* end is the end of the state.
PartsAreSlices ==
  \A o \in DOMAIN parts : o \in Nat /\ o <= length /\ parts[o] = FullLength(o)

\* The number of parts that a task has behind it, all of which have come.
Behind(t, k) ==
  /\ fetcher[t].offset = Offset(PartOf(t, k))
  /\ \A i \in 0 .. k - 1 : Offset(PartOf(t, i)) \in DOMAIN parts

NothingSkipped == \A t \in Fetchers : \E k \in Nat : Behind(t, k)

\* A task that has ended well is at the end of the state.
DoneAtTheEnd ==
  \A t \in Fetchers : fetcher[t].step = "done" =>
    /\ total = length
    /\ fetcher[t].offset < length => fetcher[t].offset \in DOMAIN parts /\ fetcher[t].offset + PartSize > length

AllCame ==
  /\ total = length
  /\ \A j \in Nat : Offset(j) < length => Offset(j) \in DOMAIN parts

\* What has been appended is the beginning of the state.
JoinedIsPrefix ==
  /\ \E j \in Nat : joined.at = Offset(j)
  /\ joined.size = IF joined.at <= length THEN joined.at ELSE length

DownloadInv ==
  /\ DownloadTypeOK /\ PartsAreSlices /\ NothingSkipped /\ DoneAtTheEnd
  /\ download.step \in {"assemble", "assembled"} => AllCame /\ JoinedIsPrefix
  /\ download.step = "assembled" => joined.at \notin DOMAIN parts

-----------------------------------------------------------------------------
(* Arithmetic of parts                                                     *)

\* Division of numbers with a remainder.
LEMMA DivideBy ==
  ASSUME NEW n \in Nat, NEW d \in Nat \ {0}
  PROVE  \E q \in Nat, r \in 0 .. d - 1 : n = r + d * q
<1> DEFINE S == {q \in Nat : d * (q + 1) > n}
<1>1. S \in SUBSET Nat /\ S # {}
  <2>1. d * (n + 1) = d + d * n
    OBVIOUS
  <2>2. d * n >= n
    <3>1. d * n = n + (d - 1) * n
      OBVIOUS
    <3>2. (d - 1) * n \in Nat
      OBVIOUS
    <3> QED
      BY <3>1, <3>2
  <2>3. d * (n + 1) > n
    BY <2>1, <2>2
  <2> QED
    BY <2>3
<1>2. PICK q \in S : \A y \in S : ~ (<<y, q>> \in OpToRel(<, Nat))
  BY <1>1, WFMin, NatLessThanWellFounded
<1>3. ASSUME NEW y \in S PROVE ~ (y < q)
  <2>1. <<y, q>> \in OpToRel(<, Nat) <=> y < q
    BY DEF OpToRel
  <2> QED
    BY <1>2, <2>1, Zenon
<1>4. d * q <= n
  <2>1. CASE q = 0
    BY <2>1
  <2>2. CASE q # 0
    <3>1. q - 1 \in Nat /\ q - 1 < q /\ (q - 1) + 1 = q
      BY <2>2
    <3>2. q - 1 \notin S
      BY <1>3, <3>1
    <3> QED
      BY <3>1, <3>2
  <2> QED
    BY <2>1, <2>2
<1>5. d * (q + 1) = d + d * q /\ d * q \in Nat
  OBVIOUS
<1>6. n - d * q \in 0 .. d - 1 /\ n = (n - d * q) + d * q
  BY <1>4, <1>5
<1> QED
  BY <1>6

\* Parts of different numbers do not overlap.
LEMMA OffsetsApart ==
  ASSUME NEW i \in Nat, NEW j \in Nat
  PROVE  /\ Offset(i) \in Nat
         /\ i < j => Offset(i) + PartSize <= Offset(j)
         /\ Offset(i + 1) = Offset(i) + PartSize
<1> USE PartSizeAssumption DEF Offset
<1>1. Offset(i) \in Nat /\ Offset(i + 1) = Offset(i) + PartSize
  OBVIOUS
<1>2. ASSUME i < j PROVE Offset(i) + PartSize <= Offset(j)
  <2>1. PICK m \in Nat : j = i + 1 + m
    <3>1. j - i - 1 \in Nat /\ j = i + 1 + (j - i - 1)
      BY <1>2
    <3> QED
      BY <3>1
  <2>2. m * PartSize \in Nat /\ (i + 1 + m) * PartSize = i * PartSize + PartSize + m * PartSize
    OBVIOUS
  <2> QED
    BY <2>1, <2>2
<1> QED
  BY <1>1, <1>2

\* A task goes on to its next part, and every part belongs to a task.
LEMMA NextPart ==
  ASSUME NEW t \in Fetchers, NEW k \in Nat
  PROVE  /\ t \in Nat /\ PartOf(t, k) \in Nat /\ Offset(PartOf(t, k)) \in Nat
         /\ NextOffset(Offset(PartOf(t, k))) = Offset(PartOf(t, k + 1))
<1>1. t \in Nat /\ Threads \in Nat
  BY FetchersAssumption DEF Threads
<1>2. PartOf(t, k) \in Nat
  BY <1>1 DEF PartOf
<1>3. ASSUME NEW n \in Nat, NEW p \in Nat PROVE (t + n * k) * p + p * n = (t + n * (k + 1)) * p
  BY <1>1
<1> QED
  BY <1>1, <1>2, <1>3, OffsetsApart, PartSizeAssumption DEF NextOffset, PartOf, Offset, Threads

LEMMA EveryPartHasATask ==
  ASSUME NEW j \in Nat
  PROVE  \E t \in Fetchers, k \in Nat : j = PartOf(t, k)
<1>1. Threads \in Nat \ {0} /\ Fetchers = 0 .. Threads - 1
  BY FetchersAssumption DEF Threads
<1>2. \E k \in Nat, t \in 0 .. Threads - 1 : j = t + Threads * k
  BY <1>1, DivideBy
<1> QED
  BY <1>1, <1>2 DEF PartOf

\* What a peer that has the state answers.
LEMMA SliceIsFull ==
  ASSUME length \in Nat, NEW o \in Nat, NEW p, NEW len \in DownloadSlice(p, o)
  PROVE  o <= length /\ len = FullLength(o)
<1>1. o <= length /\ len = Min({PartSize, length - o})
  BY DEF DownloadSlice, Slice
<1>2. PartSize \in Int /\ length - o \in Int
  BY PartSizeAssumption
<1>3. ASSUME NEW a \in Int, NEW b \in Int PROVE Min({a, b}) = IF a <= b THEN a ELSE b
  BY DEF Min
<1> QED
  BY <1>1, <1>2, <1>3 DEF FullLength

-----------------------------------------------------------------------------
(* The invariant                                                           *)

\* Nothing has been asked for.
LEMMA NewFetchersHold == FetchersAreNew => FetcherType /\ NothingSkipped /\ DoneAtTheEnd
<1> SUFFICES ASSUME FetchersAreNew PROVE FetcherType /\ NothingSkipped /\ DoneAtTheEnd
  OBVIOUS
<1> USE DEF FetchersAreNew, FetcherType
<1>1. ASSUME NEW t \in Fetchers
      PROVE  t * PartSize \in Nat /\ NewFetcher(t).offset = Offset(PartOf(t, 0)) /\ NewFetcher(t).step = "check"
  BY FetchersAssumption, PartSizeAssumption DEF NewFetcher, Offset, PartOf, Threads
<1>2. NothingSkipped
  <2>1. \A t \in Fetchers : Behind(t, 0)
    BY <1>1 DEF Behind
  <2> QED
    BY <2>1 DEF NothingSkipped
<1> QED
  BY <1>1, <1>2 DEF NewFetcher, DoneAtTheEnd

LEMMA DownloadInitHolds == DownloadInit => DownloadInv
<1> SUFFICES ASSUME DownloadInit PROVE DownloadInv
  OBVIOUS
<1> QED
  BY NewFetchersHold, LengthsAssumption
  DEF DownloadInit, DownloadInv, DownloadTypeOK, FetchersAreNew, DownloadSteps, PartsAreSlices

\* When all tasks have ended well every part has come.
LEMMA AllTasksDone ==
  ASSUME DownloadInv, \A t \in Fetchers : fetcher[t].step = "done"
  PROVE  AllCame
<1>1. total = length
  <2>1. 0 \in Fetchers
    BY FetchersAssumption
  <2> QED
    BY <2>1 DEF DownloadInv, DoneAtTheEnd
<1>2. ASSUME NEW j \in Nat, Offset(j) < length PROVE Offset(j) \in DOMAIN parts
  <2>1. PICK t \in Fetchers, i \in Nat : j = PartOf(t, i)
    BY EveryPartHasATask
  <2>2. PICK k \in Nat : Behind(t, k)
    BY DEF DownloadInv, NothingSkipped
  <2>3. CASE i < k
    BY <2>1, <2>2, <2>3 DEF Behind
  <2>4. CASE i = k
    BY <1>2, <2>1, <2>2, <2>4 DEF Behind, DownloadInv, DoneAtTheEnd
  <2>5. CASE i > k
    <3>1. t \in Nat /\ Threads \in Nat \ {0}
      BY FetchersAssumption DEF Threads
    <3>2. PartOf(t, k) < PartOf(t, i) /\ PartOf(t, k) \in Nat
      <4>1. PICK m \in Nat : i = k + 1 + m
        <5>1. i - k - 1 \in Nat /\ i = k + 1 + (i - k - 1)
          BY <2>5
        <5> QED
          BY <5>1
      <4>2. Threads * (k + 1 + m) = Threads * k + Threads + Threads * m /\ Threads * m \in Nat /\ Threads * k \in Nat
        BY <3>1
      <4> QED
        BY <3>1, <4>1, <4>2 DEF PartOf
    <3>3. fetcher[t].offset + PartSize <= Offset(j) /\ fetcher[t].offset \in Nat
      BY <2>1, <2>2, <3>2, OffsetsApart DEF Behind
    <3>4. fetcher[t].offset < length => fetcher[t].offset + PartSize > length
      BY DEF DownloadInv, DoneAtTheEnd
    <3>5. Offset(j) \in Nat /\ length \in Nat
      BY OffsetsApart DEF DownloadInv, DownloadTypeOK
    <3> QED
      BY <1>2, <3>3, <3>4, <3>5, PartSizeAssumption
  <2> QED
    BY <2>3, <2>4, <2>5
<1> QED
  BY <1>1, <1>2 DEF AllCame

\* Every step of the search, the tasks and the assembly preserves the invariant.
LEMMA DownloadStepHolds == DownloadInv /\ [DownloadNext]_downloadVars => DownloadInv'
<1> SUFFICES ASSUME DownloadInv, [DownloadNext]_downloadVars PROVE DownloadInv'
  OBVIOUS
<1> USE DEF DownloadInv, FetcherType
<1>1. CASE UNCHANGED <<length, fetcher, parts, total, joined, download>>
  BY <1>1 DEF DownloadTypeOK, PartsAreSlices, FullLength, NothingSkipped, Behind, DoneAtTheEnd, AllCame, JoinedIsPrefix
<1>2. CASE CheckPersistentState \/ UNCHANGED downloadVars
  BY <1>1, <1>2 DEF CheckPersistentState, downloadVars
<1>3. ASSUME UNCHANGED <<length, fetcher, parts, total>>
      PROVE  PartsAreSlices' /\ NothingSkipped' /\ DoneAtTheEnd'
  BY <1>3 DEF PartsAreSlices, FullLength, NothingSkipped, Behind, DoneAtTheEnd
<1>4. ASSUME Failed PROVE download' \in [step : DownloadSteps, attempt : Nat] /\ download'.step \in {"find", "failed"}
  BY <1>4 DEF Failed, DownloadTypeOK, DownloadSteps
<1>5. CASE NoPeerFound
  BY <1>3, <1>4, <1>5 DEF NoPeerFound, DownloadTypeOK
<1>6. CASE StartDownload
  <2>1. download' \in [step : DownloadSteps, attempt : Nat] /\ download'.step = "fetch"
    BY <1>6 DEF StartDownload, DownloadTypeOK, DownloadSteps
  <2>2. FetchersAreNew'
    BY <1>6 DEF StartDownload, FetchersAreNew
  <2>3. /\ FetcherType'
        /\ NothingSkipped' /\ DoneAtTheEnd'
    BY <2>2, NewFetchersHold, PTL
  <2>4. PartsAreSlices'
    BY <1>6 DEF StartDownload, PartsAreSlices
  <2> QED
    BY <1>6, <2>1, <2>3, <2>4 DEF StartDownload, DownloadTypeOK
<1>7. ASSUME NEW t \in Fetchers, AskPart(t) PROVE DownloadInv'
  <2>1. PICK s \in {"done", "asked"} :
          /\ fetcher' = [fetcher EXCEPT ![t].step = s]
          /\ s = "done" => total # Unknown /\ fetcher[t].offset >= total
    BY <1>7 DEF AskPart
  <2>2. DownloadTypeOK' /\ PartsAreSlices'
    BY <1>7, <2>1 DEF AskPart, DownloadTypeOK, PartsAreSlices, FullLength
  <2>3. \A u \in Fetchers : fetcher'[u].offset = fetcher[u].offset
    BY <2>1 DEF DownloadTypeOK
  <2>4. NothingSkipped'
    BY <1>7, <2>3 DEF AskPart, NothingSkipped, Behind
  <2>5. DoneAtTheEnd'
    BY <1>7, <2>1 DEF AskPart, DoneAtTheEnd, DownloadTypeOK, Unknown
  <2> QED
    BY <1>7, <2>2, <2>4, <2>5 DEF AskPart
<1>8. ASSUME NEW t \in Fetchers, PartError(t) PROVE DownloadInv'
  <2>1. PICK s \in {"check", "failed"} : fetcher' = [fetcher EXCEPT ![t].step = s, ![t].errors = @ + 1]
    BY <1>8 DEF PartError
  <2>2. DownloadTypeOK' /\ PartsAreSlices'
    BY <1>8, <2>1 DEF PartError, DownloadTypeOK, PartsAreSlices, FullLength
  <2>3. \A u \in Fetchers : fetcher'[u].offset = fetcher[u].offset
    BY <2>1 DEF DownloadTypeOK
  <2>4. NothingSkipped'
    BY <1>8, <2>3 DEF PartError, NothingSkipped, Behind
  <2>5. DoneAtTheEnd'
    BY <1>8, <2>1 DEF PartError, DoneAtTheEnd, DownloadTypeOK
  <2> QED
    BY <1>8, <2>2, <2>4, <2>5 DEF PartError
<1>9. ASSUME NEW t \in Fetchers, GotPart(t) PROVE DownloadInv'
  <2> DEFINE o == fetcher[t].offset
  <2>1. PICK len \in DownloadSlice(source, o) :
          /\ parts' = [x \in DOMAIN parts \cup {o} |-> IF x = o THEN len ELSE parts[x]]
          /\ \/ /\ len < PartSize /\ total' = o + len
                /\ fetcher' = [fetcher EXCEPT ![t].step = "done", ![t].errors = 0]
             \/ /\ len = PartSize /\ total' = total
                /\ fetcher' = [fetcher EXCEPT ![t] = [step |-> "check", offset |-> NextOffset(o), errors |-> 0]]
    BY <1>9 DEF GotPart
  <2>2. o \in Nat /\ length \in Nat /\ length' = length /\ fetcher[t].step = "asked"
    BY <1>9 DEF GotPart, DownloadTypeOK
  <2>3. o <= length /\ len = FullLength(o)
    BY <2>2, SliceIsFull
  <2>4. DOMAIN parts' = DOMAIN parts \cup {o} /\ parts'[o] = len /\ \A x \in DOMAIN parts : x # o => parts'[x] = parts[x]
    BY <2>1
  <2>5. PartsAreSlices'
    BY <2>2, <2>3, <2>4 DEF PartsAreSlices, FullLength
  <2>6. \A u \in Fetchers : u # t => fetcher'[u] = fetcher[u]
    BY <2>1 DEF DownloadTypeOK
  <2>7. ASSUME NEW u \in Fetchers, u # t PROVE \E k \in Nat : Behind(u, k)'
    <3>1. PICK k \in Nat : Behind(u, k)
      BY DEF NothingSkipped
    <3>2. Behind(u, k)'
      BY <2>4, <2>6, <2>7, <3>1 DEF Behind
    <3> QED
      BY <3>2
  <2>8. PICK k \in Nat : Behind(t, k)
    BY DEF NothingSkipped
  <2>9. CASE len < PartSize
    <3>1. total' = length /\ o + PartSize > length
      BY <2>1, <2>2, <2>3, <2>9, PartSizeAssumption DEF FullLength
    <3>2. /\ fetcher'[t].step = "done" /\ fetcher'[t].offset = o /\ fetcher'[t].errors = 0
          /\ FetcherType'
      BY <2>1, <2>9, PartSizeAssumption DEF DownloadTypeOK
    <3>3. NothingSkipped'
      <4>1. Behind(t, k)'
        BY <2>4, <2>8, <3>2 DEF Behind
      <4> QED
        BY <2>7, <4>1 DEF NothingSkipped
    <3>4. DoneAtTheEnd'
      BY <2>2, <2>4, <2>6, <3>1, <3>2 DEF DoneAtTheEnd
    <3> QED
      BY <1>9, <2>2, <2>5, <3>1, <3>2, <3>3, <3>4 DEF GotPart, DownloadTypeOK
  <2>10. CASE len = PartSize
    <3>1. NextOffset(o) = Offset(PartOf(t, k + 1)) /\ NextOffset(o) \in Nat
      BY <2>8, NextPart DEF Behind
    <3>2. /\ total' = total
          /\ fetcher'[t].step = "check" /\ fetcher'[t].offset = NextOffset(o)
          /\ FetcherType'
      BY <2>1, <2>10, <3>1, PartSizeAssumption DEF DownloadTypeOK
    <3>3. NothingSkipped'
      <4>1. Behind(t, k + 1)'
        <5>1. \A i \in 0 .. k : i \in 0 .. k - 1 \/ i = k
          OBVIOUS
        <5>2. \A i \in 0 .. k : Offset(PartOf(t, i)) \in DOMAIN parts'
          BY <2>4, <2>8, <5>1 DEF Behind
        <5>3. (k + 1) - 1 = k
          OBVIOUS
        <5> QED
          BY <3>1, <3>2, <5>2, <5>3 DEF Behind
      <4>2. k + 1 \in Nat
        OBVIOUS
      <4> QED
        BY <2>7, <4>1, <4>2 DEF NothingSkipped
    <3>4. DoneAtTheEnd'
      BY <2>2, <2>4, <2>6, <3>2 DEF DoneAtTheEnd
    <3> QED
      BY <1>9, <2>2, <2>5, <3>2, <3>3, <3>4 DEF GotPart, DownloadTypeOK
  <2> QED
    BY <2>1, <2>9, <2>10
<1>10. CASE JoinDownload
  <2>1. PartsAreSlices' /\ NothingSkipped' /\ DoneAtTheEnd' /\ joined' = [at |-> 0, size |-> 0]
    BY <1>3, <1>10 DEF JoinDownload
  <2>2. CASE \E t \in Fetchers : fetcher[t].step = "failed"
    BY <1>4, <1>10, <2>1, <2>2 DEF JoinDownload, DownloadTypeOK
  <2>3. CASE ~ \E t \in Fetchers : fetcher[t].step = "failed"
    <3>1. AllCame
      BY <1>10, <2>3, AllTasksDone DEF JoinDownload, Ended
    <3>2. AllCame' /\ DownloadTypeOK' /\ download'.step = "assemble"
      BY <1>10, <2>1, <2>3, <3>1 DEF AllCame, JoinDownload, DownloadTypeOK, DownloadSteps
    <3>3. JoinedIsPrefix'
      <4>1. joined'.at = Offset(0) /\ joined'.at = 0 /\ joined'.size = 0 /\ 0 \in Nat
        BY <2>1, PartSizeAssumption DEF Offset
      <4>2. length' \in Nat
        BY <3>2 DEF DownloadTypeOK
      <4> QED
        BY <4>1, <4>2 DEF JoinedIsPrefix
    <3> QED
      BY <2>1, <3>2, <3>3
  <2> QED
    BY <2>2, <2>3
<1>11. CASE AppendPart
  <2>1. PartsAreSlices' /\ NothingSkipped' /\ DoneAtTheEnd'
    BY <1>3, <1>11 DEF AppendPart
  <2>2. /\ joined.at \in Nat /\ joined.at <= length /\ length \in Nat /\ joined.size = joined.at
        /\ parts[joined.at] = FullLength(joined.at)
    BY <1>11 DEF AppendPart, PartsAreSlices, JoinedIsPrefix, DownloadTypeOK
  <2>3. joined' = [at |-> joined.at + PartSize, size |-> joined.at + FullLength(joined.at)]
    BY <1>11, <2>2 DEF AppendPart
  <2>4. DownloadTypeOK'
    BY <1>11, <2>2, <2>3, PartSizeAssumption DEF AppendPart, DownloadTypeOK, FullLength
  <2>5. PICK j \in Nat : joined.at = Offset(j)
    BY <1>11 DEF AppendPart, JoinedIsPrefix
  <2>6. joined'.at = Offset(j + 1)
    BY <2>3, <2>5, OffsetsApart
  <2>7. joined'.size = IF joined'.at <= length THEN joined'.at ELSE length
    BY <2>2, <2>3, PartSizeAssumption DEF FullLength
  <2>8. JoinedIsPrefix'
    BY <1>11, <2>6, <2>7 DEF JoinedIsPrefix, AppendPart
  <2>9. AllCame'
    BY <1>11 DEF AppendPart, AllCame
  <2> QED
    BY <1>11, <2>1, <2>4, <2>8, <2>9 DEF AppendPart
<1>12. CASE EndOfParts
  BY <1>3, <1>12 DEF EndOfParts, DownloadTypeOK, DownloadSteps, AllCame, JoinedIsPrefix
<1> QED
  BY <1>2, <1>5, <1>6, <1>7, <1>8, <1>9, <1>10, <1>11, <1>12 DEF DownloadNext

\* A state that has been put together is the whole state (state_helper.rs).
THEOREM DownloadIsWhole == DownloadSpec => []DownloadedIsWhole
<1>1. DownloadInit => DownloadInv
  BY DownloadInitHolds
<1>2. DownloadInv /\ [DownloadNext]_downloadVars => DownloadInv'
  BY DownloadStepHolds
<1>3. DownloadInv => DownloadedIsWhole
  <2> SUFFICES ASSUME DownloadInv PROVE DownloadedIsWhole
    OBVIOUS
  <2>1. CASE download.step = "assemble"
    BY <2>1 DEF DownloadInv, DownloadedIsWhole, JoinedIsPrefix, PartsAreSlices
  <2>2. CASE download.step = "assembled"
    BY <2>2, OffsetsApart DEF DownloadInv, DownloadTypeOK, DownloadedIsWhole, JoinedIsPrefix, AllCame
  <2> QED
    BY <2>1, <2>2 DEF DownloadedIsWhole
<1> QED
  BY <1>1, <1>2, <1>3, PTL DEF DownloadSpec
=============================================================================
