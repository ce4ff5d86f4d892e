----------------------------- MODULE Neighbours -----------------------------
(***************************************************************************)
(* The neighbours of a node in an overlay (src/network/neighbours.rs): a   *)
(* cache of peers with a dense index, filled by the task that searches the *)
(* DHT and by the task that reloads random peers, read by the task that    *)
(* pings and by the queries of the full node.  The maps are lock-free: an  *)
(* insertion takes a place, stores the neighbour and then its index, and  *)
(* the other task runs between any two of these.                           *)
(***************************************************************************)
EXTENDS Integers, FiniteSets, FiniteSetsExt, Functions

CONSTANTS
  Peers,              \* the peers of the overlay
  NeighbourLimit,     \* MAX_NEIGHBOURS
  StopUnreliability,  \* STOP_UNRELIABILITY
  FailUnreliability,  \* FAIL_UNRELIABILITY
  VersionPenalty      \* what an unknown or old version adds

ASSUME NeighbourLimitAssumption == NeighbourLimit \in Nat \ {0}
ASSUME UnreliabilityAssumption == StopUnreliability \in Nat /\ FailUnreliability \in Nat

VARIABLES
  values,     \* the neighbours, by their keys
  indices,    \* the keys, by their indices
  count,      \* the number of indices given out
  next,       \* the index of the next ping
  unreliable, \* unreliability of each neighbour
  version,    \* those known to have the current version and capabilities
  writer,     \* what each of the two tasks is doing
  races       \* history: the two tasks have met in one of the ways below

neighbourVars == <<values, indices, count, next, unreliable, version, writer, races>>

Writers == {"update", "reload"}
Nothing == [step |-> "idle"]

-----------------------------------------------------------------------------
(* The cache                                                               *)

\* The iterator ends at the first index that is not there.
Iterated == {i \in DOMAIN indices : 0 .. i \subseteq DOMAIN indices}

\* insert_ex: when the peer is not there and a place is left,
Insert(w, p) ==
  /\ writer[w] = Nothing /\ p \notin values /\ count < NeighbourLimit
  /\ writer' = [writer EXCEPT ![w] = [step |-> "place", peer |-> p, index |-> count, old |-> p]]
  /\ UNCHANGED <<values, indices, count, next, unreliable, version, races>>

\* the next place is taken, and given back when the other task has taken the
\* last one;
TakePlace(w) ==
  /\ writer[w].step = "place"
  /\ \/ /\ writer[w].peer \in values
        /\ writer' = [writer EXCEPT ![w] = Nothing] /\ UNCHANGED count
     \/ /\ writer[w].peer \notin values /\ count' = count + 1
        /\ writer' = [writer EXCEPT ![w].step = IF count >= NeighbourLimit THEN "overflow" ELSE "value",
                                    ![w].index = count]
  /\ UNCHANGED <<values, indices, next, unreliable, version, races>>

GiveBack(w) ==
  /\ writer[w].step = "overflow" /\ count' = count - 1
  /\ writer' = [writer EXCEPT ![w] = Nothing]
  /\ UNCHANGED <<values, indices, next, unreliable, version, races>>

\* the neighbour is stored, unless the other task has just stored it: the place
\* that was taken then stays without an index,
StoreValue(w) ==
  /\ writer[w].step = "value"
  /\ \/ /\ writer[w].peer \notin values /\ values' = values \cup {writer[w].peer}
        /\ writer' = [writer EXCEPT ![w].step = "index"]
        /\ UNCHANGED races
     \/ /\ writer[w].peer \in values /\ writer' = [writer EXCEPT ![w] = Nothing]
        /\ races' = IF writer[w].old = writer[w].peer THEN 1 ELSE races
        /\ UNCHANGED values
  /\ UNCHANGED <<indices, count, next, unreliable, version>>

\* and its index; a replacement takes the index of the old one,
StoreIndex(w) ==
  /\ writer[w].step = "index"
  /\ indices' = [i \in DOMAIN indices \cup {writer[w].index} |->
                   IF i = writer[w].index THEN writer[w].peer ELSE indices[i]]
  /\ writer' = [writer EXCEPT ![w] = IF @.old = @.peer THEN Nothing ELSE [@ EXCEPT !.step = "remove"]]
  /\ UNCHANGED <<values, count, next, unreliable, version, races>>

\* which is removed at the end.
RemoveOld(w) ==
  /\ writer[w].step = "remove"
  /\ values' = values \ {writer[w].old}
  /\ unreliable' = [unreliable EXCEPT ![writer[w].old] = 0] /\ version' = version \ {writer[w].old}
  /\ writer' = [writer EXCEPT ![w] = Nothing]
  /\ UNCHANGED <<indices, count, next, races>>

-----------------------------------------------------------------------------
(* The tasks                                                               *)

\* got_neighbours, of a full cache: the first of the most unreliable ones goes,
\* or a random one, which is never the first.
Replaceable ==
  LET worst == Max({unreliable[indices[i]] : i \in Iterated})
  IN  IF worst > StopUnreliability THEN {Min({i \in Iterated : unreliable[indices[i]] = worst})}
      ELSE IF Cardinality(Iterated) = 1 THEN Iterated ELSE Iterated \ {0}

Replace(p) ==
  /\ writer["reload"] = Nothing /\ p \notin values /\ count = NeighbourLimit /\ Iterated # {}
  /\ \E i \in Replaceable :
       writer' = [writer EXCEPT !["reload"] = [step |-> "value", peer |-> p, index |-> i, old |-> indices[i]]]
  /\ UNCHANGED <<values, indices, count, next, unreliable, version, races>>

\* Mutant of NextIndex: the last index is followed by one more.
MutNextIndex == IF next >= count THEN 0 ELSE next + 1

NextIndex == IF next >= count - 1 THEN 0 ELSE next + 1

QuerySuccess(p) == unreliable' = [unreliable EXCEPT ![p] = IF @ > 0 THEN @ - 1 ELSE @]
QueryFailed(p) == unreliable' = [unreliable EXCEPT ![p] = @ + 1]

\* update_neighbour_stats; the number of failures is bounded.
UpdateNeighbourStats(p, success) ==
  IF success THEN QuerySuccess(p) ELSE unreliable[p] <= FailUnreliability /\ QueryFailed(p)

\* next_for_ping: it fails when there is no such index.
NextForPing == next \in DOMAIN indices /\ indices[next] \in values /\ next' = NextIndex

\* ping_neighbours, update_capabilities and got_neighbour_capabilities: only an
\* answer counts, and it may tell of an old version.
Ping ==
  /\ NextForPing
  /\ \/ /\ UpdateNeighbourStats(indices[next], TRUE)
        /\ version' \in {version, version \cup {indices[next]}}
     \/ UNCHANGED <<unreliable, version>>
  /\ races' = IF count > NeighbourLimit THEN 1 ELSE races
  /\ UNCHANGED <<values, indices, count, writer>>

\* choose_neighbour
Choosable ==
  {p \in {indices[i] : i \in Iterated} :
     count = 1 \/ unreliable[p] + (IF p \in version THEN 0 ELSE VersionPenalty) <= FailUnreliability}

\* A query to a neighbour that is chosen for it,
SendAdnlQuery ==
  /\ \E p \in Choosable, success \in BOOLEAN : UpdateNeighbourStats(p, success)
  /\ UNCHANGED <<values, indices, count, next, version, writer, races>>

\* and one to the neighbour that has answered an earlier one, whatever has
\* happened to it since.
SendRldpQuery ==
  /\ \E p \in values, success \in BOOLEAN : UpdateNeighbourStats(p, success)
  /\ UNCHANGED <<values, indices, count, next, version, writer, races>>

-----------------------------------------------------------------------------
\* The cache starts with the peers that the first search has found.
NeighboursInit ==
  /\ count \in 0 .. NeighbourLimit /\ indices \in Injection(0 .. count - 1, Peers)
  /\ values = Range(indices) /\ next = 0
  /\ unreliable = [p \in Peers |-> 0] /\ version = {}
  /\ writer = [w \in Writers |-> Nothing]
  /\ races = 0

WriterStep(w) == TakePlace(w) \/ GiveBack(w) \/ StoreValue(w) \/ StoreIndex(w) \/ RemoveOld(w)

\* start_update_peers adds what the DHT has found, start_reload takes random
\* peers of the overlay, and replaces when there is no place left.
UpdatePeers == \E p \in Peers : Insert("update", p)
ReloadNeighbours == \E p \in Peers : Insert("reload", p) \/ Replace(p)

NeighboursNext ==
  \/ UpdatePeers \/ ReloadNeighbours
  \/ \E w \in Writers : WriterStep(w)
  \/ Ping \/ SendAdnlQuery \/ SendRldpQuery

NeighboursSpec == NeighboursInit /\ [][NeighboursNext]_neighbourVars

-----------------------------------------------------------------------------
(* Properties                                                              *)

\* Pings and queries reach every neighbour: whenever neither task is in the middle
\* of a change, the neighbours are those that the indices below count name, each
\* once, and the next ping finds one of them; unless the two tasks have inserted
\* one peer at the same time, whose second index stays empty, or a ping has seen
\* the place beyond the last one before it was given back (next_for_ping then
\* fails for ever, "Neighbour index is not found!").
NeighboursAreIndexed ==
  (races = 0 /\ \A w \in Writers : writer[w] = Nothing) =>
    /\ DOMAIN indices = 0 .. count - 1 /\ Range(indices) = values /\ Cardinality(values) = count
    /\ count > 0 => next \in DOMAIN indices
=============================================================================
