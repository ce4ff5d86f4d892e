---------------------- MODULE ValidatorGroups_proofs -----------------------
(***************************************************************************)
(* Proofs about the validator sessions of a node, for any masterchain, any *)
(* validator lists and any number of crashes: a handler works after the    *)
(* right blocks, a session that was stopped is not started again, and the  *)
(* peers of a running session stay reachable.                              *)
(***************************************************************************)
EXTENDS ValidatorGroups, FiniteSetTheorems, TLAPS

AnyList == Lists \cup {NoList}
StateType == [rotate : BOOLEAN, session : Nat \ {0}, lists : AnyList \X AnyList]
Statuses == {"created", "countdown", "active", "stopping", "stopped"}
GroupType ==
  [status : Statuses, start : BOOLEAN, stop : BOOLEAN, running : BOOLEAN, list : Lists,
   prevs : Nat \X Nat, round : Nat \ {0}]
ManagerType ==
  [pc : {"off", "update", "finish", "collect", "wait", "failed"}, at : Nat,
   status : {"disabled", "waiting", "countdown", "active"}, curr : AnyList, next : AnyList]

GroupsTypeOK ==
  /\ states \in Seq(StateType) /\ LastState > 0
  /\ manager \in ManagerType
  /\ IF manager.pc = "off" THEN manager.at = 0 ELSE manager.at \in 1 .. LastState
  /\ DOMAIN groups \subseteq Int /\ groups \in [DOMAIN groups -> GroupType]
  /\ stored \in [rotation : Nat, crashes : Nat] /\ stored.rotation <= LastState
  /\ decided \in [DOMAIN decided -> Seq({"block", "skip"})]
  /\ \A k \in 1 .. LastState : states[k].session \in DOMAIN decided
  /\ seen \in [destroyed : SUBSET Int, revived : BOOLEAN, misled : BOOLEAN]

NoLists(k) == states[k].lists[1] = NoList /\ states[k].lists[2] = NoList

\* The sessions of the masterchain come one after another: the lists change
\* with a rotation only, and a rotation brings another session.
ChainIsOrdered ==
  \A j, k \in 1 .. LastState : j < k =>
    /\ states[j].session <= states[k].session
    /\ states[j].session = states[k].session => states[j].lists = states[k].lists
    /\ states[k].rotate => states[j].session < states[k].session

\* The state that the manager has worked through last.
Processed == IF manager.pc \in {"update", "failed"} THEN manager.at - 1 ELSE manager.at

Stopped(s) == groups[s].status \in {"stopping", "stopped"}

\* The masterchain up to state k has no need of session s any more.
Over(s, k) == s < states[k].session \/ (s = states[k].session /\ NoLists(k))

ManagerFollows ==
  /\ manager.pc = "off" => manager.status = "disabled" /\ DOMAIN groups = {}
  /\ manager.status # "disabled" => Processed > 0 /\ ~ NoLists(Processed)
  /\ DOMAIN groups # {} => Processed > 0
  /\ manager.pc \in {"finish", "collect", "wait"} =>
       manager.curr = states[manager.at].lists[1] /\ manager.next = states[manager.at].lists[2]
  /\ manager.pc = "finish" => manager.status # "disabled"
  /\ manager.status \in {"countdown", "active"} /\ states[Processed].lists[1] # NoList =>
       states[Processed].session \in DOMAIN groups

\* k is the first state that calls for session s, q the last block decided
\* before round r.
IsFirst(k, s) == k \in 1 .. LastState /\ states[k].session = s /\ \A j \in 1 .. k - 1 : states[j].session # s
IsLast(q, s, r) ==
  /\ q = 0 \/ (q \in 1 .. r - 1 /\ decided[s][q] = "block")
  /\ \A x \in 1 .. r - 1 : decided[s][x] = "block" => x <= q

\* A group is for a future session, or knows the first state of its session and
\* its last block.
GroupsFollow ==
  \A s \in DOMAIN groups :
    /\ groups[s].stop => Stopped(s)
    /\ s <= 0 => ~ groups[s].start /\ ~ groups[s].running /\ groups[s].status \in {"created", "stopping", "stopped"}
    /\ s > 0 =>
         /\ groups[s].status # "created" /\ s <= states[Processed].session
         /\ IsFirst(groups[s].prevs[1], s) /\ states[groups[s].prevs[1]].lists[1] # NoList
         /\ IsLast(groups[s].prevs[2], s, groups[s].round)
         /\ groups[s].round <= Len(decided[s]) + 1

\* The groups that the masterchain needs no more are stopped, and no others.
StopsFollow ==
  \A s \in DOMAIN groups : s > 0 =>
    /\ Stopped(s) => Over(s, Processed)
    /\ manager.status \in {"disabled", "waiting"} => Stopped(s)
    /\ manager.pc \in {"collect", "wait"} /\ ~ Stopped(s) =>
         s = states[manager.at].session /\ manager.curr # NoList

\* What was destroyed is over; and once a group has become active in this run
\* of the node the manager is beyond all of it.
DestroyedIsOver ==
  /\ \A d \in seen.destroyed : Over(d, LastState)
  /\ manager.status = "active" \/ (\E s \in DOMAIN groups : groups[s].status = "active") =>
       \A d \in seen.destroyed : d < states[Processed].session
  /\ \A s \in DOMAIN groups : groups[s].status = "active" => s \notin seen.destroyed

Known(n, p) == {l \in n.lists : p \in ListPeers[l]}

\* Every peer of a known list is counted once for each list, from 0.
Counted(n) ==
  /\ n.lists \subseteq Lists
  /\ DOMAIN n.users = {p \in UNION {ListPeers[l] : l \in Lists} : Known(n, p) # {}}
  /\ n.reached = DOMAIN n.users
  /\ \A p \in DOMAIN n.users : n.users[p] \in Int /\ n.users[p] + 1 = Cardinality(Known(n, p))

ListsAreKnown ==
  /\ \A s \in DOMAIN groups : groups[s].list \in net.lists
  /\ manager.pc = "finish" => {manager.curr, manager.next} \subseteq net.lists \cup {NoList}

GroupsInv ==
  /\ GroupsTypeOK /\ ChainIsOrdered /\ ManagerFollows /\ GroupsFollow /\ StopsFollow /\ DestroyedIsOver
  /\ RoundsFollowTheChain /\ StoppedStaysStopped

PeersInv == Counted(net) /\ ListsAreKnown

-----------------------------------------------------------------------------
(* The operators on groups                                                 *)

\* What is not about starting and stopping is kept.
SameWork(g, h) == h.list = g.list /\ h.prevs = g.prevs /\ h.round = g.round

\* A status that comes later replaces an earlier one.
LEMMA SetStatusFacts ==
  ASSUME NEW g \in GroupType
  PROVE  /\ g.status # "stopped" => SetStatus(g, "stopping") = [g EXCEPT !.status = "stopping"]
         /\ g.status = "stopped" => SetStatus(g, "stopping") = g
         /\ SetStatus(g, "stopped") = [g EXCEPT !.status = "stopped"]
         /\ g.status = "created" =>
              \A status \in {"countdown", "active"} : SetStatus(g, status) = [g EXCEPT !.status = status]
<1>1. /\ Rank["created"] = 0 /\ Rank["countdown"] = 1 /\ Rank["active"] = 2
      /\ Rank["stopping"] = 3 /\ Rank["stopped"] = 4
  BY DEF Rank
<1>2. g.status \in {"created", "countdown", "active", "stopping", "stopped"}
  BY DEF GroupType, Statuses
<1> QED
  BY <1>1, <1>2 DEF SetStatus

LEMMA StopGroupFacts ==
  ASSUME NEW g \in GroupType
  PROVE  /\ StopGroup(g) \in GroupType /\ SameWork(g, StopGroup(g))
         /\ StopGroup(g).status \in {"stopping", "stopped"} /\ StopGroup(g).stop
         /\ StopGroup(g).start = g.start /\ StopGroup(g).running = g.running
<1>1. CASE g.status = "stopped"
  BY <1>1, SetStatusFacts DEF GroupType, StopGroup, SameWork, Statuses
<1>2. CASE g.status # "stopped"
  <2>1. PICK h \in GroupType :
          /\ h = SetStatus(g, "stopping") /\ h.status = "stopping" /\ SameWork(g, h)
          /\ h.start = g.start /\ h.running = g.running
    BY <1>2, SetStatusFacts DEF GroupType, SameWork, Statuses
  <2>2. StopGroup(g) = [h EXCEPT !.stop = TRUE]
    BY <2>1 DEF StopGroup
  <2> QED
    BY <2>1, <2>2 DEF GroupType, SameWork
<1> QED
  BY <1>1, <1>2

LEMMA NewGroupFacts ==
  ASSUME NEW l \in Lists
  PROVE  /\ NewGroup(l) \in GroupType /\ NewGroup(l).status = "created" /\ NewGroup(l).list = l
         /\ ~ NewGroup(l).start /\ ~ NewGroup(l).stop /\ ~ NewGroup(l).running /\ NewGroup(l).round = 1
  BY DEF NewGroup, GroupType, Statuses

\* start_with_status starts a new group and leaves one that was started alone.
LEMMA StartFacts ==
  ASSUME NEW g \in GroupType, NEW status \in {"countdown", "active"}, NEW k \in Nat
  PROVE  LET h == StartWithStatus(g, status, k)
         IN  /\ g.status # "created" => h = g
             /\ g.status = "created" =>
                  /\ h \in GroupType /\ h.status = status /\ h.list = g.list
                  /\ h.start /\ h.stop = g.stop /\ h.running = g.running /\ h.prevs = <<k, 0>> /\ h.round = g.round
<1>1. CASE g.status = "created"
  <2>1. PICK h \in GroupType :
          /\ h = SetStatus(g, status) /\ h.status = status /\ SameWork(g, h)
          /\ h.stop = g.stop /\ h.running = g.running
    BY <1>1, SetStatusFacts DEF GroupType, SameWork, Statuses
  <2>2. StartWithStatus(g, status, k) = [h EXCEPT !.start = TRUE, !.prevs = <<k, 0>>]
    BY <1>1, <2>1 DEF StartWithStatus
  <2>3. <<k, 0>> \in Nat \X Nat
    OBVIOUS
  <2> DEFINE e == StartWithStatus(g, status, k)
  <2>4. e \in GroupType
    BY <2>2, <2>3 DEF GroupType
  <2>5. e.status = h.status /\ e.list = h.list /\ e.start /\ e.stop = h.stop /\ e.running = h.running /\ e.round = h.round
    BY <2>2 DEF GroupType
  <2>6. e.prevs = <<k, 0>>
    BY <2>2 DEF GroupType
  <2> HIDE DEF e
  <2>7. /\ e \in GroupType /\ e.status = status /\ e.list = g.list
        /\ e.start /\ e.stop = g.stop /\ e.running = g.running /\ e.prevs = <<k, 0>> /\ e.round = g.round
    BY <2>1, <2>4, <2>5, <2>6 DEF SameWork
  <2> QED
    BY <1>1, <2>7 DEF e
<1>2. CASE g.status # "created"
  BY <1>2 DEF StartWithStatus
<1> QED
  BY <1>1, <1>2

\* stop_and_remove_sessions stops those it is given and removes the stopped ones.
LEMMA StopAndRemoveFacts ==
  ASSUME NEW g, g \in [DOMAIN g -> GroupType], NEW ids \in SUBSET DOMAIN g
  PROVE  LET h == StopAndRemove(g, ids)
         IN  /\ h \in [DOMAIN h -> GroupType] /\ DOMAIN h \subseteq DOMAIN g /\ DOMAIN g \ ids \subseteq DOMAIN h
             /\ \A s \in DOMAIN h \ ids : h[s] = g[s]
             /\ \A s \in DOMAIN h \cap ids :
                  /\ SameWork(g[s], h[s]) /\ h[s].start = g[s].start /\ h[s].running = g[s].running
                  /\ h[s].status \in {"stopping", "stopped"}
<1> DEFINE h == StopAndRemove(g, ids)
<1>1. DOMAIN h = DOMAIN g \ {s \in ids : g[s].status = "stopped"}
  BY DEF StopAndRemove
<1>2. ASSUME NEW s \in DOMAIN h
      PROVE  g[s] \in GroupType /\ h[s] = IF s \in ids /\ g[s].status # "stopping" THEN StopGroup(g[s]) ELSE g[s]
  BY <1>1, <1>2 DEF StopAndRemove
<1>3. h = [s \in DOMAIN h |-> h[s]]
  BY DEF StopAndRemove
<1> QED
  BY <1>1, <1>2, <1>3, StopGroupFacts DEF SameWork

\* The numbers of future sessions are not those of sessions.
LEMMA FutureSessionFacts ==
  ASSUME NEW k \in Nat
  PROVE  FutureSession(k) \in Int /\ FutureSession(k) <= 0
<1> DEFINE S == {j \in 1 .. k : states[j].rotate}
<1>1. IsFiniteSet(1 .. k)
  BY FS_Interval
<1>2. IsFiniteSet(S)
  BY <1>1, FS_Subset
<1>3. Cardinality(S) \in Nat
  BY <1>2, FS_CardinalityType
<1> QED
  BY <1>3 DEF FutureSession

\* The extrema that a handler computes, when they are known.
LEMMA FirstStateIs ==
  ASSUME GroupsTypeOK, NEW k, NEW s, IsFirst(k, s)
  PROVE  FirstState(s) = k
<1> DEFINE S == {j \in 1 .. LastState : states[j].session = s}
<1>1. LastState \in Nat
  BY DEF GroupsTypeOK, LastState
<1>2. k \in S /\ \A j \in S : k <= j
  BY <1>1 DEF IsFirst
<1>3. \A x \in S : (\A y \in S : x <= y) => x = k
  BY <1>1, <1>2
<1> QED
  BY <1>2, <1>3 DEF FirstState, Min

LEMMA LastDecidedIs ==
  ASSUME NEW r \in Nat, NEW q, NEW s, IsLast(q, s, r)
  PROVE  LastDecided(s, r) = q
<1> DEFINE S == {0} \cup {x \in 1 .. r - 1 : decided[s][x] = "block"}
<1>1. q \in S /\ \A x \in S : x <= q
  BY DEF IsLast
<1>2. \A x \in S : x \in Int
  OBVIOUS
<1>3. \A x \in S : (\A y \in S : x >= y) => x = q
  BY <1>1, <1>2
<1>4. \A y \in S : q >= y
  BY <1>1, <1>2
<1> QED
  BY <1>1, <1>3, <1>4 DEF LastDecided, Max

-----------------------------------------------------------------------------
(* The invariant of sessions: one lemma for each action                    *)

GroupParts == ManagerFollows /\ GroupsFollow /\ StopsFollow /\ DestroyedIsOver

LEMMA GroupsInitHolds == GroupsInit => GroupsInv
<1> SUFFICES ASSUME GroupsInit PROVE GroupsInv
  OBVIOUS
<1>1. (CHOOSE l \in Lists : TRUE) \in Lists
  BY ListsAssumption
<1>2. PICK l \in Lists : states = <<[rotate |-> TRUE, session |-> 1, lists |-> <<l, NoList>>]>>
  BY <1>1 DEF GroupsInit
<1>3. states \in Seq(StateType) /\ LastState = 1 /\ states[1].session = 1
  BY <1>2 DEF StateType, AnyList, LastState
<1>4. DOMAIN groups = {} /\ manager.pc = "off" /\ manager.status = "disabled"
  BY DEF GroupsInit, Nobody, NoManager
<1>5. groups \in [DOMAIN groups -> GroupType]
  BY DEF GroupsInit, Nobody
<1>6. decided \in [DOMAIN decided -> Seq({"block", "skip"})] /\ 1 \in DOMAIN decided
  BY DEF GroupsInit
<1>7. GroupsTypeOK
  BY <1>3, <1>4, <1>5, <1>6 DEF GroupsInit, GroupsTypeOK, NoManager, ManagerType, AnyList
<1>8. GroupParts /\ ChainIsOrdered /\ RoundsFollowTheChain /\ StoppedStaysStopped
  BY <1>3, <1>4 DEF GroupsInit, GroupParts, ManagerFollows, GroupsFollow, StopsFollow, DestroyedIsOver, ChainIsOrdered,
    RoundsFollowTheChain, StoppedStaysStopped, NoManager
<1> QED
  BY <1>7, <1>8 DEF GroupsInv, GroupParts

\* The manager goes on to state k.
Moved(m, k) == [m EXCEPT !.pc = "update", !.at = k]

LEMMA ManagerMoves ==
  ASSUME NEW m \in ManagerType, NEW k \in Nat
  PROVE  /\ Moved(m, k) \in ManagerType /\ Moved(m, k).pc = "update" /\ Moved(m, k).at = k
         /\ Moved(m, k).status = m.status /\ Moved(m, k).curr = m.curr /\ Moved(m, k).next = m.next
  BY DEF ManagerType, Moved

\* What the manager itself changes.
LEMMA InvokeHolds == GroupsInv /\ Invoke => GroupsInv'
<1> SUFFICES ASSUME GroupsInv, Invoke PROVE GroupsInv'
  OBVIOUS
<1>1. /\ manager.pc = "off" /\ manager'.pc = "update" /\ manager'.status = manager.status
      /\ manager' \in ManagerType /\ manager'.at \in 1 .. LastState
      /\ UNCHANGED <<states, groups, net, stored, decided, seen>>
  <2> DEFINE k == IF stored.rotation = 0 THEN LastState ELSE stored.rotation
  <2>1. LastState \in Nat /\ k \in 1 .. LastState
    BY DEF GroupsInv, GroupsTypeOK, LastState
  <2>2. manager \in ManagerType /\ manager.pc = "off" /\ manager' = Moved(manager, k)
    BY DEF Moved, Invoke, GroupsInv, GroupsTypeOK
  <2> HIDE DEF k
  <2>3. manager' \in ManagerType /\ manager'.pc = "update" /\ manager'.status = manager.status /\ manager'.at = k
    BY <2>1, <2>2, ManagerMoves
  <2> QED
    BY <2>1, <2>2, <2>3 DEF Invoke
<1>2. DOMAIN groups = {} /\ manager'.status = "disabled"
  BY <1>1 DEF GroupsInv, ManagerFollows
<1>3. GroupsTypeOK'
  BY <1>1 DEF GroupsInv, GroupsTypeOK, LastState
<1>4. ManagerFollows' /\ GroupsFollow' /\ StopsFollow'
  BY <1>1, <1>2 DEF ManagerFollows, GroupsFollow, StopsFollow
<1>5. DestroyedIsOver'
  BY <1>1, <1>2 DEF GroupsInv, DestroyedIsOver, Over, NoLists, LastState
<1> QED
  BY <1>1, <1>3, <1>4, <1>5 DEF GroupsInv, ChainIsOrdered, LastState, RoundsFollowTheChain, StoppedStaysStopped

LEMMA NodeStopsHolds == GroupsInv /\ NodeStops => GroupsInv'
<1> SUFFICES ASSUME GroupsInv, NodeStops PROVE GroupsInv'
  OBVIOUS
<1>1. /\ manager'.pc = "off" /\ manager'.at = 0 /\ manager'.status = "disabled" /\ DOMAIN groups' = {}
      /\ manager' \in ManagerType /\ groups' \in [DOMAIN groups' -> GroupType]
      /\ UNCHANGED <<states, decided, seen>>
  BY DEF NodeStops, NoManager, Nobody, ManagerType, AnyList
<1>2. stored' \in [rotation : Nat, crashes : Nat] /\ stored'.rotation = stored.rotation
  BY DEF NodeStops, GroupsInv, GroupsTypeOK
<1>3. GroupsTypeOK'
  BY <1>1, <1>2 DEF GroupsInv, GroupsTypeOK, LastState
<1>4. ManagerFollows' /\ GroupsFollow' /\ StopsFollow'
  BY <1>1 DEF ManagerFollows, GroupsFollow, StopsFollow
<1>5. DestroyedIsOver'
  BY <1>1 DEF GroupsInv, DestroyedIsOver, Over, NoLists, LastState
<1> QED
  BY <1>1, <1>3, <1>4, <1>5 DEF GroupsInv, ChainIsOrdered, LastState, RoundsFollowTheChain, StoppedStaysStopped

\* A step of the manager that goes on to its next stage or to the next state.
LEMMA StageHolds ==
  ASSUME GroupsInv, ListsFail \/ NextState \/ GarbageCollectLists
  PROVE  GroupsInv'
<1>1. /\ manager' \in ManagerType /\ manager'.at \in Nat
      /\ manager'.status = manager.status /\ manager'.curr = manager.curr /\ manager'.next = manager.next
      /\ \/ manager.pc = "update" /\ manager'.pc = "failed" /\ manager'.at = manager.at
         \/ manager.pc = "wait" /\ manager'.pc = "update" /\ manager'.at = manager.at + 1 /\ manager.at < LastState
         \/ manager.pc = "collect" /\ manager'.pc \in {"collect", "wait"} /\ manager'.at = manager.at
      /\ UNCHANGED <<states, groups, stored, decided, seen>>
  <2>1. manager \in ManagerType
    BY DEF GroupsInv, GroupsTypeOK
  <2>2. CASE ListsFail
    BY <2>1, <2>2 DEF ListsFail, ManagerType
  <2>3. CASE NextState
    <3>1. manager.at + 1 \in Nat /\ manager' = Moved(manager, manager.at + 1)
      BY <2>1, <2>3 DEF NextState, ManagerType, Moved
    <3>2. /\ manager.pc = "wait" /\ manager.at < LastState
          /\ UNCHANGED <<states, groups, stored, decided, seen>>
      BY <2>3 DEF NextState
    <3> QED
      BY <2>1, <3>1, <3>2, ManagerMoves
  <2>4. CASE GarbageCollectLists
    <3>1. manager' = manager \/ manager' = [manager EXCEPT !.pc = "wait"]
      BY <2>4 DEF GarbageCollectLists
    <3> QED
      BY <2>1, <2>4, <3>1 DEF GarbageCollectLists, ManagerType
  <2> QED
    BY <2>2, <2>3, <2>4
<1>2. Processed' = Processed /\ manager'.at \in 1 .. LastState
  BY <1>1 DEF Processed, GroupsInv, GroupsTypeOK, ManagerType, LastState
<1> USE <1>1, <1>2 DEF GroupsInv
<1>3. GroupsTypeOK'
  BY DEF GroupsTypeOK, LastState
<1>4. ManagerFollows'
  BY DEF ManagerFollows, NoLists
<1>5. GroupsFollow'
  BY DEF GroupsFollow, Stopped, IsFirst, IsLast, LastState
<1>6. StopsFollow'
  BY DEF StopsFollow, Stopped, Over, NoLists
<1>7. DestroyedIsOver'
  BY DEF DestroyedIsOver, Over, NoLists, LastState
<1> QED
  BY <1>3, <1>4, <1>5, <1>6, <1>7 DEF ChainIsOrdered, LastState, RoundsFollowTheChain, StoppedStaysStopped

-----------------------------------------------------------------------------
\* The state that is worked through is one of the masterchain, and a session
\* that is over stays so.
LEMMA ProcessedFacts ==
  ASSUME GroupsInv
  PROVE  /\ LastState \in Nat /\ manager \in ManagerType
         /\ Processed > 0 => Processed \in 1 .. LastState
         /\ \A k \in 1 .. LastState : states[k] \in StateType /\ states[k].session \in Nat \ {0}
         /\ \A s \in DOMAIN groups : s \in Int /\ groups[s] \in GroupType /\ Processed \in 1 .. LastState
<1>1. LastState \in Nat /\ manager \in ManagerType /\ \A k \in 1 .. LastState : states[k] \in StateType
  BY DEF GroupsInv, GroupsTypeOK, LastState
<1>2. Processed > 0 => Processed \in 1 .. LastState
  BY <1>1 DEF GroupsInv, GroupsTypeOK, Processed, ManagerFollows, ManagerType
<1> QED
  BY <1>1, <1>2 DEF GroupsInv, GroupsTypeOK, ManagerFollows, StateType

LEMMA OverLater ==
  ASSUME GroupsInv, NEW s \in Int, NEW j \in 1 .. LastState, NEW k \in 1 .. LastState, j <= k, Over(s, j)
  PROVE  Over(s, k)
<1>1. LastState \in Nat /\ states[j].session \in Nat /\ states[k].session \in Nat
  BY ProcessedFacts
<1>2. CASE j = k
  BY <1>2
<1>3. CASE j < k
  BY <1>1, <1>3 DEF GroupsInv, ChainIsOrdered, Over, NoLists
<1> QED
  BY <1>1, <1>2, <1>3

\* What a step of one group's task leaves alone.
OneGroup(s) ==
  /\ s \in DOMAIN groups
  /\ UNCHANGED <<states, manager, stored>>
  /\ DOMAIN groups' = DOMAIN groups /\ groups' \in [DOMAIN groups' -> GroupType]
  /\ \A t \in DOMAIN groups : t # s => groups'[t] = groups[t]

\* A task that starts or stops changes none of the blocks of its group.
LEMMA WorkIsKept ==
  ASSUME GroupsInv, NEW s, OneGroup(s), SameWork(groups[s], groups'[s]), UNCHANGED decided,
         groups'[s].stop => groups'[s].status \in {"stopping", "stopped"},
         groups'[s].status # "created" \/ s <= 0,
         s <= 0 => ~ groups'[s].start /\ ~ groups'[s].running /\ groups'[s].status \in {"created", "stopping", "stopped"}
  PROVE  ManagerFollows' /\ GroupsFollow'
<1>1. Processed' = Processed
  BY DEF OneGroup, Processed
<1>2. ManagerFollows'
  BY <1>1 DEF GroupsInv, OneGroup, ManagerFollows, NoLists
<1>3. ASSUME NEW t \in DOMAIN groups PROVE SameWork(groups[t], groups'[t])
  BY <1>3 DEF OneGroup, SameWork
<1>4. UNCHANGED <<states, decided>> /\ DOMAIN groups' = DOMAIN groups
  BY DEF OneGroup
<1>5. ASSUME NEW t \in DOMAIN groups
      PROVE  /\ groups'[t].stop => groups'[t].status \in {"stopping", "stopped"}
             /\ t <= 0 => ~ groups'[t].start /\ ~ groups'[t].running /\ groups'[t].status \in {"created", "stopping", "stopped"}
             /\ t > 0 => groups'[t].status # "created"
  BY <1>5, ProcessedFacts DEF OneGroup, GroupsInv, GroupsFollow, Stopped
<1>6. ASSUME NEW t \in DOMAIN groups, t > 0
      PROVE  /\ t <= states[Processed].session
             /\ IsFirst(groups'[t].prevs[1], t) /\ states[groups'[t].prevs[1]].lists[1] # NoList
             /\ IsLast(groups'[t].prevs[2], t, groups'[t].round)
             /\ groups'[t].round <= Len(decided[t]) + 1
  BY <1>3, <1>6 DEF SameWork, GroupsInv, GroupsFollow
<1>7. GroupsFollow'
  BY <1>1, <1>4, <1>5, <1>6 DEF GroupsFollow, Stopped, IsFirst, IsLast, LastState
<1> QED
  BY <1>2, <1>7

LEMMA RunStartHolds ==
  ASSUME GroupsInv, NEW s \in DOMAIN groups, RunStart(s)
  PROVE  GroupsInv'
<1>1. groups[s] \in GroupType /\ groups[s].start /\ s \in Int /\ s > 0
  BY ProcessedFacts DEF RunStart, GroupsInv, GroupsFollow
<1>2. UNCHANGED <<states, manager, net, stored, decided>>
  BY DEF RunStart
<1>3. CASE Rank[groups[s].status] <= Rank["active"]
  <2>1. /\ groups' = [groups EXCEPT ![s] = [groups[s] EXCEPT !.start = FALSE, !.status = "active", !.running = TRUE]]
        /\ seen' = [seen EXCEPT !.revived = @ \/ s \in seen.destroyed]
    <3>1. Rank[groups[s].status] \in Int /\ Rank["active"] \in Int
      BY <1>1 DEF Rank, GroupType, Statuses
    <3> QED
      BY <1>3, <3>1 DEF RunStart, Group
  <2>2. groups[s].status \in {"countdown", "active"} /\ ~ Stopped(s) /\ ~ groups[s].stop
    BY <1>1, <1>3 DEF GroupsInv, GroupsFollow, Rank, GroupType, Statuses, Stopped
  <2>3. s \notin seen.destroyed /\ (groups[s].status = "countdown" => \A d \in seen.destroyed : d < states[Processed].session)
    <3>1. CASE groups[s].status = "active"
      BY <3>1 DEF GroupsInv, DestroyedIsOver
    <3>2. CASE groups[s].status = "countdown"
      <4>1. manager.pc = "wait" /\ manager.at = LastState /\ Processed = LastState
        BY <3>2 DEF RunStart, Processed
      <4>2. s = states[LastState].session /\ ~ NoLists(LastState)
        BY <1>1, <2>2, <4>1 DEF GroupsInv, StopsFollow, ManagerFollows, NoLists
      <4>3. \A d \in seen.destroyed : d < states[LastState].session
        BY <4>2 DEF GroupsInv, DestroyedIsOver, Over
      <4>4. LastState \in 1 .. LastState /\ states[LastState].session \in Nat
        BY <4>1, ProcessedFacts
      <4> QED
        BY <1>1, <4>1, <4>2, <4>3, <4>4
    <3> QED
      BY <2>2, <3>1, <3>2
  <2>4. seen' \in [destroyed : SUBSET Int, revived : BOOLEAN, misled : BOOLEAN] /\ seen'.destroyed = seen.destroyed
        /\ ~ seen'.revived /\ ~ seen'.misled
    BY <2>1, <2>3 DEF GroupsInv, GroupsTypeOK, StoppedStaysStopped, RoundsFollowTheChain
  <2>5. /\ groups'[s] \in GroupType /\ groups'[s].status = "active" /\ groups'[s].stop = groups[s].stop
        /\ SameWork(groups[s], groups'[s])
    BY <1>1, <2>1 DEF GroupType, Statuses, SameWork
  <2>6. OneGroup(s)
    BY <1>2, <2>1, <2>5 DEF OneGroup, GroupsInv, GroupsTypeOK
  <2>7. ManagerFollows' /\ GroupsFollow'
    BY <1>1, <1>2, <2>2, <2>5, <2>6, WorkIsKept
  <2>8. Processed' = Processed
    BY <1>2 DEF Processed
  <2>9. StopsFollow'
    BY <1>1, <1>2, <2>2, <2>5, <2>6, <2>8 DEF GroupsInv, OneGroup, StopsFollow, Stopped, Over, NoLists
  <2>10. DestroyedIsOver'
    BY <1>1, <1>2, <2>2, <2>3, <2>4, <2>5, <2>6, <2>8 DEF GroupsInv, OneGroup, DestroyedIsOver, Over, NoLists, LastState
  <2>11. GroupsTypeOK'
    BY <1>2, <2>4, <2>6 DEF GroupsInv, OneGroup, GroupsTypeOK, LastState
  <2> QED
    BY <1>2, <2>4, <2>7, <2>9, <2>10, <2>11
    DEF GroupsInv, ChainIsOrdered, LastState, RoundsFollowTheChain, StoppedStaysStopped
<1>4. CASE Rank[groups[s].status] > Rank["active"]
  <2>1. groups' = [groups EXCEPT ![s] = [groups[s] EXCEPT !.start = FALSE]] /\ seen' = seen
    BY <1>1, <1>4 DEF RunStart, Group, Rank, GroupType, Statuses
  <2>2. /\ groups'[s] \in GroupType /\ groups'[s].status = groups[s].status /\ groups'[s].stop = groups[s].stop
        /\ SameWork(groups[s], groups'[s])
    BY <1>1, <2>1 DEF GroupType, SameWork
  <2>3. OneGroup(s)
    BY <1>2, <2>1, <2>2 DEF OneGroup, GroupsInv, GroupsTypeOK
  <2>4. groups[s].stop => Stopped(s)
    BY DEF GroupsInv, GroupsFollow
  <2>5. groups[s].status # "created"
    BY <1>1 DEF GroupsInv, GroupsFollow
  <2>6. ManagerFollows' /\ GroupsFollow'
    BY <1>1, <1>2, <2>2, <2>3, <2>4, <2>5, WorkIsKept DEF Stopped
  <2>7. Processed' = Processed
    BY <1>2 DEF Processed
  <2>8. StopsFollow'
    BY <1>2, <2>2, <2>3, <2>7 DEF GroupsInv, OneGroup, StopsFollow, Stopped, Over, NoLists
  <2>9. DestroyedIsOver'
    BY <1>2, <2>1, <2>2, <2>3, <2>7 DEF GroupsInv, OneGroup, DestroyedIsOver, Over, NoLists, LastState
  <2>10. GroupsTypeOK'
    BY <1>2, <2>1, <2>3 DEF GroupsInv, OneGroup, GroupsTypeOK, LastState
  <2> QED
    BY <1>2, <2>1, <2>6, <2>8, <2>9, <2>10
    DEF GroupsInv, ChainIsOrdered, LastState, RoundsFollowTheChain, StoppedStaysStopped
<1> QED
  BY <1>3, <1>4 DEF RunStart

LEMMA RunStopHolds ==
  ASSUME GroupsInv, NEW s \in DOMAIN groups, RunStop(s)
  PROVE  GroupsInv'
<1>1. groups[s] \in GroupType /\ s \in Int /\ Stopped(s) /\ (groups[s].running => s > 0) /\ Processed \in 1 .. LastState
  BY ProcessedFacts DEF RunStop, GroupsInv, GroupsFollow
<1>2. UNCHANGED <<states, manager, net, stored, decided>>
  BY DEF RunStop
<1>3. PICK h \in GroupType :
        h = SetStatus(groups[s], "stopped") /\ h.status = "stopped" /\ SameWork(groups[s], h) /\ h.start = groups[s].start
  BY <1>1, SetStatusFacts DEF GroupType, Statuses, SameWork
<1>4. groups' = [groups EXCEPT ![s] = [h EXCEPT !.stop = FALSE, !.running = FALSE]]
  BY <1>3 DEF RunStop, Group
<1>5. /\ groups'[s] \in GroupType /\ groups'[s].status = "stopped" /\ SameWork(groups[s], groups'[s])
      /\ groups'[s].start = groups[s].start /\ ~ groups'[s].running
  BY <1>3, <1>4 DEF GroupType, SameWork
<1>6. OneGroup(s)
  BY <1>2, <1>4, <1>5 DEF OneGroup, GroupsInv, GroupsTypeOK
<1>7. ManagerFollows' /\ GroupsFollow'
  <2>1. s <= 0 => ~ groups[s].start
    BY DEF GroupsInv, GroupsFollow
  <2> QED
    BY <1>2, <1>5, <1>6, <2>1, WorkIsKept
<1>8. /\ seen' \in [destroyed : SUBSET Int, revived : BOOLEAN, misled : BOOLEAN]
      /\ seen'.destroyed \subseteq seen.destroyed \cup (IF s > 0 THEN {s} ELSE {})
      /\ ~ seen'.revived /\ ~ seen'.misled
  BY <1>1 DEF RunStop, GroupsInv, GroupsTypeOK, StoppedStaysStopped, RoundsFollowTheChain
<1>9. Processed' = Processed
  BY <1>2 DEF Processed
<1>10. StopsFollow'
  BY <1>1, <1>2, <1>5, <1>6, <1>9 DEF GroupsInv, OneGroup, StopsFollow, Stopped, Over, NoLists
<1>11. DestroyedIsOver'
  <2>1. s > 0 => Over(s, Processed) /\ Over(s, LastState)
    <3>1. LastState \in 1 .. LastState /\ Processed <= LastState
      BY <1>1, ProcessedFacts
    <3> QED
      BY <1>1, <3>1, OverLater DEF GroupsInv, StopsFollow
  <2>2. ASSUME NEW t \in DOMAIN groups, groups[t].status = "active" PROVE t > 0 /\ ~ NoLists(Processed)
    <3>1. t > 0
      BY <2>2, ProcessedFacts DEF GroupsInv, GroupsFollow
    <3>2. manager.status \notin {"disabled", "waiting"}
      BY <2>2, <3>1 DEF GroupsInv, StopsFollow, Stopped
    <3> QED
      BY <3>1, <3>2 DEF GroupsInv, ManagerFollows
  <2>3. manager.status = "active" => ~ NoLists(Processed)
    BY DEF GroupsInv, ManagerFollows
  <2>4. \A d \in seen'.destroyed : Over(d, LastState)
    BY <1>8, <2>1 DEF GroupsInv, DestroyedIsOver
  <2>5. \A t \in DOMAIN groups' : groups'[t].status = "active" => t # s /\ groups[t].status = "active"
    BY <1>5, <1>6 DEF OneGroup
  <2>6. manager.status = "active" \/ (\E t \in DOMAIN groups : groups[t].status = "active") =>
          \A d \in seen'.destroyed : d < states[Processed].session
    BY <1>8, <2>1, <2>2, <2>3 DEF GroupsInv, DestroyedIsOver, Over
  <2>7. \A t \in DOMAIN groups' : groups'[t].status = "active" => t \notin seen'.destroyed
    BY <1>6, <1>8, <2>5 DEF GroupsInv, DestroyedIsOver, OneGroup
  <2> QED
    BY <1>2, <1>6, <1>9, <2>4, <2>5, <2>6, <2>7 DEF DestroyedIsOver, OneGroup, Over, NoLists, LastState
<1>12. GroupsTypeOK'
  BY <1>2, <1>6, <1>8 DEF GroupsInv, OneGroup, GroupsTypeOK, LastState
<1> QED
  BY <1>2, <1>7, <1>8, <1>10, <1>11, <1>12
  DEF GroupsInv, ChainIsOrdered, LastState, RoundsFollowTheChain, StoppedStaysStopped

-----------------------------------------------------------------------------
\* The blocks that a running group works after are those of the headers.
LEMMA PrevsAreHeaders ==
  ASSUME GroupsInv, NEW s \in DOMAIN groups, groups[s].running
  PROVE  /\ s > 0 /\ s \in DOMAIN decided /\ groups[s].round \in Nat \ {0}
         /\ groups[s].prevs = HeaderPrevs(s, groups[s].round)
<1>1. groups[s] \in GroupType /\ s \in Int /\ GroupsTypeOK
  BY ProcessedFacts DEF GroupsInv
<1>2. s > 0
  BY <1>1 DEF GroupsInv, GroupsFollow
<1>3. IsFirst(groups[s].prevs[1], s) /\ IsLast(groups[s].prevs[2], s, groups[s].round)
  BY <1>2 DEF GroupsInv, GroupsFollow
<1>4. groups[s].prevs \in Nat \X Nat /\ groups[s].round \in Nat \ {0}
  BY <1>1 DEF GroupType
<1>5. groups[s].prevs[1] = FirstState(s) /\ groups[s].prevs[2] = LastDecided(s, groups[s].round)
  BY <1>1, <1>3, <1>4, FirstStateIs, LastDecidedIs
<1>6. groups[s].prevs = <<groups[s].prevs[1], groups[s].prevs[2]>>
  BY <1>4
<1>7. s \in DOMAIN decided
  BY <1>1, <1>3 DEF IsFirst, GroupsTypeOK
<1> QED
  BY <1>2, <1>4, <1>5, <1>6, <1>7 DEF HeaderPrevs

\* A handler leaves the start and the stop of its group alone.
LEMMA HandlerHolds ==
  ASSUME GroupsInv, NEW s, OneGroup(s), groups[s].running,
         groups'[s].status = groups[s].status, groups'[s].start = groups[s].start,
         groups'[s].stop = groups[s].stop, groups'[s].running = groups[s].running,
         groups'[s].prevs[1] = groups[s].prevs[1],
         decided' \in [DOMAIN decided -> Seq({"block", "skip"})],
         \A t \in DOMAIN decided : t # s => decided'[t] = decided[t],
         IsLast(groups[s].prevs[2], s, groups[s].round)', groups'[s].round <= Len(decided'[s]) + 1,
         seen' = seen
  PROVE  GroupsInv'
<1>1. Processed' = Processed /\ s > 0 /\ UNCHANGED <<states, manager, stored>> /\ DOMAIN groups' = DOMAIN groups
  BY PrevsAreHeaders DEF OneGroup, Processed
<1>2. ManagerFollows'
  BY <1>1 DEF GroupsInv, ManagerFollows, NoLists
<1>3. ASSUME NEW t \in DOMAIN groups
      PROVE  groups'[t].status = groups[t].status /\ groups'[t].start = groups[t].start
             /\ groups'[t].stop = groups[t].stop /\ groups'[t].running = groups[t].running
             /\ groups'[t].prevs[1] = groups[t].prevs[1]
  BY <1>3 DEF OneGroup
<1>4. ASSUME NEW t \in DOMAIN groups, t > 0
      PROVE  IsLast(groups[t].prevs[2], t, groups[t].round)' /\ groups'[t].round <= Len(decided'[t]) + 1
  <2>1. CASE t = s
    BY <2>1
  <2>2. CASE t # s
    <3>1. IsFirst(groups[t].prevs[1], t)
      BY <1>4 DEF GroupsInv, GroupsFollow
    <3>2. t \in DOMAIN decided
      BY <3>1 DEF IsFirst, GroupsInv, GroupsTypeOK
    <3> QED
      BY <1>4, <2>2, <3>2 DEF OneGroup, GroupsInv, GroupsFollow, IsLast
  <2> QED
    BY <2>1, <2>2
<1>5. ASSUME NEW t \in DOMAIN groups, t > 0
      PROVE  IsFirst(groups[t].prevs[1], t)' /\ (states[groups[t].prevs[1]].lists[1] # NoList)'
  <2>1. IsFirst(groups[t].prevs[1], t) /\ states[groups[t].prevs[1]].lists[1] # NoList
    BY <1>5 DEF GroupsInv, GroupsFollow
  <2>2. UNCHANGED states /\ groups'[t].prevs[1] = groups[t].prevs[1]
    BY <1>1, <1>3
  <2> QED
    BY <2>1, <2>2 DEF IsFirst, LastState
<1>6. GroupsFollow'
  <2>1. ASSUME NEW t \in DOMAIN groups
        PROVE  /\ groups'[t].stop => groups'[t].status \in {"stopping", "stopped"}
               /\ t <= 0 => ~ groups'[t].start /\ ~ groups'[t].running /\ groups'[t].status \in {"created", "stopping", "stopped"}
               /\ t > 0 => groups'[t].status # "created" /\ t <= states[Processed].session
    BY <1>3 DEF GroupsInv, GroupsFollow, Stopped
  <2>2. UNCHANGED states /\ Processed' = Processed /\ DOMAIN groups' = DOMAIN groups
    BY <1>1
  <2> QED
    BY <1>4, <1>5, <2>1, <2>2 DEF GroupsFollow, Stopped
<1>7. StopsFollow'
  BY <1>1, <1>3 DEF GroupsInv, StopsFollow, Stopped, Over, NoLists
<1>8. DestroyedIsOver'
  BY <1>1, <1>3 DEF GroupsInv, DestroyedIsOver, Over, NoLists, LastState
<1>9. GroupsTypeOK'
  BY <1>1 DEF GroupsInv, OneGroup, GroupsTypeOK, LastState
<1> QED
  BY <1>1, <1>2, <1>6, <1>7, <1>8, <1>9
  DEF GroupsInv, ChainIsOrdered, LastState, RoundsFollowTheChain, StoppedStaysStopped

\* The decision of a round is kept, and those of the earlier ones are.
LEMMA DecidesFacts ==
  ASSUME GroupsInv, NEW s \in DOMAIN groups, NEW what \in {"block", "skip"}, Decides(s, groups[s].round, what)
  PROVE  /\ groups[s].running
         /\ decided' \in [DOMAIN decided -> Seq({"block", "skip"})]
         /\ \A t \in DOMAIN decided : t # s => decided'[t] = decided[t]
         /\ groups[s].round \in 1 .. Len(decided'[s]) /\ decided'[s][groups[s].round] = what
         /\ \A q \in 1 .. groups[s].round - 1 : decided'[s][q] = decided[s][q]
<1> DEFINE r == groups[s].round
<1>1. groups[s].running /\ s > 0 /\ s \in DOMAIN decided /\ r \in Nat \ {0}
  BY PrevsAreHeaders DEF Decides
<1>2. r <= Len(decided[s]) + 1 /\ decided \in [DOMAIN decided -> Seq({"block", "skip"})]
  BY <1>1 DEF GroupsInv, GroupsFollow, GroupsTypeOK
<1>3. decided[s] \in Seq({"block", "skip"}) /\ DOMAIN decided[s] = 1 .. Len(decided[s]) /\ Len(decided[s]) \in Nat
  BY <1>1, <1>2
<1>4. CASE decided' = decided /\ r \in DOMAIN decided[s] /\ decided[s][r] = what
  BY <1>1, <1>2, <1>3, <1>4
<1>5. CASE r \notin DOMAIN decided[s] /\ decided' = [decided EXCEPT ![s] = Append(@, what)]
  <2>1. r = Len(decided[s]) + 1
    BY <1>1, <1>2, <1>3, <1>5
  <2>2. decided'[s] = Append(decided[s], what)
    BY <1>1, <1>5
  <2>3. decided'[s] \in Seq({"block", "skip"}) /\ Len(decided'[s]) = Len(decided[s]) + 1 /\ decided'[s][r] = what
        /\ \A q \in 1 .. r - 1 : decided'[s][q] = decided[s][q]
    BY <1>3, <2>1, <2>2
  <2> QED
    BY <1>1, <1>2, <1>3, <1>5, <2>1, <2>3
<1> QED
  BY <1>4, <1>5 DEF Decides

LEMMA OnRoundHolds ==
  ASSUME GroupsInv, NEW s \in DOMAIN groups, OnRound(s, groups[s].round)
  PROVE  GroupsInv'
<1>1. groups[s].running /\ UNCHANGED <<states, manager, groups, net, stored, decided>>
  BY DEF OnRound
<1>2. groups[s].prevs = HeaderPrevs(s, groups[s].round)
  BY <1>1, PrevsAreHeaders
<1>3. seen' = seen
  <2>1. seen' = [seen EXCEPT !.misled = seen.misled]
    BY <1>2 DEF OnRound, Follows, GroupsInv, GroupsTypeOK
  <2> QED
    BY <2>1 DEF GroupsInv, GroupsTypeOK
<1> QED
  BY <1>1, <1>3 DEF GroupsInv, GroupsTypeOK, ChainIsOrdered, ManagerFollows, GroupsFollow, StopsFollow, DestroyedIsOver,
    RoundsFollowTheChain, StoppedStaysStopped, LastState, Processed, Stopped, Over, NoLists, IsFirst, IsLast

LEMMA OnBlockSkippedHolds ==
  ASSUME GroupsInv, NEW s \in DOMAIN groups, OnBlockSkipped(s, groups[s].round)
  PROVE  GroupsInv'
<1> DEFINE r == groups[s].round
<1>1. /\ groups[s].running
      /\ decided' \in [DOMAIN decided -> Seq({"block", "skip"})]
      /\ \A t \in DOMAIN decided : t # s => decided'[t] = decided[t]
      /\ r \in 1 .. Len(decided'[s]) /\ decided'[s][r] = "skip"
      /\ \A q \in 1 .. r - 1 : decided'[s][q] = decided[s][q]
  BY DecidesFacts DEF OnBlockSkipped
<1>2. groups[s] \in GroupType /\ r \in Nat \ {0} /\ s > 0 /\ s \in DOMAIN decided
  BY <1>1, ProcessedFacts, PrevsAreHeaders
<1>3. groups' = [groups EXCEPT ![s] = [groups[s] EXCEPT !.round = r + 1]]
      /\ UNCHANGED <<states, manager, net, stored, seen>>
  BY DEF OnBlockSkipped, Group
<1>4. /\ groups'[s] \in GroupType /\ groups'[s].status = groups[s].status /\ groups'[s].start = groups[s].start
      /\ groups'[s].stop = groups[s].stop /\ groups'[s].running = groups[s].running
      /\ groups'[s].prevs = groups[s].prevs /\ groups'[s].round = r + 1
  BY <1>2, <1>3 DEF GroupType
<1>5. OneGroup(s)
  BY <1>3, <1>4 DEF OneGroup, GroupsInv, GroupsTypeOK
<1>6. IsLast(groups[s].prevs[2], s, r)
  BY <1>2 DEF GroupsInv, GroupsFollow
<1>7. IsLast(groups[s].prevs[2], s, groups[s].round)'
  <2>1. \A x \in 1 .. (r + 1) - 1 : x = r \/ x \in 1 .. r - 1
    BY <1>2
  <2>2. 1 .. r - 1 \subseteq 1 .. (r + 1) - 1
    BY <1>2
  <2> QED
    BY <1>1, <1>4, <1>6, <2>1, <2>2 DEF IsLast
<1>8. groups'[s].round <= Len(decided'[s]) + 1
  BY <1>1, <1>2, <1>4
<1> QED
  BY <1>1, <1>3, <1>4, <1>5, <1>7, <1>8, HandlerHolds

LEMMA CommittedFacts ==
  ASSUME NEW g \in GroupType, NEW r \in Nat, NEW accepted
  PROVE  LET h == Committed(g, r, accepted)
         IN  /\ h \in GroupType /\ h.status = g.status /\ h.start = g.start /\ h.stop = g.stop
             /\ h.running = g.running /\ h.prevs[1] = g.prevs[1] /\ h.prevs[2] = r /\ h.round = r + 1
<1> DEFINE h == Committed(g, r, accepted)
<1>1. r + 1 \in Nat \ {0} /\ <<g.prevs[1], r>> \in Nat \X Nat
  BY DEF GroupType
<1>2. h = [g EXCEPT !.round = r + 1, !.prevs = <<g.prevs[1], r>>]
  BY DEF Committed
<1> HIDE DEF h
<1>3. h \in GroupType
  BY <1>1, <1>2 DEF GroupType
<1>4. h.status = g.status /\ h.start = g.start /\ h.stop = g.stop /\ h.running = g.running /\ h.round = r + 1
  BY <1>2 DEF GroupType
<1>5. h.prevs = <<g.prevs[1], r>>
  BY <1>2 DEF GroupType
<1>6. h.prevs[1] = g.prevs[1] /\ h.prevs[2] = r
  BY <1>5
<1> QED
  BY <1>3, <1>4, <1>6 DEF h

LEMMA OnBlockCommittedHolds ==
  ASSUME GroupsInv, NEW s \in DOMAIN groups, NEW accepted, OnBlockCommitted(s, groups[s].round, accepted)
  PROVE  GroupsInv'
<1> DEFINE r == groups[s].round
<1>1. /\ groups[s].running
      /\ decided' \in [DOMAIN decided -> Seq({"block", "skip"})]
      /\ \A t \in DOMAIN decided : t # s => decided'[t] = decided[t]
      /\ r \in 1 .. Len(decided'[s]) /\ decided'[s][r] = "block"
      /\ \A q \in 1 .. r - 1 : decided'[s][q] = decided[s][q]
  BY DecidesFacts DEF OnBlockCommitted
<1>2. /\ groups[s] \in GroupType /\ r \in Nat \ {0} /\ s > 0 /\ s \in DOMAIN decided
      /\ groups[s].prevs = HeaderPrevs(s, r)
  BY <1>1, ProcessedFacts, PrevsAreHeaders
<1>3. groups' = [groups EXCEPT ![s] = Committed(groups[s], r, accepted)]
      /\ UNCHANGED <<states, manager, net, stored>>
  BY DEF OnBlockCommitted, Group
<1>4. /\ groups'[s] \in GroupType /\ groups'[s].status = groups[s].status /\ groups'[s].start = groups[s].start
      /\ groups'[s].stop = groups[s].stop /\ groups'[s].running = groups[s].running
      /\ groups'[s].prevs[1] = groups[s].prevs[1] /\ groups'[s].prevs[2] = r /\ groups'[s].round = r + 1
  <2>1. groups'[s] = Committed(groups[s], r, accepted)
    BY <1>3
  <2> QED
    BY <1>2, <2>1, CommittedFacts
<1>5. OneGroup(s)
  BY <1>3, <1>4 DEF OneGroup, GroupsInv, GroupsTypeOK
<1>6. seen' = seen
  <2>1. seen' = [seen EXCEPT !.misled = seen.misled]
    BY <1>2 DEF OnBlockCommitted, Follows, GroupsInv, GroupsTypeOK
  <2> QED
    BY <2>1 DEF GroupsInv, GroupsTypeOK
<1>7. IsLast(groups[s].prevs[2], s, groups[s].round)'
  <2>1. \A x \in 1 .. (r + 1) - 1 : x <= r
    BY <1>2
  <2>2. r \in 1 .. (r + 1) - 1
    BY <1>2
  <2> QED
    BY <1>1, <1>4, <2>1, <2>2 DEF IsLast
<1>8. groups'[s].round <= Len(decided'[s]) + 1
  BY <1>1, <1>2, <1>4
<1> QED
  BY <1>1, <1>4, <1>5, <1>6, <1>7, <1>8, HandlerHolds

-----------------------------------------------------------------------------
\* A state that comes goes on where the last one was.
LEMMA NextStateFacts ==
  ASSUME GroupsTypeOK, NEW st \in NextStates
  PROVE  LET last == states[LastState]
         IN  /\ last \in StateType /\ st \in StateType
             /\ st.session \in {last.session, last.session + 1}
             /\ st.rotate => st.session = last.session + 1
             /\ st.session = last.session => st.lists = last.lists
<1> DEFINE last == states[LastState]
<1> DEFINE fresh == last.session + 1
<1> DEFINE key == {<<last.lists[2], NoList>>} \cup {<<last.lists[1], l>> : l \in Lists \ Range(last.lists)}
<1>1. last \in StateType
  BY DEF GroupsTypeOK, LastState
<1>2. last.lists \in AnyList \X AnyList /\ last.session \in Nat \ {0}
  BY <1>1 DEF StateType
<1>3. key \cup {last.lists} \subseteq AnyList \X AnyList
  BY <1>2 DEF AnyList
<1>4. \/ \E ls \in key \cup {last.lists} : st = [rotate |-> TRUE, session |-> fresh, lists |-> ls]
      \/ \E s \in {last.session, fresh} : st = [rotate |-> FALSE, session |-> s, lists |-> last.lists]
  BY DEF NextStates
<1> HIDE DEF key
<1>5. st \in StateType
  <2>1. fresh \in Nat \ {0}
    BY <1>2
  <2>2. PICK ls \in AnyList \X AnyList, s \in Nat \ {0}, b \in BOOLEAN : st = [rotate |-> b, session |-> s, lists |-> ls]
    BY <1>2, <1>3, <1>4, <2>1
  <2> QED
    BY <2>2 DEF StateType
<1> QED
  BY <1>1, <1>2, <1>4, <1>5

LEMMA NewMasterStateHolds ==
  ASSUME GroupsInv, NEW st \in NextStates, NewMasterState(st)
  PROVE  GroupsInv'
<1> DEFINE n == LastState
<1>1. /\ n \in Nat \ {0} /\ states \in Seq(StateType) /\ states' = Append(states, st)
      /\ UNCHANGED <<manager, groups, net, stored, seen>>
  BY DEF GroupsInv, GroupsTypeOK, LastState, NewMasterState
<1>2. /\ st \in StateType /\ st.session \in {states[n].session, states[n].session + 1}
      /\ st.rotate => st.session = states[n].session + 1
      /\ st.session = states[n].session => st.lists = states[n].lists
  BY NextStateFacts DEF GroupsInv
<1>3. /\ states' \in Seq(StateType) /\ LastState' = n + 1 /\ states'[n + 1] = st
      /\ \A k \in 1 .. n : states'[k] = states[k]
  BY <1>1, <1>2 DEF LastState
<1>4. \A k \in 1 .. n : states[k].session \in Nat
  BY ProcessedFacts
<1>5. ChainIsOrdered'
  <2>1. ASSUME NEW j \in 1 .. n
        PROVE  /\ states[j].session <= st.session
               /\ states[j].session = st.session => states[j].lists = st.lists
               /\ st.rotate => states[j].session < st.session
    <3>1. n \in 1 .. n
      BY <1>1
    <3>2. CASE j = n
      BY <1>2, <1>4, <3>1, <3>2
    <3>3. CASE j < n
      <4>1. /\ states[j].session <= states[n].session
            /\ states[j].session = states[n].session => states[j].lists = states[n].lists
        BY <3>1, <3>3 DEF GroupsInv, ChainIsOrdered
      <4>2. states[j].session \in Nat /\ states[n].session \in Nat
        BY <1>4, <3>1
      <4> QED
        BY <1>2, <4>1, <4>2
    <3> QED
      BY <1>1, <3>2, <3>3
  <2>2. ASSUME NEW j \in 1 .. n + 1, NEW k \in 1 .. n + 1, j < k
        PROVE  /\ states'[j].session <= states'[k].session
               /\ states'[j].session = states'[k].session => states'[j].lists = states'[k].lists
               /\ states'[k].rotate => states'[j].session < states'[k].session
    <3>1. j \in 1 .. n /\ (k \in 1 .. n \/ k = n + 1)
      BY <1>1, <2>2
    <3>2. CASE k = n + 1
      BY <1>3, <2>1, <3>1, <3>2
    <3>3. CASE k \in 1 .. n
      BY <1>3, <2>2, <3>1, <3>3 DEF GroupsInv, ChainIsOrdered
    <3> QED
      BY <3>1, <3>2, <3>3
  <2> QED
    BY <1>3, <2>2 DEF ChainIsOrdered
<1>6. /\ decided' \in [DOMAIN decided' -> Seq({"block", "skip"})]
      /\ DOMAIN decided \subseteq DOMAIN decided' /\ st.session \in DOMAIN decided'
      /\ \A t \in DOMAIN decided : decided'[t] = decided[t]
  <2>1. CASE st.session \in DOMAIN decided
    BY <2>1 DEF NewMasterState, GroupsInv, GroupsTypeOK
  <2>2. CASE st.session \notin DOMAIN decided
    <3>1. decided' = [x \in DOMAIN decided \cup {st.session} |-> IF x = st.session THEN <<>> ELSE decided[x]]
      BY <2>2 DEF NewMasterState, With
    <3>2. <<>> \in Seq({"block", "skip"})
      OBVIOUS
    <3> QED
      BY <2>2, <3>1, <3>2 DEF GroupsInv, GroupsTypeOK
  <2> QED
    BY <2>1, <2>2
<1>7. GroupsTypeOK'
  <2>1. \A k \in 1 .. n + 1 : states'[k].session \in DOMAIN decided'
    <3>1. \A k \in 1 .. n + 1 : k \in 1 .. n \/ k = n + 1
      BY <1>1
    <3> QED
      BY <1>3, <1>6, <3>1 DEF GroupsInv, GroupsTypeOK
  <2>2. manager.at \in 1 .. n => manager.at \in 1 .. n + 1
    BY <1>1
  <2>3. stored.rotation <= n + 1 /\ n + 1 > 0
    BY <1>1 DEF GroupsInv, GroupsTypeOK
  <2> QED
    BY <1>1, <1>3, <1>6, <2>1, <2>2, <2>3 DEF GroupsInv, GroupsTypeOK
<1>8. /\ Processed' = Processed /\ (Processed > 0 => states'[Processed] = states[Processed])
      /\ (manager.pc # "off" => states'[manager.at] = states[manager.at])
  BY <1>1, <1>3, ProcessedFacts DEF Processed, GroupsInv, GroupsTypeOK
<1>9. ManagerFollows'
  BY <1>1, <1>8 DEF GroupsInv, ManagerFollows, NoLists
<1>10. ASSUME NEW s \in DOMAIN groups, s > 0
       PROVE  /\ s <= states'[Processed].session
              /\ IsFirst(groups[s].prevs[1], s)' /\ states'[groups[s].prevs[1]].lists[1] # NoList
              /\ IsLast(groups[s].prevs[2], s, groups[s].round)'
              /\ groups[s].round <= Len(decided'[s]) + 1
  <2>1. /\ s <= states[Processed].session
        /\ IsFirst(groups[s].prevs[1], s) /\ states[groups[s].prevs[1]].lists[1] # NoList
        /\ IsLast(groups[s].prevs[2], s, groups[s].round)
        /\ groups[s].round <= Len(decided[s]) + 1
    BY <1>10 DEF GroupsInv, GroupsFollow
  <2>2. s \in DOMAIN decided
    BY <2>1 DEF IsFirst, GroupsInv, GroupsTypeOK
  <2>3. IsFirst(groups[s].prevs[1], s)' /\ states'[groups[s].prevs[1]].lists[1] # NoList
    <3> DEFINE k == groups[s].prevs[1]
    <3>1. k \in 1 .. n /\ states[k].session = s /\ \A j \in 1 .. k - 1 : states[j].session # s
      BY <2>1 DEF IsFirst
    <3>2. k \in 1 .. n + 1 /\ 1 .. k - 1 \subseteq 1 .. n
      BY <1>1, <3>1
    <3> QED
      BY <1>1, <1>3, <2>1, <3>1, <3>2 DEF IsFirst
  <2>4. IsLast(groups[s].prevs[2], s, groups[s].round)'
    BY <1>1, <1>6, <2>1, <2>2 DEF IsLast
  <2>5. Processed > 0
    BY DEF GroupsInv, ManagerFollows
  <2> QED
    BY <1>6, <1>8, <2>1, <2>2, <2>3, <2>4, <2>5
<1>11. GroupsFollow'
  BY <1>1, <1>8, <1>10 DEF GroupsInv, GroupsFollow, Stopped
<1>12. StopsFollow'
  <2>1. DOMAIN groups # {} => Processed > 0 /\ manager.pc # "off"
    BY DEF GroupsInv, ManagerFollows
  <2> QED
    BY <1>1, <1>8, <2>1 DEF GroupsInv, StopsFollow, Stopped, Over, NoLists
<1>13. DestroyedIsOver'
  <2>1. \A d \in seen.destroyed : Over(d, n)
    BY DEF GroupsInv, DestroyedIsOver
  <2>2. n \in 1 .. n /\ states[n].session \in Nat
    BY <1>1, <1>4
  <2>3. \A d \in seen.destroyed : d \in Int
    BY DEF GroupsInv, GroupsTypeOK
  <2>4. ASSUME NEW d \in seen.destroyed PROVE Over(d, LastState)'
    BY <1>2, <1>3, <2>1, <2>2, <2>3 DEF Over, NoLists
  <2>5. manager.status = "active" \/ DOMAIN groups # {} => Processed > 0
    BY DEF GroupsInv, ManagerFollows
  <2> QED
    BY <1>1, <1>3, <1>8, <2>4, <2>5 DEF GroupsInv, DestroyedIsOver
<1> QED
  BY <1>1, <1>5, <1>7, <1>9, <1>11, <1>12, <1>13 DEF GroupsInv, RoundsFollowTheChain, StoppedStaysStopped

-----------------------------------------------------------------------------
(* update_shards                                                           *)

\* enable_validation and update_validation_status: a countdown begins at a
\* rotation and ends when a group has become active.
LEMMA StatusFacts ==
  ASSUME GroupsTypeOK, NEW sync
  PROVE  LET status == UpdateValidationStatus(manager.status, manager.at, sync)
         IN  /\ status \in {"waiting", "countdown", "active"}
             /\ status = "waiting" => manager.status \in {"disabled", "waiting"}
             /\ status = "countdown" => manager.status = "countdown" \/ states[manager.at].rotate
             /\ status = "active" => manager.status = "active" \/ \E s \in DOMAIN groups : groups[s].status = "active"
             /\ status = "active" => manager.status \in {"countdown", "active"}
<1>1. manager.status \in {"disabled", "waiting", "countdown", "active"}
  BY DEF GroupsTypeOK, ManagerType
<1> QED
  BY <1>1 DEF UpdateValidationStatus, StateAt

\* The manager begins with a state that comes after the one before.
LEMMA UpdateAdvances ==
  ASSUME GroupsInv, manager.pc = "update"
  PROVE  /\ manager.at \in 1 .. LastState /\ Processed = manager.at - 1 /\ manager.at \in Nat
         /\ states[manager.at].session \in Nat \ {0} /\ states[manager.at].lists \in AnyList \X AnyList
         /\ Processed > 0 =>
              /\ Processed \in 1 .. LastState /\ states[Processed].session \in Nat
              /\ states[Processed].session <= states[manager.at].session
<1>1. manager.at \in 1 .. LastState /\ Processed = manager.at - 1 /\ LastState \in Nat
  BY ProcessedFacts DEF GroupsInv, GroupsTypeOK, Processed
<1>2. states[manager.at] \in StateType
  BY <1>1, ProcessedFacts
<1>3. ASSUME Processed > 0 PROVE Processed \in 1 .. LastState /\ states[Processed].session \in Nat /\ Processed < manager.at
  BY <1>1, <1>3, ProcessedFacts
<1>4. Processed > 0 => states[Processed].session <= states[manager.at].session
  BY <1>1, <1>3 DEF GroupsInv, ChainIsOrdered
<1> QED
  BY <1>1, <1>2, <1>3, <1>4 DEF StateType

\* disable_validation
LEMMA DisableHolds ==
  ASSUME GroupsInv, NEW sync, UpdateShards(sync), NoLists(manager.at)
  PROVE  GroupsInv'
<1> DEFINE k == manager.at
<1>1. manager.pc = "update" /\ UNCHANGED <<states, decided, seen>>
  BY DEF UpdateShards
<1>2. /\ k \in 1 .. LastState /\ Processed = k - 1 /\ k \in Nat
      /\ states[k].session \in Nat \ {0} /\ states[k].lists \in AnyList \X AnyList
      /\ Processed > 0 =>
           /\ Processed \in 1 .. LastState /\ states[Processed].session \in Nat
           /\ states[Processed].session <= states[k].session
  BY <1>1, UpdateAdvances
<1>3. /\ manager' = [pc |-> "wait", at |-> k, status |-> "disabled", curr |-> states[k].lists[1], next |-> states[k].lists[2]]
      /\ groups' = StopAndRemove(groups, DOMAIN groups)
      /\ stored' = [stored EXCEPT !.rotation = 0]
  BY DEF UpdateShards, NoLists, StateAt
<1>4. /\ manager' \in ManagerType /\ manager'.pc = "wait" /\ manager'.at = k /\ manager'.status = "disabled"
      /\ manager'.curr = states[k].lists[1] /\ manager'.next = states[k].lists[2]
  BY <1>2, <1>3 DEF ManagerType
<1>5. Processed' = k
  BY <1>4 DEF Processed
<1>6. /\ groups' \in [DOMAIN groups' -> GroupType] /\ DOMAIN groups' \subseteq DOMAIN groups
      /\ \A s \in DOMAIN groups' :
           /\ SameWork(groups[s], groups'[s]) /\ groups'[s].start = groups[s].start
           /\ groups'[s].running = groups[s].running /\ groups'[s].status \in {"stopping", "stopped"}
  BY <1>3, StopAndRemoveFacts DEF GroupsInv, GroupsTypeOK
<1>7. stored' \in [rotation : Nat, crashes : Nat] /\ stored'.rotation <= LastState
  <2>1. stored \in [rotation : Nat, crashes : Nat] /\ stored' = [stored EXCEPT !.rotation = 0] /\ LastState \in Nat
    BY <1>3, ProcessedFacts DEF GroupsInv, GroupsTypeOK
  <2> QED
    BY <2>1
<1>8. GroupsTypeOK'
  BY <1>1, <1>2, <1>4, <1>6, <1>7 DEF GroupsInv, GroupsTypeOK, LastState
<1>9. ManagerFollows'
  BY <1>1, <1>2, <1>4, <1>5 DEF ManagerFollows
<1>10. ASSUME NEW s \in DOMAIN groups' PROVE s \in DOMAIN groups /\ s \in Int /\ s <= states[k].session
  BY <1>2, <1>6, ProcessedFacts DEF GroupsInv, GroupsFollow
<1>11. GroupsFollow'
  BY SMTT(30), <1>1, <1>5, <1>6, <1>10 DEF GroupsInv, GroupsFollow, Stopped, SameWork, IsFirst, IsLast, LastState
<1>12. StopsFollow'
  BY <1>1, <1>2, <1>5, <1>6, <1>10 DEF StopsFollow, Stopped, Over, NoLists
<1>13. DestroyedIsOver'
  BY <1>1, <1>4, <1>6 DEF GroupsInv, DestroyedIsOver, Over, NoLists, LastState
<1> QED
  BY <1>1, <1>8, <1>9, <1>11, <1>12, <1>13 DEF GroupsInv, ChainIsOrdered, LastState, RoundsFollowTheChain, StoppedStaysStopped

\* What start_sessions leaves in g at state k: a group that is new begins with
\* the first state of its session.
SessionsStarted(g, k, s, curr, status) ==
  /\ g \in [DOMAIN g -> GroupType]
  /\ DOMAIN groups \subseteq DOMAIN g /\ DOMAIN g \subseteq DOMAIN groups \cup {s}
  /\ \A t \in DOMAIN groups : g[t] = groups[t]
  /\ status # "waiting" /\ curr # NoList => s \in DOMAIN g
  /\ s \in DOMAIN g \ DOMAIN groups =>
       /\ g[s].status \in {"countdown", "active"} /\ (g[s].status = "active" => status = "active")
       /\ g[s].list = curr
       /\ ~ g[s].stop /\ g[s].prevs = <<k, 0>> /\ g[s].round = 1
       /\ curr # NoList /\ status # "waiting" /\ IsFirst(k, s)

LEMMA StartSessionsFacts ==
  ASSUME GroupsInv, manager.pc = "update", NEW status \in {"waiting", "countdown", "active"},
         status = "countdown" => manager.status = "countdown" \/ states[manager.at].rotate,
         status = "active" => manager.status \in {"countdown", "active"},
         NEW g, g = StartSessions(status, states[manager.at].lists[1])
  PROVE  SessionsStarted(g, manager.at, states[manager.at].session, states[manager.at].lists[1], status)
<1> USE DEF SessionsStarted
<1> DEFINE k == manager.at
<1> DEFINE s == states[k].session
<1> DEFINE curr == states[k].lists[1]
<1>1. /\ k \in 1 .. LastState /\ Processed = k - 1 /\ k \in Nat
      /\ s \in Nat \ {0} /\ states[k].lists \in AnyList \X AnyList
      /\ Processed > 0 => Processed \in 1 .. LastState /\ states[Processed].session \in Nat /\ states[Processed].session <= s
  BY UpdateAdvances
<1>2. groups \in [DOMAIN groups -> GroupType]
  BY DEF GroupsInv, GroupsTypeOK
<1>3. CASE status = "waiting" \/ curr = NoList
  BY <1>2, <1>3 DEF StartSessions, StateAt
<1>4. CASE status # "waiting" /\ curr # NoList /\ s \in DOMAIN groups
  <2>1. g = With(groups, s, StartWithStatus(groups[s], GroupStartStatus(status), k))
    BY <1>4 DEF StartSessions, StateAt
  <2>2. groups[s].status # "created"
    BY <1>1, <1>4 DEF GroupsInv, GroupsFollow
  <2>3. StartWithStatus(groups[s], GroupStartStatus(status), k) = groups[s]
    BY <2>2 DEF StartWithStatus
  <2>4. DOMAIN g = DOMAIN groups /\ \A t \in DOMAIN groups : g[t] = groups[t]
    BY <1>4, <2>1, <2>3 DEF With
  <2>5. g \in [DOMAIN g -> GroupType]
    BY <1>2, <1>4, <2>1, <2>3 DEF With
  <2> QED
    BY <1>4, <2>4, <2>5
<1>5. CASE status # "waiting" /\ curr # NoList /\ s \notin DOMAIN groups
  <2> DEFINE h == StartWithStatus(NewGroup(curr), GroupStartStatus(status), k)
  <2>1. g = With(groups, s, h)
    BY <1>5 DEF StartSessions, StateAt
  <2>2. curr \in Lists
    BY <1>1, <1>5 DEF AnyList
  <2>3. GroupStartStatus(status) \in {"countdown", "active"} /\ (GroupStartStatus(status) = "active" => status = "active")
    BY <1>5 DEF GroupStartStatus
  <2>4. /\ h \in GroupType /\ h.status = GroupStartStatus(status) /\ h.list = curr
        /\ ~ h.stop /\ h.prevs = <<k, 0>> /\ h.round = 1
    BY <1>1, <2>2, <2>3, NewGroupFacts, StartFacts
  <2> HIDE DEF h
  <2>5. /\ DOMAIN g = DOMAIN groups \cup {s} /\ g[s] = h /\ \A t \in DOMAIN groups : g[t] = groups[t]
        /\ g \in [DOMAIN g -> GroupType]
    BY <1>2, <1>5, <2>1, <2>4 DEF With
  <2>6. IsFirst(k, s)
    <3>1. ASSUME NEW j \in 1 .. k - 1 PROVE states[j].session < s
      <4>1. j \in 1 .. LastState /\ j < k /\ Processed > 0 /\ j <= Processed /\ states[j].session \in Nat
        BY <1>1, <3>1, ProcessedFacts
      <4>2. states[j].session <= states[Processed].session
        BY <1>1, <4>1 DEF GroupsInv, ChainIsOrdered
      <4>3. CASE states[k].rotate
        BY <1>1, <4>1, <4>3 DEF GroupsInv, ChainIsOrdered
      <4>4. CASE ~ states[k].rotate
        <5>1. manager.status \in {"countdown", "active"}
          BY <1>5, <4>4
        <5>2. states[Processed].session # s
          <6>1. SUFFICES ASSUME states[Processed].session = s PROVE FALSE
            OBVIOUS
          <6>2. Processed < k
            BY <1>1
          <6>3. states[Processed].lists = states[k].lists
            BY <1>1, <4>1, <6>1, <6>2 DEF GroupsInv, ChainIsOrdered
          <6> QED
            BY <1>5, <5>1, <6>1, <6>3 DEF GroupsInv, ManagerFollows
        <5> QED
          BY <1>1, <4>1, <4>2, <5>2
      <4> QED
        BY <4>3, <4>4
    <3>2. \A j \in 1 .. k - 1 : states[j].session # s
      BY <1>1, <3>1
    <3> QED
      BY <1>1, <3>2 DEF IsFirst
  <2> QED
    BY <1>5, <2>3, <2>4, <2>5, <2>6
<1> QED
  BY <1>3, <1>4, <1>5

\* The new status and start_sessions
LEMMA EnableHolds ==
  ASSUME GroupsInv, NEW sync, UpdateShards(sync), ~ NoLists(manager.at)
  PROVE  GroupsInv'
<1>0. PICK k, s, curr, next, status :
        /\ k = manager.at /\ s = states[k].session /\ curr = states[k].lists[1] /\ next = states[k].lists[2]
        /\ status = UpdateValidationStatus(manager.status, manager.at, sync)
  OBVIOUS
<1>1. manager.pc = "update" /\ UNCHANGED <<states, decided, seen>>
  BY DEF UpdateShards
<1>2. /\ k \in 1 .. LastState /\ Processed = k - 1 /\ k \in Nat
      /\ s \in Nat \ {0} /\ curr \in AnyList /\ next \in AnyList
      /\ Processed > 0 => Processed \in 1 .. LastState /\ states[Processed].session \in Nat /\ states[Processed].session <= s
  BY <1>0, <1>1, UpdateAdvances
<1>3. /\ manager' = [pc |-> "finish", at |-> k, status |-> status, curr |-> curr, next |-> next]
      /\ groups' = StartSessions(status, curr)
      /\ stored' = stored
  BY <1>0 DEF UpdateShards, NoLists, StateAt
<1>4. /\ status \in {"waiting", "countdown", "active"}
      /\ status = "waiting" => manager.status \in {"disabled", "waiting"}
      /\ status = "countdown" => manager.status = "countdown" \/ states[k].rotate
      /\ status = "active" => manager.status = "active" \/ \E t \in DOMAIN groups : groups[t].status = "active"
      /\ status = "active" => manager.status \in {"countdown", "active"}
  BY <1>0, StatusFacts DEF GroupsInv
<1>5. /\ manager' \in ManagerType /\ manager'.pc = "finish" /\ manager'.at = k /\ manager'.status = status
      /\ manager'.curr = curr /\ manager'.next = next
  BY <1>2, <1>3, <1>4 DEF ManagerType
<1>6. Processed' = k
  BY <1>5 DEF Processed
<1>7. /\ groups' \in [DOMAIN groups' -> GroupType]
      /\ DOMAIN groups \subseteq DOMAIN groups' /\ DOMAIN groups' \subseteq DOMAIN groups \cup {s}
      /\ \A t \in DOMAIN groups : groups'[t] = groups[t]
      /\ status # "waiting" /\ curr # NoList => s \in DOMAIN groups'
      /\ s \in DOMAIN groups' \ DOMAIN groups =>
           /\ groups'[s].status \in {"countdown", "active"} /\ (groups'[s].status = "active" => status = "active")
           /\ ~ groups'[s].stop /\ groups'[s].prevs = <<k, 0>> /\ groups'[s].round = 1
           /\ curr # NoList /\ status # "waiting" /\ IsFirst(k, s)
  <2>1. PICK g : g = groups' /\ g = StartSessions(status, states[manager.at].lists[1])
    BY <1>0, <1>3
  <2>2. manager.pc = "update" /\ (status = "countdown" => manager.status = "countdown" \/ states[manager.at].rotate)
    BY <1>0, <1>1, <1>4
  <2>3. SessionsStarted(g, manager.at, states[manager.at].session, states[manager.at].lists[1], status)
    BY <1>4, <2>1, <2>2, StartSessionsFacts
  <2>4. SessionsStarted(groups', k, s, curr, status)
    BY <1>0, <2>1, <2>3
  <2> QED
    BY <2>4 DEF SessionsStarted
<1>8. GroupsTypeOK'
  <2>1. DOMAIN groups' \subseteq Int
    BY <1>2, <1>7 DEF GroupsInv, GroupsTypeOK
  <2> QED
    BY <1>1, <1>2, <1>3, <1>5, <1>7, <2>1 DEF GroupsInv, GroupsTypeOK, LastState
<1>9. ManagerFollows'
  BY <1>0, <1>1, <1>2, <1>4, <1>5, <1>6, <1>7 DEF ManagerFollows, NoLists
<1>10. ASSUME NEW t \in DOMAIN groups
       PROVE  t \in Int /\ Processed \in 1 .. LastState /\ Processed <= k /\ t \in DOMAIN groups' /\ groups'[t] = groups[t]
  BY <1>2, <1>7, ProcessedFacts
<1>11. GroupsFollow'
  <2>1. ASSUME NEW t \in DOMAIN groups, t > 0
        PROVE  /\ groups[t].status # "created" /\ t <= s
               /\ IsFirst(groups[t].prevs[1], t)' /\ (states[groups[t].prevs[1]].lists[1] # NoList)'
               /\ IsLast(groups[t].prevs[2], t, groups[t].round)'
               /\ (groups[t].round <= Len(decided[t]) + 1)'
    <3>1. /\ groups[t].status # "created" /\ t <= states[Processed].session
          /\ IsFirst(groups[t].prevs[1], t) /\ states[groups[t].prevs[1]].lists[1] # NoList
          /\ IsLast(groups[t].prevs[2], t, groups[t].round) /\ groups[t].round <= Len(decided[t]) + 1
      BY <2>1 DEF GroupsInv, GroupsFollow
    <3>2. UNCHANGED <<states, decided>> /\ groups'[t] = groups[t]
      BY <1>1, <1>10
    <3>3. IsFirst(groups[t].prevs[1], t)' /\ (states[groups[t].prevs[1]].lists[1] # NoList)'
      BY <3>1, <3>2 DEF IsFirst, LastState
    <3>4. IsLast(groups[t].prevs[2], t, groups[t].round)' /\ (groups[t].round <= Len(decided[t]) + 1)'
      BY <3>1, <3>2 DEF IsLast
    <3>5. t <= s
      BY <1>2, <1>10, <3>1
    <3> QED
      BY <3>1, <3>3, <3>4, <3>5
  <2>2. ASSUME s \in DOMAIN groups' \ DOMAIN groups
        PROVE  /\ groups'[s].status # "created" /\ s <= s /\ s > 0 /\ ~ groups'[s].stop
               /\ IsFirst(groups[s].prevs[1], s)' /\ (states[groups[s].prevs[1]].lists[1] # NoList)'
               /\ IsLast(groups[s].prevs[2], s, groups[s].round)'
               /\ (groups[s].round <= Len(decided[s]) + 1)'
    <3>1. groups'[s].prevs[1] = k /\ groups'[s].prevs[2] = 0 /\ groups'[s].round = 1
      BY <1>7, <2>2
    <3>2. Len(decided[s]) \in Nat
      BY <1>0, <1>2 DEF GroupsInv, GroupsTypeOK
    <3>3. IsFirst(k, s) /\ curr # NoList
      BY <1>7, <2>2
    <3>4. IsFirst(groups[s].prevs[1], s)'
      BY <1>1, <3>1, <3>3 DEF IsFirst, LastState
    <3>5. IsLast(groups[s].prevs[2], s, groups[s].round)'
      BY <3>1 DEF IsLast
    <3>6. (states[groups[s].prevs[1]].lists[1] # NoList)' /\ (groups[s].round <= Len(decided[s]) + 1)'
      BY <1>0, <1>1, <3>1, <3>2, <3>3
    <3>7. groups'[s].status # "created" /\ s <= s /\ s > 0 /\ ~ groups'[s].stop
      BY <1>2, <1>7, <2>2
    <3> QED
      BY <3>4, <3>5, <3>6, <3>7
  <2>3. ASSUME NEW t \in DOMAIN groups
        PROVE  /\ groups'[t].stop => groups'[t].status \in {"stopping", "stopped"}
               /\ t <= 0 => ~ groups'[t].start /\ ~ groups'[t].running /\ groups'[t].status \in {"created", "stopping", "stopped"}
    BY <1>10 DEF GroupsInv, GroupsFollow, Stopped
  <2>4. ASSUME NEW t \in DOMAIN groups' PROVE t \in DOMAIN groups \/ (t = s /\ s \in DOMAIN groups' \ DOMAIN groups)
    BY <1>7
  <2>5. UNCHANGED states /\ ~(s <= 0)
    BY <1>1, <1>2
  <2>6. ASSUME NEW t \in DOMAIN groups'
        PROVE  /\ groups'[t].stop => groups'[t].status \in {"stopping", "stopped"}
               /\ t <= 0 => ~ groups'[t].start /\ ~ groups'[t].running /\ groups'[t].status \in {"created", "stopping", "stopped"}
               /\ t > 0 => /\ groups'[t].status # "created" /\ t <= s
                          /\ IsFirst(groups[t].prevs[1], t)' /\ (states[groups[t].prevs[1]].lists[1] # NoList)'
                          /\ IsLast(groups[t].prevs[2], t, groups[t].round)'
                          /\ (groups[t].round <= Len(decided[t]) + 1)'
    <3>1. CASE t \in DOMAIN groups
      BY <1>10, <2>1, <2>3, <3>1
    <3>2. CASE t = s /\ s \in DOMAIN groups' \ DOMAIN groups
      BY <2>2, <2>5, <3>2
    <3> QED
      BY <2>4, <3>1, <3>2
  <2>7. states'[Processed'].session = s
    BY <1>0, <1>6, <2>5
  <2> QED
    BY <2>6, <2>7 DEF GroupsFollow, Stopped
<1>12. StopsFollow'
  <2>1. ASSUME NEW t \in DOMAIN groups, t > 0
        PROVE  (Stopped(t) => Over(t, k)) /\ (status = "waiting" => Stopped(t))
    <3>1. Stopped(t) => Over(t, Processed)
      BY <2>1 DEF GroupsInv, StopsFollow
    <3> QED
      BY <1>2, <1>4, <1>10, <2>1, <3>1, OverLater DEF GroupsInv, StopsFollow
  <2>2. ASSUME NEW t \in DOMAIN groups', t > 0
        PROVE  /\ Stopped(t)' => Over(t, k)
               /\ status = "waiting" => Stopped(t)'
    <3>1. CASE t \in DOMAIN groups
      BY <1>7, <2>1, <2>2, <3>1 DEF Stopped
    <3>2. CASE t \notin DOMAIN groups
      BY <1>7, <3>2 DEF Stopped
    <3> QED
      BY <3>1, <3>2
  <2>3. status # "disabled" /\ UNCHANGED states
    BY <1>1, <1>4
  <2> QED
    BY <1>5, <1>6, <2>2, <2>3 DEF StopsFollow, Over, NoLists
<1>13. DestroyedIsOver'
  <2>1. status = "active" \/ (\E t \in DOMAIN groups' : groups'[t].status = "active") =>
          manager.status = "active" \/ \E t \in DOMAIN groups : groups[t].status = "active"
    BY <1>4, <1>7
  <2>2. manager.status = "active" \/ (\E t \in DOMAIN groups : groups[t].status = "active") =>
          /\ Processed > 0
          /\ \A d \in seen.destroyed : d < states[Processed].session
    BY DEF GroupsInv, DestroyedIsOver, ManagerFollows
  <2>3. \A d \in seen.destroyed : d \in Int
    BY DEF GroupsInv, GroupsTypeOK
  <2>4. manager.status = "active" \/ (\E t \in DOMAIN groups : groups[t].status = "active") =>
          \A d \in seen.destroyed : d < s
    BY <1>2, <2>2, <2>3
  <2>5. \A t \in DOMAIN groups' : groups'[t].status = "active" => t \notin seen.destroyed
    <3> SUFFICES ASSUME NEW t \in DOMAIN groups', groups'[t].status = "active" PROVE t \notin seen.destroyed
      OBVIOUS
    <3>1. CASE t \in DOMAIN groups
      BY <1>7, <3>1 DEF GroupsInv, DestroyedIsOver
    <3>2. CASE t \notin DOMAIN groups
      BY <1>2, <1>7, <2>1, <2>4, <3>2
    <3> QED
      BY <3>1, <3>2
  <2>6. \A d \in seen.destroyed : Over(d, LastState)
    BY DEF GroupsInv, DestroyedIsOver
  <2>7. (\A d \in seen.destroyed : Over(d, LastState))'
    BY <1>1, <2>6 DEF Over, NoLists, LastState
  <2> QED
    BY <1>0, <1>1, <1>5, <1>6, <2>1, <2>4, <2>5, <2>7 DEF DestroyedIsOver
<1> QED
  BY <1>1, <1>8, <1>9, <1>11, <1>12, <1>13 DEF GroupsInv, ChainIsOrdered, LastState, RoundsFollowTheChain, StoppedStaysStopped

\* The group of a future session is a new one, under a number of its own.
LEMMA InitFutureShardsFacts ==
  ASSUME GroupsTypeOK, NEW near, near => manager.next # NoList, NEW g, g = InitFutureShards(near)
  PROVE  LET f == FutureSession(manager.at)
         IN  /\ f \in Int /\ f <= 0
             /\ g \in [DOMAIN g -> GroupType]
             /\ DOMAIN groups \subseteq DOMAIN g /\ DOMAIN g \subseteq DOMAIN groups \cup {f}
             /\ \A t \in DOMAIN groups : g[t] = groups[t]
             /\ f \in DOMAIN g \ DOMAIN groups =>
                  /\ g[f].status = "created" /\ ~ g[f].start /\ ~ g[f].stop /\ ~ g[f].running
                  /\ g[f].list \in {manager.curr, manager.next} \ {NoList}
<1> DEFINE f == FutureSession(manager.at)
<1>1. f \in Int /\ f <= 0
  BY FutureSessionFacts DEF GroupsTypeOK, ManagerType
<1>2. groups \in [DOMAIN groups -> GroupType]
  BY DEF GroupsTypeOK
<1>3. CASE manager.curr = NoList \/ f \in DOMAIN groups
  BY <1>1, <1>2, <1>3 DEF InitFutureShards
<1>4. CASE manager.curr # NoList /\ f \notin DOMAIN groups
  <2> DEFINE l == IF near /\ manager.next # NoList THEN manager.next ELSE manager.curr
  <2>1. g = With(groups, f, NewGroup(l))
    BY <1>4 DEF InitFutureShards
  <2>2. l \in Lists /\ l \in {manager.curr, manager.next} \ {NoList}
    BY <1>4, ListsAssumption DEF GroupsTypeOK, ManagerType, AnyList
  <2> HIDE DEF l
  <2>3. /\ NewGroup(l) \in GroupType /\ NewGroup(l).status = "created" /\ NewGroup(l).list = l
        /\ ~ NewGroup(l).start /\ ~ NewGroup(l).stop /\ ~ NewGroup(l).running
    BY <2>2, NewGroupFacts
  <2> HIDE DEF f
  <2>4. /\ DOMAIN g = DOMAIN groups \cup {f} /\ g[f] = NewGroup(l) /\ \A t \in DOMAIN groups : g[t] = groups[t]
        /\ g \in [DOMAIN g -> GroupType]
    BY <1>2, <1>4, <2>1, <2>3 DEF With
  <2> QED
    BY <1>1, <2>2, <2>3, <2>4 DEF f
<1> QED
  BY <1>3, <1>4

LEMMA FinishShardsHolds ==
  ASSUME GroupsInv, NEW near, FinishShards(near)
  PROVE  GroupsInv'
<1>0. PICK k, s, f, g, ids :
        /\ k = manager.at /\ s = states[k].session /\ f = FutureSession(manager.at)
        /\ g = InitFutureShards(near) /\ ids = DOMAIN groups \ Needed
  OBVIOUS
<1>1. /\ manager.pc = "finish" /\ (near => manager.next # NoList)
      /\ groups' = StopAndRemove(g, ids) /\ manager' = [manager EXCEPT !.pc = "collect"]
      /\ stored' = IF states[k].rotate THEN [stored EXCEPT !.rotation = k] ELSE stored
      /\ UNCHANGED <<states, net, decided, seen>>
  BY <1>0 DEF FinishShards, StateAt
<1>2. /\ k \in 1 .. LastState /\ k \in Nat /\ LastState \in Nat /\ Processed = k /\ s \in Nat \ {0}
      /\ manager.curr = states[k].lists[1] /\ manager.next = states[k].lists[2]
      /\ manager.status \in {"waiting", "countdown", "active"}
  <2>1. k \in 1 .. LastState /\ k \in Nat /\ LastState \in Nat /\ Processed = k
    BY <1>0, <1>1, ProcessedFacts DEF GroupsInv, GroupsTypeOK, Processed
  <2>2. manager.curr = states[k].lists[1] /\ manager.next = states[k].lists[2] /\ manager.status # "disabled"
    BY <1>0, <1>1 DEF GroupsInv, ManagerFollows
  <2>3. s \in Nat \ {0} /\ manager.status \in {"disabled", "waiting", "countdown", "active"}
    BY <1>0, <2>1, ProcessedFacts DEF ManagerType
  <2> QED
    BY <2>1, <2>2, <2>3
<1>3. /\ manager' \in ManagerType /\ manager'.pc = "collect" /\ manager'.at = k /\ manager'.status = manager.status
      /\ manager'.curr = manager.curr /\ manager'.next = manager.next
  BY <1>0, <1>1, ProcessedFacts DEF ManagerType
<1>4. Processed' = k
  BY <1>3 DEF Processed
<1>5. /\ f \in Int /\ f <= 0
      /\ g \in [DOMAIN g -> GroupType]
      /\ DOMAIN groups \subseteq DOMAIN g /\ DOMAIN g \subseteq DOMAIN groups \cup {f}
      /\ \A t \in DOMAIN groups : g[t] = groups[t]
      /\ f \in DOMAIN g \ DOMAIN groups => g[f].status = "created" /\ ~ g[f].start /\ ~ g[f].stop /\ ~ g[f].running
  BY <1>0, <1>1, InitFutureShardsFacts DEF GroupsInv
<1>6. /\ groups' \in [DOMAIN groups' -> GroupType] /\ DOMAIN groups' \subseteq DOMAIN g /\ DOMAIN g \ ids \subseteq DOMAIN groups'
      /\ \A t \in DOMAIN groups' \ ids : groups'[t] = g[t]
      /\ \A t \in DOMAIN groups' \cap ids :
           /\ SameWork(g[t], groups'[t]) /\ groups'[t].start = g[t].start /\ groups'[t].running = g[t].running
           /\ groups'[t].status \in {"stopping", "stopped"}
  <2>1. ids \subseteq DOMAIN g
    BY <1>0, <1>5
  <2> QED
    BY <1>1, <1>5, <2>1, StopAndRemoveFacts
\* Each group: stopped by this step, as before, or new.
<1>7. ASSUME NEW t \in DOMAIN groups'
      PROVE  /\ t \in Int
             /\ \/ /\ t \in DOMAIN groups /\ t \in ids /\ SameWork(groups[t], groups'[t])
                   /\ groups'[t].start = groups[t].start /\ groups'[t].running = groups[t].running
                   /\ groups'[t].status \in {"stopping", "stopped"}
                \/ t \in DOMAIN groups /\ t \notin ids /\ groups'[t] = groups[t]
                \/ /\ t = f /\ t <= 0 /\ t \notin DOMAIN groups
                   /\ groups'[t].status = "created" /\ ~ groups'[t].start /\ ~ groups'[t].stop /\ ~ groups'[t].running
  <2>1. CASE t \in DOMAIN groups
    BY <1>5, <1>6, <2>1, ProcessedFacts
  <2>2. CASE t \notin DOMAIN groups
    <3>1. t = f /\ t \in DOMAIN g /\ t \notin ids /\ groups'[t] = g[t]
      BY <1>0, <1>5, <1>6, <2>2
    <3>2. t \in Int /\ t <= 0
      BY <1>5, <3>1
    <3> QED
      BY <1>5, <2>2, <3>1, <3>2
  <2> QED
    BY <2>1, <2>2
<1>8. GroupsTypeOK'
  <2>1. stored' \in [rotation : Nat, crashes : Nat] /\ stored'.rotation <= LastState
    <3>1. stored \in [rotation : Nat, crashes : Nat] /\ stored.rotation <= LastState
      BY DEF GroupsInv, GroupsTypeOK
    <3> QED
      BY <1>1, <1>2, <3>1
  <2>2. DOMAIN groups' \subseteq Int
    BY <1>7
  <2> QED
    BY <1>1, <1>2, <1>3, <1>6, <2>1, <2>2 DEF GroupsInv, GroupsTypeOK, LastState
<1>9. ManagerFollows'
  <2>1. manager.status \in {"countdown", "active"} /\ states[k].lists[1] # NoList => s \in DOMAIN groups'
    <3>1. SUFFICES ASSUME manager.status \in {"countdown", "active"}, states[k].lists[1] # NoList PROVE s \in DOMAIN groups'
      OBVIOUS
    <3>2. s \in DOMAIN groups
      BY <1>0, <1>2, <3>1 DEF GroupsInv, ManagerFollows
    <3>3. s \in Needed
      BY <1>0, <1>2, <3>1 DEF Needed, StateAt
    <3> QED
      BY <1>0, <1>5, <1>6, <3>2, <3>3
  <2>2. ~ NoLists(k)
    BY <1>2 DEF GroupsInv, ManagerFollows
  <2>3. UNCHANGED states /\ k > 0
    BY <1>1, <1>2
  <2> QED
    BY <1>0, <1>2, <1>3, <1>4, <2>1, <2>2, <2>3 DEF ManagerFollows, NoLists
<1>10. ASSUME NEW t \in DOMAIN groups, t > 0
       PROVE  /\ groups[t].status # "created" /\ t <= s
              /\ IsFirst(groups[t].prevs[1], t) /\ states[groups[t].prevs[1]].lists[1] # NoList
              /\ IsLast(groups[t].prevs[2], t, groups[t].round) /\ groups[t].round <= Len(decided[t]) + 1
  BY <1>0, <1>2, <1>10 DEF GroupsInv, GroupsFollow
<1>11. GroupsFollow'
  <2>1. ASSUME NEW t \in DOMAIN groups', t > 0
        PROVE  /\ groups'[t].status # "created" /\ t <= s
               /\ IsFirst(groups[t].prevs[1], t)' /\ (states[groups[t].prevs[1]].lists[1] # NoList)'
               /\ IsLast(groups[t].prevs[2], t, groups[t].round)' /\ (groups[t].round <= Len(decided[t]) + 1)'
    <3>1. t \in DOMAIN groups /\ groups'[t].prevs = groups[t].prevs /\ groups'[t].round = groups[t].round
          /\ (groups'[t].status \in {"stopping", "stopped"} \/ groups'[t].status = groups[t].status)
      BY <1>7, <2>1 DEF SameWork
    <3> QED
      BY <1>1, <1>10, <2>1, <3>1 DEF IsFirst, IsLast, LastState
  <2>2. ASSUME NEW t \in DOMAIN groups'
        PROVE  /\ groups'[t].stop => groups'[t].status \in {"stopping", "stopped"}
               /\ t <= 0 => ~ groups'[t].start /\ ~ groups'[t].running /\ groups'[t].status \in {"created", "stopping", "stopped"}
    BY <1>7 DEF GroupsInv, GroupsFollow, Stopped
  <2>3. UNCHANGED states
    BY <1>1
  <2> QED
    BY <1>0, <1>4, <2>1, <2>2, <2>3 DEF GroupsFollow, Stopped
<1>12. StopsFollow'
  <2>1. ASSUME NEW t \in DOMAIN groups', t > 0
        PROVE  t \in DOMAIN groups /\ (t \in ids \/ groups'[t] = groups[t]) /\ t <= s
    BY <1>7, <1>10, <2>1
  <2>2. ASSUME NEW t \in DOMAIN groups', t > 0, t \in ids PROVE Over(t, k)
    <3>1. CASE t # s
      BY <1>0, <1>2, <1>7, <2>1, <2>2, <3>1 DEF Over
    <3>2. CASE t = s /\ manager.status = "waiting"
      BY <1>2, <2>1, <2>2, <3>2 DEF GroupsInv, StopsFollow
    <3>3. CASE t = s /\ manager.status # "waiting"
      <4>1. manager.curr = NoList
        BY <1>0, <2>2, <3>3 DEF Needed, StateAt
      <4>2. PICK j \in 1 .. LastState : states[j].session = t /\ states[j].lists[1] # NoList
        BY <1>10, <2>1, <2>2 DEF IsFirst
      <4>3. states[j].lists = states[k].lists
        BY <1>0, <1>2, <3>3, <4>2 DEF GroupsInv, ChainIsOrdered
      <4> QED
        BY <1>2, <4>1, <4>2, <4>3
    <3> QED
      BY <3>1, <3>2, <3>3
  <2>3. ASSUME NEW t \in DOMAIN groups', t > 0
        PROVE  /\ Stopped(t)' => Over(t, k)
               /\ manager.status \in {"disabled", "waiting"} => Stopped(t)'
               /\ ~ Stopped(t)' => t = s /\ manager.curr # NoList
    <3>1. CASE t \in ids
      BY <1>7, <2>2, <2>3, <3>1 DEF Stopped
    <3>2. CASE t \notin ids
      <4>1. t \in DOMAIN groups /\ groups'[t] = groups[t] /\ t \in Needed /\ t # f
        BY <1>0, <1>5, <2>1, <2>3, <3>2
      <4>2. t = s /\ manager.curr # NoList
        BY <1>0, <4>1 DEF Needed, StateAt
      <4> QED
        BY <1>2, <2>3, <4>1, <4>2 DEF GroupsInv, StopsFollow, Stopped
    <3> QED
      BY <3>1, <3>2
  <2>4. UNCHANGED states
    BY <1>1
  <2> QED
    BY <1>0, <1>3, <1>4, <2>3, <2>4 DEF StopsFollow, Over, NoLists
<1>13. DestroyedIsOver'
  <2>1. ASSUME NEW t \in DOMAIN groups', groups'[t].status = "active" PROVE t \in DOMAIN groups /\ groups[t].status = "active"
    BY <1>7, <2>1
  <2>2. UNCHANGED <<states, seen>>
    BY <1>1
  <2>3. \A d \in seen.destroyed : Over(d, LastState)
    BY DEF GroupsInv, DestroyedIsOver
  <2>4. (\A d \in seen.destroyed : Over(d, LastState))'
    BY <2>2, <2>3 DEF Over, NoLists, LastState
  <2> QED
    BY <1>2, <1>3, <1>4, <2>1, <2>2, <2>4 DEF GroupsInv, DestroyedIsOver
<1> QED
  BY <1>1, <1>8, <1>9, <1>11, <1>12, <1>13 DEF GroupsInv, ChainIsOrdered, LastState, RoundsFollowTheChain, StoppedStaysStopped

LEMMA GroupsStepHolds == GroupsInv /\ [GroupsNext]_groupVars => GroupsInv'
<1> SUFFICES ASSUME GroupsInv, [GroupsNext]_groupVars PROVE GroupsInv'
  OBVIOUS
<1>1. CASE UNCHANGED groupVars
  BY <1>1 DEF groupVars, GroupsInv, GroupsTypeOK, ChainIsOrdered, ManagerFollows, GroupsFollow, StopsFollow, DestroyedIsOver,
    RoundsFollowTheChain, StoppedStaysStopped, LastState, Processed, Stopped, Over, NoLists, IsFirst, IsLast
<1>2. CASE Invoke \/ NodeStops \/ ListsFail \/ NextState \/ GarbageCollectLists
  BY <1>2, InvokeHolds, NodeStopsHolds, StageHolds
<1>3. ASSUME NEW b \in BOOLEAN, UpdateShards(b) PROVE GroupsInv'
  BY <1>3, DisableHolds, EnableHolds
<1>4. ASSUME NEW b \in BOOLEAN, FinishShards(b) PROVE GroupsInv'
  BY <1>4, FinishShardsHolds
<1>5. ASSUME NEW s \in DOMAIN groups, RunStart(s) \/ RunStop(s) PROVE GroupsInv'
  BY <1>5, RunStartHolds, RunStopHolds
<1>6. ASSUME NEW s \in DOMAIN groups, NEW r \in {groups[s].round}, OnRound(s, r) \/ OnBlockSkipped(s, r) PROVE GroupsInv'
  BY <1>6, OnRoundHolds, OnBlockSkippedHolds
<1>7. ASSUME NEW s \in DOMAIN groups, NEW r \in {groups[s].round}, NEW accepted \in BOOLEAN, OnBlockCommitted(s, r, accepted)
      PROVE  GroupsInv'
  BY <1>7, OnBlockCommittedHolds
<1>8. ASSUME NEW st \in NextStates, NewMasterState(st) PROVE GroupsInv'
  BY <1>8, NewMasterStateHolds
<1> QED
  BY <1>1, <1>2, <1>3, <1>4, <1>5, <1>6, <1>7, <1>8 DEF GroupsNext

\* The invariant that the theorems on sessions rest on: the manager, the groups
\* and what was destroyed follow the masterchain.
THEOREM GroupsInvariance == GroupsSpec => []GroupsInv
  BY GroupsInitHolds, GroupsStepHolds, PTL DEF GroupsSpec

\* on_generate_slot, on_candidate and on_block_committed work after the blocks
\* that the other validators of the session have in that round, for any
\* masterchain, any decisions and any number of crashes.
THEOREM HandlersFollowTheChain == GroupsSpec => []RoundsFollowTheChain
<1>1. GroupsInv => RoundsFollowTheChain
  BY DEF GroupsInv
<1> QED
  BY <1>1, GroupsInvariance, PTL

\* The replay of the masterchain after a crash starts no session again that
\* was stopped and lost its database.
THEOREM DestroyedSessionsStayStopped == GroupsSpec => []StoppedStaysStopped
<1>1. GroupsInv => StoppedStaysStopped
  BY DEF GroupsInv
<1> QED
  BY <1>1, GroupsInvariance, PTL

-----------------------------------------------------------------------------
(* The peers of the validator lists                                        *)

LEMMA KnownIsFinite ==
  ASSUME NEW n, n.lists \subseteq Lists, NEW p
  PROVE  IsFiniteSet(Known(n, p)) /\ Cardinality(Known(n, p)) \in Nat
<1>1. Known(n, p) \subseteq Lists
  BY DEF Known
<1> QED
  BY <1>1, ListsAssumption, FS_Subset, FS_CardinalityType

\* set_validator_list counts one more list for each of its peers.
LEMMA SetValidatorListFacts ==
  ASSUME NEW n, Counted(n), NEW l \in AnyList, NEW m, m = SetValidatorList(n, l)
  PROVE  Counted(m) /\ n.lists \subseteq m.lists /\ l \in m.lists \cup {NoList}
<1>1. CASE l = NoList \/ l \in n.lists
  BY <1>1 DEF SetValidatorList
<1>2. CASE l # NoList /\ l \notin n.lists
  <2> DEFINE all == UNION {ListPeers[x] : x \in Lists}
  <2>1. l \in Lists /\ ListPeers[l] \subseteq all
    BY <1>2 DEF AnyList
  <2>2. /\ m.lists = n.lists \cup {l} /\ m.reached = n.reached \cup ListPeers[l]
        /\ DOMAIN m.users = DOMAIN n.users \cup ListPeers[l]
        /\ \A p \in DOMAIN m.users :
             m.users[p] = IF p \notin DOMAIN n.users THEN 0
                          ELSE IF p \in ListPeers[l] THEN n.users[p] + 1 ELSE n.users[p]
    BY <1>2 DEF SetValidatorList
  <2>3. ASSUME NEW p PROVE Known(m, p) = IF p \in ListPeers[l] THEN Known(n, p) \cup {l} ELSE Known(n, p)
    BY <2>2 DEF Known
  <2>4. /\ n.lists \subseteq Lists /\ n.reached = DOMAIN n.users
        /\ \A p : p \in DOMAIN n.users <=> p \in all /\ Known(n, p) # {}
        /\ \A p \in DOMAIN n.users : n.users[p] \in Int /\ n.users[p] + 1 = Cardinality(Known(n, p))
    BY DEF Counted
  <2> HIDE DEF all
  <2>5. DOMAIN m.users = {p \in all : Known(m, p) # {}}
    BY <2>1, <2>2, <2>3, <2>4
  <2>6. ASSUME NEW p \in DOMAIN m.users PROVE m.users[p] \in Int /\ m.users[p] + 1 = Cardinality(Known(m, p))
    <3>1. IsFiniteSet(Known(n, p)) /\ l \notin Known(n, p)
      BY <1>2, <2>4, KnownIsFinite DEF Known
    <3>2. Cardinality(Known(n, p) \cup {l}) = Cardinality(Known(n, p)) + 1
      BY <3>1, FS_AddElement
    <3>3. CASE p \notin DOMAIN n.users
      <4>1. p \in ListPeers[l] /\ Known(n, p) = {}
        BY <2>1, <2>2, <2>4, <3>3
      <4>2. Cardinality(Known(n, p)) = 0
        BY <4>1, FS_EmptySet
      <4>3. m.users[p] = 0 /\ Known(m, p) = Known(n, p) \cup {l}
        BY <2>2, <2>3, <3>3, <4>1
      <4> QED
        BY <3>2, <4>2, <4>3
    <3>4. CASE p \in DOMAIN n.users
      <4>1. n.users[p] \in Int /\ n.users[p] + 1 = Cardinality(Known(n, p))
        BY <2>4, <3>4
      <4>2. CASE p \in ListPeers[l]
        <5>1. m.users[p] = n.users[p] + 1 /\ Known(m, p) = Known(n, p) \cup {l}
          BY <2>2, <2>3, <3>4, <4>2
        <5> QED
          BY <3>2, <4>1, <5>1
      <4>3. CASE p \notin ListPeers[l]
        <5>1. m.users[p] = n.users[p] /\ Known(m, p) = Known(n, p)
          BY <2>2, <2>3, <3>4, <4>3
        <5> QED
          BY <4>1, <5>1
      <4> QED
        BY <4>2, <4>3
    <3> QED
      BY <3>3, <3>4
  <2>7. m.lists \subseteq Lists /\ m.reached = DOMAIN m.users
    BY <2>1, <2>2, <2>4
  <2> QED
    BY <2>2, <2>5, <2>6, <2>7 DEF Counted, all
<1> QED
  BY <1>1, <1>2

\* remove_validator_list gives up the peers that are in no other list.
LEMMA RemoveValidatorListFacts ==
  ASSUME NEW n, Counted(n), NEW l \in n.lists, NEW m, m = RemoveValidatorList(n, l)
  PROVE  Counted(m) /\ m.lists = n.lists \ {l}
<1> DEFINE all == UNION {ListPeers[x] : x \in Lists}
<1> DEFINE gone == {p \in ListPeers[l] : n.users[p] <= 0}
<1>1. /\ m.lists = n.lists \ {l} /\ m.reached = n.reached \ gone
      /\ DOMAIN m.users = DOMAIN n.users \ gone
      /\ \A p \in DOMAIN m.users : m.users[p] = IF p \in ListPeers[l] THEN n.users[p] - 1 ELSE n.users[p]
  BY DEF RemoveValidatorList
<1>2. ASSUME NEW p PROVE Known(m, p) = Known(n, p) \ {l} /\ (l \in Known(n, p) <=> p \in ListPeers[l])
  BY <1>1 DEF Known
<1>3. /\ n.lists \subseteq Lists /\ l \in Lists /\ n.reached = DOMAIN n.users /\ ListPeers[l] \subseteq all
      /\ \A p : p \in DOMAIN n.users <=> p \in all /\ Known(n, p) # {}
      /\ \A p \in DOMAIN n.users : n.users[p] \in Int /\ n.users[p] + 1 = Cardinality(Known(n, p))
  BY DEF Counted
<1> HIDE DEF all
<1>4. ASSUME NEW p \in ListPeers[l]
      PROVE  /\ p \in DOMAIN n.users /\ Cardinality(Known(m, p)) = n.users[p] /\ n.users[p] \in Int
             /\ p \in gone <=> Known(m, p) = {}
  <2>1. l \in Known(n, p) /\ p \in DOMAIN n.users
    BY <1>2, <1>3, <1>4
  <2>2. IsFiniteSet(Known(n, p)) /\ Cardinality(Known(n, p)) \in Nat
    BY <1>3, KnownIsFinite
  <2>3. IsFiniteSet(Known(m, p)) /\ Cardinality(Known(m, p)) = Cardinality(Known(n, p)) - 1
    BY <1>2, <2>1, <2>2, FS_RemoveElement
  <2>4. Cardinality(Known(m, p)) = n.users[p] /\ n.users[p] \in Int
    BY <1>3, <2>1, <2>2, <2>3
  <2>5. Cardinality(Known(m, p)) \in Nat /\ (Cardinality(Known(m, p)) = 0 <=> Known(m, p) = {})
    BY <2>3, FS_CardinalityType, FS_EmptySet
  <2> QED
    BY <1>4, <2>1, <2>4, <2>5
<1>5. ASSUME NEW p, p \notin ListPeers[l] PROVE Known(m, p) = Known(n, p) /\ p \notin gone
  BY <1>2, <1>5
<1> HIDE DEF gone
<1>6. DOMAIN m.users = {p \in all : Known(m, p) # {}}
  <2>1. ASSUME NEW p PROVE p \in DOMAIN n.users \ gone <=> p \in all /\ Known(m, p) # {}
    <3>1. CASE p \in ListPeers[l]
      BY <1>3, <1>4, <3>1
    <3>2. CASE p \notin ListPeers[l]
      BY <1>3, <1>5, <3>2
    <3> QED
      BY <3>1, <3>2
  <2> QED
    BY <1>1, <2>1
<1>7. ASSUME NEW p \in DOMAIN m.users PROVE m.users[p] \in Int /\ m.users[p] + 1 = Cardinality(Known(m, p))
  BY <1>1, <1>3, <1>4, <1>5
<1>8. m.lists \subseteq Lists /\ m.reached = DOMAIN m.users
  BY <1>1, <1>3
<1> QED
  BY <1>1, <1>6, <1>7, <1>8 DEF Counted, all

LEMMA PeersInitHolds == GroupsInit => PeersInv
<1> SUFFICES ASSUME GroupsInit PROVE PeersInv
  OBVIOUS
<1>1. net.lists = {} /\ net.reached = {} /\ DOMAIN net.users = {} /\ DOMAIN groups = {} /\ manager.pc = "off"
  BY DEF GroupsInit, EmptyNet, Nobody, NoManager
<1>2. \A p : Known(net, p) = {}
  BY <1>1 DEF Known
<1> QED
  BY <1>1, <1>2 DEF PeersInv, Counted, ListsAreKnown

\* A step that keeps the lists of the network, and gives no group another list.
LEMMA ListsStayKnown ==
  ASSUME PeersInv, UNCHANGED net, manager'.pc # "finish",
         \A s \in DOMAIN groups' : s \in DOMAIN groups /\ groups'[s].list = groups[s].list
  PROVE  PeersInv'
<1>1. Counted(net)'
  BY DEF PeersInv, Counted, Known
<1> QED
  BY <1>1 DEF PeersInv, ListsAreKnown

LEMMA PeersStepHolds == GroupsInv /\ PeersInv /\ [GroupsNext]_groupVars => PeersInv'
<1> SUFFICES ASSUME GroupsInv, PeersInv, [GroupsNext]_groupVars PROVE PeersInv'
  OBVIOUS
<1>0. Counted(net) /\ ListsAreKnown
  BY DEF PeersInv
<1>1. ASSUME UNCHANGED net, UNCHANGED manager,
             \A s \in DOMAIN groups' : s \in DOMAIN groups /\ groups'[s].list = groups[s].list
      PROVE  PeersInv'
  <2>1. Counted(net)'
    BY <1>0, <1>1 DEF Counted, Known
  <2> QED
    BY <1>0, <1>1, <2>1 DEF PeersInv, ListsAreKnown
<1>2. CASE UNCHANGED groupVars
  BY <1>1, <1>2 DEF groupVars
<1>3. CASE Invoke \/ NextState \/ ListsFail
  <2>1. UNCHANGED <<net, groups>>
    BY <1>3 DEF Invoke, NextState, ListsFail
  <2>2. manager'.pc \in {"update", "failed"}
    BY <1>3, ProcessedFacts DEF Invoke, NextState, ListsFail, ManagerType
  <2> QED
    BY <2>1, <2>2, ListsStayKnown
<1>4. CASE NodeStops
  <2>1. net' = EmptyNet /\ groups' = Nobody /\ manager'.pc = "off"
    BY <1>4 DEF NodeStops, NoManager
  <2>2. net'.lists = {} /\ net'.reached = {} /\ DOMAIN net'.users = {} /\ DOMAIN groups' = {}
    BY <2>1 DEF EmptyNet, Nobody
  <2>3. \A p : Known(net', p) = {}
    BY <2>2 DEF Known
  <2> QED
    BY <2>1, <2>2, <2>3 DEF PeersInv, Counted, ListsAreKnown
<1>5. CASE GarbageCollectLists
  <2>1. UNCHANGED groups /\ manager'.pc \in {"collect", "wait"}
    BY <1>5, ProcessedFacts DEF GarbageCollectLists, ManagerType
  <2>2. CASE UNCHANGED net
    BY <2>1, <2>2, ListsStayKnown
  <2>3. ASSUME NEW l \in Garbage, net' = RemoveValidatorList(net, l) PROVE PeersInv'
    <3>1. l \in net.lists /\ \A s \in DOMAIN groups : groups[s].list # l
      BY DEF Garbage
    <3>2. PICK m : m = net'
      OBVIOUS
    <3>3. Counted(m) /\ m.lists = net.lists \ {l}
      BY <1>0, <2>3, <3>1, <3>2, RemoveValidatorListFacts
    <3>4. Counted(net)'
      BY <3>2, <3>3 DEF Counted, Known
    <3> QED
      BY <1>0, <2>1, <3>1, <3>2, <3>3, <3>4 DEF PeersInv, ListsAreKnown
  <2> QED
    BY <1>5, <2>2, <2>3 DEF GarbageCollectLists
<1>6. ASSUME NEW b \in BOOLEAN, UpdateShards(b) PROVE PeersInv'
  <2>0. PICK k, s, curr, next, n, m :
          /\ k = manager.at /\ s = states[k].session /\ curr = states[k].lists[1] /\ next = states[k].lists[2]
          /\ n = SetValidatorList(net, curr) /\ m = SetValidatorList(n, next)
    OBVIOUS
  <2>1. manager.pc = "update" /\ net' = m
    BY <1>6, <2>0 DEF UpdateShards, StateAt
  <2>2. curr \in AnyList /\ next \in AnyList
    BY <2>0, <2>1, UpdateAdvances
  <2>3. Counted(n) /\ net.lists \subseteq n.lists /\ curr \in n.lists \cup {NoList}
    BY <1>0, <2>0, <2>2, SetValidatorListFacts
  <2>4. Counted(m) /\ n.lists \subseteq m.lists /\ next \in m.lists \cup {NoList}
    BY <2>0, <2>2, <2>3, SetValidatorListFacts
  <2>5. Counted(net)'
    BY <2>1, <2>4 DEF Counted, Known
  <2>6. \A t \in DOMAIN groups : groups[t].list \in m.lists
    BY <1>0, <2>3, <2>4 DEF ListsAreKnown
  <2>7. CASE curr = NoList /\ next = NoList
    <3>1. groups' = StopAndRemove(groups, DOMAIN groups) /\ manager'.pc = "wait"
      BY <1>6, <2>0, <2>7 DEF UpdateShards, StateAt
    <3>2. \A t \in DOMAIN groups' : t \in DOMAIN groups /\ groups'[t].list = groups[t].list
      BY <3>1, StopAndRemoveFacts DEF GroupsInv, GroupsTypeOK, SameWork
    <3> QED
      BY <2>1, <2>5, <2>6, <3>1, <3>2 DEF PeersInv, ListsAreKnown
  <2>8. CASE ~(curr = NoList /\ next = NoList)
    <3>1. PICK status : /\ status = UpdateValidationStatus(manager.status, manager.at, b)
                        /\ groups' = StartSessions(status, curr)
                        /\ manager'.curr = curr /\ manager'.next = next
      BY <1>6, <2>0, <2>8 DEF UpdateShards, StateAt
    <3>2. /\ status \in {"waiting", "countdown", "active"}
          /\ status = "countdown" => manager.status = "countdown" \/ states[manager.at].rotate
          /\ status = "active" => manager.status \in {"countdown", "active"}
      BY <3>1, StatusFacts DEF GroupsInv
    <3>3. /\ DOMAIN groups' \subseteq DOMAIN groups \cup {s}
          /\ \A t \in DOMAIN groups : groups'[t] = groups[t]
          /\ s \in DOMAIN groups' \ DOMAIN groups => groups'[s].list = curr /\ curr # NoList
      <4>1. PICK g : g = groups' /\ g = StartSessions(status, states[manager.at].lists[1])
        BY <2>0, <3>1
      <4>2. SessionsStarted(g, manager.at, states[manager.at].session, states[manager.at].lists[1], status)
        BY <2>1, <3>2, <4>1, StartSessionsFacts
      <4>3. SessionsStarted(groups', k, s, curr, status)
        BY <2>0, <4>1, <4>2
      <4> QED
        BY <4>3 DEF SessionsStarted
    <3>4. \A t \in DOMAIN groups' : groups'[t].list \in m.lists
      BY <2>3, <2>4, <2>6, <3>3
    <3> QED
      BY <2>1, <2>3, <2>4, <2>5, <3>1, <3>4 DEF PeersInv, ListsAreKnown
  <2> QED
    BY <2>7, <2>8
<1>7. ASSUME NEW b \in BOOLEAN, FinishShards(b) PROVE PeersInv'
  <2>0. PICK f, g, ids : f = FutureSession(manager.at) /\ g = InitFutureShards(b) /\ ids = DOMAIN groups \ Needed
    OBVIOUS
  <2>1. /\ manager.pc = "finish" /\ (b => manager.next # NoList) /\ groups' = StopAndRemove(g, ids)
        /\ manager'.pc = "collect" /\ UNCHANGED net
    BY <1>7, <2>0, ProcessedFacts DEF FinishShards, ManagerType
  <2>2. /\ g \in [DOMAIN g -> GroupType] /\ DOMAIN groups \subseteq DOMAIN g /\ DOMAIN g \subseteq DOMAIN groups \cup {f}
        /\ \A t \in DOMAIN groups : g[t] = groups[t]
        /\ f \in DOMAIN g \ DOMAIN groups => g[f].list \in {manager.curr, manager.next} \ {NoList}
    BY <2>0, <2>1, InitFutureShardsFacts DEF GroupsInv
  <2>3. \A t \in DOMAIN g : g[t].list \in net.lists
    BY <1>0, <2>1, <2>2 DEF ListsAreKnown
  <2>4. ids \subseteq DOMAIN g
    BY <2>0, <2>2
  <2>5. \A t \in DOMAIN groups' : t \in DOMAIN g /\ groups'[t].list = g[t].list
    BY <2>1, <2>2, <2>4, StopAndRemoveFacts DEF SameWork
  <2>6. Counted(net)'
    BY <1>0, <2>1 DEF Counted, Known
  <2> QED
    BY <2>1, <2>3, <2>5, <2>6 DEF PeersInv, ListsAreKnown
<1>8. ASSUME NEW s \in DOMAIN groups, NEW g, groups' = [groups EXCEPT ![s] = g], g.list = groups[s].list,
             UNCHANGED <<net, manager>>
      PROVE  PeersInv'
  <2>1. \A t \in DOMAIN groups' : t \in DOMAIN groups /\ groups'[t].list = groups[t].list
    BY <1>8 DEF GroupsInv, GroupsTypeOK
  <2> QED
    BY <1>1, <1>8, <2>1
<1>9. ASSUME NEW s \in DOMAIN groups, RunStart(s) \/ RunStop(s) PROVE PeersInv'
  <2>1. groups[s] \in GroupType /\ UNCHANGED <<net, manager>>
    BY <1>9, ProcessedFacts DEF RunStart, RunStop
  <2>2. PICK h \in GroupType : h = SetStatus(groups[s], "stopped") /\ h.list = groups[s].list
    BY <2>1, SetStatusFacts DEF GroupType, Statuses
  <2>3. CASE RunStart(s)
    <3>1. PICK g \in {[groups[s] EXCEPT !.start = FALSE, !.status = "active", !.running = TRUE],
                      [groups[s] EXCEPT !.start = FALSE]} : groups' = [groups EXCEPT ![s] = g]
      BY <2>3 DEF RunStart, Group
    <3>2. g.list = groups[s].list
      BY <2>1, <3>1 DEF GroupType
    <3> QED
      BY <1>8, <2>1, <3>1, <3>2
  <2>4. CASE RunStop(s)
    <3>1. PICK g : g = [h EXCEPT !.stop = FALSE, !.running = FALSE] /\ groups' = [groups EXCEPT ![s] = g]
      BY <2>2, <2>4 DEF RunStop, Group
    <3>2. g.list = groups[s].list
      BY <2>2, <3>1 DEF GroupType
    <3> QED
      BY <1>8, <2>1, <3>1, <3>2
  <2> QED
    BY <1>9, <2>3, <2>4
<1>10. ASSUME NEW s \in DOMAIN groups, NEW r \in {groups[s].round}, NEW accepted \in BOOLEAN,
              OnRound(s, r) \/ OnBlockSkipped(s, r) \/ OnBlockCommitted(s, r, accepted)
       PROVE  PeersInv'
  <2>1. groups[s] \in GroupType /\ UNCHANGED <<net, manager>>
    BY <1>10, ProcessedFacts DEF OnRound, OnBlockSkipped, OnBlockCommitted
  <2>2. CASE OnRound(s, r)
    BY <1>1, <2>2 DEF OnRound
  <2>3. CASE OnBlockSkipped(s, r) \/ OnBlockCommitted(s, r, accepted)
    <3>1. PICK g \in {[groups[s] EXCEPT !.round = r + 1], Committed(groups[s], r, accepted)} : groups' = [groups EXCEPT ![s] = g]
      BY <2>3 DEF OnBlockSkipped, OnBlockCommitted, Group
    <3>2. g.list = groups[s].list
      BY <2>1, <3>1 DEF Committed, GroupType
    <3> QED
      BY <1>8, <2>1, <3>1, <3>2
  <2> QED
    BY <1>10, <2>2, <2>3
<1>11. ASSUME NEW st \in NextStates, NewMasterState(st) PROVE PeersInv'
  BY <1>1, <1>11 DEF NewMasterState
<1> QED
  BY <1>2, <1>3, <1>4, <1>5, <1>6, <1>7, <1>9, <1>10, <1>11 DEF GroupsNext

\* Whatever validator lists have come and gone, the garbage collection of lists
\* has left the list of each running session, and none of its peers was given
\* up together with another list.
THEOREM PeersOfSessionsStayReachable == GroupsSpec => []PeersStayReachable
<1>1. PeersInv => PeersStayReachable
  <2> SUFFICES ASSUME PeersInv, NEW s \in DOMAIN groups
               PROVE  groups[s].list \in net.lists /\ ListPeers[groups[s].list] \subseteq net.reached
    BY DEF PeersStayReachable
  <2>1. groups[s].list \in net.lists /\ groups[s].list \in Lists
    BY DEF PeersInv, ListsAreKnown, Counted
  <2>2. ASSUME NEW p \in ListPeers[groups[s].list] PROVE Known(net, p) # {} /\ p \in UNION {ListPeers[l] : l \in Lists}
    BY <2>1 DEF Known
  <2> QED
    BY <2>1, <2>2 DEF PeersInv, Counted
<1> QED
  BY <1>1, PeersInitHolds, PeersStepHolds, GroupsInvariance, PTL DEF GroupsSpec
=============================================================================
