-------------------------- MODULE ValidatorGroups ---------------------------
(***************************************************************************)
(* The validator sessions of one node (validator/validator_manager.rs,     *)
(* validator/validator_group.rs, validator/validator_session_listener.rs,  *)
(* network/node_network.rs): the manager reads the masterchain states one  *)
(* after another, starts the session each of them calls for and stops the  *)
(* others; tasks of their own start and stop a group, and another one      *)
(* works through the requests of its session.                              *)
(*                                                                         *)
(* A session is a number; the shard, the validators, the catchain seqno,   *)
(* the options and the key block its identifier is the hash of are         *)
(* reduced to its being the same or another one.  The blocks before a      *)
(* session are the ones of the first masterchain state that calls for it.  *)
(* The masterchain and what the sessions decide is given by the network.   *)
(***************************************************************************)
EXTENDS Integers, Sequences, FiniteSets, FiniteSetsExt, Functions

CONSTANTS
  ListPeers,     \* the validator lists that have a local key, with their peers
  MaxStates,     \* bound: masterchain states
  MaxRounds,     \* bound: rounds of all sessions
  Restarts       \* bound: crashes of the node

NoList == "none"
Lists == DOMAIN ListPeers

ASSUME ListsAssumption == IsFiniteSet(Lists) /\ Lists # {} /\ NoList \notin Lists

VARIABLES
  states,        \* the applied masterchain states
  manager,       \* ValidatorManagerImpl, without its sessions
  groups,        \* validator_sessions, with the tasks of each group
  net,           \* the validator lists of NodeNetwork and their peers
  stored,        \* what survives a crash
  decided,       \* what the network has decided in each round of a session
  seen           \* what the handlers have used, for the properties

groupVars == <<states, manager, groups, net, stored, decided, seen>>

LastState == Len(states)
StateAt(k) == states[k]

\* The state that calls for session s first: other validators start it there.
FirstState(s) == Min({k \in 1 .. LastState : states[k].session = s})

\* The block that session s decided last before round r, 0 for the first one.
LastDecided(s, r) == Max({0} \cup {q \in 1 .. r - 1 : decided[s][q] = "block"})

\* What a block of round r follows: the proposer has put it in the header.
HeaderPrevs(s, r) == <<FirstState(s), LastDecided(s, r)>>

\* Future sessions have numbers of their own: their identifier is made with
\* catchain seqno 1, so a started session never has it, and changes with every
\* rotation.
FutureSession(k) == 0 - Cardinality({j \in 1 .. k : states[j].rotate})

\* A map with one more entry.
With(f, k, v) == [x \in DOMAIN f \cup {k} |-> IF x = k THEN v ELSE f[x]]
Nobody == [s \in {} |-> s]

-----------------------------------------------------------------------------
(* Validator lists                                                         *)

EmptyNet == [lists |-> {}, users |-> Nobody, reached |-> {}]

\* set_validator_list: a peer is counted from 0, one more for every further list.
SetValidatorList(n, l) ==
  IF l = NoList \/ l \in n.lists THEN n
  ELSE [lists |-> n.lists \cup {l},
        users |-> [p \in DOMAIN n.users \cup ListPeers[l] |->
                     IF p \notin DOMAIN n.users THEN 0
                     ELSE IF p \in ListPeers[l] THEN n.users[p] + 1 ELSE n.users[p]],
        reached |-> n.reached \cup ListPeers[l]]

\* remove_validator_list
RemoveValidatorList(n, l) ==
  LET gone == {p \in ListPeers[l] : n.users[p] <= 0}
  IN  [lists |-> n.lists \ {l},
       users |-> [p \in DOMAIN n.users \ gone |-> IF p \in ListPeers[l] THEN n.users[p] - 1 ELSE n.users[p]],
       reached |-> n.reached \ gone]

-----------------------------------------------------------------------------
(* Groups                                                                  *)

\* ValidatorGroup::new
NewGroup(list) ==
  [status |-> "created", start |-> FALSE, stop |-> FALSE, running |-> FALSE,
   list |-> list, prevs |-> <<0, 0>>, round |-> 1]

Rank == [created |-> 0, countdown |-> 1, active |-> 2, stopping |-> 3, stopped |-> 4]

\* set_status, ValidatorGroupStatus::before
SetStatus(g, status) ==
  IF Rank[g.status] <= Rank[status] /\ ~(g.status = "countdown" /\ status = "countdown")
  THEN [g EXCEPT !.status = status] ELSE g

\* start_with_status spawns a task that starts the session, at once or after
\* the countdown; stop spawns one that stops it.
StartWithStatus(g, status, k) ==
  IF g.status = "created" THEN [SetStatus(g, status) EXCEPT !.start = TRUE, !.prevs = <<k, 0>>] ELSE g

StopGroup(g) == [SetStatus(g, "stopping") EXCEPT !.stop = TRUE]

\* stop_and_remove_sessions
StopAndRemove(g, ids) ==
  LET left == DOMAIN g \ {s \in ids : g[s].status = "stopped"}
  IN  [s \in left |-> IF s \in ids /\ g[s].status # "stopping" THEN StopGroup(g[s]) ELSE g[s]]

-----------------------------------------------------------------------------
(* The manager                                                             *)

NoManager == [pc |-> "off", at |-> 0, status |-> "disabled", curr |-> NoList, next |-> NoList]

\* invoke: from the last rotation block, or else from the last applied one.
Invoke ==
  /\ manager.pc = "off"
  /\ manager' = [manager EXCEPT !.pc = "update", !.at = IF stored.rotation = 0 THEN LastState ELSE stored.rotation]
  /\ UNCHANGED <<states, groups, net, stored, decided, seen>>

\* enable_validation and update_validation_status
UpdateValidationStatus(status, k, sync) ==
  CASE status \in {"disabled", "waiting"} -> IF StateAt(k).rotate /\ sync THEN "countdown" ELSE "waiting"
    [] status = "countdown" -> IF \E s \in DOMAIN groups : groups[s].status = "active" THEN "active" ELSE status
    [] OTHER -> status

\* start_sessions: the status a new session starts with.
MutGroupStartStatus(status) == "active"
GroupStartStatus(status) == IF status = "countdown" THEN "countdown" ELSE "active"

\* start_sessions: with a current list, and when the status allows it.
StartSessions(status, curr) ==
  LET s == StateAt(manager.at).session
      g == IF s \in DOMAIN groups THEN groups[s] ELSE NewGroup(curr)
  IN  IF status = "waiting" \/ curr = NoList THEN groups
      ELSE With(groups, s, StartWithStatus(g, GroupStartStatus(status), manager.at))

\* The first part of update_shards: update_validator_lists, then either
\* disable_validation or the new status and start_sessions.
UpdateShards(sync) ==
  LET curr == StateAt(manager.at).lists[1]
      next == StateAt(manager.at).lists[2]
      status == UpdateValidationStatus(manager.status, manager.at, sync)
  IN  /\ manager.pc = "update"
      /\ net' = SetValidatorList(SetValidatorList(net, curr), next)
      /\ \/ /\ curr = NoList /\ next = NoList
            /\ manager' = [pc |-> "wait", at |-> manager.at, status |-> "disabled", curr |-> curr, next |-> next]
            /\ groups' = StopAndRemove(groups, DOMAIN groups)
            /\ stored' = [stored EXCEPT !.rotation = 0]
         \/ /\ curr # NoList \/ next # NoList
            /\ manager' = [pc |-> "finish", at |-> manager.at, status |-> status, curr |-> curr, next |-> next]
            /\ groups' = StartSessions(status, curr)
            /\ UNCHANGED stored
      /\ UNCHANGED <<states, decided, seen>>

\* An error of set_validator_list ends the manager until the node restarts.
ListsFail ==
  /\ manager.pc = "update"
  /\ \E l \in Lists : l \in Range(StateAt(manager.at).lists) /\ l \notin net.lists
  /\ manager' = [manager EXCEPT !.pc = "failed"]
  /\ UNCHANGED <<states, groups, net, stored, decided, seen>>

\* The group of the next session is created, not started, for the current or
\* for the next list; it is found by the local key of the current list.
InitFutureShards(near) ==
  LET s == FutureSession(manager.at)
      list == IF near /\ manager.next # NoList THEN manager.next ELSE manager.curr
  IN  IF manager.curr = NoList \/ s \in DOMAIN groups THEN groups
      ELSE With(groups, s, NewGroup(list))

\* The sessions that the state calls for.
Needed ==
  (IF manager.status = "waiting" \/ manager.curr = NoList THEN {} ELSE {StateAt(manager.at).session})
    \cup (IF manager.curr = NoList THEN {} ELSE {FutureSession(manager.at)})

\* The rest of update_shards: future shards, the rotation block, the sessions
\* nobody needs
FinishShards(near) ==
  /\ manager.pc = "finish"
  /\ near => manager.next # NoList
  /\ stored' = IF StateAt(manager.at).rotate THEN [stored EXCEPT !.rotation = manager.at] ELSE stored
  /\ groups' = StopAndRemove(InitFutureShards(near), DOMAIN groups \ Needed)
  /\ manager' = [manager EXCEPT !.pc = "collect"]
  /\ UNCHANGED <<states, net, decided, seen>>

\* and then, one after another, the lists: those of the sessions, the current
\* one and the next one stay.
MutGarbage == net.lists \ {manager.curr, manager.next}
Garbage == net.lists \ ({manager.curr, manager.next} \cup {groups[s].list : s \in DOMAIN groups})

GarbageCollectLists ==
  /\ manager.pc = "collect"
  /\ \/ \E l \in Garbage : net' = RemoveValidatorList(net, l) /\ UNCHANGED manager
     \/ Garbage = {} /\ manager' = [manager EXCEPT !.pc = "wait"] /\ UNCHANGED net
  /\ UNCHANGED <<states, groups, stored, decided, seen>>

NextState ==
  /\ manager.pc = "wait" /\ manager.at < LastState
  /\ manager' = [manager EXCEPT !.pc = "update", !.at = @ + 1]
  /\ UNCHANGED <<states, groups, net, stored, decided, seen>>

-----------------------------------------------------------------------------
(* The tasks of a group                                                    *)

Group(s, g) == groups' = [groups EXCEPT ![s] = g]

\* ValidatorGroupImpl::start opens the database of the session, which brings
\* back its rounds, unless the group was stopped before.  A countdown takes
\* longer than the manager needs for the states that are already applied.
RunStart(s) ==
  /\ groups[s].start
  /\ groups[s].status = "countdown" => manager.pc = "wait" /\ manager.at = LastState
  /\ \/ /\ Rank[groups[s].status] <= Rank["active"]
        /\ Group(s, [groups[s] EXCEPT !.start = FALSE, !.status = "active", !.running = TRUE])
        /\ seen' = [seen EXCEPT !.revived = @ \/ s \in seen.destroyed]
     \/ /\ Rank[groups[s].status] > Rank["active"]
        /\ Group(s, [groups[s] EXCEPT !.start = FALSE])
        /\ UNCHANGED seen
  /\ UNCHANGED <<states, manager, net, stored, decided>>

\* The task of stop: the session, if there is one, goes with its database.
RunStop(s) ==
  /\ groups[s].stop
  /\ Group(s, [SetStatus(groups[s], "stopped") EXCEPT !.stop = FALSE, !.running = FALSE])
  /\ seen' = [seen EXCEPT !.destroyed = IF groups[s].running THEN @ \cup {s} ELSE @]
  /\ UNCHANGED <<states, manager, net, stored, decided>>

-----------------------------------------------------------------------------
(* The session and its listener: process_validation_queue works through    *)
(* the requests in order, one at a time, and only it changes               *)
(* prev_block_ids of a started group; a request and its handling are one   *)
(* step.                                                                   *)

\* seen keeps that a handler has worked after the wrong blocks.
Follows(s, r) == seen' = [seen EXCEPT !.misled = @ \/ groups[s].prevs # HeaderPrevs(s, r)]

\* on_generate_slot and on_candidate, in the round of the session.  The requests
\* come in the order of the rounds, so last_known_round never refuses one.
OnRound(s, r) ==
  /\ groups[s].running /\ r = groups[s].round
  /\ Follows(s, r)
  /\ UNCHANGED <<states, manager, groups, net, stored, decided>>

RoundsDecided == MapThenSumSet(LAMBDA t : Len(decided[t]), DOMAIN decided)

\* The session tells the decision of a round when it has it, in the order of
\* the rounds; what was decided before a restart comes back from its database.
Decides(s, r, what) ==
  /\ groups[s].running /\ r = groups[s].round
  /\ \/ r \in DOMAIN decided[s] /\ decided[s][r] = what /\ UNCHANGED decided
     \/ r \notin DOMAIN decided[s] /\ RoundsDecided < MaxRounds
        /\ decided' = [decided EXCEPT ![s] = Append(@, what)]

\* on_block_committed: the group goes on from the block, whether accept_block
\* has succeeded or not.
MutCommitted(g, r, accepted) ==
  [g EXCEPT !.round = r + 1, !.prevs = IF accepted THEN <<@[1], r>> ELSE @]
Committed(g, r, accepted) ==
  [g EXCEPT !.round = r + 1, !.prevs = <<@[1], r>>]

OnBlockCommitted(s, r, accepted) ==
  /\ Decides(s, r, "block")
  /\ Group(s, Committed(groups[s], r, accepted))
  /\ Follows(s, r)
  /\ UNCHANGED <<states, manager, net, stored>>

OnBlockSkipped(s, r) ==
  /\ Decides(s, r, "skip")
  /\ Group(s, [groups[s] EXCEPT !.round = r + 1])
  /\ UNCHANGED <<states, manager, net, stored, seen>>

-----------------------------------------------------------------------------
(* The network and the node                                                *)

\* A rotation replaces the session, and a key block may change the lists;
\* without one the session stays or is replaced by a split, a merge or the
\* update of the catchain seqno of the shards alone.
NewMasterState(st) ==
  /\ LastState < MaxStates /\ manager.pc \notin {"update", "finish"}
  /\ states' = Append(states, st)
  /\ decided' = IF st.session \in DOMAIN decided THEN decided ELSE With(decided, st.session, <<>>)
  /\ UNCHANGED <<manager, groups, net, stored, seen>>

NextStates ==
  LET last == states[LastState]
      fresh == last.session + 1
      key == {<<last.lists[2], NoList>>} \cup {<<last.lists[1], l>> : l \in Lists \ Range(last.lists)}
  IN  {[rotate |-> TRUE, session |-> fresh, lists |-> ls] : ls \in key \cup {last.lists}}
        \cup {[rotate |-> FALSE, session |-> s, lists |-> last.lists] : s \in {last.session, fresh}}

NodeStops ==
  /\ stored.crashes < Restarts
  /\ manager' = NoManager /\ groups' = Nobody /\ net' = EmptyNet
  /\ stored' = [stored EXCEPT !.crashes = @ + 1]
  /\ UNCHANGED <<states, decided, seen>>

GroupsInit ==
  /\ states = <<[rotate |-> TRUE, session |-> 1, lists |-> <<CHOOSE l \in Lists : TRUE, NoList>>]>>
  /\ manager = NoManager /\ groups = Nobody /\ net = EmptyNet
  /\ stored = [rotation |-> 0, crashes |-> 0]
  /\ decided = [s \in {1} |-> <<>>]
  /\ seen = [destroyed |-> {}, revived |-> FALSE, misled |-> FALSE]

GroupsNext ==
  \/ Invoke \/ ListsFail \/ GarbageCollectLists \/ NextState \/ NodeStops
  \/ \E b \in BOOLEAN : UpdateShards(b) \/ FinishShards(b)
  \/ \E s \in DOMAIN groups :
       \/ RunStart(s) \/ RunStop(s)
       \/ \E r \in {groups[s].round} :
            \/ OnRound(s, r) \/ OnBlockSkipped(s, r)
            \/ \E accepted \in BOOLEAN : OnBlockCommitted(s, r, accepted)
  \/ \E st \in NextStates : NewMasterState(st)

GroupsSpec == GroupsInit /\ [][GroupsNext]_groupVars

-----------------------------------------------------------------------------

\* on_generate_slot, on_candidate and on_block_committed always work after the
\* blocks that the other validators of the session have in that round: after a
\* restart, a failed accept_block, a skipped round, a late start.
RoundsFollowTheChain == ~seen.misled

\* A session that was stopped has lost its own blocks with its database: the
\* replay of the masterchain after a restart does not start it again.
StoppedStaysStopped == ~seen.revived

\* While a session runs, its validator list is known and all its peers can be
\* reached, whatever lists have come and gone.
PeersStayReachable ==
  \A s \in DOMAIN groups : groups[s].running =>
    groups[s].list \in net.lists /\ ListPeers[groups[s].list] \subseteq net.reached

=============================================================================
