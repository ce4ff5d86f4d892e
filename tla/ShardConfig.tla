----------------------------- MODULE ShardConfig ----------------------------
(***************************************************************************)
(* The shard configuration of one workchain (validator/collator.rs and     *)
(* validator/validate_query.rs for masterchain blocks, validating_utils.rs,*)
(* validator/accept_block.rs, types/top_block_descr.rs, shard_blocks.rs):  *)
(* the masterchain announces splits and merges, registers the top blocks   *)
(* whose descriptions have reached the collator and renews the sessions.   *)
(* Shard blocks wait unregistered while the masterchain goes on, so that a *)
(* shard that lags behind and one that runs ahead of it look the same.     *)
(*                                                                         *)
(* A shard is a sequence of bits, a block <<shard, catchain seqno, seqno>>:*)
(* a session agrees on one chain.  Time is counted in units in which the   *)
(* delay and the interval of a split or merge are small numbers.  lt, fees *)
(* and block creators are left out.                                        *)
(***************************************************************************)
EXTENDS Integers, Sequences, FiniteSets, FiniteSetsExt, SequencesExt, TLC

CONSTANTS
  Delay, Interval,   \* SPLIT_MERGE_DELAY, SPLIT_MERGE_INTERVAL
  SplitMargin,       \* a split block is made this long before the end
  MinInterval, MaxDelay, \* MIN_SPLIT_MERGE_INTERVAL, MAX_SPLIT_MERGE_DELAY
  MinSplit, MaxSplit,    \* of the workchain
  Wants,             \* want_split and want_merge of a shard block: "split", "merge"
                     \* or "none"; with MaxSplit = 1 the last acts like the wish
                     \* that the depth of the shard does not allow
  MaxChain,          \* unregistered blocks of a chain (8)
  MaxFresh,          \* bound: unregistered blocks of all shards
  MaxTime,           \* bound: the time of the last masterchain block
  MaxCc              \* bound: no rotation after this catchain seqno

ASSUME WindowAssumption ==
  /\ Delay \in Nat /\ Interval \in Nat \ {0} /\ MinInterval \in Nat /\ MaxDelay \in Nat
  /\ MinInterval <= Interval /\ Delay + Interval <= MaxDelay
ASSUME SplitAssumption == MinSplit \in Nat /\ MaxSplit \in Nat /\ MinSplit <= MaxSplit

VARIABLES
  conf,      \* the last masterchain state
  fresh,     \* shard blocks that are not registered
  refused    \* the validators have refused a masterchain block

layoutVars == <<conf, fresh, refused>>

Child(s, bit) == Append(s, bit)
Merged(s) == Front(s)
Other(s) == Append(Front(s), 1 - Last(s))
IsParentOf(p, s) == s # <<>> /\ Merged(s) = p

\* find_shard with left_ancestor_mask and right_ancestor_mask
AtEdge(c, s, bit) ==
  CHOOSE t \in DOMAIN c.shards :
    IsPrefix(t, s) \/ (IsPrefix(s, t) /\ \A i \in Len(s) + 1 .. Len(t) : t[i] = bit)

NoWindow == [kind |-> "none", from |-> 0]
Window(kind, now) == [kind |-> kind, from |-> now + Delay]
WindowEnd(w) == w.from + Interval

\* calc_shard_cc_seqno
CcSeqno(c, s) ==
  LET t == AtEdge(c, s, 0)
      u == AtEdge(c, s, 1)
  IN  IF IsPrefix(t, s) THEN c.shards[t].cc ELSE 1 + Max({c.shards[t].cc, c.shards[u].cc})

\* The sessions of a masterchain state and the blocks they start from
\* (ValidatorManagerImpl::update_shards).
CalledFor(c) ==
  UNION {LET d == c.shards[s]
         IN  IF d.bs THEN {Child(s, 0), Child(s, 1)} ELSE IF d.bm THEN {Merged(s)} ELSE {s} :
         s \in DOMAIN c.shards}

SessionStart(c, s) ==
  IF s \in DOMAIN c.shards \/ \E p \in DOMAIN c.shards : IsParentOf(p, s)
  THEN <<c.shards[AtEdge(c, s, 0)].top>>
  ELSE <<c.shards[Child(s, 0)].top, c.shards[Child(s, 1)].top>>

-----------------------------------------------------------------------------
(* Shard blocks                                                            *)

Id(b) == <<b.shard, b.cc, b.seq>>

\* What the session (s, cc) has decided last: prev_block_ids of the group.
PrevBlocks(c, s, cc) ==
  LET mine == {b.seq : b \in {x \in fresh : x.shard = s /\ x.cc = cc}}
                \cup {conf.shards[t].top[3] : t \in {t \in DOMAIN conf.shards :
                        conf.shards[t].top[1] = s /\ conf.shards[t].top[2] = cc}}
  IN  IF mine = {} THEN SessionStart(c, s) ELSE <<<<s, cc, Max(mine)>>>>

\* check_prev_block
FollowsListed(listed, prev) == listed[3] <= prev[3] /\ prev[3] < listed[3] + MaxChain

\* check_this_shard_mc_info
ShardMayGoOn(c, s, prevs) ==
  LET t == AtEdge(c, s, 0)
      left == c.shards[t]
      event == Len(prevs) = 2 \/ prevs[1][1] # s
  IN  \/ /\ t = s /\ ~event /\ FollowsListed(left.top, prevs[1])
         /\ ~left.bs /\ ~left.bm
      \/ /\ IsParentOf(s, t) /\ left.bm /\ c.shards[AtEdge(c, s, 1)].bm
         /\ IF event THEN prevs = SessionStart(c, s)
            ELSE LET listed == Max({left.top[3], c.shards[AtEdge(c, s, 1)].top[3]})
                 IN  prevs[1][3] > listed /\ prevs[1][3] < listed + MaxChain
      \/ /\ IsParentOf(t, s) /\ left.bs
         /\ IF event THEN prevs[1] = left.top ELSE FollowsListed(left.top, prevs[1])

\* The collator of a shard sets before_split inside the window.
BeforeSplit(c, s, u) ==
  /\ s \in DOMAIN c.shards /\ c.shards[s].fsm.kind = "split"
  /\ u >= c.shards[s].fsm.from /\ u + SplitMargin < WindowEnd(c.shards[s].fsm)

\* build_proof_chain: the registered blocks that the unregistered chain starts from.
ChainHead(prevs, last) == IF last = {} THEN prevs ELSE (CHOOSE b \in last : TRUE).start

\* A session of state c decides a block; accept_block describes it.
NewShardBlock(c, s, u, want) ==
  LET cc == CcSeqno(c, s)
      prevs == PrevBlocks(c, s, cc)
      last == {b \in fresh : Id(b) = prevs[1]}
  IN  /\ Cardinality(fresh) < MaxFresh
      /\ ShardMayGoOn(c, s, prevs)
      /\ \A b \in last : u > b.utime /\ ~b.bs
      /\ fresh' = fresh \cup
           {[shard |-> s, cc |-> cc, seq |-> 1 + Max({p[3] : p \in Range(prevs)}), start |-> ChainHead(prevs, last),
             utime |-> u, bs |-> BeforeSplit(c, s, u), want |-> want]}
      /\ UNCHANGED <<conf, refused>>

-----------------------------------------------------------------------------
(* Top block descriptions                                                  *)

\* The registered blocks of a shard, or of its halves.
RegisteredTops(c, s) ==
  LET left == AtEdge(c, s, 0)
  IN  IF IsParentOf(s, left) THEN <<c.shards[left].top, c.shards[AtEdge(c, s, 1)].top>>
      ELSE <<c.shards[left].top>>

\* The signatures are those of the session the state calls for.
SignedByCurrent(c, b) == b.cc = CcSeqno(c, b.shard)

\* The registered blocks that the new part of a chain goes on from, <<>> when
\* the description is invalid (validate_internal, get_prev_at).
ChainStart(c, b) ==
  LET tops == RegisteredTops(c, b.shard)
      known == Max({t[3] : t \in Range(tops)})
      first == Max({t[3] : t \in Range(b.start)})
  IN  IF /\ known < b.seq /\ first <= known
         /\ IF known > first THEN tops = <<<<b.shard, b.cc, known>>>> ELSE b.start = tops
         /\ SignedByCurrent(c, b)
      THEN tops ELSE <<>>

\* A block is taken although a merge has been announced for now.
MutMayUpdate(c, b, starts) ==
  LET split == IsParentOf(starts[1][1], b.shard)
      merge == Len(starts) = 2
  IN  /\ \A p \in Range(starts) :
           /\ p[1] \in DOMAIN c.shards /\ c.shards[p[1]].top = p
           /\ c.shards[p[1]].bs = split
           /\ merge => c.shards[p[1]].bm
           /\ b.bs => /\ ~split /\ ~merge /\ c.shards[p[1]].fsm.kind = "split"
                      /\ b.utime >= c.shards[p[1]].fsm.from /\ b.utime < WindowEnd(c.shards[p[1]].fsm)
      /\ b.cc = Max({c.shards[p[1]].cc : p \in Range(starts)}) + (IF merge THEN 1 ELSE 0)

\* may_update_shard_block_info
MayUpdate(c, b, starts) ==
  LET split == IsParentOf(starts[1][1], b.shard)
      merge == Len(starts) = 2
      inside(w) == b.utime >= w.from /\ b.utime < WindowEnd(w)
  IN  /\ \A p \in Range(starts) :
           /\ p[1] \in DOMAIN c.shards /\ c.shards[p[1]].top = p
           /\ c.shards[p[1]].bs = split /\ c.shards[p[1]].bm = merge
           /\ b.bs => ~split /\ ~merge /\ c.shards[p[1]].fsm.kind = "split" /\ inside(c.shards[p[1]].fsm)
           /\ merge => c.shards[p[1]].fsm.kind = "merge" /\ inside(c.shards[p[1]].fsm)
      /\ b.cc = Max({c.shards[p[1]].cc : p \in Range(starts)}) + (IF merge THEN 1 ELSE 0)

\* What the collator of the masterchain and its validators ask of a description.
MayRegisterTop(c, b, now) ==
  /\ b.utime < now
  /\ \E starts \in {ChainStart(c, b)} :
       /\ starts # <<>> /\ b.seq <= MaxChain + Max({p[3] : p \in Range(starts)})
       /\ MayUpdate(c, b, starts)

-----------------------------------------------------------------------------
(* Masterchain blocks                                                      *)

\* import_new_shard_top_blocks: the two halves of a split shard come together.
ImportedTops(c, picks) ==
  {b \in picks : \/ b.shard \in DOMAIN c.shards \/ \E s \in DOMAIN c.shards : IsParentOf(b.shard, s)
                 \/ \E d \in picks : d.shard = Other(b.shard)}

\* update_shard_block_info: the announcement stays unless it was a split or merge.
TopDescr(c, b) ==
  [top |-> Id(b), cc |-> b.cc, bs |-> b.bs, bm |-> FALSE, want |-> b.want,
   fsm |-> IF b.shard \in DOMAIN c.shards THEN c.shards[b.shard].fsm ELSE NoWindow]

Imported(c, tops) ==
  LET covered == {s \in DOMAIN c.shards : \E b \in tops : IsPrefix(s, b.shard) \/ IsPrefix(b.shard, s)}
  IN  [s \in (DOMAIN c.shards \ covered) \cup {b.shard : b \in tops} |->
         IF s \in {b.shard : b \in tops} THEN TopDescr(c, CHOOSE b \in tops : b.shard = s) ELSE c.shards[s]]

\* The merge is forced without a look at the sibling's window.
MutUpdateOneShard(s, info, sib, now, rotate) ==
  LET over == info.fsm.kind # "none" /\ (now >= WindowEnd(info.fsm) \/ info.bs)
      fsm == IF over THEN NoWindow ELSE info.fsm
      split == ~info.bs /\ fsm.kind = "none" /\ info.want = "split" /\ Len(s) < MaxSplit
      merge == ~info.bs /\ ~split /\ Len(s) > MinSplit /\ info.want = "merge"
      force == merge /\ fsm.kind = "merge" /\ now >= fsm.from
  IN  [info EXCEPT !.fsm = IF split THEN Window("split", now)
                           ELSE IF merge /\ fsm.kind = "none" THEN Window("merge", now) ELSE fsm,
                   !.bm = force,
                   !.cc = IF rotate \/ (info.bm /\ ~force) THEN @ + 1 ELSE @]
\* update_one_shard, with sib the set of the sibling's description, if there is
\* one; the descriptions are those before the update.
UpdateOneShard(s, info, sib, now, rotate) ==
  LET depth == Len(s)
      over == info.fsm.kind # "none" /\ (now >= WindowEnd(info.fsm) \/ info.bs)
      alone == info.fsm.kind = "merge" /\ \A d \in sib : d.bs
      fsm == IF over \/ alone THEN NoWindow ELSE info.fsm
      split == ~info.bs /\ fsm.kind = "none" /\ (info.want = "split" \/ depth < MinSplit) /\ depth < MaxSplit
      wanted(d) == d.want = "merge" \/ depth > MaxSplit
      merge == ~info.bs /\ ~split /\ depth > MinSplit /\ wanted(info)
                 /\ \E d \in sib : ~d.bs /\ wanted(d)
      announce == merge /\ fsm.kind = "none" /\ \A d \in sib : d.fsm.kind = "none"
      force == merge /\ fsm.kind = "merge" /\ now >= fsm.from
                 /\ \A d \in sib : d.fsm.kind = "merge" /\ now >= d.fsm.from
  IN  [info EXCEPT !.fsm = IF split THEN Window("split", now) ELSE IF announce THEN Window("merge", now) ELSE fsm,
                   !.bm = force,
                   !.cc = IF rotate \/ (info.bm /\ ~force) THEN @ + 1 ELSE @]

Siblings(shards, s) == {shards[t] : t \in {t \in DOMAIN shards : s # <<>> /\ t = Other(s)}}

\* update_shard_config, create_mc_state_extra
NewLayout(c, tops, now, rotate) ==
  LET shards == Imported(c, tops)
  IN  [utime |-> now,
       shards |-> [s \in DOMAIN shards |-> UpdateOneShard(s, shards[s], Siblings(shards, s), now, rotate)]]

\* check_one_shard: a shard of the new state is unchanged or has a description;
\* tops have passed the same MayRegisterTop again.
TopIsShown(old, info, tops) == old.top = info.top \/ \E b \in tops : Id(b) = info.top

\* check_one_shard: what else the validators ask of a shard of the new state.
ShardIsValid(c, new, tops, s, now, rotate) ==
  LET info == new.shards[s]
      sib == Siblings(new.shards, s)
      t == AtEdge(c, s, 0)
      old == c.shards[t]
      kept == t = s
      depth == Len(s)
      cc == IF old.top = info.top THEN old.cc ELSE info.top[2]
      inherited == kept /\ old.fsm.kind # "none" /\ old.fsm = info.fsm
      wanted(d) == d.want = "merge" \/ depth > MaxSplit
      splitCond == (info.want = "split" \/ depth < MinSplit) /\ depth < MaxSplit
      mergeCond == depth > MinSplit /\ wanted(info)
                     /\ ((\E d \in sib : d.want = "merge") \/ depth > MaxSplit)
      cleared == kept /\ old.bm /\ ~info.bm
  IN  /\ TopIsShown(old, info, tops)
      /\ IF kept
         THEN /\ old.fsm.kind = "none" \/ old.fsm = info.fsm \/ now >= WindowEnd(old.fsm) \/ info.bs
              /\ inherited => now <= WindowEnd(old.fsm) /\ ~info.bs
         ELSE ~info.bs
      /\ (info.fsm.kind # "none" /\ ~inherited) =>
           /\ info.fsm.from >= now /\ WindowEnd(info.fsm) >= info.fsm.from + MinInterval
           /\ WindowEnd(info.fsm) <= now + MaxDelay
           /\ info.fsm.kind = "split" => splitCond
           /\ info.fsm.kind = "merge" => mergeCond
      /\ info.bm => (\E d \in sib : d.bm) /\ info.fsm.kind = "merge" /\ mergeCond
      /\ info.cc \in {cc, cc + 1}
      /\ (info.cc # cc) <=> (rotate \/ cleared)

\* check_shard_layout
LayoutIsValid(c, new, tops, now, rotate) ==
  \A s \in DOMAIN new.shards : ShardIsValid(c, new, tops, s, now, rotate)

\* A collator with some of the descriptions makes a masterchain block; when the
\* validators refuse it, another one is made later.
NewMaster(tops, new, now, rotate) ==
  LET sessions == {<<s, CcSeqno(conf, s)>> : s \in CalledFor(conf)}
                    \cup {<<s, CcSeqno(new, s)>> : s \in CalledFor(new)}
      stays(b) == <<b.shard, b.cc>> \in sessions
                    /\ \A s \in DOMAIN new.shards : new.shards[s].top[1] = b.shard /\ new.shards[s].top[2] = b.cc
                                                      => b.seq > new.shards[s].top[3]
  IN  \E valid \in {LayoutIsValid(conf, new, tops, now, rotate)} :
        /\ refused' = ~valid
        /\ conf' = IF valid THEN new ELSE conf
        /\ fresh' = IF valid THEN {b \in fresh : stays(b)} ELSE fresh

\* The workchain starts with one shard or, a split behind it, with two.
FirstDescr(s, want) ==
  [top |-> <<s, 0, 0>>, cc |-> 0, bs |-> FALSE, bm |-> FALSE, want |-> want, fsm |-> NoWindow]

LayoutInit ==
  /\ \E layout \in {{<<>>}, {<<0>>, <<1>>}} : \E want \in [layout -> Wants] :
       LET shards == [s \in layout |-> FirstDescr(s, want[s])]
       IN  conf = [utime |-> 0,
                   shards |-> [s \in layout |-> UpdateOneShard(s, shards[s], Siblings(shards, s), 0, FALSE)]]
  /\ fresh = {} /\ refused = FALSE

\* A shard block is made soon or when a window opens, a masterchain block soon,
\* after the shard blocks, or when a window opens or closes.
Windows == {conf.shards[s].fsm : s \in DOMAIN conf.shards} \ {NoWindow}
ShardTimes == {t \in {conf.utime + 1} \cup {b.utime + 1 : b \in fresh} \cup {w.from : w \in Windows} : t > conf.utime}
MasterTimes == {t \in ShardTimes \cup {WindowEnd(w) : w \in Windows} : conf.utime < t /\ t <= MaxTime}

Rotations == IF \E s \in DOMAIN conf.shards : conf.shards[s].cc = MaxCc THEN {FALSE} ELSE BOOLEAN

\* What a collator's pool may hold: at most one description of a session.
Pools(good) == {P \in SUBSET good : \A b, d \in P : b.shard = d.shard => b = d}

LayoutNext ==
  \/ \E s \in CalledFor(conf), u \in ShardTimes, want \in Wants : NewShardBlock(conf, s, u, want)
  \/ \E now \in MasterTimes : \E good \in {{b \in fresh : MayRegisterTop(conf, b, now)}} :
       \E picks \in Pools(good) :
         \E tops \in {ImportedTops(conf, picks)}, rotate \in Rotations :
           \E new \in {NewLayout(conf, tops, now, rotate)} : NewMaster(tops, new, now, rotate)

LayoutSpec == LayoutInit /\ [][LayoutNext]_layoutVars

-----------------------------------------------------------------------------

\* The validators of a masterchain block derive its shard configuration from
\* what the block shows; the collator derives it from the configuration before
\* and the descriptions it has, shard by shard.  They always agree (max_split
\* = 1: a shard that is one of two never announces a split).
LayoutIsAccepted == ~refused

\* The shards of the sessions a masterchain state calls for never overlap, and
\* what a session has decided can still be registered as long as the session
\* goes on: no chain of a shard is left behind by a split, a merge that was
\* called off, a rotation or the other half's blocks.
SessionsFollowTheLayout ==
  /\ \A s, t \in CalledFor(conf) : IsPrefix(s, t) => s = t
  /\ \A b \in fresh : b.shard \in CalledFor(conf) /\ b.cc = CcSeqno(conf, b.shard)
                        => ChainStart(conf, b) # <<>>

=============================================================================
