--------------------------- MODULE NodeBoot_proofs --------------------------
(***************************************************************************)
(* Proofs about the start of a node: for any masterchain, any key blocks,  *)
(* any validator sets with a third of honest weight, any answers of peers  *)
(* and any number of crashes, the proofs of key blocks that the node has,  *)
(* in memory and on the disk, go back to where it began.                   *)
(***************************************************************************)
EXTENDS NodeBoot, FiniteSetTheorems, SequenceTheorems, WellFoundedInduction, TLAPS

Entries == {"init", "last", "shard", "keeper"}
SavedKeys == {"last", "shard", "keeper"}
Jobs == BootBlocks \cup (SavedKeys \X Int)
\* The flags that the node sets, and the two the model marks proofs with: those
\* that repeat a signature and, never set, those that are forged.
OwnFlags == {"state", "applied", "prev", "next", "data", "proof", "link", "repeated"}
AllFlags == OwnFlags \cup {"forged"}
MemType == [handles : [BootBlocks -> SUBSET AllFlags], storing : Seq(Jobs), saved : [Entries -> Int]]

\* The flags of handles: what is not of the chain is stored with a proof that
\* repeats a signature alone, and a block
\* after the first one is applied or linked with its proof.
FlagsAreSound(h, init) ==
  /\ \A b \in BootBlocks : (b[1] = "alien" /\ h[b] # {} => "repeated" \in h[b]) /\ "forged" \notin h[b]
  /\ \A k \in 1 .. NetHead : init < k /\ {"applied", "prev"} \cap h[Mc(k)] # {} => "proof" \in h[Mc(k)]

\* Block k has a proof, or is not after the block the node begins with.
Proved(h, init, k) == k <= init \/ "proof" \in h[Mc(k)]

\* With the proof of any block the node has that of the key block before it.
Chained(h, init) ==
  \A k \in 1 .. NetHead : "proof" \in h[Mc(k)] /\ init < k => Proved(h, init, PrevKey(k))

\* A job of the storer is for a block with a proof, and the key block before it
\* is on the disk with its proof or comes earlier in the queue.
QueueIsOrdered(m, d) ==
  \A i \in 1 .. Len(m.storing) : \A k \in 1 .. NetHead :
    m.storing[i] = Mc(k) /\ m.saved["init"] < k =>
      /\ "proof" \in m.handles[Mc(k)]
      /\ Proved(d.handles, m.saved["init"], PrevKey(k)) \/ \E j \in 1 .. i - 1 : m.storing[j] = Mc(PrevKey(k))

\* A proof that is not on the disk is on its way.
ProofsAreStored(m, d) ==
  \A k \in 1 .. NetHead : "proof" \in m.handles[Mc(k)] /\ m.saved["init"] < k =>
    "proof" \in d.handles[Mc(k)] \/ \E i \in 1 .. Len(m.storing) : m.storing[i] = Mc(k)

\* Memory and disk.
MemInv(m, d) ==
  /\ m \in MemType /\ d \in MemType
  /\ m.saved["init"] \in 0 .. NetHead /\ d.saved["init"] = m.saved["init"] /\ d.storing = <<>>
  /\ FlagsAreSound(m.handles, m.saved["init"]) /\ FlagsAreSound(d.handles, m.saved["init"])
  /\ Chained(m.handles, m.saved["init"]) /\ Chained(d.handles, m.saved["init"])
  /\ QueueIsOrdered(m, d) /\ ProofsAreStored(m, d)

Heights == 0 .. NetHead
AskedBlocks == {Mc(k) : k \in KeyBlocks \ {0}} \cup {Alien(k) : k \in KeyBlocks \ {0}}
ChainBlocks == {Mc(k) : k \in 0 .. NetHead} \cup {Sc(n) : n \in 0 .. ShardSeqno[NetHead]}
BootType ==
  [pc : {"init", "zero", "ask", "proof", "choose", "block", "link", "state", "applied", "last", "shard", "keeper", "run", "astray"},
   start : Int, cold : BOOLEAN, late : BOOLEAN, keys : Seq(Heights), asked : Seq(AskedBlocks),
   period : {PssPeriod, ClassicPeriod}, todo : Seq(ChainBlocks)]

\* A boot goes from key blocks with proofs to one of them.
BootFollows(m, bt) ==
  \/ bt = Down
  \/ /\ bt \in BootType
     /\ bt.pc \in {"zero", "ask", "proof", "choose", "block", "link", "state", "applied"} => bt.keys # <<>>
     /\ bt.pc \in {"block", "link", "state", "applied"} => bt.todo # <<>>
     /\ \A i \in 1 .. Len(bt.keys) : Proved(m.handles, m.saved["init"], bt.keys[i])
     /\ \A i \in 1 .. Len(bt.todo) : \A k \in 1 .. NetHead : bt.todo[i] = Mc(k) => Proved(m.handles, m.saved["init"], k)

BootInv ==
  /\ MemInv(mem, durable) /\ BootFollows(mem, boot)
  /\ clients \in [master : Int, shard : Int, keeper : Int]

-----------------------------------------------------------------------------
(* Key blocks                                                              *)

\* A bounded set of integers has a greatest element, and Max is it.
LEMMA MaxIsGreatest ==
  ASSUME NEW S \in SUBSET Int, S # {}, NEW n \in Int, \A y \in S : y <= n
  PROVE  Max(S) \in S /\ \A y \in S : y <= Max(S)
<1> DEFINE T == {n - y : y \in S}
<1>1. T \subseteq Nat /\ T # {}
  <2>1. \A y \in S : n - y \in Nat
    OBVIOUS
  <2> QED
    BY <2>1
<1>2. PICK z \in T : \A u \in T : ~ (<<u, z>> \in OpToRel(<, Nat))
  BY <1>1, WFMin, NatLessThanWellFounded
<1>3. PICK x \in S : z = n - x
  OBVIOUS
<1>4. ASSUME NEW y \in S PROVE y <= x
  <2>1. n - y \in T /\ n - y \in Nat /\ z \in Nat
    BY <1>1
  <2>2. <<n - y, z>> \in OpToRel(<, Nat) <=> n - y < z
    BY <2>1 DEF OpToRel
  <2>3. ~ (n - y < z)
    BY <1>2, <2>1, <2>2, Zenon
  <2> QED
    BY <1>3, <2>3
<1>5. \A y \in S : x >= y
  BY <1>4
<1> QED
  BY <1>5 DEF Max

LEMMA PrevKeyFacts ==
  ASSUME NEW k \in 1 .. NetHead
  PROVE  /\ PrevKey(k) \in KeyBlocks /\ PrevKey(k) \in 0 .. NetHead /\ PrevKey(k) < k
         /\ \A j \in KeyBlocks : j < k => j <= PrevKey(k)
<1> DEFINE S == {j \in KeyBlocks : j < k}
<1>0. KeyBlocks \subseteq Int /\ 0 \in KeyBlocks /\ k \in Int /\ 0 < k
  BY ChainAssumption
<1>1. S \subseteq Int /\ 0 \in S /\ \A y \in S : y <= k
  <2>1. ASSUME NEW y \in S PROVE y \in Int /\ y <= k
    BY <1>0
  <2>2. 0 \in S
    BY <1>0
  <2> QED
    BY <2>1, <2>2
<1>2. Max(S) \in S /\ \A y \in S : y <= Max(S)
  BY <1>0, <1>1, MaxIsGreatest
<1> QED
  BY <1>2, ChainAssumption DEF PrevKey

\* The key block before the next block.
LEMMA PrevKeyOfNext ==
  ASSUME NEW a \in 0 .. NetHead, a + 1 <= NetHead
  PROVE  IF a \in KeyBlocks THEN PrevKey(a + 1) = a ELSE a > 0 /\ PrevKey(a + 1) = PrevKey(a)
<1>1. a + 1 \in 1 .. NetHead /\ NetHead \in Nat /\ KeyBlocks \subseteq 0 .. NetHead /\ 0 \in KeyBlocks
  BY ChainAssumption
<1>2. /\ PrevKey(a + 1) \in KeyBlocks /\ PrevKey(a + 1) \in 0 .. NetHead /\ PrevKey(a + 1) < a + 1
      /\ \A j \in KeyBlocks : j < a + 1 => j <= PrevKey(a + 1)
  BY <1>1, PrevKeyFacts
<1>3. CASE a \in KeyBlocks
  BY <1>1, <1>2, <1>3
<1>4. CASE a \notin KeyBlocks
  <2>1. a \in 1 .. NetHead
    BY <1>1, <1>4
  <2>2. /\ PrevKey(a) \in KeyBlocks /\ PrevKey(a) \in 0 .. NetHead /\ PrevKey(a) < a
        /\ \A j \in KeyBlocks : j < a => j <= PrevKey(a)
    BY <2>1, PrevKeyFacts
  <2>3. PrevKey(a + 1) # a
    BY <1>2, <1>4
  <2> QED
    BY <1>2, <1>4, <2>1, <2>2, <2>3
<1> QED
  BY <1>3, <1>4

\* After a block that is applied the next one may be.
LEMMA NextIsProved ==
  ASSUME NEW h, NEW init \in 0 .. NetHead, FlagsAreSound(h, init), Chained(h, init),
         NEW a \in 0 .. NetHead, a + 1 <= NetHead, "applied" \in h[Mc(a)]
  PROVE  Proved(h, init, a) /\ Proved(h, init, PrevKey(a + 1))
<1>1. NetHead \in Nat /\ KeyBlocks \subseteq 0 .. NetHead
  BY ChainAssumption
<1>2. a + 1 \in 1 .. NetHead
  BY <1>1
<1>3. PrevKey(a + 1) \in 0 .. NetHead /\ PrevKey(a + 1) < a + 1
  BY <1>2, PrevKeyFacts
<1>4. CASE a <= init
  BY <1>1, <1>3, <1>4 DEF Proved
<1>5. CASE ~(a <= init)
  <2>1. a \in 1 .. NetHead /\ init < a
    BY <1>1, <1>5
  <2>2. "proof" \in h[Mc(a)]
    BY <2>1 DEF FlagsAreSound
  <2>3. Proved(h, init, PrevKey(a))
    BY <2>1, <2>2 DEF Chained
  <2> QED
    BY <2>2, <2>3, PrevKeyOfNext DEF Proved
<1> QED
  BY <1>4, <1>5

-----------------------------------------------------------------------------
(* Memory and disk                                                         *)

LEMMA BlocksAreDistinct ==
  /\ \A j, k : Mc(j) = Mc(k) => j = k
  /\ \A j, k : Mc(j) # Sc(k) /\ Mc(j) # Alien(k) /\ Sc(j) # Alien(k)
  /\ \A k : Mc(k)[1] = "mc" /\ Mc(k)[2] = k /\ Sc(k)[1] = "sc" /\ Sc(k)[2] = k /\ Alien(k)[1] = "alien" /\ Alien(k)[2] = k
  /\ \A k \in 0 .. NetHead : Mc(k) \in BootBlocks
  BY DEF Mc, Sc, Alien, BootBlocks

LEMMA SetHandleFacts ==
  ASSUME NEW m \in MemType, NEW b \in BootBlocks, NEW flags \in SUBSET AllFlags, NEW n, n = SetHandle(m, b, flags)
  PROVE  /\ n \in MemType /\ n.saved = m.saved /\ n.storing = Append(m.storing, b)
         /\ n.handles[b] = m.handles[b] \cup flags
         /\ \A c \in BootBlocks : c # b => n.handles[c] = m.handles[c]
<1>1. m.storing \in Seq(Jobs) /\ b \in Jobs /\ m.handles \in [BootBlocks -> SUBSET AllFlags]
  BY DEF MemType, Jobs
<1>2. n = [m EXCEPT !.handles = [m.handles EXCEPT ![b] = m.handles[b] \cup flags], !.storing = Append(m.storing, b)]
  BY DEF SetHandle, MemType
<1> DEFINE h == [m.handles EXCEPT ![b] = m.handles[b] \cup flags]
<1>3. h \in [BootBlocks -> SUBSET AllFlags] /\ h[b] = m.handles[b] \cup flags /\ \A c \in BootBlocks : c # b => h[c] = m.handles[c]
  BY <1>1
<1>4. Append(m.storing, b) \in Seq(Jobs)
  BY <1>1
<1> HIDE DEF h
<1>5. n \in MemType /\ n.saved = m.saved /\ n.storing = Append(m.storing, b) /\ n.handles = h
  BY <1>2, <1>3, <1>4 DEF MemType, h
<1> QED
  BY <1>3, <1>5

LEMMA SaveEntryFacts ==
  ASSUME NEW m \in MemType, NEW key \in SavedKeys, NEW k \in Int, NEW job, job = <<key, k>>,
         NEW n, n = SaveEntry(m, key, k)
  PROVE  /\ n \in MemType /\ n.saved["init"] = m.saved["init"] /\ n.saved[key] = k
         /\ n.storing = Append(m.storing, job) /\ n.handles = m.handles
<1>1. m.storing \in Seq(Jobs) /\ <<key, k>> \in Jobs /\ m.saved \in [Entries -> Int]
  BY DEF MemType, Jobs
<1> DEFINE s == [m.saved EXCEPT ![key] = k]
<1>2. n = [m EXCEPT !.saved = s, !.storing = Append(m.storing, <<key, k>>)]
  BY DEF SaveEntry, MemType
<1>3. s \in [Entries -> Int] /\ s["init"] = m.saved["init"] /\ s[key] = k
  BY <1>1 DEF Entries, SavedKeys
<1>4. Append(m.storing, <<key, k>>) \in Seq(Jobs)
  BY <1>1
<1> HIDE DEF s
<1>5. n \in MemType /\ n.saved = s /\ n.storing = Append(m.storing, <<key, k>>) /\ n.handles = m.handles
  BY <1>2, <1>3, <1>4 DEF MemType
<1> QED
  BY <1>3, <1>5

\* What a later state of memory keeps.
Grows(m, n) ==
  n.saved["init"] = m.saved["init"] /\ \A b \in BootBlocks : m.handles[b] \subseteq n.handles[b]

LEMMA ProvedStays ==
  ASSUME NEW m, NEW n, Grows(m, n), NEW k \in 0 .. NetHead, Proved(m.handles, m.saved["init"], k)
  PROVE  Proved(n.handles, n.saved["init"], k)
  BY BlocksAreDistinct DEF Grows, Proved

LEMMA MemFacts ==
  ASSUME NEW m, NEW d, MemInv(m, d)
  PROVE  /\ m \in MemType /\ d \in MemType /\ m.storing \in Seq(Jobs) /\ Len(m.storing) \in Nat
         /\ m.saved["init"] \in 0 .. NetHead /\ m.saved["init"] \in Int /\ NetHead \in Nat
         /\ m.handles \in [BootBlocks -> SUBSET AllFlags] /\ d.handles \in [BootBlocks -> SUBSET AllFlags]
<1>1. m \in MemType /\ d \in MemType /\ m.saved["init"] \in 0 .. NetHead /\ NetHead \in Nat
  BY ChainAssumption DEF MemInv
<1> QED
  BY <1>1 DEF MemType

\* A job at the end of the queue leaves what is said about the jobs before it.
LEMMA AppendJob ==
  ASSUME NEW m, NEW d, MemInv(m, d), NEW n \in MemType, Grows(m, n), NEW job \in Jobs, n.storing = Append(m.storing, job),
         \A k \in 1 .. NetHead : job = Mc(k) /\ m.saved["init"] < k =>
           "proof" \in n.handles[Mc(k)] /\ Proved(m.handles, m.saved["init"], PrevKey(k)),
         \A k \in 1 .. NetHead : job # Mc(k) => n.handles[Mc(k)] = m.handles[Mc(k)]
  PROVE  QueueIsOrdered(n, d) /\ ProofsAreStored(n, d) /\ Chained(n.handles, n.saved["init"])
<1>0. PICK init : init = m.saved["init"] /\ init = n.saved["init"]
  BY DEF Grows
<1>1. /\ m.storing \in Seq(Jobs) /\ Len(m.storing) \in Nat /\ init \in 0 .. NetHead /\ init \in Int /\ NetHead \in Nat
  BY <1>0, MemFacts
<1>2. /\ Len(n.storing) = Len(m.storing) + 1 /\ n.storing[Len(m.storing) + 1] = job
      /\ \A i \in 1 .. Len(m.storing) : n.storing[i] = m.storing[i]
  BY <1>1
<1>3. ASSUME NEW k \in 1 .. NetHead, init < k
      PROVE  /\ PrevKey(k) \in 0 .. NetHead /\ Mc(k) \in BootBlocks /\ m.handles[Mc(k)] \subseteq n.handles[Mc(k)]
             /\ Proved(m.handles, init, PrevKey(k)) => Proved(n.handles, init, PrevKey(k))
  <2>1. PrevKey(k) \in 0 .. NetHead /\ k \in 0 .. NetHead
    BY <1>1, PrevKeyFacts
  <2> QED
    BY <1>0, <2>1, BlocksAreDistinct, ProvedStays DEF Grows
<1>4. Chained(n.handles, init)
  <2> SUFFICES ASSUME NEW k \in 1 .. NetHead, "proof" \in n.handles[Mc(k)], init < k
               PROVE  Proved(n.handles, init, PrevKey(k))
    BY DEF Chained
  <2>1. CASE job = Mc(k)
    BY <1>0, <1>3, <2>1
  <2>2. CASE job # Mc(k)
    BY <1>0, <1>3, <2>2 DEF MemInv, Chained
  <2> QED
    BY <2>1, <2>2
<1>5. QueueIsOrdered(n, d)
  <2> SUFFICES ASSUME NEW i \in 1 .. Len(n.storing), NEW k \in 1 .. NetHead, n.storing[i] = Mc(k), init < k
               PROVE  /\ "proof" \in n.handles[Mc(k)]
                      /\ Proved(d.handles, init, PrevKey(k)) \/ \E j \in 1 .. i - 1 : n.storing[j] = Mc(PrevKey(k))
    BY <1>0 DEF QueueIsOrdered
  <2>1. CASE i \in 1 .. Len(m.storing)
    <3>1. /\ "proof" \in m.handles[Mc(k)]
          /\ Proved(d.handles, init, PrevKey(k)) \/ \E j \in 1 .. i - 1 : m.storing[j] = Mc(PrevKey(k))
      BY <1>0, <1>2, <2>1 DEF MemInv, QueueIsOrdered
    <3>2. \A j \in 1 .. i - 1 : j \in 1 .. Len(m.storing)
      BY <1>1, <2>1
    <3> QED
      BY <1>2, <1>3, <3>1, <3>2
  <2>2. CASE i = Len(m.storing) + 1
    <3>1. "proof" \in n.handles[Mc(k)] /\ Proved(m.handles, init, PrevKey(k))
      BY <1>0, <1>2, <2>2
    <3>2. CASE PrevKey(k) <= init
      BY <3>1, <3>2 DEF Proved
    <3>3. CASE ~(PrevKey(k) <= init)
      <4>1. PrevKey(k) \in 1 .. NetHead /\ init < PrevKey(k)
        BY <1>1, <1>3, <3>3
      <4>2. "proof" \in m.handles[Mc(PrevKey(k))]
        BY <3>1, <3>3 DEF Proved
      <4>3. "proof" \in d.handles[Mc(PrevKey(k))] \/ \E j \in 1 .. Len(m.storing) : m.storing[j] = Mc(PrevKey(k))
        BY <1>0, <4>1, <4>2 DEF MemInv, ProofsAreStored
      <4>4. \A j \in 1 .. Len(m.storing) : j \in 1 .. i - 1
        BY <1>1, <2>2
      <4> QED
        BY <1>2, <3>1, <4>3, <4>4 DEF Proved
    <3> QED
      BY <3>2, <3>3
  <2>3. i \in 1 .. Len(m.storing) \/ i = Len(m.storing) + 1
    BY <1>1, <1>2
  <2> QED
    BY <2>1, <2>2, <2>3
<1>6. ProofsAreStored(n, d)
  <2> SUFFICES ASSUME NEW k \in 1 .. NetHead, "proof" \in n.handles[Mc(k)], init < k
               PROVE  "proof" \in d.handles[Mc(k)] \/ \E i \in 1 .. Len(n.storing) : n.storing[i] = Mc(k)
    BY <1>0 DEF ProofsAreStored
  <2>1. Len(m.storing) + 1 \in 1 .. Len(n.storing) /\ \A i \in 1 .. Len(m.storing) : i \in 1 .. Len(n.storing)
    BY <1>1, <1>2
  <2>2. CASE job = Mc(k)
    BY <1>2, <2>1, <2>2
  <2>3. CASE job # Mc(k)
    BY <1>0, <1>2, <2>1, <2>3 DEF MemInv, ProofsAreStored
  <2> QED
    BY <2>2, <2>3
<1> QED
  BY <1>0, <1>4, <1>5, <1>6

\* Flags are added to a handle: to that of a block with a proof, after the key
\* block before it, or with the mark of a proof that repeats a signature.
LEMMA SetHandleKeepsAny ==
  ASSUME NEW m, NEW d, MemInv(m, d), NEW b \in BootBlocks, NEW flags \in SUBSET OwnFlags,
         b[1] = "alien" => "repeated" \in flags,
         \A k \in 1 .. NetHead : b = Mc(k) /\ m.saved["init"] < k =>
           "proof" \in m.handles[b] \cup flags /\ Proved(m.handles, m.saved["init"], PrevKey(k)),
         NEW n, n = SetHandle(m, b, flags)
  PROVE  MemInv(n, d) /\ Grows(m, n) /\ n.saved = m.saved /\ n.handles[b] = m.handles[b] \cup flags
<1>1. m \in MemType /\ d \in MemType /\ m.handles \in [BootBlocks -> SUBSET AllFlags]
  BY MemFacts
<1>2. flags \in SUBSET AllFlags /\ b \in Jobs /\ "forged" \notin flags
  <2>1. b \in Jobs
    BY DEF Jobs
  <2>2. OwnFlags \subseteq AllFlags /\ "forged" \notin OwnFlags
    BY DEF OwnFlags, AllFlags
  <2> QED
    BY <2>1, <2>2
<1>3. /\ n \in MemType /\ n.saved = m.saved /\ n.storing = Append(m.storing, b)
      /\ n.handles[b] = m.handles[b] \cup flags
      /\ \A c \in BootBlocks : c # b => n.handles[c] = m.handles[c]
  BY <1>1, <1>2, SetHandleFacts
<1>4. Grows(m, n)
  BY <1>3 DEF Grows
<1>5. \A k \in 1 .. NetHead : Mc(k) \in BootBlocks
  BY BlocksAreDistinct
<1>6. QueueIsOrdered(n, d) /\ ProofsAreStored(n, d) /\ Chained(n.handles, n.saved["init"])
  BY <1>2, <1>3, <1>4, <1>5, AppendJob
<1>7. FlagsAreSound(n.handles, m.saved["init"])
  <2>1. FlagsAreSound(m.handles, m.saved["init"])
    BY DEF MemInv
  <2>2. ASSUME NEW c \in BootBlocks PROVE (c[1] = "alien" /\ n.handles[c] # {} => "repeated" \in n.handles[c]) /\ "forged" \notin n.handles[c]
    BY <1>2, <1>3, <2>1 DEF FlagsAreSound
  <2>3. ASSUME NEW k \in 1 .. NetHead, m.saved["init"] < k, {"applied", "prev"} \cap n.handles[Mc(k)] # {}
        PROVE  "proof" \in n.handles[Mc(k)]
    BY <1>3, <1>5, <2>1, <2>3 DEF FlagsAreSound
  <2> QED
    BY <2>2, <2>3 DEF FlagsAreSound
<1> QED
  BY <1>1, <1>3, <1>4, <1>6, <1>7 DEF MemInv

LEMMA SetHandleKeeps ==
  ASSUME NEW m, NEW d, MemInv(m, d), NEW b \in ChainBlocks, NEW flags \in SUBSET OwnFlags,
         \A k \in 1 .. NetHead : b = Mc(k) /\ m.saved["init"] < k =>
           "proof" \in m.handles[b] \cup flags /\ Proved(m.handles, m.saved["init"], PrevKey(k)),
         NEW n, n = SetHandle(m, b, flags)
  PROVE  MemInv(n, d) /\ Grows(m, n) /\ n.saved = m.saved /\ n.handles[b] = m.handles[b] \cup flags
<1>1. b \in BootBlocks /\ b[1] # "alien"
  BY BlocksAreDistinct DEF ChainBlocks, BootBlocks
<1> QED
  BY <1>1, SetHandleKeepsAny

\* An entry of the node state is saved.
LEMMA SaveEntryKeeps ==
  ASSUME NEW m, NEW d, MemInv(m, d), NEW key \in SavedKeys, NEW v \in Int, NEW n, n = SaveEntry(m, key, v)
  PROVE  MemInv(n, d) /\ Grows(m, n)
<1>1. m \in MemType /\ d \in MemType
  BY MemFacts
<1>2. PICK job : job = <<key, v>>
  OBVIOUS
<1>3. /\ n \in MemType /\ n.saved["init"] = m.saved["init"]
      /\ n.storing = Append(m.storing, job) /\ n.handles = m.handles
  BY <1>1, <1>2, SaveEntryFacts
<1>4. Grows(m, n) /\ job \in Jobs /\ \A k : job # Mc(k)
  BY <1>2, <1>3 DEF Grows, Jobs, Mc, SavedKeys
<1>5. QueueIsOrdered(n, d) /\ ProofsAreStored(n, d) /\ Chained(n.handles, n.saved["init"])
  BY <1>3, <1>4, AppendJob
<1> QED
  BY <1>3, <1>4, <1>5 DEF MemInv

LEMMA OneBefore ==
  ASSUME NEW i \in Int, NEW j \in Int, NEW len \in Nat, 1 <= j, j <= i, i <= len - 1, j # 1
  PROVE  j - 1 \in 1 .. i - 1 /\ j - 1 \in 1 .. len - 1 /\ (j - 1) + 1 = j
  OBVIOUS

\* The storer writes the flags that a handle has by now.
LEMMA StoreJobKeeps ==
  ASSUME NEW m, NEW d, MemInv(m, d), m.storing # <<>>, NEW job, job = Head(m.storing),
         NEW n, n = [m EXCEPT !.storing = Tail(m.storing)],
         NEW e, e = IF job \in BootBlocks THEN [d EXCEPT !.handles[job] = m.handles[job]]
                    ELSE [d EXCEPT !.saved[job[1]] = job[2]]
  PROVE  MemInv(n, e) /\ Grows(m, n)
<1>0. PICK init : init = m.saved["init"]
  OBVIOUS
<1>1. /\ m \in MemType /\ d \in MemType /\ m.storing \in Seq(Jobs) /\ Len(m.storing) \in Nat
      /\ init \in 0 .. NetHead /\ init \in Int /\ NetHead \in Nat
      /\ m.handles \in [BootBlocks -> SUBSET AllFlags] /\ d.handles \in [BootBlocks -> SUBSET AllFlags]
      /\ d.saved["init"] = init /\ d.storing = <<>>
  BY <1>0, MemFacts DEF MemInv
<1>2. /\ Len(m.storing) > 0 /\ job \in Jobs /\ m.storing[1] = job /\ Tail(m.storing) \in Seq(Jobs)
      /\ Len(Tail(m.storing)) = Len(m.storing) - 1 /\ \A i \in 1 .. Len(m.storing) - 1 : Tail(m.storing)[i] = m.storing[i + 1]
  BY <1>1
<1>3. n \in MemType /\ n.saved = m.saved /\ n.handles = m.handles /\ n.storing = Tail(m.storing)
  BY <1>1, <1>2 DEF MemType
<1>4. /\ e \in MemType /\ e.saved["init"] = init /\ e.storing = <<>>
      /\ \A c \in BootBlocks : e.handles[c] = IF c = job THEN m.handles[c] ELSE d.handles[c]
  <2>1. CASE job \in BootBlocks
    <3> DEFINE h == [d.handles EXCEPT ![job] = m.handles[job]]
    <3>1. e = [d EXCEPT !.handles = h]
      BY <2>1 DEF MemType
    <3>2. h \in [BootBlocks -> SUBSET AllFlags] /\ \A c \in BootBlocks : h[c] = IF c = job THEN m.handles[c] ELSE d.handles[c]
      BY <1>1, <2>1
    <3> HIDE DEF h
    <3>3. e \in MemType /\ e.handles = h /\ e.saved = d.saved /\ e.storing = d.storing
      BY <1>1, <3>1, <3>2 DEF MemType
    <3> QED
      BY <1>1, <3>2, <3>3
  <2>2. CASE job \notin BootBlocks
    <3>1. job[1] \in SavedKeys /\ job[2] \in Int
      BY <1>2, <2>2 DEF Jobs
    <3> DEFINE s == [d.saved EXCEPT ![job[1]] = job[2]]
    <3>2. e = [d EXCEPT !.saved = s]
      BY <2>2 DEF MemType
    <3>3. s \in [Entries -> Int] /\ s["init"] = d.saved["init"]
      BY <1>1, <3>1 DEF MemType, Entries, SavedKeys
    <3> HIDE DEF s
    <3>4. e \in MemType /\ e.handles = d.handles /\ e.saved = s /\ e.storing = d.storing
      BY <1>1, <3>2, <3>3 DEF MemType
    <3> QED
      BY <1>1, <2>2, <3>3, <3>4
  <2> QED
    BY <2>1, <2>2
<1>5. ASSUME NEW k \in 1 .. NetHead, init < k
      PROVE  /\ Mc(k) \in BootBlocks /\ PrevKey(k) \in 0 .. NetHead /\ PrevKey(k) # k
             /\ job = Mc(k) => "proof" \in m.handles[Mc(k)] /\ Proved(d.handles, init, PrevKey(k))
  <2>1. Mc(k) \in BootBlocks /\ PrevKey(k) \in 0 .. NetHead /\ PrevKey(k) < k
    BY <1>1, PrevKeyFacts, BlocksAreDistinct
  <2>2. ASSUME job = Mc(k) PROVE "proof" \in m.handles[Mc(k)] /\ Proved(d.handles, init, PrevKey(k))
    <3>1. 1 \in 1 .. Len(m.storing) /\ ~(\E j \in 1 .. 1 - 1 : TRUE)
      BY <1>1, <1>2
    <3> QED
      BY <1>0, <1>2, <1>5, <2>2, <3>1 DEF MemInv, QueueIsOrdered
  <2> QED
    BY <1>1, <2>1, <2>2
<1>6. ASSUME NEW k \in 0 .. NetHead, Proved(d.handles, init, k) PROVE Proved(e.handles, init, k)
  <2>1. CASE k <= init
    BY <2>1 DEF Proved
  <2>2. CASE ~(k <= init)
    <3>1. k \in 1 .. NetHead /\ init < k /\ Mc(k) \in BootBlocks
      BY <1>1, <2>2, BlocksAreDistinct
    <3> QED
      BY <1>4, <1>5, <1>6, <2>2, <3>1 DEF Proved
  <2> QED
    BY <2>1, <2>2
<1>7. FlagsAreSound(e.handles, init)
  BY <1>0, <1>4, BlocksAreDistinct DEF MemInv, FlagsAreSound
<1>8. Chained(e.handles, init)
  <2> SUFFICES ASSUME NEW k \in 1 .. NetHead, "proof" \in e.handles[Mc(k)], init < k
               PROVE  Proved(e.handles, init, PrevKey(k))
    BY DEF Chained
  <2>1. CASE job = Mc(k)
    BY <1>5, <1>6, <2>1
  <2>2. CASE job # Mc(k)
    <3>1. "proof" \in d.handles[Mc(k)]
      BY <1>4, <1>5, <2>2
    <3>2. Proved(d.handles, init, PrevKey(k))
      BY <1>0, <3>1 DEF MemInv, Chained
    <3> QED
      BY <1>5, <1>6, <3>2
  <2> QED
    BY <2>1, <2>2
<1>9. QueueIsOrdered(n, e)
  <2> SUFFICES ASSUME NEW i \in 1 .. Len(n.storing), NEW k \in 1 .. NetHead, n.storing[i] = Mc(k), init < k
               PROVE  /\ "proof" \in n.handles[Mc(k)]
                      /\ Proved(e.handles, init, PrevKey(k)) \/ \E j \in 1 .. i - 1 : n.storing[j] = Mc(PrevKey(k))
    BY <1>0, <1>3 DEF QueueIsOrdered
  <2>1. i + 1 \in 1 .. Len(m.storing) /\ m.storing[i + 1] = Mc(k)
    BY <1>1, <1>2, <1>3
  <2>2. /\ "proof" \in m.handles[Mc(k)]
        /\ Proved(d.handles, init, PrevKey(k)) \/ \E j \in 1 .. (i + 1) - 1 : m.storing[j] = Mc(PrevKey(k))
    BY <1>0, <2>1 DEF MemInv, QueueIsOrdered
  <2>3. CASE Proved(d.handles, init, PrevKey(k))
    BY <1>3, <1>5, <1>6, <2>2, <2>3
  <2>4. ASSUME NEW j \in 1 .. (i + 1) - 1, m.storing[j] = Mc(PrevKey(k))
        PROVE  Proved(e.handles, init, PrevKey(k)) \/ \E x \in 1 .. i - 1 : n.storing[x] = Mc(PrevKey(k))
    <3>1. CASE j = 1 /\ PrevKey(k) <= init
      BY <3>1 DEF Proved
    <3>2. CASE j = 1 /\ ~(PrevKey(k) <= init)
      <4>1. PrevKey(k) \in 1 .. NetHead /\ init < PrevKey(k)
        BY <1>1, <1>5, <3>2
      <4>2. job = Mc(PrevKey(k)) /\ Mc(PrevKey(k)) \in BootBlocks
        BY <1>2, <1>5, <2>4, <3>2, <4>1
      <4> QED
        BY <1>4, <1>5, <4>1, <4>2 DEF Proved
    <3>3. CASE j # 1
      <4>0. i \in Int /\ j \in Int /\ 1 <= j /\ j <= i /\ i <= Len(m.storing) - 1
        <5>1. i \in Int /\ 1 <= i /\ i <= Len(m.storing) - 1
          BY <1>1, <1>2, <1>3
        <5>2. j \in Int /\ 1 <= j /\ j <= i
          BY <5>1
        <5> QED
          BY <5>1, <5>2
      <4>1. j - 1 \in 1 .. i - 1 /\ j - 1 \in 1 .. Len(m.storing) - 1 /\ (j - 1) + 1 = j
        BY <1>1, <3>3, <4>0, OneBefore
      <4>2. n.storing[j - 1] = m.storing[j]
        BY <1>2, <1>3, <4>1
      <4> QED
        BY <2>4, <4>1, <4>2
    <3> QED
      BY <3>1, <3>2, <3>3
  <2> QED
    BY <1>3, <2>2, <2>3, <2>4
<1>10. ProofsAreStored(n, e)
  <2> SUFFICES ASSUME NEW k \in 1 .. NetHead, "proof" \in m.handles[Mc(k)], init < k
               PROVE  "proof" \in e.handles[Mc(k)] \/ \E i \in 1 .. Len(n.storing) : n.storing[i] = Mc(k)
    BY <1>0, <1>3 DEF ProofsAreStored
  <2>1. CASE job = Mc(k)
    BY <1>4, <1>5, <2>1
  <2>2. CASE "proof" \in d.handles[Mc(k)]
    BY <1>4, <1>5, <2>2
  <2>3. CASE job # Mc(k) /\ "proof" \notin d.handles[Mc(k)]
    <3>1. PICK i \in 1 .. Len(m.storing) : m.storing[i] = Mc(k)
      BY <1>0, <2>3 DEF MemInv, ProofsAreStored
    <3>2. i # 1
      BY <1>2, <2>3, <3>1
    <3>3. i - 1 \in 1 .. Len(m.storing) - 1 /\ (i - 1) + 1 = i
      BY <1>1, <3>2
    <3> QED
      BY <1>2, <1>3, <3>1, <3>3
  <2> QED
    BY <2>1, <2>2, <2>3
<1>11. Grows(m, n)
  BY <1>3 DEF Grows
<1> QED
  BY <1>0, <1>3, <1>4, <1>7, <1>8, <1>9, <1>10, <1>11 DEF MemInv

\* A crash: the node begins again with what is on the disk.
LEMMA ExitKeeps ==
  ASSUME NEW m, NEW d, MemInv(m, d), NEW n, n = [d EXCEPT !.storing = <<>>]
  PROVE  MemInv(n, d)
<1>1. d \in MemType /\ d.storing = <<>>
  BY DEF MemInv
<1>2. n = d
  BY <1>1 DEF MemType
<1>3. Len(d.storing) = 0
  BY <1>1
<1>4. QueueIsOrdered(d, d) /\ ProofsAreStored(d, d)
  BY <1>3 DEF QueueIsOrdered, ProofsAreStored
<1> QED
  BY <1>2, <1>4 DEF MemInv

\* What the boot knows stays known.
LEMMA BootStays ==
  ASSUME NEW m, NEW n, Grows(m, n), NEW bt, BootFollows(m, bt)
  PROVE  BootFollows(n, bt)
<1>1. CASE bt = Down
  BY <1>1 DEF BootFollows
<1>2. CASE bt # Down
  <2>1. bt \in BootType /\ bt.keys \in Seq(Heights)
    BY <1>2 DEF BootFollows, BootType
  <2>2. \A i \in 1 .. Len(bt.keys) : Proved(n.handles, n.saved["init"], bt.keys[i])
    <3>1. \A i \in 1 .. Len(bt.keys) : bt.keys[i] \in Heights
      BY <2>1
    <3>2. \A i \in 1 .. Len(bt.keys) : bt.keys[i] \in 0 .. NetHead
      BY <3>1 DEF Heights
    <3> QED
      BY <1>2, <3>2, ProvedStays DEF BootFollows
  <2>3. ASSUME NEW i \in 1 .. Len(bt.todo), NEW k \in 1 .. NetHead, bt.todo[i] = Mc(k) PROVE Proved(n.handles, n.saved["init"], k)
    <3>1. k \in 0 .. NetHead
      BY ChainAssumption
    <3> QED
      BY <1>2, <2>3, <3>1, ProvedStays DEF BootFollows
  <2> QED
    BY <1>2, <2>1, <2>2, <2>3 DEF BootFollows
<1> QED
  BY <1>1, <1>2

\* The stages of a boot.
Stages == {"init", "zero", "ask", "proof", "choose", "block", "link", "state", "applied", "last", "shard", "keeper", "run", "astray"}

\* BootTo: the same boot at another stage.
LEMMA BootToKeeps ==
  ASSUME NEW m, NEW bt, BootFollows(m, bt), bt # Down, NEW pc \in Stages, NEW next, next = [bt EXCEPT !.pc = pc],
         pc \in {"zero", "ask", "proof", "choose", "block", "link", "state", "applied"} => bt.keys # <<>>,
         pc \in {"block", "link", "state", "applied"} => bt.todo # <<>>
  PROVE  BootFollows(m, next)
<1>1. bt \in BootType
  BY DEF BootFollows
<1>2. /\ next \in BootType /\ next.pc = pc /\ next.keys = bt.keys /\ next.todo = bt.todo
  BY <1>1 DEF BootType, Stages
<1> QED
  BY <1>2 DEF BootFollows

\* A node that runs a boot stage has the fields of a boot.
LEMMA StageFacts ==
  ASSUME BootInv, boot.pc # "down"
  PROVE  /\ boot # Down /\ boot \in BootType
         /\ boot.pc \in {"zero", "ask", "proof", "choose", "block", "link", "state", "applied"} =>
              /\ boot.keys # <<>> /\ Len(boot.keys) \in Nat \ {0} /\ boot.keys \in Seq(Heights)
              /\ LastKey \in 0 .. NetHead /\ Proved(mem.handles, mem.saved["init"], LastKey)
         /\ boot.pc \in {"block", "link", "state", "applied"} =>
              /\ boot.todo # <<>> /\ boot.todo \in Seq(ChainBlocks) /\ Head(boot.todo) \in ChainBlocks
              /\ \A k \in 1 .. NetHead : Head(boot.todo) = Mc(k) => Proved(mem.handles, mem.saved["init"], k)
<1>1. boot # Down /\ boot \in BootType
  BY DEF BootInv, BootFollows, Down
<1>2. boot.keys \in Seq(Heights) /\ boot.todo \in Seq(ChainBlocks)
  BY <1>1 DEF BootType
<1>3. ASSUME boot.pc \in {"zero", "ask", "proof", "choose", "block", "link", "state", "applied"}
      PROVE  /\ boot.keys # <<>> /\ Len(boot.keys) \in Nat \ {0}
             /\ LastKey \in 0 .. NetHead /\ Proved(mem.handles, mem.saved["init"], LastKey)
  <2>1. boot.keys # <<>>
    BY <1>1, <1>3 DEF BootInv, BootFollows
  <2>2. Len(boot.keys) \in Nat \ {0} /\ Len(boot.keys) \in 1 .. Len(boot.keys) /\ boot.keys[Len(boot.keys)] \in Heights
    BY <1>2, <2>1
  <2> QED
    BY <1>1, <2>1, <2>2 DEF BootInv, BootFollows, LastKey, Heights
<1>4. ASSUME boot.pc \in {"block", "link", "state", "applied"}
      PROVE  /\ boot.todo # <<>> /\ Head(boot.todo) \in ChainBlocks
             /\ \A k \in 1 .. NetHead : Head(boot.todo) = Mc(k) => Proved(mem.handles, mem.saved["init"], k)
  <2>1. boot.todo # <<>>
    BY <1>1, <1>4 DEF BootInv, BootFollows
  <2>2. Head(boot.todo) = boot.todo[1] /\ 1 \in 1 .. Len(boot.todo) /\ Head(boot.todo) \in ChainBlocks
    BY <1>2, <2>1
  <2> QED
    BY <1>1, <2>1, <2>2 DEF BootInv, BootFollows
<1> QED
  BY <1>1, <1>2, <1>3, <1>4

-----------------------------------------------------------------------------
(* Proofs of key blocks                                                    *)

\* A list names key blocks after the first one.
LEMMA AskedFacts ==
  ASSUME NEW b \in AskedBlocks
  PROVE  /\ b \in BootBlocks /\ b[2] \in KeyBlocks /\ b[2] \in 1 .. NetHead
         /\ b[1] = "alien" \/ b = Mc(b[2])
<1>1. \A k \in KeyBlocks \ {0} : k \in 1 .. NetHead /\ k \in 0 .. NetHead
  BY ChainAssumption
<1>2. CASE b \in {Mc(k) : k \in KeyBlocks \ {0}}
  BY <1>1, <1>2, BlocksAreDistinct
<1>3. CASE b \in {Alien(k) : k \in KeyBlocks \ {0}}
  BY <1>1, <1>3, BlocksAreDistinct DEF BootBlocks
<1> QED
  BY <1>2, <1>3 DEF AskedBlocks

\* A proof for a block of another chain is signed by liars at most.
LEMMA AlienSigners ==
  ASSUME NEW b, b[1] = "alien", NEW p \in SentProofs(b), p.for = b
  PROVE  \A e \in p.entries : e[1] \in Liars /\ e = <<e[1], e[2]>>
<1> DEFINE q == KeyBlockProof(b)
<1>1. Signers(b) = Liars
  BY DEF Signers
<1>2. q = [for |-> b, block |-> b, config |-> TRUE, set |-> q.set, entries |-> Liars \X {1}]
  BY <1>1 DEF KeyBlockProof
<1>3. \/ p \in {q, [q EXCEPT !.config = FALSE]}
      \/ \E e \in SUBSET (Liars \X (1 .. Copies)) : p = [q EXCEPT !.entries = e]
      \/ \E c \in {Mc(k) : k \in KeyBlocks \ {0}} \ {b} :
           p \in {KeyBlockProof(c), [q EXCEPT !.block = c], [q EXCEPT !.set = KeyBlockProof(c).set]}
  BY <1>1 DEF SentProofs
<1>4. \A c : KeyBlockProof(c).for = c
  BY DEF KeyBlockProof
<1> HIDE DEF q
<1>5. CASE p.entries = Liars \X {1}
  BY <1>5
<1>6. ASSUME NEW e \in SUBSET (Liars \X (1 .. Copies)), p = [q EXCEPT !.entries = e]
      PROVE  p.entries \in SUBSET (Liars \X (1 .. Copies))
  BY <1>2, <1>6
<1>7. ASSUME NEW c, c # b, p \in {KeyBlockProof(c), [q EXCEPT !.block = c], [q EXCEPT !.set = KeyBlockProof(c).set]}
      PROVE  p.entries = Liars \X {1}
  BY <1>2, <1>4, <1>7
<1>8. CASE p \in {q, [q EXCEPT !.config = FALSE]}
  BY <1>2, <1>5, <1>8
<1>9. p.entries = Liars \X {1} \/ p.entries \in SUBSET (Liars \X (1 .. Copies))
  BY <1>2, <1>3, <1>6, <1>7
<1> QED
  BY <1>9

\* Entries that name no validator twice weigh what the validators do.
LEMMA WeightWithoutRepeats ==
  ASSUME NEW p, ~Repeats(p), \A e \in p.entries : e[1] \in Liars, NEW set, IsFiniteSet(Liars \cap set)
  PROVE  /\ SignedWeight(p, set) \in Nat
         /\ SignedWeight(p, set) <= Cardinality(Liars \cap set)
<1> DEFINE S == {e \in p.entries : e[1] \in set}
<1> DEFINE f == [e \in S |-> e[1]]
<1>1. f \in [S -> Liars \cap set]
  OBVIOUS
<1>2. \A d, e \in S : f[d] = f[e] => d = e
  BY DEF Repeats
<1>3. f \in Injection(S, Liars \cap set)
  BY <1>1, <1>2 DEF Injection, IsInjective
<1> HIDE DEF f
<1>4. IsFiniteSet(S) /\ Cardinality(S) <= Cardinality(Liars \cap set)
  BY <1>3, FS_Injection
<1>5. Cardinality(S) \in Nat
  BY <1>4, FS_CardinalityType
<1> QED
  BY <1>4, <1>5 DEF SignedWeight

\* A proof that the node accepts is one of the chain, of the key block after the
\* last one it has, or repeats a signature.
LEMMA GoodProofs ==
  ASSUME NEW b \in AskedBlocks, NEW p \in SentProofs(b), LastKey \in 0 .. NetHead, ProofIsGood(p, b)
  PROVE  (b[1] = "alien" => Repeats(p)) /\ ~Forged(p, b) /\ PrevKey(b[2]) = LastKey
<1>1. b[2] \in KeyBlocks /\ b[2] \in 1 .. NetHead /\ (b[1] = "alien" \/ b = Mc(b[2]))
  BY AskedFacts
<1>2. PrevKey(b[2]) \in KeyBlocks /\ PrevKey(b[2]) \in 0 .. NetHead
  BY <1>1, PrevKeyFacts
<1>3. p.for = b /\ p.block = b /\ p.config
  BY DEF ProofIsGood, Deserialize, CheckWithMasterState, CheckWithPrevKeyBlock, PreCheckBlockProof, VirtualizeBlock,
         PreCheckKeyBlockProof
<1>4. PrevKey(b[2]) = LastKey /\ CheckSignatures(p, Validators[LastKey])
  <2>1. CASE LastKey = 0
    <3>1. PrevKey(p.block[2]) <= 0 /\ CheckSignatures(p, Validators[0])
      BY <2>1 DEF ProofIsGood, CheckWithMasterState
    <3>2. PrevKey(b[2]) <= 0 /\ 0 <= PrevKey(b[2]) /\ PrevKey(b[2]) \in Int
      BY <1>2, <1>3, <3>1
    <3>3. PrevKey(b[2]) = 0
      BY <3>2
    <3> QED
      BY <2>1, <3>1, <3>3
  <2>2. CASE LastKey # 0
    BY <1>3, <2>2 DEF ProofIsGood, CheckWithPrevKeyBlock
  <2> QED
    BY <2>1, <2>2
<1>5. ~Forged(p, b)
  BY <1>3, <1>4 DEF Forged, KeyBlockProof, CheckSignatures
<1>6. ASSUME b[1] = "alien", ~Repeats(p) PROVE FALSE
  <2>1. PICK set : set = Validators[LastKey]
    OBVIOUS
  <2>2. IsFiniteSet(set) /\ 3 * Cardinality(Liars \cap set) <= 2 * Cardinality(set)
    BY <1>2, <1>4, <2>1, LiarsAssumption
  <2>3. \A e \in p.entries : e[1] \in Liars
    BY <1>3, <1>6, AlienSigners
  <2>4. IsFiniteSet(Liars \cap set)
    BY <2>2, FS_Subset
  <2>5. SignedWeight(p, set) \in Nat /\ SignedWeight(p, set) <= Cardinality(Liars \cap set)
    BY <1>6, <2>3, <2>4, WeightWithoutRepeats
  <2>6. Cardinality(Liars \cap set) \in Nat /\ Cardinality(set) \in Nat
    BY <2>2, <2>4, FS_CardinalityType
  <2>7. 3 * SignedWeight(p, set) > 2 * Cardinality(set)
    BY <1>4, <2>1 DEF CheckSignatures
  <2> QED
    BY <2>2, <2>5, <2>6, <2>7
<1> QED
  BY <1>4, <1>5, <1>6

-----------------------------------------------------------------------------
(* The steps of a boot                                                     *)

LEMMA GrowsItself ==
  ASSUME NEW m PROVE Grows(m, m)
  BY DEF Grows

LEMMA BootBegins == BootInit => BootInv
<1> SUFFICES ASSUME BootInit PROVE BootInv
  OBVIOUS
<1>1. PICK init \in InitBlocks :
        mem = [handles |-> [b \in BootBlocks |-> {}], storing |-> <<>>,
               saved |-> [init |-> init, last |-> None, shard |-> None, keeper |-> None]]
  BY DEF BootInit
<1>2. init \in 0 .. NetHead /\ init \in Int /\ None \in Int
  BY ChainAssumption DEF None
<1> DEFINE s == [init |-> init, last |-> None, shard |-> None, keeper |-> None]
           h == [b \in BootBlocks |-> {}]
<1>3. s \in [Entries -> Int] /\ s["init"] = init
  BY <1>2 DEF Entries
<1>4. h \in [BootBlocks -> SUBSET AllFlags] /\ \A b \in BootBlocks : h[b] = {}
  OBVIOUS
<1>5. mem = [handles |-> h, storing |-> <<>>, saved |-> s] /\ <<>> \in Seq(Jobs)
  BY <1>1
<1> HIDE DEF h, s
<1>6. /\ mem \in MemType /\ mem.saved["init"] = init /\ mem.storing = <<>>
      /\ \A b \in BootBlocks : mem.handles[b] = {}
  BY <1>3, <1>4, <1>5 DEF MemType
<1>7. \A k \in 1 .. NetHead : Mc(k) \in BootBlocks
  BY BlocksAreDistinct
<1>8. FlagsAreSound(mem.handles, init) /\ Chained(mem.handles, init)
  BY <1>6, <1>7 DEF FlagsAreSound, Chained
<1>9. QueueIsOrdered(mem, mem) /\ ProofsAreStored(mem, mem)
  BY <1>6, <1>7 DEF QueueIsOrdered, ProofsAreStored
<1>10. MemInv(mem, durable)
  BY <1>2, <1>6, <1>8, <1>9 DEF MemInv, BootInit
<1> QED
  BY <1>2, <1>10 DEF BootInv, BootInit, BootFollows, NoClients

LEMMA KeyBeforeIsKey ==
  ASSUME NEW k \in Int, 0 < k PROVE PrevKey(k) \in KeyBlocks
<1> DEFINE S == {j \in KeyBlocks : j < k}
<1>0. KeyBlocks \subseteq Int /\ 0 \in KeyBlocks
  BY ChainAssumption
<1>1. S \subseteq Int /\ 0 \in S
  BY <1>0
<1>2. \A y \in S : y <= k
  BY <1>0
<1>3. Max(S) \in S
  BY <1>1, <1>2, MaxIsGreatest
<1> QED
  BY <1>3 DEF PrevKey

LEMMA StartNodeKeeps ==
  ASSUME BootInv, StartNode PROVE BootInv'
<1>1. PICK start, cold : boot' = NewBoot(start, cold) /\ start \in Int /\ cold \in BOOLEAN
  <2>0. None \in Int /\ TRUE \in BOOLEAN /\ FALSE \in BOOLEAN
    BY DEF None
  <2>1. CASE boot' = NewBoot(None, TRUE)
    BY <2>0, <2>1
  <2>2. ASSUME NEW k \in WarmBlock, boot' = NewBoot(IF k \in KeyBlocks THEN k ELSE PrevKey(k), FALSE)
        PROVE  \E start : boot' = NewBoot(start, FALSE) /\ start \in Int
    <3>1. k \in Int /\ 0 <= k
      BY DEF WarmBlock
    <3>2. 0 \in KeyBlocks /\ KeyBlocks \subseteq Int
      BY ChainAssumption
    <3>3. k \notin KeyBlocks => 0 < k
      BY <3>1, <3>2
    <3>4. k \notin KeyBlocks => PrevKey(k) \in KeyBlocks
      BY <3>1, <3>3, KeyBeforeIsKey
    <3>5. (IF k \in KeyBlocks THEN k ELSE PrevKey(k)) \in Int
      BY <3>1, <3>2, <3>4
    <3> QED
      BY <2>2, <3>5
  <2> QED
    BY <2>0, <2>1, <2>2 DEF StartNode
<1>2. boot' \in BootType /\ boot'.keys = <<>> /\ boot'.todo = <<>> /\ boot'.pc \in {"init", "shard"}
  BY <1>1 DEF NewBoot, BootType
<1>3. BootFollows(mem, boot')
  BY <1>2 DEF BootFollows
<1> QED
  BY <1>3 DEF StartNode, BootInv

\* The first handle that a cold boot writes, and the block it begins with.
LEMMA RunColdKeeps ==
  ASSUME BootInv, RunCold PROVE BootInv'
<1>1. PICK init : init = mem.saved["init"]
  OBVIOUS
<1>2. PICK flag \in {"state", "link"} :
        /\ boot.pc = "init" /\ durable' = durable /\ clients' = clients
        /\ \/ mem' = mem
           \/ mem' = SetHandle(mem, Mc(init), {flag})
        /\ \E pc \in {"zero", "ask"} : boot' = [boot EXCEPT !.pc = pc, !.keys = <<init>>]
  BY <1>1 DEF RunCold, Saved, BootAt
<1>3. MemInv(mem, durable) /\ init \in 0 .. NetHead /\ init \in Int
  BY <1>1, MemFacts DEF BootInv
<1>4. boot # Down /\ boot \in BootType
  BY <1>2, StageFacts
<1>5. Mc(init) \in ChainBlocks /\ \A k \in 1 .. NetHead : Mc(init) = Mc(k) => ~(init < k)
  BY <1>3, BlocksAreDistinct DEF ChainBlocks
<1>6. MemInv(mem', durable) /\ Grows(mem, mem')
  <2>1. CASE mem' = mem
    BY <1>3, <2>1, GrowsItself
  <2>2. CASE mem' = SetHandle(mem, Mc(init), {flag})
    <3>1. {flag} \in SUBSET OwnFlags
      BY DEF OwnFlags
    <3> QED
      BY <1>1, <1>3, <1>5, <2>2, <3>1, SetHandleKeeps
  <2> QED
    BY <1>2, <2>1, <2>2
<1>7. BootFollows(mem', boot)
  BY <1>6, BootStays DEF BootInv
<1>8. init \in Heights
  BY <1>3 DEF Heights
<1>9. PICK pc \in {"zero", "ask"} : boot' = [boot EXCEPT !.pc = pc, !.keys = <<init>>]
  BY <1>2
<1>10. boot' \in BootType /\ boot'.pc = pc /\ boot'.keys = <<init>> /\ boot'.todo = boot.todo
  <2>0. <<init>> \in Seq(Heights)
    BY <1>8
  <2>1. PICK keys : keys \in Seq(Heights) /\ keys = <<init>>
    BY <2>0
  <2> QED
    BY <1>4, <1>9, <2>1 DEF BootType
<1>11. Proved(mem'.handles, mem'.saved["init"], init)
  BY <1>1, <1>3, <1>6 DEF Grows, Proved
<1>12. Len(<<init>>) = 1 /\ <<init>>[1] = init /\ <<init>> # <<>>
  OBVIOUS
<1>13. BootFollows(mem', boot')
  BY <1>4, <1>7, <1>10, <1>11, <1>12 DEF BootFollows
<1> QED
  BY <1>2, <1>6, <1>13 DEF BootInv

LEMMA ZeroAppliedKeeps ==
  ASSUME BootInv, ZeroApplied PROVE BootInv'
<1>1. MemInv(mem, durable) /\ mem.saved["init"] \in 0 .. NetHead /\ NetHead \in Nat
  BY MemFacts DEF BootInv
<1>2. Mc(0) \in ChainBlocks /\ \A k \in 1 .. NetHead : Mc(0) # Mc(k)
  BY <1>1, BlocksAreDistinct DEF ChainBlocks
<1>3. MemInv(mem', durable) /\ Grows(mem, mem')
  <2>1. {"applied"} \in SUBSET OwnFlags
    BY DEF OwnFlags
  <2> QED
    BY <1>1, <1>2, <2>1, SetHandleKeeps DEF ZeroApplied
<1>4. BootFollows(mem', boot)
  BY <1>3, BootStays DEF BootInv
<1>5. boot # Down /\ boot.keys # <<>>
  BY StageFacts DEF ZeroApplied, BootAt
<1>6. BootFollows(mem', boot')
  BY <1>4, <1>5, BootToKeeps DEF ZeroApplied, BootTo, Stages
<1> QED
  BY <1>3, <1>6 DEF BootInv, ZeroApplied

\* A list of key blocks that a peer answers with.
LEMMA AnswerFacts ==
  ASSUME NEW a \in 0 .. NetHead, NEW head, NEW ids \in GetNextKeyBlockIds(a, head)
  PROVE  ids \in Seq(AskedBlocks)
<1>1. PICK next : next = NextKeys(a, head)
  OBVIOUS
<1>2. PICK f : /\ f \in [1 .. Min({Cardinality(next), IdsLimit}) -> next]
               /\ ids = [i \in DOMAIN f |-> Mc(f[i])]
  BY <1>1 DEF GetNextKeyBlockIds
<1>3. next \subseteq KeyBlocks \ {0} /\ next \subseteq 0 .. NetHead
  <2>1. ASSUME NEW j \in next PROVE j \in KeyBlocks /\ a < j
    BY <1>1 DEF NextKeys
  <2>2. KeyBlocks \subseteq 0 .. NetHead
    BY ChainAssumption
  <2>3. \A j \in next : j # 0
    BY <2>1
  <2> QED
    BY <2>1, <2>2, <2>3
<1>4. IsFiniteSet(next)
  <2>1. IsFiniteSet(0 .. NetHead)
    BY ChainAssumption, FS_Interval
  <2> QED
    BY <1>3, <2>1, FS_Subset
<1>5. Cardinality(next) \in Nat /\ IdsLimit \in Nat
  BY <1>4, FS_CardinalityType, ChainAssumption
<1>6. PICK len : len = Min({Cardinality(next), IdsLimit}) /\ len \in Nat
  BY <1>5 DEF Min
<1>7. \A i \in 1 .. len : Mc(f[i]) \in AskedBlocks
  <2>1. \A i \in 1 .. len : f[i] \in KeyBlocks \ {0}
    BY <1>2, <1>3, <1>6
  <2> QED
    BY <2>1 DEF AskedBlocks
<1>8. ids \in [1 .. len -> AskedBlocks]
  BY <1>2, <1>6, <1>7
<1> QED
  BY <1>6, <1>8, SeqDef

\* A list of key blocks to prove, whoever made it.
LEMMA AskingKeeps ==
  ASSUME BootInv, BootAt("ask"), NEW ids \in Seq(AskedBlocks), boot' = [boot EXCEPT !.pc = "proof", !.asked = ids],
         UNCHANGED <<mem, durable, clients>>
  PROVE  BootInv'
<1>1. boot # Down /\ boot \in BootType /\ boot.keys # <<>>
  BY StageFacts DEF BootAt
<1>2. boot' \in BootType /\ boot'.pc = "proof" /\ boot'.keys = boot.keys /\ boot'.todo = boot.todo
  BY <1>1 DEF BootType
<1>3. BootFollows(mem, boot')
  BY <1>1, <1>2 DEF BootInv, BootFollows
<1> QED
  BY <1>3 DEF BootInv

LEMMA AskKeyBlocksKeeps ==
  ASSUME BootInv, AskKeyBlocks PROVE BootInv'
<1>0. PICK head \in 0 .. NetHead : \E ids \in GetNextKeyBlockIds(LastKey, head) : boot' = [boot EXCEPT !.pc = "proof", !.asked = ids]
  BY DEF AskKeyBlocks
<1>1. PICK ids \in GetNextKeyBlockIds(LastKey, head) : boot' = [boot EXCEPT !.pc = "proof", !.asked = ids]
  BY <1>0
<1>2. LastKey \in 0 .. NetHead
  BY StageFacts DEF AskKeyBlocks, BootAt
<1>3. ids \in Seq(AskedBlocks)
  BY <1>2, AnswerFacts
<1> QED
  BY <1>1, <1>3, AskingKeeps DEF AskKeyBlocks

LEMMA WrongKeyBlocksKeeps ==
  ASSUME BootInv, WrongKeyBlocks PROVE BootInv'
<1>1. LastKey \in 0 .. NetHead
  BY StageFacts DEF WrongKeyBlocks, BootAt
<1>0. PICK k \in NextKeys(LastKey, NetHead) :
        \E b \in {Alien(k)} \cup {Mc(j) : j \in NextKeys(k, NetHead)} : boot' = [boot EXCEPT !.pc = "proof", !.asked = <<b>>]
  BY DEF WrongKeyBlocks
<1>2. PICK b \in {Alien(k)} \cup {Mc(j) : j \in NextKeys(k, NetHead)} : boot' = [boot EXCEPT !.pc = "proof", !.asked = <<b>>]
  BY <1>0
<1>3. k \in KeyBlocks \ {0} /\ \A j \in NextKeys(k, NetHead) : j \in KeyBlocks \ {0}
  BY <1>1, ChainAssumption DEF NextKeys
<1>4. b \in AskedBlocks
  BY <1>2, <1>3 DEF AskedBlocks
<1>5. <<b>> \in Seq(AskedBlocks)
  BY <1>4
<1> QED
  BY <1>2, <1>5, AskingKeeps DEF WrongKeyBlocks

\* One more key block at the end of the list.
LEMMA MoreKeys ==
  ASSUME NEW m, NEW bt, BootFollows(m, bt), bt # Down, bt.pc = "proof", bt.asked # <<>>, NEW k \in Heights,
         Proved(m.handles, m.saved["init"], k),
         NEW next, next = [bt EXCEPT !.keys = Append(bt.keys, k), !.asked = Tail(bt.asked)]
  PROVE  BootFollows(m, next)
<1>1. bt \in BootType
  BY DEF BootFollows
<1>2. bt.keys \in Seq(Heights) /\ bt.asked \in Seq(AskedBlocks)
  BY <1>1 DEF BootType
<1>3. PICK keys, asked : keys = Append(bt.keys, k) /\ asked = Tail(bt.asked)
  OBVIOUS
<1>4. keys \in Seq(Heights) /\ asked \in Seq(AskedBlocks) /\ keys # <<>>
  BY <1>2, <1>3
<1>5. /\ next \in BootType /\ next.pc = bt.pc /\ next.keys = keys /\ next.todo = bt.todo
  BY <1>1, <1>3, <1>4 DEF BootType
<1>6. \A i \in 1 .. Len(keys) : (i \in 1 .. Len(bt.keys) /\ keys[i] = bt.keys[i]) \/ keys[i] = k
  BY <1>2, <1>3
<1>7. \A i \in 1 .. Len(keys) : Proved(m.handles, m.saved["init"], keys[i])
  BY <1>6 DEF BootFollows
<1> QED
  BY <1>4, <1>5, <1>7 DEF BootFollows

LEMMA DownloadKeyBlockProofKeeps ==
  ASSUME BootInv, DownloadKeyBlockProof PROVE BootInv'
<1>1. PICK b : b = Head(boot.asked)
  OBVIOUS
<1>2. /\ boot # Down /\ boot \in BootType /\ boot.pc = "proof" /\ boot.asked # <<>>
      /\ LastKey \in 0 .. NetHead /\ Proved(mem.handles, mem.saved["init"], LastKey)
  BY StageFacts DEF DownloadKeyBlockProof, BootAt
<1>3. b \in AskedBlocks
  <2>1. boot.asked \in Seq(AskedBlocks)
    BY <1>2 DEF BootType
  <2> QED
    BY <1>1, <1>2, <2>1
<1>4. /\ b \in BootBlocks /\ b[2] \in KeyBlocks /\ b[2] \in 1 .. NetHead /\ b[2] \in Heights
      /\ b[1] = "alien" \/ b = Mc(b[2])
  <2>1. b \in BootBlocks /\ b[2] \in KeyBlocks /\ b[2] \in 1 .. NetHead /\ (b[1] = "alien" \/ b = Mc(b[2]))
    BY <1>3, AskedFacts
  <2>2. b[2] \in Heights
    BY <2>1, ChainAssumption DEF Heights
  <2> QED
    BY <2>1, <2>2
<1>5. MemInv(mem, durable)
  BY DEF BootInv
<1>6. MemInv(mem', durable) /\ Grows(mem, mem') /\ "proof" \in mem'.handles[b]
  <2>1. CASE "proof" \in Flags(b) /\ mem' = mem
    BY <1>5, <2>1, GrowsItself DEF Flags
  <2>2. ASSUME NEW p \in SentProofs(b), ProofIsGood(p, b), mem' = SetHandle(mem, b, {"proof"} \cup Marks(p, b))
        PROVE  MemInv(mem', durable) /\ Grows(mem, mem') /\ "proof" \in mem'.handles[b]
    <3>1. (b[1] = "alien" => Repeats(p)) /\ ~Forged(p, b) /\ PrevKey(b[2]) = LastKey
      BY <1>2, <1>3, <2>2, GoodProofs
    <3>2. PICK flags : flags = {"proof"} \cup Marks(p, b)
      OBVIOUS
    <3>3. /\ flags \in SUBSET OwnFlags /\ "proof" \in flags
          /\ b[1] = "alien" => "repeated" \in flags
      BY <3>1, <3>2 DEF Marks, OwnFlags
    <3>4. \A k \in 1 .. NetHead : b = Mc(k) => PrevKey(k) = LastKey
      BY <3>1, BlocksAreDistinct
    <3>5. MemInv(mem', durable) /\ Grows(mem, mem') /\ mem'.handles[b] = mem.handles[b] \cup flags
      BY <1>2, <1>4, <1>5, <2>2, <3>2, <3>3, <3>4, SetHandleKeepsAny
    <3> QED
      BY <3>3, <3>5
  <2> QED
    BY <1>1, <2>1, <2>2 DEF DownloadKeyBlockProof
<1>7. BootFollows(mem', boot)
  BY <1>6, BootStays DEF BootInv
<1>8. CASE b[1] = "alien"
  <2>1. boot' = [boot EXCEPT !.pc = "astray"]
    BY <1>1, <1>8 DEF DownloadKeyBlockProof
  <2>2. BootFollows(mem', boot')
    BY <1>2, <1>7, <2>1, BootToKeeps DEF Stages
  <2> QED
    BY <1>6, <2>2 DEF BootInv, DownloadKeyBlockProof
<1>9. CASE b[1] # "alien"
  <2>1. boot' = [boot EXCEPT !.keys = Append(boot.keys, b[2]), !.asked = Tail(boot.asked)]
    BY <1>1, <1>2, <1>9 DEF DownloadKeyBlockProof, BootType
  <2>2. Proved(mem'.handles, mem'.saved["init"], b[2])
    BY <1>4, <1>6, <1>9 DEF Proved
  <2>3. BootFollows(mem', boot')
    BY <1>2, <1>4, <1>7, <2>1, <2>2, MoreKeys
  <2> QED
    BY <1>6, <2>3 DEF BootInv, DownloadKeyBlockProof
<1> QED
  BY <1>8, <1>9

LEMMA KeyBlocksDoneKeeps ==
  ASSUME BootInv, KeyBlocksDone PROVE BootInv'
<1>1. boot # Down /\ boot.keys # <<>>
  BY StageFacts DEF KeyBlocksDone, BootAt
<1>2. PICK pc \in {"choose", "ask"} : boot' = [boot EXCEPT !.pc = pc]
  BY DEF KeyBlocksDone, BootTo
<1>3. BootFollows(mem, boot')
  BY <1>1, <1>2, BootToKeeps DEF BootInv, Stages
<1> QED
  BY <1>3 DEF BootInv, KeyBlocksDone

LEMMA TimeIsOverKeeps ==
  ASSUME BootInv, TimeIsOver PROVE BootInv'
<1>1. boot # Down /\ boot \in BootType
  BY StageFacts DEF TimeIsOver
<1>2. boot' \in BootType /\ boot'.pc = boot.pc /\ boot'.keys = boot.keys /\ boot'.todo = boot.todo
  BY <1>1 DEF TimeIsOver, BootType
<1>3. BootFollows(mem, boot')
  BY <1>1, <1>2 DEF BootInv, BootFollows
<1> QED
  BY <1>3 DEF BootInv, TimeIsOver

\* The block a boot starts from is one of the key blocks, and what it downloads
\* is that block and the shard block it refers to.
LEMMA ChooseStateKeeps ==
  ASSUME BootInv, ChooseState PROVE BootInv'
<1>1. PICK k, todo :
        /\ k = ChooseMasterchainState(boot.keys, boot.period)
        /\ todo = (IF k = 0 THEN <<>> ELSE <<Mc(k)>>) \o <<Sc(ShardSeqno[k])>>
        /\ boot' = [boot EXCEPT !.pc = "block", !.start = k, !.todo = todo]
  BY DEF ChooseState
<1>2. /\ boot # Down /\ boot \in BootType /\ boot.keys # <<>> /\ Len(boot.keys) \in Nat \ {0} /\ boot.keys \in Seq(Heights)
  BY StageFacts DEF ChooseState, BootAt
<1>3. PICK i \in 1 .. Len(boot.keys) : k = boot.keys[i]
  <2> DEFINE I == {i \in 1 .. Len(boot.keys) :
                     i = 1 \/ IsPersistentState(Utime[boot.keys[i]], Utime[boot.keys[i - 1]], boot.period)}
  <2>1. I \subseteq Int /\ 1 \in I /\ \A y \in I : y <= Len(boot.keys)
    <3>1. 1 \in 1 .. Len(boot.keys)
      BY <1>2
    <3>2. I \subseteq 1 .. Len(boot.keys) /\ 1 \in I
      BY <3>1
    <3> HIDE DEF I
    <3>3. PICK n \in Nat : n = Len(boot.keys)
      BY <1>2
    <3>4. \A y \in 1 .. n : y \in Int /\ y <= n
      OBVIOUS
    <3> QED
      BY <3>2, <3>3, <3>4
  <2>2. Max(I) \in I
    <3>1. Len(boot.keys) \in Int /\ I \in SUBSET Int /\ I # {}
      BY <1>2, <2>1
    <3> HIDE DEF I
    <3> QED
      BY <2>1, <3>1, MaxIsGreatest
  <2>3. k = boot.keys[Max(I)]
    BY <1>1 DEF ChooseMasterchainState
  <2> QED
    BY <2>2, <2>3
<1>4. k \in Heights /\ Proved(mem.handles, mem.saved["init"], k)
  BY <1>2, <1>3 DEF BootInv, BootFollows
<1>5. k \in 0 .. NetHead /\ k \in Int /\ Sc(ShardSeqno[k]) \in ChainBlocks /\ Mc(k) \in ChainBlocks
  <2>1. k \in 0 .. NetHead
    BY <1>4 DEF Heights
  <2>2. ShardSeqno[k] \in 0 .. ShardSeqno[NetHead]
    BY <2>1, ChainAssumption
  <2> QED
    BY <2>1, <2>2 DEF ChainBlocks
<1>6. PICK s \in ChainBlocks : s = Sc(ShardSeqno[k])
  BY <1>5
<1>7. PICK c \in ChainBlocks : c = Mc(k)
  BY <1>5
<1>8. todo = IF k = 0 THEN <<s>> ELSE <<c, s>>
  BY <1>1, <1>6, <1>7
<1>9. todo \in Seq(ChainBlocks) /\ todo # <<>> /\ \A j \in 1 .. Len(todo) : todo[j] = s \/ todo[j] = c
  BY <1>8
<1>10. boot' \in BootType /\ boot'.pc = "block" /\ boot'.keys = boot.keys /\ boot'.todo = todo
  BY <1>1, <1>2, <1>5, <1>9 DEF BootType
<1>11. ASSUME NEW j \in 1 .. Len(todo), NEW n \in 1 .. NetHead, todo[j] = Mc(n) PROVE Proved(mem.handles, mem.saved["init"], n)
  BY <1>4, <1>6, <1>7, <1>9, <1>11, BlocksAreDistinct
<1>12. BootFollows(mem, boot')
  BY <1>2, <1>9, <1>10, <1>11 DEF BootInv, BootFollows
<1> QED
  BY <1>12 DEF BootInv, ChooseState

\* The download of a block and its state.
LEMMA FetchedKeeps ==
  ASSUME NEW m, NEW bt, BootFollows(m, bt), bt # Down, bt.keys # <<>>, bt.todo # <<>>, NEW next,
         next = IF Len(bt.todo) = 1 THEN [bt EXCEPT !.pc = "last", !.todo = <<>>] ELSE [bt EXCEPT !.pc = "block", !.todo = Tail(bt.todo)]
  PROVE  BootFollows(m, next)
<1>1. bt \in BootType
  BY DEF BootFollows
<1>2. bt.todo \in Seq(ChainBlocks) /\ <<>> \in Seq(ChainBlocks)
  BY <1>1 DEF BootType
<1>3. CASE Len(bt.todo) = 1
  <2>1. next \in BootType /\ next.pc = "last" /\ next.keys = bt.keys /\ next.todo = <<>>
    BY <1>1, <1>2, <1>3 DEF BootType
  <2> QED
    BY <2>1 DEF BootFollows
<1>4. CASE Len(bt.todo) # 1
  <2>1. PICK todo : todo = Tail(bt.todo)
    OBVIOUS
  <2>2. /\ todo \in Seq(ChainBlocks) /\ Len(todo) = Len(bt.todo) - 1 /\ Len(bt.todo) \in Nat /\ Len(bt.todo) > 1
        /\ \A i \in 1 .. Len(bt.todo) - 1 : todo[i] = bt.todo[i + 1]
    <3>0. Len(bt.todo) \in Nat /\ Len(bt.todo) # 0
      BY <1>2, EmptySeq
    <3>1. Len(bt.todo) \in Nat /\ Len(bt.todo) > 1
      <4>1. \A n \in Nat : n # 0 /\ n # 1 => n > 1
        OBVIOUS
      <4> QED
        BY <1>4, <3>0, <4>1
    <3> QED
      BY <1>2, <2>1, <3>1
  <2>3. todo # <<>> /\ \A i \in 1 .. Len(todo) : i + 1 \in 1 .. Len(bt.todo) /\ todo[i] = bt.todo[i + 1]
    BY <2>2
  <2>4. next \in BootType /\ next.pc = "block" /\ next.keys = bt.keys /\ next.todo = todo
    BY <1>1, <1>4, <2>1, <2>2 DEF BootType
  <2> QED
    BY <2>3, <2>4 DEF BootFollows
<1> QED
  BY <1>3, <1>4

LEMMA ExitKeepsBoot ==
  ASSUME BootInv, Exit, UNCHANGED <<durable, clients>>
  PROVE  BootInv'
<1>1. MemInv(mem', durable)
  BY ExitKeeps DEF Exit, BootInv
<1> QED
  BY <1>1 DEF Exit, BootInv, BootFollows

LEMMA AttemptFailsKeeps ==
  ASSUME BootInv, boot.pc \in {"block", "state"}, AttemptFails, UNCHANGED <<durable, clients>>
  PROVE  BootInv'
<1>1. CASE Exit
  BY <1>1, ExitKeepsBoot
<1>2. CASE boot' = [boot EXCEPT !.pc = "choose", !.period = ClassicPeriod] /\ UNCHANGED mem
  <2>1. boot # Down /\ boot \in BootType /\ boot.keys # <<>>
    BY StageFacts
  <2>2. boot' \in BootType /\ boot'.pc = "choose" /\ boot'.keys = boot.keys /\ boot'.todo = boot.todo
    BY <1>2, <2>1 DEF BootType
  <2>3. BootFollows(mem, boot')
    BY <2>1, <2>2 DEF BootInv, BootFollows
  <2> QED
    BY <1>2, <2>3 DEF BootInv
<1> QED
  BY <1>1, <1>2 DEF AttemptFails

\* A flag for the block of the boot.
LEMMA TodoHandleKeeps ==
  ASSUME BootInv, boot.pc \in {"block", "link", "state", "applied"}, NEW flag \in OwnFlags,
         mem' = SetHandle(mem, Head(boot.todo), {flag})
  PROVE  MemInv(mem', durable) /\ BootFollows(mem', boot)
<1>1. /\ boot # Down /\ Head(boot.todo) \in ChainBlocks
      /\ \A k \in 1 .. NetHead : Head(boot.todo) = Mc(k) => Proved(mem.handles, mem.saved["init"], k)
  BY StageFacts
<1>2. MemInv(mem, durable) /\ mem.saved["init"] \in Int
  BY MemFacts DEF BootInv
<1>3. ASSUME NEW k \in 1 .. NetHead, Head(boot.todo) = Mc(k), mem.saved["init"] < k
      PROVE  "proof" \in mem.handles[Head(boot.todo)] /\ Proved(mem.handles, mem.saved["init"], PrevKey(k))
  <2>1. "proof" \in mem.handles[Mc(k)]
    BY <1>1, <1>2, <1>3 DEF Proved
  <2> QED
    BY <1>2, <1>3, <2>1 DEF MemInv, Chained
<1>4. MemInv(mem', durable) /\ Grows(mem, mem')
  <2>1. {flag} \in SUBSET OwnFlags
    OBVIOUS
  <2> QED
    BY <1>1, <1>2, <1>3, <2>1, SetHandleKeeps
<1> QED
  BY <1>4, BootStays DEF BootInv

LEMMA FetchBlockKeeps ==
  ASSUME BootInv, FetchBlock PROVE BootInv'
<1>1. PICK b : b = Head(boot.todo) /\ IF b[2] = 0 THEN DownloadZeroState(b) ELSE DownloadBlock(b)
  BY DEF FetchBlock
<1>2. boot.pc = "block" /\ boot # Down /\ boot.keys # <<>> /\ boot.todo # <<>> /\ UNCHANGED <<durable, clients>>
  BY StageFacts DEF FetchBlock, BootAt
<1>3. CASE AttemptFails
  BY <1>2, <1>3, AttemptFailsKeeps
<1>4. CASE Fetched /\ UNCHANGED mem
  <2>1. BootFollows(mem, boot')
    <3>1. boot' = IF Len(boot.todo) = 1 THEN [boot EXCEPT !.pc = "last", !.todo = <<>>]
                  ELSE [boot EXCEPT !.pc = "block", !.todo = Tail(boot.todo)]
      BY <1>2, <1>4, StageFacts DEF Fetched, BootType
    <3> QED
      BY <1>2, <3>1, FetchedKeeps DEF BootInv
  <2> QED
    BY <1>2, <1>4, <2>1 DEF BootInv
<1>5. CASE BootTo("state") /\ UNCHANGED mem
  <2>1. BootFollows(mem, boot')
    BY <1>2, <1>5, BootToKeeps DEF BootInv, BootTo, Stages
  <2> QED
    BY <1>2, <1>5, <2>1 DEF BootInv
<1>6. ASSUME NEW flag \in {"state", "data"}, NEW pc \in {"applied", "link"}, mem' = SetHandle(mem, b, {flag}), BootTo(pc)
      PROVE  BootInv'
  <2>1. flag \in OwnFlags
    BY DEF OwnFlags
  <2>2. MemInv(mem', durable) /\ BootFollows(mem', boot)
    BY <1>1, <1>2, <1>6, <2>1, TodoHandleKeeps
  <2>3. BootFollows(mem', boot')
    BY <1>2, <1>6, <2>2, BootToKeeps DEF BootTo, Stages
  <2> QED
    BY <1>2, <2>2, <2>3 DEF BootInv
<1> QED
  BY <1>1, <1>3, <1>4, <1>5, <1>6 DEF DownloadZeroState, DownloadBlock

LEMMA StoreLinkKeeps ==
  ASSUME BootInv, StoreLink PROVE BootInv'
<1>1. boot.pc = "link" /\ boot # Down /\ boot.keys # <<>> /\ boot.todo # <<>>
  BY StageFacts DEF StoreLink, BootAt
<1>2. mem' = mem \/ \E flag \in {"proof", "link"} : mem' = SetHandle(mem, Head(boot.todo), {flag})
  BY DEF StoreLink
<1>3. MemInv(mem', durable) /\ BootFollows(mem', boot)
  <2>1. CASE mem' = mem
    BY <2>1 DEF BootInv
  <2>2. ASSUME NEW flag \in {"proof", "link"}, mem' = SetHandle(mem, Head(boot.todo), {flag})
        PROVE  MemInv(mem', durable) /\ BootFollows(mem', boot)
    <3>1. flag \in OwnFlags
      BY DEF OwnFlags
    <3> QED
      BY <1>1, <2>2, <3>1, TodoHandleKeeps
  <2> QED
    BY <1>2, <2>1, <2>2
<1>4. BootFollows(mem', boot')
  BY <1>1, <1>3, BootToKeeps DEF StoreLink, BootTo, Stages
<1> QED
  BY <1>3, <1>4 DEF BootInv, StoreLink

LEMMA FetchStateKeeps ==
  ASSUME BootInv, FetchState PROVE BootInv'
<1>1. boot.pc = "state" /\ boot # Down /\ boot.keys # <<>> /\ boot.todo # <<>>
  BY StageFacts DEF FetchState, BootAt
<1>2. mem' = mem \/ mem' = SetHandle(mem, Head(boot.todo), {"state"})
  BY DEF FetchState
<1>3. MemInv(mem', durable) /\ BootFollows(mem', boot)
  <2>1. CASE mem' = mem
    BY <2>1 DEF BootInv
  <2>2. CASE mem' = SetHandle(mem, Head(boot.todo), {"state"})
    <3>1. "state" \in OwnFlags
      BY DEF OwnFlags
    <3> QED
      BY <1>1, <2>2, <3>1, TodoHandleKeeps
  <2> QED
    BY <1>2, <2>1, <2>2
<1>4. BootFollows(mem', boot')
  BY <1>1, <1>3, BootToKeeps DEF FetchState, BootTo, Stages
<1> QED
  BY <1>3, <1>4 DEF BootInv, FetchState

LEMMA FetchedAppliedKeeps ==
  ASSUME BootInv, FetchedApplied PROVE BootInv'
<1>1. boot.pc = "applied" /\ boot # Down /\ boot \in BootType /\ boot.keys # <<>> /\ boot.todo # <<>>
  BY StageFacts DEF FetchedApplied, BootAt
<1>2. mem' = mem \/ mem' = SetHandle(mem, Head(boot.todo), {"applied"})
  BY DEF FetchedApplied
<1>3. MemInv(mem', durable) /\ BootFollows(mem', boot)
  <2>1. CASE mem' = mem
    BY <2>1 DEF BootInv
  <2>2. CASE mem' = SetHandle(mem, Head(boot.todo), {"applied"})
    <3>1. "applied" \in OwnFlags
      BY DEF OwnFlags
    <3> QED
      BY <1>1, <2>2, <3>1, TodoHandleKeeps
  <2> QED
    BY <1>2, <2>1, <2>2
<1>4. BootFollows(mem', boot')
  <2>1. boot' = IF Len(boot.todo) = 1 THEN [boot EXCEPT !.pc = "last", !.todo = <<>>]
                ELSE [boot EXCEPT !.pc = "block", !.todo = Tail(boot.todo)]
    BY <1>1 DEF FetchedApplied, Fetched, BootType
  <2> QED
    BY <1>1, <1>3, <2>1, FetchedKeeps
<1> QED
  BY <1>3, <1>4 DEF BootInv, FetchedApplied

\* The entries of the node state.
LEMMA SaveLastKeeps ==
  ASSUME BootInv, SaveLast PROVE BootInv'
<1>1. boot # Down /\ boot \in BootType
  BY StageFacts DEF SaveLast, BootAt
<1>2. boot.start \in Int /\ "last" \in SavedKeys
  BY <1>1 DEF BootType, SavedKeys
<1>3. MemInv(mem', durable) /\ Grows(mem, mem')
  BY <1>2, SaveEntryKeeps DEF BootInv, SaveLast
<1>4. BootFollows(mem', boot)
  BY <1>3, BootStays DEF BootInv
<1>5. BootFollows(mem', boot')
  BY <1>1, <1>4, BootToKeeps DEF SaveLast, BootTo, Stages
<1> QED
  BY <1>3, <1>5 DEF BootInv, SaveLast

LEMMA SaveClientKeeps ==
  ASSUME BootInv, NEW key \in {"shard", "keeper"}, NEW next \in {"keeper", "run"}, SaveClient(key, next),
         clients' \in [master : Int, shard : Int, keeper : Int]
  PROVE  BootInv'
<1>1. boot # Down /\ boot \in BootType
  BY StageFacts DEF SaveClient, BootAt
<1>2. boot.start \in Int /\ key \in SavedKeys /\ next \in Stages
  BY <1>1 DEF BootType, SavedKeys, Stages
<1>3. CASE Exit
  <2>1. MemInv(mem', durable)
    BY <1>3, ExitKeeps DEF Exit, BootInv
  <2> QED
    BY <1>3, <2>1 DEF Exit, BootInv, BootFollows, SaveClient
<1>4. CASE BootTo(next) /\ (mem' = mem \/ mem' = SaveEntry(mem, key, boot.start))
  <2>1. MemInv(mem', durable) /\ Grows(mem, mem')
    BY <1>2, <1>4, SaveEntryKeeps, GrowsItself DEF BootInv
  <2>2. BootFollows(mem', boot)
    BY <2>1, BootStays DEF BootInv
  <2>3. BootFollows(mem', boot')
    BY <1>1, <1>2, <1>4, <2>2, BootToKeeps DEF BootTo
  <2> QED
    BY <2>1, <2>3 DEF BootInv, SaveClient
<1> QED
  BY <1>3, <1>4 DEF SaveClient

LEMMA SaveShardKeeps ==
  ASSUME BootInv, SaveShard PROVE BootInv'
  BY SaveClientKeeps DEF SaveShard, BootInv

LEMMA SaveKeeperKeeps ==
  ASSUME BootInv, SaveKeeper PROVE BootInv'
<1>1. boot # Down /\ boot \in BootType
  BY StageFacts DEF SaveKeeper, SaveClient, BootAt
<1>2. boot.start \in Int /\ mem.saved \in [Entries -> Int] /\ durable \in MemType /\ MemInv(mem, durable)
  BY <1>1, MemFacts DEF BootType, MemType, BootInv
<1>3. mem' \in MemType
  <2>1. CASE Exit
    BY <1>2, <2>1, ExitKeeps DEF Exit, MemInv
  <2>2. CASE mem' = mem
    BY <1>2, <2>2 DEF MemInv
  <2>3. CASE mem' = SaveEntry(mem, "keeper", boot.start)
    <3>1. "keeper" \in SavedKeys
      BY DEF SavedKeys
    <3> QED
      BY <1>2, <2>3, <3>1, SaveEntryKeeps DEF MemInv
  <2> QED
    BY <2>1, <2>2, <2>3 DEF SaveKeeper, SaveClient
<1>4. mem'.saved.keeper \in Int
  BY <1>3 DEF MemType, Entries
<1>5. \A k \in FirstMaster : k \in Int
  BY <1>2 DEF FirstMaster, Saved, Entries
<1>6. mem.saved["shard"] \in Int
  BY <1>2 DEF Entries
<1>7. clients' \in [master : Int, shard : Int, keeper : Int]
  BY <1>4, <1>5, <1>6 DEF SaveKeeper, Saved
<1> QED
  BY <1>7, SaveClientKeeps DEF SaveKeeper

-----------------------------------------------------------------------------
(* The clients of the running node                                         *)

\* The block to apply next comes after one that is applied.
LEMMA ToApplyFacts ==
  ASSUME BootInv, NEW k, k = ToApply, 0 < k, k <= NetHead
  PROVE  k \in 1 .. NetHead /\ k - 1 \in 0 .. NetHead /\ (k - 1) + 1 = k /\ "applied" \in mem.handles[Mc(k - 1)]
<1> DEFINE T == {j \in 0 .. clients.master : {"state", "applied"} \subseteq Flags(Mc(j))}
           S == T \cup {None}
<1>1. clients.master \in Int /\ NetHead \in Nat
  BY ChainAssumption DEF BootInv
<1>2. None = 0 - 1 /\ None \in Int
  BY DEF None
<1>3. PICK n \in Int : clients.master <= n /\ None <= n
  <2>1. CASE clients.master <= None
    BY <1>1, <1>2, <2>1
  <2>2. CASE ~(clients.master <= None)
    BY <1>1, <1>2, <2>2
  <2> QED
    BY <2>1, <2>2
<1>4. ASSUME NEW y \in S PROVE y \in Int /\ y <= n
  BY <1>1, <1>2, <1>3
<1>5. k = 1 + Max(S)
  BY DEF ToApply
<1>6. Max(S) \in S
  <2>1. S \in SUBSET Int /\ S # {} /\ \A y \in S : y <= n
    BY <1>4
  <2> HIDE DEF S
  <2> QED
    BY <2>1, MaxIsGreatest
<1>7. PICK j \in S : k = 1 + j
  BY <1>5, <1>6
<1>8. j \in Int /\ j # None
  BY <1>2, <1>4, <1>7
<1>9. j \in T
  BY <1>8
<1>10. 0 <= j /\ "applied" \in mem.handles[Mc(j)]
  BY <1>1, <1>9 DEF Flags
<1>11. k - 1 = j /\ k \in Int
  BY <1>7, <1>8
<1> QED
  BY <1>1, <1>8, <1>10, <1>11

LEMMA ApplyMasterKeeps ==
  ASSUME BootInv, ApplyMaster PROVE BootInv'
<1>1. PICK k : /\ k = ToApply /\ 0 < k /\ k <= NetHead
               /\ mem' = SaveEntry(SetHandle(SetHandle(mem, Mc(k - 1), {"next"}), Mc(k), {"data", "proof", "state", "prev"}), "last", k)
  BY DEF ApplyMaster
<1>2. /\ k \in 1 .. NetHead /\ k - 1 \in 0 .. NetHead /\ (k - 1) + 1 = k /\ k \in Int /\ k - 1 \in Int
      /\ "applied" \in mem.handles[Mc(k - 1)]
  BY <1>1, ToApplyFacts
<1>3. PICK init : init = mem.saved["init"]
  OBVIOUS
<1>4. /\ MemInv(mem, durable) /\ init \in 0 .. NetHead /\ init \in Int /\ NetHead \in Nat
      /\ FlagsAreSound(mem.handles, init) /\ Chained(mem.handles, init)
  BY <1>3, MemFacts DEF BootInv, MemInv
<1>5. Proved(mem.handles, init, k - 1) /\ Proved(mem.handles, init, PrevKey(k))
  BY <1>1, <1>2, <1>4, NextIsProved
<1>6. PICK m : m = SetHandle(mem, Mc(k - 1), {"next"})
  OBVIOUS
<1>7. PICK n : n = SetHandle(m, Mc(k), {"data", "proof", "state", "prev"})
  OBVIOUS
<1>8. Mc(k - 1) \in ChainBlocks /\ Mc(k) \in ChainBlocks
  BY <1>2, <1>4 DEF ChainBlocks
<1>9. {"next"} \in SUBSET OwnFlags /\ {"data", "proof", "state", "prev"} \in SUBSET OwnFlags /\ "last" \in SavedKeys
  BY DEF OwnFlags, SavedKeys
<1>10. MemInv(m, durable) /\ Grows(mem, m)
  <2>1. ASSUME NEW j \in 1 .. NetHead, Mc(k - 1) = Mc(j), init < j
        PROVE  "proof" \in mem.handles[Mc(k - 1)] /\ Proved(mem.handles, init, PrevKey(j))
    <3>1. j = k - 1
      BY <2>1, BlocksAreDistinct
    <3>2. "proof" \in mem.handles[Mc(k - 1)]
      BY <1>2, <1>4, <1>5, <2>1, <3>1 DEF Proved
    <3> QED
      BY <1>4, <2>1, <3>1, <3>2 DEF Chained
  <2> QED
    BY <1>3, <1>4, <1>6, <1>8, <1>9, <2>1, SetHandleKeeps
<1>11. Proved(m.handles, m.saved["init"], PrevKey(k))
  <2>1. PrevKey(k) \in 0 .. NetHead
    BY <1>2, PrevKeyFacts
  <2> QED
    BY <1>3, <1>5, <1>10, <2>1, ProvedStays
<1>12. MemInv(n, durable) /\ Grows(m, n)
  <2>1. ASSUME NEW j \in 1 .. NetHead, Mc(k) = Mc(j)
        PROVE  /\ "proof" \in m.handles[Mc(k)] \cup {"data", "proof", "state", "prev"}
               /\ Proved(m.handles, m.saved["init"], PrevKey(j))
    BY <1>11, <2>1, BlocksAreDistinct
  <2> QED
    BY <1>7, <1>8, <1>9, <1>10, <2>1, SetHandleKeeps
<1>13. MemInv(mem', durable) /\ Grows(n, mem')
  BY <1>1, <1>2, <1>6, <1>7, <1>9, <1>12, SaveEntryKeeps
<1>14. BootFollows(mem', boot)
  BY <1>10, <1>12, <1>13, BootStays DEF BootInv
<1> QED
  BY <1>13, <1>14 DEF BootInv, ApplyMaster

LEMMA MarkMasterKeeps ==
  ASSUME BootInv, MarkMaster PROVE BootInv'
<1>1. PICK k : /\ k = ToApply /\ 0 < k /\ k <= NetHead /\ "prev" \in mem.handles[Mc(k)]
               /\ mem' = SetHandle(mem, Mc(k), {"applied"})
  BY DEF MarkMaster, Linked, Flags
<1>2. k \in 1 .. NetHead
  BY <1>1, ToApplyFacts
<1>3. PICK init : init = mem.saved["init"]
  OBVIOUS
<1>4. /\ MemInv(mem, durable) /\ init \in Int /\ NetHead \in Nat
      /\ FlagsAreSound(mem.handles, init) /\ Chained(mem.handles, init)
  BY <1>3, MemFacts DEF BootInv, MemInv
<1>5. ASSUME init < k PROVE "proof" \in mem.handles[Mc(k)] /\ Proved(mem.handles, init, PrevKey(k))
  <2>1. "proof" \in mem.handles[Mc(k)]
    BY <1>1, <1>2, <1>4, <1>5 DEF FlagsAreSound
  <2> QED
    BY <1>2, <1>4, <1>5, <2>1 DEF Chained
<1>6. Mc(k) \in ChainBlocks /\ {"applied"} \in SUBSET OwnFlags
  <2>1. k \in 0 .. NetHead
    BY <1>2, <1>4
  <2> QED
    BY <2>1 DEF ChainBlocks, OwnFlags
<1>7. ASSUME NEW j \in 1 .. NetHead, Mc(k) = Mc(j), init < j
      PROVE  "proof" \in mem.handles[Mc(k)] /\ Proved(mem.handles, init, PrevKey(j))
  BY <1>5, <1>7, BlocksAreDistinct
<1>8. MemInv(mem', durable) /\ Grows(mem, mem')
  BY <1>1, <1>3, <1>4, <1>6, <1>7, SetHandleKeeps
<1>9. BootFollows(mem', boot)
  BY <1>8, BootStays DEF BootInv
<1> QED
  BY <1>8, <1>9 DEF BootInv, MarkMaster

LEMMA FollowMasterKeeps ==
  ASSUME BootInv, FollowMaster PROVE BootInv'
<1>1. clients' \in [master : Int, shard : Int, keeper : Int]
  BY DEF BootInv, FollowMaster
<1> QED
  BY <1>1 DEF BootInv, FollowMaster

LEMMA ApplyShardKeeps ==
  ASSUME BootInv, ApplyShard PROVE BootInv'
<1>1. PICK n \in 1 .. ShardSeqno[NetHead] : mem' = SetHandle(mem, Sc(n), {"data", "link", "state", "prev", "applied"})
  BY DEF ApplyShard
<1>2. Sc(n) \in ChainBlocks /\ {"data", "link", "state", "prev", "applied"} \in SUBSET OwnFlags
  <2>1. n \in 0 .. ShardSeqno[NetHead]
    BY ChainAssumption
  <2> QED
    BY <2>1 DEF ChainBlocks, OwnFlags
<1>3. \A k \in 1 .. NetHead : Sc(n) # Mc(k)
  BY BlocksAreDistinct
<1>4. MemInv(mem', durable) /\ Grows(mem, mem')
  BY <1>1, <1>2, <1>3, SetHandleKeeps DEF BootInv
<1>5. BootFollows(mem', boot)
  BY <1>4, BootStays DEF BootInv
<1> QED
  BY <1>4, <1>5 DEF BootInv, ApplyShard

\* A client saves the block it has reached.
LEMMA FollowKeeps ==
  ASSUME BootInv, NEW key \in {"shard", "keeper"}, clients' = [clients EXCEPT ![key] = clients[key] + 1],
         mem' = SaveEntry(mem, key, clients[key] + 1), UNCHANGED <<durable, boot>>
  PROVE  BootInv'
<1>1. clients[key] + 1 \in Int /\ key \in SavedKeys /\ clients' \in [master : Int, shard : Int, keeper : Int]
  BY DEF BootInv, SavedKeys
<1>2. MemInv(mem', durable) /\ Grows(mem, mem')
  BY <1>1, SaveEntryKeeps DEF BootInv
<1>3. BootFollows(mem', boot)
  BY <1>2, BootStays DEF BootInv
<1> QED
  BY <1>1, <1>2, <1>3 DEF BootInv

LEMMA FollowShardKeeps ==
  ASSUME BootInv, FollowShard PROVE BootInv'
  BY FollowKeeps DEF FollowShard

LEMMA FollowKeeperKeeps ==
  ASSUME BootInv, FollowKeeper PROVE BootInv'
  BY FollowKeeps DEF FollowKeeper

LEMMA StoringKeeps ==
  ASSUME BootInv, StoreJob PROVE BootInv'
<1>1. mem' = [mem EXCEPT !.storing = Tail(mem.storing)]
  BY MemFacts DEF StoreJob, BootInv, MemType
<1>2. MemInv(mem', durable') /\ Grows(mem, mem')
  <2>1. PICK job : /\ job = Head(mem.storing)
                   /\ durable' = IF job \in BootBlocks THEN [durable EXCEPT !.handles[job] = mem.handles[job]]
                                 ELSE [durable EXCEPT !.saved[job[1]] = job[2]]
    BY DEF StoreJob, Flags
  <2> QED
    BY <1>1, <2>1, StoreJobKeeps DEF BootInv, StoreJob
<1>3. BootFollows(mem', boot)
  BY <1>2, BootStays DEF BootInv
<1> QED
  BY <1>2, <1>3 DEF BootInv, StoreJob

-----------------------------------------------------------------------------
LEMMA BootInvIsInductive ==
  ASSUME BootInv, [BootNext]_bootVars PROVE BootInv'
<1>1. CASE StoreJob
  BY <1>1, StoringKeeps
<1>2. CASE StartNode \/ RunCold \/ ZeroApplied
  BY <1>2, StartNodeKeeps, RunColdKeeps, ZeroAppliedKeeps
<1>3. CASE AskKeyBlocks \/ WrongKeyBlocks \/ DownloadKeyBlockProof \/ KeyBlocksDone \/ TimeIsOver
  BY <1>3, AskKeyBlocksKeeps, WrongKeyBlocksKeeps, DownloadKeyBlockProofKeeps, KeyBlocksDoneKeeps, TimeIsOverKeeps
<1>4. CASE ChooseState \/ FetchBlock \/ StoreLink \/ FetchState \/ FetchedApplied
  BY <1>4, ChooseStateKeeps, FetchBlockKeeps, StoreLinkKeeps, FetchStateKeeps, FetchedAppliedKeeps
<1>5. CASE FetchStateFails
  BY <1>5, AttemptFailsKeeps DEF FetchStateFails, BootAt
<1>6. CASE SaveLast \/ SaveShard \/ SaveKeeper
  BY <1>6, SaveLastKeeps, SaveShardKeeps, SaveKeeperKeeps
<1>7. CASE ApplyMaster \/ MarkMaster \/ FollowMaster
  BY <1>7, ApplyMasterKeeps, MarkMasterKeeps, FollowMasterKeeps
<1>8. CASE ApplyShard \/ FollowShard \/ FollowKeeper
  BY <1>8, ApplyShardKeeps, FollowShardKeeps, FollowKeeperKeeps
<1>9. CASE NodeCrashes
  BY <1>9, ExitKeepsBoot DEF NodeCrashes
<1>10. CASE UNCHANGED bootVars
  BY <1>10 DEF bootVars, BootInv
<1> QED
  BY <1>1, <1>2, <1>3, <1>4, <1>5, <1>6, <1>7, <1>8, <1>9, <1>10 DEF BootNext, BootProgress

LEMMA BootInvImpliesTrust ==
  ASSUME BootInv PROVE TrustIsChained
<1>1. PICK init : init = mem.saved["init"]
  OBVIOUS
<1>2. /\ MemInv(mem, durable) /\ init \in 0 .. NetHead /\ init \in Int /\ NetHead \in Nat
  BY <1>1, MemFacts DEF BootInv
<1>3. ASSUME NEW h \in {mem.handles, durable.handles}
      PROVE  /\ \A b \in BootBlocks : (b[1] = "alien" /\ h[b] # {} => "repeated" \in h[b]) /\ "forged" \notin h[b]
             /\ \A k \in KeyBlocks : "proof" \in h[Mc(k)] /\ init < k => PrevKey(k) <= init \/ "proof" \in h[Mc(PrevKey(k))]
  <2>1. FlagsAreSound(h, init) /\ Chained(h, init)
    BY <1>1, <1>2 DEF MemInv
  <2>2. ASSUME NEW k \in KeyBlocks, "proof" \in h[Mc(k)], init < k PROVE PrevKey(k) <= init \/ "proof" \in h[Mc(PrevKey(k))]
    <3>1. k \in 1 .. NetHead
      BY <1>2, <2>2, ChainAssumption
    <3> QED
      BY <2>1, <2>2, <3>1 DEF Chained, Proved
  <2> QED
    BY <2>1, <2>2 DEF FlagsAreSound
<1> QED
  BY <1>1, <1>3 DEF TrustIsChained, Saved

\* For every chain, choice of key blocks and validator sets, whatever the peers
\* answer, wherever the node crashes and however often: the proofs it has of key
\* blocks, in memory and on the disk, go back to the block it began with, none is
\* put together wrongly, and one of another chain is among them only if it names
\* a validator twice, which is counted twice (boot.rs get_key_blocks,
\* block_proof.rs check_with_prev_key_block_proof_, validator_utils.rs
\* check_crypto_signatures).
THEOREM BootIsChained == BootSpec => []TrustIsChained
<1>1. BootInit => BootInv
  BY BootBegins
<1>2. BootInv /\ [BootNext]_bootVars => BootInv'
  BY BootInvIsInductive
<1>3. BootInv => TrustIsChained
  BY BootInvImpliesTrust
<1> QED
  BY <1>1, <1>2, <1>3, PTL DEF BootSpec
=============================================================================
