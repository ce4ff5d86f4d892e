------------------------- MODULE ShardConfig_proofs -------------------------
(***************************************************************************)
(* Proofs about the shard configuration, for every delay and interval, any *)
(* number of blocks and rotations: the sessions of a masterchain state do  *)
(* not overlap and what a session has decided can be registered as long as *)
(* it goes on, at any depth of splitting; and with at most two shards the  *)
(* validators accept every layout that a collator makes.                   *)
(***************************************************************************)
EXTENDS ShardConfig, WellFoundedInduction, TLAPS

-----------------------------------------------------------------------------
(* Shards: a shard is a sequence of bits, and the tree they form           *)

Bits == {0, 1}
AllShards == Seq(Bits)

\* t is where the edge of s, on the side of bit, lies: what find_shard looks for.
Edge(s, t, bit) == IsPrefix(t, s) \/ (IsPrefix(s, t) /\ \A i \in Len(s) + 1 .. Len(t) : t[i] = bit)

\* What it means for one shard to be a part of another.
LEMMA PrefixMeans ==
  ASSUME NEW s \in AllShards, NEW t \in AllShards
  PROVE  IsPrefix(s, t) <=> Len(s) <= Len(t) /\ \A i \in 1 .. Len(s) : s[i] = t[i]
<1>1. CASE Len(s) <= Len(t)
  <2>1. SubSeq(s, 1, Len(s)) = s BY DEF AllShards
  <2>2. SubSeq(t, 1, Len(s)) \in AllShards /\ Len(SubSeq(t, 1, Len(s))) = Len(s)
        /\ \A i \in 1 .. Len(s) : SubSeq(t, 1, Len(s))[i] = t[i]
    BY <1>1 DEF AllShards
  <2>3. s = SubSeq(t, 1, Len(s)) <=> \A i \in 1 .. Len(s) : s[i] = t[i]
    BY <2>2 DEF AllShards
  <2> QED BY <1>1, <2>1, <2>3 DEF IsPrefix
<1>2. CASE ~(Len(s) <= Len(t)) BY <1>2 DEF IsPrefix
<1> QED BY <1>1, <1>2

\* Parts of parts are parts, and two shards with a common part are comparable.
LEMMA PrefixOrder ==
  ASSUME NEW s \in AllShards, NEW t \in AllShards, NEW u \in AllShards
  PROVE  /\ IsPrefix(s, s)
         /\ IsPrefix(s, t) /\ IsPrefix(t, u) => IsPrefix(s, u)
         /\ IsPrefix(s, t) /\ IsPrefix(t, s) => s = t
         /\ IsPrefix(s, u) /\ IsPrefix(t, u) => IsPrefix(s, t) \/ IsPrefix(t, s)
         /\ IsPrefix(s, t) => Len(s) <= Len(t) /\ (Len(s) = Len(t) => s = t)
<1>1. /\ IsPrefix(s, t) <=> Len(s) <= Len(t) /\ \A i \in 1 .. Len(s) : s[i] = t[i]
      /\ IsPrefix(t, s) <=> Len(t) <= Len(s) /\ \A i \in 1 .. Len(t) : t[i] = s[i]
      /\ IsPrefix(s, u) <=> Len(s) <= Len(u) /\ \A i \in 1 .. Len(s) : s[i] = u[i]
      /\ IsPrefix(t, u) <=> Len(t) <= Len(u) /\ \A i \in 1 .. Len(t) : t[i] = u[i]
      /\ IsPrefix(s, s) <=> Len(s) <= Len(s) /\ \A i \in 1 .. Len(s) : s[i] = s[i]
  BY PrefixMeans
<1>2. Len(s) \in Nat /\ Len(t) \in Nat /\ Len(u) \in Nat BY DEF AllShards
<1>3. IsPrefix(s, s) BY <1>1, <1>2
<1>4. IsPrefix(s, t) /\ IsPrefix(t, u) => IsPrefix(s, u) BY <1>1, <1>2
<1>5. IsPrefix(s, u) /\ IsPrefix(t, u) => IsPrefix(s, t) \/ IsPrefix(t, s) BY <1>1, <1>2
<1>6. IsPrefix(s, t) /\ Len(s) = Len(t) => s = t BY <1>1, <1>2 DEF AllShards
<1>7. IsPrefix(s, t) /\ IsPrefix(t, s) => s = t BY <1>1, <1>2, <1>6
<1> QED BY <1>1, <1>3, <1>4, <1>5, <1>6, <1>7

\* The two halves of a shard.
LEMMA Children ==
  ASSUME NEW p \in AllShards, NEW bit \in Bits
  PROVE  /\ Child(p, bit) \in AllShards /\ Child(p, bit) # <<>> /\ Len(Child(p, bit)) = Len(p) + 1
         /\ Merged(Child(p, bit)) = p /\ IsParentOf(p, Child(p, bit))
         /\ Other(Child(p, bit)) = Child(p, 1 - bit) /\ 1 - bit \in Bits /\ Child(p, 1 - bit) # Child(p, bit)
         /\ IsPrefix(p, Child(p, bit)) /\ ~IsPrefix(Child(p, bit), p) /\ Child(p, bit) # p
         /\ Child(p, bit)[Len(p) + 1] = bit
<1> DEFINE s == Child(p, bit)
<1>1. /\ s \in AllShards /\ Len(s) = Len(p) + 1 /\ s[Len(p) + 1] = bit /\ Len(p) \in Nat
      /\ \A i \in 1 .. Len(p) : s[i] = p[i]
  BY DEF AllShards, Bits, Child
<1>2. s # <<>> BY <1>1
<1>3. Front(s) = p
  <2>1. Front(s) = SubSeq(s, 1, Len(p)) BY <1>1 DEF Front
  <2>2. SubSeq(s, 1, Len(p)) \in AllShards /\ Len(SubSeq(s, 1, Len(p))) = Len(p)
        /\ \A i \in 1 .. Len(p) : SubSeq(s, 1, Len(p))[i] = s[i]
    BY <1>1 DEF AllShards
  <2> QED BY <2>1, <2>2, <1>1 DEF AllShards
<1>4. Last(s) = bit BY <1>1 DEF Last
<1>5. Other(s) = Child(p, 1 - bit) BY <1>3, <1>4 DEF Other, Child
<1>6. 1 - bit \in Bits /\ 1 - bit # bit BY DEF Bits
<1>7. Child(p, 1 - bit)[Len(p) + 1] = 1 - bit BY <1>1, <1>6 DEF Child, AllShards, Bits
<1>8. IsPrefix(p, s) BY <1>1, PrefixMeans
<1>9. ~IsPrefix(s, p) BY <1>1, PrefixMeans
<1> QED BY <1>1, <1>2, <1>3, <1>5, <1>6, <1>7, <1>8, <1>9 DEF Merged, IsParentOf

\* A shard that is not the whole workchain is a half of the one above it.
LEMMA ParentMeans ==
  ASSUME NEW s \in AllShards, s # <<>>
  PROVE  Merged(s) \in AllShards /\ Last(s) \in Bits /\ s = Child(Merged(s), Last(s))
<1>1. Len(s) \in Nat \ {0} BY DEF AllShards
<1>2. Last(s) \in Bits BY <1>1 DEF Last, AllShards
<1>3. /\ Merged(s) \in AllShards /\ Len(Merged(s)) = Len(s) - 1
      /\ \A i \in 1 .. Len(s) - 1 : Merged(s)[i] = s[i]
  <2>1. Merged(s) = SubSeq(s, 1, Len(s) - 1) BY DEF Merged, Front
  <2>2. PICK n \in Nat : n = Len(s) - 1 /\ n <= Len(s) BY <1>1
  <2>3. /\ SubSeq(s, 1, n) \in AllShards /\ Len(SubSeq(s, 1, n)) = n
        /\ \A i \in 1 .. n : SubSeq(s, 1, n)[i] = s[i]
    BY <2>2 DEF AllShards
  <2> QED BY <2>1, <2>2, <2>3
<1>4. /\ Child(Merged(s), Last(s)) \in AllShards /\ Len(Child(Merged(s), Last(s))) = Len(s)
      /\ Child(Merged(s), Last(s))[Len(s)] = s[Len(s)]
      /\ \A i \in 1 .. Len(s) - 1 : Child(Merged(s), Last(s))[i] = s[i]
  BY <1>1, <1>2, <1>3 DEF Child, AllShards, Last
<1>5. \A i \in 1 .. Len(s) : Child(Merged(s), Last(s))[i] = s[i] BY <1>1, <1>4
<1> QED BY <1>2, <1>3, <1>4, <1>5 DEF AllShards

\* The same, for a shard that is known to have a given one above it.
LEMMA ParentGives ==
  ASSUME NEW s \in AllShards, NEW p, IsParentOf(p, s)
  PROVE  p \in AllShards /\ \E bit \in Bits : s = Child(p, bit)
BY ParentMeans DEF IsParentOf

\* Below a shard there are its halves, and above a half there is its shard.
LEMMA NextToShard ==
  ASSUME NEW p \in AllShards, NEW t \in AllShards
  PROVE  /\ IsPrefix(p, t) /\ p # t => \E bit \in Bits : IsPrefix(Child(p, bit), t)
         /\ \A bit \in Bits : IsPrefix(t, Child(p, bit)) => t = Child(p, bit) \/ IsPrefix(t, p)
<1>1. ASSUME IsPrefix(p, t), p # t PROVE \E bit \in Bits : IsPrefix(Child(p, bit), t)
  <2>1. Len(p) \in Nat /\ Len(t) \in Nat /\ Len(p) <= Len(t) /\ \A i \in 1 .. Len(p) : p[i] = t[i]
    BY <1>1, PrefixMeans DEF AllShards
  <2>2. Len(p) < Len(t) BY <1>1, <2>1, PrefixOrder
  <2>3. t[Len(p) + 1] \in Bits BY <2>1, <2>2 DEF AllShards
  <2> DEFINE c == Child(p, t[Len(p) + 1])
  <2>4. c \in AllShards /\ Len(c) = Len(p) + 1 /\ \A i \in 1 .. Len(p) + 1 : c[i] = t[i]
    BY <2>1, <2>3 DEF Child, AllShards
  <2>5. IsPrefix(c, t) BY <2>1, <2>2, <2>4, PrefixMeans
  <2> QED BY <2>3, <2>5
<1>2. ASSUME NEW bit \in Bits, IsPrefix(t, Child(p, bit)), t # Child(p, bit) PROVE IsPrefix(t, p)
  <2>1. Child(p, bit) \in AllShards /\ Len(Child(p, bit)) = Len(p) + 1 BY Children
  <2>2. Len(t) # Len(p) + 1 /\ Len(t) <= Len(p) + 1 BY <1>2, <2>1, PrefixOrder
  <2>3. Len(t) \in Nat /\ Len(p) \in Nat BY DEF AllShards
  <2>4. Len(t) <= Len(p) BY <2>2, <2>3
  <2>5. IsPrefix(p, Child(p, bit)) BY Children
  <2>6. IsPrefix(t, p) \/ IsPrefix(p, t) BY <1>2, <2>1, <2>5, PrefixOrder
  <2>7. CASE IsPrefix(p, t) BY <2>3, <2>4, <2>7, PrefixOrder
  <2> QED BY <2>6, <2>7
<1> QED BY <1>1, <1>2

\* How the edge of a shard moves when what lies there is split or merged.
LEMMA EdgeMoves ==
  ASSUME NEW s \in AllShards, NEW t \in AllShards, NEW bit \in Bits
  PROVE  /\ Edge(s, t, bit) /\ IsPrefix(s, t) => Edge(s, Child(t, bit), bit)
         /\ \A b \in Bits : Edge(s, Child(t, b), bit) => Edge(s, t, bit)
         /\ Edge(s, Child(s, bit), bit)
         /\ Edge(s, t, bit) /\ IsPrefix(s, t) /\ s # t => IsPrefix(Child(s, bit), t)
<1>1. ASSUME Edge(s, t, bit), IsPrefix(s, t) PROVE Edge(s, Child(t, bit), bit)
  <2>1. /\ Child(t, bit) \in AllShards /\ Len(Child(t, bit)) = Len(t) + 1 /\ Len(t) \in Nat /\ Len(s) \in Nat
        /\ Child(t, bit)[Len(t) + 1] = bit /\ \A i \in 1 .. Len(t) : Child(t, bit)[i] = t[i]
    BY DEF AllShards, Child, Bits
  <2>2. IsPrefix(s, Child(t, bit)) BY <1>1, <2>1, Children, PrefixOrder
  <2>3. \A i \in Len(s) + 1 .. Len(t) : t[i] = bit BY <1>1, PrefixOrder, <2>1 DEF Edge
  <2> QED BY <2>1, <2>2, <2>3 DEF Edge
<1>2. ASSUME NEW b \in Bits, Edge(s, Child(t, b), bit) PROVE Edge(s, t, bit)
  <2>1. /\ Child(t, b) \in AllShards /\ Len(Child(t, b)) = Len(t) + 1 /\ Len(t) \in Nat /\ Len(s) \in Nat
        /\ \A i \in 1 .. Len(t) : Child(t, b)[i] = t[i]
    BY DEF AllShards, Child, Bits
  <2>2. IsPrefix(t, Child(t, b)) BY Children
  <2>3. CASE IsPrefix(Child(t, b), s) BY <2>1, <2>2, <2>3, PrefixOrder DEF Edge
  <2>4. CASE IsPrefix(s, Child(t, b)) /\ \A i \in Len(s) + 1 .. Len(Child(t, b)) : Child(t, b)[i] = bit
    <3>1. s = Child(t, b) \/ IsPrefix(s, t) BY <2>4, NextToShard
    <3>2. CASE s = Child(t, b) BY <2>2, <3>2 DEF Edge
    <3>3. CASE IsPrefix(s, t) BY <2>1, <2>4, <3>3 DEF Edge
    <3> QED BY <3>1, <3>2, <3>3
  <2> QED BY <1>2, <2>3, <2>4 DEF Edge
<1>3. Edge(s, Child(s, bit), bit)
  <2>1. Len(Child(s, bit)) = Len(s) + 1 /\ Len(s) \in Nat /\ Child(s, bit)[Len(s) + 1] = bit /\ IsPrefix(s, Child(s, bit))
    BY Children DEF AllShards
  <2> QED BY <2>1 DEF Edge
<1>4. ASSUME Edge(s, t, bit), IsPrefix(s, t), s # t PROVE IsPrefix(Child(s, bit), t)
  <2>1. PICK b \in Bits : IsPrefix(Child(s, b), t) BY <1>4, NextToShard
  <2>2. /\ Child(s, b) \in AllShards /\ Len(Child(s, b)) = Len(s) + 1 /\ Child(s, b)[Len(s) + 1] = b
        /\ Len(s) \in Nat /\ Len(t) \in Nat
    BY Children DEF AllShards
  <2>3. Len(s) + 1 <= Len(t) /\ t[Len(s) + 1] = b BY <2>1, <2>2, PrefixMeans
  <2>4. ~IsPrefix(t, s) BY <1>4, PrefixOrder
  <2>5. t[Len(s) + 1] = bit BY <1>4, <2>2, <2>3, <2>4 DEF Edge
  <2> QED BY <2>1, <2>3, <2>5
<1> QED BY <1>1, <1>2, <1>3, <1>4

-----------------------------------------------------------------------------
(* Layouts: the shards of a workchain, without overlaps and without holes  *)

PrefixFree(D) == \A s, t \in D : IsPrefix(s, t) => s = t
Covering(D) == \A s \in AllShards : \A bit \in Bits : \E t \in D : Edge(s, t, bit)
Full(D) == D \subseteq AllShards /\ PrefixFree(D) /\ Covering(D)

Comparable(s, t) == IsPrefix(s, t) \/ IsPrefix(t, s)

\* find_shard finds the shard that contains s or, if s is split, its half.
LEMMA FindShard ==
  ASSUME NEW c, Full(DOMAIN c.shards), NEW s \in AllShards, NEW bit \in Bits
  PROVE  /\ AtEdge(c, s, bit) \in DOMAIN c.shards /\ Edge(s, AtEdge(c, s, bit), bit)
         /\ \A u \in DOMAIN c.shards : IsPrefix(u, s) => AtEdge(c, s, bit) = u
         /\ Child(s, bit) \in DOMAIN c.shards => AtEdge(c, s, bit) = Child(s, bit)
<1> DEFINE D == DOMAIN c.shards
<1> DEFINE t == AtEdge(c, s, bit)
<1>1. \E u \in D : Edge(s, u, bit) BY DEF Full, Covering
<1>2. t \in D /\ Edge(s, t, bit) BY <1>1 DEF AtEdge, Edge
<1> HIDE DEF t, D
<1>3. D \subseteq AllShards /\ PrefixFree(D) BY DEF D, Full
<1>4. ASSUME NEW u \in D, IsPrefix(u, s) PROVE t = u
  <2>1. IsPrefix(t, s) \/ IsPrefix(s, t) BY <1>2 DEF Edge
  <2>2. u \in AllShards /\ t \in AllShards BY <1>2, <1>3
  <2>3. IsPrefix(t, u) \/ IsPrefix(u, t)
    <3>1. CASE IsPrefix(t, s) BY <1>4, <2>2, <3>1, PrefixOrder
    <3>2. CASE IsPrefix(s, t) BY <1>4, <2>2, <3>2, PrefixOrder
    <3> QED BY <2>1, <3>1, <3>2
  <2> QED BY <1>2, <1>3, <2>3 DEF PrefixFree
<1>5. ASSUME Child(s, bit) \in D PROVE t = Child(s, bit)
  <2>1. t \in AllShards BY <1>2, <1>3
  <2>2. ~IsPrefix(t, s)
    <3>1. SUFFICES ASSUME IsPrefix(t, s) PROVE FALSE OBVIOUS
    <3>2. IsPrefix(s, Child(s, bit)) /\ Child(s, bit) \in AllShards /\ ~IsPrefix(Child(s, bit), s) BY Children
    <3>3. IsPrefix(t, Child(s, bit)) BY <2>1, <3>1, <3>2, PrefixOrder
    <3>4. t = Child(s, bit) BY <1>2, <1>3, <1>5, <3>3 DEF PrefixFree
    <3> QED BY <3>1, <3>2, <3>4
  <2>3. IsPrefix(s, t) /\ s # t BY <1>2, <2>1, <2>2, PrefixOrder DEF Edge
  <2>4. IsPrefix(Child(s, bit), t) BY <1>2, <2>1, <2>3, EdgeMoves
  <2> QED BY <1>2, <1>3, <1>5, <2>4 DEF PrefixFree
<1> QED BY <1>2, <1>4, <1>5 DEF t, D

\* The shards T take the place of those of the layout D they have to do with,
\* where B are the shards before a split and M those before a merge: a shard
\* goes on, a shard of B gives way to both its halves, or two halves in M give
\* way to their shard.
GoesOn(D, B, M, x) == x \in D /\ x \notin B /\ x \notin M
SplitsOff(D, B, M, T, x) ==
  \E p \in D, bit \in Bits : x = Child(p, bit) /\ p \in B /\ p \notin M /\ Child(p, 1 - bit) \in T
JoinsUp(D, M, x) == x \in AllShards /\ \A bit \in Bits : Child(x, bit) \in D \cap M
TakesPlace(D, B, M, T) == \A x \in T : GoesOn(D, B, M, x) \/ SplitsOff(D, B, M, T, x) \/ JoinsUp(D, M, x)

LayoutAfter(D, T) == (D \ {s \in D : \E x \in T : Comparable(s, x)}) \cup T

Touches(B, M, T, x, t) ==
  \/ x = t /\ t \notin B /\ t \notin M
  \/ t \in B /\ t \notin M /\ IsParentOf(t, x) /\ \A bit \in Bits : Child(t, bit) \in T
  \/ t \in M /\ IsParentOf(x, t)

\* What a new shard has to do with a shard of the layout it changes.
LEMMA Footprint ==
  ASSUME NEW D, NEW B, NEW M, NEW T, Full(D), TakesPlace(D, B, M, T), NEW x \in T
  PROVE  /\ x \in AllShards
         /\ \A t \in D : Comparable(x, t) => Touches(B, M, T, x, t)
         /\ \E t \in D : Touches(B, M, T, x, t)
<1>0. D \subseteq AllShards /\ PrefixFree(D) BY DEF Full
<1>1. CASE GoesOn(D, B, M, x)
  <2>1. x \in D /\ x \in AllShards BY <1>0, <1>1 DEF GoesOn
  <2>2. \A t \in D : Comparable(x, t) => x = t BY <1>0, <2>1 DEF Comparable, PrefixFree
  <2> QED BY <1>1, <2>1, <2>2 DEF Touches, GoesOn
<1>2. CASE SplitsOff(D, B, M, T, x)
  <2>1. PICK p \in D, bit \in Bits : x = Child(p, bit) /\ p \in B /\ p \notin M /\ Child(p, 1 - bit) \in T
    BY <1>2 DEF SplitsOff
  <2>2. /\ p \in AllShards /\ x \in AllShards /\ IsParentOf(p, x) /\ IsPrefix(p, x) /\ ~IsPrefix(x, p) /\ x # p
    BY <1>0, <2>1, Children
  <2>3. \A b \in Bits : Child(p, b) \in T BY <2>1 DEF Bits
  <2>4. ASSUME NEW t \in D, Comparable(x, t) PROVE t = p
    <3>1. t \in AllShards BY <1>0
    <3>2. CASE IsPrefix(x, t)
      <4>1. IsPrefix(p, t) BY <2>2, <3>1, <3>2, PrefixOrder
      <4> QED BY <1>0, <4>1 DEF PrefixFree
    <3>3. CASE IsPrefix(t, x)
      <4>1. t = x \/ IsPrefix(t, p) BY <2>1, <2>2, <3>1, <3>3, NextToShard
      <4>2. t = x => t = p BY <1>0, <2>2 DEF PrefixFree
      <4> QED BY <1>0, <4>1, <4>2 DEF PrefixFree
    <3> QED BY <2>4, <3>2, <3>3 DEF Comparable
  <2> QED BY <2>1, <2>2, <2>3, <2>4 DEF Touches
<1>3. CASE JoinsUp(D, M, x)
  <2>1. x \in AllShards /\ \A bit \in Bits : Child(x, bit) \in D /\ Child(x, bit) \in M BY <1>3 DEF JoinsUp
  <2>2. \A bit \in Bits : /\ Child(x, bit) \in AllShards /\ IsParentOf(x, Child(x, bit))
                          /\ IsPrefix(x, Child(x, bit)) /\ ~IsPrefix(Child(x, bit), x)
    BY <2>1, Children
  <2>3. ASSUME NEW t \in D, IsPrefix(t, x) PROVE FALSE
    <3>0. 0 \in Bits BY DEF Bits
    <3>1. IsPrefix(t, Child(x, 0)) BY <1>0, <2>1, <2>2, <2>3, <3>0, PrefixOrder
    <3>2. t = Child(x, 0) BY <1>0, <2>1, <3>0, <3>1 DEF PrefixFree
    <3> QED BY <2>2, <2>3, <3>0, <3>2
  <2>4. ASSUME NEW t \in D, Comparable(x, t) PROVE t \in M /\ IsParentOf(x, t)
    <3>1. IsPrefix(x, t) /\ x # t BY <1>0, <2>3, <2>4, PrefixOrder DEF Comparable
    <3>2. PICK bit \in Bits : IsPrefix(Child(x, bit), t) BY <1>0, <2>1, <3>1, NextToShard
    <3>3. t = Child(x, bit) BY <1>0, <2>1, <3>2 DEF PrefixFree
    <3> QED BY <2>1, <2>2, <3>3
  <2>5. \E t \in D : t \in M /\ IsParentOf(x, t) BY <2>1, <2>2 DEF Bits
  <2> QED BY <2>1, <2>4, <2>5 DEF Touches
<1> QED BY <1>1, <1>2, <1>3 DEF TakesPlace

\* A layout stays one when shards take the place of others, and what becomes
\* of a shard of the old one.
LEMMA LayoutStep ==
  ASSUME NEW D, NEW B, NEW M, NEW T, Full(D), TakesPlace(D, B, M, T)
  PROVE  /\ Full(LayoutAfter(D, T))
         /\ \A t \in D : \/ t \in LayoutAfter(D, T)
                         \/ t \in B /\ t \notin M /\ \A bit \in Bits : Child(t, bit) \in T
                         \/ t \in M /\ t # <<>> /\ Merged(t) \in T
         /\ \A t \in D \cap T : t \notin B /\ t \notin M
<1>0. D \subseteq AllShards /\ PrefixFree(D) /\ Covering(D) BY DEF Full
<1>1. \A x \in T : /\ x \in AllShards /\ \A t \in D : Comparable(x, t) => Touches(B, M, T, x, t)
                   /\ \E t \in D : Touches(B, M, T, x, t)
  BY Footprint
<1> DEFINE E == LayoutAfter(D, T)
<1>2. E \subseteq AllShards BY <1>0, <1>1 DEF LayoutAfter
<1>3. ASSUME NEW t \in D
      PROVE  \/ t \in E
             \/ t \in B /\ t \notin M /\ \A bit \in Bits : Child(t, bit) \in T
             \/ t \in M /\ t # <<>> /\ Merged(t) \in T
  <2>1. CASE \A x \in T : ~Comparable(t, x) BY <2>1 DEF LayoutAfter
  <2>2. ASSUME NEW x \in T, Comparable(t, x)
        PROVE  \/ t \in E
               \/ t \in B /\ t \notin M /\ \A bit \in Bits : Child(t, bit) \in T
               \/ t \in M /\ t # <<>> /\ Merged(t) \in T
    <3>1. Touches(B, M, T, x, t) BY <1>1, <2>2 DEF Comparable
    <3> QED BY <3>1 DEF Touches, LayoutAfter, IsParentOf
  <2> QED BY <2>1, <2>2
<1>4. ASSUME NEW x \in T, NEW y \in T, IsPrefix(x, y) PROVE x = y
  <2>0. x \in AllShards /\ y \in AllShards BY <1>1
  <2>1. PICK t \in D : Touches(B, M, T, y, t) BY <1>1
  <2>2. t \in AllShards BY <1>0
  <2>3. CASE y = t /\ t \notin B /\ t \notin M
    <3>1. Touches(B, M, T, x, t) BY <1>1, <1>4, <2>3 DEF Comparable
    <3> QED BY <2>3, <3>1 DEF Touches
  <2>4. CASE t \in B /\ t \notin M /\ IsParentOf(t, y)
    <3>1. PICK b \in Bits : y = Child(t, b) BY <2>0, <2>4, ParentGives
    <3>2. IsPrefix(t, y) /\ Len(y) = Len(t) + 1 BY <2>2, <3>1, Children
    <3>3. Comparable(x, t) BY <1>4, <2>0, <2>2, <3>2, PrefixOrder DEF Comparable
    <3>4. IsParentOf(t, x) BY <1>1, <2>4, <3>3 DEF Touches
    <3>5. PICK a \in Bits : x = Child(t, a) BY <2>0, <3>4, ParentGives
    <3>6. Len(x) = Len(t) + 1 BY <2>2, <3>5, Children
    <3> QED BY <1>4, <2>0, <3>2, <3>6, PrefixOrder
  <2>5. CASE t \in M /\ IsParentOf(y, t)
    <3>1. PICK b \in Bits : t = Child(y, b) BY <2>2, <2>5, ParentGives
    <3>2. IsPrefix(y, t) BY <2>0, <3>1, Children
    <3>3. IsPrefix(x, t) BY <1>4, <2>0, <2>2, <3>2, PrefixOrder
    <3>4. IsParentOf(x, t) BY <1>1, <2>5, <3>3 DEF Touches, Comparable
    <3> QED BY <2>5, <3>4 DEF IsParentOf
  <2> QED BY <2>1, <2>3, <2>4, <2>5 DEF Touches
<1>5. PrefixFree(E)
  <2> SUFFICES ASSUME NEW s \in E, NEW t \in E, IsPrefix(s, t) PROVE s = t BY DEF PrefixFree
  <2>1. CASE s \in T /\ t \in T BY <1>4, <2>1
  <2>2. CASE s \notin T /\ t \notin T BY <1>0, <2>2 DEF PrefixFree, LayoutAfter
  <2>3. CASE s \in T /\ t \notin T BY <2>3 DEF LayoutAfter, Comparable
  <2>4. CASE s \notin T /\ t \in T BY <2>4 DEF LayoutAfter, Comparable
  <2> QED BY <2>1, <2>2, <2>3, <2>4
<1>6. Covering(E)
  <2> SUFFICES ASSUME NEW s \in AllShards, NEW bit \in Bits PROVE \E u \in E : Edge(s, u, bit) BY DEF Covering
  <2>1. PICK t \in D : Edge(s, t, bit) BY <1>0 DEF Covering
  <2>2. t \in AllShards BY <1>0
  <2>3. CASE t \in E BY <2>1, <2>3
  <2>4. CASE \A b \in Bits : Child(t, b) \in T
    <3>1. \A b \in Bits : Child(t, b) \in E BY <2>4 DEF LayoutAfter
    <3>2. CASE IsPrefix(s, t) BY <2>1, <2>2, <3>1, <3>2, EdgeMoves
    <3>3. CASE ~IsPrefix(s, t)
      <4>1. IsPrefix(t, s) /\ t # s BY <2>1, <2>2, <3>3, PrefixOrder DEF Edge
      <4>2. PICK b \in Bits : IsPrefix(Child(t, b), s) BY <2>2, <4>1, NextToShard
      <4> QED BY <3>1, <4>2 DEF Edge
    <3> QED BY <3>2, <3>3
  <2>5. CASE t # <<>> /\ Merged(t) \in T
    <3>1. Merged(t) \in AllShards /\ Last(t) \in Bits /\ t = Child(Merged(t), Last(t)) BY <2>2, <2>5, ParentMeans
    <3>2. Edge(s, Merged(t), bit) BY <2>1, <3>1, EdgeMoves
    <3> QED BY <2>5, <3>2 DEF LayoutAfter
  <2> QED BY <1>3, <2>3, <2>4, <2>5
<1>7. ASSUME NEW t \in D \cap T PROVE t \notin B /\ t \notin M
  <2>1. Touches(B, M, T, t, t) BY <1>0, <1>1, PrefixOrder DEF Comparable
  <2>2. ~IsParentOf(t, t)
    <3>1. SUFFICES ASSUME IsParentOf(t, t) PROVE FALSE OBVIOUS
    <3>2. t \in AllShards BY <1>0
    <3>3. PICK b \in Bits : t = Child(t, b) BY <3>1, <3>2, ParentGives
    <3> QED BY <3>2, <3>3, Children
  <2> QED BY <2>1, <2>2 DEF Touches
<1> QED BY <1>2, <1>3, <1>5, <1>6, <1>7 DEF Full

-----------------------------------------------------------------------------
(* Shard descriptions and their update                                     *)

BlockIds == AllShards \X Nat \X Nat
Kinds == {"none", "split", "merge"}
WindowType == [kind : Kinds, from : Nat]
Descrs == [top : BlockIds, cc : Nat, bs : BOOLEAN, bm : BOOLEAN, want : Wants, fsm : WindowType]
Starts == {<<x>> : x \in BlockIds} \cup {<<x, y>> : x, y \in BlockIds}
FreshBlocks ==
  [shard : AllShards, cc : Nat, seq : Nat, start : Starts, utime : Nat, bs : BOOLEAN, want : Wants]

\* The windows of a split or merge.
LEMMA WindowTypes ==
  ASSUME NEW now \in Nat, NEW kind \in {"split", "merge"}
  PROVE  /\ NoWindow \in WindowType /\ NoWindow.kind = "none"
         /\ Window(kind, now) \in WindowType /\ Window(kind, now).kind = kind /\ Window(kind, now).from = now + Delay
         /\ \A w \in WindowType : WindowEnd(w) = w.from + Interval /\ WindowEnd(w) \in Nat /\ w.from \in Nat
BY WindowAssumption DEF NoWindow, Window, WindowType, Kinds, WindowEnd

\* What update_one_shard leaves alone, when it renews the session, and what it
\* takes for a merge to be forced or announced.
LEMMA UpdateFacts ==
  ASSUME NEW s \in AllShards, NEW info \in Descrs, NEW sib \in SUBSET Descrs, NEW now \in Nat, NEW rotate \in BOOLEAN,
         NEW r, r = UpdateOneShard(s, info, sib, now, rotate)
  PROVE  /\ r \in Descrs
         /\ r.top = info.top /\ r.bs = info.bs /\ r.want = info.want
         /\ r.cc = IF rotate \/ (info.bm /\ ~r.bm) THEN info.cc + 1 ELSE info.cc
         /\ r.bm => ~info.bs /\ info.fsm.kind = "merge" /\ \E d \in sib : d.fsm.kind = "merge" /\ ~d.bs
         /\ r.fsm.kind = "merge" => \/ r.fsm = info.fsm
                                    \/ r.fsm = Window("merge", now) /\ \A d \in sib : d.fsm.kind = "none"
<1> DEFINE depth == Len(s)
           over == info.fsm.kind # "none" /\ (now >= WindowEnd(info.fsm) \/ info.bs)
           alone == info.fsm.kind = "merge" /\ \A d \in sib : d.bs
           fsm == IF over \/ alone THEN NoWindow ELSE info.fsm
           split == ~info.bs /\ fsm.kind = "none" /\ (info.want = "split" \/ depth < MinSplit) /\ depth < MaxSplit
           wanted(d) == d.want = "merge" \/ depth > MaxSplit
           merge == ~info.bs /\ ~split /\ depth > MinSplit /\ wanted(info)
                      /\ \E d \in sib : ~d.bs /\ wanted(d)
           announce == merge /\ fsm.kind = "none" /\ \A d \in sib : d.fsm.kind = "none"
           force == merge /\ fsm.kind = "merge" /\ now >= fsm.from
                      /\ \A d \in sib : d.fsm.kind = "merge" /\ now >= d.fsm.from
           new == IF split THEN Window("split", now) ELSE IF announce THEN Window("merge", now) ELSE fsm
           cc == IF rotate \/ (info.bm /\ ~force) THEN info.cc + 1 ELSE info.cc
<1>1. r = [info EXCEPT !.fsm = new, !.bm = force, !.cc = cc] BY DEF UpdateOneShard
<1>2. fsm \in WindowType /\ info.fsm \in WindowType BY WindowTypes DEF Descrs
<1>3. new \in WindowType BY <1>2, WindowTypes
<1>4. force \in BOOLEAN /\ info.bm \in BOOLEAN /\ info.bs \in BOOLEAN BY DEF Descrs
<1>5. cc \in Nat BY DEF Descrs
<1>6. new.kind = "merge" => new = info.fsm \/ (new = Window("merge", now) /\ \A d \in sib : d.fsm.kind = "none")
  BY WindowTypes
<1>7. force => ~info.bs /\ info.fsm.kind = "merge" /\ \E d \in sib : d.fsm.kind = "merge" /\ ~d.bs
  BY WindowTypes
<1> HIDE DEF force, new, cc
<1>8. r \in Descrs /\ r.top = info.top /\ r.bs = info.bs /\ r.want = info.want /\ r.cc = cc /\ r.fsm = new
  BY <1>1, <1>3, <1>4, <1>5 DEF Descrs
<1>9. r.bm = force BY <1>1 DEF Descrs
<1>10. r.cc = IF rotate \/ (info.bm /\ ~r.bm) THEN info.cc + 1 ELSE info.cc BY <1>8, <1>9 DEF cc
<1> QED BY <1>6, <1>7, <1>8, <1>9, <1>10

\* Of two siblings with the same merge window one is forced with the other.
LEMMA ForcedTogether ==
  ASSUME NEW s \in AllShards, NEW o \in AllShards, Len(s) = Len(o), NEW i \in Descrs, NEW d \in Descrs,
         NEW now \in Nat, NEW rotate \in BOOLEAN,
         i.fsm.kind = "merge" /\ d.fsm.kind = "merge" => i.fsm = d.fsm,
         UpdateOneShard(s, i, {d}, now, rotate).bm
  PROVE  UpdateOneShard(o, d, {i}, now, rotate).bm
<1> DEFINE MustMerge(x, info, e) ==
             LET over == info.fsm.kind # "none" /\ (now >= WindowEnd(info.fsm) \/ info.bs)
                 alone == info.fsm.kind = "merge" /\ e.bs
                 fsm == IF over \/ alone THEN NoWindow ELSE info.fsm
                 split == ~info.bs /\ fsm.kind = "none" /\ (info.want = "split" \/ Len(x) < MinSplit) /\ Len(x) < MaxSplit
                 wanted(y) == y.want = "merge" \/ Len(x) > MaxSplit
             IN  /\ ~info.bs /\ ~split /\ Len(x) > MinSplit /\ wanted(info) /\ ~e.bs /\ wanted(e)
                 /\ fsm.kind = "merge" /\ now >= fsm.from
                 /\ e.fsm.kind = "merge" /\ now >= e.fsm.from
<1>1. ASSUME NEW x \in AllShards, NEW info \in Descrs, NEW e \in Descrs
      PROVE  UpdateOneShard(x, info, {e}, now, rotate).bm <=> MustMerge(x, info, e)
  BY DEF UpdateOneShard, Descrs
<1>2. MustMerge(s, i, d) BY <1>1
<1>3. MustMerge(o, d, i)
  <2>1. i.fsm.kind = "merge" /\ d.fsm = i.fsm /\ ~i.bs /\ ~d.bs BY <1>2, WindowTypes
  <2> QED BY <1>2, <2>1
<1> QED BY <1>1, <1>3

-----------------------------------------------------------------------------
(* The sessions of a masterchain state                                     *)

Splitting(c) == {s \in DOMAIN c.shards : c.shards[s].bs}
Merging(c) == {s \in DOMAIN c.shards : c.shards[s].bm}

Described(c) == c.shards \in [DOMAIN c.shards -> Descrs]
Named(c) == \A s \in DOMAIN c.shards : c.shards[s].top[1] = s
Paired(c) == \A s \in Merging(c) : s # <<>> /\ Other(s) \in Merging(c) /\ s \notin Splitting(c)
SameWindow(c) ==
  \A s \in DOMAIN c.shards :
    /\ s # <<>> /\ Other(s) \in DOMAIN c.shards
    /\ c.shards[s].fsm.kind = "merge" /\ c.shards[Other(s)].fsm.kind = "merge"
    => c.shards[s].fsm = c.shards[Other(s)].fsm

GoodLayout(c) == Full(DOMAIN c.shards) /\ Described(c) /\ Named(c) /\ Paired(c) /\ SameWindow(c)

\* A session runs for a shard that goes on, for a half of a shard that is
\* about to split, or for two that are about to merge.
RunsOn(c, s) == s \in DOMAIN c.shards /\ s \notin Splitting(c) /\ s \notin Merging(c)
RunsHalf(c, p, s) == p \in Splitting(c) /\ p \notin Merging(c) /\ IsParentOf(p, s) /\ s \in AllShards
RunsWhole(c, s) == s \in AllShards /\ \A bit \in Bits : Child(s, bit) \in Merging(c)

\* The maximum of two numbers is one of them and no less than either.
LEMMA MaxOfTwo ==
  ASSUME NEW a \in Nat, NEW b \in Nat
  PROVE  Max({a, b}) \in {a, b} /\ Max({a, b}) \in Nat /\ Max({a, b}) >= a /\ Max({a, b}) >= b
<1>1. \E x \in {a, b} : \A y \in {a, b} : x >= y OBVIOUS
<1>2. Max({a, b}) \in {a, b} /\ \A y \in {a, b} : Max({a, b}) >= y BY <1>1 DEF Max
<1> QED BY <1>2

\* The greatest seqno of the one or two blocks a chain starts from.
MaxSeqno(st) == Max({t[3] : t \in Range(st)})

\* The blocks a chain starts from, and their greatest seqno.
LEMMA MaxOfStarts ==
  ASSUME NEW x \in BlockIds, NEW y \in BlockIds
  PROVE  /\ <<x>> \in Starts /\ <<x, y>> \in Starts /\ <<x>> # <<>> /\ <<x, y>> # <<>> /\ x[3] \in Nat
         /\ Range(<<x>>) = {x} /\ Range(<<x, y>>) = {x, y}
         /\ MaxSeqno(<<x>>) = x[3]
         /\ MaxSeqno(<<x, y>>) \in Nat /\ MaxSeqno(<<x, y>>) >= x[3] /\ MaxSeqno(<<x, y>>) >= y[3]
<1>1. x[3] \in Nat /\ y[3] \in Nat BY DEF BlockIds
<1>2. Range(<<x>>) = {x} BY DEF Range
<1>3. Range(<<x, y>>) = {x, y} BY DEF Range
<1>4. {t[3] : t \in Range(<<x>>)} = {x[3], x[3]} BY <1>2
<1>5. {t[3] : t \in Range(<<x, y>>)} = {x[3], y[3]} BY <1>3
<1>6. MaxSeqno(<<x>>) = x[3] BY <1>1, <1>4, MaxOfTwo DEF MaxSeqno
<1>7. MaxSeqno(<<x, y>>) \in Nat /\ MaxSeqno(<<x, y>>) >= x[3] /\ MaxSeqno(<<x, y>>) >= y[3]
  BY <1>1, <1>5, MaxOfTwo DEF MaxSeqno
<1> QED BY <1>1, <1>2, <1>3, <1>6, <1>7 DEF Starts

\* A chain starts from at least one block, and from a seqno.
LEMMA StartsHaveSeqno ==
  ASSUME NEW st \in Starts
  PROVE  st # <<>> /\ MaxSeqno(st) \in Nat
<1>1. CASE \E x \in BlockIds : st = <<x>> BY <1>1, MaxOfStarts
<1>2. CASE \E x, y \in BlockIds : st = <<x, y>> BY <1>2, MaxOfStarts
<1> QED BY <1>1, <1>2 DEF Starts

\* The sessions of a shard that the state lists.
LEMMA SessionOfListed ==
  ASSUME NEW c, GoodLayout(c), NEW s \in DOMAIN c.shards
  PROVE  /\ s \in AllShards /\ AtEdge(c, s, 0) = s /\ AtEdge(c, s, 1) = s
         /\ CcSeqno(c, s) = c.shards[s].cc
         /\ RegisteredTops(c, s) = <<c.shards[s].top>> /\ SessionStart(c, s) = <<c.shards[s].top>>
<1>1. s \in AllShards /\ 0 \in Bits /\ 1 \in Bits BY DEF GoodLayout, Full, Bits
<1>2. IsPrefix(s, s) BY <1>1, PrefixOrder
<1>3. AtEdge(c, s, 0) = s /\ AtEdge(c, s, 1) = s BY <1>1, <1>2, FindShard DEF GoodLayout
<1>4. ~IsParentOf(s, s) BY <1>1, ParentGives, Children
<1> QED BY <1>1, <1>2, <1>3, <1>4 DEF CcSeqno, RegisteredTops, SessionStart

\* The session of a half of a shard that the state lists.
LEMMA SessionOfHalf ==
  ASSUME NEW c, GoodLayout(c), NEW p \in DOMAIN c.shards, NEW s \in AllShards, IsParentOf(p, s)
  PROVE  /\ s \notin DOMAIN c.shards /\ p \in AllShards /\ AtEdge(c, s, 0) = p /\ AtEdge(c, s, 1) = p
         /\ CcSeqno(c, s) = c.shards[p].cc
         /\ RegisteredTops(c, s) = <<c.shards[p].top>> /\ SessionStart(c, s) = <<c.shards[p].top>>
<1>1. p \in AllShards /\ 0 \in Bits /\ 1 \in Bits BY DEF GoodLayout, Full, Bits
<1>2. PICK b \in Bits : s = Child(p, b) BY ParentGives
<1>3. IsPrefix(p, s) /\ ~IsPrefix(s, p) /\ s # p BY <1>1, <1>2, Children
<1>4. AtEdge(c, s, 0) = p /\ AtEdge(c, s, 1) = p BY <1>1, <1>3, FindShard DEF GoodLayout
<1>5. ~IsParentOf(s, p)
  <2>1. SUFFICES ASSUME IsParentOf(s, p) PROVE FALSE OBVIOUS
  <2>2. PICK a \in Bits : p = Child(s, a) BY <1>1, <2>1, ParentGives
  <2>3. IsPrefix(s, p) BY <2>2, Children
  <2> QED BY <1>3, <2>3
<1>6. s \notin DOMAIN c.shards BY <1>3 DEF GoodLayout, Full, PrefixFree
<1> QED BY <1>1, <1>3, <1>4, <1>5, <1>6 DEF CcSeqno, RegisteredTops, SessionStart

\* The session of a shard of which the state lists the two halves.
LEMMA SessionOfWhole ==
  ASSUME NEW c, GoodLayout(c), NEW s \in AllShards, Child(s, 0) \in DOMAIN c.shards, Child(s, 1) \in DOMAIN c.shards
  PROVE  /\ s \notin DOMAIN c.shards /\ AtEdge(c, s, 0) = Child(s, 0) /\ AtEdge(c, s, 1) = Child(s, 1)
         /\ CcSeqno(c, s) = 1 + Max({c.shards[Child(s, 0)].cc, c.shards[Child(s, 1)].cc})
         /\ RegisteredTops(c, s) = <<c.shards[Child(s, 0)].top, c.shards[Child(s, 1)].top>>
         /\ SessionStart(c, s) = RegisteredTops(c, s)
<1>1. 0 \in Bits /\ 1 \in Bits BY DEF Bits
<1>2. AtEdge(c, s, 0) = Child(s, 0) /\ AtEdge(c, s, 1) = Child(s, 1) BY <1>1, FindShard DEF GoodLayout
<1>3. IsParentOf(s, Child(s, 0)) /\ IsPrefix(s, Child(s, 0)) /\ ~IsPrefix(Child(s, 0), s) /\ s # Child(s, 0)
      /\ Child(s, 0) \in AllShards
  BY <1>1, Children
<1>4. \A u \in DOMAIN c.shards : u \in AllShards /\ (IsPrefix(u, Child(s, 0)) => u = Child(s, 0))
  BY DEF GoodLayout, Full, PrefixFree
<1>5. s \notin DOMAIN c.shards BY <1>3, <1>4
<1>6. ASSUME NEW p \in DOMAIN c.shards, IsParentOf(p, s) PROVE FALSE
  <2>1. p \in AllShards BY <1>4
  <2>2. PICK b \in Bits : s = Child(p, b) BY <1>6, ParentGives
  <2>3. IsPrefix(p, s) BY <2>1, <2>2, Children
  <2>4. IsPrefix(p, Child(s, 0)) BY <1>3, <2>1, <2>3, PrefixOrder
  <2>5. p = Child(s, 0) BY <1>4, <2>4
  <2> QED BY <1>3, <2>3, <2>5
<1> QED BY <1>2, <1>3, <1>5, <1>6 DEF CcSeqno, RegisteredTops, SessionStart

\* A shard that is about to merge has its sibling with it, and their session is the
\* parent's; it is not about to split.
LEMMA MergingInPairs ==
  ASSUME NEW c, GoodLayout(c), NEW s \in Merging(c)
  PROVE  /\ s # <<>> /\ RunsWhole(c, Merged(s)) /\ IsParentOf(Merged(s), s) /\ s \notin Splitting(c)
         /\ \E bit \in Bits : s = Child(Merged(s), bit)
<1>1. s \in AllShards /\ s # <<>> /\ Other(s) \in Merging(c) /\ s \notin Splitting(c)
  BY DEF GoodLayout, Full, Paired, Merging
<1>2. Merged(s) \in AllShards /\ Last(s) \in Bits /\ s = Child(Merged(s), Last(s)) BY <1>1, ParentMeans
<1>3. Other(s) = Child(Merged(s), 1 - Last(s)) BY <1>2, Children
<1>4. \A bit \in Bits : bit = Last(s) \/ bit = 1 - Last(s) BY <1>2 DEF Bits
<1>5. \A bit \in Bits : Child(Merged(s), bit) \in Merging(c) BY <1>1, <1>2, <1>3, <1>4
<1> QED BY <1>1, <1>2, <1>5 DEF RunsWhole, IsParentOf

\* update_shards calls for these sessions and no others.
LEMMA SessionKinds ==
  ASSUME NEW c, GoodLayout(c), NEW s
  PROVE  s \in CalledFor(c) <=> RunsOn(c, s) \/ (\E p \in DOMAIN c.shards : RunsHalf(c, p, s)) \/ RunsWhole(c, s)
<1>0. DOMAIN c.shards \subseteq AllShards /\ 0 \in Bits /\ 1 \in Bits BY DEF GoodLayout, Full, Bits
<1>1. s \in CalledFor(c) <=>
        \E u \in DOMAIN c.shards :
          s \in (IF c.shards[u].bs THEN {Child(u, 0), Child(u, 1)} ELSE IF c.shards[u].bm THEN {Merged(u)} ELSE {u})
  BY DEF CalledFor
<1>2. ASSUME NEW u \in DOMAIN c.shards,
             s \in (IF c.shards[u].bs THEN {Child(u, 0), Child(u, 1)} ELSE IF c.shards[u].bm THEN {Merged(u)} ELSE {u})
      PROVE  RunsOn(c, s) \/ (\E p \in DOMAIN c.shards : RunsHalf(c, p, s)) \/ RunsWhole(c, s)
  <2>1. CASE c.shards[u].bs
    <3>1. u \in Splitting(c) /\ u \notin Merging(c) BY <2>1, MergingInPairs DEF Splitting
    <3>2. PICK b \in Bits : s = Child(u, b) BY <1>0, <1>2, <2>1
    <3>3. s \in AllShards /\ IsParentOf(u, s) BY <1>0, <3>2, Children
    <3> QED BY <3>1, <3>3 DEF RunsHalf
  <2>2. CASE ~c.shards[u].bs /\ c.shards[u].bm
    <3>1. u \in Merging(c) /\ s = Merged(u) BY <1>2, <2>2 DEF Merging
    <3> QED BY <3>1, MergingInPairs
  <2>3. CASE ~c.shards[u].bs /\ ~c.shards[u].bm BY <1>2, <2>3 DEF RunsOn, Splitting, Merging
  <2> QED BY <2>1, <2>2, <2>3
<1>3. ASSUME RunsOn(c, s) PROVE s \in CalledFor(c)
  BY <1>1, <1>3 DEF RunsOn, Splitting, Merging
<1>4. ASSUME NEW p \in DOMAIN c.shards, RunsHalf(c, p, s) PROVE s \in CalledFor(c)
  <2>1. PICK b \in Bits : s = Child(p, b) BY <1>4, ParentGives DEF RunsHalf
  <2>2. c.shards[p].bs BY <1>4 DEF RunsHalf, Splitting
  <2>3. s \in {Child(p, 0), Child(p, 1)} BY <2>1 DEF Bits
  <2> QED BY <1>1, <2>2, <2>3
<1>5. ASSUME RunsWhole(c, s) PROVE s \in CalledFor(c)
  <2>1. s \in AllShards /\ Child(s, 0) \in Merging(c) BY <1>0, <1>5 DEF RunsWhole
  <2>2. Child(s, 0) \notin Splitting(c) BY <2>1, MergingInPairs
  <2>3. Merged(Child(s, 0)) = s BY <1>0, <2>1, Children
  <2> QED BY <1>1, <2>1, <2>2, <2>3 DEF Merging, Splitting
<1> QED BY <1>1, <1>2, <1>3, <1>4, <1>5

\* The shards of the sessions are again a layout: they do not overlap.
LEMMA SessionsAreApart ==
  ASSUME NEW c, GoodLayout(c)
  PROVE  CalledFor(c) \subseteq AllShards /\ \A s, t \in CalledFor(c) : IsPrefix(s, t) => s = t
<1> DEFINE D == DOMAIN c.shards
           B == Splitting(c)
           M == Merging(c)
           T == CalledFor(c)
<1>0. Full(D) BY DEF GoodLayout
<1>1. ASSUME NEW x \in T PROVE GoesOn(D, B, M, x) \/ SplitsOff(D, B, M, T, x) \/ JoinsUp(D, M, x)
  <2>1. CASE RunsOn(c, x) BY <2>1 DEF RunsOn, GoesOn
  <2>2. ASSUME NEW p \in D, RunsHalf(c, p, x) PROVE SplitsOff(D, B, M, T, x)
    <3>1. PICK b \in Bits : x = Child(p, b) BY <2>2, ParentGives DEF RunsHalf
    <3>2. p \in AllShards BY <1>0 DEF Full
    <3>3. 1 - b \in Bits BY <3>2, Children
    <3>4. Child(p, 1 - b) \in AllShards /\ IsParentOf(p, Child(p, 1 - b)) BY <3>2, <3>3, Children
    <3>5. RunsHalf(c, p, Child(p, 1 - b)) BY <2>2, <3>4 DEF RunsHalf
    <3>6. Child(p, 1 - b) \in T BY <3>5, SessionKinds
    <3> QED BY <2>2, <3>1, <3>6 DEF SplitsOff, RunsHalf
  <2>3. CASE RunsWhole(c, x) BY <2>3 DEF RunsWhole, JoinsUp, Merging
  <2> QED BY <2>1, <2>2, <2>3, SessionKinds
<1>2. TakesPlace(D, B, M, T) BY <1>1 DEF TakesPlace
<1> HIDE DEF D, B, M, T
<1>3. Full(LayoutAfter(D, T)) BY <1>0, <1>2, LayoutStep
<1>4. T \subseteq LayoutAfter(D, T) BY DEF LayoutAfter
<1>5. T \subseteq AllShards /\ \A s, t \in T : IsPrefix(s, t) => s = t BY <1>3, <1>4 DEF Full, PrefixFree
<1> QED BY <1>5 DEF T

-----------------------------------------------------------------------------
(* Registering shard blocks                                                *)

\* How the catchain seqno of an unregistered block compares with those of the
\* state: sessions that come later have greater ones.
RankedBy(c, b, t) ==
  \/ b.shard = t /\ b.cc <= c.shards[t].cc
  \/ IsParentOf(t, b.shard) /\ t \in Splitting(c) /\ b.cc <= c.shards[t].cc
  \/ IsPrefix(t, b.shard) /\ t # b.shard /\ b.cc < c.shards[t].cc
  \/ IsPrefix(b.shard, t) /\ t # b.shard /\ b.cc <= c.shards[t].cc
  \/ IsParentOf(b.shard, t) /\ t \in Merging(c) /\ b.cc <= c.shards[t].cc + 1
Ranked(c, b) == \E t \in DOMAIN c.shards : RankedBy(c, b, t)

Newer(c, b) ==
  \A t \in DOMAIN c.shards : c.shards[t].top[1] = b.shard /\ c.shards[t].top[2] = b.cc => b.seq > c.shards[t].top[3]

Current(c, b) == b.shard \in CalledFor(c) /\ b.cc = CcSeqno(c, b.shard)

\* Where the chain of b starts, in terms of the greatest seqnos.
Continues(c, b, tops) ==
  /\ MaxSeqno(tops) < b.seq /\ MaxSeqno(b.start) <= MaxSeqno(tops)
  /\ IF MaxSeqno(tops) > MaxSeqno(b.start) THEN tops = <<<<b.shard, b.cc, MaxSeqno(tops)>>>> ELSE b.start = tops
  /\ b.cc = CcSeqno(c, b.shard)

\* What the state lists for a shard is one block or two.
LEMMA TopsAreStarts ==
  ASSUME NEW c, GoodLayout(c), NEW s \in AllShards
  PROVE  /\ RegisteredTops(c, s) \in Starts
         /\ \A t \in DOMAIN c.shards : c.shards[t] \in Descrs /\ c.shards[t].top \in BlockIds /\ c.shards[t].cc \in Nat
<1>1. \A t \in DOMAIN c.shards : c.shards[t] \in Descrs /\ c.shards[t].top \in BlockIds /\ c.shards[t].cc \in Nat
  BY DEF GoodLayout, Described, Descrs
<1>2. AtEdge(c, s, 0) \in DOMAIN c.shards /\ AtEdge(c, s, 1) \in DOMAIN c.shards
  BY FindShard DEF GoodLayout, Bits
<1> QED BY <1>1, <1>2 DEF RegisteredTops, Starts

\* validate_internal accepts a chain that goes on from the registered blocks.
LEMMA ChainStartMeans ==
  ASSUME NEW c, GoodLayout(c), NEW b \in FreshBlocks
  PROVE  /\ ChainStart(c, b) # <<>> <=> Continues(c, b, RegisteredTops(c, b.shard))
         /\ ChainStart(c, b) # <<>> => ChainStart(c, b) = RegisteredTops(c, b.shard)
<1>1. b.shard \in AllShards BY DEF FreshBlocks
<1>2. RegisteredTops(c, b.shard) # <<>> BY <1>1, TopsAreStarts, StartsHaveSeqno
<1> QED BY <1>2 DEF ChainStart, Continues, MaxSeqno, SignedByCurrent

\* A description that may be registered is one of a current session.
LEMMA RegisteredIsCurrent ==
  ASSUME NEW c, GoodLayout(c), NEW b \in FreshBlocks, Ranked(c, b), NEW now, MayRegisterTop(c, b, now)
  PROVE  /\ ChainStart(c, b) # <<>>
         /\ \/ RunsOn(c, b.shard) /\ (b.bs => c.shards[b.shard].fsm.kind = "split")
            \/ \E p \in DOMAIN c.shards : RunsHalf(c, p, b.shard) /\ ~b.bs
            \/ RunsWhole(c, b.shard) /\ ~b.bs
<1> DEFINE s == b.shard
           left == AtEdge(c, s, 0)
           right == AtEdge(c, s, 1)
           starts == RegisteredTops(c, s)
<1>0. s \in AllShards /\ 0 \in Bits /\ 1 \in Bits /\ DOMAIN c.shards \subseteq AllShards
  BY DEF FreshBlocks, Bits, GoodLayout, Full
<1>1. ChainStart(c, b) # <<>> /\ MayUpdate(c, b, ChainStart(c, b)) BY DEF MayRegisterTop
<1>2. MayUpdate(c, b, starts) BY <1>1, ChainStartMeans
<1>3. left \in DOMAIN c.shards /\ Edge(s, left, 0) /\ right \in DOMAIN c.shards BY <1>0, FindShard DEF GoodLayout
<1>4. /\ c.shards[left].top \in BlockIds /\ c.shards[right].top \in BlockIds
      /\ c.shards[left].top[1] = left /\ c.shards[right].top[1] = right
      /\ c.shards[left].cc \in Nat /\ c.shards[right].cc \in Nat
  BY <1>0, <1>3, TopsAreStarts DEF GoodLayout, Named
<1>5. CASE IsParentOf(s, left)
  <2>1. starts = <<c.shards[left].top, c.shards[right].top>> BY <1>5 DEF RegisteredTops
  <2>2. Len(starts) = 2 /\ c.shards[left].top \in Range(starts) BY <1>4, <2>1, MaxOfStarts
  <2>3. c.shards[left].bm /\ ~b.bs BY <1>2, <1>4, <2>2 DEF MayUpdate
  <2>4. left \in Merging(c) /\ Merged(left) = s BY <1>3, <1>5, <2>3 DEF Merging, IsParentOf
  <2>5. RunsWhole(c, s) BY <2>4, MergingInPairs
  <2> QED BY <1>1, <2>3, <2>5
<1>6. CASE ~IsParentOf(s, left)
  <2>1. starts = <<c.shards[left].top>> BY <1>6 DEF RegisteredTops
  <2> DEFINE x == c.shards[left].top
  <2>a. Len(<<x>>) = 1 /\ <<x>>[1] = x OBVIOUS
  <2>2. Len(starts) = 1 /\ Range(starts) = {x} /\ starts[1] = x BY <1>4, <2>1, <2>a, MaxOfStarts
  <2>b. x[1] = left /\ Len(starts) # 2 BY <1>4, <2>2
  <2>c. c.shards[left].bs \in BOOLEAN /\ c.shards[left].bm \in BOOLEAN /\ b.bs \in BOOLEAN
    BY <1>0, <1>3, TopsAreStarts DEF Descrs, FreshBlocks
  <2> HIDE DEF x, starts, left, right
  <2>3. /\ c.shards[left].bs <=> IsParentOf(left, s)
        /\ ~c.shards[left].bm
        /\ b.bs => ~IsParentOf(left, s) /\ c.shards[left].fsm.kind = "split"
    BY <1>2, <2>2, <2>b, <2>c DEF MayUpdate
  <2>4. b.cc = c.shards[left].cc
    <3>1. {c.shards[p[1]].cc : p \in Range(starts)} = {c.shards[left].cc, c.shards[left].cc} BY <2>2, <2>b
    <3>2. b.cc = Max({c.shards[p[1]].cc : p \in Range(starts)}) + (IF Len(starts) = 2 THEN 1 ELSE 0)
      BY <1>2, Zenon DEF MayUpdate
    <3>3. b.cc = Max({c.shards[left].cc, c.shards[left].cc}) + (IF Len(starts) = 2 THEN 1 ELSE 0) BY <3>1, <3>2, Zenon
    <3> QED BY <1>4, <2>b, <3>3, MaxOfTwo
  <2> USE DEF left, right
  <2>5. CASE left = s
    <3>1. ~IsParentOf(s, s) BY <1>6, <2>5
    <3> QED BY <1>1, <1>3, <2>3, <2>5, <3>1 DEF RunsOn, Splitting, Merging
  <2>6. CASE IsParentOf(left, s)
    <3>1. RunsHalf(c, left, s) BY <1>0, <1>3, <2>3, <2>6 DEF RunsHalf, Splitting, Merging
    <3> QED BY <1>1, <1>3, <2>3, <2>6, <3>1
  <2>7. CASE left # s /\ ~IsParentOf(left, s)
    <3>1. b.cc = CcSeqno(c, s) BY <1>1, ChainStartMeans DEF Continues
    <3>2. IsPrefix(left, s)
      <4>1. SUFFICES ASSUME ~IsPrefix(left, s) PROVE FALSE OBVIOUS
      <4>2. CcSeqno(c, s) = 1 + Max({c.shards[left].cc, c.shards[right].cc}) BY <4>1 DEF CcSeqno
      <4>3. CcSeqno(c, s) >= 1 + c.shards[left].cc /\ CcSeqno(c, s) \in Nat BY <1>4, <4>2, MaxOfTwo
      <4> QED BY <1>4, <2>4, <3>1, <4>3
    <3>3. PICK t \in DOMAIN c.shards : RankedBy(c, b, t) BY DEF Ranked
    <3>4. t \in AllShards /\ left \in AllShards BY <1>0, <1>3
    <3>5. Comparable(t, s)
      <4>1. ASSUME IsParentOf(t, s) PROVE IsPrefix(t, s) BY <1>0, <3>4, <4>1, ParentGives, Children
      <4>2. ASSUME IsParentOf(s, t) PROVE IsPrefix(s, t) BY <1>0, <3>4, <4>2, ParentGives, Children
      <4>3. IsPrefix(s, s) BY <1>0, PrefixOrder
      <4> QED BY <3>3, <4>1, <4>2, <4>3 DEF RankedBy, Comparable
    <3>6. IsPrefix(t, left) \/ IsPrefix(left, t) BY <1>0, <3>2, <3>4, <3>5, PrefixOrder DEF Comparable
    <3>7. t = left BY <1>3, <3>6 DEF GoodLayout, Full, PrefixFree
    <3>8. ~IsPrefix(s, left) BY <1>0, <2>7, <3>2, <3>4, PrefixOrder
    <3>9. b.cc < c.shards[left].cc BY <1>6, <2>7, <3>3, <3>7, <3>8 DEF RankedBy
    <3> QED BY <1>4, <2>4, <3>9
  <2> QED BY <2>5, <2>6, <2>7
<1> QED BY <1>5, <1>6

\* What the collator picks from its pool.
Picked(c, F, picks, now) ==
  /\ picks \subseteq F
  /\ \A b \in picks : MayRegisterTop(c, b, now)
  /\ \A b, d \in picks : b.shard = d.shard => b = d
ShardsOf(tops) == {b.shard : b \in tops}

\* The imported top blocks take the place of what they follow; the two halves
\* of a split shard come together.
LEMMA ImportTakesPlace ==
  ASSUME NEW c, GoodLayout(c), NEW F \in SUBSET FreshBlocks, \A b \in F : Ranked(c, b),
         NEW picks, NEW now, Picked(c, F, picks, now)
  PROVE  TakesPlace(DOMAIN c.shards, Splitting(c), Merging(c), ShardsOf(ImportedTops(c, picks)))
<1> DEFINE D == DOMAIN c.shards
           B == Splitting(c)
           M == Merging(c)
           tops == ImportedTops(c, picks)
           T == ShardsOf(tops)
<1>0. \A b \in picks : b \in FreshBlocks /\ b.shard \in AllShards /\ Ranked(c, b) /\ MayRegisterTop(c, b, now)
  BY DEF Picked, FreshBlocks
<1>1. tops \subseteq picks BY DEF ImportedTops
<1>2. ASSUME NEW b \in tops
      PROVE  GoesOn(D, B, M, b.shard) \/ SplitsOff(D, B, M, T, b.shard) \/ JoinsUp(D, M, b.shard)
  <2>0. b \in picks BY <1>1
  <2>1. CASE RunsOn(c, b.shard) BY <2>1 DEF RunsOn, GoesOn
  <2>2. ASSUME NEW p \in D, RunsHalf(c, p, b.shard) PROVE SplitsOff(D, B, M, T, b.shard)
    <3>1. PICK bit \in Bits : b.shard = Child(p, bit) BY <2>2, ParentGives DEF RunsHalf
    <3>2. p \in AllShards /\ IsPrefix(p, b.shard) /\ b.shard \in AllShards BY <2>2, <3>1, Children DEF GoodLayout, Full, RunsHalf
    <3>3. /\ Other(b.shard) = Child(p, 1 - bit) /\ 1 - bit \in Bits /\ Child(p, 1 - bit) # <<>>
      BY <3>1, <3>2, Children
    <3>4. Other(Child(p, 1 - bit)) = b.shard
      <4>1. Other(Child(p, 1 - bit)) = Child(p, 1 - (1 - bit)) BY <3>2, <3>3, Children
      <4>2. 1 - (1 - bit) = bit BY DEF Bits
      <4> QED BY <3>1, <4>1, <4>2
    <3>5. b.shard \notin D BY <2>2, SessionOfHalf DEF RunsHalf
    <3>6. ASSUME NEW t \in D, IsParentOf(b.shard, t) PROVE FALSE
      <4>1. t \in AllShards BY DEF GoodLayout, Full
      <4>2. IsPrefix(b.shard, t) BY <3>2, <3>6, <4>1, ParentGives, Children
      <4>3. IsPrefix(p, t) BY <3>2, <4>1, <4>2, PrefixOrder
      <4>4. p = t BY <4>3 DEF GoodLayout, Full, PrefixFree
      <4>5. IsPrefix(b.shard, p) BY <4>2, <4>4
      <4> QED BY <3>1, <3>2, <4>5, Children
    <3>7. PICK d \in picks : d.shard = Other(b.shard) BY <3>5, <3>6 DEF ImportedTops
    <3>8. d \in tops BY <2>0, <3>3, <3>4, <3>7 DEF ImportedTops
    <3>9. Child(p, 1 - bit) \in T BY <3>3, <3>7, <3>8 DEF ShardsOf
    <3> QED BY <2>2, <3>1, <3>9 DEF SplitsOff, RunsHalf
  <2>3. CASE RunsWhole(c, b.shard) BY <2>3 DEF RunsWhole, JoinsUp, Merging
  <2> QED BY <1>0, <2>0, <2>1, <2>2, <2>3, RegisteredIsCurrent
<1> HIDE DEF D, B, M, tops
<1>3. TakesPlace(D, B, M, T) BY <1>2 DEF TakesPlace, ShardsOf
<1> QED BY <1>3 DEF D, B, M, tops

-----------------------------------------------------------------------------
(* The configuration a collator makes                                      *)

\* A collator of the masterchain works after state c, with some descriptions
\* of the unregistered blocks F.
Collates(c, F, picks, tops, now) ==
  /\ GoodLayout(c) /\ F \subseteq FreshBlocks /\ \A b \in F : Ranked(c, b)
  /\ Picked(c, F, picks, now) /\ tops = ImportedTops(c, picks) /\ now \in Nat

\* A shard and its sibling.
LEMMA SiblingFacts ==
  ASSUME NEW s \in AllShards, s # <<>>
  PROVE  Other(s) \in AllShards /\ Other(s) # <<>> /\ Other(Other(s)) = s /\ Len(Other(s)) = Len(s) /\ Other(s) # s
         /\ Merged(Other(s)) = Merged(s)
<1>1. Merged(s) \in AllShards /\ Last(s) \in Bits /\ s = Child(Merged(s), Last(s)) BY ParentMeans
<1>2. Other(s) = Child(Merged(s), 1 - Last(s)) /\ 1 - Last(s) \in Bits /\ Len(s) = Len(Merged(s)) + 1 /\ Other(s) # s
  BY <1>1, Children
<1>3. /\ Other(s) \in AllShards /\ Other(s) # <<>> /\ Len(Other(s)) = Len(Merged(s)) + 1
      /\ Other(Other(s)) = Child(Merged(s), 1 - (1 - Last(s))) /\ Merged(Other(s)) = Merged(s)
  BY <1>1, <1>2, Children
<1>4. 1 - (1 - Last(s)) = Last(s) BY <1>1 DEF Bits
<1> QED BY <1>1, <1>2, <1>3, <1>4

\* A sibling is one description or none.
LEMMA SiblingsAre ==
  ASSUME NEW shards, NEW s
  PROVE  /\ s # <<>> /\ Other(s) \in DOMAIN shards => Siblings(shards, s) = {shards[Other(s)]}
         /\ ~(s # <<>> /\ Other(s) \in DOMAIN shards) => Siblings(shards, s) = {}
BY DEF Siblings

\* import_new_shard_top_blocks: which description a shard has now.
LEMMA ImportedIs ==
  ASSUME NEW c, NEW F, NEW picks, NEW tops, NEW now, Collates(c, F, picks, tops, now)
  PROVE  /\ DOMAIN Imported(c, tops) = LayoutAfter(DOMAIN c.shards, ShardsOf(tops))
         /\ \A x \in tops : /\ x \in FreshBlocks /\ x \in F /\ x.shard \in DOMAIN Imported(c, tops)
                            /\ Imported(c, tops)[x.shard] = TopDescr(c, x)
         /\ \A s \in DOMAIN Imported(c, tops) :
              /\ s \notin ShardsOf(tops) => s \in DOMAIN c.shards /\ Imported(c, tops)[s] = c.shards[s]
              /\ s \in AllShards /\ Imported(c, tops)[s] \in Descrs /\ Imported(c, tops)[s].top[1] = s
              /\ Imported(c, tops)[s].fsm.kind # "none" =>
                   s \in DOMAIN c.shards /\ Imported(c, tops)[s].fsm = c.shards[s].fsm
<1> DEFINE D == DOMAIN c.shards
           covered == {s \in D : \E b \in tops : IsPrefix(s, b.shard) \/ IsPrefix(b.shard, s)}
           E == (D \ covered) \cup {b.shard : b \in tops}
           sh == [s \in E |-> IF s \in {b.shard : b \in tops} THEN TopDescr(c, CHOOSE b \in tops : b.shard = s)
                              ELSE c.shards[s]]
<1>0. /\ GoodLayout(c) /\ tops \subseteq picks /\ picks \subseteq F /\ F \subseteq FreshBlocks
      /\ \A b, d \in picks : b.shard = d.shard => b = d
  BY DEF Collates, Picked, ImportedTops
<1>1. Imported(c, tops) = sh BY DEF Imported
<1>2. E = LayoutAfter(D, ShardsOf(tops)) BY DEF LayoutAfter, ShardsOf, Comparable
<1>3. ASSUME NEW x \in tops PROVE x \in FreshBlocks /\ x \in F /\ x.shard \in E /\ sh[x.shard] = TopDescr(c, x)
  <2>1. (CHOOSE b \in tops : b.shard = x.shard) = x BY <1>0
  <2> QED BY <1>0, <2>1
<1>4. ASSUME NEW s \in E, s \notin ShardsOf(tops) PROVE s \in D /\ sh[s] = c.shards[s]
  BY <1>4 DEF ShardsOf
<1>5. ASSUME NEW x \in tops
      PROVE  /\ x.shard \in AllShards /\ TopDescr(c, x) \in Descrs /\ TopDescr(c, x).top[1] = x.shard
             /\ TopDescr(c, x).fsm.kind # "none" => x.shard \in D /\ TopDescr(c, x).fsm = c.shards[x.shard].fsm
  <2>1. x \in FreshBlocks BY <1>0
  <2>2. Id(x) \in BlockIds /\ Id(x)[1] = x.shard BY <2>1 DEF Id, BlockIds, FreshBlocks
  <2> DEFINE w == IF x.shard \in DOMAIN c.shards THEN c.shards[x.shard].fsm ELSE NoWindow
  <2>3. w \in WindowType /\ (w.kind # "none" => x.shard \in D /\ w = c.shards[x.shard].fsm)
    <3>1. NoWindow \in WindowType /\ NoWindow.kind = "none" BY WindowTypes
    <3>2. \A s \in D : c.shards[s].fsm \in WindowType BY <1>0 DEF GoodLayout, Described, Descrs
    <3> QED BY <3>1, <3>2
  <2>4. TopDescr(c, x) = [top |-> Id(x), cc |-> x.cc, bs |-> x.bs, bm |-> FALSE, want |-> x.want, fsm |-> w]
    BY DEF TopDescr
  <2> HIDE DEF w
  <2> QED BY <2>1, <2>2, <2>3, <2>4 DEF Descrs, FreshBlocks
<1>6. ASSUME NEW s \in E
      PROVE  /\ s \in AllShards /\ sh[s] \in Descrs /\ sh[s].top[1] = s
             /\ sh[s].fsm.kind # "none" => s \in D /\ sh[s].fsm = c.shards[s].fsm
  <2>1. CASE s \in ShardsOf(tops)
    <3>1. PICK x \in tops : s = x.shard BY <2>1 DEF ShardsOf
    <3>2. sh[s] = TopDescr(c, x) BY <1>3, <3>1
    <3> HIDE DEF sh, E, D
    <3> QED BY <1>5, <3>1, <3>2
  <2>2. CASE s \notin ShardsOf(tops)
    <3>1. s \in D /\ sh[s] = c.shards[s] BY <1>4, <2>2
    <3>2. s \in AllShards /\ c.shards[s] \in Descrs /\ c.shards[s].top[1] = s
      BY <1>0, <3>1 DEF GoodLayout, Full, Described, Named
    <3> HIDE DEF sh, E, D
    <3> QED BY <3>1, <3>2
  <2> QED BY <2>1, <2>2
<1>7. DOMAIN sh = E OBVIOUS
<1> HIDE DEF sh, E
<1> QED BY <1>1, <1>2, <1>3, <1>4, <1>6, <1>7

\* update_shard_config: the new state, shard by shard.
LEMMA NewLayoutIs ==
  ASSUME NEW c, NEW F, NEW picks, NEW tops, NEW now, Collates(c, F, picks, tops, now),
         NEW rotate \in BOOLEAN, NEW new, new = NewLayout(c, tops, now, rotate)
  PROVE  /\ DOMAIN new.shards = LayoutAfter(DOMAIN c.shards, ShardsOf(tops))
         /\ \A x \in tops :
              /\ x \in F /\ x.shard \in DOMAIN new.shards
              /\ new.shards[x.shard].top = Id(x) /\ new.shards[x.shard].bs = x.bs
              /\ new.shards[x.shard].cc = IF rotate THEN x.cc + 1 ELSE x.cc
         /\ \A s \in DOMAIN new.shards : s \notin ShardsOf(tops) =>
              /\ s \in DOMAIN c.shards
              /\ new.shards[s].top = c.shards[s].top /\ new.shards[s].bs = c.shards[s].bs
              /\ new.shards[s].cc = IF rotate \/ (c.shards[s].bm /\ ~new.shards[s].bm)
                                    THEN c.shards[s].cc + 1 ELSE c.shards[s].cc
         /\ Merging(new) \subseteq DOMAIN c.shards
         /\ GoodLayout(new)
<1> DEFINE sh == Imported(c, tops)
           up(s) == UpdateOneShard(s, sh[s], Siblings(sh, s), now, rotate)
<1>0. GoodLayout(c) /\ now \in Nat BY DEF Collates
<1>1. new = [utime |-> now, shards |-> [s \in DOMAIN sh |-> up(s)]] BY DEF NewLayout
<1>2. new.shards = [s \in DOMAIN sh |-> up(s)] /\ DOMAIN new.shards = DOMAIN sh BY <1>1
<1>3. /\ DOMAIN sh = LayoutAfter(DOMAIN c.shards, ShardsOf(tops))
      /\ \A x \in tops : x \in FreshBlocks /\ x \in F /\ x.shard \in DOMAIN sh /\ sh[x.shard] = TopDescr(c, x)
      /\ \A s \in DOMAIN sh :
           /\ s \notin ShardsOf(tops) => s \in DOMAIN c.shards /\ sh[s] = c.shards[s]
           /\ s \in AllShards /\ sh[s] \in Descrs /\ sh[s].top[1] = s
           /\ sh[s].fsm.kind # "none" => s \in DOMAIN c.shards /\ sh[s].fsm = c.shards[s].fsm
  BY ImportedIs
<1> HIDE DEF sh
<1>4. \A s \in DOMAIN sh : Siblings(sh, s) \in SUBSET Descrs BY <1>3 DEF Siblings
<1>5. ASSUME NEW s \in DOMAIN sh
      PROVE  /\ new.shards[s] = up(s) /\ new.shards[s] \in Descrs
             /\ new.shards[s].top = sh[s].top /\ new.shards[s].bs = sh[s].bs
             /\ new.shards[s].cc = IF rotate \/ (sh[s].bm /\ ~new.shards[s].bm) THEN sh[s].cc + 1 ELSE sh[s].cc
             /\ new.shards[s].bm => /\ ~sh[s].bs /\ sh[s].fsm.kind = "merge"
                                    /\ \E d \in Siblings(sh, s) : d.fsm.kind = "merge" /\ ~d.bs
             /\ new.shards[s].fsm.kind = "merge" =>
                  \/ new.shards[s].fsm = sh[s].fsm
                  \/ new.shards[s].fsm = Window("merge", now) /\ \A d \in Siblings(sh, s) : d.fsm.kind = "none"
  <2>1. new.shards[s] = up(s) BY <1>2
  <2>2. s \in AllShards /\ sh[s] \in Descrs /\ Siblings(sh, s) \in SUBSET Descrs BY <1>3, <1>4
  <2> HIDE DEF up
  <2>3. up(s) = UpdateOneShard(s, sh[s], Siblings(sh, s), now, rotate) BY DEF up
  <2> QED BY <1>0, <2>1, <2>2, <2>3, UpdateFacts
<1> HIDE DEF up
<1>6. ASSUME NEW x \in tops
      PROVE  /\ x \in F /\ x.shard \in DOMAIN new.shards
             /\ new.shards[x.shard].top = Id(x) /\ new.shards[x.shard].bs = x.bs
             /\ new.shards[x.shard].cc = IF rotate THEN x.cc + 1 ELSE x.cc
  <2>1. TopDescr(c, x).top = Id(x) /\ TopDescr(c, x).bs = x.bs /\ TopDescr(c, x).cc = x.cc /\ ~TopDescr(c, x).bm
    BY DEF TopDescr
  <2> QED BY <1>2, <1>3, <1>5, <2>1
<1>7. ASSUME NEW s \in DOMAIN new.shards, s \notin ShardsOf(tops)
      PROVE  /\ s \in DOMAIN c.shards
             /\ new.shards[s].top = c.shards[s].top /\ new.shards[s].bs = c.shards[s].bs
             /\ new.shards[s].cc = IF rotate \/ (c.shards[s].bm /\ ~new.shards[s].bm)
                                   THEN c.shards[s].cc + 1 ELSE c.shards[s].cc
  BY <1>2, <1>3, <1>5, <1>7
<1>8. Full(DOMAIN new.shards)
  <2>1. TakesPlace(DOMAIN c.shards, Splitting(c), Merging(c), ShardsOf(tops)) BY ImportTakesPlace DEF Collates
  <2>2. Full(DOMAIN c.shards) BY <1>0 DEF GoodLayout
  <2> QED BY <1>2, <1>3, <2>1, <2>2, LayoutStep
<1>9. Described(new) BY <1>2, <1>5 DEF Described
<1>10. Named(new) BY <1>2, <1>3, <1>5 DEF Named
<1>11. ASSUME NEW s \in DOMAIN sh, s # <<>>, Other(s) \in DOMAIN sh,
              sh[s].fsm.kind = "merge", sh[Other(s)].fsm.kind = "merge"
       PROVE  sh[s].fsm = sh[Other(s)].fsm
  <2>1. s \in DOMAIN c.shards /\ sh[s].fsm = c.shards[s].fsm BY <1>3, <1>11
  <2>2. Other(s) \in DOMAIN c.shards /\ sh[Other(s)].fsm = c.shards[Other(s)].fsm BY <1>3, <1>11
  <2> QED BY <1>0, <1>11, <2>1, <2>2 DEF GoodLayout, SameWindow
<1>12. ASSUME NEW s \in Merging(new)
       PROVE  s \in DOMAIN c.shards /\ s # <<>> /\ Other(s) \in Merging(new) /\ s \notin Splitting(new)
  <2>1. s \in DOMAIN sh /\ new.shards[s].bm BY <1>2 DEF Merging
  <2>2. ~sh[s].bs /\ sh[s].fsm.kind = "merge" /\ Siblings(sh, s) # {} BY <1>5, <2>1
  <2> DEFINE o == Other(s)
  <2>3. s # <<>> /\ o \in DOMAIN sh /\ Siblings(sh, s) = {sh[o]} BY <2>2, SiblingsAre
  <2>4. s \in AllShards /\ o \in AllShards /\ o # <<>> /\ Other(o) = s /\ Len(o) = Len(s)
    BY <1>3, <2>1, <2>3, SiblingFacts
  <2>5. Siblings(sh, o) = {sh[s]} BY <2>1, <2>4, SiblingsAre
  <2>6. sh[s] \in Descrs /\ sh[o] \in Descrs BY <1>3, <2>1, <2>3
  <2>7. sh[s].fsm.kind = "merge" /\ sh[o].fsm.kind = "merge" => sh[s].fsm = sh[o].fsm BY <1>11, <2>1, <2>3
  <2>8. new.shards[s] = UpdateOneShard(s, sh[s], {sh[o]}, now, rotate) BY <1>5, <2>1, <2>3 DEF up
  <2>9. new.shards[o] = UpdateOneShard(o, sh[o], {sh[s]}, now, rotate) BY <1>5, <2>3, <2>5 DEF up
  <2> HIDE DEF o
  <2>10. new.shards[o].bm BY <1>0, <2>1, <2>4, <2>6, <2>7, <2>8, <2>9, ForcedTogether
  <2>11. o \in Merging(new) BY <1>2, <2>3, <2>10 DEF Merging
  <2>12. s \notin Splitting(new) BY <1>5, <2>1, <2>2 DEF Splitting
  <2> QED BY <1>3, <2>1, <2>2, <2>3, <2>11, <2>12 DEF o
<1>13. Paired(new) BY <1>12 DEF Paired
<1>14. SameWindow(new)
  <2> SUFFICES ASSUME NEW s \in DOMAIN new.shards, s # <<>>, Other(s) \in DOMAIN new.shards,
                      new.shards[s].fsm.kind = "merge", new.shards[Other(s)].fsm.kind = "merge"
               PROVE  new.shards[s].fsm = new.shards[Other(s)].fsm
    BY DEF SameWindow
  <2> DEFINE o == Other(s)
  <2>1. s \in DOMAIN sh /\ o \in DOMAIN sh /\ Siblings(sh, s) = {sh[o]} BY <1>2, SiblingsAre
  <2>2. s \in AllShards /\ o \in AllShards /\ o # <<>> /\ Other(o) = s BY <1>3, <2>1, SiblingFacts
  <2>3. Siblings(sh, o) = {sh[s]} BY <2>1, <2>2, SiblingsAre
  <2>4. new.shards[s].fsm = sh[s].fsm \/ (new.shards[s].fsm = Window("merge", now) /\ sh[o].fsm.kind = "none")
    BY <1>5, <2>1
  <2>5. new.shards[o].fsm = sh[o].fsm \/ (new.shards[o].fsm = Window("merge", now) /\ sh[s].fsm.kind = "none")
    BY <1>5, <2>1, <2>3
  <2>6. sh[s].fsm.kind = "merge" /\ sh[o].fsm.kind = "merge" => sh[s].fsm = sh[o].fsm BY <1>11, <2>1
  <2> QED BY <2>4, <2>5, <2>6
<1>15. GoodLayout(new) BY <1>8, <1>9, <1>10, <1>13, <1>14 DEF GoodLayout
<1> QED BY <1>2, <1>3, <1>6, <1>7, <1>12, <1>15

-----------------------------------------------------------------------------
(* From one masterchain state to the next                                  *)

\* A description that is imported is signed by the session that is current.
LEMMA ImportedIsCurrent ==
  ASSUME NEW c, NEW F, NEW picks, NEW tops, NEW now, Collates(c, F, picks, tops, now), NEW x \in tops
  PROVE  /\ x \in FreshBlocks /\ x.shard \in CalledFor(c) /\ x.cc = CcSeqno(c, x.shard) /\ x.cc \in Nat
         /\ Continues(c, x, RegisteredTops(c, x.shard))
         /\ x.bs => RunsOn(c, x.shard) /\ c.shards[x.shard].fsm.kind = "split"
<1>1. GoodLayout(c) /\ x \in FreshBlocks /\ Ranked(c, x) /\ MayRegisterTop(c, x, now)
  BY DEF Collates, Picked, ImportedTops
<1>2. /\ ChainStart(c, x) # <<>>
      /\ \/ RunsOn(c, x.shard) /\ (x.bs => c.shards[x.shard].fsm.kind = "split")
         \/ \E p \in DOMAIN c.shards : RunsHalf(c, p, x.shard) /\ ~x.bs
         \/ RunsWhole(c, x.shard) /\ ~x.bs
  BY <1>1, RegisteredIsCurrent
<1>3. x.shard \in CalledFor(c) BY <1>1, <1>2, SessionKinds
<1>4. Continues(c, x, RegisteredTops(c, x.shard)) BY <1>1, <1>2, ChainStartMeans
<1>5. x.cc = CcSeqno(c, x.shard) BY <1>4 DEF Continues
<1> QED BY <1>1, <1>2, <1>3, <1>4, <1>5 DEF FreshBlocks

\* What becomes of a shard, and of its catchain seqno: it goes on, its two
\* halves or the shard above it take its place.
StaysOn(c, new, t) ==
  /\ t \in DOMAIN new.shards /\ new.shards[t].cc >= c.shards[t].cc
  /\ t \in Splitting(c) => t \in Splitting(new)
  /\ t \in Merging(c) => t \in Merging(new) \/ new.shards[t].cc > c.shards[t].cc
IsSplit(c, new, t) ==
  \A bit \in Bits : Child(t, bit) \in DOMAIN new.shards /\ new.shards[Child(t, bit)].cc >= c.shards[t].cc
IsMerged(c, new, t) ==
  /\ t \in Merging(c) /\ t # <<>> /\ Merged(t) \in DOMAIN new.shards
  /\ new.shards[Merged(t)].cc > c.shards[t].cc

\* What becomes of a shard when the collator has imported blocks: it stays, its
\* two halves take its place, or its parent does.
LEMMA Fates ==
  ASSUME NEW c, NEW F, NEW picks, NEW tops, NEW now, Collates(c, F, picks, tops, now),
         NEW rotate \in BOOLEAN, NEW new, new = NewLayout(c, tops, now, rotate), NEW t \in DOMAIN c.shards
  PROVE  \/ StaysOn(c, new, t)
         \/ t \in Splitting(c) /\ t \notin Merging(c) /\ IsSplit(c, new, t)
         \/ IsMerged(c, new, t)
<1> DEFINE D == DOMAIN c.shards
           T == ShardsOf(tops)
<1>0. GoodLayout(c) /\ Full(D) BY DEF Collates, GoodLayout
<1>1. TakesPlace(D, Splitting(c), Merging(c), T) BY ImportTakesPlace DEF Collates
<1>2. /\ \/ t \in LayoutAfter(D, T)
         \/ t \in Splitting(c) /\ t \notin Merging(c) /\ \A bit \in Bits : Child(t, bit) \in T
         \/ t \in Merging(c) /\ t # <<>> /\ Merged(t) \in T
      /\ t \in T => t \notin Splitting(c) /\ t \notin Merging(c)
  BY <1>0, <1>1, LayoutStep
<1>3. t \in AllShards /\ c.shards[t].cc \in Nat BY <1>0, TopsAreStarts DEF Full
<1>4. ASSUME NEW s \in T
      PROVE  /\ s \in DOMAIN new.shards /\ CcSeqno(c, s) \in Nat
             /\ new.shards[s].cc \in Nat /\ new.shards[s].cc >= CcSeqno(c, s)
  <2>1. PICK x \in tops : x.shard = s BY DEF ShardsOf
  <2>2. x.cc = CcSeqno(c, s) /\ x.cc \in Nat BY <2>1, ImportedIsCurrent
  <2>3. s \in DOMAIN new.shards /\ new.shards[s].cc = IF rotate THEN x.cc + 1 ELSE x.cc BY <2>1, NewLayoutIs
  <2> QED BY <2>2, <2>3
<1>5. CASE t \in LayoutAfter(D, T) /\ t \in T
  <2>1. CcSeqno(c, t) = c.shards[t].cc BY <1>0, SessionOfListed
  <2>2. t \in DOMAIN new.shards /\ new.shards[t].cc >= c.shards[t].cc BY <1>4, <1>5, <2>1
  <2> QED BY <1>2, <1>5, <2>2 DEF StaysOn
<1>6. CASE t \in LayoutAfter(D, T) /\ t \notin T
  <2>1. /\ t \in DOMAIN new.shards /\ new.shards[t].bs = c.shards[t].bs
        /\ new.shards[t].cc = IF rotate \/ (c.shards[t].bm /\ ~new.shards[t].bm)
                              THEN c.shards[t].cc + 1 ELSE c.shards[t].cc
    BY <1>6, NewLayoutIs
  <2>2. new.shards[t].cc >= c.shards[t].cc BY <1>3, <2>1
  <2>3. t \in Merging(c) => t \in Merging(new) \/ new.shards[t].cc > c.shards[t].cc
    BY <1>3, <2>1 DEF Merging
  <2>4. t \in Splitting(c) => t \in Splitting(new) BY <2>1 DEF Splitting
  <2> QED BY <2>1, <2>2, <2>3, <2>4 DEF StaysOn
<1>7. CASE t \in Splitting(c) /\ t \notin Merging(c) /\ \A bit \in Bits : Child(t, bit) \in T
  <2>1. ASSUME NEW bit \in Bits
        PROVE  Child(t, bit) \in DOMAIN new.shards /\ new.shards[Child(t, bit)].cc >= c.shards[t].cc
    <3>1. Child(t, bit) \in AllShards /\ IsParentOf(t, Child(t, bit)) BY <1>3, Children
    <3>2. CcSeqno(c, Child(t, bit)) = c.shards[t].cc BY <1>0, <3>1, SessionOfHalf
    <3> QED BY <1>4, <1>7, <3>2
  <2> QED BY <1>7, <2>1 DEF IsSplit
<1>8. CASE t \in Merging(c) /\ t # <<>> /\ Merged(t) \in T
  <2>1. /\ RunsWhole(c, Merged(t)) /\ \E bit \in Bits : t = Child(Merged(t), bit) BY <1>0, <1>8, MergingInPairs
  <2> DEFINE p == Merged(t)
  <2>2. p \in AllShards /\ Child(p, 0) \in D /\ Child(p, 1) \in D /\ t \in {Child(p, 0), Child(p, 1)}
    BY <2>1 DEF RunsWhole, Merging, Bits
  <2>3. CcSeqno(c, p) = 1 + Max({c.shards[Child(p, 0)].cc, c.shards[Child(p, 1)].cc}) BY <1>0, <2>2, SessionOfWhole
  <2>4. c.shards[Child(p, 0)].cc \in Nat /\ c.shards[Child(p, 1)].cc \in Nat BY <1>0, <1>3, <2>2, TopsAreStarts
  <2> HIDE DEF p
  <2>5. CcSeqno(c, p) > c.shards[t].cc BY <2>2, <2>3, <2>4, MaxOfTwo
  <2>6. p \in DOMAIN new.shards /\ new.shards[p].cc > c.shards[t].cc BY <1>3, <1>4, <1>8, <2>5 DEF p
  <2> QED BY <1>8, <2>6 DEF IsMerged, p
<1> QED BY <1>2, <1>5, <1>6, <1>7, <1>8

\* The catchain seqno of an unregistered block stays behind those of the
\* shards that it has to do with.
LEMMA RankedStays ==
  ASSUME NEW c, NEW F, NEW picks, NEW tops, NEW now, Collates(c, F, picks, tops, now),
         NEW rotate \in BOOLEAN, NEW new, new = NewLayout(c, tops, now, rotate), NEW b \in F
  PROVE  Ranked(new, b)
<1> DEFINE s == b.shard
<1>0. GoodLayout(c) /\ b \in FreshBlocks /\ Ranked(c, b) BY DEF Collates
<1>1. GoodLayout(new) BY NewLayoutIs
<1>2. PICK t \in DOMAIN c.shards : RankedBy(c, b, t) BY <1>0 DEF Ranked
<1>3. s \in AllShards /\ t \in AllShards /\ b.cc \in Nat /\ c.shards[t].cc \in Nat
  BY <1>0, TopsAreStarts DEF FreshBlocks, GoodLayout, Full
<1>4. \A u \in DOMAIN new.shards : u \in AllShards /\ new.shards[u].cc \in Nat
  BY <1>1, <1>3, TopsAreStarts DEF GoodLayout, Full
<1> HIDE DEF s
<1>5. \/ s = t /\ b.cc <= c.shards[t].cc
      \/ IsParentOf(t, s) /\ t \in Splitting(c) /\ b.cc <= c.shards[t].cc
      \/ IsPrefix(t, s) /\ t # s /\ b.cc < c.shards[t].cc
      \/ IsPrefix(s, t) /\ t # s /\ b.cc <= c.shards[t].cc
      \/ IsParentOf(s, t) /\ t \in Merging(c) /\ b.cc <= c.shards[t].cc + 1
  BY <1>2 DEF RankedBy, s
<1>6. ASSUME NEW u \in DOMAIN new.shards,
             \/ s = u /\ b.cc <= new.shards[u].cc
             \/ IsParentOf(u, s) /\ u \in Splitting(new) /\ b.cc <= new.shards[u].cc
             \/ IsPrefix(u, s) /\ u # s /\ b.cc < new.shards[u].cc
             \/ IsPrefix(s, u) /\ u # s /\ b.cc <= new.shards[u].cc
             \/ IsParentOf(s, u) /\ u \in Merging(new) /\ b.cc <= new.shards[u].cc + 1
      PROVE  Ranked(new, b)
  BY <1>6 DEF Ranked, RankedBy, s
<1>7. CASE StaysOn(c, new, t)
  <2>1. /\ t \in DOMAIN new.shards /\ new.shards[t].cc >= c.shards[t].cc /\ new.shards[t].cc \in Nat
        /\ t \in Splitting(c) => t \in Splitting(new)
        /\ t \in Merging(c) => t \in Merging(new) \/ new.shards[t].cc > c.shards[t].cc
    BY <1>4, <1>7 DEF StaysOn
  <2>2. IsParentOf(s, t) => IsPrefix(s, t) /\ t # s BY <1>3, ParentGives, Children
  <2> QED BY <1>3, <1>5, <1>6, <2>1, <2>2
<1>8. CASE t \in Splitting(c) /\ t \notin Merging(c) /\ IsSplit(c, new, t)
  <2>1. \A bit \in Bits : /\ Child(t, bit) \in DOMAIN new.shards /\ new.shards[Child(t, bit)].cc >= c.shards[t].cc
                          /\ new.shards[Child(t, bit)].cc \in Nat
                          /\ Child(t, bit) \in AllShards /\ IsPrefix(t, Child(t, bit)) /\ Child(t, bit) # t
                          /\ ~IsPrefix(Child(t, bit), t)
    BY <1>3, <1>4, <1>8, Children DEF IsSplit
  <2>2. CASE IsPrefix(s, t) /\ b.cc <= c.shards[t].cc
    <3>1. PICK bit \in Bits : TRUE BY DEF Bits
    <3>2. IsPrefix(s, Child(t, bit)) /\ Child(t, bit) # s BY <1>3, <2>1, <2>2, PrefixOrder
    <3> QED BY <1>3, <1>6, <2>1, <2>2, <3>2
  <2>3. CASE IsParentOf(t, s) /\ b.cc <= c.shards[t].cc
    <3>1. PICK bit \in Bits : s = Child(t, bit) BY <1>3, <2>3, ParentGives
    <3> QED BY <1>3, <1>6, <2>1, <2>3, <3>1
  <2>4. CASE IsPrefix(t, s) /\ t # s /\ b.cc < c.shards[t].cc
    <3>1. PICK bit \in Bits : IsPrefix(Child(t, bit), s) BY <1>3, <2>4, NextToShard
    <3> QED BY <1>3, <1>6, <2>1, <2>4, <3>1
  <2>5. IsPrefix(s, s) BY <1>3, PrefixOrder
  <2> QED BY <1>5, <1>8, <2>2, <2>3, <2>4, <2>5
<1>9. CASE IsMerged(c, new, t)
  <2> DEFINE p == Merged(t)
  <2>1. /\ t \in Merging(c) /\ t # <<>> /\ p \in DOMAIN new.shards /\ new.shards[p].cc > c.shards[t].cc
        /\ new.shards[p].cc \in Nat /\ p \in AllShards
    BY <1>4, <1>9 DEF IsMerged
  <2>2. t \notin Splitting(c) BY <1>0, <2>1, MergingInPairs
  <2>3. PICK bit \in Bits : t = Child(p, bit) BY <1>3, <2>1, ParentMeans
  <2>4. IsPrefix(p, t) /\ p # t /\ ~IsPrefix(t, p) BY <2>1, <2>3, Children
  <2>5. IsParentOf(s, t) => s = p BY DEF IsParentOf
  <2> HIDE DEF p
  <2>6. CASE s = t \/ (IsPrefix(t, s) /\ t # s)
    <3>1. IsPrefix(p, s) /\ p # s BY <1>3, <2>1, <2>4, <2>6, PrefixOrder
    <3>2. b.cc < new.shards[p].cc
      <4>1. ~IsPrefix(s, t) \/ s = t BY <1>3, <2>6, PrefixOrder
      <4>2. s # p /\ ~IsParentOf(s, t) BY <2>5, <3>1
      <4> QED BY <1>3, <1>5, <2>1, <2>2, <4>1, <4>2
    <3> QED BY <1>6, <2>1, <3>1, <3>2
  <2>7. CASE IsPrefix(s, t) /\ s # t
    <3>1. s = t \/ IsPrefix(s, p) BY <1>3, <2>1, <2>3, <2>7, NextToShard
    <3>2. ~IsPrefix(t, s) BY <1>3, <2>7, PrefixOrder
    <3>3. b.cc <= c.shards[t].cc + 1 BY <1>3, <1>5, <2>2, <2>7, <3>2
    <3>4. b.cc <= new.shards[p].cc BY <1>3, <2>1, <3>3
    <3> QED BY <1>6, <2>1, <2>7, <3>1, <3>4
  <2>8. IsParentOf(s, t) => IsPrefix(s, t) /\ s # t BY <2>4, <2>5
  <2> QED BY <1>5, <2>2, <2>6, <2>7, <2>8
<1> QED BY <1>7, <1>8, <1>9, Fates

-----------------------------------------------------------------------------
(* Sessions that go on                                                     *)

\* A shard that the layout has bears on an unregistered block of itself, or of
\* a part of it.
LEMMA RankedAbove ==
  ASSUME NEW c, GoodLayout(c), NEW b \in FreshBlocks, Ranked(c, b),
         NEW p \in DOMAIN c.shards, IsPrefix(p, b.shard)
  PROVE  /\ b.cc \in Nat /\ c.shards[p].cc \in Nat /\ b.cc <= c.shards[p].cc
         /\ p # b.shard /\ p \notin Splitting(c) => b.cc < c.shards[p].cc
<1> DEFINE s == b.shard
<1>0. s \in AllShards /\ b.cc \in Nat /\ p \in AllShards BY DEF FreshBlocks, GoodLayout, Full
<1>1. PICK t \in DOMAIN c.shards : RankedBy(c, b, t) BY DEF Ranked
<1>2. t \in AllShards /\ c.shards[t].cc \in Nat BY <1>0, TopsAreStarts DEF GoodLayout, Full
<1>3. IsParentOf(t, s) => IsPrefix(t, s) BY <1>0, <1>2, ParentGives, Children
<1>4. IsParentOf(s, t) => IsPrefix(s, t) /\ t # s BY <1>0, <1>2, ParentGives, Children
<1>5. IsPrefix(s, s) BY <1>0, PrefixOrder
<1>6. IsPrefix(t, s) \/ IsPrefix(s, t) BY <1>1, <1>3, <1>4, <1>5 DEF RankedBy
<1>7. IsPrefix(t, p) \/ IsPrefix(p, t) BY <1>0, <1>2, <1>6, PrefixOrder
<1>8. t = p BY <1>7 DEF GoodLayout, Full, PrefixFree
<1>9. IsPrefix(s, t) => t = s BY <1>0, <1>2, <1>8, PrefixOrder
<1> QED BY <1>0, <1>1, <1>2, <1>4, <1>8, <1>9 DEF RankedBy

\* And two halves that the layout has bear on one of the shard above them.
LEMMA RankedBelow ==
  ASSUME NEW c, GoodLayout(c), NEW b \in FreshBlocks, Ranked(c, b),
         Child(b.shard, 0) \in DOMAIN c.shards, Child(b.shard, 1) \in DOMAIN c.shards
  PROVE  \E bit \in Bits : /\ b.cc \in Nat /\ c.shards[Child(b.shard, bit)].cc \in Nat
                           /\ b.cc <= c.shards[Child(b.shard, bit)].cc + 1
                           /\ Child(b.shard, bit) \notin Merging(c) => b.cc <= c.shards[Child(b.shard, bit)].cc
<1> DEFINE s == b.shard
<1>0. s \in AllShards /\ b.cc \in Nat /\ 0 \in Bits /\ 1 \in Bits BY DEF FreshBlocks, Bits
<1>1. PICK t \in DOMAIN c.shards : RankedBy(c, b, t) BY DEF Ranked
<1>2. t \in AllShards /\ c.shards[t].cc \in Nat BY <1>0, TopsAreStarts DEF GoodLayout, Full
<1>3. IsParentOf(t, s) => IsPrefix(t, s) BY <1>0, <1>2, ParentGives, Children
<1>4. IsParentOf(s, t) => IsPrefix(s, t) BY <1>0, <1>2, ParentGives, Children
<1>5. IsPrefix(s, s) BY <1>0, PrefixOrder
<1>6. ~IsPrefix(t, s)
  <2>1. SUFFICES ASSUME IsPrefix(t, s) PROVE FALSE OBVIOUS
  <2>2. IsPrefix(s, Child(s, 0)) /\ ~IsPrefix(Child(s, 0), s) /\ Child(s, 0) \in AllShards BY <1>0, Children
  <2>3. IsPrefix(t, Child(s, 0)) BY <1>0, <1>2, <2>1, <2>2, PrefixOrder
  <2>4. t = Child(s, 0) BY <2>3 DEF GoodLayout, Full, PrefixFree
  <2> QED BY <2>1, <2>2, <2>4
<1>7. IsPrefix(s, t) /\ s # t BY <1>1, <1>3, <1>4, <1>5, <1>6 DEF RankedBy
<1>8. PICK bit \in Bits : IsPrefix(Child(s, bit), t) BY <1>0, <1>2, <1>7, NextToShard
<1>9. Child(s, bit) \in DOMAIN c.shards BY <1>8 DEF Bits
<1>10. t = Child(s, bit) BY <1>8, <1>9 DEF GoodLayout, Full, PrefixFree
<1>11. b.cc <= c.shards[t].cc + 1 /\ (t \notin Merging(c) => b.cc <= c.shards[t].cc)
  BY <1>0, <1>1, <1>2, <1>3, <1>5, <1>6 DEF RankedBy
<1> QED BY <1>0, <1>2, <1>10, <1>11

\* No unregistered block is of a session that comes later than the current one.
LEMMA RankedBound ==
  ASSUME NEW c, GoodLayout(c), NEW b \in FreshBlocks, Ranked(c, b), b.shard \in CalledFor(c)
  PROVE  b.cc <= CcSeqno(c, b.shard) /\ CcSeqno(c, b.shard) \in Nat
<1> DEFINE s == b.shard
<1>0. s \in AllShards BY DEF FreshBlocks
<1>1. CASE RunsOn(c, s)
  <2>1. s \in DOMAIN c.shards /\ IsPrefix(s, s) BY <1>0, <1>1, PrefixOrder DEF RunsOn
  <2> QED BY <2>1, RankedAbove, SessionOfListed
<1>2. ASSUME NEW p \in DOMAIN c.shards, RunsHalf(c, p, s) PROVE b.cc <= CcSeqno(c, s) /\ CcSeqno(c, s) \in Nat
  <2>1. IsParentOf(p, s) BY <1>2 DEF RunsHalf
  <2>2. IsPrefix(p, s) BY <1>0, <2>1, ParentGives, Children
  <2> QED BY <1>0, <2>1, <2>2, RankedAbove, SessionOfHalf
<1>3. CASE RunsWhole(c, s)
  <2>1. Child(s, 0) \in DOMAIN c.shards /\ Child(s, 1) \in DOMAIN c.shards BY <1>3 DEF RunsWhole, Merging, Bits
  <2>2. PICK bit \in Bits : b.cc \in Nat /\ b.cc <= c.shards[Child(s, bit)].cc + 1 BY <2>1, RankedBelow
  <2>3. CcSeqno(c, s) = 1 + Max({c.shards[Child(s, 0)].cc, c.shards[Child(s, 1)].cc}) BY <1>0, <2>1, SessionOfWhole
  <2>4. c.shards[Child(s, 0)].cc \in Nat /\ c.shards[Child(s, 1)].cc \in Nat BY <1>0, <2>1, TopsAreStarts
  <2>5. c.shards[Child(s, bit)].cc \in {c.shards[Child(s, 0)].cc, c.shards[Child(s, 1)].cc} BY DEF Bits
  <2>6. CcSeqno(c, s) \in Nat /\ CcSeqno(c, s) >= 1 + c.shards[Child(s, bit)].cc BY <2>3, <2>4, <2>5, MaxOfTwo
  <2> QED BY <2>2, <2>4, <2>5, <2>6
<1> QED BY <1>1, <1>2, <1>3, SessionKinds

\* A session of the new state with unregistered blocks was there before, and
\* it goes on from where it was or from a block of its own.
GoesOnFrom(c, new, tops, b) ==
  \/ RegisteredTops(new, b.shard) = RegisteredTops(c, b.shard)
  \/ \E x \in tops : x.shard = b.shard /\ x.cc = b.cc /\ RegisteredTops(new, b.shard) = <<Id(x)>>

\* A session that is current after the update was current before it, and goes on
\* from the same blocks or from one of its own that was imported.
LEMMA SessionGoesOn ==
  ASSUME NEW c, NEW F, NEW picks, NEW tops, NEW now, Collates(c, F, picks, tops, now),
         NEW rotate \in BOOLEAN, NEW new, new = NewLayout(c, tops, now, rotate),
         NEW b \in F, Current(new, b)
  PROVE  Current(c, b) /\ GoesOnFrom(c, new, tops, b)
<1> DEFINE s == b.shard
           D == DOMAIN c.shards
           T == ShardsOf(tops)
<1>0. GoodLayout(c) /\ b \in FreshBlocks /\ Ranked(c, b) BY DEF Collates
<1>1. GoodLayout(new) /\ Merging(new) \subseteq D BY NewLayoutIs
<1>2. s \in AllShards /\ b.cc \in Nat /\ \A t \in D : t \in AllShards /\ c.shards[t].cc \in Nat
  BY <1>0, TopsAreStarts DEF FreshBlocks, GoodLayout, Full
<1>3. b.cc = CcSeqno(new, s) BY DEF Current
<1>4. ASSUME NEW t \in DOMAIN new.shards, t \notin T
      PROVE  /\ t \in D /\ new.shards[t].top = c.shards[t].top /\ new.shards[t].bs = c.shards[t].bs
             /\ new.shards[t].cc = IF rotate \/ (c.shards[t].bm /\ ~new.shards[t].bm)
                                   THEN c.shards[t].cc + 1 ELSE c.shards[t].cc
  BY <1>4, NewLayoutIs
<1>5. ASSUME NEW t \in D, t \in DOMAIN new.shards
      PROVE  /\ new.shards[t].cc >= c.shards[t].cc /\ new.shards[t].cc \in Nat
             /\ t \in T => t \notin Splitting(c) /\ t \notin Merging(c)
  <2>1. TakesPlace(D, Splitting(c), Merging(c), T) BY ImportTakesPlace DEF Collates
  <2>2. t \in T => t \notin Splitting(c) /\ t \notin Merging(c) BY <1>0, <2>1, LayoutStep DEF GoodLayout
  <2>3. new.shards[t].cc \in Nat BY <1>1, <1>2, <1>5, TopsAreStarts
  <2>4. t \notin T => new.shards[t].cc >= c.shards[t].cc BY <1>2, <1>4, <1>5
  <2>5. ASSUME t \in T PROVE new.shards[t].cc >= c.shards[t].cc
    <3>1. PICK x \in tops : x.shard = t BY <2>5 DEF ShardsOf
    <3>2. x.cc = c.shards[t].cc BY <1>0, <3>1, ImportedIsCurrent, SessionOfListed
    <3>3. new.shards[t].cc = IF rotate THEN x.cc + 1 ELSE x.cc BY <3>1, NewLayoutIs
    <3> QED BY <1>2, <3>2, <3>3
  <2> QED BY <2>2, <2>3, <2>4, <2>5
<1>6. CASE RunsOn(new, s)
  <2>1. /\ s \in DOMAIN new.shards /\ ~new.shards[s].bs /\ ~new.shards[s].bm /\ b.cc = new.shards[s].cc
        /\ RegisteredTops(new, s) = <<new.shards[s].top>>
    BY <1>1, <1>3, <1>6, SessionOfListed DEF RunsOn, Splitting, Merging
  <2>2. CASE s \notin T
    <3>1. /\ s \in D /\ new.shards[s].top = c.shards[s].top /\ new.shards[s].bs = c.shards[s].bs
          /\ new.shards[s].cc = IF rotate \/ (c.shards[s].bm /\ ~new.shards[s].bm)
                                THEN c.shards[s].cc + 1 ELSE c.shards[s].cc
      BY <1>4, <2>1, <2>2
    <3>2. b.cc <= c.shards[s].cc BY <1>0, <1>2, <3>1, RankedAbove, PrefixOrder
    <3>3. ~c.shards[s].bm /\ b.cc = c.shards[s].cc BY <1>2, <2>1, <3>1, <3>2
    <3>4. RunsOn(c, s) BY <2>1, <3>1, <3>3 DEF RunsOn, Splitting, Merging
    <3>5. CcSeqno(c, s) = c.shards[s].cc /\ RegisteredTops(c, s) = <<c.shards[s].top>> BY <1>0, <3>1, SessionOfListed
    <3>6. s \in CalledFor(c) BY <1>0, <3>4, SessionKinds
    <3> QED BY <2>1, <3>1, <3>3, <3>5, <3>6 DEF Current, GoesOnFrom
  <2>3. CASE s \in T
    <3>1. PICK x \in tops : x.shard = s BY <2>3 DEF ShardsOf
    <3>2. s \in CalledFor(c) /\ x.cc = CcSeqno(c, s) /\ x.cc \in Nat BY <3>1, ImportedIsCurrent
    <3>3. new.shards[s].top = Id(x) /\ new.shards[s].cc = IF rotate THEN x.cc + 1 ELSE x.cc BY <3>1, NewLayoutIs
    <3>4. b.cc <= CcSeqno(c, s) BY <1>0, <3>2, RankedBound
    <3>5. b.cc = x.cc BY <1>2, <2>1, <3>2, <3>3, <3>4
    <3> QED BY <2>1, <3>1, <3>2, <3>3, <3>5 DEF Current, GoesOnFrom
  <2> QED BY <2>2, <2>3
<1>7. ASSUME NEW p \in DOMAIN new.shards, RunsHalf(new, p, s) PROVE Current(c, b) /\ GoesOnFrom(c, new, tops, b)
  <2>1. IsParentOf(p, s) /\ new.shards[p].bs BY <1>7 DEF RunsHalf, Splitting
  <2>2. b.cc = new.shards[p].cc /\ RegisteredTops(new, s) = <<new.shards[p].top>> BY <1>1, <1>2, <1>3, <2>1, SessionOfHalf
  <2>3. IsPrefix(p, s) /\ p # s BY <1>2, <2>1, ParentGives, Children
  <2>4. p \notin T
    <3>1. SUFFICES ASSUME p \in T PROVE FALSE OBVIOUS
    <3>2. PICK x \in tops : x.shard = p BY <3>1 DEF ShardsOf
    <3>3. x.bs BY <2>1, <3>2, NewLayoutIs
    <3>4. p \in D /\ p \notin Splitting(c) BY <3>2, <3>3, ImportedIsCurrent DEF RunsOn
    <3>5. b.cc < c.shards[p].cc BY <1>0, <2>3, <3>4, RankedAbove
    <3> QED BY <1>2, <1>5, <2>2, <3>4, <3>5
  <2>5. /\ p \in D /\ new.shards[p].top = c.shards[p].top /\ c.shards[p].bs BY <1>4, <2>1, <2>4
  <2>6. b.cc <= c.shards[p].cc BY <1>0, <2>3, <2>5, RankedAbove
  <2>7. b.cc = c.shards[p].cc BY <1>2, <1>5, <2>2, <2>5, <2>6
  <2>8. p \in Splitting(c) /\ p \notin Merging(c) BY <1>0, <2>5, MergingInPairs DEF Splitting
  <2>9. s \in CalledFor(c) BY <1>0, <1>2, <2>1, <2>5, <2>8, SessionKinds DEF RunsHalf
  <2>10. CcSeqno(c, s) = c.shards[p].cc /\ RegisteredTops(c, s) = <<c.shards[p].top>>
    BY <1>0, <1>2, <2>1, <2>5, SessionOfHalf
  <2> QED BY <2>2, <2>5, <2>7, <2>9, <2>10 DEF Current, GoesOnFrom
<1>8. CASE RunsWhole(new, s)
  <2> DEFINE l == Child(s, 0)
             r == Child(s, 1)
  <2>1. l \in Merging(new) /\ r \in Merging(new) BY <1>8 DEF RunsWhole, Bits
  <2>2. l \in D /\ r \in D /\ l \in DOMAIN new.shards /\ r \in DOMAIN new.shards BY <1>1, <2>1 DEF Merging
  <2>3. /\ b.cc = 1 + Max({new.shards[l].cc, new.shards[r].cc})
        /\ RegisteredTops(new, s) = <<new.shards[l].top, new.shards[r].top>>
    BY <1>1, <1>2, <1>3, <2>2, SessionOfWhole
  <2>4. /\ CcSeqno(c, s) = 1 + Max({c.shards[l].cc, c.shards[r].cc})
        /\ RegisteredTops(c, s) = <<c.shards[l].top, c.shards[r].top>>
    BY <1>0, <1>2, <2>2, SessionOfWhole
  <2>5. /\ new.shards[l].cc >= c.shards[l].cc /\ new.shards[l].cc \in Nat /\ c.shards[l].cc \in Nat
        /\ new.shards[r].cc >= c.shards[r].cc /\ new.shards[r].cc \in Nat /\ c.shards[r].cc \in Nat
    BY <1>2, <1>5, <2>2
  <2>6. b.cc >= 1 + new.shards[l].cc /\ b.cc >= 1 + new.shards[r].cc BY <2>3, <2>5, MaxOfTwo
  <2>7. Other(l) = r /\ Other(r) = l BY <1>2, Children DEF Bits
  <2>8. l \in Merging(c) <=> r \in Merging(c) BY <1>0, <2>7 DEF GoodLayout, Paired
  <2>9. l \in Merging(c) /\ r \in Merging(c)
    <3>1. SUFFICES ASSUME l \notin Merging(c), r \notin Merging(c) PROVE FALSE BY <2>8
    <3>2. PICK bit \in Bits : b.cc <= c.shards[Child(s, bit)].cc BY <1>0, <2>2, <3>1, RankedBelow DEF Bits
    <3>3. b.cc <= c.shards[l].cc \/ b.cc <= c.shards[r].cc BY <3>2 DEF Bits
    <3> HIDE DEF l, r
    <3> QED BY <1>2, <2>5, <2>6, <3>3
  <2>10. RunsWhole(c, s) BY <1>2, <2>9 DEF RunsWhole, Bits
  <2>11. s \in CalledFor(c) BY <1>0, <2>10, SessionKinds
  <2>12. b.cc <= CcSeqno(c, s) BY <1>0, <2>11, RankedBound
  <2> HIDE DEF l, r
  <2>13. CcSeqno(c, s) <= b.cc /\ CcSeqno(c, s) \in Nat BY <1>2, <2>4, <2>5, <2>6, MaxOfTwo
  <2>14. l \notin T /\ r \notin T BY <1>5, <2>2, <2>9
  <2>15. new.shards[l].top = c.shards[l].top /\ new.shards[r].top = c.shards[r].top BY <1>4, <2>2, <2>14
  <2> QED BY <1>2, <2>3, <2>4, <2>11, <2>12, <2>13, <2>15 DEF Current, GoesOnFrom
<1>9. RunsOn(new, s) \/ (\E p \in DOMAIN new.shards : RunsHalf(new, p, s)) \/ RunsWhole(new, s)
  BY <1>1, SessionKinds DEF Current
<1> QED BY <1>6, <1>7, <1>8, <1>9

\* What a session has decided can be registered.
Registrable(c, b) == Current(c, b) => Continues(c, b, RegisteredTops(c, b.shard))

\* Unless the blocks of its session overtake it, a block can be registered
\* after a masterchain block if it could before.
LEMMA RegistrableStays ==
  ASSUME NEW c, NEW F, NEW picks, NEW tops, NEW now, Collates(c, F, picks, tops, now),
         NEW rotate \in BOOLEAN, NEW new, new = NewLayout(c, tops, now, rotate),
         NEW b \in F, Registrable(c, b), Newer(new, b)
  PROVE  Registrable(new, b)
<1> SUFFICES ASSUME Current(new, b) PROVE Continues(new, b, RegisteredTops(new, b.shard)) BY DEF Registrable
<1>1. Current(c, b) /\ GoesOnFrom(c, new, tops, b) BY SessionGoesOn
<1>2. Continues(c, b, RegisteredTops(c, b.shard)) BY <1>1 DEF Registrable
<1>3. b.cc = CcSeqno(new, b.shard) BY DEF Current
<1>4. GoodLayout(c) /\ b \in FreshBlocks BY DEF Collates
<1>5. CASE RegisteredTops(new, b.shard) = RegisteredTops(c, b.shard) BY <1>2, <1>3, <1>5 DEF Continues
<1>6. ASSUME NEW x \in tops, x.shard = b.shard, x.cc = b.cc, RegisteredTops(new, b.shard) = <<Id(x)>>
      PROVE  Continues(new, b, RegisteredTops(new, b.shard))
  <2>1. x \in FreshBlocks /\ Continues(c, x, RegisteredTops(c, b.shard)) BY <1>6, ImportedIsCurrent
  <2>2. x.shard \in DOMAIN new.shards /\ new.shards[x.shard].top = Id(x) BY NewLayoutIs
  <2>3. Id(x) = <<b.shard, b.cc, x.seq>> /\ Id(x) \in BlockIds /\ Id(x)[3] = x.seq /\ Id(x)[1] = b.shard /\ Id(x)[2] = b.cc
    BY <1>6, <2>1 DEF Id, BlockIds, FreshBlocks
  <2>4. x.seq < b.seq BY <1>6, <2>1, <2>2, <2>3, <1>4 DEF Newer, FreshBlocks
  <2>5. MaxSeqno(<<Id(x)>>) = x.seq BY <2>3, MaxOfStarts
  <2>6. MaxSeqno(RegisteredTops(c, b.shard)) < x.seq BY <2>1 DEF Continues
  <2>7. MaxSeqno(b.start) <= MaxSeqno(RegisteredTops(c, b.shard)) BY <1>2 DEF Continues
  <2>8. MaxSeqno(b.start) \in Nat /\ MaxSeqno(RegisteredTops(c, b.shard)) \in Nat /\ x.seq \in Nat /\ b.seq \in Nat
    BY <1>4, <2>1, StartsHaveSeqno, TopsAreStarts DEF FreshBlocks
  <2>9. MaxSeqno(b.start) < x.seq BY <2>6, <2>7, <2>8
  <2> QED BY <1>3, <1>6, <2>3, <2>4, <2>5, <2>8, <2>9 DEF Continues
<1> QED BY <1>1, <1>5, <1>6 DEF GoesOnFrom

-----------------------------------------------------------------------------
(* A session decides a block                                               *)

\* A bounded set of numbers has a greatest element, and Max is it.
LEMMA MaxOfBounded ==
  ASSUME NEW S \in SUBSET Nat, S # {}, NEW n \in Nat, \A y \in S : y <= n
  PROVE  Max(S) \in S /\ \A y \in S : y <= Max(S)
<1> DEFINE gap == {n - y : y \in S}
<1>1. \A y \in S : n - y \in Nat OBVIOUS
<1>2. gap \in SUBSET Nat /\ gap # {} BY <1>1
<1>3. PICK z \in gap : \A v \in gap : ~ (<<v, z>> \in OpToRel(<, Nat))
  BY <1>2, WFMin, NatLessThanWellFounded
<1>4. PICK x \in S : z = n - x OBVIOUS
<1>5. ASSUME NEW y \in S PROVE x >= y
  <2>1. n - y \in gap /\ n - y \in Nat /\ z \in Nat BY <1>2
  <2>2. <<n - y, z>> \in OpToRel(<, Nat) <=> n - y < z BY <2>1 DEF OpToRel
  <2>3. ~ (n - y < z) BY <1>3, <2>1, <2>2, Zenon
  <2> QED BY <1>4, <2>3
<1> QED BY <1>5 DEF Max

\* The state and the unregistered blocks, as they always are.
Bounded(F) == \E n \in Nat : \A b \in F : b.seq <= n
GoodState(c, F) ==
  /\ GoodLayout(c) /\ c.utime \in Nat /\ F \subseteq FreshBlocks /\ Bounded(F)
  /\ \A b \in F : Ranked(c, b) /\ Newer(c, b) /\ Registrable(c, b)

\* A session without blocks starts from the registered ones.
LEMMA StartIsRegistered ==
  ASSUME NEW c, GoodLayout(c), NEW s \in CalledFor(c)
  PROVE  /\ s \in AllShards /\ SessionStart(c, s) = RegisteredTops(c, s) /\ CcSeqno(c, s) \in Nat
         /\ \E t \in DOMAIN c.shards : SessionStart(c, s)[1] = c.shards[t].top
         /\ \A b : b.shard = s /\ b.cc = CcSeqno(c, s) => Ranked(c, b)
<1>0. s \in AllShards BY SessionsAreApart
<1>1. CASE RunsOn(c, s)
  <2>1. s \in DOMAIN c.shards BY <1>1 DEF RunsOn
  <2>2. /\ SessionStart(c, s) = RegisteredTops(c, s) /\ SessionStart(c, s) = <<c.shards[s].top>>
        /\ CcSeqno(c, s) = c.shards[s].cc
    BY <2>1, SessionOfListed
  <2>3. c.shards[s].cc \in Nat BY <1>0, <2>1, TopsAreStarts
  <2>4. \A b : b.shard = s /\ b.cc = CcSeqno(c, s) => Ranked(c, b) BY <2>1, <2>2, <2>3 DEF Ranked, RankedBy
  <2>5. <<c.shards[s].top>>[1] = c.shards[s].top OBVIOUS
  <2> QED BY <1>0, <2>1, <2>2, <2>3, <2>4, <2>5
<1>2. ASSUME NEW p \in DOMAIN c.shards, RunsHalf(c, p, s)
      PROVE  /\ SessionStart(c, s) = RegisteredTops(c, s) /\ CcSeqno(c, s) \in Nat
             /\ \E t \in DOMAIN c.shards : SessionStart(c, s)[1] = c.shards[t].top
             /\ \A b : b.shard = s /\ b.cc = CcSeqno(c, s) => Ranked(c, b)
  <2>1. IsParentOf(p, s) /\ p \in Splitting(c) BY <1>2 DEF RunsHalf
  <2>2. /\ SessionStart(c, s) = RegisteredTops(c, s) /\ SessionStart(c, s) = <<c.shards[p].top>>
        /\ CcSeqno(c, s) = c.shards[p].cc
    BY <1>0, <2>1, SessionOfHalf
  <2>3. c.shards[p].cc \in Nat BY <1>0, TopsAreStarts
  <2>4. \A b : b.shard = s /\ b.cc = CcSeqno(c, s) => Ranked(c, b) BY <2>1, <2>2, <2>3 DEF Ranked, RankedBy
  <2>5. <<c.shards[p].top>>[1] = c.shards[p].top OBVIOUS
  <2> QED BY <2>2, <2>3, <2>4, <2>5
<1>3. CASE RunsWhole(c, s)
  <2> DEFINE l == Child(s, 0)
             r == Child(s, 1)
  <2>1. l \in Merging(c) /\ r \in Merging(c) BY <1>3 DEF RunsWhole, Bits
  <2>2. l \in DOMAIN c.shards /\ r \in DOMAIN c.shards BY <2>1 DEF Merging
  <2>3. /\ SessionStart(c, s) = RegisteredTops(c, s)
        /\ RegisteredTops(c, s) = <<c.shards[l].top, c.shards[r].top>>
        /\ CcSeqno(c, s) = 1 + Max({c.shards[l].cc, c.shards[r].cc})
    BY <1>0, <2>2, SessionOfWhole
  <2>4. c.shards[l].cc \in Nat /\ c.shards[r].cc \in Nat BY <1>0, <2>2, TopsAreStarts
  <2>5. IsParentOf(s, l) /\ IsParentOf(s, r) BY <1>0, Children DEF Bits
  <2> HIDE DEF l, r
  <2>6. CcSeqno(c, s) \in Nat /\ CcSeqno(c, s) \in {c.shards[l].cc + 1, c.shards[r].cc + 1} BY <2>3, <2>4, MaxOfTwo
  <2>7. PICK t \in {l, r} : CcSeqno(c, s) = c.shards[t].cc + 1 BY <2>6
  <2>8. t \in DOMAIN c.shards /\ t \in Merging(c) /\ IsParentOf(s, t) /\ CcSeqno(c, s) <= c.shards[t].cc + 1
    BY <2>1, <2>2, <2>5, <2>6, <2>7
  <2>9. \A b : b.shard = s /\ b.cc = CcSeqno(c, s) => Ranked(c, b) BY <2>8 DEF Ranked, RankedBy
  <2>10. <<c.shards[l].top, c.shards[r].top>>[1] = c.shards[l].top OBVIOUS
  <2> QED BY <1>0, <2>2, <2>3, <2>6, <2>9, <2>10
<1> QED BY <1>0, <1>1, <1>2, <1>3, SessionKinds

\* The block that a session has decided last is an unregistered one or the one
\* that the state lists, and no registered block of the session comes after it.
OfSession(top, s, cc) == top[1] = s /\ top[2] = cc
LastIs(s, cc, m) ==
  /\ \/ \E b \in fresh : Id(b) = <<s, cc, m>>
     \/ \E t \in DOMAIN conf.shards : conf.shards[t].top = <<s, cc, m>> /\ t = s
  /\ \A t \in DOMAIN conf.shards : OfSession(conf.shards[t].top, s, cc) => conf.shards[t].top[3] <= m

\* The block before the next one of a session: the blocks it started from, or
\* the newest block it has decided or registered.
LEMMA PrevBlocksAre ==
  ASSUME GoodState(conf, fresh), NEW s \in AllShards, NEW cc \in Nat
  PROVE  \/ /\ PrevBlocks(conf, s, cc) = SessionStart(conf, s)
            /\ \A t \in DOMAIN conf.shards : ~OfSession(conf.shards[t].top, s, cc)
         \/ \E m \in Nat : PrevBlocks(conf, s, cc) = <<<<s, cc, m>>>> /\ LastIs(s, cc, m)
<1> DEFINE D == DOMAIN conf.shards
           A == {b.seq : b \in {x \in fresh : x.shard = s /\ x.cc = cc}}
           B == {conf.shards[t].top[3] : t \in {t \in D : conf.shards[t].top[1] = s /\ conf.shards[t].top[2] = cc}}
           mine == A \cup B
<1>0. GoodLayout(conf) /\ fresh \subseteq FreshBlocks /\ Bounded(fresh) BY DEF GoodState
<1>1. PrevBlocks(conf, s, cc) = IF mine = {} THEN SessionStart(conf, s) ELSE <<<<s, cc, Max(mine)>>>>
  BY DEF PrevBlocks
<1>2. \A b \in fresh : b.seq \in Nat BY <1>0 DEF FreshBlocks
<1>3. \A t \in D : conf.shards[t].top \in BlockIds /\ conf.shards[t].top[1] = t
  BY <1>0, TopsAreStarts DEF GoodLayout, Named
<1>4. \A t \in D : conf.shards[t].top[3] \in Nat
                   /\ conf.shards[t].top = <<conf.shards[t].top[1], conf.shards[t].top[2], conf.shards[t].top[3]>>
  BY <1>3 DEF BlockIds
<1>5. mine \in SUBSET Nat BY <1>2, <1>4
<1>6. \A t \in D : OfSession(conf.shards[t].top, s, cc) => conf.shards[t].top[3] \in mine BY DEF OfSession
<1>7. CASE mine = {} BY <1>1, <1>6, <1>7
<1>8. CASE mine # {}
  <2>1. PICK n \in Nat : \A b \in fresh : b.seq <= n BY <1>0 DEF Bounded
  <2>2. \E k \in Nat : \A y \in mine : y <= k
    <3>1. CASE s \in D
      <4>1. \A y \in mine : y \in Nat /\ (y <= n \/ y = conf.shards[s].top[3]) BY <1>3, <1>5, <2>1
      <4>2. conf.shards[s].top[3] \in Nat BY <1>4, <3>1
      <4> HIDE DEF mine
      <4>3. \A y \in mine : y <= n + conf.shards[s].top[3] BY <4>1, <4>2
      <4> QED BY <4>2, <4>3
    <3>2. CASE s \notin D
      <4>1. \A y \in mine : y <= n BY <1>3, <2>1, <3>2
      <4> QED BY <4>1
    <3> QED BY <3>1, <3>2
  <2>3. Max(mine) \in mine /\ \A y \in mine : y <= Max(mine)
    <3> HIDE DEF mine
    <3> QED BY <1>5, <1>8, <2>2, MaxOfBounded
  <2>4. PICK m \in Nat : m = Max(mine) BY <1>5, <2>3
  <2>5. m \in mine /\ PrevBlocks(conf, s, cc) = <<<<s, cc, m>>>> BY <1>1, <1>8, <2>3, <2>4
  <2>6. \A t \in D : OfSession(conf.shards[t].top, s, cc) => conf.shards[t].top[3] <= m BY <1>6, <2>3, <2>4
  <2>7. CASE m \in A
    <3>1. PICK b \in fresh : b.shard = s /\ b.cc = cc /\ b.seq = m BY <2>7
    <3>2. Id(b) = <<s, cc, m>> BY <3>1 DEF Id
    <3> QED BY <2>5, <2>6, <3>2 DEF LastIs
  <2>8. CASE m \in B
    <3>1. PICK t \in D : conf.shards[t].top[1] = s /\ conf.shards[t].top[2] = cc /\ m = conf.shards[t].top[3] BY <2>8
    <3>2. conf.shards[t].top = <<s, cc, m>> /\ t = s BY <1>3, <1>4, <3>1
    <3> QED BY <2>5, <2>6, <3>2 DEF LastIs
  <2> QED BY <2>5, <2>7, <2>8
<1> QED BY <1>7, <1>8

\* The new block: it goes on from what the session has decided, and the whole
\* unregistered chain from the registered blocks.
LEMMA NewBlockIs ==
  ASSUME GoodState(conf, fresh), NEW s \in CalledFor(conf), NEW prevs, NEW last, NEW b,
         prevs = PrevBlocks(conf, s, CcSeqno(conf, s)), last = {x \in fresh : Id(x) = prevs[1]},
         b.shard = s, b.cc = CcSeqno(conf, s), b.seq = 1 + MaxSeqno(prevs), b.start = ChainHead(prevs, last)
  PROVE  /\ b.start \in Starts /\ b.seq \in Nat /\ b.cc \in Nat /\ b.shard \in AllShards
         /\ Ranked(conf, b) /\ Newer(conf, b) /\ Registrable(conf, b)
<1> DEFINE cc == CcSeqno(conf, s)
           tops == RegisteredTops(conf, s)
<1>0. GoodLayout(conf) /\ fresh \subseteq FreshBlocks BY DEF GoodState
<1>1. /\ s \in AllShards /\ cc \in Nat /\ SessionStart(conf, s) = tops /\ Ranked(conf, b)
      /\ \E t \in DOMAIN conf.shards : SessionStart(conf, s)[1] = conf.shards[t].top
  BY <1>0, StartIsRegistered
<1>2. tops \in Starts /\ MaxSeqno(tops) \in Nat /\ \A t \in DOMAIN conf.shards : conf.shards[t].top \in BlockIds
  BY <1>0, <1>1, TopsAreStarts, StartsHaveSeqno
<1>3. ASSUME NEW t \in DOMAIN conf.shards, NEW x \in fresh PROVE Id(x) # conf.shards[t].top
  <2>1. x \in FreshBlocks /\ Newer(conf, x) BY DEF GoodState
  <2>2. Id(x)[1] = x.shard /\ Id(x)[2] = x.cc /\ Id(x)[3] = x.seq /\ x.seq \in Nat BY <2>1 DEF Id, FreshBlocks
  <2> QED BY <2>1, <2>2 DEF Newer
<1>4. \A m \in Nat : /\ <<s, cc, m>> \in BlockIds /\ <<<<s, cc, m>>>> \in Starts /\ MaxSeqno(<<<<s, cc, m>>>>) = m
                     /\ <<<<s, cc, m>>>>[1] = <<s, cc, m>>
  <2>1. \A m \in Nat : <<s, cc, m>> \in BlockIds /\ <<s, cc, m>>[3] = m BY <1>1 DEF BlockIds
  <2>2. \A m \in Nat : <<<<s, cc, m>>>> \in Starts /\ MaxSeqno(<<<<s, cc, m>>>>) = m BY <2>1, MaxOfStarts
  <2> QED BY <2>1, <2>2
<1> HIDE DEF cc, tops
<1>5. CASE /\ prevs = SessionStart(conf, s)
           /\ \A t \in DOMAIN conf.shards : ~OfSession(conf.shards[t].top, s, cc)
  <2>1. prevs = tops /\ last = {} BY <1>1, <1>3, <1>5
  <2>2. b.start = tops /\ b.seq = 1 + MaxSeqno(tops) BY <2>1 DEF ChainHead
  <2>3. b.seq \in Nat /\ MaxSeqno(tops) < b.seq /\ MaxSeqno(b.start) = MaxSeqno(tops) BY <1>2, <2>2
  <2>4. Continues(conf, b, tops) BY <1>2, <2>2, <2>3 DEF Continues, cc
  <2>5. Newer(conf, b) BY <1>5 DEF Newer, OfSession, cc
  <2> QED BY <1>1, <1>2, <2>2, <2>3, <2>4, <2>5 DEF Registrable, cc, tops
<1>6. ASSUME NEW m \in Nat, prevs = <<<<s, cc, m>>>>, LastIs(s, cc, m)
      PROVE  b.start \in Starts /\ b.seq \in Nat /\ Newer(conf, b) /\ Continues(conf, b, tops)
  <2>1. prevs[1] = <<s, cc, m>> /\ b.seq = m + 1 BY <1>4, <1>6
  <2>2. b.seq \in Nat BY <2>1
  <2>3. Newer(conf, b)
    <3>1. \A t \in DOMAIN conf.shards : conf.shards[t].top[3] \in Nat BY <1>2 DEF BlockIds
    <3>2. \A t \in DOMAIN conf.shards : OfSession(conf.shards[t].top, s, cc) => conf.shards[t].top[3] <= m
      BY <1>6 DEF LastIs
    <3>3. \A t \in DOMAIN conf.shards : OfSession(conf.shards[t].top, s, cc) => b.seq > conf.shards[t].top[3]
      BY <2>1, <3>1, <3>2
    <3> QED BY <3>3 DEF Newer, OfSession, cc
  <2>4. CASE last = {}
    <3>1. b.start = <<<<s, cc, m>>>> BY <1>6, <2>4 DEF ChainHead
    <3>2. ~ \E x \in fresh : Id(x) = <<s, cc, m>> BY <2>1, <2>4
    <3>3. s \in DOMAIN conf.shards /\ conf.shards[s].top = <<s, cc, m>> BY <1>6, <3>2 DEF LastIs
    <3>a. tops = <<conf.shards[s].top>> BY <1>0, <3>3, SessionOfListed DEF tops
    <3>4. tops = <<<<s, cc, m>>>> BY <3>3, <3>a, Zenon
    <3>5. MaxSeqno(tops) = m /\ MaxSeqno(b.start) = m /\ b.start \in Starts BY <1>4, <3>1, <3>4
    <3>6. MaxSeqno(tops) < b.seq BY <2>1, <3>5
    <3>7. Continues(conf, b, tops) BY <3>1, <3>4, <3>5, <3>6 DEF Continues, cc
    <3> QED BY <2>2, <2>3, <3>5, <3>7
  <2>5. CASE last # {}
    <3>1. PICK x \in last : x = CHOOSE y \in last : TRUE BY <2>5
    <3>2. b.start = x.start BY <2>5, <3>1 DEF ChainHead
    <3>3. x \in FreshBlocks /\ x \in fresh /\ Id(x) = <<s, cc, m>> BY <1>0, <2>1
    <3>4. x.shard = s /\ x.cc = cc /\ x.seq = m BY <3>3 DEF Id
    <3>5. Registrable(conf, x) BY <3>3 DEF GoodState
    <3>6. Continues(conf, x, tops) BY <3>4, <3>5 DEF Registrable, Current, cc, tops
    <3>7. MaxSeqno(tops) < m BY <3>4, <3>6 DEF Continues
    <3>8. MaxSeqno(tops) < b.seq BY <1>2, <2>1, <3>7
    <3>9. Continues(conf, b, tops) BY <3>2, <3>4, <3>6, <3>8 DEF Continues, cc
    <3>10. b.start \in Starts BY <3>2, <3>3 DEF FreshBlocks
    <3> QED BY <2>2, <2>3, <3>9, <3>10
  <2> QED BY <2>4, <2>5
<1>7. \/ /\ prevs = SessionStart(conf, s)
         /\ \A t \in DOMAIN conf.shards : ~OfSession(conf.shards[t].top, s, cc)
      \/ \E m \in Nat : prevs = <<<<s, cc, m>>>> /\ LastIs(s, cc, m)
  BY <1>1, PrevBlocksAre DEF cc
<1>8. CASE \E m \in Nat : prevs = <<<<s, cc, m>>>> /\ LastIs(s, cc, m)
  <2>1. b.start \in Starts /\ b.seq \in Nat /\ Newer(conf, b) /\ Continues(conf, b, tops) BY <1>6, <1>8
  <2> QED BY <1>1, <2>1 DEF Registrable, cc, tops
<1> QED BY <1>5, <1>7, <1>8

-----------------------------------------------------------------------------
(* The inductive invariant                                                 *)

LayoutInv == GoodState(conf, fresh) /\ refused \in BOOLEAN

\* The layouts a workchain starts with.
LEMMA FirstLayouts == Full({<<>>}) /\ Full({<<0>>, <<1>>})
<1> DEFINE e == <<>>
<1>0. e \in AllShards /\ 0 \in Bits /\ 1 \in Bits BY DEF AllShards, Bits
<1>1. \A s \in AllShards : IsPrefix(e, s) BY <1>0, PrefixMeans
<1>2. Full({e})
  <2>1. {e} \subseteq AllShards /\ PrefixFree({e}) BY <1>0 DEF PrefixFree
  <2>2. Covering({e}) BY <1>1 DEF Covering, Edge
  <2> QED BY <2>1, <2>2 DEF Full
<1> DEFINE T == {Child(e, 0), Child(e, 1)}
<1>3. Child(e, 0) = <<0>> /\ Child(e, 1) = <<1>> BY DEF Child
<1>4. TakesPlace({e}, {e}, {}, T)
  <2>1. \A bit \in Bits : Child(e, bit) \in T /\ 1 - bit \in Bits BY DEF Bits
  <2>2. ASSUME NEW x \in T PROVE SplitsOff({e}, {e}, {}, T, x)
    <3>1. PICK bit \in Bits : x = Child(e, bit) BY <1>0
    <3>2. Child(e, 1 - bit) \in T BY <2>1
    <3> HIDE DEF T, e
    <3> QED BY <3>1, <3>2 DEF SplitsOff
  <2> QED BY <2>2 DEF TakesPlace
<1>5. LayoutAfter({e}, T) = T
  <2>1. IsPrefix(e, Child(e, 0)) BY <1>0, Children
  <2> HIDE DEF e
  <2> QED BY <2>1 DEF LayoutAfter, Comparable
<1>6. Full(T)
  <2> HIDE DEF T, e
  <2> QED BY <1>2, <1>4, <1>5, LayoutStep
<1> QED BY <1>2, <1>3, <1>6

\* What the first state is made from.
LEMMA FirstIs ==
  ASSUME LayoutInit
  PROVE  \E sh : /\ DOMAIN sh \in {{<<>>}, {<<0>>, <<1>>}} /\ DOMAIN conf.shards = DOMAIN sh /\ conf.utime = 0
                 /\ \A s \in DOMAIN sh : /\ conf.shards[s] = UpdateOneShard(s, sh[s], Siblings(sh, s), 0, FALSE)
                                        /\ s \in AllShards /\ sh[s] \in Descrs /\ sh[s].top[1] = s
                                        /\ ~sh[s].bs /\ sh[s].fsm.kind = "none"
                 /\ conf.shards = [s \in DOMAIN sh |-> conf.shards[s]]
<1>1. PICK layout \in {{<<>>}, {<<0>>, <<1>>}} : \E want \in [layout -> Wants] :
        conf = [utime |-> 0,
                shards |-> [s \in layout |->
                              UpdateOneShard(s, [u \in layout |-> FirstDescr(u, want[u])][s],
                                             Siblings([u \in layout |-> FirstDescr(u, want[u])], s), 0, FALSE)]]
  BY DEF LayoutInit
<1>2. PICK want \in [layout -> Wants] :
        conf = [utime |-> 0,
                shards |-> [s \in layout |->
                              UpdateOneShard(s, [u \in layout |-> FirstDescr(u, want[u])][s],
                                             Siblings([u \in layout |-> FirstDescr(u, want[u])], s), 0, FALSE)]]
  BY <1>1
<1> DEFINE sh == [u \in layout |-> FirstDescr(u, want[u])]
<1>3. layout \subseteq AllShards BY <1>1, FirstLayouts DEF Full
<1>4. ASSUME NEW s \in layout
      PROVE  s \in AllShards /\ sh[s] \in Descrs /\ sh[s].top[1] = s /\ ~sh[s].bs /\ sh[s].fsm.kind = "none"
  <2>1. s \in AllShards /\ want[s] \in Wants /\ sh[s] = FirstDescr(s, want[s]) BY <1>3
  <2>2. <<s, 0, 0>> \in BlockIds /\ <<s, 0, 0>>[1] = s BY <2>1 DEF BlockIds
  <2>3. NoWindow \in WindowType /\ NoWindow.kind = "none" BY WindowTypes
  <2> HIDE DEF sh
  <2> QED BY <2>1, <2>2, <2>3 DEF FirstDescr, Descrs
<1>5. DOMAIN sh = layout OBVIOUS
<1>6. /\ conf.shards = [s \in layout |-> UpdateOneShard(s, sh[s], Siblings(sh, s), 0, FALSE)]
      /\ conf.utime = 0 /\ DOMAIN conf.shards = layout
  BY <1>2
<1> HIDE DEF sh
<1>7. conf.shards = [s \in layout |-> conf.shards[s]] BY <1>6
<1>8. \A s \in layout : conf.shards[s] = UpdateOneShard(s, sh[s], Siblings(sh, s), 0, FALSE) BY <1>6
<1>9. /\ DOMAIN sh \in {{<<>>}, {<<0>>, <<1>>}} /\ DOMAIN conf.shards = DOMAIN sh /\ conf.utime = 0
      /\ conf.shards = [s \in DOMAIN sh |-> conf.shards[s]]
  BY <1>5, <1>6, <1>7
<1>10. \A s \in DOMAIN sh : /\ conf.shards[s] = UpdateOneShard(s, sh[s], Siblings(sh, s), 0, FALSE)
                          /\ s \in AllShards /\ sh[s] \in Descrs /\ sh[s].top[1] = s
                          /\ ~sh[s].bs /\ sh[s].fsm.kind = "none"
  BY <1>4, <1>5, <1>8
<1> QED BY <1>9, <1>10, Zenon

\* The first state is a good one.
LEMMA FirstState == LayoutInit => LayoutInv
<1> SUFFICES ASSUME LayoutInit PROVE LayoutInv OBVIOUS
<1>1. PICK sh : /\ DOMAIN sh \in {{<<>>}, {<<0>>, <<1>>}} /\ DOMAIN conf.shards = DOMAIN sh /\ conf.utime = 0
                /\ \A s \in DOMAIN sh : /\ conf.shards[s] = UpdateOneShard(s, sh[s], Siblings(sh, s), 0, FALSE)
                                       /\ s \in AllShards /\ sh[s] \in Descrs /\ sh[s].top[1] = s
                                       /\ ~sh[s].bs /\ sh[s].fsm.kind = "none"
                /\ conf.shards = [s \in DOMAIN sh |-> conf.shards[s]]
  BY FirstIs
<1> DEFINE layout == DOMAIN sh
<1>3. Full(layout) BY <1>1, FirstLayouts
<1>4. \A s \in DOMAIN sh : s \in AllShards /\ sh[s] \in Descrs BY <1>1
<1>5. \A s \in DOMAIN sh : Siblings(sh, s) \in SUBSET Descrs BY <1>4 DEF Siblings
<1>7. ASSUME NEW s \in layout
      PROVE  /\ conf.shards[s] \in Descrs /\ conf.shards[s].top[1] = s /\ ~conf.shards[s].bs /\ ~conf.shards[s].bm
             /\ conf.shards[s].fsm.kind = "merge" => conf.shards[s].fsm = Window("merge", 0)
  <2>1. s \in AllShards /\ sh[s] \in Descrs /\ Siblings(sh, s) \in SUBSET Descrs BY <1>4, <1>5
  <2>2. conf.shards[s] = UpdateOneShard(s, sh[s], Siblings(sh, s), 0, FALSE) BY <1>1
  <2>3. /\ conf.shards[s] \in Descrs /\ conf.shards[s].top = sh[s].top /\ conf.shards[s].bs = sh[s].bs
        /\ conf.shards[s].bm => sh[s].fsm.kind = "merge"
        /\ conf.shards[s].fsm.kind = "merge" => conf.shards[s].fsm = sh[s].fsm \/ conf.shards[s].fsm = Window("merge", 0)
    <3>1. 0 \in Nat /\ FALSE \in BOOLEAN OBVIOUS
    <3>2. PICK i, sib, z, off : /\ i = sh[s] /\ sib = Siblings(sh, s) /\ z = 0 /\ off = FALSE
                               /\ i \in Descrs /\ sib \in SUBSET Descrs /\ z \in Nat /\ off \in BOOLEAN
      BY <2>1, <3>1
    <3>3. conf.shards[s] = UpdateOneShard(s, i, sib, z, off) BY <2>2, <3>2
    <3> QED BY <2>1, <3>2, <3>3, UpdateFacts
  <2> QED BY <1>1, <2>3
<1>8. GoodLayout(conf)
  <2>1. Described(conf) BY <1>1, <1>7 DEF Described
  <2>2. Named(conf) /\ Paired(conf) BY <1>1, <1>7 DEF Named, Paired, Merging
  <2>3. SameWindow(conf) BY <1>1, <1>7 DEF SameWindow
  <2> QED BY <1>3, <1>1, <2>1, <2>2, <2>3 DEF GoodLayout
<1>9. fresh = {} /\ refused = FALSE BY DEF LayoutInit
<1>10. Bounded(fresh) BY <1>9 DEF Bounded
<1>11. conf.utime \in Nat BY <1>1
<1>12. fresh \subseteq FreshBlocks /\ \A b \in fresh : Ranked(conf, b) /\ Newer(conf, b) /\ Registrable(conf, b) BY <1>9
<1>13. GoodState(conf, fresh) BY <1>8, <1>10, <1>11, <1>12 DEF GoodState
<1> QED BY <1>9, <1>13 DEF LayoutInv

\* The times of blocks are numbers.
LEMMA TimesAreNumbers ==
  ASSUME GoodState(conf, fresh)
  PROVE  ShardTimes \subseteq Nat /\ MasterTimes \subseteq Nat /\ Rotations \subseteq BOOLEAN
<1>1. GoodLayout(conf) /\ conf.utime \in Nat /\ fresh \subseteq FreshBlocks BY DEF GoodState
<1>2. \A s \in DOMAIN conf.shards : conf.shards[s].fsm \in WindowType BY <1>1 DEF GoodLayout, Described, Descrs
<1>3. \A w \in Windows : w \in WindowType BY <1>2 DEF Windows
<1>4. \A w \in Windows : w.from \in Nat /\ WindowEnd(w) \in Nat BY <1>3, WindowTypes
<1>5. \A b \in fresh : b.utime + 1 \in Nat BY <1>1 DEF FreshBlocks
<1>6. ShardTimes \subseteq Nat BY <1>1, <1>4, <1>5 DEF ShardTimes
<1>7. MasterTimes \subseteq Nat BY <1>4, <1>6 DEF MasterTimes
<1>8. Rotations \subseteq BOOLEAN BY DEF Rotations
<1> QED BY <1>6, <1>7, <1>8

\* A session decides a block.
LEMMA NewShardBlockKeeps ==
  ASSUME LayoutInv, NEW s \in CalledFor(conf), NEW u \in ShardTimes, NEW want \in Wants,
         NewShardBlock(conf, s, u, want)
  PROVE  LayoutInv'
<1> DEFINE prevs == PrevBlocks(conf, s, CcSeqno(conf, s))
           last == {b \in fresh : Id(b) = prevs[1]}
           b0 == [shard |-> s, cc |-> CcSeqno(conf, s), seq |-> 1 + Max({p[3] : p \in Range(prevs)}),
                  start |-> ChainHead(prevs, last), utime |-> u, bs |-> BeforeSplit(conf, s, u), want |-> want]
<1>0. GoodState(conf, fresh) /\ refused \in BOOLEAN BY DEF LayoutInv
<1>1. fresh' = fresh \cup {b0} /\ conf' = conf /\ refused' = refused BY Zenon DEF NewShardBlock
<1>2. /\ b0.shard = s /\ b0.cc = CcSeqno(conf, s) /\ b0.seq = 1 + MaxSeqno(prevs) /\ b0.start = ChainHead(prevs, last)
  BY DEF MaxSeqno
<1>3. b0.utime = u /\ b0.bs = BeforeSplit(conf, s, u) /\ b0.want = want OBVIOUS
<1>4. b0 = [shard |-> b0.shard, cc |-> b0.cc, seq |-> b0.seq, start |-> b0.start,
            utime |-> b0.utime, bs |-> b0.bs, want |-> b0.want] OBVIOUS
<1> HIDE DEF b0
<1>5. /\ b0.start \in Starts /\ b0.seq \in Nat /\ b0.cc \in Nat /\ b0.shard \in AllShards
      /\ Ranked(conf, b0) /\ Newer(conf, b0) /\ Registrable(conf, b0)
  BY <1>0, <1>2, NewBlockIs
<1>6. b0.utime \in Nat /\ b0.want \in Wants BY <1>0, <1>3, TimesAreNumbers
<1>7. b0.bs \in BOOLEAN BY <1>3, Zenon DEF BeforeSplit
<1>8. b0 \in FreshBlocks BY <1>4, <1>5, <1>6, <1>7 DEF FreshBlocks
<1>9. /\ GoodLayout(conf) /\ conf.utime \in Nat /\ fresh \subseteq FreshBlocks /\ Bounded(fresh)
      /\ \A b \in fresh : Ranked(conf, b) /\ Newer(conf, b) /\ Registrable(conf, b)
  BY <1>0 DEF GoodState
<1>10. Bounded(fresh \cup {b0})
  <2>1. PICK n \in Nat : \A b \in fresh : b.seq <= n BY <1>9 DEF Bounded
  <2>2. \A b \in fresh : b.seq \in Nat BY <1>9 DEF FreshBlocks
  <2>3. \A b \in fresh \cup {b0} : b.seq <= n + b0.seq BY <1>5, <2>1, <2>2
  <2> QED BY <1>5, <2>3 DEF Bounded
<1>11. GoodState(conf, fresh \cup {b0}) BY <1>5, <1>8, <1>9, <1>10 DEF GoodState
<1> QED BY <1>0, <1>1, <1>11 DEF LayoutInv

\* A masterchain block is made and, when it is accepted, becomes the state.
LEMMA NewMasterKeeps ==
  ASSUME LayoutInv, NEW now \in MasterTimes, NEW picks, NEW tops, NEW rotate \in Rotations, NEW new,
         Picked(conf, fresh, picks, now), tops = ImportedTops(conf, picks),
         new = NewLayout(conf, tops, now, rotate), NewMaster(tops, new, now, rotate)
  PROVE  LayoutInv'
<1> DEFINE valid == LayoutIsValid(conf, new, tops, now, rotate)
           called == {<<s, CcSeqno(conf, s)>> : s \in CalledFor(conf)} \cup {<<s, CcSeqno(new, s)>> : s \in CalledFor(new)}
           stays(b) == <<b.shard, b.cc>> \in called
                         /\ \A s \in DOMAIN new.shards : new.shards[s].top[1] = b.shard /\ new.shards[s].top[2] = b.cc
                                                           => b.seq > new.shards[s].top[3]
<1>0. GoodState(conf, fresh) /\ refused \in BOOLEAN BY DEF LayoutInv
<1>1. /\ refused' = ~valid /\ conf' = (IF valid THEN new ELSE conf)
      /\ fresh' = (IF valid THEN {b \in fresh : stays(b)} ELSE fresh)
  BY Zenon DEF NewMaster
<1>2. now \in Nat /\ rotate \in BOOLEAN BY <1>0, TimesAreNumbers
<1>3. /\ GoodLayout(conf) /\ conf.utime \in Nat /\ fresh \subseteq FreshBlocks /\ Bounded(fresh)
      /\ \A b \in fresh : Ranked(conf, b) /\ Newer(conf, b) /\ Registrable(conf, b)
  BY <1>0 DEF GoodState
<1>4. Collates(conf, fresh, picks, tops, now) BY <1>2, <1>3 DEF Collates
<1>5. \A b \in fresh : stays(b) => Newer(new, b) BY Zenon DEF Newer
<1> HIDE DEF valid, stays
<1>6. refused' \in BOOLEAN BY <1>1
<1>7. CASE ~valid
  <2>1. conf' = conf /\ fresh' = fresh BY <1>1, <1>7
  <2> QED BY <1>0, <1>6, <2>1 DEF LayoutInv
<1>8. CASE valid
  <2>1. PICK G \in SUBSET fresh : G = {b \in fresh : stays(b)} OBVIOUS
  <2>2. conf' = new /\ fresh' = G BY <1>1, <1>8, <2>1
  <2>3. GoodLayout(new) BY <1>2, <1>4, NewLayoutIs
  <2>4. new.utime = now BY DEF NewLayout
  <2>5. Bounded(G) BY <1>3 DEF Bounded
  <2>6. \A b \in G : Ranked(new, b) BY <1>2, <1>4, RankedStays
  <2>7. \A b \in G : Newer(new, b) BY <1>5, <2>1
  <2>8. \A b \in G : Registrable(new, b) BY <1>2, <1>3, <1>4, <2>7, RegistrableStays
  <2>9. GoodState(new, G) BY <1>2, <1>3, <2>3, <2>4, <2>5, <2>6, <2>7, <2>8 DEF GoodState
  <2> QED BY <1>6, <2>2, <2>9 DEF LayoutInv
<1> QED BY <1>7, <1>8

\* Every step keeps the invariant.
LEMMA LayoutInvKept == LayoutInv /\ [LayoutNext]_layoutVars => LayoutInv'
<1> SUFFICES ASSUME LayoutInv, [LayoutNext]_layoutVars PROVE LayoutInv' OBVIOUS
<1>1. CASE UNCHANGED layoutVars BY <1>1 DEF layoutVars, LayoutInv
<1>2. ASSUME NEW s \in CalledFor(conf), NEW u \in ShardTimes, NEW want \in Wants, NewShardBlock(conf, s, u, want)
      PROVE  LayoutInv'
  BY <1>2, NewShardBlockKeeps
<1>3. ASSUME NEW now \in MasterTimes, NEW picks \in Pools({b \in fresh : MayRegisterTop(conf, b, now)}),
             NEW rotate \in Rotations, NEW tops, tops = ImportedTops(conf, picks),
             NEW new, new = NewLayout(conf, tops, now, rotate), NewMaster(tops, new, now, rotate)
      PROVE  LayoutInv'
  <2>1. Picked(conf, fresh, picks, now) BY DEF Pools, Picked
  <2> QED BY <1>3, <2>1, NewMasterKeeps
<1> QED BY <1>1, <1>2, <1>3 DEF LayoutNext

\* The invariant says that the sessions follow the layout.
LEMMA GoodStateFollows == LayoutInv => SessionsFollowTheLayout
<1> SUFFICES ASSUME LayoutInv PROVE SessionsFollowTheLayout OBVIOUS
<1>1. GoodLayout(conf) /\ fresh \subseteq FreshBlocks /\ \A b \in fresh : Registrable(conf, b)
  BY DEF LayoutInv, GoodState
<1>2. \A s, t \in CalledFor(conf) : IsPrefix(s, t) => s = t BY <1>1, SessionsAreApart
<1>3. ASSUME NEW b \in fresh, b.shard \in CalledFor(conf), b.cc = CcSeqno(conf, b.shard)
      PROVE  ChainStart(conf, b) # <<>>
  <2>1. Continues(conf, b, RegisteredTops(conf, b.shard)) BY <1>1, <1>3 DEF Registrable, Current
  <2> QED BY <1>1, <2>1, ChainStartMeans
<1> QED BY <1>2, <1>3 DEF SessionsFollowTheLayout

\* In every state that the masterchain reaches the shards cover the workchain
\* and do not overlap, merges come in pairs with one window, and every block
\* that is not registered is newer than the registered ones of its session and
\* of a session no later than the current one (Collator::update_shard_config,
\* import_new_shard_top_blocks, accept_block).
THEOREM LayoutStaysGood == LayoutSpec => []LayoutInv
BY FirstState, LayoutInvKept, PTL DEF LayoutSpec

\* The sessions that update_shards calls for never overlap and a block that a
\* session has decided can be registered as long as the session goes on, at
\* any depth of splitting and for any number of rotations and blocks.
THEOREM SessionsFollow == LayoutSpec => []SessionsFollowTheLayout
BY LayoutStaysGood, GoodStateFollows, PTL

-----------------------------------------------------------------------------
(* What the validators accept                                              *)

Wanted(s, d) == d.want = "merge" \/ Len(s) > MaxSplit
Alone(info, sib) == info.fsm.kind = "merge" /\ \A d \in sib : d.bs
Expired(info, now) == now >= WindowEnd(info.fsm) \/ info.bs

\* What update_one_shard does to a window: it stays, or it is a new one for a
\* split or a merge that is wanted; and what it takes for a forced merge.
LEMMA UpdateWindow ==
  ASSUME NEW s \in AllShards, NEW info \in Descrs, NEW sib \in SUBSET Descrs, NEW now \in Nat, NEW rotate \in BOOLEAN,
         NEW r, r = UpdateOneShard(s, info, sib, now, rotate)
  PROVE  /\ info.fsm.kind # "none" /\ ~Expired(info, now) /\ ~Alone(info, sib) => r.fsm = info.fsm
         /\ r.fsm.kind # "none" =>
              \/ r.fsm = info.fsm /\ ~Expired(info, now)
              \/ /\ r.fsm = Window("split", now) /\ ~info.bs
                 /\ info.want = "split" \/ Len(s) < MinSplit
                 /\ Len(s) < MaxSplit
              \/ /\ r.fsm = Window("merge", now) /\ ~info.bs /\ Len(s) > MinSplit /\ Wanted(s, info)
                 /\ \E d \in sib : ~d.bs /\ Wanted(s, d)
                 /\ \A d \in sib : d.fsm.kind = "none"
         /\ r.bm => /\ r.fsm.kind = "merge" /\ Len(s) > MinSplit /\ Wanted(s, info)
                    /\ \E d \in sib : Wanted(s, d)
         /\ /\ ~info.bs /\ info.fsm.kind = "none" /\ Len(s) > MinSplit /\ Wanted(s, info)
            /\ \E d \in sib : ~d.bs /\ Wanted(s, d)
            /\ \A d \in sib : d.fsm.kind = "none"
            => r.fsm = Window("merge", now)
<1> DEFINE depth == Len(s)
           over == info.fsm.kind # "none" /\ (now >= WindowEnd(info.fsm) \/ info.bs)
           alone == info.fsm.kind = "merge" /\ \A d \in sib : d.bs
           fsm == IF over \/ alone THEN NoWindow ELSE info.fsm
           split == ~info.bs /\ fsm.kind = "none" /\ (info.want = "split" \/ depth < MinSplit) /\ depth < MaxSplit
           wanted(d) == d.want = "merge" \/ depth > MaxSplit
           both == \E d \in sib : ~d.bs /\ wanted(d)
           merge == ~info.bs /\ ~split /\ depth > MinSplit /\ wanted(info) /\ both
           free == \A d \in sib : d.fsm.kind = "none"
           announce == merge /\ fsm.kind = "none" /\ free
           force == merge /\ fsm.kind = "merge" /\ now >= fsm.from
                      /\ \A d \in sib : d.fsm.kind = "merge" /\ now >= d.fsm.from
           new == IF split THEN Window("split", now) ELSE IF announce THEN Window("merge", now) ELSE fsm
           cc == IF rotate \/ (info.bm /\ ~force) THEN info.cc + 1 ELSE info.cc
<1>1. r = [info EXCEPT !.fsm = new, !.bm = force, !.cc = cc] BY DEF UpdateOneShard
<1>2. force \in BOOLEAN OBVIOUS
<1>3. r.fsm = new
  <2> HIDE DEF new, force, cc
  <2> QED BY <1>1 DEF Descrs
<1>4. r.bm => force
  <2> HIDE DEF new, force, cc
  <2> QED BY <1>1, <1>2 DEF Descrs
<1>5. NoWindow.kind = "none" BY WindowTypes
<1>6. depth \in Nat /\ MinSplit \in Nat /\ MaxSplit \in Nat /\ MinSplit <= MaxSplit BY SplitAssumption DEF AllShards
<1>7. wanted(info) <=> Wanted(s, info) BY DEF Wanted
<1>8. both <=> \E d \in sib : ~d.bs /\ Wanted(s, d) BY DEF Wanted
<1>9. alone <=> Alone(info, sib) BY DEF Alone
<1>10. over <=> info.fsm.kind # "none" /\ Expired(info, now) BY DEF Expired
<1>11. force => merge /\ fsm.kind = "merge" OBVIOUS
<1>12. both => \E d \in sib : Wanted(s, d) BY <1>8
<1>13. wanted(info) /\ depth > MinSplit => ~split BY <1>6
<1>14. merge <=> ~info.bs /\ ~split /\ depth > MinSplit /\ wanted(info) /\ both OBVIOUS
<1>15. split => ~info.bs /\ fsm.kind = "none" /\ (info.want = "split" \/ depth < MinSplit) /\ depth < MaxSplit OBVIOUS
<1>16. ~info.bs /\ info.fsm.kind = "none" /\ depth > MinSplit /\ wanted(info) /\ both /\ free => new = Window("merge", now)
  BY <1>13, <1>14
<1>17. free <=> \A d \in sib : d.fsm.kind = "none" OBVIOUS
<1> HIDE DEF both, free, alone, over, wanted, split, merge, force
<1>18. info.fsm.kind # "none" /\ ~over /\ ~alone => new = info.fsm BY <1>15
<1>19. new.kind # "none" => \/ new = info.fsm /\ ~over /\ info.fsm.kind # "none"
                            \/ new = Window("split", now) /\ split
                            \/ new = Window("merge", now) /\ merge /\ free
  BY <1>5
<1>20. force => new = fsm BY <1>11, <1>15
<1> HIDE DEF new, fsm
<1>21. info.fsm.kind # "none" /\ ~Expired(info, now) /\ ~Alone(info, sib) => r.fsm = info.fsm
  BY <1>3, <1>9, <1>10, <1>18
<1>22. r.fsm.kind # "none" =>
         \/ r.fsm = info.fsm /\ ~Expired(info, now)
         \/ /\ r.fsm = Window("split", now) /\ ~info.bs
            /\ info.want = "split" \/ Len(s) < MinSplit
            /\ Len(s) < MaxSplit
         \/ /\ r.fsm = Window("merge", now) /\ ~info.bs /\ Len(s) > MinSplit /\ Wanted(s, info)
            /\ \E d \in sib : ~d.bs /\ Wanted(s, d)
            /\ \A d \in sib : d.fsm.kind = "none"
  BY <1>3, <1>7, <1>8, <1>10, <1>14, <1>15, <1>17, <1>19
<1>23. r.bm => /\ r.fsm.kind = "merge" /\ Len(s) > MinSplit /\ Wanted(s, info) /\ \E d \in sib : Wanted(s, d)
  BY <1>3, <1>4, <1>7, <1>11, <1>12, <1>14, <1>20
<1>24. /\ ~info.bs /\ info.fsm.kind = "none" /\ Len(s) > MinSplit /\ Wanted(s, info)
       /\ \E d \in sib : ~d.bs /\ Wanted(s, d)
       /\ \A d \in sib : d.fsm.kind = "none"
       => r.fsm = Window("merge", now)
  BY <1>3, <1>7, <1>8, <1>16, <1>17
<1> QED BY <1>21, <1>22, <1>23, <1>24

\* The new state and the descriptions it was updated from.
LEMMA NewLayoutUpdates ==
  ASSUME NEW c, NEW F, NEW picks, NEW tops, NEW now, Collates(c, F, picks, tops, now),
         NEW rotate \in BOOLEAN, NEW new, new = NewLayout(c, tops, now, rotate), NEW sh, sh = Imported(c, tops)
  PROVE  /\ DOMAIN new.shards = DOMAIN sh
         /\ \A s \in DOMAIN sh :
              /\ new.shards[s] = UpdateOneShard(s, sh[s], Siblings(sh, s), now, rotate)
              /\ s \in AllShards /\ sh[s] \in Descrs /\ Siblings(sh, s) \in SUBSET Descrs
              /\ new.shards[s].want = sh[s].want
              /\ s \in DOMAIN c.shards => sh[s].fsm = c.shards[s].fsm
              /\ s \notin DOMAIN c.shards => sh[s].fsm.kind = "none"
<1>1. new = [utime |-> now, shards |-> [s \in DOMAIN sh |-> UpdateOneShard(s, sh[s], Siblings(sh, s), now, rotate)]]
  BY DEF NewLayout
<1>2. /\ DOMAIN new.shards = DOMAIN sh
      /\ \A s \in DOMAIN sh : new.shards[s] = UpdateOneShard(s, sh[s], Siblings(sh, s), now, rotate)
  BY <1>1
<1>3. now \in Nat BY DEF Collates
<1>4. /\ \A x \in tops : x.shard \in DOMAIN sh /\ sh[x.shard] = TopDescr(c, x)
      /\ \A s \in DOMAIN sh : /\ s \in AllShards /\ sh[s] \in Descrs
                              /\ s \notin ShardsOf(tops) => s \in DOMAIN c.shards /\ sh[s] = c.shards[s]
                              /\ sh[s].fsm.kind # "none" => s \in DOMAIN c.shards
  BY ImportedIs
<1>5. \A s \in DOMAIN sh : Siblings(sh, s) \in SUBSET Descrs BY <1>4 DEF Siblings
<1>6. \A s \in DOMAIN sh : new.shards[s].want = sh[s].want BY <1>2, <1>3, <1>4, <1>5, UpdateFacts
<1>7. ASSUME NEW s \in DOMAIN sh, s \in DOMAIN c.shards PROVE sh[s].fsm = c.shards[s].fsm
  <2>1. CASE s \notin ShardsOf(tops) BY <1>4, <2>1
  <2>2. CASE s \in ShardsOf(tops)
    <3>1. PICK x \in tops : x.shard = s BY <2>2 DEF ShardsOf
    <3>2. TopDescr(c, x).fsm = c.shards[s].fsm BY <1>7, <3>1 DEF TopDescr
    <3> QED BY <1>4, <3>1, <3>2
  <2> QED BY <2>1, <2>2
<1> QED BY <1>2, <1>4, <1>5, <1>6, <1>7

\* check_one_shard: the top block and the catchain seqno of a shard are what
\* the block shows.
LEMMA TopAndSeqnoAreShown ==
  ASSUME NEW c, NEW F, NEW picks, NEW tops, NEW now, Collates(c, F, picks, tops, now), \A b \in F : Newer(c, b),
         NEW rotate \in BOOLEAN, NEW new, new = NewLayout(c, tops, now, rotate), NEW s \in DOMAIN new.shards,
         NEW t, t = AtEdge(c, s, 0), NEW old, old = c.shards[t], NEW info, info = new.shards[s],
         NEW cc, cc = IF old.top = info.top THEN old.cc ELSE info.top[2]
  PROVE  /\ TopIsShown(old, info, tops)
         /\ cc \in Nat /\ info.cc = IF rotate \/ (t = s /\ old.bm /\ ~info.bm) THEN cc + 1 ELSE cc
         /\ t = s <=> s \in DOMAIN c.shards
         /\ t # s => ~info.bs
<1> DEFINE D == DOMAIN c.shards
           T == ShardsOf(tops)
<1>0. GoodLayout(c) /\ F \subseteq FreshBlocks BY DEF Collates
<1>1. s \in AllShards BY NewLayoutIs DEF GoodLayout, Full
<1>2. t \in D BY <1>0, <1>1, FindShard DEF GoodLayout, Bits
<1>3. t = s <=> s \in D BY <1>0, <1>2, SessionOfListed
<1>4. old.top \in BlockIds /\ old.cc \in Nat BY <1>0, <1>1, <1>2, TopsAreStarts
<1>5. CASE s \notin T
  <2>1. /\ s \in D /\ info.top = c.shards[s].top
        /\ info.cc = IF rotate \/ (c.shards[s].bm /\ ~info.bm) THEN c.shards[s].cc + 1 ELSE c.shards[s].cc
    BY <1>5, NewLayoutIs
  <2>2. t = s /\ old = c.shards[s] BY <1>3, <2>1
  <2>3. cc = old.cc BY <2>1, <2>2
  <2> QED BY <1>3, <1>4, <2>1, <2>2, <2>3 DEF TopIsShown
<1>6. CASE s \in T
  <2>1. PICK x \in tops : x.shard = s BY <1>6 DEF ShardsOf
  <2>2. x \in F /\ info.top = Id(x) /\ info.bs = x.bs /\ info.cc = IF rotate THEN x.cc + 1 ELSE x.cc
    BY <2>1, NewLayoutIs
  <2>3. x \in FreshBlocks /\ x.cc \in Nat /\ (x.bs => RunsOn(c, s)) BY <2>1, ImportedIsCurrent
  <2>4. Id(x)[1] = x.shard /\ Id(x)[2] = x.cc /\ Id(x)[3] = x.seq /\ x.seq \in Nat BY <2>3 DEF Id, FreshBlocks
  <2>5. old.top # info.top
    <3>1. SUFFICES ASSUME old.top = Id(x) PROVE FALSE BY <2>2
    <3>2. x.seq > old.top[3] BY <1>2, <2>2, <2>4, <3>1 DEF Newer
    <3> QED BY <2>4, <3>1, <3>2
  <2>6. cc = x.cc BY <2>2, <2>4, <2>5
  <2>7. TopIsShown(old, info, tops) BY <2>1, <2>2 DEF TopIsShown
  <2>8. t # s => ~info.bs BY <1>3, <2>2, <2>3 DEF RunsOn
  <2>9. t = s => ~old.bm
    <3>1. TakesPlace(D, Splitting(c), Merging(c), T) BY ImportTakesPlace DEF Collates
    <3>2. s \in D => s \notin Merging(c) BY <1>0, <1>6, <3>1, LayoutStep DEF GoodLayout
    <3> QED BY <1>2, <3>2 DEF Merging
  <2> QED BY <1>3, <2>2, <2>3, <2>6, <2>7, <2>8, <2>9
<1> QED BY <1>5, <1>6

\* The validators accept a new configuration unless a shard gives up a merge
\* because its sibling is gone or about to split.
LEMMA AcceptedUnlessAlone ==
  ASSUME NEW c, NEW F, NEW picks, NEW tops, NEW now, Collates(c, F, picks, tops, now), \A b \in F : Newer(c, b),
         NEW rotate \in BOOLEAN, NEW new, new = NewLayout(c, tops, now, rotate), NEW sh, sh = Imported(c, tops),
         \A s \in DOMAIN sh : s \in DOMAIN c.shards => ~Alone(sh[s], Siblings(sh, s))
  PROVE  LayoutIsValid(c, new, tops, now, rotate)
<1>0. now \in Nat /\ GoodLayout(c) /\ GoodLayout(new) BY NewLayoutIs DEF Collates
<1> SUFFICES ASSUME NEW s \in DOMAIN new.shards PROVE ShardIsValid(c, new, tops, s, now, rotate)
  BY DEF LayoutIsValid
<1> DEFINE info == new.shards[s]
           sib == Siblings(new.shards, s)
           t == AtEdge(c, s, 0)
           old == c.shards[t]
           kept == t = s
           depth == Len(s)
           cc == IF old.top = info.top THEN old.cc ELSE info.top[2]
           inherited == kept /\ old.fsm.kind # "none" /\ old.fsm = info.fsm
           wanted(d) == d.want = "merge" \/ depth > MaxSplit
           splitCond == (info.want = "split" \/ depth < MinSplit) /\ depth < MaxSplit
           mergeCond == depth > MinSplit /\ wanted(info)
                          /\ ((\E d \in sib : d.want = "merge") \/ depth > MaxSplit)
           cleared == kept /\ old.bm /\ ~info.bm
           was == sh[s]
           by == Siblings(sh, s)
<1>1. /\ s \in DOMAIN sh /\ s \in AllShards /\ info = UpdateOneShard(s, was, by, now, rotate)
      /\ was \in Descrs /\ by \in SUBSET Descrs /\ info.want = was.want
      /\ s \in DOMAIN c.shards => was.fsm = c.shards[s].fsm
      /\ s \notin DOMAIN c.shards => was.fsm.kind = "none"
  BY NewLayoutUpdates
<1>2. /\ TopIsShown(old, info, tops)
      /\ cc \in Nat /\ info.cc = IF rotate \/ (t = s /\ old.bm /\ ~info.bm) THEN cc + 1 ELSE cc
      /\ t = s <=> s \in DOMAIN c.shards
      /\ t # s => ~info.bs
  BY TopAndSeqnoAreShown
<1>3. \A d \in by : \E e \in sib : e.want = d.want
  <2>1. ASSUME NEW d \in by PROVE \E e \in sib : e.want = d.want
    <3>1. s # <<>> /\ Other(s) \in DOMAIN sh /\ d = sh[Other(s)] BY SiblingsAre
    <3>2. Other(s) \in DOMAIN new.shards /\ new.shards[Other(s)].want = d.want BY <3>1, NewLayoutUpdates
    <3>3. sib = {new.shards[Other(s)]} BY <3>1, <3>2, SiblingsAre
    <3> QED BY <3>2, <3>3
  <2> QED BY <2>1
<1>4. /\ was.fsm.kind # "none" /\ ~Expired(was, now) /\ ~Alone(was, by) => info.fsm = was.fsm
      /\ info.fsm.kind # "none" =>
           \/ info.fsm = was.fsm /\ ~Expired(was, now)
           \/ /\ info.fsm = Window("split", now) /\ ~was.bs
              /\ was.want = "split" \/ Len(s) < MinSplit
              /\ Len(s) < MaxSplit
           \/ /\ info.fsm = Window("merge", now) /\ ~was.bs /\ Len(s) > MinSplit /\ Wanted(s, was)
              /\ \E d \in by : ~d.bs /\ Wanted(s, d)
      /\ info.bm => info.fsm.kind = "merge" /\ Len(s) > MinSplit /\ Wanted(s, was) /\ \E d \in by : Wanted(s, d)
  BY <1>0, <1>1, UpdateWindow
<1>5. info \in Descrs /\ info.bs = was.bs /\ info.bs \in BOOLEAN BY <1>0, <1>1, UpdateFacts DEF Descrs
<1>6. Wanted(s, was) /\ Len(s) > MinSplit /\ (\E d \in by : Wanted(s, d)) => mergeCond BY <1>1, <1>3 DEF Wanted
<1>7. info.bm => \E d \in sib : d.bm
  <2>1. SUFFICES ASSUME info.bm PROVE \E d \in sib : d.bm OBVIOUS
  <2>2. s \in Merging(new) BY <2>1 DEF Merging
  <2>3. s # <<>> /\ Other(s) \in Merging(new) BY <1>0, <2>2 DEF GoodLayout, Paired
  <2>4. Other(s) \in DOMAIN new.shards /\ new.shards[Other(s)].bm BY <2>3 DEF Merging
  <2>5. sib = {new.shards[Other(s)]} BY <2>3, <2>4, SiblingsAre
  <2> QED BY <2>4, <2>5
<1>8. /\ Window("split", now).kind = "split" /\ Window("split", now).from = now + Delay
      /\ Window("merge", now).kind = "merge" /\ Window("merge", now).from = now + Delay
      /\ info.fsm \in WindowType /\ was.fsm \in WindowType
      /\ \A w \in WindowType : WindowEnd(w) = w.from + Interval /\ WindowEnd(w) \in Nat /\ w.from \in Nat
  BY <1>0, <1>1, <1>5, WindowTypes DEF Descrs
<1>9. t = s => old.fsm = was.fsm BY <1>1, <1>2
<1> HIDE DEF sib, t, cc, was, by, info
<1>10. IF kept
       THEN /\ old.fsm.kind = "none" \/ old.fsm = info.fsm \/ now >= WindowEnd(old.fsm) \/ info.bs
            /\ inherited => now <= WindowEnd(old.fsm) /\ ~info.bs
       ELSE ~info.bs
  <2>1. CASE t # s BY <1>2, <2>1
  <2>2. CASE t = s
    <3>1. old.fsm = was.fsm BY <1>9, <2>2
    <3>2. ~Alone(was, by) BY <1>1, <1>2, <2>2 DEF was, by
    <3>3. was.fsm.kind = "none" \/ was.fsm = info.fsm \/ now >= WindowEnd(was.fsm) \/ info.bs
      BY <1>4, <1>5, <3>2 DEF Expired
    <3>4. info.fsm.kind # "none" => now <= WindowEnd(info.fsm) /\ ~info.bs
      BY <1>0, <1>4, <1>5, <1>8, WindowAssumption DEF Expired
    <3> QED BY <2>2, <3>1, <3>3, <3>4
  <2> QED BY <2>1, <2>2
<1>11. ASSUME info.fsm.kind # "none", ~inherited
       PROVE  /\ info.fsm.from >= now /\ WindowEnd(info.fsm) >= info.fsm.from + MinInterval
              /\ WindowEnd(info.fsm) <= now + MaxDelay
              /\ info.fsm.kind = "split" => splitCond
              /\ info.fsm.kind = "merge" => mergeCond
  <2>1. ~(info.fsm = was.fsm) BY <1>1, <1>2, <1>9, <1>11
  <2>2. CASE /\ info.fsm = Window("split", now)
             /\ was.want = "split" \/ Len(s) < MinSplit
             /\ Len(s) < MaxSplit
    BY <1>0, <1>1, <1>8, <2>2, WindowAssumption
  <2>3. CASE /\ info.fsm = Window("merge", now) /\ Len(s) > MinSplit /\ Wanted(s, was)
             /\ \E d \in by : ~d.bs /\ Wanted(s, d)
    <3>1. mergeCond BY <1>6, <2>3
    <3> HIDE DEF mergeCond
    <3> QED BY <1>0, <1>8, <2>3, <3>1, WindowAssumption
  <2> QED BY <1>4, <1>11, <2>1, <2>2, <2>3
<1>12. info.bm => (\E d \in sib : d.bm) /\ info.fsm.kind = "merge" /\ mergeCond BY <1>4, <1>6, <1>7
<1>13. info.cc \in {cc, cc + 1} /\ ((info.cc # cc) <=> (rotate \/ cleared)) BY <1>2
<1> HIDE DEF inherited, mergeCond, splitCond, cleared, kept
<1>14. (info.fsm.kind # "none" /\ ~inherited) =>
           /\ info.fsm.from >= now /\ WindowEnd(info.fsm) >= info.fsm.from + MinInterval
           /\ WindowEnd(info.fsm) <= now + MaxDelay
           /\ info.fsm.kind = "split" => splitCond
           /\ info.fsm.kind = "merge" => mergeCond
  BY <1>11
<1> USE DEF inherited, mergeCond, splitCond, cleared, kept, info, sib, t, cc
<1> QED BY <1>2, <1>10, <1>12, <1>13, <1>14, Zenon DEF ShardIsValid

-----------------------------------------------------------------------------
(* At most two shards                                                      *)

\* With max_split = 1 there are one shard or two; neither of two is split, and
\* one has a merge window only with the other.
OneOrTwo(sh) ==
  \A s \in DOMAIN sh :
    /\ Len(s) <= 1
    /\ s # <<>> => Other(s) \in DOMAIN sh /\ ~sh[s].bs /\ sh[s].fsm.kind # "split"
    /\ sh[s].fsm.kind = "merge" => s # <<>> /\ sh[Other(s)].fsm = sh[s].fsm

\* A half of the workchain is there with the other half.
LEMMA HalvesTogether ==
  ASSUME NEW D, Full(D), \A s \in D : Len(s) <= 1, NEW s \in D, s # <<>>
  PROVE  Other(s) \in D
<1> DEFINE o == Other(s)
<1>1. s \in AllShards /\ D \subseteq AllShards BY DEF Full
<1>a. Len(s) \in Nat \ {0} BY <1>1 DEF AllShards
<1>2. Len(s) = 1
  <2>1. PICK n \in Nat \ {0} : n = Len(s) BY <1>a
  <2>2. n <= 1 BY <2>1
  <2>3. n = 1 BY <2>2
  <2> QED BY <2>1, <2>3
<1>3. o \in AllShards /\ Len(o) = 1 BY <1>1, <1>2, SiblingFacts
<1>4. PICK t \in D : Edge(o, t, 0) BY <1>3 DEF Full, Covering, Bits
<1>5. t \in AllShards /\ Len(t) \in Nat /\ Len(t) <= 1 BY <1>1 DEF AllShards
<1>b. Len(t) \in {0, 1} BY <1>5
<1>6. IsPrefix(t, o) \/ IsPrefix(o, t) BY <1>4 DEF Edge
<1> HIDE DEF o
<1>7. CASE Len(t) = 1 BY <1>3, <1>5, <1>6, <1>7, PrefixOrder DEF o
<1>8. CASE Len(t) = 0
  <2>1. IsPrefix(t, s) BY <1>1, <1>2, <1>8, <1>5, PrefixMeans
  <2>2. t = s BY <2>1 DEF Full, PrefixFree
  <2> QED BY <1>2, <1>8, <2>2
<1> QED BY <1>b, <1>7, <1>8

\* update_one_shard keeps it so, and gives up no merge window before its end.
LEMMA TwoUpdated ==
  ASSUME MaxSplit <= 1, NEW sh, OneOrTwo(sh), \A s \in DOMAIN sh : s \in AllShards /\ sh[s] \in Descrs,
         NEW now \in Nat, NEW rotate \in BOOLEAN, NEW nw, DOMAIN nw = DOMAIN sh,
         \A s \in DOMAIN sh : nw[s] = UpdateOneShard(s, sh[s], Siblings(sh, s), now, rotate)
  PROVE  /\ OneOrTwo(nw)
         /\ \A s \in DOMAIN sh : ~Alone(sh[s], Siblings(sh, s))
<1>0. \A s \in DOMAIN sh : Siblings(sh, s) \in SUBSET Descrs BY DEF Siblings
<1>1. ASSUME NEW s \in DOMAIN sh, s # <<>>
      PROVE  /\ Other(s) \in DOMAIN sh /\ Siblings(sh, s) = {sh[Other(s)]} /\ Siblings(sh, Other(s)) = {sh[s]}
             /\ Len(Other(s)) = Len(s) /\ Other(Other(s)) = s
             /\ ~sh[s].bs /\ ~sh[Other(s)].bs /\ sh[s].fsm.kind # "split"
  <2>1. Other(s) \in DOMAIN sh /\ ~sh[s].bs /\ sh[s].fsm.kind # "split" BY <1>1 DEF OneOrTwo
  <2>2. Other(s) # <<>> /\ Other(Other(s)) = s /\ Len(Other(s)) = Len(s) BY <1>1, SiblingFacts
  <2>3. ~sh[Other(s)].bs BY <2>1, <2>2 DEF OneOrTwo
  <2>4. Siblings(sh, s) = {sh[Other(s)]} /\ Siblings(sh, Other(s)) = {sh[s]} BY <1>1, <2>1, <2>2, SiblingsAre
  <2> QED BY <2>1, <2>2, <2>3, <2>4
<1>2. ASSUME NEW s \in DOMAIN sh PROVE ~Alone(sh[s], Siblings(sh, s))
  <2>1. SUFFICES ASSUME sh[s].fsm.kind = "merge" PROVE \E d \in Siblings(sh, s) : ~d.bs BY DEF Alone
  <2>2. s # <<>> BY <2>1 DEF OneOrTwo
  <2> QED BY <1>1, <2>2
<1>3. ASSUME NEW s \in DOMAIN sh
      PROVE  /\ nw[s].bs = sh[s].bs
             /\ sh[s].fsm.kind # "none" /\ ~Expired(sh[s], now) => nw[s].fsm = sh[s].fsm
             /\ nw[s].fsm.kind # "none" =>
                  \/ nw[s].fsm = sh[s].fsm /\ ~Expired(sh[s], now)
                  \/ nw[s].fsm = Window("split", now) /\ Len(s) < MaxSplit
                  \/ /\ nw[s].fsm = Window("merge", now) /\ ~sh[s].bs /\ Len(s) > MinSplit /\ Wanted(s, sh[s])
                     /\ \E d \in Siblings(sh, s) : ~d.bs /\ Wanted(s, d)
                     /\ \A d \in Siblings(sh, s) : d.fsm.kind = "none"
             /\ /\ ~sh[s].bs /\ sh[s].fsm.kind = "none" /\ Len(s) > MinSplit /\ Wanted(s, sh[s])
                /\ \E d \in Siblings(sh, s) : ~d.bs /\ Wanted(s, d)
                /\ \A d \in Siblings(sh, s) : d.fsm.kind = "none"
                => nw[s].fsm = Window("merge", now)
  <2>1. /\ s \in AllShards /\ sh[s] \in Descrs /\ Siblings(sh, s) \in SUBSET Descrs /\ ~Alone(sh[s], Siblings(sh, s))
        /\ nw[s] = UpdateOneShard(s, sh[s], Siblings(sh, s), now, rotate)
    BY <1>0, <1>2
  <2> QED BY <2>1, UpdateFacts, UpdateWindow
<1>4. Window("split", now).kind = "split" /\ Window("merge", now).kind = "merge" BY WindowTypes
<1>5. \A s \in DOMAIN sh : Len(s) \in Nat /\ Len(s) <= 1 /\ sh[s].fsm.kind \in Kinds /\ (s # <<>> => Len(s) = 1)
  <2>1. \A s \in DOMAIN sh : Len(s) \in Nat /\ (s # <<>> => Len(s) \in Nat \ {0}) BY DEF AllShards
  <2>2. \A s \in DOMAIN sh : Len(s) <= 1 BY DEF OneOrTwo
  <2>3. \A s \in DOMAIN sh : sh[s].fsm.kind \in Kinds BY DEF Descrs, WindowType
  <2>4. ASSUME NEW s \in DOMAIN sh, s # <<>> PROVE Len(s) = 1
    <3>1. PICK n \in Nat \ {0} : n = Len(s) BY <2>1, <2>4
    <3>2. n <= 1 BY <2>2, <3>1
    <3>3. n = 1 BY <3>2
    <3> QED BY <3>1, <3>3
  <2> QED BY <2>1, <2>2, <2>3, <2>4
<1>6. ASSUME NEW s \in DOMAIN sh, s # <<>> PROVE nw[s].fsm.kind # "split"
  <2>1. ~(Len(s) < MaxSplit) /\ sh[s].fsm.kind # "split" BY <1>1, <1>5, <1>6, SplitAssumption
  <2> QED BY <1>3, <1>4, <2>1
<1>7. ASSUME NEW s \in DOMAIN sh, nw[s].fsm.kind = "merge" PROVE s # <<>> /\ nw[Other(s)].fsm = nw[s].fsm
  <2> DEFINE o == Other(s)
  <2>1. CASE nw[s].fsm = sh[s].fsm /\ ~Expired(sh[s], now)
    <3>1. s # <<>> /\ sh[o].fsm = sh[s].fsm BY <1>7, <2>1 DEF OneOrTwo
    <3>2. o \in DOMAIN sh /\ ~sh[o].bs BY <1>1, <3>1
    <3>3. ~Expired(sh[o], now) /\ sh[o].fsm.kind # "none" BY <1>7, <2>1, <3>1, <3>2 DEF Expired
    <3>4. nw[o].fsm = sh[o].fsm BY <1>3, <3>2, <3>3
    <3> QED BY <2>1, <3>1, <3>4
  <2>2. CASE /\ nw[s].fsm = Window("merge", now) /\ ~sh[s].bs /\ Len(s) > MinSplit /\ Wanted(s, sh[s])
             /\ \E d \in Siblings(sh, s) : ~d.bs /\ Wanted(s, d)
             /\ \A d \in Siblings(sh, s) : d.fsm.kind = "none"
    <3>1. s # <<>> BY <2>2, SiblingsAre
    <3>2. /\ o \in DOMAIN sh /\ Siblings(sh, s) = {sh[o]} /\ Siblings(sh, o) = {sh[s]} /\ Len(o) = Len(s)
          /\ ~sh[s].bs /\ ~sh[o].bs /\ sh[s].fsm.kind # "split"
      BY <1>1, <3>1
    <3>3. sh[o].fsm.kind = "none" /\ Wanted(o, sh[s]) /\ Wanted(o, sh[o]) /\ Len(o) > MinSplit BY <2>2, <3>2 DEF Wanted
    <3>4. sh[s].fsm.kind # "merge" BY <3>1, <3>3 DEF OneOrTwo
    <3>5. sh[s].fsm.kind = "none" BY <1>5, <3>2, <3>4 DEF Kinds
    <3> HIDE DEF o
    <3>6. nw[o].fsm = Window("merge", now) BY <1>3, <3>2, <3>3, <3>5
    <3> QED BY <2>2, <3>1, <3>6 DEF o
  <2> QED BY <1>3, <1>4, <1>7, <2>1, <2>2
<1>8. ASSUME NEW s \in DOMAIN sh, s # <<>> PROVE Other(s) \in DOMAIN nw /\ ~nw[s].bs BY <1>1, <1>3, <1>8
<1>9. OneOrTwo(nw) BY <1>5, <1>6, <1>7, <1>8 DEF OneOrTwo
<1> QED BY <1>2, <1>9

\* So does import_new_shard_top_blocks.
LEMMA TwoImported ==
  ASSUME NEW c, NEW F, NEW picks, NEW tops, NEW now, Collates(c, F, picks, tops, now), OneOrTwo(c.shards),
         NEW rotate \in BOOLEAN, NEW new, new = NewLayout(c, tops, now, rotate), NEW sh, sh = Imported(c, tops)
  PROVE  OneOrTwo(sh)
<1> DEFINE D == DOMAIN c.shards
           E == DOMAIN sh
<1>0. GoodLayout(c) /\ D \subseteq AllShards BY DEF Collates, GoodLayout, Full
<1>1. Full(E) BY NewLayoutIs, NewLayoutUpdates DEF GoodLayout
<1>2. \A s \in E : /\ s \in AllShards
                   /\ s \in D => sh[s].fsm = c.shards[s].fsm
                   /\ s \notin D => sh[s].fsm.kind = "none"
  BY NewLayoutUpdates
<1>3. /\ \A x \in tops : sh[x.shard] = TopDescr(c, x)
      /\ \A s \in E : s \notin ShardsOf(tops) => s \in D /\ sh[s] = c.shards[s]
  BY ImportedIs
<1>4. ASSUME NEW s \in CalledFor(c) PROVE Len(s) <= 1
  <2>1. CASE RunsOn(c, s) BY <2>1 DEF RunsOn, OneOrTwo
  <2>2. ASSUME NEW p \in D, RunsHalf(c, p, s) PROVE Len(s) <= 1
    <3>1. c.shards[p].bs /\ IsParentOf(p, s) /\ s \in AllShards BY <2>2 DEF RunsHalf, Splitting
    <3>2. p = <<>> BY <3>1 DEF OneOrTwo
    <3>3. PICK bit \in Bits : s = Child(p, bit) BY <3>1, ParentGives
    <3>4. Len(s) = Len(p) + 1 BY <1>0, <3>3, Children
    <3> QED BY <3>2, <3>4
  <2>3. CASE RunsWhole(c, s)
    <3>1. 0 \in Bits BY DEF Bits
    <3>2. s \in AllShards /\ Child(s, 0) \in D BY <2>3, <3>1 DEF RunsWhole, Merging
    <3>3. Len(Child(s, 0)) = Len(s) + 1 /\ Len(Child(s, 0)) <= 1 /\ Len(s) \in Nat
      BY <3>1, <3>2, Children DEF OneOrTwo, AllShards
    <3> QED BY <3>3
  <2> QED BY <1>0, <2>1, <2>2, <2>3, SessionKinds
<1>5. ASSUME NEW s \in E PROVE Len(s) <= 1
  <2>1. CASE s \notin ShardsOf(tops) BY <1>3, <2>1 DEF OneOrTwo
  <2>2. CASE s \in ShardsOf(tops)
    <3>1. PICK x \in tops : x.shard = s BY <2>2 DEF ShardsOf
    <3> QED BY <1>4, <3>1, ImportedIsCurrent
  <2> QED BY <2>1, <2>2
<1>6. \A s \in E : s # <<>> => Other(s) \in E BY <1>1, <1>5, HalvesTogether
<1>7. ASSUME NEW s \in E, s # <<>> PROVE ~sh[s].bs
  <2>1. CASE s \notin ShardsOf(tops) BY <1>3, <1>7, <2>1 DEF OneOrTwo
  <2>2. CASE s \in ShardsOf(tops)
    <3>1. PICK x \in tops : x.shard = s BY <2>2 DEF ShardsOf
    <3>2. x.bs => s \in D /\ c.shards[s].fsm.kind = "split" BY <3>1, ImportedIsCurrent DEF RunsOn
    <3>3. ~x.bs BY <1>7, <3>2 DEF OneOrTwo
    <3>4. TopDescr(c, x).bs = x.bs BY DEF TopDescr
    <3> QED BY <1>3, <3>1, <3>3, <3>4
  <2> QED BY <2>1, <2>2
<1>8. ASSUME NEW s \in E, s # <<>> PROVE sh[s].fsm.kind # "split" BY <1>2, <1>8 DEF OneOrTwo
<1>9. ASSUME NEW s \in E, sh[s].fsm.kind = "merge" PROVE s # <<>> /\ sh[Other(s)].fsm = sh[s].fsm
  <2>1. s \in D /\ c.shards[s].fsm = sh[s].fsm BY <1>2, <1>9
  <2>2. s # <<>> /\ Other(s) \in D /\ c.shards[Other(s)].fsm = sh[s].fsm BY <1>9, <2>1 DEF OneOrTwo
  <2> QED BY <1>2, <1>6, <2>2
<1> QED BY <1>5, <1>6, <1>7, <1>8, <1>9 DEF OneOrTwo

AcceptedInv == LayoutInv /\ OneOrTwo(conf.shards) /\ ~refused

\* The first layouts.
LEMMA FirstTwo == MaxSplit <= 1 /\ LayoutInit => AcceptedInv
<1> SUFFICES ASSUME MaxSplit <= 1, LayoutInit PROVE AcceptedInv OBVIOUS
<1>1. PICK sh : /\ DOMAIN sh \in {{<<>>}, {<<0>>, <<1>>}} /\ DOMAIN conf.shards = DOMAIN sh
                /\ \A s \in DOMAIN sh : /\ conf.shards[s] = UpdateOneShard(s, sh[s], Siblings(sh, s), 0, FALSE)
                                        /\ s \in AllShards /\ sh[s] \in Descrs
                                        /\ ~sh[s].bs /\ sh[s].fsm.kind = "none"
  BY FirstIs
<1>2. Full(DOMAIN sh) BY <1>1, FirstLayouts
<1>3. \A s \in DOMAIN sh : Len(s) <= 1
  <2>1. Len(<<>>) <= 1 /\ Len(<<0>>) <= 1 /\ Len(<<1>>) <= 1 OBVIOUS
  <2> QED BY <1>1, <2>1
<1>4. \A s \in DOMAIN sh : s # <<>> => Other(s) \in DOMAIN sh BY <1>2, <1>3, HalvesTogether
<1>5. OneOrTwo(sh) BY <1>1, <1>3, <1>4 DEF OneOrTwo
<1>6. PICK z \in Nat, off \in BOOLEAN : z = 0 /\ off = FALSE OBVIOUS
<1>7. \A s \in DOMAIN sh : conf.shards[s] = UpdateOneShard(s, sh[s], Siblings(sh, s), z, off) BY <1>1, <1>6
<1>8. OneOrTwo(conf.shards) BY <1>1, <1>5, <1>7, TwoUpdated
<1>9. ~refused BY DEF LayoutInit
<1> QED BY <1>8, <1>9, FirstState DEF AcceptedInv

\* The masterchain block of a collator is accepted.
LEMMA NewMasterAccepted ==
  ASSUME MaxSplit <= 1, AcceptedInv, NEW now \in MasterTimes, NEW picks, NEW tops, NEW rotate \in Rotations, NEW new,
         Picked(conf, fresh, picks, now), tops = ImportedTops(conf, picks),
         new = NewLayout(conf, tops, now, rotate), NewMaster(tops, new, now, rotate)
  PROVE  ~refused' /\ OneOrTwo(conf'.shards)
<1>0. LayoutInv /\ GoodState(conf, fresh) /\ OneOrTwo(conf.shards) BY DEF AcceptedInv, LayoutInv
<1>1. now \in Nat /\ rotate \in BOOLEAN BY <1>0, TimesAreNumbers
<1>2. Collates(conf, fresh, picks, tops, now) BY <1>0, <1>1 DEF Collates, GoodState
<1>3. \A b \in fresh : Newer(conf, b) BY <1>0 DEF GoodState
<1>4. PICK sh : sh = Imported(conf, tops) OBVIOUS
<1>5. OneOrTwo(sh) BY <1>0, <1>1, <1>2, <1>4, TwoImported
<1>6. /\ DOMAIN new.shards = DOMAIN sh
      /\ \A s \in DOMAIN sh : /\ new.shards[s] = UpdateOneShard(s, sh[s], Siblings(sh, s), now, rotate)
                              /\ s \in AllShards /\ sh[s] \in Descrs
  BY <1>1, <1>2, <1>4, NewLayoutUpdates
<1>7. OneOrTwo(new.shards) /\ \A s \in DOMAIN sh : ~Alone(sh[s], Siblings(sh, s)) BY <1>1, <1>5, <1>6, TwoUpdated
<1>8. LayoutIsValid(conf, new, tops, now, rotate) BY <1>1, <1>2, <1>3, <1>4, <1>7, AcceptedUnlessAlone
<1>9. refused' = ~LayoutIsValid(conf, new, tops, now, rotate)
      /\ conf' = IF LayoutIsValid(conf, new, tops, now, rotate) THEN new ELSE conf
  BY Zenon DEF NewMaster
<1>10. ~refused' /\ conf' = new BY <1>8, <1>9
<1> QED BY <1>7, <1>10

\* Every step keeps the stronger invariant.
LEMMA AcceptedInvKept == MaxSplit <= 1 /\ AcceptedInv /\ [LayoutNext]_layoutVars => AcceptedInv'
<1> SUFFICES ASSUME MaxSplit <= 1, AcceptedInv, [LayoutNext]_layoutVars PROVE AcceptedInv' OBVIOUS
<1>0. LayoutInv' BY LayoutInvKept DEF AcceptedInv
<1>1. CASE UNCHANGED layoutVars BY <1>0, <1>1 DEF layoutVars, AcceptedInv
<1>2. ASSUME NEW s \in CalledFor(conf), NEW u \in ShardTimes, NEW want \in Wants, NewShardBlock(conf, s, u, want)
      PROVE  AcceptedInv'
  <2>1. conf' = conf /\ refused' = refused BY <1>2, Zenon DEF NewShardBlock
  <2> QED BY <1>0, <2>1 DEF AcceptedInv
<1>3. ASSUME NEW now \in MasterTimes, NEW picks \in Pools({b \in fresh : MayRegisterTop(conf, b, now)}),
             NEW rotate \in Rotations, NEW tops, tops = ImportedTops(conf, picks),
             NEW new, new = NewLayout(conf, tops, now, rotate), NewMaster(tops, new, now, rotate)
      PROVE  AcceptedInv'
  <2>1. Picked(conf, fresh, picks, now) BY DEF Pools, Picked
  <2>2. ~refused' /\ OneOrTwo(conf'.shards) BY <1>3, <2>1, NewMasterAccepted
  <2> QED BY <1>0, <2>2 DEF AcceptedInv
<1> QED BY <1>1, <1>2, <1>3 DEF LayoutNext

\* With max_split = 1 the validators (check_shard_layout, check_one_shard)
\* accept every configuration that a collator derives from the descriptions it
\* has.  For a deeper workchain this is false: a shard gives up a merge when
\* its sibling is about to split, and check_one_shard does not expect it.
THEOREM CollatorsAreAccepted == MaxSplit <= 1 => (LayoutSpec => []LayoutIsAccepted)
<1> SUFFICES ASSUME MaxSplit <= 1 PROVE LayoutSpec => []LayoutIsAccepted OBVIOUS
<1>1. LayoutInit => AcceptedInv BY FirstTwo
<1>2. AcceptedInv /\ [LayoutNext]_layoutVars => AcceptedInv' BY AcceptedInvKept
<1>3. AcceptedInv => LayoutIsAccepted BY DEF AcceptedInv, LayoutIsAccepted
<1> QED BY <1>1, <1>2, <1>3, PTL DEF LayoutSpec

=============================================================================
