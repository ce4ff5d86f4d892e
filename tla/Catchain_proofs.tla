-------------------------- MODULE Catchain_proofs ---------------------------
(***************************************************************************)
(* Proofs about the catchain processor, for any set of sources, any limit  *)
(* of dependencies, and any number of blocks, requests and blamed sources: *)
(* blocks are shown to the session in order, own blocks stay valid, and no *)
(* block is forgotten.                                                     *)
(*                                                                         *)
(* The graph of blocks is data without a bound, so that most of the work   *)
(* is induction over it: along the ranks of an acyclic graph, along the    *)
(* turns of a loop and down the heights of a fork.  Each induction is an   *)
(* instance of UpTo, which is about a set of numbers, and each recursive   *)
(* function is shown to solve its equation before that is used.            *)
(***************************************************************************)
EXTENDS Catchain, FiniteSetTheorems, SequenceTheorems, WellFoundedInduction, TLAPS

-----------------------------------------------------------------------------
(* Induction, as facts about sets of numbers                               *)

\* What holds for 0 and goes on from each number to the next holds up to n.
LEMMA UpTo ==
  ASSUME NEW n \in Nat, NEW G, 0 \in G, \A k \in 1 .. n : k - 1 \in G => k \in G
  PROVE  \A k \in 0 .. n : k \in G
<1> DEFINE bad == {k \in 0 .. n : k \notin G}
<1> SUFFICES ASSUME bad # {} PROVE FALSE OBVIOUS
<1>1. bad \subseteq Nat OBVIOUS
<1>2. PICK z \in bad : \A v \in bad : ~ (<<v, z>> \in OpToRel(<, Nat))
  BY <1>1, WFMin, NatLessThanWellFounded
<1>3. z \in 1 .. n OBVIOUS
<1>4. z - 1 \in G
  <2>1. SUFFICES ASSUME z - 1 \notin G PROVE FALSE OBVIOUS
  <2>2. z - 1 \in bad /\ z - 1 \in Nat /\ z \in Nat BY <1>3, <2>1
  <2>3. <<z - 1, z>> \in OpToRel(<, Nat) <=> z - 1 < z BY <2>2 DEF OpToRel
  <2>4. z - 1 < z BY <2>2
  <2> QED BY <1>2, <2>2, <2>3, <2>4, Zenon
<1> QED BY <1>3, <1>4

\* A bounded set of numbers has a greatest element, and Max is it.
LEMMA MaxOfBounded ==
  ASSUME NEW S \in SUBSET Nat, S # {}, NEW n \in Nat, \A y \in S : y <= n
  PROVE  Max(S) \in S /\ \A y \in S : y <= Max(S)
<1> DEFINE gap == {n - y : y \in S}
<1>1. \A y \in S : n - y \in Nat OBVIOUS
<1>2. gap \in SUBSET Nat /\ gap # {} BY <1>1
<1>3. PICK z \in gap : \A v \in gap : ~ (<<v, z>> \in OpToRel(<, Nat))
  BY <1>2, WFMin, NatLessThanWellFounded
<1>4. PICK x \in S : z = n - x OBVIOUS
<1>5. ASSUME NEW y \in S PROVE x >= y
  <2>1. n - y \in gap /\ n - y \in Nat /\ z \in Nat BY <1>2
  <2>2. <<n - y, z>> \in OpToRel(<, Nat) <=> n - y < z BY <2>1 DEF OpToRel
  <2>3. ~ (n - y < z) BY <1>3, <2>1, <2>2, Zenon
  <2> QED BY <1>4, <2>3
<1> QED BY <1>5 DEF Max

\* The states of a loop of n turns.
Turns(f, n, first, step) == f = [k \in 0 .. n |-> IF k = 0 THEN first ELSE step[k][f[k - 1]]]

\* A loop of n turns has a result.
LEMMA Loop ==
  ASSUME NEW n \in Nat, NEW S, NEW first \in S, NEW step \in [1 .. n -> [S -> S]]
  PROVE  \E f \in [0 .. n -> S] : Turns(f, n, first, step)
<1> DEFINE Upto(f, j) == f[0] = first /\ \A k \in 1 .. j : f[k] = step[k][f[k - 1]]
           G == {j \in 0 .. n : \E f \in [0 .. n -> S] : Upto(f, j)}
<1>1. 0 \in G
  <2> DEFINE g == [k \in 0 .. n |-> first]
  <2>1. g \in [0 .. n -> S] /\ Upto(g, 0) OBVIOUS
  <2> HIDE DEF g
  <2> QED BY <2>1
<1>2. ASSUME NEW j \in 1 .. n, j - 1 \in G PROVE j \in G
  <2>1. PICK f \in [0 .. n -> S] : Upto(f, j - 1) BY <1>2
  <2> DEFINE g == [f EXCEPT ![j] = step[j][f[j - 1]]]
  <2>2. step[j][f[j - 1]] \in S /\ g \in [0 .. n -> S] OBVIOUS
  <2>3. g[0] = first /\ \A k \in 1 .. j : g[k] = step[k][g[k - 1]] BY <2>1
  <2> HIDE DEF g
  <2> QED BY <2>2, <2>3
<1>3. n \in G
  <2> HIDE DEF G
  <2>1. \A j \in 1 .. n : j - 1 \in G => j \in G BY <1>2
  <2>2. \A k \in 0 .. n : k \in G BY <1>1, <2>1, UpTo
  <2> QED BY <2>2
<1>4. PICK f \in [0 .. n -> S] : Upto(f, n) BY <1>3
<1>5. Turns(f, n, first, step) BY <1>4 DEF Turns
<1> QED BY <1>5

\* SetToSeq lists a finite set.
LEMMA Listed ==
  ASSUME NEW S, IsFiniteSet(S)
  PROVE  /\ SetToSeq(S) \in Seq(S) /\ Len(SetToSeq(S)) = Cardinality(S) /\ Cardinality(S) \in Nat
         /\ S = {SetToSeq(S)[i] : i \in 1 .. Len(SetToSeq(S))}
<1> DEFINE n == Cardinality(S)
           q == SetToSeq(S)
<1>1. n \in Nat /\ ExistsBijection(1 .. n, S) BY FS_CardinalityType
<1>2. \E f \in [1 .. n -> S] : IsInjective(f) BY <1>1 DEF ExistsBijection, Bijection, Injection
<1>3. q \in [1 .. n -> S] /\ IsInjective(q) BY <1>2 DEF SetToSeq
<1>4. IsFiniteSet(1 .. n) /\ Cardinality(1 .. n) = n BY <1>1, FS_Interval
<1> HIDE DEF q, n
<1>5. q \in Injection(1 .. n, S) BY <1>3 DEF Injection
<1>8. Cardinality(1 .. n) = Cardinality(S) BY <1>4 DEF n
<1>9. q \in Surjection(1 .. n, S) BY <1>5, <1>8, FS_Injection
<1>6. \A x \in S : \E i \in 1 .. n : q[i] = x BY <1>9 DEF Surjection
<1>7. q \in Seq(S) /\ Len(q) = n BY <1>1, <1>3
<1> QED BY <1>1, <1>3, <1>6, <1>7 DEF q, n

-----------------------------------------------------------------------------
(* Graphs of blocks and what a block depends on                            *)

\* Every block that is named is in the graph.
Whole(graph) == \A b \in DOMAIN graph : Named(graph[b]) \subseteq DOMAIN graph

\* Blocks name older ones.
Older(graph, rank) == \A b \in DOMAIN graph : \A a \in Named(graph[b]) : rank[a] < rank[b]
Acyclic(graph) == \E n \in Nat : \E rank \in [DOMAIN graph -> 0 .. n] : Older(graph, rank)

\* A set of blocks that has everything its blocks name.
Closed(graph, C) == C \subseteq DOMAIN graph /\ \A b \in C : Named(graph[b]) \subseteq C

\* The function that Ancestors uses, and one that solves its equation: what is
\* in every closed set around a block.
From(graph) == CHOOSE from : from = [b \in DOMAIN graph |-> {b} \cup UNION {from[a] : a \in Named(graph[b])}]
InAll(graph, b) == {a \in DOMAIN graph : \A C : Closed(graph, C) /\ b \in C => a \in C}

\* The set of those of a block is closed, and the equation holds for them.
LEMMA InAllSolves ==
  ASSUME NEW graph, Whole(graph), NEW b \in DOMAIN graph
  PROVE  InAll(graph, b) = {b} \cup UNION {InAll(graph, a) : a \in Named(graph[b])}
<1> DEFINE U == {b} \cup UNION {InAll(graph, a) : a \in Named(graph[b])}
<1>1. ASSUME NEW c \in DOMAIN graph PROVE c \in InAll(graph, c) /\ Closed(graph, InAll(graph, c))
  <2>1. c \in InAll(graph, c) BY <1>1 DEF InAll
  <2>2. ASSUME NEW x \in InAll(graph, c), NEW y \in Named(graph[x]) PROVE y \in InAll(graph, c)
    <3>1. x \in DOMAIN graph /\ y \in DOMAIN graph BY <2>2 DEF InAll, Whole
    <3>2. ASSUME NEW C, Closed(graph, C), c \in C PROVE y \in C
      <4>1. x \in C BY <3>2 DEF InAll
      <4> QED BY <3>2, <4>1, <2>2 DEF Closed
    <3> QED BY <3>1, <3>2 DEF InAll
  <2>3. InAll(graph, c) \subseteq DOMAIN graph BY DEF InAll
  <2> QED BY <2>1, <2>2, <2>3 DEF Closed
<1>2. Named(graph[b]) \subseteq DOMAIN graph BY DEF Whole
<1>3. U \subseteq InAll(graph, b)
  <2>1. b \in InAll(graph, b) BY <1>1
  <2>2. ASSUME NEW a \in Named(graph[b]), NEW x \in InAll(graph, a) PROVE x \in InAll(graph, b)
    <3>1. a \in InAll(graph, b) /\ Closed(graph, InAll(graph, b)) BY <1>1, <2>1 DEF Closed
    <3> QED BY <3>1 DEF InAll
  <2> QED BY <2>1, <2>2
<1>4. Closed(graph, U)
  <2>1. U \subseteq DOMAIN graph BY DEF InAll
  <2>2. ASSUME NEW x \in U, NEW y \in Named(graph[x]) PROVE y \in U
    <3>1. CASE x = b
      <4>1. y \in InAll(graph, y) BY <1>1, <1>2, <2>2, <3>1
      <4> QED BY <2>2, <3>1, <4>1
    <3>2. ASSUME NEW a \in Named(graph[b]), x \in InAll(graph, a) PROVE y \in U
      <4>1. y \in InAll(graph, a) BY <1>1, <1>2, <2>2, <3>2 DEF Closed
      <4> QED BY <4>1
    <3> QED BY <2>2, <3>1, <3>2
  <2> QED BY <2>1, <2>2 DEF Closed
<1>5. InAll(graph, b) \subseteq U
  <2>1. b \in U OBVIOUS
  <2> HIDE DEF U
  <2> QED BY <1>4, <2>1 DEF InAll
<1> QED BY <1>3, <1>5

\* What From is.
LEMMA FromIs ==
  ASSUME NEW graph, Whole(graph)
  PROVE  /\ \A bs : Ancestors(graph, bs) = UNION {From(graph)[b] : b \in bs}
         /\ \A b \in DOMAIN graph : From(graph)[b] = {b} \cup UNION {From(graph)[a] : a \in Named(graph[b])}
<1>1. \A bs : Ancestors(graph, bs) = UNION {From(graph)[b] : b \in bs} BY DEF Ancestors, From
<1> DEFINE f == [b \in DOMAIN graph |-> InAll(graph, b)]
           F(g) == [b \in DOMAIN graph |-> {b} \cup UNION {g[a] : a \in Named(graph[b])}]
<1>2. ASSUME NEW b \in DOMAIN graph PROVE f[b] = {b} \cup UNION {f[a] : a \in Named(graph[b])}
  <2>1. {f[a] : a \in Named(graph[b])} = {InAll(graph, a) : a \in Named(graph[b])} BY DEF Whole
  <2> QED BY <2>1, InAllSolves
<1>3. f = F(f) BY <1>2
<1>4. From(graph) = F(From(graph))
  <2> HIDE DEF f
  <2> QED BY <1>3 DEF From
<1> QED BY <1>1, <1>4

\* Ancestors is the least closed set around some blocks.
LEMMA AncestorsAre ==
  ASSUME NEW graph, Whole(graph), Acyclic(graph), NEW bs, bs \subseteq DOMAIN graph
  PROVE  /\ bs \subseteq Ancestors(graph, bs) /\ Closed(graph, Ancestors(graph, bs))
         /\ \A C : Closed(graph, C) /\ bs \subseteq C => Ancestors(graph, bs) \subseteq C
<1> DEFINE D == DOMAIN graph
           from == From(graph)
<1>1. /\ Ancestors(graph, bs) = UNION {from[b] : b \in bs}
      /\ \A b \in D : from[b] = {b} \cup UNION {from[a] : a \in Named(graph[b])}
  BY FromIs
<1>2. \A b \in D : Named(graph[b]) \subseteq D BY DEF Whole
<1> HIDE DEF D, from
<1>12. PICK n \in Nat : \E rank \in [D -> 0 .. n] : Older(graph, rank) BY DEF Acyclic, D
<1>3. PICK rank \in [D -> 0 .. n] : Older(graph, rank) BY <1>12
<1>4. \A b \in D : \A a \in Named(graph[b]) : rank[a] < rank[b] BY <1>3 DEF Older, D
<1>5. ASSUME NEW C \in SUBSET D, \A c \in C : Named(graph[c]) \subseteq C PROVE \A b \in C : from[b] \subseteq C
  <2> DEFINE G == {k \in Nat : \A b \in C : rank[b] < k => from[b] \subseteq C}
  <2>1. 0 \in G BY <1>3
  <2>2. ASSUME NEW k \in 1 .. n + 1, k - 1 \in G PROVE k \in G
    <3>1. ASSUME NEW b \in C, rank[b] < k PROVE from[b] \subseteq C
      <4>1. \A a \in Named(graph[b]) : a \in C /\ a \in D /\ rank[a] < k - 1 BY <1>2, <1>3, <1>4, <1>5, <3>1
      <4>2. \A a \in Named(graph[b]) : from[a] \subseteq C BY <2>2, <4>1
      <4>3. from[b] = {b} \cup UNION {from[a] : a \in Named(graph[b])} BY <1>1
      <4> QED BY <4>2, <4>3
    <3> QED BY <3>1
  <2>3. \A k \in 0 .. n + 1 : k \in G
    <3> HIDE DEF G
    <3>1. \A k \in 1 .. n + 1 : k - 1 \in G => k \in G BY <2>2
    <3> QED BY <2>1, <3>1, UpTo
  <2>4. n + 1 \in G BY <2>3
  <2> QED BY <1>3, <2>4
<1>6. \A b \in D : b \in from[b] /\ from[b] \subseteq D
  <2>1. \A b \in D : b \in from[b] BY <1>1
  <2>2. \A b \in D : from[b] \subseteq D BY <1>2, <1>5
  <2> QED BY <2>1, <2>2
<1>7. \A b \in D : \A x \in from[b] : Named(graph[x]) \subseteq from[b]
  <2> DEFINE G == {k \in Nat : \A b \in D : rank[b] < k => \A x \in from[b] : Named(graph[x]) \subseteq from[b]}
  <2>1. 0 \in G BY <1>3
  <2>2. ASSUME NEW k \in 1 .. n + 1, k - 1 \in G PROVE k \in G
    <3>1. ASSUME NEW b \in D, rank[b] < k, NEW x \in from[b], NEW y \in Named(graph[x]) PROVE y \in from[b]
      <4>0. from[b] = {b} \cup UNION {from[a] : a \in Named(graph[b])} BY <1>1
      <4>1. CASE x = b
        <5>1. y \in from[y] /\ y \in Named(graph[b]) BY <1>2, <1>6, <3>1, <4>1
        <5> QED BY <4>0, <5>1
      <4>2. ASSUME NEW a \in Named(graph[b]), x \in from[a] PROVE y \in from[b]
        <5>1. a \in D /\ rank[a] < k - 1 BY <1>2, <1>3, <1>4, <3>1
        <5>2. y \in from[a] BY <2>2, <3>1, <4>2, <5>1
        <5> QED BY <4>0, <5>2
      <4> QED BY <3>1, <4>0, <4>1, <4>2
    <3> QED BY <3>1
  <2>3. \A k \in 0 .. n + 1 : k \in G
    <3> HIDE DEF G
    <3>1. \A k \in 1 .. n + 1 : k - 1 \in G => k \in G BY <2>2
    <3> QED BY <2>1, <3>1, UpTo
  <2>4. n + 1 \in G BY <2>3
  <2> QED BY <1>3, <2>4
<1>8. bs \subseteq D BY DEF D
<1>9. bs \subseteq Ancestors(graph, bs) BY <1>1, <1>6, <1>8
<1>10. Closed(graph, Ancestors(graph, bs))
  <2>1. Ancestors(graph, bs) \subseteq D BY <1>1, <1>6, <1>8
  <2>2. \A x \in Ancestors(graph, bs) : Named(graph[x]) \subseteq Ancestors(graph, bs) BY <1>1, <1>7, <1>8
  <2> QED BY <2>1, <2>2 DEF Closed, D
<1>11. ASSUME NEW C, Closed(graph, C), bs \subseteq C PROVE Ancestors(graph, bs) \subseteq C
  <2>1. C \in SUBSET D /\ \A c \in C : Named(graph[c]) \subseteq C BY <1>11 DEF Closed, D
  <2>2. \A b \in C : from[b] \subseteq C BY <1>5, <2>1
  <2> QED BY <1>1, <1>11, <2>2
<1> QED BY <1>9, <1>10, <1>11

-----------------------------------------------------------------------------
(* The loop of recursive_blocks_update                                     *)

Good(graph) ==
  /\ IsFiniteSet(DOMAIN graph) /\ Whole(graph) /\ Acyclic(graph)
  /\ \A b \in DOMAIN graph : Cardinality(Named(graph[b])) <= MaxDeps + 1

Visits(D) == [stack : Seq(D), marked : SUBSET D, order : Seq(D)]

\* The three kinds of turns.
Pops(m, n) ==
  Last(m.stack) \in m.marked /\ n.stack = Front(m.stack) /\ n.marked = m.marked /\ n.order = m.order
Marks(graph, m, n) ==
  LET b == Last(m.stack)
  IN  /\ b \notin m.marked /\ Named(graph[b]) \subseteq m.marked
      /\ n.stack = Front(m.stack) /\ n.marked = m.marked \cup {b} /\ n.order = Append(m.order, b)
Waits(graph, m, n) ==
  LET b == Last(m.stack)
  IN  /\ b \notin m.marked /\ ~(Named(graph[b]) \subseteq m.marked)
      /\ n.marked = m.marked /\ n.order = m.order
      /\ \E w \in Seq(Named(graph[b]) \ m.marked) :
           /\ n.stack = m.stack \o w /\ Len(w) <= MaxDeps + 1
           /\ \A a \in Named(graph[b]) \ m.marked : \E i \in 1 .. Len(w) : w[i] = a

\* The blocks that are pushed are those that are waited for.
LEMMA PushedIs ==
  ASSUME NEW S, IsFiniteSet(S), NEW x
  PROVE  /\ Pushed(S, x) \in Seq(S) /\ Len(Pushed(S, x)) = Cardinality(S)
         /\ \A a \in S : \E i \in 1 .. Len(Pushed(S, x)) : Pushed(S, x)[i] = a
<1> DEFINE A == S \ {x}
           B == S \cap {x}
           u == SetToSeq(A)
           v == SetToSeq(B)
           w == Pushed(S, x)
<1>0. w = u \o v BY DEF Pushed
<1>1. IsFiniteSet(A) /\ IsFiniteSet(B) BY FS_Difference, FS_Intersection
<1>2. /\ Cardinality(A) = Cardinality(S) - Cardinality(S \cap {x})
      /\ Cardinality(S) \in Nat /\ Cardinality(B) \in Nat
  BY <1>1, FS_Difference, FS_CardinalityType
<1>3. Cardinality(A) + Cardinality(B) = Cardinality(S) BY <1>2
<1>4. /\ u \in Seq(A) /\ Len(u) = Cardinality(A) /\ A = {u[i] : i \in 1 .. Len(u)}
      /\ v \in Seq(B) /\ Len(v) = Cardinality(B) /\ B = {v[i] : i \in 1 .. Len(v)}
  BY <1>1, Listed
<1>5. A \subseteq S /\ B \subseteq S /\ S = A \cup B OBVIOUS
<1> HIDE DEF A, B, u, v, w
<1>6. u \in Seq(S) /\ v \in Seq(S)
  <2>1. u \in Seq(A) /\ v \in Seq(B) BY <1>4
  <2>2. u \in Seq(S) BY <1>5, <2>1, SeqMonotonic
  <2>3. v \in Seq(S) BY <1>5, <2>1, SeqMonotonic
  <2> QED BY <2>2, <2>3
<1>7. w \in Seq(S) /\ Len(w) = Len(u) + Len(v) BY <1>0, <1>6
<1>8. \A a \in A : \E i \in 1 .. Len(w) : w[i] = a
  <2>1. \A i \in 1 .. Len(u) : i \in 1 .. Len(w) /\ w[i] = u[i] BY <1>0, <1>6, <1>7
  <2> QED BY <1>4, <2>1
<1>9. \A a \in B : \E i \in 1 .. Len(w) : w[i] = a
  <2>1. \A i \in 1 .. Len(v) : Len(u) + i \in 1 .. Len(w) /\ w[Len(u) + i] = v[i] BY <1>0, <1>6, <1>7
  <2> QED BY <1>4, <2>1
<1>10. Len(w) = Cardinality(S) BY <1>3, <1>4, <1>7
<1>11. \A a \in S : \E i \in 1 .. Len(w) : w[i] = a BY <1>5, <1>8, <1>9
<1> QED BY <1>7, <1>10, <1>11 DEF w

\* What a turn does.
LEMMA TurnIs ==
  ASSUME NEW graph, Good(graph), NEW m \in Visits(DOMAIN graph)
  PROVE  /\ NextTurn(graph, m) \in Visits(DOMAIN graph)
         /\ m.stack = <<>> => NextTurn(graph, m) = m
         /\ m.stack # <<>> => /\ Last(m.stack) \in DOMAIN graph
                             /\ \/ Pops(m, NextTurn(graph, m)) \/ Marks(graph, m, NextTurn(graph, m))
                                \/ Waits(graph, m, NextTurn(graph, m))
<1> DEFINE D == DOMAIN graph
           n == NextTurn(graph, m)
           b == Last(m.stack)
           waited == Named(graph[b]) \ m.marked
           prev == graph[b].prev
<1>0. m.stack \in Seq(D) /\ m.marked \in SUBSET D /\ m.order \in Seq(D) BY DEF Visits
<1>1. CASE m.stack = <<>>
  <2>1. n = m BY <1>1 DEF NextTurn
  <2> QED BY <1>1, <2>1
<1>2. CASE m.stack # <<>>
  <2>1. b \in D /\ Front(m.stack) \in Seq(D) BY <1>0, <1>2 DEF Last, Front
  <2>2. n = VisitBlock(m, b, waited, prev) BY <1>2 DEF NextTurn
  <2>3. CASE b \in m.marked
    <3>1. n = [m EXCEPT !.stack = Front(@)] BY <2>2, <2>3 DEF VisitBlock
    <3>2. n.stack = Front(m.stack) /\ n.marked = m.marked /\ n.order = m.order BY <3>1 DEF Visits
    <3>3. n \in Visits(D) BY <2>1, <3>1 DEF Visits
    <3> QED BY <1>2, <2>1, <2>3, <3>2, <3>3 DEF Pops
  <2>4. CASE b \notin m.marked /\ waited # {}
    <3> DEFINE w == Pushed(waited, prev)
    <3>1. n = [m EXCEPT !.stack = @ \o w] BY <2>2, <2>4 DEF VisitBlock
    <3>2. /\ Named(graph[b]) \subseteq D /\ Cardinality(Named(graph[b])) <= MaxDeps + 1 /\ IsFiniteSet(D)
      BY <2>1 DEF Good, Whole
    <3>3. IsFiniteSet(Named(graph[b])) BY <3>2, FS_Subset
    <3>4. IsFiniteSet(waited) /\ Cardinality(waited) <= Cardinality(Named(graph[b])) BY <3>3, FS_Subset
    <3>5. w \in Seq(waited) /\ Len(w) = Cardinality(waited) /\ \A a \in waited : \E i \in 1 .. Len(w) : w[i] = a
      <4> HIDE DEF waited, prev
      <4> QED BY <3>4, PushedIs
    <3>6. Len(w) <= MaxDeps + 1
      <4>1. Cardinality(waited) \in Nat /\ Cardinality(Named(graph[b])) \in Nat /\ MaxDeps \in Nat
        BY <3>3, <3>4, FS_CardinalityType, BoundsAssumption
      <4> QED BY <3>2, <3>4, <3>5, <4>1
    <3>7. w \in Seq(D)
      <4>1. waited \subseteq D BY <3>2
      <4> HIDE DEF waited, w
      <4> QED BY <3>5, <4>1, SeqMonotonic
    <3> HIDE DEF w
    <3>8. n.stack = m.stack \o w /\ n.marked = m.marked /\ n.order = m.order BY <3>1 DEF Visits
    <3>9. n \in Visits(D)
      <4>1. m.stack \o w \in Seq(D) BY <1>0, <3>7
      <4> QED BY <3>1, <4>1 DEF Visits
    <3>10. Waits(graph, m, n)
      <4>1. ~(Named(graph[b]) \subseteq m.marked) BY <2>4
      <4> QED BY <2>4, <3>5, <3>6, <3>8, <4>1 DEF Waits
    <3> QED BY <1>2, <2>1, <3>9, <3>10
  <2>5. CASE b \notin m.marked /\ waited = {}
    <3>1. n = [stack |-> Front(m.stack), marked |-> m.marked \cup {b}, order |-> Append(m.order, b)]
      BY <2>2, <2>5 DEF VisitBlock
    <3>2. Append(m.order, b) \in Seq(D) BY <1>0, <2>1
    <3>3. n \in Visits(D) BY <1>0, <2>1, <3>1, <3>2 DEF Visits
    <3>4. Marks(graph, m, n)
      <4>1. Named(graph[b]) \subseteq m.marked BY <2>5
      <4> QED BY <2>5, <3>1, <4>1 DEF Marks
    <3> QED BY <1>2, <2>1, <3>3, <3>4
  <2> QED BY <2>3, <2>4, <2>5
<1> QED BY <1>1, <1>2

\* What has been marked is in order: each block after those it names.
Orderly(graph, marked, v) ==
  /\ v.marked = marked \cup ToSet(v.order)
  /\ \A j \in 1 .. Len(v.order) : \A a \in Named(graph[v.order[j]]) :
       a \in marked \/ \E i \in 1 .. j - 1 : v.order[i] = a

\* The visit is not over before its first block is marked.
Rooted(b, v) == IF v.stack = <<>> THEN b \in v.marked ELSE v.stack[1] = b

\* The visit stays in a set of blocks.
Within(C, v) == v.marked \subseteq C /\ \A i \in 1 .. Len(v.stack) : v.stack[i] \in C

\* The stack without its top.
LEMMA FrontIs ==
  ASSUME NEW S, NEW s \in Seq(S), s # <<>>
  PROVE  /\ Front(s) \in Seq(S) /\ Len(Front(s)) = Len(s) - 1 /\ Len(s) \in Nat \ {0} /\ Last(s) = s[Len(s)]
         /\ \A i \in 1 .. Len(s) - 1 : Front(s)[i] = s[i]
         /\ Front(s) = <<>> <=> Len(s) = 1
<1>1. Len(s) \in Nat \ {0} OBVIOUS
<1>2. PICK n \in Nat : Len(s) = n + 1 BY <1>1
<1> DEFINE f == SubSeq(s, 1, n)
<1>3. f \in Seq(S) /\ Len(f) = n /\ \A i \in 1 .. n : f[i] = s[i] BY <1>2
<1>4. Front(s) = f BY <1>2 DEF Front
<1> HIDE DEF f
<1>5. f = <<>> <=> Len(f) = 0 BY <1>3
<1> QED BY <1>1, <1>2, <1>3, <1>4, <1>5 DEF Last

\* A turn keeps the order, the root and the sets that the visit stays in.
LEMMA TurnKeeps ==
  ASSUME NEW graph, Good(graph), NEW m \in Visits(DOMAIN graph), NEW n, n = NextTurn(graph, m)
  PROVE  /\ \A marked : Orderly(graph, marked, m) => Orderly(graph, marked, n)
         /\ \A b : Rooted(b, m) => Rooted(b, n)
         /\ \A C : Closed(graph, C) /\ Within(C, m) => Within(C, n)
         /\ Closed(graph, m.marked) => Closed(graph, n.marked)
<1> DEFINE D == DOMAIN graph
           t == Last(m.stack)
<1>0. /\ m.stack \in Seq(D) /\ m.marked \in SUBSET D /\ m.order \in Seq(D)
      /\ n.stack \in Seq(D) /\ n.marked \in SUBSET D /\ n.order \in Seq(D)
  BY TurnIs DEF Visits
<1>1. CASE m.stack = <<>>
  <2>1. n = m BY <1>1, TurnIs
  <2> QED BY <2>1
<1>2. CASE m.stack # <<>>
  <2>1. /\ Front(m.stack) \in Seq(D) /\ Len(Front(m.stack)) = Len(m.stack) - 1 /\ Len(m.stack) \in Nat \ {0}
        /\ t = m.stack[Len(m.stack)] /\ \A i \in 1 .. Len(m.stack) - 1 : Front(m.stack)[i] = m.stack[i]
        /\ Front(m.stack) = <<>> <=> Len(m.stack) = 1
    BY <1>0, <1>2, FrontIs
  <2>2. t \in D /\ Named(graph[t]) \subseteq D BY <1>2, TurnIs DEF Good, Whole
  <2> HIDE DEF t
  <2>3. CASE Pops(m, n)
    <3>1. t \in m.marked /\ n.stack = Front(m.stack) /\ n.marked = m.marked /\ n.order = m.order
      BY <2>3 DEF Pops, t
    <3>2. \A marked : Orderly(graph, marked, m) => Orderly(graph, marked, n) BY <3>1 DEF Orderly
    <3>3. \A b : Rooted(b, m) => Rooted(b, n) BY <1>2, <2>1, <3>1 DEF Rooted
    <3>4. \A C : Within(C, m) => Within(C, n) BY <2>1, <3>1 DEF Within
    <3> QED BY <3>1, <3>2, <3>3, <3>4
  <2>4. CASE Marks(graph, m, n)
    <3>1. /\ Named(graph[t]) \subseteq m.marked /\ n.stack = Front(m.stack) /\ n.marked = m.marked \cup {t}
          /\ n.order = Append(m.order, t)
      BY <2>4 DEF Marks, t
    <3>2. ASSUME NEW marked, Orderly(graph, marked, m) PROVE Orderly(graph, marked, n)
      <4>1. /\ Len(n.order) = Len(m.order) + 1 /\ Len(m.order) \in Nat /\ n.order[Len(m.order) + 1] = t
            /\ \A i \in 1 .. Len(m.order) : n.order[i] = m.order[i]
        BY <1>0, <2>2, <3>1
      <4>2. ToSet(n.order) = ToSet(m.order) \cup {t}
        <5>1. DOMAIN n.order = 1 .. Len(m.order) + 1 /\ DOMAIN m.order = 1 .. Len(m.order) BY <1>0, <4>1
        <5> QED BY <4>1, <5>1 DEF ToSet
      <4>3. n.marked = marked \cup ToSet(n.order) BY <3>1, <3>2, <4>2 DEF Orderly
      <4>4. m.marked = marked \cup ToSet(m.order) /\ DOMAIN m.order = 1 .. Len(m.order) BY <1>0, <3>2 DEF Orderly
      <4>5. ASSUME NEW j \in 1 .. Len(n.order), NEW a \in Named(graph[n.order[j]])
            PROVE  a \in marked \/ \E i \in 1 .. j - 1 : n.order[i] = a
        <5>1. CASE j \in 1 .. Len(m.order) BY <3>2, <4>1, <4>5, <5>1 DEF Orderly
        <5>2. CASE j = Len(m.order) + 1
          <6>1. a \in m.marked BY <3>1, <4>1, <4>5, <5>2
          <6>2. a \in marked \/ \E i \in 1 .. Len(m.order) : m.order[i] = a BY <4>4, <6>1 DEF ToSet
          <6> QED BY <4>1, <5>2, <6>2
        <5> QED BY <4>1, <5>1, <5>2
      <4> QED BY <4>3, <4>5 DEF Orderly
    <3>3. \A b : Rooted(b, m) => Rooted(b, n) BY <1>2, <2>1, <3>1 DEF Rooted
    <3>4. \A C : Within(C, m) => Within(C, n) BY <2>1, <3>1 DEF Within
    <3>5. Closed(graph, m.marked) => Closed(graph, n.marked) BY <2>2, <3>1 DEF Closed
    <3> QED BY <3>2, <3>3, <3>4, <3>5
  <2>5. CASE Waits(graph, m, n)
    <3>1. /\ n.marked = m.marked /\ n.order = m.order
          /\ \E w \in Seq(Named(graph[t]) \ m.marked) : n.stack = m.stack \o w
      BY <2>5 DEF Waits, t
    <3>2. PICK w \in Seq(Named(graph[t]) \ m.marked) : n.stack = m.stack \o w BY <3>1
    <3>3. w \in Seq(D) BY <2>2
    <3>4. /\ Len(n.stack) = Len(m.stack) + Len(w) /\ Len(w) \in Nat
          /\ \A i \in 1 .. Len(m.stack) : n.stack[i] = m.stack[i]
          /\ \A i \in Len(m.stack) + 1 .. Len(n.stack) : n.stack[i] \in Named(graph[t])
      <4>1. /\ Len(n.stack) = Len(m.stack) + Len(w) /\ Len(w) \in Nat
            /\ \A i \in 1 .. Len(m.stack) : n.stack[i] = m.stack[i]
            /\ \A i \in Len(m.stack) + 1 .. Len(n.stack) : n.stack[i] = w[i - Len(m.stack)]
        BY <1>0, <3>2, <3>3
      <4>2. \A i \in 1 .. Len(w) : w[i] \in Named(graph[t]) OBVIOUS
      <4>3. \A i \in Len(m.stack) + 1 .. Len(n.stack) : i - Len(m.stack) \in 1 .. Len(w) BY <2>1, <4>1
      <4>4. \A i \in Len(m.stack) + 1 .. Len(n.stack) : w[i - Len(m.stack)] \in Named(graph[t]) BY <4>2, <4>3
      <4>5. ASSUME NEW i \in Len(m.stack) + 1 .. Len(n.stack) PROVE n.stack[i] \in Named(graph[t])
        <5>1. n.stack[i] = w[i - Len(m.stack)] BY <4>1
        <5>2. w[i - Len(m.stack)] \in Named(graph[t]) BY <4>4
        <5> QED BY <5>1, <5>2
      <4> QED BY <4>1, <4>5
    <3>5. \A marked : Orderly(graph, marked, m) => Orderly(graph, marked, n)
      <4>1. n.marked = m.marked /\ n.order = m.order BY <3>1
      <4> QED BY <4>1 DEF Orderly
    <3>6. \A b : Rooted(b, m) => Rooted(b, n)
      <4>1. n.stack # <<>> /\ 1 \in 1 .. Len(m.stack) BY <1>0, <2>1, <3>4
      <4>2. n.stack[1] = m.stack[1] BY <3>4, <4>1
      <4> QED BY <1>2, <4>1, <4>2 DEF Rooted
    <3>7. ASSUME NEW C, Closed(graph, C), Within(C, m) PROVE Within(C, n)
      <4>1. t \in C BY <2>1, <3>7 DEF Within
      <4>2. Named(graph[t]) \subseteq C BY <3>7, <4>1 DEF Closed
      <4>3. \A i \in 1 .. Len(n.stack) : n.stack[i] \in C
        <5>1. \A i \in 1 .. Len(m.stack) : m.stack[i] \in C BY <3>7 DEF Within
        <5>2. \A i \in 1 .. Len(n.stack) : i \in 1 .. Len(m.stack) \/ i \in Len(m.stack) + 1 .. Len(n.stack)
          BY <2>1, <3>4
        <5> QED BY <3>4, <4>2, <5>1, <5>2
      <4> QED BY <3>1, <3>7, <4>3 DEF Within
    <3> QED BY <3>1, <3>5, <3>6, <3>7
  <2> QED BY <1>2, <2>3, <2>4, <2>5, TurnIs DEF t
<1> QED BY <1>1, <1>2

-----------------------------------------------------------------------------
(* The loop ends: a block is left to others only once                      *)

\* The blocks of E wait in the stack below blocks that are older, among them
\* all those that they wait for.
WaitsBelow(graph, rank, v, x) ==
  \E p \in 1 .. Len(v.stack) :
    /\ v.stack[p] = x
    /\ \A i \in p + 1 .. Len(v.stack) : rank[v.stack[i]] < rank[x]
    /\ \A a \in Named(graph[x]) \ v.marked : \E i \in p + 1 .. Len(v.stack) : v.stack[i] = a
Waiting(graph, rank, v, E) ==
  E \subseteq DOMAIN graph \ v.marked /\ \A x \in E : WaitsBelow(graph, rank, v, x)

\* An upper bound of the turns to come.
Fresh(graph, v, E) == (DOMAIN graph \ v.marked) \ E
Cost(graph, v, E) == Len(v.stack) + (MaxDeps + 2) * Cardinality(Fresh(graph, v, E))

\* Arithmetic of the bound.
LEMMA Bound ==
  ASSUME NEW d \in Nat, NEW c \in Nat, NEW e \in Nat
  PROVE  /\ (d + 2) * c \in Nat
         /\ e <= c => (d + 2) * e <= (d + 2) * c
         /\ e + 1 = c => (d + 2) * e + d + 2 = (d + 2) * c
         /\ (d + 3) * c = (d + 2) * c + c
BY SMTT(30)

\* A turn lowers the bound.
LEMMA TurnCounts ==
  ASSUME NEW graph, Good(graph), NEW rank \in [DOMAIN graph -> Nat], Older(graph, rank),
         NEW m \in Visits(DOMAIN graph), m.stack # <<>>, NEW n, n = NextTurn(graph, m),
         NEW E, Waiting(graph, rank, m, E)
  PROVE  \E F : Waiting(graph, rank, n, F) /\ Cost(graph, n, F) + 1 <= Cost(graph, m, E)
<1> DEFINE D == DOMAIN graph
           t == Last(m.stack)
           len == Len(m.stack)
<1>0. /\ m.stack \in Seq(D) /\ m.marked \in SUBSET D
      /\ n.stack \in Seq(D) /\ n.marked \in SUBSET D
  BY TurnIs DEF Visits
<1>1. /\ Front(m.stack) \in Seq(D) /\ Len(Front(m.stack)) = len - 1 /\ len \in Nat \ {0}
      /\ t = m.stack[len] /\ \A i \in 1 .. len - 1 : Front(m.stack)[i] = m.stack[i]
  BY <1>0, FrontIs
<1>2. t \in D /\ Named(graph[t]) \subseteq D BY TurnIs DEF Good, Whole
<1>3. MaxDeps \in Nat BY BoundsAssumption
<1>4. \A x \in D : rank[x] \in Nat OBVIOUS
<1>5. \A x \in D : \A a \in Named(graph[x]) : a \in D /\ rank[a] < rank[x] BY DEF Older, Good, Whole
<1>6. E \subseteq D \ m.marked /\ \A x \in E : WaitsBelow(graph, rank, m, x) BY DEF Waiting
<1>7. \A M, H : IsFiniteSet((D \ M) \ H) /\ Cardinality((D \ M) \ H) \in Nat
  <2>1. IsFiniteSet(D) BY DEF Good
  <2>2. \A M, H : (D \ M) \ H \in SUBSET D OBVIOUS
  <2> QED BY <2>1, <2>2, FS_Subset, FS_CardinalityType
<1> HIDE DEF t
<1>8. ASSUME NEW F, n.stack = Front(m.stack), F \subseteq E, t \notin F, F \subseteq D \ n.marked,
             m.marked \subseteq n.marked, n.marked \subseteq m.marked \cup {t}, t \in n.marked
      PROVE  Waiting(graph, rank, n, F)
  <2>1. ASSUME NEW x \in F PROVE WaitsBelow(graph, rank, n, x)
    <3>1. PICK p \in 1 .. len : /\ m.stack[p] = x
                                /\ \A i \in p + 1 .. len : rank[m.stack[i]] < rank[x]
                                /\ \A a \in Named(graph[x]) \ m.marked : \E i \in p + 1 .. len : m.stack[i] = a
      BY <1>6, <1>8 DEF WaitsBelow
    <3>2. p # len BY <1>1, <1>8, <3>1
    <3>3. p \in 1 .. len - 1 /\ Len(n.stack) = len - 1 BY <1>1, <1>8, <3>1, <3>2
    <3>4. \A i \in 1 .. len - 1 : n.stack[i] = m.stack[i] BY <1>1, <1>8
    <3>5. n.stack[p] = x /\ \A i \in p + 1 .. len - 1 : rank[n.stack[i]] < rank[x]
      <4>1. \A i \in p + 1 .. len - 1 : i \in 1 .. len - 1 /\ i \in p + 1 .. len BY <1>1, <3>3
      <4> QED BY <3>1, <3>3, <3>4, <4>1
    <3>6. ASSUME NEW a \in Named(graph[x]) \ n.marked PROVE \E i \in p + 1 .. len - 1 : n.stack[i] = a
      <4>1. a \notin m.marked /\ a # t BY <1>8, <3>6
      <4>2. PICK i \in p + 1 .. len : m.stack[i] = a BY <3>1, <3>6, <4>1
      <4>3. i # len BY <1>1, <4>1, <4>2
      <4>4. i \in p + 1 .. len - 1 BY <1>1, <3>3, <4>2, <4>3
      <4>5. i \in 1 .. len - 1 BY <1>1, <3>3, <4>4
      <4> QED BY <3>4, <4>2, <4>4, <4>5
    <3> QED BY <3>3, <3>5, <3>6 DEF WaitsBelow
  <2> QED BY <1>8, <2>1 DEF Waiting
<1>9. CASE Pops(m, n)
  <2>1. t \in m.marked /\ n.stack = Front(m.stack) /\ n.marked = m.marked BY <1>9 DEF Pops, t
  <2>2. Waiting(graph, rank, n, E) BY <1>6, <1>8, <2>1
  <2>3. Fresh(graph, n, E) = Fresh(graph, m, E) BY <2>1 DEF Fresh
  <2>4. Cardinality(Fresh(graph, m, E)) \in Nat BY <1>7 DEF Fresh
  <2>5. (MaxDeps + 2) * Cardinality(Fresh(graph, m, E)) \in Nat BY <1>3, <2>4, Bound
  <2>6. Cost(graph, n, E) + 1 <= Cost(graph, m, E) BY <1>1, <2>1, <2>3, <2>5 DEF Cost
  <2> QED BY <2>2, <2>6
<1>10. CASE Marks(graph, m, n)
  <2>1. t \notin m.marked /\ n.stack = Front(m.stack) /\ n.marked = m.marked \cup {t} BY <1>10 DEF Marks, t
  <2> DEFINE F == E \ {t}
  <2>2. Waiting(graph, rank, n, F) BY <1>6, <1>8, <2>1
  <2>3. Fresh(graph, n, F) \subseteq Fresh(graph, m, E) BY <2>1 DEF Fresh
  <2>4. /\ Cardinality(Fresh(graph, m, E)) \in Nat /\ Cardinality(Fresh(graph, n, F)) \in Nat
        /\ IsFiniteSet(Fresh(graph, m, E))
    BY <1>7 DEF Fresh
  <2>5. Cardinality(Fresh(graph, n, F)) <= Cardinality(Fresh(graph, m, E)) BY <2>3, <2>4, FS_Subset
  <2>6. /\ (MaxDeps + 2) * Cardinality(Fresh(graph, m, E)) \in Nat /\ (MaxDeps + 2) * Cardinality(Fresh(graph, n, F)) \in Nat
        /\ (MaxDeps + 2) * Cardinality(Fresh(graph, n, F)) <= (MaxDeps + 2) * Cardinality(Fresh(graph, m, E))
    <3> HIDE DEF F
    <3> QED BY <1>3, <2>4, <2>5, Bound
  <2>7. Cost(graph, n, F) + 1 <= Cost(graph, m, E)
    <3> HIDE DEF F
    <3> QED BY <1>1, <2>1, <2>6 DEF Cost
  <2> QED BY <2>2, <2>7
<1>11. CASE Waits(graph, m, n)
  <2>1. /\ t \notin m.marked /\ n.marked = m.marked
        /\ \E w \in Seq(Named(graph[t]) \ m.marked) :
             /\ n.stack = m.stack \o w /\ Len(w) <= MaxDeps + 1
             /\ \A a \in Named(graph[t]) \ m.marked : \E i \in 1 .. Len(w) : w[i] = a
    BY <1>11 DEF Waits, t
  <2>2. PICK w \in Seq(Named(graph[t]) \ m.marked) :
             /\ n.stack = m.stack \o w /\ Len(w) <= MaxDeps + 1
             /\ \A a \in Named(graph[t]) \ m.marked : \E i \in 1 .. Len(w) : w[i] = a
    BY <2>1
  <2>3. w \in Seq(D) /\ \A i \in 1 .. Len(w) : w[i] \in Named(graph[t]) BY <1>2
  <2>4. /\ Len(n.stack) = len + Len(w) /\ Len(w) \in Nat
        /\ \A i \in 1 .. len : n.stack[i] = m.stack[i]
        /\ \A i \in len + 1 .. Len(n.stack) : n.stack[i] = w[i - len]
    <3>1. n.stack = m.stack \o w BY <2>2
    <3> QED BY <1>0, <2>3, <3>1
  <2>5. \A i \in len + 1 .. Len(n.stack) : n.stack[i] \in Named(graph[t]) /\ rank[n.stack[i]] < rank[t]
    <3>1. \A i \in len + 1 .. Len(n.stack) : i - len \in 1 .. Len(w) BY <1>1, <2>4
    <3> QED BY <1>2, <1>5, <2>3, <2>4, <3>1
  <2>6. \A a \in Named(graph[t]) \ m.marked : \E i \in len + 1 .. Len(n.stack) : n.stack[i] = a
    <3>1. ASSUME NEW a \in Named(graph[t]) \ m.marked PROVE \E i \in len + 1 .. Len(n.stack) : n.stack[i] = a
      <4>1. PICK i \in 1 .. Len(w) : w[i] = a BY <2>2
      <4>2. len + i \in len + 1 .. Len(n.stack) /\ (len + i) - len = i BY <1>1, <2>4, <4>1
      <4> QED BY <2>4, <4>1, <4>2
    <3> QED BY <3>1
  <2>7. t \notin E
    <3>1. SUFFICES ASSUME t \in E PROVE FALSE OBVIOUS
    <3>2. PICK p \in 1 .. len : /\ m.stack[p] = t
                                /\ \A i \in p + 1 .. len : rank[m.stack[i]] < rank[t]
                                /\ \A a \in Named(graph[t]) \ m.marked : \E i \in p + 1 .. len : m.stack[i] = a
      BY <1>6, <3>1 DEF WaitsBelow
    <3>3. p = len
      <4>1. SUFFICES ASSUME p # len PROVE FALSE OBVIOUS
      <4>2. len \in p + 1 .. len BY <1>1, <3>2, <4>1
      <4>3. rank[t] < rank[t] BY <1>1, <3>2, <4>2
      <4> QED BY <1>2, <1>4, <4>3
    <3>4. p + 1 .. len = {} BY <1>1, <3>3
    <3>5. Named(graph[t]) \subseteq m.marked BY <3>2, <3>4
    <3> QED BY <1>11, <3>5 DEF Waits, t
  <2> DEFINE F == E \cup {t}
  <2>8. ASSUME NEW x \in E PROVE WaitsBelow(graph, rank, n, x)
    <3>1. PICK p \in 1 .. len : /\ m.stack[p] = x
                                /\ \A i \in p + 1 .. len : rank[m.stack[i]] < rank[x]
                                /\ \A a \in Named(graph[x]) \ m.marked : \E i \in p + 1 .. len : m.stack[i] = a
      BY <1>6, <2>8 DEF WaitsBelow
    <3>2. x \in D /\ x # t BY <1>6, <2>7, <2>8
    <3>3. p # len BY <1>1, <3>1, <3>2
    <3>4. len \in p + 1 .. len BY <1>1, <3>1, <3>3
    <3>5. rank[t] < rank[x] BY <1>1, <3>1, <3>4
    <3>6. ASSUME NEW i \in p + 1 .. Len(n.stack) PROVE rank[n.stack[i]] < rank[x]
      <4>1. CASE i \in len + 1 .. Len(n.stack)
        <5>1. rank[n.stack[i]] < rank[t] /\ n.stack[i] \in D BY <1>2, <2>5, <4>1
        <5> QED BY <1>2, <1>4, <3>2, <3>5, <5>1
      <4>2. CASE i \in p + 1 .. len
        <5>1. i \in 1 .. len BY <1>1, <3>1, <4>2
        <5> QED BY <2>4, <3>1, <4>2, <5>1
      <4> QED BY <1>1, <2>4, <3>1, <4>1, <4>2
    <3>7. ASSUME NEW a \in Named(graph[x]) \ n.marked PROVE \E i \in p + 1 .. Len(n.stack) : n.stack[i] = a
      <4>1. PICK i \in p + 1 .. len : m.stack[i] = a BY <2>1, <3>1, <3>7
      <4>2. i \in 1 .. len /\ i \in p + 1 .. Len(n.stack) BY <1>1, <2>4, <3>1, <4>1
      <4> QED BY <2>4, <4>1, <4>2
    <3>8. p \in 1 .. Len(n.stack) /\ n.stack[p] = x BY <1>1, <2>4, <3>1
    <3> QED BY <3>6, <3>7, <3>8 DEF WaitsBelow
  <2>9. WaitsBelow(graph, rank, n, t)
    <3>1. len \in 1 .. Len(n.stack) /\ len \in 1 .. len BY <1>1, <2>4
    <3>2. n.stack[len] = t BY <1>1, <2>4, <3>1
    <3>3. \A i \in len + 1 .. Len(n.stack) : rank[n.stack[i]] < rank[t] BY <2>5
    <3>4. \A a \in Named(graph[t]) \ n.marked : \E i \in len + 1 .. Len(n.stack) : n.stack[i] = a BY <2>1, <2>6
    <3> QED BY <3>1, <3>2, <3>3, <3>4 DEF WaitsBelow
  <2>10. Waiting(graph, rank, n, F)
    <3>1. F \subseteq D \ n.marked BY <1>2, <1>6, <2>1
    <3>2. \A x \in F : WaitsBelow(graph, rank, n, x) BY <2>8, <2>9
    <3> HIDE DEF F
    <3> QED BY <3>1, <3>2 DEF Waiting
  <2> DEFINE c == Cardinality(Fresh(graph, m, E))
             e == Cardinality(Fresh(graph, n, F))
  <2>11. c \in Nat /\ e \in Nat /\ e + 1 = c
    <3>1. c \in Nat /\ e \in Nat /\ IsFiniteSet(Fresh(graph, m, E)) BY <1>7 DEF Fresh
    <3>2. Fresh(graph, n, F) = Fresh(graph, m, E) \ {t} /\ t \in Fresh(graph, m, E) BY <1>2, <2>1, <2>7 DEF Fresh
    <3>3. e = c - 1
      <4> HIDE DEF F
      <4> QED BY <3>1, <3>2, FS_RemoveElement
    <3> QED BY <3>1, <3>3
  <2>12. Cost(graph, n, F) + 1 <= Cost(graph, m, E)
    <3>1. Cost(graph, n, F) = Len(n.stack) + (MaxDeps + 2) * e /\ Cost(graph, m, E) = len + (MaxDeps + 2) * c
      BY DEF Cost
    <3> HIDE DEF F, c, e
    <3>2. /\ (MaxDeps + 2) * e \in Nat /\ (MaxDeps + 2) * c \in Nat
          /\ (MaxDeps + 2) * e + MaxDeps + 2 = (MaxDeps + 2) * c
      BY <1>3, <2>11, Bound
    <3> QED BY <1>1, <1>3, <2>2, <2>4, <3>1, <3>2
  <2> HIDE DEF F
  <2> QED BY <2>10, <2>12
<1> QED BY <1>9, <1>10, <1>11, TurnIs

\* What a visit of a block leaves behind: the block is marked, with whatever
\* was marked before and nothing that a closed set around both does not have;
\* the result is closed, and new marks are made in order.
LEMMA VisitIs ==
  ASSUME NEW graph, Good(graph), NEW b \in DOMAIN graph, NEW marked \in SUBSET DOMAIN graph,
         NEW v, v = RecursiveBlocksUpdate(graph, b, marked)
  PROVE  /\ v.marked \in SUBSET DOMAIN graph /\ v.order \in Seq(DOMAIN graph)
         /\ b \in v.marked /\ marked \subseteq v.marked
         /\ \A C : Closed(graph, C) /\ b \in C /\ marked \subseteq C => v.marked \subseteq C
         /\ Closed(graph, marked) => Closed(graph, v.marked)
         /\ Orderly(graph, marked, v)
<1> DEFINE D == DOMAIN graph
           N == MaxTurns(graph)
           first == [stack |-> <<b>>, marked |-> marked, order |-> <<>>]
           step == [k \in 1 .. N |-> [m \in Visits(D) |-> NextTurn(graph, m)]]
           Run(f) == [k \in 0 .. N |-> IF k = 0 THEN first ELSE NextTurn(graph, f[k - 1])]
           visit == CHOOSE f : f = Run(f)
           c == Cardinality(D)
<1>1. v = visit[N] BY DEF RecursiveBlocksUpdate
<1>2. c \in Nat \ {0} /\ MaxDeps \in Nat /\ IsFiniteSet(D)
  <2>1. IsFiniteSet(D) BY DEF Good
  <2>2. c \in Nat /\ c # 0 BY <2>1, FS_CardinalityType, FS_EmptySet
  <2> QED BY <2>1, <2>2, BoundsAssumption
<1>3. N = (MaxDeps + 3) * c BY DEF MaxTurns
<1>4. N \in Nat /\ N = (MaxDeps + 2) * c + c
  <2> HIDE DEF c, N
  <2> QED BY <1>2, <1>3, Bound
<1>5. first \in Visits(D)
  <2>1. <<b>> \in Seq(D) /\ <<>> \in Seq(D) OBVIOUS
  <2> QED BY <2>1 DEF Visits
<1>6. \A m \in Visits(D) : NextTurn(graph, m) \in Visits(D) BY TurnIs
<1>7. step \in [1 .. N -> [Visits(D) -> Visits(D)]] BY <1>6
<1>8. visit = Run(visit) /\ visit \in [0 .. N -> Visits(D)]
  <2>1. \E f \in [0 .. N -> Visits(D)] : Turns(f, N, first, step)
    <3> DEFINE V == Visits(D)
    <3>1. N \in Nat /\ first \in V /\ step \in [1 .. N -> [V -> V]] BY <1>4, <1>5, <1>7
    <3> HIDE DEF first, step, N, V
    <3>2. \E f \in [0 .. N -> V] : Turns(f, N, first, step) BY <3>1, Loop
    <3> QED BY <3>2 DEF V
  <2>2. PICK f \in [0 .. N -> Visits(D)] : Turns(f, N, first, step) BY <2>1
  <2> HIDE DEF first, N
  <2>3. \A k \in 1 .. N : f[k - 1] \in Visits(D) BY <1>4
  <2>4. \A k \in 1 .. N : step[k][f[k - 1]] = NextTurn(graph, f[k - 1]) BY <2>3
  <2> HIDE DEF step
  <2>5. f = Run(f)
    <3>1. \A k \in 0 .. N : k # 0 => k \in 1 .. N BY <1>4
    <3>2. \A k \in 0 .. N : f[k] = IF k = 0 THEN first ELSE NextTurn(graph, f[k - 1]) BY <2>2, <2>4, <3>1 DEF Turns
    <3> QED BY <3>2
  <2>6. visit = Run(visit)
    <3> HIDE DEF Run
    <3> QED BY <2>5
  <2>7. \A k \in 0 .. N : visit[k] \in Visits(D)
    <3> DEFINE G == {k \in 0 .. N : visit[k] \in Visits(D)}
    <3> HIDE DEF visit
    <3>0. 0 \in 0 .. N /\ \A k \in 1 .. N : k \in 0 .. N /\ k # 0 BY <1>4
    <3>1. visit[0] = first /\ \A k \in 1 .. N : visit[k] = NextTurn(graph, visit[k - 1]) BY <2>6, <3>0
    <3>2. 0 \in G BY <1>4, <1>5, <3>1
    <3>3. \A k \in 1 .. N : k - 1 \in G => k \in G BY <1>4, <1>6, <3>1
    <3> HIDE DEF G
    <3>4. \A k \in 0 .. N : k \in G BY <1>4, <3>2, <3>3, UpTo
    <3> QED BY <3>4 DEF G
  <2>8. visit \in [0 .. N -> Visits(D)]
    <3> HIDE DEF visit
    <3>1. visit = [k \in 0 .. N |-> visit[k]] BY <2>6
    <3> QED BY <2>7, <3>1
  <2> QED BY <2>6, <2>8
<1> HIDE DEF visit, N, D, c
<1>9. visit[0] = first /\ \A k \in 1 .. N : visit[k] = NextTurn(graph, visit[k - 1])
  <2>1. 0 \in 0 .. N /\ \A k \in 1 .. N : k \in 0 .. N /\ k # 0 BY <1>4
  <2> QED BY <1>8, <2>1
<1>10. \A k \in 0 .. N : visit[k] \in Visits(D) BY <1>8
<1>11. \A k \in 1 .. N : k - 1 \in 0 .. N BY <1>4
<1>12. N \in 0 .. N /\ 0 \in 0 .. N BY <1>4
<1> DEFINE Fine(m) == /\ Orderly(graph, marked, m) /\ Rooted(b, m)
                      /\ \A C : Closed(graph, C) /\ b \in C /\ marked \subseteq C => Within(C, m)
                      /\ Closed(graph, marked) => Closed(graph, m.marked)
<1>13. Fine(visit[N])
  <2> DEFINE G == {k \in 0 .. N : Fine(visit[k])}
  <2>1. 0 \in G
    <3>1. first.stack = <<b>> /\ first.marked = marked /\ first.order = <<>> OBVIOUS
    <3> HIDE DEF first
    <3>2. Orderly(graph, marked, first)
      <4>1. ToSet(<<>>) = {} /\ Len(<<>>) = 0 BY DEF ToSet
      <4> QED BY <3>1, <4>1 DEF Orderly
    <3>3. Rooted(b, first) BY <3>1 DEF Rooted
    <3>4. \A C : b \in C /\ marked \subseteq C => Within(C, first) BY <3>1 DEF Within
    <3> QED BY <1>9, <1>12, <3>1, <3>2, <3>3, <3>4
  <2>2. ASSUME NEW k \in 1 .. N, k - 1 \in G PROVE k \in G
    <3> DEFINE m == visit[k - 1]
               n == visit[k]
    <3>1. m \in Visits(DOMAIN graph) /\ n = NextTurn(graph, m) BY <1>9, <1>10, <1>11 DEF D
    <3>2. Fine(m) BY <2>2
    <3> HIDE DEF m, n
    <3>3. Fine(n) BY <3>1, <3>2, TurnKeeps
    <3>4. k \in 0 .. N BY <1>4
    <3> QED BY <3>3, <3>4 DEF n
  <2> HIDE DEF G, Fine
  <2>3. \A k \in 1 .. N : k - 1 \in G => k \in G BY <2>2
  <2>4. \A k \in 0 .. N : k \in G BY <1>4, <2>1, <2>3, UpTo
  <2>5. N \in G BY <1>12, <2>4
  <2> QED BY <2>5 DEF G
<1>14. visit[N].stack = <<>>
  <2>0. PICK r \in Nat : \E rank \in [D -> 0 .. r] : Older(graph, rank) BY DEF Good, Acyclic, D
  <2>1. PICK rank \in [D -> 0 .. r] : Older(graph, rank) BY <2>0
  <2>2. rank \in [DOMAIN graph -> Nat] BY <2>0, <2>1 DEF D
  <2> DEFINE B == 1 + (MaxDeps + 2) * c
             Runs(m, k) == m.stack = <<>> \/ \E E : Waiting(graph, rank, m, E) /\ Cost(graph, m, E) + k <= B
             G == {k \in 0 .. N : Runs(visit[k], k)}
  <2>3. (MaxDeps + 2) * c \in Nat /\ B \in Nat BY <1>2, Bound
  <2>4. \A m \in Visits(D) : \A E : Cost(graph, m, E) \in Nat
    <3>1. ASSUME NEW m \in Visits(D), NEW E PROVE Cost(graph, m, E) \in Nat
      <4> DEFINE e == Cardinality(Fresh(graph, m, E))
      <4>1. Fresh(graph, m, E) \in SUBSET D BY DEF Fresh, D
      <4>2. e \in Nat BY <1>2, <4>1, FS_Subset, FS_CardinalityType
      <4>3. Len(m.stack) \in Nat BY DEF Visits
      <4>4. Cost(graph, m, E) = Len(m.stack) + (MaxDeps + 2) * e BY DEF Cost
      <4> HIDE DEF e
      <4>5. (MaxDeps + 2) * e \in Nat BY <1>2, <4>2, Bound
      <4> QED BY <4>3, <4>4, <4>5
    <3> QED BY <3>1
  <2>5. 0 \in G
    <3>1. first.stack = <<b>> /\ first.marked = marked OBVIOUS
    <3> HIDE DEF first
    <3>2. Waiting(graph, rank, first, {}) BY DEF Waiting
    <3> DEFINE e == Cardinality(Fresh(graph, first, {}))
    <3>3. Fresh(graph, first, {}) \in SUBSET D BY DEF Fresh, D
    <3>4. e \in Nat /\ e <= c BY <1>2, <3>3, FS_Subset, FS_CardinalityType DEF c
    <3>5. Cost(graph, first, {}) = 1 + (MaxDeps + 2) * e BY <3>1 DEF Cost
    <3> HIDE DEF e
    <3>6. (MaxDeps + 2) * e \in Nat /\ (MaxDeps + 2) * e <= (MaxDeps + 2) * c BY <1>2, <3>4, Bound
    <3>7. Cost(graph, first, {}) + 0 <= B BY <2>3, <3>5, <3>6
    <3>8. Runs(first, 0) BY <3>2, <3>7
    <3> HIDE DEF Runs
    <3> QED BY <1>9, <1>12, <3>8
  <2>6. ASSUME NEW k \in 1 .. N, k - 1 \in G PROVE k \in G
    <3> DEFINE m == visit[k - 1]
               n == visit[k]
    <3>1. m \in Visits(DOMAIN graph) /\ n \in Visits(DOMAIN graph) /\ n = NextTurn(graph, m)
      BY <1>4, <1>9, <1>10, <1>11 DEF D
    <3>2. Runs(m, k - 1) BY <2>6
    <3>3. k \in 0 .. N BY <1>4
    <3> HIDE DEF m, n
    <3>4. CASE m.stack = <<>>
      <4>1. n.stack = <<>> BY <3>1, <3>4, TurnIs
      <4> QED BY <3>3, <4>1 DEF n
    <3>5. CASE m.stack # <<>>
      <4>1. PICK E : Waiting(graph, rank, m, E) /\ Cost(graph, m, E) + (k - 1) <= B BY <3>2, <3>5
      <4>2. PICK F : Waiting(graph, rank, n, F) /\ Cost(graph, n, F) + 1 <= Cost(graph, m, E)
        BY <2>1, <2>2, <3>1, <3>5, <4>1, TurnCounts
      <4>3. Cost(graph, m, E) \in Nat /\ Cost(graph, n, F) \in Nat BY <2>4, <3>1 DEF D
      <4>4. Cost(graph, n, F) + k <= B BY <1>4, <2>3, <3>3, <4>1, <4>2, <4>3
      <4>5. Runs(n, k) BY <4>2, <4>4
      <4> HIDE DEF Runs
      <4> QED BY <3>3, <4>5 DEF n
    <3> QED BY <3>4, <3>5
  <2>7. N \in G
    <3> HIDE DEF G
    <3>1. \A k \in 1 .. N : k - 1 \in G => k \in G BY <2>6
    <3>2. \A k \in 0 .. N : k \in G BY <1>4, <2>5, <3>1, UpTo
    <3> QED BY <1>12, <3>2
  <2>8. SUFFICES ASSUME visit[N].stack # <<>> PROVE FALSE OBVIOUS
  <2> DEFINE m == visit[N]
  <2>9. Runs(m, N) BY <2>7
  <2>10. m \in Visits(D) BY <1>10, <1>12
  <2> HIDE DEF m
  <2>11. PICK E : Cost(graph, m, E) + N <= B BY <2>8, <2>9 DEF m
  <2> DEFINE e == Cardinality(Fresh(graph, m, E))
  <2>12. Fresh(graph, m, E) \in SUBSET D BY DEF Fresh, D
  <2>13. e \in Nat BY <1>2, <2>12, FS_Subset, FS_CardinalityType
  <2>14. Len(m.stack) \in Nat \ {0} BY <2>8, <2>10 DEF Visits, m
  <2>15. Cost(graph, m, E) = Len(m.stack) + (MaxDeps + 2) * e BY DEF Cost
  <2> HIDE DEF e
  <2>16. (MaxDeps + 2) * e \in Nat BY <1>2, <2>13, Bound
  <2> QED BY <1>2, <1>4, <2>3, <2>11, <2>14, <2>15, <2>16
<1>15. b \in visit[N].marked BY <1>13, <1>14 DEF Rooted
<1>16. marked \subseteq visit[N].marked BY <1>13 DEF Orderly
<1>17. \A C : Closed(graph, C) /\ b \in C /\ marked \subseteq C => visit[N].marked \subseteq C BY <1>13 DEF Within
<1>18. visit[N].marked \in SUBSET D /\ visit[N].order \in Seq(D) BY <1>10, <1>12 DEF Visits
<1> QED BY <1>1, <1>13, <1>15, <1>16, <1>17, <1>18 DEF D

\* What is marked after a visit.
LEMMA MarkedAre ==
  ASSUME NEW graph, Good(graph), NEW b \in DOMAIN graph, NEW marked \in SUBSET DOMAIN graph,
         NEW m, m = RecursiveBlocksUpdate(graph, b, marked).marked
  PROVE  /\ m \in SUBSET DOMAIN graph /\ b \in m /\ marked \subseteq m
         /\ \A C : Closed(graph, C) /\ b \in C /\ marked \subseteq C => m \subseteq C
         /\ Closed(graph, marked) => Closed(graph, m)
<1> DEFINE v == RecursiveBlocksUpdate(graph, b, marked)
<1>1. v = RecursiveBlocksUpdate(graph, b, marked) /\ m = v.marked OBVIOUS
<1> HIDE DEF v
<1>2. /\ v.marked \in SUBSET DOMAIN graph
      /\ b \in v.marked /\ marked \subseteq v.marked
      /\ \A C : Closed(graph, C) /\ b \in C /\ marked \subseteq C => v.marked \subseteq C
      /\ Closed(graph, marked) => Closed(graph, v.marked)
  BY <1>1, VisitIs
<1> QED BY <1>1, <1>2

\* What is processed after the blocks of a sequence have been visited.
LEMMA ProcessedIs ==
  ASSUME Good(blocks), Closed(blocks, processed), NEW chosen \in Seq(DOMAIN blocks)
  PROVE  /\ Closed(blocks, SetProcessed(chosen)) /\ processed \subseteq SetProcessed(chosen)
         /\ \A i \in 1 .. Len(chosen) : chosen[i] \in SetProcessed(chosen)
         /\ \A C : Closed(blocks, C) /\ processed \subseteq C /\ (\A i \in 1 .. Len(chosen) : chosen[i] \in C)
                     => SetProcessed(chosen) \subseteq C
<1> DEFINE D == DOMAIN blocks
           N == Len(chosen)
           S == SUBSET D
           Next1(k, m) == RecursiveBlocksUpdate(blocks, chosen[k], m).marked
           step == [k \in 1 .. N |-> [m \in S |-> Next1(k, m)]]
           Run(f) == [k \in 0 .. N |-> IF k = 0 THEN processed ELSE Next1(k, f[k - 1])]
           done == CHOOSE f : f = Run(f)
<1>1. SetProcessed(chosen) = done[N] BY DEF SetProcessed
<1>2. N \in Nat /\ processed \in S /\ \A k \in 1 .. N : chosen[k] \in D BY DEF Closed
<1>3. ASSUME NEW k \in 1 .. N, NEW m \in S
      PROVE  /\ Next1(k, m) \in S /\ chosen[k] \in Next1(k, m) /\ m \subseteq Next1(k, m)
             /\ \A C : Closed(blocks, C) /\ chosen[k] \in C /\ m \subseteq C => Next1(k, m) \subseteq C
             /\ Closed(blocks, m) => Closed(blocks, Next1(k, m))
  <2> DEFINE b == chosen[k]
             mark == Next1(k, m)
  <2>1. b \in D /\ m \in SUBSET D BY <1>2, <1>3
  <2>2. mark = RecursiveBlocksUpdate(blocks, b, m).marked OBVIOUS
  <2> HIDE DEF b, mark
  <2>3. /\ mark \in SUBSET DOMAIN blocks /\ b \in mark /\ m \subseteq mark
        /\ \A C : Closed(blocks, C) /\ b \in C /\ m \subseteq C => mark \subseteq C
        /\ Closed(blocks, m) => Closed(blocks, mark)
    BY <2>1, <2>2, MarkedAre
  <2> QED BY <2>3 DEF b, mark
<1> HIDE DEF Next1
<1>4. step \in [1 .. N -> [S -> S]] BY <1>3
<1>5. \E f \in [0 .. N -> S] : Turns(f, N, processed, step)
  <2> HIDE DEF step, N, S
  <2> QED BY <1>2, <1>4, Loop
<1>6. PICK f \in [0 .. N -> S] : Turns(f, N, processed, step) BY <1>5
<1>7. f = Run(f)
  <2>1. \A k \in 1 .. N : f[k - 1] \in S BY <1>2
  <2>2. \A k \in 1 .. N : step[k][f[k - 1]] = Next1(k, f[k - 1]) BY <2>1
  <2> HIDE DEF step, N, S
  <2>3. \A k \in 0 .. N : k # 0 => k \in 1 .. N BY <1>2
  <2>4. \A k \in 0 .. N : f[k] = IF k = 0 THEN processed ELSE Next1(k, f[k - 1]) BY <1>6, <2>2, <2>3 DEF Turns
  <2> QED BY <2>4
<1>8. done = Run(done)
  <2> HIDE DEF Run
  <2> QED BY <1>7
<1> HIDE DEF done, N, S
<1>9. done[0] = processed /\ \A k \in 1 .. N : done[k] = Next1(k, done[k - 1])
  <2>1. 0 \in 0 .. N /\ \A k \in 1 .. N : k \in 0 .. N /\ k # 0 BY <1>2
  <2> QED BY <1>8, <2>1
<1> DEFINE Fine(k) == /\ done[k] \in S /\ Closed(blocks, done[k]) /\ processed \subseteq done[k]
                      /\ \A i \in 1 .. k : chosen[i] \in done[k]
                      /\ \A C : Closed(blocks, C) /\ processed \subseteq C /\ (\A i \in 1 .. k : chosen[i] \in C)
                                  => done[k] \subseteq C
           G == {k \in 0 .. N : Fine(k)}
<1>10. 0 \in G BY <1>2, <1>9
<1>11. ASSUME NEW k \in 1 .. N, k - 1 \in G PROVE k \in G
  <2> DEFINE m == done[k - 1]
             n == done[k]
  <2>1. n = Next1(k, m) /\ m \in S /\ k \in 0 .. N BY <1>2, <1>9, <1>11
  <2>2. /\ n \in S /\ chosen[k] \in n /\ m \subseteq n
        /\ \A C : Closed(blocks, C) /\ chosen[k] \in C /\ m \subseteq C => n \subseteq C
        /\ Closed(blocks, m) => Closed(blocks, n)
    <3> HIDE DEF m, n
    <3> QED BY <1>3, <2>1
  <2>3. /\ Closed(blocks, m) /\ processed \subseteq m /\ \A i \in 1 .. k - 1 : chosen[i] \in m
        /\ \A C : Closed(blocks, C) /\ processed \subseteq C /\ (\A i \in 1 .. k - 1 : chosen[i] \in C) => m \subseteq C
    BY <1>11
  <2>4. \A i \in 1 .. k : i = k \/ i \in 1 .. k - 1 BY <1>2
  <2>5. \A i \in 1 .. k - 1 : i \in 1 .. k BY <1>2
  <2>6. k \in 1 .. k BY <1>2
  <2> HIDE DEF m, n
  <2>7. \A i \in 1 .. k : chosen[i] \in n BY <2>2, <2>3, <2>4
  <2>8. ASSUME NEW C, Closed(blocks, C), processed \subseteq C, \A i \in 1 .. k : chosen[i] \in C PROVE n \subseteq C
    BY <2>2, <2>3, <2>5, <2>6, <2>8
  <2>9. Closed(blocks, n) /\ processed \subseteq n BY <2>2, <2>3
  <2>10. Fine(k) BY <2>2, <2>7, <2>8, <2>9 DEF n
  <2> HIDE DEF Fine
  <2> QED BY <2>1, <2>10
<1>12. N \in G
  <2> HIDE DEF G
  <2>1. \A k \in 1 .. N : k - 1 \in G => k \in G BY <1>11
  <2>2. \A k \in 0 .. N : k \in G BY <1>2, <1>10, <2>1, UpTo
  <2> QED BY <1>2, <2>2
<1> QED BY <1>1, <1>12 DEF N

-----------------------------------------------------------------------------
(* A graph that gets a block                                               *)

\* A new block that names blocks of the graph.
Grows(graph, id, blk, new) ==
  /\ id \notin DOMAIN graph /\ DOMAIN new = DOMAIN graph \cup {id}
  /\ new[id] = blk /\ \A b \in DOMAIN graph : new[b] = graph[b]
  /\ Named(blk) \subseteq DOMAIN graph /\ Cardinality(Named(blk)) <= MaxDeps + 1

\* The larger graph is as good.
LEMMA GrownIsGood ==
  ASSUME NEW graph, Good(graph), NEW id, NEW blk, NEW new, Grows(graph, id, blk, new)
  PROVE  Good(new)
<1> DEFINE D == DOMAIN graph
<1>1. id \notin D /\ DOMAIN new = D \cup {id} /\ new[id] = blk /\ \A b \in D : new[b] = graph[b] BY DEF Grows
<1>2. IsFiniteSet(DOMAIN new) BY <1>1, FS_AddElement DEF Good
<1>3. \A b \in DOMAIN new : Named(new[b]) \subseteq D /\ Cardinality(Named(new[b])) <= MaxDeps + 1
  BY <1>1 DEF Grows, Good, Whole
<1>4. Whole(new) BY <1>1, <1>3 DEF Whole
<1>5. Acyclic(new)
  <2>0. PICK n \in Nat : \E rank \in [D -> 0 .. n] : Older(graph, rank) BY DEF Good, Acyclic
  <2>1. PICK rank \in [D -> 0 .. n] : Older(graph, rank) BY <2>0
  <2> DEFINE r == [b \in D \cup {id} |-> IF b = id THEN n + 1 ELSE rank[b]]
  <2>2. r \in [DOMAIN new -> 0 .. n + 1] BY <1>1
  <2>3. \A b \in D : r[b] = rank[b] /\ r[b] \in 0 .. n /\ b # id BY <1>1
  <2>4. r[id] = n + 1 OBVIOUS
  <2> HIDE DEF r
  <2>5. ASSUME NEW b \in DOMAIN new, NEW a \in Named(new[b]) PROVE r[a] < r[b]
    <3>1. a \in D BY <1>3, <2>5
    <3>2. CASE b = id BY <2>3, <2>4, <3>1, <3>2
    <3>3. CASE b \in D
      <4>1. rank[a] < rank[b] BY <1>1, <2>1, <2>5, <3>3 DEF Older
      <4> QED BY <2>3, <3>1, <3>3, <4>1
    <3> QED BY <1>1, <3>2, <3>3
  <2>6. Older(new, r) BY <2>5 DEF Older
  <2>7. n + 1 \in Nat OBVIOUS
  <2> QED BY <2>2, <2>6, <2>7 DEF Acyclic
<1> QED BY <1>2, <1>3, <1>4, <1>5 DEF Good

\* What blocks depend on in the larger graph.
LEMMA GrownAncestors ==
  ASSUME NEW graph, Good(graph), NEW id, NEW blk, NEW new, Grows(graph, id, blk, new),
         NEW bs, bs \subseteq DOMAIN graph
  PROVE  /\ Ancestors(new, bs) = Ancestors(graph, bs)
         /\ Ancestors(new, bs \cup {id}) = {id} \cup Ancestors(graph, bs \cup Named(blk))
         /\ \A C : Closed(graph, C) => Closed(new, C) /\ (Named(blk) \subseteq C => Closed(new, C \cup {id}))
         /\ \A C : Closed(new, C) => Closed(graph, C \ {id})
<1> DEFINE D == DOMAIN graph
<1>1. /\ id \notin D /\ DOMAIN new = D \cup {id} /\ new[id] = blk /\ \A b \in D : new[b] = graph[b]
      /\ Named(blk) \subseteq D
  BY DEF Grows
<1>2. Good(new) BY GrownIsGood
<1>3. Whole(graph) /\ Acyclic(graph) /\ Whole(new) /\ Acyclic(new) BY <1>2 DEF Good
<1>4. ASSUME NEW C, Closed(graph, C) PROVE Closed(new, C) /\ (Named(blk) \subseteq C => Closed(new, C \cup {id}))
  BY <1>1, <1>4 DEF Closed
<1>5. ASSUME NEW C, Closed(new, C) PROVE Closed(graph, C \ {id})
  <2>1. C \ {id} \subseteq D BY <1>1, <1>5 DEF Closed
  <2>2. ASSUME NEW b \in C \ {id} PROVE Named(graph[b]) \subseteq C \ {id}
    <3>1. Named(new[b]) \subseteq C /\ new[b] = graph[b] BY <1>1, <1>5, <2>1 DEF Closed
    <3>2. Named(graph[b]) \subseteq D BY <1>3, <2>1 DEF Whole
    <3> QED BY <1>1, <3>1, <3>2
  <2> QED BY <2>1, <2>2 DEF Closed
<1>6. /\ bs \subseteq Ancestors(graph, bs) /\ Closed(graph, Ancestors(graph, bs))
      /\ \A C : Closed(graph, C) /\ bs \subseteq C => Ancestors(graph, bs) \subseteq C
  BY <1>3, AncestorsAre
<1>7. /\ bs \subseteq Ancestors(new, bs) /\ Closed(new, Ancestors(new, bs))
      /\ \A C : Closed(new, C) /\ bs \subseteq C => Ancestors(new, bs) \subseteq C
  BY <1>1, <1>3, AncestorsAre
<1>8. Ancestors(new, bs) = Ancestors(graph, bs)
  <2>1. Ancestors(new, bs) \subseteq Ancestors(graph, bs) BY <1>4, <1>6, <1>7
  <2>2. Closed(graph, Ancestors(new, bs) \ {id}) /\ bs \subseteq Ancestors(new, bs) \ {id} BY <1>1, <1>5, <1>7
  <2>3. Ancestors(graph, bs) \subseteq Ancestors(new, bs) \ {id} BY <1>6, <2>2
  <2> QED BY <2>1, <2>3
<1> DEFINE cs == bs \cup Named(blk)
           ds == bs \cup {id}
<1>9. cs \subseteq DOMAIN graph /\ ds \subseteq DOMAIN new BY <1>1
<1>10. /\ cs \subseteq Ancestors(graph, cs) /\ Closed(graph, Ancestors(graph, cs))
       /\ \A C : Closed(graph, C) /\ cs \subseteq C => Ancestors(graph, cs) \subseteq C
  <2> HIDE DEF cs
  <2> QED BY <1>3, <1>9, AncestorsAre
<1>11. /\ ds \subseteq Ancestors(new, ds) /\ Closed(new, Ancestors(new, ds))
       /\ \A C : Closed(new, C) /\ ds \subseteq C => Ancestors(new, ds) \subseteq C
  <2> HIDE DEF ds
  <2> QED BY <1>3, <1>9, AncestorsAre
<1>12. Ancestors(new, ds) = {id} \cup Ancestors(graph, cs)
  <2>1. Closed(new, Ancestors(graph, cs) \cup {id}) BY <1>4, <1>10
  <2>2. ds \subseteq Ancestors(graph, cs) \cup {id} BY <1>10
  <2>3. Ancestors(new, ds) \subseteq Ancestors(graph, cs) \cup {id} BY <1>11, <2>1, <2>2
  <2>4. id \in Ancestors(new, ds) BY <1>11
  <2>5. Named(blk) \subseteq Ancestors(new, ds) BY <1>1, <1>11, <2>4 DEF Closed
  <2>6. Closed(graph, Ancestors(new, ds) \ {id}) BY <1>5, <1>11
  <2>7. cs \subseteq Ancestors(new, ds) \ {id} BY <1>1, <1>11, <2>5
  <2>8. Ancestors(graph, cs) \subseteq Ancestors(new, ds) \ {id} BY <1>10, <2>6, <2>7
  <2> QED BY <2>3, <2>4, <2>8
<1> QED BY <1>4, <1>5, <1>8, <1>12

-----------------------------------------------------------------------------
(* The inductive invariant                                                 *)

IsId(b) == b = <<b[1], b[2], b[3]>> /\ b[1] \in Sources /\ b[2] \in {0, 1} /\ b[3] \in Nat \ {0}

\* The delivered blocks: the first fork of a source has no gap, and the second
\* one is only there once the source is blamed.
Shape(graph, blamed) ==
  /\ Good(graph)
  /\ \A b \in DOMAIN graph : IsId(b)
  /\ \E h \in Nat : \A b \in DOMAIN graph : b[3] <= h
  /\ \A b \in DOMAIN graph : b[2] = 0 /\ b[3] > 1 => graph[b].prev = <<b[1], 0, b[3] - 1>>
  /\ \A b \in DOMAIN graph : b[2] = 1 => b[1] \in blamed

\* The last block of a source that is not blamed.
HeadsAre(graph, shown, last, blamed) ==
  /\ DOMAIN last = Sources
  /\ \A s \in Sources :
       /\ s \in blamed => last[s] = NoBlock
       /\ last[s] # NoBlock => last[s] \in DOMAIN graph /\ last[s] \in shown /\ last[s][1] = s /\ last[s][2] = 0
       /\ s \notin blamed => \A b \in DOMAIN graph : b[1] = s => last[s] # NoBlock /\ b[3] <= last[s][3]

\* The top blocks are last blocks of other sources that are not blamed.
TopsAre(top, last, blamed) ==
  \A t \in top : t # NoBlock /\ t[1] \in Sources \ (blamed \cup {Self}) /\ t = last[t[1]]

\* What the own chain and the top blocks cover.
OwnHead(last) == {last[Self]} \ {NoBlock}
Reached(graph, done, last, top) == done \cup Ancestors(graph, OwnHead(last)) \cup Ancestors(graph, top)
Covers(graph, done, last, top, blamed) ==
  \A b \in DOMAIN graph : b[1] \notin blamed \cup {Self} => b \in Reached(graph, done, last, top)

\* Nothing names a top block, and no request has a block that the own chain
\* or an earlier request covers.
Earlier(q, i) == UNION {q[j] : j \in 1 .. i - 1}
Apart(graph, top, last, q) ==
  /\ \A t \in top : \A b \in DOMAIN graph : t \notin Named(graph[b])
  /\ \A i \in 1 .. Len(q) : OnePerSource(q[i]) /\ q[i] \cap top = {}
  /\ \A i \in 1 .. Len(q) : q[i] \cap Ancestors(graph, OwnHead(last) \cup Earlier(q, i)) = {}

Marked ==
  /\ Closed(blocks, preprocessed) /\ Closed(blocks, processed) /\ processed \subseteq preprocessed
  /\ early = {}

Flow ==
  /\ receiver_started \in BOOLEAN /\ active_process \in BOOLEAN /\ force_process \in BOOLEAN
  /\ timer \in {"armed", "infinite"}
  /\ process_deps \subseteq processed
  /\ in_flight \in Seq(SUBSET DOMAIN blocks)
  /\ ~receiver_started => ~active_process /\ in_flight = <<>>

CInv ==
  /\ blamed_sources \subseteq Forkers
  /\ Shape(blocks, blamed_sources)
  /\ HeadsAre(blocks, preprocessed, top_source_blocks, blamed_sources)
  /\ TopsAre(top_blocks, top_source_blocks, blamed_sources)
  /\ Marked
  /\ Flow
  /\ Covers(blocks, processed, top_source_blocks, top_blocks, blamed_sources)
  /\ blamed_sources = {} => Apart(blocks, top_blocks, top_source_blocks, OwnRequests)

-----------------------------------------------------------------------------
(* Heights and places                                                      *)

\* An identifier is not NoBlock.
LEMMA IdIsABlock ==
  ASSUME NEW b, IsId(b)
  PROVE  b # NoBlock
BY DEF IsId, NoBlock

\* What Max of some heights is.
LEMMA HeightsMax ==
  ASSUME NEW B, NEW h \in Nat, \A b \in B : b[3] \in Nat \ {0} /\ b[3] <= h,
         NEW m, m = Max({0} \cup {Height(b) : b \in B})
  PROVE  /\ m \in Nat /\ m <= h
         /\ \A b \in B : b[3] <= m
         /\ m > 0 => \E b \in B : b[3] = m
<1> DEFINE S == {0} \cup {Height(b) : b \in B}
<1>1. S \in SUBSET Nat /\ S # {} /\ \A y \in S : y <= h BY DEF Height
<1>2. m \in S /\ \A y \in S : y <= m
  <2>1. m = Max(S) OBVIOUS
  <2> HIDE DEF S
  <2> QED BY <1>1, <2>1, MaxOfBounded
<1>3. \A b \in B : b[3] \in S BY DEF Height
<1>4. m > 0 => \E b \in B : b[3] = m BY <1>2 DEF Height
<1> QED BY <1>1, <1>2, <1>3, <1>4

\* The height of the last block of a fork.
LEMMA LastHeightIs ==
  ASSUME NEW blamed, Shape(blocks, blamed), NEW s, NEW f, NEW l, l = LastHeight(<<s, f>>)
  PROVE  /\ l \in Nat
         /\ \A h \in Nat : (\A b \in DOMAIN blocks : b[3] <= h) => l <= h
         /\ \A b \in DOMAIN blocks : b[1] = s /\ b[2] = f => b[3] <= l
         /\ l > 0 => <<s, f, l>> \in DOMAIN blocks
<1> DEFINE B == {x \in DOMAIN blocks : Fork(x) = <<s, f>>}
<1>1. PICK h \in Nat : \A b \in DOMAIN blocks : b[3] <= h BY DEF Shape
<1>2. \A b \in DOMAIN blocks : IsId(b) BY DEF Shape
<1>3. \A b \in DOMAIN blocks : b \in B <=> b[1] = s /\ b[2] = f BY DEF Fork
<1>4. \A b \in B : b \in DOMAIN blocks /\ b[3] \in Nat \ {0} BY <1>2 DEF IsId
<1>5. l = Max({0} \cup {Height(b) : b \in B}) BY DEF LastHeight
<1> HIDE DEF B
<1>6. ASSUME NEW k \in Nat, \A b \in DOMAIN blocks : b[3] <= k
      PROVE  l \in Nat /\ l <= k /\ (\A b \in B : b[3] <= l) /\ (l > 0 => \E b \in B : b[3] = l)
  BY <1>4, <1>5, <1>6, HeightsMax
<1>7. l > 0 => <<s, f, l>> \in DOMAIN blocks
  <2>1. SUFFICES ASSUME l > 0 PROVE <<s, f, l>> \in DOMAIN blocks OBVIOUS
  <2>2. PICK b \in B : b[3] = l BY <1>1, <1>6, <2>1
  <2>3. b = <<b[1], b[2], b[3]>> /\ b[1] = s /\ b[2] = f BY <1>2, <1>3, <1>4, <2>2 DEF IsId
  <2> QED BY <1>4, <2>2, <2>3
<1> QED BY <1>1, <1>3, <1>6, <1>7

\* What the first fork of a source has below a block is in every closed set
\* around it.
LEMMA ChainDown ==
  ASSUME NEW graph, NEW blamed, Shape(graph, blamed), NEW C, Closed(graph, C), NEW b \in C, b[2] = 0
  PROVE  \A h \in 1 .. b[3] : <<b[1], 0, h>> \in C
<1> DEFINE s == b[1]
           n == b[3]
           G == {k \in Nat : k < n => <<s, 0, n - k>> \in C}
<1>1. n \in Nat \ {0} /\ b = <<s, 0, n>> BY DEF Closed, Shape, IsId
<1>2. 0 \in G BY <1>1
<1>3. ASSUME NEW k \in 1 .. n, k - 1 \in G PROVE k \in G
  <2>1. SUFFICES ASSUME k < n PROVE <<s, 0, n - k>> \in C OBVIOUS
  <2> DEFINE c == <<s, 0, n - (k - 1)>>
  <2>2. c \in C BY <1>1, <1>3, <2>1
  <2>3. c \in DOMAIN graph /\ Named(graph[c]) \subseteq C BY <2>2 DEF Closed
  <2>4. c[1] = s /\ c[2] = 0 /\ c[3] = n - (k - 1) OBVIOUS
  <2>5. graph[c].prev = <<s, 0, n - k>>
    <3>1. c[3] > 1 /\ c[3] - 1 = n - k BY <1>1, <2>1, <2>4
    <3> HIDE DEF c
    <3> QED BY <2>3, <2>4, <3>1 DEF Shape
  <2>6. <<s, 0, n - k>> # NoBlock BY DEF NoBlock
  <2> QED BY <2>3, <2>5, <2>6 DEF Named
<1>4. \A k \in 0 .. n : k \in G
  <2> HIDE DEF G
  <2>1. \A k \in 1 .. n : k - 1 \in G => k \in G BY <1>3
  <2>2. n \in Nat BY <1>1
  <2> QED BY <1>2, <2>1, <2>2, UpTo
<1>5. ASSUME NEW h \in 1 .. n PROVE <<s, 0, h>> \in C
  <2>1. n - h \in 0 .. n /\ n - h < n /\ n - (n - h) = h BY <1>1
  <2>2. n - h \in G BY <1>4, <2>1
  <2> QED BY <2>1, <2>2
<1> QED BY <1>5

\* What a place for a new block is.
IsPlace(s, place) ==
  /\ IsId(place.id) /\ place.id[1] = s /\ place.id \notin DOMAIN blocks
  /\ place.prev = NoBlock \/ (place.prev \in DOMAIN blocks /\ place.prev[1] = s)
  /\ \A h \in Nat : (\A b \in DOMAIN blocks : b[3] <= h) => place.id[3] <= h + 1
  /\ place.id[2] = 1 => s \in blamed_sources
  /\ place.id[2] = 0 /\ place.id[3] > 1 => place.prev = <<s, 0, place.id[3] - 1>>
  /\ s \notin blamed_sources => \A b \in DOMAIN blocks : b[1] = s => b[3] <= place.id[3]

\* A block that extends a fork is at a place.
LEMMA ExtendIsPlace ==
  ASSUME Shape(blocks, blamed_sources), NEW s \in Sources, NEW f \in {0, 1}, f = 1 => s \in blamed_sources,
         NEW place, place = Extend(s, f, LastHeight(<<s, f>>))
  PROVE  IsPlace(s, place)
<1> DEFINE l == LastHeight(<<s, f>>)
           id == <<s, f, l + 1>>
<1>1. /\ l \in Nat
      /\ \A h \in Nat : (\A b \in DOMAIN blocks : b[3] <= h) => l <= h
      /\ \A b \in DOMAIN blocks : b[1] = s /\ b[2] = f => b[3] <= l
      /\ l > 0 => <<s, f, l>> \in DOMAIN blocks
  BY LastHeightIs
<1>2. place.id = id /\ place.prev = IF l = 0 THEN NoBlock ELSE <<s, f, l>> BY DEF Extend
<1> HIDE DEF l
<1>3. id[1] = s /\ id[2] = f /\ id[3] = l + 1 /\ IsId(id) BY <1>1 DEF IsId
<1>4. id \notin DOMAIN blocks BY <1>1, <1>3
<1>5. place.prev = NoBlock \/ (place.prev \in DOMAIN blocks /\ place.prev[1] = s)
  <2> DEFINE c == <<s, f, l>>
  <2>1. c[1] = s /\ (l > 0 => c \in DOMAIN blocks) BY <1>1
  <2>2. place.prev = IF l = 0 THEN NoBlock ELSE c BY <1>2
  <2> HIDE DEF c
  <2> QED BY <1>1, <2>1, <2>2
<1>6. id[2] = 0 /\ id[3] > 1 => place.prev = <<s, 0, id[3] - 1>> BY <1>1, <1>2, <1>3
<1>7. ASSUME s \notin blamed_sources, NEW b \in DOMAIN blocks, b[1] = s PROVE b[3] <= id[3]
  <2>1. b[2] = f /\ b[3] \in Nat BY <1>7 DEF Shape, IsId
  <2> QED BY <1>1, <1>3, <1>7, <2>1
<1>8. \A h \in Nat : (\A b \in DOMAIN blocks : b[3] <= h) => id[3] <= h + 1 BY <1>1, <1>3
<1> HIDE DEF id
<1> QED BY <1>2, <1>3, <1>4, <1>5, <1>6, <1>7, <1>8 DEF IsPlace

\* Every place is one, also at the start of a second fork.
LEMMA PlaceIs ==
  ASSUME Shape(blocks, blamed_sources), NEW s \in Sources, NEW place \in Places(s)
  PROVE  IsPlace(s, place)
<1>0. 0 \in {0, 1} /\ (0 = 1 => s \in blamed_sources) OBVIOUS
<1>1. CASE place = Extend(s, 0, LastHeight(<<s, 0>>)) BY <1>0, <1>1, ExtendIsPlace
<1>2. CASE s \in blamed_sources /\ place = Extend(s, 1, LastHeight(<<s, 1>>)) BY <1>2, ExtendIsPlace
<1>3. ASSUME s \in blamed_sources, ~(LastHeight(<<s, 1>>) > 0), NEW h \in 0 .. LastHeight(<<s, 0>>) - 1,
             place = [Extend(s, 0, h) EXCEPT !.id = <<s, 1, h + 1>>]
      PROVE  IsPlace(s, place)
  <2> DEFINE l == LastHeight(<<s, 0>>)
             m == LastHeight(<<s, 1>>)
             id == <<s, 1, h + 1>>
  <2>1. /\ l \in Nat
        /\ \A k \in Nat : (\A b \in DOMAIN blocks : b[3] <= k) => l <= k
        /\ l > 0 => <<s, 0, l>> \in DOMAIN blocks
    BY LastHeightIs
  <2>2. m \in Nat /\ \A b \in DOMAIN blocks : b[1] = s /\ b[2] = 1 => b[3] <= m BY LastHeightIs
  <2>3. place.id = id /\ place.prev = IF h = 0 THEN NoBlock ELSE <<s, 0, h>> BY <1>3 DEF Extend
  <2> HIDE DEF l, m
  <2>4. h \in Nat /\ h < l /\ ~(m > 0) BY <1>3, <2>1 DEF l, m
  <2>5. id[1] = s /\ id[2] = 1 /\ id[3] = h + 1 /\ IsId(id) BY <2>4 DEF IsId
  <2>6. id \notin DOMAIN blocks BY <2>2, <2>4, <2>5 DEF Shape, IsId
  <2>7. place.prev = NoBlock \/ (place.prev \in DOMAIN blocks /\ place.prev[1] = s)
    <3> DEFINE e == <<s, 0, h>>
    <3>0. e[1] = s /\ place.prev = IF h = 0 THEN NoBlock ELSE e BY <2>3
    <3> HIDE DEF e
    <3>1. SUFFICES ASSUME h # 0 PROVE e \in DOMAIN blocks BY <3>0
    <3> DEFINE c == <<s, 0, l>>
    <3>2. c \in DOMAIN blocks /\ c[1] = s /\ c[2] = 0 /\ c[3] = l BY <2>1, <2>4
    <3>3. Closed(blocks, DOMAIN blocks) BY DEF Closed, Shape, Good, Whole
    <3> HIDE DEF c
    <3>4. \A k \in 1 .. l : <<s, 0, k>> \in DOMAIN blocks BY <3>2, <3>3, ChainDown
    <3> QED BY <2>1, <2>4, <3>1, <3>4 DEF e
  <2>8. \A k \in Nat : (\A b \in DOMAIN blocks : b[3] <= k) => id[3] <= k + 1 BY <2>1, <2>4, <2>5
  <2> HIDE DEF id
  <2> QED BY <1>3, <2>3, <2>5, <2>6, <2>7, <2>8 DEF IsPlace
<1> QED BY <1>1, <1>2, <1>3 DEF Places

\* A source that is not blamed goes on after its last block.
LEMMA PlaceFollows ==
  ASSUME Shape(blocks, blamed_sources), HeadsAre(blocks, preprocessed, top_source_blocks, blamed_sources),
         NEW s \in Sources, s \notin blamed_sources, NEW place \in Places(s)
  PROVE  place.prev = top_source_blocks[s] /\ place.id[2] = 0
<1> DEFINE l == LastHeight(<<s, 0>>)
           t == top_source_blocks[s]
<1>1. place = Extend(s, 0, l) BY DEF Places
<1>2. /\ l \in Nat
      /\ \A b \in DOMAIN blocks : b[1] = s /\ b[2] = 0 => b[3] <= l
      /\ l > 0 => <<s, 0, l>> \in DOMAIN blocks
  BY LastHeightIs
<1> HIDE DEF l
<1>3. place.id[2] = 0 /\ place.prev = IF l = 0 THEN NoBlock ELSE <<s, 0, l>> BY <1>1 DEF Extend
<1>4. /\ t # NoBlock => t \in DOMAIN blocks /\ t[1] = s /\ t[2] = 0
      /\ \A b \in DOMAIN blocks : b[1] = s => t # NoBlock /\ b[3] <= t[3]
  BY DEF HeadsAre
<1> HIDE DEF t
<1>5. CASE l = 0
  <2>1. ASSUME t # NoBlock PROVE FALSE
    <3>1. t[3] <= l /\ t[3] \in Nat \ {0} BY <1>2, <1>4, <2>1 DEF Shape, IsId
    <3> QED BY <1>5, <3>1
  <2> QED BY <1>3, <1>5, <2>1 DEF t
<1>6. CASE l # 0
  <2> DEFINE c == <<s, 0, l>>
  <2>1. c \in DOMAIN blocks /\ c[1] = s /\ c[3] = l BY <1>2, <1>6
  <2> HIDE DEF c
  <2>2. t # NoBlock /\ l <= t[3] BY <1>4, <2>1
  <2>3. t \in DOMAIN blocks /\ t[1] = s /\ t[2] = 0 BY <1>4, <2>2
  <2>4. t[3] <= l /\ t[3] \in Nat /\ t = <<t[1], t[2], t[3]>> BY <1>2, <2>3 DEF Shape, IsId
  <2>5. t[3] = l BY <1>2, <2>2, <2>4
  <2>6. t = <<s, 0, l>> BY <2>3, <2>4, <2>5
  <2> QED BY <1>3, <1>6, <2>6 DEF t
<1> QED BY <1>5, <1>6

-----------------------------------------------------------------------------
(* A new block                                                             *)

\* Ancestors of a union.
LEMMA AncestorsOfUnion ==
  ASSUME NEW graph, Whole(graph), NEW X, NEW Y
  PROVE  /\ Ancestors(graph, X \cup Y) = Ancestors(graph, X) \cup Ancestors(graph, Y)
         /\ X \subseteq Y => Ancestors(graph, X) \subseteq Ancestors(graph, Y)
<1>1. \A bs : Ancestors(graph, bs) = UNION {From(graph)[b] : b \in bs} BY FromIs
<1>2. Ancestors(graph, X \cup Y) = Ancestors(graph, X) \cup Ancestors(graph, Y)
  <2>1. /\ Ancestors(graph, X \cup Y) = UNION {From(graph)[b] : b \in X \cup Y}
        /\ Ancestors(graph, X) = UNION {From(graph)[b] : b \in X}
        /\ Ancestors(graph, Y) = UNION {From(graph)[b] : b \in Y}
    BY <1>1
  <2> QED BY <2>1
<1>3. X \subseteq Y => X \cup Y = Y OBVIOUS
<1> QED BY <1>2, <1>3

\* The graph with a new block.
LEMMA NewGrows ==
  ASSUME Shape(blocks, blamed_sources), NEW s \in Sources, NEW place \in Places(s),
         NEW ds \in PossibleDeps(s, place.prev), NEW blk, blk = [prev |-> place.prev, deps |-> ds],
         NEW new, new = [x \in {place.id} \cup DOMAIN blocks |-> IF x = place.id THEN blk ELSE blocks[x]]
  PROVE  /\ Grows(blocks, place.id, blk, new) /\ Shape(new, blamed_sources)
         /\ Named(blk) = ({place.prev} \ {NoBlock}) \cup ds /\ ds \subseteq DOMAIN blocks
<1> DEFINE D == DOMAIN blocks
           id == place.id
<1>1. IsPlace(s, place) BY PlaceIs
<1>2. ds \subseteq D /\ Cardinality(ds) <= MaxDeps BY DEF PossibleDeps
<1>3. Named(blk) = ({place.prev} \ {NoBlock}) \cup ds BY DEF Named
<1>4. Named(blk) \subseteq D BY <1>1, <1>2, <1>3 DEF IsPlace
<1>5. Cardinality(Named(blk)) <= MaxDeps + 1
  <2>1. IsFiniteSet(ds) BY <1>2, FS_Subset DEF Shape, Good
  <2>2. /\ IsFiniteSet(ds \cup {place.prev}) /\ Cardinality(ds) \in Nat
        /\ \/ Cardinality(ds \cup {place.prev}) = Cardinality(ds)
           \/ Cardinality(ds \cup {place.prev}) = Cardinality(ds) + 1
    BY <2>1, FS_AddElement, FS_CardinalityType
  <2>3. Named(blk) \subseteq ds \cup {place.prev} BY <1>3
  <2>4. /\ Cardinality(Named(blk)) \in Nat
        /\ Cardinality(Named(blk)) <= Cardinality(ds \cup {place.prev})
    BY <2>2, <2>3, FS_Subset, FS_CardinalityType
  <2> QED BY <1>2, <2>2, <2>4, BoundsAssumption
<1>6. DOMAIN new = D \cup {id} /\ \A x \in D \cup {id} : new[x] = IF x = id THEN blk ELSE blocks[x] OBVIOUS
<1>7. id \notin D BY <1>1 DEF IsPlace
<1>8. new[id] = blk /\ \A b \in D : new[b] = blocks[b] BY <1>6, <1>7
<1>9. Grows(blocks, id, blk, new) BY <1>4, <1>5, <1>6, <1>7, <1>8 DEF Grows
<1>10. Shape(new, blamed_sources)
  <2>1. Good(new) BY <1>9, GrownIsGood DEF Shape
  <2>2. \A b \in DOMAIN new : IsId(b) BY <1>1, <1>6 DEF IsPlace, Shape
  <2>3. \E h \in Nat : \A b \in DOMAIN new : b[3] <= h
    <3>1. PICK h \in Nat : \A b \in D : b[3] <= h BY DEF Shape
    <3>2. id[3] <= h + 1 BY <1>1, <3>1 DEF IsPlace
    <3>3. \A b \in D : b[3] <= h + 1
      <4>1. \A b \in D : b[3] \in Nat BY DEF Shape, IsId
      <4> QED BY <3>1, <4>1
    <3>4. h + 1 \in Nat /\ \A b \in DOMAIN new : b[3] <= h + 1 BY <1>6, <3>2, <3>3
    <3> QED BY <3>4
  <2>4. ASSUME NEW b \in DOMAIN new, b[2] = 0, b[3] > 1 PROVE new[b].prev = <<b[1], 0, b[3] - 1>>
    <3>1. CASE b = id
      <4>1. blk.prev = place.prev /\ id[1] = s BY <1>1 DEF IsPlace
      <4> QED BY <1>1, <1>8, <2>4, <3>1, <4>1 DEF IsPlace
    <3>2. CASE b \in D BY <1>8, <2>4, <3>2 DEF Shape
    <3> QED BY <1>6, <3>1, <3>2
  <2>5. \A b \in DOMAIN new : b[2] = 1 => b[1] \in blamed_sources BY <1>1, <1>6 DEF IsPlace, Shape
  <2> QED BY <2>1, <2>2, <2>3, <2>4, <2>5 DEF Shape
<1> QED BY <1>2, <1>3, <1>9, <1>10

\* A visit shows blocks in order.
LEMMA ShownInOrder ==
  ASSUME NEW graph, Good(graph), NEW b \in DOMAIN graph, Closed(graph, preprocessed),
         NEW v, v = RecursiveBlocksUpdate(graph, b, preprocessed)
  PROVE  /\ Closed(graph, v.marked) /\ b \in v.marked /\ preprocessed \subseteq v.marked
         /\ OutOfOrder(graph, preprocessed, v.order) = {}
<1> DEFINE M == preprocessed
<1>1. M \in SUBSET DOMAIN graph /\ Closed(graph, M) /\ v = RecursiveBlocksUpdate(graph, b, M) BY DEF Closed
<1>4. preprocessed = M OBVIOUS
<1> HIDE DEF M
<1>2. /\ v.order \in Seq(DOMAIN graph) /\ b \in v.marked /\ M \subseteq v.marked
      /\ Closed(graph, v.marked) /\ Orderly(graph, M, v)
  BY <1>1, VisitIs
<1>3. ASSUME NEW j \in DOMAIN v.order
      PROVE  Named(graph[v.order[j]]) \subseteq M \cup ToSet(SubSeq(v.order, 1, j - 1))
  <2> DEFINE o == v.order
  <2>1. o \in Seq(DOMAIN graph) /\ j \in 1 .. Len(o) BY <1>2
  <2>2. SUFFICES ASSUME NEW a \in Named(graph[o[j]]), a \notin M
                 PROVE  a \in ToSet(SubSeq(o, 1, j - 1))
    OBVIOUS
  <2>3. PICK i \in 1 .. j - 1 : o[i] = a BY <1>2, <2>1, <2>2 DEF Orderly
  <2> HIDE DEF o
  <2>4. Len(SubSeq(o, 1, j - 1)) = j - 1 /\ SubSeq(o, 1, j - 1)[i] = a BY <2>1, <2>3
  <2>5. i \in DOMAIN SubSeq(o, 1, j - 1) BY <2>1, <2>3
  <2> QED BY <2>4, <2>5 DEF ToSet
<1> QED BY <1>2, <1>3, <1>4 DEF OutOfOrder

\* What is covered stays covered when a block comes: one of a blamed source,
\* a new top block, or an own block that builds on the last one.
LEMMA CoversGrows ==
  ASSUME NEW graph, Good(graph), NEW id, NEW blk, NEW new, Grows(graph, id, blk, new),
         NEW done, NEW last, NEW last2, NEW top, NEW top2, NEW blamed,
         OwnHead(last) \subseteq DOMAIN graph, top \subseteq DOMAIN graph,
         Covers(graph, done, last, top, blamed),
         \/ id[1] \in blamed /\ OwnHead(last2) = OwnHead(last) /\ top2 = top
         \/ OwnHead(last2) = OwnHead(last) /\ top2 = (top \ Named(blk)) \cup {id}
         \/ id[1] = Self /\ OwnHead(last2) = {id} /\ OwnHead(last) \subseteq Named(blk) /\ top2 = top \ Named(blk)
  PROVE  Covers(new, done, last2, top2, blamed)
<1> DEFINE D == DOMAIN graph
           H == OwnHead(last)
           H2 == OwnHead(last2)
           A(bs) == Ancestors(graph, bs)
           B(bs) == Ancestors(new, bs)
           R == done \cup A(H) \cup A(top)
           N == Named(blk)
<1>1. DOMAIN new = D \cup {id} /\ N \subseteq D BY DEF Grows
<1>2. \A bs : bs \subseteq D => B(bs) = A(bs) /\ B(bs \cup {id}) = {id} \cup A(bs \cup N) BY GrownAncestors
<1>3. \A X, Y : A(X \cup Y) = A(X) \cup A(Y) /\ (X \subseteq Y => A(X) \subseteq A(Y))
  BY AncestorsOfUnion DEF Good
<1>4. \A b \in D : b[1] \notin blamed \cup {Self} => b \in R BY DEF Covers, Reached
<1>5. SUFFICES ASSUME NEW b \in DOMAIN new, b[1] \notin blamed \cup {Self} PROVE b \in done \cup B(H2) \cup B(top2)
  BY DEF Covers, Reached
<1>6. H \subseteq D /\ top \subseteq D OBVIOUS
<1> HIDE DEF A, B, H, H2, N, D
<1>7. CASE id[1] \in blamed /\ H2 = H /\ top2 = top
  <2>1. b \in D BY <1>1, <1>5, <1>7
  <2>2. B(H) = A(H) /\ B(top) = A(top) BY <1>2, <1>6
  <2> QED BY <1>4, <1>5, <1>7, <2>1, <2>2
<1>8. CASE H2 = H /\ top2 = (top \ N) \cup {id}
  <2>1. top \ N \subseteq D /\ top \subseteq (top \ N) \cup N BY <1>6
  <2>2. B(top2) = {id} \cup A((top \ N) \cup N) /\ B(H) = A(H) BY <1>2, <1>6, <1>8, <2>1
  <2>3. A(top) \subseteq A((top \ N) \cup N) BY <1>3, <2>1
  <2> QED BY <1>1, <1>4, <1>5, <1>8, <2>2, <2>3
<1>9. CASE id[1] = Self /\ H2 = {id} /\ H \subseteq N /\ top2 = top \ N
  <2>1. top \ N \subseteq D /\ top \subseteq (top \ N) \cup N /\ {} \subseteq D BY <1>6
  <2>2. {} \cup {id} = {id} /\ {} \cup N = N OBVIOUS
  <2>3. B({id}) = {id} \cup A(N) /\ B(top2) = A(top \ N) BY <1>2, <1>9, <2>1, <2>2
  <2>4. A(H) \subseteq A(N) /\ A(top) \subseteq A((top \ N) \cup N) /\ A((top \ N) \cup N) = A(top \ N) \cup A(N)
    BY <1>3, <1>9, <2>1
  <2>5. b \in D BY <1>1, <1>5, <1>9
  <2> QED BY <1>4, <1>5, <1>9, <2>3, <2>4, <2>5
<1> QED BY <1>7, <1>8, <1>9 DEF H, H2, N

\* The ancestors in the larger graph, for all sets of blocks.
GrowAncestors(graph, id, blk, new) ==
  \A bs \in SUBSET DOMAIN graph :
    /\ Ancestors(new, bs) = Ancestors(graph, bs)
    /\ Ancestors(new, bs \cup {id}) = {id} \cup Ancestors(graph, bs \cup Named(blk))

\* They are the ancestors in the graph and, of the new block, those of the
\* blocks that it names.
LEMMA AllGrownAncestors ==
  ASSUME NEW graph, Good(graph), NEW id, NEW blk, NEW new, Grows(graph, id, blk, new)
  PROVE  GrowAncestors(graph, id, blk, new)
<1>1. SUFFICES ASSUME NEW bs, bs \subseteq DOMAIN graph
               PROVE  /\ Ancestors(new, bs) = Ancestors(graph, bs)
                      /\ Ancestors(new, bs \cup {id}) = {id} \cup Ancestors(graph, bs \cup Named(blk))
  BY DEF GrowAncestors
<1> QED BY <1>1, GrownAncestors

\* Requests stay apart when a block of another source comes.
LEMMA ApartGrows ==
  ASSUME NEW graph, Good(graph), NEW id, NEW blk, NEW new, Grows(graph, id, blk, new),
         NEW last, NEW last2, NEW top, NEW top2, NEW q \in Seq(SUBSET DOMAIN graph),
         OwnHead(last) \subseteq DOMAIN graph, Apart(graph, top, last, q),
         OwnHead(last2) = OwnHead(last), top2 = (top \ Named(blk)) \cup {id}
  PROVE  Apart(new, top2, last2, q)
<1> DEFINE D == DOMAIN graph
           H == OwnHead(last)
           N == Named(blk)
<1>1. /\ id \notin D /\ DOMAIN new = D \cup {id} /\ N \subseteq D /\ new[id] = blk
      /\ \A b \in D : new[b] = graph[b]
  BY DEF Grows
<1>2. \A bs \in SUBSET DOMAIN graph :
        /\ Ancestors(new, bs) = Ancestors(graph, bs)
        /\ Ancestors(new, bs \cup {id}) = {id} \cup Ancestors(graph, bs \cup Named(blk))
  <2>1. GrowAncestors(graph, id, blk, new) BY AllGrownAncestors
  <2> QED BY ONLY <2>1 DEF GrowAncestors
<1>3. \A i \in 1 .. Len(q) : q[i] \subseteq D /\ Earlier(q, i) \subseteq D BY DEF Earlier
<1>4. \A b \in D : Named(graph[b]) \subseteq D BY DEF Good, Whole
<1>5. ASSUME NEW t \in top2, NEW b \in DOMAIN new, t \in Named(new[b]) PROVE FALSE
  <2>1. CASE t = id BY <1>1, <1>4, <1>5, <2>1
  <2>2. CASE t \in top /\ t \notin N
    <3>1. b = id \/ b \in D BY <1>1, <1>5
    <3> QED BY <1>1, <1>5, <2>2, <3>1 DEF Apart
  <2> QED BY <1>5, <2>1, <2>2
<1>6. \A i \in 1 .. Len(q) : OnePerSource(q[i]) /\ q[i] \cap top2 = {} BY <1>1, <1>3 DEF Apart
<1>7. ASSUME NEW i \in 1 .. Len(q) PROVE q[i] \cap Ancestors(new, OwnHead(last2) \cup Earlier(q, i)) = {}
  <2>1. H \cup Earlier(q, i) \subseteq D BY <1>3
  <2>2. Ancestors(new, H \cup Earlier(q, i)) = Ancestors(graph, H \cup Earlier(q, i)) BY <1>2, <2>1
  <2> QED BY <2>2 DEF Apart
<1> QED BY <1>5, <1>6, <1>7 DEF Apart

\* The first request becomes the own block; the others stay apart.
LEMMA ApartOwn ==
  ASSUME NEW graph, Good(graph), NEW id, NEW blk, NEW new, Grows(graph, id, blk, new),
         NEW last, NEW last2, NEW top, NEW top2, NEW q \in Seq(SUBSET DOMAIN graph), q # <<>>,
         OwnHead(last) \subseteq DOMAIN graph, Apart(graph, top, last, q),
         OwnHead(last2) = {id}, Named(blk) = OwnHead(last) \cup q[1], top2 = top \ Named(blk)
  PROVE  Apart(new, top2, last2, Tail(q))
<1> DEFINE D == DOMAIN graph
           H == OwnHead(last)
           N == Named(blk)
           r == Tail(q)
<1>1. /\ id \notin D /\ DOMAIN new = D \cup {id} /\ N \subseteq D /\ new[id] = blk
      /\ \A b \in D : new[b] = graph[b]
  BY DEF Grows
<1>2. \A bs \in SUBSET DOMAIN graph :
        /\ Ancestors(new, bs) = Ancestors(graph, bs)
        /\ Ancestors(new, bs \cup {id}) = {id} \cup Ancestors(graph, bs \cup Named(blk))
  <2>1. GrowAncestors(graph, id, blk, new) BY AllGrownAncestors
  <2> QED BY ONLY <2>1 DEF GrowAncestors
<1>3. /\ Len(q) \in Nat \ {0} /\ r \in Seq(SUBSET D) /\ Len(r) = Len(q) - 1
      /\ \A i \in 1 .. Len(r) : r[i] = q[i + 1]
  OBVIOUS
<1>4. \A b \in D : Named(graph[b]) \subseteq D BY DEF Good, Whole
<1> HIDE DEF r
<1>5. ASSUME NEW t \in top2, NEW b \in DOMAIN new, t \in Named(new[b]) PROVE FALSE
  <2>1. b = id \/ b \in D BY <1>1, <1>5
  <2> QED BY <1>1, <1>5, <2>1 DEF Apart
<1>6. \A i \in 1 .. Len(r) : i + 1 \in 1 .. Len(q) /\ r[i] = q[i + 1] /\ r[i] \subseteq D BY <1>3
<1>7. \A i \in 1 .. Len(r) : OnePerSource(r[i]) /\ r[i] \cap top2 = {} BY <1>6 DEF Apart
<1>8. ASSUME NEW i \in 1 .. Len(r) PROVE r[i] \cap Ancestors(new, OwnHead(last2) \cup Earlier(r, i)) = {}
  <2> DEFINE E == Earlier(r, i)
             F == Earlier(q, i + 1)
  <2>1. E \subseteq D BY <1>3 DEF Earlier
  <2>2. q[1] \subseteq F
    <3>1. 1 \in 1 .. (i + 1) - 1 BY <1>3
    <3> QED BY <3>1 DEF Earlier
  <2>3. E \subseteq F
    <3>1. ASSUME NEW j \in 1 .. i - 1 PROVE r[j] \subseteq F
      <4>1. j + 1 \in 1 .. (i + 1) - 1 /\ r[j] = q[j + 1] BY <1>3
      <4> QED BY <4>1 DEF Earlier
    <3> QED BY <3>1 DEF Earlier
  <2>4. OwnHead(last2) \cup E = E \cup {id} OBVIOUS
  <2> HIDE DEF E, F
  <2>5. Ancestors(new, E \cup {id}) = {id} \cup Ancestors(graph, E \cup N) BY <1>2, <2>1
  <2>6. E \cup N \subseteq H \cup F BY <2>2, <2>3
  <2>7. Ancestors(graph, E \cup N) \subseteq Ancestors(graph, H \cup F) BY <2>6, AncestorsOfUnion DEF Good
  <2>8. q[i + 1] \cap Ancestors(graph, H \cup F) = {} BY <1>6 DEF Apart, F
  <2>9. r[i] = q[i + 1] /\ id \notin r[i] BY <1>1, <1>6
  <2> QED BY <2>4, <2>5, <2>7, <2>8, <2>9 DEF E
<1> QED BY <1>5, <1>7, <1>8 DEF Apart, r

\* Top blocks that are taken make a further request.
LEMMA ApartTakes ==
  ASSUME NEW graph, Good(graph), NEW last, NEW top, NEW chosen, chosen \subseteq top, top \subseteq DOMAIN graph,
         NEW q \in Seq(SUBSET DOMAIN graph), OwnHead(last) \subseteq DOMAIN graph, OwnHead(last) \cap top = {},
         Apart(graph, top, last, q), OnePerSource(chosen)
  PROVE  Apart(graph, top \ chosen, last, Append(q, chosen))
<1> DEFINE D == DOMAIN graph
           H == OwnHead(last)
           r == Append(q, chosen)
           n == Len(q)
<1>1. n \in Nat /\ Len(r) = n + 1 /\ r[n + 1] = chosen /\ \A i \in 1 .. n : r[i] = q[i] OBVIOUS
<1>2. \A i \in 1 .. n : q[i] \subseteq D OBVIOUS
<1> HIDE DEF r, n
<1>3. \A i \in 1 .. n + 1 : Earlier(r, i) = Earlier(q, i)
  <2>1. ASSUME NEW i \in 1 .. n + 1, NEW j \in 1 .. i - 1 PROVE r[j] = q[j] BY <1>1
  <2> QED BY <2>1 DEF Earlier
<1>4. \A t \in top \ chosen : \A b \in DOMAIN graph : t \notin Named(graph[b]) BY DEF Apart
<1>5. ASSUME NEW i \in 1 .. Len(r) PROVE OnePerSource(r[i]) /\ r[i] \cap (top \ chosen) = {}
  <2>1. i \in 1 .. n \/ i = n + 1 BY <1>1
  <2> QED BY <1>1, <2>1 DEF Apart, n
<1>6. ASSUME NEW i \in 1 .. Len(r) PROVE r[i] \cap Ancestors(graph, H \cup Earlier(r, i)) = {}
  <2>1. i \in 1 .. n \/ i = n + 1 BY <1>1
  <2>2. CASE i \in 1 .. n
    <3>1. r[i] = q[i] /\ Earlier(r, i) = Earlier(q, i) BY <1>1, <1>3, <2>2
    <3> QED BY <2>2, <3>1 DEF Apart, n
  <2>3. CASE i = n + 1
    <3> DEFINE X == H \cup Earlier(r, i)
    <3>1. Earlier(r, i) = UNION {q[j] : j \in 1 .. n} BY <1>1, <1>3, <2>3 DEF Earlier
    <3>2. X \subseteq D BY <1>2, <3>1
    <3>3. ASSUME NEW t \in top PROVE t \notin Ancestors(graph, X)
      <4>1. t \notin X BY <3>1, <3>3 DEF Apart, n
      <4>2. Closed(graph, D \ {t}) BY <3>3 DEF Closed, Apart, Good, Whole
      <4>3. X \subseteq D \ {t} BY <3>2, <4>1
      <4> HIDE DEF X
      <4>4. Ancestors(graph, X) \subseteq D \ {t} BY <3>2, <4>2, <4>3, AncestorsAre DEF Good
      <4> QED BY <4>4
    <3>4. r[i] = chosen BY <1>1, <2>3
    <3> QED BY <3>3, <3>4
  <2> QED BY <2>1, <2>2, <2>3
<1> QED BY <1>4, <1>5, <1>6 DEF Apart, r

\* Where the top blocks and the last own block are.
LEMMA TopsInside ==
  ASSUME NEW graph, NEW shown, NEW last, NEW top, NEW blamed,
         HeadsAre(graph, shown, last, blamed), TopsAre(top, last, blamed)
  PROVE  /\ OwnHead(last) \subseteq DOMAIN graph /\ OwnHead(last) \subseteq shown
         /\ top \subseteq DOMAIN graph /\ top \subseteq shown
         /\ OwnHead(last) \cap top = {}
         /\ \A X \in SUBSET top : OnePerSource(X)
         /\ \A t \in top : t[1] \notin blamed
<1>1. Self \in Sources BY SourcesAssumption
<1>2. OwnHead(last) \subseteq DOMAIN graph /\ OwnHead(last) \subseteq shown BY <1>1 DEF OwnHead, HeadsAre
<1>3. \A t \in top : t \in DOMAIN graph /\ t \in shown BY DEF HeadsAre, TopsAre
<1>4. \A b \in OwnHead(last) : b[1] = Self BY <1>1 DEF OwnHead, HeadsAre
<1>5. \A t \in top : t[1] # Self /\ t[1] \notin blamed /\ t = last[t[1]] BY DEF TopsAre
<1>6. OwnHead(last) \cap top = {} BY <1>4, <1>5
<1>7. \A X \in SUBSET top : OnePerSource(X) BY <1>5 DEF OnePerSource, Src
<1> QED BY <1>2, <1>3, <1>5, <1>6, <1>7

\* The new last block of a source that is not blamed.
LEMMA NewHead ==
  ASSUME CInv, NEW s \in Sources, s \notin blamed_sources, NEW place \in Places(s), NEW blk, NEW new,
         Grows(blocks, place.id, blk, new), NEW shown, preprocessed \subseteq shown, place.id \in shown,
         NEW last, last = [top_source_blocks EXCEPT ![s] = place.id],
         blk.prev = place.prev
  PROVE  /\ HeadsAre(new, shown, last, blamed_sources)
         /\ TopsAre(TopsAfter(place.id, blk), last, blamed_sources)
         /\ OwnHead(last) = IF s = Self THEN {place.id} ELSE OwnHead(top_source_blocks)
         /\ TopsAfter(place.id, blk) = (top_blocks \ Named(blk)) \cup (IF s = Self THEN {} ELSE {place.id})
<1> DEFINE D == DOMAIN blocks
           id == place.id
           old == top_source_blocks
           B == blamed_sources
<1>1. /\ IsId(id) /\ id[1] = s /\ \A b \in D : b[1] = s => b[3] <= id[3]
  BY PlaceIs DEF CInv, IsPlace
<1>2. place.prev = old[s] /\ id[2] = 0 BY PlaceFollows DEF CInv
<1>3. id # NoBlock /\ id[3] \in Nat BY <1>1, IdIsABlock DEF IsId
<1>4. DOMAIN new = D \cup {id} BY DEF Grows
<1>5. /\ DOMAIN old = Sources
      /\ \A i \in Sources :
           /\ i \in B => old[i] = NoBlock
           /\ old[i] # NoBlock => old[i] \in D /\ old[i] \in preprocessed /\ old[i][1] = i /\ old[i][2] = 0
           /\ i \notin B => \A b \in D : b[1] = i => old[i] # NoBlock /\ b[3] <= old[i][3]
  BY DEF CInv, HeadsAre
<1>6. /\ DOMAIN last = Sources /\ last[s] = id
      /\ \A i \in Sources : i # s => last[i] = old[i]
  BY <1>5
<1>7. s # Self => Self \in Sources /\ last[Self] = old[Self] BY <1>6, SourcesAssumption
<1>8. \A t \in top_blocks : t # NoBlock /\ t[1] \in Sources \ (B \cup {Self}) /\ t = old[t[1]] BY DEF CInv, TopsAre
<1>9. OwnHead(last) = IF s = Self THEN {id} ELSE OwnHead(old)
  <2>1. CASE s = Self BY <1>3, <1>6, <2>1 DEF OwnHead
  <2>2. CASE s # Self BY <1>7, <2>2 DEF OwnHead
  <2> QED BY <2>1, <2>2
<1>10. TopsAfter(id, blk) = (top_blocks \ Named(blk)) \cup (IF s = Self THEN {} ELSE {id}) BY <1>1 DEF TopsAfter, Src
<1> HIDE DEF id, old, B, D
<1>11. HeadsAre(new, shown, last, B)
  <2>1. ASSUME NEW i \in Sources
        PROVE  /\ i \in B => last[i] = NoBlock
               /\ last[i] # NoBlock => last[i] \in DOMAIN new /\ last[i] \in shown /\ last[i][1] = i /\ last[i][2] = 0
    <3>1. CASE i = s BY <1>1, <1>2, <1>4, <1>6, <3>1 DEF id, B
    <3>2. CASE i # s BY <1>4, <1>5, <1>6, <3>2
    <3> QED BY <3>1, <3>2
  <2>2. ASSUME NEW i \in Sources, i \notin B, NEW b \in DOMAIN new, b[1] = i
        PROVE  last[i] # NoBlock /\ b[3] <= last[i][3]
    <3>1. b \in D \/ b = id BY <1>4, <2>2
    <3>2. CASE i = s
      <4>1. last[i] = id BY <1>6, <3>2
      <4>2. b[3] <= id[3] BY <1>1, <1>3, <2>2, <3>1, <3>2
      <4> QED BY <1>3, <4>1, <4>2
    <3>3. CASE i # s
      <4>1. b \in D /\ last[i] = old[i] BY <1>1, <1>6, <2>2, <3>1, <3>3
      <4> QED BY <1>5, <2>2, <4>1
    <3> QED BY <3>2, <3>3
  <2> QED BY <1>6, <2>1, <2>2 DEF HeadsAre
<1>12. TopsAre(TopsAfter(id, blk), last, B)
  <2>1. ASSUME NEW t \in top_blocks, t \notin Named(blk) PROVE t[1] # s
    <3>1. SUFFICES ASSUME t[1] = s PROVE FALSE OBVIOUS
    <3>2. t = blk.prev /\ t # NoBlock BY <1>2, <1>8, <3>1
    <3> QED BY <2>1, <3>2 DEF Named
  <2>2. ASSUME NEW t \in TopsAfter(id, blk)
        PROVE  t # NoBlock /\ t[1] \in Sources \ (B \cup {Self}) /\ t = last[t[1]]
    <3>1. CASE t \in top_blocks /\ t \notin Named(blk) BY <1>6, <1>8, <2>1, <3>1
    <3>2. CASE s # Self /\ t = id BY <1>1, <1>3, <1>6, <3>2 DEF B
    <3>3. (t \in top_blocks /\ t \notin Named(blk)) \/ (s # Self /\ t = id) BY <1>10, <2>2
    <3> QED BY <3>1, <3>2, <3>3
  <2> QED BY <2>2 DEF TopsAre
<1> QED BY <1>9, <1>10, <1>11, <1>12 DEF id, old, B

\* Closed sets and ids survive in the larger graph.
LEMMA GrownSets ==
  ASSUME NEW graph, Good(graph), NEW id, NEW blk, NEW new, Grows(graph, id, blk, new)
  PROVE  /\ \A C : Closed(graph, C) => Closed(new, C)
         /\ id \in DOMAIN new /\ DOMAIN graph \subseteq DOMAIN new /\ id \notin DOMAIN graph
<1>1. DOMAIN new = DOMAIN graph \cup {id} /\ \A b \in DOMAIN graph : new[b] = graph[b] BY DEF Grows
<1>2. \A C : Closed(graph, C) => Closed(new, C) BY <1>1 DEF Closed
<1> QED BY <1>1, <1>2 DEF Grows

\* What the new block leaves of the invariant, but for the requests.
LEMMA NewBlock ==
  ASSUME CInv, NEW s \in Sources, NEW place \in Places(s), NEW ds \in PossibleDeps(s, place.prev),
         NEW blk, blk = [prev |-> place.prev, deps |-> ds], OnNewBlock(place.id, blk)
  PROVE  /\ Grows(blocks, place.id, blk, blocks')
         /\ blamed_sources' = blamed_sources
         /\ Shape(blocks', blamed_sources)
         /\ HeadsAre(blocks', preprocessed', top_source_blocks', blamed_sources)
         /\ TopsAre(top_blocks', top_source_blocks', blamed_sources)
         /\ Closed(blocks', preprocessed') /\ Closed(blocks', processed) /\ processed' = processed
         /\ processed \subseteq preprocessed' /\ early' = {}
         /\ Covers(blocks', processed, top_source_blocks', top_blocks', blamed_sources)
         /\ timer' \in {"armed", "infinite"}
         /\ s \notin blamed_sources =>
              IF s = Self
                THEN /\ OwnHead(top_source_blocks') = {place.id}
                     /\ Named(blk) = OwnHead(top_source_blocks) \cup ds
                     /\ top_blocks' = top_blocks \ Named(blk)
                ELSE /\ OwnHead(top_source_blocks') = OwnHead(top_source_blocks)
                     /\ top_blocks' = (top_blocks \ Named(blk)) \cup {place.id}
<1> DEFINE D == DOMAIN blocks
           id == place.id
           B == blamed_sources
           old == top_source_blocks
           new == blocks'
           N == Named(blk)
<1>1. new = [x \in {id} \cup DOMAIN blocks |-> IF x = id THEN blk ELSE blocks[x]] BY DEF OnNewBlock
<1>2. Shape(blocks, B) /\ Good(blocks) BY DEF CInv, Shape
<1> HIDE DEF new
<1>3. /\ Grows(blocks, id, blk, new) /\ Shape(new, B)
      /\ N = ({place.prev} \ {NoBlock}) \cup ds
  BY <1>1, <1>2, NewGrows
<1>4. id[1] = s /\ IsPlace(s, place) BY <1>2, PlaceIs DEF IsPlace
<1>5. /\ \A C : Closed(blocks, C) => Closed(new, C)
      /\ id \in DOMAIN new /\ D \subseteq DOMAIN new /\ id \notin D
  BY <1>2, <1>3, GrownSets
<1>6. Closed(blocks, preprocessed) /\ Closed(blocks, processed) /\ processed \subseteq preprocessed /\ early = {}
  BY DEF CInv, Marked
<1>7. /\ OwnHead(old) \subseteq D /\ top_blocks \subseteq D
      /\ \A t \in top_blocks : t[1] \notin B
  BY TopsInside DEF CInv
<1>8. Covers(blocks, processed, old, top_blocks, B) BY DEF CInv
<1>9. Good(new) BY <1>3 DEF Shape
<1>10. blamed_sources' = B /\ processed' = processed BY DEF OnNewBlock
<1>11. timer' \in {"armed", "infinite"}
  BY DEF OnNewBlock, ArmIfIdle, SetNextBlockGenerationTime, CInv, Flow
<1>12. CASE s \in B
  <2>1. /\ top_blocks' = top_blocks \ {blk.prev} /\ preprocessed' = preprocessed /\ early' = early
        /\ top_source_blocks' = old
    BY <1>4, <1>12 DEF OnNewBlock, Src
  <2>2. top_blocks' = top_blocks
    <3>1. blk.prev \notin top_blocks
      <4>1. blk.prev = place.prev OBVIOUS
      <4>2. NoBlock \notin top_blocks BY DEF CInv, TopsAre
      <4> QED BY <1>4, <1>7, <1>12, <4>1, <4>2 DEF IsPlace
    <3> QED BY <2>1, <3>1
  <2>3. HeadsAre(new, preprocessed, old, B)
    <3>1. DOMAIN new = D \cup {id} BY <1>3 DEF Grows
    <3>2. HeadsAre(blocks, preprocessed, old, B) BY DEF CInv
    <3> QED BY <1>4, <1>12, <3>1, <3>2 DEF HeadsAre
  <2>4. TopsAre(top_blocks, old, B) BY DEF CInv
  <2>5. Covers(new, processed, old, top_blocks, B)
    <3> HIDE DEF id, old, B, N
    <3>1. id[1] \in B BY <1>4, <1>12
    <3> QED BY <1>2, <1>3, <1>7, <1>8, <3>1, CoversGrows
  <2> QED BY <1>3, <1>5, <1>6, <1>10, <1>11, <1>12, <2>1, <2>2, <2>3, <2>4, <2>5 DEF new
<1>13. CASE s \notin B
  <2> DEFINE v == RecursiveBlocksUpdate(new, id, preprocessed)
             top == TopsAfter(id, blk)
             last == [old EXCEPT ![s] = id]
  <2>1. /\ preprocessed' = v.marked /\ early' = early \cup OutOfOrder(new, preprocessed, v.order)
        /\ top_blocks' = top /\ top_source_blocks' = last
    BY <1>4, <1>13 DEF OnNewBlock, Src, SendPreprocess, new
  <2>2. v = RecursiveBlocksUpdate(new, id, preprocessed) OBVIOUS
  <2> HIDE DEF v
  <2>3. /\ Closed(new, v.marked) /\ id \in v.marked /\ preprocessed \subseteq v.marked
        /\ OutOfOrder(new, preprocessed, v.order) = {}
    BY <1>5, <1>6, <1>9, <2>2, ShownInOrder
  <2>4. blk.prev = place.prev /\ last = [top_source_blocks EXCEPT ![s] = place.id] OBVIOUS
  <2> DEFINE shown == v.marked
  <2>12. Grows(blocks, place.id, blk, new) /\ preprocessed \subseteq shown /\ place.id \in shown /\ s \notin blamed_sources
    BY <1>3, <1>13, <2>3
  <2> HIDE DEF last, shown
  <2>5. /\ HeadsAre(new, v.marked, last, B) /\ TopsAre(top, last, B)
        /\ OwnHead(last) = IF s = Self THEN {id} ELSE OwnHead(old)
        /\ top = (top_blocks \ N) \cup (IF s = Self THEN {} ELSE {id})
    <3>1. /\ HeadsAre(new, shown, last, blamed_sources) /\ TopsAre(TopsAfter(place.id, blk), last, blamed_sources)
          /\ OwnHead(last) = IF s = Self THEN {place.id} ELSE OwnHead(top_source_blocks)
          /\ TopsAfter(place.id, blk) = (top_blocks \ Named(blk)) \cup (IF s = Self THEN {} ELSE {place.id})
      BY <2>4, <2>12, NewHead
    <3> QED BY <3>1 DEF shown
  <2>6. place.prev = old[s] BY <1>2, <1>13, PlaceFollows DEF CInv
  <2>7. s = Self => N = OwnHead(old) \cup ds BY <1>3, <2>6 DEF OwnHead
  <2> HIDE DEF top
  <2>8. /\ s = Self => /\ OwnHead(last) = {id} /\ OwnHead(old) \subseteq N /\ top = top_blocks \ N
        /\ s # Self => OwnHead(last) = OwnHead(old) /\ top = (top_blocks \ N) \cup {id}
    BY <2>5, <2>7
  <2>9. Covers(new, processed, last, top, B)
    <3> HIDE DEF id, old, B, N
    <3>1. \/ OwnHead(last) = OwnHead(old) /\ top = (top_blocks \ Named(blk)) \cup {id}
          \/ id[1] = Self /\ OwnHead(last) = {id} /\ OwnHead(old) \subseteq Named(blk) /\ top = top_blocks \ Named(blk)
      BY <1>4, <2>8 DEF N
    <3> QED BY <1>2, <1>3, <1>7, <1>8, <3>1, CoversGrows
  <2>10. early' = {} BY <1>6, <2>1, <2>3
  <2>11. processed \subseteq v.marked BY <1>6, <2>3
  <2> QED BY <1>3, <1>5, <1>6, <1>10, <1>11, <2>1, <2>3, <2>5, <2>7, <2>8, <2>9, <2>10, <2>11 DEF new
<1> QED BY <1>12, <1>13

-----------------------------------------------------------------------------
(* Taking top blocks                                                       *)

\* What send_process leaves: the blocks it takes are processed, and make a
\* request that is apart from the others.
LEMMA Takes ==
  ASSUME CInv, SendProcess
  PROVE  /\ top_blocks' = top_blocks \ process_deps' /\ process_deps' \subseteq DOMAIN blocks
         /\ Closed(blocks, processed') /\ processed' \subseteq preprocessed /\ processed \subseteq processed'
         /\ process_deps' \subseteq processed'
         /\ TopsAre(top_blocks', top_source_blocks, blamed_sources)
         /\ Covers(blocks, processed', top_source_blocks, top_blocks', blamed_sources)
         /\ \A q \in Seq(SUBSET DOMAIN blocks) :
              Apart(blocks, top_blocks, top_source_blocks, q)
                => Apart(blocks, top_blocks', top_source_blocks, Append(q, process_deps'))
<1> DEFINE D == DOMAIN blocks
           old == top_source_blocks
           B == blamed_sources
<1>1. PICK taken \in SUBSET top_blocks : \E chosen \in {{b \in taken : Src(b) \notin B}} :
         /\ top_blocks' = top_blocks \ taken
         /\ processed' = SetProcessed(SetToSeq(chosen))
         /\ process_deps' = chosen
  BY DEF SendProcess
<1>2. /\ OwnHead(old) \subseteq D /\ top_blocks \subseteq D /\ top_blocks \subseteq preprocessed
      /\ OwnHead(old) \cap top_blocks = {} /\ (\A X \in SUBSET top_blocks : OnePerSource(X))
      /\ \A t \in top_blocks : t[1] \notin B
  BY TopsInside DEF CInv
<1>3. {b \in taken : Src(b) \notin B} = taken BY <1>2 DEF Src
<1>4. /\ top_blocks' = top_blocks \ taken
      /\ processed' = SetProcessed(SetToSeq(taken))
      /\ process_deps' = taken
  BY <1>1, <1>3
<1>5. Good(blocks) /\ Whole(blocks) /\ Acyclic(blocks) BY DEF CInv, Shape, Good
<1>6. /\ Closed(blocks, preprocessed) /\ Closed(blocks, processed) /\ processed \subseteq preprocessed
  BY DEF CInv, Marked
<1> DEFINE chosen == SetToSeq(taken)
           done == SetProcessed(chosen)
<1>7. taken \subseteq D /\ taken \subseteq preprocessed BY <1>2
<1>8. /\ chosen \in Seq(taken) /\ taken = {chosen[i] : i \in 1 .. Len(chosen)}
  <2>1. IsFiniteSet(taken) BY <1>5, <1>7, FS_Subset DEF Good
  <2> QED BY <2>1, Listed
<1> HIDE DEF chosen
<1>9. chosen \in Seq(D) /\ \A i \in 1 .. Len(chosen) : chosen[i] \in preprocessed BY <1>7, <1>8, SeqMonotonic
<1>10. /\ Closed(blocks, done) /\ processed \subseteq done
       /\ \A i \in 1 .. Len(chosen) : chosen[i] \in done
       /\ \A C : Closed(blocks, C) /\ processed \subseteq C /\ (\A i \in 1 .. Len(chosen) : chosen[i] \in C)
                   => done \subseteq C
  BY <1>5, <1>6, <1>9, ProcessedIs
<1>11. processed' = done BY <1>4 DEF chosen
<1> HIDE DEF done
<1>12. done \subseteq preprocessed BY <1>6, <1>9, <1>10
<1>13. taken \subseteq done BY <1>8, <1>10
<1>14. TopsAre(top_blocks \ taken, old, B) BY DEF CInv, TopsAre
<1>15. Covers(blocks, done, old, top_blocks \ taken, B)
  <2> DEFINE A(bs) == Ancestors(blocks, bs)
  <2>1. top_blocks = (top_blocks \ taken) \cup taken OBVIOUS
  <2>2. A(top_blocks) = A(top_blocks \ taken) \cup A(taken) BY <1>5, <2>1, AncestorsOfUnion
  <2>3. A(taken) \subseteq done BY <1>5, <1>7, <1>10, <1>13, AncestorsAre
  <2>4. Covers(blocks, processed, old, top_blocks, B) BY DEF CInv
  <2> HIDE DEF A, old, B
  <2>5. Reached(blocks, processed, old, top_blocks) \subseteq Reached(blocks, done, old, top_blocks \ taken)
    BY <1>10, <2>2, <2>3 DEF Reached, A
  <2> QED BY <2>4, <2>5 DEF Covers
<1>16. ASSUME NEW q \in Seq(SUBSET D), Apart(blocks, top_blocks, old, q)
       PROVE  Apart(blocks, top_blocks \ taken, old, Append(q, taken))
  BY <1>2, <1>5, <1>16, ApartTakes
<1> QED BY <1>4, <1>7, <1>10, <1>11, <1>12, <1>13, <1>14, <1>15, <1>16

-----------------------------------------------------------------------------
(* A blamed source                                                         *)

\* A block that another descends from is an ancestor of it, if it is the last
\* one of its fork.
LEMMA DescendantIs ==
  ASSUME NEW graph, NEW blamed, Shape(graph, blamed), NEW b \in DOMAIN graph, NEW t \in DOMAIN graph,
         \A x \in DOMAIN graph : x[1] = t[1] /\ x[2] = t[2] => x[3] <= t[3],
         IsDescendantOf(graph, b, t)
  PROVE  t \in Ancestors(graph, {b})
<1> DEFINE A == Ancestors(graph, {b})
           X == {x \in A : Fork(x) = Fork(t)}
           m == DepHeight(graph, b, Fork(t))
<1>1. PICK h \in Nat : \A x \in DOMAIN graph : x[3] <= h BY DEF Shape
<1>2. A \subseteq DOMAIN graph
  <2>1. {b} \subseteq DOMAIN graph /\ Whole(graph) /\ Acyclic(graph) BY DEF Shape, Good
  <2>2. Closed(graph, A) BY <2>1, AncestorsAre
  <2> QED BY <2>2 DEF Closed
<1>3. \A x \in DOMAIN graph : IsId(x) BY DEF Shape
<1>4. m = Max({0} \cup {Height(a) : a \in X}) BY DEF DepHeight
<1>5. t[3] <= m BY DEF IsDescendantOf, Height
<1> HIDE DEF A, m
<1>6. \A x \in X : x \in A /\ x[1] = t[1] /\ x[2] = t[2] BY DEF Fork
<1> HIDE DEF X
<1>7. \A x \in X : x[3] \in Nat \ {0} /\ x[3] <= h BY <1>1, <1>2, <1>3, <1>6 DEF IsId
<1>8. m \in Nat /\ (m > 0 => \E x \in X : x[3] = m) BY <1>4, <1>7, HeightsMax
<1>9. t[3] \in Nat \ {0} BY <1>3 DEF IsId
<1>10. PICK x \in X : x[3] = m BY <1>5, <1>8, <1>9
<1>11. x[3] <= t[3] /\ x \in A /\ x[1] = t[1] /\ x[2] = t[2] BY <1>2, <1>6
<1>12. x[3] = t[3] BY <1>5, <1>8, <1>9, <1>10, <1>11
<1>13. x = <<x[1], x[2], x[3]>> /\ t = <<t[1], t[2], t[3]>> BY <1>2, <1>3, <1>11 DEF IsId
<1> QED BY <1>11, <1>12, <1>13 DEF A

\* An ancestor is older.
LEMMA AncestorIsOlder ==
  ASSUME NEW graph, Good(graph), NEW rank \in [DOMAIN graph -> Nat], Older(graph, rank),
         NEW b \in DOMAIN graph, NEW a \in Ancestors(graph, {b}), a # b
  PROVE  rank[a] < rank[b]
<1> DEFINE C == {x \in DOMAIN graph : x = b \/ rank[x] < rank[b]}
<1>1. Closed(graph, C)
  <2>1. ASSUME NEW x \in C, NEW y \in Named(graph[x]) PROVE y \in C
    <3>1. x \in DOMAIN graph /\ y \in DOMAIN graph BY <2>1 DEF Good, Whole
    <3>2. rank[y] < rank[x] /\ rank[x] \in Nat /\ rank[y] \in Nat /\ rank[b] \in Nat BY <2>1, <3>1 DEF Older
    <3> QED BY <2>1, <3>1, <3>2
  <2> QED BY <2>1 DEF Closed
<1>2. {b} \subseteq C /\ {b} \subseteq DOMAIN graph OBVIOUS
<1> HIDE DEF C
<1>3. Ancestors(graph, {b}) \subseteq C BY <1>1, <1>2, AncestorsAre DEF Good
<1> QED BY <1>3 DEF C

\* The recomputed top blocks cover all that is not processed.
LEMMA CoversBlame ==
  ASSUME NEW blamed, Shape(blocks, blamed), Closed(blocks, processed), NEW shown, NEW last,
         HeadsAre(blocks, shown, last, blamed), NEW top, top = TopsWithout(blamed, last)
  PROVE  Covers(blocks, processed, last, top, blamed) /\ TopsAre(top, last, blamed)
<1> DEFINE D == DOMAIN blocks
           heads == {s \in Sources \ blamed : last[s] # NoBlock}
           Free(i) == \A j \in heads \ {i} : ~IsDescendantOf(blocks, last[j], last[i])
           W == Reached(blocks, processed, last, top)
<1>1. top = {last[s] : s \in {i \in heads \ {Self} : last[i] \notin processed /\ Free(i)}} BY DEF TopsWithout
<1>2. \A i \in heads : /\ i \in Sources /\ i \notin blamed /\ last[i] # NoBlock
                       /\ last[i] \in D /\ last[i][1] = i /\ last[i][2] = 0
  BY DEF HeadsAre
<1>3. \A i \in heads \ {Self} : last[i] \notin processed /\ Free(i) => last[i] \in top BY <1>1
<1>4. \A t \in top : \E i \in heads \ {Self} : t = last[i] BY <1>1
<1>5. TopsAre(top, last, blamed) BY <1>2, <1>4 DEF TopsAre
<1>6. Good(blocks) /\ Whole(blocks) /\ Acyclic(blocks) BY DEF Shape, Good
<1>7. OwnHead(last) \subseteq D /\ top \subseteq D BY <1>5, TopsInside
<1>8. /\ Closed(blocks, Ancestors(blocks, OwnHead(last))) /\ OwnHead(last) \subseteq Ancestors(blocks, OwnHead(last))
      /\ Closed(blocks, Ancestors(blocks, top)) /\ top \subseteq Ancestors(blocks, top)
  BY <1>6, <1>7, AncestorsAre
<1>9. Closed(blocks, W) /\ processed \subseteq W /\ OwnHead(last) \subseteq W /\ top \subseteq W
  BY <1>8 DEF Reached, Closed
<1>10. PICK n \in Nat : \E rank \in [D -> 0 .. n] : Older(blocks, rank) BY <1>6 DEF Acyclic
<1>11. PICK rank \in [D -> 0 .. n] : Older(blocks, rank) BY <1>10
<1>12. \A i \in heads : i \in Sources /\ \A b \in D : b[1] = i => b[3] <= last[i][3] BY DEF HeadsAre
<1> HIDE DEF heads, W
<1>13. ASSUME NEW i \in heads
       PROVE  \/ last[i] \in W
              \/ \E j \in heads : /\ last[j] \in D /\ rank[last[i]] < rank[last[j]]
                                 /\ last[i] \in Ancestors(blocks, {last[j]})
  <2>1. CASE i = Self BY <1>2, <1>9, <2>1 DEF OwnHead
  <2>2. CASE last[i] \in processed BY <1>9, <2>2
  <2>3. CASE i # Self /\ last[i] \notin processed /\ Free(i) BY <1>3, <1>9, <2>3
  <2>4. CASE ~Free(i)
    <3>1. PICK j \in heads \ {i} : IsDescendantOf(blocks, last[j], last[i]) BY <2>4
    <3> DEFINE t == last[i]
               b == last[j]
    <3>2. t \in D /\ b \in D /\ t # b BY <1>2, <3>1
    <3>3. \A x \in D : x[1] = t[1] /\ x[2] = t[2] => x[3] <= t[3] BY <1>2, <1>12
    <3>4. IsDescendantOf(blocks, b, t) BY <3>1
    <3> HIDE DEF t, b
    <3>5. t \in Ancestors(blocks, {b}) BY <3>2, <3>3, <3>4, DescendantIs
    <3>6. rank \in [D -> Nat] BY <1>11
    <3>7. rank[t] < rank[b] BY <1>6, <1>11, <3>2, <3>5, <3>6, AncestorIsOlder
    <3> QED BY <3>1, <3>2, <3>5, <3>7 DEF t, b
  <2> QED BY <2>1, <2>2, <2>3, <2>4
<1>14. \A i \in heads : last[i] \in W
  <2> DEFINE G == {k \in Nat : \A i \in heads : n - rank[last[i]] < k => last[i] \in W}
  <2>0. \A i \in heads : last[i] \in D /\ rank[last[i]] \in 0 .. n BY <1>2, <1>11
  <2>1. 0 \in G BY <2>0
  <2>2. ASSUME NEW k \in 1 .. n + 1, k - 1 \in G PROVE k \in G
    <3>1. ASSUME NEW i \in heads, n - rank[last[i]] < k PROVE last[i] \in W
      <4>1. SUFFICES ASSUME NEW j \in heads, last[j] \in D, rank[last[i]] < rank[last[j]],
                            last[i] \in Ancestors(blocks, {last[j]})
                     PROVE  last[i] \in W
        BY <1>13
      <4>2. n - rank[last[j]] < k - 1 BY <2>0, <2>2, <3>1, <4>1
      <4>3. last[j] \in W BY <2>2, <4>2
      <4>4. {last[j]} \subseteq D /\ {last[j]} \subseteq W BY <4>1, <4>3
      <4>5. Ancestors(blocks, {last[j]}) \subseteq W BY <1>6, <1>9, <4>4, AncestorsAre
      <4> QED BY <4>1, <4>5
    <3> QED BY <3>1
  <2>3. n + 1 \in G
    <3> HIDE DEF G
    <3>1. \A k \in 1 .. n + 1 : k - 1 \in G => k \in G BY <2>2
    <3>2. \A k \in 0 .. n + 1 : k \in G BY <2>1, <3>1, UpTo
    <3> QED BY <3>2
  <2> QED BY <2>0, <2>3
<1>15. ASSUME NEW b \in D, b[1] \notin blamed \cup {Self} PROVE b \in W
  <2> DEFINE s == b[1]
             t == last[s]
  <2>1. s \in Sources /\ b[2] = 0 /\ b[3] \in Nat \ {0} /\ b = <<b[1], b[2], b[3]>> BY <1>15 DEF Shape, IsId
  <2>2. t # NoBlock /\ b[3] <= t[3] BY <1>15, <2>1 DEF HeadsAre
  <2>3. s \in heads BY <1>15, <2>1, <2>2 DEF heads
  <2>4. t \in W /\ t \in D /\ t[1] = s /\ t[2] = 0 BY <1>2, <1>14, <2>3
  <2>5. t[3] \in Nat BY <2>4 DEF Shape, IsId
  <2> HIDE DEF t
  <2>6. \A h \in 1 .. t[3] : <<t[1], 0, h>> \in W BY <1>9, <2>4, ChainDown
  <2>7. b[3] \in 1 .. t[3] BY <2>1, <2>2, <2>5 DEF t
  <2>8. <<t[1], 0, b[3]>> \in W BY <2>6, <2>7
  <2> QED BY <2>1, <2>4, <2>8
<1> QED BY <1>5, <1>15 DEF Covers, W

\* A blamed source has no last block any more, and its second fork may come.
LEMMA BlameKeeps ==
  ASSUME CInv, NEW s \in Forkers, OnBlame(s)
  PROVE  CInv'
<1> DEFINE B == blamed_sources \cup {s}
           old == top_source_blocks
           last == [old EXCEPT ![s] = NoBlock]
           top == TopsWithout(B, last)
<1>1. blamed_sources' = B /\ top_source_blocks' = last /\ top_blocks' = top BY DEF OnBlame
<1>2. s \in Sources /\ s # Self /\ Self \in Sources BY SourcesAssumption
<1>3. Shape(blocks, B) BY DEF CInv, Shape
<1>4. HeadsAre(blocks, preprocessed, old, blamed_sources) BY DEF CInv
<1>5. /\ DOMAIN last = Sources /\ last[s] = NoBlock /\ \A i \in Sources : i # s => last[i] = old[i]
  BY <1>2, <1>4 DEF HeadsAre
<1>6. HeadsAre(blocks, preprocessed, last, B)
  <2> HIDE DEF last
  <2>1. ASSUME NEW i \in Sources
        PROVE  /\ i \in B => last[i] = NoBlock
               /\ last[i] # NoBlock => /\ last[i] \in DOMAIN blocks /\ last[i] \in preprocessed
                                       /\ last[i][1] = i /\ last[i][2] = 0
               /\ i \notin B => \A b \in DOMAIN blocks : b[1] = i => last[i] # NoBlock /\ b[3] <= last[i][3]
    <3>1. CASE i = s BY <1>5, <3>1
    <3>2. CASE i # s
      <4>1. last[i] = old[i] /\ (i \in B <=> i \in blamed_sources) BY <1>5, <3>2
      <4> QED BY <1>4, <4>1 DEF HeadsAre
    <3> QED BY <3>1, <3>2
  <2> QED BY <1>5, <2>1 DEF HeadsAre
<1>7. Closed(blocks, processed) BY DEF CInv, Marked
<1>8. top = TopsWithout(B, last) OBVIOUS
<1> HIDE DEF B, last, top
<1>9. Covers(blocks, processed, last, top, B) /\ TopsAre(top, last, B) BY <1>3, <1>6, <1>7, <1>8, CoversBlame
<1>10. /\ blocks' = blocks /\ marks' = marks /\ flow' = flow BY DEF OnBlame
<1>11. B \subseteq Forkers /\ B # {} BY DEF B, CInv
<1>12. Marked' /\ Flow'
  <2>1. Marked /\ Flow BY DEF CInv
  <2> QED BY <1>10, <2>1 DEF Marked, Flow, marks, flow
<1>13. /\ Shape(blocks', blamed_sources') /\ TopsAre(top_blocks', top_source_blocks', blamed_sources')
       /\ HeadsAre(blocks', preprocessed', top_source_blocks', blamed_sources')
       /\ Covers(blocks', processed', top_source_blocks', top_blocks', blamed_sources')
       /\ blamed_sources' \subseteq Forkers /\ blamed_sources' # {}
  BY <1>1, <1>3, <1>6, <1>9, <1>10, <1>11 DEF marks
<1> QED BY <1>12, <1>13 DEF CInv

-----------------------------------------------------------------------------
(* The steps                                                               *)

\* The requests, with and without an own block in work.
LEMMA RequestsAre ==
  ASSUME CInv
  PROVE  /\ OwnRequests \in Seq(SUBSET DOMAIN blocks)
         /\ active_process => OwnRequests = Append(in_flight, process_deps)
         /\ ~active_process => OwnRequests = in_flight
<1>1. in_flight \in Seq(SUBSET DOMAIN blocks) BY DEF CInv, Flow
<1>2. process_deps \in SUBSET DOMAIN blocks BY DEF CInv, Flow, Marked, Closed
<1>3. active_process => OwnRequests = Append(in_flight, process_deps)
  <2>1. in_flight \o <<process_deps>> = Append(in_flight, process_deps) BY <1>1, <1>2
  <2> QED BY <2>1 DEF OwnRequests
<1>4. ~active_process => OwnRequests = in_flight
  <2>1. in_flight \o <<>> = in_flight BY <1>1
  <2> QED BY <2>1 DEF OwnRequests
<1>5. Append(in_flight, process_deps) \in Seq(SUBSET DOMAIN blocks) BY <1>1, <1>2
<1> QED BY <1>1, <1>3, <1>4, <1>5

\* A new block keeps the invariant when the requests stay apart.
LEMMA BlockKeeps ==
  ASSUME CInv, NEW s \in Sources, NEW place \in Places(s), NEW ds \in PossibleDeps(s, place.prev),
         NEW blk, blk = [prev |-> place.prev, deps |-> ds], OnNewBlock(place.id, blk),
         in_flight' \in Seq(SUBSET DOMAIN blocks), ~receiver_started => in_flight' = <<>>,
         blamed_sources = {} => Apart(blocks', top_blocks', top_source_blocks', OwnRequests')
  PROVE  CInv'
<1>1. /\ Grows(blocks, place.id, blk, blocks')
      /\ blamed_sources' = blamed_sources
      /\ Shape(blocks', blamed_sources)
      /\ HeadsAre(blocks', preprocessed', top_source_blocks', blamed_sources)
      /\ TopsAre(top_blocks', top_source_blocks', blamed_sources)
      /\ Closed(blocks', preprocessed') /\ Closed(blocks', processed) /\ processed' = processed
      /\ processed \subseteq preprocessed' /\ early' = {}
      /\ Covers(blocks', processed, top_source_blocks', top_blocks', blamed_sources)
      /\ timer' \in {"armed", "infinite"}
  BY NewBlock
<1>2. Marked' BY <1>1 DEF Marked
<1>3. Flow'
  <2>1. receiver_started' = receiver_started /\ active_process' = active_process /\ force_process' = force_process
        /\ process_deps' = process_deps
    BY DEF OnNewBlock
  <2>2. SUBSET DOMAIN blocks \subseteq SUBSET DOMAIN (blocks') BY <1>1 DEF Grows
  <2>3. in_flight' \in Seq(SUBSET DOMAIN (blocks')) BY <2>2, SeqMonotonic
  <2>4. Flow BY DEF CInv
  <2> QED BY <1>1, <2>1, <2>3, <2>4 DEF Flow
<1>4. blamed_sources' \subseteq Forkers BY <1>1 DEF CInv
<1> QED BY <1>1, <1>2, <1>3, <1>4 DEF CInv

\* A block of another validator.
LEMMA DeliverKeeps ==
  ASSUME CInv, NEW s \in Sources \ {Self}, DeliverBlock(s)
  PROVE  CInv'
<1>1. PICK place \in Places(s) : \E ds \in PossibleDeps(s, place.prev) :
         OnNewBlock(place.id, [prev |-> place.prev, deps |-> ds])
  BY DEF DeliverBlock
<1>2. PICK ds \in PossibleDeps(s, place.prev) : OnNewBlock(place.id, [prev |-> place.prev, deps |-> ds]) BY <1>1
<1> DEFINE blk == [prev |-> place.prev, deps |-> ds]
<1>3. blk = [prev |-> place.prev, deps |-> ds] /\ OnNewBlock(place.id, blk) /\ s \in Sources /\ s # Self BY <1>2
<1> HIDE DEF blk
<1>4. in_flight' = in_flight /\ OwnRequests' = OwnRequests BY <1>3 DEF DeliverBlock, OnNewBlock, OwnRequests
<1>5. in_flight \in Seq(SUBSET DOMAIN blocks) /\ (~receiver_started => in_flight = <<>>) BY DEF CInv, Flow
<1>6. ASSUME blamed_sources = {}
      PROVE  Apart(blocks', top_blocks', top_source_blocks', OwnRequests')
  <2>1. /\ Grows(blocks, place.id, blk, blocks')
        /\ OwnHead(top_source_blocks') = OwnHead(top_source_blocks)
        /\ top_blocks' = (top_blocks \ Named(blk)) \cup {place.id}
    BY <1>3, <1>6, NewBlock
  <2>2. OwnHead(top_source_blocks) \subseteq DOMAIN blocks BY TopsInside DEF CInv
  <2>3. Good(blocks) /\ Apart(blocks, top_blocks, top_source_blocks, OwnRequests) BY <1>6 DEF CInv, Shape
  <2>4. OwnRequests \in Seq(SUBSET DOMAIN blocks) BY RequestsAre
  <2>5. Apart(blocks', top_blocks', top_source_blocks', OwnRequests) BY <2>1, <2>2, <2>3, <2>4, ApartGrows
  <2> QED BY <1>4, <2>5
<1> QED BY <1>3, <1>4, <1>5, <1>6, BlockKeeps

\* An own block of an earlier life.
LEMMA RestoreKeeps ==
  ASSUME CInv, RestoreOwnBlock
  PROVE  CInv'
<1>1. PICK place \in Places(Self) : \E ds \in PossibleDeps(Self, place.prev) :
         OnNewBlock(place.id, [prev |-> place.prev, deps |-> ds])
  BY DEF RestoreOwnBlock
<1>2. PICK ds \in PossibleDeps(Self, place.prev) : OnNewBlock(place.id, [prev |-> place.prev, deps |-> ds]) BY <1>1
<1> DEFINE blk == [prev |-> place.prev, deps |-> ds]
<1>3. blk = [prev |-> place.prev, deps |-> ds] /\ OnNewBlock(place.id, blk) /\ Self \in Sources
  BY <1>2, SourcesAssumption
<1> HIDE DEF blk
<1>4. in_flight = <<>> /\ in_flight' = <<>> /\ ~active_process /\ active_process' = active_process
  BY <1>3 DEF RestoreOwnBlock, OnNewBlock, CInv, Flow
<1>5. OwnRequests' = <<>> BY <1>4 DEF OwnRequests
<1>6. ASSUME blamed_sources = {}
      PROVE  Apart(blocks', top_blocks', top_source_blocks', OwnRequests')
  <2>1. Grows(blocks, place.id, blk, blocks') /\ top_blocks' = top_blocks \ Named(blk) BY <1>3, <1>6, NewBlock
  <2>2. Apart(blocks, top_blocks, top_source_blocks, OwnRequests) BY <1>6 DEF CInv
  <2>3. /\ DOMAIN (blocks') = DOMAIN blocks \cup {place.id} /\ blocks'[place.id] = blk
        /\ \A b \in DOMAIN blocks : blocks'[b] = blocks[b]
    BY <2>1 DEF Grows
  <2>4. \A t \in top_blocks' : \A b \in DOMAIN (blocks') : t \notin Named(blocks'[b]) BY <2>1, <2>2, <2>3 DEF Apart
  <2>5. Len(OwnRequests') = 0 BY <1>5
  <2>6. 1 .. Len(OwnRequests') = {} BY <2>5
  <2> QED BY <2>4, <2>6 DEF Apart
<1>7. in_flight' \in Seq(SUBSET DOMAIN blocks) BY <1>4
<1> QED BY <1>3, <1>4, <1>6, <1>7, BlockKeeps

\* The next own block.
LEMMA OwnKeeps ==
  ASSUME CInv, DeliverOwnBlock
  PROVE  CInv'
<1> DEFINE ds == Head(in_flight)
<1>1. PICK place \in Places(Self) : /\ ds \in PossibleDeps(Self, place.prev)
                                    /\ OnNewBlock(place.id, [prev |-> place.prev, deps |-> ds])
  BY DEF DeliverOwnBlock
<1> DEFINE blk == [prev |-> place.prev, deps |-> ds]
           D == DOMAIN blocks
           q == OwnRequests
<1>2. blk = [prev |-> place.prev, deps |-> ds] /\ OnNewBlock(place.id, blk) /\ Self \in Sources
  BY <1>1, SourcesAssumption
<1>3. in_flight # <<>> /\ in_flight' = Tail(in_flight) /\ in_flight \in Seq(SUBSET D) BY DEF DeliverOwnBlock, CInv, Flow
<1>4. in_flight' \in Seq(SUBSET D) /\ ~(~receiver_started) BY <1>3 DEF CInv, Flow
<1>5. ds = in_flight[1] BY <1>3
<1> HIDE DEF blk, ds
<1>6. active_process' = active_process /\ process_deps' = process_deps BY <1>2 DEF OnNewBlock
<1>7. q \in Seq(SUBSET D) /\ q # <<>> /\ q[1] = ds /\ OwnRequests' = Tail(q)
  <2>0. q \in Seq(SUBSET D) BY RequestsAre
  <2>1. CASE active_process
    <3>1. q = in_flight \o <<process_deps>> /\ OwnRequests' = Tail(in_flight) \o <<process_deps>>
      BY <1>3, <1>6, <2>1 DEF OwnRequests
    <3>2. process_deps \in SUBSET D BY DEF CInv, Flow, Marked, Closed
    <3> QED BY <1>3, <1>5, <2>0, <3>1, <3>2
  <2>2. CASE ~active_process
    <3>1. q = in_flight BY <2>2, RequestsAre
    <3>2. OwnRequests' = Tail(in_flight) \o <<>> BY <1>3, <1>6, <2>2 DEF OwnRequests
    <3>3. Tail(in_flight) \in Seq(SUBSET D) BY <1>3
    <3>4. Tail(in_flight) \o <<>> = Tail(in_flight) BY <3>3
    <3> QED BY <1>3, <1>5, <3>1, <3>2, <3>4
  <2> QED BY <2>1, <2>2
<1> HIDE DEF q
<1>8. ASSUME blamed_sources = {}
      PROVE  Apart(blocks', top_blocks', top_source_blocks', OwnRequests')
  <2>1. /\ Grows(blocks, place.id, blk, blocks')
        /\ OwnHead(top_source_blocks') = {place.id}
        /\ Named(blk) = OwnHead(top_source_blocks) \cup ds
        /\ top_blocks' = top_blocks \ Named(blk)
    BY <1>1, <1>2, <1>8, NewBlock
  <2>2. OwnHead(top_source_blocks) \subseteq D BY TopsInside DEF CInv
  <2>3. Good(blocks) /\ Apart(blocks, top_blocks, top_source_blocks, q) BY <1>8 DEF CInv, Shape, q
  <2>4. Apart(blocks', top_blocks', top_source_blocks', Tail(q)) BY <1>7, <2>1, <2>2, <2>3, ApartOwn
  <2> QED BY <1>7, <2>4
<1> QED BY <1>1, <1>2, <1>4, <1>8, BlockKeeps

\* Top blocks are taken for a new request.
LEMMA TakeKeeps ==
  ASSUME CInv, SendProcess,
         blocks' = blocks, preprocessed' = preprocessed, early' = early,
         top_source_blocks' = top_source_blocks, blamed_sources' = blamed_sources,
         active_process' = TRUE, receiver_started' = TRUE, force_process' \in BOOLEAN,
         timer' \in {"armed", "infinite"}, in_flight' = OwnRequests
  PROVE  CInv'
<1> DEFINE D == DOMAIN blocks
           q == OwnRequests
<1>1. /\ top_blocks' = top_blocks \ process_deps' /\ process_deps' \subseteq DOMAIN blocks
      /\ Closed(blocks, processed') /\ processed' \subseteq preprocessed /\ processed \subseteq processed'
      /\ process_deps' \subseteq processed'
      /\ TopsAre(top_blocks', top_source_blocks, blamed_sources)
      /\ Covers(blocks, processed', top_source_blocks, top_blocks', blamed_sources)
      /\ \A r \in Seq(SUBSET DOMAIN blocks) :
           Apart(blocks, top_blocks, top_source_blocks, r)
             => Apart(blocks, top_blocks', top_source_blocks, Append(r, process_deps'))
  BY Takes
<1>2. q \in Seq(SUBSET D) BY RequestsAre
<1>3. OwnRequests' = Append(q, process_deps')
  <2>1. OwnRequests' = q \o <<process_deps'>> BY DEF OwnRequests
  <2>2. process_deps' \in SUBSET D BY <1>1
  <2> HIDE DEF q
  <2> QED BY <1>2, <2>1, <2>2
<1> HIDE DEF q
<1>4. Marked' BY <1>1 DEF CInv, Marked
<1>5. Flow'
  <2>1. in_flight' \in Seq(SUBSET DOMAIN (blocks')) BY <1>2 DEF q
  <2> QED BY <1>1, <2>1 DEF Flow
<1>6. blamed_sources = {} => Apart(blocks', top_blocks', top_source_blocks', OwnRequests')
  <2>1. blamed_sources = {} => Apart(blocks, top_blocks, top_source_blocks, q) BY DEF CInv, q
  <2> QED BY <1>1, <1>2, <1>3, <2>1
<1>7. /\ blamed_sources \subseteq Forkers /\ Shape(blocks, blamed_sources)
      /\ HeadsAre(blocks, preprocessed, top_source_blocks, blamed_sources)
  BY DEF CInv
<1> QED BY <1>1, <1>4, <1>5, <1>6, <1>7 DEF CInv

\* Steps that leave the blocks and the requests alone.
LEMMA RestKeeps ==
  ASSUME CInv, blocks' = blocks, marks' = marks, tops' = tops, Flow', OwnRequests' = OwnRequests
  PROVE  CInv'
<1>1. Marked' BY DEF CInv, Marked, marks
<1>2. /\ top_blocks' = top_blocks /\ top_source_blocks' = top_source_blocks /\ blamed_sources' = blamed_sources
      /\ preprocessed' = preprocessed /\ processed' = processed
  BY DEF marks, tops
<1> QED BY <1>1, <1>2 DEF CInv

\* The invariant holds at the start.
LEMMA InitCInv ==
  ASSUME Init
  PROVE  CInv
<1>1. DOMAIN blocks = {} BY DEF Init
<1>2. Good(blocks)
  <2>1. IsFiniteSet({}) BY FS_EmptySet
  <2> DEFINE rank == [b \in {} |-> 0]
  <2>2. rank \in [{} -> 0 .. 0] /\ Older(blocks, rank) BY <1>1 DEF Older
  <2>3. Acyclic(blocks)
    <3> HIDE DEF rank
    <3>1. \E r \in [DOMAIN blocks -> 0 .. 0] : Older(blocks, r) BY <1>1, <2>2
    <3> QED BY <3>1 DEF Acyclic
  <2> QED BY <1>1, <2>1, <2>3 DEF Good, Whole
<1>3. Shape(blocks, blamed_sources)
  <2>1. \A b \in DOMAIN blocks : b[3] <= 0 BY <1>1
  <2> QED BY <1>1, <1>2, <2>1 DEF Shape
<1>4. HeadsAre(blocks, preprocessed, top_source_blocks, blamed_sources) BY <1>1 DEF Init, HeadsAre
<1>5. TopsAre(top_blocks, top_source_blocks, blamed_sources) BY DEF Init, TopsAre
<1>6. Marked BY DEF Init, Marked, Closed
<1>7. Flow
  <2>1. <<>> \in Seq(SUBSET DOMAIN blocks) OBVIOUS
  <2>2. in_flight = <<>> /\ process_deps = {} BY DEF Init
  <2>3. in_flight \in Seq(SUBSET DOMAIN blocks) BY <2>1, <2>2
  <2> QED BY <2>2, <2>3 DEF Init, Flow
<1>8. Covers(blocks, processed, top_source_blocks, top_blocks, blamed_sources) BY <1>1 DEF Covers
<1>9. Apart(blocks, top_blocks, top_source_blocks, OwnRequests)
  <2>1. OwnRequests = <<>> BY DEF Init, OwnRequests
  <2>2. Len(OwnRequests) = 0 BY <2>1
  <2>3. 1 .. Len(OwnRequests) = {} /\ top_blocks = {} BY <2>2 DEF Init
  <2> QED BY <2>3 DEF Apart
<1>10. blamed_sources \subseteq Forkers BY DEF Init
<1> QED BY <1>3, <1>4, <1>5, <1>6, <1>7, <1>8, <1>9, <1>10 DEF CInv

\* Every step keeps it.
LEMMA NextCInv ==
  ASSUME CInv, [Next]_vars
  PROVE  CInv'
<1>0. Flow BY DEF CInv
<1>1. CASE OnStarted
  <2>1. ~active_process /\ OwnRequests = in_flight BY <1>1, RequestsAre DEF OnStarted, CInv, Flow
  <2> QED BY <1>0, <1>1, <2>1, TakeKeeps DEF OnStarted, Flow
<1>2. ASSUME NEW s \in Sources \ {Self}, DeliverBlock(s) PROVE CInv' BY <1>2, DeliverKeeps
<1>3. CASE RestoreOwnBlock BY <1>3, RestoreKeeps
<1>4. CASE DeliverOwnBlock BY <1>4, OwnKeeps
<1>5. ASSUME NEW s \in Forkers, OnBlame(s) PROVE CInv' BY <1>5, BlameKeeps
<1>6. CASE RequestNewBlock
  <2>1. /\ blocks' = blocks /\ marks' = marks /\ tops' = tops /\ receiver_started' = receiver_started
        /\ active_process' = active_process /\ process_deps' = process_deps /\ in_flight' = in_flight
        /\ force_process' = TRUE /\ (timer' = timer \/ timer' = "armed")
    BY <1>6 DEF RequestNewBlock, SetNextBlockGenerationTime
  <2>2. Flow' BY <1>0, <2>1 DEF Flow, marks
  <2>3. OwnRequests' = OwnRequests BY <2>1 DEF OwnRequests
  <2> QED BY <2>1, <2>2, <2>3, RestKeeps
<1>7. CASE ProcessedBlock
  <2>1. active_process /\ receiver_started /\ in_flight' = OwnRequests
    <3>1. active_process /\ in_flight' = Append(in_flight, process_deps) BY <1>7 DEF ProcessedBlock
    <3> QED BY <1>0, <3>1, RequestsAre DEF Flow
  <2>2. /\ blocks' = blocks /\ preprocessed' = preprocessed /\ early' = early /\ receiver_started' = TRUE
        /\ top_source_blocks' = top_source_blocks /\ blamed_sources' = blamed_sources
    BY <1>0, <1>7, <2>1 DEF ProcessedBlock, Flow
  <2>3. CASE top_blocks # {} \/ force_process
    <3>1. /\ SendProcess /\ force_process' = FALSE /\ active_process' = active_process /\ timer' = timer
      BY <1>7, <2>3 DEF ProcessedBlock
    <3> QED BY <1>0, <2>1, <2>2, <3>1, TakeKeeps DEF Flow
  <2>4. CASE ~(top_blocks # {} \/ force_process)
    <3>1. FinishProcessing BY <1>7, <2>4 DEF ProcessedBlock
    <3>2. marks' = marks /\ tops' = tops BY <2>2, <3>1 DEF FinishProcessing, marks, tops
    <3>3. OwnRequests \in Seq(SUBSET DOMAIN blocks) BY RequestsAre
    <3>4. Flow' BY <1>0, <2>1, <2>2, <3>1, <3>3 DEF Flow, FinishProcessing
    <3>5. OwnRequests' = OwnRequests
      <4>1. OwnRequests' = in_flight' \o <<>> BY <3>1 DEF OwnRequests, FinishProcessing
      <4>2. OwnRequests \o <<>> = OwnRequests BY <3>3
      <4> QED BY <2>1, <4>1, <4>2
    <3> QED BY <2>2, <3>2, <3>4, <3>5, RestKeeps
  <2> QED BY <2>3, <2>4
<1>8. CASE GenerateNewBlock
  <2>1. /\ blocks' = blocks /\ preprocessed' = preprocessed /\ early' = early /\ receiver_started' = TRUE
        /\ top_source_blocks' = top_source_blocks /\ blamed_sources' = blamed_sources
        /\ force_process' = force_process /\ in_flight' = in_flight /\ timer' = "infinite" /\ receiver_started
    BY <1>0, <1>8 DEF GenerateNewBlock, Flow
  <2>2. CASE active_process
    <3>1. /\ processed' = processed /\ top_blocks' = top_blocks /\ active_process' = active_process
          /\ process_deps' = process_deps
      BY <1>8, <2>2 DEF GenerateNewBlock
    <3>2. marks' = marks /\ tops' = tops BY <2>1, <3>1 DEF marks, tops
    <3>3. Flow' BY <1>0, <2>1, <3>1 DEF Flow
    <3>4. OwnRequests' = OwnRequests BY <2>1, <3>1 DEF OwnRequests
    <3> QED BY <2>1, <3>2, <3>3, <3>4, RestKeeps
  <2>3. CASE ~active_process
    <3>1. SendProcess /\ active_process' = TRUE BY <1>8, <2>3 DEF GenerateNewBlock
    <3>2. in_flight' = OwnRequests BY <2>1, <2>3, RequestsAre
    <3> QED BY <1>0, <2>1, <3>1, <3>2, TakeKeeps DEF Flow
  <2> QED BY <2>2, <2>3
<1>9. CASE UNCHANGED vars
  <2>1. blocks' = blocks /\ marks' = marks /\ tops' = tops /\ flow' = flow BY <1>9 DEF vars
  <2>2. Flow' /\ OwnRequests' = OwnRequests BY <1>0, <2>1 DEF Flow, flow, marks, OwnRequests
  <2> QED BY <2>1, <2>2, RestKeeps
<1> QED BY <1>1, <1>2, <1>3, <1>4, <1>5, <1>6, <1>7, <1>8, <1>9 DEF Next

-----------------------------------------------------------------------------
(* The theorems                                                            *)

\* The invariant holds throughout.
LEMMA AlwaysCInv == Spec => []CInv
<1>1. Init => CInv BY InitCInv
<1>2. CInv /\ [Next]_vars => CInv' BY NextCInv
<1> QED BY <1>1, <1>2, PTL DEF Spec

\* The types, for every number of sources, blocks and dependencies.
THEOREM TypeCorrect == Spec => []TypeOK
<1>1. ASSUME CInv PROVE TypeOK
  <2>1. \A b \in DOMAIN blocks : Src(b) \in Sources /\ Height(b) > 0 /\ Named(blocks[b]) \subseteq DOMAIN blocks
    <3>1. \A b \in DOMAIN blocks : IsId(b) /\ Named(blocks[b]) \subseteq DOMAIN blocks BY <1>1 DEF CInv, Shape, Good, Whole
    <3>2. \A b \in DOMAIN blocks : b[1] \in Sources /\ b[3] > 0 BY <3>1 DEF IsId
    <3> QED BY <3>1, <3>2 DEF Src, Height
  <2>2. top_blocks \subseteq preprocessed BY <1>1, TopsInside DEF CInv
  <2>3. \A s \in Sources : top_source_blocks[s] = NoBlock \/ top_source_blocks[s] \in DOMAIN blocks
    BY <1>1 DEF CInv, HeadsAre
  <2>4. /\ preprocessed \subseteq DOMAIN blocks /\ processed \subseteq preprocessed /\ early \subseteq DOMAIN blocks
    BY <1>1 DEF CInv, Marked, Closed
  <2>5. /\ {receiver_started, active_process, force_process} \subseteq BOOLEAN
        /\ process_deps \subseteq processed /\ timer \in {"armed", "infinite"}
    BY <1>1 DEF CInv, Flow
  <2>6. blamed_sources \subseteq Forkers BY <1>1 DEF CInv
  <2> QED BY <2>1, <2>2, <2>3, <2>4, <2>5, <2>6 DEF TypeOK
<1> QED BY <1>1, AlwaysCInv, PTL

\* recursive_blocks_update shows every block to the session after all the
\* blocks that it names, whatever the graph of blocks and the order in which
\* they come, and its loop ends within the turns that the model allows.
THEOREM BlocksAreShownInOrder == Spec => []PreprocessedInOrder
<1>1. CInv => PreprocessedInOrder BY DEF CInv, Marked, PreprocessedInOrder
<1> QED BY <1>1, AlwaysCInv, PTL

\* As long as nobody is blamed no own block in work or on its way names two
\* blocks of a source or one that its predecessors cover, for any number of
\* requests on their way and any limit of dependencies.
THEOREM OwnBlocksStayValid == Spec => []OwnBlocksAreValid
<1>1. ASSUME CInv PROVE OwnBlocksAreValid
  <2>1. SUFFICES ASSUME blamed_sources = {}, NEW i \in DOMAIN OwnRequests
                 PROVE  OnePerSource(OwnRequests[i]) /\ OwnRequests[i] \cap CoveredBefore(i) = {}
    BY DEF OwnBlocksAreValid
  <2>2. Apart(blocks, top_blocks, top_source_blocks, OwnRequests) BY <1>1, <2>1 DEF CInv
  <2>3. i \in 1 .. Len(OwnRequests) BY <1>1, <2>1, RequestsAre
  <2>4. CoveredBefore(i) = Ancestors(blocks, OwnHead(top_source_blocks) \cup Earlier(OwnRequests, i))
    BY DEF CoveredBefore, OwnHead, Earlier
  <2> QED BY <2>2, <2>3, <2>4 DEF Apart
<1> QED BY <1>1, AlwaysCInv, PTL

\* No block of a source in good standing is forgotten: the own chain, the
\* blocks taken for own blocks or the top blocks cover it, also when the top
\* blocks are recomputed because a source is blamed.
THEOREM NothingIsForgotten == Spec => []TopsCoverTheRest
<1>1. ASSUME CInv PROVE TopsCoverTheRest
  <2>1. Covers(blocks, processed, top_source_blocks, top_blocks, blamed_sources) BY <1>1 DEF CInv
  <2>2. CoveredBefore(1) = Ancestors(blocks, OwnHead(top_source_blocks) \cup Earlier(OwnRequests, 1))
    BY DEF CoveredBefore, OwnHead, Earlier
  <2>3. Ancestors(blocks, OwnHead(top_source_blocks)) \subseteq CoveredBefore(1)
    <3>1. Whole(blocks) BY <1>1 DEF CInv, Shape, Good
    <3>2. OwnHead(top_source_blocks) \subseteq OwnHead(top_source_blocks) \cup Earlier(OwnRequests, 1) OBVIOUS
    <3> QED BY <2>2, <3>1, <3>2, AncestorsOfUnion
  <2>4. SUFFICES ASSUME NEW b \in DOMAIN blocks, Src(b) \notin blamed_sources \cup {Self}
                 PROVE  b \in Covered \cup Ancestors(blocks, top_blocks)
    BY DEF TopsCoverTheRest
  <2>5. b \in Reached(blocks, processed, top_source_blocks, top_blocks) BY <2>1, <2>4 DEF Covers, Src
  <2> QED BY <2>3, <2>5 DEF Reached, Covered
<1> QED BY <1>1, AlwaysCInv, PTL
=============================================================================
