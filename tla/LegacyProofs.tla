---------------------------- MODULE LegacyProofs ----------------------------
(***************************************************************************)
(* What the older search promises, for every program: the normal form of a *)
(* path keeps its items, its head and its last item; nothing queued leads  *)
(* where the program cannot go; every step of a finished path has been     *)
(* executed; and a finished search leaves no step out, on any path the     *)
(* program can follow.                                                     *)
(***************************************************************************)
EXTENDS LegacyVisitor, FiniteSetTheorems, SequenceTheorems, WellFoundedInduction, TLAPS

-----------------------------------------------------------------------------
(* Numbers.                                                                *)

\* A set of numbers that is not empty has a least element.
LEMMA LeastNumber ==
    ASSUME NEW T \in SUBSET Nat, T # {}
    PROVE  \E m \in T : \A k \in T : m <= k
<1> DEFINE R == OpToRel(<, Nat)
<1>1. IsWellFoundedOn(R, Nat)
  BY NatLessThanWellFounded
<1>2. PICK m \in T : \A k \in T : ~(<<k, m>> \in R)
  <2> HIDE DEF R
  <2> QED
    BY <1>1, WFMin
<1>3. \A k \in T : ~(k < m)
  BY <1>2 DEF OpToRel
<1> QED
  BY <1>3

\* A set that has zero and all successors has every number.
LEMMA SetInduction ==
    ASSUME NEW S, 0 \in S, \A n \in Nat : n \in S => n + 1 \in S
    PROVE  Nat \subseteq S
<1> SUFFICES ASSUME Nat \ S # {} PROVE FALSE
  OBVIOUS
<1>1. PICK m \in Nat \ S : \A k \in Nat \ S : m <= k
  BY LeastNumber
<1>2. m # 0 /\ m - 1 \in Nat /\ m - 1 \in S
  BY <1>1
<1>3. (m - 1) + 1 = m
  BY <1>1
<1> QED
  BY <1>1, <1>2, <1>3

\* The last of some places in a sequence, or 0.
LEMMA Last0Is ==
    ASSUME NEW n \in Nat, NEW S \in SUBSET (1 .. n)
    PROVE  Last0(S) \in S \cup {0} /\ (S # {} => Last0(S) # 0)
<1> DEFINE T == {n - k : k \in {0} \cup S}
           Z == {0} \cup S
<1>1. T \in SUBSET Nat /\ T # {}
  OBVIOUS
<1>2. PICK m \in T : \A k \in T : m <= k
  BY <1>1, LeastNumber
<1>3. PICK z \in Z : m = n - z
  BY <1>2
<1>4. \A y \in Z : z >= y
  <2> TAKE y \in Z
  <2>1. n - y \in T
    OBVIOUS
  <2> QED
    BY <1>2, <1>3, <2>1
<1>5. Last0(S) \in Z /\ \A y \in Z : Last0(S) >= y
  <2>1. \E x \in Z : \A y \in Z : x >= y
    BY <1>4
  <2>2. Last0(S) = CHOOSE x \in Z : \A y \in Z : x >= y
    BY DEF Last0, Max
  <2> HIDE DEF Z
  <2> QED
    BY <2>1, <2>2
<1>6. ASSUME NEW y \in S, Last0(S) = 0 PROVE FALSE
  <2>1. y \in 1 .. n /\ 0 >= y
    BY <1>5, <1>6
  <2> QED
    BY <2>1
<1> QED
  BY <1>5, <1>6

-----------------------------------------------------------------------------
(* Walks, and how they are joined.                                         *)

\* What a walk that ends as s does has still to walk of t.
After(s, t) == IF s # <<>> /\ t # <<>> /\ Last(s) = Head(t) THEN Tail(t) ELSE t

LEMMA JoinIs ==
    ASSUME NEW V, NEW s \in Seq(V), NEW t \in Seq(V)
    PROVE  /\ After(s, t) \in Seq(V)
           /\ Join(s, t) = s \o After(s, t)
           /\ Join(s, t) \in Seq(V)
           /\ t # <<>> /\ Last(s) = Head(t) /\ s # <<>> => t = <<Last(s)>> \o After(s, t)
<1>1. t # <<>> => Tail(t) \in Seq(V) /\ t = <<Head(t)>> \o Tail(t)
  OBVIOUS
<1>2. After(s, t) \in Seq(V)
  BY <1>1 DEF After
<1>3. Join(s, t) = s \o After(s, t)
  BY DEF After, Join
<1> QED
  BY <1>1, <1>2, <1>3 DEF After

\* Where two walks in a row end and begin, and what they lead along.
LEMMA ConcatEnds ==
    ASSUME NEW V, NEW s \in Seq(V), NEW t \in Seq(V)
    PROVE  /\ t # <<>> => Last(s \o t) = Last(t)
           /\ s # <<>> => Head(s \o t) = Head(s)
           /\ s # <<>> \/ t # <<>> => s \o t # <<>>
           /\ Range(s \o t) = Range(s) \cup Range(t)
           /\ s \o <<>> = s /\ <<>> \o s = s
<1>1. Range(s \o t) = Range(s) \cup Range(t)
  BY RangeConcatenation
<1> QED
  BY <1>1 DEF Last

LEMMA TailIs ==
    ASSUME NEW V, NEW s \in Seq(V), s # <<>>
    PROVE  /\ Tail(s) \in Seq(V) /\ Head(s) \in V
           /\ Tail(s) # <<>> => Last(Tail(s)) = Last(s)
           /\ Tail(s) = <<>> => Last(s) = Head(s)
           /\ Range(s) = {Head(s)} \cup Range(Tail(s))
           /\ Last(s) \in Range(s) /\ Last(s) \in V
           /\ s = <<Head(s)>> \o Tail(s)
<1>1. <<Head(s)>> \in Seq(V) /\ Tail(s) \in Seq(V) /\ s = <<Head(s)>> \o Tail(s)
  OBVIOUS
<1>2. Range(<<Head(s)>>) = {Head(s)}
  BY DEF Range
<1>3. Range(s) = {Head(s)} \cup Range(Tail(s))
  <2>1. Range(<<Head(s)>> \o Tail(s)) = Range(<<Head(s)>>) \cup Range(Tail(s))
    BY <1>1, RangeConcatenation
  <2> QED
    BY <1>1, <1>2, <2>1
<1>4. Len(s) \in DOMAIN s
  OBVIOUS
<1>5. Last(s) \in Range(s) /\ Last(s) \in V
  BY <1>4 DEF Range, Last
<1>6. Tail(s) # <<>> => Last(Tail(s)) = Last(s)
  BY DEF Last
<1>7. Tail(s) = <<>> => Last(s) = Head(s)
  <2>1. SUFFICES ASSUME Tail(s) = <<>> PROVE Last(s) = Head(s)
    OBVIOUS
  <2>2. s = <<Head(s)>>
    BY <1>1, <2>1, ConcatEnds
  <2>3. \A h : Last(<<h>>) = h
    BY DEF Last
  <2> QED
    BY <2>2, <2>3
<1>8. Head(s) \in V
  OBVIOUS
<1> QED
  BY <1>1, <1>3, <1>5, <1>6, <1>7, <1>8

LEMMA JoinEnds ==
    ASSUME NEW V, NEW s \in Seq(V), NEW t \in Seq(V)
    PROVE  /\ t # <<>> => Last(Join(s, t)) = Last(t)
           /\ s # <<>> => Head(Join(s, t)) = Head(s)
           /\ s # <<>> \/ t # <<>> => Join(s, t) # <<>>
           /\ Range(Join(s, t)) = Range(s) \cup Range(t)
           /\ Join(s, <<>>) = s /\ Join(<<>>, s) = s
<1>1. CASE s # <<>> /\ t # <<>> /\ Last(s) = Head(t)
  <2> DEFINE r == Tail(t)
  <2>1. Join(s, t) = s \o r /\ Join(s, <<>>) = s /\ Join(<<>>, s) = s
    BY <1>1 DEF Join
  <2>2. /\ r \in Seq(V) /\ Range(t) = {Head(t)} \cup Range(r)
        /\ r # <<>> => Last(r) = Last(t)
        /\ r = <<>> => Last(t) = Head(t)
    BY <1>1, TailIs
  <2>3. Last(s) \in Range(s)
    BY <1>1, TailIs
  <2> HIDE DEF r
  <2>4. /\ r # <<>> => Last(s \o r) = Last(r)
        /\ Head(s \o r) = Head(s) /\ s \o r # <<>>
        /\ Range(s \o r) = Range(s) \cup Range(r)
        /\ r = <<>> => s \o r = s
    BY <1>1, <2>2, ConcatEnds
  <2>5. Last(Join(s, t)) = Last(t)
    BY <1>1, <2>1, <2>2, <2>4
  <2>6. Range(Join(s, t)) = Range(s) \cup Range(t)
    BY <1>1, <2>1, <2>2, <2>3, <2>4
  <2> QED
    BY <1>1, <2>1, <2>4, <2>5, <2>6
<1>2. CASE ~(s # <<>> /\ t # <<>> /\ Last(s) = Head(t))
  <2>1. Join(s, t) = s \o t
    BY <1>2 DEF Join
  <2>2. Join(s, <<>>) = s /\ Join(<<>>, s) = s
    BY ConcatEnds DEF Join
  <2> QED
    BY <2>1, <2>2, ConcatEnds
<1> QED
  BY <1>1, <1>2

\* s ends with t.
EndsWith(V, s, t) == t \in Seq(V) /\ \E u \in Seq(V) : s = u \o t

LEMMA EndsWithItself == ASSUME NEW V, NEW s \in Seq(V) PROVE EndsWith(V, s, s)
<1>1. <<>> \in Seq(V) /\ s = <<>> \o s
  BY ConcatEnds
<1> QED
  BY <1>1 DEF EndsWith

LEMMA EndsWithEnd ==
    ASSUME NEW V, NEW s, NEW t, NEW u, EndsWith(V, s, t), EndsWith(V, t, u)
    PROVE  EndsWith(V, s, u)
<1>1. PICK x \in Seq(V) : s = x \o t
  BY DEF EndsWith
<1>2. PICK y \in Seq(V) : t = y \o u
  BY DEF EndsWith
<1>3. u \in Seq(V)
  BY DEF EndsWith
<1>4. x \o (y \o u) = (x \o y) \o u /\ x \o y \in Seq(V)
  BY <1>3
<1> QED
  BY <1>1, <1>2, <1>3, <1>4 DEF EndsWith

\* Two walks that are joined end with the second one.
LEMMA JoinEndsWith ==
    ASSUME NEW V, NEW s \in Seq(V), NEW t \in Seq(V), t # <<>>
    PROVE  EndsWith(V, Join(s, t), t)
<1>1. CASE s # <<>> /\ Last(s) = Head(t)
  <2>1. PICK r \in Seq(V), x \in V : s = Append(r, x)
    BY <1>1, SequenceEmptyOrAppend
  <2>2. s = r \o <<x>> /\ Last(s) = x
    BY <2>1 DEF Last
  <2>3. Tail(t) \in Seq(V) /\ t = <<x>> \o Tail(t)
    BY <1>1, <2>2, TailIs
  <2>4. (r \o <<x>>) \o Tail(t) = r \o (<<x>> \o Tail(t))
    BY <2>3
  <2>5. Join(s, t) = s \o Tail(t)
    BY <1>1 DEF Join
  <2> QED
    BY <2>2, <2>3, <2>4, <2>5 DEF EndsWith
<1>2. CASE ~(s # <<>> /\ Last(s) = Head(t))
  BY <1>2 DEF Join, EndsWith
<1> QED
  BY <1>1, <1>2

LEMMA AfterEnds ==
    ASSUME NEW V, NEW s \in Seq(V), NEW t \in Seq(V)
    PROVE  /\ After(s, t) # <<>> => Last(After(s, t)) = Last(t)
           /\ After(s, t) = <<>> /\ t # <<>> => Last(s) = Last(t)
           /\ s # <<>> /\ After(s, t) = <<>> => Last(s \o After(s, t)) = Last(s)
BY TailIs, ConcatEnds DEF After

\* It does not matter in which order walks are joined.
LEMMA JoinAssociative ==
    ASSUME NEW V, NEW s \in Seq(V), NEW t \in Seq(V), NEW u \in Seq(V)
    PROVE  Join(Join(s, t), u) = Join(s, Join(t, u))
<1> DEFINE b == After(s, t)
           c == After(t, u)
<1>1. /\ b \in Seq(V) /\ c \in Seq(V)
      /\ Join(s, t) = s \o b /\ Join(t, u) = t \o c
      /\ Join(s, t) \in Seq(V) /\ Join(t, u) \in Seq(V)
  BY JoinIs
<1>2. CASE s = <<>> \/ t = <<>> \/ u = <<>>
  <2>1. CASE s = <<>>
    <3>1. Join(s, t) = t /\ Join(s, Join(t, u)) = Join(t, u)
      BY <1>1, <2>1, JoinEnds
    <3> QED
      BY <3>1
  <2>2. CASE t = <<>>
    <3>1. Join(s, t) = s /\ Join(t, u) = u
      BY <2>2, JoinEnds
    <3> QED
      BY <3>1
  <2>3. CASE u = <<>>
    <3>1. Join(Join(s, t), u) = Join(s, t) /\ Join(t, u) = t
      BY <1>1, <2>3, JoinEnds
    <3> QED
      BY <3>1
  <2> QED
    BY <1>2, <2>1, <2>2, <2>3
<1>3. CASE s # <<>> /\ t # <<>> /\ u # <<>>
  <2>1. /\ Join(s, t) # <<>> /\ Join(t, u) # <<>>
        /\ Last(Join(s, t)) = Last(t) /\ Head(Join(t, u)) = Head(t)
    BY <1>3, JoinEnds
  <2>2. After(Join(s, t), u) = c
    BY <1>3, <2>1 DEF After
  <2>3. After(s, Join(t, u)) = b \o c
    <3>1. CASE Last(s) = Head(t)
      <4>1. b = Tail(t) /\ After(s, Join(t, u)) = Tail(t \o c)
        BY <1>1, <1>3, <2>1, <3>1 DEF After
      <4>2. Tail(t \o c) = Tail(t) \o c
        <5>1. Tail(t) \in Seq(V) /\ <<Head(t)>> \in Seq(V) /\ t = <<Head(t)>> \o Tail(t)
          BY <1>3
        <5>2. (<<Head(t)>> \o Tail(t)) \o c = <<Head(t)>> \o (Tail(t) \o c)
          BY <5>1, <1>1, ConcatAssociative
        <5>3. Tail(t) \o c \in Seq(V)
          BY <5>1, <1>1
        <5>4. \A q \in Seq(V), h \in V : Tail(<<h>> \o q) = q
          OBVIOUS
        <5>5. Head(t) \in V
          BY <1>3
        <5> QED
          BY <5>1, <5>2, <5>3, <5>4, <5>5
      <4> QED
        BY <4>1, <4>2
    <3>2. CASE Last(s) # Head(t)
      BY <1>1, <1>3, <2>1, <3>2 DEF After
    <3> QED
      BY <3>1, <3>2
  <2>4. Join(Join(s, t), u) = Join(s, t) \o c
    <3> DEFINE st == Join(s, t)
    <3>1. Join(st, u) = st \o After(st, u)
      <4>1. st \in Seq(V)
        BY <1>1
      <4> HIDE DEF st
      <4> QED
        BY <4>1, JoinIs
    <3> QED
      BY <2>2, <3>1
  <2>5. Join(s, Join(t, u)) = s \o (b \o c)
    BY <1>1, <2>3, JoinIs
  <2>6. (s \o b) \o c = s \o (b \o c)
    BY <1>1, ConcatAssociative
  <2> QED
    BY <1>1, <2>4, <2>5, <2>6
<1> QED
  BY <1>2, <1>3

-----------------------------------------------------------------------------
(* What a list of nodes walks.                                             *)

\* Every node has a walk.
Nodes(V, T) == \A x \in T : x.norm \in Seq(V) /\ x.norm # <<>>

IsWalk(f, nodes) ==
    f = [n \in 0 .. Len(nodes) |-> IF n = 0 THEN <<>> ELSE Join(f[n - 1], nodes[n].norm)]

LEMMA WalkExists ==
    ASSUME NEW V, NEW T, Nodes(V, T), NEW nodes \in Seq(T)
    PROVE  \E f : IsWalk(f, nodes) /\ Walk(nodes) = f[Len(nodes)]
<1> DEFINE N == Len(nodes)
           E(f) == [n \in 0 .. N |-> IF n = 0 THEN <<>> ELSE Join(f[n - 1], nodes[n].norm)]
           Up(f, k) == DOMAIN f = 0 .. k /\ f[0] = <<>>
                       /\ \A n \in 1 .. k : f[n] = Join(f[n - 1], nodes[n].norm)
           S == {k \in Nat : \E f : Up(f, k)}
<1>1. 0 \in S
  <2>1. Up([n \in {0} |-> <<>>], 0)
    OBVIOUS
  <2> QED
    BY <2>1
<1>2. ASSUME NEW k \in Nat, k \in S PROVE k + 1 \in S
  <2>1. PICK f : Up(f, k)
    BY <1>2
  <2> DEFINE g == [n \in 0 .. (k + 1) |->
                      IF n = k + 1 THEN Join(f[k], nodes[k + 1].norm) ELSE f[n]]
  <2>2. Up(g, k + 1)
    <3>1. DOMAIN g = 0 .. (k + 1) /\ g[0] = <<>>
      BY <2>1
    <3>2. ASSUME NEW n \in 1 .. (k + 1) PROVE g[n] = Join(g[n - 1], nodes[n].norm)
      <4>1. g[n - 1] = f[n - 1]
        OBVIOUS
      <4>2. CASE n = k + 1
        <5>1. g[k + 1] = Join(f[k], nodes[k + 1].norm) /\ n - 1 = k
          BY <4>2
        <5> QED
          BY <4>1, <4>2, <5>1
      <4>3. CASE n # k + 1
        <5>1. n \in 1 .. k /\ g[n] = f[n]
          BY <4>3
        <5> QED
          BY <2>1, <4>1, <5>1
      <4> QED
        BY <4>2, <4>3
    <3> HIDE DEF g
    <3> QED
      BY <3>1, <3>2
  <2> HIDE DEF g
  <2> QED
    BY <2>2
<1> HIDE DEF S
<1>3. N \in S
  BY <1>1, <1>2, SetInduction
<1>4. PICK f : Up(f, N)
  BY <1>3 DEF S
<1>5. \E h : h = E(h)
  <2> DEFINE h == [n \in 0 .. N |-> f[n]]
  <2>1. h = E(h)
    <3>1. ASSUME NEW n \in 0 .. N
          PROVE  h[n] = IF n = 0 THEN <<>> ELSE Join(h[n - 1], nodes[n].norm)
      <4>1. CASE n = 0
        BY <1>4, <4>1
      <4>2. CASE n # 0
        <5>1. n \in 1 .. N /\ h[n] = f[n] /\ h[n - 1] = f[n - 1]
          BY <4>2
        <5> QED
          BY <1>4, <4>2, <5>1
      <4> QED
        BY <4>1, <4>2
    <3> QED
      BY <3>1
  <2> QED
    BY <2>1
<1>6. Walk(nodes) = (CHOOSE h : h = E(h))[N]
  BY DEF Walk
<1>7. PICK h : h = (CHOOSE x : x = E(x)) /\ h = E(h)
  <2> HIDE DEF E
  <2> QED
    BY <1>5
<1>8. IsWalk(h, nodes)
  BY <1>7 DEF IsWalk
<1>9. Walk(nodes) = h[N]
  <2> HIDE DEF E
  <2> QED
    BY <1>6, <1>7
<1> QED
  BY <1>8, <1>9

\* A list of nodes walks them one after the other.
LEMMA WalkAppend ==
    ASSUME NEW V, NEW T, Nodes(V, T), NEW nodes \in Seq(T), NEW x \in T
    PROVE  Walk(Append(nodes, x)) = Join(Walk(nodes), x.norm)
<1> DEFINE N == Len(nodes)
           more == Append(nodes, x)
<1>1. /\ more \in Seq(T) /\ Len(more) = N + 1 /\ N \in Nat
      /\ \A n \in 1 .. N : more[n] = nodes[n]
      /\ more[N + 1] = x
  OBVIOUS
<1>2. PICK f : IsWalk(f, nodes) /\ Walk(nodes) = f[N]
  BY WalkExists
<1> HIDE DEF more
<1>3. PICK g : IsWalk(g, more) /\ Walk(more) = g[N + 1]
  BY <1>1, WalkExists
<1> DEFINE S == {n \in Nat : n <= N => f[n] = g[n]}
<1>4. 0 \in S
  BY <1>1, <1>2, <1>3 DEF IsWalk
<1>5. ASSUME NEW n \in Nat, n \in S PROVE n + 1 \in S
  <2> SUFFICES ASSUME n + 1 <= N PROVE f[n + 1] = g[n + 1]
    OBVIOUS
  <2>1. f[n] = g[n]
    BY <1>1, <1>5
  <2>2. f[n + 1] = Join(f[n], nodes[n + 1].norm)
    BY <1>1, <1>2 DEF IsWalk
  <2>3. g[n + 1] = Join(g[n], more[n + 1].norm)
    BY <1>1, <1>3 DEF IsWalk
  <2> QED
    BY <1>1, <2>1, <2>2, <2>3
<1>6. N \in S
  <2> HIDE DEF S
  <2> QED
    BY <1>1, <1>4, <1>5, SetInduction
<1>7. g[N + 1] = Join(g[N], x.norm)
  BY <1>1, <1>3 DEF IsWalk
<1>8. f[N] = g[N]
  BY <1>1, <1>6
<1> QED
  BY <1>2, <1>3, <1>7, <1>8 DEF more

LEMMA WalkEmpty ==
    ASSUME NEW V, NEW T, Nodes(V, T)
    PROVE  Walk(<<>>) = <<>>
<1>1. PICK f : IsWalk(f, <<>>) /\ Walk(<<>>) = f[Len(<<>>)]
  <2>1. <<>> \in Seq(T)
    OBVIOUS
  <2> QED
    BY <2>1, WalkExists
<1> QED
  BY <1>1 DEF IsWalk

LEMMA WalkOne ==
    ASSUME NEW V, NEW T, Nodes(V, T), NEW x \in T
    PROVE  Walk(<<x>>) = x.norm
<1>1. Walk(Append(<<>>, x)) = Join(<<>>, x.norm)
  <2>1. <<>> \in Seq(T)
    OBVIOUS
  <2> QED
    BY <2>1, WalkAppend, WalkEmpty
<1>2. Append(<<>>, x) = <<x>>
  OBVIOUS
<1>3. x.norm \in Seq(V)
  BY DEF Nodes
<1>4. Join(<<>>, x.norm) = x.norm
  BY <1>3, JoinEnds
<1> QED
  BY <1>1, <1>2, <1>4

\* A list of nodes of every length has what it has when it is made node by node.
LEMMA ListInduction ==
    ASSUME NEW T, NEW S, <<>> \in S,
           \A s \in Seq(T), x \in T : s \in S => Append(s, x) \in S
    PROVE  Seq(T) \subseteq S
<1> DEFINE K == {n \in Nat : \A s \in Seq(T) : Len(s) = n => s \in S}
<1>1. 0 \in K
  <2>1. \A s \in Seq(T) : Len(s) = 0 => s = <<>>
    OBVIOUS
  <2> QED
    BY <2>1
<1>2. ASSUME NEW n \in Nat, n \in K PROVE n + 1 \in K
  <2> SUFFICES ASSUME NEW s \in Seq(T), Len(s) = n + 1 PROVE s \in S
    OBVIOUS
  <2>1. PICK r \in Seq(T), x \in T : s = Append(r, x)
    <3>1. s # <<>>
      OBVIOUS
    <3> QED
      BY <3>1, SequenceEmptyOrAppend
  <2>2. Len(r) = n
    BY <2>1
  <2> QED
    BY <1>2, <2>1, <2>2
<1> HIDE DEF K
<1>3. Nat \subseteq K
  BY <1>1, <1>2, SetInduction
<1> QED
  BY <1>3 DEF K

LEMMA WalkType ==
    ASSUME NEW V, NEW T, Nodes(V, T), NEW nodes \in Seq(T)
    PROVE  Walk(nodes) \in Seq(V) /\ (nodes # <<>> => Walk(nodes) # <<>>)
<1> DEFINE S == {s \in Seq(T) : Walk(s) \in Seq(V) /\ (s # <<>> => Walk(s) # <<>>)}
<1>1. <<>> \in S
  <2>1. <<>> \in Seq(T) /\ <<>> \in Seq(V)
    OBVIOUS
  <2> QED
    BY <2>1, WalkEmpty
<1>2. ASSUME NEW s \in Seq(T), NEW x \in T, s \in S PROVE Append(s, x) \in S
  <2>1. Walk(Append(s, x)) = Join(Walk(s), x.norm)
    BY WalkAppend
  <2>2. x.norm \in Seq(V) /\ x.norm # <<>> /\ Walk(s) \in Seq(V)
    BY <1>2 DEF Nodes
  <2>3. Join(Walk(s), x.norm) \in Seq(V)
    BY <2>2, JoinIs
  <2>4. Join(Walk(s), x.norm) # <<>>
    BY <2>2, JoinEnds
  <2>5. Append(s, x) \in Seq(T)
    OBVIOUS
  <2> QED
    BY <2>1, <2>3, <2>4, <2>5
<1> HIDE DEF S
<1>3. nodes \in S
  BY <1>1, <1>2, ListInduction
<1> QED
  BY <1>3 DEF S

\* Two lists one after the other walk one after the other.
LEMMA WalkConcat ==
    ASSUME NEW V, NEW T, Nodes(V, T), NEW s \in Seq(T), NEW t \in Seq(T)
    PROVE  Walk(s \o t) = Join(Walk(s), Walk(t))
<1> DEFINE S == {r \in Seq(T) : Walk(s \o r) = Join(Walk(s), Walk(r))}
<1>0. Walk(s) \in Seq(V)
  BY WalkType
<1>1. <<>> \in S
  <2>1. <<>> \in Seq(T) /\ s \o <<>> = s
    OBVIOUS
  <2>2. Join(Walk(s), <<>>) = Walk(s)
    BY <1>0, JoinEnds
  <2> QED
    BY <2>1, <2>2, WalkEmpty
<1>2. ASSUME NEW r \in Seq(T), NEW x \in T, r \in S PROVE Append(r, x) \in S
  <2>1. s \o Append(r, x) = Append(s \o r, x) /\ s \o r \in Seq(T)
    OBVIOUS
  <2>2. Walk(Append(s \o r, x)) = Join(Walk(s \o r), x.norm)
    BY <2>1, WalkAppend
  <2>3. Walk(Append(r, x)) = Join(Walk(r), x.norm)
    BY WalkAppend
  <2>4. x.norm \in Seq(V) /\ Walk(r) \in Seq(V)
    BY WalkType DEF Nodes
  <2>5. Join(Join(Walk(s), Walk(r)), x.norm) = Join(Walk(s), Join(Walk(r), x.norm))
    BY <1>0, <2>4, JoinAssociative
  <2>6. Walk(s \o r) = Join(Walk(s), Walk(r))
    BY <1>2
  <2>7. Append(r, x) \in Seq(T)
    OBVIOUS
  <2> QED
    BY <2>1, <2>2, <2>3, <2>5, <2>6, <2>7
<1> HIDE DEF S
<1>3. t \in S
  BY <1>1, <1>2, ListInduction
<1> QED
  BY <1>3 DEF S

\* The walk of a list begins as its first node's and ends as its last node's.
LEMMA WalkEnds ==
    ASSUME NEW V, NEW T, Nodes(V, T), NEW nodes \in Seq(T), nodes # <<>>
    PROVE  /\ Head(Walk(nodes)) = Head(nodes[1].norm)
           /\ Last(Walk(nodes)) = Last(nodes[Len(nodes)].norm)
           /\ Range(nodes[Len(nodes)].norm) \subseteq Range(Walk(nodes))
           /\ EndsWith(V, Walk(nodes), nodes[Len(nodes)].norm)
<1>1. PICK s \in Seq(T), x \in T : nodes = Append(s, x)
  BY SequenceEmptyOrAppend
<1>2. nodes[Len(nodes)] = x /\ Walk(nodes) = Join(Walk(s), x.norm)
  BY <1>1, WalkAppend
<1>3. x.norm \in Seq(V) /\ x.norm # <<>> /\ Walk(s) \in Seq(V)
  BY WalkType DEF Nodes
<1>4. /\ Last(Walk(nodes)) = Last(nodes[Len(nodes)].norm)
      /\ Range(nodes[Len(nodes)].norm) \subseteq Range(Walk(nodes))
      /\ EndsWith(V, Walk(nodes), nodes[Len(nodes)].norm)
  BY <1>2, <1>3, JoinEnds, JoinEndsWith
<1>5. /\ nodes[1] \in T /\ <<nodes[1]>> \in Seq(T) /\ Tail(nodes) \in Seq(T)
      /\ nodes = <<nodes[1]>> \o Tail(nodes)
  OBVIOUS
<1>6. Walk(<<nodes[1]>> \o Tail(nodes)) = Join(Walk(<<nodes[1]>>), Walk(Tail(nodes)))
  BY <1>5, WalkConcat
<1>7. Walk(<<nodes[1]>>) = nodes[1].norm
  BY <1>5, WalkOne
<1>8. /\ nodes[1].norm \in Seq(V) /\ nodes[1].norm # <<>> /\ Walk(Tail(nodes)) \in Seq(V)
  BY <1>5, WalkType DEF Nodes
<1>9. Walk(nodes) = Join(nodes[1].norm, Walk(Tail(nodes)))
  BY <1>5, <1>6, <1>7
<1> QED
  BY <1>4, <1>8, <1>9, JoinEnds

-----------------------------------------------------------------------------
(* The nodes that put makes.                                               *)

\* A node walks a loop, and the nodes it begins with are walked at its end.
Tidy(V, T) ==
    /\ Nodes(V, T)
    /\ \A x \in T :
        /\ Head(x.norm) = Last(x.norm)
        /\ \A y \in Heads(x) :
              /\ Last(y.norm) = Last(x.norm) /\ Range(y.norm) \subseteq Range(x.norm)
              /\ EndsWith(V, x.norm, y.norm)

LEMMA PointTidy ==
    ASSUME NEW V, NEW T, Tidy(V, T), NEW v \in V
    PROVE  Tidy(V, T \cup {Point(v)}) /\ Point(v).norm = <<v>>
<1> DEFINE p == Point(v)
<1>1. p.norm = <<v>> /\ "value" \in DOMAIN p
  BY DEF Point
<1>2. <<v>> \in Seq(V) /\ <<v>> # <<>> /\ Head(<<v>>) = v /\ Last(<<v>>) = v
  BY DEF Last
<1>3. Heads(p) = {p}
  BY <1>1 DEF Heads, IsPoint
<1> HIDE DEF p
<1>4. Nodes(V, T \cup {p})
  BY <1>1, <1>2 DEF Tidy, Nodes
<1>5. ASSUME NEW x \in T \cup {p}
      PROVE  /\ Head(x.norm) = Last(x.norm)
             /\ \A y \in Heads(x) :
                   /\ Last(y.norm) = Last(x.norm) /\ Range(y.norm) \subseteq Range(x.norm)
                   /\ EndsWith(V, x.norm, y.norm)
  <2>1. CASE x \in T
    BY <2>1 DEF Tidy
  <2>2. CASE x = p
    <3>1. EndsWith(V, p.norm, p.norm)
      BY <1>1, <1>2, EndsWithItself
    <3> QED
      BY <1>1, <1>2, <1>3, <2>2, <3>1
  <2> QED
    BY <2>1, <2>2
<1>6. Tidy(V, T \cup {p})
  BY <1>4, <1>5 DEF Tidy
<1> QED
  BY <1>1, <1>6 DEF p

LEMMA CycleTidy ==
    ASSUME NEW V, NEW T, Tidy(V, T), NEW nodes \in Seq(T), nodes # <<>>
    PROVE  /\ Tidy(V, T \cup {Cycle(nodes)})
           /\ Cycle(nodes).norm = Join(Walk(nodes), nodes[1].norm)
<1> DEFINE c == Cycle(nodes)
           h == nodes[1]
<1>1. /\ c.norm = Join(Walk(nodes), h.norm) /\ c.heads = {h} \cup Heads(h)
      /\ "value" \notin DOMAIN c
  BY DEF Cycle
<1>2. Heads(c) = {h} \cup Heads(h)
  BY <1>1 DEF Heads, IsPoint
<1> HIDE DEF c
<1>3. h \in T /\ Nodes(V, T)
  BY DEF Tidy
<1>4. h.norm \in Seq(V) /\ h.norm # <<>> /\ Head(h.norm) = Last(h.norm)
  BY <1>3 DEF Tidy, Nodes
<1>5. Walk(nodes) \in Seq(V) /\ Walk(nodes) # <<>>
  BY <1>3, WalkType
<1>6. Head(Walk(nodes)) = Head(h.norm)
  BY <1>3, WalkEnds
<1> HIDE DEF h
<1>7. c.norm \in Seq(V)
  <2>1. Join(Walk(nodes), h.norm) \in Seq(V)
    BY <1>4, <1>5, JoinIs
  <2> QED
    BY <1>1, <2>1
<1>8. /\ c.norm # <<>> /\ Last(c.norm) = Last(h.norm) /\ Head(c.norm) = Head(h.norm)
      /\ Range(h.norm) \subseteq Range(c.norm) /\ EndsWith(V, c.norm, h.norm)
  BY <1>1, <1>4, <1>5, <1>6, JoinEnds, JoinEndsWith
<1>9. Nodes(V, T \cup {c})
  BY <1>3, <1>7, <1>8 DEF Nodes
<1>10. ASSUME NEW x \in T \cup {c}
       PROVE  /\ Head(x.norm) = Last(x.norm)
              /\ \A y \in Heads(x) :
                    /\ Last(y.norm) = Last(x.norm) /\ Range(y.norm) \subseteq Range(x.norm)
                    /\ EndsWith(V, x.norm, y.norm)
  <2>1. CASE x \in T
    BY <2>1 DEF Tidy
  <2>2. CASE x = c
    <3>1. ASSUME NEW y \in Heads(h)
          PROVE  /\ Last(y.norm) = Last(h.norm) /\ Range(y.norm) \subseteq Range(h.norm)
                 /\ EndsWith(V, c.norm, y.norm)
      BY <1>3, <1>8, <3>1, EndsWithEnd DEF Tidy
    <3> QED
      BY <1>2, <1>4, <1>8, <2>2, <3>1
  <2> QED
    BY <2>1, <2>2
<1>11. Tidy(V, T \cup {c})
  BY <1>9, <1>10 DEF Tidy
<1> QED
  BY <1>1, <1>11 DEF c, h

-----------------------------------------------------------------------------
(* What put does to a walk: it leaves out a loop that was walked again, or  *)
(* walks a loop once more before it goes on.                               *)

\* s has just been through the loop n.
Again(V, s, n) ==
    /\ s # <<>> /\ n # <<>> /\ EndsWith(V, s, n)
    /\ Head(n) = Last(n) /\ Last(n) = Last(s) /\ Range(n) \subseteq Range(s)

Keeps(V, W) ==
    /\ W \subseteq Seq(V)
    /\ \A s, n \in Seq(V) : Again(V, s, n) =>
        /\ Join(s, n) \in W => s \in W
        /\ \A r \in Seq(V) :
              Join(Join(s, r), n) \in W => Join(Join(Join(s, n), r), n) \in W

\* The root stands for a walk in W.
Stands(V, W, root) ==
    \E T : /\ Tidy(V, T) /\ root.items \in Seq(T)
           /\ \/ root.node = <<>> /\ Walk(root.items) \in W
              \/ \E x \in T : root.node = <<x>> /\ Join(Walk(root.items), x.norm) \in W

\* The node matched is walked at the end of what is before it.
LEMMA MatchedAgain ==
    ASSUME NEW V, NEW T, Tidy(V, T), NEW items \in Seq(T), items # <<>>,
           NEW node \in T, node \in Heads(items[Len(items)])
    PROVE  Again(V, Walk(items), node.norm)
<1>1. items[Len(items)] \in T /\ Nodes(V, T)
  BY DEF Tidy
<1>2. Walk(items) \in Seq(V) /\ Walk(items) # <<>>
  BY <1>1, WalkType
<1>3. /\ Last(Walk(items)) = Last(items[Len(items)].norm)
      /\ Range(items[Len(items)].norm) \subseteq Range(Walk(items))
      /\ EndsWith(V, Walk(items), items[Len(items)].norm)
  BY <1>1, WalkEnds
<1>4. /\ node.norm # <<>> /\ Head(node.norm) = Last(node.norm)
      /\ Last(node.norm) = Last(items[Len(items)].norm)
      /\ Range(node.norm) \subseteq Range(items[Len(items)].norm)
      /\ EndsWith(V, items[Len(items)].norm, node.norm)
  BY <1>1 DEF Tidy, Nodes
<1> QED
  BY <1>2, <1>3, <1>4, EndsWithEnd DEF Again

\* A list parted before, at and after a place.
LEMMA Parted ==
    ASSUME NEW T, NEW items \in Seq(T), NEW m \in 1 .. Len(items)
    PROVE  LET p == SubSeq(items, 1, m)
               q == SubSeq(items, m + 1, Len(items))
               a == SubSeq(items, 1, m - 1)
               r == SubSeq(items, m, Len(items))
           IN /\ p \in Seq(T) /\ q \in Seq(T) /\ a \in Seq(T) /\ r \in Seq(T)
              /\ items[m] \in T
              /\ Len(p) = m /\ Len(a) = m - 1 /\ Len(r) = Len(items) - m + 1
              /\ p[Len(p)] = items[m] /\ r[1] = items[m]
              /\ items = p \o q /\ items = a \o r /\ p = a \o <<items[m]>>
<1> DEFINE N == Len(items)
           p == SubSeq(items, 1, m)
           q == SubSeq(items, m + 1, N)
           a == SubSeq(items, 1, m - 1)
           r == SubSeq(items, m, N)
<1>1. N \in Nat /\ m \in Nat /\ 1 <= m /\ m <= N /\ N >= 1
  OBVIOUS
<1>2. \A i \in 1 .. N : items[i] \in T
  OBVIOUS
<1>3. /\ p \in Seq(T) /\ Len(p) = m /\ \A i \in 1 .. m : p[i] = items[i]
  <2>1. \A i \in 1 .. m : items[i] \in T
    BY <1>1, <1>2
  <2> QED
    BY <1>1, <2>1, SubSeqProperties
<1>4. /\ a \in Seq(T) /\ Len(a) = m - 1
  <2>1. \A i \in 1 .. (m - 1) : items[i] \in T
    BY <1>1, <1>2
  <2> QED
    BY <1>1, <2>1, SubSeqProperties
<1>5. /\ r \in Seq(T) /\ Len(r) = N - m + 1 /\ r[1] = items[m]
  <2>1. \A i \in m .. N : items[i] \in T
    BY <1>1, <1>2
  <2>2. /\ r \in Seq(T) /\ Len(r) = IF m <= N THEN N - m + 1 ELSE 0
        /\ \A i \in 1 .. N - m + 1 : r[i] = items[m + i - 1]
    BY <1>1, <2>1, SubSeqProperties
  <2>3. 1 \in 1 .. N - m + 1 /\ m + 1 - 1 = m
    BY <1>1
  <2> QED
    BY <1>1, <2>2, <2>3
<1>6. q \in Seq(T)
  <2>1. \A i \in (m + 1) .. N : items[i] \in T
    BY <1>1, <1>2
  <2> QED
    BY <1>1, <2>1, SubSeqProperties
<1>7. SubSeq(items, 1, N) = items
  BY SubSeqFull
<1>8. items = p \o q
  <2>1. 1 \in 1 .. Len(items) + 1 /\ m \in 1 - 1 .. Len(items) /\ N \in m .. Len(items)
    BY <1>1
  <2> QED
    BY <1>7, <2>1, ConcatAdjacentSubSeq
<1>9. items = a \o r
  <2>1. /\ 1 \in 1 .. Len(items) + 1 /\ m - 1 \in 1 - 1 .. Len(items)
        /\ N \in m - 1 .. Len(items)
    BY <1>1
  <2>2. SubSeq(items, 1, m - 1) \o SubSeq(items, (m - 1) + 1, N) = SubSeq(items, 1, N)
    BY <2>1, ConcatAdjacentSubSeq
  <2>3. (m - 1) + 1 = m
    BY <1>1
  <2> QED
    BY <1>7, <2>2, <2>3
<1>10. p = a \o <<items[m]>>
  <2>1. 1 \in 1 .. Len(items) /\ m \in 1 .. Len(items)
    BY <1>1
  <2> QED
    BY <2>1, SubSeqRecursiveSecond
<1>11. p[Len(p)] = items[m] /\ items[m] \in T
  BY <1>1, <1>2, <1>3
<1> QED
  BY <1>3, <1>4, <1>5, <1>6, <1>8, <1>9, <1>10, <1>11

LEMMA TurnStands ==
    ASSUME NEW V, NEW W, Keeps(V, W), NEW T, Tidy(V, T),
           NEW items \in Seq(T), NEW node \in T, Join(Walk(items), node.norm) \in W
    PROVE  /\ Stands(V, W, Turn(items, node))
           /\ \/ Turn(items, node).node = <<>>
              \/ Len(Turn(items, node).items) < Len(items)
<1> DEFINE N == Len(items)
           match == LastMatchingIndex(items, node)
           n == node.norm
<1>1. match = 0 \/ (match \in 1 .. N /\ node \in Heads(items[match]))
  <2> DEFINE S == {i \in DOMAIN items : node \in Heads(items[i])}
  <2>1. S \in SUBSET (1 .. N) /\ N \in Nat
    OBVIOUS
  <2>2. Last0(S) \in S \cup {0}
    <3> HIDE DEF S
    <3> QED
      BY <2>1, Last0Is
  <2> QED
    BY <2>2 DEF LastMatchingIndex
<1>2. Nodes(V, T) /\ n \in Seq(V) /\ n # <<>> /\ N \in Nat
  BY DEF Tidy, Nodes
<1>3. CASE match = 0
  <2>1. Turn(items, node) = Settled(Append(items, node))
    BY <1>3 DEF Turn
  <2>2. Walk(Append(items, node)) \in W
    BY <1>2, WalkAppend
  <2>3. Append(items, node) \in Seq(T)
    OBVIOUS
  <2> QED
    BY <2>1, <2>2, <2>3 DEF Settled, Stands
<1>4. CASE match = N /\ match # 0
  <2>1. Turn(items, node) = Settled(items)
    BY <1>4 DEF Turn
  <2>2. Again(V, Walk(items), n)
    <3>1. items # <<>> /\ node \in Heads(items[Len(items)])
      BY <1>1, <1>4
    <3> QED
      BY <3>1, MatchedAgain
  <2>3. Walk(items) \in Seq(V)
    BY <1>2, WalkType
  <2>4. Walk(items) \in W
    BY <1>2, <2>2, <2>3 DEF Keeps
  <2> QED
    BY <2>1, <2>4 DEF Settled, Stands
<1>5. CASE match \notin {0, N}
  <2> DEFINE p == SubSeq(items, 1, match)
             q == SubSeq(items, match + 1, N)
             a == SubSeq(items, 1, match - 1)
             x == items[match]
             before == SubSeq(items, 1, IF IsPoint(x) THEN match - 1 ELSE match)
             cycle == Cycle(<<node>> \o q)
             k == cycle.norm
             same == LastEqualIndex(before, cycle)
             T1 == T \cup {cycle}
  <2>1. match \in 1 .. N /\ node \in Heads(x) /\ match < N
    BY <1>1, <1>2, <1>5
  <2>2. /\ p \in Seq(T) /\ q \in Seq(T) /\ a \in Seq(T) /\ x \in T
        /\ Len(p) = match /\ p[Len(p)] = x /\ Len(a) = match - 1
        /\ items = p \o q /\ p = a \o <<x>>
    <3> HIDE DEF match
    <3>1. match \in 1 .. Len(items)
      BY <2>1
    <3>2. /\ SubSeq(items, 1, match) \in Seq(T)
          /\ SubSeq(items, match + 1, Len(items)) \in Seq(T)
          /\ SubSeq(items, 1, match - 1) \in Seq(T) /\ items[match] \in T
          /\ Len(SubSeq(items, 1, match)) = match
          /\ Len(SubSeq(items, 1, match - 1)) = match - 1
      BY <3>1, Parted
    <3>3. SubSeq(items, 1, match)[Len(SubSeq(items, 1, match))] = items[match]
      BY <3>1, Parted
    <3>4. items = SubSeq(items, 1, match) \o SubSeq(items, match + 1, Len(items))
      BY <3>1, Parted
    <3>5. SubSeq(items, 1, match) = SubSeq(items, 1, match - 1) \o <<items[match]>>
      BY <3>1, Parted
    <3> QED
      BY <3>2, <3>3, <3>4, <3>5
  <2>3. before = IF IsPoint(x) THEN a ELSE p
    OBVIOUS
  <2>4. before \in Seq(T) /\ Len(before) < N /\ Len(before) \in Nat
    <3> HIDE DEF match, p, a, before, q, x
    <3>1. p \in Seq(T) /\ a \in Seq(T) /\ Len(p) < N /\ Len(a) < N
      BY <1>2, <2>1, <2>2
    <3>2. before \in {a, p}
      BY <2>3
    <3> QED
      BY <3>1, <3>2
  <2>5. Turn(items, node) = IF same = 0 THEN Pending(before, cycle)
                            ELSE IF same = Len(before) THEN Settled(before)
                            ELSE Pending(SubSeq(before, 1, same - 1),
                                         Cycle(SubSeq(before, same, Len(before))))
    BY <1>5 DEF Turn
  <2>6. same = 0 \/ (same \in 1 .. Len(before) /\ before[same] = cycle)
    <3> HIDE DEF before, cycle
    <3> DEFINE S == {i \in DOMAIN before : before[i] = cycle}
    <3>1. S \in SUBSET (1 .. Len(before)) /\ Len(before) \in Nat
      BY <2>4
    <3>2. Last0(S) \in S \cup {0}
      <4> HIDE DEF S
      <4> QED
        BY <3>1, Last0Is
    <3> QED
      BY <3>2 DEF LastEqualIndex
  <2> DEFINE s == Walk(p)
             r == Walk(q)
  <2>7. s \in Seq(V) /\ r \in Seq(V) /\ Walk(a) \in Seq(V) /\ Walk(before) \in Seq(V)
    <3> HIDE DEF match, p, q, a, before
    <3> QED
      BY <1>2, <2>2, <2>4, WalkType
  <2>8. Walk(items) = Join(s, r) /\ s = Join(Walk(a), x.norm)
    <3> HIDE DEF match, p, q, a, x
    <3>1. <<x>> \in Seq(T) /\ Walk(<<x>>) = x.norm
      BY <1>2, <2>2, WalkOne
    <3>2. Walk(a \o <<x>>) = Join(Walk(a), Walk(<<x>>))
      BY <1>2, <2>2, <3>1, WalkConcat
    <3>3. Walk(p \o q) = Join(Walk(p), Walk(q))
      <4>1. Nodes(V, T) /\ p \in Seq(T) /\ q \in Seq(T)
        BY <1>2, <2>2
      <4> QED
        BY <4>1, WalkConcat
    <3> QED
      BY <2>2, <3>1, <3>2, <3>3
  <2>9. k = Join(Join(n, r), n) /\ Tidy(V, T1)
    <3> DEFINE nodes == <<node>> \o q
    <3> HIDE DEF match, q, cycle
    <3>1. <<node>> \in Seq(T) /\ Walk(<<node>>) = n
      BY <1>2, WalkOne
    <3>2. nodes \in Seq(T) /\ nodes # <<>> /\ nodes[1] = node
      BY <2>2, <3>1
    <3>3. Walk(nodes) = Join(n, r)
      <4>1. Nodes(V, T) /\ <<node>> \in Seq(T) /\ q \in Seq(T)
        BY <1>2, <2>2, <3>1
      <4>2. Walk(<<node>> \o q) = Join(Walk(<<node>>), Walk(q))
        BY <4>1, WalkConcat
      <4> QED
        BY <3>1, <4>2
    <3>4. cycle = Cycle(nodes)
      BY DEF cycle
    <3> HIDE DEF nodes
    <3> QED
      BY <3>2, <3>3, <3>4, CycleTidy
  <2> HIDE DEF p, q, a, before, cycle, same, match, x
  <2>10. Join(Walk(before), k) \in W
    <3> HIDE DEF s, r, k, n
    <3>1. Join(Join(s, r), n) \in W /\ Join(s, r) \in Seq(V) /\ Join(n, r) \in Seq(V)
      BY <1>2, <2>7, <2>8, JoinIs DEF n
    <3>2. CASE IsPoint(x)
      <4>1. node = x /\ before = a /\ s = Join(Walk(a), n)
        BY <2>1, <2>3, <2>8, <3>2 DEF Heads, n
      <4>2. Join(Walk(a), k) = Join(Join(Walk(a), Join(n, r)), n)
        BY <1>2, <2>7, <2>9, <3>1, JoinAssociative
      <4>3. Join(Walk(a), Join(n, r)) = Join(Join(Walk(a), n), r)
        BY <1>2, <2>7, JoinAssociative
      <4> QED
        BY <3>1, <4>1, <4>2, <4>3
    <3>3. CASE ~IsPoint(x)
      <4>1. before = p
        BY <2>3, <3>3
      <4>2. Again(V, s, n)
        <5>1. p # <<>> /\ node \in Heads(p[Len(p)])
          BY <2>1, <2>2
        <5> QED
          BY <2>2, <5>1, MatchedAgain DEF s, n
      <4>3. Join(Join(Join(s, n), r), n) \in W
        BY <1>2, <2>7, <3>1, <4>2 DEF Keeps
      <4>4. Join(s, k) = Join(Join(s, Join(n, r)), n)
        BY <1>2, <2>7, <2>9, <3>1, JoinAssociative
      <4>5. Join(s, Join(n, r)) = Join(Join(s, n), r)
        BY <1>2, <2>7, JoinAssociative
      <4> QED
        BY <4>1, <4>3, <4>4, <4>5 DEF s
    <3> QED
      BY <3>2, <3>3
  <2>11. before \in Seq(T1) /\ cycle \in T1 /\ Nodes(V, T1)
    BY <2>4, <2>9, SeqMonotonic DEF Tidy
  <2> HIDE DEF s, r, T1
  <2>12. CASE same = 0
    <3>1. Turn(items, node) = Pending(before, cycle)
      BY <2>5, <2>12
    <3> QED
      BY <2>4, <2>9, <2>10, <2>11, <3>1 DEF Pending, Stands
  <2>13. CASE same # 0 /\ same = Len(before)
    <3>1. Turn(items, node) = Settled(before)
      BY <2>5, <2>13
    <3>2. Again(V, Walk(before), k)
      <4>1. Head(k) = Last(k) /\ k # <<>> /\ k \in Seq(V)
        BY <2>9, <2>11 DEF Tidy, Nodes
      <4>2. before # <<>> /\ before[Len(before)] = cycle
        BY <2>4, <2>6, <2>13
      <4>3. /\ Last(Walk(before)) = Last(k) /\ Range(k) \subseteq Range(Walk(before))
            /\ EndsWith(V, Walk(before), k)
        BY <2>11, <4>2, WalkEnds
      <4>4. Walk(before) # <<>>
        BY <2>11, <4>2, WalkType
      <4> QED
        BY <4>1, <4>3, <4>4 DEF Again
    <3>3. Walk(before) \in W
      <4>1. k \in Seq(V)
        BY <2>11 DEF Nodes
      <4> QED
        BY <2>7, <2>10, <3>2, <4>1 DEF Keeps
    <3> QED
      BY <2>9, <2>11, <3>1, <3>3 DEF Settled, Stands
  <2>14. CASE same # 0 /\ same # Len(before)
    <3> DEFINE u == SubSeq(before, 1, same - 1)
               w == SubSeq(before, same, Len(before))
               T2 == T1 \cup {Cycle(w)}
    <3>1. Turn(items, node) = Pending(u, Cycle(w))
      BY <2>5, <2>14
    <3>2. same \in 1 .. Len(before) /\ before[same] = cycle
      BY <2>6, <2>14
    <3>3. /\ u \in Seq(T1) /\ w \in Seq(T1) /\ Len(u) = same - 1
          /\ Len(w) = Len(before) - same + 1 /\ w[1] = cycle /\ before = u \o w
      BY <2>11, <3>2, Parted
    <3> HIDE DEF u, w
    <3>4. w # <<>> /\ Len(u) < N
      BY <1>2, <2>4, <3>2, <3>3
    <3>5. Tidy(V, T2) /\ Cycle(w).norm = Join(Walk(w), k)
      BY <2>9, <3>3, <3>4, CycleTidy
    <3>6. Walk(before) = Join(Walk(u), Walk(w))
      BY <2>11, <3>3, WalkConcat
    <3>7. Walk(u) \in Seq(V) /\ Walk(w) \in Seq(V) /\ k \in Seq(V)
      BY <2>11, <3>3, WalkType DEF Nodes
    <3> HIDE DEF k
    <3>8. Join(Walk(u), Cycle(w).norm) \in W
      <4>1. Join(Walk(u), Join(Walk(w), k)) = Join(Join(Walk(u), Walk(w)), k)
        BY <3>7, JoinAssociative
      <4> QED
        BY <2>10, <3>5, <3>6, <4>1
    <3>9. u \in Seq(T2) /\ Cycle(w) \in T2
      BY <3>3, SeqMonotonic
    <3> HIDE DEF T2
    <3> QED
      BY <3>1, <3>4, <3>5, <3>8, <3>9 DEF Pending, Stands
  <2> QED
    BY <2>12, <2>13, <2>14
<1> QED
  BY <1>1, <1>3, <1>4, <1>5

-----------------------------------------------------------------------------
(* put and from_path, turn by turn and item by item.                       *)

IsPut(f, items, node) ==
    \A n \in 0 .. Len(items) + 1 :
        f[n] = IF n = 0 THEN Pending(items, node)
               ELSE IF f[n - 1].node = <<>> THEN f[n - 1]
               ELSE Turn(f[n - 1].items, f[n - 1].node[1])

LEMMA PutExists ==
    ASSUME NEW T, NEW items \in Seq(T), NEW node
    PROVE  \E f : IsPut(f, items, node) /\ Put(items, node) = f[Len(items) + 1].items
<1> DEFINE N == Len(items) + 1
           Go(root) == IF root.node = <<>> THEN root ELSE Turn(root.items, root.node[1])
           E(f) == [n \in 0 .. N |-> IF n = 0 THEN Pending(items, node) ELSE Go(f[n - 1])]
           Up(f, k) == f[0] = Pending(items, node) /\ \A n \in 1 .. k : f[n] = Go(f[n - 1])
           S == {k \in Nat : \E f : Up(f, k)}
<1>0. N \in Nat
  OBVIOUS
<1> HIDE DEF N, Go
<1>1. 0 \in S
  <2>1. Up([n \in {0} |-> Pending(items, node)], 0)
    OBVIOUS
  <2> QED
    BY <2>1
<1>2. ASSUME NEW k \in Nat, k \in S PROVE k + 1 \in S
  <2>1. PICK f : Up(f, k)
    BY <1>2
  <2> DEFINE g == [n \in 0 .. (k + 1) |-> IF n = k + 1 THEN Go(f[k]) ELSE f[n]]
  <2>2. Up(g, k + 1)
    <3>1. g[0] = Pending(items, node)
      BY <2>1
    <3>2. ASSUME NEW n \in 1 .. (k + 1) PROVE g[n] = Go(g[n - 1])
      <4>1. g[n - 1] = f[n - 1]
        OBVIOUS
      <4>2. CASE n = k + 1
        <5>1. g[k + 1] = Go(f[k]) /\ n - 1 = k
          BY <4>2
        <5> QED
          BY <4>1, <4>2, <5>1
      <4>3. CASE n # k + 1
        <5>1. n \in 1 .. k /\ g[n] = f[n]
          BY <4>3
        <5> QED
          BY <2>1, <4>1, <5>1
      <4> QED
        BY <4>2, <4>3
    <3> HIDE DEF g
    <3> QED
      BY <3>1, <3>2
  <2> HIDE DEF g
  <2> QED
    BY <2>2
<1> HIDE DEF S
<1>3. N \in S
  BY <1>0, <1>1, <1>2, SetInduction
<1>4. PICK f : Up(f, N)
  BY <1>3 DEF S
<1>5. \E h : h = E(h)
  <2> DEFINE h == [n \in 0 .. N |-> f[n]]
  <2>1. h = E(h)
    <3>1. ASSUME NEW n \in 0 .. N
          PROVE  h[n] = IF n = 0 THEN Pending(items, node) ELSE Go(h[n - 1])
      <4>1. CASE n = 0
        BY <1>4, <4>1
      <4>2. CASE n # 0
        <5>1. n \in 1 .. N /\ h[n] = f[n] /\ h[n - 1] = f[n - 1]
          BY <1>0, <4>2
        <5> QED
          BY <1>4, <4>2, <5>1
      <4> QED
        BY <4>1, <4>2
    <3> QED
      BY <3>1
  <2> QED
    BY <2>1
<1>6. Put(items, node) = (CHOOSE h : h = E(h))[N].items
  BY DEF Put, N, Go
<1>7. PICK h : h = (CHOOSE x : x = E(x)) /\ h = E(h)
  <2> HIDE DEF E
  <2> QED
    BY <1>5
<1>8. ASSUME NEW n \in 0 .. N
      PROVE  h[n] = IF n = 0 THEN Pending(items, node) ELSE Go(h[n - 1])
  <2>1. E(h)[n] = IF n = 0 THEN Pending(items, node) ELSE Go(h[n - 1])
    OBVIOUS
  <2> HIDE DEF E
  <2> QED
    BY <1>7, <2>1
<1>9. IsPut(h, items, node)
  BY <1>8 DEF IsPut, N, Go
<1>10. Put(items, node) = h[N].items
  <2> HIDE DEF E
  <2> QED
    BY <1>6, <1>7
<1> QED
  BY <1>9, <1>10 DEF N

LEMMA PutStands ==
    ASSUME NEW V, NEW W, Keeps(V, W), NEW T, Tidy(V, T),
           NEW items \in Seq(T), NEW node \in T, Join(Walk(items), node.norm) \in W
    PROVE  \E T2 : /\ Tidy(V, T2) /\ Put(items, node) \in Seq(T2)
                   /\ Walk(Put(items, node)) \in W
<1> DEFINE N == Len(items)
<1>1. PICK f : IsPut(f, items, node) /\ Put(items, node) = f[N + 1].items
  BY PutExists
<1>2. N \in Nat
  OBVIOUS
<1> DEFINE S == {n \in Nat : n <= N + 1 =>
                    /\ Stands(V, W, f[n])
                    /\ f[n].node = <<>> \/ Len(f[n].items) + n <= N}
<1> HIDE DEF N
<1>3. 0 \in S
  <2>1. f[0] = Pending(items, node)
    BY <1>1, <1>2 DEF IsPut, N
  <2> QED
    BY <1>2, <2>1 DEF Pending, Stands, N
<1>4. ASSUME NEW n \in Nat, n \in S PROVE n + 1 \in S
  <2> SUFFICES ASSUME n + 1 <= N + 1
               PROVE  /\ Stands(V, W, f[n + 1])
                      /\ f[n + 1].node = <<>> \/ Len(f[n + 1].items) + (n + 1) <= N
    OBVIOUS
  <2>1. Stands(V, W, f[n]) /\ (f[n].node = <<>> \/ Len(f[n].items) + n <= N)
    BY <1>2, <1>4
  <2>2. f[n + 1] = IF f[n].node = <<>> THEN f[n] ELSE Turn(f[n].items, f[n].node[1])
    <3>1. n + 1 \in 0 .. Len(items) + 1 /\ n + 1 # 0 /\ (n + 1) - 1 = n
      BY <1>2 DEF N
    <3> QED
      BY <1>1, <3>1 DEF IsPut
  <2>3. CASE f[n].node = <<>>
    BY <2>1, <2>2, <2>3
  <2>4. CASE f[n].node # <<>>
    <3>1. PICK T1 : /\ Tidy(V, T1) /\ f[n].items \in Seq(T1)
                    /\ \E x \in T1 : /\ f[n].node = <<x>>
                                      /\ Join(Walk(f[n].items), x.norm) \in W
      BY <2>1, <2>4 DEF Stands
    <3>2. PICK x \in T1 : f[n].node = <<x>> /\ Join(Walk(f[n].items), x.norm) \in W
      BY <3>1
    <3>3. f[n + 1] = Turn(f[n].items, x)
      BY <2>2, <2>4, <3>2
    <3>4. /\ Stands(V, W, f[n + 1])
          /\ f[n + 1].node = <<>> \/ Len(f[n + 1].items) < Len(f[n].items)
      BY <3>1, <3>2, <3>3, TurnStands
    <3>5. PICK T2 : f[n + 1].items \in Seq(T2)
      BY <3>4 DEF Stands
    <3>6. Len(f[n].items) \in Nat /\ Len(f[n + 1].items) \in Nat
      BY <3>1, <3>5
    <3> DEFINE a == Len(f[n].items)
               b == Len(f[n + 1].items)
    <3>7. a + n <= N /\ (f[n + 1].node = <<>> \/ b < a) /\ a \in Nat /\ b \in Nat
      BY <2>1, <2>4, <3>4, <3>6
    <3> HIDE DEF a, b
    <3>8. b < a => b + (n + 1) <= N
      BY <1>2, <3>7
    <3> QED
      BY <3>4, <3>7, <3>8 DEF b
  <2> QED
    BY <2>3, <2>4
<1>5. N + 1 \in S
  <2> HIDE DEF S
  <2> QED
    BY <1>2, <1>3, <1>4, SetInduction
<1>6. Stands(V, W, f[N + 1]) /\ (f[N + 1].node = <<>> \/ Len(f[N + 1].items) + (N + 1) <= N)
  <2>1. \A n \in S : n <= N + 1 =>
           Stands(V, W, f[n]) /\ (f[n].node = <<>> \/ Len(f[n].items) + n <= N)
    OBVIOUS
  <2>2. N + 1 <= N + 1
    BY <1>2
  <2> HIDE DEF S
  <2> QED
    BY <1>5, <2>1, <2>2
<1>7. f[N + 1].node = <<>>
  <2>1. PICK T2 : f[N + 1].items \in Seq(T2)
    BY <1>6 DEF Stands
  <2> DEFINE a == Len(f[N + 1].items)
  <2>2. a \in Nat
    BY <2>1
  <2>3. f[N + 1].node = <<>> \/ a + (N + 1) <= N
    BY <1>6
  <2> HIDE DEF a
  <2> QED
    BY <1>2, <2>2, <2>3
<1> QED
  BY <1>1, <1>6, <1>7 DEF Stands

IsFrom(f, path) ==
    \A n \in 0 .. Len(path) : f[n] = IF n = 0 THEN <<>> ELSE Put(f[n - 1], Point(path[n]))

LEMMA FromExists ==
    ASSUME NEW V, NEW path \in Seq(V)
    PROVE  \E f : IsFrom(f, path) /\ FromPath(path) = f[Len(path)]
<1> DEFINE N == Len(path)
           Go(items, n) == Put(items, Point(path[n]))
           E(f) == [n \in 0 .. N |-> IF n = 0 THEN <<>> ELSE Go(f[n - 1], n)]
           Up(f, k) == f[0] = <<>> /\ \A n \in 1 .. k : f[n] = Go(f[n - 1], n)
           S == {k \in Nat : \E f : Up(f, k)}
<1>0. N \in Nat
  OBVIOUS
<1> HIDE DEF N, Go
<1>1. 0 \in S
  <2>1. Up([n \in {0} |-> <<>>], 0)
    OBVIOUS
  <2> QED
    BY <2>1
<1>2. ASSUME NEW k \in Nat, k \in S PROVE k + 1 \in S
  <2>1. PICK f : Up(f, k)
    BY <1>2
  <2> DEFINE g == [n \in 0 .. (k + 1) |-> IF n = k + 1 THEN Go(f[k], k + 1) ELSE f[n]]
  <2>2. Up(g, k + 1)
    <3>1. g[0] = <<>>
      BY <2>1
    <3>2. ASSUME NEW n \in 1 .. (k + 1) PROVE g[n] = Go(g[n - 1], n)
      <4>1. g[n - 1] = f[n - 1]
        OBVIOUS
      <4>2. CASE n = k + 1
        <5>1. g[k + 1] = Go(f[k], k + 1) /\ n - 1 = k
          BY <4>2
        <5> QED
          BY <4>1, <4>2, <5>1
      <4>3. CASE n # k + 1
        <5>1. n \in 1 .. k /\ g[n] = f[n]
          BY <4>3
        <5> QED
          BY <2>1, <4>1, <5>1
      <4> QED
        BY <4>2, <4>3
    <3> HIDE DEF g
    <3> QED
      BY <3>1, <3>2
  <2> HIDE DEF g
  <2> QED
    BY <2>2
<1> HIDE DEF S
<1>3. N \in S
  BY <1>0, <1>1, <1>2, SetInduction
<1>4. PICK f : Up(f, N)
  BY <1>3 DEF S
<1>5. \E h : h = E(h)
  <2> DEFINE h == [n \in 0 .. N |-> f[n]]
  <2>1. h = E(h)
    <3>1. ASSUME NEW n \in 0 .. N
          PROVE  h[n] = IF n = 0 THEN <<>> ELSE Go(h[n - 1], n)
      <4>1. CASE n = 0
        BY <1>4, <4>1
      <4>2. CASE n # 0
        <5>1. n \in 1 .. N /\ h[n] = f[n] /\ h[n - 1] = f[n - 1]
          BY <1>0, <4>2
        <5> QED
          BY <1>4, <4>2, <5>1
      <4> QED
        BY <4>1, <4>2
    <3> QED
      BY <3>1
  <2> QED
    BY <2>1
<1>6. FromPath(path) = (CHOOSE h : h = E(h))[N]
  BY DEF FromPath, N, Go
<1>7. PICK h : h = (CHOOSE x : x = E(x)) /\ h = E(h)
  <2> HIDE DEF E
  <2> QED
    BY <1>5
<1>8. ASSUME NEW n \in 0 .. N
      PROVE  h[n] = IF n = 0 THEN <<>> ELSE Go(h[n - 1], n)
  <2>1. E(h)[n] = IF n = 0 THEN <<>> ELSE Go(h[n - 1], n)
    OBVIOUS
  <2> HIDE DEF E
  <2> QED
    BY <1>7, <2>1
<1>9. IsFrom(h, path)
  BY <1>8 DEF IsFrom, N, Go
<1>10. FromPath(path) = h[N]
  <2> HIDE DEF E
  <2> QED
    BY <1>6, <1>7
<1> QED
  BY <1>9, <1>10 DEF N

\* If F tells for every beginning of a path which walks will do for it, and
\* what will do stays so when a loop is left out or walked again, then the
\* normal form of a path will do for it.
LEMMA NormKeeps ==
    ASSUME NEW V, NEW path \in Seq(V), NEW F,
           \A k \in 0 .. Len(path) : Keeps(V, F[k]),
           <<>> \in F[0],
           \A k \in 1 .. Len(path) : \A w \in F[k - 1] : Join(w, <<path[k]>>) \in F[k]
    PROVE  Norm(path) \in F[Len(path)]
<1> DEFINE N == Len(path)
           OK(k, items) == \E T : Tidy(V, T) /\ items \in Seq(T) /\ Walk(items) \in F[k]
<1>0. N \in Nat
  OBVIOUS
<1>1. PICK f : IsFrom(f, path) /\ FromPath(path) = f[N]
  BY FromExists
<1> DEFINE S == {k \in Nat : k <= N => OK(k, f[k])}
<1>2. 0 \in S
  <2>1. f[0] = <<>>
    BY <1>0, <1>1 DEF IsFrom
  <2>2. Tidy(V, {}) /\ Nodes(V, {}) /\ <<>> \in Seq({})
    BY DEF Tidy, Nodes
  <2>3. Walk(<<>>) = <<>>
    BY <2>2, WalkEmpty
  <2> QED
    BY <2>1, <2>2, <2>3
<1>3. ASSUME NEW k \in Nat, k \in S PROVE k + 1 \in S
  <2> SUFFICES ASSUME k + 1 <= N PROVE OK(k + 1, f[k + 1])
    OBVIOUS
  <2>1. k + 1 \in 1 .. N /\ k \in 0 .. N /\ k + 1 \in 0 .. N /\ (k + 1) - 1 = k /\ k + 1 # 0
    BY <1>0
  <2>2. PICK T : Tidy(V, T) /\ f[k] \in Seq(T) /\ Walk(f[k]) \in F[k]
    BY <1>0, <1>3
  <2> DEFINE v == path[k + 1]
             T1 == T \cup {Point(v)}
  <2>3. v \in V
    BY <2>1
  <2>4. f[k + 1] = Put(f[k], Point(v))
    BY <1>1, <2>1 DEF IsFrom
  <2>5. Join(Walk(f[k]), <<v>>) \in F[k + 1]
    BY <2>1, <2>2
  <2>6. Keeps(V, F[k + 1])
    BY <2>1
  <2> HIDE DEF v
  <2>7. Tidy(V, T1) /\ Point(v).norm = <<v>>
    BY <2>2, <2>3, PointTidy
  <2>8. f[k] \in Seq(T1) /\ Point(v) \in T1
    BY <2>2, SeqMonotonic
  <2>9. \E T2 : /\ Tidy(V, T2) /\ Put(f[k], Point(v)) \in Seq(T2)
                /\ Walk(Put(f[k], Point(v))) \in F[k + 1]
    <3> HIDE DEF T1
    <3> QED
      BY <2>5, <2>6, <2>7, <2>8, PutStands
  <2> QED
    BY <2>4, <2>9
<1>4. N \in S
  <2> HIDE DEF S
  <2> QED
    BY <1>0, <1>2, <1>3, SetInduction
<1>5. Walk(FromPath(path)) \in F[N]
  BY <1>0, <1>1, <1>4
<1> QED
  BY <1>5 DEF Norm

-----------------------------------------------------------------------------
(* The normal form as such.                                                *)

\* The normal form of a path is a path of the same items, which begins and ends
\* as the path does.
THEOREM NormKeepsItems ==
    ASSUME NEW V, NEW path \in Seq(V), path # <<>>
    PROVE  /\ Norm(path) \in Seq(V) /\ Norm(path) # <<>>
           /\ Head(Norm(path)) = Head(path) /\ Last(Norm(path)) = Last(path)
           /\ Range(Norm(path)) = Range(path)
<1> DEFINE N == Len(path)
           R(k) == {path[i] : i \in 1 .. k}
           W(k) == {w \in Seq(V) : IF k = 0 THEN w = <<>>
                       ELSE /\ w # <<>> /\ Head(w) = path[1] /\ Last(w) = path[k]
                            /\ Range(w) = R(k)}
           F == [k \in 0 .. N |-> W(k)]
<1>0. N \in Nat /\ N >= 1 /\ N # 0
  OBVIOUS
<1>1. ASSUME NEW k \in 0 .. N PROVE Keeps(V, F[k])
  <2>1. F[k] = W(k) /\ W(k) \subseteq Seq(V)
    OBVIOUS
  <2> SUFFICES ASSUME NEW s \in Seq(V), NEW n \in Seq(V), Again(V, s, n)
               PROVE  /\ Join(s, n) \in W(k) => s \in W(k)
                      /\ \A r \in Seq(V) :
                            Join(Join(s, r), n) \in W(k) => Join(Join(Join(s, n), r), n) \in W(k)
    BY <2>1 DEF Keeps
  <2>2. /\ Join(s, n) \in Seq(V) /\ Join(s, n) # <<>> /\ Head(Join(s, n)) = Head(s)
        /\ Last(Join(s, n)) = Last(s) /\ Range(Join(s, n)) = Range(s)
    <3>1. Join(s, n) \in Seq(V)
      BY JoinIs
    <3>2. /\ Join(s, n) # <<>> /\ Head(Join(s, n)) = Head(s) /\ Last(Join(s, n)) = Last(n)
          /\ Range(Join(s, n)) = Range(s) \cup Range(n)
      BY JoinEnds DEF Again
    <3> QED
      BY <3>1, <3>2 DEF Again
  <2>3. Join(s, n) \in W(k) => s \in W(k)
    <3> SUFFICES ASSUME Join(s, n) \in W(k) PROVE s \in W(k)
      OBVIOUS
    <3> HIDE DEF R
    <3> QED
      BY <2>2 DEF Again
  <2>4. ASSUME NEW r \in Seq(V), Join(Join(s, r), n) \in W(k)
        PROVE  Join(Join(Join(s, n), r), n) \in W(k)
    <3> DEFINE j == Join(s, n)
               sr == Join(s, r)
               jr == Join(j, r)
    <3>1. /\ sr \in Seq(V) /\ sr # <<>> /\ Head(sr) = Head(s)
          /\ Range(sr) = Range(s) \cup Range(r)
      <4>1. sr \in Seq(V)
        BY JoinIs
      <4> QED
        BY <4>1, JoinEnds DEF Again
    <3> HIDE DEF j
    <3>2. j \in Seq(V) /\ j # <<>> /\ Head(j) = Head(s) /\ Range(j) = Range(s)
      BY <2>2 DEF j
    <3>3. /\ jr \in Seq(V) /\ jr # <<>> /\ Head(jr) = Head(s)
          /\ Range(jr) = Range(s) \cup Range(r)
      <4>1. jr \in Seq(V)
        BY <3>2, JoinIs
      <4>2. jr # <<>> /\ Head(jr) = Head(j) /\ Range(jr) = Range(j) \cup Range(r)
        BY <3>2, JoinEnds
      <4> QED
        BY <3>2, <4>1, <4>2
    <3> HIDE DEF sr, jr
    <3>4. /\ Head(Join(sr, n)) = Head(s) /\ Last(Join(sr, n)) = Last(n)
          /\ Range(Join(sr, n)) = Range(s) \cup Range(r) \cup Range(n)
      BY <3>1, JoinEnds DEF Again
    <3>5. Join(jr, n) \in Seq(V)
      BY <3>3, JoinIs
    <3>6. /\ Head(Join(jr, n)) = Head(s) /\ Last(Join(jr, n)) = Last(n)
          /\ Range(Join(jr, n)) = Range(s) \cup Range(r) \cup Range(n)
          /\ Join(jr, n) # <<>>
      BY <3>3, JoinEnds DEF Again
    <3>7. Join(sr, n) \in W(k) /\ Join(sr, n) # <<>>
      BY <2>4, <3>1, JoinEnds DEF sr
    <3> HIDE DEF R
    <3>8. Join(jr, n) \in W(k)
      BY <3>4, <3>5, <3>6, <3>7
    <3> QED
      BY <3>8 DEF jr, j
  <2> QED
    BY <2>3, <2>4
<1>2. <<>> \in F[0]
  BY <1>0
<1>3. ASSUME NEW k \in 1 .. N, NEW w \in F[k - 1] PROVE Join(w, <<path[k]>>) \in F[k]
  <2> DEFINE v == path[k]
  <2>1. /\ <<v>> \in Seq(V) /\ <<v>> # <<>> /\ Head(<<v>>) = v /\ Last(<<v>>) = v
        /\ Range(<<v>>) = {v}
    BY DEF Last, Range
  <2>2. k - 1 \in 0 .. N /\ k \in 0 .. N /\ k # 0
    OBVIOUS
  <2>3. w \in W(k - 1) /\ w \in Seq(V)
    BY <2>2
  <2>4. R(k) = R(k - 1) \cup {v}
    <3>1. \A i \in 1 .. k : i = k \/ i \in 1 .. (k - 1)
      OBVIOUS
    <3>2. \A i \in 1 .. (k - 1) : i \in 1 .. k
      OBVIOUS
    <3> QED
      BY <3>1, <3>2
  <2> HIDE DEF v
  <2>5. Join(w, <<v>>) \in Seq(V)
    BY <2>1, <2>3, JoinIs
  <2>6. /\ Join(w, <<v>>) # <<>> /\ Last(Join(w, <<v>>)) = v
        /\ Range(Join(w, <<v>>)) = Range(w) \cup {v}
        /\ w # <<>> => Head(Join(w, <<v>>)) = Head(w)
        /\ w = <<>> => Join(w, <<v>>) = <<v>>
    BY <2>1, <2>3, JoinEnds
  <2>7. CASE k = 1
    <3>1. w = <<>> /\ R(1) = {v} /\ v = path[1]
      BY <2>3, <2>7 DEF v
    <3> QED
      BY <2>1, <2>2, <2>5, <2>6, <2>7, <3>1 DEF v
  <2>8. CASE k # 1
    <3>1. w # <<>> /\ Head(w) = path[1] /\ Range(w) = R(k - 1)
      BY <2>3, <2>8
    <3> HIDE DEF R
    <3>2. Join(w, <<v>>) \in W(k)
      BY <2>2, <2>4, <2>5, <2>6, <3>1 DEF v
    <3> QED
      BY <2>2, <3>2 DEF v
  <2> QED
    BY <2>7, <2>8
<1>4. Norm(path) \in F[N]
  <2> HIDE DEF F
  <2> QED
    BY <1>1, <1>2, <1>3, NormKeeps
<1>5. R(N) = Range(path) /\ path[1] = Head(path) /\ path[N] = Last(path)
  BY DEF Range, Last
<1>6. Norm(path) \in W(N)
  BY <1>0, <1>4
<1> HIDE DEF R
<1> QED
  BY <1>0, <1>5, <1>6

-----------------------------------------------------------------------------
(* Walking through a telling program.                                      *)

\* Racer v[1] moves from c to d and is seen to do v[2].
Moves(P, c, v, d) ==
    LET step == Step(P, c, v[1])
    IN /\ c \in Conf(P) /\ d = step.to
       /\ v[1] \in 0 .. Count(P) - 1 /\ step.kind \in {"yield", "exit"}
       /\ v[2] = Label(step, 0)

\* A walk leads from b to c.
Leads(P, b, w, c) ==
    \E f : /\ f[0] = b /\ f[Len(w)] = c
           /\ \A i \in 0 .. Len(w) : f[i] \in Conf(P)
           /\ \A i \in 1 .. Len(w) : Moves(P, f[i - 1], w[i], f[i])

\* A label tells an exit from a yield, and what was yielded.
LEMMA LabelTells ==
    ASSUME NEW P \in Telling, NEW c \in Conf(P), NEW p \in 0 .. Count(P) - 1,
           Step(P, c, p).kind \in {"yield", "exit"}
    PROVE  LET s == Step(P, c, p)
           IN /\ \A n : Label(s, n) = Label(s, 0)
              /\ s.kind = "exit" => Label(s, 0) = [exit |-> TRUE]
              /\ s.kind = "yield" => Label(s, 0) = [payload |-> s.payload]
<1> DEFINE s == Step(P, c, p)
<1>1. p \in RunningIn(P, c) \cap RunningIn(P, c)
  BY DEF RunningIn
<1>2. s.kind = "yield" => s.payload # NoPayload
  BY <1>1, TellingAssumption
<1> HIDE DEF s
<1>3. ASSUME NEW n, s.kind = "exit" PROVE Label(s, n) = [exit |-> TRUE]
  BY <1>3 DEF Label
<1>4. ASSUME NEW n, s.kind = "yield" PROVE Label(s, n) = [payload |-> s.payload]
  BY <1>2, <1>4 DEF Label
<1>5. s.kind \in {"yield", "exit"}
  BY DEF s
<1> QED
  BY <1>3, <1>4, <1>5 DEF s

LEMMA PayloadTells ==
    ASSUME NEW x, NEW y
    PROVE  /\ [payload |-> x] = [payload |-> y] => x = y
           /\ [payload |-> x] # [exit |-> TRUE]
<1>1. [payload |-> x].payload = x /\ [payload |-> y].payload = y
  OBVIOUS
<1>2. "exit" \in DOMAIN [exit |-> TRUE] /\ "exit" \notin DOMAIN [payload |-> x]
  OBVIOUS
<1> QED
  BY <1>1, <1>2

\* A step that is not recurring has not been done, and then has; one that is
\* recurring leaves alone what is kept.
LEMMA MoveDone ==
    ASSUME NEW P \in Telling, NEW c, NEW v, NEW d, Moves(P, c, v, d), v = <<v[1], v[2]>>
    PROVE  /\ v \notin Done(P, c)
           /\ v \notin Recurring(P) => Done(P, d) = Done(P, c) \cup {v}
           /\ v \in Recurring(P) => Done(P, d) = Done(P, c) /\ Kept(P, d) = Kept(P, c)
<1> DEFINE s == Step(P, c, v[1])
<1>1. /\ c \in Conf(P) /\ v[1] \in 0 .. Count(P) - 1 /\ s.kind \in {"yield", "exit"}
      /\ v = <<v[1], Label(s, 0)>> /\ d = s.to
  BY DEF Moves
<1> QED
  BY <1>1, TellingAssumption

\* What is kept tells where a recurring step leads.
LEMMA MoveTells ==
    ASSUME NEW P \in Telling, NEW v, v = <<v[1], v[2]>>, v \in Recurring(P),
           NEW c1, NEW d1, Moves(P, c1, v, d1), NEW c2, NEW d2, Moves(P, c2, v, d2),
           Kept(P, c1) = Kept(P, c2)
    PROVE  d1 = d2
<1> DEFINE s == Step(P, c1, v[1])
           t == Step(P, c2, v[1])
<1>1. /\ c1 \in Conf(P) /\ c2 \in Conf(P) /\ v[1] \in 0 .. Count(P) - 1
      /\ s.kind \in {"yield", "exit"} /\ t.kind \in {"yield", "exit"}
      /\ v[2] = Label(s, 0) /\ v[2] = Label(t, 0) /\ d1 = s.to /\ d2 = t.to
  BY DEF Moves
<1>2. s.kind = "yield" /\ t.kind = "yield"
  <2>1. <<v[1], Label(s, 0)>> \in Recurring(P) /\ <<v[1], Label(t, 0)>> \in Recurring(P)
    BY <1>1
  <2> QED
    BY <1>1, <2>1, TellingAssumption
<1>3. s.payload = t.payload
  <2>1. Label(s, 0) = [payload |-> s.payload] /\ Label(t, 0) = [payload |-> t.payload]
    BY <1>1, <1>2, LabelTells
  <2>2. [payload |-> s.payload] = [payload |-> t.payload]
    BY <1>1, <2>1
  <2> HIDE DEF s, t
  <2> QED
    BY <2>2, PayloadTells
<1>4. <<v[1], Label(s, 0)>> \in Recurring(P)
  BY <1>1
<1> QED
  BY <1>1, <1>2, <1>3, <1>4, TellingAssumption

-----------------------------------------------------------------------------
(* Walks in a row.                                                         *)

LEMMA LeadsConf ==
    ASSUME NEW P, NEW V, NEW w \in Seq(V), NEW b, NEW c, Leads(P, b, w, c)
    PROVE  b \in Conf(P) /\ c \in Conf(P) /\ (w = <<>> => b = c)
<1>1. 0 \in 0 .. Len(w) /\ Len(w) \in 0 .. Len(w) /\ (w = <<>> => Len(w) = 0)
  OBVIOUS
<1> QED
  BY <1>1 DEF Leads

LEMMA LeadsEmpty ==
    ASSUME NEW P, NEW c \in Conf(P)
    PROVE  Leads(P, c, <<>>, c)
<1> DEFINE f == [i \in {0} |-> c]
<1>1. f[0] = c /\ Len(<<>>) = 0
  OBVIOUS
<1> HIDE DEF f
<1> QED
  BY <1>1 DEF Leads

LEMMA LeadsOne ==
    ASSUME NEW P, NEW V, NEW v \in V, NEW b, NEW c, c \in Conf(P)
    PROVE  Leads(P, b, <<v>>, c) <=> Moves(P, b, v, c)
<1>1. Len(<<v>>) = 1 /\ <<v>>[1] = v
  OBVIOUS
<1>2. Leads(P, b, <<v>>, c) => Moves(P, b, v, c)
  BY <1>1 DEF Leads
<1>3. ASSUME Moves(P, b, v, c) PROVE Leads(P, b, <<v>>, c)
  <2> DEFINE f == [i \in 0 .. 1 |-> IF i = 0 THEN b ELSE c]
  <2>1. f[0] = b /\ f[1] = c
    OBVIOUS
  <2>2. b \in Conf(P)
    BY <1>3 DEF Moves
  <2> HIDE DEF f
  <2>3. \A i \in 0 .. 1 : f[i] \in Conf(P)
    <3>1. \A i \in 0 .. 1 : i = 0 \/ i = 1
      OBVIOUS
    <3> QED
      BY <2>1, <2>2, <3>1
  <2>4. \A i \in 1 .. 1 : Moves(P, f[i - 1], <<v>>[i], f[i])
    <3>1. \A i \in 1 .. 1 : i = 1 /\ i - 1 = 0
      OBVIOUS
    <3> QED
      BY <1>1, <1>3, <2>1, <3>1
  <2> QED
    BY <1>1, <2>1, <2>3, <2>4 DEF Leads
<1> QED
  BY <1>2, <1>3

LEMMA LeadsThrough ==
    ASSUME NEW P, NEW V, NEW w \in Seq(V), NEW z \in Seq(V), NEW b, NEW c,
           Leads(P, b, w \o z, c)
    PROVE  \E d \in Conf(P) : Leads(P, b, w, d) /\ Leads(P, d, z, c)
<1> DEFINE m == Len(w)
           n == Len(z)
           wz == w \o z
<1>1. /\ m \in Nat /\ n \in Nat /\ Len(wz) = m + n
      /\ \A i \in 1 .. m : wz[i] = w[i]
      /\ \A i \in 1 .. n : wz[m + i] = z[i]
  OBVIOUS
<1> HIDE DEF wz
<1>2. PICK f : /\ f[0] = b /\ f[m + n] = c
               /\ \A i \in 0 .. (m + n) : f[i] \in Conf(P)
               /\ \A i \in 1 .. (m + n) : Moves(P, f[i - 1], wz[i], f[i])
  <2>1. Leads(P, b, wz, c)
    BY DEF wz
  <2> QED
    BY <1>1, <2>1 DEF Leads
<1> HIDE DEF m, n
<1>3. f[m] \in Conf(P)
  BY <1>1, <1>2
<1>4. Leads(P, b, w, f[m])
  <2>1. \A i \in 0 .. m : f[i] \in Conf(P)
    BY <1>1, <1>2
  <2>2. \A i \in 1 .. m : Moves(P, f[i - 1], w[i], f[i])
    BY <1>1, <1>2
  <2> QED
    BY <1>2, <2>1, <2>2 DEF Leads, m
<1>5. Leads(P, f[m], z, c)
  <2> DEFINE g == [i \in 0 .. n |-> f[m + i]]
  <2>1. g[0] = f[m] /\ g[n] = c
    BY <1>1, <1>2
  <2>2. \A i \in 0 .. n : g[i] \in Conf(P)
    BY <1>1, <1>2
  <2>3. ASSUME NEW i \in 1 .. n PROVE Moves(P, g[i - 1], z[i], g[i])
    <3>1. g[i - 1] = f[(m + i) - 1] /\ g[i] = f[m + i] /\ m + i \in 1 .. (m + n)
      BY <1>1
    <3> QED
      BY <1>1, <1>2, <3>1
  <2> HIDE DEF g
  <2> QED
    BY <2>1, <2>2, <2>3 DEF Leads, n
<1> QED
  BY <1>3, <1>4, <1>5

LEMMA LeadsOn ==
    ASSUME NEW P, NEW V, NEW w \in Seq(V), NEW z \in Seq(V), NEW b, NEW d, NEW c,
           Leads(P, b, w, d), Leads(P, d, z, c)
    PROVE  Leads(P, b, w \o z, c)
<1> DEFINE m == Len(w)
           n == Len(z)
           wz == w \o z
<1>1. /\ m \in Nat /\ n \in Nat /\ Len(wz) = m + n
      /\ \A i \in 1 .. m : wz[i] = w[i]
      /\ \A i \in 1 .. n : wz[m + i] = z[i]
  OBVIOUS
<1> HIDE DEF wz
<1>2. PICK f : /\ f[0] = b /\ f[m] = d
               /\ \A i \in 0 .. m : f[i] \in Conf(P)
               /\ \A i \in 1 .. m : Moves(P, f[i - 1], w[i], f[i])
  BY DEF Leads
<1>3. PICK g : /\ g[0] = d /\ g[n] = c
               /\ \A i \in 0 .. n : g[i] \in Conf(P)
               /\ \A i \in 1 .. n : Moves(P, g[i - 1], z[i], g[i])
  BY DEF Leads
<1> HIDE DEF m, n
<1> DEFINE h == [i \in 0 .. (m + n) |-> IF i <= m THEN f[i] ELSE g[i - m]]
<1>4. h[0] = b /\ h[m + n] = c
  <2>1. n = 0 => h[m + n] = f[m] /\ f[m] = c
    BY <1>1, <1>2, <1>3
  <2>2. n # 0 => h[m + n] = g[n]
    BY <1>1
  <2> QED
    BY <1>1, <1>2, <1>3, <2>1, <2>2
<1>5. ASSUME NEW i \in 0 .. (m + n) PROVE h[i] \in Conf(P)
  <2>1. CASE i <= m
    BY <1>1, <1>2, <2>1
  <2>2. CASE ~(i <= m)
    <3>1. i - m \in 0 .. n
      BY <1>1, <2>2
    <3> QED
      BY <1>3, <2>2, <3>1
  <2> QED
    BY <2>1, <2>2
<1>6. ASSUME NEW i \in 1 .. (m + n) PROVE Moves(P, h[i - 1], wz[i], h[i])
  <2>1. CASE i <= m
    <3>1. i \in 1 .. m /\ h[i] = f[i] /\ h[i - 1] = f[i - 1]
      BY <1>1, <2>1
    <3> QED
      BY <1>1, <1>2, <3>1
  <2>2. CASE i = m + 1
    <3>1. 1 \in 1 .. n /\ h[i] = g[1] /\ h[i - 1] = g[0] /\ wz[i] = z[1] /\ 1 - 1 = 0
      BY <1>1, <1>2, <1>3, <2>2
    <3> QED
      BY <1>3, <3>1
  <2>3. CASE i > m + 1
    <3>1. /\ i - m \in 1 .. n /\ h[i] = g[i - m] /\ h[i - 1] = g[(i - m) - 1]
          /\ i = m + (i - m)
      BY <1>1, <2>3
    <3>2. wz[i] = z[i - m]
      BY <1>1, <3>1
    <3> QED
      BY <1>3, <3>1, <3>2
  <2> QED
    BY <1>1, <2>1, <2>2, <2>3
<1> HIDE DEF h
<1>7. Leads(P, b, wz, c)
  BY <1>1, <1>4, <1>5, <1>6 DEF Leads
<1> QED
  BY <1>7 DEF wz
LEMMA AppendIs ==
    ASSUME NEW V, NEW s \in Seq(V), NEW x \in V
    PROVE  /\ Append(s, x) = s \o <<x>> /\ Append(s, x) \in Seq(V) /\ Append(s, x) # <<>>
           /\ <<x>> \in Seq(V) /\ <<x>> # <<>> /\ Range(<<x>>) = {x} /\ Last(<<x>>) = x
<1>1. <<x>> \in Seq(V) /\ <<x>> # <<>> /\ Range(<<x>>) = {x} /\ Last(<<x>>) = x
  BY DEF Range, Last
<1>2. Append(s, x) = s \o <<x>> /\ Append(s, x) \in Seq(V) /\ Append(s, x) # <<>>
  OBVIOUS
<1> QED
  BY <1>1, <1>2

LEMMA AppendEnds ==
    ASSUME NEW V, NEW s \in Seq(V), NEW x \in V
    PROVE  Range(Append(s, x)) = Range(s) \cup {x} /\ Last(Append(s, x)) = x
<1>1. <<x>> \in Seq(V) /\ Range(<<x>>) = {x}
  BY AppendIs
<1>2. Append(s, x) = s \o <<x>>
  BY AppendIs
<1>3. Range(s \o <<x>>) = Range(s) \cup Range(<<x>>)
  BY <1>1, RangeConcatenation
<1>4. Last(Append(s, x)) = x
  BY DEF Last
<1> QED
  BY <1>1, <1>2, <1>3, <1>4

LEMMA LeadsAppend ==
    ASSUME NEW P, NEW V, NEW s \in Seq(V), NEW x \in V, NEW b, NEW c \in Conf(P)
    PROVE  Leads(P, b, Append(s, x), c) <=>
               \E d \in Conf(P) : Leads(P, b, s, d) /\ Moves(P, d, x, c)
<1>1. Append(s, x) = s \o <<x>> /\ <<x>> \in Seq(V)
  BY AppendIs
<1>2. ASSUME Leads(P, b, s \o <<x>>, c)
      PROVE  \E d \in Conf(P) : Leads(P, b, s, d) /\ Moves(P, d, x, c)
  <2>1. PICK d \in Conf(P) : Leads(P, b, s, d) /\ Leads(P, d, <<x>>, c)
    BY <1>1, <1>2, LeadsThrough
  <2>2. Moves(P, d, x, c)
    BY <2>1, LeadsOne
  <2> QED
    BY <2>1, <2>2
<1>3. ASSUME NEW d \in Conf(P), Leads(P, b, s, d), Moves(P, d, x, c)
      PROVE  Leads(P, b, s \o <<x>>, c)
  <2>1. Leads(P, d, <<x>>, c)
    BY <1>3, LeadsOne
  <2> QED
    BY <1>1, <1>3, <2>1, LeadsOn
<1> QED
  BY <1>1, <1>2, <1>3

\* The last move of a walk.
LEMMA LeadsLast ==
    ASSUME NEW P, NEW V, NEW w \in Seq(V), w # <<>>, NEW b, NEW c, Leads(P, b, w, c)
    PROVE  \E d : Moves(P, d, Last(w), c)
<1>1. c \in Conf(P)
  BY LeadsConf
<1>2. PICK r \in Seq(V), x \in V : w = Append(r, x)
  BY SequenceEmptyOrAppend
<1>3. Last(w) = x
  BY <1>2, AppendEnds
<1> QED
  BY <1>1, <1>2, <1>3, LeadsAppend

Pairs(V) == \A v \in V : v = <<v[1], v[2]>>

\* What has been done at the end of a walk, and what a walk of recurring steps
\* leaves alone.
LEMMA LeadsDone ==
    ASSUME NEW P \in Telling, NEW V, Pairs(V), NEW w \in Seq(V), NEW b, NEW c,
           Leads(P, b, w, c)
    PROVE  /\ Done(P, b) \subseteq Done(P, c)
           /\ \A v \in Range(w) : v \notin Done(P, b)
           /\ Range(w) \ Recurring(P) \subseteq Done(P, c)
           /\ Range(w) \subseteq Recurring(P) => Kept(P, c) = Kept(P, b)
<1> DEFINE Is(y, e, f) ==
              /\ Done(P, e) \subseteq Done(P, f)
              /\ \A v \in Range(y) : v \notin Done(P, e)
              /\ Range(y) \ Recurring(P) \subseteq Done(P, f)
              /\ Range(y) \subseteq Recurring(P) => Kept(P, f) = Kept(P, e)
           S == {y \in Seq(V) : \A e, f \in Conf(P) : Leads(P, e, y, f) => Is(y, e, f)}
<1>1. <<>> \in S
  <2>1. <<>> \in Seq(V) /\ Range(<<>>) = {}
    BY DEF Range
  <2>2. \A e, f \in Conf(P) : Leads(P, e, <<>>, f) => e = f
    BY <2>1, LeadsConf
  <2> QED
    BY <2>1, <2>2
<1>2. ASSUME NEW s \in Seq(V), NEW x \in V, s \in S PROVE Append(s, x) \in S
  <2>1. Append(s, x) \in Seq(V) /\ Range(Append(s, x)) = Range(s) \cup {x}
    BY AppendEnds
  <2>2. ASSUME NEW e \in Conf(P), NEW f \in Conf(P), Leads(P, e, Append(s, x), f)
        PROVE  Is(Append(s, x), e, f)
    <3>1. PICK d \in Conf(P) : Leads(P, e, s, d) /\ Moves(P, d, x, f)
      BY <2>2, LeadsAppend
    <3>2. Is(s, e, d)
      BY <1>2, <3>1
    <3>3. /\ x \notin Done(P, d)
          /\ x \notin Recurring(P) => Done(P, f) = Done(P, d) \cup {x}
          /\ x \in Recurring(P) => Done(P, f) = Done(P, d) /\ Kept(P, f) = Kept(P, d)
      BY <3>1, MoveDone DEF Pairs
    <3> QED
      BY <2>1, <3>2, <3>3
  <2> HIDE DEF Is
  <2> QED
    BY <2>1, <2>2
<1> HIDE DEF S
<1>3. w \in S
  BY <1>1, <1>2, ListInduction
<1>4. b \in Conf(P) /\ c \in Conf(P)
  BY LeadsConf
<1> QED
  BY <1>3, <1>4 DEF S

\* What is seen again is recurring.
LEMMA SeenAgain ==
    ASSUME NEW P \in Telling, NEW V, Pairs(V), NEW w \in Seq(V), NEW z \in Seq(V),
           NEW b, NEW c, NEW d, Leads(P, b, w, c), Leads(P, c, z, d),
           NEW v \in Range(w) \cap Range(z)
    PROVE  v \in Recurring(P)
<1>1. v \notin Recurring(P) => v \in Done(P, c)
  BY LeadsDone
<1>2. v \notin Done(P, c)
  BY LeadsDone
<1> QED
  BY <1>1, <1>2

\* The last move of a walk of recurring steps.
LEMMA LeadsLastKept ==
    ASSUME NEW P \in Telling, NEW V, Pairs(V), NEW w \in Seq(V), w # <<>>,
           NEW b, NEW c, Leads(P, b, w, c), Last(w) \in Recurring(P)
    PROVE  \E d : Moves(P, d, Last(w), c) /\ Kept(P, d) = Kept(P, c)
<1>1. PICK d : Moves(P, d, Last(w), c)
  BY LeadsLast
<1>2. Last(w) = <<Last(w)[1], Last(w)[2]>>
  BY TailIs DEF Pairs
<1> QED
  BY <1>1, <1>2, MoveDone

\* A walk of what was seen before that comes back to what was seen last leads
\* nowhere else.
LEMMA LoopLeadsBack ==
    ASSUME NEW P \in Telling, NEW V, Pairs(V), NEW s \in Seq(V), NEW w \in Seq(V),
           s # <<>>, w # <<>>, Last(s) = Last(w), Range(w) \subseteq Range(s),
           NEW b, NEW c, NEW d, Leads(P, b, s, c), Leads(P, c, w, d)
    PROVE  d = c
<1>1. Range(w) \subseteq Recurring(P)
  BY SeenAgain
<1>2. Kept(P, d) = Kept(P, c)
  BY <1>1, LeadsDone
<1>3. Last(w) \in Recurring(P) /\ Last(w) = <<Last(w)[1], Last(w)[2]>>
  BY <1>1, TailIs DEF Pairs
<1>4. PICK e : Moves(P, e, Last(w), c) /\ Kept(P, e) = Kept(P, c)
  BY <1>3, LeadsLastKept
<1>5. PICK f : Moves(P, f, Last(w), d) /\ Kept(P, f) = Kept(P, d)
  BY <1>3, LeadsLastKept
<1> QED
  BY <1>2, <1>3, <1>4, <1>5, MoveTells

-----------------------------------------------------------------------------
(* On a telling program the normal form leads where the path does.         *)

\* A loop that is left out led nowhere.
LEMMA LoopLeftOut ==
    ASSUME NEW P \in Telling, NEW V, Pairs(V), NEW s \in Seq(V), NEW n \in Seq(V), Again(V, s, n),
           NEW b, NEW c, Leads(P, b, Join(s, n), c)
    PROVE  Leads(P, b, s, c)
<1> DEFINE t == Tail(n)
<1>1. /\ s # <<>> /\ n # <<>> /\ Last(s) = Head(n) /\ Last(s) = Last(n)
      /\ Range(n) \subseteq Range(s)
  BY DEF Again
<1>2. /\ t \in Seq(V) /\ Range(t) \subseteq Range(n) /\ (t # <<>> => Last(t) = Last(n))
  BY <1>1, TailIs
<1>3. Join(s, n) = s \o t
  BY <1>1 DEF Join
<1> HIDE DEF t
<1>4. PICK d \in Conf(P) : Leads(P, b, s, d) /\ Leads(P, d, t, c)
  BY <1>2, <1>3, LeadsThrough
<1>5. CASE t = <<>>
  <2>1. d = c
    BY <1>2, <1>4, <1>5, LeadsConf
  <2> QED
    BY <1>4, <2>1
<1>6. CASE t # <<>>
  <2>1. Range(t) \subseteq Range(s) /\ Last(s) = Last(t)
    BY <1>1, <1>2, <1>6
  <2>2. c = d
    BY <1>1, <1>2, <1>4, <1>6, <2>1, LoopLeadsBack
  <2> QED
    BY <1>4, <2>2
<1> QED
  BY <1>5, <1>6

\* What a walk through a loop that follows s and z does, s and the loop do.
LEMMA LoopWalked ==
    ASSUME NEW P \in Telling, NEW V, Pairs(V),
           NEW s \in Seq(V), NEW n \in Seq(V), Again(V, s, n),
           NEW z \in Seq(V), NEW w \in Seq(V), Range(Tail(n)) \subseteq Range(w),
           NEW b, NEW d, Leads(P, b, (s \o z) \o w, d)
    PROVE  Leads(P, b, ((s \o Tail(n)) \o z) \o w, d)
<1> DEFINE t == Tail(n)
<1>1. /\ s # <<>> /\ n # <<>> /\ Last(s) = Head(n) /\ Last(s) = Last(n)
      /\ Range(n) \subseteq Range(s)
  BY DEF Again
<1>2. /\ t \in Seq(V) /\ (t # <<>> => Last(t) = Last(n)) /\ n = <<Head(n)>> \o t
      /\ Range(n) = {Head(n)} \cup Range(t) /\ Head(n) \in V
  BY <1>1, TailIs
<1>3. Range(t) \subseteq Range(w)
  OBVIOUS
<1> HIDE DEF t
<1>4. s \o z \in Seq(V) /\ s \o t \in Seq(V) /\ (s \o t) \o z \in Seq(V)
  BY <1>2, <1>3
<1>5. PICK e \in Conf(P) : Leads(P, b, s \o z, e) /\ Leads(P, e, w, d)
  BY <1>4, LeadsThrough
<1>6. PICK c \in Conf(P) : Leads(P, b, s, c) /\ Leads(P, c, z, e)
  BY <1>3, <1>5, LeadsThrough
<1>7. Leads(P, c, t, c)
  <2>1. CASE t = <<>>
    BY <2>1, LeadsEmpty
  <2>2. CASE t # <<>>
    <3>1. Range(s \o z) = Range(s) \cup Range(z)
      BY <1>3, ConcatEnds
    <3>2. Range(t) \subseteq Range(w) /\ Range(t) \subseteq Range(s)
      BY <1>1, <1>2, <1>3
    <3>3. Range(t) \subseteq Recurring(P)
      <4>1. \A v \in Range(t) : v \in Range(s \o z) \cap Range(w)
        BY <3>1, <3>2
      <4> QED
        BY <1>3, <1>4, <1>5, <4>1, SeenAgain
    <3>4. Last(t) \in Range(t) /\ Last(t) = Head(n)
      BY <1>1, <1>2, <2>2, TailIs
    <3>5. PICK u \in Seq(V) : s = u \o n
      BY DEF Again, EndsWith
    <3>6. PICK g0 \in Conf(P) : Leads(P, b, u, g0) /\ Leads(P, g0, n, c)
      BY <1>6, <3>5, LeadsThrough
    <3>7. <<Head(n)>> \in Seq(V) /\ Leads(P, g0, <<Head(n)>> \o t, c)
      <4> DEFINE y == <<Head(n)>> \o t
      <4>1. n = y /\ <<Head(n)>> \in Seq(V)
        BY <1>2
      <4> HIDE DEF y
      <4>2. Leads(P, g0, y, c)
        BY <3>6, <4>1
      <4> QED
        BY <4>1, <4>2 DEF y
    <3>8. PICK g \in Conf(P) : Leads(P, g0, <<Head(n)>>, g) /\ Leads(P, g, t, c)
      BY <1>2, <3>7, LeadsThrough
    <3>9. Moves(P, g0, Head(n), g)
      BY <1>2, <3>8, LeadsOne
    <3>10. Kept(P, c) = Kept(P, g)
      BY <1>2, <3>3, <3>8, LeadsDone
    <3>11. Head(n) \in Recurring(P) /\ Head(n) = <<Head(n)[1], Head(n)[2]>>
      BY <1>2, <3>3, <3>4 DEF Pairs
    <3>12. Kept(P, g) = Kept(P, g0)
      BY <3>9, <3>11, MoveDone
    <3>13. PICK e0 : Moves(P, e0, Head(n), c) /\ Kept(P, e0) = Kept(P, c)
      BY <1>2, <2>2, <3>4, <3>8, <3>11, LeadsLastKept
    <3>14. g = c
      BY <3>9, <3>10, <3>11, <3>12, <3>13, MoveTells
    <3> QED
      BY <3>8, <3>14
  <2> QED
    BY <2>1, <2>2
<1>8. Leads(P, b, s \o t, c)
  BY <1>2, <1>6, <1>7, LeadsOn
<1>9. Leads(P, b, (s \o t) \o z, e)
  BY <1>3, <1>4, <1>6, <1>8, LeadsOn
<1>10. Leads(P, b, ((s \o t) \o z) \o w, d)
  BY <1>3, <1>4, <1>5, <1>9, LeadsOn
<1> QED
  BY <1>10 DEF t

\* A loop that can be walked later can be walked already.
LEMMA LoopWalkedBefore ==
    ASSUME NEW P \in Telling, NEW V, Pairs(V), NEW s \in Seq(V), NEW n \in Seq(V), Again(V, s, n),
           NEW r \in Seq(V), NEW b, NEW d, Leads(P, b, Join(Join(s, r), n), d)
    PROVE  Leads(P, b, Join(Join(Join(s, n), r), n), d)
<1> DEFINE z == After(s, r)
           w == After(s \o z, n)
           t == Tail(n)
           st == s \o t
<1>1. /\ s # <<>> /\ n # <<>> /\ Last(s) = Head(n) /\ Last(s) = Last(n)
  BY DEF Again
<1>2. z \in Seq(V) /\ Join(s, r) = s \o z
  BY JoinIs
<1>3. s \o z \in Seq(V)
  BY <1>2
<1>4. w \in Seq(V) /\ Join(s \o z, n) = (s \o z) \o w
  BY <1>3, JoinIs
<1>5. Join(s, n) = st
  BY <1>1 DEF Join
<1>6. t \in Seq(V) /\ (t # <<>> => Last(t) = Last(n))
  BY <1>1, TailIs
<1>7. /\ st \in Seq(V) /\ st # <<>> /\ Last(st) = Last(s)
  <2> HIDE DEF t
  <2>1. t # <<>> => Last(st) = Last(t)
    BY <1>6, ConcatEnds
  <2>2. t = <<>> => st = s
    BY ConcatEnds
  <2>3. st # <<>>
    BY <1>1, <1>6, ConcatEnds
  <2>4. st \in Seq(V)
    BY <1>6
  <2> HIDE DEF st
  <2> QED
    BY <1>1, <1>6, <2>1, <2>2, <2>3, <2>4
<1>8. Join(st, r) = st \o z
  <2>1. After(st, r) = z
    BY <1>1, <1>7 DEF After
  <2>2. Join(st, r) = st \o After(st, r)
    <3> HIDE DEF st
    <3> QED
      BY <1>7, JoinIs
  <2> QED
    BY <2>1, <2>2
<1>9. Last(st \o z) = Last(s \o z) /\ st \o z # <<>> /\ s \o z # <<>> /\ st \o z \in Seq(V)
  <2> HIDE DEF st
  <2>1. z # <<>> => Last(st \o z) = Last(z)
    BY <1>2, <1>7, ConcatEnds
  <2>2. z # <<>> => Last(s \o z) = Last(z)
    BY <1>2, ConcatEnds
  <2>3. z = <<>> => st \o z = st /\ s \o z = s
    BY <1>2, <1>7, ConcatEnds
  <2>4. st \o z # <<>>
    BY <1>2, <1>7, ConcatEnds
  <2>5. s \o z # <<>>
    BY <1>1, <1>2, ConcatEnds
  <2>6. st \o z \in Seq(V)
    BY <1>2, <1>7
  <2> QED
    BY <1>7, <2>1, <2>2, <2>3, <2>4, <2>5, <2>6
<1>10. Join(st \o z, n) = (st \o z) \o w
  <2>1. After(st \o z, n) = w
    BY <1>1, <1>9 DEF After
  <2> DEFINE stz == st \o z
  <2>2. Join(stz, n) = stz \o After(stz, n)
    <3>1. stz \in Seq(V)
      BY <1>9
    <3> HIDE DEF stz
    <3> QED
      BY <3>1, JoinIs
  <2> QED
    BY <2>1, <2>2
<1>11. Range(Tail(n)) \subseteq Range(w)
  <2>1. w = n \/ w = t
    BY DEF After
  <2> QED
    BY <1>1, <2>1, TailIs
<1>12. Join(Join(Join(s, n), r), n) = (st \o z) \o w
  BY <1>5, <1>8, <1>10
<1>13. Leads(P, b, (s \o z) \o w, d)
  BY <1>2, <1>4
<1> HIDE DEF z, w
<1>14. Leads(P, b, ((s \o Tail(n)) \o z) \o w, d)
  BY <1>2, <1>4, <1>11, <1>13, LoopWalked
<1> QED
  BY <1>12, <1>14

\* The normal form of what was seen on a path leads where the path has led.
LEMMA NormLeads ==
    ASSUME NEW P \in Telling, NEW V, Pairs(V), NEW path \in Seq(V), NEW b, NEW c,
           Leads(P, b, path, c)
    PROVE  Leads(P, b, Norm(path), c)
<1> DEFINE N == Len(path)
<1>1. PICK f : /\ f[0] = b /\ f[N] = c
               /\ \A i \in 0 .. N : f[i] \in Conf(P)
               /\ \A i \in 1 .. N : Moves(P, f[i - 1], path[i], f[i])
  BY DEF Leads
<1> DEFINE W(k) == {w \in Seq(V) : Leads(P, b, w, f[k])}
           F == [k \in 0 .. N |-> W(k)]
<1>2. N \in Nat
  OBVIOUS
<1> HIDE DEF N
<1>3. ASSUME NEW k \in 0 .. N PROVE Keeps(V, F[k])
  <2>1. F[k] = W(k) /\ W(k) \subseteq Seq(V)
    OBVIOUS
  <2> SUFFICES ASSUME NEW s \in Seq(V), NEW n \in Seq(V), Again(V, s, n)
               PROVE  /\ Join(s, n) \in W(k) => s \in W(k)
                      /\ \A r \in Seq(V) :
                            Join(Join(s, r), n) \in W(k) => Join(Join(Join(s, n), r), n) \in W(k)
    BY <2>1 DEF Keeps
  <2>2. Join(s, n) \in W(k) => s \in W(k)
    BY LoopLeftOut
  <2>3. ASSUME NEW r \in Seq(V), Join(Join(s, r), n) \in W(k)
        PROVE  Join(Join(Join(s, n), r), n) \in W(k)
    <3>1. Leads(P, b, Join(Join(Join(s, n), r), n), f[k])
      BY <2>3, LoopWalkedBefore
    <3>2. Join(s, n) \in Seq(V)
      BY JoinIs
    <3>3. Join(Join(s, n), r) \in Seq(V)
      <4> DEFINE sn == Join(s, n)
      <4>1. sn \in Seq(V)
        BY <3>2
      <4> HIDE DEF sn
      <4>2. Join(sn, r) \in Seq(V)
        BY <4>1, JoinIs
      <4> QED
        BY <4>2 DEF sn
    <3>4. Join(Join(Join(s, n), r), n) \in Seq(V)
      <4> DEFINE snr == Join(Join(s, n), r)
      <4>1. snr \in Seq(V)
        BY <3>3
      <4> HIDE DEF snr
      <4>2. Join(snr, n) \in Seq(V)
        BY <4>1, JoinIs
      <4> QED
        BY <4>2 DEF snr
    <3> QED
      BY <3>1, <3>4
  <2> QED
    BY <2>2, <2>3
<1>4. <<>> \in F[0]
  <2>1. f[0] \in Conf(P) /\ <<>> \in Seq(V) /\ 0 \in 0 .. N
    BY <1>1, <1>2
  <2>2. Leads(P, b, <<>>, f[0])
    BY <1>1, <2>1, LeadsEmpty
  <2> QED
    BY <2>1, <2>2
<1>5. ASSUME NEW k \in 1 .. N, NEW w \in F[k - 1] PROVE Join(w, <<path[k]>>) \in F[k]
  <2> DEFINE v == path[k]
  <2>1. k - 1 \in 0 .. N /\ k \in 0 .. N
    BY <1>2
  <2>2. w \in Seq(V) /\ Leads(P, b, w, f[k - 1])
    BY <2>1
  <2>3. /\ v \in V /\ Moves(P, f[k - 1], v, f[k]) /\ f[k] \in Conf(P) /\ f[k - 1] \in Conf(P)
    BY <1>1, <2>1 DEF N
  <2> HIDE DEF v
  <2>4. /\ <<v>> \in Seq(V) /\ <<v>> # <<>> /\ Range(<<v>>) = {v} /\ Last(<<v>>) = v
        /\ Head(<<v>>) = v /\ Tail(<<v>>) = <<>>
    BY <2>3 DEF Range, Last
  <2>5. Leads(P, f[k - 1], <<v>>, f[k])
    BY <2>3, LeadsOne
  <2>6. CASE w # <<>> /\ Last(w) = v
    <3>1. Join(w, <<v>>) = w
      <4>1. Join(w, <<v>>) = w \o <<>>
        BY <2>4, <2>6 DEF Join
      <4> QED
        BY <2>2, <4>1, ConcatEnds
    <3>2. v \in Range(w)
      BY <2>2, <2>6, TailIs
    <3>3. f[k] = f[k - 1]
      <4> DEFINE y == <<v>>
      <4>1. /\ y \in Seq(V) /\ y # <<>> /\ Range(y) \subseteq Range(w)
            /\ Last(w) = Last(y) /\ Leads(P, f[k - 1], y, f[k])
        BY <2>4, <2>5, <2>6, <3>2
      <4> HIDE DEF y
      <4> QED
        BY <2>2, <2>6, <4>1, LoopLeadsBack
    <3> QED
      BY <2>1, <2>2, <3>1, <3>3 DEF v
  <2>7. CASE ~(w # <<>> /\ Last(w) = v)
    <3>1. Join(w, <<v>>) = w \o <<v>>
      BY <2>4, <2>7 DEF Join
    <3>2. Leads(P, b, w \o <<v>>, f[k])
      BY <2>2, <2>4, <2>5, LeadsOn
    <3>3. w \o <<v>> \in Seq(V)
      BY <2>2, <2>4
    <3> QED
      BY <2>1, <3>1, <3>2, <3>3 DEF v
  <2> QED
    BY <2>6, <2>7
<1>6. Norm(path) \in F[N]
  <2> HIDE DEF F
  <2> QED
    BY <1>3, <1>4, <1>5, NormKeeps DEF N
<1> QED
  BY <1>1, <1>2, <1>6
-----------------------------------------------------------------------------
(* Executing a path, with the program as a parameter.                      *)

ResumeIn(P, res, p) ==
    LET step == Step(P, res.conf, p)
    IN IF res.kind # "NotExited" THEN res
       ELSE CASE step.kind = "none" -> [res EXCEPT !.kind = "TooEarly"]
              [] step.kind = "raise" -> [res EXCEPT !.kind = "Raised"]
              [] step.kind \in {"yield", "exit"} ->
                    [res EXCEPT !.conf = step.to,
                                !.labels = Append(@, Label(step, Len(@) + 1))]

Fresh(P, path) == [kind |-> "NotExited", conf |-> Start(P), labels |-> <<>>, path |-> path]

FollowedIn(P, path) ==
    LET run[n \in 0 .. Len(path)] ==
            IF n = 0
            THEN [kind |-> "NotExited", conf |-> Start(P), labels |-> <<>>, path |-> path]
            ELSE ResumeIn(P, run[n - 1], path[n])
    IN run[Len(path)]

ExecuteIn(P, path) ==
    LET res == FollowedIn(P, path)
    IN IF res.kind = "NotExited" /\ RunningIn(P, res.conf) = {}
       THEN [res EXCEPT !.kind = "Returned"] ELSE res

LEMMA FollowedIs ==
    ASSUME NEW path
    PROVE  /\ Followed(path) = FollowedIn(prog, path)
           /\ Execute(path) = ExecuteIn(prog, path)
<1>1. Followed(path) = FollowedIn(prog, path)
  BY DEF Followed, FollowedIn, Resume, ResumeIn
<1> QED
  BY <1>1 DEF Execute, ExecuteIn, Running

RacersOf(P) == 0 .. Count(P) - 1

\* What the racers of a program can be labelled with.
LabelsOf(P) == {Label(Step(P, c, p), n) : c \in Conf(P), p \in RacersOf(P), n \in Nat}

ItemsOf(P) == RacersOf(P) \X LabelsOf(P)

IsRun(h, P, path) ==
    /\ h[0] = Fresh(P, path)
    /\ \A n \in 1 .. Len(path) : h[n] = ResumeIn(P, h[n - 1], path[n])

LEMMA RunExists ==
    ASSUME NEW P, NEW V, NEW path \in Seq(V)
    PROVE  \E h : IsRun(h, P, path) /\ FollowedIn(P, path) = h[Len(path)]
<1> DEFINE N == Len(path)
           Go(res, n) == ResumeIn(P, res, path[n])
           base == Fresh(P, path)
           E(f) == [n \in 0 .. N |-> IF n = 0 THEN base ELSE Go(f[n - 1], n)]
           Up(f, k) == f[0] = base /\ \A n \in 1 .. k : f[n] = Go(f[n - 1], n)
           S == {k \in Nat : \E f : Up(f, k)}
<1>0. N \in Nat
  OBVIOUS
<1>6. FollowedIn(P, path) = (CHOOSE h : h = E(h))[N]
  BY DEF FollowedIn, Fresh
<1> HIDE DEF N, Go, base
<1>1. 0 \in S
  <2>1. Up([n \in {0} |-> base], 0)
    OBVIOUS
  <2> QED
    BY <2>1
<1>2. ASSUME NEW k \in Nat, k \in S PROVE k + 1 \in S
  <2>1. PICK f : Up(f, k)
    BY <1>2
  <2> DEFINE g == [n \in 0 .. (k + 1) |-> IF n = k + 1 THEN Go(f[k], k + 1) ELSE f[n]]
  <2>2. Up(g, k + 1)
    <3>1. g[0] = base
      BY <2>1
    <3>2. ASSUME NEW n \in 1 .. (k + 1) PROVE g[n] = Go(g[n - 1], n)
      <4>1. g[n - 1] = f[n - 1]
        OBVIOUS
      <4>2. CASE n = k + 1
        <5>1. g[k + 1] = Go(f[k], k + 1) /\ n - 1 = k
          BY <4>2
        <5> QED
          BY <4>1, <4>2, <5>1
      <4>3. CASE n # k + 1
        <5>1. n \in 1 .. k /\ g[n] = f[n]
          BY <4>3
        <5> QED
          BY <2>1, <4>1, <5>1
      <4> QED
        BY <4>2, <4>3
    <3> HIDE DEF g
    <3> QED
      BY <3>1, <3>2
  <2> HIDE DEF g
  <2> QED
    BY <2>2
<1> HIDE DEF S
<1>3. N \in S
  BY <1>0, <1>1, <1>2, SetInduction
<1>4. PICK f : Up(f, N)
  BY <1>3 DEF S
<1>5. \E h : h = E(h)
  <2> DEFINE h == [n \in 0 .. N |-> f[n]]
  <2>1. h = E(h)
    <3>1. ASSUME NEW n \in 0 .. N
          PROVE  h[n] = IF n = 0 THEN base ELSE Go(h[n - 1], n)
      <4>1. CASE n = 0
        BY <1>4, <4>1
      <4>2. CASE n # 0
        <5>1. n \in 1 .. N /\ h[n] = f[n] /\ h[n - 1] = f[n - 1]
          BY <1>0, <4>2
        <5> QED
          BY <1>4, <4>2, <5>1
      <4> QED
        BY <4>1, <4>2
    <3> QED
      BY <3>1
  <2> QED
    BY <2>1
<1>7. PICK h : h = (CHOOSE x : x = E(x)) /\ h = E(h)
  <2> HIDE DEF E
  <2> QED
    BY <1>5
<1>8. ASSUME NEW n \in 0 .. N
      PROVE  h[n] = IF n = 0 THEN base ELSE Go(h[n - 1], n)
  <2>1. E(h)[n] = IF n = 0 THEN base ELSE Go(h[n - 1], n)
    OBVIOUS
  <2> HIDE DEF E
  <2> QED
    BY <1>7, <2>1
<1>9. IsRun(h, P, path)
  <2>1. 0 \in 0 .. N /\ \A n \in 1 .. N : n \in 0 .. N /\ n # 0
    BY <1>0
  <2>2. h[0] = base /\ \A n \in 1 .. N : h[n] = Go(h[n - 1], n)
    BY <1>8, <2>1
  <2> QED
    BY <2>2 DEF IsRun, N, Go, base
<1>10. FollowedIn(P, path) = h[N]
  <2> HIDE DEF E
  <2> QED
    BY <1>6, <1>7
<1> QED
  BY <1>9, <1>10 DEF N

\* An execution that nothing has stopped so far.
Going(c, labels, path) ==
    [kind |-> "NotExited", conf |-> c, labels |-> labels, path |-> path]

\* One item: what is resumed, and what it takes to go on.
LEMMA ResumeIs ==
    ASSUME NEW P \in Programs, NEW p \in RacersOf(P), NEW path,
           NEW c \in Conf(P), NEW labels \in Seq(LabelsOf(P))
    PROVE  LET step == Step(P, c, p)
               next == ResumeIn(P, Going(c, labels, path), p)
           IN /\ next.kind \in {"NotExited", "TooEarly", "Raised"} /\ next.path = path
              /\ next.kind = "NotExited" <=> step.kind \in {"yield", "exit"}
              /\ next.kind = "NotExited" =>
                     next = Going(step.to, Append(labels, Label(step, Len(labels) + 1)), path)
              /\ step.to \in Conf(P)
              /\ Label(step, Len(labels) + 1) \in LabelsOf(P)
<1> DEFINE step == Step(P, c, p)
           res == Going(c, labels, path)
           next == ResumeIn(P, res, p)
<1>1. step.kind \in {"yield", "exit", "raise", "none"} /\ step.to \in Conf(P)
  BY ProgramsAssumption DEF RacersOf
<1>2. Label(step, Len(labels) + 1) \in LabelsOf(P)
  BY DEF LabelsOf
<1> DEFINE l == Label(step, Len(labels) + 1)
<1>3. res.kind = "NotExited" /\ res.conf = c /\ res.labels = labels /\ res.path = path
  BY DEF Going
<1>4. next = CASE step.kind = "none" -> [res EXCEPT !.kind = "TooEarly"]
               [] step.kind = "raise" -> [res EXCEPT !.kind = "Raised"]
               [] step.kind \in {"yield", "exit"} ->
                     [res EXCEPT !.conf = step.to, !.labels = Append(labels, l)]
  BY <1>3 DEF ResumeIn
<1>8. res = [kind |-> "NotExited", conf |-> c, labels |-> labels, path |-> path]
  BY DEF Going
<1> HIDE DEF step, next, l, res
<1>5. CASE step.kind = "none"
  <2>1. next = [res EXCEPT !.kind = "TooEarly"]
    BY <1>4, <1>5
  <2> QED
    BY <1>1, <1>2, <1>5, <1>8, <2>1 DEF step, next, res
<1>6. CASE step.kind = "raise"
  <2>1. next = [res EXCEPT !.kind = "Raised"]
    BY <1>4, <1>6
  <2> QED
    BY <1>1, <1>2, <1>6, <1>8, <2>1 DEF step, next, res
<1>7. CASE step.kind \in {"yield", "exit"}
  <2>1. next = [res EXCEPT !.conf = step.to, !.labels = Append(labels, l)]
    BY <1>4, <1>7
  <2>2. next = Going(step.to, Append(labels, l), path)
    BY <1>8, <2>1 DEF Going
  <2>3. next.kind = "NotExited" /\ next.path = path
    BY <2>2 DEF Going
  <2> QED
    BY <1>1, <1>2, <1>7, <2>2, <2>3 DEF step, next, l, res
<1> QED
  BY <1>1, <1>5, <1>6, <1>7
\* An execution that went through.
Through(P, path, res, k) ==
    \E c \in Conf(P), labels \in Seq(LabelsOf(P)) :
        /\ res = Going(c, labels, path)
        /\ Len(labels) = k
        /\ P \in Telling => Leads(P, Start(P), [i \in 1 .. k |-> <<path[i], labels[i]>>], c)

\* What an execution tells, and that what was seen leads where it has led.
LEMMA FollowedTells ==
    ASSUME NEW P \in Programs, NEW path \in Seq(RacersOf(P))
    PROVE  LET res == FollowedIn(P, path)
           IN /\ res.kind \in {"NotExited", "TooEarly", "Raised"} /\ res.path = path
              /\ res.kind = "NotExited" => Through(P, path, res, Len(path))
<1> DEFINE N == Len(path)
           Is(res, k) == /\ res.kind \in {"NotExited", "TooEarly", "Raised"}
                         /\ res.path = path
                         /\ res.kind = "NotExited" => Through(P, path, res, k)
<1>1. PICK h : IsRun(h, P, path) /\ FollowedIn(P, path) = h[N]
  BY RunExists
<1>2. N \in Nat
  OBVIOUS
<1> DEFINE S == {k \in Nat : k <= N => Is(h[k], k)}
<1>3. 0 \in S
  <2>1. h[0] = Going(Start(P), <<>>, path)
    BY <1>1 DEF IsRun, Fresh, Going
  <2>2. Start(P) \in Conf(P) /\ <<>> \in Seq(LabelsOf(P)) /\ Len(<<>>) = 0
    BY ProgramsAssumption
  <2> DEFINE w == [i \in 1 .. 0 |-> <<path[i], <<>>[i]>>]
  <2>3. w = <<>>
    OBVIOUS
  <2> HIDE DEF w
  <2>4. Leads(P, Start(P), w, Start(P))
    BY <2>2, <2>3, LeadsEmpty
  <2>5. Through(P, path, h[0], 0)
    BY <2>1, <2>2, <2>4 DEF Through, w
  <2>6. h[0].kind = "NotExited" /\ h[0].path = path
    BY <2>1 DEF Going
  <2> QED
    BY <2>5, <2>6
<1>4. ASSUME NEW k \in Nat, k \in S PROVE k + 1 \in S
  <2> SUFFICES ASSUME k + 1 <= N PROVE Is(h[k + 1], k + 1)
    OBVIOUS
  <2>1. Is(h[k], k)
    BY <1>2, <1>4
  <2>2. k + 1 \in 1 .. N /\ (k + 1) - 1 = k
    BY <1>2
  <2> DEFINE p == path[k + 1]
  <2>3. h[k + 1] = ResumeIn(P, h[k], p) /\ p \in RacersOf(P)
    BY <1>1, <2>2 DEF IsRun
  <2> HIDE DEF p
  <2>4. CASE h[k].kind # "NotExited"
    <3>1. h[k + 1] = h[k]
      BY <2>3, <2>4 DEF ResumeIn
    <3> QED
      BY <2>1, <2>4, <3>1
  <2>5. CASE h[k].kind = "NotExited"
    <3>1. PICK c \in Conf(P), labels \in Seq(LabelsOf(P)) :
            /\ h[k] = Going(c, labels, path)
            /\ Len(labels) = k
            /\ P \in Telling =>
                 Leads(P, Start(P), [i \in 1 .. k |-> <<path[i], labels[i]>>], c)
      BY <2>1, <2>5 DEF Through
    <3> DEFINE step == Step(P, c, p)
               l == Label(step, Len(labels) + 1)
               res == h[k]
               next == ResumeIn(P, res, p)
               after == Append(labels, l)
               w == [i \in 1 .. k |-> <<path[i], labels[i]>>]
               v == <<p, l>>
    <3>2. /\ next.kind \in {"NotExited", "TooEarly", "Raised"} /\ next.path = path
          /\ next.kind = "NotExited" <=> step.kind \in {"yield", "exit"}
          /\ next.kind = "NotExited" => next = Going(step.to, after, path)
          /\ step.to \in Conf(P) /\ l \in LabelsOf(P)
      <4>1. res = Going(c, labels, path)
        BY <3>1
      <4> HIDE DEF res
      <4> QED
        BY <2>3, <4>1, ResumeIs
    <3>3. /\ w \in Seq(ItemsOf(P)) /\ v \in ItemsOf(P)
      <4>1. \A i \in 1 .. k : path[i] \in RacersOf(P) /\ labels[i] \in LabelsOf(P)
        BY <1>2, <2>2, <3>1
      <4> HIDE DEF l
      <4> QED
        BY <2>3, <3>2, <4>1 DEF ItemsOf
    <3> HIDE DEF l, step
    <3>4. [i \in 1 .. (k + 1) |-> <<path[i], after[i]>>] = Append(w, v)
      <4>1. after[k + 1] = l /\ \A i \in 1 .. k : after[i] = labels[i]
        BY <3>1, <3>2
      <4>2. Append(w, v) = [i \in 1 .. (k + 1) |-> IF i = k + 1 THEN v ELSE w[i]]
        OBVIOUS
      <4> HIDE DEF after
      <4>3. ASSUME NEW i \in 1 .. (k + 1)
            PROVE  <<path[i], after[i]>> = IF i = k + 1 THEN v ELSE w[i]
        <5>1. CASE i = k + 1
          BY <4>1, <5>1 DEF p
        <5>2. CASE i # k + 1
          <6>1. i \in 1 .. k
            BY <5>2
          <6> QED
            BY <4>1, <5>2, <6>1
        <5> QED
          BY <5>1, <5>2
      <4> QED
        BY <4>2, <4>3
    <3> DEFINE all == [i \in 1 .. (k + 1) |-> <<path[i], after[i]>>]
    <3>5. ASSUME P \in Telling, step.kind \in {"yield", "exit"}
          PROVE  Leads(P, Start(P), all, step.to)
      <4>1. l = Label(step, 0)
        BY <2>3, <3>5, LabelTells DEF l, step, RacersOf
      <4>2. v[1] = p /\ v[2] = l
        OBVIOUS
      <4> HIDE DEF v
      <4>3. Moves(P, c, v, step.to)
        BY <2>3, <3>5, <4>1, <4>2 DEF Moves, step, RacersOf
      <4>4. Leads(P, Start(P), w, c)
        BY <3>1, <3>5
      <4> HIDE DEF w, all
      <4>5. Leads(P, Start(P), Append(w, v), step.to)
        BY <3>2, <3>3, <4>3, <4>4, LeadsAppend
      <4> QED
        BY <3>4, <4>5 DEF all, v
    <3>6. next.kind = "NotExited" => Through(P, path, next, k + 1)
      <4>1. after \in Seq(LabelsOf(P)) /\ Len(after) = k + 1
        BY <3>1, <3>2
      <4> HIDE DEF after, next
      <4> QED
        BY <3>2, <3>5, <4>1 DEF Through
    <3> HIDE DEF next
    <3>7. h[k + 1] = next
      BY <2>3 DEF next
    <3> QED
      BY <3>2, <3>6, <3>7
  <2> QED
    BY <2>4, <2>5
<1> HIDE DEF S
<1>5. N \in S
  BY <1>2, <1>3, <1>4, SetInduction
<1> QED
  BY <1>1, <1>2, <1>5 DEF S

\* What leads somewhere can be executed, and ends there.
LEMMA LeadsFollowed ==
    ASSUME NEW P \in Telling, NEW V, NEW w \in Seq(V), NEW c,
           Leads(P, Start(P), w, c), NEW path, path = [i \in DOMAIN w |-> w[i][1]]
    PROVE  /\ path \in Seq(RacersOf(P))
           /\ FollowedIn(P, path).kind = "NotExited" /\ FollowedIn(P, path).conf = c
<1> DEFINE N == Len(w)
<1>1. N \in Nat /\ DOMAIN w = 1 .. N
  OBVIOUS
<1> HIDE DEF N
<1>2. PICK f : /\ f[0] = Start(P) /\ f[N] = c
               /\ \A i \in 0 .. N : f[i] \in Conf(P)
               /\ \A i \in 1 .. N : Moves(P, f[i - 1], w[i], f[i])
  BY DEF Leads, N
<1>3. path \in Seq(RacersOf(P)) /\ Len(path) = N /\ \A i \in 1 .. N : path[i] = w[i][1]
  <2>1. \A i \in 1 .. N : w[i][1] \in RacersOf(P)
    BY <1>2 DEF Moves, RacersOf
  <2> QED
    BY <1>1, <2>1
<1>4. P \in Programs
  BY TellingAssumption
<1>5. PICK h : IsRun(h, P, path) /\ FollowedIn(P, path) = h[N]
  BY <1>3, RunExists
<1> DEFINE Is(res, k) == \E labels \in Seq(LabelsOf(P)) :
              res = Going(f[k], labels, path)
           S == {k \in Nat : k <= N => Is(h[k], k)}
<1>6. 0 \in S
  <2>1. h[0] = Going(f[0], <<>>, path)
    BY <1>2, <1>5 DEF IsRun, Fresh, Going
  <2>2. <<>> \in Seq(LabelsOf(P))
    OBVIOUS
  <2> QED
    BY <2>1, <2>2
<1>7. ASSUME NEW k \in Nat, k \in S PROVE k + 1 \in S
  <2> SUFFICES ASSUME k + 1 <= N PROVE Is(h[k + 1], k + 1)
    OBVIOUS
  <2>1. k + 1 \in 1 .. N /\ k \in 0 .. N /\ (k + 1) - 1 = k
    BY <1>1
  <2>2. PICK labels \in Seq(LabelsOf(P)) :
          h[k] = Going(f[k], labels, path)
    BY <1>1, <1>7
  <2> DEFINE p == path[k + 1]
             d == f[k]
             res == h[k]
             step == Step(P, d, p)
             l == Label(step, Len(labels) + 1)
             next == ResumeIn(P, res, p)
  <2>3. h[k + 1] = next /\ p \in RacersOf(P) /\ d \in Conf(P)
    <3>1. h[k + 1] = ResumeIn(P, h[(k + 1) - 1], path[k + 1])
      BY <1>3, <1>5, <2>1 DEF IsRun
    <3>2. path[k + 1] \in RacersOf(P) /\ f[k] \in Conf(P)
      BY <1>2, <1>3, <2>1
    <3> QED
      BY <2>1, <3>1, <3>2
  <2>4. step.kind \in {"yield", "exit"} /\ f[k + 1] = step.to
    BY <1>2, <1>3, <2>1 DEF Moves
  <2>5. /\ next.kind = "NotExited" <=> step.kind \in {"yield", "exit"}
        /\ next.kind = "NotExited" => next = Going(step.to, Append(labels, l), path)
        /\ l \in LabelsOf(P)
    <3>1. res = Going(d, labels, path)
      BY <2>2
    <3> HIDE DEF res, d, p
    <3> QED
      BY <1>4, <2>3, <3>1, ResumeIs
  <2> HIDE DEF l, step, next
  <2>6. Append(labels, l) \in Seq(LabelsOf(P))
    BY <2>5
  <2> QED
    BY <2>3, <2>4, <2>5, <2>6
<1> HIDE DEF S
<1>8. N \in S
  BY <1>1, <1>6, <1>7, SetInduction
<1>9. Is(h[N], N)
  <2> HIDE DEF Is
  <2> QED
    BY <1>1, <1>8 DEF S
<1> QED
  BY <1>2, <1>3, <1>5, <1>9 DEF Going

\* The normal form of a path that was followed is a path of racers.
LEMMA NormPathType ==
    ASSUME NEW P \in Programs, NEW path \in Seq(RacersOf(P)), path # <<>>,
           FollowedIn(P, path).kind = "NotExited"
    PROVE  LET norm == NormPath(path, FollowedIn(P, path).labels)
           IN norm \in Seq(RacersOf(P)) /\ norm # <<>>
<1> DEFINE res == FollowedIn(P, path)
           items == Items(path, res.labels)
           walk == Norm(items)
<1>1. Through(P, path, res, Len(path))
  BY FollowedTells
<1>2. res.labels \in Seq(LabelsOf(P)) /\ Len(res.labels) = Len(path)
  BY <1>1 DEF Through, Going
<1> HIDE DEF res
<1>3. items \in Seq(ItemsOf(P)) /\ items # <<>>
  BY <1>2 DEF Items, ItemsOf
<1> HIDE DEF items
<1>4. walk \in Seq(ItemsOf(P)) /\ walk # <<>>
  BY <1>3, NormKeepsItems
<1> HIDE DEF walk
<1>5. \A i \in DOMAIN walk : walk[i][1] \in RacersOf(P)
  BY <1>4 DEF ItemsOf
<1> DEFINE norm == [i \in DOMAIN walk |-> walk[i][1]]
<1>6. norm \in Seq(RacersOf(P)) /\ norm # <<>>
  BY <1>4, <1>5
<1>7. NormPath(path, res.labels) = norm
  BY DEF NormPath, walk, items
<1> QED
  BY <1>6, <1>7 DEF res

\* On a telling program it can be followed, to where the path has led.
LEMMA NormPathFollowed ==
    ASSUME NEW P \in Telling, NEW path \in Seq(RacersOf(P)), path # <<>>,
           FollowedIn(P, path).kind = "NotExited"
    PROVE  LET again == FollowedIn(P, NormPath(path, FollowedIn(P, path).labels))
           IN again.kind = "NotExited" /\ again.conf = FollowedIn(P, path).conf
<1> DEFINE res == FollowedIn(P, path)
           items == Items(path, res.labels)
           walk == Norm(items)
           norm == [i \in DOMAIN walk |-> walk[i][1]]
<1>0. P \in Programs
  BY TellingAssumption
<1>1. Through(P, path, res, Len(path))
  BY <1>0, FollowedTells
<1>2. PICK c \in Conf(P), labels \in Seq(LabelsOf(P)) :
        /\ res = Going(c, labels, path)
        /\ Len(labels) = Len(path)
        /\ Leads(P, Start(P), [i \in 1 .. Len(path) |-> <<path[i], labels[i]>>], c)
  BY <1>1 DEF Through
<1> HIDE DEF res
<1>3. items = [i \in 1 .. Len(path) |-> <<path[i], labels[i]>>]
  <2>1. DOMAIN path = 1 .. Len(path) /\ res.labels = labels
    BY <1>2 DEF Going
  <2> QED
    BY <2>1 DEF Items
<1>4. items \in Seq(ItemsOf(P))
  BY <1>2, <1>3 DEF ItemsOf
<1> HIDE DEF items
<1>5. Leads(P, Start(P), items, c)
  BY <1>2, <1>3
<1>6. Leads(P, Start(P), walk, c)
  <2>1. Pairs(ItemsOf(P))
    BY DEF Pairs, ItemsOf
  <2> QED
    BY <1>4, <1>5, <2>1, NormLeads
<1>7. walk \in Seq(ItemsOf(P))
  <2>1. items # <<>>
    BY <1>3
  <2> QED
    BY <1>4, <2>1, NormKeepsItems
<1> HIDE DEF walk
<1>8. FollowedIn(P, norm).kind = "NotExited" /\ FollowedIn(P, norm).conf = c
  BY <1>6, <1>7, LeadsFollowed
<1>9. NormPath(path, res.labels) = norm
  BY DEF NormPath, walk, items
<1>10. res.conf = c
  BY <1>2 DEF Going
<1> QED
  BY <1>8, <1>9, <1>10 DEF res
-----------------------------------------------------------------------------
(* Queues that hold nothing twice.                                         *)

Distinct(s) == \A i, j \in DOMAIN s : s[i] = s[j] => i = j

LEMMA DistinctAppend ==
    ASSUME NEW X, NEW s \in Seq(X), NEW x \in X, Distinct(s), x \notin Range(s)
    PROVE  Distinct(Append(s, x))
<1> DEFINE n == Len(s)
           a == Append(s, x)
<1>1. /\ n \in Nat /\ DOMAIN s = 1 .. n /\ DOMAIN a = 1 .. (n + 1) /\ a[n + 1] = x
      /\ \A i \in 1 .. n : a[i] = s[i]
  OBVIOUS
<1>2. \A i \in 1 .. n : s[i] # x
  BY <1>1 DEF Range
<1>3. \A i, j \in 1 .. n : s[i] = s[j] => i = j
  BY <1>1 DEF Distinct
<1> HIDE DEF n, a
<1>4. \A i, j \in 1 .. (n + 1) : a[i] = a[j] => i = j
  <2> TAKE i, j \in 1 .. (n + 1)
  <2>1. (i \in 1 .. n \/ i = n + 1) /\ (j \in 1 .. n \/ j = n + 1)
    BY <1>1
  <2> QED
    BY <1>1, <1>2, <1>3, <2>1
<1> QED
  BY <1>1, <1>4 DEF Distinct, a

LEMMA DistinctConcat ==
    ASSUME NEW X, NEW s \in Seq(X), NEW t \in Seq(X), Distinct(s), Distinct(t),
           Range(s) \cap Range(t) = {}
    PROVE  Distinct(s \o t)
<1> DEFINE m == Len(s)
           n == Len(t)
           a == s \o t
<1>1. /\ m \in Nat /\ n \in Nat /\ DOMAIN s = 1 .. m /\ DOMAIN t = 1 .. n
      /\ DOMAIN a = 1 .. (m + n)
      /\ \A i \in 1 .. m : a[i] = s[i]
      /\ \A i \in 1 .. (m + n) : i > m => a[i] = t[i - m]
  OBVIOUS
<1>2. \A i \in 1 .. m, j \in 1 .. n : s[i] # t[j]
  BY <1>1 DEF Range
<1>3. /\ \A i, j \in 1 .. m : s[i] = s[j] => i = j
      /\ \A i, j \in 1 .. n : t[i] = t[j] => i = j
  BY <1>1 DEF Distinct
<1> HIDE DEF m, n, a
<1>4. \A i, j \in 1 .. (m + n) : a[i] = a[j] => i = j
  <2> TAKE i, j \in 1 .. (m + n)
  <2>1. CASE i <= m /\ j <= m
    <3>1. i \in 1 .. m /\ j \in 1 .. m
      BY <1>1, <2>1
    <3> QED
      BY <1>1, <1>3, <3>1
  <2>2. CASE i > m /\ j > m
    <3>1. i - m \in 1 .. n /\ j - m \in 1 .. n /\ (i - m = j - m => i = j)
      BY <1>1, <2>2
    <3>2. a[i] = t[i - m] /\ a[j] = t[j - m]
      BY <1>1, <2>2
    <3> QED
      BY <1>3, <3>1, <3>2
  <2>3. CASE i <= m /\ j > m
    <3>1. i \in 1 .. m /\ j - m \in 1 .. n
      BY <1>1, <2>3
    <3>2. a[i] = s[i] /\ a[j] = t[j - m]
      BY <1>1, <2>3, <3>1
    <3> QED
      BY <1>2, <3>1, <3>2
  <2>4. CASE i > m /\ j <= m
    <3>1. j \in 1 .. m /\ i - m \in 1 .. n
      BY <1>1, <2>4
    <3>2. a[j] = s[j] /\ a[i] = t[i - m]
      BY <1>1, <2>4, <3>1
    <3> QED
      BY <1>2, <3>1, <3>2
  <2> QED
    BY <1>1, <2>1, <2>2, <2>3, <2>4
<1> QED
  BY <1>1, <1>4 DEF Distinct, a

LEMMA DistinctReverse ==
    ASSUME NEW X, NEW s \in Seq(X), Distinct(s)
    PROVE  Reverse(s) \in Seq(X) /\ Range(Reverse(s)) = Range(s) /\ Distinct(Reverse(s))
<1> DEFINE n == Len(s)
           a == Reverse(s)
<1>1. n \in Nat /\ DOMAIN s = 1 .. n /\ \A i \in 1 .. n : s[i] \in X
  OBVIOUS
<1>2. a = [i \in 1 .. n |-> s[(n - i) + 1]]
  BY DEF Reverse
<1> HIDE DEF n, a
<1>3. \A i \in 1 .. n : (n - i) + 1 \in 1 .. n /\ (n - ((n - i) + 1)) + 1 = i
  BY <1>1
<1>4. DOMAIN a = 1 .. n /\ \A i \in 1 .. n : a[i] = s[(n - i) + 1]
  BY <1>2
<1>5. a \in Seq(X)
  <2>1. \A i \in 1 .. n : s[(n - i) + 1] \in X
    BY <1>1, <1>3
  <2> QED
    BY <1>1, <1>2, <2>1
<1>6. Range(a) = Range(s)
  <2>1. \A i \in 1 .. n : a[i] \in Range(s)
    BY <1>1, <1>3, <1>4 DEF Range
  <2>2. ASSUME NEW i \in 1 .. n PROVE s[i] \in Range(a)
    <3>1. a[(n - i) + 1] = s[i]
      BY <1>3, <1>4
    <3> QED
      BY <1>3, <1>4, <3>1 DEF Range
  <2>3. Range(a) = {a[i] : i \in 1 .. n} /\ Range(s) = {s[i] : i \in 1 .. n}
    BY <1>1, <1>4 DEF Range
  <2> QED
    BY <2>1, <2>2, <2>3
<1>7. ASSUME NEW i \in 1 .. n, NEW j \in 1 .. n, a[i] = a[j] PROVE i = j
  <2>1. (n - i) + 1 = (n - j) + 1
    BY <1>1, <1>3, <1>4, <1>7 DEF Distinct
  <2> QED
    BY <1>1, <2>1
<1> QED
  BY <1>4, <1>5, <1>6, <1>7 DEF Distinct, a

LEMMA DistinctTail ==
    ASSUME NEW X, NEW s \in Seq(X), s # <<>>, Distinct(s)
    PROVE  Distinct(Tail(s)) /\ Head(s) \notin Range(Tail(s))
<1> DEFINE n == Len(s)
           t == Tail(s)
<1>1. /\ n \in Nat /\ n >= 1 /\ DOMAIN s = 1 .. n /\ DOMAIN t = 1 .. (n - 1)
      /\ Head(s) = s[1] /\ \A i \in 1 .. (n - 1) : t[i] = s[i + 1]
  OBVIOUS
<1> HIDE DEF n, t
<1>2. \A i \in 1 .. (n - 1) : i + 1 \in 1 .. n /\ i + 1 # 1
  BY <1>1
<1>3. ASSUME NEW i \in 1 .. (n - 1), NEW j \in 1 .. (n - 1), t[i] = t[j] PROVE i = j
  <2>1. i + 1 = j + 1
    BY <1>1, <1>2, <1>3 DEF Distinct
  <2> QED
    BY <1>1, <2>1
<1>4. ASSUME NEW i \in 1 .. (n - 1), t[i] = Head(s) PROVE FALSE
  <2>1. 1 \in 1 .. n /\ i + 1 \in 1 .. n /\ s[i + 1] = s[1]
    BY <1>1, <1>2, <1>4
  <2> QED
    BY <1>1, <1>2, <2>1 DEF Distinct
<1>5. Range(t) = {t[i] : i \in 1 .. (n - 1)}
  BY <1>1 DEF Range
<1> QED
  BY <1>1, <1>3, <1>4, <1>5 DEF Distinct, t

LEMMA DistinctCardinality ==
    ASSUME NEW X, NEW s \in Seq(X), Distinct(s)
    PROVE  Cardinality(Range(s)) = Len(s)
<1>1. Len(s) \in Nat /\ DOMAIN s = 1 .. Len(s) /\ s \in [1 .. Len(s) -> X]
  OBVIOUS
<1>2. s \in [1 .. Len(s) -> Range(s)]
  BY <1>1 DEF Range
<1>3. s \in Bijection(1 .. Len(s), Range(s))
  <2>1. \A i, j \in 1 .. Len(s) : s[i] = s[j] => i = j
    BY <1>1 DEF Distinct
  <2>2. \A y \in Range(s) : \E i \in 1 .. Len(s) : s[i] = y
    BY <1>1 DEF Range
  <2> QED
    BY <1>1, <1>2, <2>1, <2>2 DEF Bijection, Injection, Surjection, IsInjective
<1>4. ExistsBijection(1 .. Len(s), Range(s))
  BY <1>3 DEF ExistsBijection
<1>5. IsFiniteSet(1 .. Len(s)) /\ Cardinality(1 .. Len(s)) = Len(s)
  BY <1>1, FS_Interval
<1> QED
  BY <1>4, <1>5, FS_Bijection

LEMMA QueuedIs ==
    ASSUME NEW X, NEW new \in Seq(X), NEW rest \in Seq(X), Distinct(new), Distinct(rest),
           Range(new) \cap Range(rest) = {}
    PROVE  /\ Queued(new, rest) \in Seq(X) /\ Distinct(Queued(new, rest))
           /\ Range(Queued(new, rest)) = Range(new) \cup Range(rest)
<1> DEFINE back == Reverse(new)
<1>1. back \in Seq(X) /\ Range(back) = Range(new) /\ Distinct(back)
  BY DistinctReverse
<1> HIDE DEF back
<1>2. /\ back \o rest \in Seq(X) /\ Distinct(back \o rest)
      /\ Range(back \o rest) = Range(new) \cup Range(rest)
  <2>1. Distinct(back \o rest)
    BY <1>1, DistinctConcat
  <2>2. Range(back \o rest) = Range(back) \cup Range(rest)
    BY <1>1, ConcatEnds
  <2> QED
    BY <1>1, <2>1, <2>2
<1>3. /\ rest \o new \in Seq(X) /\ Distinct(rest \o new)
      /\ Range(rest \o new) = Range(new) \cup Range(rest)
  <2>1. Distinct(rest \o new)
    BY DistinctConcat
  <2>2. Range(rest \o new) = Range(rest) \cup Range(new)
    BY ConcatEnds
  <2> QED
    BY <2>1, <2>2
<1> QED
  BY <1>2, <1>3 DEF Queued, back

\* _push_paths queues each path with one more step that is not visited, once.
LEMMA SubpathsAre ==
    ASSUME Count(prog) \in Nat, NEW path \in Seq(Racers)
    PROVE  /\ Subpaths(path) \in Seq(Seq(Racers)) /\ Distinct(Subpaths(path))
           /\ Range(Subpaths(path)) = {Append(path, p) : p \in Racers} \ visited
<1> DEFINE N == Count(prog)
           X == Seq(Racers)
           Sub(n) == Append(path, n - 1)
           Go(s, n) == IF Sub(n) \in visited THEN s ELSE Append(s, Sub(n))
           E(f) == [n \in 0 .. N |-> IF n = 0 THEN <<>> ELSE Go(f[n - 1], n)]
           Up(f, k) == f[0] = <<>> /\ \A n \in 1 .. k : f[n] = Go(f[n - 1], n)
           S == {k \in Nat : \E f : Up(f, k)}
<1>0. N \in Nat
  OBVIOUS
<1>a. Subpaths(path) = (CHOOSE h : h = E(h))[N]
  BY DEF Subpaths
<1>b. Racers = 0 .. (N - 1)
  BY DEF Racers
<1>c. \A n \in 1 .. N : Sub(n) \in X
  BY <1>0, <1>b
<1> HIDE DEF N, Go
<1>1. 0 \in S
  <2>1. Up([n \in {0} |-> <<>>], 0)
    OBVIOUS
  <2> QED
    BY <2>1
<1>2. ASSUME NEW k \in Nat, k \in S PROVE k + 1 \in S
  <2>1. PICK f : Up(f, k)
    BY <1>2
  <2> DEFINE g == [n \in 0 .. (k + 1) |-> IF n = k + 1 THEN Go(f[k], k + 1) ELSE f[n]]
  <2>2. Up(g, k + 1)
    <3>1. g[0] = <<>>
      BY <2>1
    <3>2. ASSUME NEW n \in 1 .. (k + 1) PROVE g[n] = Go(g[n - 1], n)
      <4>1. g[n - 1] = f[n - 1]
        OBVIOUS
      <4>2. CASE n = k + 1
        <5>1. g[k + 1] = Go(f[k], k + 1) /\ n - 1 = k
          BY <4>2
        <5> QED
          BY <4>1, <4>2, <5>1
      <4>3. CASE n # k + 1
        <5>1. n \in 1 .. k /\ g[n] = f[n]
          BY <4>3
        <5> QED
          BY <2>1, <4>1, <5>1
      <4> QED
        BY <4>2, <4>3
    <3> HIDE DEF g
    <3> QED
      BY <3>1, <3>2
  <2> HIDE DEF g
  <2> QED
    BY <2>2
<1> HIDE DEF S
<1>3. N \in S
  BY <1>0, <1>1, <1>2, SetInduction
<1>4. PICK f : Up(f, N)
  BY <1>3 DEF S
<1>5. \E h : h = E(h)
  <2> DEFINE h == [n \in 0 .. N |-> f[n]]
  <2>1. h = E(h)
    <3>1. ASSUME NEW n \in 0 .. N
          PROVE  h[n] = IF n = 0 THEN <<>> ELSE Go(h[n - 1], n)
      <4>1. CASE n = 0
        BY <1>4, <4>1
      <4>2. CASE n # 0
        <5>1. n \in 1 .. N /\ h[n] = f[n] /\ h[n - 1] = f[n - 1]
          BY <1>0, <4>2
        <5> QED
          BY <1>4, <4>2, <5>1
      <4> QED
        BY <4>1, <4>2
    <3> QED
      BY <3>1
  <2> QED
    BY <2>1
<1>7. PICK h : h = (CHOOSE x : x = E(x)) /\ h = E(h)
  <2> HIDE DEF E
  <2> QED
    BY <1>5
<1>8. ASSUME NEW n \in 0 .. N
      PROVE  h[n] = IF n = 0 THEN <<>> ELSE Go(h[n - 1], n)
  <2>1. E(h)[n] = IF n = 0 THEN <<>> ELSE Go(h[n - 1], n)
    OBVIOUS
  <2> HIDE DEF E
  <2> QED
    BY <1>7, <2>1
<1>9. Subpaths(path) = h[N]
  <2> HIDE DEF E
  <2> QED
    BY <1>a, <1>7
<1> DEFINE R(k) == {Sub(i) : i \in 1 .. k} \ visited
           Is(s, k) == s \in Seq(X) /\ Distinct(s) /\ Range(s) = R(k)
           T == {k \in Nat : k <= N => Is(h[k], k)}
<1>10. 0 \in T
  <2>1. h[0] = <<>> /\ R(0) = {}
    BY <1>0, <1>8
  <2>2. <<>> \in Seq(X) /\ Distinct(<<>>) /\ Range(<<>>) = {}
    BY DEF Distinct, Range
  <2> QED
    BY <2>1, <2>2
<1>11. ASSUME NEW k \in Nat, k \in T PROVE k + 1 \in T
  <2> SUFFICES ASSUME k + 1 <= N PROVE Is(h[k + 1], k + 1)
    OBVIOUS
  <2>1. k + 1 \in 1 .. N /\ k + 1 \in 0 .. N /\ k + 1 # 0 /\ (k + 1) - 1 = k
    BY <1>0
  <2>2. Is(h[k], k)
    BY <1>0, <1>11
  <2>3. h[k + 1] = Go(h[k], k + 1)
    BY <1>8, <2>1
  <2> DEFINE x == Sub(k + 1)
             s == h[k]
  <2>4. R(k + 1) = R(k) \cup ({x} \ visited)
    <3>1. \A i \in 1 .. (k + 1) : i \in 1 .. k \/ i = k + 1
      OBVIOUS
    <3>2. k + 1 \in 1 .. (k + 1) /\ \A i \in 1 .. k : i \in 1 .. (k + 1)
      OBVIOUS
    <3> HIDE DEF Sub
    <3> QED
      BY <3>1, <3>2
  <2>5. x \in X
    BY <1>c, <2>1
  <2>6. ASSUME NEW i \in 1 .. k PROVE Sub(i) # x
    <3>1. i - 1 \in Racers /\ (k + 1) - 1 \in Racers
      BY <1>0, <1>b, <2>1
    <3>2. Last(Append(path, i - 1)) = i - 1 /\ Last(Append(path, (k + 1) - 1)) = (k + 1) - 1
      BY <3>1, AppendEnds
    <3>3. i - 1 # (k + 1) - 1
      OBVIOUS
    <3> QED
      BY <3>2, <3>3
  <2> HIDE DEF x, s, Sub
  <2>7. CASE x \in visited
    <3>1. h[k + 1] = h[k]
      BY <2>3, <2>7 DEF Go, x
    <3> HIDE DEF R
    <3>2. R(k + 1) = R(k)
      BY <2>4, <2>7
    <3> QED
      BY <2>2, <3>1, <3>2
  <2>8. CASE x \notin visited
    <3>1. h[k + 1] = Append(s, x)
      BY <2>3, <2>8 DEF Go, x, s
    <3>2. s \in Seq(X) /\ Distinct(s) /\ Range(s) = R(k)
      BY <2>2 DEF s
    <3>3. x \notin Range(s)
      BY <2>6, <3>2
    <3> HIDE DEF X, R
    <3>4. Append(s, x) \in Seq(X)
      BY <2>5, <3>2
    <3>5. Distinct(Append(s, x))
      BY <2>5, <3>2, <3>3, DistinctAppend
    <3>6. Range(Append(s, x)) = Range(s) \cup {x}
      BY <2>5, <3>2, AppendEnds
    <3> QED
      BY <2>4, <2>8, <3>1, <3>2, <3>4, <3>5, <3>6
  <2> QED
    BY <2>7, <2>8
<1>12. N \in T
  <2> HIDE DEF T
  <2> QED
    BY <1>0, <1>10, <1>11, SetInduction
<1>13. R(N) = {Append(path, p) : p \in Racers} \ visited
  <2>1. \A i \in 1 .. N : i - 1 \in Racers
    BY <1>0, <1>b
  <2>2. \A p \in Racers : p + 1 \in 1 .. N /\ (p + 1) - 1 = p
    BY <1>0, <1>b
  <2>3. \A p \in Racers : Append(path, p) = Sub(p + 1)
    BY <2>2
  <2> QED
    BY <2>1, <2>2, <2>3
<1>14. Is(h[N], N)
  <2> HIDE DEF Is
  <2> QED
    BY <1>0, <1>12
<1> QED
  BY <1>9, <1>13, <1>14
-----------------------------------------------------------------------------
(* The inductive invariant.                                                *)

\* What Execute returns, and what Followed has returned then.
LEMMA ExecuteTells ==
    ASSUME NEW P \in Programs, NEW path \in Seq(RacersOf(P))
    PROVE  LET res == ExecuteIn(P, path)
               followed == FollowedIn(P, path)
           IN /\ res.kind \in {"Returned", "NotExited", "TooEarly", "Raised"}
              /\ res.path = path
              /\ res.kind \in {"Returned", "NotExited"} => Len(res.labels) = Len(path)
              /\ res.kind = "NotExited" =>
                    /\ res = followed /\ followed.kind = "NotExited"
                    /\ RunningIn(P, res.conf) # {}
              /\ followed.kind = "NotExited" /\ RunningIn(P, followed.conf) # {} =>
                    res = followed
<1> DEFINE followed == FollowedIn(P, path)
           res == ExecuteIn(P, path)
<1>1. /\ followed.kind \in {"NotExited", "TooEarly", "Raised"} /\ followed.path = path
      /\ followed.kind = "NotExited" => Through(P, path, followed, Len(path))
  BY FollowedTells
<1>2. res = IF followed.kind = "NotExited" /\ RunningIn(P, followed.conf) = {}
            THEN [followed EXCEPT !.kind = "Returned"] ELSE followed
  BY DEF ExecuteIn
<1> HIDE DEF followed, res
<1>3. CASE followed.kind = "NotExited"
  <2>1. PICK c, labels :
          followed = [kind |-> "NotExited", conf |-> c, labels |-> labels, path |-> path]
          /\ Len(labels) = Len(path)
    BY <1>1, <1>3 DEF Through, Going
  <2>2. CASE RunningIn(P, followed.conf) = {}
    <3>1. res = [followed EXCEPT !.kind = "Returned"]
      BY <1>2, <1>3, <2>2
    <3>2. res.kind = "Returned" /\ res.path = path /\ res.labels = labels
      BY <2>1, <3>1
    <3> QED
      BY <2>1, <2>2, <3>2 DEF followed, res
  <2>3. CASE RunningIn(P, followed.conf) # {}
    <3>1. res = followed
      BY <1>2, <2>3
    <3>2. res.kind = "NotExited" /\ res.path = path /\ res.labels = labels
      BY <2>1, <3>1
    <3> QED
      BY <1>3, <2>1, <2>3, <3>1, <3>2 DEF followed, res
  <2> QED
    BY <2>2, <2>3
<1>4. CASE followed.kind # "NotExited"
  <2>1. res = followed
    BY <1>2, <1>4
  <2>2. res.kind \in {"TooEarly", "Raised"} /\ res.path = path
    BY <1>1, <1>4, <2>1
  <2> QED
    BY <1>4, <2>1, <2>2 DEF followed, res
<1> QED
  BY <1>3, <1>4

\* The queue holds no path twice, and what next() returned is what the path it
\* has taken from the queue gives.
QueueInv ==
    /\ prog \in Programs /\ depth_first \in BOOLEAN
    /\ visited \subseteq Seq(RacersOf(prog)) \ {<<>>}
    /\ queue \in Seq(visited) /\ Distinct(queue)
    /\ result # NoResult =>
          /\ result.path \in visited \ Range(queue)
          /\ result = ExecuteIn(prog, result.path)

\* The normal form of a path that was executed and left a racer running has been
\* gone on from by every racer.
Expanded ==
    /\ \A p \in RacersOf(prog) : <<p>> \in visited
    /\ \A path \in visited \ Range(queue) :
          LET res == ExecuteIn(prog, path)
          IN res.kind = "NotExited" =>
                \A p \in RacersOf(prog) : Append(NormPath(path, res.labels), p) \in visited

IInv == QueueInv /\ Expanded

LEMMA SeqWithin ==
    ASSUME NEW X, NEW s \in Seq(X), NEW Y, Range(s) \subseteq Y
    PROVE  s \in Seq(Y)
<1>1. s \in Seq(Range(s))
  BY SeqOfRange
<1> QED
  BY <1>1, SeqMonotonic

LEMMA InitInv == Init => IInv
<1> SUFFICES ASSUME Init PROVE IInv
  OBVIOUS
<1> DEFINE N == Count(prog)
           first == [i \in 1 .. N |-> <<i - 1>>]
<1>1. /\ prog \in Programs /\ depth_first \in BOOLEAN /\ result = NoResult
      /\ visited = {<<p>> : p \in RacersOf(prog)} /\ queue = Queued(first, <<>>)
  BY DEF Init, Racers, RacersOf
<1>2. N \in Nat /\ RacersOf(prog) = 0 .. (N - 1)
  BY <1>1, ProgramsAssumption DEF RacersOf
<1> HIDE DEF N
<1>3. first \in Seq(visited) /\ Distinct(first) /\ Range(first) = visited
  <2>1. /\ \A i \in 1 .. N : i - 1 \in RacersOf(prog)
        /\ \A p \in RacersOf(prog) : p + 1 \in 1 .. N /\ (p + 1) - 1 = p
    BY <1>2
  <2>2. \A i \in 1 .. N : first[i] \in visited
    BY <1>1, <2>1
  <2>3. first \in Seq(visited) /\ DOMAIN first = 1 .. N
    BY <1>2, <2>2
  <2>4. ASSUME NEW i \in 1 .. N, NEW j \in 1 .. N, first[i] = first[j] PROVE i = j
    <3>1. <<i - 1>>[1] = <<j - 1>>[1]
      BY <2>4
    <3> QED
      BY <1>2, <3>1
  <2>5. ASSUME NEW p \in RacersOf(prog) PROVE <<p>> \in Range(first)
    <3>1. first[p + 1] = <<p>> /\ p + 1 \in 1 .. N
      BY <2>1
    <3> QED
      BY <2>3, <3>1 DEF Range
  <2>6. Range(first) \subseteq visited
    BY <2>3, RangeOfSeq
  <2> QED
    BY <1>1, <2>3, <2>4, <2>5, <2>6 DEF Distinct
<1> HIDE DEF first
<1>4. queue \in Seq(visited) /\ Distinct(queue) /\ Range(queue) = visited
  <2>1. <<>> \in Seq(visited) /\ Distinct(<<>>) /\ Range(<<>>) = {}
    BY DEF Distinct, Range
  <2> DEFINE none == <<>>
  <2>2. none \in Seq(visited) /\ Distinct(none) /\ Range(none) = {} /\ queue = Queued(first, none)
    BY <1>1, <2>1
  <2> HIDE DEF none
  <2>3. Range(first) \cap Range(none) = {}
    BY <2>2
  <2>4. first \in Seq(visited) /\ Distinct(first) /\ none \in Seq(visited) /\ Distinct(none)
    BY <1>3, <2>2
  <2>5. /\ Queued(first, none) \in Seq(visited) /\ Distinct(Queued(first, none))
        /\ Range(Queued(first, none)) = Range(first) \cup Range(none)
    BY <2>3, <2>4, QueuedIs
  <2> QED
    BY <1>1, <1>3, <2>2, <2>5
<1>5. visited \subseteq Seq(RacersOf(prog)) \ {<<>>}
  <2>1. \A p \in RacersOf(prog) : <<p>> \in Seq(RacersOf(prog)) /\ <<p>> # <<>>
    OBVIOUS
  <2> QED
    BY <1>1, <2>1
<1> QED
  BY <1>1, <1>4, <1>5 DEF IInv, QueueInv, Expanded

LEMMA NextInv == IInv /\ Next => IInv'
<1> SUFFICES ASSUME IInv, Next PROVE IInv'
  OBVIOUS
<1> DEFINE path == Head(queue)
           rest == Tail(queue)
           res == ExecuteIn(prog, path)
<1>1. /\ prog \in Programs /\ depth_first \in BOOLEAN
      /\ visited \subseteq Seq(RacersOf(prog)) \ {<<>>}
      /\ queue \in Seq(visited) /\ Distinct(queue) /\ queue # <<>>
      /\ UNCHANGED <<prog, depth_first>>
  BY DEF IInv, QueueInv, Next
<1>2. Racers = RacersOf(prog) /\ Count(prog) \in Nat
  BY <1>1, ProgramsAssumption DEF Racers, RacersOf
<1>3. /\ path \in visited /\ rest \in Seq(visited)
      /\ Range(queue) = {path} \cup Range(rest)
  BY <1>1, TailIs
<1>4. Distinct(rest) /\ path \notin Range(rest) /\ Range(rest) \subseteq visited
  <2>1. Distinct(rest) /\ path \notin Range(rest)
    BY <1>1, DistinctTail
  <2> HIDE DEF rest, path
  <2> QED
    BY <1>3, <2>1, RangeOfSeq
<1>5. /\ result' = res
      /\ \/ /\ res.kind = "NotExited"
            /\ PushPaths(NormPath(res.path, res.labels), rest)
         \/ res.kind # "NotExited" /\ queue' = rest /\ UNCHANGED visited
  BY FollowedIs DEF Next, Rest
<1>6. path \in Seq(RacersOf(prog)) /\ path # <<>>
  BY <1>1, <1>3
<1>7. /\ res.kind \in {"Returned", "NotExited", "TooEarly", "Raised"} /\ res.path = path
      /\ res.kind = "NotExited" =>
            res = FollowedIn(prog, path) /\ FollowedIn(prog, path).kind = "NotExited"
  <2> HIDE DEF path
  <2> QED
    BY <1>1, <1>6, ExecuteTells
<1> DEFINE norm == NormPath(path, res.labels)
           Grown == {Append(norm, p) : p \in RacersOf(prog)}
<1> HIDE DEF path, rest, res
<1>8. /\ visited \subseteq visited' /\ visited' \subseteq Seq(RacersOf(prog)) \ {<<>>}
      /\ queue' \in Seq(visited') /\ Distinct(queue)'
      /\ visited' \ Range(queue)' = (visited \ Range(queue)) \cup {path}
      /\ res.kind = "NotExited" => Grown \subseteq visited'
  <2>1. CASE res.kind # "NotExited"
    <3>1. queue' = rest /\ visited' = visited
      BY <1>5, <2>1
    <3> QED
      BY <1>1, <1>3, <1>4, <2>1, <3>1 DEF Distinct, Range
  <2>2. CASE res.kind = "NotExited"
    <3> DEFINE new == Subpaths(norm)
    <3>1. norm \in Seq(RacersOf(prog))
      BY <1>1, <1>6, <1>7, <2>2, NormPathType
    <3>2. visited' = visited \cup Range(new) /\ queue' = Queued(new, rest)
      BY <1>5, <1>7, <2>2 DEF PushPaths
    <3> HIDE DEF norm
    <3>3. /\ new \in Seq(Seq(RacersOf(prog))) /\ Distinct(new)
          /\ Range(new) = Grown \ visited
      BY <1>2, <3>1, SubpathsAre
    <3> HIDE DEF new
    <3>4. \A p \in RacersOf(prog) :
             Append(norm, p) \in Seq(RacersOf(prog)) /\ Append(norm, p) # <<>>
      BY <3>1, AppendIs
    <3>5. visited' = visited \cup Grown /\ Grown \subseteq Seq(RacersOf(prog)) \ {<<>>}
      BY <3>2, <3>3, <3>4
    <3> DEFINE X == visited \cup Grown
    <3>6. new \in Seq(X) /\ rest \in Seq(X)
      <4>1. Range(new) \subseteq X /\ Range(rest) \subseteq X
        BY <1>4, <3>3
      <4> HIDE DEF X
      <4>2. new \in Seq(X)
        BY <3>3, <4>1, SeqWithin
      <4>3. rest \in Seq(X)
        BY <1>3, <4>1, SeqWithin
      <4> QED
        BY <4>2, <4>3
    <3>7. Range(new) \cap Range(rest) = {}
      BY <1>4, <3>3
    <3> DEFINE q == Queued(new, rest)
    <3>8. q \in Seq(X) /\ Distinct(q) /\ Range(q) = Range(new) \cup Range(rest)
      <4> HIDE DEF X
      <4> QED
        BY <1>4, <3>3, <3>6, <3>7, QueuedIs
    <3> HIDE DEF q, Grown
    <3>9. queue' = q
      BY <3>2 DEF q
    <3>10. Distinct(queue)' /\ Range(queue)' = Range(q)
      BY <3>8, <3>9 DEF Distinct, Range
    <3>11. visited' \ Range(q) = (visited \ Range(queue)) \cup {path}
      BY <1>3, <1>4, <3>3, <3>5, <3>8
    <3> QED
      BY <1>1, <3>5, <3>8, <3>9, <3>10, <3>11
  <2> QED
    BY <2>1, <2>2
<1>9. QueueInv'
  <2>1. result' = ExecuteIn(prog', path) /\ result'.path = path
    BY <1>1, <1>5, <1>7 DEF res
  <2>2. path \in visited' \ Range(queue)'
    BY <1>8
  <2> QED
    BY <1>1, <1>8, <2>1, <2>2 DEF QueueInv
<1>10. Expanded'
  <2>1. \A p \in RacersOf(prog') : <<p>> \in visited'
    BY <1>1, <1>8 DEF IInv, Expanded
  <2>2. ASSUME NEW q \in visited' \ Range(queue)', ExecuteIn(prog', q).kind = "NotExited"
        PROVE  \A p \in RacersOf(prog') :
                  Append(NormPath(q, ExecuteIn(prog', q).labels), p) \in visited'
    <3>1. CASE q = path
      <4>1. Grown \subseteq visited'
        BY <1>1, <1>8, <2>2, <3>1 DEF res
      <4> QED
        BY <1>1, <3>1, <4>1 DEF res
    <3>2. CASE q \in visited \ Range(queue)
      BY <1>1, <1>8, <2>2, <3>2 DEF IInv, Expanded
    <3> QED
      BY <1>8, <3>1, <3>2
  <2> QED
    BY <2>1, <2>2 DEF Expanded
<1> QED
  BY <1>9, <1>10 DEF IInv

LEMMA StepInv == IInv /\ [Next]_vars => IInv'
<1>1. IInv /\ UNCHANGED vars => IInv'
  <2> SUFFICES ASSUME IInv, UNCHANGED vars PROVE IInv'
    OBVIOUS
  <2>1. /\ prog' = prog /\ depth_first' = depth_first /\ visited' = visited
        /\ queue' = queue /\ result' = result
    BY DEF vars
  <2>2. Range(queue)' = Range(queue) /\ Distinct(queue)' = Distinct(queue)
    BY <2>1 DEF Range, Distinct
  <2> QED
    BY <2>1, <2>2 DEF IInv, QueueInv, Expanded
<1> QED
  BY <1>1, NextInv

LEMMA SearchInv == Spec => []IInv
BY InitInv, StepInv, PTL DEF Spec

\* TypeOK, whatever the programs do: no path is queued twice or again once it was
\* executed, and what next() returns is about a path no longer queued.
THEOREM TypeCorrect == Spec => []TypeOK
<1>1. IInv => TypeOK
  <2> SUFFICES ASSUME IInv PROVE TypeOK
    OBVIOUS
  <2>1. /\ prog \in Programs /\ depth_first \in BOOLEAN
        /\ visited \subseteq Seq(RacersOf(prog)) \ {<<>>}
        /\ queue \in Seq(visited) /\ Distinct(queue)
        /\ result # NoResult => /\ result.path \in visited \ Range(queue)
                                /\ result = ExecuteIn(prog, result.path)
    BY DEF IInv, QueueInv
  <2>2. Racers = RacersOf(prog)
    BY DEF Racers, RacersOf
  <2>3. Range(queue) \subseteq visited
    BY <2>1, RangeOfSeq
  <2>4. Cardinality(Range(queue)) = Len(queue)
    BY <2>1, DistinctCardinality
  <2>5. ASSUME result # NoResult
        PROVE  /\ result.kind \in {"Returned", "NotExited", "TooEarly", "Raised"}
               /\ result.path \in visited /\ result.path \notin Range(queue)
               /\ result.kind \in {"Returned", "NotExited"} =>
                      Len(result.labels) = Len(result.path)
    <3> DEFINE path == result.path
    <3>1. result = ExecuteIn(prog, path) /\ path \in visited \ Range(queue)
      BY <2>1, <2>5
    <3>2. path \in Seq(RacersOf(prog))
      BY <2>1, <3>1
    <3> HIDE DEF path
    <3>3. /\ result.kind \in {"Returned", "NotExited", "TooEarly", "Raised"}
          /\ result.kind \in {"Returned", "NotExited"} => Len(result.labels) = Len(path)
      BY <2>1, <3>1, <3>2, ExecuteTells
    <3> QED
      BY <3>1, <3>3 DEF path
  <2> QED
    BY <2>1, <2>2, <2>3, <2>4, <2>5 DEF TypeOK
<1> QED
  BY <1>1, SearchInv, PTL

\* CyclesOnly: on every program whose labels tell its data, norm_path takes
\* nothing from a path that matters; a fresh instance is led by what is left to
\* the very configuration the path has led to.
THEOREM CyclesOnlyAlways == Spec => []CyclesOnly
<1>1. IInv => CyclesOnly
  <2> SUFFICES ASSUME IInv, result # NoResult, result.kind = "NotExited", prog \in Telling
               PROVE  LET again == Execute(NormPath(result.path, result.labels))
                      IN again.kind = "NotExited" /\ again.conf = result.conf
    BY DEF CyclesOnly
  <2> DEFINE path == result.path
             norm == NormPath(path, result.labels)
  <2>1. /\ prog \in Programs /\ path \in visited /\ result = ExecuteIn(prog, path)
        /\ visited \subseteq Seq(RacersOf(prog)) \ {<<>>}
    BY DEF IInv, QueueInv
  <2>2. path \in Seq(RacersOf(prog)) /\ path # <<>>
    BY <2>1
  <2> HIDE DEF path
  <2>3. /\ result = FollowedIn(prog, path) /\ FollowedIn(prog, path).kind = "NotExited"
        /\ RunningIn(prog, result.conf) # {}
    BY <2>1, <2>2, ExecuteTells
  <2>4. FollowedIn(prog, norm).kind = "NotExited" /\ FollowedIn(prog, norm).conf = result.conf
    BY <2>2, <2>3, NormPathFollowed
  <2>5. norm \in Seq(RacersOf(prog))
    BY <2>1, <2>2, <2>3, NormPathType
  <2> HIDE DEF norm
  <2>6. ExecuteIn(prog, norm) = FollowedIn(prog, norm)
    BY <2>1, <2>3, <2>4, <2>5, ExecuteTells
  <2>7. Execute(norm) = ExecuteIn(prog, norm)
    BY FollowedIs
  <2> QED
    BY <2>4, <2>6, <2>7 DEF norm, path
<1> QED
  BY <1>1, SearchInv, PTL

-----------------------------------------------------------------------------
(* Completeness.                                                           *)

LEMMA FrontIs ==
    ASSUME NEW V, NEW s \in Seq(V), NEW x \in V
    PROVE  Front(Append(s, x)) = s
<1> DEFINE a == Append(s, x)
           n == Len(s)
<1>1. /\ n \in Nat /\ a \in Seq(V) /\ Len(a) = n + 1 /\ DOMAIN s = 1 .. n
      /\ \A i \in 1 .. n : a[i] = s[i]
  OBVIOUS
<1> HIDE DEF a, n
<1>2. Front(a) = SubSeq(a, 1, n)
  <2>1. Len(a) - 1 = n
    BY <1>1
  <2> QED
    BY <2>1 DEF Front
<1>3. SubSeq(a, 1, n) = [i \in 1 .. n |-> a[i]]
  <2>1. SubSeq(a, 1, n) = [i \in 1 .. ((1 + n) - 1) |-> a[(i + 1) - 1]]
    BY <1>1
  <2>2. (1 + n) - 1 = n /\ \A i \in 1 .. n : (i + 1) - 1 = i
    BY <1>1
  <2> QED
    BY <2>1, <2>2
<1>4. s = [i \in 1 .. n |-> s[i]]
  BY <1>1
<1>5. [i \in 1 .. n |-> a[i]] = [i \in 1 .. n |-> s[i]]
  BY <1>1
<1> QED
  BY <1>2, <1>3, <1>4, <1>5 DEF a

LEMMA FollowedEmpty ==
    ASSUME NEW P
    PROVE  FollowedIn(P, <<>>).kind = "NotExited" /\ FollowedIn(P, <<>>).conf = Start(P)
<1>1. <<>> \in Seq({}) /\ Len(<<>>) = 0
  OBVIOUS
<1> DEFINE none == <<>>
<1>2. none \in Seq({}) /\ Len(none) = 0
  BY <1>1
<1> HIDE DEF none
<1>3. PICK h : IsRun(h, P, none) /\ FollowedIn(P, none) = h[Len(none)]
  BY <1>2, RunExists
<1>4. FollowedIn(P, none) = Fresh(P, none)
  BY <1>2, <1>3 DEF IsRun
<1> QED
  BY <1>4 DEF Fresh, none

\* Racer p has been run in configuration c, with the program as a parameter.
ExecutedIn(P, paths, c, p) ==
    \E path \in paths :
        /\ Last(path) = p
        /\ FollowedIn(P, Front(path)).kind = "NotExited"
        /\ FollowedIn(P, Front(path)).conf = c

LEMMA IsExecutedIs ==
    ASSUME NEW c, NEW p
    PROVE  IsExecuted(c, p) <=> ExecutedIn(prog, visited, c, p)
<1>1. \A path : Followed(Front(path)) = FollowedIn(prog, Front(path))
  BY FollowedIs
<1> QED
  BY <1>1 DEF IsExecuted, ExecutedIn

\* EveryStepExecuted, on every program whose labels tell its data: whatever
\* norm_path removes, and whatever is taken for visited, no racer is left out in
\* a configuration that a path of the search has led to.
THEOREM EveryStepExecutedAlways == Spec => [](prog \in Telling => EveryStepExecuted)
<1>1. IInv => (prog \in Telling => EveryStepExecuted)
  <2> SUFFICES ASSUME IInv, prog \in Telling, queue = <<>>
               PROVE  /\ \A p \in Racers : IsExecuted(Start(prog), p)
                      /\ \A path \in visited :
                            LET res == Execute(path)
                            IN res.kind = "NotExited" =>
                                  \A p \in Running(res.conf) : IsExecuted(res.conf, p)
    BY DEF EveryStepExecuted
  <2>1. Racers = RacersOf(prog)
    BY DEF Racers, RacersOf
  <2>2. prog \in Programs /\ visited \subseteq Seq(RacersOf(prog)) \ {<<>>}
    BY DEF IInv, QueueInv
  <2>3. visited \ Range(queue) = visited
    BY DEF Range
  <2>4. ASSUME NEW p \in Racers PROVE IsExecuted(Start(prog), p)
    <3> DEFINE none == <<>>
    <3>1. none \in Seq(RacersOf(prog)) /\ Append(none, p) = <<p>>
      OBVIOUS
    <3>2. <<p>> \in visited
      BY <2>1 DEF IInv, Expanded
    <3> HIDE DEF none
    <3>a. p \in RacersOf(prog) /\ none \in Seq(RacersOf(prog))
      BY <2>1, <3>1
    <3>b. Last(Append(none, p)) = p
      BY <3>a, AppendEnds
    <3>3. Last(Append(none, p)) = p /\ Front(Append(none, p)) = none
      BY <3>a, <3>b, FrontIs
    <3>4. FollowedIn(prog, none).kind = "NotExited" /\ FollowedIn(prog, none).conf = Start(prog)
      BY FollowedEmpty DEF none
    <3>5. ExecutedIn(prog, visited, Start(prog), p)
      BY <3>1, <3>2, <3>3, <3>4 DEF ExecutedIn
    <3> QED
      BY <3>5, IsExecutedIs
  <2>5. ASSUME NEW path \in visited, Execute(path).kind = "NotExited",
               NEW p \in Running(Execute(path).conf)
        PROVE  IsExecuted(Execute(path).conf, p)
    <3> DEFINE res == ExecuteIn(prog, path)
               norm == NormPath(path, res.labels)
    <3>1. Execute(path) = res
      BY FollowedIs
    <3>2. path \in Seq(RacersOf(prog)) /\ path # <<>>
      BY <2>2
    <3>3. res = FollowedIn(prog, path) /\ FollowedIn(prog, path).kind = "NotExited"
      BY <2>2, <2>5, <3>1, <3>2, ExecuteTells
    <3>4. /\ FollowedIn(prog, norm).kind = "NotExited"
          /\ FollowedIn(prog, norm).conf = res.conf
      BY <3>2, <3>3, NormPathFollowed
    <3>5. norm \in Seq(RacersOf(prog))
      BY <2>2, <3>2, <3>3, NormPathType
    <3>6. p \in RacersOf(prog)
      BY <2>5 DEF Running, RunningIn, RacersOf
    <3>7. Append(norm, p) \in visited
      BY <2>3, <2>5, <3>1, <3>6 DEF IInv, Expanded
    <3> HIDE DEF norm, res
    <3>8. Last(Append(norm, p)) = p /\ Front(Append(norm, p)) = norm
      BY <3>5, <3>6, AppendEnds, FrontIs
    <3>9. ExecutedIn(prog, visited, res.conf, p)
      BY <3>4, <3>7, <3>8 DEF ExecutedIn
    <3> QED
      BY <3>1, <3>9, IsExecutedIs
  <2> QED
    BY <2>4, <2>5
<1> QED
  BY <1>1, SearchInv, PTL
\* A path followed one racer further: it was followed before, and the racer has
\* moved; and the other way around.
LEMMA FollowedOn ==
    ASSUME NEW P \in Telling, NEW path \in Seq(RacersOf(P)), NEW p \in RacersOf(P)
    PROVE  LET before == FollowedIn(P, path)
               after == FollowedIn(P, Append(path, p))
           IN /\ after.kind = "NotExited" =>
                    /\ before.kind = "NotExited"
                    /\ Step(P, before.conf, p).kind \in {"yield", "exit"}
              /\ before.kind = "NotExited" /\ Step(P, before.conf, p).kind \in {"yield", "exit"} =>
                    after.kind = "NotExited" /\ after.conf = Step(P, before.conf, p).to
<1> DEFINE N == Len(path)
           more == Append(path, p)
           before == FollowedIn(P, path)
           after == FollowedIn(P, more)
<1>0. P \in Programs
  BY TellingAssumption
<1>1. /\ N \in Nat /\ DOMAIN path = 1 .. N /\ more \in Seq(RacersOf(P)) /\ Len(more) = N + 1
      /\ more[N + 1] = p /\ \A i \in 1 .. N : more[i] = path[i]
  OBVIOUS
<1>4. path = [i \in 1 .. N |-> path[i]]
  OBVIOUS
<1>5. more = [i \in 1 .. (N + 1) |-> more[i]]
  <2> HIDE DEF more, N
  <2> QED
    BY <1>1
<1> HIDE DEF more, N, before, after
<1>2. ASSUME after.kind = "NotExited"
      PROVE  before.kind = "NotExited" /\ Step(P, before.conf, p).kind \in {"yield", "exit"}
  <2>1. Through(P, more, after, N + 1)
    BY <1>0, <1>1, <1>2, FollowedTells DEF after
  <2>2. PICK d \in Conf(P), labels \in Seq(LabelsOf(P)) :
          /\ Len(labels) = N + 1
          /\ Leads(P, Start(P), [i \in 1 .. (N + 1) |-> <<more[i], labels[i]>>], d)
    BY <2>1 DEF Through
  <2> DEFINE w == [i \in 1 .. N |-> <<path[i], labels[i]>>]
             v == <<p, labels[N + 1]>>
             all == [i \in 1 .. (N + 1) |-> <<more[i], labels[i]>>]
  <2>3. w \in Seq(ItemsOf(P)) /\ v \in ItemsOf(P)
    <3>1. \A i \in 1 .. N : path[i] \in RacersOf(P) /\ labels[i] \in LabelsOf(P)
      BY <1>1, <2>2
    <3>2. labels[N + 1] \in LabelsOf(P)
      BY <1>1, <2>2
    <3>3. \A i \in 1 .. N : <<path[i], labels[i]>> \in ItemsOf(P)
      BY <3>1 DEF ItemsOf
    <3>4. v \in ItemsOf(P)
      BY <3>2 DEF ItemsOf
    <3> HIDE DEF v
    <3>5. w \in Seq(ItemsOf(P))
      BY <1>1, <3>3
    <3> QED
      BY <3>4, <3>5
  <2>4. all = Append(w, v)
    <3>1. Append(w, v) = [i \in 1 .. (N + 1) |-> IF i = N + 1 THEN v ELSE w[i]]
      BY <1>1
    <3>2. ASSUME NEW i \in 1 .. (N + 1)
          PROVE  <<more[i], labels[i]>> = IF i = N + 1 THEN v ELSE w[i]
      <4>1. i = N + 1 \/ i \in 1 .. N
        BY <1>1
      <4> QED
        BY <1>1, <4>1
    <3> QED
      BY <3>1, <3>2
  <2>5. Leads(P, Start(P), all, d)
    BY <2>2
  <2>6. v[1] = p
    OBVIOUS
  <2>9. path = [i \in DOMAIN w |-> w[i][1]]
    <3>1. DOMAIN w = 1 .. N /\ \A i \in 1 .. N : w[i][1] = path[i]
      OBVIOUS
    <3> HIDE DEF w
    <3> QED
      BY <1>4, <3>1
  <2> HIDE DEF all, w, v
  <2>7. PICK c \in Conf(P) : Leads(P, Start(P), w, c) /\ Moves(P, c, v, d)
    <3>1. Leads(P, Start(P), Append(w, v), d)
      BY <2>4, <2>5
    <3> QED
      BY <2>3, <3>1, LeadsAppend
  <2>8. before.kind = "NotExited" /\ before.conf = c
    BY <2>3, <2>7, <2>9, LeadsFollowed DEF before
  <2> QED
    BY <2>6, <2>7, <2>8 DEF Moves
<1>3. ASSUME before.kind = "NotExited", Step(P, before.conf, p).kind \in {"yield", "exit"}
      PROVE  after.kind = "NotExited" /\ after.conf = Step(P, before.conf, p).to
  <2>1. Through(P, path, before, N)
    BY <1>0, <1>3, FollowedTells DEF before, N
  <2>2. PICK c \in Conf(P), labels \in Seq(LabelsOf(P)) :
          /\ before = Going(c, labels, path) /\ Len(labels) = N
          /\ Leads(P, Start(P), [i \in 1 .. N |-> <<path[i], labels[i]>>], c)
    BY <2>1 DEF Through
  <2>12. before.conf = c
    BY <2>2 DEF Going
  <2> DEFINE step == Step(P, c, p)
             l == Label(step, 0)
             w == [i \in 1 .. N |-> <<path[i], labels[i]>>]
             v == <<p, l>>
  <2>13. step.to \in Conf(P)
    BY <1>0, ProgramsAssumption DEF RacersOf
  <2>14. l \in LabelsOf(P)
    BY DEF LabelsOf
  <2>3. step.to \in Conf(P) /\ step.kind \in {"yield", "exit"} /\ l \in LabelsOf(P)
    BY <1>3, <2>12, <2>13, <2>14
  <2> HIDE DEF step, l
  <2>4. w \in Seq(ItemsOf(P)) /\ v \in ItemsOf(P)
    <3>1. \A i \in 1 .. N : path[i] \in RacersOf(P) /\ labels[i] \in LabelsOf(P)
      BY <1>1, <2>2
    <3>2. \A i \in 1 .. N : <<path[i], labels[i]>> \in ItemsOf(P)
      BY <3>1 DEF ItemsOf
    <3>3. v \in ItemsOf(P)
      BY <2>3 DEF ItemsOf
    <3> HIDE DEF v
    <3>4. w \in Seq(ItemsOf(P))
      BY <1>1, <3>2
    <3> QED
      BY <3>3, <3>4
  <2>5. v[1] = p /\ v[2] = l
    OBVIOUS
  <2>15. Len(w) = N /\ \A i \in 1 .. N : w[i][1] = path[i]
    BY <1>1
  <2> HIDE DEF v, w
  <2>6. /\ DOMAIN Append(w, v) = 1 .. (N + 1) /\ Append(w, v)[N + 1] = v
        /\ \A i \in 1 .. N : Append(w, v)[i] = w[i]
    BY <1>1, <2>4, <2>15
  <2> DEFINE firsts == [i \in DOMAIN Append(w, v) |-> Append(w, v)[i][1]]
  <2>7. firsts = more
    <3> DEFINE a == Append(w, v)
    <3>0. DOMAIN a = 1 .. (N + 1) /\ a[N + 1] = v /\ \A i \in 1 .. N : a[i] = w[i]
      BY <2>6
    <3> HIDE DEF a
    <3>1. ASSUME NEW i \in 1 .. (N + 1) PROVE a[i][1] = more[i]
      <4>1. i = N + 1 \/ i \in 1 .. N
        BY <1>1
      <4> QED
        BY <1>1, <2>5, <2>15, <3>0, <4>1
    <3>2. [i \in DOMAIN a |-> a[i][1]] = [i \in 1 .. (N + 1) |-> more[i]]
      BY <3>0, <3>1
    <3> QED
      BY <1>5, <3>2 DEF a
  <2>8. Moves(P, c, v, step.to)
    BY <2>3, <2>5 DEF Moves, step, l, RacersOf
  <2> DEFINE all == Append(w, v)
  <2>9. Leads(P, Start(P), all, step.to) /\ all \in Seq(ItemsOf(P))
    <3>1. Leads(P, Start(P), w, c)
      BY <2>2 DEF w
    <3>2. Leads(P, Start(P), Append(w, v), step.to)
      BY <2>3, <2>4, <2>8, <3>1, LeadsAppend
    <3> QED
      BY <2>4, <3>2
  <2>10. more = [i \in DOMAIN all |-> all[i][1]]
    BY <2>7
  <2> HIDE DEF all, w
  <2>11. after.kind = "NotExited" /\ after.conf = step.to
    BY <2>9, <2>10, LeadsFollowed DEF after
  <2> QED
    BY <2>11, <2>12 DEF step
<1> QED
  BY <1>2, <1>3 DEF before, after, more

\* What a search that has ended has done, of all the program can do: whatever
\* path of racers leads the program from its start to a configuration, of any
\* length and queued or not, each racer that runs there has been run there.
NoStepLeftOut ==
    queue = <<>> =>
        \A path \in Seq(Racers), p \in Racers :
            LET res == Followed(path)
            IN res.kind = "NotExited" /\ p \in Running(res.conf) => IsExecuted(res.conf, p)

\* On every program whose labels tell its data the older search is complete:
\* when it stops, no step that the program can ever take has been left out.
THEOREM SearchIsComplete == Spec => [](prog \in Telling => NoStepLeftOut)
<1>1. IInv /\ (prog \in Telling => EveryStepExecuted) => (prog \in Telling => NoStepLeftOut)
  <2> SUFFICES ASSUME IInv, prog \in Telling, EveryStepExecuted, queue = <<>>
               PROVE  \A path \in Seq(Racers), p \in Racers :
                         LET res == Followed(path)
                         IN res.kind = "NotExited" /\ p \in Running(res.conf) =>
                               IsExecuted(res.conf, p)
    BY DEF NoStepLeftOut
  <2> DEFINE Is(path) == LET res == FollowedIn(prog, path)
                         IN res.kind = "NotExited" =>
                               \A p \in RunningIn(prog, res.conf) :
                                  ExecutedIn(prog, visited, res.conf, p)
             S == {path \in Seq(RacersOf(prog)) : Is(path)}
  <2>1. Racers = RacersOf(prog) /\ \A c : RunningIn(prog, c) \subseteq RacersOf(prog)
    BY DEF Racers, RacersOf, RunningIn
  <2>2. prog \in Programs /\ visited \subseteq Seq(RacersOf(prog)) \ {<<>>}
    BY DEF IInv, QueueInv
  <2>3. \A p \in RacersOf(prog) : ExecutedIn(prog, visited, Start(prog), p)
    <3>1. \A p \in Racers : IsExecuted(Start(prog), p)
      BY DEF EveryStepExecuted
    <3> QED
      BY <2>1, <3>1, IsExecutedIs
  <2>4. ASSUME NEW path \in visited, ExecuteIn(prog, path).kind = "NotExited",
               NEW p \in RunningIn(prog, ExecuteIn(prog, path).conf)
        PROVE  ExecutedIn(prog, visited, ExecuteIn(prog, path).conf, p)
    <3>1. Execute(path) = ExecuteIn(prog, path)
      BY FollowedIs
    <3>2. p \in Running(Execute(path).conf) /\ Execute(path).kind = "NotExited"
      BY <2>4, <3>1 DEF Running
    <3>3. IsExecuted(Execute(path).conf, p)
      BY <3>2 DEF EveryStepExecuted
    <3> QED
      BY <3>1, <3>3, IsExecutedIs
  <2>5. <<>> \in S
    <3> DEFINE none == <<>>
    <3>1. FollowedIn(prog, none).conf = Start(prog)
      BY FollowedEmpty
    <3>2. none \in Seq(RacersOf(prog))
      OBVIOUS
    <3> HIDE DEF none
    <3>3. none \in S
      BY <2>1, <2>3, <3>1, <3>2
    <3> QED
      BY <3>3 DEF none
  <2>6. ASSUME NEW path \in Seq(RacersOf(prog)), NEW x \in RacersOf(prog), path \in S
        PROVE  Append(path, x) \in S
    <3> DEFINE more == Append(path, x)
               c == FollowedIn(prog, path).conf
               d == FollowedIn(prog, more).conf
    <3> SUFFICES ASSUME FollowedIn(prog, more).kind = "NotExited",
                        NEW p \in RunningIn(prog, d)
                 PROVE  ExecutedIn(prog, visited, d, p)
      BY AppendIs
    <3>1. /\ FollowedIn(prog, path).kind = "NotExited"
          /\ Step(prog, c, x).kind \in {"yield", "exit"} /\ d = Step(prog, c, x).to
      BY FollowedOn
    <3>2. x \in RunningIn(prog, c)
      BY <3>1 DEF RunningIn, RacersOf
    <3>3. PICK v \in visited :
            /\ Last(v) = x /\ FollowedIn(prog, Front(v)).kind = "NotExited"
            /\ FollowedIn(prog, Front(v)).conf = c
      <4>1. ExecutedIn(prog, visited, c, x)
        BY <2>6, <3>1, <3>2
      <4> QED
        BY <4>1 DEF ExecutedIn
    <3>4. PICK q \in Seq(RacersOf(prog)), y \in RacersOf(prog) : v = Append(q, y)
      <4>1. v \in Seq(RacersOf(prog)) /\ v # <<>>
        BY <2>2
      <4> QED
        BY <4>1, SequenceEmptyOrAppend
    <3> HIDE DEF c, d, more
    <3>5. y = x
      BY <3>3, <3>4, AppendEnds
    <3>6. Front(v) = q
      BY <3>4, FrontIs
    <3>7. FollowedIn(prog, q).kind = "NotExited" /\ FollowedIn(prog, q).conf = c
      BY <3>3, <3>6
    <3>8. /\ FollowedIn(prog, Append(q, x)).kind = "NotExited"
          /\ FollowedIn(prog, Append(q, x)).conf = d
      BY <3>1, <3>7, FollowedOn
    <3>9. v = Append(q, x) /\ v \in Seq(RacersOf(prog))
      BY <2>2, <3>4, <3>5
    <3>10. RunningIn(prog, FollowedIn(prog, v).conf) # {}
      BY <3>8, <3>9
    <3>11. ExecuteIn(prog, v) = FollowedIn(prog, v)
      BY <2>2, <3>8, <3>9, <3>10, ExecuteTells
    <3> QED
      BY <2>4, <3>8, <3>9, <3>11
  <2> HIDE DEF S
  <2>7. Seq(RacersOf(prog)) \subseteq S
    BY <2>5, <2>6, ListInduction
  <2>8. ASSUME NEW path \in Seq(Racers), NEW p \in Racers, Followed(path).kind = "NotExited",
               p \in Running(Followed(path).conf)
        PROVE  IsExecuted(Followed(path).conf, p)
    <3>1. Followed(path) = FollowedIn(prog, path)
      BY FollowedIs
    <3>2. path \in S
      BY <2>1, <2>7
    <3>3. ExecutedIn(prog, visited, Followed(path).conf, p)
      BY <2>8, <3>1, <3>2 DEF S, Running
    <3> QED
      BY <3>3, IsExecutedIs
  <2> QED
    BY <2>8
<1> QED
  BY <1>1, SearchInv, EveryStepExecutedAlways, PTL
=============================================================================
