---------------------------- MODULE VisitorProofs ----------------------------
(***************************************************************************)
(* The Visitor forgets no edge, and implements StateGraph, for every       *)
(* program.                                                                *)
(***************************************************************************)
EXTENDS Visitor, ProgramLemmas, SequenceTheorems, WellFoundedInduction, FiniteSetTheorems

-----------------------------------------------------------------------------
(* Induction and recursion over the numbers up to a bound, with sets and   *)
(* functions in the place of predicates and operators.                     *)

\* A set of numbers that is not empty has a least element.
LEMMA LeastElement ==
    ASSUME NEW T \in SUBSET Nat, T # {}
    PROVE  \E m \in T : \A k \in T : m <= k
<1> DEFINE R == OpToRel(<, Nat)
<1>1. IsWellFoundedOn(R, Nat)
  BY NatLessThanWellFounded
<1>2. PICK m \in T : \A k \in T : ~(<<k, m>> \in R)
  <2> HIDE DEF R
  <2> QED
    BY <1>1, WFMin
<1>3. \A k \in T : ~(k < m)
  BY <1>2 DEF OpToRel
<1> QED
  BY <1>3

\* A set that has zero and all successors has every number.
LEMMA SetInduction ==
    ASSUME NEW S, 0 \in S, \A n \in Nat : n \in S => n + 1 \in S
    PROVE  Nat \subseteq S
<1> SUFFICES ASSUME Nat \ S # {} PROVE FALSE
  OBVIOUS
<1>1. PICK m \in Nat \ S : \A k \in Nat \ S : m <= k
  BY LeastElement
<1>2. m # 0 /\ m - 1 \in Nat /\ m - 1 \in S
  BY <1>1
<1>3. (m - 1) + 1 = m
  BY <1>1
<1> QED
  BY <1>1, <1>2, <1>3

\* A function that starts with a and applies G from each number to the next.
Iterates(f, n, a, V, G) ==
    /\ f \in [0 .. n -> V]
    /\ f[0] = a
    /\ \A i \in 1 .. n : f[i] = G[<<i, f[i - 1]>>]

\* Such a function exists, for every length.
LEMMA IteratesExists ==
    ASSUME NEW n \in Nat, NEW V, NEW a \in V, NEW G \in [(1 .. n) \X V -> V]
    PROVE  \E f : Iterates(f, n, a, V, G)
<1> DEFINE S == {k \in Nat : k <= n => \E f : Iterates(f, k, a, V, G)}
<1>1. 0 \in S
  <2>1. Iterates([i \in 0 .. 0 |-> a], 0, a, V, G)
    BY DEF Iterates
  <2> QED
    BY <2>1
<1>2. ASSUME NEW k \in Nat, k \in S PROVE k + 1 \in S
  <2> SUFFICES ASSUME k + 1 <= n PROVE \E f : Iterates(f, k + 1, a, V, G)
    OBVIOUS
  <2>1. PICK f : Iterates(f, k, a, V, G)
    BY <1>2
  <2> DEFINE g == [i \in 0 .. (k + 1) |-> IF i = k + 1 THEN G[<<k + 1, f[k]>>] ELSE f[i]]
  <2>2. f[k] \in V /\ <<k + 1, f[k]>> \in (1 .. n) \X V
    BY <2>1 DEF Iterates
  <2>3. G[<<k + 1, f[k]>>] \in V
    BY <2>2
  <2>4. g \in [0 .. (k + 1) -> V]
    BY <2>1, <2>3 DEF Iterates
  <2>5. g[0] = a
    BY <2>1 DEF Iterates
  <2>6. ASSUME NEW i \in 1 .. (k + 1) PROVE g[i] = G[<<i, g[i - 1]>>]
    <3>1. g[i - 1] = f[i - 1]
      BY <2>1
    <3>2. CASE i = k + 1
      <4>1. i - 1 = k /\ g[i - 1] = f[k]
        BY <3>1, <3>2
      <4>2. g[k + 1] = G[<<k + 1, f[k]>>]
        OBVIOUS
      <4> QED
        BY <3>2, <4>1, <4>2
    <3>3. CASE i # k + 1
      BY <2>1, <3>1, <3>3 DEF Iterates
    <3> QED
      BY <3>2, <3>3
  <2>7. Iterates(g, k + 1, a, V, G)
    <3> HIDE DEF g
    <3> QED
      BY <2>4, <2>5, <2>6 DEF Iterates
  <2> QED
    BY <2>7
<1> HIDE DEF S
<1>3. n \in S
  BY <1>1, <1>2, SetInduction
<1> QED
  BY <1>3 DEF S

-----------------------------------------------------------------------------
(* Trails along the visited edges.                                         *)

\* A table of visited edges.
Table(ve) ==
    /\ DOMAIN ve \subseteq State \X Proc
    /\ \A key \in DOMAIN ve : ve[key] \in Seq(State) /\ ve[key] # <<>>

Place == State \cup {Unvisited}

\* One step along the table, and the places a path leads through.
Follow(ve, s, p) == IF <<s, p>> \in DOMAIN ve THEN ve[<<s, p>>][1] ELSE Unvisited

Trail(ve, root, path) ==
    LET at[i \in 0 .. Len(path)] ==
          IF i = 0 THEN root
          ELSE IF <<at[i - 1], path[i]>> \in DOMAIN ve
               THEN ve[<<at[i - 1], path[i]>>][1]
               ELSE Unvisited
    IN  at

\* Replay is the end of the trail in the visited edges ...
LEMMA ReplayIsTrail ==
    ASSUME NEW root, NEW path
    PROVE  Replay(root, path) = Trail(visited_edges, root, path)[Len(path)]
BY DEF Replay, Trail

\* ... and so it is after a step.
LEMMA ReplayIsTrailPrime ==
    ASSUME NEW CONSTANT root, NEW CONSTANT path
    PROVE  Replay(root, path)' = Trail(visited_edges', root, path)[Len(path)]
BY DEF Replay, Trail

\* Following the table leads to a state or off the table.
LEMMA FollowType ==
    ASSUME NEW ve, Table(ve), NEW s, NEW p
    PROVE  Follow(ve, s, p) \in Place
BY DEF Follow, Place, Table

\* Nothing follows a place off the table.
LEMMA FollowUnvisited ==
    ASSUME NEW ve, Table(ve), NEW p
    PROVE  Follow(ve, Unvisited, p) = Unvisited
BY UnvisitedAssumption DEF Follow, Table

\* A table's places are off it only where it has no entry.
LEMMA FollowKnown ==
    ASSUME NEW ve, Table(ve), NEW s, NEW p
    PROVE  Follow(ve, s, p) = Unvisited <=> <<s, p>> \notin DOMAIN ve
<1>1. ASSUME <<s, p>> \in DOMAIN ve PROVE ve[<<s, p>>][1] \in State
  BY <1>1 DEF Table
<1> QED
  BY <1>1, UnvisitedAssumption DEF Follow

IsTrail(f, ve, root, path) ==
    /\ f \in [0 .. Len(path) -> Place]
    /\ f[0] = root
    /\ \A i \in 1 .. Len(path) : f[i] = Follow(ve, f[i - 1], path[i])

\* The trail starts at the root and follows the table process by process: the
\* recursive definition has a solution.
LEMMA TrailFacts ==
    ASSUME NEW ve, Table(ve), NEW root \in State, NEW path \in Path
    PROVE  IsTrail(Trail(ve, root, path), ve, root, path)
<1> DEFINE n == Len(path)
           V == Place
           G == [x \in (1 .. n) \X V |-> Follow(ve, x[2], path[x[1]])]
           E(f) == [i \in 0 .. n |->
                      IF i = 0 THEN root
                      ELSE IF <<f[i - 1], path[i]>> \in DOMAIN ve
                           THEN ve[<<f[i - 1], path[i]>>][1]
                           ELSE Unvisited]
<1>1. n \in Nat
  BY DEF Path
<1>2. G \in [(1 .. n) \X V -> V]
  BY FollowType
<1>3. root \in V
  BY DEF Place
<1>4. PICK g : Iterates(g, n, root, V, G)
  <2> HIDE DEF n, V, G
  <2> QED
    BY <1>1, <1>2, <1>3, IteratesExists
<1>5. ASSUME NEW i \in 1 .. n, NEW f, f[i - 1] \in V PROVE G[<<i, f[i - 1]>>] = Follow(ve, f[i - 1], path[i])
  BY <1>5
<1>6. g = E(g)
  <2>1. g \in [0 .. n -> V] /\ g[0] = root
    BY <1>4 DEF Iterates
  <2>2. ASSUME NEW i \in 0 .. n, i # 0
        PROVE  g[i] = Follow(ve, g[i - 1], path[i])
    <3>1. i \in 1 .. n /\ i - 1 \in 0 .. n
      BY <1>1, <2>2
    <3>2. g[i - 1] \in V /\ g[i] = G[<<i, g[i - 1]>>]
      <4> HIDE DEF G, V, n
      <4> QED
        BY <1>4, <2>1, <3>1 DEF Iterates
    <3> QED
      BY <3>1, <3>2, <1>5
  <2> HIDE DEF n, V, G
  <2> QED
    BY <2>1, <2>2 DEF Follow
<1>7. Trail(ve, root, path) = CHOOSE f : f = E(f)
  BY DEF Trail
<1>8. PICK t : t = Trail(ve, root, path) /\ t = E(t)
  <2> HIDE DEF E
  <2> QED
    BY <1>6, <1>7
<1>9. t \in [0 .. n -> V]
  <2>1. ASSUME NEW i \in 0 .. n PROVE E(t)[i] \in V
    <3>1. CASE i = 0
      BY <3>1, <1>3
    <3>2. CASE i # 0
      <4>1. E(t)[i] = Follow(ve, t[i - 1], path[i])
        BY <3>2 DEF Follow
      <4> QED
        BY <4>1, FollowType
    <3> QED
      BY <3>1, <3>2
  <2>2. E(t) \in [0 .. n -> V]
    <3> HIDE DEF V, n
    <3> QED
      BY <2>1
  <2> QED
    BY <1>8, <2>2
<1>10. t[0] = root /\ \A i \in 1 .. n : t[i] = Follow(ve, t[i - 1], path[i])
  <2>1. E(t)[0] = root
    BY <1>1
  <2>2. ASSUME NEW i \in 1 .. n PROVE E(t)[i] = Follow(ve, t[i - 1], path[i])
    BY <1>1 DEF Follow
  <2> HIDE DEF E
  <2> QED
    BY <1>8, <2>1, <2>2
<1> QED
  BY <1>8, <1>9, <1>10 DEF IsTrail

-----------------------------------------------------------------------------
(* Where a path ends.                                                      *)

Ends(ve, root, path) == Trail(ve, root, path)[Len(path)]

\* Replay as the end of a path, before and after a step.
LEMMA ReplayIsEnds ==
    ASSUME NEW CONSTANT root, NEW CONSTANT path
    PROVE  /\ Replay(root, path) = Ends(visited_edges, root, path)
           /\ Replay(root, path)' = Ends(visited_edges', root, path)
BY ReplayIsTrail, ReplayIsTrailPrime DEF Ends

\* A path ends in a state or off the table.
LEMMA EndsType ==
    ASSUME NEW ve, Table(ve), NEW root \in State, NEW path \in Path
    PROVE  Ends(ve, root, path) \in Place
<1>1. Len(path) \in 0 .. Len(path)
  BY DEF Path
<1> QED
  BY <1>1, TrailFacts DEF IsTrail, Ends

\* The empty path ends where it starts.
LEMMA EndsEmpty ==
    ASSUME NEW ve, Table(ve), NEW root \in State
    PROVE  Ends(ve, root, <<>>) = root
<1>1. <<>> \in Path /\ Len(<<>>) = 0
  BY DEF Path
<1> QED
  BY <1>1, TrailFacts DEF IsTrail, Ends

\* Paths that begin alike lead through the same places.
LEMMA TrailsAgree ==
    ASSUME NEW ve, Table(ve), NEW root \in State,
           NEW a \in Path, NEW b \in Path, Len(a) <= Len(b),
           \A i \in 1 .. Len(a) : a[i] = b[i],
           NEW n \in 0 .. Len(a)
    PROVE  Trail(ve, root, a)[n] = Trail(ve, root, b)[n]
<1> DEFINE f == Trail(ve, root, a)
           g == Trail(ve, root, b)
           S == {k \in Nat : k <= Len(a) => f[k] = g[k]}
<1>1. Len(a) \in Nat /\ Len(b) \in Nat
  BY DEF Path
<1>2. IsTrail(f, ve, root, a) /\ IsTrail(g, ve, root, b)
  BY TrailFacts
<1> HIDE DEF f, g
<1>3. 0 \in S
  BY <1>2 DEF IsTrail
<1>4. ASSUME NEW k \in Nat, k \in S PROVE k + 1 \in S
  <2> SUFFICES ASSUME k + 1 <= Len(a) PROVE f[k + 1] = g[k + 1]
    OBVIOUS
  <2>1. k + 1 \in 1 .. Len(a) /\ k + 1 \in 1 .. Len(b) /\ (k + 1) - 1 = k
    BY <1>1
  <2>2. f[k] = g[k]
    BY <1>4, <1>1, <2>1
  <2>3. f[k + 1] = Follow(ve, f[k], a[k + 1])
    BY <1>2, <2>1 DEF IsTrail
  <2>4. g[k + 1] = Follow(ve, g[k], b[k + 1])
    BY <1>2, <2>1 DEF IsTrail
  <2> QED
    BY <2>1, <2>2, <2>3, <2>4
<1> HIDE DEF S
<1>5. n \in S
  BY <1>1, <1>3, <1>4, SetInduction
<1> QED
  BY <1>1, <1>5 DEF S, f, g

\* A path ends where any longer path that begins with it passes.
LEMMA EndsOnTrail ==
    ASSUME NEW ve, Table(ve), NEW root \in State,
           NEW a \in Path, NEW b \in Path, Len(a) <= Len(b),
           \A i \in 1 .. Len(a) : a[i] = b[i]
    PROVE  Ends(ve, root, a) = Trail(ve, root, b)[Len(a)]
<1>1. Len(a) \in 0 .. Len(a)
  BY DEF Path
<1> QED
  BY <1>1, TrailsAgree DEF Ends

\* A path that has left the table does not come back.
LEMMA TrailUnvisited ==
    ASSUME NEW ve, Table(ve), NEW root \in State, NEW b \in Path,
           NEW m \in 0 .. Len(b), Trail(ve, root, b)[m] = Unvisited,
           NEW n \in m .. Len(b)
    PROVE  Trail(ve, root, b)[n] = Unvisited
<1> DEFINE g == Trail(ve, root, b)
           S == {k \in Nat : m + k <= Len(b) => g[m + k] = Unvisited}
<1>1. Len(b) \in Nat /\ m \in Nat /\ n \in Nat
  BY DEF Path
<1>2. IsTrail(g, ve, root, b) /\ g[m] = Unvisited
  BY TrailFacts
<1> HIDE DEF g
<1>3. 0 \in S
  BY <1>1, <1>2
<1>4. ASSUME NEW k \in Nat, k \in S PROVE k + 1 \in S
  <2> SUFFICES ASSUME m + (k + 1) <= Len(b) PROVE g[m + (k + 1)] = Unvisited
    BY <1>1
  <2>1. /\ m + (k + 1) \in 1 .. Len(b)
        /\ (m + (k + 1)) - 1 = m + k
    BY <1>1
  <2>2. g[m + k] = Unvisited
    BY <1>4, <1>1, <2>1
  <2>3. g[m + (k + 1)] = Follow(ve, g[m + k], b[m + (k + 1)])
    BY <1>2, <2>1 DEF IsTrail
  <2> QED
    BY <2>2, <2>3, FollowUnvisited
<1> HIDE DEF S
<1>5. n - m \in S
  BY <1>1, <1>3, <1>4, SetInduction
<1>6. m + (n - m) = n
  BY <1>1
<1> QED
  BY <1>1, <1>5, <1>6 DEF S, g

\* A path that goes on from one that left the table has left it too.
LEMMA EndsUnvisited ==
    ASSUME NEW ve, Table(ve), NEW root \in State,
           NEW a \in Path, NEW b \in Path, Len(a) <= Len(b),
           \A i \in 1 .. Len(a) : a[i] = b[i],
           Ends(ve, root, a) = Unvisited
    PROVE  Ends(ve, root, b) = Unvisited
<1>1. Len(a) \in 0 .. Len(b) /\ Len(b) \in Len(a) .. Len(b)
  BY DEF Path
<1>2. Trail(ve, root, b)[Len(a)] = Unvisited
  BY EndsOnTrail
<1> QED
  BY <1>1, <1>2, TrailUnvisited DEF Ends

\* A longer path ends one step after the shorter one.
LEMMA EndsAppend ==
    ASSUME NEW ve, Table(ve), NEW root \in State,
           NEW path \in Path, NEW x \in Proc
    PROVE  Ends(ve, root, Append(path, x)) = Follow(ve, Ends(ve, root, path), x)
<1> DEFINE b == Append(path, x)
<1>1. /\ b \in Path /\ Len(b) = Len(path) + 1 /\ b[Len(b)] = x
      /\ \A i \in 1 .. Len(path) : path[i] = b[i]
      /\ Len(path) \in Nat
  BY DEF Path
<1> HIDE DEF b
<1>2. Ends(ve, root, path) = Trail(ve, root, b)[Len(path)]
  BY <1>1, EndsOnTrail
<1>3. IsTrail(Trail(ve, root, b), ve, root, b)
  BY <1>1, TrailFacts
<1>4. Len(b) \in 1 .. Len(b) /\ Len(b) - 1 = Len(path)
  BY <1>1
<1>5. Trail(ve, root, b)[Len(b)]
        = Follow(ve, Trail(ve, root, b)[Len(path)], b[Len(b)])
  BY <1>3, <1>4 DEF IsTrail
<1>6. Ends(ve, root, b) = Follow(ve, Ends(ve, root, path), x)
  BY <1>1, <1>2, <1>5 DEF Ends
<1> QED
  BY <1>6 DEF b

\* A path that is not empty is its beginning and its last process.
LEMMA LastProcess ==
    ASSUME NEW path \in Path, path # <<>>
    PROVE  /\ AllButLast(path) \in Path
           /\ path[Len(path)] \in Proc
           /\ Len(AllButLast(path)) = Len(path) - 1
           /\ \A i \in 1 .. Len(path) - 1 : AllButLast(path)[i] = path[i]
           /\ path = Append(AllButLast(path), path[Len(path)])
           /\ Len(path) \in Nat \ {0}
<1> DEFINE n == Len(path)
           front == SubSeq(path, 1, n - 1)
<1>1. path \in Seq(Proc) /\ n \in Nat \ {0}
  BY DEF Path
<1>2. path[n] \in Proc
  BY <1>1
<1>3. /\ front \in Seq(Proc) /\ Len(front) = n - 1
      /\ \A i \in 1 .. n - 1 : front[i] = path[i]
  <2>1. \A i \in 1 .. n - 1 : path[i] \in Proc
    BY <1>1
  <2>2. /\ front \in Seq(Proc)
        /\ Len(front) = IF 1 <= n - 1 THEN n - 1 - 1 + 1 ELSE 0
        /\ \A i \in 1 .. n - 1 - 1 + 1 : front[i] = path[1 + i - 1]
    <3>1. n - 1 \in Int /\ 1 \in Int
      BY <1>1
    <3> HIDE DEF n
    <3> QED
      BY <2>1, <3>1, SubSeqProperties
  <2>3. n - 1 - 1 + 1 = n - 1 /\ \A i \in 1 .. n - 1 : 1 + i - 1 = i
    BY <1>1
  <2> HIDE DEF front, n
  <2> QED
    BY <1>1, <2>2, <2>3
<1>4. path = Append(front, path[n])
  <2>1. Append(front, path[n]) \in Seq(Proc) /\ Len(Append(front, path[n])) = n
    BY <1>1, <1>2, <1>3
  <2>2. ASSUME NEW i \in 1 .. n PROVE Append(front, path[n])[i] = path[i]
    BY <1>1, <1>2, <1>3
  <2> QED
    BY <1>1, <2>1, <2>2, SeqEqual
<1> QED
  BY <1>1, <1>2, <1>3, <1>4 DEF Path, AllButLast

\* AllButLast undoes the extension of a path.
LEMMA AllButLastOfAppend ==
    ASSUME NEW path \in Path, NEW x \in Proc
    PROVE  /\ AllButLast(Append(path, x)) = path
           /\ Append(path, x) # <<>>
           /\ Append(path, x)[Len(Append(path, x))] = x
           /\ Append(path, x) \in Path
<1> DEFINE b == Append(path, x)
<1>1. /\ b \in Seq(Proc) /\ Len(b) = Len(path) + 1 /\ b[Len(b)] = x
      /\ path \in Seq(Proc) /\ Len(path) \in Nat
      /\ \A i \in 1 .. Len(path) : b[i] = path[i]
  BY DEF Path
<1>2. /\ SubSeq(b, 1, Len(b) - 1) \in Seq(Proc)
      /\ Len(SubSeq(b, 1, Len(b) - 1)) = Len(path)
      /\ \A i \in 1 .. Len(path) : SubSeq(b, 1, Len(b) - 1)[i] = path[i]
  <2> HIDE DEF b
  <2> QED
    BY <1>1
<1>3. SubSeq(b, 1, Len(b) - 1) = path
  <2> HIDE DEF b
  <2> QED
    BY <1>1, <1>2, SeqEqual
<1> QED
  BY <1>1, <1>3 DEF Path, AllButLast

\* A path ends where its last process leads from the end of the rest.
LEMMA EndsLast ==
    ASSUME NEW ve, Table(ve), NEW root \in State, NEW path \in Path, path # <<>>
    PROVE  Ends(ve, root, path)
             = Follow(ve, Ends(ve, root, AllButLast(path)), path[Len(path)])
<1>1. AllButLast(path) \in Path /\ path[Len(path)] \in Proc
  BY LastProcess
<1>2. Ends(ve, root, Append(AllButLast(path), path[Len(path)]))
        = Follow(ve, Ends(ve, root, AllButLast(path)), path[Len(path)])
  BY <1>1, EndsAppend
<1>3. path = Append(AllButLast(path), path[Len(path)])
  BY LastProcess
<1> QED
  BY <1>2, <1>3

-----------------------------------------------------------------------------
(* Tables grow.                                                            *)

\* we leads wherever ve led.
Grows(ve, we) ==
    \A key \in DOMAIN ve : key \in DOMAIN we /\ we[key][1] = ve[key][1]

\* A path that stays on a table ends in the same state on a larger one.
LEMMA EndsGrows ==
    ASSUME NEW ve, Table(ve), NEW we, Table(we), Grows(ve, we),
           NEW root \in State, NEW path \in Path,
           Ends(ve, root, path) # Unvisited
    PROVE  Ends(we, root, path) = Ends(ve, root, path)
<1> DEFINE f == Trail(ve, root, path)
           g == Trail(we, root, path)
           S == {k \in Nat : k <= Len(path) => f[k] = g[k]}
<1>1. Len(path) \in Nat
  BY DEF Path
<1>2. IsTrail(f, ve, root, path) /\ IsTrail(g, we, root, path)
  BY TrailFacts
<1>3. ASSUME NEW k \in 0 .. Len(path) PROVE f[k] # Unvisited
  <2>1. Len(path) \in k .. Len(path)
    BY <1>1, <1>3
  <2> QED
    BY <1>3, <2>1, TrailUnvisited DEF Ends
<1> HIDE DEF f, g
<1>4. 0 \in S
  BY <1>2 DEF IsTrail
<1>5. ASSUME NEW k \in Nat, k \in S PROVE k + 1 \in S
  <2> SUFFICES ASSUME k + 1 <= Len(path) PROVE f[k + 1] = g[k + 1]
    OBVIOUS
  <2>1. k + 1 \in 1 .. Len(path) /\ (k + 1) - 1 = k /\ k + 1 \in 0 .. Len(path)
    BY <1>1
  <2>2. f[k] = g[k]
    BY <1>5, <1>1, <2>1
  <2>3. f[k + 1] = Follow(ve, f[k], path[k + 1]) /\ f[k + 1] # Unvisited
    BY <1>2, <1>3, <2>1 DEF IsTrail
  <2>4. g[k + 1] = Follow(we, g[k], path[k + 1])
    BY <1>2, <2>1 DEF IsTrail
  <2>5. <<f[k], path[k + 1]>> \in DOMAIN ve
    BY <2>3 DEF Follow
  <2> QED
    BY <2>2, <2>3, <2>4, <2>5 DEF Follow, Grows
<1> HIDE DEF S
<1>6. Len(path) \in S
  BY <1>1, <1>4, <1>5, SetInduction
<1> QED
  BY <1>1, <1>6 DEF S, f, g, Ends

Elems(q) == {q[i] : i \in DOMAIN q}

-----------------------------------------------------------------------------
(* The operators of the model.                                             *)

\* _push_path adds the path to the queue, at either end.
LEMMA PushElems ==
    ASSUME NEW q \in Seq(Path), NEW path \in Path
    PROVE  Push(q, path) \in Seq(Path) /\ Elems(Push(q, path)) = Elems(q) \cup {path}
<1>1. CASE is_depth_first
  <2> DEFINE r == <<path>> \o q
  <2>1. /\ r \in Seq(Path) /\ Len(r) = Len(q) + 1 /\ Len(q) \in Nat
        /\ r[1] = path
        /\ \A i \in 1 .. Len(q) : r[i + 1] = q[i]
    OBVIOUS
  <2>2. \A i \in 1 .. Len(r) : i = 1 \/ (i - 1 \in 1 .. Len(q) /\ r[i] = q[i - 1])
    <3>1. \A i \in 1 .. Len(r) : i = 1 \/ (i - 1 \in 1 .. Len(q) /\ (i - 1) + 1 = i)
      BY <2>1
    <3> QED
      BY <2>1, <3>1
  <2>3. \A i \in 1 .. Len(q) : i + 1 \in 1 .. Len(r)
    BY <2>1
  <2>4. DOMAIN r = 1 .. Len(r) /\ DOMAIN q = 1 .. Len(q) /\ 1 \in 1 .. Len(r)
    BY <2>1
  <2> HIDE DEF r
  <2>5. Elems(r) = Elems(q) \cup {path}
    <3>1. ASSUME NEW i \in 1 .. Len(r) PROVE r[i] \in Elems(q) \cup {path}
      BY <2>1, <2>2, <2>4 DEF Elems
    <3>2. ASSUME NEW i \in 1 .. Len(q) PROVE q[i] \in Elems(r)
      BY <2>1, <2>3, <2>4 DEF Elems
    <3>3. path \in Elems(r)
      BY <2>1, <2>4 DEF Elems
    <3>4. Elems(r) \subseteq Elems(q) \cup {path}
      BY <2>4, <3>1 DEF Elems
    <3>5. Elems(q) \cup {path} \subseteq Elems(r)
      BY <2>4, <3>2, <3>3 DEF Elems
    <3> QED
      BY <3>4, <3>5
  <2> QED
    BY <1>1, <2>1, <2>5 DEF Push, r
<1>2. CASE ~is_depth_first
  <2> DEFINE r == Append(q, path)
  <2>1. /\ r \in Seq(Path) /\ Len(r) = Len(q) + 1 /\ Len(q) \in Nat
        /\ r[Len(q) + 1] = path
        /\ \A i \in 1 .. Len(q) : r[i] = q[i]
    OBVIOUS
  <2>2. DOMAIN r = 1 .. Len(r) /\ DOMAIN q = 1 .. Len(q)
    BY <2>1
  <2>3. 1 .. Len(r) = 1 .. Len(q) \cup {Len(q) + 1}
    BY <2>1
  <2> HIDE DEF r
  <2>4. Elems(r) = Elems(q) \cup {path}
    BY <2>1, <2>2, <2>3 DEF Elems
  <2> QED
    BY <1>2, <2>1, <2>4 DEF Push, r
<1> QED
  BY <1>1, <1>2

\* next() keeps what was queued and adds what of the result is still unvisited.
LEMMA PushedElems ==
    ASSUME queue \in Seq(Path), rtn \in Seq(Path)
    PROVE  /\ Pushed \in Seq(Path)
           /\ Elems(Pushed) = Elems(queue) \cup {path \in Elems(rtn) : CanPushPath(path)}
<1> DEFINE n == Len(rtn)
           V == Seq(Path)
           G == [x \in (1 .. n) \X V |->
                   IF CanPushPath(rtn[x[1]]) THEN Push(x[2], rtn[x[1]]) ELSE x[2]]
           E(f) == [i \in 0 .. n |->
                      IF i = 0 THEN queue
                      ELSE IF CanPushPath(rtn[i]) THEN Push(f[i - 1], rtn[i])
                      ELSE f[i - 1]]
<1>1. n \in Nat /\ DOMAIN rtn = 1 .. n /\ \A i \in 1 .. n : rtn[i] \in Path
  OBVIOUS
<1>2. G \in [(1 .. n) \X V -> V]
  <2>1. ASSUME NEW i \in 1 .. n, NEW q \in V PROVE Push(q, rtn[i]) \in V
    BY <1>1, PushElems
  <2> QED
    BY <2>1
<1>3. PICK g : Iterates(g, n, queue, V, G)
  <2> HIDE DEF n, V, G
  <2>1. queue \in V
    BY DEF V
  <2> QED
    BY <1>1, <1>2, <2>1, IteratesExists
<1>4. g \in [0 .. n -> V] /\ g[0] = queue
  BY <1>3 DEF Iterates
<1>5. ASSUME NEW i \in 1 .. n
      PROVE  /\ i - 1 \in 0 .. n /\ g[i - 1] \in V
             /\ g[i] = IF CanPushPath(rtn[i]) THEN Push(g[i - 1], rtn[i]) ELSE g[i - 1]
  <2>1. i - 1 \in 0 .. n
    BY <1>1
  <2>2. g[i - 1] \in V /\ g[i] = G[<<i, g[i - 1]>>]
    <3> HIDE DEF G, V, n
    <3> QED
      BY <1>3, <1>4, <2>1 DEF Iterates
  <2> QED
    BY <2>1, <2>2
<1>6. g = E(g)
  <2>1. \A i \in 0 .. n : i = 0 \/ i \in 1 .. n
    BY <1>1
  <2> HIDE DEF n, V, G
  <2> QED
    BY <1>4, <1>5, <2>1
<1>7. Pushed = (CHOOSE f : f = E(f))[n]
  BY DEF Pushed
<1>8. PICK t : Pushed = t[n] /\ t = E(t)
  <2> HIDE DEF E, n
  <2> QED
    BY <1>6, <1>7
<1> DEFINE S == {k \in Nat : k <= n =>
                   /\ t[k] \in V
                   /\ Elems(t[k]) = Elems(queue)
                        \cup {path \in {rtn[i] : i \in 1 .. k} : CanPushPath(path)}}
<1>9. 0 \in S
  <2>1. t[0] = queue
    <3>1. E(t)[0] = queue
      BY <1>1
    <3> HIDE DEF E
    <3> QED
      BY <1>8, <3>1
  <2>2. 1 .. 0 = {}
    OBVIOUS
  <2> QED
    BY <2>1, <2>2
<1>10. ASSUME NEW k \in Nat, k \in S PROVE k + 1 \in S
  <2> SUFFICES ASSUME k + 1 <= n
      PROVE  /\ t[k + 1] \in V
             /\ Elems(t[k + 1]) = Elems(queue)
                  \cup {path \in {rtn[i] : i \in 1 .. (k + 1)} : CanPushPath(path)}
    OBVIOUS
  <2>1. /\ k + 1 \in 1 .. n /\ k + 1 \in 0 .. n /\ k + 1 # 0 /\ (k + 1) - 1 = k
        /\ 1 .. (k + 1) = 1 .. k \cup {k + 1}
    BY <1>1
  <2>2. /\ t[k] \in V
        /\ Elems(t[k]) = Elems(queue)
             \cup {path \in {rtn[i] : i \in 1 .. k} : CanPushPath(path)}
    BY <1>1, <1>10
  <2>3. t[k + 1] = IF CanPushPath(rtn[k + 1]) THEN Push(t[k], rtn[k + 1]) ELSE t[k]
    <3>1. E(t)[k + 1] = IF CanPushPath(rtn[k + 1]) THEN Push(t[k], rtn[k + 1]) ELSE t[k]
      BY <2>1
    <3> HIDE DEF E
    <3> QED
      BY <1>8, <3>1
  <2>4. CASE CanPushPath(rtn[k + 1])
    <3>1. rtn[k + 1] \in Path
      BY <1>1, <2>1
    <3>2. t[k + 1] \in V /\ Elems(t[k + 1]) = Elems(t[k]) \cup {rtn[k + 1]}
      <4>1. t[k] \in Seq(Path) /\ t[k + 1] = Push(t[k], rtn[k + 1])
        BY <2>2, <2>3, <2>4
      <4> HIDE DEF n, E, G, S
      <4> QED
        BY <4>1, <3>1, PushElems
    <3> QED
      BY <2>1, <2>2, <2>4, <3>2
  <2>5. CASE ~CanPushPath(rtn[k + 1])
    BY <2>1, <2>2, <2>3, <2>5
  <2> QED
    BY <2>4, <2>5
<1>11. n \in S
  <2> HIDE DEF S
  <2> QED
    BY <1>1, <1>9, <1>10, SetInduction
<1>12. /\ t[n] \in V
       /\ Elems(t[n]) = Elems(queue)
            \cup {path \in {rtn[i] : i \in 1 .. n} : CanPushPath(path)}
  BY <1>1, <1>11
<1>13. Elems(rtn) = {rtn[i] : i \in 1 .. n}
  BY <1>1 DEF Elems
<1> HIDE DEF n, E, G, S
<1> QED
  BY <1>8, <1>12, <1>13

-----------------------------------------------------------------------------
\* The processes a step chooses from, each once, the one it runs first.
LEMMA CandidatesOrdered ==
    ASSUME TypeOK, Candidates # {}, NEW order \in Orders(Candidates)
    PROVE  /\ Candidates \subseteq Proc
           /\ order \in Seq(Candidates)
           /\ order[1] \in Candidates
           /\ Elems(order) = Candidates
           /\ \A y \in Candidates : y = order[1] \/ Before(order[1], y)
<1> DEFINE C == Candidates
           n == Cardinality(C)
<1>1. C \subseteq Proc
  BY DEF Candidates, Available
<1>2. IsFiniteSet(C)
  BY <1>1, ProcAssumption, FS_Subset
<1>3. n \in Nat /\ n # 0
  <2> HIDE DEF C
  <2> QED
    BY <1>2, FS_CardinalityType, FS_EmptySet DEF C
<1>4. /\ order \in [1 .. n -> C]
      /\ \A x \in C : \E i \in DOMAIN order : order[i] = x
      /\ \A i, j \in DOMAIN order : i < j => Before(order[i], order[j])
  BY DEF Orders
<1> HIDE DEF C, n
<1>5. order \in Seq(C) /\ DOMAIN order = 1 .. n /\ 1 \in DOMAIN order
  BY <1>3, <1>4
<1>6. order[1] \in C /\ Elems(order) = C
  BY <1>4, <1>5 DEF Elems
<1>7. ASSUME NEW y \in C PROVE y = order[1] \/ Before(order[1], y)
  <2>1. PICK i \in DOMAIN order : order[i] = y
    BY <1>4
  <2>2. i = 1 \/ 1 < i
    BY <1>3, <1>5
  <2> QED
    BY <1>4, <1>5, <2>1, <2>2
<1> QED
  BY <1>1, <1>5, <1>6, <1>7 DEF C

\* An iteration of next_sub collects one path per candidate.
LEMMA CollectedElems ==
    ASSUME TypeOK, Candidates # {}, NEW order \in Orders(Candidates)
    PROVE  /\ Collected(order) \in Seq(Path)
           /\ Elems(Collected(order))
                = Elems(rtn) \cup {Extended(x) : x \in Candidates}
<1> DEFINE b == [i \in DOMAIN order |-> Extended(order[i])]
           r == rtn \o b
<1>1. /\ order \in Seq(Candidates) /\ Candidates \subseteq Proc
      /\ Elems(order) = Candidates
  BY CandidatesOrdered
<1>2. DOMAIN order = 1 .. Len(order) /\ Len(order) \in Nat
  BY <1>1
<1>3. ASSUME NEW x \in Candidates PROVE Extended(x) \in Path
  BY <1>1 DEF Extended, TypeOK, Path
<1>4. b \in Seq(Path) /\ Len(b) = Len(order) /\ DOMAIN b = DOMAIN order
      /\ Elems(b) = {Extended(x) : x \in Candidates}
  <2>1. \A i \in DOMAIN order : order[i] \in Candidates
    BY <1>1, <1>2
  <2>2. \A i \in DOMAIN order : b[i] = Extended(order[i])
    OBVIOUS
  <2>3. b \in [1 .. Len(order) -> Path]
    BY <1>2, <1>3, <2>1
  <2> HIDE DEF b
  <2>4. b \in Seq(Path) /\ Len(b) = Len(order) /\ DOMAIN b = DOMAIN order
    BY <1>2, <2>3
  <2> QED
    BY <1>1, <2>1, <2>2, <2>4 DEF Elems
<1> HIDE DEF b
<1>5. rtn \in Seq(Path)
  BY DEF TypeOK
<1>6. /\ r \in Seq(Path) /\ Len(r) = Len(rtn) + Len(b)
      /\ Len(rtn) \in Nat /\ Len(b) \in Nat
      /\ \A i \in 1 .. Len(rtn) : r[i] = rtn[i]
      /\ \A i \in 1 .. Len(b) : r[Len(rtn) + i] = b[i]
  BY <1>4, <1>5
<1>7. /\ DOMAIN r = 1 .. Len(r) /\ DOMAIN rtn = 1 .. Len(rtn)
      /\ DOMAIN b = 1 .. Len(b)
  BY <1>4, <1>5, <1>6
<1> HIDE DEF r
<1>8. Elems(r) = Elems(rtn) \cup Elems(b)
  <2>1. ASSUME NEW i \in 1 .. Len(r)
        PROVE  \/ i \in 1 .. Len(rtn)
               \/ \E j \in 1 .. Len(b) : i = Len(rtn) + j
    <3>1. i \in 1 .. Len(rtn) \/ (i - Len(rtn) \in 1 .. Len(b) /\ i = Len(rtn) + (i - Len(rtn)))
      BY <1>6
    <3> QED
      BY <3>1
  <2>2. Elems(r) \subseteq Elems(rtn) \cup Elems(b)
    <3> SUFFICES ASSUME NEW i \in 1 .. Len(r)
                 PROVE  r[i] \in Elems(rtn) \cup Elems(b)
      BY <1>7 DEF Elems
    <3>1. CASE i \in 1 .. Len(rtn)
      BY <1>6, <1>7, <3>1 DEF Elems
    <3>2. ASSUME NEW j \in 1 .. Len(b), i = Len(rtn) + j
          PROVE  r[i] \in Elems(b)
      <4>1. r[i] = b[j]
        BY <1>6, <3>2
      <4> QED
        BY <1>7, <4>1 DEF Elems
    <3> QED
      BY <2>1, <3>1, <3>2
  <2>3. \A i \in 1 .. Len(rtn) : i \in 1 .. Len(r)
    BY <1>6
  <2>4. \A i \in 1 .. Len(b) : Len(rtn) + i \in 1 .. Len(r)
    BY <1>6
  <2>5. Elems(rtn) \subseteq Elems(r)
    BY <1>6, <1>7, <2>3 DEF Elems
  <2>6. Elems(b) \subseteq Elems(r)
    BY <1>6, <1>7, <2>4 DEF Elems
  <2> QED
    BY <2>2, <2>5, <2>6
<1>9. Collected(order) = r
  BY DEF Collected, r, b
<1> QED
  BY <1>4, <1>6, <1>8, <1>9

EdgesIn(ve) ==
    UNION {{<<key[1], key[2], ve[key][i]>> : i \in DOMAIN ve[key]} : key \in DOMAIN ve}

\* Recording a step adds its edge and changes where no other edge leads.
LEMMA RecordedFacts ==
    ASSUME Table(visited_edges), NEW s \in State, NEW p \in Proc, NEW post \in State
    PROVE  LET ve == Recorded(<<s, p>>, post)
           IN  /\ Table(ve)
               /\ ve = [key \in DOMAIN ve |-> ve[key]]
               /\ Grows(visited_edges, ve)
               /\ DOMAIN ve = DOMAIN visited_edges \cup {<<s, p>>}
               /\ EdgesIn(ve) = EdgesIn(visited_edges) \cup {<<s, p, post>>}
               /\ <<s, p>> \notin DOMAIN visited_edges => ve[<<s, p>>][1] = post
<1> DEFINE old == visited_edges
           key == <<s, p>>
           seen == IF key \in DOMAIN old THEN old[key] ELSE <<>>
           posts == IF \E i \in DOMAIN seen : seen[i] = post THEN seen
                    ELSE Append(seen, post)
           ve == [k \in DOMAIN old \cup {key} |-> IF k = key THEN posts ELSE old[k]]
<1>1. Recorded(key, post) = ve
  BY DEF Recorded
<1>2. seen \in Seq(State) /\ Len(seen) \in Nat /\ DOMAIN seen = 1 .. Len(seen)
  BY DEF Table
<1>3. /\ posts \in Seq(State) /\ posts # <<>>
      /\ {posts[i] : i \in DOMAIN posts} = {seen[i] : i \in DOMAIN seen} \cup {post}
      /\ key \in DOMAIN old => posts[1] = old[key][1]
      /\ key \notin DOMAIN old => posts[1] = post
  <2>1. key \in DOMAIN old => seen = old[key] /\ 1 \in DOMAIN seen
    BY <1>2 DEF Table
  <2>2. key \notin DOMAIN old => seen = <<>>
    OBVIOUS
  <2> HIDE DEF key, seen, old
  <2>3. CASE \E i \in DOMAIN seen : seen[i] = post
    <3>1. posts = seen
      BY <2>3
    <3> HIDE DEF posts
    <3> QED
      BY <1>2, <2>1, <2>2, <2>3, <3>1
  <2>4. CASE ~\E i \in DOMAIN seen : seen[i] = post
    <3>1. posts = Append(seen, post)
      BY <2>4
    <3> HIDE DEF posts
    <3>2. /\ posts \in Seq(State) /\ Len(posts) = Len(seen) + 1
          /\ DOMAIN posts = 1 .. (Len(seen) + 1)
          /\ posts[Len(seen) + 1] = post
          /\ \A i \in 1 .. Len(seen) : posts[i] = seen[i]
      BY <1>2, <3>1
    <3>3. 1 .. (Len(seen) + 1) = 1 .. Len(seen) \cup {Len(seen) + 1}
      BY <1>2
    <3>4. {posts[i] : i \in DOMAIN posts} = {seen[i] : i \in DOMAIN seen} \cup {post}
      BY <1>2, <3>2, <3>3
    <3>5. seen = <<>> => Len(seen) = 0
      OBVIOUS
    <3> QED
      BY <1>2, <2>1, <2>2, <3>2, <3>4, <3>5
  <2> QED
    BY <2>3, <2>4
<1>4. key \in DOMAIN old => seen = old[key]
  OBVIOUS
<1>5. key \notin DOMAIN old => {seen[i] : i \in DOMAIN seen} = {}
  OBVIOUS
<1>6. key \in State \X Proc /\ key[1] = s /\ key[2] = p
  OBVIOUS
<1> HIDE DEF key, seen, posts, old
<1>7. /\ DOMAIN ve = DOMAIN old \cup {key}
      /\ ve[key] = posts
      /\ \A k \in DOMAIN old : k # key => ve[k] = old[k]
      /\ ve = [k \in DOMAIN ve |-> ve[k]]
  OBVIOUS
<1> HIDE DEF ve
<1>8. Table(old)
  BY DEF old
<1>9. Table(ve) /\ Grows(old, ve)
  BY <1>3, <1>6, <1>7, <1>8 DEF Table, Grows
<1>10. EdgesIn(ve) = EdgesIn(old) \cup {<<s, p, post>>}
  <2> DEFINE out(t, k) == {<<k[1], k[2], t[k][i]>> : i \in DOMAIN t[k]}
  <2>1. out(ve, key) = {<<s, p, seen[i]>> : i \in DOMAIN seen} \cup {<<s, p, post>>}
    BY <1>3, <1>6, <1>7
  <2>2. \A k \in DOMAIN old : k # key => out(ve, k) = out(old, k)
    BY <1>7
  <2>3. key \in DOMAIN old => out(old, key) = {<<s, p, seen[i]>> : i \in DOMAIN seen}
    BY <1>4, <1>6
  <2>4. key \notin DOMAIN old => {<<s, p, seen[i]>> : i \in DOMAIN seen} = {}
    BY <1>5
  <2>5. /\ EdgesIn(ve) = UNION {out(ve, k) : k \in DOMAIN ve}
        /\ EdgesIn(old) = UNION {out(old, k) : k \in DOMAIN old}
    BY DEF EdgesIn
  <2> HIDE DEF out
  <2> QED
    BY <1>7, <2>1, <2>2, <2>3, <2>4, <2>5
<1> QED
  BY <1>1, <1>3, <1>7, <1>9, <1>10 DEF old, key

-----------------------------------------------------------------------------
(* The inductive invariant.                                                *)

\* What a call keeps while it runs, it forgets when it returns; the callers
\* of next_sub other than next() are remembered in sampled.
Shape ==
    /\ pc # "sub" => rtn = <<>> /\ seed = <<>> /\ curr_path = <<>>
    /\ pc = "sub" /\ mode = "sample" => sampled
    /\ pc = "loop" => mode = "next"
    /\ calls > 0 => root_states # {}
    /\ pc # "idle" => calls > 0

\* The live instance is somewhere the program can be, in a state that has been
\* seen; what is recorded is the program's.
Grounded ==
    /\ conf # NoConf => conf \in Reachable(prog) /\ prog.view[conf] \in KnownStates
    /\ root_states \subseteq {prog.view[c] : c \in prog.init}
    /\ RecordedEdges \subseteq Edges(prog)

\* The state every instance of a deterministic program starts in.
Start == prog.view[CHOOSE c \in prog.init : TRUE]

\* Where the visited edges lead is where the instance is.
OnTrack == conf # NoConf => Replay(Start, curr_path) = prog.view[conf]

\* All but the last process of the path leads to a configuration in which the
\* last one can run.
Leads(path) ==
    path # <<>> =>
        \E c \in Reachable(prog) :
            /\ path[Len(path)] \in Available(prog, c)
            /\ Replay(Start, AllButLast(path)) = prog.view[c]

Collecting == IF mode = "next" THEN Elems(rtn) \cup {seed} ELSE {}

PathsLead == \A path \in Elems(queue) \cup Collecting : Leads(path)

\* Until the seed has been followed, what it leads to has not been visited.
SeedAhead ==
    pc = "sub" /\ mode = "next" =>
        /\ Compatible(seed, curr_path)
        /\ Len(curr_path) < Len(seed) => Replay(Start, seed) = Unvisited

Guided ==
    Deterministic(prog) /\ Faithful(prog) => OnTrack /\ PathsLead /\ SeedAhead

IInv == TypeOK /\ Shape /\ Grounded /\ Guided /\ FrontierCovered

-----------------------------------------------------------------------------
(* Types.                                                                  *)

\* visited_edges is a table of edges.
LEMMA TableOfTypeOK == TypeOK => Table(visited_edges)
BY DEF TypeOK, Table

\* A fresh instance starts in an initial configuration.
LEMMA InstantiateType ==
    ASSUME TypeOK, NEW path \in Path, NEW m \in {"next", "sample"},
           Instantiate(path, m), queue' \in Seq(Path),
           iter_left' \in Nat \cup {Unlimited}, calls' \in Nat,
           sampled' \in BOOLEAN
    PROVE  TypeOK' /\ conf' \in prog.init
<1>1. conf' \in prog.init /\ prog.init \subseteq Conf
  BY DEF Instantiate, TypeOK, Program
<1>2. conf' \in Conf /\ conf' # NoConf /\ prog.view[conf'] \in State
  BY <1>1, NoConfAssumption DEF TypeOK, Program
<1>3. root_states' \subseteq State /\ instantiation_ctr' \in Nat
  BY <1>2 DEF Instantiate, TypeOK
<1>4. <<>> \in Path /\ <<>> \in Seq(Path)
  BY DEF Path
<1>5. visited_edges' = visited_edges /\ prog' = prog /\ is_depth_first' = is_depth_first
  BY DEF Instantiate
<1>6. pc' = "sub" /\ mode' = m /\ seed' = path /\ curr_path' = <<>> /\ rtn' = <<>>
  BY DEF Instantiate
<1> QED
  BY <1>1, <1>2, <1>3, <1>4, <1>5, <1>6 DEF TypeOK

\* Types: next().
LEMMA CallNextType ==
    ASSUME TypeOK, NEW k \in MaxIters, CallNext(k)
    PROVE  TypeOK' /\ conf' \in prog.init
<1>1. <<>> \in Path
  BY DEF Path
<1>2. /\ queue' \in Seq(Path) /\ calls' \in Nat /\ sampled' \in BOOLEAN
      /\ iter_left' \in Nat \cup {Unlimited} /\ Instantiate(<<>>, "next")
  BY BoundsAssumption DEF CallNext, TypeOK
<1> QED
  BY <1>1, <1>2, InstantiateType

\* Types: the user's own next_sub().
LEMMA CallNextSubType ==
    ASSUME TypeOK, NEW path \in Seeds, CallNextSub(path)
    PROVE  TypeOK' /\ conf' \in prog.init
<1>1. path \in Path
  BY BoundsAssumption DEF Path
<1>2. /\ queue' \in Seq(Path) /\ calls' \in Nat /\ sampled' \in BOOLEAN
      /\ iter_left' \in Nat \cup {Unlimited} /\ Instantiate(path, "sample")
  BY DEF CallNextSub, TypeOK
<1> QED
  BY <1>1, <1>2, InstantiateType

\* max_iter_count is not counted below zero.
LEMMA CountdownType ==
    ASSUME TypeOK, More PROVE Countdown \in Nat \cup {Unlimited}
BY BoundsAssumption DEF TypeOK, More, Countdown

\* Types: next() runs the head of its queue.
LEMMA RunNextType ==
    ASSUME TypeOK, RunNext
    PROVE  TypeOK' /\ conf' \in prog.init
<1>1. queue \in Seq(Path) /\ queue # <<>>
  BY DEF RunNext, More, TypeOK
<1>2. Head(queue) \in Path /\ Tail(queue) \in Seq(Path)
  BY <1>1
<1>3. /\ queue' \in Seq(Path) /\ calls' \in Nat /\ sampled' \in BOOLEAN
      /\ iter_left' \in Nat \cup {Unlimited} /\ Instantiate(Head(queue), "next")
  BY <1>2, CountdownType DEF RunNext, TypeOK
<1> QED
  BY <1>2, <1>3, InstantiateType

\* What a step does, once the process it runs is named.
StepTakes(x) ==
    /\ x \in Candidates /\ x \in Proc
    /\ conf \in Conf /\ conf # NoConf /\ prog.view[conf] \in State
    /\ conf' \in prog.step[conf][x]
    /\ conf' \in Conf /\ prog.view[conf'] \in State
    /\ curr_path' = Append(curr_path, x)
    /\ visited_edges' = Recorded(<<prog.view[conf], x>>, prog.view[conf'])
    /\ rtn' \in Seq(Path)
    /\ Elems(rtn') = Elems(rtn) \cup {Extended(y) : y \in Candidates}
    /\ \A y \in Candidates : y = x \/ Before(x, y)

\* Every iteration of next_sub takes one process.
LEMMA StepFacts ==
    ASSUME TypeOK, Step
    PROVE  \E x \in Proc : StepTakes(x)
<1>1. PICK order \in Orders(Candidates) :
          /\ rtn' = Collected(order)
          /\ conf' \in prog.step[conf][order[1]]
          /\ curr_path' = Extended(order[1])
          /\ visited_edges' = Recorded(PreStateKey(order[1]), prog.view[conf'])
  BY DEF Step
<1>2. Candidates # {}
  BY DEF Step
<1>3. conf \in Conf /\ conf # NoConf
  BY DEF Step, TypeOK
<1>4. prog.view[conf] \in State
  BY <1>3 DEF TypeOK, Program
<1>5. /\ order[1] \in Candidates /\ order[1] \in Proc
      /\ \A y \in Candidates : y = order[1] \/ Before(order[1], y)
  BY <1>2, CandidatesOrdered
<1>6. conf' \in Conf
  <2>1. prog.step[conf][order[1]] \subseteq Conf
    BY <1>3, <1>5 DEF TypeOK, Program
  <2> QED
    BY <1>1, <2>1
<1>7. prog.view[conf'] \in State
  BY <1>6 DEF TypeOK, Program
<1>8. /\ rtn' \in Seq(Path)
      /\ Elems(rtn') = Elems(rtn) \cup {Extended(y) : y \in Candidates}
  BY <1>1, <1>2, CollectedElems
<1>9. /\ curr_path' = Append(curr_path, order[1])
      /\ visited_edges' = Recorded(<<prog.view[conf], order[1]>>, prog.view[conf'])
  BY <1>1 DEF Extended, PreStateKey
<1>10. StepTakes(order[1])
  BY <1>1, <1>3, <1>4, <1>5, <1>6, <1>7, <1>8, <1>9 DEF StepTakes
<1> QED
  BY <1>5, <1>10

\* Types: an iteration of next_sub.
LEMMA StepType ==
    ASSUME TypeOK, Step PROVE TypeOK'
<1>1. PICK x \in Proc : StepTakes(x)
  BY StepFacts
<1>2. /\ Table(visited_edges')
      /\ visited_edges' = [key \in DOMAIN visited_edges' |-> visited_edges'[key]]
  BY <1>1, TableOfTypeOK, RecordedFacts DEF StepTakes
<1>3. curr_path' \in Path
  BY <1>1 DEF StepTakes, TypeOK, Path
<1>4. conf' \in Conf /\ conf' # NoConf /\ rtn' \in Seq(Path)
  BY <1>1, NoConfAssumption DEF StepTakes
<1> QED
  BY <1>2, <1>3, <1>4 DEF Step, TypeOK, Table

\* Types: next_sub returns.
LEMMA FinishType ==
    ASSUME TypeOK, Finish PROVE TypeOK'
<1>1. <<>> \in Path /\ <<>> \in Seq(Path)
  BY DEF Path
<1>2. Pushed \in Seq(Path)
  BY PushedElems DEF TypeOK
<1>3. CASE mode = "next"
  BY <1>1, <1>2, <1>3 DEF Finish, TypeOK
<1>4. CASE mode # "next"
  BY <1>1, <1>4 DEF Finish, TypeOK
<1> QED
  BY <1>3, <1>4

\* Types: next() drops the head of its queue.
LEMMA SkipType ==
    ASSUME TypeOK, Skip PROVE TypeOK'
<1>1. queue \in Seq(Path) /\ queue # <<>>
  BY DEF Skip, More, TypeOK
<1>2. Tail(queue) \in Seq(Path)
  BY <1>1
<1> QED
  BY <1>2, CountdownType DEF Skip, TypeOK

\* Types: next() returns.
LEMMA ReturnType ==
    ASSUME TypeOK, Return PROVE TypeOK'
BY DEF Return, TypeOK, explored, run

\* Types: nothing happens.
LEMMA StutterType ==
    ASSUME TypeOK, UNCHANGED vars PROVE TypeOK'
BY DEF TypeOK, vars, explored, run

\* Types: a new Visitor.
LEMMA InitType ==
    ASSUME Init PROVE TypeOK
<1>1. prog \in Program
  BY ProgramsAssumption DEF Init
<1>2. <<>> \in Path /\ <<>> \in Seq(Path)
  BY DEF Path
<1>3. DOMAIN visited_edges = {}
  BY DEF Init
<1>4. visited_edges = [key \in DOMAIN visited_edges |-> visited_edges[key]]
  BY DEF Init
<1>5. pc = "idle" /\ mode = "next" /\ iter_left = 0 /\ calls = 0 /\ sampled = FALSE
      /\ is_depth_first \in BOOLEAN /\ conf = NoConf /\ root_states = {}
      /\ instantiation_ctr = 0
  BY DEF Init
<1>6. queue \in Seq(Path) /\ rtn \in Seq(Path) /\ seed \in Path /\ curr_path \in Path
  BY <1>2 DEF Init
<1> QED
  BY <1>1, <1>3, <1>4, <1>5, <1>6 DEF TypeOK

\* Every variable keeps its type, so that what next_sub returns is paths of
\* process ids and an instance is alive exactly while next_sub runs.
THEOREM TypeCorrect == Spec => []TypeOK
<1>1. Init => TypeOK
  BY InitType
<1>2. TypeOK /\ [Next]_vars => TypeOK'
  BY CallNextType, CallNextSubType, StepType, FinishType, SkipType, RunNextType,
     ReturnType, StutterType
  DEF Next, Internal
<1> QED
  BY <1>1, <1>2, PTL DEF Spec

-----------------------------------------------------------------------------
(* What holds of every program: Shape and Grounded.                        *)

\* The recorded graph, before and after a step, is that of the table.
LEMMA RecordedEdgesIn ==
    /\ RecordedEdges = EdgesIn(visited_edges)
    /\ RecordedEdges' = EdgesIn(visited_edges')
BY DEF RecordedEdges, EdgesIn

\* A step adds its edge, and no other, to the recorded graph.
LEMMA RecordsStep ==
    ASSUME TypeOK, NEW x \in Proc, StepTakes(x)
    PROVE  /\ Table(visited_edges')
           /\ Grows(visited_edges, visited_edges')
           /\ DOMAIN visited_edges'
                = DOMAIN visited_edges \cup {<<prog.view[conf], x>>}
           /\ RecordedEdges'
                = RecordedEdges \cup {<<prog.view[conf], x, prog.view[conf']>>}
           /\ <<prog.view[conf], x>> \notin DOMAIN visited_edges
                => visited_edges'[<<prog.view[conf], x>>][1] = prog.view[conf']
BY TableOfTypeOK, RecordedFacts, RecordedEdgesIn DEF StepTakes

\* A new Visitor has no call in progress.
LEMMA ShapeInit == Init => Shape
BY DEF Init, Shape

\* Every step keeps the shape of the call in progress.
LEMMA ShapeNext ==
    ASSUME TypeOK, Shape, [Next]_vars PROVE Shape'
<1> USE DEF Shape
<1>1. ASSUME NEW k \in MaxIters, CallNext(k) PROVE Shape'
  <2>1. pc' = "sub" /\ mode' = "next" /\ root_states' # {}
    BY <1>1 DEF CallNext, Instantiate
  <2>2. calls' > 0
    BY <1>1 DEF CallNext, TypeOK
  <2> QED
    BY <2>1, <2>2
<1>2. ASSUME NEW path \in Seeds, CallNextSub(path) PROVE Shape'
  <2>1. pc' = "sub" /\ sampled' /\ root_states' # {}
    BY <1>2 DEF CallNextSub, Instantiate
  <2>2. calls' > 0
    BY <1>2 DEF CallNextSub, TypeOK
  <2> QED
    BY <2>1, <2>2
<1>3. CASE Step
  BY <1>3 DEF Step
<1>4. CASE Finish
  BY <1>4 DEF Finish, TypeOK
<1>5. CASE Skip
  BY <1>5 DEF Skip
<1>6. CASE RunNext
  BY <1>6 DEF RunNext, Instantiate, TypeOK
<1>7. CASE Return
  BY <1>7 DEF Return, explored, run
<1>8. CASE UNCHANGED vars
  BY <1>8 DEF vars, explored, run
<1> QED
  BY <1>1, <1>2, <1>3, <1>4, <1>5, <1>6, <1>7, <1>8 DEF Next, Internal

\* An instance starts where the program can start.
LEMMA GroundedInstantiate ==
    ASSUME TypeOK, Grounded, NEW path, NEW m, Instantiate(path, m)
    PROVE  Grounded'
<1>1. /\ conf' \in prog.init /\ prog' = prog /\ visited_edges' = visited_edges
      /\ root_states' = root_states \cup {prog.view[conf']}
  BY DEF Instantiate
<1>2. conf' \in Reachable(prog)
  BY <1>1, InitReachable DEF TypeOK
<1>3. RecordedEdges' = RecordedEdges
  BY <1>1, RecordedEdgesIn
<1>4. prog.view[conf'] \in KnownStates'
  BY <1>1 DEF KnownStates
<1> QED
  BY <1>1, <1>2, <1>3, <1>4 DEF Grounded

\* A step of the instance is a step of the program.
LEMMA GroundedStep ==
    ASSUME TypeOK, Grounded, Step PROVE Grounded'
<1>1. PICK x \in Proc : StepTakes(x)
  BY StepFacts
<1>2. prog' = prog /\ root_states' = root_states
  BY DEF Step
<1>3. conf \in Reachable(prog)
  BY <1>1 DEF StepTakes, Grounded
<1>4. /\ conf' \in Reachable(prog)
      /\ <<prog.view[conf], x, prog.view[conf']>> \in Edges(prog)
  BY <1>1, <1>3, StepReachable, StepIsEdge DEF StepTakes, TypeOK
<1>5. RecordedEdges'
        = RecordedEdges \cup {<<prog.view[conf], x, prog.view[conf']>>}
  BY <1>1, RecordsStep
<1>6. prog.view[conf'] \in KnownStates'
  <2> DEFINE e == <<prog.view[conf], x, prog.view[conf']>>
  <2>1. e \in RecordedEdges' /\ e[3] = prog.view[conf']
    BY <1>5
  <2> HIDE DEF e
  <2> QED
    BY <2>1 DEF KnownStates
<1> QED
  BY <1>2, <1>4, <1>5, <1>6 DEF Grounded

\* The other actions make no instance and record nothing.
LEMMA GroundedRest ==
    ASSUME Grounded, prog' = prog, visited_edges' = visited_edges,
           root_states' = root_states, conf' \in {conf, NoConf}
    PROVE  Grounded'
<1>1. RecordedEdges' = RecordedEdges
  BY RecordedEdgesIn
<1>2. KnownStates' = KnownStates
  BY <1>1 DEF KnownStates
<1> QED
  BY <1>1, <1>2 DEF Grounded

\* A new Visitor has recorded nothing.
LEMMA GroundedInit == Init => Grounded
<1> SUFFICES ASSUME Init PROVE Grounded
  OBVIOUS
<1>1. RecordedEdges = {}
  BY DEF Init, RecordedEdges
<1> QED
  BY <1>1 DEF Init, Grounded

\* Every step keeps to what the program can do.
LEMMA GroundedNext ==
    ASSUME TypeOK, Grounded, [Next]_vars PROVE Grounded'
<1>1. ASSUME NEW k \in MaxIters, CallNext(k) PROVE Grounded'
  BY <1>1, GroundedInstantiate DEF CallNext
<1>2. ASSUME NEW path \in Seeds, CallNextSub(path) PROVE Grounded'
  BY <1>2, GroundedInstantiate DEF CallNextSub
<1>3. CASE Step
  BY <1>3, GroundedStep
<1>4. CASE Finish
  BY <1>4, GroundedRest DEF Finish
<1>5. CASE Skip
  BY <1>5, GroundedRest DEF Skip
<1>6. CASE RunNext
  BY <1>6, GroundedInstantiate DEF RunNext
<1>7. CASE Return
  BY <1>7, GroundedRest DEF Return, explored, run
<1>8. CASE UNCHANGED vars
  BY <1>8, GroundedRest DEF vars, explored, run
<1> QED
  BY <1>1, <1>2, <1>3, <1>4, <1>5, <1>6, <1>7, <1>8 DEF Next, Internal

-----------------------------------------------------------------------------
(* What holds of deterministic programs whose labels tell their            *)
(* configurations apart: Guided.                                           *)

\* A deterministic program starts in one state.
LEMMA StartFacts ==
    ASSUME TypeOK, Deterministic(prog)
    PROVE  /\ Start \in State
           /\ \A c \in prog.init : prog.view[c] = Start
<1>1. prog.init \subseteq Conf /\ prog.init # {}
  BY DEF TypeOK, Program
<1>2. (CHOOSE c \in prog.init : TRUE) \in prog.init
  BY <1>1
<1>3. \A c \in prog.init : c = CHOOSE d \in prog.init : TRUE
  BY <1>2 DEF Deterministic
<1> QED
  BY <1>1, <1>2, <1>3 DEF Start, TypeOK, Program

\* It is the one root state, once an instance has been made.
LEMMA StartIsRoot ==
    ASSUME TypeOK, Shape, Grounded, Deterministic(prog), pc # "idle"
    PROVE  root_states = {Start}
<1>1. root_states \subseteq {Start}
  BY StartFacts DEF Grounded
<1> QED
  BY <1>1 DEF Shape

\* A path is worth running if it leaves the visited edges from there.
LEMMA CanPushPathStart ==
    ASSUME TypeOK, Shape, Grounded, Deterministic(prog), NEW path
    PROVE  /\ CanPushPath(path) => Ends(visited_edges, Start, path) = Unvisited
           /\ pc # "idle" /\ path # <<>> /\ Ends(visited_edges, Start, path) = Unvisited
                => CanPushPath(path)
<1>1. root_states \subseteq {Start}
  BY StartFacts DEF Grounded
<1>2. CanPushPath(path) <=>
        path # <<>> /\ \E root \in root_states : Ends(visited_edges, root, path) = Unvisited
  BY ReplayIsTrail DEF CanPushPath, Ends
<1> QED
  BY <1>1, <1>2, StartIsRoot

\* A visited key was recorded with a step the live instance can repeat.
LEMMA VisitedIsAvailable ==
    ASSUME TypeOK, Grounded, Deterministic(prog), Faithful(prog),
           NEW c \in Reachable(prog), NEW p \in Proc,
           <<prog.view[c], p>> \in DOMAIN visited_edges
    PROVE  /\ p \in Available(prog, c)
           /\ \A d \in prog.step[c][p] :
                 prog.view[d] = visited_edges[<<prog.view[c], p>>][1]
<1> DEFINE key == <<prog.view[c], p>>
           s == visited_edges[key][1]
<1>1. visited_edges[key] \in Seq(State) /\ visited_edges[key] # <<>>
  BY DEF TypeOK
<1>2. 1 \in DOMAIN visited_edges[key]
  BY <1>1
<1>3. <<key[1], key[2], s>> \in RecordedEdges
  BY <1>2 DEF RecordedEdges
<1>4. <<prog.view[c], p, s>> \in Edges(prog)
  BY <1>3 DEF Grounded
<1>5. prog \in Program /\ c \in Conf
  BY ReachableIsConf DEF TypeOK
<1> HIDE DEF s
<1>6. PICK d \in prog.step[c][p] : s = prog.view[d]
  BY <1>4, <1>5, EdgeIsStep
<1>7. \A e \in prog.step[c][p] : e = d
  BY <1>5 DEF Deterministic
<1> QED
  BY <1>6, <1>7 DEF Available, s

\* The next process of the seed can run, and the seed's last process is the
\* first that has not been run there.
LEMMA SeedNext ==
    ASSUME TypeOK, Shape, Grounded, OnTrack, PathsLead, SeedAhead,
           Deterministic(prog), Faithful(prog),
           pc = "sub", mode = "next", Len(curr_path) < Len(seed)
    PROVE  LET y == seed[Len(curr_path) + 1]
           IN  /\ y \in Candidates
               /\ y \in Proc
               /\ Compatible(seed, Extended(y))
               /\ Len(curr_path) + 1 < Len(seed)
                    => <<prog.view[conf], y>> \in DOMAIN visited_edges
<1> DEFINE n == Len(curr_path)
           y == seed[n + 1]
           ve == visited_edges
<1>1. /\ seed \in Path /\ curr_path \in Path /\ n \in Nat /\ Len(seed) \in Nat
      /\ n + 1 \in 1 .. Len(seed) /\ y \in Proc /\ seed # <<>>
  BY DEF TypeOK, Path
<1>2. /\ Table(ve) /\ Start \in State
  BY TableOfTypeOK, StartFacts
<1>3. /\ conf \in Reachable(prog) /\ prog.view[conf] \in State
      /\ Ends(ve, Start, curr_path) = prog.view[conf]
  BY ReplayIsEnds, ReachableIsConf DEF TypeOK, Grounded, OnTrack
<1>4. Ends(ve, Start, seed) = Unvisited
  BY ReplayIsTrail DEF SeedAhead, Ends
<1>5. PICK c \in Reachable(prog) :
        /\ seed[Len(seed)] \in Available(prog, c)
        /\ Ends(ve, Start, AllButLast(seed)) = prog.view[c]
  <2>1. Leads(seed)
    BY DEF PathsLead, Collecting
  <2> QED
    BY <1>1, <2>1, ReplayIsTrail DEF Leads, Ends
<1>6. prog.view[c] \in State /\ prog.view[c] # Unvisited
  BY <1>5, ReachableIsConf, UnvisitedAssumption DEF TypeOK
<1>7. /\ Extended(y) \in Path /\ Len(Extended(y)) = n + 1
      /\ \A i \in 1 .. n : Extended(y)[i] = curr_path[i]
      /\ Extended(y)[n + 1] = y /\ Extended(y) # <<>>
  BY <1>1 DEF Extended, Path
<1>8. \A i \in 1 .. n : seed[i] = curr_path[i]
  BY <1>1 DEF SeedAhead, Compatible
<1>9. \A i \in 1 .. (n + 1) : Extended(y)[i] = seed[i]
  <2>1. \A i \in 1 .. (n + 1) : i \in 1 .. n \/ i = n + 1
    BY <1>1
  <2> QED
    BY <1>7, <1>8, <2>1
<1>10. Compatible(seed, Extended(y))
  <2>1. \A i \in 1 .. Len(seed) : i <= n + 1 => i \in 1 .. (n + 1)
    BY <1>1
  <2> HIDE DEF y, n
  <2> QED
    BY <1>7, <1>9, <2>1 DEF Compatible
<1>11. /\ AllButLast(seed) \in Path /\ Len(AllButLast(seed)) = Len(seed) - 1
       /\ \A i \in 1 .. Len(seed) - 1 : AllButLast(seed)[i] = seed[i]
  BY <1>1, LastProcess
<1>12. Ends(ve, Start, Extended(y)) = Follow(ve, prog.view[conf], y)
  BY <1>1, <1>2, <1>3, EndsAppend DEF Extended
<1> HIDE DEF y, n, ve
<1>13. CASE n + 1 = Len(seed)
  <2>1. AllButLast(seed) = curr_path
    <3>1. Len(AllButLast(seed)) = Len(curr_path)
      BY <1>1, <1>11, <1>13 DEF n
    <3>2. \A i \in 1 .. Len(curr_path) : AllButLast(seed)[i] = curr_path[i]
      BY <1>1, <1>8, <1>11, <1>13 DEF n
    <3> QED
      BY <1>1, <1>11, <3>1, <3>2, SeqEqual DEF Path
  <2>2. c = conf
    BY <1>3, <1>5, <2>1 DEF Faithful
  <2>3. y \in Available(prog, conf)
    BY <1>5, <1>13, <2>2 DEF y
  <2>4. DecideNextPath(y) = Extended(y)
    BY <1>7, <1>13, <1>1 DEF DecideNextPath
  <2>5. Extended(y) = seed
    BY <1>1, <1>7, <1>9, <1>13, SeqEqual DEF Path
  <2>6. CanPushPath(seed)
    BY <1>1, <1>4, CanPushPathStart DEF ve
  <2>7. y \in Candidates
    BY <2>3, <2>4, <2>5, <2>6 DEF Candidates, ShouldPush
  <2> QED
    BY <1>1, <1>10, <1>13, <2>7 DEF n, y
<1>14. CASE n + 1 < Len(seed)
  <2>1. /\ Len(Extended(y)) <= Len(AllButLast(seed))
        /\ \A i \in 1 .. Len(Extended(y)) : Extended(y)[i] = AllButLast(seed)[i]
    BY <1>1, <1>7, <1>9, <1>11, <1>14
  <2>2. Ends(ve, Start, Extended(y)) # Unvisited
    BY <1>2, <1>5, <1>6, <1>7, <1>11, <2>1, EndsUnvisited
  <2>3. <<prog.view[conf], y>> \in DOMAIN ve
    BY <1>2, <1>12, <2>2, FollowKnown
  <2>4. y \in Available(prog, conf)
    BY <1>1, <1>3, <2>3, VisitedIsAvailable DEF ve
  <2>5. DecideNextPath(y) = seed
    BY <1>7, <1>10, <1>14 DEF DecideNextPath
  <2>6. CanPushPath(seed)
    BY <1>1, <1>4, CanPushPathStart DEF ve
  <2>7. y \in Candidates
    BY <2>4, <2>5, <2>6 DEF Candidates, ShouldPush
  <2> QED
    BY <1>1, <1>10, <2>3, <2>7 DEF n, y, ve
<1> QED
  BY <1>1, <1>13, <1>14 DEF n

\* What a path leads to stays when the table grows.
LEMMA LeadsGrows ==
    ASSUME TypeOK, Deterministic(prog), NEW CONSTANT path \in Path, Leads(path),
           prog' = prog, Table(visited_edges'), Grows(visited_edges, visited_edges')
    PROVE  Leads(path)'
<1> SUFFICES ASSUME path # <<>> PROVE Leads(path)'
  BY DEF Leads
<1>1. PICK c \in Reachable(prog) :
        /\ path[Len(path)] \in Available(prog, c)
        /\ Replay(Start, AllButLast(path)) = prog.view[c]
  BY DEF Leads
<1>2. Start \in State /\ Start' = Start
  BY StartFacts DEF Start
<1>3. AllButLast(path) \in Path
  BY LastProcess
<1>4. prog.view[c] # Unvisited
  BY ReachableIsConf, UnvisitedAssumption DEF TypeOK
<1>5. Ends(visited_edges, Start, AllButLast(path)) = prog.view[c]
  BY <1>1, ReplayIsTrail DEF Ends
<1>6. Ends(visited_edges', Start, AllButLast(path)) = prog.view[c]
  BY <1>2, <1>3, <1>4, <1>5, EndsGrows, TableOfTypeOK
<1>7. Replay(Start, AllButLast(path))' = Ends(visited_edges', Start', AllButLast(path))
  BY DEF Replay, Ends, Trail
<1> QED
  BY <1>1, <1>2, <1>6, <1>7 DEF Leads

\* A table grows from itself.
LEMMA GrowsRefl == \A ve : Grows(ve, ve)
BY DEF Grows

\* What is in a sequence of paths is paths.
LEMMA ElemsOfQueue ==
    ASSUME NEW q \in Seq(Path)
    PROVE  Elems(q) \subseteq Path
BY DEF Elems

\* What is queued or collected is paths.
LEMMA CollectingType ==
    ASSUME TypeOK
    PROVE  Elems(queue) \cup Collecting \subseteq Path
BY ElemsOfQueue DEF TypeOK, Collecting

\* What is queued or collected stays good while the table grows.
LEMMA LeadsAll ==
    ASSUME TypeOK, Deterministic(prog), PathsLead,
           prog' = prog, Table(visited_edges'), Grows(visited_edges, visited_edges')
    PROVE  \A path \in Elems(queue) \cup Collecting : Leads(path)'
<1>1. ASSUME NEW CONSTANT path \in Path, Leads(path) PROVE Leads(path)'
  BY <1>1, LeadsGrows
<1>2. Elems(queue) \cup Collecting \subseteq Path
  BY CollectingType
<1> QED
  BY <1>1, <1>2 DEF PathsLead

\* A fresh instance is at the start of a seed worth following.
LEMMA GuidedInstantiate ==
    ASSUME TypeOK, Shape, Grounded, OnTrack, PathsLead, SeedAhead,
           Deterministic(prog), Faithful(prog),
           NEW CONSTANT path \in Path, NEW CONSTANT m \in {"next", "sample"},
           Instantiate(path, m),
           Elems(queue') \subseteq Elems(queue),
           m = "next" => /\ path # <<>> => path \in Elems(queue)
                         /\ path # <<>> => Ends(visited_edges, Start, path) = Unvisited
    PROVE  (OnTrack /\ PathsLead /\ SeedAhead)'
<1>1. /\ conf' \in prog.init /\ prog' = prog /\ visited_edges' = visited_edges
      /\ pc' = "sub" /\ mode' = m /\ seed' = path /\ curr_path' = <<>> /\ rtn' = <<>>
  BY DEF Instantiate
<1>2. /\ Start \in State /\ Start' = Start /\ prog.view[conf'] = Start
      /\ Table(visited_edges) /\ Grows(visited_edges, visited_edges')
  BY <1>1, StartFacts, TableOfTypeOK, GrowsRefl DEF Start
<1>3. OnTrack'
  <2>1. Ends(visited_edges', Start, <<>>) = Start
    BY <1>1, <1>2, EndsEmpty
  <2>2. Replay(Start, curr_path)' = Ends(visited_edges', Start', curr_path')
    BY DEF Replay, Ends, Trail
  <2> QED
    BY <1>1, <1>2, <2>1, <2>2 DEF OnTrack
<1>4. PathsLead'
  <2>1. \A q \in Elems(queue) : Leads(q)'
    BY <1>1, <1>2, LeadsAll
  <2>2. m = "next" => Leads(path)'
    <3>1. CASE path = <<>>
      BY <3>1 DEF Leads
    <3>2. CASE path # <<>>
      BY <2>1, <3>2
    <3> QED
      BY <3>1, <3>2
  <2>3. \A q \in Collecting' : m = "next" /\ q = path
    BY <1>1 DEF Collecting, Elems
  <2>4. \A q \in Elems(queue)' : q \in Elems(queue)
    BY DEF Elems
  <2> QED
    BY <2>1, <2>2, <2>3, <2>4 DEF PathsLead
<1>5. SeedAhead'
  <2>1. Compatible(path, <<>>)
    BY DEF Compatible, Path
  <2>2. ASSUME m = "next", Len(<<>>) < Len(path)
        PROVE  Replay(Start, seed)' = Unvisited
    <3>1. path # <<>>
      BY <2>2
    <3>2. Ends(visited_edges', Start', seed') = Unvisited
      BY <1>1, <1>2, <2>2, <3>1
    <3>3. Replay(Start, seed)' = Ends(visited_edges', Start', seed')
      BY DEF Replay, Ends, Trail
    <3> QED
      BY <3>2, <3>3
  <2>3. Compatible(seed, curr_path)' = Compatible(seed', curr_path')
    BY DEF Compatible
  <2> QED
    BY <1>1, <2>1, <2>2, <2>3 DEF SeedAhead
<1> QED
  BY <1>3, <1>4, <1>5

\* Where a step leads is where the table leads.
LEMMA OnTrackStep ==
    ASSUME TypeOK, Grounded, OnTrack, Deterministic(prog), Faithful(prog), Step,
           NEW CONSTANT x \in Proc, StepTakes(x)
    PROVE  /\ Ends(visited_edges, Start, curr_path) = prog.view[conf]
           /\ Ends(visited_edges', Start, curr_path) = prog.view[conf]
           /\ Ends(visited_edges', Start, curr_path') = prog.view[conf']
<1> DEFINE key == <<prog.view[conf], x>>
           ve == visited_edges
<1>1. /\ Table(ve) /\ Table(ve') /\ Grows(ve, ve')
      /\ DOMAIN ve' = DOMAIN ve \cup {key}
      /\ key \notin DOMAIN ve => ve'[key][1] = prog.view[conf']
  BY RecordsStep, TableOfTypeOK
<1>2. /\ Start \in State /\ curr_path \in Path /\ curr_path' = Append(curr_path, x)
      /\ conf # NoConf /\ conf' \in prog.step[conf][x]
      /\ prog.view[conf] # Unvisited /\ conf \in Reachable(prog)
  BY StartFacts, UnvisitedAssumption DEF TypeOK, StepTakes, Grounded
<1>3. Ends(ve, Start, curr_path) = prog.view[conf]
  BY <1>2, ReplayIsEnds DEF OnTrack, Replay, Ends, Trail
<1>4. Ends(ve', Start, curr_path) = prog.view[conf]
  BY <1>1, <1>2, <1>3, EndsGrows
<1>5. Ends(ve', Start, curr_path') = Follow(ve', prog.view[conf], x)
  BY <1>1, <1>2, <1>4, EndsAppend
<1>6. ve'[key][1] = prog.view[conf']
  <2>1. CASE key \in DOMAIN ve
    <3>1. prog.view[conf'] = ve[key][1]
      BY <1>2, <2>1, VisitedIsAvailable
    <3> QED
      BY <1>1, <2>1, <3>1 DEF Grows
  <2> QED
    BY <1>1, <2>1
<1> QED
  BY <1>1, <1>3, <1>4, <1>5, <1>6 DEF Follow

\* While the seed is followed, the process taken is the seed's.
LEMMA SeedTaken ==
    ASSUME TypeOK, Shape, Grounded, OnTrack, PathsLead, SeedAhead,
           Deterministic(prog), Faithful(prog), mode = "next", Step,
           NEW CONSTANT x \in Proc, StepTakes(x),
           Len(curr_path) < Len(seed)
    PROVE  /\ Compatible(seed, Extended(x))
           /\ Len(curr_path) + 1 < Len(seed)
                => <<prog.view[conf], x>> \in DOMAIN visited_edges
<1> DEFINE y == seed[Len(curr_path) + 1]
<1>1. pc = "sub"
  BY DEF Step
<1>2. /\ y \in Candidates /\ y \in Proc /\ Compatible(seed, Extended(y))
      /\ Len(curr_path) + 1 < Len(seed)
           => <<prog.view[conf], y>> \in DOMAIN visited_edges
  BY <1>1, SeedNext
<1>3. curr_path \in Seq(Proc) /\ seed \in Seq(Proc)
  BY DEF TypeOK, Path
<1>4. ASSUME Compatible(seed, Extended(x)) PROVE x = y
  <2>1. /\ Len(curr_path) + 1 \in 1 .. Len(seed)
        /\ Len(Extended(x)) = Len(curr_path) + 1
        /\ Extended(x)[Len(curr_path) + 1] = x
    BY <1>3 DEF Extended
  <2> QED
    BY <1>4, <2>1 DEF Compatible
<1> HIDE DEF y
<1>5. y = x \/ Before(x, y)
  BY <1>2 DEF StepTakes
<1>6. Compatible(seed, Extended(x))
  BY <1>2, <1>5 DEF Before
<1> QED
  BY <1>2, <1>4, <1>6

\* A step that visits nothing new leaves every path where it was.
LEMMA SameTable ==
    ASSUME NEW ve, Table(ve), NEW we, Table(we), Grows(ve, we),
           DOMAIN we = DOMAIN ve, NEW root \in State, NEW path \in Path,
           Ends(ve, root, path) = Unvisited
    PROVE  Ends(we, root, path) = Unvisited
<1>1. Grows(we, ve)
  BY DEF Grows
<1> QED
  BY <1>1, EndsGrows

\* An iteration of next_sub stays on the seed, and collects good paths.
LEMMA GuidedStep ==
    ASSUME TypeOK, Shape, Grounded, OnTrack, PathsLead, SeedAhead,
           Deterministic(prog), Faithful(prog), Step
    PROVE  (OnTrack /\ PathsLead /\ SeedAhead)'
<1>1. PICK x \in Proc : StepTakes(x)
  BY StepFacts
<1>2. /\ prog' = prog /\ queue' = queue /\ mode' = mode /\ seed' = seed
      /\ pc = "sub" /\ pc' = "sub" /\ Start' = Start
  BY DEF Step, Start
<1>3. /\ Ends(visited_edges, Start, curr_path) = prog.view[conf]
      /\ Ends(visited_edges', Start, curr_path) = prog.view[conf]
      /\ Ends(visited_edges', Start, curr_path') = prog.view[conf']
  BY <1>1, OnTrackStep
<1>4. /\ Table(visited_edges) /\ Table(visited_edges')
      /\ Grows(visited_edges, visited_edges')
      /\ DOMAIN visited_edges' = DOMAIN visited_edges \cup {<<prog.view[conf], x>>}
      /\ Start \in State
  BY <1>1, RecordsStep, TableOfTypeOK, StartFacts
<1>5. OnTrack'
  <2>1. Replay(Start, curr_path)' = Ends(visited_edges', Start', curr_path')
    BY DEF Replay, Ends, Trail
  <2> QED
    BY <1>2, <1>3, <2>1 DEF OnTrack
<1>6. PathsLead'
  <2>1. \A q \in Elems(queue) \cup Collecting : Leads(q)'
    BY <1>2, <1>4, LeadsAll
  <2>2. ASSUME NEW CONSTANT r, NEW y \in Candidates, r = Extended(y) PROVE Leads(r)'
    <3>1. y \in Available(prog, conf) /\ y \in Proc
      BY DEF Candidates, Available
    <3>2. curr_path \in Path
      BY DEF TypeOK
    <3> DEFINE q == Append(curr_path, y)
    <3>3. q # <<>> /\ AllButLast(q) = curr_path /\ q[Len(q)] = y
      BY <3>1, <3>2, AllButLastOfAppend
    <3>4. conf \in Reachable(prog)
      BY <1>1 DEF StepTakes, Grounded
    <3>5. r = q
      BY <2>2 DEF Extended
    <3> HIDE DEF q
    <3>6. Replay(Start, AllButLast(r))' = Ends(visited_edges', Start', AllButLast(r))
      BY DEF Replay, Ends, Trail
    <3> QED
      BY <1>2, <1>3, <3>1, <3>3, <3>4, <3>6, <3>5 DEF Leads
  <2>3. \A q \in Collecting' : q \in Collecting \/ \E y \in Candidates : q = Extended(y)
    <3>1. Elems(rtn)' = Elems(rtn) \cup {Extended(y) : y \in Candidates}
      BY <1>1 DEF StepTakes, Elems
    <3> QED
      BY <1>2, <3>1 DEF Collecting
  <2>4. Elems(queue)' = Elems(queue)
    BY <1>2 DEF Elems
  <2> QED
    BY <2>1, <2>2, <2>3, <2>4 DEF PathsLead
<1>7. SeedAhead'
  <2> SUFFICES ASSUME mode = "next"
               PROVE  /\ Compatible(seed, curr_path')
                      /\ Len(curr_path') < Len(seed)
                           => Ends(visited_edges', Start, seed) = Unvisited
    <3>1. Replay(Start, seed)' = Ends(visited_edges', Start', seed')
      BY DEF Replay, Ends, Trail
    <3>2. Compatible(seed, curr_path)' = Compatible(seed', curr_path')
      BY DEF Compatible
    <3> QED
      BY <1>2, <3>1, <3>2 DEF SeedAhead
  <2>1. /\ curr_path \in Seq(Proc) /\ seed \in Seq(Proc) /\ seed \in Path
        /\ curr_path' = Append(curr_path, x) /\ curr_path' = Extended(x)
        /\ Len(curr_path') = Len(curr_path) + 1
        /\ \A i \in 1 .. Len(curr_path) : curr_path'[i] = curr_path[i]
    BY <1>1 DEF TypeOK, Path, StepTakes, Extended
  <2>2. CASE Len(curr_path) < Len(seed)
    <3>1. /\ Compatible(seed, curr_path')
          /\ Len(curr_path) + 1 < Len(seed)
               => <<prog.view[conf], x>> \in DOMAIN visited_edges
      BY <1>1, <2>1, <2>2, SeedTaken
    <3>2. Ends(visited_edges, Start, seed) = Unvisited
      BY <1>2, <2>2 DEF SeedAhead, Replay, Ends, Trail
    <3>3. ASSUME Len(curr_path') < Len(seed)
          PROVE  Ends(visited_edges', Start, seed) = Unvisited
      <4>1. DOMAIN visited_edges' = DOMAIN visited_edges
        BY <1>4, <2>1, <3>1, <3>3
      <4> QED
        BY <1>4, <2>1, <3>2, <4>1, SameTable
    <3> QED
      BY <3>1, <3>3
  <2>3. CASE ~(Len(curr_path) < Len(seed))
    <3>1. \A i \in 1 .. Len(seed) : i <= Len(curr_path) /\ i \in 1 .. Len(curr_path)
      BY <2>1, <2>3
    <3>2. \A i \in 1 .. Len(seed) : curr_path'[i] = curr_path[i]
      BY <2>1, <3>1
    <3>3. Compatible(seed, curr_path')
      BY <1>2, <3>1, <3>2 DEF SeedAhead, Compatible
    <3>4. ~(Len(curr_path') < Len(seed))
      BY <2>1, <2>3
    <3> QED
      BY <3>3, <3>4
  <2> QED
    BY <2>2, <2>3
<1> QED
  BY <1>5, <1>6, <1>7

\* The actions that neither make an instance nor step one: what is still
\* collected was collected before.
LEMMA GuidedRest ==
    ASSUME TypeOK, OnTrack, PathsLead, SeedAhead, Deterministic(prog),
           prog' = prog, visited_edges' = visited_edges,
           \/ pc' # "sub" /\ conf' = NoConf
           \/ UNCHANGED <<pc, mode, seed, curr_path, conf>>,
           \A path \in Elems(queue') \cup Collecting' :
               path = <<>> \/ path \in Elems(queue) \cup Collecting
    PROVE  (OnTrack /\ PathsLead /\ SeedAhead)'
<1>1. Start' = Start
  BY DEF Start
<1>2. \A path : Replay(Start, path) = Ends(visited_edges, Start, path)
  BY DEF Replay, Ends, Trail
<1>3. OnTrack'
  <2>1. Replay(Start, curr_path)' = Ends(visited_edges', Start', curr_path')
    BY DEF Replay, Ends, Trail
  <2> QED
    BY <1>1, <1>2, <2>1 DEF OnTrack
<1>4. PathsLead'
  <2>1. \A path \in Elems(queue) \cup Collecting : Leads(path)'
    BY LeadsAll, TableOfTypeOK, GrowsRefl
  <2>2. Leads(<<>>)'
    BY DEF Leads
  <2>3. Elems(queue)' = Elems(queue')
    BY DEF Elems
  <2> QED
    BY <2>1, <2>2, <2>3 DEF PathsLead
<1>5. SeedAhead'
  <2>1. Replay(Start, seed)' = Ends(visited_edges', Start', seed')
    BY DEF Replay, Ends, Trail
  <2>2. Compatible(seed, curr_path)' = Compatible(seed', curr_path')
    BY DEF Compatible
  <2> QED
    BY <1>1, <1>2, <2>1, <2>2 DEF SeedAhead
<1> QED
  BY <1>3, <1>4, <1>5

\* A queue is its head and its tail.
LEMMA TailElems ==
    ASSUME NEW q \in Seq(Path), q # <<>>
    PROVE  /\ Head(q) \in Elems(q) /\ Head(q) \in Path
           /\ Elems(Tail(q)) \subseteq Elems(q)
           /\ \A path \in Elems(q) : path = Head(q) \/ path \in Elems(Tail(q))
<1>1. /\ DOMAIN q = 1 .. Len(q) /\ Len(q) \in Nat \ {0} /\ Head(q) = q[1]
      /\ Tail(q) \in Seq(Path) /\ Len(Tail(q)) = Len(q) - 1
      /\ \A i \in 1 .. Len(q) - 1 : Tail(q)[i] = q[i + 1]
  OBVIOUS
<1>2. DOMAIN Tail(q) = 1 .. Len(q) - 1
  BY <1>1
<1>3. \A i \in 1 .. Len(q) - 1 : i + 1 \in 1 .. Len(q)
  BY <1>1
<1>4. ASSUME NEW i \in 1 .. Len(q), i # 1
      PROVE  i - 1 \in 1 .. Len(q) - 1 /\ Tail(q)[i - 1] = q[i]
  <2>1. i - 1 \in 1 .. Len(q) - 1 /\ (i - 1) + 1 = i
    BY <1>1, <1>4
  <2> QED
    BY <1>1, <2>1
<1>5. Head(q) \in Elems(q)
  BY <1>1 DEF Elems
<1>6. Elems(Tail(q)) \subseteq Elems(q)
  BY <1>1, <1>2, <1>3 DEF Elems
<1>7. ASSUME NEW i \in 1 .. Len(q)
      PROVE  q[i] = Head(q) \/ q[i] \in Elems(Tail(q))
  BY <1>1, <1>2, <1>4 DEF Elems
<1> QED
  BY <1>1, <1>5, <1>6, <1>7 DEF Elems

\* The end of next_sub queues only what was collected.
LEMMA GuidedFinish ==
    ASSUME TypeOK, OnTrack, PathsLead, SeedAhead, Deterministic(prog), Finish
    PROVE  (OnTrack /\ PathsLead /\ SeedAhead)'
<1>1. /\ prog' = prog /\ visited_edges' = visited_edges /\ mode' = mode
      /\ pc' # "sub" /\ conf' = NoConf /\ rtn' = <<>> /\ seed' = <<>>
  BY DEF Finish
<1>2. Collecting' \subseteq {<<>>}
  BY <1>1 DEF Collecting, Elems
<1>3. Elems(queue') \subseteq Elems(queue) \cup Collecting
  <2>1. CASE mode = "next"
    <3>1. Elems(Pushed) \subseteq Elems(queue) \cup Elems(rtn)
      BY PushedElems DEF TypeOK
    <3> QED
      BY <2>1, <3>1 DEF Finish, Collecting
  <2>2. CASE mode # "next"
    BY <2>2 DEF Finish
  <2> QED
    BY <2>1, <2>2
<1> QED
  BY <1>1, <1>2, <1>3, GuidedRest

\* Dropping the head of the queue adds nothing to it.
LEMMA GuidedSkip ==
    ASSUME TypeOK, OnTrack, PathsLead, SeedAhead, Deterministic(prog), Skip
    PROVE  (OnTrack /\ PathsLead /\ SeedAhead)'
<1>1. queue \in Seq(Path) /\ queue # <<>> /\ queue' = Tail(queue)
  BY DEF Skip, More, TypeOK
<1>2. Elems(queue') \subseteq Elems(queue)
  BY <1>1, TailElems
<1>3. /\ prog' = prog /\ visited_edges' = visited_edges
      /\ UNCHANGED <<pc, mode, seed, curr_path, conf, rtn>>
  BY DEF Skip
<1>4. Collecting' = Collecting
  BY <1>3 DEF Collecting, Elems
<1> QED
  BY <1>2, <1>3, <1>4, GuidedRest

\* The return of next() changes nothing that guides it.
LEMMA GuidedReturn ==
    ASSUME TypeOK, OnTrack, PathsLead, SeedAhead, Deterministic(prog),
           Return \/ UNCHANGED vars
    PROVE  (OnTrack /\ PathsLead /\ SeedAhead)'
<1>1. /\ prog' = prog /\ visited_edges' = visited_edges /\ queue' = queue
      /\ UNCHANGED <<mode, seed, curr_path, conf, rtn>>
      /\ pc' = pc \/ (pc = "loop" /\ pc' = "idle")
  BY DEF Return, vars, explored, run
<1>2. Collecting' = Collecting
  BY <1>1 DEF Collecting, Elems
<1>3. \/ pc' # "sub" /\ conf' = NoConf
      \/ UNCHANGED <<pc, mode, seed, curr_path, conf>>
  BY <1>1 DEF TypeOK
<1> QED
  BY <1>1, <1>2, <1>3, GuidedRest

\* The head of the queue is a seed worth following.
LEMMA GuidedRunNext ==
    ASSUME TypeOK, Shape, Grounded, OnTrack, PathsLead, SeedAhead,
           Deterministic(prog), Faithful(prog), RunNext
    PROVE  (OnTrack /\ PathsLead /\ SeedAhead)'
<1>1. queue \in Seq(Path) /\ queue # <<>> /\ queue' = Tail(queue)
  BY DEF RunNext, More, TypeOK
<1>2. /\ Head(queue) \in Elems(queue) /\ Head(queue) \in Path
      /\ Elems(queue') \subseteq Elems(queue)
  BY <1>1, TailElems
<1>3. PICK path \in Path : path = Head(queue)
  BY <1>2
<1>4. Instantiate(path, "next") /\ CanPushPath(path)
  BY <1>3 DEF RunNext, ShouldRun
<1>5. Ends(visited_edges, Start, path) = Unvisited
  BY <1>4, CanPushPathStart
<1> QED
  BY <1>2, <1>3, <1>4, <1>5, GuidedInstantiate

\* Every step keeps the Visitor guided.
LEMMA GuidedNext ==
    ASSUME TypeOK, Shape, Grounded, Guided, [Next]_vars PROVE Guided'
<1> SUFFICES ASSUME Deterministic(prog), Faithful(prog)
             PROVE  (OnTrack /\ PathsLead /\ SeedAhead)'
  <2>1. prog' = prog
    BY DEF Next, Internal, CallNext, CallNextSub, Instantiate, Step, Finish, Skip,
           RunNext, Return, vars
  <2>2. Deterministic(prog)' = Deterministic(prog) /\ Faithful(prog)' = Faithful(prog)
    BY <2>1 DEF Deterministic, Faithful, Reachable, ClosedUnderSteps
  <2> QED
    BY <2>2 DEF Guided
<1>0. OnTrack /\ PathsLead /\ SeedAhead
  BY DEF Guided
<1>1. ASSUME NEW k \in MaxIters, CallNext(k)
      PROVE  (OnTrack /\ PathsLead /\ SeedAhead)'
  <2>1. <<>> \in Path /\ Instantiate(<<>>, "next") /\ queue' = queue
    BY <1>1 DEF CallNext, Path
  <2> QED
    BY <1>0, <2>1, GuidedInstantiate
<1>2. ASSUME NEW path \in Seeds, CallNextSub(path)
      PROVE  (OnTrack /\ PathsLead /\ SeedAhead)'
  <2>1. path \in Path /\ Instantiate(path, "sample") /\ queue' = queue
    BY <1>2, BoundsAssumption DEF CallNextSub, Path
  <2> QED
    BY <1>0, <2>1, GuidedInstantiate
<1>3. CASE Step
  BY <1>0, <1>3, GuidedStep
<1>4. CASE Finish
  BY <1>0, <1>4, GuidedFinish
<1>5. CASE Skip
  BY <1>0, <1>5, GuidedSkip
<1>6. CASE RunNext
  BY <1>0, <1>6, GuidedRunNext
<1>7. CASE Return \/ UNCHANGED vars
  BY <1>0, <1>7, GuidedReturn
<1> QED
  BY <1>1, <1>2, <1>3, <1>4, <1>5, <1>6, <1>7 DEF Next, Internal

\* A new Visitor has nothing to follow.
LEMMA GuidedInit == Init => Guided
<1> SUFFICES ASSUME Init PROVE OnTrack /\ PathsLead /\ SeedAhead
  BY DEF Guided
<1>1. Elems(queue) = {} /\ Collecting = {<<>>}
  BY DEF Init, Elems, Collecting
<1> QED
  BY <1>1 DEF Init, OnTrack, PathsLead, Leads, SeedAhead

-----------------------------------------------------------------------------
(* The frontier.                                                           *)

Regular == Deterministic(prog) /\ Faithful(prog)

\* path is followed to what is seen in c, and runs p there.
Reaches(path, c, p) ==
    /\ path # <<>> /\ path[Len(path)] = p
    /\ \E root \in root_states : Replay(root, AllButLast(path)) = prog.view[c]

Covered(c, p) ==
    \/ <<prog.view[c], p>> \in DOMAIN visited_edges
    \/ \E path \in Pending : Reaches(path, c, p)

\* FrontierCovered in the words of this section.
LEMMA FrontierIsCovered ==
    FrontierCovered <=>
        (Regular /\ ~sampled =>
            \A c \in Reachable(prog) : prog.view[c] \in KnownStates =>
                \A p \in Available(prog, c) : Covered(c, p))
BY DEF FrontierCovered, Regular, Covered, Reaches

\* The processes available where the live instance is.
HereCovered ==
    Regular /\ conf # NoConf => \A p \in Available(prog, conf) : Covered(conf, p)

\* The instance itself is about to run what has not been run where it is.
LEMMA HereIsCovered ==
    TypeOK /\ Shape /\ Grounded /\ Guided => HereCovered
<1> SUFFICES ASSUME TypeOK, Shape, Grounded, Guided, Regular, conf # NoConf,
                    NEW p \in Available(prog, conf),
                    <<prog.view[conf], p>> \notin DOMAIN visited_edges
             PROVE  \E path \in Pending : Reaches(path, conf, p)
  BY DEF HereCovered, Covered
<1> DEFINE q == Extended(p)
           ve == visited_edges
<1>1. /\ Deterministic(prog) /\ Faithful(prog) /\ pc = "sub" /\ p \in Proc
      /\ curr_path \in Path /\ seed \in Path
  BY DEF Regular, TypeOK, Available
<1>2. /\ Start \in State /\ Table(ve) /\ root_states = {Start}
  BY <1>1, StartFacts, TableOfTypeOK, StartIsRoot
<1>3. /\ q # <<>> /\ AllButLast(q) = curr_path /\ q[Len(q)] = p /\ q \in Path
  BY <1>1, AllButLastOfAppend DEF Extended
<1>4. Ends(ve, Start, curr_path) = prog.view[conf]
  BY <1>1 DEF Guided, OnTrack, Replay, Ends, Trail
<1>5. Ends(ve, Start, q) = Unvisited
  <2>1. Ends(ve, Start, q) = Follow(ve, prog.view[conf], p)
    BY <1>1, <1>2, <1>4, EndsAppend DEF Extended
  <2> QED
    BY <1>2, <2>1, FollowKnown
<1> HIDE DEF q, ve
<1>6. Ends(ve, Start, DecideNextPath(p)) = Unvisited /\ DecideNextPath(p) # <<>>
  <2>1. CASE DecideNextPath(p) = q
    BY <1>3, <1>5, <2>1
  <2>2. CASE DecideNextPath(p) # q
    <3>1. /\ DecideNextPath(p) = seed /\ Compatible(seed, q) /\ Len(seed) > Len(q)
      BY <2>2 DEF DecideNextPath, q
    <3>2. /\ Len(q) \in Nat /\ Len(seed) \in Nat /\ Len(q) <= Len(seed)
          /\ seed # <<>>
      BY <1>1, <1>3, <3>1 DEF Path
    <3>3. \A i \in 1 .. Len(q) : i \in 1 .. Len(seed) /\ i <= Len(q)
      BY <3>2
    <3>4. \A i \in 1 .. Len(q) : q[i] = seed[i]
      BY <3>1, <3>3 DEF Compatible
    <3> QED
      BY <1>1, <1>2, <1>3, <1>5, <3>1, <3>2, <3>4, EndsUnvisited
  <2> QED
    BY <2>1, <2>2
<1>7. CanPushPath(DecideNextPath(p))
  BY <1>1, <1>6, CanPushPathStart DEF ve
<1>8. p \in Candidates
  BY <1>7 DEF Candidates, ShouldPush
<1>9. q \in Pending
  BY <1>1, <1>8 DEF Pending, q
<1>10. Replay(Start, curr_path) = prog.view[conf]
  BY <1>4 DEF Replay, Ends, Trail, ve
<1> QED
  BY <1>2, <1>3, <1>9, <1>10 DEF Reaches

\* What is still to be followed is paths.
LEMMA PendingType ==
    ASSUME TypeOK PROVE Pending \subseteq Path
<1>1. Elems(queue) \subseteq Path /\ Elems(rtn) \subseteq Path
  BY ElemsOfQueue DEF TypeOK
<1>2. \A x \in Candidates : Extended(x) \in Path
  BY DEF Candidates, Available, Extended, TypeOK, Path
<1> QED
  BY <1>1, <1>2 DEF Pending, Elems, TypeOK

\* A process that was covered stays so, if each path still to be followed
\* stays one or has been followed to its end.
LEMMA CoveredStays ==
    ASSUME TypeOK, prog' = prog, root_states \subseteq root_states',
           Table(visited_edges'), Grows(visited_edges, visited_edges'),
           \A path \in Pending :
               \/ path = <<>>
               \/ path \in Pending'
               \/ \A root \in root_states : Ends(visited_edges', root, path) # Unvisited,
           NEW CONSTANT c \in Reachable(prog), NEW CONSTANT p \in Proc, Covered(c, p)
    PROVE  Covered(c, p)'
<1> DEFINE ve == visited_edges
<1>1. /\ Table(ve) /\ prog.view[c] \in State /\ prog.view[c] # Unvisited
      /\ root_states \subseteq State
  BY ReachableIsConf, TableOfTypeOK, UnvisitedAssumption DEF TypeOK
<1>2. CASE <<prog.view[c], p>> \in DOMAIN ve
  BY <1>2 DEF Covered, Grows
<1>3. ASSUME NEW path \in Pending, Reaches(path, c, p) PROVE Covered(c, p)'
  <2>1. PICK root \in root_states : Ends(ve, root, AllButLast(path)) = prog.view[c]
    BY <1>3 DEF Reaches, Replay, Ends, Trail
  <2>2. path # <<>> /\ path[Len(path)] = p /\ path \in Path
    BY <1>3, PendingType DEF Reaches
  <2>3. Ends(ve', root, AllButLast(path)) = prog.view[c]
    BY <1>1, <2>1, <2>2, LastProcess, EndsGrows
  <2>4. CASE path \in Pending'
    <3>1. PICK q : q = path /\ q \in Pending'
      BY <2>4
    <3>2. PICK r \in root_states' : r = root
      BY <2>1
    <3>3. Ends(ve', r, AllButLast(q)) = prog'.view[c]
      BY <2>3, <3>1, <3>2
    <3>4. Reaches(q, c, p)'
      BY <2>2, <3>1, <3>3 DEF Reaches, Replay, Ends, Trail
    <3> QED
      BY <3>1, <3>4 DEF Covered
  <2>5. CASE Ends(ve', root, path) # Unvisited
    <3>1. Ends(ve', root, path) = Follow(ve', prog.view[c], p)
      BY <1>1, <2>1, <2>2, <2>3, EndsLast
    <3>2. <<prog.view[c], p>> \in DOMAIN ve'
      BY <2>5, <3>1, FollowKnown
    <3> QED
      BY <3>2 DEF Covered
  <2> QED
    BY <2>2, <2>4, <2>5
<1> QED
  BY <1>2, <1>3 DEF Covered

\* The frontier stays covered if pending paths stay or have been followed, and
\* the only state new to the Visitor is that of the live instance.
LEMMA FrontierFrom ==
    ASSUME TypeOK, FrontierCovered, HereCovered', prog' = prog,
           root_states \subseteq root_states', sampled => sampled',
           Table(visited_edges'), Grows(visited_edges, visited_edges'),
           conf' # NoConf => conf' \in Reachable(prog),
           \A s \in KnownStates' :
               s \in KnownStates \/ (conf' # NoConf /\ s = prog.view[conf']),
           Regular /\ ~sampled' =>
               \A path \in Pending :
                   \/ path = <<>>
                   \/ path \in Pending'
                   \/ \A root \in root_states :
                         Ends(visited_edges', root, path) # Unvisited
    PROVE  FrontierCovered'
<1>1. /\ Regular' = Regular
      /\ Reachable(prog)' = Reachable(prog)
      /\ \A c, p : (p \in Available(prog, c))' = (p \in Available(prog, c))
  BY DEF Regular, Deterministic, Faithful, Reachable, ClosedUnderSteps, Available
<1> SUFFICES ASSUME Regular, ~sampled',
                    NEW CONSTANT c \in Reachable(prog), prog.view[c] \in KnownStates',
                    NEW CONSTANT p \in Available(prog, c)
             PROVE  Covered(c, p)'
  <2>1. (FrontierCovered <=>
          (Regular /\ ~sampled =>
            \A c \in Reachable(prog) : prog.view[c] \in KnownStates =>
                \A p \in Available(prog, c) : Covered(c, p)))'
    BY FrontierIsCovered, PTL
  <2>2. \A c \in Reachable(prog) : prog.view[c] \in KnownStates' =>
          \A p \in Available(prog, c) : Regular /\ ~sampled' => Covered(c, p)'
    OBVIOUS
  <2> QED
    BY <1>1, <2>1, <2>2
<1>2. p \in Proc
  BY DEF Available
<1>3. CASE prog.view[c] \in KnownStates
  <2>1. Covered(c, p)
    BY <1>3, FrontierIsCovered
  <2> QED
    BY <1>2, <2>1, CoveredStays
<1>4. CASE conf' # NoConf /\ prog.view[c] = prog.view[conf']
  <2>1. c = conf'
    BY <1>4 DEF Regular, Faithful
  <2>2. \A r \in Available(prog', conf') : Covered(conf, r)'
    BY <1>1, <1>4 DEF HereCovered
  <2>3. Covered(conf, p)'
    BY <2>1, <2>2
  <2> QED
    BY <2>1, <2>3 DEF Covered, Reaches
<1> QED
  BY <1>3, <1>4

\* A seed has been followed to its end when the instance stops.
LEMMA SeedDone ==
    ASSUME TypeOK, Shape, Grounded, Guided, Regular, pc = "sub", mode = "next",
           Candidates = {}
    PROVE  seed = <<>> \/ Ends(visited_edges, Start, seed) # Unvisited
<1>1. /\ Deterministic(prog) /\ Faithful(prog)
      /\ OnTrack /\ PathsLead /\ SeedAhead
      /\ seed \in Path /\ curr_path \in Path
      /\ Len(seed) \in Nat /\ Len(curr_path) \in Nat
  BY DEF Regular, Guided, TypeOK, Path
<1>2. Len(seed) <= Len(curr_path)
  <2>1. ~(Len(curr_path) < Len(seed))
    BY <1>1, SeedNext
  <2> QED
    BY <1>1, <2>1
<1>3. /\ Start \in State /\ Table(visited_edges) /\ conf # NoConf
      /\ conf \in Conf /\ prog.view[conf] # Unvisited
  BY <1>1, StartFacts, TableOfTypeOK, UnvisitedAssumption DEF TypeOK, Program
<1>4. Ends(visited_edges, Start, curr_path) # Unvisited
  BY <1>1, <1>3 DEF OnTrack, Replay, Ends, Trail
<1>5. \A i \in 1 .. Len(seed) : seed[i] = curr_path[i]
  <2>1. \A i \in 1 .. Len(seed) : i <= Len(curr_path)
    BY <1>1, <1>2
  <2> QED
    BY <1>1, <2>1 DEF SeedAhead, Compatible
<1> QED
  BY <1>1, <1>2, <1>3, <1>4, <1>5, EndsUnvisited

\* A fresh instance takes its path over from the queue.
LEMMA FrontierInstantiate ==
    ASSUME TypeOK, FrontierCovered, HereCovered',
           NEW path, NEW m, Instantiate(path, m), sampled => sampled',
           Regular /\ ~sampled' =>
               \A q \in Pending : q = <<>> \/ q \in Pending'
    PROVE  FrontierCovered'
<1>1. /\ conf' \in prog.init /\ prog' = prog /\ visited_edges' = visited_edges
      /\ root_states' = root_states \cup {prog.view[conf']}
  BY DEF Instantiate
<1>2. conf' \in Reachable(prog)
  BY <1>1, InitReachable DEF TypeOK
<1>3. Table(visited_edges) /\ Grows(visited_edges, visited_edges')
  BY <1>1, TableOfTypeOK, GrowsRefl
<1>4. conf' # NoConf
  BY <1>1, NoConfAssumption DEF TypeOK, Program
<1>5. RecordedEdges' = RecordedEdges
  BY <1>1, RecordedEdgesIn
<1>6. \A s \in KnownStates' : s \in KnownStates \/ s = prog.view[conf']
  BY <1>1, <1>5 DEF KnownStates
<1> QED
  BY <1>1, <1>2, <1>3, <1>4, <1>6, FrontierFrom

\* The siblings of the process taken are collected.
LEMMA FrontierStep ==
    ASSUME TypeOK, Shape, Grounded, Guided, FrontierCovered, HereCovered', Step
    PROVE  FrontierCovered'
<1>1. PICK x \in Proc : StepTakes(x)
  BY StepFacts
<1>2. /\ prog' = prog /\ root_states' = root_states /\ sampled' = sampled
      /\ queue' = queue /\ seed' = seed /\ mode' = mode
      /\ pc = "sub" /\ pc' = "sub"
  BY DEF Step
<1>3. /\ Table(visited_edges') /\ Grows(visited_edges, visited_edges')
      /\ RecordedEdges'
           = RecordedEdges \cup {<<prog.view[conf], x, prog.view[conf']>>}
  BY <1>1, RecordsStep
<1>4. conf' \in Reachable(prog) /\ conf' # NoConf
  BY <1>1, StepReachable, NoConfAssumption DEF StepTakes, Grounded, TypeOK
<1>5. \A s \in KnownStates' : s \in KnownStates \/ s = prog.view[conf']
  BY <1>2, <1>3 DEF KnownStates
<1>6. ASSUME ~sampled', NEW path \in Pending PROVE path \in Pending'
  <2>1. mode = "next"
    BY <1>2, <1>6 DEF Shape, TypeOK
  <2>2. Elems(rtn') = Elems(rtn) \cup {Extended(y) : y \in Candidates}
    BY <1>1 DEF StepTakes
  <2>3. Pending = Elems(queue) \cup Elems(rtn) \cup {seed}
                    \cup {Extended(y) : y \in Candidates}
    BY <1>2, <2>1 DEF Pending, Elems
  <2>4. Elems(queue) \cup Elems(rtn') \cup {seed} \subseteq Pending'
    BY <1>2, <2>1 DEF Pending, Elems
  <2> QED
    BY <2>2, <2>3, <2>4, <1>6
<1> QED
  BY <1>2, <1>3, <1>4, <1>5, <1>6, FrontierFrom

\* The other actions know the same states, and no new instance.
LEMMA FrontierRest ==
    ASSUME TypeOK, FrontierCovered, HereCovered', Grounded,
           prog' = prog, visited_edges' = visited_edges,
           root_states' = root_states, sampled' = sampled, conf' \in {conf, NoConf},
           Regular /\ ~sampled =>
               \A path \in Pending :
                   \/ path = <<>>
                   \/ path \in Pending'
                   \/ \A root \in root_states :
                         Ends(visited_edges, root, path) # Unvisited
    PROVE  FrontierCovered'
<1>1. KnownStates' = KnownStates
  BY RecordedEdgesIn DEF KnownStates
<1>2. Table(visited_edges) /\ Grows(visited_edges, visited_edges')
  BY TableOfTypeOK, GrowsRefl
<1>3. conf' # NoConf => conf' \in Reachable(prog)
  BY DEF Grounded
<1> QED
  BY <1>1, <1>2, <1>3, FrontierFrom

\* A path that is not worth running has been visited to its end.
LEMMA NotPushed ==
    ASSUME NEW path, ~CanPushPath(path)
    PROVE  path = <<>> \/ \A root \in root_states : Ends(visited_edges, root, path) # Unvisited
BY DEF CanPushPath, Replay, Ends, Trail

\* next() queues what its result still leads to, and the seed is done.
LEMMA FrontierFinish ==
    ASSUME TypeOK, Shape, Grounded, Guided, FrontierCovered, HereCovered', Finish
    PROVE  FrontierCovered'
<1>1. /\ prog' = prog /\ visited_edges' = visited_edges /\ root_states' = root_states
      /\ sampled' = sampled /\ conf' = NoConf /\ pc = "sub" /\ Candidates = {}
  BY DEF Finish
<1>2. ASSUME Regular, ~sampled, NEW path \in Pending
      PROVE  \/ path = <<>>
             \/ path \in Pending'
             \/ \A root \in root_states : Ends(visited_edges, root, path) # Unvisited
  <2>1. mode = "next" /\ queue' = Pushed /\ mode' = mode
    BY <1>1, <1>2 DEF Shape, TypeOK, Finish
  <2>2. Pending = Elems(queue) \cup Elems(rtn) \cup {seed}
    BY <1>1, <2>1 DEF Pending, Elems
  <2>3. /\ Elems(Pushed) = Elems(queue) \cup {q \in Elems(rtn) : CanPushPath(q)}
        /\ Elems(Pushed) \subseteq Pending'
    BY <2>1, PushedElems DEF TypeOK, Pending, Elems
  <2>4. CASE path = seed
    <3>1. root_states = {Start}
      BY <1>1, <1>2, StartIsRoot DEF Regular
    <3> QED
      BY <1>1, <1>2, <2>1, <2>4, <3>1, SeedDone
  <2>5. CASE path \in Elems(queue)
    BY <2>3, <2>5
  <2>6. CASE path \in Elems(rtn)
    BY <2>3, <2>6, NotPushed
  <2> QED
    BY <1>2, <2>2, <2>4, <2>5, <2>6
<1> QED
  BY <1>1, <1>2, FrontierRest

\* The path dropped has been visited to its end.
LEMMA FrontierSkip ==
    ASSUME TypeOK, Shape, Grounded, FrontierCovered, HereCovered', Skip
    PROVE  FrontierCovered'
<1>1. /\ prog' = prog /\ visited_edges' = visited_edges /\ root_states' = root_states
      /\ sampled' = sampled /\ conf' = conf /\ pc = "loop" /\ rtn = <<>>
      /\ queue' = Tail(queue) /\ ~CanPushPath(Head(queue))
      /\ queue \in Seq(Path) /\ queue # <<>>
  BY DEF Skip, More, ShouldRun, Shape, TypeOK
<1>2. ASSUME NEW path \in Pending
      PROVE  \/ path = <<>>
             \/ path \in Pending'
             \/ \A root \in root_states : Ends(visited_edges, root, path) # Unvisited
  <2>1. path \in Elems(queue)
    BY <1>1 DEF Pending, Elems
  <2>2. path = Head(queue) \/ path \in Elems(queue')
    BY <1>1, <2>1, TailElems
  <2>3. Elems(queue') \subseteq Pending'
    BY DEF Pending, Elems
  <2> QED
    BY <1>1, <2>2, <2>3, NotPushed
<1> QED
  BY <1>1, <1>2, FrontierRest

\* The head of the queue becomes the seed.
LEMMA FrontierRunNext ==
    ASSUME TypeOK, Shape, FrontierCovered, HereCovered', RunNext
    PROVE  FrontierCovered'
<1>1. /\ pc = "loop" /\ rtn = <<>> /\ queue' = Tail(queue)
      /\ Instantiate(Head(queue), "next") /\ sampled' = sampled
      /\ queue \in Seq(Path) /\ queue # <<>>
  BY DEF RunNext, More, Shape, TypeOK
<1>2. ASSUME NEW path \in Pending PROVE path \in Pending'
  <2>1. path \in Elems(queue)
    BY <1>1 DEF Pending, Elems
  <2>2. path = Head(queue) \/ path \in Elems(queue')
    BY <1>1, <2>1, TailElems
  <2>3. Elems(queue') \cup {Head(queue)} \subseteq Pending'
    BY <1>1 DEF Pending, Elems, Instantiate
  <2> QED
    BY <2>2, <2>3
<1> QED
  BY <1>1, <1>2, FrontierInstantiate

\* No step uncovers the frontier.
LEMMA FrontierNext ==
    ASSUME TypeOK, Shape, Grounded, Guided, FrontierCovered, HereCovered', [Next]_vars
    PROVE  FrontierCovered'
<1>1. ASSUME NEW k \in MaxIters, CallNext(k) PROVE FrontierCovered'
  <2>1. /\ pc = "idle" /\ rtn = <<>> /\ queue' = queue /\ sampled' = sampled
        /\ Instantiate(<<>>, "next")
    BY <1>1 DEF CallNext, Shape
  <2>2. Pending \subseteq Elems(queue) /\ Elems(queue) \subseteq Pending'
    BY <2>1 DEF Pending, Elems
  <2> QED
    BY <2>1, <2>2, FrontierInstantiate
<1>2. ASSUME NEW path \in Seeds, CallNextSub(path) PROVE FrontierCovered'
  BY <1>2, FrontierInstantiate DEF CallNextSub
<1>3. CASE Step
  BY <1>3, FrontierStep
<1>4. CASE Finish
  BY <1>4, FrontierFinish
<1>5. CASE Skip
  BY <1>5, FrontierSkip
<1>6. CASE RunNext
  BY <1>6, FrontierRunNext
<1>7. CASE Return
  <2>1. /\ prog' = prog /\ visited_edges' = visited_edges /\ root_states' = root_states
        /\ sampled' = sampled /\ conf' = conf /\ pc = "loop" /\ rtn = <<>>
        /\ queue' = queue
    BY <1>7 DEF Return, explored, run, Shape
  <2>2. Pending \subseteq Elems(queue) /\ Elems(queue) \subseteq Pending'
    BY <2>1 DEF Pending, Elems
  <2> QED
    BY <2>1, <2>2, FrontierRest
<1>8. CASE UNCHANGED vars
  <2>1. /\ prog' = prog /\ visited_edges' = visited_edges /\ root_states' = root_states
        /\ sampled' = sampled /\ conf' = conf
    BY <1>8 DEF vars, explored, run
  <2>2. Pending' = Pending
    BY <1>8 DEF vars, explored, run, Pending, Candidates, ShouldPush, CanPushPath,
       Replay, DecideNextPath, Extended, Available
  <2> QED
    BY <2>1, <2>2, FrontierRest
<1> QED
  BY <1>1, <1>2, <1>3, <1>4, <1>5, <1>6, <1>7, <1>8 DEF Next, Internal

\* A new Visitor has seen no state.
LEMMA FrontierInit == Init => FrontierCovered
<1> SUFFICES ASSUME Init PROVE KnownStates = {}
  BY DEF FrontierCovered
<1> QED
  BY DEF Init, KnownStates, RecordedEdges

\* The inductive invariant: the shape of the call, the instance and the records
\* grounded in the program, the paths guided by the visited edges, and the
\* frontier covered.
THEOREM InvariantHolds == Spec => []IInv
<1>1. Init => IInv
  BY InitType, ShapeInit, GroundedInit, GuidedInit, FrontierInit DEF IInv
<1>2. (TypeOK /\ Shape /\ Grounded /\ Guided)' => HereCovered'
  BY HereIsCovered, PTL
<1>3. IInv /\ [Next]_vars => IInv'
  <2> SUFFICES ASSUME IInv, [Next]_vars PROVE IInv'
    OBVIOUS
  <2>1. TypeOK /\ Shape /\ Grounded /\ Guided /\ FrontierCovered
    BY DEF IInv
  <2>2. TypeOK'
    BY <2>1, CallNextType, CallNextSubType, StepType, FinishType, SkipType,
       RunNextType, ReturnType, StutterType DEF Next, Internal
  <2>3. Shape' /\ Grounded' /\ Guided'
    BY <2>1, ShapeNext, GroundedNext, GuidedNext
  <2>4. FrontierCovered'
    BY <1>2, <2>1, <2>2, <2>3, FrontierNext
  <2> QED
    BY <2>2, <2>3, <2>4 DEF IInv
<1> QED
  BY <1>1, <1>3, PTL DEF Spec

-----------------------------------------------------------------------------
(* The properties.                                                         *)

\* No edge is forgotten: what the queue, the running instance and its result
\* still lead to covers every process not yet run in a state that was seen.
THEOREM FrontierAlways == Spec => []FrontierCovered
BY InvariantHolds, PTL DEF IInv

\* A queued path is followed to its end: the instance neither strays from it
\* nor stops before it.
THEOREM SeedFollowedAlways == Spec => []SeedFollowed
<1>1. IInv => SeedFollowed
  <2> SUFFICES ASSUME TypeOK, Shape, Grounded, Guided, pc = "sub", mode = "next",
                      Deterministic(prog), Faithful(prog)
               PROVE  /\ Compatible(seed, curr_path)
                      /\ Len(curr_path) < Len(seed) => Candidates # {}
    BY DEF IInv, SeedFollowed
  <2>1. OnTrack /\ PathsLead /\ SeedAhead
    BY DEF Guided
  <2> QED
    BY <2>1, SeedNext DEF SeedAhead
<1> QED
  BY <1>1, InvariantHolds, PTL

\* Once the seed has been followed, a step always runs a process where it has
\* never been run.
THEOREM EveryStepIsNewAlways == Spec => EveryStepIsNew
<1> DEFINE New == Step /\ mode = "next" /\ Len(curr_path) + 1 >= Len(seed)
                    /\ Deterministic(prog) /\ Faithful(prog) /\ ~sampled
                  => DOMAIN visited_edges' # DOMAIN visited_edges
<1>1. IInv => [New]_vars
  <2> SUFFICES ASSUME TypeOK, Shape, Grounded, Guided, Step, mode = "next",
                      Len(curr_path) + 1 >= Len(seed),
                      Deterministic(prog), Faithful(prog)
               PROVE  DOMAIN visited_edges' # DOMAIN visited_edges
    BY DEF IInv
  <2>1. PICK x \in Proc : StepTakes(x)
    BY StepFacts
  <2>2. Extended(x) \in Path /\ Len(Extended(x)) = Len(curr_path) + 1
        /\ Len(curr_path) \in Nat /\ Len(seed) \in Nat
    BY DEF TypeOK, Path, Extended
  <2>3. DecideNextPath(x) = Extended(x)
    BY <2>2 DEF DecideNextPath
  <2>4. CanPushPath(Extended(x))
    BY <2>1, <2>3 DEF StepTakes, Candidates, ShouldPush
  <2>5. /\ Start \in State /\ Table(visited_edges) /\ curr_path \in Path
        /\ Ends(visited_edges, Start, Extended(x)) = Unvisited
    BY <2>4, CanPushPathStart, StartFacts, TableOfTypeOK DEF TypeOK
  <2>6. Ends(visited_edges, Start, curr_path) = prog.view[conf]
    BY <2>1, OnTrackStep DEF Guided
  <2>7. <<prog.view[conf], x>> \notin DOMAIN visited_edges
    BY <2>5, <2>6, EndsAppend, FollowKnown DEF Extended
  <2>8. <<prog.view[conf], x>> \in DOMAIN visited_edges'
    BY <2>1, RecordsStep
  <2> QED
    BY <2>7, <2>8
<1> QED
  BY <1>1, InvariantHolds, PTL DEF EveryStepIsNew

-----------------------------------------------------------------------------
(* The refinement.                                                         *)

\* When nothing is left to follow, every process has been run in every state
\* that was seen, and no state is left to see.
LEMMA CompleteWhenCovered ==
    ASSUME IInv, Regular, ~sampled, pc = "loop", queue = <<>>
    PROVE  RecordedEdges = Edges(prog)
<1> USE DEF IInv
<1>1. Pending = {}
  BY DEF Pending, Shape
<1>2. prog \in Program /\ Deterministic(prog) /\ Faithful(prog)
  BY DEF TypeOK, Regular
<1>3. ASSUME NEW c \in Reachable(prog), prog.view[c] \in KnownStates,
             NEW p \in Available(prog, c)
      PROVE  <<prog.view[c], p>> \in DOMAIN visited_edges
  <2>1. Covered(c, p)
    BY <1>3, FrontierIsCovered
  <2> QED
    BY <1>1, <2>1 DEF Covered
<1>4. ASSUME NEW c \in Reachable(prog), prog.view[c] \in KnownStates,
             NEW p \in Proc, NEW d \in prog.step[c][p]
      PROVE  <<prog.view[c], p, prog.view[d]>> \in RecordedEdges
  <2> DEFINE key == <<prog.view[c], p>>
  <2>1. key \in DOMAIN visited_edges
    BY <1>3, <1>4 DEF Available
  <2>2. prog.view[d] = visited_edges[key][1]
    BY <1>2, <1>4, <2>1, VisitedIsAvailable
  <2>3. 1 \in DOMAIN visited_edges[key]
    BY <2>1 DEF TypeOK
  <2>4. <<key[1], key[2], visited_edges[key][1]>> \in RecordedEdges
    BY <2>1, <2>3 DEF RecordedEdges
  <2> QED
    BY <2>2, <2>4
<1>5. ASSUME NEW c \in Reachable(prog) PROVE prog.view[c] \in KnownStates
  <2> DEFINE S == {d \in Reachable(prog) : prog.view[d] \in KnownStates}
  <2>1. S \in SUBSET Conf
    BY DEF Reachable
  <2>2. prog.init \subseteq S
    <3>1. \A d \in prog.init : prog.view[d] = Start
      BY <1>2, StartFacts
    <3>2. root_states = {Start}
      BY <1>2, StartIsRoot
    <3> QED
      BY <1>2, <3>1, <3>2, InitReachable DEF KnownStates
  <2>3. ASSUME NEW d \in S, NEW p \in Proc, NEW e \in prog.step[d][p]
        PROVE  e \in S
    <3>1. e \in Reachable(prog)
      BY <1>2, <2>3, StepReachable
    <3> DEFINE edge == <<prog.view[d], p, prog.view[e]>>
    <3>2. edge \in RecordedEdges /\ edge[3] = prog.view[e]
      BY <1>4, <2>3
    <3> HIDE DEF edge
    <3>3. prog.view[e] \in KnownStates
      BY <3>2 DEF KnownStates
    <3> QED
      BY <3>1, <3>3
  <2>4. ClosedUnderSteps(prog, S)
    BY <2>2, <2>3 DEF ClosedUnderSteps
  <2> HIDE DEF S
  <2>5. c \in S
    BY <1>2, <2>1, <2>4, ReachableSmallest
  <2> QED
    BY <2>5 DEF S
<1>6. Edges(prog) \subseteq RecordedEdges
  <2> SUFFICES ASSUME NEW e \in Steps(prog)
               PROVE  <<prog.view[e[1]], e[2], prog.view[e[3]]>> \in RecordedEdges
    BY DEF Edges
  <2>1. e[1] \in Reachable(prog) /\ e[2] \in Proc /\ e[3] \in prog.step[e[1]][e[2]]
    BY DEF Steps
  <2> QED
    BY <2>1, <1>4, <1>5
<1> QED
  BY <1>6 DEF Grounded

\* The abstract specification speaks of the same programs.
LEMMA SamePrograms ==
    /\ Graph!Program = Program
    /\ \A P : /\ Graph!Deterministic(P) = Deterministic(P)
              /\ Graph!Reachable(P) = Reachable(P)
              /\ Graph!Faithful(P) = Faithful(P)
              /\ Graph!Edges(P) = Edges(P)
<1>1. \A P : Graph!Reachable(P) = Reachable(P)
  BY DEF Graph!Reachable, Reachable, Graph!ClosedUnderSteps, ClosedUnderSteps
<1>2. \A P : Graph!Steps(P) = Steps(P)
  BY <1>1 DEF Graph!Steps, Steps
<1>3. \A P : Graph!Edges(P) = Edges(P)
  BY <1>2 DEF Graph!Edges, Edges
<1>4. \A P : Graph!Faithful(P) = Faithful(P)
  BY <1>1 DEF Graph!Faithful, Faithful
<1>5. \A P : Graph!Deterministic(P) = Deterministic(P)
  BY DEF Graph!Deterministic, Deterministic
<1>6. Graph!Program = Program
  BY DEF Graph!Program, Program
<1> QED
  BY <1>1, <1>3, <1>4, <1>5, <1>6

\* A fresh instance is a restart.
LEMMA InstantiateRestarts ==
    ASSUME NEW path, NEW m, Instantiate(path, m)
    PROVE  Graph!Restart
<1>1. /\ conf' \in prog.init /\ prog' = prog /\ visited_edges' = visited_edges
      /\ root_states' = root_states \cup {prog.view[conf']} /\ pc' = "sub"
  BY DEF Instantiate
<1>2. Exhausted' = FALSE
  BY <1>1 DEF Exhausted
<1>3. RecordedEdges' = RecordedEdges
  BY <1>1, RecordedEdgesIn
<1> QED
  BY <1>1, <1>2, <1>3 DEF Graph!Restart

\* An iteration of next_sub is a step of the walk.
LEMMA StepWalks ==
    ASSUME TypeOK, Step
    PROVE  \E p \in Proc : Graph!Walk(p)
<1>1. PICK x \in Proc : StepTakes(x)
  BY StepFacts
<1>2. /\ prog' = prog /\ root_states' = root_states /\ pc = "sub" /\ pc' = "sub"
  BY DEF Step
<1>3. Exhausted' = Exhausted
  BY <1>2 DEF Exhausted
<1>4. RecordedEdges' = RecordedEdges \cup {<<prog.view[conf], x, prog.view[conf']>>}
  BY <1>1, RecordsStep
<1>5. Graph!Walk(x)
  BY <1>1, <1>2, <1>3, <1>4 DEF Graph!Walk, StepTakes
<1> QED
  BY <1>5

\* The end of next_sub leaves the instance.
LEMMA FinishLeaves ==
    ASSUME TypeOK, Shape, Finish
    PROVE  Graph!Leave
<1>1. /\ prog' = prog /\ root_states' = root_states /\ visited_edges' = visited_edges
      /\ pc = "sub" /\ conf' = NoConf /\ conf # NoConf /\ sampled' = sampled
  BY DEF Finish, TypeOK
<1>2. Exhausted' = FALSE /\ Exhausted = FALSE
  <2>1. CASE mode = "next"
    BY <1>1, <2>1 DEF Finish, Exhausted
  <2>2. CASE mode # "next"
    <3>1. sampled
      BY <1>1, <2>2 DEF Shape, TypeOK
    <3> QED
      BY <1>1, <3>1 DEF Exhausted
  <2> QED
    BY <2>1, <2>2
<1>3. RecordedEdges' = RecordedEdges
  BY <1>1, RecordedEdgesIn
<1> QED
  BY <1>1, <1>2, <1>3 DEF Graph!Leave

\* The return of next() reports a complete graph, or nothing.
LEMMA ReturnFinishes ==
    ASSUME IInv, Return
    PROVE  Graph!Finish \/ UNCHANGED Graph!vars
<1>1. /\ prog' = prog /\ root_states' = root_states /\ visited_edges' = visited_edges
      /\ pc = "loop" /\ pc' = "idle" /\ conf' = conf /\ queue' = queue
      /\ calls' = calls /\ sampled' = sampled
  BY DEF Return, explored, run
<1>2. RecordedEdges' = RecordedEdges
  BY <1>1, RecordedEdgesIn
<1>3. conf = NoConf
  BY <1>1 DEF IInv, TypeOK
<1>4. CASE queue = <<>> /\ calls > 0 /\ ~sampled
  <2>1. Exhausted' = TRUE
    BY <1>1, <1>4 DEF Exhausted
  <2>2. Graph!Complete
    <3>1. Regular => RecordedEdges = Edges(prog)
      BY <1>1, <1>4, CompleteWhenCovered
    <3> QED
      BY <3>1, SamePrograms DEF Graph!Complete, Regular
  <2> QED
    BY <1>1, <1>2, <1>3, <2>1, <2>2 DEF Graph!Finish
<1>5. CASE ~(queue = <<>> /\ calls > 0 /\ ~sampled)
  <2>1. Exhausted' = Exhausted
    BY <1>1, <1>5 DEF Exhausted
  <2> QED
    BY <1>1, <1>2, <2>1 DEF Graph!vars
<1> QED
  BY <1>4, <1>5

\* What changes only the queue is a stutter.
LEMMA SameGraph ==
    ASSUME prog' = prog, root_states' = root_states,
           visited_edges' = visited_edges, conf' = conf,
           Exhausted' = Exhausted
    PROVE  UNCHANGED Graph!vars
BY RecordedEdgesIn DEF Graph!vars

\* The Visitor implements StateGraph: calling next() and running a queued path
\* make an instance, a step walks it, the end of next_sub leaves it, and the
\* return of a next() that leaves nothing queued reports a complete graph.
THEOREM Refinement == Spec => ImplementsStateGraph
<1>1. Init => Graph!Init
  <2> SUFFICES ASSUME Init PROVE Graph!Init
    OBVIOUS
  <2>1. prog \in Program /\ conf = NoConf /\ root_states = {}
    BY ProgramsAssumption DEF Init
  <2>2. RecordedEdges = {}
    BY DEF Init, RecordedEdges
  <2>3. Exhausted = FALSE
    BY DEF Init, Exhausted
  <2> QED
    BY <2>1, <2>2, <2>3, SamePrograms DEF Graph!Init
<1>2. IInv /\ [Next]_vars => [Graph!Next]_(Graph!vars)
  <2> SUFFICES ASSUME IInv, [Next]_vars PROVE Graph!Next \/ UNCHANGED Graph!vars
    OBVIOUS
  <2>0. TypeOK /\ Shape
    BY DEF IInv
  <2>1. ASSUME NEW k \in MaxIters, CallNext(k) PROVE Graph!Restart
    BY <2>1, InstantiateRestarts DEF CallNext
  <2>2. ASSUME NEW path \in Seeds, CallNextSub(path) PROVE Graph!Restart
    BY <2>2, InstantiateRestarts DEF CallNextSub
  <2>3. CASE Step
    BY <2>0, <2>3, StepWalks DEF Graph!Next
  <2>4. CASE Finish
    BY <2>0, <2>4, FinishLeaves DEF Graph!Next
  <2>5. CASE Skip
    <3>1. /\ prog' = prog /\ root_states' = root_states /\ conf' = conf
          /\ visited_edges' = visited_edges /\ pc = "loop" /\ pc' = pc
      BY <2>5 DEF Skip
    <3>2. Exhausted' = Exhausted
      BY <3>1 DEF Exhausted
    <3> QED
      BY <3>1, <3>2, SameGraph
  <2>6. CASE RunNext
    BY <2>6, InstantiateRestarts DEF RunNext, Graph!Next
  <2>7. CASE Return
    BY <2>7, ReturnFinishes DEF Graph!Next
  <2>8. CASE UNCHANGED vars
    <3>1. /\ prog' = prog /\ root_states' = root_states /\ conf' = conf
          /\ visited_edges' = visited_edges /\ pc' = pc /\ queue' = queue
          /\ calls' = calls /\ sampled' = sampled
      BY <2>8 DEF vars, explored, run
    <3>2. Exhausted' = Exhausted
      BY <3>1 DEF Exhausted
    <3> QED
      BY <3>1, <3>2, SameGraph
  <2> QED
    BY <2>1, <2>2, <2>3, <2>4, <2>5, <2>6, <2>7, <2>8 DEF Next, Internal, Graph!Next
<1> QED
  BY <1>1, <1>2, InvariantHolds, PTL DEF Spec, ImplementsStateGraph, Graph!Spec

\* What a user relies on: when next() has returned and left nothing queued, the
\* recorded graph of a deterministic program whose labels tell its
\* configurations apart is its whole state graph.
THEOREM ExactAlways == Spec => []Graph!Exact
<1> DEFINE Inv == (Exhausted => conf = NoConf) /\ Graph!Exact
<1>1. Graph!Init => Inv
  BY DEF Graph!Init, Graph!Exact
<1>2. Inv /\ [Graph!Next]_(Graph!vars) => Inv'
  BY DEF Graph!Exact, Graph!Complete, Graph!Next, Graph!Restart, Graph!Walk,
     Graph!Leave, Graph!Finish, Graph!vars
<1>3. Graph!Spec => []Inv
  BY <1>1, <1>2, PTL DEF Graph!Spec
<1> QED
  BY <1>3, Refinement, PTL DEF ImplementsStateGraph
=============================================================================
