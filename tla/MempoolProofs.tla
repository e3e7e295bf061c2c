----------------------------- MODULE MempoolProofs -----------------------------
(***************************************************************************)
(* Theorems about Mempool: the index of the tracker holds the rows of what *)
(* is tracked, update() reports what it changed, and the fee histogram     *)
(* counts every transaction in its bin. They rest on lemmas about sums     *)
(* over finite sets, which also give the theorem about the cache that the  *)
(* transactions are read through (Cache).                                  *)
(***************************************************************************)
EXTENDS MempoolFetch, FiniteSetTheorems, TLAPS

-------------------------------------------------------------------------------
(* Sums over finite sets.                                                  *)

\* A family of subsets of a finite set has a smallest member.
LEMMA SmallestSubset ==
  ASSUME NEW S, IsFiniteSet(S), NEW B, B \subseteq SUBSET S, B # {}
  PROVE  \E s \in B : \A u \in B : ~ (<<u, s>> \in StrictSubsetOrdering(S))
<1>1. FiniteSubsetsOf(S) = SUBSET S
  BY FS_FiniteSubsetsOfFinite
<1>2. IsWellFoundedOn(StrictSubsetOrdering(S), FiniteSubsetsOf(S))
  BY Zenon, FS_StrictSubsetOrderingWellFounded
<1> DEFINE R == StrictSubsetOrdering(S)
           W == FiniteSubsetsOf(S)
<1>3. B \subseteq W /\ IsWellFoundedOn(R, W)
  BY Zenon, <1>1, <1>2
<1> HIDE DEF R, W
<1>4. \E s \in B : \A u \in B : ~ (<<u, s>> \in R)
  BY Zenon, <1>3, WFMin
<1> QED BY Zenon, <1>4 DEF R

\* What holds of a set when it holds of the sets inside it holds of all finite sets.
LEMMA SubsetInduction ==
  ASSUME NEW S, IsFiniteSet(S), NEW G,
         \A s \in SUBSET S : (\A u \in SUBSET s : u # s => u \in G) => s \in G
  PROVE  SUBSET S \subseteq G
<1> DEFINE Bad == (SUBSET S) \ G
<1> SUFFICES ASSUME Bad # {} PROVE FALSE
  OBVIOUS
<1>1. PICK s \in Bad : \A u \in Bad : ~ (<<u, s>> \in StrictSubsetOrdering(S))
  <2>1. Bad \subseteq SUBSET S
    OBVIOUS
  <2> HIDE DEF Bad
  <2> QED BY <2>1, SmallestSubset
<1>2. ASSUME NEW u \in SUBSET s, u # s PROVE u \in G
  <2>1. u \in SUBSET S /\ s \in SUBSET S
    BY <1>1
  <2>2. <<u, s>> \in StrictSubsetOrdering(S)
    BY <1>2, <2>1 DEF StrictSubsetOrdering
  <2> QED BY Zenon, <1>1, <2>1, <2>2
<1> QED BY Zenon, <1>1, <1>2

\* The element of s that a sum over s takes first.
Pick(s) == CHOOSE x \in s : TRUE

\* f has the sums of w over the subsets of S.
SumsUp(f, w, S) ==
  f = [s \in SUBSET S |-> IF s = {} THEN 0 ELSE w[Pick(s)] + f[s \ {Pick(s)}]]

\* SumFunctionOnSet() is such an f, at S.
LEMMA SumIs ==
  ASSUME NEW w, NEW S
  PROVE  SumFunctionOnSet(w, S) = (CHOOSE f : SumsUp(f, w, S))[S]
BY Zenon DEF SumFunctionOnSet, FoldFunctionOnSet, MapThenFoldSet, SumsUp, Pick

\* Such an f takes one element after the other.
LEMMA SumsUpAt ==
  ASSUME NEW w, NEW S, NEW f, SumsUp(f, w, S), NEW s \in SUBSET S
  PROVE  /\ s = {} => f[s] = 0
         /\ s # {} => /\ Pick(s) \in s
                      /\ f[s] = w[Pick(s)] + f[s \ {Pick(s)}]
<1>1. f[s] = IF s = {} THEN 0 ELSE w[Pick(s)] + f[s \ {Pick(s)}]
  BY Zenon DEF SumsUp
<1>2. s # {} => Pick(s) \in s
  BY Zenon DEF Pick
<1> QED BY <1>1, <1>2

\* The sums over the subsets of T are the same within a larger set.
LEMMA SumsAgree ==
  ASSUME NEW w, NEW S, NEW T \in SUBSET S, IsFiniteSet(T), NEW f, NEW g,
         SumsUp(f, w, S), SumsUp(g, w, T)
  PROVE  \A s \in SUBSET T : f[s] = g[s]
<1> DEFINE G == {s \in SUBSET T : f[s] = g[s]}
<1>1. ASSUME NEW s \in SUBSET T, \A u \in SUBSET s : u # s => u \in G PROVE s \in G
  <2>1. CASE s = {}
    <3>1. s \in SUBSET S /\ f[s] = 0 /\ g[s] = 0
      BY Zenon, <2>1, SumsUpAt
    <3> QED BY <3>1
  <2>2. CASE s # {}
    <3>1. /\ Pick(s) \in s /\ f[s] = w[Pick(s)] + f[s \ {Pick(s)}] /\ g[s] = w[Pick(s)] + g[s \ {Pick(s)}]
      BY <2>2, SumsUpAt
    <3>2. s \ {Pick(s)} \in G
      BY <1>1, <3>1
    <3> QED BY <3>1, <3>2
  <2> QED BY <2>1, <2>2
<1>2. SUBSET T \subseteq G
  <2> HIDE DEF G
  <2> QED BY <1>1, SubsetInduction, Zenon
<1> QED BY <1>2

\* There is such an f for a finite set.
LEMMA SumExists ==
  ASSUME NEW w, NEW S, IsFiniteSet(S)
  PROVE  \E f : SumsUp(f, w, S)
<1> DEFINE h(u) == CHOOSE f : SumsUp(f, w, u)
           G == {s \in SUBSET S : \E f : SumsUp(f, w, s)}
<1>1. ASSUME NEW s \in SUBSET S, \A u \in SUBSET s : u # s => u \in G PROVE s \in G
  <2> DEFINE f == [u \in SUBSET s |-> IF u = {} THEN 0
                                      ELSE w[Pick(u)] + h(u \ {Pick(u)})[u \ {Pick(u)}]]
  <2>1. ASSUME NEW u \in SUBSET s, u # s PROVE SumsUp(h(u), w, u) /\ IsFiniteSet(u)
    <3>1. \E x : SumsUp(x, w, u)
      BY <1>1, <2>1
    <3>2. IsFiniteSet(u)
      BY FS_Subset
    <3> QED BY <3>1, <3>2, Zenon
  <2> HIDE DEF h
  <2>2. ASSUME NEW v \in SUBSET s, v # s PROVE f[v] = h(v)[v]
    <3>1. SumsUp(h(v), w, v) /\ v \in SUBSET v
      BY <2>1, <2>2
    <3>2. CASE v = {}
      BY <3>1, <3>2, SumsUpAt
    <3>3. CASE v # {}
      <4> DEFINE r == v \ {Pick(v)}
      <4>1. Pick(v) \in v /\ h(v)[v] = w[Pick(v)] + h(v)[r]
        BY <3>1, <3>3, SumsUpAt
      <4>2. r \in SUBSET v /\ r \in SUBSET s /\ r # s /\ r \in SUBSET r
        BY <2>2, <4>1
      <4>3. SumsUp(h(r), w, r) /\ IsFiniteSet(r)
        BY <2>1, <4>2
      <4> HIDE DEF r
      <4>4. h(v)[r] = h(r)[r]
        BY <3>1, <4>2, <4>3, SumsAgree
      <4>5. f[v] = w[Pick(v)] + h(r)[r]
        BY <3>3 DEF r
      <4> QED BY <4>1, <4>4, <4>5
    <3> QED BY <3>2, <3>3
  <2>3. ASSUME NEW u \in SUBSET s, u # {} PROVE f[u] = w[Pick(u)] + f[u \ {Pick(u)}]
    <3>1. Pick(u) \in u
      BY <2>3, Zenon DEF Pick
    <3>2. u \ {Pick(u)} \in SUBSET s /\ u \ {Pick(u)} # s
      BY <3>1
    <3>3. f[u \ {Pick(u)}] = h(u \ {Pick(u)})[u \ {Pick(u)}]
      BY <2>2, <3>2, Zenon
    <3>4. f[u] = w[Pick(u)] + h(u \ {Pick(u)})[u \ {Pick(u)}]
      BY <2>3
    <3> QED BY <3>3, <3>4
  <2>4. SumsUp(f, w, s)
    <3>1. f = [u \in SUBSET s |-> f[u]]
      OBVIOUS
    <3>2. f[{}] = 0
      OBVIOUS
    <3> HIDE DEF f
    <3>3. \A u \in SUBSET s : f[u] = IF u = {} THEN 0 ELSE w[Pick(u)] + f[u \ {Pick(u)}]
      BY Zenon, <2>3, <3>2
    <3> QED BY <3>1, <3>3, Zenon DEF SumsUp
  <2> HIDE DEF f
  <2> QED BY <2>4
<1>2. SUBSET S \subseteq G
  <2> HIDE DEF G
  <2> QED BY <1>1, SubsetInduction, Zenon
<1> QED BY <1>2

\* A sum, one element at a time.
LEMMA SumStep ==
  ASSUME NEW w, NEW S, IsFiniteSet(S)
  PROVE  /\ S = {} => SumFunctionOnSet(w, S) = 0
         /\ S # {} => /\ Pick(S) \in S
                      /\ SumFunctionOnSet(w, S) = w[Pick(S)] + SumFunctionOnSet(w, S \ {Pick(S)})
<1> DEFINE h(u) == CHOOSE f : SumsUp(f, w, u)
           r == S \ {Pick(S)}
<1>1. SumsUp(h(S), w, S)
  BY SumExists, Zenon
<1>2. IsFiniteSet(r) /\ r \in SUBSET S /\ S \in SUBSET S /\ r \in SUBSET r
  BY FS_Subset
<1>3. SumsUp(h(r), w, r)
  <2> HIDE DEF r
  <2> QED BY <1>2, SumExists, Zenon
<1>4. SumFunctionOnSet(w, S) = h(S)[S] /\ SumFunctionOnSet(w, r) = h(r)[r]
  BY SumIs, Zenon
<1> HIDE DEF h
<1>5. h(S)[r] = h(r)[r]
  <2> HIDE DEF r
  <2> QED BY <1>1, <1>2, <1>3, SumsAgree
<1>6. /\ S = {} => h(S)[S] = 0
      /\ S # {} => Pick(S) \in S /\ h(S)[S] = w[Pick(S)] + h(S)[r]
  <2> DEFINE f == h(S)
  <2>1. SumsUp(f, w, S) /\ S \in SUBSET S
    BY Zenon, <1>1, <1>2
  <2> HIDE DEF f
  <2>2. /\ S = {} => f[S] = 0
        /\ S # {} => Pick(S) \in S /\ f[S] = w[Pick(S)] + f[S \ {Pick(S)}]
    BY SMT, <2>1, SumsUpAt
  <2> QED BY Zenon, <2>2 DEF f
<1> QED BY <1>4, <1>5, <1>6

\* A sum of numbers is a number.
LEMMA SumType ==
  ASSUME NEW D, NEW w \in [D -> Nat], NEW S \in SUBSET D, IsFiniteSet(S)
  PROVE  SumFunctionOnSet(w, S) \in Nat
<1> DEFINE G == {s \in SUBSET S : SumFunctionOnSet(w, s) \in Nat}
<1>1. ASSUME NEW s \in SUBSET S, \A u \in SUBSET s : u # s => u \in G PROVE s \in G
  <2>1. IsFiniteSet(s)
    BY FS_Subset
  <2>2. CASE s = {}
    <3>1. SumFunctionOnSet(w, s) = 0
      BY Zenon, <2>1, <2>2, SumStep
    <3> QED BY <3>1
  <2>3. CASE s # {}
    <3>1. Pick(s) \in s /\ SumFunctionOnSet(w, s) = w[Pick(s)] + SumFunctionOnSet(w, s \ {Pick(s)})
      BY <2>1, <2>3, SumStep, Zenon
    <3>2. s \ {Pick(s)} \in G /\ w[Pick(s)] \in Nat
      BY <1>1, <3>1
    <3> QED BY <3>1, <3>2
  <2> QED BY <2>2, <2>3
<1>2. SUBSET S \subseteq G
  <2> HIDE DEF G
  <2> QED BY <1>1, SubsetInduction, Zenon
<1> QED BY <1>2

\* The order does not matter: any element can be the first.
LEMMA SumRemove ==
  ASSUME NEW D, NEW w \in [D -> Nat], NEW S \in SUBSET D, IsFiniteSet(S), NEW y \in S
  PROVE  SumFunctionOnSet(w, S) = w[y] + SumFunctionOnSet(w, S \ {y})
<1> DEFINE Sum(s) == SumFunctionOnSet(w, s)
           G == {s \in SUBSET S : \A x \in s : Sum(s) = w[x] + Sum(s \ {x})}
<1> HIDE DEF Sum
<1>1. ASSUME NEW s \in SUBSET S, \A u \in SUBSET s : u # s => u \in G PROVE s \in G
  <2> SUFFICES ASSUME NEW x \in s PROVE Sum(s) = w[x] + Sum(s \ {x})
    OBVIOUS
  <2> DEFINE p == Pick(s)
  <2>1. IsFiniteSet(s)
    BY FS_Subset
  <2>2. p \in s /\ Sum(s) = w[p] + Sum(s \ {p})
    BY <2>1, SumStep, Zenon DEF Sum
  <2> HIDE DEF p
  <2>3. CASE p = x
    BY ZenonT(60), <2>2, <2>3
  <2>4. CASE p # x
    <3>1. s \ {p} \in G /\ s \ {x} \in G /\ x \in s \ {p} /\ p \in s \ {x}
      BY <1>1, <2>2, <2>4
    <3>2. (s \ {p}) \ {x} = (s \ {x}) \ {p}
      OBVIOUS
    <3>3. Sum(s \ {p}) = w[x] + Sum((s \ {p}) \ {x}) /\ Sum(s \ {x}) = w[p] + Sum((s \ {p}) \ {x})
      BY ZenonT(30), <3>1, <3>2
    <3>4. Sum((s \ {p}) \ {x}) \in Nat /\ w[p] \in Nat /\ w[x] \in Nat
      <4>1. (s \ {p}) \ {x} \in SUBSET D /\ IsFiniteSet((s \ {p}) \ {x})
        <5>1. (s \ {p}) \ {x} \in SUBSET s
          OBVIOUS
        <5> QED BY <2>1, <5>1, FS_Subset
      <4> QED BY <2>2, <4>1, SumType DEF Sum
    <3> QED BY <2>2, <3>3, <3>4
  <2> QED BY <2>3, <2>4
<1>2. SUBSET S \subseteq G
  <2> HIDE DEF G
  <2> QED BY <1>1, SubsetInduction, ZenonT(60)
<1> QED BY <1>2 DEF Sum

\* One more element.
LEMMA SumAdd ==
  ASSUME NEW D, NEW w \in [D -> Nat], NEW S \in SUBSET D, IsFiniteSet(S), NEW y \in D \ S
  PROVE  SumFunctionOnSet(w, S \cup {y}) = SumFunctionOnSet(w, S) + w[y]
<1>1. S \cup {y} \in SUBSET D /\ y \in S \cup {y} /\ (S \cup {y}) \ {y} = S
  OBVIOUS
<1>2. IsFiniteSet(S \cup {y})
  BY FS_AddElement
<1>3. SumFunctionOnSet(w, S \cup {y}) = w[y] + SumFunctionOnSet(w, (S \cup {y}) \ {y})
  BY <1>1, <1>2, SumRemove
<1>4. SumFunctionOnSet(w, S) \in Nat /\ w[y] \in Nat
  BY SumType
<1>5. SumFunctionOnSet(w, S \cup {y}) = w[y] + SumFunctionOnSet(w, S)
  BY Zenon, <1>1, <1>3
<1> QED BY <1>4, <1>5

\* What a part sums up to is missing from the rest.
LEMMA SumDifference ==
  ASSUME NEW D, NEW w \in [D -> Nat], NEW S \in SUBSET D, IsFiniteSet(S), NEW T \in SUBSET S
  PROVE  SumFunctionOnSet(w, S \ T) = SumFunctionOnSet(w, S) - SumFunctionOnSet(w, T)
<1> DEFINE Sum(s) == SumFunctionOnSet(w, s)
           G == {u \in SUBSET T : Sum(S \ u) = Sum(S) - Sum(u)}
<1>1. ASSUME NEW u \in SUBSET D, IsFiniteSet(u) PROVE Sum(u) \in Nat
  BY <1>1, SumType
<1>2. IsFiniteSet(T) /\ \A u \in SUBSET S : IsFiniteSet(u)
  BY FS_Subset
<1>3. Sum({}) = 0
  BY Zenon, FS_EmptySet, SumStep
<1>4. ASSUME NEW u \in SUBSET S, NEW x \in u PROVE Sum(u) = w[x] + Sum(u \ {x})
  <2>1. u \in SUBSET D /\ IsFiniteSet(u)
    BY <1>2
  <2> QED BY <2>1, SumRemove
<1> HIDE DEF Sum
<1>5. ASSUME NEW u \in SUBSET T, \A v \in SUBSET u : v # u => v \in G PROVE u \in G
  <2>1. CASE u = {}
    <3>1. S \ u = S /\ Sum(S) \in Nat
      BY <1>1, <2>1
    <3> QED BY <1>3, <2>1, <3>1
  <2>2. CASE u # {}
    <3>1. PICK x : x \in u
      BY <2>2
    <3> DEFINE v == u \ {x}
    <3>2. v \in G
      BY <1>5, <3>1
    <3>3. x \in S \ v /\ (S \ v) \ {x} = S \ u /\ S \ v \in SUBSET S /\ u \in SUBSET S
      BY <3>1
    <3>4. Sum(S \ v) = w[x] + Sum(S \ u) /\ Sum(u) = w[x] + Sum(v)
      <4>1. Sum(S \ v) = w[x] + Sum((S \ v) \ {x})
        BY Zenon, <1>4, <3>3
      <4>2. Sum(u) = w[x] + Sum(v)
        BY Zenon, <1>4, <3>1, <3>3
      <4> QED BY <3>3, <4>1, <4>2
    <3>5. /\ Sum(S \ v) = Sum(S) - Sum(v)
          /\ w[x] \in Nat /\ Sum(S) \in Nat /\ Sum(v) \in Nat /\ Sum(S \ u) \in Nat
      <4>1. S \in SUBSET D /\ v \in SUBSET D /\ S \ u \in SUBSET D /\ x \in D
        BY <3>1
      <4>2. IsFiniteSet(v) /\ IsFiniteSet(S \ u)
        BY <1>2
      <4> QED BY ZenonT(60), <1>1, <3>2, <4>1, <4>2
    <3> HIDE DEF v
    <3>6. Sum(S \ u) = Sum(S) - Sum(u)
      BY <3>4, <3>5
    <3> QED BY <3>6
  <2> QED BY ZenonT(30), <2>1, <2>2
<1>6. SUBSET T \subseteq G
  <2> HIDE DEF G
  <2> QED BY <1>2, <1>5, SubsetInduction, Zenon
<1> QED BY <1>6 DEF Sum

-------------------------------------------------------------------------------
(* The fee histogram.                                                      *)

\* What holds of 0, and of i when it holds of i - 1, holds of every number of 0 .. n.
LEMMA CountingInduction ==
  ASSUME NEW n \in Nat, NEW G, 0 \in G, \A i \in 1 .. n : i - 1 \in G => i \in G
  PROVE  0 .. n \subseteq G
<1> DEFINE Bad == (0 .. n) \ G
<1> SUFFICES ASSUME Bad # {} PROVE FALSE
  OBVIOUS
<1>1. PICK i \in Bad : \A j \in Bad : ~ (<<j, i>> \in OpToRel(<, Nat))
  <2>1. Bad \subseteq Nat
    OBVIOUS
  <2> HIDE DEF Bad
  <2>2. IsWellFoundedOn(OpToRel(<, Nat), Nat)
    BY Zenon, NatLessThanWellFounded
  <2> QED BY ZenonT(60), <2>1, <2>2, WFMin
<1>2. i \in 1 .. n /\ i - 1 \in 0 .. n /\ i - 1 \in Bad
  <2>1. i \in 0 .. n /\ i \notin G /\ i # 0
    BY Zenon, <1>1
  <2> QED BY <2>1
<1>3. <<i - 1, i>> \in OpToRel(<, Nat)
  BY <1>2 DEF OpToRel
<1> QED BY Zenon, <1>1, <1>2, <1>3

\* The loop of electrum_fees() over the first n entries of s.
Loop(f, s, n) ==
  f = [i \in 0 .. n |-> IF i = 0 THEN [hist |-> <<>>, bin_size |-> 0, last |-> 0]
                        ELSE electrum_fees_step(f[i - 1], s[i])]

\* It runs to its end.
LEMMA LoopRuns ==
  ASSUME NEW s, NEW n \in Nat
  PROVE  \E f : Loop(f, s, n)
<1> DEFINE G == {m \in 0 .. n : \E f : Loop(f, s, m)}
           base == [hist |-> <<>>, bin_size |-> 0, last |-> 0]
<1>1. 0 \in G
  <2>1. Loop([i \in 0 .. 0 |-> base], s, 0)
    BY DEF Loop
  <2> QED BY <2>1
<1>2. ASSUME NEW i \in 1 .. n, i - 1 \in G PROVE i \in G
  <2>1. PICK f : Loop(f, s, i - 1)
    BY <1>2
  <2> DEFINE g == [j \in 0 .. i |-> IF j = i THEN electrum_fees_step(f[i - 1], s[i]) ELSE f[j]]
  <2>2. \A j \in 0 .. i - 1 : f[j] = IF j = 0 THEN base ELSE electrum_fees_step(f[j - 1], s[j])
    BY Zenon, <2>1 DEF Loop
  <2>3. ASSUME NEW j \in 0 .. i
        PROVE  g[j] = IF j = 0 THEN base ELSE electrum_fees_step(g[j - 1], s[j])
    <3>1. CASE j = i
      <4>1. j # 0 /\ j - 1 \in 0 .. i /\ j - 1 # i
        BY <3>1
      <4> QED BY <3>1, <4>1
    <3>2. CASE j # i
      <4>1. j \in 0 .. i - 1 /\ g[j] = f[j]
        BY <3>2
      <4>2. j # 0 => j - 1 \in 0 .. i /\ j - 1 # i /\ g[j - 1] = f[j - 1]
        BY <4>1
      <4> HIDE DEF g, base
      <4> QED BY ZenonT(60), <2>2, <4>1, <4>2
    <3> QED BY ZenonT(60), <3>1, <3>2
  <2>4. g = [j \in 0 .. i |-> g[j]]
    OBVIOUS
  <2> HIDE DEF g
  <2>5. Loop(g, s, i)
    BY Zenon, <2>3, <2>4 DEF Loop
  <2> QED BY <2>5
<1>3. 0 .. n \subseteq G
  <2> HIDE DEF G
  <2> QED BY Zenon, <1>1, <1>2, CountingInduction
<1> QED BY <1>3

\* The transactions of S in bin i of the histogram h, and those in none.
Bin(h, i, S) == {t \in S : Rate[t] >= h[i][1] /\ (i > 1 => Rate[t] < h[i - 1][1])}
Rest(h, S) == {t \in S : Len(h) > 0 => Rate[t] < h[Len(h)][1]}

\* The loop has put the transactions of S into bins.
Binned(a, S) ==
  /\ a.hist \in Seq(Nat \X Nat) /\ a.bin_size \in Nat /\ a.last \in Nat
  /\ \A i \in 1 .. Len(a.hist) :
       /\ a.hist[i][2] = SumFunctionOnSet(Vsize, Bin(a.hist, i, S)) /\ a.hist[i][2] > BinWidth
       /\ a.hist[i][1] > a.last
  /\ a.bin_size = SumFunctionOnSet(Vsize, Rest(a.hist, S))
  /\ IF S = {} THEN a.hist = <<>> /\ a.bin_size = 0
     ELSE a.bin_size > 0 /\ (\E t \in S : Rate[t] = a.last) /\ \A t \in S : Rate[t] >= a.last

\* Order on the naturals, for terms the provers take apart slowly.
LEMMA Above ==
  ASSUME NEW x \in Nat, NEW y \in Nat, NEW z \in Nat, x > y, z < y \/ z <= y
  PROVE  x > z /\ z < x /\ ~ (z >= x)
OBVIOUS

\* The same.
LEMMA Order ==
  ASSUME NEW x \in Nat, NEW y \in Nat
  PROVE  /\ x <= y /\ x # y => x < y
         /\ x < y <=> ~ (x >= y)
         /\ x + y - y = x /\ x + y - 0 = x + y
OBVIOUS

\* A position that is not the last.
LEMMA NotLast ==
  ASSUME NEW n \in Nat, NEW i \in 1 .. n + 1, i # n + 1
  PROVE  i \in 1 .. n
OBVIOUS

\* Bins are pairs of numbers.
LEMMA BinsType ==
  ASSUME NEW q \in Seq(Nat \X Nat)
  PROVE  /\ Len(q) \in Nat /\ \A i \in 1 .. Len(q) : q[i][1] \in Nat
         /\ Len(q) > 0 => Len(q) \in 1 .. Len(q)
OBVIOUS

\* A bin is added at the end.
LEMMA AppendBin ==
  ASSUME NEW q \in Seq(Nat \X Nat), NEW x \in Nat, NEW y \in Nat,
         NEW h, h = Append(q, <<x, y>>)
  PROVE  /\ h \in Seq(Nat \X Nat) /\ Len(h) = Len(q) + 1 /\ Len(h) > 0
         /\ h[Len(q) + 1][1] = x /\ h[Len(q) + 1][2] = y
         /\ \A i \in 1 .. Len(q) : h[i] = q[i]
OBVIOUS

\* Histogram h is a's with the bin filled from S closed, within a larger set T.
Closed(h, a, S, T) ==
  /\ h \in Seq(Nat \X Nat) /\ Len(h) = Len(a.hist) + 1
  /\ h[Len(h)][1] = a.last /\ h[Len(h)][2] = a.bin_size
  /\ \A i \in 1 .. Len(h) : h[i][2] = SumFunctionOnSet(Vsize, Bin(h, i, T))
  /\ \A i \in 1 .. Len(a.hist) : h[i] = a.hist[i]
  /\ Rest(h, T) = T \ S

\* Closing a bin: what is in it is what was in none, as rates only fall.
LEMMA CloseBin ==
  ASSUME NEW a, NEW S \in SUBSET Txid, Binned(a, S), S # {},
         NEW T \in SUBSET Txid, S \subseteq T, \A t \in T \ S : Rate[t] < a.last,
         NEW h, h = Append(a.hist, <<a.last, a.bin_size>>)
  PROVE  Closed(h, a, S, T)
<1> DEFINE m == Len(a.hist)
<1>1. /\ a.hist \in Seq(Nat \X Nat) /\ a.bin_size \in Nat /\ a.last \in Nat
      /\ \A i \in 1 .. m : a.hist[i][2] = SumFunctionOnSet(Vsize, Bin(a.hist, i, S)) /\ a.hist[i][1] > a.last
      /\ a.bin_size = SumFunctionOnSet(Vsize, Rest(a.hist, S))
      /\ \A t \in S : Rate[t] >= a.last
  BY ZenonT(30) DEF Binned
<1>2. /\ h \in Seq(Nat \X Nat) /\ Len(h) = m + 1 /\ m \in Nat
      /\ h[m + 1][1] = a.last /\ h[m + 1][2] = a.bin_size /\ Len(h) > 0
      /\ \A i \in 1 .. m : h[i] = a.hist[i]
  <2>1. m \in Nat
    BY Zenon, <1>1, BinsType
  <2>2. a.hist \in Seq(Nat \X Nat) /\ a.last \in Nat /\ a.bin_size \in Nat
    BY ZenonT(60), <1>1
  <2>3. /\ h \in Seq(Nat \X Nat) /\ Len(h) = Len(a.hist) + 1 /\ Len(h) > 0
        /\ h[Len(a.hist) + 1][1] = a.last /\ h[Len(a.hist) + 1][2] = a.bin_size
        /\ \A i \in 1 .. Len(a.hist) : h[i] = a.hist[i]
    BY SMT, <2>2, AppendBin
  <2> QED BY ZenonT(60), <2>1, <2>3
<1>3. \A t \in T : Rate[t] \in Nat
  BY ZenonT(30), MempoolConstants
<1>4. \A i \in 1 .. m : a.hist[i][1] \in Nat
  BY Zenon, <1>1, BinsType
<1> HIDE DEF m
<1>5. ASSUME NEW i \in 1 .. m PROVE Bin(h, i, T) = Bin(a.hist, i, S)
  <2>1. h[i] = a.hist[i] /\ (i > 1 => h[i - 1] = a.hist[i - 1])
    <3>1. m \in Nat
      BY Zenon, <1>2
    <3>2. i > 1 => i - 1 \in 1 .. m
      BY <3>1
    <3> QED BY ZenonT(30), <1>2, <3>2
  <2>2. \A t \in T \ S : ~ (Rate[t] >= a.hist[i][1])
    <3> SUFFICES ASSUME NEW t \in T \ S PROVE ~ (Rate[t] >= a.hist[i][1])
      OBVIOUS
    <3>1. /\ Rate[t] \in Nat /\ a.last \in Nat /\ a.hist[i][1] \in Nat
          /\ a.hist[i][1] > a.last /\ Rate[t] < a.last
      BY ZenonT(60), <1>1, <1>3, <1>4
    <3> QED BY ZenonT(60), <3>1, Above
  <2> QED BY ZenonT(30), <2>1, <2>2 DEF Bin
<1>6. Bin(h, m + 1, T) = Rest(a.hist, S)
  <2>1. h[m + 1][1] = a.last /\ (m + 1 > 1 <=> m > 0) /\ (m > 0 => h[m + 1 - 1] = a.hist[m])
    <3>1. m + 1 - 1 = m /\ (m + 1 > 1 <=> m > 0) /\ (m > 0 => m \in 1 .. m)
      BY <1>2
    <3> QED BY ZenonT(60), <1>2, <3>1
  <2>2. \A t \in T : Rate[t] >= a.last <=> t \in S
    BY <1>1, <1>3
  <2> QED BY <2>1, <2>2 DEF Bin, Rest, m
<1>7. Rest(h, T) = T \ S
  <2>1. Len(h) > 0 /\ h[Len(h)][1] = a.last
    BY ZenonT(60), <1>2
  <2>2. \A t \in T : Rate[t] < a.last <=> t \notin S
    BY <1>1, <1>3
  <2> QED BY <2>1, <2>2 DEF Rest
<1>8. ASSUME NEW i \in 1 .. Len(h) PROVE h[i][2] = SumFunctionOnSet(Vsize, Bin(h, i, T))
  <2>1. CASE i = m + 1
    BY <1>1, <1>2, <1>6, <2>1
  <2>2. CASE i # m + 1
    <3>1. i \in 1 .. m
      BY ZenonT(60), <1>2, <2>2, NotLast
    <3> QED BY ZenonT(60), <1>1, <1>2, <1>5, <3>1
  <2> QED BY ZenonT(60), <2>1, <2>2
<1>9. h[Len(h)][1] = a.last /\ h[Len(h)][2] = a.bin_size /\ Len(h) = Len(a.hist) + 1
  BY Zenon, <1>2 DEF m
<1> QED BY ZenonT(60), <1>2, <1>7, <1>8, <1>9 DEF m, Closed

\* One round of the loop.
LEMMA StepBins ==
  ASSUME NEW a, NEW S \in SUBSET Txid, IsFiniteSet(S), Binned(a, S),
         NEW t \in Txid, t \notin S, S # {} => Rate[t] <= a.last
  PROVE  Binned(electrum_fees_step(a, t), S \cup {t}) /\ electrum_fees_step(a, t).last = Rate[t]
<1> DEFINE b == electrum_fees_step(a, t)
           T == S \cup {t}
           full == a.bin_size > BinWidth /\ a.last # Rate[t]
<1>1. /\ Rate[t] \in Nat /\ Vsize[t] \in Nat \ {0} /\ Vsize \in [Txid -> Nat] /\ BinWidth \in Nat
      /\ \A u \in T : Rate[u] \in Nat
  BY ZenonT(30), MempoolConstants
<1>2. /\ b.hist = IF full THEN Append(a.hist, <<a.last, a.bin_size>>) ELSE a.hist
      /\ b.bin_size = (IF full THEN 0 ELSE a.bin_size) + Vsize[t]
      /\ b.last = Rate[t]
  BY ZenonT(30) DEF electrum_fees_step
<1>3. /\ a.hist \in Seq(Nat \X Nat) /\ a.bin_size \in Nat /\ a.last \in Nat
      /\ a.bin_size = SumFunctionOnSet(Vsize, Rest(a.hist, S))
      /\ S = {} => a.hist = <<>> /\ a.bin_size = 0
      /\ S # {} => \A u \in S : Rate[u] >= a.last
      /\ Len(a.hist) \in Nat
  BY Zenon, BinsType DEF Binned
<1>4. \A i \in 1 .. Len(a.hist) :
        /\ a.hist[i][2] = SumFunctionOnSet(Vsize, Bin(a.hist, i, S)) /\ a.hist[i][2] > BinWidth
        /\ a.hist[i][1] > a.last /\ a.hist[i][1] \in Nat
  BY ZenonT(60), <1>3, BinsType DEF Binned
<1> HIDE DEF b
<1>5. /\ (\E u \in T : Rate[u] = b.last) /\ (\A u \in T : Rate[u] >= b.last) /\ T # {}
      /\ b.last \in Nat
  BY <1>1, <1>2, <1>3
<1>6. CASE full
  <2>1. S # {} /\ Rate[t] < a.last
    <3>1. ~ (0 > BinWidth)
      BY <1>1
    <3>2. S # {}
      BY Zenon, <1>3, <1>6, <3>1
    <3>3. Rate[t] <= a.last /\ Rate[t] # a.last
      BY ZenonT(60), <1>6, <3>2
    <3> QED BY ZenonT(60), <1>1, <1>3, <3>2, <3>3, Order
  <2>2. b.hist = Append(a.hist, <<a.last, a.bin_size>>) /\ b.bin_size = Vsize[t]
    BY <1>1, <1>2, <1>6
  <2>3. /\ b.hist \in Seq(Nat \X Nat) /\ Len(b.hist) = Len(a.hist) + 1
        /\ b.hist[Len(b.hist)][1] = a.last /\ b.hist[Len(b.hist)][2] = a.bin_size
        /\ \A i \in 1 .. Len(b.hist) : b.hist[i][2] = SumFunctionOnSet(Vsize, Bin(b.hist, i, T))
        /\ \A i \in 1 .. Len(a.hist) : b.hist[i] = a.hist[i]
        /\ Rest(b.hist, T) = T \ S
    <3>1. T \in SUBSET Txid /\ S \subseteq T /\ \A u \in T \ S : Rate[u] < a.last
      BY ZenonT(30), <2>1
    <3> HIDE DEF T
    <3>2. Closed(b.hist, a, S, T)
      BY ZenonT(30), <2>1, <2>2, <3>1, CloseBin
    <3> QED BY Zenon, <3>2 DEF Closed
  <2>4. ASSUME NEW i \in 1 .. Len(b.hist) PROVE b.hist[i][2] > BinWidth /\ b.hist[i][1] > b.last
    <3>1. CASE i = Len(b.hist)
      BY ZenonT(60), <1>2, <1>6, <2>1, <2>3, <3>1
    <3>2. CASE i # Len(b.hist)
      <4>1. i \in 1 .. Len(a.hist)
        BY ZenonT(60), <1>3, <2>3, <3>2, NotLast
      <4>2. b.hist[i] = a.hist[i] /\ a.hist[i][1] > a.last /\ a.hist[i][2] > BinWidth /\ a.hist[i][1] \in Nat
        BY ZenonT(60), <1>4, <2>3, <4>1
      <4>3. a.hist[i][1] > Rate[t]
        BY ZenonT(60), <1>1, <1>3, <2>1, <4>2, Above
      <4> QED BY Zenon, <1>2, <4>2, <4>3
    <3> QED BY ZenonT(60), <3>1, <3>2
  <2>5. b.bin_size = SumFunctionOnSet(Vsize, Rest(b.hist, T))
    <3>1. T \ S = {} \cup {t}
      OBVIOUS
    <3>2. SumFunctionOnSet(Vsize, {} \cup {t}) = SumFunctionOnSet(Vsize, {}) + Vsize[t]
      BY <1>1, FS_EmptySet, SumAdd
    <3>3. SumFunctionOnSet(Vsize, {}) = 0
      BY ZenonT(60), FS_EmptySet, SumStep
    <3>4. 0 + Vsize[t] = Vsize[t]
      BY <1>1
    <3> QED BY ZenonT(60), <2>2, <2>3, <3>1, <3>2, <3>3, <3>4
  <2> HIDE DEF T
  <2>6. Binned(b, T)
    <3>1. b.bin_size \in Nat /\ b.bin_size > 0
      BY <1>1, <2>2
    <3> QED BY ZenonT(60), <1>5, <2>3, <2>4, <2>5, <3>1 DEF Binned
  <2> QED BY ZenonT(30), <1>2, <2>6 DEF b, T
<1>7. CASE ~ full
  <2>1. b.hist = a.hist /\ b.bin_size = a.bin_size + Vsize[t]
    BY ZenonT(30), <1>2, <1>7
  <2>2. ASSUME NEW i \in 1 .. Len(a.hist)
        PROVE  a.hist[i][1] > Rate[t] /\ Rate[t] < a.hist[i][1] /\ ~ (Rate[t] >= a.hist[i][1])
    <3>1. S # {}
      BY <1>3
    <3>2. a.hist[i][1] > a.last /\ a.hist[i][1] \in Nat
      BY <1>4
    <3>3. Rate[t] <= a.last
      BY <3>1
    <3> QED BY ZenonT(60), <1>1, <1>3, <3>2, <3>3, Above
  <2>3. ASSUME NEW i \in 1 .. Len(a.hist) PROVE Bin(a.hist, i, T) = Bin(a.hist, i, S)
    BY Zenon, <2>2 DEF Bin
  <2>4. Rest(a.hist, T) = Rest(a.hist, S) \cup {t}
    <3>1. Len(a.hist) > 0 => Rate[t] < a.hist[Len(a.hist)][1]
      BY Zenon, <1>3, <2>2, BinsType
    <3> QED BY ZenonT(30), <3>1 DEF Rest
  <2>5. b.bin_size = SumFunctionOnSet(Vsize, Rest(b.hist, T))
    <3> DEFINE R == Rest(a.hist, S)
    <3>1. R \in SUBSET Txid /\ R \subseteq S /\ t \in Txid \ R
      BY DEF Rest
    <3>2. IsFiniteSet(R)
      BY ZenonT(60), <3>1, FS_Subset
    <3> HIDE DEF R
    <3>3. SumFunctionOnSet(Vsize, R \cup {t}) = SumFunctionOnSet(Vsize, R) + Vsize[t]
      BY <1>1, <3>1, <3>2, SumAdd
    <3> QED BY ZenonT(60), <1>3, <2>1, <2>4, <3>3 DEF R
  <2>6. \A i \in 1 .. Len(b.hist) :
          /\ b.hist[i][2] = SumFunctionOnSet(Vsize, Bin(b.hist, i, T)) /\ b.hist[i][2] > BinWidth
          /\ b.hist[i][1] > b.last
    <3> HIDE DEF T
    <3> QED BY ZenonT(60), <1>2, <1>4, <2>1, <2>2, <2>3
  <2>7. b.bin_size \in Nat /\ b.bin_size > 0
    BY <1>1, <1>3, <2>1
  <2> HIDE DEF T
  <2>8. Binned(b, T)
    BY ZenonT(60), <1>3, <1>5, <2>1, <2>5, <2>6, <2>7 DEF Binned
  <2> QED BY <1>2, <2>8 DEF b, T
<1> QED BY ZenonT(30), <1>6, <1>7

\* Histogram h has every transaction of S in the bin of its rate, and no bin but the
\* last below the width.
FeeBins(h, S) ==
  /\ \A i \in 1 .. Len(h) :
       /\ h[i][2] = SumFunctionOnSet(Vsize, Bin(h, i, S))
       /\ i < Len(h) => h[i][2] > BinWidth
  /\ S # {} =>
       LET lowest == h[Len(h)][1] IN
       /\ \E t \in S : Rate[t] = lowest
       /\ \A t \in S : Rate[t] >= lowest

\* What the loop has after all of S, with the last bin closed.
LEMMA LastBin ==
  ASSUME NEW a, NEW S \in SUBSET Txid, Binned(a, S),
         NEW h, h = IF a.bin_size > 0 THEN Append(a.hist, <<a.last, a.bin_size>>) ELSE a.hist
  PROVE  FeeBins(h, S)
<1>1. CASE S = {}
  <2>1. h = <<>>
    BY <1>1 DEF Binned
  <2>2. Len(<<>>) = 0 /\ 1 .. 0 = {}
    OBVIOUS
  <2>3. 1 .. Len(h) = {}
    BY Zenon, <2>1, <2>2
  <2> QED BY ZenonT(60), <1>1, <2>3 DEF FeeBins
<1>2. CASE S # {}
  <2>1. /\ a.bin_size > 0 /\ (\E t \in S : Rate[t] = a.last) /\ \A t \in S : Rate[t] >= a.last
        /\ \A i \in 1 .. Len(a.hist) : a.hist[i][2] > BinWidth
        /\ a.hist \in Seq(Nat \X Nat)
    BY ZenonT(30), <1>2 DEF Binned
  <2>2. Closed(h, a, S, S)
    <3>1. h = Append(a.hist, <<a.last, a.bin_size>>)
      BY Zenon, <2>1
    <3>2. S \subseteq S /\ \A t \in S \ S : Rate[t] < a.last
      OBVIOUS
    <3> QED BY ZenonT(60), <1>2, <3>1, <3>2, CloseBin
  <2>3. /\ Len(h) = Len(a.hist) + 1 /\ h[Len(h)][1] = a.last
        /\ \A i \in 1 .. Len(h) : h[i][2] = SumFunctionOnSet(Vsize, Bin(h, i, S))
        /\ \A i \in 1 .. Len(a.hist) : h[i] = a.hist[i]
    BY ZenonT(60), <2>2 DEF Closed
  <2>4. ASSUME NEW i \in 1 .. Len(h), i < Len(h) PROVE h[i][2] > BinWidth
    <3>1. i \in 1 .. Len(a.hist)
      <4>1. Len(a.hist) \in Nat
        BY <2>1
      <4> QED BY <2>3, <2>4, <4>1
    <3> QED BY ZenonT(60), <2>1, <2>3, <3>1
  <2> QED BY ZenonT(60), <2>1, <2>3, <2>4 DEF FeeBins
<1> QED BY <1>1, <1>2

\* electrum_fees() of the sorted entries of S, whatever the order of equal rates.
LEMMA FeesExact ==
  ASSUME NEW S \in SUBSET Txid, IsFiniteSet(S), NEW s \in SortedEntries(S)
  PROVE  FeeBins(electrum_fees(s), S)
<1> DEFINE n == Cardinality(S)
           f == CHOOSE f : Loop(f, s, Len(s))
           Pre(i) == {s[j] : j \in 1 .. i}
           G == {i \in 0 .. n : Binned(f[i], Pre(i)) /\ (i > 0 => f[i].last = Rate[s[i]])}
<1>1. n \in Nat
  BY FS_CardinalityType
<1>2. s \in Bijection(1 .. n, S) /\ \A i \in 1 .. n - 1 : Rate[s[i]] >= Rate[s[i + 1]]
  BY Zenon DEF SortedEntries
<1> HIDE DEF n
<1>3. /\ s \in [1 .. n -> S] /\ \A i, j \in 1 .. n : s[i] = s[j] => i = j
      /\ \A t \in S : \E i \in 1 .. n : s[i] = t
      /\ \A i \in 1 .. n : s[i] \in S
  BY ZenonT(30), <1>2 DEF Bijection, Injection, Surjection, IsInjective
<1>4. Len(s) = n
  BY <1>1, <1>3
<1>5. /\ f[0] = [hist |-> <<>>, bin_size |-> 0, last |-> 0]
      /\ \A i \in 1 .. n : f[i] = electrum_fees_step(f[i - 1], s[i])
  <2>1. Loop(f, s, n)
    BY Zenon, <1>1, <1>4, LoopRuns
  <2> HIDE DEF f
  <2>2. \A i \in 0 .. n : f[i] = IF i = 0 THEN [hist |-> <<>>, bin_size |-> 0, last |-> 0]
                                 ELSE electrum_fees_step(f[i - 1], s[i])
    BY Zenon, <2>1 DEF Loop
  <2>3. 0 \in 0 .. n /\ \A i \in 1 .. n : i \in 0 .. n /\ i # 0
    BY <1>1
  <2> QED BY Zenon, <2>2, <2>3
<1>6. electrum_fees(s) = IF f[n].bin_size > 0 THEN Append(f[n].hist, <<f[n].last, f[n].bin_size>>)
                         ELSE f[n].hist
  <2>1. electrum_fees(s) = IF f[Len(s)].bin_size > 0
                           THEN Append(f[Len(s)].hist, <<f[Len(s)].last, f[Len(s)].bin_size>>)
                           ELSE f[Len(s)].hist
    BY Zenon DEF electrum_fees, Loop
  <2> QED BY Zenon, <1>4, <2>1
<1> HIDE DEF f
<1>7. 0 \in G
  <2>1. Pre(0) = {}
    OBVIOUS
  <2>2. Binned([hist |-> <<>>, bin_size |-> 0, last |-> 0], {})
    <3> DEFINE a == [hist |-> <<>>, bin_size |-> 0, last |-> 0]
    <3>1. SumFunctionOnSet(Vsize, {}) = 0
      BY Zenon, FS_EmptySet, SumStep
    <3>2. a.hist = <<>> /\ a.bin_size = 0 /\ a.last = 0 /\ <<>> \in Seq(Nat \X Nat) /\ 0 \in Nat
      OBVIOUS
    <3>3. Len(<<>>) = 0 /\ 1 .. 0 = {}
      OBVIOUS
    <3> HIDE DEF a
    <3>4. Rest(a.hist, {}) = {}
      BY Zenon DEF Rest
    <3>5. Binned(a, {})
      BY ZenonT(60), <3>1, <3>2, <3>3, <3>4 DEF Binned
    <3> QED BY Zenon, <3>5 DEF a
  <2>3. 0 \in 0 .. n /\ ~ (0 > 0)
    BY <1>1
  <2> HIDE DEF Pre
  <2> QED BY ZenonT(60), <1>5, <2>1, <2>2, <2>3
<1>8. ASSUME NEW i \in 1 .. n, i - 1 \in G PROVE i \in G
  <2>1. /\ Binned(f[i - 1], Pre(i - 1)) /\ (i - 1 > 0 => f[i - 1].last = Rate[s[i - 1]])
        /\ i - 1 \in 0 .. n /\ f[i] = electrum_fees_step(f[i - 1], s[i])
    BY <1>5, <1>8
  <2>2. Pre(i) = Pre(i - 1) \cup {s[i]}
    <3>1. 1 .. i = (1 .. i - 1) \cup {i}
      OBVIOUS
    <3> QED BY Zenon, <3>1
  <2>3. Pre(i - 1) \in SUBSET Txid /\ IsFiniteSet(Pre(i - 1)) /\ s[i] \in Txid /\ s[i] \notin Pre(i - 1)
    <3>1. \A j \in 1 .. i - 1 : j \in 1 .. n /\ j # i
      BY <1>1
    <3>2. Pre(i - 1) \subseteq S /\ s[i] \in S
      <4>1. s[i] \in S /\ \A j \in 1 .. i - 1 : s[j] \in S
        BY Zenon, <1>3, <3>1
      <4> QED BY ZenonT(30), <4>1
    <3>3. s[i] \notin Pre(i - 1)
      BY Zenon, <1>3, <3>1
    <3> HIDE DEF Pre
    <3> QED BY ZenonT(30), <3>2, <3>3, FS_Subset
  <2>4. Pre(i - 1) # {} => Rate[s[i]] <= f[i - 1].last
    <3> SUFFICES ASSUME Pre(i - 1) # {} PROVE Rate[s[i]] <= f[i - 1].last
      OBVIOUS
    <3>1. i - 1 \in 1 .. n - 1 /\ i - 1 > 0 /\ i - 1 + 1 = i
      BY <1>1
    <3>2. Rate[s[i - 1]] >= Rate[s[i]]
      BY Zenon, <1>2, <3>1
    <3>3. s[i] \in Txid /\ s[i - 1] \in Txid
      <4>1. i - 1 \in 1 .. n
        BY <1>1
      <4> QED BY Zenon, <1>3, <4>1
    <3>4. Rate[s[i]] \in Nat /\ Rate[s[i - 1]] \in Nat
      BY ZenonT(30), <3>3, MempoolConstants
    <3>5. Rate[s[i]] <= Rate[s[i - 1]]
      BY ZenonT(30), <3>2, <3>4
    <3> HIDE DEF Pre
    <3> QED BY Zenon, <2>1, <3>1, <3>5
  <2> HIDE DEF Pre
  <2>5. /\ Binned(electrum_fees_step(f[i - 1], s[i]), Pre(i - 1) \cup {s[i]})
        /\ electrum_fees_step(f[i - 1], s[i]).last = Rate[s[i]]
    BY Zenon, <2>1, <2>3, <2>4, StepBins
  <2>6. i \in 0 .. n
    BY <1>1
  <2> QED BY ZenonT(60), <2>1, <2>2, <2>5, <2>6
<1>9. n \in G
  <2> HIDE DEF G
  <2>1. 0 .. n \subseteq G
    BY Zenon, <1>1, <1>7, <1>8, CountingInduction
  <2> QED BY <1>1, <2>1
<1>10. Pre(n) = S
  <2>1. (\A t \in S : \E i \in 1 .. n : s[i] = t) /\ \A i \in 1 .. n : s[i] \in S
    BY Zenon, <1>3
  <2> QED BY SMT, <2>1
<1>11. Binned(f[n], S)
  <2> HIDE DEF Pre
  <2> QED BY Zenon, <1>9, <1>10
<1> QED BY ZenonT(60), <1>6, <1>11, LastBin

-------------------------------------------------------------------------------
(* The mempool.                                                            *)

\* The types that the proofs need; the tracker is finite.
TypeOK ==
  /\ mem \in SUBSET Txid /\ items \in SUBSET Txid /\ IsFiniteSet(items)
  /\ new \in SUBSET Txid /\ old \in SUBSET Txid /\ todo \in SUBSET Txid /\ entry \in SUBSET Txid

\* While update() runs: what it has to look at is not tracked yet, everything that
\* was tracked still is, and an id that is neither tracked nor to be looked at has
\* left the daemon's mempool since the update began, or a request about it failed.
UpdateInv ==
  /\ pc = "add" =>
       /\ old \subseteq items /\ changed = items \ old
       /\ items \subseteq old \cup new
       /\ todo \subseteq new \ items /\ entry \subseteq new \ items
       /\ \A t, u \in entry : t = u
       /\ todo \cap entry = {}
       /\ new \ mem \subseteq left
       /\ new \ items \subseteq todo \cup entry \cup left \cup failed
  /\ pc # "add" => todo = {} /\ entry = {}

\* The inductive invariant.
Inv == TypeOK /\ IndexExact /\ UpdateInv /\ UpdateExact

\* The weights are numbers of occurrences.
LEMMA OccurrencesType ==
  ASSUME NEW k \in Key
  PROVE  [t \in Txid |-> Occurrences(RowsOf[t], k)] \in [Txid -> Nat]
<1> SUFFICES ASSUME NEW t \in Txid PROVE Occurrences(RowsOf[t], k) \in Nat
  OBVIOUS
<1>1. Len(RowsOf[t]) \in Nat
  BY MempoolConstants
<1>2. IsFiniteSet(1 .. Len(RowsOf[t]))
  BY <1>1, FS_Interval
<1>3. IsFiniteSet({i \in 1 .. Len(RowsOf[t]) : RowsOf[t][i] = k})
  <2>1. {i \in 1 .. Len(RowsOf[t]) : RowsOf[t][i] = k} \subseteq 1 .. Len(RowsOf[t])
    BY ZenonT(30)
  <2> QED BY ZenonT(30), <1>2, <2>1, FS_Subset
<1> QED BY <1>3, FS_CardinalityType DEF Occurrences

\* The store ix holds the rows of the transactions in S.
Exact(ix, S) == \A k \in Key : ix[k] = Values(S, k)

\* MempoolStore::add() of a transaction that is not in the store keeps it exact.
LEMMA AddExact ==
  ASSUME NEW S \in SUBSET Txid, IsFiniteSet(S), NEW t \in Txid, t \notin S,
         NEW ix, Exact(ix, S)
  PROVE  Exact(add(ix, t), S \cup {t})
<1> SUFFICES ASSUME NEW k \in Key PROVE add(ix, t)[k] = Values(S \cup {t}, k)
  BY Zenon DEF Exact
<1> DEFINE w == [u \in Txid |-> Occurrences(RowsOf[u], k)]
<1>1. w \in [Txid -> Nat] /\ w[t] = Occurrences(RowsOf[t], k)
  BY ZenonT(30), OccurrencesType
<1>2. add(ix, t)[k] = Values(S, k) + w[t]
  BY <1>1 DEF add, Exact
<1>3. Values(S, k) = SumFunctionOnSet(w, S) /\ Values(S \cup {t}, k) = SumFunctionOnSet(w, S \cup {t})
  BY Zenon DEF Values
<1> HIDE DEF w
<1> QED BY <1>1, <1>2, <1>3, SumAdd

\* MempoolStore::remove() of transactions that are in the store keeps it exact, and
\* finds every key.
LEMMA RemoveExact ==
  ASSUME NEW S \in SUBSET Txid, IsFiniteSet(S), NEW T \in SUBSET S,
         NEW ix, Exact(ix, S)
  PROVE  Exact(remove(ix, T), S \ T) /\ remove_ok(ix, T)
<1>1. ASSUME NEW k \in Key
      PROVE  remove(ix, T)[k] = Values(S \ T, k) /\ remove(ix, T)[k] >= 0
  <2> DEFINE w == [u \in Txid |-> Occurrences(RowsOf[u], k)]
  <2>1. w \in [Txid -> Nat]
    BY ZenonT(30), OccurrencesType
  <2>2. remove(ix, T)[k] = Values(S, k) - Values(T, k)
    BY DEF remove, Exact
  <2>3. /\ Values(S, k) = SumFunctionOnSet(w, S) /\ Values(T, k) = SumFunctionOnSet(w, T)
        /\ Values(S \ T, k) = SumFunctionOnSet(w, S \ T)
    BY Zenon DEF Values
  <2> HIDE DEF w
  <2>4. S \ T \in SUBSET Txid /\ IsFiniteSet(S \ T)
    BY FS_Subset
  <2>5. SumFunctionOnSet(w, S \ T) \in Nat
    BY ZenonT(30), <2>1, <2>4, SumType
  <2>6. SumFunctionOnSet(w, S \ T) = SumFunctionOnSet(w, S) - SumFunctionOnSet(w, T)
    BY ZenonT(60), <2>1, SumDifference
  <2>7. SumFunctionOnSet(w, S \ T) >= 0
    BY <2>5
  <2> QED BY Zenon, <2>2, <2>3, <2>6, <2>7
<1> QED BY Zenon, <1>1 DEF Exact, remove_ok

\* The empty store is exact.
LEMMA EmptyExact == Exact([k \in Key |-> 0], {})
<1>1. ASSUME NEW k \in Key PROVE Values({}, k) = 0
  BY Zenon, FS_EmptySet, SumStep DEF Values
<1> QED BY <1>1 DEF Exact

-------------------------------------------------------------------------------
(* The steps.                                                              *)

\* The first process starts with an empty tracker.
LEMMA InitInv ==
  ASSUME Init
  PROVE  Inv
<1>1. TypeOK
  BY FS_EmptySet DEF Init, TypeOK
<1>2. IndexExact
  BY Zenon, EmptyExact DEF Init, IndexExact, Exact
<1>3. UpdateInv /\ UpdateExact
  BY ZenonT(30) DEF Init, UpdateInv, UpdateExact
<1> QED BY ZenonT(30), <1>1, <1>2, <1>3 DEF Inv

\* A step after which the store is exact and nothing has panicked.
LEMMA ExactAfter ==
  ASSUME panic' = "none", Exact(index', items')
  PROVE  IndexExact'
BY ZenonT(30) DEF IndexExact, Exact, Values

\* A step that leaves the tracker alone leaves the index exact.
LEMMA SameTracker ==
  ASSUME IndexExact, UNCHANGED <<panic, items, index>>
  PROVE  IndexExact'
BY DEF IndexExact, Values

\* The daemon's mempool changes between two requests.
LEMMA ChangeInv ==
  ASSUME Inv, MempoolChange
  PROVE  Inv'
<1>1. mem' \in SUBSET Txid
  BY ZenonT(30) DEF Inv, TypeOK, MempoolChange
<1>2. /\ left' = left \cup (mem \ mem')
      /\ UNCHANGED <<pc, panic, items, index, new, old, todo, entry, changed, failed>>
  BY DEF MempoolChange, tracker
<1>3. TypeOK' /\ IndexExact'
  <2>1. TypeOK'
    BY ZenonT(30), <1>1, <1>2 DEF Inv, TypeOK
  <2>2. IndexExact'
    BY ZenonT(30), <1>2, SameTracker DEF Inv
  <2> QED BY ZenonT(30), <2>1, <2>2
<1>4. UpdateInv'
  BY ZenonT(30), <1>2 DEF Inv, UpdateInv
<1>5. UpdateExact'
  BY <1>2 DEF Inv, UpdateExact
<1> QED BY ZenonT(30), <1>3, <1>4, <1>5 DEF Inv

\* update() begins, fails, asks for an entry or returns.
LEMMA RequestInv ==
  ASSUME Inv, UpdateStart \/ UpdateFails \/ FetchEntry \/ UpdateDone
  PROVE  Inv'
<1>1. UNCHANGED <<mem, panic, items, index>> /\ IndexExact'
  <2>1. UNCHANGED <<mem, panic, items, index>>
    BY DEF UpdateStart, UpdateFails, FetchEntry, UpdateDone, tracker
  <2> QED BY ZenonT(30), <2>1, SameTracker DEF Inv
<1>2. CASE UpdateStart
  <2>1. TypeOK'
    BY ZenonT(30), <1>1, <1>2 DEF Inv, TypeOK, UpdateStart
  <2>2. UpdateInv' /\ UpdateExact'
    BY ZenonT(30), <1>1, <1>2 DEF Inv, TypeOK, UpdateInv, UpdateExact, UpdateStart
  <2> QED BY ZenonT(30), <1>1, <2>1, <2>2 DEF Inv
<1>3. CASE UpdateFails
  <2>1. TypeOK'
    BY ZenonT(30), <1>1, <1>3 DEF Inv, TypeOK, UpdateFails
  <2>2. UpdateInv' /\ UpdateExact'
    BY <1>3 DEF Inv, UpdateInv, UpdateExact, UpdateFails
  <2> QED BY <1>1, <2>1, <2>2 DEF Inv
<1>4. CASE FetchEntry
  <2>1. PICK t \in todo :
          /\ todo' = todo \ {t}
          /\ \/ entry' = {t} \cap mem /\ failed' = failed
             \/ entry' = {} /\ failed' = failed \cup {t}
    BY ZenonT(30), <1>4 DEF FetchEntry, RequestFails
  <2>2. pc = "add" /\ entry = {} /\ UNCHANGED <<pc, new, old, changed, left>>
    BY ZenonT(30), <1>4 DEF FetchEntry
  <2>3. TypeOK'
    BY ZenonT(30), <1>1, <2>1, <2>2 DEF Inv, TypeOK
  <2>4. UpdateInv' /\ UpdateExact'
    BY ZenonT(30), <1>1, <2>1, <2>2 DEF Inv, UpdateInv, UpdateExact
  <2> QED BY ZenonT(30), <1>1, <2>3, <2>4 DEF Inv
<1>5. CASE UpdateDone
  <2>1. TypeOK' /\ UpdateExact'
    BY ZenonT(30), <1>1, <1>5 DEF Inv, TypeOK, UpdateExact, UpdateDone
  <2>2. UpdateInv'
    BY ZenonT(30), <1>5 DEF Inv, UpdateInv, UpdateDone
  <2> QED BY ZenonT(30), <1>1, <2>1, <2>2 DEF Inv
<1> QED BY ZenonT(30), <1>2, <1>3, <1>4, <1>5

\* A transaction is fetched and added, or skipped.
LEMMA FetchTransactionInv ==
  ASSUME Inv, FetchTransaction
  PROVE  Inv'
<1>1. PICK t \in entry : Fetched(t) \/ NotFetched(t)
  BY Zenon DEF FetchTransaction
<1>2. /\ pc = "add" /\ entry' = {}
      /\ UNCHANGED <<mem, pc, panic, new, old, todo, left>>
  BY ZenonT(30), <1>1 DEF FetchTransaction, Fetched, NotFetched
<1>3. t \in Txid /\ t \notin items /\ entry = {t}
  BY ZenonT(30), <1>1, <1>2 DEF Inv, TypeOK, UpdateInv
<1>4. CASE Fetched(t)
  <2>0. items' = items \cup {t} /\ index' = add(index, t) /\ changed' = changed \cup {t} /\ failed' = failed
    BY ZenonT(30), <1>4 DEF Fetched
  <2>1. Exact(index, items)
    BY Zenon DEF Inv, IndexExact, Exact
  <2>2. Exact(index', items')
    <3>1. items \in SUBSET Txid /\ IsFiniteSet(items)
      BY ZenonT(30) DEF Inv, TypeOK
    <3>2. Exact(add(index, t), items \cup {t})
      BY ZenonT(30), <1>3, <2>1, <3>1, AddExact
    <3> QED BY Zenon, <2>0, <3>2
  <2>3. IndexExact'
    BY Zenon, <1>2, <2>2, ExactAfter DEF Inv, IndexExact
  <2>4. IsFiniteSet(items') /\ items' \in SUBSET Txid
    BY ZenonT(30), <1>3, <2>0, FS_AddElement DEF Inv, TypeOK
  <2>5. TypeOK'
    BY ZenonT(30), <1>2, <2>4 DEF Inv, TypeOK
  <2>6. UpdateInv' /\ UpdateExact'
    BY ZenonT(30), <1>2, <1>3, <2>0 DEF Inv, UpdateInv, UpdateExact
  <2> QED BY ZenonT(30), <2>3, <2>5, <2>6 DEF Inv
<1>5. CASE NotFetched(t)
  <2>1. /\ UNCHANGED <<items, index, changed>> /\ failed \subseteq failed'
        /\ t \notin mem \/ t \in failed'
    BY ZenonT(30), <1>5 DEF NotFetched, RequestFails, tracker
  <2>2. TypeOK' /\ IndexExact'
    BY ZenonT(30), <1>2, <2>1, SameTracker DEF Inv, TypeOK
  <2>3. UpdateInv' /\ UpdateExact'
    BY ZenonT(30), <1>2, <1>3, <2>1 DEF Inv, UpdateInv, UpdateExact
  <2> QED BY ZenonT(30), <2>2, <2>3 DEF Inv
<1> QED BY ZenonT(30), <1>1, <1>4, <1>5

\* What left the mempool is removed; remove() finds every key, so it does not panic.
LEMMA RemoveOldInv ==
  ASSUME Inv, RemoveOld
  PROVE  Inv'
<1> DEFINE gone == old \ new
<1>1. /\ pc = "add" /\ todo = {} /\ entry = {} /\ gone \in SUBSET items
      /\ items \in SUBSET Txid /\ IsFiniteSet(items)
  BY DEF Inv, TypeOK, UpdateInv, RemoveOld
<1>2. Exact(remove(index, gone), items \ gone) /\ remove_ok(index, gone)
  <2>1. Exact(index, items)
    BY Zenon DEF Inv, IndexExact, Exact
  <2> HIDE DEF gone
  <2> QED BY <1>1, <2>1, RemoveExact
<1>3. /\ items' = items \ gone /\ index' = remove(index, gone)
      /\ changed' = changed \cup gone /\ pc' = "done" /\ panic' = panic
      /\ UNCHANGED <<mem, new, old, todo, entry, left, failed>>
  BY Zenon, <1>1, <1>2 DEF RemoveOld
<1>4. IndexExact'
  <2>1. Exact(index', items')
    BY Zenon, <1>2, <1>3
  <2> QED BY Zenon, <1>3, <2>1, ExactAfter DEF Inv, IndexExact
<1>5. TypeOK'
  <2>1. IsFiniteSet(items') /\ items' \in SUBSET Txid
    BY ZenonT(30), <1>1, <1>3, FS_Subset
  <2> QED BY ZenonT(30), <1>3, <2>1 DEF Inv, TypeOK
<1>6. UpdateInv'
  BY ZenonT(30), <1>1, <1>3 DEF UpdateInv
<1>7. UpdateExact'
  <2>1. /\ changed = items \ old /\ old \subseteq items /\ items \subseteq old \cup new
        /\ new \ items \subseteq left \cup failed
    BY ZenonT(30), <1>1 DEF Inv, UpdateInv
  <2>2. /\ items' \subseteq new /\ old \cap new \subseteq items'
        /\ new \ items' \subseteq left' \cup failed'
    BY ZenonT(30), <1>3, <2>1
  <2>3. changed' = (old' \ items') \cup (items' \ old')
    BY <1>3, <2>1
  <2> QED BY ZenonT(30), <1>3, <2>2, <2>3 DEF UpdateExact
<1> QED BY ZenonT(60), <1>4, <1>5, <1>6, <1>7 DEF Inv

\* A new process starts with an empty tracker.
LEMMA RestartInv ==
  ASSUME Inv, Restart
  PROVE  Inv'
<1>1. TypeOK'
  BY FS_EmptySet DEF Inv, TypeOK, Restart
<1>2. IndexExact'
  <2>1. items' = {} /\ index' = [k \in Key |-> 0] /\ panic' = "none"
    BY DEF Restart
  <2>2. Exact(index', items')
    BY Zenon, <2>1, EmptyExact
  <2> QED BY ZenonT(30), <2>1, <2>2, ExactAfter
<1>3. UpdateInv' /\ UpdateExact'
  BY DEF UpdateInv, UpdateExact, Restart
<1> QED BY ZenonT(30), <1>1, <1>2, <1>3 DEF Inv

-------------------------------------------------------------------------------
(* The theorems.                                                           *)

\* Every step of the daemon and of Tracker::update() keeps the inductive invariant.
THEOREM MempoolInvariant == Spec => []Inv
<1>1. Init => Inv
  BY InitInv
<1>2. Inv /\ [Next]_vars => Inv'
  <2> SUFFICES ASSUME Inv, [Next]_vars PROVE Inv'
    OBVIOUS
  <2>1. CASE UNCHANGED vars
    <3>1. UNCHANGED <<mem, pc, panic, items, index, new, old, todo, entry, changed, left, failed>>
      BY ZenonT(30), <2>1 DEF vars
    <3>2. TypeOK' /\ IndexExact'
      BY ZenonT(30), <3>1, SameTracker DEF Inv, TypeOK
    <3>3. UpdateInv' /\ UpdateExact'
      BY <3>1 DEF Inv, UpdateInv, UpdateExact
    <3> QED BY ZenonT(30), <3>2, <3>3 DEF Inv
  <2>2. CASE Next
    BY Zenon, <2>2, ChangeInv, RequestInv, FetchTransactionInv, RemoveOldInv, RestartInv
       DEF Next, Update
  <2> QED BY Zenon, <2>1, <2>2
<1> QED BY <1>1, <1>2, PTL DEF Spec

\* Transactions whose rows collide do not remove each other's rows, and
\* MempoolStore::remove() finds every key: the index of Tracker holds the rows of the
\* tracked transactions with their multiplicity, whatever comes and goes between
\* the requests of update().
THEOREM MempoolIndexExact == Spec => []IndexExact
<1>1. Inv => IndexExact
  BY ZenonT(30) DEF Inv
<1> QED BY <1>1, MempoolInvariant, PTL

\* update() returns exactly what was added and what was removed, tracks only ids the
\* daemon reported and keeps those that were tracked, and misses one only if it left
\* the daemon's mempool meanwhile or getmempoolentry() or get_unconfirmed() failed
\* for it, whatever fails and whatever changes between the requests.
THEOREM MempoolUpdateExact == Spec => []UpdateExact
<1>1. Inv => UpdateExact
  BY DEF Inv
<1> QED BY <1>1, MempoolInvariant, PTL

\* The histogram that Tracker::update_fee_histogram() leaves counts every tracked
\* transaction once, in the bin of its rate, in whatever order the unstable sort left
\* equal rates, and electrum_fees() closes no bin but the last before it is full.
THEOREM MempoolHistogramExact == Spec => []HistogramExact
<1>1. HistogramExact <=> (pc \in {"idle", "done"} => FeeBins(histogram, items))
  BY Zenon DEF HistogramExact, FeeBins, Bin
<1>2. HistogramExact' <=> (pc' \in {"idle", "done"} => FeeBins(histogram', items'))
  BY Zenon DEF HistogramExact, FeeBins, Bin
<1>3. FeeBins(<<>>, {})
  BY DEF FeeBins
<1>4. Init => HistogramExact
  BY Zenon, <1>1, <1>3 DEF Init
<1>5. Inv /\ HistogramExact /\ [Next]_vars => HistogramExact'
  <2> SUFFICES ASSUME Inv, HistogramExact, [Next]_vars, pc' \in {"idle", "done"}
               PROVE  FeeBins(histogram', items')
    BY <1>2
  <2>1. CASE RemoveOld
    <3>1. PICK s \in SortedEntries(items') : histogram' = electrum_fees(s)
      BY <2>1 DEF RemoveOld
    <3>2. items' \in SUBSET Txid /\ IsFiniteSet(items')
      BY <2>1, RemoveOldInv DEF Inv, TypeOK
    <3> QED BY Zenon, <3>1, <3>2, FeesExact
  <2>2. CASE Restart
    BY Zenon, <1>3, <2>2 DEF Restart
  <2>3. CASE FetchTransaction \/ FetchEntry \/ UpdateFails \/ UpdateStart
    BY <2>3 DEF FetchTransaction, Fetched, NotFetched, FetchEntry, UpdateFails, UpdateStart
  <2>4. CASE MempoolChange \/ UpdateDone \/ UNCHANGED vars
    <3>1. pc \in {"idle", "done"} /\ UNCHANGED <<histogram, items>>
      BY <2>4 DEF MempoolChange, UpdateDone, vars, tracker
    <3> QED BY ZenonT(60), <1>1, <3>1
  <2> QED BY Zenon, <2>1, <2>2, <2>3, <2>4 DEF Next, Update
<1> QED BY <1>4, <1>5, MempoolInvariant, PTL DEF Spec

-------------------------------------------------------------------------------
(* The cache that get_unconfirmed() reads the transactions through.        *)

\* The costs of the entries.
Costs == [k \in Txid |-> TxCache!Cost(k)]

\* The usage is exact, and an entry that put() is about to insert fits an empty cache.
CacheInv ==
  /\ cached \in SUBSET Txid /\ IsFiniteSet(cached)
  /\ at \in [Thread -> {"idle", "load", "put", "fit"}]
  /\ key \in [Thread -> Txid \cup {TxCache!NoKey}]
  /\ \A t \in Thread : at[t] # "idle" => key[t] \in Txid
  /\ ~ drewEmpty
  /\ bytes_used = SumFunctionOnSet(Costs, cached)
  /\ bytes_used <= bytes_capacity + entry_overhead
  /\ \A t \in Thread : at[t] = "fit" => SizeOf[key[t]] <= bytes_capacity

\* The sums of the two modules are the same.
LEMMA SameSum ==
  ASSUME NEW w, NEW S
  PROVE  TxCache!SumFunctionOnSet(w, S) = SumFunctionOnSet(w, S)
BY Zenon DEF SumFunctionOnSet, FoldFunctionOnSet, MapThenFoldSet,
             TxCache!SumFunctionOnSet, TxCache!FoldFunctionOnSet, TxCache!MapThenFoldSet

\* What RndCache counts for an entry.
LEMMA CostsType ==
  /\ Costs \in [Txid -> Nat]
  /\ \A k \in Txid : Costs[k] = TxCache!Cost(k) /\ Costs[k] = SizeOf[k] + entry_overhead
BY FetchConstants DEF TxCache!CacheConstants, TxCache!Cost, Costs

\* Looking a key up, loading its value, and the decision of put() leave the usage alone.
LEMMA LookupInv ==
  ASSUME CacheInv, NEW t \in Thread,
         (\E k \in Txid : TxCache!Get(t, k)) \/ TxCache!Load(t) \/ TxCache!put(t)
  PROVE  CacheInv'
<1>1. UNCHANGED <<cached, bytes_used, drewEmpty>>
  BY ZenonT(30) DEF TxCache!Get, TxCache!Load, TxCache!put
<1> DEFINE Kept == /\ at' \in [Thread -> {"idle", "load", "put", "fit"}]
                   /\ key' \in [Thread -> Txid \cup {TxCache!NoKey}]
                   /\ \A u \in Thread : at'[u] # "idle" => key'[u] \in Txid
                   /\ \A u \in Thread : at'[u] = "fit" => SizeOf[key'[u]] <= bytes_capacity
<1>2. CASE \E k \in Txid : TxCache!Get(t, k)
  <2>1. PICK k \in Txid : \/ UNCHANGED <<at, key>>
                          \/ at' = [at EXCEPT ![t] = "load"] /\ key' = [key EXCEPT ![t] = k]
    BY ZenonT(30), <1>2 DEF TxCache!Get
  <2>2. Kept
    BY <2>1 DEF CacheInv
  <2> QED BY ZenonT(30), <1>1, <2>2 DEF CacheInv
<1>3. CASE TxCache!Load(t)
  <2>1. /\ at[t] = "load"
        /\ \/ at' = [at EXCEPT ![t] = "put"] /\ key' = key
           \/ at' = [at EXCEPT ![t] = "idle"] /\ key' = [key EXCEPT ![t] = TxCache!NoKey]
    BY ZenonT(30), <1>3 DEF TxCache!Load, TxCache!Done
  <2>2. Kept
    BY <2>1 DEF CacheInv
  <2> QED BY ZenonT(30), <1>1, <2>2 DEF CacheInv
<1>4. CASE TxCache!put(t)
  <2>1. /\ at[t] = "put"
        /\ \/ /\ ~ (SizeOf[key[t]] > bytes_capacity)
              /\ at' = [at EXCEPT ![t] = "fit"] /\ key' = key
           \/ at' = [at EXCEPT ![t] = "idle"] /\ key' = [key EXCEPT ![t] = TxCache!NoKey]
    BY ZenonT(30), <1>4 DEF TxCache!put, TxCache!Done
  <2>2. SizeOf[key[t]] \in Nat /\ bytes_capacity \in Nat
    BY <2>1, FetchConstants DEF CacheInv, TxCache!CacheConstants
  <2>3. Kept
    BY <2>1, <2>2 DEF CacheInv
  <2> QED BY ZenonT(30), <1>1, <2>3 DEF CacheInv
<1> QED BY ZenonT(30), <1>2, <1>3, <1>4

\* An entry is evicted: there is one, as an entry that fits alone fits an empty cache.
LEMMA EvictInv ==
  ASSUME CacheInv, NEW t \in Thread, TxCache!evict_random(t)
  PROVE  CacheInv'
<1>1. /\ cached \in SUBSET Txid /\ IsFiniteSet(cached) /\ bytes_used = SumFunctionOnSet(Costs, cached)
      /\ bytes_used <= bytes_capacity + entry_overhead /\ bytes_used \in Nat
  <2>1. /\ cached \in SUBSET Txid /\ IsFiniteSet(cached) /\ bytes_used = SumFunctionOnSet(Costs, cached)
        /\ bytes_used <= bytes_capacity + entry_overhead
    BY ZenonT(30) DEF CacheInv
  <2> QED BY ZenonT(30), <2>1, CostsType, SumType
<1>2. cached # {}
  <2>1. /\ at[t] = "fit" /\ ~ (bytes_used + SizeOf[key[t]] <= bytes_capacity)
    BY ZenonT(30) DEF TxCache!evict_random, TxCache!fits_in_cache
  <2>2. SizeOf[key[t]] <= bytes_capacity /\ SizeOf[key[t]] \in Nat
    BY <2>1, FetchConstants DEF CacheInv, TxCache!CacheConstants
  <2>3. cached = {} => bytes_used = 0
    BY Zenon, <1>1, SumStep
  <2> QED BY <2>1, <2>2, <2>3
<1>3. PICK k \in cached : /\ cached' = cached \ {k} /\ bytes_used' = bytes_used - TxCache!Cost(k)
                          /\ UNCHANGED <<drewEmpty, at, key>>
  BY Zenon, <1>2 DEF TxCache!evict_random
<1>4. /\ bytes_used = Costs[k] + SumFunctionOnSet(Costs, cached \ {k})
      /\ Costs[k] \in Nat /\ Costs[k] = TxCache!Cost(k)
  BY <1>1, CostsType, SumRemove
<1>5. cached' \in SUBSET Txid /\ IsFiniteSet(cached')
  BY ZenonT(30), <1>1, <1>3, FS_Subset
<1>6. SumFunctionOnSet(Costs, cached') \in Nat
  BY ZenonT(30), <1>5, CostsType, SumType
<1>7. bytes_used' = SumFunctionOnSet(Costs, cached') /\ bytes_used' <= bytes_capacity + entry_overhead
  BY <1>1, <1>3, <1>4, <1>6, FetchConstants DEF TxCache!CacheConstants
<1> QED BY ZenonT(30), <1>3, <1>5, <1>7 DEF CacheInv

\* The value is inserted, and the size of one that it replaces given back.
LEMMA InsertInv ==
  ASSUME CacheInv, NEW t \in Thread, TxCache!Insert(t)
  PROVE  CacheInv'
<1> DEFINE k == key[t]
<1>1. /\ cached \in SUBSET Txid /\ IsFiniteSet(cached) /\ bytes_used = SumFunctionOnSet(Costs, cached)
      /\ bytes_used \in Nat /\ k \in Txid
  <2>1. /\ cached \in SUBSET Txid /\ IsFiniteSet(cached) /\ bytes_used = SumFunctionOnSet(Costs, cached)
        /\ k \in Txid
    BY ZenonT(30) DEF CacheInv, TxCache!Insert
  <2> QED BY ZenonT(30), <2>1, CostsType, SumType
<1>2. /\ bytes_used + SizeOf[k] <= bytes_capacity /\ cached' = cached \cup {k}
      /\ bytes_used' = bytes_used + Costs[k] - (IF k \in cached THEN Costs[k] ELSE 0)
      /\ at' = [at EXCEPT ![t] = "idle"] /\ key' = [key EXCEPT ![t] = TxCache!NoKey]
      /\ UNCHANGED drewEmpty
  BY ZenonT(30), <1>1, CostsType DEF TxCache!Insert, TxCache!fits_in_cache, TxCache!Done
<1>3. /\ Costs[k] \in Nat /\ Costs[k] = SizeOf[k] + entry_overhead
      /\ SizeOf[k] \in Nat /\ entry_overhead \in Nat /\ bytes_capacity \in Nat
  BY ZenonT(30), <1>1, CostsType, FetchConstants DEF TxCache!CacheConstants
<1>4. bytes_used' = SumFunctionOnSet(Costs, cached')
  <2>1. CASE k \in cached
    <3>1. cached' = cached
      BY ZenonT(30), <1>2, <2>1
    <3>2. bytes_used' = bytes_used
      <4>1. bytes_used' = bytes_used + Costs[k] - Costs[k] /\ bytes_used \in Nat /\ Costs[k] \in Nat
        BY Zenon, <1>1, <1>2, <1>3, <2>1
      <4> HIDE DEF k
      <4> QED BY Zenon, <4>1, Order
    <3> QED BY ZenonT(30), <1>1, <3>1, <3>2
  <2>2. CASE k \notin cached
    <3>1. SumFunctionOnSet(Costs, cached \cup {k}) = SumFunctionOnSet(Costs, cached) + Costs[k]
      <4> HIDE DEF k
      <4> QED BY <1>1, <2>2, CostsType, SumAdd
    <3>2. bytes_used' = bytes_used + Costs[k] - 0 /\ bytes_used \in Nat /\ Costs[k] \in Nat
      BY Zenon, <1>1, <1>2, <1>3, <2>2
    <3>3. bytes_used' = bytes_used + Costs[k]
      <4> HIDE DEF k
      <4> QED BY Zenon, <3>2, Order
    <3> QED BY Zenon, <1>1, <1>2, <3>1, <3>3
  <2> QED BY ZenonT(30), <2>1, <2>2
<1>5. bytes_used' <= bytes_capacity + entry_overhead
  <2>1. PICK d \in {0, Costs[k]} : bytes_used' = bytes_used + Costs[k] - d
    BY Zenon, <1>2
  <2> HIDE DEF k
  <2>2. bytes_used + SizeOf[k] <= bytes_capacity /\ bytes_used \in Nat
    BY Zenon, <1>1, <1>2
  <2> QED BY <1>3, <2>1, <2>2
<1>6. cached' \in SUBSET Txid /\ IsFiniteSet(cached')
  BY <1>1, <1>2, FS_AddElement
<1>7. /\ at' \in [Thread -> {"idle", "load", "put", "fit"}]
      /\ key' \in [Thread -> Txid \cup {TxCache!NoKey}]
      /\ \A u \in Thread : at'[u] # "idle" => key'[u] \in Txid
      /\ \A u \in Thread : at'[u] = "fit" => SizeOf[key'[u]] <= bytes_capacity
  <2> HIDE DEF k
  <2> QED BY <1>2 DEF CacheInv
<1> QED BY ZenonT(30), <1>2, <1>4, <1>5, <1>6, <1>7 DEF CacheInv

\* A new process starts with an empty cache.
LEMMA EmptyCacheInv == (TxCache!Init => CacheInv) /\ (TxCache!Restart => CacheInv')
<1>1. SumFunctionOnSet(Costs, {}) = 0 /\ IsFiniteSet({})
  BY Zenon, FS_EmptySet, SumStep
<1>2. 0 <= bytes_capacity + entry_overhead
  BY FetchConstants DEF TxCache!CacheConstants
<1> QED BY <1>1, <1>2 DEF TxCache!Init, TxCache!Restart, CacheInv

-------------------------------------------------------------------------------
(* The tracker beside the peers.                                           *)

\* update() with the lookups of get_unconfirmed() in steps, beside the queries of the
\* peers, does what module Mempool says of the tracker and module Cache of the cache:
\* the lock, a put of the same transaction or an eviction by another thread are
\* not seen by update().
THEOREM FetchImplements == FetchSpec => Spec /\ TxCache!Spec
<1>1. FetchInit => Init /\ TxCache!Init
  BY DEF FetchInit
<1>2. [FetchNext]_fetchVars => [Next]_vars
  <2> SUFFICES ASSUME [FetchNext]_fetchVars PROVE [Next]_vars
    OBVIOUS
  <2>1. CASE TrackerStep
    BY Zenon, <2>1 DEF TrackerStep, Next, Update
  <2>2. CASE get_unconfirmed
    BY Zenon, <2>2 DEF get_unconfirmed, Next, Update, FetchTransaction
  <2>3. CASE FetchRestart \/ UpdateFails \/ MempoolChange
    BY Zenon, <2>3 DEF FetchRestart, Next
  <2>4. CASE \E p \in Peers : PeerAsks(p) \/ PeerRuns(p)
    BY Zenon, <2>4 DEF PeerAsks, PeerRuns
  <2>5. CASE UNCHANGED fetchVars
    BY Zenon, <2>5 DEF fetchVars
  <2> QED BY Zenon, <2>1, <2>2, <2>3, <2>4, <2>5 DEF FetchNext
<1>3. Inv /\ [FetchNext]_fetchVars => [TxCache!Next]_TxCache!vars
  <2> SUFFICES ASSUME Inv, [FetchNext]_fetchVars PROVE [TxCache!Next]_TxCache!vars
    OBVIOUS
  <2>1. CASE UNCHANGED cacheVars
    BY Zenon, <2>1 DEF cacheVars, TxCache!vars
  <2>2. CASE get_unconfirmed
    <3>1. PICK t \in entry : TxCache!Get(Main, t) \/ TxCache!Query(Main)
      BY Zenon, <2>2 DEF get_unconfirmed, TxCache!Query
    <3>2. t \in Txid /\ Main \in Thread
      BY ZenonT(30), <3>1 DEF Inv, TypeOK, Thread
    <3> QED BY Zenon, <3>1, <3>2 DEF TxCache!Next
  <2>3. CASE FetchRestart
    BY Zenon, <2>3 DEF FetchRestart, TxCache!Next
  <2>4. CASE \E p \in Peers : PeerAsks(p) \/ PeerRuns(p)
    BY Zenon, <2>4 DEF PeerAsks, PeerRuns, Thread, TxCache!Next
  <2> QED BY Zenon, <2>1, <2>2, <2>3, <2>4 DEF FetchNext, TrackerStep, fetchVars
<1> QED BY <1>1, <1>2, <1>3, MempoolInvariant, PTL DEF FetchSpec, Spec, TxCache!Spec

\* RndCache counts its bytes exactly although the tracker and the peers can put one
\* transaction twice, never holds more than its capacity and one entry's overhead,
\* and never draws an entry of an empty map, for all sizes and any number of peers.
THEOREM TransactionCacheUsage == FetchSpec => []CacheUsageExact
<1>1. TxCache!Init => CacheInv
  BY EmptyCacheInv
<1>2. CacheInv /\ [TxCache!Next]_TxCache!vars => CacheInv'
  <2> SUFFICES ASSUME CacheInv, [TxCache!Next]_TxCache!vars PROVE CacheInv'
    BY ZenonT(30)
  <2>1. CASE UNCHANGED TxCache!vars
    BY <2>1 DEF TxCache!vars, CacheInv
  <2>2. CASE TxCache!Next
    BY Zenon, <2>2, LookupInv, EvictInv, InsertInv, EmptyCacheInv DEF TxCache!Next, TxCache!Query
  <2> QED BY Zenon, <2>1, <2>2
<1>3. CacheInv => CacheUsageExact
  BY Zenon, SameSum DEF CacheInv, CacheUsageExact, TxCache!UsageExact, Costs
<1> QED BY <1>1, <1>2, <1>3, FetchImplements, PTL DEF TxCache!Spec
===============================================================================
