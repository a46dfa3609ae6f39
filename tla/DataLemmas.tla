------------------------------ MODULE DataLemmas ------------------------------
(***************************************************************************)
(* Lemmas about the library operators that the models are built from.      *)
(*                                                                         *)
(* What a recursive function computes needs induction.  A set of naturals  *)
(* that is not empty has a least element, since a smallest of the finite   *)
(* sets 1..n exists: a least counterexample takes the place of the         *)
(* induction rules.                                                        *)
(***************************************************************************)
EXTENDS Integers, FiniteSets, SequencesExt, SequenceTheorems, FiniteSetTheorems,
        WellFoundedInduction, TLAPS

LEMMA Least ==
  ASSUME NEW T \in SUBSET Nat, T # {}
  PROVE  \E x \in T : \A y \in T : x <= y
<1> DEFINE R == StrictSubsetOrdering(Nat)
           F == FiniteSubsetsOf(Nat)
           U == {1..n : n \in T}
<1>1. IsWellFoundedOn(R, F)
  BY FS_StrictSubsetOrderingWellFounded
<1>2. U \subseteq F
  BY FS_Interval DEF FiniteSubsetsOf
<1>3. U # {}
  OBVIOUS
<1>4. PICK s \in U : \A r \in U : ~(<<r, s>> \in R)
  <2> HIDE DEF R, F, U
  <2> QED BY <1>1, <1>2, <1>3, WFMin
<1>5. PICK x \in T : s = 1..x
  OBVIOUS
<1>6. ASSUME NEW y \in T PROVE x <= y
  <2>0. ~(<<1..y, 1..x>> \in R)
    BY <1>4, <1>5
  <2>1. (1..y) \subseteq (1..x) => (1..y) = 1..x
    BY <2>0 DEF StrictSubsetOrdering
  <2>2. CASE y < x
    <3>1. (1..y) \subseteq (1..x) /\ x \in 1..x /\ x \notin 1..y
      BY <2>2
    <3> QED BY <2>1, <3>1
  <2> QED BY <2>2
<1> QED BY <1>6

\* So a set of naturals each of which has a smaller one in the set is empty.
LEMMA Descent ==
  ASSUME NEW T \in SUBSET Nat, \A x \in T : \E y \in T : y < x
  PROVE  T = {}
<1> SUFFICES ASSUME T # {} PROVE FALSE
  OBVIOUS
<1>1. PICK x \in T : \A y \in T : x <= y
  BY Least
<1> QED BY <1>1

\* A set of subsets of a finite set, each of which has a smaller one in it, is
\* empty.
LEMMA DescentOfSets ==
  ASSUME NEW D, IsFiniteSet(D), NEW T \in SUBSET (SUBSET D),
         \A x \in T : \E y \in T : y \subseteq x /\ y # x
  PROVE  T = {}
<1> SUFFICES ASSUME T # {} PROVE FALSE
  OBVIOUS
<1> DEFINE R == StrictSubsetOrdering(D)
           F == FiniteSubsetsOf(D)
<1>1. IsWellFoundedOn(R, F)
  BY FS_StrictSubsetOrderingWellFounded
<1>2. T \subseteq F
  BY FS_Subset DEF FiniteSubsetsOf
<1>3. PICK s \in T : \A r \in T : ~(<<r, s>> \in R)
  <2> HIDE DEF R, F
  <2> QED BY <1>1, <1>2, WFMin
<1>4. PICK y \in T : y \subseteq s /\ y # s
  OBVIOUS
<1>5. <<y, s>> \in R
  BY <1>4 DEF StrictSubsetOrdering
<1> QED BY <1>3, <1>5

-------------------------------------------------------------------------------
(***************************************************************************)
(* FlattenSeq.                                                             *)
(***************************************************************************)

\* The defining equation of the function that FlattenSeq builds.
Flattens(f, parts) ==
  f = [i \in 1..Len(parts) |-> IF i = 1 THEN parts[i] ELSE f[i - 1] \o parts[i]]

LEMMA FlattensOnce ==
  ASSUME NEW parts, Len(parts) \in Nat, NEW f, NEW g, Flattens(f, parts), Flattens(g, parts)
  PROVE  f = g
<1> DEFINE n == Len(parts)
           Bad == {i \in 1..n : f[i] # g[i]}
<1>1. /\ f = [i \in 1..n |-> IF i = 1 THEN parts[i] ELSE f[i - 1] \o parts[i]]
      /\ g = [i \in 1..n |-> IF i = 1 THEN parts[i] ELSE g[i - 1] \o parts[i]]
  BY DEF Flattens
<1>2. ASSUME NEW x \in Bad PROVE \E y \in Bad : y < x
  <2>1. x # 1
    BY <1>1, <1>2
  <2>2. f[x] = f[x - 1] \o parts[x] /\ g[x] = g[x - 1] \o parts[x]
    BY <1>1, <2>1
  <2>3. f[x] # g[x] /\ x - 1 \in 1..n
    BY <2>1
  <2>4. f[x - 1] # g[x - 1]
    BY <2>2, <2>3
  <2> QED BY <2>3, <2>4
<1>3. \A i \in 1..n : f[i] = g[i]
  <2>1. Bad \in SUBSET Nat OBVIOUS
  <2>2. Bad = {}
    <3> HIDE DEF Bad
    <3> QED BY <1>2, <2>1, Descent
  <2> QED BY <2>2
<1>4. f = [i \in 1..n |-> f[i]] /\ g = [i \in 1..n |-> g[i]]
  BY <1>1
<1>5. [i \in 1..n |-> f[i]] = [i \in 1..n |-> g[i]]
  BY <1>3
<1> QED BY <1>4, <1>5

LEMMA FlattenIs ==
  ASSUME NEW parts, Len(parts) \in Nat \ {0}, NEW f, Flattens(f, parts)
  PROVE  FlattenSeq(parts) = f[Len(parts)]
<1> DEFINE F == CHOOSE g : g = [i \in 1..Len(parts) |->
                                  IF i = 1 THEN parts[i] ELSE g[i - 1] \o parts[i]]
<1>1. F = [i \in 1..Len(parts) |-> IF i = 1 THEN parts[i] ELSE F[i - 1] \o parts[i]]
  BY DEF Flattens
<1>2. Flattens(F, parts)
  BY <1>1 DEF Flattens
<1>3. FlattenSeq(parts) = F[Len(parts)]
  BY DEF FlattenSeq
<1> HIDE DEF F
<1>4. F = f
  BY <1>2, FlattensOnce
<1> QED BY <1>3, <1>4

\* Adjacent pieces of a sequence, flattened, are the piece from the first to
\* the last.
LEMMA FlattenPieces ==
  ASSUME NEW S, NEW s \in Seq(S), NEW n \in Nat \ {0}, NEW cut \in [0..n -> 0..Len(s)],
         \A i \in 1..n : cut[i - 1] <= cut[i]
  PROVE  FlattenSeq([i \in 1..n |-> SubSeq(s, cut[i - 1] + 1, cut[i])])
           = SubSeq(s, cut[0] + 1, cut[n])
<1> DEFINE parts == [i \in 1..n |-> SubSeq(s, cut[i - 1] + 1, cut[i])]
           f == [i \in 1..n |-> SubSeq(s, cut[0] + 1, cut[i])]
           Over == {i \in 0..n : cut[0] > cut[i]}
<1>1. Len(parts) = n
  OBVIOUS
<1>2. ASSUME NEW x \in Over PROVE \E y \in Over : y < x
  <2>1. x # 0 /\ x - 1 \in 0..n /\ cut[x - 1] <= cut[x]
    BY <1>2
  <2>2. cut[0] \in Nat /\ cut[x] \in Nat /\ cut[x - 1] \in Nat /\ cut[0] > cut[x]
    BY <1>2, <2>1
  <2>3. x - 1 \in Over
    BY <2>1, <2>2
  <2> QED BY <2>1, <2>3
<1>3. \A i \in 0..n : cut[0] <= cut[i]
  <2>1. Over = {}
    <3>1. Over \in SUBSET Nat OBVIOUS
    <3> HIDE DEF Over
    <3> QED BY <1>2, <3>1, Descent
  <2>2. ASSUME NEW i \in 0..n PROVE cut[0] <= cut[i]
    <3>1. cut[i] \in Nat /\ cut[0] \in Nat OBVIOUS
    <3>2. ~(cut[0] > cut[i]) BY <2>1
    <3> QED BY <3>1, <3>2
  <2> QED BY <2>2
<1>4. ASSUME NEW i \in 1..n
      PROVE  f[i] = IF i = 1 THEN parts[i] ELSE f[i - 1] \o parts[i]
  <2>1. CASE i = 1
    BY <2>1
  <2>2. CASE i # 1
    <3> DEFINE m == cut[0] + 1
               k == cut[i - 1]
               e == cut[i]
    <3>1. /\ i - 1 \in 0..n /\ cut[0] \in 0..Len(s) /\ k \in 0..Len(s) /\ e \in 0..Len(s)
          /\ cut[0] <= k /\ k <= e /\ Len(s) \in Nat
      BY <1>3, <2>2
    <3>2. m \in 1..(Len(s) + 1) /\ k \in (m - 1)..Len(s) /\ e \in k..Len(s)
      BY <3>1
    <3> HIDE DEF m, k, e
    <3>3. SubSeq(s, m, k) \o SubSeq(s, k + 1, e) = SubSeq(s, m, e)
      BY <3>2, ConcatAdjacentSubSeq
    <3>4. f[i] = SubSeq(s, m, e) /\ parts[i] = SubSeq(s, k + 1, e)
      BY DEF m, k, e
    <3>5. i - 1 \in 1..n
      BY <2>2
    <3>6. f[i - 1] = SubSeq(s, m, k)
      BY <3>5 DEF m, k
    <3> HIDE DEF f, parts
    <3> QED BY <2>2, <3>3, <3>4, <3>6
  <2> QED BY <2>1, <2>2
<1>5. Flattens(f, parts)
  <2>1. f = [i \in 1..n |-> f[i]] OBVIOUS
  <2> HIDE DEF f, parts
  <2> QED BY <1>1, <1>4, <2>1 DEF Flattens
<1>6. FlattenSeq(parts) = f[n]
  <2> HIDE DEF f, parts
  <2> QED BY <1>1, <1>5, FlattenIs
<1>7. f[n] = SubSeq(s, cut[0] + 1, cut[n])
  BY n \in 1..n
<1> QED BY <1>6, <1>7

-------------------------------------------------------------------------------
\* The end of a sequence is a suffix of it.
LEMMA EndIsSuffix ==
  ASSUME NEW S, NEW s \in Seq(S), NEW k \in 0..Len(s)
  PROVE  IsSuffix(SubSeq(s, k + 1, Len(s)), s)
<1> DEFINE n == Len(s)
           t == SubSeq(s, k + 1, n)
           R(u) == [i \in 1..Len(u) |-> u[(Len(u) - i) + 1]]
           l == n - k
<1>1. n \in Nat /\ k \in Nat /\ k + 1 \in Int /\ l \in 0..n /\ k + l = n /\ l = n - (k + 1) + 1
      /\ \A i \in (k + 1)..n : s[i] \in S
  OBVIOUS
<1>2. Len(t) = l /\ \A i \in 1..l : t[i] = s[k + 1 + i - 1]
  <2>1. /\ Len(t) = IF k + 1 <= n THEN n - (k + 1) + 1 ELSE 0
        /\ \A i \in 1 .. n - (k + 1) + 1 : t[i] = s[k + 1 + i - 1]
    BY <1>1, SubSeqProperties
  <2> HIDE DEF t, l
  <2>2. Len(t) = l
    <3>1. CASE k + 1 <= n BY <1>1, <2>1, <3>1
    <3>2. CASE ~(k + 1 <= n)
      <4> HIDE DEF n
      <4>1. l = 0 BY <1>1, <3>2
      <4> QED BY <2>1, <3>2, <4>1
    <3> QED BY <3>1, <3>2
  <2> QED BY <1>1, <2>1, <2>2
<1>3. Reverse(t) = R(t) /\ Reverse(s) = R(s)
  BY DEF Reverse
<1> HIDE DEF t, l
<1>4. /\ Len(R(t)) = l /\ Len(R(s)) = n
      /\ R(t) = [i \in 1..l |-> t[(l - i) + 1]] /\ R(s) = [i \in 1..n |-> s[(n - i) + 1]]
  BY <1>1, <1>2
<1>5. ASSUME NEW i \in 1..l PROVE R(t)[i] = R(s)[i]
  <2>1. (l - i) + 1 \in 1..l /\ i \in 1..n /\ k + 1 + ((l - i) + 1) - 1 = (n - i) + 1
    BY <1>1
  <2>2. t[(l - i) + 1] = s[(n - i) + 1]
    BY <1>2, <2>1
  <2>3. R(t)[i] = t[(l - i) + 1] /\ R(s)[i] = s[(n - i) + 1]
    BY <1>4, <2>1
  <2> QED BY <2>2, <2>3
<1> HIDE DEF R
<1>6. SubSeq(R(t), 1, l) = SubSeq(R(s), 1, l)
  <2>1. \A u : SubSeq(u, 1, l) = [i \in 1..l |-> u[i]]
    BY <1>1
  <2> QED BY <1>5, <2>1
<1>7. IsPrefix(R(t), R(s))
  <2>1. Len(R(t)) <= Len(R(s)) BY <1>1, <1>4
  <2> QED BY <1>4, <1>6, <2>1 DEF IsPrefix
<1> QED BY <1>3, <1>7 DEF IsSuffix, t

-------------------------------------------------------------------------------
\* The least and the greatest of some positions.
LEMMA MinOfPositions ==
  ASSUME NEW n \in Nat, NEW T \in SUBSET (1..n), T # {}
  PROVE  Min(T) \in T /\ \A y \in T : Min(T) <= y
<1>1. PICK x \in T : \A y \in T : x <= y
  BY Least, T \in SUBSET Nat
<1> QED BY <1>1 DEF Min

LEMMA MaxOfPositions ==
  ASSUME NEW n \in Nat, NEW T \in SUBSET (1..n), T # {}
  PROVE  Max(T) \in T /\ \A y \in T : y <= Max(T)
<1> DEFINE U == {n - i : i \in T}
<1>1. U \in SUBSET Nat /\ U # {}
  <2>1. \A i \in T : i \in Int /\ i <= n
    OBVIOUS
  <2>2. \A i \in T : n - i \in Nat
    BY <2>1
  <2> QED BY <2>2
<1>2. PICK u \in U : \A y \in U : u <= y
  <2> HIDE DEF U
  <2> QED BY <1>1, Least
<1>3. PICK x \in T : u = n - x
  OBVIOUS
<1>4. ASSUME NEW y \in T PROVE y <= x
  <2>1. n - x <= n - y
    BY <1>2, <1>3
  <2> QED BY <2>1
<1> QED BY <1>4 DEF Max

\* A function that looks up, at each position, an earlier one exists.
Chained(c, n, b, prev) ==
  \A i \in 0..n : c[i] = IF i = 0 THEN << >> ELSE <<b[i]>> \o c[prev[i]]

LEMMA ChainExists ==
  ASSUME NEW S, NEW n \in Nat, NEW b \in [1..n -> S], NEW prev \in [1..n -> Nat],
         \A i \in 1..n : prev[i] < i
  PROVE  \E c \in [0..n -> Seq(S)] : Chained(c, n, b, prev)
<1> DEFINE Good(c, m) == \A i \in 0..m : c[i] = IF i = 0 THEN << >> ELSE <<b[i]>> \o c[prev[i]]
           Bad == {m \in 0..n : ~\E c \in [0..m -> Seq(S)] : Good(c, m)}
<1>1. ASSUME NEW m \in Bad PROVE \E y \in Bad : y < m
  <2>1. m # 0
    <3> SUFFICES ASSUME m = 0 PROVE FALSE
      OBVIOUS
    <3> DEFINE c == [i \in 0..0 |-> << >>]
    <3>1. c \in [0..m -> Seq(S)] /\ Good(c, m)
      OBVIOUS
    <3> QED BY <3>1
  <2>2. m \in 1..n /\ m - 1 \in 0..n
    BY <2>1
  <2>a. m - 1 < m
    BY <2>2
  <2> SUFFICES ASSUME m - 1 \notin Bad PROVE FALSE
    <3> HIDE DEF Bad
    <3> QED BY <2>a
  <2>3. PICK c \in [0..(m - 1) -> Seq(S)] : Good(c, m - 1)
    BY <2>2
  <2> DEFINE d == [i \in 0..m |-> IF i = m THEN <<b[m]>> \o c[prev[m]] ELSE c[i]]
  <2>4. prev[m] \in 0..(m - 1) /\ b[m] \in S
    BY <2>2
  <2>5. <<b[m]>> \o c[prev[m]] \in Seq(S)
    BY <2>4
  <2>6. d \in [0..m -> Seq(S)]
    BY <2>5
  <2>7. ASSUME NEW i \in 0..m
        PROVE  d[i] = IF i = 0 THEN << >> ELSE <<b[i]>> \o d[prev[i]]
    <3>1. CASE i = m
      <4>1. prev[m] \in 0..m /\ prev[m] # m
        BY <2>4
      <4>2. d[prev[m]] = c[prev[m]]
        BY <4>1
      <4>3. d[m] = <<b[m]>> \o c[prev[m]]
        BY <2>2
      <4> HIDE DEF d
      <4> QED BY <2>1, <3>1, <4>2, <4>3
    <3>2. CASE i # m
      <4>1. i \in 0..(m - 1) /\ i \in 0..n
        BY <2>2, <3>2
      <4>2. d[i] = c[i] /\ c[i] = IF i = 0 THEN << >> ELSE <<b[i]>> \o c[prev[i]]
        BY <2>3, <3>2, <4>1
      <4>3. i # 0 => prev[i] \in 0..m /\ prev[i] # m
        BY <4>1
      <4>4. i # 0 => d[prev[i]] = c[prev[i]]
        BY <4>3
      <4> HIDE DEF d
      <4> QED BY <4>2, <4>4
    <3> QED BY <3>1, <3>2
  <2> HIDE DEF d
  <2>8. Good(d, m)
    BY <2>7
  <2> QED BY <2>6, <2>8
<1>2. Bad = {}
  <2>1. Bad \in SUBSET Nat OBVIOUS
  <2> HIDE DEF Bad
  <2> QED BY <1>1, <2>1, Descent
<1>3. n \notin Bad
  <2> HIDE DEF Bad
  <2> QED BY <1>2
<1>4. n \in 0..n
  OBVIOUS
<1> QED BY <1>3, <1>4 DEF Chained
===============================================================================
