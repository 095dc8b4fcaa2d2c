--------------------------- MODULE InductionLemmas ---------------------------
(***************************************************************************)
(* Induction and recursion over data, for the proofs about settings files  *)
(* and codecs. The library has both as theorems about an operator, which   *)
(* the provers cannot instantiate; here they are about a set, which they   *)
(* can: the set of the numbers a statement holds of. They rest on          *)
(* WFMin, which says that a set of numbers has a least one.                *)
(***************************************************************************)
EXTENDS Integers, Sequences, WellFoundedInduction, TLAPS

\* A set of numbers that is not empty has a least one.
LEMMA LeastNumber ==
    ASSUME NEW T \in SUBSET Nat, T # {}
    PROVE  \E m \in T : \A n \in T : m <= n
<1>. DEFINE R == OpToRel(<, Nat)
<1>1. IsWellFoundedOn(R, Nat)
  BY NatLessThanWellFounded
<1>2. PICK m \in T : \A n \in T : ~ (<<n, m>> \in R)
  <2>. HIDE DEF R
  <2>. QED
    BY <1>1, WFMin
<1>3. ASSUME NEW n \in T PROVE m <= n
  <2>1. ~ (n < m)
    BY <1>2 DEF OpToRel
  <2>. QED
    BY <2>1
<1>. QED
  BY <1>3

\* Induction: what holds of 0 and of the number after each of which it holds.
LEMMA Induction ==
    ASSUME NEW T, 0 \in T, \A n \in Nat : n \in T => n + 1 \in T
    PROVE  Nat \subseteq T
<1>1. SUFFICES ASSUME Nat \ T # {} PROVE FALSE
  OBVIOUS
<1>2. PICK m \in Nat \ T : \A n \in Nat \ T : m <= n
  BY <1>1, LeastNumber
<1>3. m # 0 /\ m - 1 \in Nat /\ m - 1 \in T
  BY <1>2
<1>. QED
  BY <1>2, <1>3

\* Induction over an interval, from its first number.
LEMMA IntervalInduction ==
    ASSUME NEW i \in Int, NEW j \in Int, NEW T,
           i <= j => i \in T,
           \A k \in i .. j - 1 : k \in T => k + 1 \in T
    PROVE  i .. j \subseteq T
<1>. DEFINE U == {n \in Nat : i + n <= j => i + n \in T}
<1>1. 0 \in U
  OBVIOUS
<1>2. ASSUME NEW n \in Nat, n \in U PROVE n + 1 \in U
  <2>1. SUFFICES ASSUME i + (n + 1) <= j PROVE i + (n + 1) \in T
    OBVIOUS
  <2>2. i + n \in i .. j - 1 /\ i + n \in T
    BY <1>2, <2>1
  <2>3. (i + n) + 1 \in T
    BY <2>2
  <2>. QED
    BY <2>3
<1>3. Nat \subseteq U
  <2>. HIDE DEF U
  <2>. QED
    BY <1>1, <1>2, Induction
<1>4. ASSUME NEW k \in i .. j PROVE k \in T
  <2>1. k - i \in U
    BY <1>3
  <2>. QED
    BY <2>1
<1>. QED
  BY <1>4

\* Induction over an interval, from its last number.
LEMMA DownwardInduction ==
    ASSUME NEW i \in Int, NEW j \in Int, NEW T,
           i <= j => j \in T,
           \A k \in i + 1 .. j : k \in T => k - 1 \in T
    PROVE  i .. j \subseteq T
<1>. DEFINE U == {n \in Nat : i <= j - n => j - n \in T}
<1>1. 0 \in U
  OBVIOUS
<1>2. ASSUME NEW n \in Nat, n \in U PROVE n + 1 \in U
  <2>1. SUFFICES ASSUME i <= j - (n + 1) PROVE j - (n + 1) \in T
    OBVIOUS
  <2>2. j - n \in i + 1 .. j /\ j - n \in T
    BY <1>2, <2>1
  <2>3. (j - n) - 1 \in T
    BY <2>2
  <2>. QED
    BY <2>3
<1>3. Nat \subseteq U
  <2>. HIDE DEF U
  <2>. QED
    BY <1>1, <1>2, Induction
<1>4. ASSUME NEW k \in i .. j PROVE k \in T
  <2>1. j - k \in Nat /\ j - (j - k) = k
    OBVIOUS
  <2>2. j - k \in U
    <3>. HIDE DEF U
    <3>. QED
      BY <1>3, <2>1
  <2>. QED
    BY <2>1, <2>2
<1>. QED
  BY <1>4

\* A set of numbers below some number has a largest one.
LEMMA LargestNumber ==
    ASSUME NEW n \in Nat, NEW T \in SUBSET (0 .. n), T # {}
    PROVE  \E m \in T : \A k \in T : k <= m
<1>. DEFINE U == {n - k : k \in T}
<1>1. U \in SUBSET Nat /\ U # {}
  <2>1. \A k \in T : n - k \in Nat
    OBVIOUS
  <2>2. PICK k \in T : TRUE
    OBVIOUS
  <2>3. n - k \in U
    OBVIOUS
  <2>. QED
    BY <2>1, <2>3
<1>2. PICK u \in U : \A v \in U : u <= v
  <2>. HIDE DEF U
  <2>. QED
    BY <1>1, LeastNumber
<1>3. PICK m \in T : u = n - m
  BY <1>2
<1>4. ASSUME NEW k \in T PROVE k <= m
  <2>1. n - m <= n - k
    BY <1>2, <1>3
  <2>. QED
    BY <2>1
<1>. QED
  BY <1>4

\* Induction in which all the smaller numbers may be used.
LEMMA CompleteInduction ==
    ASSUME NEW T, \A n \in Nat : (\A m \in 0 .. n - 1 : m \in T) => n \in T
    PROVE  Nat \subseteq T
<1>1. SUFFICES ASSUME Nat \ T # {} PROVE FALSE
  OBVIOUS
<1>2. PICK m \in Nat \ T : \A n \in Nat \ T : m <= n
  BY <1>1, LeastNumber
<1>3. \A n \in 0 .. m - 1 : n \in T
  BY <1>2
<1>. QED
  BY <1>2, <1>3

\* Induction over sequences, from the first element of each.
LEMMA SequenceInduction ==
    ASSUME NEW S, NEW T, << >> \in T,
           \A x \in S : \A s \in Seq(S) : s \in T => <<x>> \o s \in T
    PROVE  Seq(S) \subseteq T
<1>. DEFINE U == {n \in Nat : \A s \in Seq(S) : Len(s) = n => s \in T}
<1>1. 0 \in U
  <2>1. \A s \in Seq(S) : Len(s) = 0 => s = << >>
    OBVIOUS
  <2>. QED
    BY <2>1
<1>2. ASSUME NEW n \in Nat, n \in U PROVE n + 1 \in U
  <2>1. SUFFICES ASSUME NEW s \in Seq(S), Len(s) = n + 1 PROVE s \in T
    OBVIOUS
  <2>2. s # << >> /\ Head(s) \in S /\ Tail(s) \in Seq(S) /\ Len(Tail(s)) = n
    BY <2>1
  <2>3. Tail(s) \in T
    BY <1>2, <2>2
  <2>4. s = <<Head(s)>> \o Tail(s)
    BY <2>1, <2>2
  <2>. HIDE DEF U
  <2>5. <<Head(s)>> \o Tail(s) \in T
    BY <2>2, <2>3
  <2>. QED
    BY <2>4, <2>5
<1>3. Nat \subseteq U
  <2>. HIDE DEF U
  <2>. QED
    BY <1>1, <1>2, Induction
<1>. QED
  <2>1. SUFFICES ASSUME NEW s \in Seq(S) PROVE s \in T
    OBVIOUS
  <2>2. Len(s) \in Nat
    OBVIOUS
  <2>3. Len(s) \in U
    BY <1>3, <2>2
  <2>. QED
    BY <2>3

\* Step[x][g] computes the value at x from the values g has at the points of a
\* smaller rank, and from nothing else.
Computes(Step, rank, N, S, V) ==
    /\ N \in Nat
    /\ rank \in [S -> 0 .. N]
    /\ Step \in [S -> [[S -> V] -> V]]
    /\ \A x \in S : \A g, h \in [S -> V] :
          (\A y \in S : rank[y] < rank[x] => g[y] = h[y]) => Step[x][g] = Step[x][h]

\* Recursion: then there is a function with the values that are computed.
LEMMA Recursion ==
    ASSUME NEW S, NEW V, V # {}, NEW N, NEW rank, NEW Step, Computes(Step, rank, N, S, V)
    PROVE  \E f \in [S -> V] : f = [x \in S |-> Step[x][f]]
<1>. USE DEF Computes
<1>. DEFINE T == {n \in Nat : \E f \in [S -> V] : \A x \in S : rank[x] < n => f[x] = Step[x][f]}
<1>1. 0 \in T
  <2>1. PICK v \in V : TRUE
    OBVIOUS
  <2>2. [x \in S |-> v] \in [S -> V] /\ \A x \in S : ~ (rank[x] < 0)
    OBVIOUS
  <2>. QED
    BY <2>2
<1>2. ASSUME NEW n \in Nat, n \in T PROVE n + 1 \in T
  <2>1. PICK f \in [S -> V] : \A x \in S : rank[x] < n => f[x] = Step[x][f]
    BY <1>2
  <2>. DEFINE g == [x \in S |-> Step[x][f]]
  <2>2. g \in [S -> V]
    OBVIOUS
  <2>3. \A x \in S : rank[x] < n => g[x] = f[x]
    BY <2>1
  <2>4. ASSUME NEW x \in S, rank[x] < n + 1 PROVE g[x] = Step[x][g]
    <3>1. \A y \in S : rank[y] < rank[x] => f[y] = g[y]
      BY <2>3, <2>4
    <3>2. Step[x][f] = Step[x][g]
      <4>. HIDE DEF g
      <4>. QED
        BY <2>2, <3>1
    <3>. QED
      BY <3>2
  <2>5. n + 1 \in Nat /\ \E h \in [S -> V] : \A x \in S : rank[x] < n + 1 => h[x] = Step[x][h]
    <3>. HIDE DEF g
    <3>. QED
      BY <2>2, <2>4
  <2>. QED
    BY <2>5
<1>3. N + 1 \in T
  <2>. HIDE DEF T
  <2>. QED
    BY <1>1, <1>2, Induction
<1>4. PICK f \in [S -> V] : \A x \in S : rank[x] < N + 1 => f[x] = Step[x][f]
  BY <1>3
<1>5. \A x \in S : f[x] = Step[x][f]
  BY <1>4
<1>. QED
  BY <1>5

=============================================================================
