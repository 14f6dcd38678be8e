--------------------------- MODULE ListOps_proofs ---------------------------
(***************************************************************************)
(* What the operators on lists return, for lists of every length.  The     *)
(* induction rests on the least element of a set of numbers, which exists  *)
(* because < is well founded on Nat (WFMin, NatLessThanWellFounded): these *)
(* two facts have no operator as a parameter.  A recursive function is     *)
(* chosen by CHOOSE; the lemma Recursion says that there is one to choose. *)
(***************************************************************************)
EXTENDS ListOps, FiniteSetTheorems, WellFoundedInduction, TLAPS

\* A set of natural numbers that is not empty has a least element.
LEMMA LeastElement ==
  ASSUME NEW T \in SUBSET Nat, T # {}
  PROVE  \E x \in T : \A y \in T : x <= y
<1> DEFINE R == OpToRel(<, Nat)
<1>1. IsWellFoundedOn(R, Nat)
  BY NatLessThanWellFounded
<1>2. \A x, y \in Nat : y < x => <<y, x>> \in R
  BY DEF OpToRel
<1> HIDE DEF R
<1>3. PICK x \in T : \A y \in T : ~(<<y, x>> \in R)
  BY <1>1, WFMin
<1>4. \A y \in T : x \in Nat /\ y \in Nat /\ ~(y < x)
  BY <1>2, <1>3
<1>5. QED
  BY <1>4

\* Induction up to n, for what holds at the members of a set.
LEMMA SetInduction ==
  ASSUME NEW n \in Nat, NEW T, 0 \in T, \A i \in 0..(n - 1) : i \in T => i + 1 \in T
  PROVE  \A i \in 0..n : i \in T
<1> DEFINE U == {i \in 0..n : i \notin T}
<1> SUFFICES ASSUME U # {} PROVE FALSE
  OBVIOUS
<1>1. PICK x \in U : \A y \in U : x <= y
  <2>1. U \in SUBSET Nat
    OBVIOUS
  <2> HIDE DEF U
  <2>2. QED
    BY <2>1, LeastElement
<1>2. x # 0 /\ x - 1 \in 0..(n - 1)
  BY <1>1
<1>3. x - 1 \in T
  BY <1>1, <1>2
<1>4. QED
  BY <1>1, <1>2, <1>3

\* f begins with v and goes on by the steps.
Follows(f, v, n, step) == f[0] = v /\ \A i \in 1..n : f[i] = step[i][f[i - 1]]

\* A function on 0..n may be defined by its value at 0 and by steps.
LEMMA Recursion ==
  ASSUME NEW V, NEW v \in V, NEW n \in Nat, NEW step \in [1..n -> [V -> V]]
  PROVE  \E f \in [0..n -> V] : Follows(f, v, n, step)
<1> DEFINE T == {m \in 0..n : \E f \in [0..m -> V] : Follows(f, v, m, step)}
<1>1. 0 \in T
  <2> DEFINE f == [i \in 0..0 |-> v]
  <2>1. f \in [0..0 -> V] /\ f[0] = v
    OBVIOUS
  <2> HIDE DEF f
  <2>2. 1..0 = {} /\ 0 \in 0..n
    OBVIOUS
  <2>3. Follows(f, v, 0, step)
    BY <2>1, <2>2 DEF Follows
  <2>4. QED
    BY <2>1, <2>2, <2>3
<1>2. ASSUME NEW m \in 0..(n - 1), m \in T PROVE m + 1 \in T
  <2>1. PICK f \in [0..m -> V] : Follows(f, v, m, step)
    BY <1>2
  <2>2. m \in Nat /\ m + 1 \in 1..n /\ m + 1 \in 0..n /\ 0 \in 0..m /\ m \in 0..m /\ 0 # m + 1
    OBVIOUS
  <2> DEFINE w == step[m + 1][f[m]]
             g == [i \in 0..(m + 1) |-> IF i = m + 1 THEN w ELSE f[i]]
  <2>3. w \in V /\ w = step[m + 1][f[m]]
    BY <2>2
  <2> HIDE DEF w
  <2>4. g \in [0..(m + 1) -> V]
    <3>1. \A i \in 0..(m + 1) : i # m + 1 => i \in 0..m
      BY <2>2
    <3>2. QED
      BY <2>3, <3>1
  <2>5. g[m + 1] = w /\ \A i \in 0..m : g[i] = f[i]
    BY <2>2
  <2> HIDE DEF g
  <2>6. g[0] = v
    BY <2>1, <2>2, <2>5 DEF Follows
  <2>7. ASSUME NEW i \in 1..(m + 1) PROVE g[i] = step[i][g[i - 1]]
    <3>1. CASE i = m + 1
      <4>1. i - 1 = m
        BY <2>2, <3>1
      <4>2. QED
        BY <2>2, <2>3, <2>5, <3>1, <4>1
    <3>2. CASE i # m + 1
      <4>1. i \in 1..m /\ i - 1 \in 0..m /\ i \in 0..m
        BY <2>2, <3>2
      <4>2. f[i] = step[i][f[i - 1]]
        BY <2>1, <4>1 DEF Follows
      <4>3. QED
        BY <2>5, <4>1, <4>2
    <3>3. QED
      BY <3>1, <3>2
  <2>8. Follows(g, v, m + 1, step)
    BY <2>6, <2>7 DEF Follows
  <2>9. QED
    BY <2>2, <2>4, <2>8
<1> HIDE DEF T
<1>3. \A m \in 0..n : m \in T
  BY <1>1, <1>2, SetInduction
<1>4. n \in T
  BY <1>3
<1>5. QED
  BY <1>4 DEF T

\* Arithmetic of the indices of a recursive function.
LEMMA Indices ==
  ASSUME NEW n \in Nat
  PROVE  /\ 0 \in 0..n /\ n \in 0..n
         /\ \A i \in 1..n : i \in 0..n /\ i # 0 /\ i - 1 \in 0..n
         /\ \A i \in 0..n : i = 0 \/ i \in 1..n
OBVIOUS

-----------------------------------------------------------------------------
(* Places and At *)

\* f[i] is the list of the places up to i.
CountsPlaces(f, n, S) ==
    /\ f[0] = <<>>
    /\ \A i \in 1..n : f[i] = IF i \in S THEN Append(f[i - 1], i) ELSE f[i - 1]

\* The recursive function of Places exists, and steps as it is written.
LEMMA PlacesRecursion ==
  ASSUME NEW n \in Nat, NEW S
  PROVE  \E f \in [0..n -> Seq(Nat)] : CountsPlaces(f, n, S) /\ Places(n, S) = f[n]
<1> DEFINE next == [i \in 1..n |-> [x \in Seq(Nat) |-> IF i \in S THEN Append(x, i) ELSE x]]
           Is(f) == f = [i \in 0..n |-> IF i = 0 THEN <<>>
                                        ELSE IF i \in S THEN Append(f[i - 1], i) ELSE f[i - 1]]
           h == CHOOSE f : Is(f)
<1>1. next \in [1..n -> [Seq(Nat) -> Seq(Nat)]] /\ <<>> \in Seq(Nat)
  OBVIOUS
<1>2. PICK f \in [0..n -> Seq(Nat)] : Follows(f, <<>>, n, next)
  <2> HIDE DEF next
  <2>1. QED
    BY <1>1, Recursion
<1>3. CountsPlaces(f, n, S)
  <2>1. ASSUME NEW i \in 1..n
        PROVE  f[i] = IF i \in S THEN Append(f[i - 1], i) ELSE f[i - 1]
    <3>1. f[i - 1] \in Seq(Nat) /\ f[i] = next[i][f[i - 1]]
      BY <1>2, Indices DEF Follows
    <3>2. QED
      BY <3>1
  <2>2. QED
    BY <1>2, <2>1 DEF CountsPlaces, Follows
<1>4. Is(f)
  BY <1>3, Indices DEF CountsPlaces
<1>5. Is(h)
  <2> HIDE DEF Is
  <2>1. QED
    BY <1>4
<1>6. Places(n, S) = h[n]
  BY DEF Places
<1> HIDE DEF h
<1>7. CountsPlaces(h, n, S)
  BY <1>5, Indices DEF CountsPlaces
<1>8. \A i \in 0..n : h[i] = f[i]
  <2> DEFINE T == {i \in 0..n : h[i] = f[i]}
  <2>1. 0 \in T
    BY <1>3, <1>7 DEF CountsPlaces
  <2>2. ASSUME NEW i \in 0..(n - 1), i \in T PROVE i + 1 \in T
    <3>1. i + 1 \in 1..n /\ i + 1 \in 0..n /\ (i + 1) - 1 = i
      OBVIOUS
    <3>2. h[i] = f[i]
      BY <2>2
    <3>3. h[i + 1] = f[i + 1]
      BY <1>3, <1>7, <3>1, <3>2 DEF CountsPlaces
    <3>4. QED
      BY <3>1, <3>3
  <2> HIDE DEF T
  <2>3. \A i \in 0..n : i \in T
    BY <2>1, <2>2, SetInduction
  <2>4. QED
    BY <2>3 DEF T
<1>9. QED
  BY <1>3, <1>6, <1>8, Indices

\* The places are the members of S up to n, each once and in order.
LEMMA PlacesInOrder ==
  ASSUME NEW n \in Nat, NEW S
  PROVE  /\ Places(n, S) \in Seq(S \cap 1..n)
         /\ \A j, k \in DOMAIN Places(n, S) : j < k => Places(n, S)[j] < Places(n, S)[k]
         /\ \A i \in S \cap 1..n : \E k \in DOMAIN Places(n, S) : Places(n, S)[k] = i
<1>1. PICK f \in [0..n -> Seq(Nat)] : CountsPlaces(f, n, S) /\ Places(n, S) = f[n]
  BY PlacesRecursion
<1> DEFINE Right(m, s) == /\ s \in Seq(S \cap 1..m)
                          /\ \A j, k \in DOMAIN s : j < k => s[j] < s[k]
                          /\ \A i \in S \cap 1..m : \E k \in DOMAIN s : s[k] = i
           T == {m \in 0..n : Right(m, f[m])}
<1>2. 0 \in T
  BY <1>1 DEF CountsPlaces
<1>3. ASSUME NEW m \in 0..(n - 1), m \in T PROVE m + 1 \in T
  <2> DEFINE s == f[m]
  <2>1. /\ m \in Nat /\ m + 1 \in 1..n /\ m + 1 \in 0..n /\ (m + 1) - 1 = m
        /\ s \in Seq(S \cap 1..m) /\ Right(m, s)
        /\ S \cap 1..m \subseteq S \cap 1..(m + 1)
    BY <1>3
  <2>2. f[m + 1] = IF m + 1 \in S THEN Append(s, m + 1) ELSE s
    BY <1>1, <2>1 DEF CountsPlaces
  <2> HIDE DEF s
  <2>3. CASE m + 1 \in S
    <3> DEFINE t == Append(s, m + 1)
    <3>1. /\ t \in Seq(S \cap 1..(m + 1)) /\ Len(t) = Len(s) + 1
          /\ DOMAIN s = 1..Len(s) /\ DOMAIN t = 1..(Len(s) + 1) /\ Len(s) \in Nat
          /\ Len(s) + 1 \in DOMAIN t /\ t[Len(s) + 1] = m + 1
          /\ \A k \in DOMAIN s : t[k] = s[k] /\ s[k] \in S \cap 1..m
      BY <2>1, <2>3
    <3> HIDE DEF t
    <3>2. ASSUME NEW j \in DOMAIN t, NEW k \in DOMAIN t, j < k PROVE t[j] < t[k]
      <4>1. j \in DOMAIN s
        BY <3>1, <3>2
      <4>2. CASE k = Len(s) + 1
        BY <3>1, <4>1, <4>2
      <4>3. CASE k # Len(s) + 1
        <5>1. k \in DOMAIN s
          BY <3>1, <4>3
        <5>2. QED
          BY <2>1, <3>1, <3>2, <4>1, <5>1
      <4>4. QED
        BY <4>2, <4>3
    <3>3. ASSUME NEW i \in S \cap 1..(m + 1) PROVE \E k \in DOMAIN t : t[k] = i
      <4>1. CASE i = m + 1
        BY <3>1, <4>1
      <4>2. CASE i # m + 1
        <5>1. m \in Nat
          OBVIOUS
        <5>2. i \in S \cap 1..m
          BY <4>2, <5>1
        <5>3. PICK k \in DOMAIN s : s[k] = i
          BY <2>1, <5>2
        <5>4. k \in DOMAIN t
          BY <3>1
        <5>5. QED
          BY <3>1, <5>3, <5>4
      <4>3. QED
        BY <4>1, <4>2
    <3>4. Right(m + 1, t)
      BY <3>1, <3>2, <3>3
    <3>5. f[m + 1] = t
      BY <2>2, <2>3 DEF t
    <3>6. QED
      BY <2>1, <3>4, <3>5
  <2>4. CASE m + 1 \notin S
    <3>1. S \cap 1..(m + 1) = S \cap 1..m
      BY <2>1, <2>4
    <3>2. QED
      BY <2>1, <2>2, <2>4, <3>1
  <2>5. QED
    BY <2>3, <2>4
<1> HIDE DEF T
<1>4. \A m \in 0..n : m \in T
  BY <1>2, <1>3, SetInduction
<1>5. n \in T
  BY <1>4
<1>6. QED
  BY <1>1, <1>5 DEF T

\* What is left of a list is made of its elements, at rising places: all those of S.
LEMMA AtInOrder ==
  ASSUME NEW V, NEW s \in Seq(V), NEW S
  PROVE  /\ At(s, S) \in Seq(V)
         /\ \E p \in [DOMAIN At(s, S) -> S \cap DOMAIN s] :
               /\ \A j, k \in DOMAIN At(s, S) : j < k => p[j] < p[k]
               /\ \A k \in DOMAIN At(s, S) : At(s, S)[k] = s[p[k]]
               /\ \A i \in S \cap DOMAIN s : \E k \in DOMAIN At(s, S) : p[k] = i
<1> DEFINE p == Places(Len(s), S)
<1>1. Len(s) \in Nat /\ DOMAIN s = 1..Len(s) /\ \A i \in DOMAIN s : s[i] \in V
  OBVIOUS
<1>2. /\ p \in Seq(S \cap 1..Len(s))
      /\ \A j, k \in DOMAIN p : j < k => p[j] < p[k]
      /\ \A i \in S \cap 1..Len(s) : \E k \in DOMAIN p : p[k] = i
  BY <1>1, PlacesInOrder
<1>3. At(s, S) = [k \in DOMAIN p |-> s[p[k]]]
  BY DEF At
<1> HIDE DEF p
<1>4. /\ DOMAIN p = 1..Len(p) /\ Len(p) \in Nat /\ p \in [DOMAIN p -> S \cap DOMAIN s]
  BY <1>1, <1>2
<1>5. /\ DOMAIN At(s, S) = DOMAIN p
      /\ \A k \in DOMAIN p : At(s, S)[k] = s[p[k]] /\ s[p[k]] \in V
  BY <1>1, <1>3, <1>4
<1>6. At(s, S) \in Seq(V)
  BY <1>3, <1>4, <1>5
<1>7. p \in [DOMAIN At(s, S) -> S \cap DOMAIN s]
  BY <1>4, <1>5
<1>8. /\ \A j, k \in DOMAIN At(s, S) : j < k => p[j] < p[k]
      /\ \A k \in DOMAIN At(s, S) : At(s, S)[k] = s[p[k]]
      /\ \A i \in S \cap DOMAIN s : \E k \in DOMAIN At(s, S) : p[k] = i
  BY <1>1, <1>2, <1>5
<1>9. QED
  BY <1>6, <1>7, <1>8

-----------------------------------------------------------------------------
(* SumOf *)

\* A sum of integers is an integer.
LEMMA SumOfType ==
  ASSUME NEW numbers \in Seq(Int)
  PROVE  SumOf(numbers) \in Int
<1>1. PICK n \in Nat : n = Len(numbers)
  OBVIOUS
<1> DEFINE next == [i \in 1..n |-> [x \in Int |-> x + numbers[i]]]
           Is(f) == f = [i \in 0..n |-> IF i = 0 THEN 0 ELSE f[i - 1] + numbers[i]]
           h == CHOOSE f : Is(f)
<1>2. /\ \A i \in 1..n : numbers[i] \in Int
      /\ next \in [1..n -> [Int -> Int]]
  BY <1>1
<1>3. SumOf(numbers) = h[n]
  BY <1>1 DEF SumOf
<1>4. PICK f \in [0..n -> Int] : Follows(f, 0, n, next)
  <2> HIDE DEF next
  <2>1. \A v \in Int : \E f \in [0..n -> Int] : Follows(f, v, n, next)
    BY <1>2, Recursion
  <2>2. QED
    BY <2>1
<1>5. \A i \in 1..n : f[i] = f[i - 1] + numbers[i]
  <2>1. ASSUME NEW i \in 1..n PROVE f[i] = f[i - 1] + numbers[i]
    <3>1. f[i - 1] \in Int /\ f[i] = next[i][f[i - 1]]
      BY <1>4, Indices DEF Follows
    <3>2. QED
      BY <3>1
  <2>2. QED
    BY <2>1
<1>6. Is(f)
  <2>1. f[0] = 0
    BY <1>4 DEF Follows
  <2>2. QED
    BY <1>5, <2>1, Indices
<1>7. Is(h)
  <2> HIDE DEF Is
  <2>1. QED
    BY <1>6
<1> HIDE DEF h
<1>8. h[0] = 0 /\ \A i \in 1..n : h[i] = h[i - 1] + numbers[i]
  BY <1>7, Indices
<1> DEFINE T == {i \in 0..n : h[i] \in Int}
<1>9. 0 \in T
  BY <1>8
<1>10. ASSUME NEW i \in 0..(n - 1), i \in T PROVE i + 1 \in T
  <2>1. i + 1 \in 1..n /\ i + 1 \in 0..n /\ (i + 1) - 1 = i
    OBVIOUS
  <2>2. h[i + 1] = h[i] + numbers[i + 1]
    BY <1>8, <2>1
  <2>3. QED
    BY <1>2, <1>10, <2>1, <2>2
<1> HIDE DEF T
<1>11. \A i \in 0..n : i \in T
  BY <1>9, <1>10, SetInduction
<1>12. n \in T
  BY <1>11
<1>13. QED
  BY <1>3, <1>12 DEF T

-----------------------------------------------------------------------------
(* Sorted *)

\* i comes before j in the sorted list.
Precedes(s, key, i, j) == key[s[i]] < key[s[j]] \/ (key[s[i]] = key[s[j]] /\ i < j)

Preceding(s, key, i) == {j \in DOMAIN s : Precedes(s, key, j, i)}

\* The sorted list has what the list has, as often, with rising keys, and elements of
\* one key in the order they were in: a place is how many come before.
LEMMA SortedInOrder ==
  ASSUME NEW V, NEW s \in Seq(V), NEW key, \A i \in DOMAIN s : key[s[i]] \in Int
  PROVE  \E p \in [DOMAIN s -> DOMAIN s] :
            /\ \A i, j \in DOMAIN s : p[i] = p[j] => i = j
            /\ \A i \in DOMAIN s : \E n \in DOMAIN s : p[n] = i
            /\ Sorted(s, key) = [n \in DOMAIN s |-> s[p[n]]]
            /\ \A i, j \in DOMAIN s : i < j => Precedes(s, key, p[i], p[j])
<1>1. PICK N \in Nat : N = Len(s) /\ DOMAIN s = 1..N
  OBVIOUS
<1>2. IsFiniteSet(1..N) /\ Cardinality(1..N) = N
  BY FS_Interval
<1> DEFINE B(i) == Preceding(s, key, i)
           rank == [i \in 1..N |-> Cardinality(B(i)) + 1]
<1>3. ASSUME NEW i \in 1..N, NEW j \in 1..N
      PROVE  /\ Precedes(s, key, i, j) \/ Precedes(s, key, j, i) \/ i = j
             /\ ~(Precedes(s, key, i, j) /\ Precedes(s, key, j, i)) /\ ~Precedes(s, key, i, i)
             /\ \A k \in 1..N : Precedes(s, key, k, i) /\ Precedes(s, key, i, j)
                                   => Precedes(s, key, k, j)
  BY <1>1 DEF Precedes
<1>4. \A i \in 1..N : B(i) \in SUBSET (1..N) /\ i \notin B(i)
  BY <1>1, <1>3 DEF Preceding
<1>5. ASSUME NEW i \in 1..N, NEW j \in 1..N, Precedes(s, key, i, j)
      PROVE  B(i) \in SUBSET B(j) /\ i \in B(j) /\ i \notin B(i)
  BY <1>1, <1>3, <1>5 DEF Preceding
<1> HIDE DEF B
<1>6. \A i \in 1..N : IsFiniteSet(B(i)) /\ Cardinality(B(i)) \in 0..(N - 1)
  <2> SUFFICES ASSUME NEW i \in 1..N
               PROVE  IsFiniteSet(B(i)) /\ Cardinality(B(i)) \in 0..(N - 1)
    OBVIOUS
  <2>1. IsFiniteSet(B(i)) /\ Cardinality(B(i)) <= N
    BY <1>2, <1>4, FS_Subset
  <2>2. Cardinality(B(i)) # N
    BY <1>2, <1>4, FS_Subset
  <2>3. Cardinality(B(i)) \in Nat
    BY <2>1, FS_CardinalityType
  <2>4. QED
    BY <2>1, <2>2, <2>3
<1>7. \A i, j \in 1..N : Precedes(s, key, i, j) => rank[i] < rank[j]
  <2> SUFFICES ASSUME NEW i \in 1..N, NEW j \in 1..N, Precedes(s, key, i, j)
               PROVE  rank[i] < rank[j]
    OBVIOUS
  <2>1. Cardinality(B(i)) <= Cardinality(B(j)) /\ Cardinality(B(i)) # Cardinality(B(j))
    BY <1>5, <1>6, FS_Subset
  <2>2. QED
    BY <1>6, <2>1
<1>8. rank \in [1..N -> 1..N]
  <2>1. ASSUME NEW i \in 1..N PROVE Cardinality(B(i)) + 1 \in 1..N
    BY <1>6
  <2>2. QED
    BY <2>1
<1>9. \A i \in 1..N : rank[i] - 1 = Cardinality(B(i))
  BY <1>6
<1> HIDE DEF rank
<1>10. \A i, j \in 1..N : rank[i] = rank[j] => i = j
  BY <1>3, <1>7, <1>8
<1>11. rank \in Injection(1..N, 1..N)
  BY <1>8, <1>10 DEF Injection, IsInjective
<1>12. \A n \in 1..N : \E i \in 1..N : rank[i] = n
  <2>1. rank \in Surjection(1..N, 1..N)
    BY <1>2, <1>11, FS_Injection
  <2>2. QED
    BY <2>1 DEF Surjection
<1> DEFINE p == [n \in 1..N |-> CHOOSE i \in 1..N : Cardinality(B(i)) = n - 1]
<1>13. ASSUME NEW n \in 1..N PROVE p[n] \in 1..N /\ rank[p[n]] = n
  <2>1. PICK i \in 1..N : rank[i] = n
    BY <1>12
  <2>2. Cardinality(B(i)) = n - 1
    BY <1>9, <2>1
  <2>3. p[n] \in 1..N /\ Cardinality(B(p[n])) = n - 1
    BY <2>2
  <2>4. QED
    BY <1>8, <1>9, <2>3
<1>14. Sorted(s, key) = [n \in DOMAIN s |-> s[p[n]]]
  BY <1>1 DEF Sorted, B, Preceding, Precedes
<1>15. p \in [1..N -> 1..N]
  BY <1>13
<1> HIDE DEF p
<1>16. /\ \A i, j \in 1..N : p[i] = p[j] => i = j
       /\ \A i \in 1..N : p[rank[i]] = i
  BY <1>8, <1>10, <1>13
<1>17. \A i, j \in 1..N : i < j => Precedes(s, key, p[i], p[j])
  <2> SUFFICES ASSUME NEW i \in 1..N, NEW j \in 1..N, i < j
               PROVE  Precedes(s, key, p[i], p[j])
    OBVIOUS
  <2>1. rank[p[i]] = i /\ rank[p[j]] = j /\ p[i] \in 1..N /\ p[j] \in 1..N
    BY <1>13
  <2>2. ~Precedes(s, key, p[j], p[i]) /\ p[i] # p[j]
    BY <1>7, <2>1
  <2>3. QED
    BY <1>3, <2>1, <2>2
<1>18. \A i \in 1..N : \E n \in 1..N : p[n] = i
  <2>1. \A i \in 1..N : rank[i] \in 1..N
    BY <1>8
  <2>2. QED
    BY <1>16, <2>1
<1>19. /\ p \in [DOMAIN s -> DOMAIN s]
       /\ \A i, j \in DOMAIN s : p[i] = p[j] => i = j
       /\ \A i \in DOMAIN s : \E n \in DOMAIN s : p[n] = i
       /\ \A i, j \in DOMAIN s : i < j => Precedes(s, key, p[i], p[j])
  BY <1>1, <1>15, <1>16, <1>17, <1>18
<1>20. QED
  BY <1>14, <1>19
=============================================================================
