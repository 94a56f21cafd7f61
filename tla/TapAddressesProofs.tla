-------------------------- MODULE TapAddressesProofs --------------------------
(***************************************************************************)
(* For every set of addresses: std::sort sorts, what std::unique leaves    *)
(* behind does not mislead std::binary_search, and scanMulticastGroups     *)
(* reports exactly the difference between what it finds and what it found  *)
(* before.                                                                 *)
(***************************************************************************)
EXTENDS TapAddresses, FiniteSetTheorems, SequenceTheorems, TLAPS

-----------------------------------------------------------------------------
(* Least and greatest numbers.                                             *)

\* A set of numbers that is not empty has a least one.
LEMMA LeastNumber ==
  ASSUME NEW T \in SUBSET Nat, T # {}
  PROVE  \E m \in T : \A k \in T : m <= k
PROOF
<1>1. \E m \in T : \A k \in T : ~(<<k, m>> \in OpToRel(<, Nat))
  BY NatLessThanWellFounded, WFMin, Zenon
<1>2. PICK m \in T : \A k \in T : ~(<<k, m>> \in OpToRel(<, Nat))
  BY <1>1, Zenon
<1>3. ASSUME NEW k \in T PROVE m <= k
  <2>1. <<k, m>> \in OpToRel(<, Nat) <=> k < m
    BY DEF OpToRel
  <2>2. ~(k < m)
    BY <1>2, <2>1, Zenon
  <2>3. QED
    BY <2>2
<1>4. QED
  BY <1>3

\* A finite set of numbers that is not empty has a greatest one.
LEMMA GreatestNumber ==
  ASSUME NEW T \in SUBSET Nat, IsFiniteSet(T), T # {}
  PROVE  \E m \in T : \A k \in T : k <= m
PROOF
<1> DEFINE Bad == {U \in SUBSET T : U # {} /\ ~\E m \in U : \A k \in U : k <= m}
<1>1. SUFFICES Bad = {}
  BY <1>1
<1>2. SUFFICES ASSUME Bad # {} PROVE FALSE
  OBVIOUS
<1>3. IsWellFoundedOn(StrictSubsetOrdering(T), SUBSET T)
  BY FS_StrictSubsetOrderingWellFounded, FS_FiniteSubsetsOfFinite, Zenon
<1>4. PICK U \in Bad : \A V \in Bad : ~(<<V, U>> \in StrictSubsetOrdering(T))
  <2>1. Bad \subseteq SUBSET T
    OBVIOUS
  <2> HIDE DEF Bad
  <2>2. QED
    BY <1>2, <1>3, <2>1, WFMin, Zenon
<1>5. PICK x \in U : TRUE
  BY Zenon
<1>6. U \ {x} \notin Bad
  <2>1. <<U \ {x}, U>> \in StrictSubsetOrdering(T)
    BY <1>4, <1>5, Zenon DEF StrictSubsetOrdering
  <2>2. QED
    BY <2>1, <1>4
<1>7. CASE U = {x}
  BY <1>4, <1>7
<1>8. CASE U # {x}
  <2>1. PICK y \in U : \A k \in U \ {x} : k <= y
    BY <1>4, <1>5, <1>6, <1>8
  <2>2. x \in Nat /\ y \in Nat /\ U \subseteq Nat
    BY <1>4, <1>5, <2>1
  <2>3. (\A k \in U : k <= y) \/ (\A k \in U : k <= x)
    BY <2>1, <2>2
  <2>4. QED
    BY <1>4, <1>5, <2>3
<1>9. QED
  BY <1>7, <1>8

-----------------------------------------------------------------------------
(* std::sort.                                                              *)

\* How many values of f are less than v, and how many are not greater.
Below(f, v) == Cardinality({a \in DOMAIN f : f[a] < v})
UpTo(f, v) == Cardinality({a \in DOMAIN f : f[a] <= v})

\* Counts grow with the value they count up to.
LEMMA Counts ==
  ASSUME NEW D, IsFiniteSet(D), NEW f \in [D -> Nat], NEW v \in Nat, NEW w \in Nat
  PROVE  /\ Cardinality(D) \in Nat
         /\ Below(f, v) \in Nat /\ UpTo(f, v) \in Nat
         /\ v < w => UpTo(f, v) <= Below(f, w)
         /\ Below(f, v) <= UpTo(f, v)
         /\ UpTo(f, v) <= Cardinality(D)
         /\ v \in Range(f) => Below(f, v) < UpTo(f, v)
PROOF
<1> DEFINE B(u) == {a \in D : f[a] < u}
           T(u) == {a \in D : f[a] <= u}
<1>1. \A u \in Nat : Below(f, u) = Cardinality(B(u)) /\ UpTo(f, u) = Cardinality(T(u))
  BY DEF Below, UpTo
<1>2. \A u \in Nat : /\ IsFiniteSet(B(u)) /\ Cardinality(B(u)) \in Nat
                     /\ IsFiniteSet(T(u)) /\ Cardinality(T(u)) \in Nat
                     /\ Cardinality(T(u)) <= Cardinality(D)
  BY FS_Subset, FS_CardinalityType
<1>3. Cardinality(D) \in Nat
  BY FS_CardinalityType
<1>4. v < w => T(v) \subseteq B(w)
  OBVIOUS
<1>5. B(v) \subseteq T(v)
  OBVIOUS
<1>6. v \in Range(f) => B(v) # T(v)
  BY DEF Range
<1> HIDE DEF B, T
<1>7. v < w => Cardinality(T(v)) <= Cardinality(B(w))
  BY <1>2, <1>4, FS_Subset
<1>8. Cardinality(B(v)) <= Cardinality(T(v)) /\ (B(v) # T(v) => Cardinality(B(v)) # Cardinality(T(v)))
  BY <1>2, <1>5, FS_Subset
<1>9. QED
  BY <1>1, <1>2, <1>3, <1>6, <1>7, <1>8

\* Each place has a value.
LEMMA Ranked ==
  ASSUME NEW D, IsFiniteSet(D), NEW f \in [D -> Nat], NEW i \in 1..Cardinality(D)
  PROVE  \E v \in Range(f) : Below(f, v) < i /\ i <= UpTo(f, v)
PROOF
<1>1. Cardinality(D) \in Nat /\ i \in Nat /\ 1 <= i /\ i <= Cardinality(D)
  BY FS_CardinalityType
<1> DEFINE High == {v \in Range(f) : i <= UpTo(f, v)}
<1>2. Range(f) \subseteq Nat /\ \A a \in D : f[a] \in Range(f)
  BY DEF Range
<1>3. \* The greatest value of f on a set of arguments with i elements counts i.
      ASSUME NEW U \in SUBSET D, i <= Cardinality(U)
      PROVE  \E a \in U : f[a] \in High
  <2> DEFINE V == {f[a] : a \in U}
  <2>1. IsFiniteSet(U) /\ U # {}
    BY <1>1, <1>3, FS_Subset, FS_EmptySet
  <2>2. IsFiniteSet(V)
    <3>1. [a \in U |-> f[a]] \in Surjection(U, V)
      BY DEF Surjection
    <3>2. QED
      BY <3>1, <2>1, FS_Surjection
  <2>3. V \subseteq Nat /\ V # {}
    BY <2>1
  <2>4. PICK v \in V : \A k \in V : k <= v
    BY <2>2, <2>3, GreatestNumber
  <2>5. PICK a \in U : v = f[a]
    BY <2>4
  <2> DEFINE W == {b \in D : f[b] <= v}
  <2>6. U \subseteq W /\ W \subseteq D
    BY <2>4
  <2>7. UpTo(f, v) = Cardinality(W)
    BY DEF UpTo
  <2> HIDE DEF W
  <2>8. IsFiniteSet(W) /\ Cardinality(U) <= Cardinality(W)
    BY <2>6, FS_Subset
  <2>9. Cardinality(U) \in Nat /\ Cardinality(W) \in Nat
    BY <2>1, <2>8, FS_CardinalityType
  <2>10. i <= UpTo(f, v)
    BY <1>1, <1>3, <2>7, <2>8, <2>9
  <2>11. QED
    BY <1>2, <2>5, <2>10
<1>4. High # {} /\ High \subseteq Nat
  <2>1. \E a \in D : f[a] \in High
    BY <1>1, <1>3
  <2>2. QED
    BY <2>1, <1>2
<1>5. PICK v \in High : \A k \in High : v <= k
  BY <1>4, LeastNumber, Zenon
<1>6. ASSUME i <= Below(f, v) PROVE FALSE
  <2> DEFINE U == {a \in D : f[a] < v}
  <2>1. i <= Cardinality(U)
    BY <1>6 DEF Below
  <2>2. PICK a \in U : f[a] \in High
    BY <2>1, <1>3
  <2>3. f[a] \in Nat /\ v \in Nat /\ f[a] < v /\ v <= f[a]
    BY <1>4, <1>5, <2>2
  <2>4. QED
    BY <2>3
<1>7. v \in Nat /\ v \in Range(f) /\ i <= UpTo(f, v)
  BY <1>4, <1>5
<1>8. Below(f, v) \in Nat
  BY <1>7, Counts
<1>9. Below(f, v) < i
  BY <1>1, <1>6, <1>8
<1>10. QED
  BY <1>7, <1>9

\* sort gives the values of f, in order.
LEMMA Sorts ==
  ASSUME NEW D, IsFiniteSet(D), NEW f \in [D -> Nat]
  PROVE  /\ sort(f) \in [1..Cardinality(D) -> Nat]
         /\ Cardinality(D) \in Nat
         /\ Range(sort(f)) = Range(f)
         /\ \A i, j \in 1..Cardinality(D) : i <= j => sort(f)[i] <= sort(f)[j]
         /\ IsInjective(f) =>
              \A i, j \in 1..Cardinality(D) : i < j => sort(f)[i] < sort(f)[j]
PROOF
<1> DEFINE n == Cardinality(D)
           At(i, v) == Below(f, v) < i /\ i <= UpTo(f, v)
<1>1. n \in Nat /\ Range(f) \subseteq Nat
  BY FS_CardinalityType DEF Range
<1>2. sort(f) = [i \in 1..n |-> CHOOSE v \in Range(f) : At(i, v)]
  BY DEF sort, Below, UpTo
<1>3. \A i \in 1..n : \E v \in Range(f) : At(i, v)
  BY Ranked
<1>4. \A v, w \in Nat : /\ Below(f, v) \in Nat /\ UpTo(f, v) \in Nat
                        /\ v < w => UpTo(f, v) <= Below(f, w)
                        /\ UpTo(f, v) <= n
                        /\ v \in Range(f) => Below(f, v) < UpTo(f, v)
  BY Counts
<1>5. \A i \in 1..n : sort(f)[i] \in Range(f) /\ At(i, sort(f)[i])
  <2> HIDE DEF At, n
  <2> SUFFICES ASSUME NEW i \in 1..n PROVE sort(f)[i] \in Range(f) /\ At(i, sort(f)[i])
    OBVIOUS
  <2>1. sort(f)[i] = CHOOSE v \in Range(f) : At(i, v)
    BY <1>2
  <2>2. \E v \in Range(f) : At(i, v)
    BY <1>3
  <2>3. QED
    BY <2>1, <2>2, Zenon
<1>6. DOMAIN sort(f) = 1..n
  BY <1>2
<1>7. sort(f) \in [1..n -> Nat]
  BY <1>1, <1>2, <1>5
<1> HIDE DEF n
<1>8. ASSUME NEW i \in 1..n, NEW j \in 1..n, i <= j PROVE sort(f)[i] <= sort(f)[j]
  <2>1. /\ sort(f)[i] \in Nat /\ sort(f)[j] \in Nat /\ i \in Nat /\ j \in Nat
        /\ Below(f, sort(f)[i]) < i /\ j <= UpTo(f, sort(f)[j])
    BY <1>1, <1>5, <1>7
  <2>2. ~(sort(f)[j] < sort(f)[i])
    BY <2>1, <1>4, <1>8, SMTT(30)
  <2>3. QED
    BY <2>1, <2>2
<1>9. ASSUME NEW v \in Range(f) PROVE v \in Range(sort(f))
  <2> DEFINE i == Below(f, v) + 1
  <2>1. v \in Nat /\ Below(f, v) \in Nat /\ UpTo(f, v) \in Nat
        /\ Below(f, v) < UpTo(f, v) /\ UpTo(f, v) <= n
    BY <1>1, <1>4
  <2>2. i \in 1..n /\ i <= UpTo(f, v)
    BY <2>1, <1>1
  <2> DEFINE w == sort(f)[i]
  <2>3. w \in Nat /\ Below(f, w) < i /\ i <= UpTo(f, w)
    BY <2>2, <1>1, <1>5
  <2>4. Below(f, w) \in Nat /\ UpTo(f, w) \in Nat
        /\ (v < w => UpTo(f, v) <= Below(f, w)) /\ (w < v => UpTo(f, w) <= Below(f, v))
    BY <2>1, <2>3, <1>4
  <2> HIDE DEF w
  <2>5. ~(v < w) /\ ~(w < v)
    BY <2>1, <2>2, <2>3, <2>4
  <2>6. v = w
    BY <2>1, <2>3, <2>5
  <2>7. QED
    BY <2>2, <2>6, <1>6 DEF Range, w
<1>10. Range(sort(f)) = Range(f)
  BY <1>5, <1>6, <1>9 DEF Range
<1>11. ASSUME IsInjective(f), NEW i \in 1..n, NEW j \in 1..n, i < j
       PROVE  sort(f)[i] < sort(f)[j]
  <2> DEFINE v == sort(f)[i]
             w == sort(f)[j]
  <2>1. /\ v \in Nat /\ w \in Nat /\ i \in Nat /\ j \in Nat /\ v <= w
        /\ Below(f, v) < i /\ j <= UpTo(f, w) /\ v \in Range(f)
    BY <1>1, <1>5, <1>8, <1>11
  <2>2. ASSUME v = w PROVE FALSE
    <3>1. PICK a \in D : v = f[a]
      BY <2>1 DEF Range
    <3> DEFINE B == {b \in D : f[b] < v}
               T == {b \in D : f[b] <= v}
    <3>2. T = B \cup {a} /\ a \notin B
      BY <3>1, <2>1, <1>11 DEF IsInjective
    <3>3. Below(f, v) = Cardinality(B) /\ UpTo(f, v) = Cardinality(T)
      BY DEF Below, UpTo
    <3>4. IsFiniteSet(B)
      BY FS_Subset
    <3> HIDE DEF B, T
    <3>5. Cardinality(T) = Cardinality(B) + 1 /\ Cardinality(B) \in Nat
      BY <3>2, <3>4, FS_AddElement, FS_CardinalityType
    <3>6. QED
      BY <2>1, <2>2, <3>3, <3>5, <1>11
  <2>3. QED
    BY <2>1, <2>2
<1>12. QED
  BY <1>1, <1>7, <1>8, <1>10, <1>11 DEF n

-----------------------------------------------------------------------------
(* std::unique and std::binary_search.                                     *)

Ascending(s) == \A i, j \in 1..Len(s) : i <= j => s[i] <= s[j]

\* What std::unique leaves of a sorted sequence: up to some place m the distinct
\* elements in strict order, and from there on what was there before.
LEMMA UniqueFront ==
  ASSUME NEW s \in Seq(Nat), Ascending(s)
  PROVE  /\ unique(s) \in Seq(Nat) /\ Len(unique(s)) = Len(s)
         /\ \E m \in 0..Len(s) :
              /\ \A i, j \in 1..m : i < j => unique(s)[i] < unique(s)[j]
              /\ \A i \in (m + 1)..Len(s) : unique(s)[i] = s[i]
              /\ \A q \in 1..Len(s) : \E p \in 1..m : unique(s)[p] = s[q]
         /\ Range(unique(s)) = Range(s)
PROOF
<1> DEFINE heads == {j \in DOMAIN s : j = 1 \/ s[j - 1] # s[j]}
           id == [i \in heads |-> i]
           front == sort(id)
           m == Cardinality(heads)
           u == unique(s)
<1>1. DOMAIN s = 1..Len(s) /\ Len(s) \in Nat /\ \A i \in 1..Len(s) : s[i] \in Nat
  OBVIOUS
<1>2. heads \subseteq 1..Len(s) /\ IsFiniteSet(heads) /\ m \in Nat /\ m <= Len(s)
  <2>1. heads \subseteq 1..Len(s)
    BY <1>1
  <2>2. IsFiniteSet(1..Len(s)) /\ Cardinality(1..Len(s)) = Len(s)
    BY <1>1, FS_Interval, SMTT(30)
  <2> HIDE DEF heads
  <2>3. QED
    BY <2>1, <2>2, FS_Subset, FS_CardinalityType, Zenon
<1>3. id \in [heads -> Nat] /\ IsInjective(id) /\ Range(id) = heads
  <2> HIDE DEF heads
  <2>1. DOMAIN id = heads /\ \A i \in heads : id[i] = i /\ i \in Nat
    BY <1>2
  <2>2. id \in [heads -> Nat]
    BY <2>1
  <2> HIDE DEF id
  <2>3. QED
    BY <2>1, <2>2 DEF IsInjective, Range
<1>4. /\ front \in [1..m -> Nat] /\ Range(front) = heads
      /\ \A i, j \in 1..m : i < j => front[i] < front[j]
  <2> HIDE DEF heads, id
  <2>1. QED
    BY <1>2, <1>3, Sorts, SMTT(30)
<1>5. u = [i \in DOMAIN s |-> IF i <= Len(front) THEN s[front[i]] ELSE s[i]]
  BY DEF unique
<1> HIDE DEF heads, id, front, m, u
<1>6. Len(front) = m
  BY <1>2, <1>4
<1>7. \A i \in 1..m : front[i] \in heads
  BY <1>4 DEF Range
<1>8. /\ \A i \in 1..m : u[i] = s[front[i]]
      /\ \A i \in (m + 1)..Len(s) : u[i] = s[i]
      /\ DOMAIN u = 1..Len(s)
  <2>1. \A i \in 1..Len(s) : u[i] = IF i <= m THEN s[front[i]] ELSE s[i]
    BY <1>1, <1>5, <1>6
  <2>2. QED
    BY <2>1, <1>1, <1>2, <1>5
<1>9. \A i \in 1..Len(s) : u[i] \in Range(s) /\ u[i] \in Nat
  <2> SUFFICES ASSUME NEW i \in 1..Len(s) PROVE u[i] \in Range(s) /\ u[i] \in Nat
    OBVIOUS
  <2>1. CASE i <= m
    <3>1. i \in 1..m
      BY <2>1, <1>2
    <3>2. front[i] \in 1..Len(s)
      BY <3>1, <1>2, <1>7, Zenon
    <3>3. QED
      BY <3>1, <3>2, <1>1, <1>8 DEF Range
  <2>2. CASE ~(i <= m)
    <3>1. i \in (m + 1)..Len(s)
      BY <2>2, <1>1, <1>2
    <3>2. QED
      BY <3>1, <1>1, <1>8 DEF Range
  <2>3. QED
    BY <2>1, <2>2
<1>10. u \in Seq(Nat) /\ Len(u) = Len(s)
  <2>1. u \in [1..Len(s) -> Nat]
    BY <1>1, <1>5, <1>8, <1>9
  <2>2. QED
    BY <2>1, <1>1
<1>11. ASSUME NEW i \in 1..m, NEW j \in 1..m, i < j PROVE u[i] < u[j]
  <2> DEFINE h == front[i]
             k == front[j]
  <2>1. h \in 1..Len(s) /\ k \in 1..Len(s) /\ h < k /\ k \in heads
    BY <1>2, <1>4, <1>7, <1>11
  <2>2. k - 1 \in 1..Len(s) /\ h <= k - 1 /\ k # 1
    BY <2>1, <1>1, SMTT(30)
  <2>3. s[k - 1] # s[k]
    BY <2>1, <2>2 DEF heads
  <2>4. s[h] <= s[k - 1] /\ s[k - 1] <= s[k]
    BY <2>1, <2>2, SMTT(30) DEF Ascending
  <2>5. u[i] = s[h] /\ u[j] = s[k]
    BY <1>8
  <2>6. s[h] \in Nat /\ s[k] \in Nat /\ s[k - 1] \in Nat
    BY <2>1, <2>2, <1>1, SMTT(30)
  <2>7. \A a, b, c \in Nat : a <= b /\ b <= c /\ b # c => a < c
    OBVIOUS
  <2>8. QED
    BY <2>3, <2>4, <2>5, <2>6, <2>7, Zenon
<1>12. ASSUME NEW q \in 1..Len(s) PROVE \E p \in 1..m : u[p] = s[q]
  <2> DEFINE Same == {k \in 1..Len(s) : s[k] = s[q]}
  <2>1. PICK h \in Same : \A k \in Same : h <= k
    <3>1. Same \subseteq Nat /\ Same # {}
      OBVIOUS
    <3> HIDE DEF Same
    <3>2. QED
      BY <3>1, LeastNumber
  <2>2. h \in heads
    <3>1. h \in 1..Len(s)
      BY <2>1
    <3>2. ASSUME h # 1, s[h - 1] = s[h] PROVE FALSE
      BY <2>1, <3>1, <3>2, <1>1
    <3>3. QED
      BY <3>1, <3>2, <1>1 DEF heads
  <2>3. PICK p \in 1..m : front[p] = h
    BY <2>2, <1>4 DEF Range
  <2>4. QED
    BY <2>1, <2>3, <1>8
<1>13. Range(u) = Range(s)
  <2>1. Range(u) \subseteq Range(s)
    BY <1>8, <1>9 DEF Range
  <2>2. \A q \in 1..Len(s) : s[q] \in Range(u)
    <3> SUFFICES ASSUME NEW q \in 1..Len(s) PROVE s[q] \in Range(u)
      OBVIOUS
    <3>1. PICK p \in 1..m : u[p] = s[q]
      BY <1>12
    <3>2. p \in DOMAIN u
      BY <3>1, <1>1, <1>2, <1>8
    <3>3. QED
      BY <3>1, <3>2 DEF Range
  <2>3. QED
    BY <2>1, <2>2, <1>1 DEF Range
<1> HIDE DEF m
<1>14. m \in 0..Len(s)
  BY <1>1, <1>2
<1>15. QED
  BY <1>8, <1>10, <1>11, <1>12, <1>13, <1>14, Zenon DEF u

\* A step of std::lower_bound's loop: it only asks for shorter rests.
LowerStep(s, x, f, n) ==
  [lo \in 0..Len(s) |->
     IF n = 0 THEN lo
     ELSE IF s[lo + (n \div 2) + 1] < x
          THEN f[n - (n \div 2) - 1][lo + (n \div 2) + 1]
          ELSE f[n \div 2][lo]]

\* Half of a rest, and what is left behind it, are shorter.
LEMMA Halves ==
  ASSUME NEW n \in Nat, n # 0
  PROVE  /\ n \div 2 \in Nat /\ n \div 2 < n
         /\ n - (n \div 2) - 1 \in Nat /\ n - (n \div 2) - 1 < n
         /\ n \div 2 \in 0..(n - 1) /\ n - (n \div 2) - 1 \in 0..(n - 1)
PROOF
  OBVIOUS

\* What is left behind the middle ends where the whole rest does.
LEMMA RestFits ==
  ASSUME NEW lo \in Nat, NEW n \in Nat, NEW h \in Nat, NEW L \in Nat, lo + n <= L, h < n
  PROVE  lo + h + 1 \in 0..L /\ lo + h + 1 + (n - h - 1) = lo + n
PROOF
  OBVIOUS

\* A shorter rest is one too.
LEMMA ShorterFits ==
  ASSUME NEW n \in Nat, NEW L \in Nat, n <= L, NEW k \in Nat, k < n
  PROVE  k \in 0..L /\ ~(n <= k)
PROOF
  OBVIOUS

\* A function with these steps exists, for rests of every length.
LEMMA LowerDefined ==
  ASSUME NEW s \in Seq(Nat), NEW x, NEW N \in Nat
  PROVE  \E f : f = [n \in 0..N |-> LowerStep(s, x, f, n)]
PROOF
<1> DEFINE Bad == {k \in Nat : ~\E f : f = [n \in 0..k |-> LowerStep(s, x, f, n)]}
<1>1. SUFFICES ASSUME Bad # {} PROVE FALSE
  BY Zenon
<1>2. PICK k \in Bad : \A j \in Bad : k <= j
  BY <1>1, LeastNumber, Zenon
<1>3. \A n \in Nat \ {0} : n \div 2 \in 0..(n - 1) /\ n - (n \div 2) - 1 \in 0..(n - 1)
  BY Halves
<1>4. \* Functions that agree on shorter rests give the same.
      ASSUME NEW f, NEW g, NEW n \in Nat, \A j \in 0..(n - 1) : f[j] = g[j]
      PROVE  LowerStep(s, x, f, n) = LowerStep(s, x, g, n)
  BY <1>3, <1>4 DEF LowerStep
<1>5. PICK f : \A n \in 0..(k - 1) : f[n] = LowerStep(s, x, f, n)
  <2>1. CASE k = 0
    BY <2>1
  <2>2. CASE k # 0
    <3>1. k - 1 \in Nat /\ k - 1 \notin Bad
      BY <1>2, <2>2
    <3>2. PICK f : f = [n \in 0..(k - 1) |-> LowerStep(s, x, f, n)]
      BY <3>1
    <3>3. \A n \in 0..(k - 1) : f[n] = LowerStep(s, x, f, n)
      BY <3>2, SMTT(30)
    <3>4. QED
      BY <3>3
  <2>3. QED
    BY <2>1, <2>2
<1> DEFINE g == [n \in 0..k |-> LowerStep(s, x, f, n)]
<1>6. \A n \in 0..(k - 1) : g[n] = f[n]
  BY <1>5
<1> HIDE DEF g
<1>7. ASSUME NEW n \in 0..k PROVE LowerStep(s, x, f, n) = LowerStep(s, x, g, n)
  <2>1. n \in Nat /\ \A j \in 0..(n - 1) : f[j] = g[j]
    BY <1>6
  <2>2. QED
    BY <2>1, <1>4
<1>8. g = [n \in 0..k |-> LowerStep(s, x, g, n)]
  BY <1>7 DEF g
<1>9. QED
  BY <1>2, <1>8

\* What std::lower_bound returns is a place where elements less than x end:
\* the one before it is less, the one after it is not.
Crossing(s, x, r) ==
  /\ r \in 0..Len(s)
  /\ r = 0 \/ s[r] < x
  /\ r = Len(s) \/ ~(s[r + 1] < x)

\* Wherever the loop begins between such places, it ends at one, and there
\* std::binary_search looks.
LEMMA LowerCrosses ==
  ASSUME NEW s \in Seq(Nat), NEW x \in Nat
  PROVE  \E r : /\ Crossing(s, x, r)
                /\ binary_search(s, x) <=> r + 1 <= Len(s) /\ ~(x < s[r + 1])
PROOF
<1> DEFINE lower == CHOOSE f : f = [n \in 0..Len(s) |-> LowerStep(s, x, f, n)]
<1>1. Len(s) \in Nat
  OBVIOUS
<1>2. lower = [n \in 0..Len(s) |-> LowerStep(s, x, lower, n)]
  <2>1. \E f : f = [n \in 0..Len(s) |-> LowerStep(s, x, f, n)]
    BY <1>1, LowerDefined, Zenon
  <2>2. QED
    BY <2>1, Zenon
<1>3. binary_search(s, x) <=>
        lower[Len(s)][0] + 1 <= Len(s) /\ ~(x < s[lower[Len(s)][0] + 1])
  BY Zenon DEF binary_search, LowerStep
<1> HIDE DEF lower
<1>4. \A n \in 0..Len(s) : lower[n] = LowerStep(s, x, lower, n)
  BY <1>2, SMTT(30)
<1> DEFINE Fine(lo, n) == /\ lo + n <= Len(s)
                          /\ lo = 0 \/ s[lo] < x
                          /\ lo + n = Len(s) \/ ~(s[lo + n + 1] < x)
           Bad == {n \in 0..Len(s) : \E lo \in 0..Len(s) :
                     Fine(lo, n) /\ ~Crossing(s, x, lower[n][lo])}
<1>5. Bad = {}
  <2> SUFFICES ASSUME Bad # {} PROVE FALSE
    OBVIOUS
  <2>1. PICK n \in Bad : \A j \in Bad : n <= j
    <3>1. Bad \subseteq Nat
      OBVIOUS
    <3> HIDE DEF Bad
    <3>2. QED
      BY <3>1, LeastNumber, Zenon
  <2>2. PICK lo \in 0..Len(s) : Fine(lo, n) /\ ~Crossing(s, x, lower[n][lo])
    BY <2>1
  <2>3. n \in 0..Len(s) /\ n \in Nat /\ lo \in Nat
    BY <2>1
  <2>4. lower[n][lo] = IF n = 0 THEN lo
                       ELSE IF s[lo + (n \div 2) + 1] < x
                            THEN lower[n - (n \div 2) - 1][lo + (n \div 2) + 1]
                            ELSE lower[n \div 2][lo]
    <3>1. lower[n] = LowerStep(s, x, lower, n)
      BY <2>3, <1>4, Zenon
    <3>2. QED
      BY <3>1 DEF LowerStep
  <2>5. CASE n = 0
    <3>1. Crossing(s, x, lo)
      BY <2>2, <2>3, <2>5 DEF Crossing
    <3>2. QED
      BY <2>2, <2>4, <2>5, <3>1
  <2>6. CASE n # 0
    <3> DEFINE h == n \div 2
    <3>1. h \in Nat /\ h < n /\ n - h - 1 \in Nat /\ n - h - 1 < n
      BY <2>3, <2>6, Halves, Zenon
    <3>2. lower[n][lo] = IF s[lo + h + 1] < x THEN lower[n - h - 1][lo + h + 1]
                         ELSE lower[h][lo]
      BY <2>4, <2>6
    <3> HIDE DEF h
    <3>3. n - h - 1 \notin Bad /\ h \notin Bad /\ n - h - 1 \in 0..Len(s) /\ h \in 0..Len(s)
      <4>1. \A k \in Nat : k < n => k \in 0..Len(s) /\ ~(n <= k)
        <5>1. n <= Len(s)
          BY <2>3, <1>1
        <5>2. QED
          BY <5>1, <1>1, <2>3, ShorterFits
      <4> HIDE DEF Bad
      <4>2. QED
        BY <4>1, <2>1, <3>1
    <3>4. CASE s[lo + h + 1] < x
      <4>1. lo + h + 1 \in 0..Len(s) /\ Fine(lo + h + 1, n - h - 1)
        <5>1. lo + h + 1 \in 0..Len(s) /\ lo + h + 1 + (n - h - 1) = lo + n
          <6>1. lo + n <= Len(s)
            BY <2>2
          <6>2. QED
            BY <6>1, <1>1, <2>3, <3>1, RestFits, ZenonT(30)
        <5>2. QED
          BY <5>1, <2>2, <3>4, Zenon
      <4>2. Crossing(s, x, lower[n - h - 1][lo + h + 1])
        BY <4>1, <3>3, SMTT(30)
      <4>3. QED
        BY <4>2, <3>2, <3>4, <2>2
    <3>5. CASE ~(s[lo + h + 1] < x)
      <4>1. Fine(lo, h)
        BY <1>1, <2>2, <2>3, <3>1, <3>5
      <4>2. Crossing(s, x, lower[h][lo])
        BY <4>1, <3>3, Zenon
      <4>3. QED
        BY <4>2, <3>2, <3>5, <2>2
    <3>6. QED
      BY <3>4, <3>5
  <2>7. QED
    BY <2>5, <2>6
<1>6. Fine(0, Len(s))
  BY <1>1
<1>7. Crossing(s, x, lower[Len(s)][0])
  BY <1>1, <1>5, <1>6
<1>8. QED
  BY <1>3, <1>7

\* scanMulticastGroups finds a group in what std::unique left of a sorted vector
\* exactly when it is there, although the tail need not be in order.
THEOREM SearchExact ==
  ASSUME NEW s \in Seq(Nat), Ascending(s), NEW x \in Nat
  PROVE  binary_search(unique(s), x) <=> x \in Range(s)
PROOF
<1> DEFINE u == unique(s)
           L == Len(s)
<1>1. /\ u \in Seq(Nat) /\ Len(u) = L /\ L \in Nat /\ Range(u) = Range(s)
      /\ \A i \in 1..L : s[i] \in Nat /\ u[i] \in Nat
  <2>1. u \in Seq(Nat) /\ Len(u) = L /\ L \in Nat /\ Range(u) = Range(s)
    BY UniqueFront
  <2> HIDE DEF u
  <2>2. QED
    BY <2>1
<1>2. PICK m \in 0..L : /\ \A i, j \in 1..m : i < j => u[i] < u[j]
                        /\ \A i \in (m + 1)..L : u[i] = s[i]
                        /\ \A q \in 1..L : \E p \in 1..m : u[p] = s[q]
  BY UniqueFront, Zenon
<1> HIDE DEF u
<1>3. PICK r : /\ Crossing(u, x, r)
               /\ binary_search(u, x) <=> r + 1 <= Len(u) /\ ~(x < u[r + 1])
  BY <1>1, LowerCrosses, Zenon
<1>4. r \in 0..L /\ (r = 0 \/ u[r] < x) /\ (r = L \/ ~(u[r + 1] < x))
  BY <1>1, <1>3 DEF Crossing
<1>5. ASSUME r + 1 <= L, ~(x < u[r + 1]) PROVE x \in Range(s)
  <2>1. r + 1 \in 1..L /\ u[r + 1] = x
    BY <1>1, <1>4, <1>5
  <2>2. QED
    BY <2>1, <1>1, DOMAIN u = 1..L, Zenon DEF Range
<1>6. ASSUME x \in Range(s) PROVE r + 1 <= L /\ ~(x < u[r + 1])
  <2>1. PICK q \in 1..L : s[q] = x
    BY <1>6 DEF Range
  <2>2. PICK p \in 1..m : u[p] = x
    BY <1>2, <2>1, SMTT(30)
  <2>3. CASE r < m
    <3>1. ASSUME p <= r PROVE FALSE
      <4>1. r \in 1..m /\ r \in 1..L /\ u[r] < x /\ (p = r \/ p < r)
        BY <3>1, <2>3, <1>2, <1>4
      <4>2. p < r => x < u[r]
        BY <4>1, <2>2, <1>2
      <4>3. u[r] \in Nat
        BY <4>1, <1>1
      <4>4. QED
        BY <4>1, <4>2, <4>3, <2>2, SMTT(30)
    <3>2. ASSUME r + 1 < p PROVE FALSE
      <4>1. r + 1 \in 1..m /\ r + 1 \in 1..L /\ ~(u[r + 1] < x)
        BY <3>2, <2>3, <1>2, <1>4
      <4>2. QED
        BY <4>1, <3>2, <2>2, <1>2, SMTT(30)
    <3>3. p = r + 1
      BY <3>1, <3>2, <1>4
    <3>4. QED
      BY <3>3, <2>2, <1>1, <1>2
  <2>4. CASE r = m
    <3>1. m # 0 /\ p <= m /\ m \in 1..L
      BY <2>2, <1>2
    <3>2. u[m] < x
      BY <2>4, <3>1, <1>4
    <3>3. u[p] <= u[m]
      <4>1. p = m \/ u[p] < u[m]
        BY <3>1, <2>2, <1>2
      <4>2. u[p] \in Nat /\ u[m] \in Nat
        BY <3>1, <2>2, <1>1
      <4>3. QED
        BY <4>1, <4>2
    <3>4. QED
      BY <3>1, <3>2, <3>3, <2>2, <1>1, SMTT(30)
  <2>5. CASE m < r
    <3>1. r \in 1..L /\ u[r] = s[r] /\ s[r] < x
      BY <2>5, <1>2, <1>4, SMTT(30)
    <3>2. r < q
      BY <3>1, <2>1, <1>1 DEF Ascending
    <3>3. r + 1 \in 1..L /\ r + 1 <= q /\ u[r + 1] = s[r + 1]
      BY <3>1, <3>2, <2>5, <1>2
    <3>4. s[r + 1] <= s[q]
      BY <3>3 DEF Ascending
    <3>5. QED
      BY <3>3, <3>4, <2>1, <1>1, SMTT(30)
  <2>6. QED
    BY <2>3, <2>4, <2>5, <1>2, <1>4
<1>7. QED
  BY <1>1, <1>3, <1>5, <1>6 DEF u

-----------------------------------------------------------------------------
(* The groups of a tap.                                                    *)

\* What VirtualTap::_multicastGroups holds.
Known(s) == s = << >> \/ \E ips \in SUBSET Address : s = TapGroups[ips]

\* A tap knows the groups of its addresses, and a search finds what is there.
LEMMA GroupsKnown ==
  ASSUME NEW ips \in SUBSET Address
  PROVE  /\ Range(TapGroups[ips]) = {Group[a] : a \in ips}
         /\ \A g \in Range(Group) :
              <<TapGroups[ips], g>> \in Found <=> g \in Range(TapGroups[ips])
PROOF
<1> DEFINE f == [a \in ips |-> Group[a]]
           s == sort(f)
<1>1. IsFiniteSet(ips) /\ f \in [ips -> Nat] /\ Range(f) = {Group[a] : a \in ips}
  BY TapAssumption, FS_Subset, Zenon DEF Range
<1>2. TapGroups[ips] = unique(s)
  BY DEF TapGroups, GroupsOf
<1> HIDE DEF f
<1>3. /\ Cardinality(ips) \in Nat /\ s \in [1..Cardinality(ips) -> Nat]
      /\ Range(s) = Range(f)
      /\ \A i, j \in 1..Cardinality(ips) : i <= j => s[i] <= s[j]
  BY <1>1, Sorts
<1> HIDE DEF s
<1>4. s \in Seq(Nat) /\ Len(s) = Cardinality(ips)
  BY <1>3
<1>5. Ascending(s)
  BY <1>3, <1>4 DEF Ascending
<1>6. Range(TapGroups[ips]) = Range(s)
  BY <1>2, <1>4, <1>5, UniqueFront
<1>7. ASSUME NEW g \in Range(Group)
      PROVE  <<TapGroups[ips], g>> \in Found <=> g \in Range(TapGroups[ips])
  <2>1. g \in Nat
    BY TapAssumption DEF Range
  <2>2. binary_search(TapGroups[ips], g) <=> g \in Range(s)
    BY <1>2, <1>4, <1>5, <2>1, SearchExact
  <2>3. TapGroups[ips] \in Range(TapGroups)
    BY DEF Range, TapGroups
  <2>4. <<TapGroups[ips], g>> \in Found <=> binary_search(TapGroups[ips], g)
    BY <2>3 DEF Found
  <2>5. QED
    BY <2>2, <2>4, <1>6
<1>8. QED
  BY <1>1, <1>3, <1>6, <1>7

\* Nothing is found in an empty vector.
LEMMA EmptyFinds ==
  ASSUME NEW g \in Range(Group)
  PROVE  <<<< >>, g>> \notin Found
PROOF
<1>1. g \in Nat /\ << >> \in Seq(Nat) /\ Len(<< >>) = 0
  BY TapAssumption DEF Range
<1>2. PICK r : /\ Crossing(<< >>, g, r)
               /\ binary_search(<< >>, g) <=> r + 1 <= Len(<< >>) /\ ~(g < << >>[r + 1])
  BY <1>1, LowerCrosses, Zenon
<1>3. r = 0
  BY <1>1, <1>2 DEF Crossing
<1>4. ~binary_search(<< >>, g)
  BY <1>1, <1>2, <1>3
<1>5. QED
  BY <1>4 DEF Found

\* What scanMulticastGroups reports is the difference between the two vectors.
LEMMA Reports ==
  ASSUME NEW s, NEW t, Known(s), Known(t)
  PROVE  NotFoundIn(s, t) = Range(s) \ Range(t)
PROOF
<1>1. Range(<< >>) = {}
  BY DEF Range
<1>2. Range(s) \subseteq Range(Group)
  <2>1. CASE s = << >>
    BY <1>1, <2>1
  <2>2. ASSUME NEW ips \in SUBSET Address, s = TapGroups[ips] PROVE Range(s) \subseteq Range(Group)
    <3>1. Range(s) = {Group[a] : a \in ips}
      BY <2>2, GroupsKnown
    <3>2. QED
      BY <3>1, TapAssumption DEF Range
  <2>3. QED
    BY <2>1, <2>2 DEF Known
<1>3. \A g \in Range(Group) : <<t, g>> \in Found <=> g \in Range(t)
  <2>1. CASE t = << >>
    BY <1>1, <2>1, EmptyFinds, Zenon
  <2>2. ASSUME NEW ips \in SUBSET Address, t = TapGroups[ips]
        PROVE  \A g \in Range(Group) : <<t, g>> \in Found <=> g \in Range(t)
    BY <2>2, GroupsKnown
  <2>3. QED
    BY <2>1, <2>2 DEF Known
<1>4. QED
  BY <1>2, <1>3 DEF NotFoundIn
=============================================================================
