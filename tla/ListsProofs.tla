---------------------------- MODULE ListsProofs -----------------------------
(***************************************************************************)
(* What the operators on lists return, for lists of any length.            *)
(***************************************************************************)
EXTENDS Lists, Functions, FiniteSetTheorems, FunctionTheorems, SequenceTheorems,
        WellFoundedInduction, TLAPS

\* A nonempty set of numbers has a smallest member.
LEMMA Smallest ==
    ASSUME NEW T \in SUBSET Nat, T # {}
    PROVE  \E x \in T : \A y \in T : x <= y
<1>1. \E x \in T : \A y \in T : ~(<<y, x>> \in OpToRel(<, Nat))
  BY NatLessThanWellFounded, WFMin
<1>2. \A x, y \in Nat : <<y, x>> \in OpToRel(<, Nat) <=> y < x
  BY DEF OpToRel
<1>3. PICK x \in T : \A y \in T : ~(<<y, x>> \in OpToRel(<, Nat))
  BY <1>1
<1>4. \A y \in T : ~(y < x) /\ y \in Nat /\ x \in Nat
  BY <1>2, <1>3
<1>5. \A y \in T : x <= y
  BY <1>4
<1> QED
  BY <1>5

\* The members of a finite set of numbers have numbers 1..Cardinality, in order.
LEMMA NthOK ==
    ASSUME NEW K \in SUBSET Nat, IsFiniteSet(K)
    PROVE  /\ Cardinality(K) \in Nat
           /\ \A n \in 1..Cardinality(K) :
                 Nth(K, n) \in K /\ Cardinality({j \in K : j <= Nth(K, n)}) = n
           /\ \A k \in K : \E n \in 1..Cardinality(K) : Nth(K, n) = k
           /\ \A m, n \in 1..Cardinality(K) : m < n => Nth(K, m) < Nth(K, n)
<1> DEFINE N == Cardinality(K)
           B(k) == {j \in K : j <= k}
           f == [k \in K |-> Cardinality(B(k))]
<1>1. N \in Nat /\ \A k \in K : IsFiniteSet(B(k)) /\ B(k) \in SUBSET K /\ k \in B(k)
  BY FS_CardinalityType, FS_Subset
<1>2. ASSUME NEW k \in K PROVE Cardinality(B(k)) \in 1..N
  <2>1. Cardinality(B(k)) \in Nat /\ Cardinality(B(k)) <= N
    BY <1>1, FS_CardinalityType, FS_Subset
  <2>2. Cardinality(B(k)) # 0
    BY <1>1, FS_EmptySet
  <2> QED
    BY <1>1, <2>1, <2>2
<1>3. ASSUME NEW k \in K, NEW h \in K, k < h PROVE Cardinality(B(k)) < Cardinality(B(h))
  <2>1. B(k) \in SUBSET B(h) /\ h \in B(h) /\ h \notin B(k)
    <3>1. k \in Nat /\ h \in Nat /\ \A j \in K : j \in Nat
      OBVIOUS
    <3>2. \A j \in K : j <= k => j <= h
      BY <1>3, <3>1
    <3>3. h <= h /\ ~(h <= k)
      BY <1>3, <3>1
    <3> QED
      BY <3>2, <3>3
  <2>2. Cardinality(B(k)) <= Cardinality(B(h)) /\ Cardinality(B(k)) # Cardinality(B(h))
    BY <1>1, <2>1, FS_Subset
  <2> QED
    BY <1>2, <2>2
<1>4. f \in [K -> 1..N] /\ \A k \in K : f[k] = Cardinality(B(k))
  BY <1>2
<1>5. \A k, h \in K : f[k] = f[h] => k = h
  BY <1>2, <1>3, <1>4
<1>6. f \in Injection(K, 1..N)
  BY <1>4, <1>5, Fun_IsInj
<1>7. IsFiniteSet(1..N) /\ Cardinality(1..N) = N
  BY <1>1, FS_Interval
<1>8. f \in Surjection(K, 1..N)
  BY <1>6, <1>7, FS_Injection
<1> HIDE DEF f
<1>9. \A n \in 1..N : \E k \in K : f[k] = n
  BY <1>8, Fun_SurjectionProperties
<1>10. ASSUME NEW n \in 1..N PROVE Nth(K, n) \in K /\ f[Nth(K, n)] = n
  <2>1. \E k \in K : Cardinality({j \in K : j <= k}) = n
    BY <1>4, <1>9
  <2>2. Nth(K, n) \in K /\ Cardinality({j \in K : j <= Nth(K, n)}) = n
    BY <2>1 DEF Nth
  <2> QED
    BY <1>4, <2>2
<1>11. ASSUME NEW k \in K PROVE \E n \in 1..N : Nth(K, n) = k
  <2>1. f[k] \in 1..N /\ Nth(K, f[k]) \in K /\ f[Nth(K, f[k])] = f[k]
    BY <1>4, <1>10
  <2>2. Nth(K, f[k]) = k
    BY <1>5, <2>1
  <2> QED
    BY <2>1, <2>2
<1>12. ASSUME NEW m \in 1..N, NEW n \in 1..N, m < n PROVE Nth(K, m) < Nth(K, n)
  <2>1. /\ Nth(K, m) \in K /\ f[Nth(K, m)] = m /\ Nth(K, n) \in K /\ f[Nth(K, n)] = n
    BY <1>10
  <2>2. Nth(K, n) # Nth(K, m)
    BY <1>12, <2>1
  <2>3. ASSUME Nth(K, n) < Nth(K, m) PROVE FALSE
    <3>1. f[Nth(K, n)] < f[Nth(K, m)]
      BY <1>3, <1>4, <2>1, <2>3
    <3> QED
      BY <1>1, <1>12, <2>1, <3>1
  <2>4. Nth(K, m) \in Nat /\ Nth(K, n) \in Nat
    BY <2>1
  <2> QED
    BY <2>2, <2>3, <2>4
<1> QED
  BY <1>1, <1>4, <1>10, <1>11, <1>12

\* Taking members out of a list leaves a list of the others.
LEMMA WithoutOK ==
    ASSUME NEW X, NEW l \in Seq(X), NEW S
    PROVE  Without(l, S) \in Seq(X) /\ Range(Without(l, S)) = Range(l) \ S
<1> DEFINE K == Kept(l, S)
           w == Without(l, S)
<1>1. K \in SUBSET Nat /\ IsFiniteSet(K) /\ \A k \in K : k \in 1..Len(l) /\ l[k] \in X /\ l[k] \notin S
  <2>1. K \in SUBSET (1..Len(l)) /\ Len(l) \in Nat
    BY DEF Kept
  <2>2. IsFiniteSet(1..Len(l))
    BY <2>1, FS_Interval
  <2>3. IsFiniteSet(K)
    BY <2>1, <2>2, FS_Subset
  <2> QED
    BY <2>1, <2>3 DEF Kept
<1>2. w = [n \in 1..Cardinality(K) |-> l[Nth(K, n)]]
  BY DEF Without
<1>3. /\ Cardinality(K) \in Nat
      /\ \A n \in 1..Cardinality(K) : Nth(K, n) \in K
      /\ \A k \in K : \E n \in 1..Cardinality(K) : Nth(K, n) = k
  BY <1>1, NthOK
<1> HIDE DEF K, w
<1>4. w \in Seq(X)
  <2>1. \A n \in 1..Cardinality(K) : l[Nth(K, n)] \in X
    BY <1>1, <1>3
  <2> QED
    BY <1>2, <1>3, <2>1
<1>5. ASSUME NEW x PROVE x \in Range(w) <=> x \in Range(l) \ S
  <2>1. x \in Range(w) <=> \E n \in 1..Cardinality(K) : x = l[Nth(K, n)]
    BY <1>2 DEF Range
  <2>2. x \in Range(l) \ S <=> \E k \in K : x = l[k]
    BY DEF Range, K, Kept
  <2> QED
    BY <1>3, <2>1, <2>2
<1> QED
  BY <1>4, <1>5 DEF w

\* A list after list_add_tail.
LEMMA AppendRange ==
    ASSUME NEW X, NEW l \in Seq(X), NEW x \in X
    PROVE  Append(l, x) \in Seq(X) /\ Range(Append(l, x)) = Range(l) \cup {x}
<1> DEFINE a == Append(l, x)
<1>1. /\ a \in Seq(X) /\ Len(a) = Len(l) + 1 /\ Len(l) \in Nat
      /\ \A i \in 1..Len(l) : a[i] = l[i]
      /\ a[Len(l) + 1] = x
  BY AppendProperties
<1>2. \A y : y \in Range(l) <=> \E i \in 1..Len(l) : y = l[i]
  BY DEF Range
<1> HIDE DEF a
<1>3. \A y : y \in Range(a) <=> \E i \in 1..Len(a) : y = a[i]
  BY <1>1 DEF Range
<1>4. 1..Len(a) = (1..Len(l)) \cup {Len(l) + 1}
  BY <1>1
<1>5. \A y : y \in Range(a) <=> y \in Range(l) \cup {x}
  BY <1>1, <1>2, <1>3, <1>4
<1> QED
  BY <1>1, <1>5 DEF a

\* A list without repetitions is as long as the set of its members.
LEMMA LengthIsCardinality ==
    ASSUME NEW X, NEW l \in Seq(X), IsInjective(l)
    PROVE  IsFiniteSet(Range(l)) /\ Cardinality(Range(l)) = Len(l)
<1> DEFINE D == 1..Len(l)
           T == Range(l)
<1>0. Len(l) \in Nat /\ DOMAIN l = D
  OBVIOUS
<1>1. Len(l) \in Nat /\ DOMAIN l = D /\ IsFiniteSet(D) /\ Cardinality(D) = Len(l)
  BY <1>0, FS_Interval, SMTT(30)
<1>2. l \in [D -> T] /\ \A t \in T : \E k \in D : l[k] = t
  BY <1>1 DEF Range
<1>3. \A a, b \in D : l[a] = l[b] => a = b
  BY <1>1 DEF IsInjective
<1> HIDE DEF D, T
<1>4. l \in Bijection(D, T)
  BY <1>2, <1>3, Fun_IsBij
<1>5. ExistsBijection(D, T)
  BY <1>4 DEF ExistsBijection
<1>6. IsFiniteSet(T) /\ Cardinality(T) = Cardinality(D)
  BY <1>1, <1>5, FS_Bijection
<1> QED
  BY <1>1, <1>6 DEF T

\* Taking members out repeats none.
LEMMA WithoutOnce ==
    ASSUME NEW X, NEW l \in Seq(X), NEW S, IsInjective(l)
    PROVE  IsInjective(Without(l, S))
<1> DEFINE K == Kept(l, S)
           w == Without(l, S)
<1>1. K \in SUBSET Nat /\ IsFiniteSet(K) /\ K \in SUBSET DOMAIN l
  <2>1. K \in SUBSET (1..Len(l)) /\ Len(l) \in Nat /\ DOMAIN l = 1..Len(l)
    BY DEF Kept
  <2>2. IsFiniteSet(1..Len(l))
    BY <2>1, FS_Interval
  <2> QED
    BY <2>1, <2>2, FS_Subset
<1>2. w = [n \in 1..Cardinality(K) |-> l[Nth(K, n)]]
  BY DEF Without
<1>3. /\ Cardinality(K) \in Nat
      /\ \A n \in 1..Cardinality(K) : Nth(K, n) \in K
      /\ \A m, n \in 1..Cardinality(K) : m < n => Nth(K, m) < Nth(K, n)
  BY <1>1, NthOK
<1> HIDE DEF K, w
<1>4. ASSUME NEW m \in 1..Cardinality(K), NEW n \in 1..Cardinality(K), w[m] = w[n]
      PROVE  m = n
  <2>1. Nth(K, m) = Nth(K, n)
    BY <1>1, <1>2, <1>3, <1>4 DEF IsInjective
  <2>2. Nth(K, m) \in Nat /\ m \in Nat /\ n \in Nat
    <3>1. Nth(K, m) \in K
      BY <1>3
    <3>2. Nth(K, m) \in Nat
      BY <1>1, <3>1
    <3>3. m \in Nat /\ n \in Nat
      BY <1>3
    <3> QED
      BY <3>2, <3>3
  <2>3. ~(m < n) /\ ~(n < m)
    BY <1>3, <2>1, <2>2
  <2> QED
    BY <2>2, <2>3
<1>5. DOMAIN w = 1..Cardinality(K)
  BY <1>2
<1>6. IsInjective(w)
  BY <1>4, <1>5 DEF IsInjective
<1> QED
  BY <1>6 DEF w

\* Adding a member that was not there repeats none.
LEMMA AppendOnce ==
    ASSUME NEW X, NEW l \in Seq(X), NEW x \in X, x \notin Range(l), IsInjective(l)
    PROVE  IsInjective(Append(l, x))
<1>1. PICK w : w = Append(l, x)
  OBVIOUS
<1>2. /\ DOMAIN w = 1..(Len(l) + 1) /\ Len(l) \in Nat /\ DOMAIN l = 1..Len(l)
      /\ \A i \in 1..Len(l) : w[i] = l[i]
      /\ w[Len(l) + 1] = x
  BY <1>1, AppendProperties
<1>3. \A i \in 1..Len(l) : l[i] # x
  BY DEF Range
<1>4. \A i, j \in 1..Len(l) : l[i] = l[j] => i = j
  BY <1>2 DEF IsInjective
<1>5. \A i, j \in 1..(Len(l) + 1) : w[i] = w[j] => i = j
  BY <1>2, <1>3, <1>4
<1>6. IsInjective(w)
  BY <1>2, <1>5 DEF IsInjective
<1> QED
  BY <1>1, <1>6

\* Taking the first member out of a list without repetitions
LEMMA TailOnce ==
    ASSUME NEW X, NEW l \in Seq(X), l # <<>>, IsInjective(l)
    PROVE  /\ Tail(l) \in Seq(X) /\ IsInjective(Tail(l))
           /\ Range(Tail(l)) = Range(l) \ {l[1]}
<1>1. PICK n \in Nat : n = Len(l) /\ n > 0
  OBVIOUS
<1>2. PICK u \in Seq(X) : u = Tail(l)
  BY HeadTailProperties
<1>3. Len(u) = n - 1 /\ \A i \in 1..(n - 1) : u[i] = l[i + 1]
  BY <1>1, <1>2, HeadTailProperties
<1>4. DOMAIN u = 1..(n - 1) /\ DOMAIN l = 1..n
  BY <1>1, <1>3
<1>5. \A i, j \in 1..n : l[i] = l[j] => i = j
  BY <1>4 DEF IsInjective
<1>6. IsInjective(u)
  <2>1. ASSUME NEW i \in 1..(n - 1), NEW j \in 1..(n - 1), u[i] = u[j]
        PROVE  i = j
    <3>1. l[i + 1] = l[j + 1] /\ i + 1 \in 1..n /\ j + 1 \in 1..n
      BY <1>3, <2>1
    <3>2. i + 1 = j + 1
      BY <1>5, <3>1
    <3> QED
      BY <3>2
  <2> QED
    BY <1>4, <2>1 DEF IsInjective
<1>7. \A x : x \in Range(u) <=> \E i \in 1..(n - 1) : x = l[i + 1]
  BY <1>3, <1>4 DEF Range
<1>8. \A x : x \in Range(l) <=> \E i \in 1..n : x = l[i]
  BY <1>4 DEF Range
<1>9. ASSUME NEW x
      PROVE  x \in Range(u) <=> x \in Range(l) \ {l[1]}
  <2>1. ASSUME x \in Range(u)
        PROVE  x \in Range(l) \ {l[1]}
    <3>1. PICK i \in 1..(n - 1) : x = l[i + 1]
      BY <1>7, <2>1
    <3>2. i + 1 \in 1..n /\ i + 1 # 1 /\ 1 \in 1..n
      BY <1>1
    <3> QED
      BY <1>5, <1>8, <3>1, <3>2
  <2>2. ASSUME x \in Range(l) \ {l[1]}
        PROVE  x \in Range(u)
    <3>1. PICK i \in 1..n : x = l[i]
      BY <1>8, <2>2
    <3>2. i # 1
      BY <2>2, <3>1
    <3>3. i - 1 \in 1..(n - 1) /\ (i - 1) + 1 = i
      BY <3>2
    <3> QED
      BY <1>7, <3>1, <3>3
  <2> QED
    BY <2>1, <2>2
<1>10. Range(u) = Range(l) \ {l[1]}
  BY <1>9
<1> QED
  BY <1>2, <1>6, <1>10

\* The size of an interval from one
LEMMA CountedTo ==
    ASSUME NEW n \in Nat
    PROVE  IsFiniteSet(1..n) /\ Cardinality(1..n) = n
<1>1. IsFiniteSet(1..n) /\ Cardinality(1..n) = IF 1 > n THEN 0 ELSE n - 1 + 1
  BY FS_Interval
<1> QED
  BY <1>1

-----------------------------------------------------------------------------
(* Walking along a list *)

\* Induction, as a fact about sets of numbers
LEMMA UpTo ==
    ASSUME NEW n \in Nat, NEW T, 0 \in T, \A k \in 0..n : (k \in T /\ k < n) => k + 1 \in T
    PROVE  0..n \subseteq T
<1> SUFFICES ASSUME (0..n) \ T # {} PROVE FALSE
  OBVIOUS
<1>0. (0..n) \ T \in SUBSET Nat
  OBVIOUS
<1>1. PICK x \in (0..n) \ T : \A y \in (0..n) \ T : x <= y
  BY <1>0, Smallest
<1>2. x \in Nat /\ x # 0 /\ x - 1 \in 0..n /\ x - 1 < n
  BY <1>1
<1>3. x - 1 \in T
  BY <1>1, <1>2
<1> QED
  BY <1>1, <1>2, <1>3

\* Step k of F leads from the set A[k] to A[k + 1].
Leads(F, A, n) == \A k \in 0..n : k < n => \A a \in A[k] : F[k][a] \in A[k + 1]

\* r takes the n steps of F, as long as it is in the sets.
Walks(r, F, A, n) == \A k \in 0..n : (k < n /\ r[k] \in A[k]) => r[k + 1] = F[k][r[k]]

\* Who takes them ends in A[n].
LEMMA StepsStay ==
    ASSUME NEW n \in Nat, NEW A, NEW F, Leads(F, A, n), NEW r, Walks(r, F, A, n), r[0] \in A[0]
    PROVE  \A k \in 0..n : r[k] \in A[k]
<1> DEFINE T == {k \in 0..n : r[k] \in A[k]}
<1>1. 0 \in T
  OBVIOUS
<1>2. ASSUME NEW k \in 0..n, k \in T, k < n PROVE k + 1 \in T
  <2>1. k + 1 \in 0..n
    BY <1>2
  <2> QED
    BY <2>1, <1>2 DEF Leads, Walks
<1> HIDE DEF T
<1>3. 0..n \subseteq T
  BY <1>1, <1>2, UpTo
<1> QED
  BY <1>3 DEF T

\* They can be taken.
LEMMA StepsExist ==
    ASSUME NEW n \in Nat, NEW A, NEW F, Leads(F, A, n), NEW b, b \in A[0]
    PROVE  \E r : r[0] = b /\ Walks(r, F, A, n)
<1> DEFINE T == {m \in 0..n : \E r : r[0] = b /\ Walks(r, F, A, m)}
<1>1. 0 \in T
  <2> DEFINE z == [k \in 0..0 |-> b]
  <2>1. z[0] = b /\ Walks(z, F, A, 0) /\ 0 \in 0..n
    BY DEF Walks
  <2> HIDE DEF z
  <2> QED
    BY <2>1
<1>2. ASSUME NEW m \in 0..n, m \in T, m < n PROVE m + 1 \in T
  <2>1. PICK r : r[0] = b /\ Walks(r, F, A, m)
    BY <1>2
  <2> DEFINE z == [k \in 0..(m + 1) |-> IF k = m + 1 THEN F[m][r[m]] ELSE r[k]]
  <2>2. \A k \in 0..m : z[k] = r[k]
    OBVIOUS
  <2>3. z[m + 1] = F[m][r[m]] /\ z[0] = b
    BY <2>1, <1>2
  <2>4. ASSUME NEW k \in 0..(m + 1), k < m + 1, z[k] \in A[k] PROVE z[k + 1] = F[k][z[k]]
    <3>1. k = m \/ (k \in 0..m /\ k < m /\ k + 1 \in 0..m)
      BY <2>4
    <3> HIDE DEF z
    <3> QED
      BY <3>1, <2>1, <2>2, <2>3, <2>4 DEF Walks
  <2>5. z[0] = b /\ Walks(z, F, A, m + 1) /\ m + 1 \in 0..n
    BY <2>3, <2>4, <1>2 DEF Walks
  <2> HIDE DEF z
  <2> QED
    BY <2>5
<1> HIDE DEF T
<1>3. 0..n \subseteq T
  BY <1>1, <1>2, UpTo
<1>4. n \in T
  BY <1>3
<1> QED
  BY <1>4 DEF T
=============================================================================
