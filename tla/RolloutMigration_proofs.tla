----------------------- MODULE RolloutMigration_proofs -----------------------
(***************************************************************************)
(* Proofs about RolloutMigration for any number of instances and groups:   *)
(* a group is in one place, an instance that has given up its GPUs is      *)
(* idle, every step implements one of RolloutPromise, and with pre_process *)
(* no assertion fails.  What is assumed of the constants is                *)
(* RequestsAssumption.                                                     *)
(*                                                                         *)
(* FlattenSeq and assign_sequences are recursive functions; what they      *)
(* compute is proved by induction over the naturals, from the fact of the  *)
(* library that < is well-founded there.                                   *)
(***************************************************************************)
EXTENDS RolloutMigration, FiniteSetTheorems, SequenceTheorems, WellFoundedInduction, TLAPS

-----------------------------------------------------------------------------
(* Induction and recursion.                                                *)

\* A non-empty set of naturals has a least member.
LEMMA Least ==
  ASSUME NEW T \in SUBSET Nat, T # {}
  PROVE  \E m \in T : \A k \in T : m <= k
  <1> DEFINE R == {ss \in Nat \X Nat : ss[1] < ss[2]}
  <1>1. IsWellFoundedOn(R, Nat)
    BY NatLessThanWellFounded DEF OpToRel
  <1>2. \A S \in SUBSET Nat : S # {} => \E x \in S : \A y \in S : ~(<<y, x>> \in R)
    <2> HIDE DEF R
    <2> QED
      BY <1>1, WFMin
  <1>3. PICK m \in T : \A k \in T : ~(<<k, m>> \in R)
    BY <1>2
  <1>4. \A k \in T : m <= k
    <2> TAKE k \in T
    <2>1. k \in Nat /\ m \in Nat
      BY <1>3
    <2>2. ~(k < m)
      BY <1>3, <2>1
    <2> QED
      BY <2>1, <2>2
  <1> QED
    BY <1>3, <1>4

\* A set of naturals with 0 and with every successor of a member is all of them.
LEMMA Induct ==
  ASSUME NEW T \in SUBSET Nat, 0 \in T, \A n \in T : n + 1 \in T
  PROVE  T = Nat
  <1> SUFFICES ASSUME Nat \ T # {} PROVE FALSE
    OBVIOUS
  <1>1. PICK m \in Nat \ T : \A k \in Nat \ T : m <= k
    <2>1. Nat \ T \in SUBSET Nat
      OBVIOUS
    <2> QED
      BY <2>1, Least
  <1>2. m # 0 /\ m - 1 \in Nat
    BY <1>1
  <1>3. m - 1 \in T
    BY <1>1, <1>2
  <1>4. (m - 1) + 1 \in T
    BY <1>3
  <1> QED
    BY <1>1, <1>4

\* Recursion over 1..n: there is a function with a given first value and step.
Recursive(f, n, base, H) == \A k \in 1..n : f[k] = IF k = 1 THEN base ELSE H[<<k, f[k-1]>>]
HasRecursion(S, n, base, H) == \E f \in [1..n -> S] : Recursive(f, n, base, H)

LEMMA Recursion ==
  ASSUME NEW S, NEW base \in S, NEW H \in [Nat \X S -> S], NEW n \in Nat \ {0}
  PROVE  HasRecursion(S, n, base, H)
  <1> DEFINE P(m) == \E f \in [1..(m + 1) -> S] : \A k \in 1..(m + 1) : f[k] = IF k = 1 THEN base ELSE H[<<k, f[k-1]>>]
             T == {m \in Nat : P(m)}
  <1>1. P(0)
    <2>1. [k \in 1..(0 + 1) |-> base] \in [1..(0 + 1) -> S]
      OBVIOUS
    <2>2. \A k \in 1..(0 + 1) : [j \in 1..(0 + 1) |-> base][k] = base /\ k = 1
      OBVIOUS
    <2> QED
      BY <2>1, <2>2
  <1>2. ASSUME NEW m \in Nat, P(m)
        PROVE  P(m + 1)
    <2>1. PICK f \in [1..(m + 1) -> S] : \A k \in 1..(m + 1) : f[k] = IF k = 1 THEN base ELSE H[<<k, f[k-1]>>]
      BY <1>2
    <2>2. m + 1 \in 1..(m + 1) /\ f[m + 1] \in S
      BY <2>1
    <2> DEFINE e == [k \in 1..(m + 1 + 1) |-> IF k = m + 2 THEN H[<<m + 2, f[m + 1]>>] ELSE f[k]]
    <2>3. H[<<m + 2, f[m + 1]>>] \in S
      BY <2>2
    <2>4. \A k \in 1..(m + 1 + 1) : k = m + 2 \/ k \in 1..(m + 1)
      OBVIOUS
    <2>5. e \in [1..(m + 1 + 1) -> S]
      BY <2>1, <2>3, <2>4
    <2>6. ASSUME NEW k \in 1..(m + 1 + 1)
          PROVE  e[k] = IF k = 1 THEN base ELSE H[<<k, e[k-1]>>]
      <3>1. CASE k = m + 2
        <4>1. e[k] = H[<<m + 2, f[m + 1]>>] /\ k # 1 /\ k - 1 = m + 1 /\ k - 1 \in 1..(m + 1 + 1) /\ k - 1 # m + 2
          BY <3>1
        <4>2. e[k - 1] = f[m + 1]
          BY <4>1
        <4> QED
          BY <4>1, <4>2, <3>1
      <3>2. CASE k \in 1..(m + 1)
        <4>1. e[k] = f[k]
          BY <3>2
        <4>2. k # 1 => k - 1 \in 1..(m + 1) /\ k - 1 # m + 2 /\ e[k - 1] = f[k - 1]
          BY <3>2
        <4> QED
          BY <2>1, <3>2, <4>1, <4>2
      <3> QED
        BY <2>4, <3>1, <3>2
    <2> HIDE DEF e
    <2> QED
      BY <2>5, <2>6
  <1>3. T = Nat
    <2>1. 0 \in T /\ \A m \in T : m + 1 \in T
      BY <1>1, <1>2
    <2> HIDE DEF T
    <2>2. T \subseteq Nat
      BY DEF T
    <2> QED
      BY <2>1, <2>2, Induct
  <1>4. P(n - 1) /\ (n - 1) + 1 = n
    <2>1. n - 1 \in Nat /\ (n - 1) + 1 = n
      OBVIOUS
    <2>2. n - 1 \in T
      <3> HIDE DEF T
      <3> QED
        BY <1>3, <2>1
    <2>3. P(n - 1)
      <3> HIDE DEF P
      <3> QED
        BY <2>2
    <2> QED
      BY <2>1, <2>3
  <1> QED
    BY <1>4 DEF HasRecursion, Recursive

-----------------------------------------------------------------------------
(* Sums over finite sets.                                                  *)

Some(s) == CHOOSE x \in s : TRUE
Summing(F, S, sum) == sum = [s \in SUBSET S |-> IF s = {} THEN 0 ELSE F[Some(s)] + sum[s \ {Some(s)}]]

\* The element that a sum takes first.
LEMMA Picked ==
  ASSUME NEW s, IsFiniteSet(s), NEW n \in Nat, Cardinality(s) = n + 1
  PROVE  /\ s # {} /\ Some(s) \in s
         /\ IsFiniteSet(s \ {Some(s)}) /\ Cardinality(s \ {Some(s)}) = n
  <1>1. s # {}
    BY FS_EmptySet
  <1>2. PICK x : x = Some(s)
    OBVIOUS
  <1>3. x \in s
    BY <1>1, <1>2 DEF Some
  <1>4. IsFiniteSet(s \ {x}) /\ Cardinality(s \ {x}) = Cardinality(s) - 1
    BY <1>3, FS_RemoveElement
  <1> QED
    BY <1>1, <1>2, <1>3, <1>4

\* A sum over a finite set is what its recursion says.
LEMMA SumExists ==
  ASSUME NEW S, IsFiniteSet(S), NEW F \in [S -> Nat]
  PROVE  \E sum : Summing(F, S, sum)
  <1> DEFINE Right(f, s) == f[s] = IF s = {} THEN 0 ELSE F[Some(s)] + f[s \ {Some(s)}]
             P(n) == \E f \in [SUBSET S -> Nat] : \A s \in SUBSET S : Cardinality(s) <= n => Right(f, s)
             T == {n \in Nat : P(n)}
  <1>1. \A s \in SUBSET S : IsFiniteSet(s) /\ Cardinality(s) \in Nat /\ Cardinality(s) <= Cardinality(S)
    BY FS_Subset, FS_CardinalityType
  <1>2. P(0)
    <2> DEFINE z == [s \in SUBSET S |-> 0]
    <2>1. z \in [SUBSET S -> Nat]
      OBVIOUS
    <2>2. \A s \in SUBSET S : Cardinality(s) <= 0 => s = {}
      BY <1>1, FS_EmptySet
    <2>3. \A s \in SUBSET S : Cardinality(s) <= 0 => Right(z, s)
      BY <2>2
    <2> QED
      BY <2>1, <2>3
  <1>3. ASSUME NEW n \in Nat, P(n)
        PROVE  P(n + 1)
    <2>1. PICK f \in [SUBSET S -> Nat] : \A s \in SUBSET S : Cardinality(s) <= n => Right(f, s)
      BY <1>3
    <2> DEFINE e == [s \in SUBSET S |-> IF Cardinality(s) = n + 1 THEN F[Some(s)] + f[s \ {Some(s)}] ELSE f[s]]
    <2>2. ASSUME NEW s \in SUBSET S, Cardinality(s) = n + 1
          PROVE  /\ s # {} /\ Some(s) \in S /\ s \ {Some(s)} \in SUBSET S /\ Cardinality(s \ {Some(s)}) = n
                 /\ F[Some(s)] + f[s \ {Some(s)}] \in Nat
      <3>1. s # {} /\ Some(s) \in s /\ Cardinality(s \ {Some(s)}) = n
        BY <1>1, <2>2, Picked
      <3>2. Some(s) \in S /\ s \ {Some(s)} \in SUBSET S
        BY <3>1
      <3>3. F[Some(s)] \in Nat /\ f[s \ {Some(s)}] \in Nat
        BY <2>1, <3>2
      <3> QED
        BY <3>1, <3>2, <3>3
    <2>3. e \in [SUBSET S -> Nat]
      BY <2>1, <2>2
    <2>4. ASSUME NEW s \in SUBSET S, Cardinality(s) <= n + 1
          PROVE  Right(e, s)
      <3>1. CASE Cardinality(s) = n + 1
        <4>1. e[s] = F[Some(s)] + f[s \ {Some(s)}]
          BY <3>1
        <4>2. e[s \ {Some(s)}] = f[s \ {Some(s)}]
          BY <2>2, <3>1
        <4> QED
          BY <2>2, <3>1, <4>1, <4>2
      <3>2. CASE Cardinality(s) <= n
        <4>1. Cardinality(s) # n + 1 /\ e[s] = f[s]
          BY <1>1, <3>2
        <4>2. CASE s = {}
          BY <2>1, <3>2, <4>1, <4>2
        <4>3. CASE s # {}
          <5>1. Some(s) \in s
            BY <4>3 DEF Some
          <5>2. s \ {Some(s)} \in SUBSET S /\ Cardinality(s \ {Some(s)}) <= n
            <6>1. PICK t \in SUBSET S : t = s \ {Some(s)}
              OBVIOUS
            <6>2. t \subseteq s /\ Cardinality(t) <= Cardinality(s)
              BY <1>1, <6>1, FS_Subset
            <6> QED
              BY <1>1, <3>2, <6>1, <6>2
          <5>3. e[s \ {Some(s)}] = f[s \ {Some(s)}]
            BY <1>1, <5>2
          <5> QED
            BY <2>1, <3>2, <4>1, <4>3, <5>3
        <4> QED
          BY <4>2, <4>3
      <3> QED
        BY <1>1, <2>4, <3>1, <3>2
    <2> HIDE DEF e
    <2> QED
      BY <2>3, <2>4
  <1>4. T = Nat
    <2> HIDE DEF P
    <2>1. 0 \in T /\ \A m \in T : m + 1 \in T
      BY <1>2, <1>3
    <2>2. T \subseteq Nat
      OBVIOUS
    <2> HIDE DEF T
    <2> QED
      BY <2>1, <2>2, Induct
  <1>5. P(Cardinality(S))
    <2>1. Cardinality(S) \in T
      <3> HIDE DEF T
      <3> QED
        BY <1>1, <1>4, FS_CardinalityType
    <2> HIDE DEF P
    <2> QED
      BY <2>1
  <1>6. PICK f \in [SUBSET S -> Nat] : \A s \in SUBSET S : Right(f, s)
    BY <1>1, <1>5
  <1> QED
    BY <1>6 DEF Summing

\* Summands of at most c for each element of disjoint sets; if the sum is as large as it can be, all of them are.
Parts(S, c, F, R) ==
  /\ \A x \in S : IsFiniteSet(R[x]) /\ F[x] <= c * Cardinality(R[x])
  /\ \A x, y \in S : x # y => R[x] \cap R[y] = {}
Whole(S, c, F, R, total) ==
  LET all == UNION {R[x] : x \in S} IN
  /\ total \in Nat
  /\ IsFiniteSet(all) /\ total <= c * Cardinality(all)
  /\ total = c * Cardinality(all) => \A x \in S : F[x] = c * Cardinality(R[x])

LEMMA SumBound ==
  ASSUME NEW S, IsFiniteSet(S), NEW c \in Nat, NEW F \in [S -> Nat], NEW R, Parts(S, c, F, R),
         NEW sum, Summing(F, S, sum)
  PROVE  Whole(S, c, F, R, sum[S])
  <1> DEFINE U(s) == UNION {R[x] : x \in s}
             Q(s) == /\ sum[s] \in Nat
                     /\ IsFiniteSet(U(s)) /\ sum[s] <= c * Cardinality(U(s))
                     /\ sum[s] = c * Cardinality(U(s)) => \A x \in s : F[x] = c * Cardinality(R[x])
             T == {n \in Nat : \A s \in SUBSET S : Cardinality(s) = n => Q(s)}
  <1>0. /\ \A x \in S : IsFiniteSet(R[x]) /\ F[x] <= c * Cardinality(R[x])
        /\ \A x, y \in S : x # y => R[x] \cap R[y] = {}
    BY DEF Parts
  <1>1. \A s \in SUBSET S : IsFiniteSet(s) /\ Cardinality(s) \in Nat
    BY FS_Subset, FS_CardinalityType
  <1>2. \A s \in SUBSET S : sum[s] = IF s = {} THEN 0 ELSE F[Some(s)] + sum[s \ {Some(s)}]
    BY DEF Summing
  <1>3. ASSUME NEW s \in SUBSET S, Cardinality(s) = 0
        PROVE  Q(s)
    <2>1. s = {}
      BY <1>1, <1>3, FS_EmptySet
    <2>2. U(s) = {} /\ sum[s] = 0
      BY <1>2, <2>1
    <2>3. IsFiniteSet(U(s)) /\ Cardinality(U(s)) = 0
      BY <2>2, FS_EmptySet
    <2> QED
      BY <2>1, <2>2, <2>3
  <1>4. ASSUME NEW n \in T
        PROVE  n + 1 \in T
    <2>1. ASSUME NEW s \in SUBSET S, Cardinality(s) = n + 1
          PROVE  Q(s)
      <3>1. PICK x \in s, t \in SUBSET S : x = Some(s) /\ t = s \ {x} /\ Cardinality(t) = n
        <4>1. s # {} /\ Some(s) \in s /\ Cardinality(s \ {Some(s)}) = n
          BY <1>1, <2>1, Picked
        <4> QED
          BY <4>1
      <3>2. Q(t)
        BY <3>1
      <3>3. sum[s] = F[x] + sum[t]
        BY <1>2, <3>1
      <3>4. U(s) = R[x] \cup U(t) /\ R[x] \cap U(t) = {}
        <4>1. \A y \in t : y # x /\ y \in S /\ x \in S
          BY <3>1
        <4>2. U(s) = R[x] \cup U(t)
          BY <3>1
        <4>3. R[x] \cap U(t) = {}
          BY <1>0, <4>1
        <4> QED
          BY <4>2, <4>3
      <3>5. PICK a \in Nat, b \in Nat : a = Cardinality(R[x]) /\ b = Cardinality(U(t))
        BY <1>0, <3>2, FS_CardinalityType
      <3> HIDE DEF U
      <3>6. IsFiniteSet(U(s)) /\ Cardinality(U(s)) = a + b
        <4>1. IsFiniteSet(R[x]) /\ IsFiniteSet(U(t))
          BY <1>0, <3>2
        <4>2. Cardinality(R[x] \cap U(t)) = 0
          BY <3>4, FS_EmptySet
        <4>3. IsFiniteSet(R[x] \cup U(t)) /\ Cardinality(R[x] \cup U(t)) = Cardinality(R[x]) + Cardinality(U(t)) - Cardinality(R[x] \cap U(t))
          BY <4>1, FS_Union
        <4> QED
          BY <3>4, <3>5, <4>2, <4>3
      <3>7. c * (a + b) = c * a + c * b /\ c * a \in Nat /\ c * b \in Nat
        OBVIOUS
      <3>8. F[x] \in Nat /\ F[x] <= c * a
        BY <1>0, <3>1, <3>5
      <3>9. sum[t] \in Nat /\ sum[t] <= c * b /\ (sum[t] = c * b => \A y \in t : F[y] = c * Cardinality(R[y]))
        BY <3>2, <3>5
      <3>10. PICK ca \in Nat, cb \in Nat : ca = c * a /\ cb = c * b
        BY <3>7
      <3>11. sum[s] \in Nat /\ sum[s] <= ca + cb /\ (sum[s] = ca + cb => F[x] = ca /\ sum[t] = cb)
        BY <3>3, <3>8, <3>9, <3>10
      <3>12. c * Cardinality(U(s)) = ca + cb
        BY <3>6, <3>7, <3>10
      <3>13. sum[s] = ca + cb => \A y \in s : F[y] = c * Cardinality(R[y])
        BY <3>1, <3>5, <3>9, <3>10, <3>11
      <3> QED
        BY <3>6, <3>11, <3>12, <3>13
    <2> HIDE DEF Q
    <2> QED
      BY <2>1
  <1>5. T = Nat
    <2> HIDE DEF Q
    <2>1. 0 \in T
      BY <1>3
    <2>2. \A m \in T : m + 1 \in T
      BY <1>4
    <2>3. T \subseteq Nat
      OBVIOUS
    <2> HIDE DEF T
    <2> QED
      BY <2>1, <2>2, <2>3, Induct
  <1>6. Q(S)
    <2>1. Cardinality(S) \in T /\ S \in SUBSET S
      <3> HIDE DEF T
      <3> QED
        BY <1>1, <1>5
    <2> HIDE DEF Q
    <2> QED
      BY <2>1
  <1> QED
    BY <1>6 DEF Whole

-----------------------------------------------------------------------------
(* assign_sequences and FlattenSeq.                                        *)

\* The first positions that assign_sequences takes for its instances: they do not go down, and begin at 1.
Steps(first, n, len) ==
  /\ first \in [1..n -> 1..(len + 1)]
  /\ first[1] = 1
  /\ \A k \in 1..n : k > 1 => first[k - 1] <= first[k]

\* An instance takes no more groups than are left.
LEMMA TakenBound ==
  ASSUME NEW groups \in Seq(Groups), NEW from \in 1..(Len(groups) + 1), NEW load, NEW expected
  PROVE  Taken(groups, from, load, expected) \in 0..(Len(groups) + 1 - from)
  <1> DEFINE M == {m \in 0..(Len(groups) + 1 - from) :
                     \/ m = Len(groups) + 1 - from
                     \/ load + Load(SubSeq(groups, from, from + m - 1)) >= expected}
  <1>1. PICK z \in Nat : z = Len(groups) + 1 - from
    OBVIOUS
  <1>2. z \in M /\ M \subseteq 0..z /\ M \subseteq Nat
    BY <1>1
  <1>3. Taken(groups, from, load, expected) = CHOOSE x \in M : \A y \in M : x =< y
    BY DEF Taken, Min
  <1> HIDE DEF M
  <1>4. \E x \in M : \A y \in M : x =< y
    BY <1>2, Least
  <1> QED
    BY <1>1, <1>2, <1>3, <1>4

\* What each instance is assigned begins at the first position of its own and ends before the next one's.
LEMMA Starts ==
  ASSUME NEW groups \in Seq(Groups), NEW ids, NEW n \in Nat \ {0}, Cardinality(ids) = n, NEW lo \in Int, Min(ids) = lo
  PROVE  \E first : /\ Steps(first, n, Len(groups))
                    /\ Assigned(ids, groups) = [i \in ids |->
                         Share(groups, first[i - lo + 1],
                               IF i - lo + 1 = n THEN Len(groups) + 1 ELSE first[(i - lo + 1) + 1])]
  <1> DEFINE expected == MapThenSumSet(LAMBDA i : reports[i], Alive) \div n
             S == 1..(Len(groups) + 1)
             H == [kv \in Nat \X S |-> kv[2] + Taken(groups, kv[2], reports[lo + kv[1] - 2], expected)]
             Body(f) == [k \in 1..n |-> IF k = 1 THEN 1
                           ELSE f[k-1] + Taken(groups, f[k-1], reports[lo + k - 2], expected)]
             First == CHOOSE f : f = Body(f)
  <1>1. H \in [Nat \X S -> S] /\ \A k \in Nat, v \in S : H[<<k, v>>] >= v
    <2>1. ASSUME NEW k \in Nat, NEW v \in S, NEW x
          PROVE  v + Taken(groups, v, x, expected) \in S /\ v + Taken(groups, v, x, expected) >= v
      <3>1. PICK t \in Int : t = Taken(groups, v, x, expected) /\ t >= 0 /\ t <= Len(groups) + 1 - v
        <4> HIDE DEF expected
        <4>1. Taken(groups, v, x, expected) \in 0..(Len(groups) + 1 - v)
          BY TakenBound
        <4>2. Len(groups) + 1 - v \in Int
          OBVIOUS
        <4> QED
          BY <4>1, <4>2
      <3> QED
        BY <3>1
    <2> HIDE DEF S, expected
    <2> QED
      BY <2>1
  <1>2. PICK f \in [1..n -> S] : \A k \in 1..n : f[k] = IF k = 1 THEN 1 ELSE H[<<k, f[k-1]>>]
    <2>1. 1 \in S
      OBVIOUS
    <2> HIDE DEF S, H
    <2>2. H \in [Nat \X S -> S]
      BY <1>1
    <2>3. HasRecursion(S, n, 1, H)
      BY <2>1, <2>2, Recursion
    <2> QED
      BY <2>3 DEF HasRecursion, Recursive
  <1>3. f = Body(f)
    <2>1. ASSUME NEW k \in 1..n
          PROVE  f[k] = IF k = 1 THEN 1 ELSE f[k-1] + Taken(groups, f[k-1], reports[lo + k - 2], expected)
      <3>1. CASE k = 1
        BY <1>2, <3>1
      <3>2. CASE k # 1
        <4>1. k - 1 \in 1..n /\ k \in Nat
          BY <3>2
        <4>2. f[k - 1] \in S
          BY <1>2, <4>1
        <4>3. <<k, f[k - 1]>> \in Nat \X S
          BY <4>1, <4>2
        <4>4. f[k] = H[<<k, f[k - 1]>>]
          BY <1>2, <3>2
        <4> HIDE DEF S, expected
        <4> QED
          BY <3>2, <4>3, <4>4
      <3> QED
        BY <3>1, <3>2
    <2> HIDE DEF expected, S
    <2> QED
      BY <1>2, <2>1
  <1>4. First = Body(First)
    <2> HIDE DEF Body
    <2> QED
      BY <1>3
  <1>5. First \in [1..n -> S] /\ \A k \in 1..n : First[k] = f[k]
    <2> DEFINE T == {m \in Nat : m + 1 \in 1..n => First[m + 1] = f[m + 1]}
    <2> HIDE DEF First, expected
    <2>1. \A k \in 1..n : First[k] = IF k = 1 THEN 1
                           ELSE First[k-1] + Taken(groups, First[k-1], reports[lo + k - 2], expected)
      BY <1>4
    <2>2. \A k \in 1..n : f[k] = IF k = 1 THEN 1
                           ELSE f[k-1] + Taken(groups, f[k-1], reports[lo + k - 2], expected)
      BY <1>3
    <2>3. 0 \in T
      BY <2>1, <2>2
    <2>4. ASSUME NEW m \in T
          PROVE  m + 1 \in T
      <3>1. CASE (m + 1) + 1 \in 1..n
        <4>1. m \in Nat /\ m + 1 \in 1..n /\ (m + 1) + 1 # 1 /\ (m + 1) + 1 - 1 = m + 1
          BY <3>1
        <4>2. First[m + 1] = f[m + 1]
          BY <4>1
        <4>3. First[(m + 1) + 1] = f[(m + 1) + 1]
          BY <2>1, <2>2, <3>1, <4>1, <4>2
        <4> QED
          BY <4>1, <4>3
      <3> QED
        BY <3>1
    <2>5. T = Nat
      <3> HIDE DEF T
      <3>1. T \subseteq Nat
        BY DEF T
      <3> QED
        BY <2>3, <2>4, <3>1, Induct
    <2>6. \A k \in 1..n : First[k] = f[k]
      <3> TAKE k \in 1..n
      <3>1. k - 1 \in Nat /\ (k - 1) + 1 = k
        OBVIOUS
      <3>2. k - 1 \in T
        <4> HIDE DEF T
        <4> QED
          BY <2>5, <3>1
      <3> QED
        BY <3>1, <3>2
    <2>7. DOMAIN First = 1..n /\ First = [k \in 1..n |-> First[k]]
      BY <1>4
    <2> QED
      BY <1>2, <2>6, <2>7
  <1>6. Steps(First, n, Len(groups))
    <2> HIDE DEF First
    <2>1. First[1] = 1
      <3>1. 1 \in 1..n
        OBVIOUS
      <3> QED
        BY <1>2, <1>5, <3>1
    <2>2. ASSUME NEW k \in 1..n, k > 1
          PROVE  First[k - 1] <= First[k]
      <3>1. k - 1 \in 1..n /\ k \in Nat /\ k # 1
        BY <2>2
      <3>2. First[k] = H[<<k, First[k - 1]>>] /\ First[k - 1] \in S
        <4> HIDE DEF H
        <4> QED
          BY <1>2, <1>5, <3>1
      <3>3. H[<<k, First[k - 1]>>] >= First[k - 1]
        <4> HIDE DEF H
        <4> QED
          BY <1>1, <3>1, <3>2
      <3>4. First[k] \in S
        BY <1>5
      <3> QED
        BY <3>2, <3>3, <3>4
    <2> QED
      BY <1>5, <2>1, <2>2 DEF Steps
  <1>7. Assigned(ids, groups) = [i \in ids |->
          Share(groups, First[i - lo + 1],
                IF i - lo + 1 = n THEN Len(groups) + 1 ELSE First[(i - lo + 1) + 1])]
    BY DEF Assigned
  <1> HIDE DEF First
  <1> QED
    BY <1>6, <1>7

\* First positions do not go down.
LEMMA Climbs ==
  ASSUME NEW n \in Nat \ {0}, NEW len \in Nat, NEW first, Steps(first, n, len)
  PROVE  \A j, k \in 1..n : j <= k => first[j] <= first[k]
  <1> DEFINE T == {d \in Nat : \A j \in 1..n : j + d \in 1..n => first[j] <= first[j + d]}
  <1>1. \A k \in 1..n : first[k] \in Nat
    BY DEF Steps
  <1>2. 0 \in T
    BY <1>1
  <1>3. ASSUME NEW d \in T
        PROVE  d + 1 \in T
    <2>1. ASSUME NEW j \in 1..n, j + (d + 1) \in 1..n
          PROVE  first[j] <= first[j + (d + 1)]
      <3>1. d \in Nat /\ j + d \in 1..n
        BY <2>1
      <3>2. first[j] <= first[j + d]
        BY <3>1
      <3>3. first[(j + (d + 1)) - 1] <= first[j + (d + 1)]
        BY <2>1 DEF Steps
      <3>4. (j + (d + 1)) - 1 = j + d
        BY <3>1
      <3> QED
        BY <1>1, <2>1, <3>1, <3>2, <3>3, <3>4
    <2> QED
      BY <2>1
  <1>4. T = Nat
    <2> HIDE DEF T
    <2>1. T \subseteq Nat
      BY DEF T
    <2> QED
      BY <1>2, <1>3, <2>1, Induct
  <1> SUFFICES ASSUME NEW j \in 1..n, NEW k \in 1..n, j <= k
               PROVE  first[j] <= first[k]
    OBVIOUS
  <1>5. k - j \in Nat /\ j + (k - j) = k
    OBVIOUS
  <1>6. k - j \in T
    <2> HIDE DEF T
    <2> QED
      BY <1>4, <1>5
  <1> QED
    BY <1>5, <1>6

\* The last instance that begins at or before a position.
LEMMA LastBefore ==
  ASSUME NEW n \in Nat \ {0}, NEW len \in Nat, NEW first, Steps(first, n, len), NEW p \in 1..len
  PROVE  \E k \in 1..n : first[k] <= p /\ (k < n => p < first[k + 1])
  <1> DEFINE M == {m \in 0..(n - 1) : first[n - m] <= p}
  <1>1. \A k \in 1..n : first[k] \in Nat
    BY DEF Steps
  <1>2. n - 1 \in M
    BY DEF Steps
  <1>3. PICK m \in M : \A l \in M : m <= l
    <2>1. \A m \in M : m \in 0..(n - 1) /\ m \in Nat
      OBVIOUS
    <2> HIDE DEF M
    <2>2. M \subseteq Nat /\ M # {}
      BY <1>2, <2>1
    <2> QED
      BY <2>2, Least
  <1>4. m \in 0..(n - 1) /\ first[n - m] <= p
    BY <1>3
  <1>5. n - m \in 1..n
    BY <1>4
  <1>6. n - m < n => p < first[(n - m) + 1]
    <2> SUFFICES ASSUME n - m < n, ~(p < first[(n - m) + 1])
                 PROVE  FALSE
      OBVIOUS
    <2>1. m - 1 \in 0..(n - 1) /\ n - (m - 1) = (n - m) + 1 /\ (n - m) + 1 \in 1..n
      BY <1>4
    <2>2. first[n - (m - 1)] <= p
      BY <1>1, <2>1
    <2>3. m - 1 \in M
      BY <2>1, <2>2
    <2> QED
      BY <1>3, <1>4, <2>3
  <1> QED
    BY <1>4, <1>5, <1>6

\* The members of a sequence.
LEMMA Elements ==
  ASSUME NEW S, NEW s \in Seq(S)
  PROVE  \A x : x \in ToSet(s) <=> \E i \in 1..Len(s) : s[i] = x
  BY DEF ToSet

\* The empty sequence has none.
LEMMA NoElements == \A x : x \notin ToSet(<<>>)
  <1>1. PICK e \in Seq(Groups) : e = <<>> /\ Len(e) = 0
    BY EmptySeq
  <1>2. \A x : x \in ToSet(e) <=> \E i \in 1..Len(e) : e[i] = x
    BY Elements
  <1>3. 1..Len(e) = {}
    BY <1>1
  <1> QED
    BY <1>1, <1>2, <1>3

Injective(s) == \A a, b \in 1..Len(s) : s[a] = s[b] => a = b

SharedOut(share, ids, groups) ==
  /\ \A i \in ids : share[i] \in Seq(Groups) /\ ToSet(share[i]) \subseteq ToSet(groups)
  /\ \A g \in ToSet(groups) : \E i \in ids : g \in ToSet(share[i])
  /\ Injective(groups) => \A i, j \in ids : \A g \in ToSet(share[i]) : g \in ToSet(share[j]) => i = j

\* assign_sequences gives every group to one of the instances.
LEMMA SharesOut ==
  ASSUME NEW groups \in Seq(Groups), NEW lo \in Int, NEW hi \in Int, lo <= hi, NEW share, share = Assigned(lo..hi, groups)
  PROVE  SharedOut(share, lo..hi, groups)
  <1>1. PICK n \in Nat \ {0} : n = hi - lo + 1 /\ Cardinality(lo..hi) = n
    BY FS_Interval
  <1>2. Min(lo..hi) = lo
    BY DEF Min
  <1>3. PICK len \in Nat : len = Len(groups)
    OBVIOUS
  <1>4. PICK first : /\ Steps(first, n, len)
                     /\ Assigned(lo..hi, groups) = [i \in lo..hi |->
                          Share(groups, first[i - lo + 1],
                                IF i - lo + 1 = n THEN Len(groups) + 1 ELSE first[(i - lo + 1) + 1])]
    <2> DEFINE ids == lo..hi
    <2>1. Cardinality(ids) = n /\ Min(ids) = lo
      BY <1>1, <1>2
    <2> HIDE DEF ids
    <2>2. \E first : /\ Steps(first, n, Len(groups))
                     /\ Assigned(ids, groups) = [i \in ids |->
                          Share(groups, first[i - lo + 1],
                                IF i - lo + 1 = n THEN Len(groups) + 1 ELSE first[(i - lo + 1) + 1])]
      BY <2>1, Starts
    <2> QED
      BY <1>3, <2>2 DEF ids
  <1> DEFINE next(k) == IF k = n THEN len + 1 ELSE first[k + 1]
  <1>5. \A k \in 1..n : first[k] \in 1..(len + 1) /\ next(k) \in 1..(len + 1) /\ first[k] <= next(k)
    <2> TAKE k \in 1..n
    <2>1. first[k] \in 1..(len + 1)
      BY <1>4 DEF Steps
    <2>2. CASE k = n
      BY <2>1, <2>2
    <2>3. CASE k # n
      <3>1. k + 1 \in 1..n /\ k + 1 > 1 /\ (k + 1) - 1 = k
        BY <2>3
      <3>2. first[k + 1] \in 1..(len + 1) /\ first[(k + 1) - 1] <= first[k + 1]
        BY <1>4, <3>1 DEF Steps
      <3> QED
        BY <2>1, <2>3, <3>1, <3>2
    <2> QED
      BY <2>2, <2>3
  <1>6. ASSUME NEW i \in lo..hi
        PROVE  i - lo + 1 \in 1..n
    BY <1>1
  <1>7. ASSUME NEW i \in lo..hi
        PROVE  share[i] = SubSeq(groups, first[i - lo + 1], next(i - lo + 1) - 1)
    BY <1>3, <1>4 DEF Share
  <1> HIDE DEF next
  <1>8. ASSUME NEW i \in lo..hi
        PROVE  /\ share[i] \in Seq(Groups)
               /\ \A g : g \in ToSet(share[i]) <=>
                    \E p \in 1..len : first[i - lo + 1] <= p /\ p < next(i - lo + 1) /\ g = groups[p]
    <2>1. PICK m \in 1..(len + 1), e \in 1..(len + 1) : m = first[i - lo + 1] /\ e = next(i - lo + 1) /\ m <= e
      BY <1>5, <1>6
    <2>2. share[i] = SubSeq(groups, m, e - 1)
      BY <1>7, <2>1
    <2>3. \A p \in m..(e - 1) : p \in 1..len /\ groups[p] \in Groups
      <3> TAKE p \in m..(e - 1)
      <3>1. p \in 1..len
        BY <1>3
      <3> QED
        BY <1>3, <3>1
    <2>4. /\ SubSeq(groups, m, e - 1) \in Seq(Groups)
          /\ Len(SubSeq(groups, m, e - 1)) = IF m <= e - 1 THEN (e - 1) - m + 1 ELSE 0
          /\ \A q \in 1..((e - 1) - m + 1) : SubSeq(groups, m, e - 1)[q] = groups[m + q - 1]
      <3>1. m \in Int /\ e - 1 \in Int
        OBVIOUS
      <3>2. \A p \in m..(e - 1) : groups[p] \in Groups
        BY <2>3
      <3> QED
        BY <3>1, <3>2, SubSeqProperties
    <2>5. Len(share[i]) = e - m /\ DOMAIN share[i] = 1..(e - m) /\ \A q \in 1..(e - m) : share[i][q] = groups[m + q - 1]
      <3>1. Len(share[i]) = e - m
        <4>1. (IF m <= e - 1 THEN (e - 1) - m + 1 ELSE 0) = e - m
          BY <2>1
        <4> QED
          BY <2>2, <2>4, <4>1
      <3>2. DOMAIN share[i] = 1..Len(share[i])
        BY <2>2, <2>4
      <3>3. (e - 1) - m + 1 = e - m
        OBVIOUS
      <3> QED
        BY <2>2, <2>4, <3>1, <3>2, <3>3
    <2>6. \A g : g \in ToSet(share[i]) <=> \E q \in 1..(e - m) : g = groups[m + q - 1]
      BY <2>5 DEF ToSet
    <2>7. \A g : (\E q \in 1..(e - m) : g = groups[m + q - 1]) <=> \E p \in 1..len : m <= p /\ p < e /\ g = groups[p]
      <3> TAKE g
      <3>1. ASSUME NEW q \in 1..(e - m), g = groups[m + q - 1]
            PROVE  \E p \in 1..len : m <= p /\ p < e /\ g = groups[p]
        <4>1. m + q - 1 \in 1..len /\ m <= m + q - 1 /\ m + q - 1 < e
          OBVIOUS
        <4> QED
          BY <3>1, <4>1
      <3>2. ASSUME NEW p \in 1..len, m <= p, p < e, g = groups[p]
            PROVE  \E q \in 1..(e - m) : g = groups[m + q - 1]
        <4>1. p - m + 1 \in 1..(e - m) /\ m + (p - m + 1) - 1 = p
          BY <3>2
        <4> QED
          BY <3>2, <4>1
      <3> QED
        BY <3>1, <3>2
    <2>8. \A g : g \in ToSet(share[i]) <=> \E p \in 1..len : m <= p /\ p < e /\ g = groups[p]
      BY <2>6, <2>7
    <2>9. share[i] \in Seq(Groups)
      BY <2>2, <2>4
    <2> QED
      BY <2>1, <2>8, <2>9
  <1>9. \A g : g \in ToSet(groups) <=> \E p \in 1..len : g = groups[p]
    BY <1>3 DEF ToSet
  <1>10. ASSUME NEW i \in lo..hi
         PROVE  share[i] \in Seq(Groups) /\ ToSet(share[i]) \subseteq ToSet(groups)
    <2>1. ASSUME NEW g \in ToSet(share[i])
          PROVE  g \in ToSet(groups)
      <3>1. PICK p \in 1..len : g = groups[p]
        BY <1>8, <2>1
      <3> QED
        BY <1>9, <3>1
    <2>2. share[i] \in Seq(Groups)
      BY <1>8
    <2> QED
      BY <2>1, <2>2
  <1>11. ASSUME NEW g \in ToSet(groups)
         PROVE  \E i \in lo..hi : g \in ToSet(share[i])
    <2>1. PICK p \in 1..len : g = groups[p]
      BY <1>9
    <2>2. PICK k \in 1..n : first[k] <= p /\ (k < n => p < first[k + 1])
      BY <1>4, LastBefore
    <2>3. p < next(k)
      BY <2>1, <2>2 DEF next
    <2>4. k + lo - 1 \in lo..hi /\ (k + lo - 1) - lo + 1 = k
      BY <1>1
    <2> QED
      BY <1>8, <2>1, <2>2, <2>3, <2>4
  <1>12. ASSUME Injective(groups), NEW i \in lo..hi, NEW j \in lo..hi, NEW g \in ToSet(share[i]), g \in ToSet(share[j])
         PROVE  i = j
    <2>1. ASSUME NEW k \in lo..hi, NEW l \in lo..hi, k < l, NEW p \in 1..len,
                 first[l - lo + 1] <= p, p < next(k - lo + 1)
          PROVE  FALSE
      <3>1. PICK a \in 1..n, b \in 1..n : a = k - lo + 1 /\ b = l - lo + 1
        BY <1>6
      <3>2. a < b /\ a # n /\ a + 1 \in 1..n /\ a + 1 <= b
        BY <2>1, <3>1
      <3>3. next(a) = first[a + 1]
        BY <3>2 DEF next
      <3>4. first[a + 1] <= first[b]
        BY <1>4, <3>2, Climbs
      <3>5. first[a + 1] \in Nat /\ first[b] \in Nat
        BY <1>5, <3>2
      <3>6. first[b] <= p /\ p < first[a + 1]
        BY <2>1, <3>1, <3>3
      <3> QED
        BY <3>4, <3>5, <3>6
    <2>2. PICK p \in 1..len : first[i - lo + 1] <= p /\ p < next(i - lo + 1) /\ g = groups[p]
      BY <1>8, <1>12
    <2>3. PICK q \in 1..len : first[j - lo + 1] <= q /\ q < next(j - lo + 1) /\ g = groups[q]
      BY <1>8, <1>12
    <2>4. p = q
      BY <1>3, <1>12, <2>2, <2>3 DEF Injective
    <2> QED
      BY <2>1, <2>2, <2>3, <2>4
  <1> QED
    BY <1>10, <1>11, <1>12 DEF SharedOut

\* FlattenSeq puts the sequences of a non-empty sequence one after the other.
LEMMA Flattens ==
  ASSUME NEW S, NEW n \in Nat \ {0}, NEW seqs \in [1..n -> Seq(S)]
  PROVE  /\ FlattenSeq(seqs) \in Seq(S)
         /\ \A x : x \in ToSet(FlattenSeq(seqs)) <=> \E k \in 1..n : x \in ToSet(seqs[k])
         /\ /\ \A k \in 1..n : Injective(seqs[k])
            /\ \A j, k \in 1..n : \A x \in ToSet(seqs[j]) : x \in ToSet(seqs[k]) => j = k
            => Injective(FlattenSeq(seqs))
  <1> DEFINE H == [kv \in Nat \X Seq(S) |-> IF kv[1] \in 1..n THEN kv[2] \o seqs[kv[1]] ELSE kv[2]]
             Body(f) == [i \in 1..n |-> IF i = 1 THEN seqs[i] ELSE f[i-1] \o seqs[i]]
             Flatten == CHOOSE f : f = Body(f)
  <1>1. seqs \in Seq(Seq(S)) /\ Len(seqs) = n /\ seqs[1] \in Seq(S)
    <2>1. 1 \in 1..n
      OBVIOUS
    <2>2. seqs \in Seq(Seq(S))
      BY SeqDef
    <2>3. Len(seqs) = n
      OBVIOUS
    <2> QED
      BY <2>1, <2>2, <2>3
  <1>2. H \in [Nat \X Seq(S) -> Seq(S)]
    <2>1. ASSUME NEW k \in Nat, NEW s \in Seq(S)
          PROVE  (IF k \in 1..n THEN s \o seqs[k] ELSE s) \in Seq(S)
      <3>1. CASE k \in 1..n
        BY <3>1, ConcatProperties
      <3> QED
        BY <3>1
    <2> QED
      BY <2>1
  <1>3. PICK f \in [1..n -> Seq(S)] : Recursive(f, n, seqs[1], H)
    <2> DEFINE base == seqs[1]
    <2>1. base \in Seq(S)
      BY <1>1
    <2> HIDE DEF H, base
    <2>2. HasRecursion(Seq(S), n, base, H)
      BY <1>2, <2>1, Recursion
    <2> QED
      BY <2>2 DEF HasRecursion, base
  <1>4. \A k \in 1..n : f[k] = IF k = 1 THEN seqs[k] ELSE f[k-1] \o seqs[k]
    <2> TAKE k \in 1..n
    <2>1. f[k] = IF k = 1 THEN seqs[1] ELSE H[<<k, f[k-1]>>]
      BY <1>3 DEF Recursive
    <2>2. CASE k # 1
      <3>1. k - 1 \in 1..n /\ k \in Nat
        BY <2>2
      <3>2. f[k - 1] \in Seq(S)
        BY <1>3, <3>1
      <3>3. H[<<k, f[k-1]>>] = f[k-1] \o seqs[k]
        BY <3>1, <3>2
      <3> QED
        BY <2>1, <2>2, <3>3
    <2> QED
      BY <2>1, <2>2
  <1>5. f = Body(f)
    BY <1>3, <1>4
  <1>6. Flatten = Body(Flatten)
    <2> HIDE DEF Body
    <2> QED
      BY <1>5
  <1>7. FlattenSeq(seqs) = Flatten[n]
    BY <1>1 DEF FlattenSeq
  <1>8. \A k \in 1..n : Flatten[k] = IF k = 1 THEN seqs[k] ELSE Flatten[k-1] \o seqs[k]
    <2> HIDE DEF Flatten
    <2> QED
      BY <1>6
  <1> HIDE DEF Flatten
  <1> DEFINE Prefix(k, s) ==
        /\ s \in Seq(S)
        /\ \A x : x \in ToSet(s) <=> \E j \in 1..k : x \in ToSet(seqs[j])
        /\ /\ \A j \in 1..n : Injective(seqs[j])
           /\ \A i, j \in 1..n : \A x \in ToSet(seqs[j]) : x \in ToSet(seqs[i]) => j = i
           => Injective(s)
             T == {m \in Nat : m + 1 \in 1..n => Prefix(m + 1, Flatten[m + 1])}
  <1>9. ASSUME NEW k \in 1..n, NEW s \in Seq(S), k > 1, Prefix(k - 1, s)
        PROVE  Prefix(k, s \o seqs[k])
    <2>1. PICK a \in Nat, b \in Nat : a = Len(s) /\ b = Len(seqs[k])
      OBVIOUS
    <2>2. /\ s \o seqs[k] \in Seq(S)
          /\ Len(s \o seqs[k]) = a + b
          /\ \A i \in 1..(a + b) : (s \o seqs[k])[i] = IF i <= a THEN s[i] ELSE seqs[k][i - a]
      BY <2>1, ConcatProperties
    <2>3. \A x : x \in ToSet(s \o seqs[k]) <=> x \in ToSet(s) \/ x \in ToSet(seqs[k])
      <3> TAKE x
      <3>1. /\ x \in ToSet(s) <=> \E i \in 1..a : s[i] = x
            /\ x \in ToSet(seqs[k]) <=> \E i \in 1..b : seqs[k][i] = x
            /\ x \in ToSet(s \o seqs[k]) <=> \E i \in 1..(a + b) : (s \o seqs[k])[i] = x
        <4>1. /\ \A y : y \in ToSet(s) <=> \E i \in 1..Len(s) : s[i] = y
              /\ \A y : y \in ToSet(seqs[k]) <=> \E i \in 1..Len(seqs[k]) : seqs[k][i] = y
          BY Elements
        <4>2. \A y : y \in ToSet(s \o seqs[k]) <=> \E i \in 1..Len(s \o seqs[k]) : (s \o seqs[k])[i] = y
          BY <2>2, Elements
        <4> QED
          BY <2>1, <2>2, <4>1, <4>2
      <3>2. ASSUME NEW i \in 1..a, s[i] = x
            PROVE  \E j \in 1..(a + b) : (s \o seqs[k])[j] = x
        <4>1. i \in 1..(a + b) /\ i <= a
          OBVIOUS
        <4> QED
          BY <2>2, <3>2, <4>1
      <3>3. ASSUME NEW i \in 1..b, seqs[k][i] = x
            PROVE  \E j \in 1..(a + b) : (s \o seqs[k])[j] = x
        <4>1. i + a \in 1..(a + b) /\ ~(i + a <= a) /\ (i + a) - a = i
          OBVIOUS
        <4> QED
          BY <2>2, <3>3, <4>1
      <3>4. ASSUME NEW i \in 1..(a + b), (s \o seqs[k])[i] = x
            PROVE  (\E j \in 1..a : s[j] = x) \/ (\E j \in 1..b : seqs[k][j] = x)
        <4>1. CASE i <= a
          BY <2>2, <3>4, <4>1
        <4>2. CASE ~(i <= a)
          <5>1. i - a \in 1..b
            BY <4>2
          <5> QED
            BY <2>2, <3>4, <4>2, <5>1
        <4> QED
          BY <4>1, <4>2
      <3> QED
        BY <3>1, <3>2, <3>3, <3>4
    <2>4. \A x : x \in ToSet(s \o seqs[k]) <=> \E j \in 1..k : x \in ToSet(seqs[j])
      <3>1. \A j : j \in 1..k <=> j \in 1..(k - 1) \/ j = k
        OBVIOUS
      <3> QED
        BY <1>9, <2>3, <3>1
    <2>5. ASSUME \A j \in 1..n : Injective(seqs[j]),
                 \A i, j \in 1..n : \A x \in ToSet(seqs[j]) : x \in ToSet(seqs[i]) => j = i
          PROVE  Injective(s \o seqs[k])
      <3>1. /\ \A i, j \in 1..a : s[i] = s[j] => i = j
            /\ \A i, j \in 1..b : seqs[k][i] = seqs[k][j] => i = j
        BY <1>9, <2>1, <2>5 DEF Injective
      <3>2. \A i \in 1..a, j \in 1..b : s[i] # seqs[k][j]
        <4> SUFFICES ASSUME NEW i \in 1..a, NEW j \in 1..b, s[i] = seqs[k][j]
                     PROVE  FALSE
          OBVIOUS
        <4>1. s[i] \in ToSet(s) /\ s[i] \in ToSet(seqs[k])
          <5>1. \A y : y \in ToSet(s) <=> \E e \in 1..Len(s) : s[e] = y
            BY Elements
          <5>2. \A y : y \in ToSet(seqs[k]) <=> \E e \in 1..Len(seqs[k]) : seqs[k][e] = y
            BY Elements
          <5> QED
            BY <2>1, <5>1, <5>2
        <4>2. PICK l \in 1..(k - 1) : s[i] \in ToSet(seqs[l])
          BY <1>9, <4>1
        <4>3. l \in 1..n /\ l # k
          OBVIOUS
        <4> QED
          BY <2>5, <4>1, <4>2, <4>3
      <3>3. ASSUME NEW i \in 1..(a + b), NEW j \in 1..(a + b), (s \o seqs[k])[i] = (s \o seqs[k])[j]
            PROVE  i = j
        <4>1. \A l \in 1..(a + b) : \/ l \in 1..a /\ l <= a
                                    \/ l - a \in 1..b /\ ~(l <= a)
          OBVIOUS
        <4>2. CASE i <= a /\ j <= a
          BY <2>2, <3>1, <3>3, <4>1, <4>2
        <4>3. CASE ~(i <= a) /\ ~(j <= a)
          <5>1. i - a = j - a
            BY <2>2, <3>1, <3>3, <4>1, <4>3
          <5> QED
            BY <5>1
        <4>4. CASE i <= a /\ ~(j <= a)
          BY <2>2, <3>2, <3>3, <4>1, <4>4
        <4>5. CASE ~(i <= a) /\ j <= a
          BY <2>2, <3>2, <3>3, <4>1, <4>5
        <4> QED
          BY <4>2, <4>3, <4>4, <4>5
      <3> QED
        BY <2>2, <3>3 DEF Injective
    <2> QED
      BY <2>2, <2>4, <2>5
  <1>10. Prefix(1, seqs[1])
    <2>1. 1 \in 1..n /\ \A j : j \in 1..1 <=> j = 1
      OBVIOUS
    <2> QED
      BY <1>1, <2>1
  <1>11. 0 \in T
    <2>1. 0 + 1 \in 1..n /\ 0 + 1 = 1
      OBVIOUS
    <2>2. Flatten[1] = seqs[1]
      BY <1>8, <2>1
    <2> HIDE DEF Prefix
    <2> QED
      BY <1>10, <2>1, <2>2
  <1>12. ASSUME NEW m \in T
         PROVE  m + 1 \in T
    <2>1. ASSUME (m + 1) + 1 \in 1..n
          PROVE  Prefix((m + 1) + 1, Flatten[(m + 1) + 1])
      <3>1. PICK k \in 1..n : k = (m + 1) + 1
        BY <2>1
      <3>2. m \in Nat /\ m + 1 \in 1..n /\ k > 1 /\ k # 1 /\ k - 1 = m + 1
        BY <3>1
      <3>3. Prefix(k - 1, Flatten[k - 1])
        <4> HIDE DEF Prefix
        <4> QED
          BY <3>2
      <3>4. Flatten[k] = Flatten[k - 1] \o seqs[k]
        BY <1>8, <3>2
      <3>5. Flatten[k - 1] \in Seq(S)
        BY <3>3
      <3>6. Prefix(k, Flatten[k - 1] \o seqs[k])
        <4> HIDE DEF Prefix
        <4> QED
          BY <1>9, <3>2, <3>3, <3>5
      <3> HIDE DEF Prefix
      <3> QED
        BY <3>1, <3>4, <3>6
    <2> HIDE DEF Prefix
    <2> QED
      BY <2>1
  <1>13. T = Nat
    <2> HIDE DEF T
    <2>1. T \subseteq Nat
      BY DEF T
    <2> QED
      BY <1>11, <1>12, <2>1, Induct
  <1>14. Prefix(n, Flatten[n])
    <2>1. n - 1 \in Nat /\ (n - 1) + 1 = n /\ n \in 1..n
      OBVIOUS
    <2>2. n - 1 \in T
      <3> HIDE DEF T
      <3> QED
        BY <1>13, <2>1
    <2> HIDE DEF Prefix
    <2> QED
      BY <2>1, <2>2
  <1> QED
    BY <1>7, <1>14

-----------------------------------------------------------------------------
(* The queues of requests.                                                 *)

\* Requests with groups that come into an instance, and the groups of the first message of a queue.
Ins == [action : {"Migrate_In"}, data : Seq(Groups) \ {<<>>}]
InOf(r) == IF r # <<>> /\ Head(r).action = "Migrate_In" THEN ToSet(Head(r).data) ELSE {}

\* A queue without, and with, a request that the manager awaits an answer to.
QNone(r) == r = <<>> \/ \E m \in Ins : r = <<m>>
QOne(r, a) == r = <<[action |-> a]>> \/ \E m \in Ins : r = <<m, [action |-> a]>>

Actions == {"Report", "Migrate_Out", "Finish"}

\* Queues of one and of two messages.
LEMMA Tuples ==
  \A x, y : /\ <<x>> # <<>> /\ <<x, y>> # <<>>
            /\ Head(<<x>>) = x /\ Head(<<x, y>>) = x /\ Tail(<<x>>) = <<>> /\ Tail(<<x, y>>) = <<y>>
            /\ Append(<<>>, x) = <<x>> /\ Append(<<x>>, y) = <<x, y>>
  <1> TAKE x, y
  <1>1. <<x>> # <<>> /\ <<x, y>> # <<>>
    OBVIOUS
  <1>2. Head(<<x>>) = x /\ Head(<<x, y>>) = x
    OBVIOUS
  <1>3. Tail(<<x>>) = <<>>
    OBVIOUS
  <1>4. Tail(<<x, y>>) = <<y>>
    OBVIOUS
  <1>5. Append(<<>>, x) = <<x>>
    OBVIOUS
  <1>6. Append(<<x>>, y) = <<x, y>>
    <2>1. <<x>> \in Seq({x, y}) /\ Len(<<x>>) = 1 /\ <<x>>[1] = x
      OBVIOUS
    <2>2. <<x, y>> \in Seq({x, y}) /\ Len(<<x, y>>) = 2 /\ <<x, y>>[1] = x /\ <<x, y>>[2] = y
      OBVIOUS
    <2>3. /\ Append(<<x>>, y) \in Seq({x, y}) /\ Len(Append(<<x>>, y)) = 2
          /\ Append(<<x>>, y)[1] = x /\ Append(<<x>>, y)[2] = y
      BY <2>1, AppendProperties
    <2>4. \A i \in 1..2 : i = 1 \/ i = 2
      OBVIOUS
    <2> QED
      BY <2>2, <2>3, <2>4, SeqEqual
  <1> QED
    BY <1>1, <1>2, <1>3, <1>4, <1>5, <1>6

\* The manager asks an instance that has no request to answer.
LEMMA Asking ==
  ASSUME NEW r, QNone(r), NEW a \in Actions
  PROVE  LET q == Append(r, [action |-> a])
         IN  QOne(q, a) /\ q # <<>> /\ InOf(q) = InOf(r) /\ (r = <<>> => q = <<[action |-> a]>>)
  <1>1. CASE r = <<>>
    BY <1>1, Tuples DEF QOne, InOf, Actions
  <1>2. ASSUME NEW m \in Ins, r = <<m>>
        PROVE  LET q == Append(r, [action |-> a])
               IN  QOne(q, a) /\ q # <<>> /\ InOf(q) = InOf(r) /\ (r = <<>> => q = <<[action |-> a]>>)
    BY <1>2, Tuples DEF QOne, InOf
  <1> QED
    BY <1>1, <1>2 DEF QNone

\* main_loop takes the groups that come in.
LEMMA TakesIn ==
  ASSUME NEW r, r # <<>>, QNone(r)
  PROVE  Head(r) \in Ins /\ Tail(r) = <<>> /\ InOf(r) = ToSet(Head(r).data)
  BY Tuples DEF QNone, InOf, Ins

\* main_loop takes the request that the manager awaits the answer to, or groups before it.
LEMMA TakesOne ==
  ASSUME NEW r, NEW a \in Actions, QOne(r, a)
  PROVE  /\ r # <<>>
         /\ \/ /\ Head(r) = [action |-> a] /\ Head(r).action = a
               /\ r = <<[action |-> a]>> /\ Tail(r) = <<>> /\ InOf(r) = {}
            \/ /\ Head(r) \in Ins /\ Tail(r) = <<[action |-> a]>> /\ InOf(r) = ToSet(Head(r).data)
  <1>1. CASE r = <<[action |-> a]>>
    BY <1>1, Tuples DEF InOf, Actions
  <1>2. ASSUME NEW m \in Ins, r = <<m, [action |-> a]>>
        PROVE  r # <<>> /\ Head(r) \in Ins /\ Tail(r) = <<[action |-> a]>> /\ InOf(r) = ToSet(Head(r).data)
    BY <1>2, Tuples DEF InOf, Ins
  <1> QED
    BY <1>1, <1>2 DEF QOne

-----------------------------------------------------------------------------
(* The invariant.                                                          *)

Types ==
  /\ completed \in [Groups -> Nat] /\ aborted \in [Groups -> Nat]
  /\ \A g \in Groups : completed[g] + aborted[g] <= GroupSize
  /\ outputs \in [Groups -> Nat]
  /\ rollout \in [Instances -> {"called", "wait", "handle", "notify", "offload", "ended", "failed"}]
  /\ pending \in [Instances -> SUBSET Groups] /\ returned \in [Instances -> SUBSET Groups]
  /\ putting \in [Instances -> SUBSET Groups]
  /\ running \in [Instances -> SUBSET Groups] /\ done \in [Instances -> SUBSET Groups]
  /\ kept \in [Instances -> Seq(Groups)]
  /\ exit \in [Instances -> BOOLEAN]
  /\ loop \in [Instances -> {"get", "migrate_out", "finish"}]
  /\ DOMAIN requests = Instances /\ DOMAIN responses = Instances
  /\ requests = [i \in Instances |-> requests[i]] /\ responses = [i \in Instances |-> responses[i]]

\* The instances that leave are the lowest that are left, and all of them after the last iteration.
Shape ==
  /\ at \in {"idle", "await_actor", "report", "migrate", "finish"}
  /\ offset \in 0..NumInstances /\ iter \in -1..(Minibatches - 1)
  /\ at \in {"idle", "await_actor", "report"} => leaving = {}
  /\ at \in {"migrate", "finish"} =>
       \E n \in 1..NumInstances : leaving = offset..(offset + n - 1) /\ offset + n <= NumInstances
  /\ at = "migrate" => NumInstances - 1 \in Alive \ leaving
  /\ at = "report" => offset < NumInstances
  /\ PreProcessing => PreProcess /\ offset = 0
  /\ LastIter /\ at = "finish" => leaving = Alive
  /\ at \in {"report", "migrate"} => ~LastIter

\* What the manager and an instance have said to each other.
Serving(i) == rollout[i] \notin {"offload", "ended"}
Gone(i) == rollout[i] = "ended" /\ loop[i] = "get" /\ requests[i] = <<>> /\ responses[i] = <<>>
Quiet(i) == Serving(i) /\ loop[i] = "get" /\ QNone(requests[i]) /\ responses[i] = <<>>
Reporting(i) ==
  /\ Serving(i) /\ loop[i] = "get"
  /\ \/ QOne(requests[i], "Report") /\ responses[i] = <<>>
     \/ requests[i] = <<>> /\ \E x : responses[i] = <<x>>
MovingOut(i) ==
  /\ Serving(i)
  /\ \/ requests[i] = <<[action |-> "Migrate_Out"]>> /\ loop[i] = "get" /\ responses[i] = <<>> /\ kept[i] = <<>>
     \/ requests[i] = <<>> /\ loop[i] = "migrate_out" /\ responses[i] = <<>>
     \/ requests[i] = <<>> /\ loop[i] = "get" /\ responses[i] = <<[action |-> "Migrate_Out", data |-> kept[i]]>>
Finishing(i) ==
  \/ Serving(i) /\ QOne(requests[i], "Finish") /\ loop[i] = "get" /\ responses[i] = <<>>
  \/ Serving(i) /\ requests[i] = <<>> /\ loop[i] = "finish" /\ responses[i] = <<>>
  \/ rollout[i] # "ended" /\ requests[i] = <<>> /\ loop[i] = "get" /\ responses[i] = <<>>
  \/ rollout[i] = "ended" /\ requests[i] = <<>> /\ loop[i] = "get" /\ responses[i] = <<[action |-> "Offloaded"]>>
Talk(i) ==
  /\ at = "idle" \/ i < offset => Gone(i)
  /\ at # "idle" /\ i >= offset =>
     /\ at = "await_actor" => Quiet(i)
     /\ at = "report" => Reporting(i)
     /\ at = "migrate" /\ i \in leaving => MovingOut(i)
     /\ at = "migrate" /\ i \notin leaving => Quiet(i) /\ requests[i] = <<>>
     /\ at = "finish" /\ i \in leaving => Finishing(i)
     /\ at = "finish" /\ i \notin leaving => Quiet(i)

\* What an instance has of its own.
EventGood(i) ==
  exit[i] => \/ running[i] # {} /\ rollout[i] \in {"notify", "called", "failed"}
             \/ /\ at = "finish" /\ i \in leaving /\ Serving(i)
                /\ requests[i] = <<>> /\ loop[i] = "get" /\ responses[i] = <<>>
Own(i) ==
  /\ Injective(kept[i])
  /\ kept[i] # <<>> => at \in {"migrate", "finish"} /\ i \in leaving
  /\ rollout[i] = "wait" => pending[i] # {} /\ pending[i] \subseteq running[i]
  /\ rollout[i] = "handle" => returned[i] # {} /\ returned[i] \subseteq running[i]
  /\ rollout[i] = "handle" => \A g \in returned[i] : Active(g) = 0
  /\ putting[i] # {} => rollout[i] = "handle" /\ putting[i] \subseteq returned[i]
  /\ \A g, h \in putting[i] : g = h
  /\ rollout[i] = "notify" /\ exit[i] /\ running[i] = {} => at = "finish" /\ i \in leaving
  /\ EventGood(i)
  /\ ~Serving(i) => running[i] = {} /\ kept[i] = <<>> /\ done[i] = {}

\* Only the groups of an instance that migrates out have aborted sequences.
Aborts ==
  \A g \in Groups : aborted[g] > 0 =>
     /\ outputs[g] = 0
     /\ \A i \in Instances : /\ g \in running[i] => loop[i] = "migrate_out"
                             /\ g \in Requests[i] => rollout[i] # "called"

\* A group is somewhere, and nowhere else, until it is put out; then it runs where its put is awaited.
Kinds == {"home", "here", "kept", "coming"}
Has(kind, i, g) ==
  \/ kind = "home" /\ rollout[i] \in {"called", "failed"} /\ g \in Requests[i]
  \/ kind = "here" /\ g \in running[i] \ putting[i]
  \/ kind = "kept" /\ at = "migrate" /\ i \in leaving /\ g \in ToSet(kept[i])
  \/ kind = "coming" /\ g \in InOf(requests[i])
Placed(g) ==
  /\ outputs[g] \in {0, 1}
  /\ outputs[g] = 0 <=> \E c \in Kinds, i \in Instances : Has(c, i, g)
  /\ \A c, d \in Kinds, i, j \in Instances : Has(c, i, g) /\ Has(d, j, g) => c = d /\ i = j
  /\ \A i \in Instances : g \in putting[i] => outputs[g] = 1 /\ \A j \in Instances : g \in running[j] => j = i

IInv ==
  /\ Types /\ Shape
  /\ \A i \in Instances : Talk(i) /\ Own(i)
  /\ Aborts
  /\ \A g \in Groups : Placed(g)

-----------------------------------------------------------------------------
\* What is assumed of the constants.
LEMMA Consts ==
  /\ NumInstances \in Nat \ {0} /\ GroupSize \in Nat \ {0} /\ Minibatches \in Nat \ {0} /\ IsFiniteSet(Groups)
  /\ \A i \in Instances : i \in Nat /\ i < NumInstances /\ Requests[i] \subseteq Groups /\ Requests[i] # {}
  /\ \A g \in Groups : \E i \in Instances : g \in Requests[i]
  /\ \A i, j \in Instances : \A g \in Requests[i] : g \in Requests[j] => i = j
  /\ PreProcess => Borrowed \in 1..(NumInstances - 1)
  <1>1. NumInstances \in Nat \ {0} /\ GroupSize \in Nat \ {0} /\ Minibatches \in Nat \ {0} /\ IsFiniteSet(Groups)
    BY RequestsAssumption
  <1>2. \A i \in Instances : i \in Nat /\ i < NumInstances
    BY <1>1 DEF Instances
  <1>3. \A i \in Instances : Requests[i] \subseteq Groups /\ Requests[i] # {}
    BY RequestsAssumption
  <1>4. \A g \in Groups : \E i \in Instances : g \in Requests[i]
    BY RequestsAssumption
  <1>5. \A i, j \in Instances : \A g \in Requests[i] : g \in Requests[j] => i = j
    BY RequestsAssumption
  <1>6. PreProcess => Borrowed \in 1..(NumInstances - 1)
    BY RequestsAssumption
  <1> QED
    BY <1>1, <1>2, <1>3, <1>4, <1>5, <1>6

\* What the state of main_loop and the first request say of the manager.
LEMMA Phases ==
  ASSUME Shape, NEW i \in Instances, Talk(i)
  PROVE  /\ loop[i] = "migrate_out" => /\ at = "migrate" /\ i \in leaving
                                       /\ requests[i] = <<>> /\ responses[i] = <<>> /\ Serving(i)
         /\ loop[i] = "finish" => /\ at = "finish" /\ i \in leaving
                                  /\ requests[i] = <<>> /\ responses[i] = <<>> /\ Serving(i)
         /\ requests[i] # <<>> =>
              /\ Serving(i) /\ responses[i] = <<>> /\ loop[i] = "get"
              /\ \/ at = "await_actor" /\ QNone(requests[i])
                 \/ at = "report" /\ QOne(requests[i], "Report")
                 \/ at = "migrate" /\ i \in leaving /\ requests[i] = <<[action |-> "Migrate_Out"]>> /\ kept[i] = <<>>
                 \/ at = "finish" /\ i \notin leaving /\ QNone(requests[i])
                 \/ at = "finish" /\ i \in leaving /\ QOne(requests[i], "Finish")
  <1>1. i \in Nat /\ offset \in Nat
    BY Consts DEF Shape
  <1>2. i < offset \/ i >= offset
    BY <1>1
  <1>3. CASE at = "idle" \/ i < offset
    BY <1>3 DEF Talk, Gone
  <1>4. CASE at # "idle" /\ i >= offset
    <2>1. CASE at = "await_actor"
      BY <1>4, <2>1 DEF Talk, Quiet
    <2>2. CASE at = "report"
      BY <1>4, <2>2 DEF Talk, Reporting
    <2>3. CASE at = "migrate" /\ i \in leaving
      BY <1>4, <2>3 DEF Talk, MovingOut
    <2>4. CASE at = "migrate" /\ i \notin leaving
      BY <1>4, <2>4 DEF Talk, Quiet
    <2>5. CASE at = "finish" /\ i \in leaving
      BY <1>4, <2>5 DEF Talk, Finishing, Serving
    <2>6. CASE at = "finish" /\ i \notin leaving
      BY <1>4, <2>6 DEF Talk, Quiet
    <2> QED
      BY <1>4, <2>1, <2>2, <2>3, <2>4, <2>5, <2>6 DEF Shape
  <1> QED
    BY <1>2, <1>3, <1>4

\* The first request of an instance.
LEMMA FirstRequest ==
  ASSUME Shape, NEW i \in Instances, Talk(i), requests[i] # <<>>
  PROVE  LET r == requests[i] IN
         \/ /\ Head(r).action = "Report" /\ at = "report" /\ Tail(r) = <<>> /\ InOf(r) = {}
         \/ /\ Head(r).action = "Migrate_Out" /\ at = "migrate" /\ i \in leaving /\ kept[i] = <<>>
            /\ Tail(r) = <<>> /\ InOf(r) = {}
         \/ /\ Head(r).action = "Finish" /\ at = "finish" /\ i \in leaving /\ Tail(r) = <<>> /\ InOf(r) = {}
         \/ /\ Head(r).action = "Migrate_In" /\ Head(r) \in Ins /\ InOf(r) = ToSet(Head(r).data)
            /\ \/ at = "await_actor" /\ Tail(r) = <<>>
               \/ at = "report" /\ Tail(r) = <<[action |-> "Report"]>>
               \/ at = "finish" /\ i \notin leaving /\ Tail(r) = <<>>
               \/ at = "finish" /\ i \in leaving /\ Tail(r) = <<[action |-> "Finish"]>>
  <1> DEFINE r == requests[i]
  <1>1. \A m \in Ins : m.action = "Migrate_In"
    BY DEF Ins
  <1>2. r # <<>>
    OBVIOUS
  <1> HIDE DEF r
  <1>3. CASE QNone(r)
    <2>1. Head(r) \in Ins /\ Tail(r) = <<>> /\ InOf(r) = ToSet(Head(r).data)
      BY <1>2, <1>3, TakesIn
    <2>2. \/ at = "await_actor"
          \/ at = "finish" /\ i \notin leaving
      <3>1. \A a \in Actions : QOne(r, a) => ~QNone(r)
        BY Tuples, <1>1 DEF QOne, QNone, Actions
      <3>2. r # <<[action |-> "Migrate_Out"]>>
        BY <1>1, <2>1, Tuples
      <3> QED
        BY <1>2, <1>3, <3>1, <3>2, Phases DEF Actions, r
    <2> QED
      BY <1>1, <2>1, <2>2 DEF r
  <1>4. CASE at = "report" /\ QOne(r, "Report")
    <2>1. "Report" \in Actions
      BY DEF Actions
    <2> QED
      BY <1>1, <1>4, <2>1, TakesOne DEF r
  <1>5. CASE at = "finish" /\ i \in leaving /\ QOne(r, "Finish")
    <2>1. "Finish" \in Actions
      BY DEF Actions
    <2> QED
      BY <1>1, <1>5, <2>1, TakesOne DEF r
  <1>6. CASE at = "migrate" /\ i \in leaving /\ r = <<[action |-> "Migrate_Out"]>> /\ kept[i] = <<>>
    BY <1>6, Tuples DEF InOf, r
  <1> QED
    BY <1>2, <1>3, <1>4, <1>5, <1>6, Phases DEF r

\* An action of one instance leaves the others alone.
OnlyAt(i) ==
  /\ UNCHANGED manager
  /\ \A j \in Instances \ {i} :
       /\ rollout'[j] = rollout[j] /\ pending'[j] = pending[j] /\ returned'[j] = returned[j]
       /\ putting'[j] = putting[j]
       /\ running'[j] = running[j] /\ kept'[j] = kept[j] /\ done'[j] = done[j] /\ exit'[j] = exit[j]
       /\ loop'[j] = loop[j] /\ requests'[j] = requests[j] /\ responses'[j] = responses[j]

\* An action of one instance keeps what is invariant of the others.
LEMMA Others ==
  ASSUME NEW i \in Instances, OnlyAt(i), NEW j \in Instances \ {i}, Talk(j), Own(j),
         rollout[j] = "handle" => \A g \in returned[j] : Active(g)' = 0
  PROVE  Talk(j)' /\ Own(j)'
  <1>1. /\ at' = at /\ offset' = offset /\ leaving' = leaving
        /\ rollout'[j] = rollout[j] /\ pending'[j] = pending[j] /\ returned'[j] = returned[j]
        /\ putting'[j] = putting[j]
        /\ running'[j] = running[j] /\ kept'[j] = kept[j] /\ done'[j] = done[j] /\ exit'[j] = exit[j]
        /\ loop'[j] = loop[j] /\ requests'[j] = requests[j] /\ responses'[j] = responses[j]
    BY DEF OnlyAt, manager
  <1>2. Talk(j)'
    BY <1>1 DEF Talk, Gone, Quiet, Reporting, MovingOut, Finishing, Serving
  <1>3. Own(j)'
    BY <1>1 DEF Own, EventGood, Serving
  <1> QED
    BY <1>2, <1>3

\* An action of an instance keeps what is invariant of the manager.
LEMMA ShapeStays ==
  ASSUME Shape, UNCHANGED manager
  PROVE  Shape'
  BY DEF Shape, manager, Alive, LastIter, PreProcessing

\* Nothing moves.
LEMMA Stays ==
  ASSUME \A g \in Groups : Placed(g), outputs' = outputs,
         \A i \in Instances : /\ running'[i] = running[i] /\ putting'[i] = putting[i]
                              /\ rollout'[i] \in {"called", "failed"} <=> rollout[i] \in {"called", "failed"}
                              /\ InOf(requests'[i]) = InOf(requests[i]),
         \A i \in Instances : \A g \in Groups :
            (at' = "migrate" /\ i \in leaving' /\ g \in ToSet(kept'[i])) <=> (at = "migrate" /\ i \in leaving /\ g \in ToSet(kept[i]))
  PROVE  \A g \in Groups : Placed(g)'
  <1> TAKE g \in Groups
  <1>1. \A c \in Kinds, i \in Instances : Has(c, i, g)' <=> Has(c, i, g)
    BY DEF Has
  <1> QED
    BY <1>1 DEF Placed

\* A group moves to one place, or it is put out.
LEMMA Moves ==
  ASSUME NEW g \in Groups, Placed(g), outputs'[g] = outputs[g], NEW d \in Kinds, NEW j \in Instances,
         \E c \in Kinds, i \in Instances : Has(c, i, g),
         \A c \in Kinds, i \in Instances : Has(c, i, g)' <=> c = d /\ i = j,
         \A i \in Instances : g \notin putting'[i]
  PROVE  Placed(g)'
  BY DEF Placed

\* A group that is put out runs where its put is awaited, and is nowhere else.
LEMMA IsOut ==
  ASSUME NEW g \in Groups, Placed(g), outputs'[g] = outputs[g] + 1,
         \E c \in Kinds, i \in Instances : Has(c, i, g),
         \A c \in Kinds, i \in Instances : ~Has(c, i, g)',
         \A i, j \in Instances : g \in putting'[i] /\ g \in running'[j] => j = i
  PROVE  Placed(g)'
  BY DEF Placed

\* A group that runs in an instance, and is not put out, is in no other, nor elsewhere.
LEMMA OnlyHere ==
  ASSUME NEW g \in Groups, Placed(g), NEW i \in Instances, g \in running[i], g \notin putting[i]
  PROVE  /\ outputs[g] = 0
         /\ \A j \in Instances : /\ g \notin putting[j]
                                 /\ g \in running[j] => j = i
                                 /\ ~(rollout[j] \in {"called", "failed"} /\ g \in Requests[j])
                                 /\ ~(at = "migrate" /\ j \in leaving /\ g \in ToSet(kept[j]))
                                 /\ g \notin InOf(requests[j])
  <1>1. Has("here", i, g) /\ "here" \in Kinds
    BY DEF Has, Kinds
  <1>2. outputs[g] = 0
    BY <1>1 DEF Placed
  <1>3. \A c \in Kinds, j \in Instances : Has(c, j, g) => c = "here" /\ j = i
    BY <1>1 DEF Placed
  <1>4. \A j \in Instances : g \notin putting[j]
    BY <1>2 DEF Placed
  <1>5. ASSUME NEW j \in Instances
        PROVE  /\ g \in running[j] => j = i
               /\ ~(rollout[j] \in {"called", "failed"} /\ g \in Requests[j])
               /\ ~(at = "migrate" /\ j \in leaving /\ g \in ToSet(kept[j]))
               /\ g \notin InOf(requests[j])
    <2>1. (Has("here", j, g) => j = i) /\ ~Has("home", j, g) /\ ~Has("kept", j, g) /\ ~Has("coming", j, g)
      BY <1>3 DEF Kinds
    <2> QED
      BY <1>4, <2>1 DEF Has
  <1> QED
    BY <1>2, <1>4, <1>5

\* Of a group that has running sequences no put is awaited.
LEMMA NotPutting ==
  ASSUME NEW i \in Instances, Own(i), NEW g \in Groups, Active(g) # 0
  PROVE  g \notin putting[i]
  BY DEF Own

-----------------------------------------------------------------------------
(* The engine.                                                             *)

LEMMA GenerationKeeps ==
  ASSUME IInv, NEW i \in Instances, NEW g \in Groups, SequenceCompletes(i, g) \/ SequenceAborts(i, g)
  PROVE  IInv'
  <1>1. Types /\ Shape /\ Aborts /\ (\A j \in Instances : Talk(j) /\ Own(j)) /\ \A h \in Groups : Placed(h)
    BY DEF IInv
  <1>2. /\ g \in running[i] /\ Active(g) > 0
        /\ UNCHANGED <<outputs, coroutine, status, loop, requests, responses, manager>>
    BY DEF SequenceCompletes, SequenceAborts
  <1>3. /\ completed[g] \in Nat /\ aborted[g] \in Nat /\ GroupSize \in Nat
        /\ completed[g] + aborted[g] + 1 <= GroupSize
    BY <1>1, <1>2, Consts DEF Types, Active
  <1>4. /\ completed' \in [Groups -> Nat] /\ aborted' \in [Groups -> Nat]
        /\ completed'[g] + aborted'[g] = completed[g] + aborted[g] + 1
        /\ \A h \in Groups \ {g} : completed'[h] = completed[h] /\ aborted'[h] = aborted[h]
    <2>1. CASE SequenceCompletes(i, g)
      BY <1>1, <1>3, <2>1 DEF SequenceCompletes, Types
    <2>2. CASE SequenceAborts(i, g)
      BY <1>1, <1>3, <2>2 DEF SequenceAborts, Types
    <2> QED
      BY <2>1, <2>2
  <1>5. Types'
    <2>1. \A h \in Groups : completed'[h] + aborted'[h] <= GroupSize
      BY <1>1, <1>3, <1>4 DEF Types
    <2> QED
      BY <1>1, <1>2, <1>4, <2>1 DEF Types, coroutine, status
  <1>6. Shape'
    BY <1>1, <1>2, ShapeStays
  <1>7. \A j \in Instances : Talk(j)' /\ Own(j)'
    <2> TAKE j \in Instances
    <2>1. rollout[j] = "handle" => \A h \in returned[j] : h # g /\ h \in Groups
      <3>1. rollout[j] = "handle" => \A h \in returned[j] : Active(h) = 0 /\ h \in running[j]
        BY <1>1 DEF Own
      <3> QED
        BY <1>1, <1>2, <3>1 DEF Types
    <2>2. rollout[j] = "handle" => \A h \in returned[j] : Active(h)' = 0
      <3>1. rollout[j] = "handle" => \A h \in returned[j] : Active(h) = 0
        BY <1>1 DEF Own
      <3> QED
        BY <1>4, <2>1, <3>1 DEF Active
    <2>3. Talk(j) /\ Own(j)
      BY <1>1
    <2>4. Talk(j)'
      BY <1>2, <2>3 DEF Talk, Gone, Quiet, Reporting, MovingOut, Finishing, Serving, manager, coroutine, status
    <2>5. Own(j)'
      BY <1>2, <2>2, <2>3 DEF Own, EventGood, Serving, manager, coroutine, status
    <2> QED
      BY <2>4, <2>5
  <1>8. Aborts'
    <2> SUFFICES ASSUME NEW h \in Groups, aborted'[h] > 0
                 PROVE  /\ outputs[h] = 0
                        /\ \A j \in Instances : /\ h \in running[j] => loop[j] = "migrate_out"
                                                /\ h \in Requests[j] => rollout[j] # "called"
      BY <1>2 DEF Aborts, coroutine, status
    <2>1. CASE h = g /\ SequenceAborts(i, g)
      <3>1. loop[i] = "migrate_out"
        BY <2>1 DEF SequenceAborts
      <3>2. Active(g) # 0
        BY <1>1, <1>2, <1>3 DEF Active
      <3>3. g \notin putting[i]
        BY <1>1, <3>2, NotPutting
      <3> QED
        BY <1>1, <1>2, <2>1, <3>1, <3>3, OnlyHere
    <2>2. CASE h # g \/ SequenceCompletes(i, g)
      <3>1. aborted'[h] = aborted[h]
        BY <1>4, <2>2 DEF SequenceCompletes
      <3> QED
        BY <1>1, <3>1 DEF Aborts
    <2> QED
      BY <2>1, <2>2
  <1>9. \A h \in Groups : Placed(h)'
    BY <1>1, <1>2, Stays DEF coroutine, status, manager
  <1> QED
    BY <1>5, <1>6, <1>7, <1>8, <1>9 DEF IInv

\* rollout().
LEMMA BeginKeeps ==
  ASSUME IInv, NEW i \in Instances, Begin(i)
  PROVE  IInv'
  <1>1. Types /\ Shape /\ Aborts /\ (\A j \in Instances : Talk(j) /\ Own(j)) /\ \A h \in Groups : Placed(h)
    BY DEF IInv
  <1>2. /\ rollout[i] = "called" /\ rollout'[i] \in {"failed", "wait"}
        /\ \A j \in Instances \ {i} : /\ rollout'[j] = rollout[j] /\ running'[j] = running[j]
                                      /\ pending'[j] = pending[j]
        /\ UNCHANGED <<groupVars, outputs, returned, putting, kept, done, exit, loop, requests, responses, manager>>
        /\ rollout'[i] = "failed" => pending'[i] = pending[i] /\ running'[i] = running[i]
        /\ rollout'[i] = "wait" => /\ running[i] = {} /\ kept[i] = <<>>
                                   /\ pending'[i] = Requests[i] /\ running'[i] = Requests[i]
    BY <1>1 DEF Begin, Types, Residual
  <1>3. OnlyAt(i)
    BY <1>2 DEF OnlyAt
  <1>4. Types'
    <2>1. Requests[i] \in SUBSET Groups
      BY Consts
    <2>2. /\ rollout' \in [Instances -> {"called", "wait", "handle", "notify", "offload", "ended", "failed"}]
          /\ pending' \in [Instances -> SUBSET Groups] /\ running' \in [Instances -> SUBSET Groups]
      BY <1>1, <2>1 DEF Begin, Types
    <2> QED
      BY <1>1, <1>2, <2>2 DEF Types, groupVars
  <1>5. Shape'
    BY <1>1, <1>2, ShapeStays
  <1>6. \A j \in Instances \ {i} : Talk(j)' /\ Own(j)'
    <2> TAKE j \in Instances \ {i}
    <2>1. rollout[j] = "handle" => \A g \in returned[j] : Active(g)' = 0
      BY <1>1, <1>2 DEF Own, Active, groupVars
    <2> QED
      BY <1>1, <1>3, <2>1, Others
  <1>7. Talk(i)'
    <2>1. Talk(i) /\ Serving(i) /\ Serving(i)' /\ rollout[i] # "ended" /\ rollout'[i] # "ended"
      BY <1>1, <1>2 DEF Serving
    <2> QED
      BY <1>2, <2>1 DEF Talk, Gone, Quiet, Reporting, MovingOut, Finishing, manager
  <1>8. Own(i)'
    <2>1. Own(i) /\ Requests[i] # {}
      BY <1>1, Consts
    <2>2. EventGood(i)'
      BY <1>2, <2>1 DEF Own, EventGood, Serving, manager
    <2> QED
      BY <1>2, <2>1, <2>2 DEF Own, Serving, manager
  <1>9. Aborts'
    <2> SUFFICES ASSUME NEW h \in Groups, aborted[h] > 0, NEW j \in Instances
                 PROVE  /\ outputs[h] = 0
                        /\ h \in running'[j] => loop[j] = "migrate_out"
                        /\ h \in Requests[j] => rollout'[j] # "called"
      BY <1>2 DEF Aborts, groupVars
    <2>1. /\ outputs[h] = 0
          /\ h \in running[j] => loop[j] = "migrate_out"
          /\ h \in Requests[j] => rollout[j] # "called"
      BY <1>1 DEF Aborts
    <2> QED
      BY <1>2, <2>1
  <1>10. \A h \in Groups : Placed(h)'
    <2>1. CASE rollout'[i] = "failed"
      BY <1>1, <1>2, <2>1, Stays DEF manager
    <2>2. CASE rollout'[i] = "wait"
      <3> TAKE h \in Groups
      <3>1. /\ \A c \in Kinds, j \in Instances \ {i} : Has(c, j, h)' <=> Has(c, j, h)
            /\ ~Has("home", i, h)'
            /\ Has("here", i, h)' <=> h \in Requests[i]
            /\ Has("home", i, h) <=> h \in Requests[i]
            /\ ~Has("here", i, h)
            /\ Has("kept", i, h)' <=> Has("kept", i, h)
            /\ Has("coming", i, h)' <=> Has("coming", i, h)
        <4>1. putting[i] = {}
          BY <1>1, <1>2 DEF Own
        <4> QED
          BY <1>2, <2>2, <4>1 DEF Has, manager
      <3>2. CASE h \in Requests[i]
        <4>1. \A c \in Kinds, j \in Instances : Has(c, j, h) => c = "home" /\ j = i
          BY <1>1, <3>1, <3>2 DEF Placed, Kinds
        <4>2. \A c \in Kinds, j \in Instances : Has(c, j, h)' <=> c = "here" /\ j = i
          BY <3>1, <3>2, <4>1 DEF Kinds
        <4>3. \E c \in Kinds, j \in Instances : Has(c, j, h)
          BY <3>1, <3>2 DEF Kinds
        <4>4. "here" \in Kinds /\ outputs'[h] = outputs[h]
          BY <1>2 DEF Kinds
        <4>5. \A j \in Instances : h \notin putting'[j]
          BY <1>1, <1>2, <4>3 DEF Placed
        <4> QED
          BY <1>1, <4>2, <4>3, <4>4, <4>5, Moves
      <3>3. CASE h \notin Requests[i]
        <4>1. \A c \in Kinds, j \in Instances : Has(c, j, h)' <=> Has(c, j, h)
          BY <3>1, <3>3 DEF Kinds
        <4>2. \A j \in Instances : h \in running'[j] <=> h \in running[j]
          BY <1>1, <1>2, <2>2, <3>3
        <4> QED
          BY <1>1, <1>2, <4>1, <4>2 DEF Placed
      <3> QED
        BY <3>2, <3>3
    <2> QED
      BY <1>2, <2>1, <2>2
  <1> QED
    BY <1>4, <1>5, <1>6, <1>7, <1>8, <1>9, <1>10 DEF IInv

\* asyncio.wait returns.
LEMMA WakeKeeps ==
  ASSUME IInv, NEW i \in Instances, Wake(i)
  PROVE  IInv'
  <1>1. Types /\ Shape /\ Aborts /\ (\A j \in Instances : Talk(j) /\ Own(j)) /\ \A h \in Groups : Placed(h)
    BY DEF IInv
  <1>2. /\ rollout[i] = "wait" /\ rollout'[i] = "handle"
        /\ returned'[i] # {} /\ returned'[i] \subseteq pending[i] /\ \A g \in returned'[i] : Active(g) = 0
        /\ \A j \in Instances \ {i} : rollout'[j] = rollout[j] /\ returned'[j] = returned[j]
        /\ UNCHANGED <<groupVars, outputs, pending, putting, status, loop, requests, responses, manager>>
    BY <1>1 DEF Wake, Types
  <1>3. OnlyAt(i)
    BY <1>2 DEF OnlyAt, status
  <1>4. Types'
    <2>1. {g \in pending[i] : Active(g) = 0} \in SUBSET Groups
      BY <1>1 DEF Types
    <2>2. /\ rollout' \in [Instances -> {"called", "wait", "handle", "notify", "offload", "ended", "failed"}]
          /\ returned' \in [Instances -> SUBSET Groups]
      BY <1>1, <2>1 DEF Wake, Types
    <2> QED
      BY <1>1, <1>2, <2>2 DEF Types, groupVars, status
  <1>5. Shape'
    BY <1>1, <1>2, ShapeStays
  <1>6. \A j \in Instances \ {i} : Talk(j)' /\ Own(j)'
    <2> TAKE j \in Instances \ {i}
    <2>1. rollout[j] = "handle" => \A g \in returned[j] : Active(g)' = 0
      BY <1>1, <1>2 DEF Own, Active, groupVars
    <2> QED
      BY <1>1, <1>3, <2>1, Others
  <1>7. Talk(i)'
    <2>1. Talk(i) /\ Serving(i) /\ Serving(i)' /\ rollout[i] # "ended" /\ rollout'[i] # "ended"
      BY <1>1, <1>2 DEF Serving
    <2> QED
      BY <1>2, <2>1 DEF Talk, Gone, Quiet, Reporting, MovingOut, Finishing, manager, status
  <1>8. Own(i)'
    <2>1. Own(i)
      BY <1>1
    <2>2. EventGood(i)'
      BY <1>2, <2>1 DEF Own, EventGood, Serving, manager, status
    <2>3. \A g \in returned'[i] : Active(g)' = 0
      BY <1>2 DEF Active, groupVars
    <2> QED
      BY <1>2, <2>1, <2>2, <2>3 DEF Own, Serving, manager, status
  <1>9. Aborts'
    <2>1. \A j \in Instances : rollout'[j] = "called" => rollout[j] = "called"
      BY <1>2
    <2> QED
      BY <1>1, <1>2, <2>1 DEF Aborts, groupVars, status
  <1>10. \A h \in Groups : Placed(h)'
    <2>1. \A j \in Instances : rollout'[j] \in {"called", "failed"} <=> rollout[j] \in {"called", "failed"}
      BY <1>2
    <2> QED
      BY <1>1, <1>2, <2>1, Stays DEF manager, status
  <1> QED
    BY <1>4, <1>5, <1>6, <1>7, <1>8, <1>9, <1>10 DEF IInv

\* wait_notification returns.
LEMMA NotifiedKeeps ==
  ASSUME IInv, NEW i \in Instances, Notified(i)
  PROVE  IInv'
  <1>1. Types /\ Shape /\ Aborts /\ (\A j \in Instances : Talk(j) /\ Own(j)) /\ \A h \in Groups : Placed(h)
    BY DEF IInv
  <1>2. /\ rollout[i] = "notify" /\ exit[i] /\ ~exit'[i]
        /\ \/ rollout'[i] = "wait" /\ running[i] # {} /\ pending'[i] = running[i] /\ kept'[i] = kept[i]
           \/ rollout'[i] = "offload" /\ running[i] = {} /\ kept'[i] = <<>> /\ done'[i] = {}
        /\ \A j \in Instances \ {i} : /\ rollout'[j] = rollout[j] /\ pending'[j] = pending[j] /\ exit'[j] = exit[j]
                                      /\ kept'[j] = kept[j] /\ done'[j] = done[j]
        /\ UNCHANGED <<groupVars, outputs, returned, putting, running, loop, requests, responses, manager>>
    BY <1>1 DEF Notified, Types, Clear
  <1>3. OnlyAt(i)
    BY <1>2 DEF OnlyAt
  <1>4. Types'
    <2>1. /\ rollout' \in [Instances -> {"called", "wait", "handle", "notify", "offload", "ended", "failed"}]
          /\ pending' \in [Instances -> SUBSET Groups] /\ done' \in [Instances -> SUBSET Groups]
      <3>1. running[i] \in SUBSET Groups /\ {} \in SUBSET Groups
        BY <1>1 DEF Types
      <3>2. rollout' \in [Instances -> {"called", "wait", "handle", "notify", "offload", "ended", "failed"}]
        <4>1. /\ rollout \in [Instances -> {"called", "wait", "handle", "notify", "offload", "ended", "failed"}]
              /\ \/ rollout' = [rollout EXCEPT ![i] = "wait"]
                 \/ rollout' = [rollout EXCEPT ![i] = "offload"]
          BY <1>1 DEF Notified, Types
        <4> QED
          BY <4>1
      <3>3. pending' \in [Instances -> SUBSET Groups]
        BY <1>1, <3>1 DEF Notified, Types
      <3>4. done' \in [Instances -> SUBSET Groups]
        BY <1>1, <3>1 DEF Notified, Types, Clear
      <3> QED
        BY <3>2, <3>3, <3>4
    <2>2. exit' \in [Instances -> BOOLEAN]
      BY <1>1 DEF Notified, Types
    <2>3. kept' \in [Instances -> Seq(Groups)]
      <3>1. <<>> \in Seq(Groups) /\ kept \in [Instances -> Seq(Groups)]
        BY <1>1 DEF Types
      <3>2. kept' = kept \/ kept' = [kept EXCEPT ![i] = <<>>]
        BY <1>1 DEF Notified, Clear
      <3> QED
        BY <3>1, <3>2
    <2> QED
      BY <1>1, <1>2, <2>1, <2>2, <2>3 DEF Types, groupVars
  <1>5. Shape'
    BY <1>1, <1>2, ShapeStays
  <1>6. \A j \in Instances \ {i} : Talk(j)' /\ Own(j)'
    <2> TAKE j \in Instances \ {i}
    <2>1. rollout[j] = "handle" => \A g \in returned[j] : Active(g)' = 0
      BY <1>1, <1>2 DEF Own, Active, groupVars
    <2> QED
      BY <1>1, <1>3, <2>1, Others
  <1>7. Talk(i) /\ Own(i)
    BY <1>1
  <1>8. ASSUME rollout'[i] = "wait"
        PROVE  Talk(i)' /\ Own(i)' /\ \A h \in Groups : Placed(h)'
    <2>1. Talk(i)'
      <3>1. Serving(i) /\ Serving(i)' /\ rollout[i] # "ended" /\ rollout'[i] # "ended" /\ kept'[i] = kept[i]
        BY <1>2, <1>8 DEF Serving
      <3> QED
        BY <1>2, <1>7, <3>1 DEF Talk, Gone, Quiet, Reporting, MovingOut, Finishing, manager
    <2>2. Own(i)'
      BY <1>2, <1>7, <1>8 DEF Own, EventGood, Serving, manager
    <2>3. \A h \in Groups : Placed(h)'
      <3>1. \A j \in Instances : /\ rollout'[j] \in {"called", "failed"} <=> rollout[j] \in {"called", "failed"}
                                 /\ kept'[j] = kept[j]
        BY <1>2, <1>8
      <3> QED
        BY <1>1, <1>2, <3>1, Stays DEF manager
    <2> QED
      BY <2>1, <2>2, <2>3
  <1>9. ASSUME rollout'[i] = "offload"
        PROVE  Talk(i)' /\ Own(i)' /\ \A h \in Groups : Placed(h)'
    <2>1. at = "finish" /\ i \in leaving /\ running[i] = {} /\ requests[i] = <<>> /\ loop[i] = "get" /\ responses[i] = <<>>
      BY <1>2, <1>7, <1>9 DEF Own, EventGood
    <2>2. Talk(i)'
      <3>1. i >= offset /\ ~(i < offset)
        <4>1. i \in Nat /\ offset \in Nat /\ ~(i < offset)
          BY <1>1, <1>2, <1>7, Consts DEF Talk, Gone, Shape
        <4> QED
          BY <4>1
      <3>2. Finishing(i)'
        BY <1>2, <1>9, <2>1 DEF Finishing
      <3> QED
        BY <1>2, <2>1, <3>1, <3>2 DEF Talk, manager
    <2>3. Own(i)'
      <3>1. Injective(<<>>)
        BY DEF Injective
      <3>2. putting'[i] = {}
        BY <1>2, <1>7 DEF Own
      <3> QED
        BY <1>2, <1>9, <2>1, <3>1, <3>2 DEF Own, EventGood, Serving, manager
    <2>4. \A h \in Groups : Placed(h)'
      <3>1. at' = "finish" /\ at # "migrate"
        BY <1>2, <2>1 DEF manager
      <3>2. \A j \in Instances : rollout'[j] \in {"called", "failed"} <=> rollout[j] \in {"called", "failed"}
        BY <1>2, <1>9
      <3> QED
        BY <1>1, <1>2, <2>1, <3>1, <3>2, Stays
    <2> QED
      BY <2>2, <2>3, <2>4
  <1>10. Aborts'
    <2>1. \A j \in Instances : rollout'[j] = "called" => rollout[j] = "called"
      BY <1>2
    <2> QED
      BY <1>1, <1>2, <2>1 DEF Aborts, groupVars
  <1> QED
    BY <1>2, <1>4, <1>5, <1>6, <1>8, <1>9, <1>10 DEF IInv

\* An instance gives up its GPUs.
LEMMA OffloadKeeps ==
  ASSUME IInv, NEW i \in Instances, Offload(i)
  PROVE  IInv'
  <1>1. Types /\ Shape /\ Aborts /\ (\A j \in Instances : Talk(j) /\ Own(j)) /\ \A h \in Groups : Placed(h)
    BY DEF IInv
  <1>2. /\ rollout[i] = "offload" /\ rollout'[i] = "ended"
        /\ \A j \in Instances \ {i} : rollout'[j] = rollout[j] /\ responses'[j] = responses[j]
        /\ responses'[i] = Append(responses[i], [action |-> "Offloaded"])
        /\ UNCHANGED <<groupVars, outputs, pending, returned, putting, status, loop, requests, manager>>
    BY <1>1 DEF Offload, Types
  <1>3. OnlyAt(i)
    BY <1>2 DEF OnlyAt, status
  <1>4. Types'
    <2>1. /\ rollout' \in [Instances -> {"called", "wait", "handle", "notify", "offload", "ended", "failed"}]
          /\ DOMAIN responses' = Instances /\ responses' = [j \in Instances |-> responses'[j]]
      BY <1>1 DEF Offload, Types
    <2> QED
      BY <1>1, <1>2, <2>1 DEF Types, groupVars, status
  <1>5. Shape'
    BY <1>1, <1>2, ShapeStays
  <1>6. \A j \in Instances \ {i} : Talk(j)' /\ Own(j)'
    <2> TAKE j \in Instances \ {i}
    <2>1. rollout[j] = "handle" => \A g \in returned[j] : Active(g)' = 0
      BY <1>1, <1>2 DEF Own, Active, groupVars
    <2> QED
      BY <1>1, <1>3, <2>1, Others
  <1>7. Talk(i) /\ Own(i)
    BY <1>1
  <1>8. at = "finish" /\ i \in leaving /\ i >= offset /\ ~(i < offset)
        /\ requests[i] = <<>> /\ loop[i] = "get" /\ responses[i] = <<>>
    <2>1. ~Serving(i) /\ rollout[i] # "ended"
      BY <1>2 DEF Serving
    <2>2. i \in Nat /\ offset \in Nat
      BY <1>1, Consts DEF Shape
    <2>3. ~(at = "idle" \/ i < offset)
      BY <1>7, <2>1 DEF Talk, Gone
    <2>4. i >= offset
      BY <2>2, <2>3
    <2> QED
      BY <1>1, <1>7, <2>1, <2>3, <2>4 DEF Talk, Quiet, Reporting, MovingOut, Finishing, Shape
  <1>9. Talk(i)'
    <2>1. responses'[i] = <<[action |-> "Offloaded"]>>
      BY <1>2, <1>8, Tuples
    <2>2. Finishing(i)'
      BY <1>2, <1>8, <2>1 DEF Finishing
    <2> QED
      BY <1>2, <1>8, <2>2 DEF Talk, manager
  <1>10. Own(i)'
    BY <1>2, <1>7 DEF Own, EventGood, Serving, manager, status
  <1>11. Aborts'
    <2>1. \A j \in Instances : rollout'[j] = "called" => rollout[j] = "called"
      BY <1>2
    <2> QED
      BY <1>1, <1>2, <2>1 DEF Aborts, groupVars, status
  <1>12. \A h \in Groups : Placed(h)'
    <2>1. \A j \in Instances : rollout'[j] \in {"called", "failed"} <=> rollout[j] \in {"called", "failed"}
      BY <1>2
    <2> QED
      BY <1>1, <1>2, <2>1, Stays DEF manager, status
  <1> QED
    BY <1>4, <1>5, <1>6, <1>9, <1>10, <1>11, <1>12 DEF IInv

\* A group that is kept is kept once.
LEMMA AppendsNew ==
  ASSUME NEW s \in Seq(Groups), Injective(s), NEW g \in Groups, g \notin ToSet(s)
  PROVE  /\ Append(s, g) \in Seq(Groups) /\ Append(s, g) # <<>> /\ Injective(Append(s, g))
         /\ \A h : h \in ToSet(Append(s, g)) <=> h \in ToSet(s) \/ h = g
  <1>1. PICK n \in Nat : n = Len(s)
    OBVIOUS
  <1>2. /\ Append(s, g) \in Seq(Groups) /\ Append(s, g) # <<>> /\ Len(Append(s, g)) = n + 1
        /\ \A i \in 1..n : Append(s, g)[i] = s[i]
        /\ Append(s, g)[n + 1] = g
    BY <1>1, AppendProperties
  <1>3. \A x : x \in ToSet(s) <=> \E i \in 1..n : s[i] = x
    <2>1. \A x : x \in ToSet(s) <=> \E i \in 1..Len(s) : s[i] = x
      BY Elements
    <2> QED
      BY <1>1, <2>1
  <1>4. \A x : x \in ToSet(Append(s, g)) <=> \E i \in 1..(n + 1) : Append(s, g)[i] = x
    <2>1. \A x : x \in ToSet(Append(s, g)) <=> \E i \in 1..Len(Append(s, g)) : Append(s, g)[i] = x
      BY <1>2, Elements
    <2> QED
      BY <1>2, <2>1
  <1>5. \A i : i \in 1..(n + 1) <=> i \in 1..n \/ i = n + 1
    OBVIOUS
  <1>6. Injective(Append(s, g))
    <2> SUFFICES ASSUME NEW i \in 1..(n + 1), NEW j \in 1..(n + 1), Append(s, g)[i] = Append(s, g)[j]
                 PROVE  i = j
      BY <1>2 DEF Injective
    <2>1. \A k \in 1..n : s[k] # g
      BY <1>3
    <2>2. \A k, l \in 1..n : s[k] = s[l] => k = l
      BY <1>1 DEF Injective
    <2> QED
      BY <1>2, <1>5, <2>1, <2>2
  <1>7. \A h : h \in ToSet(Append(s, g)) <=> h \in ToSet(s) \/ h = g
    BY <1>2, <1>3, <1>4, <1>5
  <1> QED
    BY <1>2, <1>6, <1>7

\* A group that is put out is put out for the first time, and stays where it runs.
LEMMA PutOutKeeps ==
  ASSUME IInv, NEW i \in Instances, NEW g \in Groups, PutOut(i, g)
  PROVE  IInv' /\ outputs[g] = 0 /\ outputs' = [outputs EXCEPT ![g] = 1]
  <1>1. Types /\ Shape /\ Aborts /\ (\A j \in Instances : Talk(j) /\ Own(j)) /\ \A h \in Groups : Placed(h)
    BY DEF IInv
  <1>2. /\ rollout[i] = "handle" /\ putting[i] = {} /\ g \in returned[i] /\ g \in running[i]
        /\ completed[g] = GroupSize
        /\ putting'[i] = {g} /\ \A j \in Instances \ {i} : putting'[j] = putting[j]
        /\ UNCHANGED <<groupVars, rollout, pending, returned, status, loop, requests, responses, manager>>
    BY <1>1 DEF PutOut, Own, Types
  <1>3. /\ outputs[g] = 0
        /\ \A j \in Instances : /\ g \notin putting[j]
                                /\ g \in running[j] => j = i
                                /\ ~(rollout[j] \in {"called", "failed"} /\ g \in Requests[j])
                                /\ ~(at = "migrate" /\ j \in leaving /\ g \in ToSet(kept[j]))
                                /\ g \notin InOf(requests[j])
    BY <1>1, <1>2, OnlyHere
  <1>4. outputs' = [outputs EXCEPT ![g] = 1] /\ outputs'[g] = 1 /\ \A h \in Groups \ {g} : outputs'[h] = outputs[h]
    BY <1>1, <1>3 DEF PutOut, Types
  <1>5. OnlyAt(i)
    BY <1>2 DEF OnlyAt, status
  <1>6. Types'
    <2>1. {g} \in SUBSET Groups /\ 1 \in Nat
      OBVIOUS
    <2>2. putting' \in [Instances -> SUBSET Groups]
      BY <1>1, <2>1 DEF Types, PutOut
    <2>3. outputs' \in [Groups -> Nat]
      BY <1>1, <1>4, <2>1 DEF Types
    <2> QED
      BY <1>1, <1>2, <2>2, <2>3 DEF Types, groupVars, status
  <1>7. Shape'
    BY <1>1, <1>2, ShapeStays
  <1>8. \A j \in Instances \ {i} : Talk(j)' /\ Own(j)'
    <2> TAKE j \in Instances \ {i}
    <2>1. rollout[j] = "handle" => \A h \in returned[j] : Active(h)' = 0
      BY <1>1, <1>2 DEF Own, Active, groupVars
    <2> QED
      BY <1>1, <1>5, <2>1, Others
  <1>9. Talk(i) /\ Own(i)
    BY <1>1
  <1>10. Talk(i)'
    BY <1>2, <1>9 DEF Talk, Gone, Quiet, Reporting, MovingOut, Finishing, Serving, manager, status
  <1>11. Own(i)'
    <2>1. \A h \in returned[i] : Active(h)' = 0
      BY <1>2, <1>9 DEF Own, Active, groupVars
    <2> QED
      BY <1>2, <1>9, <2>1 DEF Own, EventGood, Serving, manager, status
  <1>12. Aborts'
    <2> SUFFICES ASSUME NEW h \in Groups, aborted[h] > 0
                 PROVE  /\ outputs'[h] = 0
                        /\ \A j \in Instances : /\ h \in running[j] => loop[j] = "migrate_out"
                                                /\ h \in Requests[j] => rollout[j] # "called"
      BY <1>2 DEF Aborts, groupVars, status
    <2>1. h # g
      <3>1. completed[g] + aborted[g] <= GroupSize /\ completed[g] \in Nat /\ aborted[g] \in Nat
        BY <1>1 DEF Types
      <3> QED
        BY <1>2, <3>1
    <2> QED
      BY <1>1, <1>4, <2>1 DEF Aborts
  <1>13. ASSUME NEW h \in Groups
         PROVE  Placed(h)'
    <2>1. \A c \in Kinds, j \in Instances : Has(c, j, h)' <=> Has(c, j, h) /\ (h = g => j # i \/ c # "here")
      BY <1>2 DEF Has, Kinds, manager, status
    <2>2. CASE h # g
      <3>1. \A c \in Kinds, j \in Instances : Has(c, j, h)' <=> Has(c, j, h)
        BY <2>1, <2>2
      <3>2. \A j \in Instances : (h \in putting'[j] <=> h \in putting[j]) /\ running'[j] = running[j]
        BY <1>2, <2>2 DEF status
      <3> QED
        BY <1>1, <1>4, <2>2, <3>1, <3>2 DEF Placed
    <2>3. CASE h = g
      <3>1. \A c \in Kinds, j \in Instances : Has(c, j, g) <=> c = "here" /\ j = i
        BY <1>2, <1>3 DEF Has, Kinds
      <3>2. \E c \in Kinds, j \in Instances : Has(c, j, g)
        BY <3>1 DEF Kinds
      <3>3. \A c \in Kinds, j \in Instances : ~Has(c, j, g)'
        BY <2>1, <2>3, <3>1
      <3>4. outputs'[g] = outputs[g] + 1
        BY <1>3, <1>4
      <3>5. \A j, k \in Instances : g \in putting'[j] /\ g \in running'[k] => k = j
        BY <1>2, <1>3 DEF status
      <3>6. Placed(g)'
        BY <1>1, <3>2, <3>3, <3>4, <3>5, IsOut
      <3> QED
        BY <2>3, <3>6
    <2> QED
      BY <2>2, <2>3
  <1> QED
    BY <1>3, <1>4, <1>6, <1>7, <1>8, <1>10, <1>11, <1>12, <1>13 DEF IInv

\* A group whose put has returned no longer runs, and one with aborted sequences is kept.
LEMMA MarkKeeps ==
  ASSUME IInv, NEW i \in Instances, NEW g \in Groups, MarkDone(i, g) \/ MarkAborted(i, g)
  PROVE  IInv' /\ outputs' = outputs
  <1>1. Types /\ Shape /\ Aborts /\ (\A j \in Instances : Talk(j) /\ Own(j)) /\ \A h \in Groups : Placed(h)
    BY DEF IInv
  <1>2. /\ rollout[i] = "handle" /\ g \in returned[i] /\ g \in running[i] /\ Active(g) = 0
        /\ returned'[i] = returned[i] \ {g} /\ running'[i] = running[i] \ {g}
        /\ \/ returned'[i] # {} /\ rollout'[i] = "handle"
           \/ returned'[i] = {} /\ running'[i] # {} /\ rollout'[i] = "wait" /\ pending'[i] = running'[i]
           \/ returned'[i] = {} /\ running'[i] = {} /\ rollout'[i] = "notify"
        /\ \A j \in Instances \ {i} : /\ rollout'[j] = rollout[j] /\ pending'[j] = pending[j]
                                      /\ returned'[j] = returned[j] /\ running'[j] = running[j]
        /\ UNCHANGED <<groupVars, exit, loop, requests, responses, manager>>
    <2>1. rollout[i] = "handle" /\ g \in returned[i] /\ g \in running[i] /\ Active(g) = 0
      BY <1>1 DEF MarkDone, MarkAborted, Own
    <2>2. LookedAt(i, g)
      BY DEF MarkDone, MarkAborted
    <2>3. /\ returned'[i] = returned[i] \ {g} /\ running'[i] = running[i] \ {g}
          /\ \A j \in Instances \ {i} : returned'[j] = returned[j] /\ running'[j] = running[j]
      BY <1>1, <2>2 DEF LookedAt, Types
    <2>4. /\ rollout'[i] = IF returned'[i] # {} THEN "handle" ELSE IF running'[i] # {} THEN "wait" ELSE "notify"
          /\ pending'[i] = IF returned'[i] = {} THEN running'[i] ELSE pending[i]
          /\ \A j \in Instances \ {i} : rollout'[j] = rollout[j] /\ pending'[j] = pending[j]
      BY <1>1, <2>2 DEF LookedAt, Types
    <2>5. UNCHANGED <<groupVars, exit, loop, requests, responses, manager>>
      BY <2>2 DEF LookedAt
    <2> QED
      BY <2>1, <2>3, <2>4, <2>5
  <1>3. /\ \/ /\ g \in putting[i] /\ putting' = [putting EXCEPT ![i] = {}]
              /\ done' = [done EXCEPT ![i] = @ \cup {g}] /\ kept' = kept
           \/ /\ putting[i] = {} /\ putting' = putting /\ completed[g] < GroupSize
              /\ kept' = [kept EXCEPT ![i] = Append(@, g)] /\ done' = done
        /\ outputs' = outputs
    BY DEF MarkDone, MarkAborted
  <1>4. /\ putting'[i] = {} /\ OnlyAt(i)
        /\ kept'[i] = kept[i] \/ (completed[g] < GroupSize /\ putting[i] = {} /\ kept'[i] = Append(kept[i], g))
        /\ \A h \in Groups : h # g => \A j \in Instances : h \in putting'[j] <=> h \in putting[j]
    <2>1. /\ putting'[i] = {} /\ \A j \in Instances \ {i} : putting'[j] = putting[j]
          /\ \A j \in Instances \ {i} : done'[j] = done[j] /\ kept'[j] = kept[j]
          /\ kept'[i] = kept[i] \/ (completed[g] < GroupSize /\ putting[i] = {} /\ kept'[i] = Append(kept[i], g))
      BY <1>1, <1>3 DEF Types
    <2>2. \A h \in putting[i] : h = g
      BY <1>1, <1>3 DEF Own
    <2>3. \A h \in Groups : h # g => \A j \in Instances : h \in putting'[j] <=> h \in putting[j]
      BY <2>1, <2>2
    <2> QED
      BY <1>2, <2>1, <2>3 DEF OnlyAt
  <1>5. completed[g] \in Nat /\ aborted[g] \in Nat /\ GroupSize \in Nat /\ completed[g] + aborted[g] = GroupSize /\ outputs[g] \in Nat
    <2>1. completed[g] \in Nat /\ aborted[g] \in Nat /\ GroupSize \in Nat /\ outputs[g] \in Nat
      BY <1>1, Consts DEF Types
    <2>2. GroupSize - completed[g] - aborted[g] = 0
      BY <1>2 DEF Active
    <2> QED
      BY <2>1, <2>2
  <1>6. putting[i] = {} =>
        /\ outputs[g] = 0
        /\ \A j \in Instances : /\ g \notin putting[j]
                                /\ g \in running[j] => j = i
                                /\ ~(rollout[j] \in {"called", "failed"} /\ g \in Requests[j])
                                /\ ~(at = "migrate" /\ j \in leaving /\ g \in ToSet(kept[j]))
                                /\ g \notin InOf(requests[j])
    BY <1>1, <1>2, OnlyHere
  <1>7. completed[g] < GroupSize =>
          loop[i] = "migrate_out" /\ at = "migrate" /\ i \in leaving /\ requests[i] = <<>> /\ responses[i] = <<>> /\ Serving(i)
    <2>1. completed[g] < GroupSize => aborted[g] > 0
      BY <1>5
    <2> QED
      BY <1>1, <1>2, <2>1, Phases DEF Aborts
  <1>8. /\ kept'[i] \in Seq(Groups) /\ Injective(kept'[i])
        /\ kept'[i] = kept[i] \/ (completed[g] < GroupSize /\ putting[i] = {} /\ \A h : h \in ToSet(kept'[i]) <=> h \in ToSet(kept[i]) \/ h = g)
    <2>1. kept[i] \in Seq(Groups) /\ Injective(kept[i])
      BY <1>1 DEF Types, Own
    <2>2. CASE kept'[i] = kept[i]
      BY <2>1, <2>2
    <2>3. CASE completed[g] < GroupSize /\ putting[i] = {} /\ kept'[i] = Append(kept[i], g)
      <3>1. g \notin ToSet(kept[i])
        BY <1>6, <1>7, <2>3
      <3> QED
        BY <2>1, <2>3, <3>1, AppendsNew
    <2> QED
      BY <1>4, <2>2, <2>3
  <1>9. Types'
    <2>0. LookedAt(i, g)
      BY DEF MarkDone, MarkAborted
    <2>1. /\ returned' \in [Instances -> SUBSET Groups] /\ running' \in [Instances -> SUBSET Groups]
      BY <1>1, <2>0 DEF Types, LookedAt
    <2>2. rollout' \in [Instances -> {"called", "wait", "handle", "notify", "offload", "ended", "failed"}]
      BY <1>1, <2>0 DEF Types, LookedAt
    <2>3. pending' \in [Instances -> SUBSET Groups]
      <3>1. \A j \in Instances : pending'[j] \in SUBSET Groups
        BY <1>1, <2>0, <2>1 DEF Types, LookedAt
      <3>2. pending' = [j \in Instances |-> pending'[j]]
        BY <1>1, <2>0 DEF Types, LookedAt
      <3> QED
        BY <3>1, <3>2
    <2>4. done' \in [Instances -> SUBSET Groups] /\ putting' \in [Instances -> SUBSET Groups]
      <3>1. /\ done \in [Instances -> SUBSET Groups] /\ done[i] \cup {g} \in SUBSET Groups
            /\ putting \in [Instances -> SUBSET Groups] /\ {} \in SUBSET Groups
        BY <1>1 DEF Types
      <3>2. /\ done' = done \/ done' = [done EXCEPT ![i] = done[i] \cup {g}]
            /\ putting' = putting \/ putting' = [putting EXCEPT ![i] = {}]
        BY <1>3
      <3> QED
        BY <3>1, <3>2
    <2>5. kept' \in [Instances -> Seq(Groups)]
      <3>1. kept \in [Instances -> Seq(Groups)] /\ kept'[i] \in Seq(Groups)
        BY <1>1, <1>8 DEF Types
      <3>2. kept' = kept \/ kept' = [kept EXCEPT ![i] = kept'[i]]
        BY <1>3, <3>1
      <3> QED
        BY <3>1, <3>2
    <2> QED
      BY <1>1, <1>2, <1>3, <2>1, <2>2, <2>3, <2>4, <2>5 DEF Types, groupVars
  <1>10. Shape'
    BY <1>1, <1>2, ShapeStays
  <1>11. \A j \in Instances \ {i} : Talk(j)' /\ Own(j)'
    <2> TAKE j \in Instances \ {i}
    <2>1. rollout[j] = "handle" => \A h \in returned[j] : Active(h)' = 0
      BY <1>1, <1>2 DEF Own, Active, groupVars
    <2> QED
      BY <1>1, <1>4, <2>1, Others
  <1>12. Talk(i) /\ Own(i) /\ Serving(i) /\ Serving(i)' /\ rollout[i] # "ended" /\ rollout'[i] # "ended"
    BY <1>1, <1>2 DEF Serving
  <1>13. Talk(i)'
    <2>1. CASE kept'[i] = kept[i]
      BY <1>2, <1>12, <2>1 DEF Talk, Gone, Quiet, Reporting, MovingOut, Finishing, manager
    <2>2. CASE completed[g] < GroupSize
      <3>1. MovingOut(i)'
        BY <1>2, <1>7, <1>12, <2>2 DEF MovingOut
      <3>2. ~(at = "idle" \/ i < offset)
        BY <1>12 DEF Talk, Gone
      <3> QED
        BY <1>2, <1>7, <2>2, <3>1, <3>2 DEF Talk, manager
    <2> QED
      BY <1>4, <2>1, <2>2
  <1>14. Own(i)'
    <2>1. kept'[i] # <<>> => at \in {"migrate", "finish"} /\ i \in leaving
      BY <1>4, <1>7, <1>12 DEF Own
    <2>2. exit[i] => /\ at = "finish" /\ i \in leaving
                     /\ requests[i] = <<>> /\ loop[i] = "get" /\ responses[i] = <<>>
      BY <1>2, <1>12 DEF Own, EventGood
    <2>3. EventGood(i)'
      BY <1>2, <1>12, <2>2 DEF EventGood, manager
    <2>4. rollout'[i] = "handle" => returned'[i] # {} /\ returned'[i] \subseteq running'[i]
      BY <1>2, <1>12 DEF Own
    <2>5. rollout'[i] = "handle" => \A h \in returned'[i] : Active(h)' = 0
      BY <1>2, <1>12 DEF Own, Active, groupVars
    <2>6. rollout'[i] = "wait" => pending'[i] # {} /\ pending'[i] \subseteq running'[i]
      BY <1>2
    <2>7. rollout'[i] = "notify" => ~exit'[i] \/ (at' = "finish" /\ i \in leaving')
      BY <1>2, <2>2 DEF manager
    <2>8. at' = at /\ leaving' = leaving
      BY <1>2 DEF manager
    <2> QED
      BY <1>4, <1>8, <1>12, <2>1, <2>3, <2>4, <2>5, <2>6, <2>7, <2>8 DEF Own
  <1>15. Aborts'
    <2> SUFFICES ASSUME NEW h \in Groups, aborted[h] > 0, NEW j \in Instances
                 PROVE  /\ outputs[h] = 0
                        /\ h \in running'[j] => loop[j] = "migrate_out"
                        /\ h \in Requests[j] => rollout'[j] # "called"
      BY <1>2, <1>3 DEF Aborts, groupVars
    <2>1. /\ outputs[h] = 0
          /\ h \in running[j] => loop[j] = "migrate_out"
          /\ h \in Requests[j] => rollout[j] # "called"
      BY <1>1 DEF Aborts
    <2> QED
      BY <1>2, <2>1
  <1>16. ASSUME NEW h \in Groups
         PROVE  Placed(h)'
    <2>1. /\ \A c \in Kinds, j \in Instances \ {i} : Has(c, j, h)' <=> Has(c, j, h)
          /\ ~Has("home", i, h)'
          /\ ~Has("home", i, h)
          /\ Has("coming", i, h)' <=> Has("coming", i, h)
      BY <1>2, <1>4 DEF Has, manager, OnlyAt
    <2>2. Has("here", i, h)' <=> Has("here", i, h) /\ h # g
      BY <1>2, <1>4 DEF Has
    <2>3. Has("kept", i, h)' <=> Has("kept", i, h) \/ (completed[g] < GroupSize /\ putting[i] = {} /\ h = g)
      <3>1. CASE kept'[i] = kept[i] /\ ~(completed[g] < GroupSize /\ putting[i] = {})
        BY <1>2, <3>1 DEF Has, manager
      <3>2. CASE completed[g] < GroupSize /\ putting[i] = {}
        <4>1. \A x : x \in ToSet(kept'[i]) <=> x \in ToSet(kept[i]) \/ x = g
          <5>1. kept'[i] = Append(kept[i], g) /\ g \notin ToSet(kept[i])
            BY <1>1, <1>3, <1>6, <1>7, <3>2 DEF Types
          <5>2. kept[i] \in Seq(Groups) /\ Injective(kept[i])
            BY <1>1 DEF Types, Own
          <5> QED
            BY <5>1, <5>2, AppendsNew
        <4> QED
          BY <1>2, <1>7, <3>2, <4>1 DEF Has, manager
      <3> QED
        BY <1>4, <3>1, <3>2
    <2>4. CASE h # g
      <3>1. \A c \in Kinds, j \in Instances : Has(c, j, h)' <=> Has(c, j, h)
        BY <2>1, <2>2, <2>3, <2>4 DEF Kinds
      <3>2. \A j \in Instances : h \in running'[j] <=> h \in running[j]
        BY <1>2, <2>4
      <3> QED
        BY <1>1, <1>3, <1>4, <2>4, <3>1, <3>2 DEF Placed
    <2>5. CASE h = g /\ putting[i] = {}
      <3>1. \A c \in Kinds, j \in Instances : Has(c, j, g) <=> c = "here" /\ j = i
        BY <1>2, <1>6, <2>5 DEF Has, Kinds
      <3>2. \E c \in Kinds, j \in Instances : Has(c, j, g)
        BY <3>1 DEF Kinds
      <3>3. completed[g] < GroupSize /\ "kept" \in Kinds /\ outputs'[g] = outputs[g] /\ \A j \in Instances : g \notin putting'[j]
        BY <1>3, <1>6, <2>5 DEF Kinds
      <3>4. \A c \in Kinds, j \in Instances : Has(c, j, g)' <=> c = "kept" /\ j = i
        BY <2>1, <2>2, <2>3, <2>5, <3>1, <3>3 DEF Kinds
      <3>5. Placed(g)'
        BY <1>1, <3>2, <3>3, <3>4, Moves
      <3> QED
        BY <2>5, <3>5
    <2>6. CASE h = g /\ g \in putting[i]
      <3>1. outputs[g] = 1 /\ \A j \in Instances : g \in running[j] => j = i
        BY <1>1, <2>6 DEF Placed
      <3>2. \A c \in Kinds, j \in Instances : ~Has(c, j, g)
        BY <1>1, <3>1 DEF Placed
      <3>3. \A c \in Kinds, j \in Instances : ~Has(c, j, g)'
        BY <2>1, <2>2, <2>3, <2>6, <3>2 DEF Kinds
      <3>4. \A j \in Instances : g \notin putting'[j]
        <4>1. \A j \in Instances : g \in putting[j] => g \in running[j]
          BY <1>1 DEF Own
        <4> QED
          BY <1>4, <3>1, <4>1 DEF OnlyAt
      <3> QED
        BY <1>3, <2>6, <3>1, <3>3, <3>4 DEF Placed
    <2> QED
      BY <1>3, <2>4, <2>5, <2>6
  <1> QED
    BY <1>3, <1>9, <1>10, <1>11, <1>13, <1>14, <1>15, <1>16 DEF IInv

\* main_loop().
LEMMA InTalk ==
  ASSUME Shape, NEW i \in Instances, Talk(i), requests[i] # <<>> \/ loop[i] # "get" \/ Serving(i)
  PROVE  at # "idle" /\ i >= offset /\ ~(i < offset)
  <1>1. i \in Nat /\ offset \in Nat
    BY Consts DEF Shape
  <1>2. ~(at = "idle" \/ i < offset)
    BY DEF Talk, Gone, Serving
  <1> QED
    BY <1>1, <1>2

\* An action of main_loop that touches no group.
LEMMA LoopKeeps ==
  ASSUME IInv, NEW i \in Instances,
         UNCHANGED <<groupVars, outputs, coroutine, running, kept, done, manager>>,
         \A j \in Instances \ {i} : exit'[j] = exit[j] /\ loop'[j] = loop[j] /\ requests'[j] = requests[j] /\ responses'[j] = responses[j],
         exit' \in [Instances -> BOOLEAN], loop' \in [Instances -> {"get", "migrate_out", "finish"}],
         DOMAIN requests' = Instances, requests' = [j \in Instances |-> requests'[j]],
         DOMAIN responses' = Instances, responses' = [j \in Instances |-> responses'[j]],
         Talk(i)', EventGood(i)', InOf(requests'[i]) = InOf(requests[i]),
         running[i] = {} \/ loop[i] # "migrate_out" \/ loop'[i] = loop[i],
         exit'[i] = exit[i] \/ (at = "finish" /\ i \in leaving)
  PROVE  IInv'
  <1>1. Types /\ Shape /\ Aborts /\ (\A j \in Instances : Talk(j) /\ Own(j)) /\ \A h \in Groups : Placed(h)
    BY DEF IInv
  <1>2. OnlyAt(i)
    BY DEF OnlyAt, coroutine
  <1>3. Types'
    BY <1>1 DEF Types, groupVars, coroutine
  <1>4. Shape'
    BY <1>1, ShapeStays
  <1>5. \A j \in Instances \ {i} : Talk(j)' /\ Own(j)'
    <2> TAKE j \in Instances \ {i}
    <2>1. rollout[j] = "handle" => \A g \in returned[j] : Active(g)' = 0
      BY <1>1 DEF Own, Active, groupVars
    <2> QED
      BY <1>1, <1>2, <2>1, Others
  <1>6. Own(i)'
    <2>1. Own(i)
      BY <1>1
    <2>2. /\ at' = at /\ leaving' = leaving /\ rollout' = rollout /\ pending' = pending /\ returned' = returned
          /\ putting' = putting
          /\ running' = running /\ kept' = kept /\ done' = done /\ completed' = completed /\ aborted' = aborted
      BY DEF groupVars, coroutine, manager
    <2>3. rollout[i] = "handle" => \A g \in returned[i] : Active(g)' = 0
      BY <2>1, <2>2 DEF Own, Active
    <2> QED
      BY <2>1, <2>2, <2>3 DEF Own, Serving
  <1>7. Aborts'
    <2> SUFFICES ASSUME NEW h \in Groups, aborted[h] > 0, NEW j \in Instances
                 PROVE  /\ outputs[h] = 0
                        /\ h \in running[j] => loop'[j] = "migrate_out"
                        /\ h \in Requests[j] => rollout[j] # "called"
      BY DEF Aborts, groupVars, coroutine
    <2>1. /\ outputs[h] = 0
          /\ h \in running[j] => loop[j] = "migrate_out"
          /\ h \in Requests[j] => rollout[j] # "called"
      BY <1>1 DEF Aborts
    <2> QED
      BY <2>1
  <1>8. \A h \in Groups : Placed(h)'
    <2>1. \A j \in Instances : InOf(requests'[j]) = InOf(requests[j])
      OBVIOUS
    <2> QED
      BY <1>1, <2>1, Stays DEF coroutine, manager
  <1> QED
    BY <1>3, <1>4, <1>5, <1>6, <1>7, <1>8 DEF IInv

\* The functions that main_loop changes at one instance.
LEMMA LoopTypes ==
  ASSUME Types, NEW i \in Instances
  PROVE  /\ \A x : requests' = [requests EXCEPT ![i] = x] =>
              /\ DOMAIN requests' = Instances /\ requests' = [j \in Instances |-> requests'[j]]
              /\ requests'[i] = x /\ \A j \in Instances \ {i} : requests'[j] = requests[j]
         /\ \A x : responses' = [responses EXCEPT ![i] = x] =>
              /\ DOMAIN responses' = Instances /\ responses' = [j \in Instances |-> responses'[j]]
              /\ responses'[i] = x /\ \A j \in Instances \ {i} : responses'[j] = responses[j]
         /\ requests' = requests => DOMAIN requests' = Instances /\ requests' = [j \in Instances |-> requests'[j]]
         /\ responses' = responses => DOMAIN responses' = Instances /\ responses' = [j \in Instances |-> responses'[j]]
         /\ \A x \in {"get", "migrate_out", "finish"} : loop' = [loop EXCEPT ![i] = x] =>
              /\ loop' \in [Instances -> {"get", "migrate_out", "finish"}]
              /\ loop'[i] = x /\ \A j \in Instances \ {i} : loop'[j] = loop[j]
         /\ loop' = loop => loop' \in [Instances -> {"get", "migrate_out", "finish"}]
         /\ exit' = exit => exit' \in [Instances -> BOOLEAN]
         /\ \A x \in BOOLEAN : exit' = [exit EXCEPT ![i] = x] =>
              /\ exit' \in [Instances -> BOOLEAN]
              /\ exit'[i] = x /\ \A j \in Instances \ {i} : exit'[j] = exit[j]
  <1>1. DOMAIN requests = Instances /\ DOMAIN responses = Instances
        /\ requests = [j \in Instances |-> requests[j]] /\ responses = [j \in Instances |-> responses[j]]
        /\ loop \in [Instances -> {"get", "migrate_out", "finish"}] /\ exit \in [Instances -> BOOLEAN]
    BY DEF Types
  <1>2. ASSUME NEW x, requests' = [requests EXCEPT ![i] = x]
        PROVE  /\ DOMAIN requests' = Instances /\ requests' = [j \in Instances |-> requests'[j]]
               /\ requests'[i] = x /\ \A j \in Instances \ {i} : requests'[j] = requests[j]
    BY <1>1, <1>2
  <1>3. ASSUME NEW x, responses' = [responses EXCEPT ![i] = x]
        PROVE  /\ DOMAIN responses' = Instances /\ responses' = [j \in Instances |-> responses'[j]]
               /\ responses'[i] = x /\ \A j \in Instances \ {i} : responses'[j] = responses[j]
    BY <1>1, <1>3
  <1>4. ASSUME NEW x \in {"get", "migrate_out", "finish"}, loop' = [loop EXCEPT ![i] = x]
        PROVE  /\ loop' \in [Instances -> {"get", "migrate_out", "finish"}]
               /\ loop'[i] = x /\ \A j \in Instances \ {i} : loop'[j] = loop[j]
    BY <1>1, <1>4
  <1>5. ASSUME NEW x \in BOOLEAN, exit' = [exit EXCEPT ![i] = x]
        PROVE  /\ exit' \in [Instances -> BOOLEAN]
               /\ exit'[i] = x /\ \A j \in Instances \ {i} : exit'[j] = exit[j]
    BY <1>1, <1>5
  <1> QED
    BY <1>1, <1>2, <1>3, <1>4, <1>5

\* main_loop reports.
LEMMA ReportKeeps ==
  ASSUME IInv, NEW i \in Instances, Report(i)
  PROVE  IInv'
  <1>1. Types /\ Shape /\ Talk(i) /\ Own(i)
    BY DEF IInv
  <1>2. /\ loop[i] = "get" /\ requests[i] # <<>> /\ Head(requests[i]).action = "Report"
        /\ requests' = [requests EXCEPT ![i] = Tail(requests[i])]
        /\ \E x : responses' = [responses EXCEPT ![i] = Append(responses[i], x)]
        /\ UNCHANGED <<groupVars, outputs, coroutine, status, loop, manager>>
    BY DEF Report, Request, Respond
  <1>3. at = "report" /\ Tail(requests[i]) = <<>> /\ InOf(requests[i]) = {}
    BY <1>1, <1>2, FirstRequest
  <1>4. responses[i] = <<>> /\ Serving(i) /\ at # "idle" /\ i >= offset /\ ~(i < offset)
    BY <1>1, <1>2, Phases, InTalk
  <1>5. /\ requests'[i] = <<>> /\ DOMAIN requests' = Instances /\ requests' = [j \in Instances |-> requests'[j]]
        /\ \A j \in Instances \ {i} : requests'[j] = requests[j]
    BY <1>1, <1>2, <1>3, LoopTypes
  <1>6. PICK x : responses' = [responses EXCEPT ![i] = Append(responses[i], x)]
    BY <1>2
  <1>7. /\ responses'[i] = <<x>> /\ DOMAIN responses' = Instances /\ responses' = [j \in Instances |-> responses'[j]]
        /\ \A j \in Instances \ {i} : responses'[j] = responses[j]
    <2>1. responses' = [responses EXCEPT ![i] = <<x>>]
      BY <1>4, <1>6, Tuples
    <2> QED
      BY <1>1, <2>1, LoopTypes
  <1>8. Talk(i)'
    <2>1. Reporting(i)'
      BY <1>2, <1>4, <1>5, <1>7 DEF Reporting, Serving, coroutine
    <2> QED
      BY <1>2, <1>3, <1>4, <2>1 DEF Talk, manager
  <1>9. EventGood(i)'
    BY <1>1, <1>2 DEF Own, EventGood, status, coroutine
  <1>10. InOf(requests'[i]) = InOf(requests[i])
    BY <1>3, <1>5 DEF InOf
  <1>11. exit' \in [Instances -> BOOLEAN] /\ loop' \in [Instances -> {"get", "migrate_out", "finish"}]
    BY <1>1, <1>2 DEF Types, status
  <1>12. /\ UNCHANGED <<groupVars, outputs, coroutine, running, kept, done, manager>> /\ exit' = exit /\ loop' = loop
    BY <1>2 DEF status
  <1> QED
    BY <1>5, <1>7, <1>8, <1>9, <1>10, <1>11, <1>12, LoopKeeps

\* main_loop aborts generation.
LEMMA MigrateOutKeeps ==
  ASSUME IInv, NEW i \in Instances, MigrateOut(i)
  PROVE  IInv'
  <1>1. Types /\ Shape /\ Talk(i) /\ Own(i)
    BY DEF IInv
  <1>2. /\ loop[i] = "get" /\ requests[i] # <<>> /\ Head(requests[i]).action = "Migrate_Out"
        /\ requests' = [requests EXCEPT ![i] = Tail(requests[i])]
        /\ loop' = [loop EXCEPT ![i] = "migrate_out"]
        /\ UNCHANGED <<groupVars, outputs, coroutine, status, responses, manager>>
    BY DEF MigrateOut, Request
  <1>3. at = "migrate" /\ i \in leaving /\ kept[i] = <<>> /\ Tail(requests[i]) = <<>> /\ InOf(requests[i]) = {}
    BY <1>1, <1>2, FirstRequest
  <1>4. responses[i] = <<>> /\ Serving(i) /\ at # "idle" /\ i >= offset /\ ~(i < offset)
    BY <1>1, <1>2, Phases, InTalk
  <1>5. /\ requests'[i] = <<>> /\ DOMAIN requests' = Instances /\ requests' = [j \in Instances |-> requests'[j]]
        /\ \A j \in Instances \ {i} : requests'[j] = requests[j]
    BY <1>1, <1>2, <1>3, LoopTypes
  <1>6. /\ DOMAIN responses' = Instances /\ responses' = [j \in Instances |-> responses'[j]] /\ responses' = responses
    BY <1>1, <1>2, LoopTypes
  <1>7. /\ loop'[i] = "migrate_out" /\ loop' \in [Instances -> {"get", "migrate_out", "finish"}]
        /\ \A j \in Instances \ {i} : loop'[j] = loop[j]
    BY <1>1, <1>2, LoopTypes
  <1>8. Talk(i)'
    <2>1. MovingOut(i)'
      BY <1>2, <1>4, <1>5, <1>6, <1>7 DEF MovingOut, Serving, coroutine
    <2> QED
      BY <1>2, <1>3, <1>4, <2>1 DEF Talk, manager
  <1>9. EventGood(i)'
    BY <1>1, <1>2 DEF Own, EventGood, status, coroutine
  <1>10. InOf(requests'[i]) = InOf(requests[i])
    BY <1>3, <1>5 DEF InOf
  <1>11. exit' \in [Instances -> BOOLEAN]
    BY <1>1, <1>2 DEF Types, status
  <1>12. /\ UNCHANGED <<groupVars, outputs, coroutine, running, kept, done, manager>> /\ exit' = exit
    BY <1>2 DEF status
  <1> QED
    BY <1>2, <1>5, <1>6, <1>7, <1>8, <1>9, <1>10, <1>11, <1>12, LoopKeeps

\* main_loop begins to wait for the end of the tasks.
LEMMA FinishKeeps ==
  ASSUME IInv, NEW i \in Instances, Finish(i)
  PROVE  IInv'
  <1>1. Types /\ Shape /\ Talk(i) /\ Own(i)
    BY DEF IInv
  <1>2. /\ loop[i] = "get" /\ requests[i] # <<>> /\ Head(requests[i]).action = "Finish"
        /\ requests' = [requests EXCEPT ![i] = Tail(requests[i])]
        /\ loop' = [loop EXCEPT ![i] = "finish"]
        /\ UNCHANGED <<groupVars, outputs, coroutine, status, responses, manager>>
    BY DEF Finish, Request
  <1>3. at = "finish" /\ i \in leaving /\ Tail(requests[i]) = <<>> /\ InOf(requests[i]) = {}
    BY <1>1, <1>2, FirstRequest
  <1>4. responses[i] = <<>> /\ Serving(i) /\ at # "idle" /\ i >= offset /\ ~(i < offset)
    BY <1>1, <1>2, Phases, InTalk
  <1>5. /\ requests'[i] = <<>> /\ DOMAIN requests' = Instances /\ requests' = [j \in Instances |-> requests'[j]]
        /\ \A j \in Instances \ {i} : requests'[j] = requests[j]
    BY <1>1, <1>2, <1>3, LoopTypes
  <1>6. /\ DOMAIN responses' = Instances /\ responses' = [j \in Instances |-> responses'[j]] /\ responses' = responses
    BY <1>1, <1>2, LoopTypes
  <1>7. /\ loop'[i] = "finish" /\ loop' \in [Instances -> {"get", "migrate_out", "finish"}]
        /\ \A j \in Instances \ {i} : loop'[j] = loop[j]
    BY <1>1, <1>2, LoopTypes
  <1>8. Talk(i)'
    <2>1. Finishing(i)'
      BY <1>2, <1>4, <1>5, <1>6, <1>7 DEF Finishing, Serving, coroutine
    <2> QED
      BY <1>2, <1>3, <1>4, <2>1 DEF Talk, manager
  <1>9. EventGood(i)'
    BY <1>1, <1>2 DEF Own, EventGood, status, coroutine
  <1>10. InOf(requests'[i]) = InOf(requests[i])
    BY <1>3, <1>5 DEF InOf
  <1>11. exit' \in [Instances -> BOOLEAN]
    BY <1>1, <1>2 DEF Types, status
  <1>12. /\ UNCHANGED <<groupVars, outputs, coroutine, running, kept, done, manager>> /\ exit' = exit
    BY <1>2 DEF status
  <1> QED
    BY <1>2, <1>5, <1>6, <1>7, <1>8, <1>9, <1>10, <1>11, <1>12, LoopKeeps

\* main_loop answers with what is kept.
LEMMA MigratedOutKeeps ==
  ASSUME IInv, NEW i \in Instances, MigratedOut(i)
  PROVE  IInv'
  <1>1. Types /\ Shape /\ Talk(i) /\ Own(i)
    BY DEF IInv
  <1>2. /\ loop[i] = "migrate_out" /\ running[i] = {}
        /\ responses' = [responses EXCEPT ![i] = Append(responses[i], [action |-> "Migrate_Out", data |-> kept[i]])]
        /\ loop' = [loop EXCEPT ![i] = "get"]
        /\ UNCHANGED <<groupVars, outputs, coroutine, status, requests, manager>>
    BY DEF MigratedOut, Respond, NoneRunning
  <1>3. at = "migrate" /\ i \in leaving /\ requests[i] = <<>> /\ responses[i] = <<>> /\ Serving(i)
    BY <1>1, <1>2, Phases
  <1>4. at # "idle" /\ i >= offset /\ ~(i < offset)
    BY <1>1, <1>2, InTalk
  <1>5. /\ requests' = requests /\ DOMAIN requests' = Instances /\ requests' = [j \in Instances |-> requests'[j]]
    BY <1>1, <1>2, LoopTypes
  <1>6. /\ DOMAIN responses' = Instances /\ responses' = [j \in Instances |-> responses'[j]]
        /\ responses'[i] = <<[action |-> "Migrate_Out", data |-> kept[i]]>>
        /\ \A j \in Instances \ {i} : responses'[j] = responses[j]
    <2>1. PICK m : m = [action |-> "Migrate_Out", data |-> kept[i]]
      OBVIOUS
    <2>2. responses' = [responses EXCEPT ![i] = <<m>>]
      BY <1>2, <1>3, <2>1, Tuples
    <2> QED
      BY <1>1, <2>1, <2>2, LoopTypes
  <1>7. /\ loop'[i] = "get" /\ loop' \in [Instances -> {"get", "migrate_out", "finish"}]
        /\ \A j \in Instances \ {i} : loop'[j] = loop[j]
    BY <1>1, <1>2, LoopTypes
  <1>8. Talk(i)'
    <2>1. MovingOut(i)'
      BY <1>2, <1>3, <1>5, <1>6, <1>7 DEF MovingOut, Serving, coroutine, status
    <2> QED
      BY <1>2, <1>3, <1>4, <2>1 DEF Talk, manager
  <1>9. EventGood(i)'
    BY <1>1, <1>2, <1>3 DEF Own, EventGood, status, coroutine
  <1>10. exit' \in [Instances -> BOOLEAN]
    BY <1>1, <1>2 DEF Types, status
  <1>11. /\ UNCHANGED <<groupVars, outputs, coroutine, running, kept, done, manager>> /\ exit' = exit
    BY <1>2 DEF status
  <1> QED
    BY <1>2, <1>5, <1>6, <1>7, <1>8, <1>9, <1>10, <1>11, LoopKeeps

\* main_loop ends the iteration of rollout().
LEMMA FinishedKeeps ==
  ASSUME IInv, NEW i \in Instances, Finished(i)
  PROVE  IInv'
  <1>1. Types /\ Shape /\ Talk(i) /\ Own(i)
    BY DEF IInv
  <1>2. /\ loop[i] = "finish" /\ running[i] = {}
        /\ exit' = [exit EXCEPT ![i] = TRUE]
        /\ loop' = [loop EXCEPT ![i] = "get"]
        /\ UNCHANGED <<groupVars, outputs, coroutine, running, kept, done, requests, responses, manager>>
    BY DEF Finished, NoneRunning
  <1>3. at = "finish" /\ i \in leaving /\ requests[i] = <<>> /\ responses[i] = <<>> /\ Serving(i)
    BY <1>1, <1>2, Phases
  <1>4. at # "idle" /\ i >= offset /\ ~(i < offset)
    BY <1>1, <1>2, InTalk
  <1>5. /\ requests' = requests /\ DOMAIN requests' = Instances /\ requests' = [j \in Instances |-> requests'[j]]
        /\ responses' = responses /\ DOMAIN responses' = Instances /\ responses' = [j \in Instances |-> responses'[j]]
    BY <1>1, <1>2, LoopTypes
  <1>6. /\ loop'[i] = "get" /\ loop' \in [Instances -> {"get", "migrate_out", "finish"}]
        /\ \A j \in Instances \ {i} : loop'[j] = loop[j]
        /\ exit'[i] /\ exit' \in [Instances -> BOOLEAN]
        /\ \A j \in Instances \ {i} : exit'[j] = exit[j]
    <2>1. TRUE \in BOOLEAN
      OBVIOUS
    <2> QED
      BY <1>1, <1>2, <2>1, LoopTypes
  <1>7. Talk(i)'
    <2>1. Finishing(i)'
      BY <1>2, <1>3, <1>5, <1>6 DEF Finishing, Serving, coroutine
    <2> QED
      BY <1>2, <1>3, <1>4, <2>1 DEF Talk, manager
  <1>8. EventGood(i)'
    BY <1>2, <1>3, <1>5, <1>6 DEF EventGood, Serving, coroutine, manager
  <1> QED
    BY <1>2, <1>3, <1>5, <1>6, <1>7, <1>8, LoopKeeps

\* main_loop makes tasks of the groups that come in.
LEMMA MigrateInKeeps ==
  ASSUME IInv, NEW i \in Instances, MigrateIn(i)
  PROVE  IInv'
  <1>1. Types /\ Shape /\ Aborts /\ (\A j \in Instances : Talk(j) /\ Own(j)) /\ \A h \in Groups : Placed(h)
    BY DEF IInv
  <1> DEFINE new == ToSet(Head(requests[i]).data)
  <1>2. PICK full \in [new -> 0..GroupSize] :
          /\ loop[i] = "get" /\ requests[i] # <<>> /\ Head(requests[i]).action = "Migrate_In"
          /\ requests' = [requests EXCEPT ![i] = Tail(requests[i])]
          /\ \A g \in new : full[g] <= aborted[g]
          /\ exit' = [exit EXCEPT ![i] = (exit[i] \/ running[i] = {})]
          /\ running' = [running EXCEPT ![i] = running[i] \cup new]
          /\ completed' = [g \in Groups |-> completed[g] + IF g \in new THEN full[g] ELSE 0]
          /\ aborted' = [g \in Groups |-> IF g \in new THEN 0 ELSE aborted[g]]
          /\ UNCHANGED <<outputs, rollout, pending, returned, putting, kept, done, loop, responses, manager>>
    BY DEF MigrateIn, Request, NotifyIdle, AbortedCleared, coroutine
  <1>3. /\ Head(requests[i]) \in Ins /\ InOf(requests[i]) = new
        /\ \/ at = "await_actor" /\ Tail(requests[i]) = <<>>
           \/ at = "report" /\ Tail(requests[i]) = <<[action |-> "Report"]>>
           \/ at = "finish" /\ i \notin leaving /\ Tail(requests[i]) = <<>>
           \/ at = "finish" /\ i \in leaving /\ Tail(requests[i]) = <<[action |-> "Finish"]>>
    BY <1>1, <1>2, FirstRequest
  <1>4. new \subseteq Groups /\ new # {}
    <2>1. PICK d : d \in Seq(Groups) /\ d # <<>> /\ new = ToSet(d)
      BY <1>3 DEF Ins
    <2>2. Len(d) \in Nat \ {0} /\ 1 \in 1..Len(d)
      BY <2>1
    <2>3. \A x : x \in ToSet(d) <=> \E k \in 1..Len(d) : d[k] = x
      BY <2>1, Elements
    <2>4. d[1] \in new
      BY <2>1, <2>2, <2>3
    <2>5. \A k \in 1..Len(d) : d[k] \in Groups
      BY <2>1
    <2> QED
      BY <2>1, <2>3, <2>4, <2>5
  <1> HIDE DEF new
  <1>5. /\ responses[i] = <<>> /\ Serving(i) /\ at # "idle" /\ i >= offset /\ ~(i < offset) /\ Talk(i) /\ Own(i)
    BY <1>1, <1>2, Phases, InTalk
  <1>6. /\ requests'[i] = Tail(requests[i]) /\ DOMAIN requests' = Instances /\ requests' = [j \in Instances |-> requests'[j]]
        /\ \A j \in Instances \ {i} : requests'[j] = requests[j]
        /\ DOMAIN responses' = Instances /\ responses' = [j \in Instances |-> responses'[j]]
    BY <1>1, <1>2, LoopTypes
  <1>7. /\ exit' \in [Instances -> BOOLEAN] /\ exit'[i] = (exit[i] \/ running[i] = {})
        /\ \A j \in Instances \ {i} : exit'[j] = exit[j]
    <2>1. (exit[i] \/ running[i] = {}) \in BOOLEAN
      OBVIOUS
    <2> QED
      BY <1>1, <1>2, <2>1, LoopTypes
  <1>8. /\ running' \in [Instances -> SUBSET Groups] /\ running'[i] = running[i] \cup new
        /\ \A j \in Instances \ {i} : running'[j] = running[j]
    BY <1>1, <1>2, <1>4 DEF Types
  <1>9. InOf(requests'[i]) = {}
    <2>1. InOf(<<>>) = {}
      BY DEF InOf
    <2>2. ASSUME NEW a \in Actions
          PROVE  InOf(<<[action |-> a]>>) = {}
      BY Tuples DEF InOf, Actions
    <2>3. InOf(<<[action |-> "Report"]>>) = {} /\ InOf(<<[action |-> "Finish"]>>) = {}
      BY <2>2 DEF Actions
    <2> QED
      BY <1>3, <1>6, <2>1, <2>3
  <1>10. ASSUME NEW g \in new
         PROVE  /\ g \in Groups
                /\ \A c \in Kinds, j \in Instances : Has(c, j, g) <=> c = "coming" /\ j = i
                /\ \A j \in Instances : g \notin putting[j]
    <2>1. Has("coming", i, g) /\ "coming" \in Kinds /\ g \in Groups
      BY <1>3, <1>4 DEF Has, Kinds
    <2>2. \A c \in Kinds, j \in Instances : Has(c, j, g) => c = "coming" /\ j = i
      BY <1>1, <2>1 DEF Placed
    <2>3. \A j \in Instances : g \notin putting[j]
      BY <1>1, <2>1 DEF Placed
    <2> QED
      BY <2>1, <2>2, <2>3
  <1>11. ASSUME NEW g \in new, NEW j \in Instances
         PROVE  g \notin running[j]
    <2>1. ~Has("here", j, g) /\ g \notin putting[j]
      BY <1>10 DEF Kinds
    <2> QED
      BY <2>1 DEF Has
  <1>12. /\ completed' \in [Groups -> Nat] /\ aborted' \in [Groups -> Nat]
         /\ \A g \in Groups : completed'[g] + aborted'[g] <= GroupSize
         /\ \A g \in Groups \ new : completed'[g] = completed[g] /\ aborted'[g] = aborted[g]
         /\ \A g \in new : aborted'[g] = 0
    <2>1. ASSUME NEW g \in Groups
          PROVE  /\ completed'[g] \in Nat /\ aborted'[g] \in Nat /\ completed'[g] + aborted'[g] <= GroupSize
                 /\ g \notin new => completed'[g] = completed[g] /\ aborted'[g] = aborted[g]
                 /\ g \in new => aborted'[g] = 0
      <3>1. completed[g] \in Nat /\ aborted[g] \in Nat /\ completed[g] + aborted[g] <= GroupSize /\ GroupSize \in Nat
        BY <1>1, Consts DEF Types
      <3>2. CASE g \in new
        <4>1. PICK f \in Nat : f = full[g] /\ f <= aborted[g]
          <5>1. full[g] \in 0..GroupSize /\ full[g] <= aborted[g]
            BY <1>2, <3>2
          <5>2. full[g] \in Nat
            BY <3>1, <5>1
          <5> QED
            BY <5>1, <5>2
        <4>2. completed'[g] = completed[g] + f /\ aborted'[g] = 0
          BY <1>2, <3>2, <4>1
        <4> QED
          BY <3>1, <3>2, <4>1, <4>2
      <3>3. CASE g \notin new
        <4>1. completed'[g] = completed[g] + 0 /\ aborted'[g] = aborted[g]
          BY <1>2, <3>3
        <4> QED
          BY <3>1, <3>3, <4>1
      <3> QED
        BY <3>2, <3>3
    <2>2. completed' = [g \in Groups |-> completed'[g]] /\ aborted' = [g \in Groups |-> aborted'[g]]
      BY <1>2
    <2> QED
      BY <1>4, <2>1, <2>2
  <1>13. Types'
    BY <1>1, <1>2, <1>6, <1>7, <1>8, <1>12 DEF Types
  <1>14. Shape'
    BY <1>1, <1>2, ShapeStays
  <1>15. OnlyAt(i)
    BY <1>2, <1>6, <1>7, <1>8 DEF OnlyAt
  <1>16. ASSUME NEW j \in Instances, rollout[j] = "handle"
         PROVE  \A g \in returned[j] : Active(g)' = 0
    <2> TAKE g \in returned[j]
    <2>1. g \in running[j] /\ g \in Groups /\ Active(g) = 0
      BY <1>1, <1>16 DEF Own, Types
    <2>2. g \notin new
      BY <1>11, <2>1
    <2> QED
      BY <1>12, <2>1, <2>2 DEF Active
  <1>17. \A j \in Instances \ {i} : Talk(j)' /\ Own(j)'
    BY <1>1, <1>15, <1>16, Others
  <1>18. Talk(i)'
    <2>1. /\ at = "await_actor" => Quiet(i)'
          /\ at = "report" => Reporting(i)'
          /\ at = "finish" /\ i \notin leaving => Quiet(i)'
          /\ at = "finish" /\ i \in leaving => Finishing(i)'
      BY <1>2, <1>3, <1>5, <1>6 DEF Quiet, Reporting, Finishing, Serving, QNone, QOne
    <2> QED
      BY <1>2, <1>3, <1>5, <2>1 DEF Talk, manager
  <1>19. Own(i)'
    <2>1. running'[i] # {}
      BY <1>4, <1>8
    <2>2. exit'[i] => rollout[i] \in {"notify", "called", "failed"}
      <3>1. CASE exit[i]
        BY <1>2, <1>5, <3>1 DEF Own, EventGood
      <3>2. CASE running[i] = {}
        BY <1>1, <1>5, <3>2 DEF Own, Serving, Types
      <3> QED
        BY <1>7, <3>1, <3>2
    <2>3. EventGood(i)'
      BY <1>2, <2>1, <2>2 DEF EventGood
    <2>4. rollout[i] = "handle" => \A g \in returned[i] : Active(g)' = 0
      BY <1>16
    <2>5. /\ at' = at /\ leaving' = leaving /\ rollout' = rollout /\ pending' = pending /\ returned' = returned
          /\ putting' = putting
          /\ kept' = kept /\ done' = done
      BY <1>2 DEF manager
    <2> QED
      BY <1>5, <1>8, <2>1, <2>3, <2>4, <2>5 DEF Own, Serving
  <1>20. Aborts'
    <2> SUFFICES ASSUME NEW h \in Groups, aborted'[h] > 0, NEW j \in Instances
                 PROVE  /\ outputs[h] = 0
                        /\ h \in running'[j] => loop[j] = "migrate_out"
                        /\ h \in Requests[j] => rollout[j] # "called"
      BY <1>2 DEF Aborts
    <2>1. h \notin new /\ aborted[h] > 0
      BY <1>12
    <2>2. /\ outputs[h] = 0
          /\ h \in running[j] => loop[j] = "migrate_out"
          /\ h \in Requests[j] => rollout[j] # "called"
      BY <1>1, <2>1 DEF Aborts
    <2> QED
      BY <1>8, <2>1, <2>2
  <1>21. ASSUME NEW h \in Groups
         PROVE  Placed(h)'
    <2>1. /\ \A c \in Kinds, j \in Instances \ {i} : Has(c, j, h)' <=> Has(c, j, h)
          /\ Has("home", i, h)' <=> Has("home", i, h)
          /\ Has("kept", i, h)' <=> Has("kept", i, h)
          /\ Has("here", i, h)' <=> Has("here", i, h) \/ h \in new
          /\ ~Has("coming", i, h)'
          /\ Has("coming", i, h) <=> h \in new
      BY <1>2, <1>3, <1>6, <1>8, <1>9, <1>10 DEF Has, manager
    <2>2. CASE h \in new
      <3>1. \A c \in Kinds, j \in Instances : Has(c, j, h)' <=> c = "here" /\ j = i
        BY <1>10, <2>1, <2>2 DEF Kinds
      <3>2. \E c \in Kinds, j \in Instances : Has(c, j, h)
        BY <2>1, <2>2 DEF Kinds
      <3>3. "here" \in Kinds /\ outputs'[h] = outputs[h] /\ \A j \in Instances : h \notin putting'[j]
        BY <1>2, <1>10, <2>2 DEF Kinds
      <3> QED
        BY <1>1, <3>1, <3>2, <3>3, Moves
    <2>3. CASE h \notin new
      <3>1. \A c \in Kinds, j \in Instances : Has(c, j, h)' <=> Has(c, j, h)
        BY <2>1, <2>3 DEF Kinds
      <3>2. outputs'[h] = outputs[h] /\ putting' = putting /\ \A j \in Instances : h \in running'[j] <=> h \in running[j]
        BY <1>2, <1>8, <2>3
      <3> QED
        BY <1>1, <3>1, <3>2 DEF Placed
    <2> QED
      BY <2>2, <2>3
  <1> QED
    BY <1>13, <1>14, <1>17, <1>18, <1>19, <1>20, <1>21 DEF IInv

-----------------------------------------------------------------------------
(* The manager.                                                            *)

LEMMA AliveFacts ==
  ASSUME offset \in 0..NumInstances
  PROVE  /\ Alive \subseteq Instances
         /\ \A i \in Instances : i \in Alive <=> i >= offset
         /\ \A i \in Instances : i \in Alive <=> ~(i < offset)
         /\ IsFiniteSet(Alive) /\ Cardinality(Alive) = NumInstances - offset
         /\ Alive = {} <=> offset = NumInstances
  <1>1. PICK n \in Nat \ {0} : n = NumInstances
    BY Consts
  <1>2. PICK o \in 0..n : o = offset
    BY <1>1
  <1>3. Alive = o..(n - 1) /\ Instances = 0..(n - 1)
    BY <1>1, <1>2 DEF Alive, Instances
  <1>4. IsFiniteSet(o..(n - 1)) /\ Cardinality(o..(n - 1)) = n - o
    <2>1. o \in Int /\ n - 1 \in Int
      OBVIOUS
    <2>2. IsFiniteSet(o..(n - 1)) /\ Cardinality(o..(n - 1)) = IF o > n - 1 THEN 0 ELSE (n - 1) - o + 1
      BY <2>1, FS_Interval
    <2>3. (IF o > n - 1 THEN 0 ELSE (n - 1) - o + 1) = n - o
      OBVIOUS
    <2> QED
      BY <2>2, <2>3
  <1>5. Alive = {} <=> o = n
    BY <1>3
  <1>6. /\ Alive \subseteq Instances
        /\ \A i \in Instances : i \in Alive <=> i >= o
        /\ \A i \in Instances : i \in Alive <=> ~(i < o)
    BY <1>3
  <1> QED
    BY <1>1, <1>2, <1>3, <1>4, <1>5, <1>6

\* A step of the manager keeps what an instance has of its own.
LEMMA OwnStays ==
  ASSUME NEW i \in Instances, UNCHANGED <<groupVars, coroutine, status, loop>>, Own(i),
         exit[i] => running[i] # {} /\ rollout[i] \in {"notify", "called", "failed"},
         kept[i] # <<>> => at' \in {"migrate", "finish"} /\ i \in leaving'
  PROVE  Own(i)'
  <1>1. /\ rollout' = rollout /\ pending' = pending /\ returned' = returned /\ putting' = putting /\ exit' = exit
        /\ running' = running /\ kept' = kept /\ done' = done /\ completed' = completed /\ aborted' = aborted
    BY DEF groupVars, coroutine, status
  <1>2. rollout[i] = "handle" => \A g \in returned[i] : Active(g)' = 0
    BY <1>1 DEF Own, Active
  <1>3. EventGood(i)'
    BY <1>1 DEF EventGood
  <1> QED
    BY <1>1, <1>2, <1>3 DEF Own, Serving

\* Outside migration and the end of instances, an event is set for an instance with tasks only.
LEMMA EventOutside ==
  ASSUME NEW i \in Instances, Own(i), ~(at = "finish" /\ i \in leaving)
  PROVE  exit[i] => running[i] # {} /\ rollout[i] \in {"notify", "called", "failed"}
  BY DEF Own, EventGood

\* A step of the manager aborts nothing.
LEMMA AbortsStay ==
  ASSUME Aborts, UNCHANGED <<groupVars, outputs, coroutine, status, loop>>
  PROVE  Aborts'
  BY DEF Aborts, groupVars, coroutine, status

\* The queues after _scatter_requests and after _gather_responses.
LEMMA Scattered ==
  ASSUME NEW ids, NEW m, Scatter(ids, m)
  PROVE  /\ DOMAIN requests' = Instances /\ requests' = [i \in Instances |-> requests'[i]]
         /\ \A i \in Instances : requests'[i] = IF i \in ids THEN Append(requests[i], m) ELSE requests[i]
  BY DEF Scatter

LEMMA Gathered ==
  ASSUME NEW ids, Gather(ids)
  PROVE  /\ DOMAIN responses' = Instances /\ responses' = [i \in Instances |-> responses'[i]]
         /\ \A i \in Instances : responses'[i] = IF i \in ids THEN Tail(responses[i]) ELSE responses[i]
  BY DEF Gather

\* At the end of a step no group is left.
LEMMA IdleFacts ==
  ASSUME Shape, Aborts, \A i \in Instances : Talk(i) /\ Own(i), \A g \in Groups : Placed(g), at = "idle",
         aborted \in [Groups -> Nat]
  PROVE  /\ \A i \in Instances : /\ Gone(i) /\ running[i] = {} /\ putting[i] = {} /\ kept[i] = <<>> /\ ~exit[i]
         /\ \A g \in Groups : outputs[g] = 1 /\ aborted[g] = 0
  <1>1. \A i \in Instances : Gone(i) /\ running[i] = {} /\ putting[i] = {} /\ kept[i] = <<>> /\ ~exit[i]
    BY DEF Talk, Own, Gone, Serving, EventGood
  <1>2. ASSUME NEW g \in Groups
        PROVE  outputs[g] = 1
    <2>1. InOf(<<>>) = {}
      BY DEF InOf
    <2>2. \A c \in Kinds, i \in Instances : ~Has(c, i, g)
      BY <1>1, <2>1 DEF Has, Gone
    <2> QED
      BY <2>2 DEF Placed
  <1>3. \A g \in Groups : aborted[g] = 0
    <2> TAKE g \in Groups
    <2>1. ~(aborted[g] > 0)
      BY <1>2 DEF Aborts
    <2> QED
      BY <2>1
  <1> QED
    BY <1>1, <1>2, <1>3

\* A step begins.
LEMMA ScheduleKeeps ==
  ASSUME IInv, Schedule
  PROVE  IInv'
  <1>1. Types /\ Shape /\ Aborts /\ (\A j \in Instances : Talk(j) /\ Own(j)) /\ \A h \in Groups : Placed(h)
    BY DEF IInv
  <1>2. /\ at = "idle" /\ offset' = 0 /\ leaving' = {}
        /\ completed' = [g \in Groups |-> 0] /\ outputs' = [g \in Groups |-> 0]
        /\ rollout' = [i \in Instances |-> "called"]
        /\ UNCHANGED <<aborted, pending, returned, putting, status, loop, responses, reports>>
    BY DEF Schedule
  <1>3. \/ PreProcess /\ iter' = -1 /\ at' = "report" /\ Scatter(Instances, [action |-> "Report"])
        \/ iter' = 0 /\ at' = "await_actor" /\ requests' = requests
    BY DEF Schedule
  <1>4. /\ \A i \in Instances : Gone(i) /\ running[i] = {} /\ putting[i] = {} /\ kept[i] = <<>> /\ ~exit[i]
        /\ \A g \in Groups : outputs[g] = 1 /\ aborted[g] = 0
    <2>1. aborted \in [Groups -> Nat]
      BY <1>1 DEF Types
    <2> QED
      BY <1>1, <1>2, <2>1, IdleFacts
  <1>5. /\ DOMAIN requests' = Instances /\ requests' = [i \in Instances |-> requests'[i]]
        /\ \A i \in Instances : requests'[i] = IF at' = "report" THEN <<[action |-> "Report"]>> ELSE <<>>
    <2>1. CASE PreProcess /\ iter' = -1 /\ at' = "report" /\ Scatter(Instances, [action |-> "Report"])
      <3>1. PICK m : m = [action |-> "Report"]
        OBVIOUS
      <3>2. /\ DOMAIN requests' = Instances /\ requests' = [i \in Instances |-> requests'[i]]
            /\ \A i \in Instances : requests'[i] = Append(requests[i], m)
        BY <2>1, <3>1, Scattered
      <3>3. \A i \in Instances : requests'[i] = <<m>>
        BY <1>4, <3>2, Tuples DEF Gone
      <3> QED
        BY <2>1, <3>1, <3>2, <3>3
    <2>2. CASE iter' = 0 /\ at' = "await_actor" /\ requests' = requests
      BY <1>1, <1>4, <2>2 DEF Types, Gone
    <2> QED
      BY <1>3, <2>1, <2>2
  <1>6. Types'
    <2>1. \A g \in Groups : completed'[g] + aborted'[g] <= GroupSize
      BY <1>2, <1>4, Consts
    <2>2. completed' \in [Groups -> Nat] /\ outputs' \in [Groups -> Nat]
      BY <1>2
    <2>3. rollout' \in [Instances -> {"called", "wait", "handle", "notify", "offload", "ended", "failed"}]
      BY <1>2
    <2> QED
      BY <1>1, <1>2, <1>5, <2>1, <2>2, <2>3 DEF Types, status
  <1>7. Shape'
    <2>1. offset' \in 0..NumInstances /\ iter' \in -1..(Minibatches - 1) /\ offset' < NumInstances
      BY <1>2, <1>3, Consts
    <2>2. at' = "report" => ~LastIter'
      BY <1>3, Consts DEF LastIter
    <2>3. PreProcessing' => PreProcess
      BY <1>3 DEF PreProcessing
    <2> QED
      BY <1>2, <1>3, <2>1, <2>2, <2>3 DEF Shape
  <1>8. \A i \in Instances : Talk(i)' /\ Own(i)'
    <2> TAKE i \in Instances
    <2>1. /\ rollout'[i] = "called" /\ Serving(i)' /\ loop'[i] = "get" /\ responses'[i] = <<>>
          /\ running'[i] = {} /\ putting'[i] = {} /\ kept'[i] = <<>> /\ ~exit'[i]
      BY <1>2, <1>4 DEF Gone, Serving, status
    <2>2. Talk(i)'
      <3>1. i >= 0 /\ ~(i < 0)
        BY Consts
      <3>2. CASE at' = "report"
        <4>1. QOne(requests'[i], "Report")
          BY <1>5, <3>2 DEF QOne
        <4>2. Reporting(i)'
          BY <2>1, <4>1 DEF Reporting
        <4> QED
          BY <1>2, <3>1, <3>2, <4>2 DEF Talk
      <3>3. CASE at' = "await_actor"
        <4>1. QNone(requests'[i])
          BY <1>5, <3>3 DEF QNone
        <4>2. Quiet(i)'
          BY <2>1, <4>1 DEF Quiet
        <4> QED
          BY <1>2, <3>1, <3>3, <4>2 DEF Talk
      <3> QED
        BY <1>3, <3>2, <3>3
    <2>3. Own(i)'
      <3>1. Injective(<<>>)
        BY DEF Injective
      <3> QED
        BY <2>1, <3>1 DEF Own, EventGood
    <2> QED
      BY <2>2, <2>3
  <1>9. Aborts'
    <2>1. \A g \in Groups : ~(aborted'[g] > 0)
      BY <1>2, <1>4
    <2> QED
      BY <2>1 DEF Aborts
  <1>10. ASSUME NEW g \in Groups
         PROVE  Placed(g)'
    <2>1. PICK i \in Instances : g \in Requests[i] /\ \A j \in Instances : g \in Requests[j] => j = i
      BY Consts
    <2>2. \A j \in Instances : InOf(requests'[j]) = {}
      <3>1. InOf(<<>>) = {} /\ InOf(<<[action |-> "Report"]>>) = {}
        BY Tuples DEF InOf
      <3> QED
        BY <1>5, <3>1
    <2>3. \A c \in Kinds, j \in Instances : Has(c, j, g)' <=> c = "home" /\ j = i
      <3>1. \A j \in Instances : rollout'[j] = "called" /\ running'[j] = {}
        BY <1>2, <1>4 DEF status
      <3>2. at' # "migrate"
        BY <1>3
      <3> QED
        BY <2>1, <2>2, <3>1, <3>2 DEF Has, Kinds
    <2>4. outputs'[g] = 0 /\ "home" \in Kinds /\ \A j \in Instances : putting'[j] = {}
      BY <1>2, <1>4 DEF Kinds
    <2> QED
      BY <2>3, <2>4 DEF Placed
  <1> QED
    BY <1>6, <1>7, <1>8, <1>9, <1>10 DEF IInv

\* A step of the manager that moves no group.
LEMMA ManagerKeeps ==
  ASSUME IInv, UNCHANGED <<groupVars, outputs, coroutine, status, loop>>, Shape', at # "migrate",
         DOMAIN requests' = Instances, requests' = [i \in Instances |-> requests'[i]],
         DOMAIN responses' = Instances, responses' = [i \in Instances |-> responses'[i]],
         \A i \in Instances : /\ Talk(i)' /\ InOf(requests'[i]) = InOf(requests[i])
                              /\ kept[i] = <<>> /\ ~(at = "finish" /\ i \in leaving /\ exit[i])
  PROVE  IInv'
  <1>1. Types /\ Shape /\ Aborts /\ (\A j \in Instances : Talk(j) /\ Own(j)) /\ \A h \in Groups : Placed(h)
    BY DEF IInv
  <1>2. Types'
    BY <1>1 DEF Types, groupVars, coroutine, status
  <1>3. Aborts'
    BY <1>1, AbortsStay
  <1>4. \A i \in Instances : Own(i)'
    <2> TAKE i \in Instances
    <2>1. exit[i] => running[i] # {} /\ rollout[i] \in {"notify", "called", "failed"}
      BY <1>1, EventOutside
    <2> QED
      BY <1>1, <2>1, OwnStays
  <1>5. \A g \in Groups : Placed(g)'
    <2>1. \A i \in Instances : /\ kept'[i] = <<>> /\ kept[i] = <<>> /\ rollout'[i] = rollout[i]
                               /\ running'[i] = running[i] /\ putting'[i] = putting[i]
      BY DEF status, coroutine
    <2> QED
      BY <1>1, <2>1, NoElements, Stays
  <1> QED
    BY <1>1, <1>2, <1>3, <1>4, <1>5 DEF IInv

\* The manager asks instances that have no request to answer.
LEMMA Asks ==
  ASSUME NEW ids, NEW a \in Actions, Scatter(ids, [action |-> a]), \A i \in Instances : i \in ids => QNone(requests[i])
  PROVE  /\ DOMAIN requests' = Instances /\ requests' = [i \in Instances |-> requests'[i]]
         /\ \A i \in Instances :
              /\ InOf(requests'[i]) = InOf(requests[i])
              /\ i \notin ids => requests'[i] = requests[i]
              /\ i \in ids => QOne(requests'[i], a) /\ (requests[i] = <<>> => requests'[i] = <<[action |-> a]>>)
  <1>1. PICK m : m = [action |-> a]
    OBVIOUS
  <1>2. /\ DOMAIN requests' = Instances /\ requests' = [i \in Instances |-> requests'[i]]
        /\ \A i \in Instances : requests'[i] = IF i \in ids THEN Append(requests[i], m) ELSE requests[i]
    BY <1>1, Scattered
  <1>3. ASSUME NEW i \in Instances, i \in ids
        PROVE  /\ InOf(requests'[i]) = InOf(requests[i])
               /\ QOne(requests'[i], a) /\ (requests[i] = <<>> => requests'[i] = <<[action |-> a]>>)
    <2>1. requests'[i] = Append(requests[i], [action |-> a])
      BY <1>1, <1>2, <1>3
    <2> QED
      BY <1>3, <2>1, Asking
  <1> QED
    BY <1>2, <1>3

\* The iterations of the manager.
LEMMA Iterations ==
  ASSUME Shape
  PROVE  /\ ~LastIter => iter + 1 \in 0..(Minibatches - 1) /\ iter + 1 # -1
         /\ 0 \in -1..(Minibatches - 1)
  BY Consts DEF Shape, LastIter

\* The manager asks all instances that are left, or goes on without asking any.
LEMMA AsksAll ==
  ASSUME IInv, UNCHANGED <<groupVars, outputs, coroutine, status, loop, offset>>, at \in {"await_actor", "report"},
         DOMAIN responses' = Instances, responses' = [i \in Instances |-> responses'[i]],
         \A i \in Instances : i >= offset => Serving(i) /\ loop[i] = "get" /\ QNone(requests[i]) /\ responses'[i] = <<>>,
         \A i \in Instances : i < offset => responses'[i] = responses[i],
         \/ FinishAll /\ Alive # {}
         \/ ReportAll /\ Alive # {} /\ ~LastIter
         \/ NextIter /\ (LastIter => Alive = {}) /\ requests' = requests
  PROVE  IInv'
  <1>1. Types /\ Shape /\ Aborts /\ (\A j \in Instances : Talk(j) /\ Own(j)) /\ \A h \in Groups : Placed(h)
    BY DEF IInv
  <1>2. offset \in 0..NumInstances /\ offset' = offset /\ leaving = {} /\ iter \in -1..(Minibatches - 1)
    BY <1>1 DEF Shape
  <1>3. /\ Alive \subseteq Instances
        /\ \A i \in Instances : i \in Alive <=> i >= offset
        /\ \A i \in Instances : i \in Alive <=> ~(i < offset)
        /\ Alive = {} <=> offset = NumInstances
    BY <1>2, AliveFacts
  <1>4. \A i \in Instances : i < offset => Gone(i)
    BY <1>1 DEF Talk
  <1>5. Alive' = Alive
    BY <1>2 DEF Alive
  <1>6. \A i \in Instances : kept[i] = <<>>
    BY <1>1 DEF Own
  <1>7. \A i \in Instances : /\ i < offset => rollout'[i] = "ended" /\ loop'[i] = "get" /\ responses'[i] = <<>> /\ requests[i] = <<>>
                             /\ i >= offset => Serving(i)' /\ loop'[i] = "get"
    BY <1>4 DEF Gone, Serving, coroutine
  <1>8. \A i \in Instances : i >= offset \/ i < offset
    BY <1>3
  <1>9. CASE FinishAll /\ Alive # {}
    <2>1. Scatter(Alive, [action |-> "Finish"]) /\ leaving' = Alive /\ at' = "finish" /\ iter' = iter
      BY <1>9 DEF FinishAll
    <2>2. /\ DOMAIN requests' = Instances /\ requests' = [i \in Instances |-> requests'[i]]
          /\ \A i \in Instances :
              /\ InOf(requests'[i]) = InOf(requests[i])
              /\ i < offset => requests'[i] = requests[i]
              /\ i >= offset => QOne(requests'[i], "Finish")
      <3>1. "Finish" \in Actions
        BY DEF Actions
      <3>2. \A i \in Instances : i \in Alive => QNone(requests[i])
        BY <1>3
      <3>3. /\ DOMAIN requests' = Instances /\ requests' = [i \in Instances |-> requests'[i]]
            /\ \A i \in Instances :
              /\ InOf(requests'[i]) = InOf(requests[i])
              /\ i \notin Alive => requests'[i] = requests[i]
              /\ i \in Alive => QOne(requests'[i], "Finish")
        BY <2>1, <3>1, <3>2, Asks
      <3> QED
        BY <1>3, <3>3
    <2>3. \A i \in Instances : Talk(i)'
      <3> TAKE i \in Instances
      <3>1. CASE i < offset
        <4>1. ~(i >= offset)
          BY <1>3, <3>1
        <4> QED
          BY <1>2, <1>7, <2>1, <2>2, <3>1, <4>1 DEF Talk, Gone
      <3>2. CASE i >= offset
        <4>1. ~(i < offset) /\ i \in leaving'
          BY <1>3, <2>1, <3>2
        <4>2. Finishing(i)'
          BY <1>7, <2>2, <3>2 DEF Finishing
        <4> QED
          BY <1>2, <2>1, <3>2, <4>1, <4>2 DEF Talk
      <3> QED
        BY <1>8, <3>1, <3>2
    <2>4. Shape'
      <3>1. PICK n \in 1..NumInstances : n = NumInstances - offset
        BY <1>2, <1>3, <1>9, Consts
      <3>2. leaving' = offset..(offset + n - 1) /\ offset + n <= NumInstances
        BY <1>2, <2>1, <3>1, Consts DEF Alive
      <3>3. \E k \in 1..NumInstances : leaving' = offset'..(offset' + k - 1) /\ offset' + k <= NumInstances
        BY <1>2, <3>1, <3>2
      <3>4. PreProcessing' => PreProcess /\ offset' = 0
        BY <1>1, <1>2, <2>1 DEF Shape, PreProcessing
      <3> QED
        BY <1>2, <1>5, <2>1, <3>3, <3>4 DEF Shape
    <2> QED
      BY <1>2, <1>6, <2>2, <2>3, <2>4, ManagerKeeps
  <1>10. CASE ReportAll /\ Alive # {} /\ ~LastIter
    <2>1. Scatter(Alive, [action |-> "Report"]) /\ leaving' = leaving /\ at' = "report" /\ iter' = iter
      BY <1>10 DEF ReportAll
    <2>2. /\ DOMAIN requests' = Instances /\ requests' = [i \in Instances |-> requests'[i]]
          /\ \A i \in Instances :
              /\ InOf(requests'[i]) = InOf(requests[i])
              /\ i < offset => requests'[i] = requests[i]
              /\ i >= offset => QOne(requests'[i], "Report")
      <3>1. "Report" \in Actions
        BY DEF Actions
      <3>2. \A i \in Instances : i \in Alive => QNone(requests[i])
        BY <1>3
      <3>3. /\ DOMAIN requests' = Instances /\ requests' = [i \in Instances |-> requests'[i]]
            /\ \A i \in Instances :
              /\ InOf(requests'[i]) = InOf(requests[i])
              /\ i \notin Alive => requests'[i] = requests[i]
              /\ i \in Alive => QOne(requests'[i], "Report")
        BY <2>1, <3>1, <3>2, Asks
      <3> QED
        BY <1>3, <3>3
    <2>3. \A i \in Instances : Talk(i)'
      <3> TAKE i \in Instances
      <3>1. CASE i < offset
        <4>1. ~(i >= offset)
          BY <1>3, <3>1
        <4> QED
          BY <1>2, <1>7, <2>1, <2>2, <3>1, <4>1 DEF Talk, Gone
      <3>2. CASE i >= offset
        <4>1. ~(i < offset)
          BY <1>3, <3>2
        <4>2. Reporting(i)'
          BY <1>7, <2>2, <3>2 DEF Reporting
        <4> QED
          BY <1>2, <2>1, <3>2, <4>1, <4>2 DEF Talk
      <3> QED
        BY <1>8, <3>1, <3>2
    <2>4. Shape'
      <3>1. offset' < NumInstances
        BY <1>2, <1>3, <1>10, Consts
      <3>2. PreProcessing' => PreProcess /\ offset' = 0
        BY <1>1, <1>2, <2>1 DEF Shape, PreProcessing
      <3>3. ~LastIter'
        BY <1>10, <2>1 DEF LastIter
      <3> QED
        BY <1>2, <2>1, <3>1, <3>2, <3>3 DEF Shape
    <2> QED
      BY <1>2, <1>6, <2>2, <2>3, <2>4, ManagerKeeps
  <1>11. CASE NextIter /\ (LastIter => Alive = {}) /\ requests' = requests
    <2>1. /\ leaving' = {} /\ at' \in {"idle", "await_actor"} /\ iter' \in 0..(Minibatches - 1) /\ iter' # -1
          /\ at' = "idle" => Alive = {}
      BY <1>1, <1>11, Iterations, Consts DEF NextIter
    <2>2. \A i \in Instances : Talk(i)'
      <3> TAKE i \in Instances
      <3>1. CASE i < offset
        <4>1. ~(i >= offset)
          BY <1>3, <3>1
        <4> QED
          BY <1>2, <1>7, <1>11, <3>1, <4>1 DEF Talk, Gone
      <3>2. CASE i >= offset
        <4>1. ~(i < offset) /\ at' = "await_actor"
          BY <1>3, <2>1, <3>2
        <4>2. Quiet(i)'
          BY <1>7, <1>11, <3>2 DEF Quiet
        <4> QED
          BY <1>2, <2>1, <3>2, <4>1, <4>2 DEF Talk
      <3> QED
        BY <1>8, <3>1, <3>2
    <2>3. Shape'
      <3>1. iter' \in -1..(Minibatches - 1) /\ ~PreProcessing'
        BY <2>1 DEF PreProcessing
      <3> QED
        BY <1>2, <2>1, <3>1 DEF Shape
    <2>4. DOMAIN requests' = Instances /\ requests' = [i \in Instances |-> requests'[i]]
      BY <1>1, <1>11 DEF Types
    <2> QED
      BY <1>2, <1>6, <1>11, <2>2, <2>3, <2>4, ManagerKeeps
  <1> QED
    BY <1>9, <1>10, <1>11

\* The actor is ready.
LEMMA ActorReadyKeeps ==
  ASSUME IInv, ActorReady
  PROVE  IInv'
  <1>1. Types /\ Shape /\ \A j \in Instances : Talk(j)
    BY DEF IInv
  <1>2. /\ at = "await_actor" /\ UNCHANGED <<groupVars, outputs, coroutine, status, loop, offset>> /\ responses' = responses
        /\ \/ FinishAll /\ Alive # {}
           \/ ReportAll /\ Alive # {} /\ ~LastIter
           \/ NextIter /\ (LastIter => Alive = {}) /\ requests' = requests
    BY DEF ActorReady
  <1>3. DOMAIN responses' = Instances /\ responses' = [i \in Instances |-> responses'[i]]
    BY <1>1, <1>2 DEF Types
  <1>4. \A i \in Instances : i >= offset => Serving(i) /\ loop[i] = "get" /\ QNone(requests[i]) /\ responses'[i] = <<>>
    BY <1>1, <1>2 DEF Talk, Quiet
  <1> QED
    BY <1>2, <1>3, <1>4, AsksAll

\* The manager asks the lowest of the instances to migrate out.
LEMMA MigrateKeeps ==
  ASSUME IInv, UNCHANGED <<groupVars, outputs, coroutine, status, loop, offset>>, at = "report",
         DOMAIN responses' = Instances, responses' = [i \in Instances |-> responses'[i]],
         \A i \in Instances : i >= offset => Serving(i) /\ loop[i] = "get" /\ requests[i] = <<>> /\ responses'[i] = <<>>,
         \A i \in Instances : i < offset => responses'[i] = responses[i],
         NEW n \in 1..NumInstances, n < NumInstances - offset, Migrate(n)
  PROVE  IInv'
  <1>1. Types /\ Shape /\ Aborts /\ (\A j \in Instances : Talk(j) /\ Own(j)) /\ \A h \in Groups : Placed(h)
    BY DEF IInv
  <1>2. offset \in 0..NumInstances /\ offset' = offset /\ leaving = {} /\ iter \in -1..(Minibatches - 1) /\ ~LastIter
    BY <1>1 DEF Shape
  <1>3. /\ Alive \subseteq Instances
        /\ \A i \in Instances : i \in Alive <=> i >= offset
        /\ \A i \in Instances : i \in Alive <=> ~(i < offset)
    BY <1>2, AliveFacts
  <1>4. Scatter(Lowest(n), [action |-> "Migrate_Out"]) /\ leaving' = Lowest(n) /\ at' = "migrate" /\ iter' = iter
    BY DEF Migrate
  <1>5. Lowest(n) \subseteq Alive
    BY DEF Lowest
  <1>6. /\ DOMAIN requests' = Instances /\ requests' = [i \in Instances |-> requests'[i]]
        /\ \A i \in Instances : /\ InOf(requests'[i]) = InOf(requests[i])
                                /\ i \notin Lowest(n) => requests'[i] = requests[i]
                                /\ i \in Lowest(n) => requests'[i] = <<[action |-> "Migrate_Out"]>>
    <2>1. "Migrate_Out" \in Actions
      BY DEF Actions
    <2>2. \A i \in Instances : i \in Lowest(n) => QNone(requests[i]) /\ requests[i] = <<>>
      BY <1>3, <1>5 DEF QNone
    <2> QED
      BY <1>4, <2>1, <2>2, Asks
  <1>7. \A i \in Instances : kept[i] = <<>>
    BY <1>1 DEF Own
  <1>8. \A i \in Instances : Talk(i)'
    <2> TAKE i \in Instances
    <2>1. CASE i < offset
      <3>1. Gone(i) /\ i \notin Lowest(n) /\ ~(i >= offset)
        BY <1>1, <1>3, <1>5, <2>1 DEF Talk
      <3>2. rollout'[i] = "ended" /\ loop'[i] = "get" /\ responses'[i] = <<>> /\ requests'[i] = <<>>
        BY <1>6, <2>1, <3>1 DEF Gone, coroutine
      <3> QED
        BY <1>2, <1>4, <3>1, <3>2 DEF Talk, Gone
    <2>2. CASE i >= offset
      <3>1. ~(i < offset) /\ Serving(i)' /\ loop'[i] = "get" /\ responses'[i] = <<>> /\ kept'[i] = <<>> /\ requests[i] = <<>>
        BY <1>3, <1>7, <2>2 DEF Serving, coroutine, status
      <3>2. i \in leaving' => MovingOut(i)'
        BY <1>4, <1>6, <3>1 DEF MovingOut
      <3>3. i \notin leaving' => Quiet(i)' /\ requests'[i] = <<>>
        BY <1>4, <1>6, <3>1 DEF Quiet, QNone
      <3> QED
        BY <1>2, <1>4, <3>1, <3>2, <3>3 DEF Talk
    <2> QED
      BY <1>3, <2>1, <2>2
  <1>9. Shape'
    <2>1. PICK m \in Nat : m = NumInstances
      BY Consts
    <2>2. PICK o \in 0..m : o = offset
      BY <1>2, <2>1
    <2>3. Alive = o..(m - 1) /\ o + n <= m /\ n \in 1..m /\ o + n < m
      BY <2>1, <2>2 DEF Alive
    <2>4. Lowest(n) = {i \in o..(m - 1) : i < o + n}
      BY <2>2, <2>3 DEF Lowest
    <2>5. Lowest(n) = o..(o + n - 1)
      <3>1. \A i : (i \in o..(m - 1) /\ i < o + n) <=> i \in o..(o + n - 1)
        BY <2>3
      <3> QED
        BY <2>4, <3>1
    <2>6. \E k \in 1..NumInstances : leaving' = offset'..(offset' + k - 1) /\ offset' + k <= NumInstances
      BY <1>2, <1>4, <2>1, <2>2, <2>3, <2>5
    <2>7. Alive' = Alive /\ LastIter' = LastIter /\ PreProcessing' = PreProcessing
      BY <1>2, <1>4 DEF Alive, LastIter, PreProcessing
    <2>8. m - 1 \in Alive \ Lowest(n)
      BY <2>3, <2>5
    <2> QED
      BY <1>1, <1>2, <1>4, <2>1, <2>6, <2>7, <2>8 DEF Shape
  <1> QED
    BY <1>2, <1>6, <1>7, <1>8, <1>9, ManagerKeeps

\* pre_process and migrate_policy decide on the reports.
LEMMA DecideKeeps ==
  ASSUME IInv, Decide
  PROVE  IInv'
  <1>1. Types /\ Shape /\ \A j \in Instances : Talk(j)
    BY DEF IInv
  <1>2. at = "report" /\ Gather(Alive) /\ UNCHANGED <<groupVars, outputs, coroutine, status, loop, offset>>
    BY DEF Decide
  <1>3. \/ PreProcessing /\ Migrate(Borrowed)
        \/ ReportAll
        \/ FinishAll
        \/ \E n \in 0..(Cardinality(Alive) - 1) : IF n = 0 THEN NextIter /\ UNCHANGED requests ELSE Migrate(n)
    BY DEF Decide
  <1>4. offset \in 0..NumInstances /\ offset < NumInstances /\ ~LastIter
    BY <1>1, <1>2 DEF Shape
  <1>5. /\ \A i \in Instances : i \in Alive <=> i >= offset
        /\ \A i \in Instances : i \in Alive <=> ~(i < offset)
        /\ Cardinality(Alive) = NumInstances - offset
        /\ Alive # {}
    BY <1>4, AliveFacts, Consts
  <1>6. /\ DOMAIN responses' = Instances /\ responses' = [i \in Instances |-> responses'[i]]
        /\ \A i \in Instances : responses'[i] = IF i \in Alive THEN Tail(responses[i]) ELSE responses[i]
    BY <1>2, Gathered
  <1>7. \A i \in Instances : i >= offset =>
          Serving(i) /\ loop[i] = "get" /\ requests[i] = <<>> /\ QNone(requests[i]) /\ responses'[i] = <<>>
    <2> TAKE i \in Instances
    <2> HAVE i >= offset
    <2>1. Reporting(i) /\ responses[i] # <<>> /\ i \in Alive
      BY <1>1, <1>2, <1>5 DEF Talk, Gather
    <2>2. PICK x : responses[i] = <<x>>
      BY <2>1 DEF Reporting
    <2>3. responses'[i] = <<>>
      BY <1>6, <2>1, <2>2, Tuples
    <2> QED
      BY <2>1, <2>3 DEF Reporting, QNone
  <1>8. \A i \in Instances : i < offset => responses'[i] = responses[i]
    BY <1>5, <1>6
  <1>9. CASE ReportAll \/ FinishAll \/ (NextIter /\ UNCHANGED requests)
    BY <1>2, <1>4, <1>5, <1>6, <1>7, <1>8, <1>9, AsksAll
  <1>10. CASE PreProcessing /\ Migrate(Borrowed)
    <2>1. Borrowed \in 1..NumInstances /\ Borrowed < NumInstances - offset
      BY <1>1, <1>10, Consts DEF Shape
    <2> QED
      BY <1>2, <1>6, <1>7, <1>8, <1>10, <2>1, MigrateKeeps
  <1>11. ASSUME NEW n \in 0..(Cardinality(Alive) - 1), n # 0, Migrate(n)
         PROVE  IInv'
    <2>1. n \in 1..NumInstances /\ n < NumInstances - offset
      BY <1>4, <1>5, <1>11, Consts
    <2> QED
      BY <1>2, <1>6, <1>7, <1>8, <1>11, <2>1, MigrateKeeps
  <1> QED
    BY <1>3, <1>9, <1>10, <1>11

\* The instances that leave have given up their GPUs.
LEMMA ReleasedKeeps ==
  ASSUME IInv, Released
  PROVE  IInv'
  <1>1. Types /\ Shape /\ Aborts /\ (\A j \in Instances : Talk(j) /\ Own(j)) /\ \A h \in Groups : Placed(h)
    BY DEF IInv
  <1>2. at = "finish" /\ Gather(leaving) /\ UNCHANGED <<groupVars, outputs, coroutine, status, loop, requests, reports>>
    BY DEF Released
  <1>3. PICK k \in 1..NumInstances : leaving = offset..(offset + k - 1) /\ offset + k <= NumInstances
    BY <1>1, <1>2 DEF Shape
  <1>4. PICK m \in Nat : m = NumInstances
    BY Consts
  <1>5. PICK o \in 0..m : o = offset
    BY <1>1, <1>4 DEF Shape
  <1>6. k \in 1..m /\ leaving = o..(o + k - 1) /\ o + k <= m /\ Alive = o..(m - 1) /\ Instances = 0..(m - 1)
    BY <1>3, <1>4, <1>5 DEF Alive, Instances
  <1>7. leaving \subseteq Instances /\ Cardinality(leaving) = k
    <2>1. o \in Int /\ o + k - 1 \in Int
      BY <1>6
    <2>2. Cardinality(o..(o + k - 1)) = IF o > o + k - 1 THEN 0 ELSE (o + k - 1) - o + 1
      BY <2>1, FS_Interval
    <2>3. (IF o > o + k - 1 THEN 0 ELSE (o + k - 1) - o + 1) = k
      BY <1>6
    <2> QED
      BY <1>6, <2>2, <2>3
  <1>8. /\ DOMAIN responses' = Instances /\ responses' = [i \in Instances |-> responses'[i]]
        /\ \A i \in Instances : responses'[i] = IF i \in leaving THEN Tail(responses[i]) ELSE responses[i]
    BY <1>2, Gathered
  <1>9. \A i \in leaving : /\ rollout[i] = "ended" /\ requests[i] = <<>> /\ loop[i] = "get"
                           /\ responses[i] = <<[action |-> "Offloaded"]>>
    <2> TAKE i \in leaving
    <2>1. i \in Instances /\ i >= offset
      BY <1>5, <1>6
    <2>2. Finishing(i) /\ responses[i] # <<>>
      BY <1>1, <1>2, <2>1 DEF Talk, Gather
    <2> QED
      BY <2>2 DEF Finishing
  <1>10. \A i \in leaving : Answer(i).action = "Offloaded"
    BY <1>9, Tuples DEF Answer
  <1>11. offset' = o + k /\ NextIter
    BY <1>5, <1>7, <1>10 DEF Released
  <1>12. /\ leaving' = {} /\ at' \in {"idle", "await_actor"} /\ iter' \in 0..(Minibatches - 1) /\ iter' # -1
         /\ at' = "idle" => leaving = Alive
    <2>1. LastIter => leaving = Alive
      BY <1>1, <1>2 DEF Shape
    <2> QED
      BY <1>1, <1>11, <2>1, Iterations, Consts DEF NextIter
  <1>13. \A i \in leaving : responses'[i] = <<>>
    <2> TAKE i \in leaving
    <2>1. PICK x : responses[i] = <<x>>
      BY <1>9
    <2> QED
      BY <1>7, <1>8, <2>1, Tuples
  <1>14. \A i \in Instances : Talk(i)'
    <2> TAKE i \in Instances
    <2>1. i \in Nat
      BY Consts
    <2>2. CASE i < o + k
      <3>1. Gone(i)'
        <4>1. CASE i < o
          <5>1. Gone(i) /\ i \notin leaving
            BY <1>1, <1>5, <1>6, <2>1, <4>1 DEF Talk
          <5> QED
            BY <1>2, <1>8, <5>1 DEF Gone, coroutine
        <4>2. CASE ~(i < o)
          <5>1. i \in leaving
            BY <1>6, <2>1, <2>2, <4>2
          <5> QED
            BY <1>2, <1>9, <1>13, <5>1 DEF Gone, coroutine
        <4> QED
          BY <4>1, <4>2
      <3>2. ~(i >= offset')
        BY <1>6, <1>11, <2>1, <2>2
      <3> QED
        BY <3>1, <3>2 DEF Talk
    <2>3. CASE ~(i < o + k)
      <3>1. i \notin leaving /\ i >= offset /\ i \in Alive
        BY <1>5, <1>6, <2>1, <2>3
      <3>2. Quiet(i)
        BY <1>1, <1>2, <3>1 DEF Talk
      <3>3. Quiet(i)'
        BY <1>2, <1>8, <3>1, <3>2 DEF Quiet, Serving, coroutine
      <3>4. at' = "await_actor"
        BY <1>12, <3>1
      <3>5. ~(i < offset')
        BY <1>11, <2>3
      <3> QED
        BY <3>3, <3>4, <3>5 DEF Talk
    <2> QED
      BY <2>2, <2>3
  <1>15. Shape'
    <2>1. offset' \in 0..NumInstances
      BY <1>4, <1>6, <1>11
    <2>2. ~PreProcessing' /\ iter' \in -1..(Minibatches - 1)
      BY <1>12 DEF PreProcessing
    <2> QED
      BY <1>12, <2>1, <2>2 DEF Shape
  <1>16. \A i \in Instances : kept[i] = <<>> /\ ~(i \in leaving /\ exit[i])
    <2> TAKE i \in Instances
    <2>1. CASE i \in leaving
      <3>1. ~Serving(i)
        BY <1>9, <2>1 DEF Serving
      <3> QED
        BY <1>1, <1>9, <2>1, <3>1 DEF Own, EventGood
    <2>2. CASE i \notin leaving
      BY <1>1, <2>2 DEF Own
    <2> QED
      BY <2>1, <2>2
  <1>17. DOMAIN requests' = Instances /\ requests' = [i \in Instances |-> requests'[i]] /\ requests' = requests
    BY <1>1, <1>2 DEF Types
  <1> QED
    BY <1>2, <1>8, <1>14, <1>15, <1>16, <1>17, ManagerKeeps

\* What the instances that leave have kept goes into the instances that stay.
LEMMA MigrateGroupsKeeps ==
  ASSUME IInv, MigrateGroups
  PROVE  IInv'
  <1>1. Types /\ Shape /\ Aborts /\ (\A j \in Instances : Talk(j) /\ Own(j)) /\ \A h \in Groups : Placed(h)
    BY DEF IInv
  <1>2. /\ at = "migrate" /\ Gather(leaving) /\ at' = "finish"
        /\ UNCHANGED <<groupVars, outputs, coroutine, status, loop, iter, offset, leaving>>
    BY DEF MigrateGroups
  <1>3. PICK k \in 1..NumInstances : leaving = offset..(offset + k - 1) /\ offset + k <= NumInstances
    BY <1>1, <1>2 DEF Shape
  <1>4. PICK m \in Nat \ {0} : m = NumInstances
    BY Consts
  <1>5. PICK o \in 0..m : o = offset
    BY <1>1, <1>4 DEF Shape
  <1>6. k \in 1..m /\ leaving = o..(o + k - 1) /\ o + k <= m /\ Alive = o..(m - 1) /\ Instances = 0..(m - 1)
    BY <1>3, <1>4, <1>5 DEF Alive, Instances
  <1>7. o + k <= m - 1 /\ Alive \ leaving = (o + k)..(m - 1) /\ leaving \subseteq Instances /\ Alive \subseteq Instances
    <2>1. m - 1 \notin o..(o + k - 1)
      BY <1>1, <1>2, <1>4, <1>6 DEF Shape
    <2>2. o + k <= m - 1
      BY <1>6, <2>1
    <2>3. \A i : i \in (o..(m - 1)) \ (o..(o + k - 1)) <=> i \in (o + k)..(m - 1)
      BY <1>6, <2>2
    <2>4. o..(o + k - 1) \subseteq 0..(m - 1) /\ o..(m - 1) \subseteq 0..(m - 1)
      BY <1>6
    <2> QED
      BY <1>6, <2>2, <2>3, <2>4
  <1>8. Cardinality(leaving) = k
    <2>1. o \in Int /\ o + k - 1 \in Int
      BY <1>6
    <2>2. Cardinality(o..(o + k - 1)) = IF o > o + k - 1 THEN 0 ELSE (o + k - 1) - o + 1
      BY <2>1, FS_Interval
    <2>3. (IF o > o + k - 1 THEN 0 ELSE (o + k - 1) - o + 1) = k
      BY <1>6
    <2> QED
      BY <1>6, <2>2, <2>3
  <1>9. \A i \in leaving : /\ Serving(i) /\ requests[i] = <<>> /\ loop[i] = "get"
                           /\ responses[i] = <<[action |-> "Migrate_Out", data |-> kept[i]]>>
                           /\ Answer(i).data = kept[i]
    <2> TAKE i \in leaving
    <2>1. i \in Instances /\ i >= offset
      BY <1>5, <1>6, <1>7
    <2>2. MovingOut(i) /\ responses[i] # <<>>
      BY <1>1, <1>2, <2>1 DEF Talk, Gather
    <2>3. Serving(i) /\ requests[i] = <<>> /\ loop[i] = "get" /\ responses[i] = <<[action |-> "Migrate_Out", data |-> kept[i]]>>
      BY <2>2 DEF MovingOut
    <2>4. Answer(i) = [action |-> "Migrate_Out", data |-> kept[i]]
      BY <2>3, Tuples DEF Answer
    <2> QED
      BY <2>3, <2>4
  <1>10. \A i \in Instances \ leaving : requests[i] = <<>> /\ (i \in Alive => Quiet(i)) /\ (i \notin Alive => Gone(i))
    <2> TAKE i \in Instances \ leaving
    <2>1. i \in Alive => i >= offset
      BY <1>5, <1>6
    <2>2. i \notin Alive => i < offset
      BY <1>5, <1>6, <1>7
    <2> QED
      BY <1>1, <1>2, <2>1, <2>2 DEF Talk, Gone
  <1> DEFINE seqs == [j \in 1..Cardinality(leaving) |-> Answer(offset + j - 1).data]
             groups == FlattenSeq(seqs)
             share == Assigned(Alive \ leaving, groups)
  <1>11. seqs = [j \in 1..k |-> kept[o + j - 1]] /\ seqs \in [1..k -> Seq(Groups)]
    <2>1. \A j \in 1..k : o + j - 1 \in leaving /\ o + j - 1 \in Instances
      BY <1>6, <1>7
    <2>2. \A j \in 1..k : Answer(offset + j - 1).data = kept[o + j - 1]
      BY <1>5, <1>9, <2>1
    <2>3. seqs = [j \in 1..k |-> kept[o + j - 1]]
      BY <1>8, <2>2
    <2>4. \A j \in 1..k : kept[o + j - 1] \in Seq(Groups)
      BY <1>1, <2>1 DEF Types
    <2> QED
      BY <2>3, <2>4
  <1>12. requests' = [i \in Instances |->
           IF i \in leaving THEN Append(requests[i], [action |-> "Finish"])
           ELSE IF i \in Alive /\ share[i] # <<>>
             THEN Append(requests[i], [action |-> "Migrate_In", data |-> share[i]])
             ELSE requests[i]]
    BY DEF MigrateGroups
  <1> HIDE DEF seqs
  <1>13. /\ groups \in Seq(Groups)
         /\ \A g : g \in ToSet(groups) <=> \E i \in leaving : g \in ToSet(kept[i])
         /\ Injective(groups)
    <2>1. k \in Nat \ {0} /\ \A j \in 1..k : seqs[j] = kept[o + j - 1]
      BY <1>6, <1>11
    <2>2. /\ FlattenSeq(seqs) \in Seq(Groups)
          /\ \A x : x \in ToSet(FlattenSeq(seqs)) <=> \E j \in 1..k : x \in ToSet(seqs[j])
          /\ /\ \A j \in 1..k : Injective(seqs[j])
             /\ \A j, l \in 1..k : \A x \in ToSet(seqs[j]) : x \in ToSet(seqs[l]) => j = l
             => Injective(FlattenSeq(seqs))
      BY <1>11, <2>1, Flattens
    <2>3. \A j \in 1..k : o + j - 1 \in leaving /\ o + j - 1 \in Instances
      BY <1>6, <1>7
    <2>4. \A i \in leaving : \E j \in 1..k : i = o + j - 1
      <3> TAKE i \in leaving
      <3>1. i - o + 1 \in 1..k /\ i = o + (i - o + 1) - 1
        BY <1>6
      <3> QED
        BY <3>1
    <2>5. \A g : g \in ToSet(groups) <=> \E i \in leaving : g \in ToSet(kept[i])
      <3>1. \A g : g \in ToSet(groups) <=> \E j \in 1..k : g \in ToSet(kept[o + j - 1])
        BY <2>1, <2>2
      <3>2. \A g : (\E j \in 1..k : g \in ToSet(kept[o + j - 1])) => \E i \in leaving : g \in ToSet(kept[i])
        BY <2>3
      <3>3. \A g : (\E i \in leaving : g \in ToSet(kept[i])) => \E j \in 1..k : g \in ToSet(kept[o + j - 1])
        BY <2>4
      <3> QED
        BY <3>1, <3>2, <3>3
    <2>6. \A j \in 1..k : Injective(seqs[j])
      BY <1>1, <2>1, <2>3 DEF Own
    <2>7. ASSUME NEW j \in 1..k, NEW l \in 1..k, NEW x \in ToSet(seqs[j]), x \in ToSet(seqs[l])
          PROVE  j = l
      <3>1. x \in Groups
        <4>1. seqs[j] \in Seq(Groups)
          BY <1>11
        <4>2. \E a \in 1..Len(seqs[j]) : seqs[j][a] = x
          BY <2>7, <4>1, Elements
        <4> QED
          BY <4>1, <4>2
      <3>2. Has("kept", o + j - 1, x) /\ Has("kept", o + l - 1, x) /\ "kept" \in Kinds
        BY <1>2, <2>1, <2>3, <2>7 DEF Has, Kinds
      <3>3. o + j - 1 = o + l - 1
        <4>1. PICK a \in Instances : a = o + j - 1
          BY <2>3
        <4>2. PICK b \in Instances : b = o + l - 1
          BY <2>3
        <4>3. Has("kept", a, x) /\ Has("kept", b, x)
          BY <3>2, <4>1, <4>2
        <4>4. \A c, d \in Kinds, p, q \in Instances : Has(c, p, x) /\ Has(d, q, x) => c = d /\ p = q
          BY <1>1, <3>1 DEF Placed
        <4>5. a = b
          BY <3>2, <4>3, <4>4
        <4> QED
          BY <4>1, <4>2, <4>5
      <3> QED
        BY <3>3
    <2> QED
      BY <2>2, <2>5, <2>6, <2>7
  <1> HIDE DEF groups
  <1>14. /\ \A i \in Alive \ leaving : share[i] \in Seq(Groups) /\ ToSet(share[i]) \subseteq ToSet(groups)
         /\ \A g \in ToSet(groups) : \E i \in Alive \ leaving : g \in ToSet(share[i])
         /\ \A i, j \in Alive \ leaving : \A g \in ToSet(share[i]) : g \in ToSet(share[j]) => i = j
    <2>1. o + k \in Int /\ m - 1 \in Int /\ o + k <= m - 1
      BY <1>6, <1>7
    <2>2. share = Assigned((o + k)..(m - 1), groups)
      BY <1>7
    <2> HIDE DEF share
    <2>3. /\ \A i \in (o + k)..(m - 1) : share[i] \in Seq(Groups) /\ ToSet(share[i]) \subseteq ToSet(groups)
          /\ \A g \in ToSet(groups) : \E i \in (o + k)..(m - 1) : g \in ToSet(share[i])
          /\ Injective(groups) => \A i, j \in (o + k)..(m - 1) : \A g \in ToSet(share[i]) : g \in ToSet(share[j]) => i = j
      <3>1. PICK lo \in Int : lo = o + k
        BY <2>1
      <3>2. PICK hi \in Int : hi = m - 1
        BY <2>1
      <3>3. lo <= hi /\ share = Assigned(lo..hi, groups) /\ groups \in Seq(Groups)
        BY <1>13, <2>1, <2>2, <3>1, <3>2
      <3>4. SharedOut(share, lo..hi, groups)
        BY <3>3, SharesOut
      <3> QED
        BY <3>1, <3>2, <3>4 DEF SharedOut
    <2> QED
      BY <1>7, <1>13, <2>3
  <1> HIDE DEF share
  <1>15. /\ \A i \in leaving : requests'[i] = <<[action |-> "Finish"]>>
         /\ \A i \in Alive \ leaving : /\ QNone(requests'[i])
                                       /\ \A g : g \in InOf(requests'[i]) <=> g \in ToSet(share[i])
         /\ \A i \in Instances \ Alive : requests'[i] = <<>>
         /\ DOMAIN requests' = Instances /\ requests' = [i \in Instances |-> requests'[i]]
    <2>1. \A i \in leaving : requests'[i] = <<[action |-> "Finish"]>>
      <3> TAKE i \in leaving
      <3>1. i \in Instances /\ requests[i] = <<>>
        BY <1>7, <1>9
      <3>2. PICK f : f = [action |-> "Finish"]
        OBVIOUS
      <3>3. requests'[i] = Append(<<>>, f)
        BY <1>12, <3>1, <3>2
      <3> QED
        BY <3>2, <3>3, Tuples
    <2>2. ASSUME NEW i \in Alive \ leaving
          PROVE  QNone(requests'[i]) /\ \A g : g \in InOf(requests'[i]) <=> g \in ToSet(share[i])
      <3>1. i \in Instances /\ requests[i] = <<>> /\ share[i] \in Seq(Groups)
        BY <1>7, <1>10, <1>14
      <3>2. CASE share[i] = <<>>
        <4>1. requests'[i] = <<>>
          BY <1>12, <3>1, <3>2
        <4> QED
          BY <3>2, <4>1, NoElements DEF QNone, InOf
      <3>3. CASE share[i] # <<>>
        <4>1. PICK f : f = [action |-> "Migrate_In", data |-> share[i]]
          OBVIOUS
        <4>2. f \in Ins /\ f.action = "Migrate_In" /\ f.data = share[i]
          BY <3>1, <3>3, <4>1 DEF Ins
        <4>3. requests'[i] = Append(<<>>, f)
          BY <1>12, <3>1, <3>3, <4>1
        <4>4. requests'[i] = <<f>>
          BY <4>3, Tuples
        <4> QED
          BY <4>2, <4>4, Tuples DEF QNone, InOf
      <3> QED
        BY <3>2, <3>3
    <2>3. \A i \in Instances \ Alive : requests'[i] = <<>>
      <3> TAKE i \in Instances \ Alive
      <3>1. i \notin leaving
        BY <1>6
      <3> QED
        BY <1>10, <1>12, <3>1
    <2> QED
      BY <1>12, <2>1, <2>2, <2>3
  <1>16. /\ DOMAIN responses' = Instances /\ responses' = [i \in Instances |-> responses'[i]]
         /\ \A i \in Instances : responses'[i] = IF i \in leaving THEN Tail(responses[i]) ELSE responses[i]
    BY <1>2, Gathered
  <1>17. \A i \in leaving : responses'[i] = <<>>
    <2> TAKE i \in leaving
    <2>1. PICK x : responses[i] = <<x>>
      BY <1>9
    <2> QED
      BY <1>7, <1>16, <2>1, Tuples
  <1>18. Types'
    BY <1>1, <1>2, <1>15, <1>16 DEF Types, groupVars, coroutine, status
  <1>19. Shape'
    <2>1. Alive' = Alive /\ LastIter' = LastIter /\ PreProcessing' = PreProcessing
      BY <1>2 DEF Alive, LastIter, PreProcessing
    <2> QED
      BY <1>1, <1>2, <2>1 DEF Shape
  <1>20. Aborts'
    BY <1>1, <1>2, AbortsStay
  <1>21. ASSUME NEW i \in Instances
         PROVE  Talk(i)'
    <2>1. CASE i \in leaving
      <3>1. QOne(requests'[i], "Finish")
        BY <1>15, <2>1 DEF QOne
      <3>2. Finishing(i)'
        BY <1>2, <1>9, <1>17, <2>1, <3>1 DEF Finishing, Serving, coroutine
      <3>3. ~(i < offset')
        BY <1>2, <1>5, <1>6, <2>1
      <3> QED
        BY <1>2, <2>1, <3>2, <3>3 DEF Talk
    <2>2. CASE i \in Alive \ leaving
      <3>1. Quiet(i)'
        BY <1>2, <1>10, <1>15, <1>16, <2>2 DEF Quiet, Serving, coroutine
      <3>2. ~(i < offset')
        BY <1>2, <1>5, <1>6, <2>2
      <3> QED
        BY <1>2, <2>2, <3>1, <3>2 DEF Talk
    <2>3. CASE i \notin Alive
      <3>1. i \notin leaving
        BY <1>6, <2>3
      <3>2. Gone(i)'
        BY <1>2, <1>10, <1>15, <1>16, <2>3, <3>1 DEF Gone, coroutine
      <3>3. ~(i >= offset')
        BY <1>2, <1>5, <1>6, <2>3
      <3> QED
        BY <3>2, <3>3 DEF Talk
    <2> QED
      BY <2>1, <2>2, <2>3
  <1>22. ASSUME NEW i \in Instances
         PROVE  Own(i)'
    <2>1. exit[i] => running[i] # {} /\ rollout[i] \in {"notify", "called", "failed"}
      BY <1>1, <1>2, EventOutside
    <2>2. kept[i] # <<>> => at' \in {"migrate", "finish"} /\ i \in leaving'
      BY <1>1, <1>2 DEF Own
    <2> QED
      BY <1>1, <1>2, <2>1, <2>2, OwnStays
  <1>23. ASSUME NEW g \in Groups
         PROVE  Placed(g)'
    <2>1. \A i \in Instances : InOf(requests[i]) = {}
      <3> TAKE i \in Instances
      <3>1. requests[i] = <<>>
        BY <1>9, <1>10
      <3> QED
        BY <3>1 DEF InOf
    <2>2. \A i \in Instances : g \in InOf(requests'[i]) <=> i \in Alive \ leaving /\ g \in ToSet(share[i])
      <3> TAKE i \in Instances
      <3>1. i \in leaving => InOf(requests'[i]) = {}
        BY <1>15, Tuples DEF InOf
      <3>2. i \notin Alive => InOf(requests'[i]) = {}
        BY <1>15 DEF InOf
      <3> QED
        BY <1>15, <3>1, <3>2
    <2>3. \A i \in Instances : /\ Has("home", i, g)' <=> Has("home", i, g)
                               /\ Has("here", i, g)' <=> Has("here", i, g)
                               /\ ~Has("kept", i, g)'
                               /\ Has("coming", i, g)' <=> (i \in Alive \ leaving /\ g \in ToSet(share[i]))
                               /\ ~Has("coming", i, g)
                               /\ Has("kept", i, g) <=> (i \in leaving /\ g \in ToSet(kept[i]))
      BY <1>2, <2>1, <2>2 DEF Has, coroutine, status
    <2>4. outputs'[g] = outputs[g] /\ running' = running /\ putting' = putting /\ Placed(g)
      BY <1>1, <1>2 DEF coroutine, status
    <2>5. CASE g \in ToSet(groups)
      <3>1. PICK i \in leaving : g \in ToSet(kept[i])
        BY <1>13, <2>5
      <3>2. i \in Instances /\ Has("kept", i, g) /\ "kept" \in Kinds
        BY <1>7, <2>3, <3>1 DEF Kinds
      <3>3. PICK j \in Alive \ leaving : g \in ToSet(share[j])
        BY <1>14, <2>5
      <3>4. j \in Instances /\ "coming" \in Kinds /\ \A l \in Alive \ leaving : g \in ToSet(share[l]) => l = j
        BY <1>7, <1>14, <3>3 DEF Kinds
      <3>5. \A l \in Instances : ~Has("home", l, g) /\ ~Has("here", l, g)
        BY <2>4, <3>2 DEF Placed, Kinds
      <3>6. \A c \in Kinds, l \in Instances : Has(c, l, g)' <=> c = "coming" /\ l = j
        BY <2>3, <3>3, <3>4, <3>5 DEF Kinds
      <3>7. \E c \in Kinds, l \in Instances : Has(c, l, g)
        BY <3>2
      <3> QED
        <4>1. outputs[g] = 0
          BY <2>4, <3>7 DEF Placed
        <4> QED
          BY <2>4, <3>4, <3>6, <4>1 DEF Placed
    <2>6. CASE g \notin ToSet(groups)
      <3>1. \A i \in leaving : g \notin ToSet(kept[i])
        BY <1>13, <2>6
      <3>2. \A i \in Alive \ leaving : g \notin ToSet(share[i])
        BY <1>14, <2>6
      <3>3. \A c \in Kinds, i \in Instances : Has(c, i, g)' <=> Has(c, i, g)
        BY <2>3, <3>1, <3>2 DEF Kinds
      <3> QED
        BY <2>4, <3>3 DEF Placed
    <2> QED
      BY <2>5, <2>6
  <1> QED
    BY <1>18, <1>19, <1>20, <1>21, <1>22, <1>23 DEF IInv

-----------------------------------------------------------------------------
\* The invariant is inductive.
LEMMA InitHolds == Init => IInv
  <1> SUFFICES ASSUME Init PROVE IInv
    OBVIOUS
  <1>1. \A i \in Instances : /\ rollout[i] = "ended" /\ loop[i] = "get" /\ requests[i] = <<>> /\ responses[i] = <<>>
                             /\ running[i] = {} /\ putting[i] = {} /\ kept[i] = <<>> /\ done[i] = {} /\ ~exit[i]
    BY DEF Init, NoGroups
  <1>2. Types
    <2>1. \A g \in Groups : completed[g] + aborted[g] <= GroupSize
      BY Consts DEF Init
    <2>2. completed \in [Groups -> Nat] /\ aborted \in [Groups -> Nat] /\ outputs \in [Groups -> Nat]
      BY Consts DEF Init
    <2>3. pending \in [Instances -> SUBSET Groups] /\ returned \in [Instances -> SUBSET Groups]
          /\ putting \in [Instances -> SUBSET Groups]
          /\ running \in [Instances -> SUBSET Groups] /\ done \in [Instances -> SUBSET Groups]
      BY DEF Init, NoGroups
    <2>4. kept \in [Instances -> Seq(Groups)]
      <3>1. <<>> \in Seq(Groups)
        OBVIOUS
      <3> QED
        BY <3>1 DEF Init
    <2>5. /\ rollout \in [Instances -> {"called", "wait", "handle", "notify", "offload", "ended", "failed"}]
          /\ exit \in [Instances -> BOOLEAN]
          /\ loop \in [Instances -> {"get", "migrate_out", "finish"}]
      BY DEF Init
    <2>6. /\ DOMAIN requests = Instances /\ DOMAIN responses = Instances
          /\ requests = [i \in Instances |-> requests[i]] /\ responses = [i \in Instances |-> responses[i]]
      BY DEF Init
    <2> QED
      BY <2>1, <2>2, <2>3, <2>4, <2>5, <2>6 DEF Types
  <1>3. Shape
    BY Consts DEF Init, Shape, PreProcessing
  <1>4. \A i \in Instances : Talk(i) /\ Own(i)
    <2> TAKE i \in Instances
    <2>1. Gone(i) /\ at = "idle"
      BY <1>1 DEF Gone, Init
    <2>2. Injective(<<>>)
      BY DEF Injective
    <2> QED
      BY <1>1, <2>1, <2>2 DEF Talk, Own, EventGood
  <1>5. Aborts
    <2>1. \A g \in Groups : ~(aborted[g] > 0)
      BY DEF Init
    <2> QED
      BY <2>1 DEF Aborts
  <1>6. \A g \in Groups : Placed(g)
    <2> TAKE g \in Groups
    <2>1. InOf(<<>>) = {}
      BY DEF InOf
    <2>2. at = "idle" /\ outputs[g] = 1
      BY DEF Init
    <2>3. \A c \in Kinds, i \in Instances : ~Has(c, i, g)
      BY <1>1, <2>1, <2>2 DEF Has
    <2> QED
      BY <1>1, <2>2, <2>3 DEF Placed
  <1> QED
    BY <1>2, <1>3, <1>4, <1>5, <1>6 DEF IInv

LEMMA NextKeeps == IInv /\ [Next]_vars => IInv'
  <1> SUFFICES ASSUME IInv, [Next]_vars PROVE IInv'
    OBVIOUS
  <1>1. CASE Schedule
    BY <1>1, ScheduleKeeps
  <1>2. CASE Manager
    BY <1>2, ActorReadyKeeps, DecideKeeps, MigrateGroupsKeeps, ReleasedKeeps DEF Manager
  <1>3. ASSUME NEW i \in Instances, Generation(i)
        PROVE  IInv'
    BY <1>3, GenerationKeeps DEF Generation
  <1>4. ASSUME NEW i \in Instances, Rollout(i)
        PROVE  IInv'
    BY <1>4, BeginKeeps, WakeKeeps, PutOutKeeps, MarkKeeps, NotifiedKeeps, OffloadKeeps DEF Rollout, Handle
  <1>5. ASSUME NEW i \in Instances, MainLoop(i)
        PROVE  IInv'
    BY <1>5, ReportKeeps, MigrateInKeeps, MigrateOutKeeps, MigratedOutKeeps, FinishKeeps, FinishedKeeps DEF MainLoop
  <1>6. CASE UNCHANGED vars
    <2>1. Types /\ Shape /\ Aborts /\ (\A j \in Instances : Talk(j) /\ Own(j)) /\ \A h \in Groups : Placed(h)
      BY DEF IInv
    <2>2. /\ UNCHANGED <<groupVars, outputs, coroutine, status, loop, manager>>
          /\ requests' = requests /\ responses' = responses /\ at' = at /\ offset' = offset /\ leaving' = leaving
          /\ rollout' = rollout /\ running' = running /\ putting' = putting /\ kept' = kept /\ loop' = loop
      BY <1>6 DEF vars, manager, coroutine, status
    <2>3. Types'
      BY <2>1, <2>2 DEF Types, groupVars, coroutine, status
    <2>4. Shape' /\ Aborts'
      BY <2>1, <2>2, ShapeStays, AbortsStay
    <2>5. \A i \in Instances : Talk(i)'
      BY <2>1, <2>2 DEF Talk, Gone, Quiet, Reporting, MovingOut, Finishing, Serving
    <2>6. \A i \in Instances : Own(i)'
      BY <2>1, <2>2 DEF Own, EventGood, Serving, Active, groupVars, coroutine, status
    <2>7. \A g \in Groups : Placed(g)'
      BY <2>1, <2>2 DEF Placed, Has
    <2> QED
      BY <2>3, <2>4, <2>5, <2>6, <2>7 DEF IInv
  <1> QED
    BY <1>1, <1>2, <1>3, <1>4, <1>5, <1>6 DEF Next

LEMMA InvHolds == Spec => []IInv
  BY InitHolds, NextKeeps, PTL DEF Spec

-----------------------------------------------------------------------------
\* The groups that come in with the requests of a queue are those of its first request.
LEMMA ComesFirst ==
  ASSUME NEW r, QNone(r) \/ \E a \in Actions : QOne(r, a), NEW g
  PROVE  (\E k \in DOMAIN r : r[k].action = "Migrate_In" /\ g \in ToSet(r[k].data)) <=> g \in InOf(r)
  <1>1. CASE r = <<>>
    <2>1. DOMAIN r = {}
      BY <1>1
    <2> QED
      BY <1>1, <2>1 DEF InOf
  <1>2. ASSUME NEW m \in Ins, r = <<m>>
        PROVE  (\E k \in DOMAIN r : r[k].action = "Migrate_In" /\ g \in ToSet(r[k].data)) <=> g \in InOf(r)
    <2>1. \A k : k \in DOMAIN r <=> k = 1
      BY <1>2
    <2>2. r[1] = m /\ m.action = "Migrate_In"
      BY <1>2 DEF Ins
    <2> QED
      BY <1>2, <2>1, <2>2, Tuples DEF InOf
  <1>3. ASSUME NEW a \in Actions, r = <<[action |-> a]>>
        PROVE  (\E k \in DOMAIN r : r[k].action = "Migrate_In" /\ g \in ToSet(r[k].data)) <=> g \in InOf(r)
    <2>1. \A k : k \in DOMAIN r <=> k = 1
      BY <1>3
    <2>2. r[1] = [action |-> a] /\ [action |-> a].action # "Migrate_In"
      BY <1>3 DEF Actions
    <2> QED
      BY <1>3, <2>1, <2>2, Tuples DEF InOf
  <1>4. ASSUME NEW a \in Actions, NEW m \in Ins, r = <<m, [action |-> a]>>
        PROVE  (\E k \in DOMAIN r : r[k].action = "Migrate_In" /\ g \in ToSet(r[k].data)) <=> g \in InOf(r)
    <2>1. \A k : k \in DOMAIN r <=> k = 1 \/ k = 2
      BY <1>4
    <2>2. r[1] = m /\ m.action = "Migrate_In" /\ r[2] = [action |-> a] /\ [action |-> a].action # "Migrate_In"
      BY <1>4 DEF Ins, Actions
    <2> QED
      BY <1>4, <2>1, <2>2, Tuples DEF InOf
  <1> QED
    BY <1>1, <1>2, <1>3, <1>4 DEF QNone, QOne

\* The forms of a queue.
LEMMA QueueForms ==
  ASSUME IInv, NEW i \in Instances
  PROVE  /\ QNone(requests[i]) \/ \E a \in Actions : QOne(requests[i], a)
         /\ ~Serving(i) => requests[i] = <<>> /\ loop[i] = "get"
  <1>1. Types /\ Shape /\ Talk(i)
    BY DEF IInv
  <1>2. loop[i] \in {"get", "migrate_out", "finish"}
    BY <1>1 DEF Types
  <1>3. {"Report", "Finish", "Migrate_Out"} \subseteq Actions
    BY DEF Actions
  <1>4. CASE requests[i] = <<>>
    BY <1>1, <1>2, <1>4, Phases DEF QNone
  <1>5. CASE requests[i] # <<>>
    BY <1>1, <1>3, <1>5, Phases DEF QOne
  <1> QED
    BY <1>4, <1>5

\* An instance that has given up its GPUs is idle, and a group is in one place.
LEMMA InvOnePlace == IInv => OnePlace
  <1> SUFFICES ASSUME IInv PROVE OnePlace
    OBVIOUS
  <1>1. Types /\ Shape /\ (\A j \in Instances : Talk(j) /\ Own(j)) /\ \A h \in Groups : Placed(h)
    BY DEF IInv
  <1>2. ReleasedIsIdle
    <2> SUFFICES ASSUME NEW i \in Instances, rollout[i] \in {"offload", "ended"}
                 PROVE  /\ running[i] = {} /\ kept[i] = <<>> /\ done[i] = {} /\ ~exit[i]
                        /\ loop[i] = "get" /\ requests[i] = <<>>
      BY DEF ReleasedIsIdle
    <2>1. ~Serving(i)
      BY DEF Serving
    <2> QED
      BY <1>1, <2>1, QueueForms DEF Own, EventGood
  <1>3. ASSUME NEW g \in Groups
        PROVE  Places(g) <= 1 /\ PutOutOnce(g)
    <2> DEFINE A == {i \in Instances : g \in running[i]}
               B == {i \in Instances : Migrating(i, g)}
    <2>1. \A i \in Instances : Migrating(i, g) <=> g \in InOf(requests[i])
      BY QueueForms, ComesFirst DEF Migrating
    <2>2. \A i \in Instances : /\ i \in A => Has("here", i, g) \/ g \in putting[i]
                               /\ i \in B <=> Has("coming", i, g)
      BY <2>1 DEF Has
    <2>3. {"here", "coming"} \subseteq Kinds /\ \A i \in Instances : i \in A <=> g \in running[i]
      BY DEF Kinds
    <2>4. A \subseteq Instances /\ B \subseteq Instances
      OBVIOUS
    <2>5. Places(g) = Cardinality(A) + Cardinality(B)
      BY DEF Places
    <2>6. PutOutOnce(g) <=> /\ outputs[g] <= 1
                            /\ outputs[g] = 1 => \A i \in Instances : i \notin B /\ (i \in A => g \in putting[i])
      BY DEF PutOutOnce
    <2> HIDE DEF A, B
    <2>7. \A i, j \in Instances : i \in A => (j \in A => j = i) /\ j \notin B
      <3> TAKE i, j \in Instances
      <3> HAVE i \in A
      <3>1. CASE g \in putting[i]
        BY <1>1, <2>2, <2>3, <3>1 DEF Placed
      <3>2. CASE g \notin putting[i]
        <4>1. Has("here", i, g) /\ g \in running[i]
          BY <2>2, <2>3, <3>2
        <4>2. j \in A => j = i
          BY <1>1, <2>3, <3>2, <4>1, OnlyHere
        <4>3. j \notin B
          BY <1>1, <2>2, <2>3, <4>1 DEF Placed
        <4> QED
          BY <4>2, <4>3
      <3> QED
        BY <3>1, <3>2
    <2>8. \A i, j \in Instances : i \in B /\ j \in B => j = i
      BY <1>1, <2>2, <2>3 DEF Placed
    <2>9. Places(g) <= 1
      <3>1. CASE A # {}
        <4>1. PICK i \in Instances : i \in A
          BY <2>4, <3>1
        <4>2. A = {i} /\ B = {}
          BY <2>4, <2>7, <4>1
        <4> QED
          BY <2>5, <4>2, FS_Singleton, FS_EmptySet
      <3>2. CASE A = {} /\ B # {}
        <4>1. PICK i \in Instances : i \in B
          BY <2>4, <3>2
        <4>2. B = {i}
          BY <2>4, <2>8, <4>1
        <4>3. Cardinality(B) = 1 /\ Cardinality(A) = 0
          BY <3>2, <4>2, FS_Singleton, FS_EmptySet
        <4> QED
          BY <2>5, <4>3
      <3>3. CASE A = {} /\ B = {}
        BY <2>5, <3>3, FS_EmptySet
      <3> QED
        BY <3>1, <3>2, <3>3
    <2>10. PutOutOnce(g)
      <3>1. outputs[g] <= 1
        BY <1>1 DEF Placed
      <3>2. ASSUME outputs[g] = 1, NEW i \in Instances
            PROVE  i \notin B /\ (i \in A => g \in putting[i])
        <4>1. ~Has("here", i, g) /\ ~Has("coming", i, g)
          BY <1>1, <2>3, <3>2 DEF Placed
        <4> QED
          BY <2>2, <4>1
      <3> QED
        BY <2>6, <3>1, <3>2
    <2> QED
      BY <2>9, <2>10
  <1> QED
    BY <1>2, <1>3 DEF OnePlace

\* A group is among the running groups of at most one instance, or on its way
\* to at most one; it is put out at most once, and from then on only runs
\* where its put is awaited; and an instance that has given up its GPUs has no
\* tasks, nothing kept and no request: for any number of instances and groups,
\* with and without pre_process, whatever the manager migrates and whichever
\* of rollout() and main_loop() runs while the other awaits (migrate_policy,
\* assign_sequences and finish of the RolloutManager).
THEOREM GroupsInOnePlace == Spec => []OnePlace
  BY InvHolds, InvOnePlace, PTL

-----------------------------------------------------------------------------
\* What the promise does not see.
LEMMA SameServing ==
  ASSUME outputs' = outputs, \A i \in Instances : rollout'[i] = "ended" <=> rollout[i] = "ended"
  PROVE  UNCHANGED (Promise!vars)
  <1>1. {i \in Instances : rollout'[i] # "ended"} = {i \in Instances : rollout[i] # "ended"}
    OBVIOUS
  <1> QED
    BY <1>1 DEF Promise!vars

\* Every step of an instance or of the manager is one of the promise, or none.
LEMMA PromiseStep == IInv /\ [Next]_vars => [Promise!Next]_(Promise!vars)
  <1> SUFFICES ASSUME IInv, [Next]_vars PROVE [Promise!Next]_(Promise!vars)
    OBVIOUS
  <1>1. Types /\ Shape /\ Aborts /\ (\A j \in Instances : Talk(j) /\ Own(j)) /\ \A h \in Groups : Placed(h)
    BY DEF IInv
  <1>2. CASE outputs' = outputs /\ rollout' = rollout
    BY <1>2, SameServing
  <1>3. CASE Schedule
    <2>1. aborted \in [Groups -> Nat] /\ at = "idle"
      BY <1>1, <1>3 DEF Types, Schedule
    <2>2. \A g \in Groups : outputs[g] = 1
      BY <1>1, <2>1, IdleFacts
    <2>3. \A i \in Instances : rollout[i] = "ended" /\ rollout'[i] = "called"
      BY <1>3 DEF Schedule
    <2>4. {i \in Instances : rollout[i] # "ended"} = {} /\ {i \in Instances : rollout'[i] # "ended"} = Instances
      BY <2>3
    <2>5. outputs' = [g \in Groups |-> 0]
      BY <1>3 DEF Schedule
    <2>6. Promise!StartStep
      BY <2>2, <2>4, <2>5 DEF Promise!StartStep, Promise!AllDelivered
    <2> QED
      BY <2>6 DEF Promise!Next
  <1>4. CASE Manager
    <2>1. outputs' = outputs /\ rollout' = rollout
      BY <1>4 DEF Manager, ActorReady, Decide, MigrateGroups, Released, coroutine
    <2> QED
      BY <1>2, <2>1
  <1>5. ASSUME NEW i \in Instances, Generation(i) \/ MainLoop(i)
        PROVE  [Promise!Next]_(Promise!vars)
    <2>1. outputs' = outputs /\ rollout' = rollout
      BY <1>5 DEF Generation, SequenceCompletes, SequenceAborts, MainLoop, Report, MigrateIn, MigrateOut, MigratedOut,
                  Finish, Finished, coroutine
    <2> QED
      BY <1>2, <2>1
  <1>6. ASSUME NEW i \in Instances, Begin(i) \/ Wake(i) \/ Notified(i)
        PROVE  [Promise!Next]_(Promise!vars)
    <2>1. outputs' = outputs /\ \A j \in Instances : rollout'[j] = "ended" <=> rollout[j] = "ended"
      BY <1>1, <1>6 DEF Types, Begin, Wake, Notified
    <2> QED
      BY <2>1, SameServing
  <1>7. ASSUME NEW i \in Instances, NEW g \in Groups, PutOut(i, g)
        PROVE  [Promise!Next]_(Promise!vars)
    <2>1. outputs[g] = 0 /\ outputs' = [outputs EXCEPT ![g] = 1]
      BY <1>7, PutOutKeeps
    <2>2. /\ {j \in Instances : rollout'[j] # "ended"} = {j \in Instances : rollout[j] # "ended"}
          /\ {j \in Instances : rollout[j] # "ended"} # {}
      BY <1>7 DEF PutOut
    <2>3. Promise!Deliver(g)
      BY <2>1, <2>2 DEF Promise!Deliver
    <2> QED
      BY <2>3 DEF Promise!Next
  <1>10. ASSUME NEW i \in Instances, NEW g \in Groups, MarkDone(i, g) \/ MarkAborted(i, g)
         PROVE  [Promise!Next]_(Promise!vars)
    <2>1. outputs' = outputs
      BY <1>10 DEF MarkDone, MarkAborted
    <2>2. rollout[i] = "handle" /\ LookedAt(i, g)
      BY <1>1, <1>10 DEF MarkDone, MarkAborted, Own
    <2>3. \A j \in Instances : rollout'[j] = "ended" <=> rollout[j] = "ended"
      BY <1>1, <2>2 DEF Types, LookedAt
    <2> QED
      BY <2>1, <2>3, SameServing
  <1>8. ASSUME NEW i \in Instances, Offload(i)
        PROVE  [Promise!Next]_(Promise!vars)
    <2> DEFINE S == {j \in Instances : rollout[j] # "ended"}
    <2>1. /\ rollout[i] = "offload" /\ outputs' = outputs
          /\ \A j \in Instances : rollout'[j] = IF j = i THEN "ended" ELSE rollout[j]
      BY <1>1, <1>8 DEF Types, Offload
    <2>2. {j \in Instances : rollout'[j] # "ended"} = S \ {i} /\ i \in S
      BY <2>1
    <2>3. ASSUME S = {i}
          PROVE  \A g \in Groups : outputs[g] = 1
      <3> TAKE g \in Groups
      <3>1. \A j \in Instances : ~Serving(j) /\ rollout[j] \in {"offload", "ended"}
        BY <2>1, <2>3 DEF Serving
      <3>2. \A j \in Instances : requests[j] = <<>> /\ running[j] = {} /\ kept[j] = <<>>
        BY <1>1, <3>1, QueueForms DEF Own
      <3>3. InOf(<<>>) = {}
        BY DEF InOf
      <3>5. \A c \in Kinds, j \in Instances : ~Has(c, j, g)
        BY <3>1, <3>2, <3>3, NoElements DEF Has
      <3> QED
        BY <1>1, <3>5 DEF Placed
    <2>4. Promise!GiveUp(i)
      BY <2>1, <2>2, <2>3 DEF Promise!GiveUp, Promise!AllDelivered
    <2> QED
      BY <2>4 DEF Promise!Next
  <1>9. CASE UNCHANGED vars
    BY <1>2, <1>9 DEF vars, coroutine
  <1> QED
    BY <1>3, <1>4, <1>5, <1>6, <1>7, <1>8, <1>9, <1>10 DEF Next, Rollout, Handle

\* Every group of a step is delivered at most once and only in that step,
\* instances give their GPUs up one after the other, and the last of them not
\* before every group is delivered: the safety part of ImplementsPromise.
THEOREM ImplementsPromiseSafely == Spec => Promise!Init /\ [][Promise!Next]_(Promise!vars)
  <1>1. Init => Promise!Init
    <2> SUFFICES ASSUME Init PROVE Promise!Init
      OBVIOUS
    <2>1. {i \in Instances : rollout[i] # "ended"} = {}
      BY DEF Init
    <2> QED
      BY <2>1 DEF Init, Promise!Init
  <1>2. IInv /\ [Next]_vars => [Promise!Next]_(Promise!vars)
    BY PromiseStep
  <1> QED
    BY <1>1, <1>2, InvHolds, PTL DEF Spec


-----------------------------------------------------------------------------
(* With pre_process.                                                       *)

\* The tasks of groups.
LEMMA ActiveSum ==
  ASSUME NEW s \in SUBSET Groups, IsFiniteSet(s), \A g \in s : Active(g) \in Nat /\ Active(g) <= GroupSize
  PROVE  MapThenSumSet(Active, s) \in Nat /\ MapThenSumSet(Active, s) <= GroupSize * Cardinality(s)
  <1> DEFINE Body(sum) == [t \in SUBSET s |-> IF t = {} THEN 0 ELSE Active(CHOOSE x \in t : TRUE) + sum[t \ {CHOOSE x \in t : TRUE}]]
             total == CHOOSE sum : sum = Body(sum)
             F == [g \in s |-> Active(g)]
             R == [g \in s |-> {g}]
  <1>1. MapThenSumSet(Active, s) = total[s]
    BY DEF MapThenSumSet, MapThenFoldSet
  <1>2. \A t \in SUBSET s : t # {} => F[Some(t)] = Active(CHOOSE x \in t : TRUE)
    <2> TAKE t \in SUBSET s
    <2> HAVE t # {}
    <2>1. (CHOOSE x \in t : TRUE) \in s
      OBVIOUS
    <2> QED
      BY <2>1 DEF Some
  <1>3. \A sum : Summing(F, s, sum) <=> sum = Body(sum)
    BY <1>2 DEF Summing, Some
  <1>4. \E sum : Summing(F, s, sum)
    <2>1. F \in [s -> Nat]
      OBVIOUS
    <2> HIDE DEF F
    <2> QED
      BY <2>1, SumExists
  <1>5. Summing(F, s, total)
    <2> HIDE DEF Body, F
    <2> QED
      BY <1>3, <1>4
  <1>6. /\ F \in [s -> Nat]
        /\ \A x \in s : IsFiniteSet(R[x]) /\ F[x] <= GroupSize * Cardinality(R[x])
        /\ \A x, y \in s : x # y => R[x] \cap R[y] = {}
    <2>1. \A x \in s : IsFiniteSet(R[x]) /\ Cardinality(R[x]) = 1
      BY FS_Singleton
    <2> QED
      BY <2>1, Consts
  <1>7. UNION {R[x] : x \in s} = s
    OBVIOUS
  <1> HIDE DEF F, R, total
  <1>8. Parts(s, GroupSize, F, R)
    BY <1>6 DEF Parts
  <1>9. Whole(s, GroupSize, F, R, total[s])
    BY <1>5, <1>6, <1>8, Consts, SumBound
  <1> QED
    BY <1>1, <1>7, <1>9 DEF Whole

\* What an instance has reported: of one that has not begun, nothing.
Reported(i) ==
  at = "report" /\ responses[i] # <<>> =>
    /\ Answer(i) \in [action : {"Report"}, total : Nat, running : 0..TotalTasks]
    /\ PreProcessing => /\ Answer(i).total <= GroupSize * Cardinality(Requests[i])
                        /\ rollout[i] = "called" => Answer(i).total = 0

\* Until all have begun, an instance has no groups but its own.
Begins(i) ==
  /\ rollout[i] # "failed"
  /\ rollout[i] = "called" => running[i] = {} /\ done[i] = {} /\ at = "report" /\ PreProcessing
  /\ at = "report" /\ PreProcessing =>
       InOf(requests[i]) = {} /\ running[i] \cup done[i] \subseteq Requests[i] /\ running[i] \cap done[i] = {}
  /\ exit[i] => rollout[i] = "notify"

PreInv ==
  /\ \A i \in Instances : Begins(i) /\ Reported(i)
  /\ at = "await_actor" => ~PreProcessing
  /\ reports \in [Instances -> 0..TotalTasks]

\* A step of one instance.
LEMMA BeginsAt ==
  ASSUME PreInv, NEW i \in Instances, OnlyAt(i), Begins(i)', Reported(i)'
  PROVE  PreInv'
  <1>1. at' = at /\ iter' = iter /\ reports' = reports
    BY DEF OnlyAt, manager
  <1>2. PreProcessing' = PreProcessing
    BY <1>1 DEF PreProcessing
  <1>3. ASSUME NEW j \in Instances \ {i}
        PROVE  Begins(j)' /\ Reported(j)'
    <2>1. /\ rollout'[j] = rollout[j] /\ running'[j] = running[j] /\ done'[j] = done[j] /\ exit'[j] = exit[j]
          /\ requests'[j] = requests[j] /\ responses'[j] = responses[j]
      BY DEF OnlyAt
    <2>2. Begins(j) /\ Reported(j)
      BY DEF PreInv
    <2>3. Begins(j)'
      BY <1>1, <1>2, <2>1, <2>2 DEF Begins
    <2>4. Reported(j)'
      BY <1>1, <1>2, <2>1, <2>2 DEF Reported, Answer
    <2> QED
      BY <2>3, <2>4
  <1> QED
    BY <1>1, <1>2, <1>3 DEF PreInv

\* rollout() of an instance.
LEMMA BeginBegins ==
  ASSUME IInv, PreInv, NEW i \in Instances, Begin(i)
  PROVE  PreInv'
  <1>1. Types /\ Own(i) /\ Begins(i) /\ Reported(i)
    BY DEF IInv, PreInv
  <1>2. rollout[i] = "called" /\ UNCHANGED <<groupVars, outputs, returned, putting, kept, done, exit, loop, requests, responses, manager>>
    BY DEF Begin
  <1>3. at = "report" /\ PreProcessing /\ ~Residual(i) /\ ~exit[i] /\ done[i] = {}
    BY <1>1, <1>2 DEF Begins, Own, Residual
  <1>4. /\ rollout' = [rollout EXCEPT ![i] = "wait"]
        /\ pending' = [pending EXCEPT ![i] = Requests[i]]
        /\ running' = [running EXCEPT ![i] = Requests[i]]
    BY <1>3 DEF Begin
  <1>5. rollout'[i] = "wait" /\ running'[i] = Requests[i]
    BY <1>1, <1>4 DEF Types
  <1>6. OnlyAt(i)
    BY <1>2, <1>4 DEF OnlyAt
  <1>7. at' = at /\ PreProcessing' = PreProcessing
    BY <1>2 DEF PreProcessing, manager
  <1>8. Begins(i)'
    BY <1>1, <1>2, <1>3, <1>5, <1>7 DEF Begins
  <1>9. Reported(i)'
    BY <1>1, <1>2, <1>5, <1>7 DEF Reported, Answer
  <1> QED
    BY <1>6, <1>8, <1>9, BeginsAt

\* asyncio.wait returns.
LEMMA WakeBegins ==
  ASSUME IInv, PreInv, NEW i \in Instances, Wake(i)
  PROVE  PreInv'
  <1>1. Types /\ Begins(i) /\ Reported(i)
    BY DEF IInv, PreInv
  <1>2. /\ rollout[i] = "wait" /\ rollout' = [rollout EXCEPT ![i] = "handle"]
        /\ UNCHANGED <<groupVars, outputs, pending, putting, status, loop, requests, responses, manager>>
        /\ \A j \in Instances \ {i} : returned'[j] = returned[j]
    BY <1>1 DEF Wake, Types
  <1>3. rollout'[i] = "handle"
    BY <1>1, <1>2 DEF Types
  <1>4. OnlyAt(i)
    BY <1>2 DEF OnlyAt, status
  <1>5. at' = at /\ PreProcessing' = PreProcessing
    BY <1>2 DEF PreProcessing, manager
  <1>6. Begins(i)'
    BY <1>1, <1>2, <1>3, <1>5 DEF Begins, status
  <1>7. Reported(i)'
    BY <1>1, <1>2, <1>3, <1>5 DEF Reported, Answer
  <1> QED
    BY <1>4, <1>6, <1>7, BeginsAt

\* A group is put out.
LEMMA PutOutBegins ==
  ASSUME IInv, PreInv, NEW i \in Instances, NEW g \in Groups, PutOut(i, g)
  PROVE  PreInv'
  <1>1. Types /\ Begins(i) /\ Reported(i)
    BY DEF IInv, PreInv
  <1>2. /\ UNCHANGED <<groupVars, rollout, pending, returned, status, loop, requests, responses, manager>>
        /\ \A j \in Instances \ {i} : putting'[j] = putting[j]
    BY <1>1 DEF PutOut, Types
  <1>3. OnlyAt(i)
    BY <1>2 DEF OnlyAt, status
  <1>4. at' = at /\ PreProcessing' = PreProcessing
    BY <1>2 DEF PreProcessing, manager
  <1>5. Begins(i)'
    BY <1>1, <1>2, <1>4 DEF Begins, status
  <1>6. Reported(i)'
    BY <1>1, <1>2, <1>4 DEF Reported, Answer
  <1> QED
    BY <1>3, <1>5, <1>6, BeginsAt

\* A group is marked done or aborted.
LEMMA MarkBegins ==
  ASSUME IInv, PreInv, NEW i \in Instances, NEW g \in Groups, MarkDone(i, g) \/ MarkAborted(i, g)
  PROVE  PreInv'
  <1>1. Types /\ Own(i) /\ Begins(i) /\ Reported(i)
    BY DEF IInv, PreInv
  <1>2. rollout[i] = "handle" /\ g \in returned[i] /\ LookedAt(i, g)
    BY <1>1 DEF MarkDone, MarkAborted, Own
  <1>3. /\ rollout'[i] \in {"handle", "wait", "notify"}
        /\ \A j \in Instances \ {i} : rollout'[j] = rollout[j]
        /\ UNCHANGED <<groupVars, exit, loop, requests, responses, manager>>
    BY <1>1, <1>2 DEF LookedAt, Types
  <1>4. /\ running'[i] = running[i] \ {g}
        /\ \A j \in Instances \ {i} : running'[j] = running[j] /\ returned'[j] = returned[j] /\ pending'[j] = pending[j]
    BY <1>1, <1>2 DEF LookedAt, Types
  <1>5. /\ done'[i] = done[i] \/ done'[i] = done[i] \cup {g}
        /\ \A j \in Instances \ {i} : done'[j] = done[j] /\ kept'[j] = kept[j] /\ putting'[j] = putting[j]
    BY <1>1 DEF MarkDone, MarkAborted, Types
  <1>6. OnlyAt(i)
    BY <1>3, <1>4, <1>5 DEF OnlyAt
  <1>7. at' = at /\ PreProcessing' = PreProcessing
    BY <1>3 DEF PreProcessing, manager
  <1>8. g \in running[i] /\ ~exit[i]
    BY <1>1, <1>2 DEF Own, Begins
  <1>9. Begins(i)'
    <2>1. at = "report" /\ PreProcessing =>
            InOf(requests[i]) = {} /\ running'[i] \cup done'[i] \subseteq Requests[i] /\ running'[i] \cap done'[i] = {}
      BY <1>1, <1>4, <1>5, <1>8 DEF Begins
    <2> QED
      BY <1>3, <1>7, <1>8, <2>1 DEF Begins
  <1>10. Reported(i)'
    BY <1>1, <1>3, <1>7 DEF Reported, Answer
  <1> QED
    BY <1>6, <1>9, <1>10, BeginsAt

\* wait_notification returns.
LEMMA NotifiedBegins ==
  ASSUME IInv, PreInv, NEW i \in Instances, Notified(i)
  PROVE  PreInv'
  <1>1. Types /\ Begins(i) /\ Reported(i)
    BY DEF IInv, PreInv
  <1>2. UNCHANGED <<groupVars, outputs, returned, putting, running, loop, requests, responses, manager>>
    BY DEF Notified
  <1>3. /\ rollout'[i] \in {"wait", "offload"} /\ ~exit'[i]
        /\ \A j \in Instances \ {i} : rollout'[j] = rollout[j] /\ exit'[j] = exit[j] /\ pending'[j] = pending[j]
    BY <1>1 DEF Notified, Types
  <1>4. /\ done'[i] = done[i] \/ done'[i] = {}
        /\ \A j \in Instances \ {i} : done'[j] = done[j] /\ kept'[j] = kept[j]
    BY <1>1 DEF Notified, Clear, Types
  <1>5. OnlyAt(i)
    BY <1>2, <1>3, <1>4 DEF OnlyAt
  <1>6. at' = at /\ PreProcessing' = PreProcessing
    BY <1>2 DEF PreProcessing, manager
  <1>7. Begins(i)'
    <2>1. at = "report" /\ PreProcessing =>
            InOf(requests[i]) = {} /\ running'[i] \cup done'[i] \subseteq Requests[i] /\ running'[i] \cap done'[i] = {}
      BY <1>1, <1>2, <1>4 DEF Begins
    <2> QED
      BY <1>2, <1>3, <1>6, <2>1 DEF Begins
  <1>8. Reported(i)'
    BY <1>1, <1>2, <1>3, <1>6 DEF Reported, Answer
  <1> QED
    BY <1>5, <1>7, <1>8, BeginsAt

\* An instance gives up its GPUs.
LEMMA OffloadBegins ==
  ASSUME IInv, PreInv, NEW i \in Instances, Offload(i)
  PROVE  PreInv'
  <1>1. Types /\ Shape /\ Talk(i) /\ Begins(i) /\ Reported(i)
    BY DEF IInv, PreInv
  <1>2. /\ rollout[i] = "offload" /\ rollout' = [rollout EXCEPT ![i] = "ended"]
        /\ \A j \in Instances \ {i} : responses'[j] = responses[j]
        /\ UNCHANGED <<groupVars, outputs, pending, returned, putting, status, loop, requests, manager>>
    BY <1>1 DEF Offload, Types
  <1>3. rollout'[i] = "ended" /\ \A j \in Instances \ {i} : rollout'[j] = rollout[j]
    BY <1>1, <1>2 DEF Types
  <1>4. OnlyAt(i)
    BY <1>2, <1>3 DEF OnlyAt, status
  <1>5. at' = at /\ PreProcessing' = PreProcessing
    BY <1>2 DEF PreProcessing, manager
  <1>6. at # "report"
    <2>1. ~Serving(i) /\ rollout[i] # "ended"
      BY <1>2 DEF Serving
    <2>2. i \in Nat /\ offset \in Nat
      BY <1>1, Consts DEF Shape
    <2>3. ~(i < offset)
      BY <1>1, <2>1 DEF Talk, Gone
    <2> QED
      BY <1>1, <2>1, <2>2, <2>3 DEF Talk, Reporting
  <1>7. Begins(i)'
    BY <1>1, <1>2, <1>3, <1>5 DEF Begins, status
  <1>8. Reported(i)'
    BY <1>5, <1>6 DEF Reported
  <1> QED
    BY <1>4, <1>7, <1>8, BeginsAt

\* The engine, and what of main_loop() the groups do not see.
LEMMA SameBegins ==
  ASSUME PreInv, UNCHANGED <<outputs, coroutine, status, manager>>,
         \A i \in Instances : requests'[i] = requests[i] \/ InOf(requests'[i]) = {},
         \A i \in Instances : responses'[i] = responses[i] \/ at # "report"
  PROVE  PreInv'
  <1>1. /\ at' = at /\ iter' = iter /\ reports' = reports /\ PreProcessing' = PreProcessing
        /\ rollout' = rollout /\ running' = running /\ done' = done /\ exit' = exit
    BY DEF PreProcessing, manager, coroutine, status
  <1>2. \A i \in Instances : Begins(i)'
    BY <1>1 DEF PreInv, Begins
  <1>3. \A i \in Instances : Reported(i)'
    BY <1>1 DEF PreInv, Reported, Answer
  <1> QED
    BY <1>1, <1>2, <1>3 DEF PreInv

\* main_loop() migrates out, or is asked to finish.
LEMMA LoopBegins ==
  ASSUME IInv, PreInv, NEW i \in Instances, MigrateOut(i) \/ MigratedOut(i) \/ Finish(i)
  PROVE  PreInv'
  <1>1. Types /\ Shape /\ Talk(i)
    BY DEF IInv
  <1>2. UNCHANGED <<outputs, coroutine, status, manager>>
    BY DEF MigrateOut, MigratedOut, Finish
  <1>3. CASE MigrateOut(i) \/ Finish(i)
    <2>1. /\ requests[i] # <<>> /\ Head(requests[i]).action \in {"Migrate_Out", "Finish"}
          /\ requests' = [requests EXCEPT ![i] = Tail(requests[i])] /\ responses' = responses
      BY <1>3 DEF MigrateOut, Finish, Request
    <2>2. Tail(requests[i]) = <<>>
      BY <1>1, <2>1, FirstRequest
    <2>3. requests'[i] = <<>> /\ \A j \in Instances \ {i} : requests'[j] = requests[j]
      BY <1>1, <2>1, <2>2, LoopTypes
    <2>4. InOf(requests'[i]) = {}
      BY <2>3 DEF InOf
    <2>5. \A j \in Instances : requests'[j] = requests[j] \/ InOf(requests'[j]) = {}
      BY <2>3, <2>4
    <2> QED
      BY <1>2, <2>1, <2>5, SameBegins
  <1>4. CASE MigratedOut(i)
    <2>1. loop[i] = "migrate_out" /\ requests' = requests
      BY <1>4 DEF MigratedOut
    <2>2. at # "report"
      BY <1>1, <2>1, Phases
    <2> QED
      BY <1>2, <2>1, <2>2, SameBegins
  <1> QED
    BY <1>3, <1>4

\* An instance whose tasks have all ended waits for a notification.
LEMMA Waits ==
  ASSUME Types, NEW i \in Instances, Own(i), Serving(i), rollout[i] \notin {"called", "failed"}, running[i] = {}
  PROVE  rollout[i] = "notify"
  BY DEF Types, Own, Serving

\* main_loop() ends the iteration of a rollout() that waits for it.
LEMMA FinishedBegins ==
  ASSUME IInv, PreInv, NEW i \in Instances, Finished(i)
  PROVE  PreInv'
  <1>1. Types /\ Shape /\ Talk(i) /\ Own(i) /\ Begins(i) /\ Reported(i)
    BY DEF IInv, PreInv
  <1>2. /\ loop[i] = "finish" /\ running[i] = {} /\ exit' = [exit EXCEPT ![i] = TRUE]
        /\ \A j \in Instances \ {i} : loop'[j] = loop[j]
        /\ UNCHANGED <<groupVars, outputs, coroutine, running, kept, done, requests, responses, manager>>
    BY <1>1 DEF Finished, NoneRunning, Types
  <1>3. at = "finish" /\ Serving(i)
    BY <1>1, <1>2, Phases
  <1>4. rollout[i] = "notify"
    BY <1>1, <1>2, <1>3, Waits DEF Begins
  <1>5. OnlyAt(i)
    BY <1>2 DEF OnlyAt, coroutine
  <1>6. at' = "finish" /\ rollout'[i] = "notify"
    BY <1>2, <1>3, <1>4 DEF manager, coroutine
  <1>7. Begins(i)' /\ Reported(i)'
    BY <1>6 DEF Begins, Reported
  <1> QED
    BY <1>5, <1>7, BeginsAt

\* An instance reports: what has not begun has no tasks.
LEMMA ReportBegins ==
  ASSUME IInv, PreInv, NEW i \in Instances, Report(i)
  PROVE  PreInv'
  <1>1. Types /\ Shape /\ Talk(i) /\ Own(i) /\ Begins(i)
    BY DEF IInv, PreInv
  <1>2. /\ requests[i] # <<>> /\ Head(requests[i]).action = "Report"
        /\ requests' = [requests EXCEPT ![i] = Tail(requests[i])]
        /\ responses' = [responses EXCEPT ![i] =
             Append(responses[i], [action |-> "Report", total |-> AllTasks(i), running |-> RunningTasks(i)])]
        /\ UNCHANGED <<groupVars, outputs, coroutine, status, loop, manager>>
    BY DEF Report, Request, Respond
  <1>3. Tail(requests[i]) = <<>> /\ responses[i] = <<>>
    BY <1>1, <1>2, FirstRequest, Phases
  <1>4. requests'[i] = <<>> /\ \A j \in Instances \ {i} : requests'[j] = requests[j]
    BY <1>1, <1>2, <1>3, LoopTypes
  <1>5. PICK x : x = [action |-> "Report", total |-> AllTasks(i), running |-> RunningTasks(i)]
    OBVIOUS
  <1>6. responses'[i] = <<x>> /\ \A j \in Instances \ {i} : responses'[j] = responses[j]
    <2>1. responses' = [responses EXCEPT ![i] = <<x>>]
      BY <1>2, <1>3, <1>5, Tuples
    <2> QED
      BY <1>1, <2>1, LoopTypes
  <1>7. OnlyAt(i)
    BY <1>2, <1>4, <1>6 DEF OnlyAt, coroutine, status
  <1>8. Answer(i)' = x
    BY <1>6, Tuples DEF Answer
  <1>9. /\ at' = at /\ PreProcessing' = PreProcessing /\ rollout' = rollout /\ running' = running
        /\ done' = done /\ exit' = exit
    BY <1>2 DEF PreProcessing, manager, coroutine, status
  <1>10. InOf(requests'[i]) = {}
    BY <1>4 DEF InOf
  <1>11. Begins(i)'
    BY <1>1, <1>9, <1>10 DEF Begins
  <1>12. PICK r \in Nat, d \in Nat : r = Cardinality(running[i]) /\ d = Cardinality(done[i])
    <2>1. IsFiniteSet(running[i]) /\ IsFiniteSet(done[i])
      BY <1>1, Consts, FS_Subset DEF Types
    <2> QED
      BY <2>1, FS_CardinalityType
  <1>13. x.total \in Nat /\ x.total = GroupSize * (r + d)
    <2>1. GroupSize * (r + d) \in Nat
      BY Consts
    <2> QED
      BY <1>5, <1>12, <2>1 DEF AllTasks
  <1>14. x.running \in 0..TotalTasks
    <2>1. \A g \in running[i] : Active(g) \in Nat /\ Active(g) <= GroupSize
      BY <1>1, Consts DEF Types, Active
    <2>2. RunningTasks(i) \in Nat /\ RunningTasks(i) <= GroupSize * r
      <3>1. running[i] \in SUBSET Groups /\ IsFiniteSet(running[i])
        BY <1>1, Consts, FS_Subset DEF Types
      <3> QED
        BY <1>12, <2>1, <3>1, ActiveSum DEF RunningTasks
    <2>3. PICK n \in Nat : n = Cardinality(Groups) /\ r <= n
      BY <1>1, <1>12, Consts, FS_Subset, FS_CardinalityType DEF Types
    <2>4. PICK k \in Nat : n = r + k
      <3>1. n - r \in Nat /\ n = r + (n - r)
        BY <2>3
      <3> QED
        BY <3>1
    <2>5. n * GroupSize = GroupSize * r + GroupSize * k /\ GroupSize * k \in Nat /\ GroupSize * r \in Nat
      BY <2>4, Consts
    <2>6. TotalTasks \in Nat /\ RunningTasks(i) <= TotalTasks
      BY <2>2, <2>3, <2>5 DEF TotalTasks
    <2> QED
      BY <1>5, <2>2, <2>6
  <1>15. x \in [action : {"Report"}, total : Nat, running : 0..TotalTasks]
    BY <1>5, <1>13, <1>14
  <1>16. ASSUME at = "report", PreProcessing
         PROVE  /\ x.total <= GroupSize * Cardinality(Requests[i])
                /\ rollout[i] = "called" => x.total = 0
    <2>1. running[i] \cup done[i] \subseteq Requests[i] /\ running[i] \cap done[i] = {}
      BY <1>1, <1>16 DEF Begins
    <2>2. PICK q \in Nat : q = Cardinality(Requests[i]) /\ r + d <= q
      <3>1. IsFiniteSet(Requests[i]) /\ IsFiniteSet(running[i]) /\ IsFiniteSet(done[i])
        BY <1>1, Consts, FS_Subset DEF Types
      <3>2. Cardinality(running[i] \cup done[i]) = r + d - Cardinality(running[i] \cap done[i])
        BY <1>12, <3>1, FS_Union
      <3>3. Cardinality(running[i] \cap done[i]) = 0
        BY <2>1, FS_EmptySet
      <3>4. Cardinality(running[i] \cup done[i]) <= Cardinality(Requests[i])
        BY <2>1, <3>1, FS_Subset
      <3> QED
        BY <3>1, <3>2, <3>3, <3>4, FS_CardinalityType
    <2>3. PICK k \in Nat : q = (r + d) + k
      <3>1. q - (r + d) \in Nat /\ q = (r + d) + (q - (r + d))
        BY <2>2
      <3> QED
        BY <3>1
    <2>4. GroupSize * q = GroupSize * (r + d) + GroupSize * k /\ GroupSize * k \in Nat /\ GroupSize * (r + d) \in Nat
      BY <2>3, Consts
    <2>5. x.total <= GroupSize * q
      BY <1>13, <2>4
    <2>6. rollout[i] = "called" => r = 0 /\ d = 0
      BY <1>1, <1>12, FS_EmptySet DEF Begins
    <2>7. GroupSize * (0 + 0) = 0
      BY Consts
    <2> QED
      BY <1>13, <2>2, <2>5, <2>6, <2>7
  <1>17. Reported(i)'
    BY <1>8, <1>9, <1>15, <1>16 DEF Reported
  <1> QED
    BY <1>7, <1>11, <1>17, BeginsAt

\* Groups come in after all instances have begun.
LEMMA MigrateInBegins ==
  ASSUME IInv, PreInv, NEW i \in Instances, MigrateIn(i)
  PROVE  PreInv'
  <1>1. Types /\ Shape /\ Talk(i) /\ Own(i) /\ Begins(i) /\ Reported(i)
    BY DEF IInv, PreInv
  <1>2. /\ requests[i] # <<>> /\ Head(requests[i]).action = "Migrate_In"
        /\ requests' = [requests EXCEPT ![i] = Tail(requests[i])]
        /\ UNCHANGED <<outputs, rollout, pending, returned, putting, kept, done, loop, responses, manager>>
        /\ exit' = [exit EXCEPT ![i] = exit[i] \/ running[i] = {}]
        /\ running' = [running EXCEPT ![i] = running[i] \cup ToSet(Head(requests[i]).data)]
    BY DEF MigrateIn, Request, NotifyIdle, coroutine
  <1>3. Serving(i) /\ Head(requests[i]) \in Ins /\ InOf(requests[i]) = ToSet(Head(requests[i]).data)
    BY <1>1, <1>2, FirstRequest, Phases
  <1>4. ~(at = "report" /\ PreProcessing)
    <2>1. Head(requests[i]).data \in Seq(Groups) /\ Head(requests[i]).data # <<>>
      BY <1>3 DEF Ins
    <2>2. PICK s \in Seq(Groups) : s = Head(requests[i]).data /\ s # <<>>
      BY <2>1
    <2>3. Len(s) \in Nat /\ Len(s) # 0
      BY <2>2, EmptySeq
    <2>4. 1 \in 1..Len(s)
      BY <2>3
    <2>5. s[1] \in ToSet(s)
      BY <2>4, Elements
    <2> QED
      BY <1>1, <1>3, <2>2, <2>5 DEF Begins
  <1>5. rollout[i] \notin {"called", "failed"}
    BY <1>1, <1>4 DEF Begins
  <1>6. exit'[i] = (exit[i] \/ running[i] = {}) /\ \A j \in Instances \ {i} : exit'[j] = exit[j]
    BY <1>1, <1>2 DEF Types
  <1>7. \A j \in Instances \ {i} : running'[j] = running[j] /\ requests'[j] = requests[j]
    BY <1>1, <1>2 DEF Types
  <1>8. OnlyAt(i)
    BY <1>2, <1>6, <1>7 DEF OnlyAt
  <1>9. at' = at /\ PreProcessing' = PreProcessing /\ rollout' = rollout /\ responses' = responses
    BY <1>2 DEF PreProcessing, manager
  <1>10. exit'[i] => rollout[i] = "notify"
    BY <1>1, <1>3, <1>5, <1>6, Waits DEF Begins
  <1>11. Begins(i)'
    BY <1>4, <1>5, <1>9, <1>10 DEF Begins
  <1>12. Reported(i)'
    BY <1>1, <1>9 DEF Reported, Answer
  <1> QED
    BY <1>8, <1>11, <1>12, BeginsAt

\* A step of the manager when all have begun.
LEMMA ManagerBegins ==
  ASSUME PreInv, UNCHANGED <<rollout, status>>, \A i \in Instances : rollout[i] # "called",
         at' \in {"report", "await_actor"} => iter' # -1,
         at' = "report" => \A i \in Instances : responses'[i] = <<>>,
         reports' \in [Instances -> 0..TotalTasks]
  PROVE  PreInv'
  <1>1. rollout' = rollout /\ running' = running /\ done' = done /\ exit' = exit
    BY DEF status
  <1>2. at' \in {"report", "await_actor"} => ~PreProcessing'
    BY DEF PreProcessing
  <1>3. \A i \in Instances : Begins(i)'
    BY <1>1, <1>2 DEF PreInv, Begins
  <1>4. \A i \in Instances : Reported(i)'
    BY DEF Reported
  <1> QED
    BY <1>2, <1>3, <1>4 DEF PreInv

\* A step begins with pre_process.
LEMMA ScheduleBegins ==
  ASSUME IInv, PreInv, PreProcess, Schedule
  PROVE  PreInv'
  <1>1. Types /\ Shape /\ Aborts /\ (\A j \in Instances : Talk(j) /\ Own(j)) /\ \A h \in Groups : Placed(h)
    BY DEF IInv
  <1>2. /\ at = "idle" /\ rollout' = [i \in Instances |-> "called"] /\ iter' = -1 /\ at' = "report"
        /\ Scatter(Instances, [action |-> "Report"])
        /\ UNCHANGED <<pending, returned, status, loop, responses, reports>>
    BY DEF Schedule
  <1>3. \A i \in Instances : Gone(i) /\ running[i] = {} /\ ~exit[i]
    <2>1. aborted \in [Groups -> Nat]
      BY <1>1 DEF Types
    <2> QED
      BY <1>1, <1>2, <2>1, IdleFacts
  <1>4. \A i \in Instances : done[i] = {}
    BY <1>1, <1>3 DEF Own, Gone, Serving
  <1>5. \A i \in Instances : InOf(requests'[i]) = {}
    <2>1. PICK m : m = [action |-> "Report"]
      OBVIOUS
    <2>2. \A i \in Instances : requests'[i] = Append(requests[i], m)
      BY <1>2, <2>1, Scattered
    <2>3. \A i \in Instances : requests'[i] = <<m>>
      BY <1>3, <2>2, Tuples DEF Gone
    <2> QED
      BY <2>1, <2>3, Tuples DEF InOf
  <1>6. \A i \in Instances : Begins(i)'
    BY <1>2, <1>3, <1>4, <1>5 DEF Begins, PreProcessing, status
  <1>7. \A i \in Instances : Reported(i)'
    BY <1>2, <1>3 DEF Reported, Gone
  <1> QED
    BY <1>2, <1>6, <1>7 DEF PreInv

\* The actor is ready: the instances have begun.
LEMMA ActorReadyBegins ==
  ASSUME IInv, PreInv, ActorReady
  PROVE  PreInv'
  <1>1. Shape /\ \A j \in Instances : Talk(j)
    BY DEF IInv
  <1>2. /\ at = "await_actor" /\ UNCHANGED <<rollout, status, responses, reports>>
        /\ FinishAll \/ ReportAll \/ NextIter
    BY DEF ActorReady, coroutine
  <1>3. \A i \in Instances : rollout[i] # "called"
    BY <1>2 DEF PreInv, Begins
  <1>4. iter # -1
    BY <1>2 DEF PreInv, PreProcessing
  <1>5. iter' # -1
    BY <1>1, <1>2, <1>4, Iterations DEF FinishAll, ReportAll, NextIter
  <1>6. \A i \in Instances : responses'[i] = <<>>
    <2> TAKE i \in Instances
    <2>1. i < offset \/ i >= offset
      BY <1>1, Consts DEF Shape
    <2> QED
      BY <1>1, <1>2, <2>1 DEF Talk, Gone, Quiet
  <1> QED
    BY <1>2, <1>3, <1>5, <1>6, ManagerBegins DEF PreInv

\* No tasks are as few as there can be.
LEMMA NoTasks == 0 \in 0..TotalTasks
  <1>1. PICK n \in Nat : n = Cardinality(Groups)
    BY Consts, FS_CardinalityType
  <1>2. n * GroupSize \in Nat
    BY Consts
  <1> QED
    BY <1>1, <1>2 DEF TotalTasks

\* The manager gives the groups to the instances that stay, and the instances leave.
LEMMA LeavingBegins ==
  ASSUME IInv, PreInv, MigrateGroups \/ Released
  PROVE  PreInv'
  <1>1. Shape
    BY DEF IInv
  <1>2. at \in {"migrate", "finish"} /\ UNCHANGED <<rollout, status>>
    BY DEF MigrateGroups, Released, coroutine
  <1>3. \A i \in Instances : rollout[i] # "called"
    BY <1>2 DEF PreInv, Begins
  <1>4. at' # "report" /\ (at' = "await_actor" => iter' # -1)
    BY <1>1, Iterations DEF MigrateGroups, Released, NextIter
  <1>5. reports' \in [Instances -> 0..TotalTasks]
    <2>1. reports' = [i \in Instances |-> 0] \/ reports' = reports
      BY DEF MigrateGroups, Released
    <2> QED
      BY <2>1, NoTasks DEF PreInv
  <1> QED
    BY <1>2, <1>3, <1>4, <1>5, ManagerBegins

\* pre_process borrows: the instances have reported all tasks, and so have all begun.
LEMMA BorrowsBegun ==
  ASSUME IInv, PreInv, at = "report", PreProcessing, \A i \in Alive : responses[i] # <<>>,
         NEW tasks, Borrows(MapThenSumSet(LAMBDA i : Answer(i).total, Alive), tasks)
  PROVE  \A i \in Instances : rollout[i] # "called"
  <1> DEFINE Body(sum) == [t \in SUBSET Alive |-> IF t = {} THEN 0
               ELSE Answer(CHOOSE x \in t : TRUE).total + sum[t \ {CHOOSE x \in t : TRUE}]]
             total == CHOOSE sum : sum = Body(sum)
             F == [i \in Alive |-> Answer(i).total]
             R == Requests
  <1>1. Shape
    BY DEF IInv
  <1>2. Alive = Instances /\ IsFiniteSet(Alive)
    <2>1. offset \in 0..NumInstances /\ offset = 0
      BY <1>1 DEF Shape
    <2> QED
      BY <2>1, AliveFacts DEF Alive, Instances
  <1>3. total[Alive] = TotalTasks
    BY DEF Borrows, MapThenSumSet, MapThenFoldSet
  <1>4. \A i \in Instances : /\ Answer(i).total \in Nat
                             /\ Answer(i).total <= GroupSize * Cardinality(Requests[i])
                             /\ rollout[i] = "called" => Answer(i).total = 0
    BY <1>2 DEF PreInv, Reported
  <1>5. \A t \in SUBSET Alive : t # {} => F[Some(t)] = Answer(CHOOSE x \in t : TRUE).total
    <2> TAKE t \in SUBSET Alive
    <2> HAVE t # {}
    <2>1. (CHOOSE x \in t : TRUE) \in Alive
      OBVIOUS
    <2> QED
      BY <2>1 DEF Some
  <1>6. \A sum : Summing(F, Alive, sum) <=> sum = Body(sum)
    BY <1>5 DEF Summing, Some
  <1>7. F \in [Alive -> Nat] /\ \A i \in Alive : F[i] = Answer(i).total
    BY <1>2, <1>4
  <1>8. \E sum : Summing(F, Alive, sum)
    <2> HIDE DEF F
    <2> QED
      BY <1>2, <1>7, SumExists
  <1>9. Summing(F, Alive, total)
    <2> HIDE DEF Body, F
    <2> QED
      BY <1>6, <1>8
  <1>10. /\ \A x \in Alive : IsFiniteSet(R[x])
         /\ \A x, y \in Alive : x # y => R[x] \cap R[y] = {}
         /\ UNION {R[x] : x \in Alive} = Groups
    BY <1>2, Consts, FS_Subset
  <1> HIDE DEF F, total, Body
  <1>11. Parts(Alive, GroupSize, F, R)
    BY <1>2, <1>4, <1>7, <1>10 DEF Parts
  <1>12. Whole(Alive, GroupSize, F, R, total[Alive])
    BY <1>2, <1>7, <1>9, <1>11, Consts, SumBound
  <1>13. \A x \in Alive : F[x] = GroupSize * Cardinality(R[x])
    <2>1. PICK n \in Nat : n = Cardinality(Groups)
      BY Consts, FS_CardinalityType
    <2>2. n * GroupSize = GroupSize * n
      BY Consts
    <2>3. total[Alive] = GroupSize * Cardinality(UNION {R[x] : x \in Alive})
      BY <1>3, <1>10, <2>1, <2>2 DEF TotalTasks
    <2> QED
      BY <1>12, <2>3 DEF Whole
  <1>14. ASSUME NEW i \in Instances, rollout[i] = "called"
         PROVE  FALSE
    <2>1. GroupSize * Cardinality(Requests[i]) = 0
      BY <1>2, <1>4, <1>7, <1>13, <1>14
    <2>2. PICK q \in Nat : q = Cardinality(Requests[i]) /\ q # 0
      BY <1>2, <1>10, Consts, FS_CardinalityType, FS_EmptySet
    <2>3. GroupSize * q # 0
      BY <2>2, Consts
    <2> QED
      BY <2>1, <2>2, <2>3
  <1> QED
    BY <1>14

\* pre_process and migrate_policy decide on the reports.
LEMMA DecideBegins ==
  ASSUME IInv, PreInv, Decide
  PROVE  PreInv'
  <1>1. Types /\ Shape /\ \A j \in Instances : Talk(j)
    BY DEF IInv
  <1>2. at = "report" /\ Gather(Alive) /\ UNCHANGED <<groupVars, outputs, coroutine, status, loop, offset>>
    BY DEF Decide
  <1>3. /\ \A i \in Instances : i \in Alive <=> i >= offset
        /\ \A i \in Instances : i \in Alive <=> ~(i < offset)
        /\ Alive \subseteq Instances
    BY <1>1, AliveFacts DEF Shape
  <1>4. \A i \in Alive : responses[i] # <<>>
    BY <1>2 DEF Gather
  <1>5. \A i \in Instances : responses'[i] = <<>>
    <2> TAKE i \in Instances
    <2>1. responses'[i] = IF i \in Alive THEN Tail(responses[i]) ELSE responses[i]
      BY <1>2, Gathered
    <2>2. CASE i \in Alive
      <3>1. PICK x : responses[i] = <<x>>
        BY <1>1, <1>2, <1>3, <1>4, <2>2 DEF Talk, Reporting
      <3> QED
        BY <2>1, <2>2, <3>1, Tuples
    <2>3. CASE i \notin Alive
      BY <1>1, <1>3, <2>1, <2>3 DEF Talk, Gone
    <2> QED
      BY <2>2, <2>3
  <1>6. reports' \in [Instances -> 0..TotalTasks]
    <2>1. \A i \in Alive : Answer(i).running \in 0..TotalTasks
      BY <1>2, <1>3, <1>4 DEF PreInv, Reported
    <2>2. reports' = [i \in Instances |-> IF at' = "migrate" /\ i \in Alive THEN Answer(i).running ELSE 0]
      BY DEF Decide
    <2> QED
      BY <2>1, <2>2, NoTasks
  <1>7. \/ PreProcessing /\ ReportAll
        \/ /\ PreProcessing /\ Migrate(Borrowed)
           /\ \E tasks : Borrows(MapThenSumSet(LAMBDA i : Answer(i).total, Alive), tasks)
        \/ ~PreProcessing /\ iter' # -1
    <2>1. ~PreProcessing /\ (FinishAll \/ NextIter \/ \E n \in 0..(Cardinality(Alive) - 1) : Migrate(n)) => iter' # -1
      BY <1>1, Iterations DEF PreProcessing, FinishAll, NextIter, Migrate
    <2> QED
      BY <2>1 DEF Decide
  <1>8. CASE PreProcessing /\ ReportAll
    <2>1. /\ at' = "report" /\ PreProcessing' /\ Scatter(Alive, [action |-> "Report"])
          /\ rollout' = rollout /\ running' = running /\ done' = done /\ exit' = exit
      BY <1>2, <1>8 DEF ReportAll, PreProcessing, coroutine, status
    <2>2. \A i \in Instances : InOf(requests'[i]) = InOf(requests[i])
      <3>1. "Report" \in Actions
        BY DEF Actions
      <3>2. \A i \in Instances : i \in Alive => QNone(requests[i])
        BY <1>1, <1>2, <1>3, <1>4 DEF Talk, Reporting, QNone
      <3> QED
        BY <2>1, <3>1, <3>2, Asks
    <2>3. \A i \in Instances : Begins(i)'
      BY <1>2, <1>8, <2>1, <2>2 DEF PreInv, Begins
    <2>4. \A i \in Instances : Reported(i)'
      BY <1>5 DEF Reported
    <2> QED
      BY <1>6, <2>1, <2>3, <2>4 DEF PreInv
  <1>9. CASE /\ PreProcessing /\ Migrate(Borrowed)
             /\ \E tasks : Borrows(MapThenSumSet(LAMBDA i : Answer(i).total, Alive), tasks)
    <2>1. \A i \in Instances : rollout[i] # "called"
      BY <1>2, <1>4, <1>9, BorrowsBegun
    <2>2. at' = "migrate"
      BY <1>9 DEF Migrate
    <2> QED
      BY <1>2, <1>6, <2>1, <2>2, ManagerBegins DEF coroutine
  <1>10. CASE ~PreProcessing /\ iter' # -1
    <2>1. \A i \in Instances : rollout[i] # "called"
      BY <1>10 DEF PreInv, Begins
    <2> QED
      BY <1>2, <1>5, <1>6, <1>10, <2>1, ManagerBegins DEF coroutine
  <1> QED
    BY <1>7, <1>8, <1>9, <1>10

\* With pre_process the invariant of its wait is inductive.
LEMMA PreInitHolds == Init => PreInv
  <1> SUFFICES ASSUME Init PROVE PreInv
    OBVIOUS
  <1>1. \A i \in Instances : rollout[i] = "ended" /\ ~exit[i] /\ at = "idle"
    BY DEF Init
  <1>2. reports \in [Instances -> 0..TotalTasks]
    BY NoTasks DEF Init
  <1>3. at # "await_actor"
    BY DEF Init
  <1> QED
    BY <1>1, <1>2, <1>3 DEF PreInv, Begins, Reported

\* Every step keeps it.
LEMMA PreNextKeeps == PreProcess /\ IInv /\ PreInv /\ [Next]_vars => PreInv'
  <1> SUFFICES ASSUME PreProcess, IInv, PreInv, [Next]_vars PROVE PreInv'
    OBVIOUS
  <1>1. CASE Schedule
    BY <1>1, ScheduleBegins
  <1>2. CASE Manager
    BY <1>2, ActorReadyBegins, DecideBegins, LeavingBegins DEF Manager
  <1>3. ASSUME NEW i \in Instances, Generation(i)
        PROVE  PreInv'
    BY <1>3, SameBegins DEF Generation, SequenceCompletes, SequenceAborts
  <1>4. ASSUME NEW i \in Instances, Rollout(i)
        PROVE  PreInv'
    BY <1>4, BeginBegins, WakeBegins, PutOutBegins, MarkBegins, NotifiedBegins, OffloadBegins DEF Rollout, Handle
  <1>5. ASSUME NEW i \in Instances, MainLoop(i)
        PROVE  PreInv'
    BY <1>5, ReportBegins, MigrateInBegins, LoopBegins, FinishedBegins DEF MainLoop
  <1>6. CASE UNCHANGED vars
    BY <1>6, SameBegins DEF vars
  <1> QED
    BY <1>1, <1>2, <1>3, <1>4, <1>5, <1>6 DEF Next

\* The messages of a queue.
LEMMA Messages ==
  ASSUME IInv, PreInv, NEW i \in Instances
  PROVE  requests[i] \in Seq(Message) /\ responses[i] \in Seq(Message)
  <1>1. Types /\ Shape /\ Talk(i) /\ Reported(i)
    BY DEF IInv, PreInv
  <1>2. \A m : m \in Message => <<m>> \in Seq(Message)
    OBVIOUS
  <1>3. \A m, n : m \in Message /\ n \in Message => <<m, n>> \in Seq(Message)
    OBVIOUS
  <1>4. <<>> \in Seq(Message)
    OBVIOUS
  <1>5. \A a \in Actions : [action |-> a] \in Message
    BY DEF Actions, Message
  <1>6. Ins \subseteq Message
    BY DEF Ins, Message
  <1>7. requests[i] \in Seq(Message)
    BY <1>2, <1>3, <1>4, <1>5, <1>6, QueueForms DEF QNone, QOne
  <1>8. \A s \in Seq(Groups) : [action |-> "Migrate_Out", data |-> s] \in Message
    BY DEF Message
  <1>9. [action |-> "Offloaded"] \in Message
    BY DEF Message
  <1>10. ASSUME at = "report", responses[i] # <<>>, NEW x, responses[i] = <<x>>
         PROVE  x \in Message
    <2>1. x \in [action : {"Report"}, total : Nat, running : 0..TotalTasks]
      BY <1>1, <1>10, Tuples DEF Reported, Answer
    <2>2. \A n \in 0..TotalTasks : n \in Nat
      BY FS_CardinalityType, Consts DEF TotalTasks
    <2> QED
      BY <2>1, <2>2 DEF Message
  <1>11. responses[i] \in Seq(Message)
    <2>1. i < offset \/ i >= offset
      BY <1>1, Consts DEF Shape
    <2>2. kept[i] \in Seq(Groups)
      BY <1>1 DEF Types
    <2>3. CASE responses[i] = <<>>
      BY <1>4, <2>3
    <2>4. CASE responses[i] # <<>> /\ at = "report"
      <3>1. PICK x : responses[i] = <<x>>
        BY <1>1, <2>1, <2>4 DEF Talk, Gone, Reporting
      <3> QED
        BY <1>2, <1>10, <2>4, <3>1
    <2>5. CASE responses[i] # <<>> /\ at # "report"
      <3>1. \/ responses[i] = <<[action |-> "Migrate_Out", data |-> kept[i]]>>
            \/ responses[i] = <<[action |-> "Offloaded"]>>
        BY <1>1, <2>1, <2>5 DEF Talk, Gone, Quiet, MovingOut, Finishing, Shape
      <3> QED
        BY <1>2, <1>8, <1>9, <2>2, <3>1
    <2> QED
      BY <2>3, <2>4, <2>5
  <1> QED
    BY <1>7, <1>11

\* No failure follows from the two invariants.
LEMMA InvNoFailure == IInv /\ PreInv => NoFailure
  <1> SUFFICES ASSUME IInv, PreInv PROVE NoFailure
    OBVIOUS
  <1>1. Types /\ Shape
    BY DEF IInv
  <1>2. completed \in [Groups -> 0..GroupSize] /\ aborted \in [Groups -> 0..GroupSize]
        /\ \A g \in Groups : Active(g) >= 0
    <2>1. \A g \in Groups : /\ completed[g] \in 0..GroupSize /\ aborted[g] \in 0..GroupSize
                            /\ Active(g) >= 0
      BY <1>1, Consts DEF Types, Active
    <2> QED
      BY <1>1, <2>1 DEF Types
  <1>3. requests \in [Instances -> Seq(Message)] /\ responses \in [Instances -> Seq(Message)]
    <2>1. requests = [i \in Instances |-> requests[i]] /\ responses = [i \in Instances |-> responses[i]]
      BY <1>1 DEF Types
    <2>2. \A i \in Instances : requests[i] \in Seq(Message) /\ responses[i] \in Seq(Message)
      BY Messages
    <2> QED
      BY <2>1, <2>2
  <1>4. leaving \subseteq Instances /\ offset \in 0..NumInstances
    <2>1. PICK n \in Nat : n = NumInstances
      BY Consts
    <2>2. PICK o \in 0..n : o = offset
      BY <1>1, <2>1 DEF Shape
    <2>3. CASE leaving = {}
      BY <2>1, <2>2, <2>3
    <2>4. ASSUME NEW k \in 1..n, leaving = o..(o + k - 1), o + k <= n
          PROVE  leaving \subseteq Instances
      BY <2>1, <2>4 DEF Instances
    <2> QED
      BY <1>1, <2>1, <2>2, <2>3, <2>4 DEF Shape
  <1>5. at \in {"idle", "report", "await_actor", "migrate", "finish"} /\ iter \in -1..(Minibatches - 1)
    BY <1>1 DEF Shape
  <1>6. reports \in [Instances -> 0..TotalTasks]
    BY DEF PreInv
  <1>7. TypeOK
    BY <1>1, <1>2, <1>3, <1>4, <1>5, <1>6 DEF TypeOK, Types
  <1>8. NoStaleEvent /\ \A i \in Instances : rollout[i] # "failed"
    BY DEF PreInv, Begins, NoStaleEvent
  <1> QED
    BY <1>5, <1>7, <1>8 DEF NoFailure

\* With pre_process no assertion of rollout() and no check of the manager
\* fails, no instance migrates before it has begun, and an event is only set
\* for a rollout() that waits for it: for any number of instances, groups and
\* sequences.  The hypothesis is needed: pre_process is what waits until the
\* tasks of all instances have been reported.  Without it an instance that has
\* not begun reports no tasks, and may be told to finish before it begins.
THEOREM NoFailureHolds == PreProcess /\ Spec => []NoFailure
  <1>1. Init => PreInv /\ IInv
    BY PreInitHolds, InitHolds
  <1>2. PreProcess /\ IInv /\ PreInv /\ [Next]_vars => PreInv' /\ IInv'
    BY PreNextKeeps, NextKeeps
  <1>3. PreProcess => PreProcess'
    OBVIOUS
  <1>4. IInv /\ PreInv => NoFailure
    BY InvNoFailure
  <1> QED
    BY <1>1, <1>2, <1>3, <1>4, PTL DEF Spec

=============================================================================
