---------------------------- MODULE RefCountSteps ----------------------------
(***************************************************************************)
(* Facts about the operators of modules RefCount and RefCountInv: the bits *)
(* of a count word, sums over the threads, and the code of a thread as a   *)
(* sequence, a set and a bag of micro-operations.  Then what each action   *)
(* of RefCount does to the micro-operations of the thread that takes it,   *)
(* and type correctness.                                                   *)
(***************************************************************************)
EXTENDS RefCountInv, FiniteSetTheorems, SequenceTheorems, TLAPS

-----------------------------------------------------------------------------
(* The count word.                                                         *)

(* The remainder of a number below three times the divisor.                *)
LEMMA Mod ==
  ASSUME NEW n \in Nat \ {0}, NEW a \in Nat
  PROVE  /\ a < n => a % n = a
         /\ a >= n /\ a < 2 * n => a % n = a - n
         /\ a >= 2 * n /\ a < 3 * n => a % n = a - 2 * n
         /\ a % n \in 0..(n - 1)
<1>1. a < n => a % n = a
  OBVIOUS
<1>2. a >= n /\ a < 2 * n => a % n = a - n
  OBVIOUS
<1>3. a >= 2 * n /\ a < 3 * n => a % n = a - 2 * n
  OBVIOUS
<1>4. a % n \in 0..(n - 1)
  OBVIOUS
<1>5. QED
  BY <1>1, <1>2, <1>3, <1>4

(* The constants of the count word are numbers, and Nil is no value and no *)
(* thread.                                                                 *)
LEMMA Numbers ==
  /\ SHARED = 2 * SATURATED /\ COUNT_MASK = SATURATED - 1 /\ SATURATED \in Nat
  /\ SHARED \in Nat /\ COUNT_MASK \in Nat /\ SATURATED >= 2
  /\ Nil \notin Object /\ Nil \notin Thread
  BY RefCountAssumption DEF SHARED, COUNT_MASK

(* A count word is in one of four ranges, told apart by its two bits: the  *)
(* count alone, saturated, shared with a count, shared and saturated.      *)
LEMMA Words ==
  ASSUME NEW w \in 0..(2 * SHARED - 1)
  PROVE  /\ w < SATURATED => ~IsShared(w) /\ ~IsSaturated(w) /\ Count(w) = w
         /\ w >= SATURATED /\ w < SHARED => ~IsShared(w) /\ IsSaturated(w)
         /\ w >= SHARED /\ w <= SHARED + COUNT_MASK =>
              IsShared(w) /\ ~IsSaturated(w) /\ Count(w) = w - SHARED
         /\ w > SHARED + COUNT_MASK => IsShared(w) /\ IsSaturated(w)
         /\ Count(w) \in 0..COUNT_MASK
<1> DEFINE S == SATURATED
           D == SHARED
<1>1. S \in Nat \ {0, 1} /\ COUNT_MASK = S - 1
  BY RefCountAssumption DEF COUNT_MASK
<1>2. D = 2 * S /\ D \in Nat \ {0} /\ w \in Nat /\ w < 2 * D
  BY <1>1 DEF SHARED
<1>3. /\ w < S => w % S = w
      /\ w >= 2 * S /\ w < 3 * S => w % S = w - 2 * S
      /\ w % S \in 0..(S - 1)
  BY <1>1, <1>2, Mod
<1>4. /\ w < D => w % D = w
      /\ w >= D => w % D = w - D
  BY <1>2, Mod
<1>5. w >= SHARED <=> IsShared(w)
  BY DEF IsShared
<1>6. IsSaturated(w) <=> w % D >= S
  BY DEF IsSaturated
<1>7. Count(w) = w % S
  BY DEF Count
<1> HIDE DEF S, D
<1>8. S = SATURATED /\ D = SHARED
  BY DEF S, D
<1>9. QED
  BY <1>1, <1>2, <1>3, <1>4, <1>5, <1>6, <1>7, <1>8

-----------------------------------------------------------------------------
(* Sums over the threads.                                                  *)

(* There are finitely many threads.                                        *)
LEMMA ThreadFinite ==
  /\ IsFiniteSet(Thread) /\ Cardinality(Thread) \in Nat /\ Cardinality(Thread) <= SATURATED
  BY RefCountAssumption, FS_CardinalityType

(* The part of a sum that one thread contributes is a column of its size.  *)
LEMMA Column ==
  ASSUME NEW t, NEW k \in Nat
  PROVE  IsFiniteSet({t} \X (1..k)) /\ Cardinality({t} \X (1..k)) = k
<1> DEFINE f == [i \in 1..k |-> <<t, i>>]
<1>1. f \in Bijection(1..k, {t} \X (1..k))
  <2>1. f \in [1..k -> {t} \X (1..k)]
    OBVIOUS
  <2>2. ASSUME NEW a \in 1..k, NEW b \in 1..k, f[a] = f[b] PROVE a = b
    BY <2>2
  <2>3. ASSUME NEW x \in {t} \X (1..k) PROVE \E i \in 1..k : f[i] = x
    OBVIOUS
  <2>4. QED
    BY <2>1, <2>2, <2>3 DEF Bijection, Injection, Surjection, IsInjective
<1>2. IsFiniteSet(1..k) /\ Cardinality(1..k) = k
  BY FS_Interval
<1>3. ExistsBijection(1..k, {t} \X (1..k))
  BY <1>1 DEF ExistsBijection
<1>4. QED
  BY <1>2, <1>3, FS_Bijection

(* The columns of all threads.                                             *)
Columns(n) == UNION {{t} \X (1..n[t]) : t \in Thread}

(* A sum over the threads is a number.                                     *)
LEMMA TotalFinite ==
  ASSUME NEW n \in [Thread -> Nat]
  PROVE  IsFiniteSet(Columns(n)) /\ Total(n) = Cardinality(Columns(n)) /\ Total(n) \in Nat
<1> DEFINE C == {{t} \X (1..n[t]) : t \in Thread}
           f == [t \in Thread |-> {t} \X (1..n[t])]
<1>1. f \in Surjection(Thread, C)
  BY DEF Surjection
<1>2. IsFiniteSet(C)
  BY <1>1, ThreadFinite, FS_Surjection
<1>3. \A T \in C : IsFiniteSet(T)
  <2>1. ASSUME NEW u \in Thread PROVE IsFiniteSet({u} \X (1..n[u]))
    BY Column
  <2>2. QED
    BY <2>1
<1>4. IsFiniteSet(UNION C)
  BY <1>2, <1>3, FS_UNION
<1>5. Total(n) = Cardinality(Columns(n))
  BY DEF Total, Columns
<1>6. QED
  BY <1>4, <1>5, FS_CardinalityType DEF Columns

(* What a change of one thread's part does to the sum.                     *)
LEMMA TotalStep ==
  ASSUME NEW n \in [Thread -> Nat], NEW t \in Thread, NEW m \in Nat
  PROVE  Total([n EXCEPT ![t] = m]) = (Total(n) - n[t]) + m
<1> DEFINE n1 == [n EXCEPT ![t] = m]
           R == {x \in Columns(n) : x[1] # t}
<1>1. n1 \in [Thread -> Nat] /\ n1[t] = m /\ \A u \in Thread : u # t => n1[u] = n[u]
  OBVIOUS
<1>2. Columns(n) = R \cup ({t} \X (1..n[t])) /\ R \cap ({t} \X (1..n[t])) = {}
  BY DEF Columns
<1> HIDE DEF n1
<1>3. Columns(n1) = R \cup ({t} \X (1..m)) /\ R \cap ({t} \X (1..m)) = {}
  <2>1. ASSUME NEW x \in Columns(n1) PROVE x \in R \cup ({t} \X (1..m))
    BY <1>1, <2>1 DEF Columns
  <2>2. ASSUME NEW x \in R \cup ({t} \X (1..m)) PROVE x \in Columns(n1)
    BY <1>1, <2>2 DEF Columns
  <2>3. R \cap ({t} \X (1..m)) = {}
    OBVIOUS
  <2>4. QED
    BY <2>1, <2>2, <2>3
<1>4. /\ IsFiniteSet(Columns(n))
      /\ Total(n) = Cardinality(Columns(n)) /\ Total(n1) = Cardinality(Columns(n1))
  BY <1>1, TotalFinite
<1>5. IsFiniteSet(R)
  <2>1. R \in SUBSET Columns(n)
    OBVIOUS
  <2>2. QED
    BY <2>1, <1>4, FS_Subset
<1> HIDE DEF R
<1>6. ASSUME NEW k \in Nat, R \cap ({t} \X (1..k)) = {}
      PROVE  Cardinality(R \cup ({t} \X (1..k))) = Cardinality(R) + k
  <2> DEFINE col == {t} \X (1..k)
  <2>1. IsFiniteSet(col) /\ Cardinality(col) = k
    BY Column
  <2>2. R \cap col = {}
    BY <1>6
  <2> HIDE DEF col
  <2>3. Cardinality(R \cup col) = Cardinality(R) + Cardinality(col) - Cardinality(R \cap col)
    BY <1>5, <2>1, FS_Union
  <2>4. Cardinality(R \cap col) = 0
    BY <2>2, FS_EmptySet
  <2>5. Cardinality(R) \in Nat
    BY <1>5, FS_CardinalityType
  <2>6. QED
    BY <2>1, <2>3, <2>4, <2>5 DEF col
<1>7. Cardinality(Columns(n)) = Cardinality(R) + n[t]
  BY <1>2, <1>6
<1>8. Cardinality(Columns(n1)) = Cardinality(R) + m
  BY <1>3, <1>6
<1>9. Cardinality(R) \in Nat /\ n[t] \in Nat
  BY <1>5, FS_CardinalityType
<1>10. QED
  BY <1>4, <1>7, <1>8, <1>9 DEF n1

(* A sum is at least the number of threads that contribute to it.          *)
LEMMA TotalAtLeast ==
  ASSUME NEW n \in [Thread -> Nat], NEW U \in SUBSET Thread, \A u \in U : n[u] >= 1
  PROVE  Cardinality(U) <= Total(n)
<1> DEFINE f == [u \in U |-> <<u, 1>>]
<1>1. f \in [U -> Columns(n)]
  BY DEF Columns
<1>2. f \in Injection(U, Columns(n))
  BY <1>1 DEF Injection, IsInjective
<1>3. QED
  BY <1>2, TotalFinite, FS_Injection

(* A sum in which each thread of U contributes, and t once more, exceeds   *)
(* the number of threads in U.                                             *)
LEMMA TotalMore ==
  ASSUME NEW n \in [Thread -> Nat], NEW U \in SUBSET Thread, \A u \in U : n[u] >= 1,
         NEW t \in Thread, n[t] >= 1, t \in U => n[t] >= 2
  PROVE  Cardinality(U) + 1 <= Total(n)
<1> DEFINE n1 == [n EXCEPT ![t] = n[t] - 1]
<1>1. n[t] - 1 \in Nat
  OBVIOUS
<1>2. n1 \in [Thread -> Nat] /\ \A u \in U : n1[u] >= 1
  BY <1>1
<1>3. Total(n1) = (Total(n) - n[t]) + (n[t] - 1)
  BY <1>1, TotalStep
<1>4. Cardinality(U) <= Total(n1)
  BY <1>2, TotalAtLeast
<1>5. Total(n) \in Nat /\ IsFiniteSet(U) /\ Cardinality(U) \in Nat
  BY TotalFinite, ThreadFinite, FS_Subset, FS_CardinalityType
<1>6. QED
  BY <1>3, <1>4, <1>5

(* No thread contributes more than the sum.                                *)
LEMMA TotalPart ==
  ASSUME NEW n \in [Thread -> Nat], NEW t \in Thread
  PROVE  n[t] <= Total(n)
<1> DEFINE n1 == [n EXCEPT ![t] = 0]
<1>1. n1 \in [Thread -> Nat]
  OBVIOUS
<1>2. Total(n1) = (Total(n) - n[t]) + 0
  BY TotalStep
<1>3. Total(n1) \in Nat /\ Total(n) \in Nat
  BY <1>1, TotalFinite
<1>4. QED
  BY <1>2, <1>3

(* The sum when nobody contributes, or t alone.                            *)
LEMMA TotalZero ==
  ASSUME NEW n \in [Thread -> Nat], NEW t \in Thread, \A u \in Thread : u # t => n[u] = 0
  PROVE  Total(n) = n[t]
<1> DEFINE z == [u \in Thread |-> 0]
           n1 == [z EXCEPT ![t] = n[t]]
<1>1. z \in [Thread -> Nat] /\ n[t] \in Nat
  OBVIOUS
<1>2. Columns(z) = {}
  BY DEF Columns
<1>3. Total(z) = 0
  BY <1>1, <1>2, TotalFinite, FS_EmptySet
<1>4. Total(n1) = (Total(z) - z[t]) + n[t]
  BY <1>1, TotalStep
<1>5. n1 = n
  OBVIOUS
<1>6. QED
  BY <1>1, <1>3, <1>4, <1>5

-----------------------------------------------------------------------------
(* The code of a thread, from its first micro-operation.                   *)

(* A micro-operation in front of a sequence.                               *)
LEMMA SeqCons ==
  ASSUME NEW T, NEW e \in T, NEW s \in Seq(T)
  PROVE  /\ <<e>> \o s \in Seq(T) /\ Len(<<e>> \o s) = Len(s) + 1
         /\ (<<e>> \o s)[1] = e /\ Head(<<e>> \o s) = e /\ <<e>> \o s # <<>>
         /\ \A i \in 1..Len(s) : (<<e>> \o s)[i + 1] = s[i]
         /\ \A i \in 2..(Len(s) + 1) : (<<e>> \o s)[i] = s[i - 1]
  OBVIOUS

(* The first micro-operation and the others.                               *)
LEMMA SeqTail ==
  ASSUME NEW T, NEW s \in Seq(T), s # <<>>
  PROVE  /\ Tail(s) \in Seq(T) /\ Len(Tail(s)) = Len(s) - 1 /\ Len(s) >= 1 /\ Len(s) \in Nat
         /\ Head(s) = s[1] /\ Head(s) \in T
         /\ \A i \in 1..(Len(s) - 1) : Tail(s)[i] = s[i + 1]
         /\ \A i \in 2..Len(s) : s[i] = Tail(s)[i - 1]
  OBVIOUS

(* Lists of two and three micro-operations, put together.                  *)
LEMMA Pair ==
  ASSUME NEW T, NEW a \in T, NEW b \in T
  PROVE  <<a>> \o <<b>> = <<a, b>> /\ (<<a>> \o <<>>) \o <<b>> = <<a, b>>
<1>1. Len(<<a, b>>) = 2 /\ <<a, b>>[1] = a /\ <<a, b>>[2] = b /\ <<a, b>> \in Seq(T)
  OBVIOUS
<1>2. /\ Len(<<a>> \o <<b>>) = 2 /\ (<<a>> \o <<b>>)[1] = a /\ (<<a>> \o <<b>>)[2] = b
      /\ <<a>> \o <<b>> \in Seq(T)
  OBVIOUS
<1>3. \A i \in 1..2 : <<a, b>>[i] = (<<a>> \o <<b>>)[i]
  BY <1>1, <1>2
<1>4. <<a, b>> = <<a>> \o <<b>>
  BY <1>1, <1>2, <1>3, SeqEqual
<1>5. <<a>> \o <<>> = <<a>>
  OBVIOUS
<1>6. QED
  BY <1>4, <1>5

(* Appending to a pair makes a triple.                                     *)
LEMMA Triple ==
  ASSUME NEW T, NEW a \in T, NEW b \in T, NEW c \in T
  PROVE  <<a, b>> \o <<c>> = <<a, b, c>>
<1> DEFINE p == <<a, b>>
           q == <<c>>
<1>1. /\ p \in Seq(T) /\ q \in Seq(T) /\ Len(p) = 2 /\ p[1] = a /\ p[2] = b
      /\ Len(q) = 1 /\ q[1] = c
  OBVIOUS
<1> HIDE DEF p, q
<1>2. /\ p \o q \in Seq(T) /\ Len(p \o q) = Len(p) + Len(q)
      /\ \A i \in 1..(Len(p) + Len(q)) : (p \o q)[i] = IF i <= Len(p) THEN p[i] ELSE q[i - Len(p)]
  BY <1>1, ConcatProperties
<1>6. (p \o q)[1] = a /\ (p \o q)[2] = b /\ (p \o q)[3] = c /\ Len(p \o q) = 3
  BY <1>1, <1>2
<1>3. /\ <<a, b, c>> \in Seq(T) /\ Len(<<a, b, c>>) = 3
      /\ <<a, b, c>>[1] = a /\ <<a, b, c>>[2] = b /\ <<a, b, c>>[3] = c
  OBVIOUS
<1>4. \A i \in 1..3 : (p \o q)[i] = <<a, b, c>>[i]
  BY <1>3, <1>6
<1>5. QED
  BY <1>2, <1>3, <1>4, <1>6, SeqEqual DEF p, q

(* Three micro-operations and a fourth.                                    *)
LEMMA Quad ==
  ASSUME NEW T, NEW a \in T, NEW b \in T, NEW c \in T, NEW d \in T
  PROVE  <<a, b, c>> \o <<d>> = <<a, b, c, d>>
<1> DEFINE p == <<a, b, c>>
           q == <<d>>
<1>1. /\ p \in Seq(T) /\ q \in Seq(T) /\ Len(p) = 3 /\ p[1] = a /\ p[2] = b /\ p[3] = c
      /\ Len(q) = 1 /\ q[1] = d
  OBVIOUS
<1> HIDE DEF p, q
<1>2. /\ p \o q \in Seq(T) /\ Len(p \o q) = Len(p) + Len(q)
      /\ \A i \in 1..(Len(p) + Len(q)) : (p \o q)[i] = IF i <= Len(p) THEN p[i] ELSE q[i - Len(p)]
  BY <1>1, ConcatProperties
<1>3. (p \o q)[1] = a /\ (p \o q)[2] = b /\ (p \o q)[3] = c /\ (p \o q)[4] = d /\ Len(p \o q) = 4
  BY <1>1, <1>2
<1>4. /\ <<a, b, c, d>> \in Seq(T) /\ Len(<<a, b, c, d>>) = 4
      /\ <<a, b, c, d>>[1] = a /\ <<a, b, c, d>>[2] = b
      /\ <<a, b, c, d>>[3] = c /\ <<a, b, c, d>>[4] = d
  OBVIOUS
<1>5. \A i \in 1..4 : (p \o q)[i] = <<a, b, c, d>>[i]
  BY <1>3, <1>4
<1>6. QED
  BY <1>2, <1>3, <1>4, <1>5, SeqEqual DEF p, q

(* Two, and three, micro-operations in front are put there one by one.     *)
LEMMA SeqCat2 ==
  ASSUME NEW T, NEW a \in T, NEW b \in T, NEW s \in Seq(T)
  PROVE  <<a, b>> \o s = <<a>> \o (<<b>> \o s)
<1>1. <<a, b>> = <<a>> \o <<b>>
  BY Pair
<1>2. (<<a>> \o <<b>>) \o s = <<a>> \o (<<b>> \o s)
  OBVIOUS
<1>3. QED
  BY <1>1, <1>2

(* A triple before a sequence is a pair before the third one and the       *)
(* sequence.                                                               *)
LEMMA SeqCat3 ==
  ASSUME NEW T, NEW a \in T, NEW b \in T, NEW c \in T, NEW s \in Seq(T)
  PROVE  <<a, b, c>> \o s = <<a, b>> \o (<<c>> \o s)
<1>1. <<a, b, c>> = <<a, b>> \o <<c>>
  BY Triple
<1>2. (<<a, b>> \o <<c>>) \o s = <<a, b>> \o (<<c>> \o s)
  OBVIOUS
<1>3. QED
  BY <1>1, <1>2

(* r is s with an item in front: its items are those of s and that one.    *)
LEMMA ItemsFront ==
  ASSUME NEW T, NEW s \in Seq(T), NEW r \in Seq(T), Len(r) = Len(s) + 1,
         \A i \in 2..Len(r) : r[i] = s[i - 1]
  PROVE  Items(r) = {r[1]} \cup Items(s)
<1>1. Len(s) \in Nat
  OBVIOUS
<1>2. ASSUME NEW i \in 1..Len(r) PROVE r[i] \in {r[1]} \cup Items(s)
  <2>1. CASE i = 1
    BY <2>1
  <2>2. CASE i # 1
    <3>1. i - 1 \in 1..Len(s) /\ r[i] = s[i - 1]
      BY <2>2, <1>1
    <3>2. QED
      BY <3>1 DEF Items
  <2>3. QED
    BY <2>1, <2>2
<1>3. r[1] \in Items(r)
  <2>1. 1 \in 1..Len(r)
    BY <1>1
  <2>2. QED
    BY <2>1 DEF Items
<1>4. ASSUME NEW i \in 1..Len(s) PROVE s[i] \in Items(r)
  <2>1. i + 1 \in 2..Len(r) /\ i + 1 \in 1..Len(r) /\ (i + 1) - 1 = i
    BY <1>1
  <2>2. r[i + 1] = s[i]
    BY <2>1
  <2>3. QED
    BY <2>1, <2>2 DEF Items
<1>5. QED
  BY <1>2, <1>3, <1>4 DEF Items

(* How many items of a sequence are in a set, and when there is one.       *)
LEMMA CntPositive ==
  ASSUME NEW T, NEW s \in Seq(T), NEW S
  PROVE  /\ Cnt(s, S) \in Nat
         /\ Cnt(s, S) > 0 <=> \E e \in Items(s) : e \in S
<1> DEFINE I == {i \in 1..Len(s) : s[Len(s) + 1 - i] \in S}
<1>1. Len(s) \in Nat
  OBVIOUS
<1>2. IsFiniteSet(I) /\ Cardinality(I) \in Nat /\ (Cardinality(I) = 0 <=> I = {})
  <2>1. IsFiniteSet(1..Len(s)) /\ I \in SUBSET (1..Len(s))
    BY <1>1, FS_Interval
  <2>2. IsFiniteSet(I)
    BY <2>1, FS_Subset
  <2>3. QED
    BY <2>2, FS_CardinalityType, FS_EmptySet
<1>3. I # {} <=> \E e \in Items(s) : e \in S
  <2>1. ASSUME NEW i \in I PROVE \E e \in Items(s) : e \in S
    <3>1. Len(s) + 1 - i \in 1..Len(s)
      BY <1>1
    <3>2. QED
      BY <3>1 DEF Items
  <2>2. ASSUME NEW i \in 1..Len(s), s[i] \in S PROVE I # {}
    <3>1. Len(s) + 1 - i \in 1..Len(s) /\ Len(s) + 1 - (Len(s) + 1 - i) = i
      BY <1>1
    <3>2. Len(s) + 1 - i \in I
      BY <3>1, <2>2
    <3>3. QED
      BY <3>2
  <2>3. QED
    BY <2>1, <2>2 DEF Items
<1>4. QED
  BY <1>2, <1>3 DEF Cnt

(* r is s with an item in front: what the item adds to a number of items.  *)
LEMMA CntFront ==
  ASSUME NEW T, NEW s \in Seq(T), NEW r \in Seq(T), Len(r) = Len(s) + 1,
         \A i \in 2..Len(r) : r[i] = s[i - 1], NEW S
  PROVE  Cnt(r, S) = Cnt(s, S) + (IF r[1] \in S THEN 1 ELSE 0)
<1> DEFINE I == {i \in 1..Len(s) : s[Len(s) + 1 - i] \in S}
           J == {i \in 1..Len(r) : r[Len(r) + 1 - i] \in S}
           n == Len(s)
<1>1. n \in Nat /\ Len(r) = n + 1
  OBVIOUS
<1>2. \A i \in 1..n : r[n + 2 - i] = s[n + 1 - i]
  <2>1. ASSUME NEW i \in 1..n PROVE r[n + 2 - i] = s[n + 1 - i]
    <3>1. n + 2 - i \in 2..Len(r) /\ (n + 2 - i) - 1 = n + 1 - i
      BY <1>1
    <3>2. QED
      BY <3>1
  <2>2. QED
    BY <2>1
<1>3. J = I \cup (IF r[1] \in S THEN {n + 1} ELSE {})
  <2>1. ASSUME NEW i \in 1..(n + 1) PROVE i \in J <=> (i \in I \/ (r[1] \in S /\ i = n + 1))
    <3>1. CASE i = n + 1
      BY <3>1, <1>1
    <3>2. CASE i \in 1..n
      <4>1. i # n + 1 /\ Len(r) + 1 - i = n + 2 - i
        BY <3>2, <1>1
      <4>2. QED
        BY <3>2, <4>1, <1>1, <1>2
    <3>3. QED
      BY <3>1, <3>2, <1>1
  <2>2. I \subseteq 1..(n + 1) /\ J \subseteq 1..(n + 1)
    BY <1>1
  <2>3. n + 1 \in 1..(n + 1)
    BY <1>1
  <2>4. QED
    BY <2>1, <2>2, <2>3
<1>4. IsFiniteSet(I) /\ n + 1 \notin I /\ Cardinality(I) \in Nat
  <2>1. IsFiniteSet(1..n) /\ I \in SUBSET (1..n)
    BY <1>1, FS_Interval
  <2>2. IsFiniteSet(I)
    BY <2>1, FS_Subset
  <2>3. n + 1 \notin I
    BY <1>1
  <2>4. QED
    BY <2>2, <2>3, FS_CardinalityType
<1>5. Cnt(s, S) = Cardinality(I) /\ Cnt(r, S) = Cardinality(J)
  BY DEF Cnt
<1> HIDE DEF I, J, n
<1>6. CASE r[1] \in S
  <2>1. J = I \cup {n + 1}
    BY <1>3, <1>6
  <2>2. Cardinality(I \cup {n + 1}) = Cardinality(I) + 1
    BY <1>4, FS_AddElement
  <2>3. QED
    BY <2>1, <2>2, <1>5, <1>6
<1>7. CASE r[1] \notin S
  <2>1. J = I
    BY <1>3, <1>7
  <2>2. QED
    BY <2>1, <1>4, <1>5, <1>7
<1>8. QED
  BY <1>6, <1>7

-----------------------------------------------------------------------------
(* The shape of the code of a thread.                                      *)

(* Code whose next micro-operation may be any that Fits says.              *)
Quiet(s) == WellFormed(s) /\ \A d \in Items(s) : d.op \notin HeadOps

With(s, o) == \E d \in Items(s) : d.op = o

Fits(e, s) ==
  /\ e \in Item
  /\ With(s, "shade") => e.op \in ShadeOps
  /\ With(s, "rewrite") => e.op \in RewriteOps
  /\ With(s, "cellUnlock") => e.op \in UnlockOps
  /\ e.op \in LastOps => s = <<>>

One(e, S) == IF e \in S THEN 1 ELSE 0

(* What is left once the first micro-operation has been executed.          *)
LEMMA ShapeTail ==
  ASSUME NEW s, WellFormed(s), s # <<>>
  PROVE  Quiet(Tail(s)) /\ Fits(Head(s), Tail(s))
<1> DEFINE r == Tail(s)
<1>1. /\ s \in Seq(Item) /\ r \in Seq(Item) /\ Len(s) = Len(r) + 1 /\ Len(r) \in Nat
      /\ s[1] = Head(s) /\ Head(s) \in Item
      /\ \A i \in 1..Len(r) : s[i + 1] = r[i]
  BY SeqTail DEF WellFormed
<1> HIDE DEF r
<1>2. ASSUME NEW i \in 1..Len(r)
      PROVE  /\ r[i].op \notin HeadOps
             /\ r[i].op \in LastOps => i = Len(r)
             /\ r[i].op = "shade" => Head(s).op \in ShadeOps
             /\ r[i].op = "rewrite" => Head(s).op \in RewriteOps
             /\ r[i].op = "cellUnlock" => Head(s).op \in UnlockOps
             /\ \A j \in 1..(i - 1) :
                  /\ r[i].op = "shade" => r[j].op \in ShadeOps
                  /\ r[i].op = "rewrite" => r[j].op \in RewriteOps
                  /\ r[i].op = "cellUnlock" => r[j].op \in UnlockOps
  <2>1. /\ i + 1 \in 1..Len(s) /\ i + 1 # 1 /\ r[i] = s[i + 1] /\ 1 \in 1..((i + 1) - 1)
        /\ (i + 1 = Len(s) <=> i = Len(r))
    BY <1>1
  <2>2. /\ s[i + 1].op \notin HeadOps
        /\ s[i + 1].op \in LastOps => i + 1 = Len(s)
        /\ \A j \in 1..((i + 1) - 1) :
             /\ s[i + 1].op = "shade" => s[j].op \in ShadeOps
             /\ s[i + 1].op = "rewrite" => s[j].op \in RewriteOps
             /\ s[i + 1].op = "cellUnlock" => s[j].op \in UnlockOps
    BY <2>1 DEF WellFormed
  <2>3. ASSUME NEW j \in 1..(i - 1)
        PROVE  /\ r[i].op = "shade" => r[j].op \in ShadeOps
               /\ r[i].op = "rewrite" => r[j].op \in RewriteOps
               /\ r[i].op = "cellUnlock" => r[j].op \in UnlockOps
    <3>1. j + 1 \in 1..((i + 1) - 1) /\ j \in 1..Len(r) /\ r[j] = s[j + 1]
      BY <1>1
    <3>2. QED
      BY <2>1, <2>2, <3>1
  <2>4. QED
    BY <2>1, <2>2, <2>3, <1>1
<1>3. Quiet(r)
  BY <1>1, <1>2 DEF Quiet, WellFormed, Items
<1>4. Head(s).op \in LastOps => r = <<>>
  <2>1. 1 \in 1..Len(s)
    BY <1>1
  <2>2. Head(s).op \in LastOps => Len(r) = 0
    BY <1>1, <2>1 DEF WellFormed
  <2>3. QED
    BY <2>2, <1>1, EmptySeq
<1>5. QED
  BY <1>1, <1>2, <1>3, <1>4 DEF Fits, With, Items, r

(* A micro-operation is put in front of what is left.                      *)
LEMMA ShapeCons ==
  ASSUME NEW s, Quiet(s), NEW e, Fits(e, s)
  PROVE  WellFormed(<<e>> \o s) /\ Items(<<e>> \o s) = {e} \cup Items(s)
<1> DEFINE r == <<e>> \o s
<1>1. /\ e \in Item /\ s \in Seq(Item) /\ r \in Seq(Item) /\ Len(r) = Len(s) + 1 /\ Len(s) \in Nat
      /\ r[1] = e
      /\ \A i \in 2..(Len(s) + 1) : r[i] = s[i - 1]
  BY SeqCons DEF Quiet, Fits, WellFormed
<1> HIDE DEF r
<1>2. Items(r) = {e} \cup Items(s)
  BY <1>1, ItemsFront
<1>3. ASSUME NEW i \in 1..Len(r)
      PROVE  /\ r[i].op \in HeadOps => i = 1
             /\ r[i].op \in LastOps => i = Len(r)
             /\ \A j \in 1..(i - 1) :
                  /\ r[i].op = "shade" => r[j].op \in ShadeOps
                  /\ r[i].op = "rewrite" => r[j].op \in RewriteOps
                  /\ r[i].op = "cellUnlock" => r[j].op \in UnlockOps
  <2>1. CASE i = 1
    <3>1. e.op \in LastOps => Len(s) = 0
      BY DEF Fits
    <3>2. QED
      BY <2>1, <3>1, <1>1
  <2>2. CASE i # 1
    <3>1. i - 1 \in 1..Len(s) /\ r[i] = s[i - 1] /\ (i = Len(r) <=> i - 1 = Len(s))
      BY <2>2, <1>1
    <3>2. r[i] \in Items(s)
      BY <3>1 DEF Items
    <3>3. /\ r[i].op \notin HeadOps
          /\ r[i].op \in LastOps => i = Len(r)
          /\ \A j \in 1..((i - 1) - 1) :
               /\ s[i - 1].op = "shade" => s[j].op \in ShadeOps
               /\ s[i - 1].op = "rewrite" => s[j].op \in RewriteOps
               /\ s[i - 1].op = "cellUnlock" => s[j].op \in UnlockOps
      BY <3>1, <3>2 DEF Quiet, WellFormed
    <3>4. /\ r[i].op = "shade" => e.op \in ShadeOps
          /\ r[i].op = "rewrite" => e.op \in RewriteOps
          /\ r[i].op = "cellUnlock" => e.op \in UnlockOps
      BY <3>2 DEF Fits, With
    <3>5. ASSUME NEW j \in 1..(i - 1)
          PROVE  /\ r[i].op = "shade" => r[j].op \in ShadeOps
                 /\ r[i].op = "rewrite" => r[j].op \in RewriteOps
                 /\ r[i].op = "cellUnlock" => r[j].op \in UnlockOps
      <4>1. CASE j = 1
        BY <4>1, <3>4, <1>1
      <4>2. CASE j # 1
        <5>1. j - 1 \in 1..((i - 1) - 1) /\ r[j] = s[j - 1]
          BY <4>2, <1>1
        <5>2. QED
          BY <5>1, <3>1, <3>3
      <4>3. QED
        BY <4>1, <4>2
    <3>6. QED
      BY <3>3, <3>5
  <2>3. QED
    BY <2>1, <2>2
<1>4. WellFormed(r)
  BY <1>1, <1>3 DEF WellFormed
<1>5. QED
  BY <1>2, <1>4 DEF r

(* The same, with all that later proofs need to know of the result.        *)
LEMMA Front ==
  ASSUME NEW s, Quiet(s), NEW e, Fits(e, s)
  PROVE  /\ WellFormed(<<e>> \o s) /\ <<e>> \o s \in Seq(Item)
         /\ e.op \notin HeadOps => Quiet(<<e>> \o s)
         /\ \A o : With(<<e>> \o s, o) <=> e.op = o \/ With(s, o)
         /\ Items(<<e>> \o s) = {e} \cup Items(s)
         /\ \A S : Cnt(<<e>> \o s, S) = Cnt(s, S) + One(e, S)
<1> DEFINE r == <<e>> \o s
<1>1. e \in Item /\ s \in Seq(Item)
  BY DEF Quiet, WellFormed, Fits
<1>2. /\ r \in Seq(Item) /\ Len(r) = Len(s) + 1 /\ r[1] = e
      /\ \A i \in 2..Len(r) : r[i] = s[i - 1]
  BY <1>1, SeqCons
<1>3. WellFormed(r) /\ Items(r) = {e} \cup Items(s)
  BY ShapeCons
<1> HIDE DEF r
<1>4. \A S : Cnt(r, S) = Cnt(s, S) + One(e, S)
  BY <1>1, <1>2, CntFront DEF One
<1>5. e.op \notin HeadOps => Quiet(r)
  BY <1>3 DEF Quiet
<1>6. \A o : With(r, o) <=> e.op = o \/ With(s, o)
  BY <1>3 DEF With
<1>7. QED
  BY <1>2, <1>3, <1>4, <1>5, <1>6 DEF r

(* Between operations nothing is left to execute.                          *)
LEMMA Nothing ==
  /\ Quiet(<<>>) /\ Items(<<>>) = {} /\ \A S : Cnt(<<>>, S) = 0
  /\ \A e \in Item : Fits(e, <<>>)
  /\ \A o : ~With(<<>>, o)
<1>1. <<>> \in Seq(Item) /\ Len(<<>>) = 0
  OBVIOUS
<1>2. Items(<<>>) = {}
  BY <1>1 DEF Items
<1>3. ASSUME NEW S PROVE Cnt(<<>>, S) = 0
  <2>1. {i \in 1..Len(<<>>) : <<>>[Len(<<>>) + 1 - i] \in S} = {}
    OBVIOUS
  <2>2. QED
    BY <2>1, FS_EmptySet DEF Cnt
<1>4. QED
  BY <1>1, <1>2, <1>3 DEF Quiet, WellFormed, Fits, With

(* Only one item of the code is of a kind that stands at the head.         *)
LEMMA OneHead ==
  ASSUME NEW s, WellFormed(s), NEW d \in Items(s), NEW e \in Items(s),
         d.op \in HeadOps, e.op \in HeadOps
  PROVE  d = e
<1>1. PICK i \in 1..Len(s) : d = s[i]
  BY DEF Items
<1>2. PICK j \in 1..Len(s) : e = s[j]
  BY DEF Items
<1>3. i = 1 /\ j = 1
  BY <1>1, <1>2 DEF WellFormed
<1>4. QED
  BY <1>1, <1>2, <1>3

-----------------------------------------------------------------------------
(* Micro-operations.                                                       *)

(* A micro-operation on a value, without a word, a second value or a tag.  *)
IsPlain(e, o, v) == e \in Item /\ e.op = o /\ e.v = v /\ e.k = "" /\ e.x = Nil

(* The micro-operations that carry a value only.                           *)
LEMMA PlainItem ==
  ASSUME NEW v \in Object
  PROVE  /\ IsPlain(M("dup", v), "dup", v)
         /\ IsPlain(M("add", v), "add", v)
         /\ IsPlain(M("saturate", v), "saturate", v)
         /\ IsPlain(M("own", v), "own", v)
         /\ IsPlain(M("get", v), "get", v)
         /\ IsPlain(M("drop", v), "drop", v)
         /\ IsPlain(M("free", v), "free", v)
         /\ IsPlain(M("poison", v), "poison", v)
         /\ IsPlain(M("markLock", v), "markLock", v)
         /\ IsPlain(M("shade", v), "shade", v)
         /\ IsPlain(M("markUnlock", v), "markUnlock", v)
         /\ IsPlain(M("cellUnlock", v), "cellUnlock", v)
<1>1. ASSUME NEW o \in {"dup", "add", "saturate", "own", "get", "drop", "free", "poison", "markLock",
                        "shade", "markUnlock", "cellUnlock"}
      PROVE  IsPlain(M(o, v), o, v)
  <2>1. M(o, v) \in RECORDS
    BY DEF M, RECORDS, Ops, HeadOps, IncOps, LastOps, DyingOps
  <2>2. QED
    BY <2>1 DEF M, Item, MoveOps, IsPlain
<1>2. QED
  BY <1>1

(* A plain store of a word that is not shared.                             *)
LEMMA StoreItem ==
  ASSUME NEW v \in Object, NEW w \in 0..SATURATED
  PROVE  LET e == [M("store", v) EXCEPT !.w = w]
         IN e \in Item /\ e.op = "store" /\ e.v = v /\ e.w = w /\ e.x = Nil
<1>1. w \in Nat
  BY Numbers
<1>2. QED
  BY <1>1 DEF M, Item, RECORDS, Ops, HeadOps, IncOps, LastOps, DyingOps, MoveOps

(* A compare-and-swap that expects a word.                                 *)
LEMMA CasItem ==
  ASSUME NEW v \in Object, NEW w \in 1..(2 * SHARED - 1)
  PROVE  LET e == [M("cas", v) EXCEPT !.w = w]
         IN e \in Item /\ e.op = "cas" /\ e.v = v /\ e.w = w /\ e.x = Nil
<1>1. w \in Nat
  BY Numbers
<1>2. QED
  BY <1>1 DEF M, Item, RECORDS, Ops, HeadOps, IncOps, LastOps, DyingOps, MoveOps

(* A step of the mark walk.                                                *)
IsShade(e, v, k) == e \in Item /\ e.op = "shade" /\ e.v = v /\ e.k = k /\ e.x = Nil

(* The record has that form.                                               *)
LEMMA ShadeItem ==
  ASSUME NEW v \in Object, NEW k \in Tags
  PROVE  IsShade([M("shade", v) EXCEPT !.k = k], v, k)
  BY DEF IsShade, M, Item, RECORDS, Ops, HeadOps, IncOps, LastOps, DyingOps, MoveOps

(* An allocation; the new value may have no field.                         *)
IsAlloc(e, v, k) == e \in Item /\ e.op = "alloc" /\ e.v = v /\ e.k = k /\ e.x = Nil

(* The record has that form.                                               *)
LEMMA AllocItem ==
  ASSUME NEW v \in Object \cup {Nil}, NEW k \in {"ctor", "ref"}
  PROVE  IsAlloc([M("alloc", v) EXCEPT !.k = k], v, k)
  BY DEF IsAlloc, M, Item, RECORDS, Ops, HeadOps, IncOps, LastOps, DyingOps, Tags, MoveOps

(* A store of a value into another one.                                    *)
IsMove(e, o, v, x) == e \in Item /\ e.op = o /\ e.v = v /\ e.x = x

(* The record has that form.                                               *)
LEMMA MoveItem ==
  ASSUME NEW v \in Object, NEW x \in Object \cup {Nil}, x # v, NEW o \in MoveOps
  PROVE  IsMove([M(o, v) EXCEPT !.x = x], o, v, x)
  BY DEF IsMove, M, Item, RECORDS, Ops, HeadOps, IncOps, LastOps, DyingOps, MoveOps

(* A value handed to another thread.                                       *)
IsGive(e, v, u) == e \in Item /\ e.op = "give" /\ e.v = v /\ e.x = u

(* The record has that form.                                               *)
LEMMA GiveItem ==
  ASSUME NEW v \in Object, NEW u \in Thread
  PROVE  IsGive([M("give", v) EXCEPT !.x = u], v, u)
  BY DEF IsGive, M, Item, RECORDS, Ops, HeadOps, IncOps, LastOps, DyingOps, MoveOps

(* The values an item touches are objects, Nil in an allocation excepted.  *)
LEMMA ItemFields ==
  ASSUME NEW e \in Item
  PROVE  /\ e.op \in Ops /\ e.v \in Object \cup {Nil} /\ (e.op # "alloc" => e.v \in Object)
         /\ e.op \in MoveOps => e.x \in Object \cup {Nil} /\ e.x # e.v
         /\ e.op = "give" => e.x \in Thread
         /\ e.op = "alloc" => e.k \in {"ctor", "ref"}
         /\ e.op = "store" => e.w \in 0..SATURATED
         /\ e.op = "cas" => e.w \in 1..(2 * SHARED - 1)
         /\ e.k \in Tags \cup {""}
  BY DEF Item, RECORDS

-----------------------------------------------------------------------------
(* The code of the thread that takes a step: b is executed, c put in its   *)
(* place, r stays.                                                         *)
Turn(t, r, b, c) ==
  /\ Quiet(r) /\ b \in Seq(Item) /\ c \in Seq(Item)
  /\ Parts(t) = Items(r) \cup Items(b)
  /\ \A S : Cnt(code[t], S) = Cnt(r, S) + Cnt(b, S)
  /\ code' \in [Thread -> Seq(Item)] /\ WellFormed(code'[t])
  /\ Items(code'[t]) = Items(r) \cup Items(c)
  /\ \A S : Cnt(code'[t], S) = Cnt(r, S) + Cnt(c, S)
  /\ \A u \in Thread : u # t => code'[u] = code[u]

(* A list with one item more, as a set and as a bag.                       *)
LEMMA Listed ==
  ASSUME NEW T, NEW r \in Seq(T), NEW s \in Seq(T), Len(r) = Len(s) + 1,
         \A i \in 2..Len(r) : r[i] = s[i - 1]
  PROVE  /\ Items(r) = {r[1]} \cup Items(s)
         /\ \A S : Cnt(r, S) = Cnt(s, S) + One(r[1], S)
<1>1. Items(r) = {r[1]} \cup Items(s)
  BY ItemsFront
<1>2. \A S : Cnt(r, S) = Cnt(s, S) + (IF r[1] \in S THEN 1 ELSE 0)
  BY CntFront
<1>3. QED
  BY <1>1, <1>2 DEF One

(* Lists of one to four items, as sets and as bags.                        *)
LEMMA List1 ==
  ASSUME NEW a
  PROVE  Items(<<a>>) = {a} /\ \A S : Cnt(<<a>>, S) = One(a, S)
<1> DEFINE s == <<>>
           r == <<a>>
           T == {a}
<1>1. s \in Seq(T) /\ r \in Seq(T) /\ Len(r) = Len(s) + 1 /\ r[1] = a
  OBVIOUS
<1>2. \A i \in 2..Len(r) : r[i] = s[i - 1]
  OBVIOUS
<1>3. Items(s) = {} /\ \A S : Cnt(s, S) = 0
  BY Nothing
<1>4. \A S : One(a, S) \in Nat
  BY DEF One
<1> HIDE DEF T, s, r
<1>5. Items(r) = {r[1]} \cup Items(s) /\ \A S : Cnt(r, S) = Cnt(s, S) + One(r[1], S)
  BY <1>1, <1>2, Listed
<1>6. Items(r) = {a} /\ \A S : Cnt(r, S) = One(a, S)
  BY <1>1, <1>3, <1>4, <1>5
<1>7. QED
  BY <1>6 DEF r

(* A list of two micro-operations, as a set and as a bag.                  *)
LEMMA List2 ==
  ASSUME NEW a, NEW b
  PROVE  Items(<<a, b>>) = {a, b} /\ \A S : Cnt(<<a, b>>, S) = One(a, S) + One(b, S)
<1> DEFINE s == <<b>>
           r == <<a, b>>
           T == {a, b}
<1>1. s \in Seq(T) /\ r \in Seq(T) /\ Len(r) = Len(s) + 1 /\ r[1] = a
  OBVIOUS
<1>2. \A i \in 2..Len(r) : r[i] = s[i - 1]
  OBVIOUS
<1>3. Items(s) = {b} /\ \A S : Cnt(s, S) = One(b, S)
  BY List1
<1>4. \A S : One(a, S) \in Nat /\ One(b, S) \in Nat
  BY DEF One
<1> HIDE DEF T, s, r
<1>5. Items(r) = {r[1]} \cup Items(s) /\ \A S : Cnt(r, S) = Cnt(s, S) + One(r[1], S)
  BY <1>1, <1>2, Listed
<1>6. Items(r) = {a, b} /\ \A S : Cnt(r, S) = One(a, S) + One(b, S)
  BY <1>1, <1>3, <1>4, <1>5
<1>7. QED
  BY <1>6 DEF r

(* A list of three.                                                        *)
LEMMA List3 ==
  ASSUME NEW a, NEW b, NEW c
  PROVE  Items(<<a, b, c>>) = {a, b, c} /\ \A S : Cnt(<<a, b, c>>, S) = One(a, S) + One(b, S) + One(c, S)
<1> DEFINE s == <<b, c>>
           r == <<a, b, c>>
           T == {a, b, c}
<1>1. s \in Seq(T) /\ r \in Seq(T) /\ Len(r) = Len(s) + 1 /\ r[1] = a
  OBVIOUS
<1>2. \A i \in 2..Len(r) : r[i] = s[i - 1]
  OBVIOUS
<1>3. Items(s) = {b, c} /\ \A S : Cnt(s, S) = One(b, S) + One(c, S)
  BY List2
<1>4. \A S : One(a, S) \in Nat /\ One(b, S) \in Nat /\ One(c, S) \in Nat
  BY DEF One
<1> HIDE DEF T, s, r
<1>5. Items(r) = {r[1]} \cup Items(s) /\ \A S : Cnt(r, S) = Cnt(s, S) + One(r[1], S)
  BY <1>1, <1>2, Listed
<1>6. Items(r) = {a, b, c} /\ \A S : Cnt(r, S) = One(a, S) + One(b, S) + One(c, S)
  BY <1>1, <1>3, <1>4, <1>5
<1>7. QED
  BY <1>6 DEF r

(* A list of four.                                                         *)
LEMMA List4 ==
  ASSUME NEW a, NEW b, NEW c, NEW d
  PROVE  Items(<<a, b, c, d>>) = {a, b, c, d} /\ \A S : Cnt(<<a, b, c, d>>, S) = One(a, S) + One(b, S) + One(c, S) + One(d, S)
<1> DEFINE s == <<b, c, d>>
           r == <<a, b, c, d>>
           T == {a, b, c, d}
<1>1. s \in Seq(T) /\ r \in Seq(T) /\ Len(r) = Len(s) + 1 /\ r[1] = a
  OBVIOUS
<1>2. \A i \in 2..Len(r) : r[i] = s[i - 1]
  OBVIOUS
<1>3. Items(s) = {b, c, d} /\ \A S : Cnt(s, S) = One(b, S) + One(c, S) + One(d, S)
  BY List3
<1>4. \A S : One(a, S) \in Nat /\ One(b, S) \in Nat /\ One(c, S) \in Nat /\ One(d, S) \in Nat
  BY DEF One
<1> HIDE DEF T, s, r
<1>5. Items(r) = {r[1]} \cup Items(s) /\ \A S : Cnt(r, S) = Cnt(s, S) + One(r[1], S)
  BY <1>1, <1>2, Listed
<1>6. Items(r) = {a, b, c, d} /\ \A S : Cnt(r, S) = One(a, S) + One(b, S) + One(c, S) + One(d, S)
  BY <1>1, <1>3, <1>4, <1>5
<1>7. QED
  BY <1>6 DEF r

(* The order of two micro-operations of one list.                          *)
Before(a, b) ==
  /\ b.op \notin HeadOps /\ a.op \notin LastOps
  /\ b.op = "shade" => a.op \in ShadeOps
  /\ b.op = "rewrite" => a.op \in RewriteOps
  /\ b.op = "cellUnlock" => a.op \in UnlockOps

(* s is r with the list c in front, or somewhere in it.                    *)
Pushed(s, c, r) ==
  /\ WellFormed(s) /\ c \in Seq(Item)
  /\ Items(s) = Items(r) \cup Items(c)
  /\ \A S : Cnt(s, S) = Cnt(r, S) + Cnt(c, S)

(* No, one, two and three micro-operations are put in front.               *)
LEMMA Push0 ==
  ASSUME NEW r, Quiet(r)
  PROVE  Pushed(<<>> \o r, <<>>, r) /\ <<>> \o r = r
<1>1. r \in Seq(Item)
  BY DEF Quiet, WellFormed
<1>2. <<>> \o r = r /\ <<>> \in Seq(Item)
  BY <1>1
<1>3. \A S : Cnt(r, S) \in Nat
  BY <1>1, CntPositive
<1>4. Items(<<>>) = {} /\ \A S : Cnt(<<>>, S) = 0
  BY Nothing
<1>5. QED
  BY <1>2, <1>3, <1>4 DEF Pushed, Quiet

(* Pushing a micro-operation that fits before the rest.                    *)
LEMMA Push1 ==
  ASSUME NEW r, Quiet(r), NEW a, Fits(a, r)
  PROVE  Pushed(<<a>> \o r, <<a>>, r) /\ (a.op \notin HeadOps => Quiet(<<a>> \o r))
<1>1. a \in Item
  BY DEF Fits
<1>2. <<a>> \in Seq(Item)
  BY <1>1
<1>3. /\ WellFormed(<<a>> \o r) /\ (a.op \notin HeadOps => Quiet(<<a>> \o r))
      /\ Items(<<a>> \o r) = {a} \cup Items(r)
      /\ \A S : Cnt(<<a>> \o r, S) = Cnt(r, S) + One(a, S)
  BY Front
<1>4. Items(<<a>>) = {a} /\ \A S : Cnt(<<a>>, S) = One(a, S)
  BY List1
<1>5. QED
  BY <1>2, <1>3, <1>4 DEF Pushed

(* What fits before the rest fits before more of it.                       *)
LEMMA FitsMore ==
  ASSUME NEW r, Quiet(r), NEW a, Fits(a, r), NEW b, Fits(b, r), Before(a, b)
  PROVE  Fits(a, <<b>> \o r)
<1>1. \A o : With(<<b>> \o r, o) <=> b.op = o \/ With(r, o)
  BY Front
<1>2. QED
  BY <1>1 DEF Fits, Before

(* Pushing two micro-operations, the first of which may precede the        *)
(* second.                                                                 *)
LEMMA Push2 ==
  ASSUME NEW r, Quiet(r), NEW a, Fits(a, r), NEW b, Fits(b, r), Before(a, b)
  PROVE  Pushed(<<a, b>> \o r, <<a, b>>, r) /\ (a.op \notin HeadOps => Quiet(<<a, b>> \o r))
<1> DEFINE s == <<b>> \o r
<1>1. a \in Item /\ b \in Item /\ b.op \notin HeadOps /\ r \in Seq(Item)
  BY DEF Fits, Before, Quiet, WellFormed
<1>2. Quiet(s) /\ Items(s) = {b} \cup Items(r) /\ \A S : Cnt(s, S) = Cnt(r, S) + One(b, S)
  BY <1>1, Front
<1>3. Fits(a, s)
  BY FitsMore
<1> HIDE DEF s
<1>4. /\ WellFormed(<<a>> \o s) /\ (a.op \notin HeadOps => Quiet(<<a>> \o s))
      /\ Items(<<a>> \o s) = {a} \cup Items(s)
      /\ \A S : Cnt(<<a>> \o s, S) = Cnt(s, S) + One(a, S)
  BY <1>2, <1>3, Front
<1>5. <<a, b>> \o r = <<a>> \o s
  BY <1>1, SeqCat2 DEF s
<1>6. Items(<<a, b>>) = {a, b} /\ \A S : Cnt(<<a, b>>, S) = One(a, S) + One(b, S)
  BY List2
<1>7. \A S : Cnt(r, S) \in Nat /\ One(a, S) \in Nat /\ One(b, S) \in Nat
  BY <1>1, CntPositive DEF One
<1>8. <<a, b>> \in Seq(Item)
  BY <1>1
<1> DEFINE u == <<a, b>> \o r
           c == <<a, b>>
<1> HIDE DEF u, c
<1>9. /\ WellFormed(u) /\ (a.op \notin HeadOps => Quiet(u)) /\ Items(u) = {a} \cup Items(s)
      /\ \A S : Cnt(u, S) = Cnt(s, S) + One(a, S)
  BY <1>4, <1>5 DEF u
<1>10. c \in Seq(Item) /\ Items(c) = {a, b} /\ \A S : Cnt(c, S) = One(a, S) + One(b, S)
  BY <1>6, <1>8 DEF c
<1>11. Pushed(u, c, r)
  BY <1>2, <1>7, <1>9, <1>10 DEF Pushed
<1>12. QED
  BY <1>9, <1>11 DEF u, c

(* Pushing three.                                                          *)
LEMMA Push3 ==
  ASSUME NEW r, Quiet(r), NEW a, Fits(a, r), NEW b, Fits(b, r), NEW d, Fits(d, r),
         Before(a, b), Before(a, d), Before(b, d)
  PROVE  /\ Pushed(<<a, b, d>> \o r, <<a, b, d>>, r)
         /\ a.op \notin HeadOps => Quiet(<<a, b, d>> \o r)
<1> DEFINE s == <<d>> \o r
<1>1. a \in Item /\ b \in Item /\ d \in Item /\ d.op \notin HeadOps /\ r \in Seq(Item)
  BY DEF Fits, Before, Quiet, WellFormed
<1>2. Quiet(s) /\ Items(s) = {d} \cup Items(r) /\ \A S : Cnt(s, S) = Cnt(r, S) + One(d, S)
  BY <1>1, Front
<1>3. Fits(a, s) /\ Fits(b, s)
  BY FitsMore
<1>4. s \in Seq(Item)
  BY <1>2 DEF Quiet, WellFormed
<1>5. <<a, b, d>> \o r = <<a, b>> \o s
  BY SMTT(30), <1>1, SeqCat3 DEF s
<1> HIDE DEF s
<1>6. Pushed(<<a, b>> \o s, <<a, b>>, s) /\ (a.op \notin HeadOps => Quiet(<<a, b>> \o s))
  BY <1>2, <1>3, Push2
<1>7. Items(<<a, b>>) = {a, b} /\ \A S : Cnt(<<a, b>>, S) = One(a, S) + One(b, S)
  BY List2
<1>8. /\ Items(<<a, b, d>>) = {a, b, d}
      /\ \A S : Cnt(<<a, b, d>>, S) = One(a, S) + One(b, S) + One(d, S)
  BY List3
<1>9. \A S : Cnt(r, S) \in Nat /\ One(a, S) \in Nat /\ One(b, S) \in Nat /\ One(d, S) \in Nat
  BY <1>1, CntPositive DEF One
<1>10. <<a, b, d>> \in Seq(Item)
  BY <1>1
<1> DEFINE u == <<a, b, d>> \o r
           c == <<a, b, d>>
           e == <<a, b>>
<1> HIDE DEF u, c, e
<1>11. Pushed(u, e, s) /\ (a.op \notin HeadOps => Quiet(u))
  BY <1>5, <1>6 DEF u, e
<1>12. Items(e) = {a, b} /\ \A S : Cnt(e, S) = One(a, S) + One(b, S)
  BY <1>7 DEF e
<1>13. c \in Seq(Item) /\ Items(c) = {a, b, d} /\ \A S : Cnt(c, S) = One(a, S) + One(b, S) + One(d, S)
  BY <1>8, <1>10 DEF c
<1>14. Pushed(u, c, r)
  BY <1>2, <1>9, <1>11, <1>12, <1>13 DEF Pushed
<1>15. QED
  BY <1>11, <1>14 DEF u, c

-----------------------------------------------------------------------------
(* A thread in the middle of an operation.                                 *)
LEMMA Opened ==
  ASSUME Typed, NEW t \in Thread, code[t] # <<>>
  PROVE  LET h == Head(code[t])
             r == Rest(t)
         IN /\ h \in Item /\ Quiet(r) /\ Fits(h, r) /\ r \in Seq(Item) /\ code[t] \in Seq(Item)
            /\ V(t) = h.v /\ W(t) = h.w /\ X(t) = h.x /\ K(t) = h.k
            /\ \A o : Do(t, o) <=> h.op = o
            /\ Parts(t) = {h} \cup Items(r)
            /\ \A S : Cnt(code[t], S) = Cnt(r, S) + One(h, S)
<1>1. WellFormed(code[t]) /\ code[t] \in Seq(Item)
  BY DEF Typed, WellFormed
<1>2. Quiet(Rest(t)) /\ Fits(Head(code[t]), Rest(t))
  BY <1>1, ShapeTail DEF Rest
<1>3. /\ Rest(t) \in Seq(Item) /\ Len(code[t]) = Len(Rest(t)) + 1 /\ code[t][1] = Head(code[t])
      /\ \A i \in 2..Len(code[t]) : code[t][i] = Rest(t)[i - 1]
  BY <1>1, SeqTail DEF Rest
<1>4. /\ Items(code[t]) = {code[t][1]} \cup Items(Rest(t))
      /\ \A S : Cnt(code[t], S) = Cnt(Rest(t), S) + One(code[t][1], S)
  BY <1>1, <1>3, Listed
<1>5. QED
  BY <1>1, <1>2, <1>3, <1>4 DEF V, W, X, K, Do, Parts, Fits

(* The first micro-operation gives way to the list c.                      *)
LEMMA Turned ==
  ASSUME Typed, NEW t \in Thread, code[t] # <<>>, NEW s, NEW c,
         Pushed(s, c, Rest(t)), code' = [code EXCEPT ![t] = s]
  PROVE  Turn(t, Rest(t), <<Head(code[t])>>, c)
<1> DEFINE h == Head(code[t])
           r == Rest(t)
           b == <<h>>
<1>1. /\ h \in Item /\ Quiet(r) /\ r \in Seq(Item) /\ Parts(t) = {h} \cup Items(r)
      /\ \A S : Cnt(code[t], S) = Cnt(r, S) + One(h, S)
  BY Opened
<1>2. b \in Seq(Item) /\ Items(b) = {h} /\ \A S : Cnt(b, S) = One(h, S)
  BY <1>1, List1
<1>3. code \in [Thread -> Seq(Item)] /\ s \in Seq(Item)
  BY DEF Typed, TypeOK, Pushed, WellFormed
<1>4. /\ code'[t] = s /\ code' \in [Thread -> Seq(Item)]
      /\ \A u \in Thread : u # t => code'[u] = code[u]
  BY <1>3
<1> HIDE DEF h, r, b
<1>5. Turn(t, r, b, c)
  BY <1>1, <1>2, <1>4 DEF Turn, Pushed, r
<1>6. QED
  BY <1>5 DEF r, b, h

(* An operation begins: the list c is all that there is to execute.        *)
LEMMA Begun ==
  ASSUME Typed, NEW t \in Thread, code[t] = <<>>, NEW c,
         Quiet(<<>>) => Pushed(c, c, <<>>), code' = [code EXCEPT ![t] = c]
  PROVE  Turn(t, <<>>, <<>>, c)
<1>1. /\ Quiet(<<>>) /\ Items(<<>>) = {} /\ (\A S : Cnt(<<>>, S) = 0) /\ <<>> \in Seq(Item)
  BY Nothing
<1>2. code \in [Thread -> Seq(Item)] /\ c \in Seq(Item)
  BY <1>1 DEF Typed, TypeOK, Pushed, WellFormed
<1>3. /\ code'[t] = c /\ code' \in [Thread -> Seq(Item)]
      /\ \A u \in Thread : u # t => code'[u] = code[u]
  BY <1>2
<1>4. QED
  BY <1>1, <1>3 DEF Turn, Pushed, Parts

(* What a step has to establish to preserve types.                         *)
LEMMA TypedTurn ==
  ASSUME Typed, NEW t \in Thread, NEW r, NEW b, NEW c, Turn(t, r, b, c),
         \A e \in Items(c) : \A o \in Object : Touch(e, o) => tag'[o] # "none",
         \A o \in Object : tag[o] # "none" => tag'[o] # "none",
         tag' \in [Object -> Tags], rc' \in [Object -> 0..(2 * SHARED - 1)],
         owned' \in [Thread -> [Object -> Nat]],
         \A u \in Thread : \A o \in Object : owned'[u][o] > 0 => tag'[o] # "none",
         field' \in [Object -> Object \cup {Nil}],
         \A o \in Object : field'[o] # Nil => tag'[field'[o]] # "none" /\ field'[o] # o,
         markLock' \in Thread \cup {Nil}, cellLock' \in [Object -> Thread \cup {Nil}], ops' \in Nat
  PROVE  Typed'
<1>1. /\ code' \in [Thread -> Seq(Item)] /\ WellFormed(code'[t])
      /\ \A u \in Thread : u # t => code'[u] = code[u]
      /\ Items(code'[t]) = Items(r) \cup Items(c) /\ Items(r) \subseteq Parts(t)
  BY DEF Turn
<1>2. TypeOK'
  BY <1>1 DEF TypeOK
<1>3. ASSUME NEW u \in Thread, NEW e \in Items(code'[u]), NEW o \in Object, Touch(e, o)
      PROVE  tag'[o] # "none"
  <2>1. CASE e \in Parts(u)
    BY <1>3, <2>1 DEF Typed, Known
  <2>2. CASE e \notin Parts(u)
    <3>1. u = t /\ e \in Items(c)
      BY <1>1, <1>3, <2>2 DEF Parts
    <3>2. QED
      BY <1>3, <3>1
  <2>3. QED
    BY <2>1, <2>2
<1>4. Known'
  BY <1>3 DEF Known, Parts, Touch
<1>5. \A u \in Thread : WellFormed(code'[u])
  BY <1>1 DEF Typed
<1>6. QED
  BY <1>2, <1>4, <1>5 DEF Typed

(* Most steps change code, count words and locks alone.                    *)
LEMMA TypedCode ==
  ASSUME Typed, NEW t \in Thread, NEW r, NEW b, NEW c, Turn(t, r, b, c),
         \A e \in Items(c) : \A o \in Object : Touch(e, o) => tag[o] # "none",
         rc' \in [Object -> 0..(2 * SHARED - 1)], UNCHANGED <<tag, field, owned, ops>>,
         markLock' \in Thread \cup {Nil}, cellLock' \in [Object -> Thread \cup {Nil}]
  PROVE  Typed'
<1>1. /\ tag \in [Object -> Tags] /\ owned \in [Thread -> [Object -> Nat]]
      /\ field \in [Object -> Object \cup {Nil}] /\ ops \in Nat
      /\ \A u \in Thread : \A o \in Object : owned[u][o] > 0 => tag[o] # "none"
      /\ \A o \in Object : field[o] # Nil => tag[field[o]] # "none" /\ field[o] # o
  BY DEF Typed, TypeOK, Known
<1>2. QED
  BY <1>1, TypedTurn

(* The value the first micro-operation is about.                           *)
LEMMA Acting ==
  ASSUME Typed, NEW t \in Thread, NEW o, Do(t, o), o # "alloc"
  PROVE  LET h == Head(code[t])
             v == V(t)
         IN /\ code[t] # <<>> /\ h \in Item /\ h.op = o /\ h.v = v /\ Quiet(Rest(t)) /\ Fits(h, Rest(t))
            /\ v \in Object /\ tag[v] # "none" /\ rc[v] \in 0..(2 * SHARED - 1)
            /\ field[v] \in Object \cup {Nil}
            /\ field[v] # Nil => field[v] \in Object /\ tag[field[v]] # "none" /\ field[v] # v
            /\ W(t) = h.w /\ X(t) = h.x /\ K(t) = h.k
<1>1. code[t] # <<>>
  BY DEF Do
<1>2. LET h == Head(code[t])
      IN /\ h \in Item /\ Quiet(Rest(t)) /\ Fits(h, Rest(t)) /\ h.op = o /\ h \in Parts(t)
         /\ V(t) = h.v /\ W(t) = h.w /\ X(t) = h.x /\ K(t) = h.k
  BY <1>1, Opened
<1>3. V(t) \in Object
  BY <1>2, ItemFields
<1>4. tag[V(t)] # "none"
  BY <1>2, <1>3 DEF Typed, Known, Touch
<1>5. /\ rc[V(t)] \in 0..(2 * SHARED - 1) /\ field[V(t)] \in Object \cup {Nil}
      /\ field[V(t)] # Nil => tag[field[V(t)]] # "none" /\ field[V(t)] # V(t)
  BY <1>3 DEF Typed, TypeOK, Known
<1>6. QED
  BY <1>1, <1>2, <1>3, <1>4, <1>5

-----------------------------------------------------------------------------
(* DupRead: nothing, an addition, a saturation or a plain store follows.   *)
LEMMA DupReadTurn ==
  ASSUME Typed, NEW t \in Thread, DupRead(t)
  PROVE  LET v == V(t)
             w == rc[v]
         IN \E c : /\ Turn(t, Rest(t), <<Head(code[t])>>, c)
                   /\ \/ IsSaturated(w) /\ c = <<>>
                      \/ \E a \in Item :
                           /\ c = <<a>> /\ a.v = v /\ ~IsSaturated(w)
                           /\ \/ IsShared(w) /\ Count(w) >= COUNT_MASK /\ a.op = "saturate"
                              \/ IsShared(w) /\ Count(w) < COUNT_MASK /\ a.op = "add"
                              \/ /\ ~IsShared(w) /\ a.op = "store"
                                 /\ a.w = IF w >= COUNT_MASK THEN SATURATED ELSE w + 1
<1> DEFINE r == Rest(t)
           v == V(t)
           w == rc[v]
<1>1. /\ code[t] # <<>> /\ Head(code[t]).op = "dup" /\ v \in Object /\ Quiet(r)
      /\ Fits(Head(code[t]), r) /\ w \in 0..(2 * SHARED - 1)
  BY Acting DEF DupRead
<1>2. \A e \in Item : e.op \in {"add", "saturate", "store"} => Fits(e, r)
  BY <1>1 DEF Fits, LastOps, ShadeOps, RewriteOps, UnlockOps
<1>3. CASE IsSaturated(w)
  <2>1. code' = [code EXCEPT ![t] = <<>> \o r]
    BY <1>3 DEF DupRead, Then
  <2>2. Turn(t, r, <<Head(code[t])>>, <<>>)
    BY <2>1, <1>1, Push0, Turned
  <2>3. QED
    BY <2>2, <1>3
<1>4. CASE ~IsSaturated(w) /\ IsShared(w)
  <2> DEFINE o == IF Count(w) >= COUNT_MASK THEN "saturate" ELSE "add"
             a == M(o, v)
  <2>0. IsPlain(M("add", v), "add", v) /\ IsPlain(M("saturate", v), "saturate", v)
    BY <1>1, PlainItem
  <2>1. code' = [code EXCEPT ![t] = <<a>> \o r]
    BY <1>4 DEF DupRead, Then
  <2>2. a \in Item /\ a.op = o /\ a.v = v
    BY <2>0 DEF IsPlain
  <2> HIDE DEF a
  <2>3. Turn(t, r, <<Head(code[t])>>, <<a>>)
    BY <2>1, <2>2, <1>1, <1>2, Push1, Turned
  <2>4. Count(w) >= COUNT_MASK \/ Count(w) < COUNT_MASK
    BY <1>1, Words, Numbers
  <2>5. QED
    BY <1>4, <2>2, <2>3, <2>4
<1>5. CASE ~IsSaturated(w) /\ ~IsShared(w)
  <2> DEFINE n == IF Count(w) >= COUNT_MASK THEN SATURATED ELSE w + 1
             a == [M("store", v) EXCEPT !.w = n]
  <2>1. code' = [code EXCEPT ![t] = <<a>> \o r]
    BY <1>5 DEF DupRead, Then
  <2>2. Count(w) = w /\ w < SATURATED
    BY <1>1, <1>5, Words, Numbers
  <2>3. n \in 0..SATURATED /\ n = IF w >= COUNT_MASK THEN SATURATED ELSE w + 1
    BY <1>1, <2>2, Numbers
  <2>4. a \in Item /\ a.op = "store" /\ a.v = v /\ a.w = n
    BY <2>3, <1>1, StoreItem
  <2> HIDE DEF a, n
  <2>5. Turn(t, r, <<Head(code[t])>>, <<a>>)
    BY <2>1, <2>4, <1>1, <1>2, Push1, Turned
  <2>6. QED
    BY <1>5, <2>3, <2>4, <2>5
<1>6. QED
  BY <1>3, <1>4, <1>5

(* A micro-operation on a value that leaves nothing more to do.            *)
LEMMA DoneTurn ==
  ASSUME Typed, NEW t \in Thread, code[t] # <<>>, Then(t, <<>>)
  PROVE  Turn(t, Rest(t), <<Head(code[t])>>, <<>>)
<1>1. Quiet(Rest(t))
  BY Opened
<1>2. Pushed(<<>> \o Rest(t), <<>>, Rest(t))
  BY <1>1, Push0
<1>3. QED
  BY <1>2, Turned DEF Then

(* Add: when the count was at its limit, a saturation follows.             *)
LEMMA AddTurn ==
  ASSUME Typed, NEW t \in Thread, Add(t)
  PROVE  LET w == rc[V(t)]
         IN \E c : /\ Turn(t, Rest(t), <<Head(code[t])>>, c)
                   /\ \/ ~IsSaturated(w) /\ Count(w) < COUNT_MASK /\ c = <<>>
                      \/ /\ IsSaturated(w) \/ Count(w) >= COUNT_MASK
                         /\ \E a \in Item : c = <<a>> /\ a.op = "saturate" /\ a.v = V(t)
<1> DEFINE r == Rest(t)
           w == rc[V(t)]
           a == M("saturate", V(t))
<1>1. /\ code[t] # <<>> /\ Head(code[t]).op = "add" /\ V(t) \in Object /\ Quiet(r)
      /\ Fits(Head(code[t]), r) /\ w \in 0..(2 * SHARED - 1)
  BY Acting DEF Add
<1>2. Count(w) >= COUNT_MASK \/ Count(w) < COUNT_MASK
  BY <1>1, Words, Numbers
<1>3. a \in Item /\ a.op = "saturate" /\ a.v = V(t)
  <2>1. IsPlain(a, "saturate", V(t))
    BY <1>1, PlainItem
  <2> HIDE DEF a
  <2>2. QED
    BY <2>1 DEF IsPlain
<1>4. CASE IsSaturated(w) \/ Count(w) >= COUNT_MASK
  <2>1. code' = [code EXCEPT ![t] = <<a>> \o r]
    BY <1>4 DEF Add, Then
  <2> HIDE DEF a
  <2>2. Fits(a, r)
    BY <1>1, <1>3 DEF Fits, LastOps, ShadeOps, RewriteOps, UnlockOps
  <2>3. Turn(t, r, <<Head(code[t])>>, <<a>>)
    BY <2>1, <2>2, <1>1, Push1, Turned
  <2>4. QED
    BY <1>3, <1>4, <2>3
<1>5. CASE ~(IsSaturated(w) \/ Count(w) >= COUNT_MASK)
  <2>1. Then(t, <<>>)
    BY <1>5 DEF Add
  <2>2. Turn(t, r, <<Head(code[t])>>, <<>>)
    BY <2>1, <1>1, DoneTurn
  <2>3. QED
    BY <1>2, <1>5, <2>2
<1>6. QED
  BY <1>4, <1>5

(* What a drop has left to do when its count is the word w: a free, or none.*)
FreeNext(c, v, w) ==
  \/ Count(w) = 1 /\ Freeable(v) /\ \E a \in Item : c = <<a>> /\ a.op = "free" /\ a.v = v
  \/ ~(Count(w) = 1 /\ Freeable(v)) /\ c = <<>>

(* FreeLast puts a free of the value in, behind the poison it may stand    *)
(* before, when the count was one, and nothing otherwise.                  *)
LEMMA FreeLastPushed ==
  ASSUME NEW t, NEW v \in Object, NEW w, Quiet(Rest(t)),
         ~With(Rest(t), "shade"), ~With(Rest(t), "cellUnlock")
  PROVE  LET r == Rest(t)
             s == FreeLast(t, v, w)
         IN \E c : Pushed(s, c, r) /\ Quiet(s) /\ FreeNext(c, v, w)
<1> DEFINE r == Rest(t)
           s == FreeLast(t, v, w)
           a == M("free", v)
<1>1. a \in Item /\ a.op = "free" /\ a.v = v
  <2>1. IsPlain(a, "free", v)
    BY PlainItem
  <2> HIDE DEF a
  <2>2. QED
    BY <2>1 DEF IsPlain
<1>2. r \in Seq(Item) /\ WellFormed(r)
  BY DEF Quiet, WellFormed
<1> HIDE DEF a
<1>3. \A q : Quiet(q) /\ ~With(q, "shade") /\ ~With(q, "cellUnlock") => Fits(a, q)
  BY <1>1 DEF Fits, RewriteOps, LastOps
<1>4. a.op \notin HeadOps
  BY <1>1 DEF HeadOps, IncOps
<1>5. CASE ~(Count(w) = 1 /\ Freeable(v))
  <2>1. s = r
    BY <1>5 DEF FreeLast
  <2>2. Pushed(r, <<>>, r)
    BY Push0
  <2>3. QED
    BY <2>1, <2>2, <1>5 DEF FreeNext
<1>6. CASE Count(w) = 1 /\ Freeable(v) /\ ~(r # <<>> /\ Head(r).op = "poison")
  <2>1. s = <<a>> \o r
    BY <1>6 DEF FreeLast, a
  <2>2. Pushed(<<a>> \o r, <<a>>, r) /\ Quiet(<<a>> \o r)
    BY <1>3, <1>4, Push1
  <2>3. QED
    BY <1>1, <1>6, <2>1, <2>2 DEF FreeNext
<1>7. CASE Count(w) = 1 /\ Freeable(v) /\ r # <<>> /\ Head(r).op = "poison"
  <2> DEFINE q == Tail(r)
             p == Head(r)
  <2>1. s = <<p, a>> \o q
    BY <1>7 DEF FreeLast, a
  <2>2. Quiet(q) /\ Fits(p, q) /\ p \in Item /\ p.op = "poison"
    BY <1>2, <1>7, ShapeTail DEF Fits
  <2>3. /\ q \in Seq(Item) /\ Len(r) = Len(q) + 1 /\ r[1] = p
        /\ \A i \in 2..Len(r) : r[i] = q[i - 1]
    BY <1>2, <1>7, SeqTail
  <2> HIDE DEF q, p
  <2>4. Items(r) = {p} \cup Items(q) /\ \A S : Cnt(r, S) = Cnt(q, S) + One(p, S)
    BY <1>2, <2>3, Listed
  <2>5. ~With(q, "shade") /\ ~With(q, "cellUnlock")
    BY <2>4 DEF With
  <2>6. Fits(a, q) /\ Before(p, a)
    BY <1>1, <1>3, <1>4, <2>2, <2>5 DEF Before, LastOps
  <2>7. p.op \notin HeadOps
    BY <2>2 DEF HeadOps, IncOps
  <2>8. Pushed(<<p, a>> \o q, <<p, a>>, q) /\ Quiet(<<p, a>> \o q)
    BY <2>2, <2>6, <2>7, Push2
  <2>9. Items(<<p, a>>) = {p, a} /\ \A S : Cnt(<<p, a>>, S) = One(p, S) + One(a, S)
    BY List2
  <2>10. Items(<<a>>) = {a} /\ \A S : Cnt(<<a>>, S) = One(a, S)
    BY List1
  <2>11. \A S : Cnt(q, S) \in Nat /\ One(p, S) \in Nat /\ One(a, S) \in Nat
    BY <2>3, CntPositive DEF One
  <2>12. <<a>> \in Seq(Item)
    BY <1>1
  <2> DEFINE c == <<p, a>>
             d == <<a>>
             u == <<p, a>> \o q
  <2> HIDE DEF c, d, u
  <2>13. WellFormed(u) /\ Items(u) = Items(q) \cup Items(c) /\ \A S : Cnt(u, S) = Cnt(q, S) + Cnt(c, S)
    BY <2>8 DEF u, c, Pushed
  <2>14. /\ Items(c) = {p, a} /\ (\A S : Cnt(c, S) = One(p, S) + One(a, S))
         /\ Items(d) = {a} /\ (\A S : Cnt(d, S) = One(a, S)) /\ d \in Seq(Item)
    BY <2>9, <2>10, <2>12 DEF c, d
  <2>15. Pushed(u, d, r)
    BY <2>4, <2>11, <2>13, <2>14 DEF Pushed
  <2>16. Pushed(s, <<a>>, r) /\ Quiet(s)
    BY <2>1, <2>8, <2>15 DEF u, d
  <2>17. QED
    BY <2>16, <1>1, <1>7 DEF FreeNext
<1>8. QED
  BY <1>5, <1>6, <1>7

(* One more micro-operation in front of a list that was put in.            *)
LEMMA PushOnto ==
  ASSUME NEW r, r \in Seq(Item), NEW s, Quiet(s), NEW c, Pushed(s, c, r), NEW a, Fits(a, s)
  PROVE  /\ c = <<>> => Pushed(<<a>> \o s, <<a>>, r)
         /\ \A d \in Item : c = <<d>> => Pushed(<<a>> \o s, <<a, d>>, r)
<1> DEFINE u == <<a>> \o s
<1>1. /\ WellFormed(u) /\ Items(u) = {a} \cup Items(s)
      /\ \A S : Cnt(u, S) = Cnt(s, S) + One(a, S)
  BY Front
<1>2. a \in Item /\ \A S : Cnt(r, S) \in Nat /\ One(a, S) \in Nat
  BY CntPositive DEF Fits, One
<1>3. Items(s) = Items(r) \cup Items(c) /\ \A S : Cnt(s, S) = Cnt(r, S) + Cnt(c, S)
  BY DEF Pushed
<1> HIDE DEF u
<1>4. ASSUME c = <<>> PROVE Pushed(u, <<a>>, r)
  <2> DEFINE e == <<a>>
  <2>1. e \in Seq(Item) /\ Items(e) = {a} /\ \A S : Cnt(e, S) = One(a, S)
    BY <1>2, List1
  <2>2. Items(c) = {} /\ \A S : Cnt(c, S) = 0
    BY <1>4, Nothing
  <2> HIDE DEF e
  <2>3. Pushed(u, e, r)
    BY <1>1, <1>2, <1>3, <2>1, <2>2 DEF Pushed
  <2>4. QED
    BY <2>3 DEF e
<1>5. ASSUME NEW d \in Item, c = <<d>> PROVE Pushed(u, <<a, d>>, r)
  <2> DEFINE e == <<a, d>>
  <2>1. e \in Seq(Item)
    BY <1>2
  <2>2. Items(e) = {a, d} /\ \A S : Cnt(e, S) = One(a, S) + One(d, S)
    BY List2
  <2>3. Items(c) = {d} /\ \A S : Cnt(c, S) = One(d, S)
    BY <1>5, List1
  <2>4. \A S : One(d, S) \in Nat
    BY DEF One
  <2> HIDE DEF e
  <2>5. Pushed(u, e, r)
    BY <1>1, <1>2, <1>3, <2>1, <2>2, <2>3, <2>4 DEF Pushed
  <2>6. QED
    BY <2>5 DEF e
<1>6. QED
  BY <1>4, <1>5 DEF u

(* DropRead: nothing, a compare-and-swap, or a plain store and, when the   *)
(* count was one, a free.                                                  *)
LEMMA DropReadTurn ==
  ASSUME Typed, NEW t \in Thread, DropRead(t)
  PROVE  LET v == V(t)
             w == rc[v]
         IN \E c : /\ Turn(t, Rest(t), <<Head(code[t])>>, c)
                   /\ \/ (IsSaturated(w) \/ Count(w) = 0) /\ c = <<>>
                      \/ /\ ~IsSaturated(w) /\ Count(w) # 0 /\ IsShared(w)
                         /\ \E a \in Item : c = <<a>> /\ a.op = "cas" /\ a.v = v /\ a.w = w
                      \/ /\ ~IsSaturated(w) /\ Count(w) # 0 /\ ~IsShared(w)
                         /\ \E a \in Item : /\ a.op = "store" /\ a.v = v /\ a.w = w - 1
                                            /\ \/ ~(w = 1 /\ Freeable(v)) /\ c = <<a>>
                                               \/ /\ w = 1 /\ Freeable(v)
                                                  /\ \E d \in Item : c = <<a, d>> /\ d.op = "free" /\ d.v = v
<1> DEFINE r == Rest(t)
           h == Head(code[t])
           v == V(t)
           w == rc[v]
<1>1. /\ code[t] # <<>> /\ h.op = "drop" /\ v \in Object /\ Quiet(r)
      /\ Fits(h, r) /\ w \in 0..(2 * SHARED - 1)
  BY Acting DEF DropRead
<1>2. ~With(r, "shade") /\ ~With(r, "cellUnlock")
  BY <1>1 DEF Fits, ShadeOps, UnlockOps
<1>3. \A e \in Item : e.op \in {"cas", "store"} => Fits(e, r)
  BY <1>1, <1>2 DEF Fits, LastOps, RewriteOps
<1>4. Count(w) \in Nat
  BY <1>1, Words, Numbers
<1>5. CASE IsSaturated(w) \/ Count(w) = 0
  <2>1. code' = [code EXCEPT ![t] = <<>> \o r]
    BY <1>1, <1>5, Push0 DEF DropRead
  <2>2. Turn(t, r, <<h>>, <<>>)
    BY <2>1, <1>1, Push0, Turned
  <2>3. QED
    BY <2>2, <1>5
<1>6. CASE ~IsSaturated(w) /\ Count(w) # 0 /\ IsShared(w)
  <2> DEFINE a == [M("cas", v) EXCEPT !.w = w]
  <2>1. code' = [code EXCEPT ![t] = <<a>> \o r]
    BY <1>6 DEF DropRead
  <2>2. w \in 1..(2 * SHARED - 1)
    BY <1>1, <1>6, Words, Numbers
  <2>3. a \in Item /\ a.op = "cas" /\ a.v = v /\ a.w = w
    BY <2>2, <1>1, CasItem
  <2> HIDE DEF a
  <2>4. Turn(t, r, <<h>>, <<a>>)
    BY <2>1, <2>3, <1>1, <1>3, Push1, Turned
  <2>5. QED
    BY <1>6, <2>3, <2>4
<1>7. CASE ~IsSaturated(w) /\ Count(w) # 0 /\ ~IsShared(w)
  <2> DEFINE a == [M("store", v) EXCEPT !.w = w - 1]
             s == FreeLast(t, v, w)
  <2>1. code' = [code EXCEPT ![t] = <<a>> \o s]
    BY <1>7 DEF DropRead
  <2>2. Count(w) = w /\ w - 1 \in 0..SATURATED
    BY <1>1, <1>7, Words, Numbers
  <2>3. a \in Item /\ a.op = "store" /\ a.v = v /\ a.w = w - 1
    BY <2>2, <1>1, StoreItem
  <2> HIDE DEF a
  <2>4. PICK c : Pushed(s, c, r) /\ Quiet(s) /\ FreeNext(c, v, w)
    BY <1>1, <1>2, FreeLastPushed
  <2>5. r \in Seq(Item)
    BY <1>1 DEF Quiet, WellFormed
  <2>6. Items(s) = Items(r) \cup Items(c)
    BY <2>4 DEF Pushed
  <2>7. \A e \in Items(c) : e.op = "free"
    <3>1. c = <<>> \/ \E d \in Item : c = <<d>> /\ d.op = "free"
      BY <2>4 DEF FreeNext
    <3>2. CASE c = <<>>
      BY <3>2, Nothing
    <3>3. ASSUME NEW d \in Item, c = <<d>>, d.op = "free" PROVE \A e \in Items(c) : e.op = "free"
      BY <3>3, List1
    <3>4. QED
      BY <3>1, <3>2, <3>3
  <2>8. Fits(a, s)
    BY <2>3, <2>6, <2>7, <1>2 DEF Fits, With, RewriteOps, LastOps
  <2>9. CASE w = 1 /\ Freeable(v)
    <3>1. PICK d \in Item : c = <<d>> /\ d.op = "free" /\ d.v = v
      BY <2>2, <2>4, <2>9 DEF FreeNext
    <3>2. Pushed(<<a>> \o s, <<a, d>>, r)
      BY <3>1, <2>4, <2>5, <2>8, PushOnto
    <3>3. Turn(t, r, <<h>>, <<a, d>>)
      BY <3>2, <2>1, <1>1, Turned
    <3>4. QED
      BY <3>1, <3>3, <2>3, <2>9, <1>7
  <2>10. CASE ~(w = 1 /\ Freeable(v))
    <3>1. c = <<>>
      BY <2>2, <2>4, <2>10 DEF FreeNext
    <3>2. Pushed(<<a>> \o s, <<a>>, r)
      BY <3>1, <2>4, <2>5, <2>8, PushOnto
    <3>3. Turn(t, r, <<h>>, <<a>>)
      BY <3>2, <2>1, <1>1, Turned
    <3>4. QED
      BY <3>3, <2>3, <2>10, <1>7
  <2>11. QED
    BY <2>9, <2>10
<1>8. QED
  BY <1>5, <1>6, <1>7

(* DropCas: the decrement and a free, or another turn of the loop.         *)
LEMMA DropCasTurn ==
  ASSUME Typed, NEW t \in Thread, DropCas(t)
  PROVE  LET v == V(t)
             w == W(t)
         IN \E c : /\ Turn(t, Rest(t), <<Head(code[t])>>, c)
                   /\ \/ rc[v] = w /\ rc' = [rc EXCEPT ![v] = w - 1] /\ FreeNext(c, v, w)
                      \/ /\ rc' = rc /\ (IsSaturated(rc[v]) \/ Count(rc[v]) = 0) /\ c = <<>>
                      \/ /\ rc' = rc /\ ~IsSaturated(rc[v]) /\ Count(rc[v]) # 0
                         /\ \E a \in Item : c = <<a>> /\ a.op = "cas" /\ a.v = v /\ a.w = rc[v]
<1> DEFINE r == Rest(t)
           h == Head(code[t])
           v == V(t)
           w == W(t)
<1>1. /\ code[t] # <<>> /\ h.op = "cas" /\ v \in Object /\ Quiet(r)
      /\ Fits(h, r) /\ rc[v] \in 0..(2 * SHARED - 1)
  BY Acting DEF DropCas
<1>2. ~With(r, "shade") /\ ~With(r, "cellUnlock")
  BY <1>1 DEF Fits, ShadeOps, UnlockOps
<1>3. CASE Unmoved(v, w)
  <2>1. rc[v] = w /\ rc' = [rc EXCEPT ![v] = w - 1] /\ code' = [code EXCEPT ![t] = FreeLast(t, v, w)]
    BY <1>3 DEF DropCas, Unmoved, SetRc
  <2>2. PICK c : Pushed(FreeLast(t, v, w), c, r) /\ FreeNext(c, v, w)
    BY <1>1, <1>2, FreeLastPushed
  <2>3. Turn(t, r, <<h>>, c)
    BY <2>1, <2>2, <1>1, Turned
  <2>4. QED
    BY <2>1, <2>2, <2>3
<1>4. CASE ~Unmoved(v, w) /\ (IsSaturated(rc[v]) \/ Count(rc[v]) = 0)
  <2>1. rc' = rc /\ Then(t, <<>>)
    BY <1>4 DEF DropCas
  <2>2. Turn(t, r, <<h>>, <<>>)
    BY <2>1, <1>1, DoneTurn
  <2>3. QED
    BY <2>1, <2>2, <1>4
<1>5. CASE ~Unmoved(v, w) /\ ~(IsSaturated(rc[v]) \/ Count(rc[v]) = 0)
  <2> DEFINE a == [M("cas", v) EXCEPT !.w = rc[v]]
  <2>1. rc' = rc /\ code' = [code EXCEPT ![t] = <<a>> \o r]
    BY <1>5 DEF DropCas, Then
  <2>2. rc[v] \in 1..(2 * SHARED - 1)
    BY <1>1, <1>5, Words, Numbers
  <2>3. a \in Item /\ a.op = "cas" /\ a.v = v /\ a.w = rc[v]
    BY <2>2, <1>1, CasItem
  <2> HIDE DEF a
  <2>4. Fits(a, r)
    BY <2>3, <1>1, <1>2 DEF Fits, LastOps, RewriteOps
  <2>5. Turn(t, r, <<h>>, <<a>>)
    BY <2>1, <2>3, <2>4, <1>1, Push1, Turned
  <2>6. QED
    BY <1>5, <2>1, <2>3, <2>5
<1>6. QED
  BY <1>3, <1>4, <1>5

(* Free: nothing, or the poison, after the drop of the field if there is   *)
(* one.                                                                    *)
LEMMA FreeTurn ==
  ASSUME Typed, NEW t \in Thread, Free(t)
  PROVE  LET v == V(t)
             f == field[v]
             dies == Freeable(v) /\ Count(rc[v]) = 0 /\ ~IsSaturated(rc[v])
         IN \E c : /\ Turn(t, Rest(t), <<Head(code[t])>>, c)
                   /\ \/ ~dies /\ c = <<>>
                      \/ /\ dies
                         /\ \E p \in Item :
                              /\ p.op = "poison" /\ p.v = v
                              /\ \/ f = Nil /\ c = <<p>>
                                 \/ /\ f # Nil
                                    /\ \E d \in Item : c = <<d, p>> /\ d.op = "drop" /\ d.v = f
<1> DEFINE r == Rest(t)
           h == Head(code[t])
           v == V(t)
           f == field[v]
           p == M("poison", v)
           d == M("drop", f)
           dies == Freeable(v) /\ Count(rc[v]) = 0 /\ ~IsSaturated(rc[v])
<1>1. /\ code[t] # <<>> /\ h.op = "free" /\ v \in Object /\ Quiet(r) /\ Fits(h, r)
      /\ f # Nil => f \in Object
  BY Acting DEF Free
<1>2. ~With(r, "shade") /\ ~With(r, "cellUnlock")
  BY <1>1 DEF Fits, ShadeOps, UnlockOps
<1>3. p \in Item /\ p.op = "poison" /\ p.v = v
  <2>1. IsPlain(p, "poison", v)
    BY <1>1, PlainItem
  <2> HIDE DEF p
  <2>2. QED
    BY <2>1 DEF IsPlain
<1>4. CASE ~dies
  <2>1. Then(t, <<>>)
    BY <1>4 DEF Free
  <2>2. Turn(t, r, <<h>>, <<>>)
    BY <2>1, <1>1, DoneTurn
  <2>3. QED
    BY <2>2, <1>4
<1>5. \A e \in Item : e.op \in {"drop", "poison"} => Fits(e, r)
  BY <1>1, <1>2 DEF Fits, LastOps, RewriteOps
<1>6. CASE dies /\ f = Nil
  <2>1. code' = [code EXCEPT ![t] = (<<>> \o <<p>>) \o r]
    BY <1>6 DEF Free, Then, Drop
  <2>2. <<>> \o <<p>> = <<p>>
    OBVIOUS
  <2> HIDE DEF p
  <2>3. Turn(t, r, <<h>>, <<p>>)
    BY <2>1, <2>2, <1>1, <1>3, <1>5, Push1, Turned
  <2>4. QED
    BY <1>3, <1>6, <2>3
<1>7. CASE dies /\ f # Nil
  <2>1. code' = [code EXCEPT ![t] = (<<d>> \o <<p>>) \o r]
    BY <1>7 DEF Free, Then, Drop
  <2>2. d \in Item /\ d.op = "drop" /\ d.v = f
    <3>1. IsPlain(d, "drop", f)
      BY <1>1, <1>7, PlainItem
    <3> HIDE DEF d
    <3>2. QED
      BY <3>1 DEF IsPlain
  <2> HIDE DEF p, d
  <2>3. <<d>> \o <<p>> = <<d, p>>
    BY <1>3, <2>2, Pair
  <2>4. Before(d, p)
    BY <1>3, <2>2 DEF Before, HeadOps, IncOps, LastOps
  <2>5. Pushed(<<d, p>> \o r, <<d, p>>, r)
    BY <1>1, <1>3, <1>5, <2>2, <2>4, Push2
  <2>6. Turn(t, r, <<h>>, <<d, p>>)
    BY <2>1, <2>3, <2>5, <1>1, Turned
  <2>7. QED
    BY <1>3, <1>7, <2>2, <2>6
<1>8. QED
  BY <1>4, <1>6, <1>7

(* Shade: nothing when the value is shared; the field otherwise, and the   *)
(* walk's own reference around it when the value is the content of a cell. *)
LEMMA ShadeTurn ==
  ASSUME Typed, NEW t \in Thread, Shade(t)
  PROVE  LET v == V(t)
             f == field[v]
         IN \E c : /\ Turn(t, Rest(t), <<Head(code[t])>>, c)
                   /\ \/ IsShared(rc[v]) /\ c = <<>>
                      \/ ~IsShared(rc[v]) /\ K(t) # "ref" /\ f = Nil /\ c = <<>>
                      \/ /\ ~IsShared(rc[v]) /\ K(t) # "ref" /\ f # Nil
                         /\ \E s \in Item : c = <<s>> /\ s.op = "shade" /\ s.v = f /\ s.k = tag[v]
                      \/ /\ ~IsShared(rc[v]) /\ K(t) = "ref"
                         /\ \E a, d \in Item :
                              /\ a.op = "dup" /\ a.v = v /\ d.op = "drop" /\ d.v = v
                              /\ \/ f = Nil /\ c = <<a, d>>
                                 \/ /\ f # Nil
                                    /\ \E s \in Item : c = <<a, s, d>> /\ s.op = "shade" /\ s.v = f /\ s.k = tag[v]
<1> DEFINE r == Rest(t)
           h == Head(code[t])
           v == V(t)
           f == field[v]
           a == M("dup", v)
           d == M("drop", v)
           s == [M("shade", f) EXCEPT !.k = tag[v]]
<1>1. /\ code[t] # <<>> /\ h.op = "shade" /\ v \in Object /\ Quiet(r) /\ Fits(h, r)
      /\ f # Nil => f \in Object
  BY Acting DEF Shade
<1>2. tag[v] \in Tags /\ v # Nil
  BY <1>1, Numbers DEF Typed, TypeOK
<1>3. ~With(r, "shade") /\ ~With(r, "cellUnlock") /\ ~With(r, "rewrite")
  BY <1>1 DEF Fits, ShadeOps, UnlockOps, RewriteOps
<1>4. /\ a \in Item /\ a.op = "dup" /\ a.v = v /\ d \in Item /\ d.op = "drop" /\ d.v = v
  <2>1. IsPlain(a, "dup", v) /\ IsPlain(d, "drop", v)
    BY <1>1, PlainItem
  <2> HIDE DEF a, d
  <2>2. QED
    BY <2>1 DEF IsPlain
<1>5. f # Nil => s \in Item /\ s.op = "shade" /\ s.v = f /\ s.k = tag[v]
  <2>1. f # Nil => IsShade(s, f, tag[v])
    BY <1>1, <1>2, ShadeItem
  <2> HIDE DEF s
  <2>2. QED
    BY <2>1 DEF IsShade
<1>6. \A e \in Item : e.op \in {"dup", "drop", "shade"} => Fits(e, r)
  BY <1>3 DEF Fits, LastOps
<1>7. CASE IsShared(rc[v])
  <2>1. Then(t, <<>>)
    BY <1>7 DEF Shade
  <2>2. Turn(t, r, <<h>>, <<>>)
    BY <2>1, <1>1, DoneTurn
  <2>3. QED
    BY <2>2, <1>7
<1>8. CASE ~IsShared(rc[v]) /\ K(t) # "ref" /\ f = Nil
  <2>1. code' = [code EXCEPT ![t] = ((<<>> \o <<>>) \o <<>>) \o r]
    BY <1>8 DEF Shade, Then, ShadeField
  <2>2. (<<>> \o <<>>) \o <<>> = <<>>
    OBVIOUS
  <2>3. Turn(t, r, <<h>>, <<>>)
    BY <2>1, <2>2, <1>1, Push0, Turned
  <2>4. QED
    BY <2>3, <1>8
<1>9. CASE ~IsShared(rc[v]) /\ K(t) # "ref" /\ f # Nil
  <2>1. code' = [code EXCEPT ![t] = ((<<>> \o <<s>>) \o <<>>) \o r]
    BY <1>9 DEF Shade, Then, ShadeField
  <2> HIDE DEF s
  <2>2. (<<>> \o <<s>>) \o <<>> = <<s>>
    OBVIOUS
  <2>3. Turn(t, r, <<h>>, <<s>>)
    BY <2>1, <2>2, <1>1, <1>5, <1>6, <1>9, Push1, Turned
  <2>4. QED
    BY <2>3, <1>5, <1>9
<1>10. Before(a, d)
  BY <1>4 DEF Before, HeadOps, IncOps, LastOps
<1>11. CASE ~IsShared(rc[v]) /\ K(t) = "ref" /\ f = Nil
  <2>1. code' = [code EXCEPT ![t] = ((<<a>> \o <<>>) \o <<d>>) \o r]
    BY <1>2, <1>11 DEF Shade, Then, ShadeField, Dup, Drop
  <2> HIDE DEF a, d
  <2>2. (<<a>> \o <<>>) \o <<d>> = <<a, d>>
    BY <1>4, Pair
  <2>3. Pushed(<<a, d>> \o r, <<a, d>>, r)
    BY <1>1, <1>4, <1>6, <1>10, Push2
  <2>4. Turn(t, r, <<h>>, <<a, d>>)
    BY <2>1, <2>2, <2>3, <1>1, Turned
  <2>5. QED
    BY <2>4, <1>4, <1>11
<1>12. CASE ~IsShared(rc[v]) /\ K(t) = "ref" /\ f # Nil
  <2>1. code' = [code EXCEPT ![t] = ((<<a>> \o <<s>>) \o <<d>>) \o r]
    BY <1>2, <1>12 DEF Shade, Then, ShadeField, Dup, Drop
  <2> HIDE DEF a, s, d
  <2>2. (<<a>> \o <<s>>) \o <<d>> = <<a, s, d>>
    <3>1. a \in Item /\ s \in Item /\ d \in Item
      BY <1>4, <1>5, <1>12
    <3>2. <<a>> \o <<s>> = <<a, s>>
      BY <3>1, Pair
    <3>3. <<a, s>> \o <<d>> = <<a, s, d>>
      BY <3>1, Triple
    <3>4. QED
      BY <3>2, <3>3
  <2>3. Before(a, s) /\ Before(s, d)
    BY <1>4, <1>5, <1>12 DEF Before, HeadOps, IncOps, LastOps, ShadeOps
  <2>4. Pushed(<<a, s, d>> \o r, <<a, s, d>>, r)
    BY <1>1, <1>4, <1>5, <1>6, <1>10, <1>12, <2>3, Push3
  <2>5. Turn(t, r, <<h>>, <<a, s, d>>)
    BY <2>1, <2>2, <2>4, <1>1, Turned
  <2>6. QED
    BY <2>5, <1>4, <1>5, <1>12
<1>13. QED
  BY <1>7, <1>8, <1>9, <1>11, <1>12

(* Swap: the old content is dropped.                                       *)
LEMMA SwapTurn ==
  ASSUME Typed, NEW t \in Thread, Swap(t)
  PROVE  LET f == field[V(t)]
         IN \E c : /\ Turn(t, Rest(t), <<Head(code[t])>>, c)
                   /\ \/ f = Nil /\ c = <<>>
                      \/ f # Nil /\ \E d \in Item : c = <<d>> /\ d.op = "drop" /\ d.v = f
<1> DEFINE r == Rest(t)
           f == field[V(t)]
           d == M("drop", f)
<1>1. /\ code[t] # <<>> /\ Head(code[t]).op = "swap" /\ Quiet(r) /\ Fits(Head(code[t]), r)
      /\ f # Nil => f \in Object
  BY Acting DEF Swap
<1>2. r = <<>>
  BY <1>1 DEF Fits, LastOps
<1>3. CASE f = Nil
  <2>1. Then(t, <<>>)
    BY <1>3 DEF Swap, Drop
  <2>2. Turn(t, r, <<Head(code[t])>>, <<>>)
    BY <2>1, <1>1, DoneTurn
  <2>3. QED
    BY <2>2, <1>3
<1>4. CASE f # Nil
  <2>1. code' = [code EXCEPT ![t] = <<d>> \o r]
    BY <1>4 DEF Swap, Then, Drop
  <2>2. d \in Item /\ d.op = "drop" /\ d.v = f
    <3>1. IsPlain(d, "drop", f)
      BY <1>1, <1>4, PlainItem
    <3> HIDE DEF d
    <3>2. QED
      BY <3>1 DEF IsPlain
  <2> HIDE DEF d
  <2>3. Fits(d, r)
    BY <1>2, <2>2, Nothing
  <2>4. Turn(t, r, <<Head(code[t])>>, <<d>>)
    BY <2>1, <2>3, <1>1, Push1, Turned
  <2>5. QED
    BY <2>2, <2>4, <1>4
<1>5. QED
  BY <1>3, <1>4

(* CellGet: the increment of the content, under the lock of a shared cell, *)
(* and the reference it makes.                                             *)
LEMMA CellGetTurn ==
  ASSUME Typed, NEW t \in Thread, CellGet(t)
  PROVE  LET v == V(t)
             f == field[v]
         IN /\ Rest(t) = <<>>
            /\ \E c :
                 /\ Turn(t, Rest(t), <<Head(code[t])>>, c)
                 /\ \/ ~IsShared(rc[v]) /\ f = Nil /\ c = <<>>
                    \/ /\ ~IsShared(rc[v]) /\ f # Nil
                       /\ \E a, e \in Item : /\ c = <<a, e>> /\ a.op = "dup" /\ a.v = f
                                             /\ e.op = "own" /\ e.v = f
                    \/ /\ IsShared(rc[v])
                       /\ \E d \in Item :
                            /\ d.op = "cellUnlock" /\ d.v = v
                            /\ \/ f = Nil /\ c = <<d>>
                               \/ /\ f # Nil
                                  /\ \E a, e \in Item : /\ c = <<a, d, e>> /\ a.op = "dup" /\ a.v = f
                                                        /\ e.op = "own" /\ e.v = f
<1> DEFINE r == Rest(t)
           v == V(t)
           f == field[v]
           a == M("dup", f)
           d == M("cellUnlock", v)
           e == M("own", f)
<1>1. /\ code[t] # <<>> /\ Head(code[t]).op = "get" /\ v \in Object /\ Quiet(r)
      /\ Fits(Head(code[t]), r) /\ (f # Nil => f \in Object)
  BY Acting DEF CellGet
<1>2. r = <<>>
  BY <1>1 DEF Fits, LastOps
<1>3. d \in Item /\ d.op = "cellUnlock" /\ d.v = v
  <2>1. IsPlain(d, "cellUnlock", v)
    BY <1>1, PlainItem
  <2> HIDE DEF d
  <2>2. QED
    BY <2>1 DEF IsPlain
<1>4. f # Nil => /\ a \in Item /\ a.op = "dup" /\ a.v = f
                 /\ e \in Item /\ e.op = "own" /\ e.v = f
  <2>1. f # Nil => IsPlain(a, "dup", f) /\ IsPlain(e, "own", f)
    BY <1>1, PlainItem
  <2> HIDE DEF a, e
  <2>2. QED
    BY <2>1 DEF IsPlain
<1>5. \A i \in Item : Fits(i, r)
  BY <1>2, Nothing
<1>6. CASE ~IsShared(rc[v]) /\ f = Nil
  <2>1. code' = [code EXCEPT ![t] = (<<>> \o <<>>) \o r]
    BY <1>6 DEF CellGet, Then, Dup, Own
  <2>2. <<>> \o <<>> = <<>>
    OBVIOUS
  <2>3. Turn(t, r, <<Head(code[t])>>, <<>>)
    BY <2>1, <2>2, <1>1, Push0, Turned
  <2>4. QED
    BY <2>3, <1>2, <1>6
<1>7. CASE ~IsShared(rc[v]) /\ f # Nil
  <2>1. code' = [code EXCEPT ![t] = (<<a>> \o <<e>>) \o r]
    BY <1>7 DEF CellGet, Then, Dup, Own
  <2> HIDE DEF a, e
  <2>2. <<a>> \o <<e>> = <<a, e>>
    BY <1>4, <1>7, Pair
  <2>3. Before(a, e)
    BY <1>4, <1>7 DEF Before, HeadOps, IncOps, LastOps
  <2>4. Pushed(<<a, e>> \o r, <<a, e>>, r)
    BY <1>1, <1>4, <1>5, <1>7, <2>3, Push2
  <2>5. Turn(t, r, <<Head(code[t])>>, <<a, e>>)
    BY <2>1, <2>2, <2>4, <1>1, Turned
  <2>6. QED
    BY <2>5, <1>2, <1>4, <1>7
<1>8. CASE IsShared(rc[v]) /\ f = Nil
  <2>1. code' = [code EXCEPT ![t] = ((<<>> \o <<d>>) \o <<>>) \o r]
    BY <1>8 DEF CellGet, Then, Dup, Own
  <2> HIDE DEF d
  <2>2. (<<>> \o <<d>>) \o <<>> = <<d>>
    OBVIOUS
  <2>3. Turn(t, r, <<Head(code[t])>>, <<d>>)
    BY <2>1, <2>2, <1>1, <1>3, <1>5, Push1, Turned
  <2>4. QED
    BY <2>3, <1>2, <1>3, <1>8
<1>9. CASE IsShared(rc[v]) /\ f # Nil
  <2>1. code' = [code EXCEPT ![t] = ((<<a>> \o <<d>>) \o <<e>>) \o r]
    BY <1>9 DEF CellGet, Then, Dup, Own
  <2> HIDE DEF a, d, e
  <2>2. (<<a>> \o <<d>>) \o <<e>> = <<a, d, e>>
    <3>1. a \in Item /\ d \in Item /\ e \in Item
      BY <1>3, <1>4, <1>9
    <3>2. <<a>> \o <<d>> = <<a, d>>
      BY <3>1, Pair
    <3>3. <<a, d>> \o <<e>> = <<a, d, e>>
      BY <3>1, Triple
    <3>4. QED
      BY <3>2, <3>3
  <2>3. Before(a, d) /\ Before(a, e) /\ Before(d, e)
    BY <1>3, <1>4, <1>9 DEF Before, HeadOps, IncOps, LastOps, UnlockOps
  <2>4. Pushed(<<a, d, e>> \o r, <<a, d, e>>, r)
    BY <1>1, <1>3, <1>4, <1>5, <1>9, <2>3, Push3
  <2>5. Turn(t, r, <<Head(code[t])>>, <<a, d, e>>)
    BY <2>1, <2>2, <2>4, <1>1, Turned
  <2>6. QED
    BY <2>5, <1>2, <1>3, <1>4, <1>9
<1>10. QED
  BY <1>6, <1>7, <1>8, <1>9

-----------------------------------------------------------------------------
(* Operations of one to four micro-operations.                             *)
LEMMA Whole1 ==
  ASSUME NEW a \in Item
  PROVE  Pushed(<<a>>, <<a>>, <<>>) /\ (a.op \notin HeadOps => Quiet(<<a>>))
<1>1. Quiet(<<>>) /\ Fits(a, <<>>)
  BY Nothing
<1>2. <<a>> \o <<>> = <<a>>
  OBVIOUS
<1>3. QED
  BY <1>1, <1>2, Push1

(* An operation of two micro-operations, begun by an idle thread.          *)
LEMMA Whole2 ==
  ASSUME NEW a \in Item, NEW b \in Item, Before(a, b)
  PROVE  Pushed(<<a, b>>, <<a, b>>, <<>>)
<1>1. Quiet(<<>>) /\ Fits(a, <<>>) /\ Fits(b, <<>>)
  BY Nothing
<1>2. <<a, b>> \o <<>> = <<a, b>>
  OBVIOUS
<1>3. QED
  BY <1>1, <1>2, Push2

(* An operation of three.                                                  *)
LEMMA Whole3 ==
  ASSUME NEW a \in Item, NEW b \in Item, NEW d \in Item, Before(a, b), Before(a, d), Before(b, d)
  PROVE  Pushed(<<a, b, d>>, <<a, b, d>>, <<>>)
<1>1. Quiet(<<>>) /\ Fits(a, <<>>) /\ Fits(b, <<>>) /\ Fits(d, <<>>)
  BY Nothing
<1>2. <<a, b, d>> \o <<>> = <<a, b, d>>
  OBVIOUS
<1>3. QED
  BY <1>1, <1>2, Push3

(* An operation of four.                                                   *)
LEMMA Whole4 ==
  ASSUME NEW a \in Item, NEW b \in Item, NEW d \in Item, NEW e \in Item,
         Before(a, b), Before(a, d), Before(b, d), Before(a, e), Before(b, e), Before(d, e)
  PROVE  Pushed(<<a, b, d>> \o <<e>>, <<a, b, d>> \o <<e>>, <<>>)
<1> DEFINE r == <<e>>
           c == <<a, b, d>>
           s == c \o r
<1>1. Fits(e, <<>>) /\ Items(<<>>) = {} /\ \A S : Cnt(<<>>, S) = 0
  BY Nothing
<1>2. Quiet(r)
  BY Whole1 DEF Before
<1>3. Items(r) = {e} /\ \A S : Cnt(r, S) = One(e, S)
  BY List1
<1>4. Fits(a, r) /\ Fits(b, r) /\ Fits(d, r)
  BY <1>3 DEF Before, Fits, With
<1>5. Pushed(s, c, r)
  BY <1>2, <1>4, Push3
<1>6. s \in Seq(Item)
  BY <1>5 DEF Pushed, WellFormed
<1>7. \A S : Cnt(s, S) \in Nat
  BY <1>6, CntPositive
<1> HIDE DEF s
<1>8. Pushed(s, s, <<>>)
  BY <1>1, <1>5, <1>6, <1>7 DEF Pushed
<1>9. QED
  BY <1>8 DEF s

-----------------------------------------------------------------------------
(* The operations of the program.                                          *)

(* What an operation that begins with the list c does to the rest of the   *)
(* state.                                                                  *)
LEMMA BeginFacts ==
  ASSUME Typed, NEW t \in Thread, NEW c, NEW gone, Begin(t, c, gone),
         \A o \in Object : o \in gone => owned[t][o] > 0,
         Quiet(<<>>) => Pushed(c, c, <<>>)
  PROVE  /\ Turn(t, <<>>, <<>>, c) /\ code[t] = <<>>
         /\ owned' \in [Thread -> [Object -> Nat]]
         /\ \A u \in Thread : u # t => owned'[u] = owned[u]
         /\ \A o \in Object : owned'[t][o] = IF o \in gone THEN owned[t][o] - 1 ELSE owned[t][o]
         /\ ops' \in Nat /\ UNCHANGED <<tag, rc, field, markLock, cellLock>>
<1>1. /\ code[t] = <<>> /\ ops > 0 /\ ops' = ops - 1 /\ code' = [code EXCEPT ![t] = c]
      /\ owned' = [owned EXCEPT ![t] = [o \in Object |-> IF o \in gone THEN @[o] - 1 ELSE @[o]]]
      /\ UNCHANGED <<tag, rc, field, markLock, cellLock>>
  BY DEF Begin
<1>2. Turn(t, <<>>, <<>>, c)
  BY <1>1, Begun
<1>3. owned \in [Thread -> [Object -> Nat]] /\ ops \in Nat
  BY DEF Typed, TypeOK
<1> DEFINE m == [o \in Object |-> IF o \in gone THEN owned[t][o] - 1 ELSE owned[t][o]]
<1>4. m \in [Object -> Nat]
  <2>1. \A o \in Object : owned[t][o] \in Nat /\ (o \in gone => owned[t][o] - 1 \in Nat)
    BY <1>3
  <2>2. QED
    BY <2>1
<1>5. owned' = [owned EXCEPT ![t] = m]
  BY <1>1, <1>3
<1>6. \A o \in Object : m[o] = IF o \in gone THEN owned[t][o] - 1 ELSE owned[t][o]
  OBVIOUS
<1> HIDE DEF m
<1>7. owned' \in [Thread -> [Object -> Nat]] /\ owned'[t] = m /\ \A u \in Thread : u # t => owned'[u] = owned[u]
  BY <1>3, <1>4, <1>5
<1>8. QED
  BY <1>1, <1>2, <1>3, <1>6, <1>7

(* Types are preserved when the operation is about allocated values.       *)
LEMMA TypedBegin ==
  ASSUME Typed, NEW t \in Thread, NEW c, NEW gone, Begin(t, c, gone),
         \A o \in Object : o \in gone => owned[t][o] > 0,
         Quiet(<<>>) => Pushed(c, c, <<>>),
         \A e \in Items(c) : \A o \in Object : Touch(e, o) => tag[o] # "none"
  PROVE  Typed'
<1>1. /\ Turn(t, <<>>, <<>>, c) /\ owned' \in [Thread -> [Object -> Nat]]
      /\ \A u \in Thread : u # t => owned'[u] = owned[u]
      /\ \A o \in Object : owned'[t][o] = IF o \in gone THEN owned[t][o] - 1 ELSE owned[t][o]
      /\ ops' \in Nat /\ UNCHANGED <<tag, rc, field, markLock, cellLock>>
  BY BeginFacts
<1>2. /\ tag \in [Object -> Tags] /\ rc \in [Object -> 0..(2 * SHARED - 1)]
      /\ field \in [Object -> Object \cup {Nil}]
      /\ markLock \in Thread \cup {Nil} /\ cellLock \in [Object -> Thread \cup {Nil}]
      /\ owned \in [Thread -> [Object -> Nat]]
      /\ \A u \in Thread : \A o \in Object : owned[u][o] > 0 => tag[o] # "none"
      /\ \A o \in Object : field[o] # Nil => tag[field[o]] # "none" /\ field[o] # o
  BY DEF Typed, TypeOK, Known
<1>3. \A u \in Thread : \A o \in Object : owned'[u][o] > 0 => tag'[o] # "none"
  <2>1. ASSUME NEW u \in Thread, NEW o \in Object, owned'[u][o] > 0 PROVE owned[u][o] > 0
    <3>1. owned[u][o] \in Nat
      BY <1>2
    <3>2. QED
      BY <3>1, <1>1, <2>1
  <2>2. QED
    BY <2>1, <1>1, <1>2
<1>4. /\ tag' \in [Object -> Tags] /\ rc' \in [Object -> 0..(2 * SHARED - 1)]
      /\ field' \in [Object -> Object \cup {Nil}]
      /\ \A o \in Object : field'[o] # Nil => tag'[field'[o]] # "none" /\ field'[o] # o
      /\ \A o \in Object : tag[o] # "none" => tag'[o] # "none"
      /\ \A e \in Items(c) : \A o \in Object : Touch(e, o) => tag'[o] # "none"
  BY <1>1, <1>2
<1>5. markLock' \in Thread \cup {Nil} /\ cellLock' \in [Object -> Thread \cup {Nil}]
  BY <1>1, <1>2
<1>6. PICK b : b = <<>>
  OBVIOUS
<1>7. Turn(t, b, b, c)
  BY <1>1, <1>6
<1>8. QED
  BY <1>1, <1>3, <1>4, <1>5, <1>7, TypedTurn

(* What the thread owns.                                                   *)
LEMMA Owning ==
  ASSUME Typed, NEW t \in Thread, NEW o \in Object, Has(t, o)
  PROVE  /\ owned[t][o] > 0 /\ owned[t][o] \in Nat /\ tag[o] # "none" /\ o # Nil
         /\ field[o] \in Object \cup {Nil}
         /\ field[o] # Nil => field[o] \in Object /\ tag[field[o]] # "none" /\ field[o] # o
         /\ rc[o] \in 0..(2 * SHARED - 1)
  BY DEF Typed, TypeOK, Known, Has

(* The operation c begins, on allocated values.                            *)
Started(t, c, gone) ==
  /\ Begin(t, c, gone) /\ Pushed(c, c, <<>>)
  /\ \A o \in Object : o \in gone => owned[t][o] > 0
  /\ \A e \in Items(c) : \A o \in Object : Touch(e, o) => tag[o] # "none"

(* An increment and the reference it makes.                                *)
Copies(t, v) ==
  \E a, e \in Item : /\ a.op = "dup" /\ a.v = v /\ e.op = "own" /\ e.v = v
                     /\ Started(t, <<a, e>>, {})

(* An operation that consists of them.                                     *)
LEMMA DupOwn ==
  ASSUME Typed, NEW t \in Thread, NEW o \in Object, tag[o] # "none", Begin(t, Dup(o) \o Own(o), {})
  PROVE  Copies(t, o)
<1> DEFINE a == M("dup", o)
           e == M("own", o)
<1>0. IsPlain(a, "dup", o) /\ IsPlain(e, "own", o)
  BY PlainItem
<1>2. o # Nil
  BY Numbers
<1>3. Begin(t, <<a>> \o <<e>>, {})
  BY <1>2 DEF Dup, Own
<1> HIDE DEF a, e
<1>1. a \in Item /\ a.op = "dup" /\ a.v = o /\ e \in Item /\ e.op = "own" /\ e.v = o
  BY <1>0 DEF IsPlain
<1>4. <<a>> \o <<e>> = <<a, e>>
  BY <1>1, Pair
<1>5. Before(a, e)
  BY <1>1 DEF Before, HeadOps, IncOps, LastOps
<1>6. Pushed(<<a, e>>, <<a, e>>, <<>>)
  BY <1>1, <1>5, Whole2
<1>7. Items(<<a, e>>) = {a, e}
  BY List2
<1>8. Started(t, <<a, e>>, {})
  BY <1>1, <1>3, <1>4, <1>6, <1>7 DEF Started, Touch, MoveOps
<1>9. QED
  BY <1>1, <1>8 DEF Copies

(* Copy.                                                                   *)
LEMMA CopyBegin ==
  ASSUME Typed, NEW t \in Thread, NEW o \in Object, Copy(t, o)
  PROVE  Copies(t, o)
<1>1. tag[o] # "none" /\ Begin(t, Dup(o) \o Own(o), {})
  <2>1. Has(t, o) /\ Begin(t, Dup(o) \o Own(o), {})
    BY DEF Copy
  <2>2. QED
    BY <2>1, Owning
<1>2. QED
  BY <1>1, DupOwn

(* Release.                                                                *)
LEMMA ReleaseBegin ==
  ASSUME Typed, NEW t \in Thread, NEW o \in Object, Release(t, o)
  PROVE  \E d \in Item : d.op = "drop" /\ d.v = o /\ Started(t, <<d>>, {o})
<1> DEFINE d == M("drop", o)
<1>1. d \in Item /\ d.op = "drop" /\ d.v = o
  <2>1. IsPlain(d, "drop", o)
    BY PlainItem
  <2> HIDE DEF d
  <2>2. QED
    BY <2>1 DEF IsPlain
<1>2. tag[o] # "none" /\ o # Nil /\ owned[t][o] > 0
  BY Owning DEF Release
<1>3. Begin(t, <<d>>, {o})
  BY <1>2 DEF Release, Drop
<1> HIDE DEF d
<1>4. Pushed(<<d>>, <<d>>, <<>>)
  BY <1>1, Whole1
<1>5. Items(<<d>>) = {d}
  BY List1
<1>6. Started(t, <<d>>, {o})
  BY <1>1, <1>2, <1>3, <1>4, <1>5 DEF Started, Touch, MoveOps
<1>7. QED
  BY <1>1, <1>6

(* Project.                                                                *)
LEMMA ProjectBegin ==
  ASSUME Typed, NEW t \in Thread, NEW o \in Object, Project(t, o)
  PROVE  Copies(t, field[o])
<1>1. field[o] \in Object /\ tag[field[o]] # "none" /\ Begin(t, Dup(field[o]) \o Own(field[o]), {})
  <2>1. Has(t, o) /\ field[o] # Nil /\ Begin(t, Dup(field[o]) \o Own(field[o]), {})
    BY DEF Project
  <2>2. QED
    BY <2>1, Owning
<1>2. PICK f \in Object : f = field[o]
  BY <1>1
<1>3. tag[f] # "none" /\ Begin(t, Dup(f) \o Own(f), {})
  BY <1>1, <1>2
<1>4. Copies(t, f)
  BY <1>3, DupOwn
<1>5. QED
  BY <1>2, <1>4

(* Build.                                                                  *)
Builds(t, a, c) == Started(t, c, {a}) /\ \E e \in Item : c = <<e>> /\ e.op = "alloc" /\ e.v = a

(* Build is an allocation.                                                 *)
LEMMA BuildBegin ==
  ASSUME Typed, NEW t \in Thread, NEW a \in Object \cup {Nil}, NEW k \in {"ctor", "ref"},
         Build(t, a, k)
  PROVE  \E c : Builds(t, a, c)
<1> DEFINE e == [M("alloc", a) EXCEPT !.k = k]
<1>1. e \in Item /\ e.op = "alloc" /\ e.v = a /\ e.k = k
  <2>1. IsAlloc(e, a, k)
    BY AllocItem
  <2> HIDE DEF e
  <2>2. QED
    BY <2>1 DEF IsAlloc
<1>2. a # Nil => a \in Object /\ tag[a] # "none" /\ owned[t][a] > 0
  BY Owning DEF Build
<1>3. Begin(t, <<e>>, {a})
  BY DEF Build
<1> HIDE DEF e
<1>4. Pushed(<<e>>, <<e>>, <<>>)
  BY <1>1, Whole1
<1>5. Items(<<e>>) = {e}
  BY List1
<1>6. Started(t, <<e>>, {a})
  BY <1>1, <1>2, <1>3, <1>4, <1>5, Numbers DEF Started, Touch, MoveOps
<1>7. QED
  BY <1>1, <1>6 DEF Builds

(* CellRead.                                                               *)
LEMMA CellReadBegin ==
  ASSUME Typed, NEW t \in Thread, NEW o \in Object, CellRead(t, o)
  PROVE  \E e \in Item : e.op = "get" /\ e.v = o /\ Started(t, <<e>>, {})
<1> DEFINE e == M("get", o)
<1>1. e \in Item /\ e.op = "get" /\ e.v = o
  <2>1. IsPlain(e, "get", o)
    BY PlainItem
  <2> HIDE DEF e
  <2>2. QED
    BY <2>1 DEF IsPlain
<1>2. tag[o] # "none"
  BY Owning DEF CellRead
<1>3. Begin(t, <<e>>, {})
  BY DEF CellRead
<1> HIDE DEF e
<1>4. Pushed(<<e>>, <<e>>, <<>>)
  BY <1>1, Whole1
<1>5. Items(<<e>>) = {e}
  BY List1
<1>6. Started(t, <<e>>, {})
  BY <1>1, <1>2, <1>3, <1>4, <1>5 DEF Started, Touch, MoveOps
<1>7. QED
  BY <1>1, <1>6

(* A mark walk of the value o and the last micro-operation of the          *)
(* operation, which hands o over.                                          *)
WithMark(c, o, e) ==
  \E a, b, d \in Item :
    /\ a.op = "markLock" /\ a.v = o /\ b.op = "shade" /\ b.v = o /\ b.k = ""
    /\ d.op = "markUnlock" /\ d.v = o
    /\ Items(c) = {a, b, d, e}
    /\ \A S : Cnt(c, S) = One(a, S) + One(b, S) + One(d, S) + One(e, S)

(* An operation that begins with a mark walk.                              *)
LEMMA MarkBegin ==
  ASSUME Typed, NEW t \in Thread, NEW o \in Object, tag[o] # "none", NEW gone,
         \A i \in Object : i \in gone => owned[t][i] > 0,
         NEW e \in Item, e.op \in {"give", "swap"},
         \A i \in Object : Touch(e, i) => tag[i] # "none",
         Begin(t, Mark(o) \o <<e>>, gone)
  PROVE  \E c : WithMark(c, o, e) /\ Started(t, c, gone)
<1> DEFINE a == M("markLock", o)
           b == M("shade", o)
           d == M("markUnlock", o)
<1>1. IsPlain(a, "markLock", o) /\ IsPlain(b, "shade", o) /\ IsPlain(d, "markUnlock", o)
  BY PlainItem
<1>2. Begin(t, <<a, b, d>> \o <<e>>, gone)
  BY Numbers DEF Mark
<1> HIDE DEF a, b, d
<1>3. /\ a \in Item /\ a.op = "markLock" /\ a.v = o
      /\ b \in Item /\ b.op = "shade" /\ b.v = o /\ b.k = ""
      /\ d \in Item /\ d.op = "markUnlock" /\ d.v = o
  BY <1>1 DEF IsPlain
<1>4. Before(a, b) /\ Before(a, d) /\ Before(b, d) /\ Before(a, e) /\ Before(b, e) /\ Before(d, e)
  BY <1>3 DEF Before, HeadOps, IncOps, LastOps, ShadeOps
<1>5. Pushed(<<a, b, d>> \o <<e>>, <<a, b, d>> \o <<e>>, <<>>)
  BY <1>3, <1>4, Whole4
<1> DEFINE c == <<a, b, d>> \o <<e>>
<1>6. c = <<a, b, d, e>>
  <2>1. a \in Item /\ b \in Item /\ d \in Item /\ e \in Item
    BY <1>3
  <2>2. QED
    BY <2>1, Quad
<1>7. /\ Items(<<a, b, d, e>>) = {a, b, d, e}
      /\ \A S : Cnt(<<a, b, d, e>>, S) = One(a, S) + One(b, S) + One(d, S) + One(e, S)
  BY List4
<1>8. \A i \in {a, b, d, e} : \A p \in Object : Touch(i, p) => tag[p] # "none"
  BY <1>3 DEF Touch, MoveOps
<1>9. Pushed(c, c, <<>>) /\ Begin(t, c, gone) /\ c = <<a, b, d, e>>
  BY <1>2, <1>5, <1>6
<1> HIDE DEF c
<1>10. Items(c) = {a, b, d, e} /\ \A S : Cnt(c, S) = One(a, S) + One(b, S) + One(d, S) + One(e, S)
  BY <1>7, <1>9
<1>11. Started(t, c, gone)
  BY <1>8, <1>9, <1>10 DEF Started
<1>12. WithMark(c, o, e)
  BY <1>3, <1>10 DEF WithMark
<1>13. QED
  BY <1>11, <1>12

(* CellWrite: the exchange, after a mark walk when the cell is shared.     *)
Exchanges(t, o, a, e) ==
  /\ e.op = "swap" /\ e.v = o /\ e.x = a
  /\ \/ (IsShared(rc[o]) => a = Nil) /\ Started(t, <<e>>, {a})
     \/ IsShared(rc[o]) /\ a # Nil /\ \E c : WithMark(c, a, e) /\ Started(t, c, {a})

(* CellWrite is an exchange, after the marking of the value if the cell is *)
(* shared.                                                                 *)
LEMMA CellWriteBegin ==
  ASSUME Typed, NEW t \in Thread, NEW o \in Object, NEW a \in Object \cup {Nil}, CellWrite(t, o, a)
  PROVE  \E e \in Item : Exchanges(t, o, a, e)
<1> DEFINE e == [M("swap", o) EXCEPT !.x = a]
<1>1. tag[o] # "none" /\ a # o
  BY Owning DEF CellWrite
<1>2. a # Nil => a \in Object /\ tag[a] # "none" /\ owned[t][a] > 0
  BY Owning DEF CellWrite
<1>3. e \in Item /\ e.op = "swap" /\ e.v = o /\ e.x = a
  <2>1. IsMove(e, "swap", o, a)
    BY <1>1, MoveItem DEF MoveOps
  <2> HIDE DEF e
  <2>2. QED
    BY <2>1 DEF IsMove
<1>4. Begin(t, (IF IsShared(rc[o]) THEN Mark(a) ELSE <<>>) \o <<e>>, {a})
  BY DEF CellWrite
<1> HIDE DEF e
<1>5. \A i \in Object : Touch(e, i) => tag[i] # "none"
  BY <1>1, <1>2, <1>3, Numbers DEF Touch
<1>6. \A i \in Object : i \in {a} => owned[t][i] > 0
  BY <1>2, Numbers
<1>7. CASE IsShared(rc[o]) => a = Nil
  <2>1. Begin(t, <<>> \o <<e>>, {a})
    BY <1>4, <1>7 DEF Mark
  <2>2. <<>> \o <<e>> = <<e>>
    OBVIOUS
  <2>3. Pushed(<<e>>, <<e>>, <<>>)
    BY <1>3, Whole1
  <2>4. Items(<<e>>) = {e}
    BY List1
  <2>5. Started(t, <<e>>, {a})
    BY <1>5, <1>6, <2>1, <2>2, <2>3, <2>4 DEF Started
  <2>6. QED
    BY <1>3, <1>7, <2>5 DEF Exchanges
<1>8. CASE IsShared(rc[o]) /\ a # Nil
  <2>1. Begin(t, Mark(a) \o <<e>>, {a})
    BY <1>4, <1>8
  <2>2. \E c : WithMark(c, a, e) /\ Started(t, c, {a})
    BY <1>2, <1>3, <1>5, <1>6, <1>8, <2>1, MarkBegin
  <2>3. QED
    BY <1>3, <1>8, <2>2 DEF Exchanges
<1>9. QED
  BY <1>7, <1>8

(* Publish.                                                                *)
LEMMA PublishBegin ==
  ASSUME Typed, NEW t \in Thread, NEW u \in Thread, NEW o \in Object, Publish(t, u, o)
  PROVE  \E e \in Item : /\ e.op = "give" /\ e.v = o /\ e.x = u
                         /\ \E c : WithMark(c, o, e) /\ Started(t, c, {o})
<1> DEFINE e == [M("give", o) EXCEPT !.x = u]
<1>1. tag[o] # "none" /\ owned[t][o] > 0
  BY Owning DEF Publish
<1>2. e \in Item /\ e.op = "give" /\ e.v = o /\ e.x = u
  <2>1. IsGive(e, o, u)
    BY GiveItem
  <2> HIDE DEF e
  <2>2. QED
    BY <2>1 DEF IsGive
<1>3. Begin(t, Mark(o) \o <<e>>, {o})
  BY DEF Publish
<1> HIDE DEF e
<1>4. \A i \in Object : Touch(e, i) => tag[i] # "none"
  BY <1>1, <1>2 DEF Touch, MoveOps
<1>5. \A i \in Object : i \in {o} => owned[t][i] > 0
  BY <1>1
<1>6. \E c : WithMark(c, o, e) /\ Started(t, c, {o})
  BY <1>1, <1>2, <1>3, <1>4, <1>5, MarkBegin
<1>7. QED
  BY <1>2, <1>6

(* ReuseMoved: the constructor is rewritten, or a new one is built after   *)
(* the field has been kept and the source dropped.                         *)
Renews(t, o, c) ==
  /\ Started(t, c, {o})
  /\ \/ rc[o] = 1 /\ \E e \in Item : c = <<e>> /\ e.op = "rewrite" /\ e.v = o /\ e.x = field[o]
     \/ \E d, e \in Item :
          /\ d.op = "drop" /\ d.v = o /\ e.op = "alloc" /\ e.v = field[o]
          /\ \/ field[o] = Nil /\ c = <<d, e>>
             \/ field[o] # Nil /\ \E a \in Item : c = <<a, d, e>> /\ a.op = "dup" /\ a.v = field[o]

(* ReuseMoved is a rewrite in place, or a drop and an allocation.          *)
LEMMA ReuseMovedBegin ==
  ASSUME Typed, NEW t \in Thread, NEW o \in Object, ReuseMoved(t, o)
  PROVE  tag[o] = "ctor" /\ \E c : Renews(t, o, c)
<1> DEFINE f == field[o]
           a == M("dup", f)
           d == M("drop", o)
           e == [M("alloc", f) EXCEPT !.k = "ctor"]
           g == [M("rewrite", o) EXCEPT !.x = f]
<1>1. /\ tag[o] = "ctor" /\ o # Nil /\ f \in Object \cup {Nil} /\ f # o /\ owned[t][o] > 0
      /\ f # Nil => f \in Object /\ tag[f] # "none"
  BY Owning DEF ReuseMoved
<1>2. IsPlain(d, "drop", o) /\ (f # Nil => IsPlain(a, "dup", f))
  BY <1>1, PlainItem
<1>3. e \in Item /\ e.op = "alloc" /\ e.v = f /\ e.k = "ctor"
  <2>1. IsAlloc(e, f, "ctor")
    BY <1>1, AllocItem
  <2> HIDE DEF e
  <2>2. QED
    BY <2>1 DEF IsAlloc
<1>4. g \in Item /\ g.op = "rewrite" /\ g.v = o /\ g.x = f
  <2>1. IsMove(g, "rewrite", o, f)
    BY <1>1, MoveItem DEF MoveOps
  <2> HIDE DEF g
  <2>2. QED
    BY <2>1 DEF IsMove
<1>5. Begin(t, IF CanReuse(o) THEN <<g>> ELSE (Dup(f) \o Drop(o)) \o <<e>>, {o})
  BY DEF ReuseMoved, DupsFirst
<1>6. Drop(o) = <<d>> /\ (f # Nil => Dup(f) = <<a>>) /\ (f = Nil => Dup(f) = <<>>)
  BY <1>1 DEF Drop, Dup
<1> HIDE DEF a, d, e, g
<1>7. d \in Item /\ d.op = "drop" /\ d.v = o
  BY <1>2 DEF IsPlain
<1>8. f # Nil => a \in Item /\ a.op = "dup" /\ a.v = f
  BY <1>2 DEF IsPlain
<1>9. \A i \in Object : i \in {o} => owned[t][i] > 0
  BY <1>1
<1> HIDE DEF f
<1>10. \A i \in Object : /\ Touch(g, i) => tag[i] # "none"
                         /\ Touch(d, i) => tag[i] # "none"
                         /\ Touch(e, i) => tag[i] # "none"
                         /\ f # Nil /\ Touch(a, i) => tag[i] # "none"
  BY <1>1, <1>3, <1>4, <1>7, <1>8, Numbers DEF Touch, MoveOps
<1>11. CASE CanReuse(o)
  <2>1. Begin(t, <<g>>, {o})
    BY <1>5, <1>11
  <2>2. Pushed(<<g>>, <<g>>, <<>>) /\ Items(<<g>>) = {g}
    BY <1>4, Whole1, List1
  <2>3. Started(t, <<g>>, {o})
    BY <1>9, <1>10, <2>1, <2>2 DEF Started
  <2>4. QED
    BY <1>1, <1>4, <1>11, <2>3 DEF CanReuse, f, Renews
<1>12. Before(d, e)
  BY <1>3, <1>7 DEF Before, HeadOps, IncOps, LastOps
<1>13. CASE ~CanReuse(o) /\ f = Nil
  <2>1. Begin(t, (<<>> \o <<d>>) \o <<e>>, {o})
    BY <1>5, <1>6, <1>13
  <2>2. (<<>> \o <<d>>) \o <<e>> = <<d, e>>
    <3>1. <<>> \o <<d>> = <<d>>
      OBVIOUS
    <3>2. <<d>> \o <<e>> = <<d, e>>
      BY <1>3, <1>7, Pair
    <3>3. QED
      BY <3>1, <3>2
  <2>3. Pushed(<<d, e>>, <<d, e>>, <<>>) /\ Items(<<d, e>>) = {d, e}
    BY <1>3, <1>7, <1>12, Whole2, List2
  <2>4. Started(t, <<d, e>>, {o})
    BY <1>9, <1>10, <2>1, <2>2, <2>3 DEF Started
  <2>5. QED
    BY <1>1, <1>3, <1>7, <1>13, <2>4 DEF f, Renews
<1>14. CASE ~CanReuse(o) /\ f # Nil
  <2>1. Begin(t, (<<a>> \o <<d>>) \o <<e>>, {o})
    BY <1>5, <1>6, <1>14
  <2>2. (<<a>> \o <<d>>) \o <<e>> = <<a, d, e>>
    <3>1. a \in Item /\ d \in Item /\ e \in Item
      BY <1>3, <1>7, <1>8, <1>14
    <3>2. <<a>> \o <<d>> = <<a, d>>
      BY <3>1, Pair
    <3>3. <<a, d>> \o <<e>> = <<a, d, e>>
      BY <3>1, Triple
    <3>4. QED
      BY <3>2, <3>3
  <2>3. Before(a, d) /\ Before(a, e)
    BY <1>3, <1>7, <1>8, <1>14 DEF Before, HeadOps, IncOps, LastOps
  <2>4. Pushed(<<a, d, e>>, <<a, d, e>>, <<>>) /\ Items(<<a, d, e>>) = {a, d, e}
    BY <1>3, <1>7, <1>8, <1>12, <1>14, <2>3, Whole3, List3
  <2>5. Started(t, <<a, d, e>>, {o})
    BY <1>9, <1>10, <1>14, <2>1, <2>2, <2>4 DEF Started
  <2>6. QED
    BY <1>1, <1>3, <1>7, <1>8, <1>14, <2>5 DEF f, Renews
<1>15. QED
  BY <1>1, <1>11, <1>13, <1>14

(* ReuseArg: the field is dropped and the constructor rewritten, or the    *)
(* source dropped and a new one built.                                     *)
Replaces(t, o, a, c) ==
  /\ Started(t, c, {o, a})
  /\ \/ /\ rc[o] = 1
        /\ \E e \in Item :
             /\ e.op = "rewrite" /\ e.v = o /\ e.x = a
             /\ \/ field[o] = Nil /\ c = <<e>>
                \/ field[o] # Nil /\ \E d \in Item : c = <<d, e>> /\ d.op = "drop" /\ d.v = field[o]
     \/ \E d, e \in Item : c = <<d, e>> /\ d.op = "drop" /\ d.v = o /\ e.op = "alloc" /\ e.v = a

(* ReuseArg is a rewrite in place and a drop of what it replaces, or a     *)
(* drop and an allocation.                                                 *)
LEMMA ReuseArgBegin ==
  ASSUME Typed, NEW t \in Thread, NEW o \in Object, NEW a \in Object \cup {Nil}, ReuseArg(t, o, a)
  PROVE  tag[o] = "ctor" /\ a # o /\ \E c : Replaces(t, o, a, c)
<1> DEFINE f == field[o]
           p == M("drop", f)
           d == M("drop", o)
           e == [M("alloc", a) EXCEPT !.k = "ctor"]
           g == [M("rewrite", o) EXCEPT !.x = a]
<1>1. /\ tag[o] = "ctor" /\ o # Nil /\ f \in Object \cup {Nil} /\ a # o /\ owned[t][o] > 0
      /\ f # Nil => f \in Object /\ tag[f] # "none"
  BY Owning DEF ReuseArg
<1>2. a # Nil => a \in Object /\ tag[a] # "none" /\ owned[t][a] > 0
  BY Owning DEF ReuseArg
<1>3. IsPlain(d, "drop", o) /\ (f # Nil => IsPlain(p, "drop", f))
  BY <1>1, PlainItem
<1>4. e \in Item /\ e.op = "alloc" /\ e.v = a /\ e.k = "ctor"
  <2>1. IsAlloc(e, a, "ctor")
    BY AllocItem
  <2> HIDE DEF e
  <2>2. QED
    BY <2>1 DEF IsAlloc
<1>5. g \in Item /\ g.op = "rewrite" /\ g.v = o /\ g.x = a
  <2>1. IsMove(g, "rewrite", o, a)
    BY <1>1, MoveItem DEF MoveOps
  <2> HIDE DEF g
  <2>2. QED
    BY <2>1 DEF IsMove
<1>6. Begin(t, IF CanReuse(o) THEN Drop(f) \o <<g>> ELSE Drop(o) \o <<e>>, {o, a})
  BY DEF ReuseArg
<1>7. Drop(o) = <<d>> /\ (f # Nil => Drop(f) = <<p>>) /\ (f = Nil => Drop(f) = <<>>)
  BY <1>1 DEF Drop
<1> HIDE DEF p, d, e, g
<1>8. d \in Item /\ d.op = "drop" /\ d.v = o
  BY <1>3 DEF IsPlain
<1>9. f # Nil => p \in Item /\ p.op = "drop" /\ p.v = f
  BY <1>3 DEF IsPlain
<1>10. \A i \in Object : i \in {o, a} => owned[t][i] > 0
  BY <1>1, <1>2, Numbers
<1> HIDE DEF f
<1>11. \A i \in Object : /\ Touch(g, i) => tag[i] # "none"
                         /\ Touch(d, i) => tag[i] # "none"
                         /\ Touch(e, i) => tag[i] # "none"
                         /\ f # Nil /\ Touch(p, i) => tag[i] # "none"
  BY <1>1, <1>2, <1>4, <1>5, <1>8, <1>9, Numbers DEF Touch, MoveOps
<1>12. CASE ~CanReuse(o)
  <2>1. Begin(t, <<d>> \o <<e>>, {o, a})
    BY <1>6, <1>7, <1>12
  <2>2. <<d>> \o <<e>> = <<d, e>>
    BY <1>4, <1>8, Pair
  <2>3. Before(d, e)
    BY <1>4, <1>8 DEF Before, HeadOps, IncOps, LastOps
  <2>4. Pushed(<<d, e>>, <<d, e>>, <<>>) /\ Items(<<d, e>>) = {d, e}
    BY <1>4, <1>8, <2>3, Whole2, List2
  <2>5. Started(t, <<d, e>>, {o, a})
    BY <1>10, <1>11, <2>1, <2>2, <2>4 DEF Started
  <2>6. QED
    BY <1>1, <1>4, <1>8, <2>5 DEF Replaces
<1>13. CASE CanReuse(o) /\ f = Nil
  <2>1. Begin(t, <<>> \o <<g>>, {o, a})
    BY <1>6, <1>7, <1>13
  <2>2. <<>> \o <<g>> = <<g>>
    OBVIOUS
  <2>3. Pushed(<<g>>, <<g>>, <<>>) /\ Items(<<g>>) = {g}
    BY <1>5, Whole1, List1
  <2>4. Started(t, <<g>>, {o, a})
    BY <1>10, <1>11, <2>1, <2>2, <2>3 DEF Started
  <2>5. rc[o] = 1
    BY <1>13 DEF CanReuse
  <2>6. QED
    BY <1>1, <1>5, <1>13, <2>4, <2>5 DEF f, Replaces
<1>14. CASE CanReuse(o) /\ f # Nil
  <2>1. Begin(t, <<p>> \o <<g>>, {o, a})
    BY <1>6, <1>7, <1>14
  <2>2. <<p>> \o <<g>> = <<p, g>>
    BY <1>5, <1>9, <1>14, Pair
  <2>3. Before(p, g)
    BY <1>5, <1>9, <1>14 DEF Before, HeadOps, IncOps, LastOps, RewriteOps
  <2>4. Pushed(<<p, g>>, <<p, g>>, <<>>) /\ Items(<<p, g>>) = {p, g}
    BY <1>5, <1>9, <1>14, <2>3, Whole2, List2
  <2>5. Started(t, <<p, g>>, {o, a})
    BY <1>10, <1>11, <1>14, <2>1, <2>2, <2>4 DEF Started
  <2>6. rc[o] = 1
    BY <1>14 DEF CanReuse
  <2>7. QED
    BY <1>1, <1>5, <1>9, <1>14, <2>5, <2>6 DEF f, Replaces
<1>15. QED
  BY <1>1, <1>12, <1>13, <1>14

-----------------------------------------------------------------------------
(* Type correctness.                                                       *)

(* A list whose micro-operations are on allocated values and store none.   *)
Tame(c) == \A e \in Items(c) : e.op \notin MoveOps /\ (e.v = Nil \/ tag[e.v] # "none")

(* Short lists of that kind.                                               *)
LEMMA TameList ==
  /\ Tame(<<>>)
  /\ \A a : (a.op \notin MoveOps /\ (a.v = Nil \/ tag[a.v] # "none")) => Tame(<<a>>)
  /\ \A a, b : Tame(<<a>>) /\ Tame(<<b>>) => Tame(<<a, b>>)
  /\ \A a, b, d : Tame(<<a>>) /\ Tame(<<b>>) /\ Tame(<<d>>) => Tame(<<a, b, d>>)
<1>1. Tame(<<>>)
  BY Nothing DEF Tame
<1>2. ASSUME NEW a, a.op \notin MoveOps /\ (a.v = Nil \/ tag[a.v] # "none") PROVE Tame(<<a>>)
  BY <1>2, List1 DEF Tame
<1>3. ASSUME NEW a, NEW b, Tame(<<a>>) /\ Tame(<<b>>) PROVE Tame(<<a, b>>)
  <2>1. Items(<<a>>) = {a} /\ Items(<<b>>) = {b} /\ Items(<<a, b>>) = {a, b}
    BY List1, List2
  <2>2. QED
    BY <1>3, <2>1 DEF Tame
<1>4. ASSUME NEW a, NEW b, NEW d, Tame(<<a>>) /\ Tame(<<b>>) /\ Tame(<<d>>) PROVE Tame(<<a, b, d>>)
  <2>1. /\ Items(<<a>>) = {a} /\ Items(<<b>>) = {b} /\ Items(<<d>>) = {d}
        /\ Items(<<a, b, d>>) = {a, b, d}
    BY List1, List3
  <2>2. QED
    BY <1>4, <2>1 DEF Tame
<1>5. QED
  BY <1>1, <1>2, <1>3, <1>4

(* A step that leaves owned references and fields alone preserves types.   *)
LEMMA TypedTame ==
  ASSUME Typed, NEW t \in Thread, NEW r, NEW b, NEW c, Turn(t, r, b, c), Tame(c),
         rc' \in [Object -> 0..(2 * SHARED - 1)], UNCHANGED <<tag, field, owned, ops>>,
         markLock' \in Thread \cup {Nil}, cellLock' \in [Object -> Thread \cup {Nil}]
  PROVE  Typed'
<1>1. \A e \in Items(c) : \A o \in Object : Touch(e, o) => tag[o] # "none"
  BY Numbers DEF Tame, Touch
<1>2. QED
  BY <1>1, TypedCode

(* The parts of the state that Typed says are typed.                       *)
LEMMA States ==
  ASSUME Typed
  PROVE  /\ tag \in [Object -> Tags] /\ rc \in [Object -> 0..(2 * SHARED - 1)]
         /\ field \in [Object -> Object \cup {Nil}] /\ owned \in [Thread -> [Object -> Nat]]
         /\ markLock \in Thread \cup {Nil} /\ cellLock \in [Object -> Thread \cup {Nil}] /\ ops \in Nat
         /\ \A u \in Thread : \A o \in Object : owned[u][o] > 0 => tag[o] # "none"
         /\ \A o \in Object : field[o] # Nil => tag[field[o]] # "none" /\ field[o] # o
  BY DEF Typed, TypeOK, Known

(* The micro-operations that read a count word.                            *)
LEMMA TypedReads ==
  ASSUME Typed, NEW t \in Thread, DupRead(t) \/ DropRead(t) \/ Free(t)
  PROVE  Typed'
<1>1. /\ rc \in [Object -> 0..(2 * SHARED - 1)] /\ markLock \in Thread \cup {Nil}
      /\ cellLock \in [Object -> Thread \cup {Nil}]
  BY States
<1>2. UNCHANGED <<tag, rc, field, owned, markLock, cellLock, ops>>
  BY DEF DupRead, DropRead, Free
<1>3. CASE DupRead(t)
  <2>1. tag[V(t)] # "none"
    BY <1>3, Acting DEF DupRead
  <2>2. PICK c : /\ Turn(t, Rest(t), <<Head(code[t])>>, c)
                 /\ \/ c = <<>>
                    \/ \E a \in Item : c = <<a>> /\ a.v = V(t) /\ a.op \in {"add", "saturate", "store"}
    BY <1>3, DupReadTurn
  <2>3. Tame(c)
    BY <2>1, <2>2, TameList DEF MoveOps
  <2>4. QED
    BY <1>1, <1>2, <2>2, <2>3, TypedTame
<1>4. CASE DropRead(t)
  <2>1. tag[V(t)] # "none"
    BY <1>4, Acting DEF DropRead
  <2>2. PICK c : /\ Turn(t, Rest(t), <<Head(code[t])>>, c)
                 /\ \/ c = <<>>
                    \/ \E a \in Item : c = <<a>> /\ a.v = V(t) /\ a.op \in {"cas", "store"}
                    \/ \E a, d \in Item : /\ c = <<a, d>> /\ a.v = V(t) /\ a.op = "store"
                                          /\ d.v = V(t) /\ d.op = "free"
    BY <1>4, DropReadTurn
  <2>3. Tame(c)
    <3>1. \A p : p.op \in {"cas", "store", "free"} /\ p.v = V(t) => Tame(<<p>>)
      BY <2>1, TameList DEF MoveOps
    <3>2. QED
      BY <2>2, <3>1, TameList
  <2>4. QED
    BY <1>1, <1>2, <2>2, <2>3, TypedTame
<1>5. CASE Free(t)
  <2>1. tag[V(t)] # "none" /\ (field[V(t)] # Nil => tag[field[V(t)]] # "none")
    BY <1>5, Acting DEF Free
  <2>2. PICK c : /\ Turn(t, Rest(t), <<Head(code[t])>>, c)
                 /\ \/ c = <<>>
                    \/ \E p \in Item : c = <<p>> /\ p.op = "poison" /\ p.v = V(t)
                    \/ \E p, d \in Item : /\ c = <<d, p>> /\ p.op = "poison" /\ p.v = V(t)
                                          /\ field[V(t)] # Nil /\ d.op = "drop" /\ d.v = field[V(t)]
    BY <1>5, FreeTurn
  <2>3. Tame(c)
    <3>1. \A p : p.op = "poison" /\ p.v = V(t) => Tame(<<p>>)
      BY <2>1, TameList DEF MoveOps
    <3>2. \A d : field[V(t)] # Nil /\ d.op = "drop" /\ d.v = field[V(t)] => Tame(<<d>>)
      BY <2>1, TameList DEF MoveOps
    <3>3. QED
      BY <2>2, <3>1, <3>2, TameList
  <2>4. QED
    BY <1>1, <1>2, <2>2, <2>3, TypedTame
<1>6. QED
  BY <1>3, <1>4, <1>5

(* The micro-operations that write a count word.                           *)
LEMMA TypedWrites ==
  ASSUME Typed, NEW t \in Thread, Store(t) \/ Add(t) \/ Saturate(t) \/ DropCas(t)
  PROVE  Typed'
<1>1. /\ rc \in [Object -> 0..(2 * SHARED - 1)] /\ markLock \in Thread \cup {Nil}
      /\ cellLock \in [Object -> Thread \cup {Nil}]
  BY States
<1>2. UNCHANGED <<tag, field, owned, markLock, cellLock, ops>>
  BY DEF Store, Add, Saturate, DropCas
<1>3. \A v, w : w \in 0..(2 * SHARED - 1) /\ SetRc(v, w) => rc' \in [Object -> 0..(2 * SHARED - 1)]
  BY <1>1 DEF SetRc
<1>4. SATURATED \in 0..(2 * SHARED - 1) /\ SHARED + SATURATED \in 0..(2 * SHARED - 1)
  BY Numbers
<1>5. CASE Store(t)
  <2>1. W(t) \in 0..SATURATED /\ code[t] # <<>>
    <3>1. Do(t, "store")
      BY <1>5 DEF Store
    <3>2. PICK h \in Item : h.op = "store" /\ W(t) = h.w /\ code[t] # <<>>
      BY <3>1, Acting
    <3>3. QED
      BY <3>2, ItemFields
  <2>2. W(t) \in 0..(2 * SHARED - 1)
    BY <2>1, Numbers
  <2>3. Turn(t, Rest(t), <<Head(code[t])>>, <<>>)
    BY <1>5, <2>1, DoneTurn DEF Store
  <2>4. rc' \in [Object -> 0..(2 * SHARED - 1)]
    BY <1>3, <1>5, <2>2 DEF Store
  <2>5. QED
    BY <1>1, <1>2, <2>3, <2>4, TameList, TypedTame
<1>6. CASE Saturate(t)
  <2>1. code[t] # <<>>
    BY <1>6, Acting DEF Saturate
  <2>2. Turn(t, Rest(t), <<Head(code[t])>>, <<>>)
    BY <1>6, <2>1, DoneTurn DEF Saturate
  <2>3. rc' \in [Object -> 0..(2 * SHARED - 1)]
    BY <1>3, <1>4, <1>6 DEF Saturate
  <2>4. QED
    BY <1>1, <1>2, <2>2, <2>3, TameList, TypedTame
<1>7. CASE Add(t)
  <2>1. tag[V(t)] # "none" /\ rc[V(t)] \in 0..(2 * SHARED - 1)
    BY <1>7, Acting DEF Add
  <2>2. PICK c : /\ Turn(t, Rest(t), <<Head(code[t])>>, c)
                 /\ c = <<>> \/ \E a \in Item : c = <<a>> /\ a.v = V(t) /\ a.op = "saturate"
    BY <1>7, AddTurn
  <2>3. Tame(c)
    BY <2>1, <2>2, TameList DEF MoveOps
  <2>4. (rc[V(t)] + 1) % (2 * SHARED) \in 0..(2 * SHARED - 1)
    <3> DEFINE D == 2 * SHARED
               n == rc[V(t)] + 1
    <3>1. D \in Nat \ {0} /\ n \in Nat
      BY <2>1, Numbers
    <3> HIDE DEF D, n
    <3>2. n % D \in 0..(D - 1)
      BY <3>1, Mod
    <3>3. QED
      BY <3>2 DEF D, n
  <2>5. rc' \in [Object -> 0..(2 * SHARED - 1)]
    BY <1>3, <1>7, <2>4 DEF Add
  <2>6. QED
    BY <1>1, <1>2, <2>2, <2>3, <2>5, TypedTame
<1>8. CASE DropCas(t)
  <2>1. tag[V(t)] # "none" /\ W(t) \in 1..(2 * SHARED - 1)
    <3>1. Do(t, "cas")
      BY <1>8 DEF DropCas
    <3>2. tag[V(t)] # "none" /\ \E h \in Item : h.op = "cas" /\ W(t) = h.w
      BY <3>1, Acting
    <3>3. QED
      BY <3>2, ItemFields
  <2>2. PICK c : /\ Turn(t, Rest(t), <<Head(code[t])>>, c)
                 /\ \/ rc' = [rc EXCEPT ![V(t)] = W(t) - 1] /\ FreeNext(c, V(t), W(t))
                    \/ rc' = rc /\ c = <<>>
                    \/ rc' = rc /\ \E a \in Item : c = <<a>> /\ a.op = "cas" /\ a.v = V(t)
    BY <1>8, DropCasTurn
  <2>3. c = <<>> \/ \E a \in Item : c = <<a>> /\ a.op \in {"cas", "free"} /\ a.v = V(t)
    BY <2>2 DEF FreeNext
  <2>4. Tame(c)
    BY <2>1, <2>3, TameList DEF MoveOps
  <2>5. W(t) - 1 \in 0..(2 * SHARED - 1)
    BY <2>1, Numbers
  <2>6. rc' \in [Object -> 0..(2 * SHARED - 1)]
    BY <1>1, <2>2, <2>5
  <2>7. QED
    BY <1>1, <1>2, <2>2, <2>4, <2>6, TypedTame
<1>9. QED
  BY <1>5, <1>6, <1>7, <1>8

(* The micro-operations on locks, the mark walk, the reading of a cell and *)
(* the end of a value.                                                     *)
LEMMA TypedOthers ==
  ASSUME Typed, NEW t \in Thread, Locks(t) \/ Shade(t) \/ CellGet(t) \/ Poison(t)
  PROVE  Typed'
<1>1. /\ tag \in [Object -> Tags] /\ rc \in [Object -> 0..(2 * SHARED - 1)]
      /\ field \in [Object -> Object \cup {Nil}] /\ owned \in [Thread -> [Object -> Nat]]
      /\ markLock \in Thread \cup {Nil} /\ cellLock \in [Object -> Thread \cup {Nil}] /\ ops \in Nat
      /\ \A u \in Thread : \A o \in Object : owned[u][o] > 0 => tag[o] # "none"
      /\ \A o \in Object : field[o] # Nil => tag[field[o]] # "none" /\ field[o] # o
  BY States
<1>2. CASE Locks(t)
  <2>1. /\ code[t] # <<>> /\ Then(t, <<>>) /\ UNCHANGED <<tag, rc, field, owned, ops>>
        /\ markLock' \in {markLock, t, Nil}
        /\ \/ cellLock' = cellLock
           \/ cellLock' = [cellLock EXCEPT ![V(t)] = Nil]
    BY <1>2 DEF Locks, Do
  <2>2. Turn(t, Rest(t), <<Head(code[t])>>, <<>>)
    BY <2>1, DoneTurn
  <2>3. markLock' \in Thread \cup {Nil} /\ cellLock' \in [Object -> Thread \cup {Nil}]
    BY <1>1, <2>1
  <2>4. QED
    BY <1>1, <2>1, <2>2, <2>3, TameList, TypedTame
<1>3. CASE Shade(t)
  <2>1. /\ tag[V(t)] # "none" /\ (field[V(t)] # Nil => tag[field[V(t)]] # "none")
        /\ rc[V(t)] \in 0..(2 * SHARED - 1)
    BY <1>3, Acting DEF Shade
  <2>2. PICK c : /\ Turn(t, Rest(t), <<Head(code[t])>>, c)
                 /\ \/ c = <<>>
                    \/ /\ field[V(t)] # Nil
                       /\ \E s \in Item : c = <<s>> /\ s.op = "shade" /\ s.v = field[V(t)]
                    \/ \E a, d \in Item :
                         /\ a.op = "dup" /\ a.v = V(t) /\ d.op = "drop" /\ d.v = V(t)
                         /\ \/ c = <<a, d>>
                            \/ /\ field[V(t)] # Nil
                               /\ \E s \in Item : c = <<a, s, d>> /\ s.op = "shade" /\ s.v = field[V(t)]
    BY <1>3, ShadeTurn
  <2>3. Tame(c)
    <3>1. \A p : p.op \in {"dup", "drop"} /\ p.v = V(t) => Tame(<<p>>)
      BY <2>1, TameList DEF MoveOps
    <3>2. \A p : field[V(t)] # Nil /\ p.op = "shade" /\ p.v = field[V(t)] => Tame(<<p>>)
      BY <2>1, TameList DEF MoveOps
    <3>3. CASE c = <<>>
      BY <3>3, TameList
    <3>4. CASE \E s \in Item : /\ field[V(t)] # Nil /\ c = <<s>>
                                /\ s.op = "shade" /\ s.v = field[V(t)]
      BY <3>2, <3>4
    <3>5. CASE \E a, d \in Item :
                 /\ a.op = "dup" /\ a.v = V(t) /\ d.op = "drop" /\ d.v = V(t)
                 /\ \/ c = <<a, d>>
                    \/ /\ field[V(t)] # Nil
                       /\ \E s \in Item : c = <<a, s, d>> /\ s.op = "shade" /\ s.v = field[V(t)]
      <4>1. PICK a \in Item, d \in Item :
              /\ a.op = "dup" /\ a.v = V(t) /\ d.op = "drop" /\ d.v = V(t)
              /\ \/ c = <<a, d>>
                 \/ /\ field[V(t)] # Nil
                    /\ \E s \in Item : c = <<a, s, d>> /\ s.op = "shade" /\ s.v = field[V(t)]
        BY <3>5
      <4>2. Tame(<<a>>) /\ Tame(<<d>>)
        BY <3>1, <4>1
      <4>3. Tame(<<a, d>>) /\ \A s : Tame(<<s>>) => Tame(<<a, s, d>>)
        BY <4>2, TameList
      <4>4. QED
        BY <3>2, <4>1, <4>3
    <3>6. QED
      BY <2>2, <3>3, <3>4, <3>5
  <2>4. rc' \in [Object -> 0..(2 * SHARED - 1)]
    <3>1. (IF ~IsShared(rc[V(t)]) THEN rc[V(t)] + SHARED ELSE rc[V(t)]) \in 0..(2 * SHARED - 1)
      BY <2>1, Numbers DEF IsShared
    <3>2. rc' = [rc EXCEPT ![V(t)] = IF ~IsShared(rc[V(t)]) THEN rc[V(t)] + SHARED ELSE rc[V(t)]]
      BY <1>3 DEF Shade, SetRc
    <3>3. QED
      BY <1>1, <3>1, <3>2
  <2>5. UNCHANGED <<tag, field, owned, markLock, cellLock, ops>>
    BY <1>3 DEF Shade
  <2>6. QED
    BY <1>1, <2>2, <2>3, <2>4, <2>5, TypedTame
<1>4. CASE CellGet(t)
  <2>1. tag[V(t)] # "none" /\ (field[V(t)] # Nil => tag[field[V(t)]] # "none")
    BY <1>4, Acting DEF CellGet
  <2>2. PICK c : /\ Turn(t, Rest(t), <<Head(code[t])>>, c)
                 /\ \/ c = <<>>
                    \/ /\ field[V(t)] # Nil
                       /\ \E a, e \in Item : /\ c = <<a, e>> /\ a.op = "dup" /\ a.v = field[V(t)]
                                             /\ e.op = "own" /\ e.v = field[V(t)]
                    \/ \E d \in Item :
                         /\ d.op = "cellUnlock" /\ d.v = V(t)
                         /\ \/ c = <<d>>
                            \/ /\ field[V(t)] # Nil
                               /\ \E a, e \in Item : /\ c = <<a, d, e>> /\ a.op = "dup" /\ a.v = field[V(t)]
                                                     /\ e.op = "own" /\ e.v = field[V(t)]
    BY <1>4, CellGetTurn
  <2>3. Tame(c)
    <3>1. \A p : p.op = "cellUnlock" /\ p.v = V(t) => Tame(<<p>>)
      BY <2>1, TameList DEF MoveOps
    <3>2. \A p : field[V(t)] # Nil /\ p.op \in {"dup", "own"} /\ p.v = field[V(t)] => Tame(<<p>>)
      BY <2>1, TameList DEF MoveOps
    <3>3. CASE c = <<>>
      BY <3>3, TameList
    <3>4. ASSUME NEW a, NEW e, field[V(t)] # Nil,
                 a.op = "dup", a.v = field[V(t)], e.op = "own", e.v = field[V(t)]
          PROVE  Tame(<<a, e>>) /\ \A d : Tame(<<d>>) => Tame(<<a, d, e>>)
      <4>1. Tame(<<a>>) /\ Tame(<<e>>)
        BY <3>2, <3>4
      <4>2. QED
        BY <4>1, TameList
    <3>5. CASE \E d \in Item :
                 /\ d.op = "cellUnlock" /\ d.v = V(t)
                 /\ \/ c = <<d>>
                    \/ /\ field[V(t)] # Nil
                       /\ \E a, e \in Item : /\ c = <<a, d, e>> /\ a.op = "dup" /\ a.v = field[V(t)]
                                             /\ e.op = "own" /\ e.v = field[V(t)]
      <4>1. PICK d \in Item :
              /\ d.op = "cellUnlock" /\ d.v = V(t)
              /\ \/ c = <<d>>
                 \/ /\ field[V(t)] # Nil
                    /\ \E a, e \in Item : /\ c = <<a, d, e>> /\ a.op = "dup" /\ a.v = field[V(t)]
                                          /\ e.op = "own" /\ e.v = field[V(t)]
        BY <3>5
      <4>2. Tame(<<d>>)
        BY <3>1, <4>1
      <4>3. QED
        BY <3>4, <4>1, <4>2
    <3>6. QED
      BY <2>2, <3>3, <3>4, <3>5
  <2>4. /\ UNCHANGED <<tag, rc, field, owned, markLock, ops>>
        /\ cellLock' = cellLock \/ cellLock' = [cellLock EXCEPT ![V(t)] = t]
    BY <1>4 DEF CellGet
  <2>5. cellLock' \in [Object -> Thread \cup {Nil}]
    BY <1>1, <2>4
  <2>6. QED
    BY <1>1, <2>2, <2>3, <2>4, <2>5, TypedTame
<1>5. CASE Poison(t)
  <2>1. /\ code[t] # <<>> /\ Then(t, <<>>) /\ UNCHANGED <<field, owned, markLock, cellLock, ops>>
        /\ tag' = [tag EXCEPT ![V(t)] = "freed"] /\ rc' = [rc EXCEPT ![V(t)] = 0]
    BY <1>5 DEF Poison, Do, SetRc
  <2>2. Turn(t, Rest(t), <<Head(code[t])>>, <<>>)
    BY <2>1, DoneTurn
  <2>3. tag' \in [Object -> Tags] /\ \A o \in Object : tag[o] # "none" => tag'[o] # "none"
    BY <1>1, <2>1 DEF Tags
  <2>4. rc' \in [Object -> 0..(2 * SHARED - 1)]
    <3>1. 0 \in 0..(2 * SHARED - 1)
      BY Numbers
    <3>2. QED
      BY <1>1, <2>1, <3>1
  <2>5. Items(<<>>) = {}
    BY Nothing
  <2>6. /\ \A u \in Thread : \A o \in Object : owned'[u][o] > 0 => tag'[o] # "none"
        /\ \A o \in Object : field'[o] # Nil => tag'[field'[o]] # "none" /\ field'[o] # o
    BY <1>1, <2>1, <2>3
  <2>7. QED
    BY <1>1, <2>1, <2>2, <2>3, <2>4, <2>5, <2>6, TypedTurn
<1>6. QED
  BY <1>2, <1>3, <1>4, <1>5

(* What owning one more value does to the table of owned references.       *)
LEMMA OneMore ==
  ASSUME Typed, NEW u \in Thread, NEW v \in Object, tag[v] # "none",
         owned' = [owned EXCEPT ![u][v] = @ + 1]
  PROVE  /\ owned' \in [Thread -> [Object -> Nat]]
         /\ owned'[u][v] = owned[u][v] + 1
         /\ \A i \in Thread : \A o \in Object : (i # u \/ o # v) => owned'[i][o] = owned[i][o]
         /\ \A i \in Thread : \A o \in Object : owned'[i][o] > 0 => tag[o] # "none"
<1>1. /\ owned \in [Thread -> [Object -> Nat]]
      /\ \A i \in Thread : \A o \in Object : owned[i][o] > 0 => tag[o] # "none"
  BY States
<1>2. /\ owned' \in [Thread -> [Object -> Nat]]
      /\ owned'[u][v] = owned[u][v] + 1
      /\ \A i \in Thread : \A o \in Object : (i # u \/ o # v) => owned'[i][o] = owned[i][o]
  BY <1>1
<1>3. \A i \in Thread : \A o \in Object : owned'[i][o] > 0 => tag[o] # "none"
  <2>1. ASSUME NEW i \in Thread, NEW o \in Object, owned'[i][o] > 0 PROVE tag[o] # "none"
    <3>1. CASE i = u /\ o = v
      BY <3>1
    <3>2. CASE i # u \/ o # v
      BY <3>2, <2>1, <1>1, <1>2
    <3>3. QED
      BY <3>1, <3>2
  <2>2. QED
    BY <2>1
<1>4. QED
  BY <1>2, <1>3

(* The micro-operations that make an owned reference, and the exchange.    *)
LEMMA TypedOwns ==
  ASSUME Typed, NEW t \in Thread, OwnValue(t) \/ Give(t) \/ Rewrite(t) \/ Swap(t)
  PROVE  Typed'
<1>1. /\ tag \in [Object -> Tags] /\ rc \in [Object -> 0..(2 * SHARED - 1)]
      /\ field \in [Object -> Object \cup {Nil}] /\ owned \in [Thread -> [Object -> Nat]]
      /\ markLock \in Thread \cup {Nil} /\ cellLock \in [Object -> Thread \cup {Nil}] /\ ops \in Nat
      /\ \A u \in Thread : \A o \in Object : owned[u][o] > 0 => tag[o] # "none"
      /\ \A o \in Object : field[o] # Nil => tag[field[o]] # "none" /\ field[o] # o
  BY States
<1>2. Items(<<>>) = {}
  BY Nothing
<1>3. 1 \in 0..(2 * SHARED - 1)
  BY Numbers
<1>4. UNCHANGED <<tag, markLock, cellLock, ops>>
  BY DEF OwnValue, Give, Rewrite, Swap
<1>5. ASSUME NEW o, o \in MoveOps, Do(t, o)
      PROVE  /\ X(t) \in Object \cup {Nil} /\ X(t) # V(t)
             /\ X(t) # Nil => tag[X(t)] # "none"
  <2>1. PICK h \in Item : h.op = o /\ h = Head(code[t]) /\ V(t) = h.v /\ X(t) = h.x /\ code[t] # <<>>
    <3>1. o # "alloc"
      BY <1>5 DEF MoveOps
    <3>2. QED
      BY <3>1, <1>5, Acting
  <2>2. h.x \in Object \cup {Nil} /\ h.x # h.v
    BY <1>5, <2>1, ItemFields
  <2>3. h \in Parts(t)
    BY <2>1, Opened
  <2>4. h.x # Nil => tag[h.x] # "none"
    BY <1>5, <2>1, <2>2, <2>3 DEF Typed, Known, Touch
  <2>5. QED
    BY <2>1, <2>2, <2>4
<1>6. CASE OwnValue(t)
  <2>1. Do(t, "own") /\ code[t] # <<>> /\ Then(t, <<>>) /\ UNCHANGED <<rc, field>>
    BY <1>6 DEF OwnValue, Do
  <2>2. V(t) \in Object /\ tag[V(t)] # "none"
    BY <2>1, Acting
  <2>3. Turn(t, Rest(t), <<Head(code[t])>>, <<>>)
    BY <2>1, DoneTurn
  <2>4. owned' = [owned EXCEPT ![t][V(t)] = @ + 1]
    BY <1>6 DEF OwnValue
  <2>5. /\ owned' \in [Thread -> [Object -> Nat]]
        /\ \A i \in Thread : \A o \in Object : owned'[i][o] > 0 => tag[o] # "none"
    BY <2>2, <2>4, OneMore
  <2>6. QED
    BY <1>1, <1>2, <1>4, <2>1, <2>3, <2>5, TypedTurn
<1>7. CASE Give(t)
  <2>1. Do(t, "give") /\ code[t] # <<>> /\ Then(t, <<>>) /\ UNCHANGED <<rc, field>>
    BY <1>7 DEF Give, Do
  <2>2. V(t) \in Object /\ tag[V(t)] # "none" /\ \E h \in Item : h.op = "give" /\ X(t) = h.x
    BY <2>1, Acting
  <2>3. Turn(t, Rest(t), <<Head(code[t])>>, <<>>)
    BY <2>1, DoneTurn
  <2>4. X(t) \in Thread
    BY <2>2, ItemFields
  <2>5. owned' = [owned EXCEPT ![X(t)][V(t)] = @ + 1]
    BY <1>7 DEF Give
  <2>6. /\ owned' \in [Thread -> [Object -> Nat]]
        /\ \A i \in Thread : \A o \in Object : owned'[i][o] > 0 => tag[o] # "none"
    BY <2>2, <2>4, <2>5, OneMore
  <2>7. QED
    BY <1>1, <1>2, <1>4, <2>1, <2>3, <2>6, TypedTurn
<1>8. CASE Rewrite(t)
  <2>1. Do(t, "rewrite") /\ code[t] # <<>> /\ Then(t, <<>>)
    BY <1>8 DEF Rewrite, Do
  <2>2. V(t) \in Object /\ tag[V(t)] # "none"
    BY <2>1, Acting
  <2>3. Turn(t, Rest(t), <<Head(code[t])>>, <<>>)
    BY <2>1, DoneTurn
  <2>4. /\ owned' = [owned EXCEPT ![t][V(t)] = @ + 1]
        /\ field' = [field EXCEPT ![V(t)] = X(t)] /\ rc' = [rc EXCEPT ![V(t)] = 1]
    BY <1>8 DEF Rewrite, SetRc
  <2>5. /\ owned' \in [Thread -> [Object -> Nat]]
        /\ \A i \in Thread : \A o \in Object : owned'[i][o] > 0 => tag[o] # "none"
    BY <2>2, <2>4, OneMore
  <2>6. X(t) \in Object \cup {Nil} /\ X(t) # V(t) /\ (X(t) # Nil => tag[X(t)] # "none")
    BY <1>5, <2>1 DEF MoveOps
  <2>7. /\ field' \in [Object -> Object \cup {Nil}] /\ rc' \in [Object -> 0..(2 * SHARED - 1)]
        /\ \A o \in Object : field'[o] # Nil => tag[field'[o]] # "none" /\ field'[o] # o
    BY <1>1, <1>3, <2>2, <2>4, <2>6
  <2>8. QED
    BY <1>1, <1>2, <1>4, <2>3, <2>5, <2>7, TypedTurn
<1>9. CASE Swap(t)
  <2>1. Do(t, "swap") /\ UNCHANGED <<rc, owned>> /\ field' = [field EXCEPT ![V(t)] = X(t)]
    BY <1>9 DEF Swap
  <2>2. V(t) \in Object /\ (field[V(t)] # Nil => tag[field[V(t)]] # "none")
    BY <2>1, Acting
  <2>3. PICK c : /\ Turn(t, Rest(t), <<Head(code[t])>>, c)
                 /\ \/ c = <<>>
                    \/ /\ field[V(t)] # Nil
                       /\ \E d \in Item : c = <<d>> /\ d.op = "drop" /\ d.v = field[V(t)]
    BY <1>9, SwapTurn
  <2>4. Tame(c)
    BY <2>2, <2>3, TameList DEF MoveOps
  <2>5. \A e \in Items(c) : \A o \in Object : Touch(e, o) => tag[o] # "none"
    BY <2>4, Numbers DEF Tame, Touch
  <2>6. X(t) \in Object \cup {Nil} /\ X(t) # V(t) /\ (X(t) # Nil => tag[X(t)] # "none")
    BY <1>5, <2>1 DEF MoveOps
  <2>7. /\ field' \in [Object -> Object \cup {Nil}]
        /\ \A o \in Object : field'[o] # Nil => tag[field'[o]] # "none" /\ field'[o] # o
    BY <1>1, <2>1, <2>2, <2>6
  <2>8. /\ rc' \in [Object -> 0..(2 * SHARED - 1)] /\ owned' \in [Thread -> [Object -> Nat]]
        /\ tag' \in [Object -> Tags] /\ tag' = tag /\ ops' \in Nat
        /\ markLock' \in Thread \cup {Nil} /\ cellLock' \in [Object -> Thread \cup {Nil}]
        /\ \A u \in Thread : \A o \in Object : owned'[u][o] > 0 => tag'[o] # "none"
    BY <1>1, <1>4, <2>1
  <2>9. QED
    BY <2>3, <2>5, <2>7, <2>8, TypedTurn
<1>10. QED
  BY <1>6, <1>7, <1>8, <1>9

(* Alloc.                                                                  *)
LEMMA TypedAlloc ==
  ASSUME Typed, NEW t \in Thread, Alloc(t)
  PROVE  Typed'
<1>1. /\ tag \in [Object -> Tags] /\ rc \in [Object -> 0..(2 * SHARED - 1)]
      /\ field \in [Object -> Object \cup {Nil}] /\ owned \in [Thread -> [Object -> Nat]]
      /\ markLock \in Thread \cup {Nil} /\ cellLock \in [Object -> Thread \cup {Nil}] /\ ops \in Nat
      /\ \A u \in Thread : \A o \in Object : owned[u][o] > 0 => tag[o] # "none"
      /\ \A o \in Object : field[o] # Nil => tag[field[o]] # "none" /\ field[o] # o
  BY States
<1>2. code[t] # <<>> /\ Then(t, <<>>) /\ UNCHANGED <<markLock, cellLock, ops>>
  BY DEF Alloc, Do
<1>3. PICK h \in Item : h = Head(code[t]) /\ h.op = "alloc" /\ V(t) = h.v /\ K(t) = h.k /\ h \in Parts(t)
  BY <1>2, Opened DEF Alloc
<1>4. V(t) \in Object \cup {Nil} /\ K(t) \in {"ctor", "ref"}
  BY <1>3, ItemFields
<1>5. V(t) # Nil => tag[V(t)] # "none"
  BY <1>3, <1>4 DEF Typed, Known, Touch
<1>6. PICK o \in Object :
        /\ tag[o] = "none" /\ tag' = [tag EXCEPT ![o] = K(t)] /\ field' = [field EXCEPT ![o] = V(t)]
        /\ rc' = [rc EXCEPT ![o] = 1] /\ owned' = [owned EXCEPT ![t][o] = 1]
  BY DEF Alloc, SetRc
<1>7. Turn(t, Rest(t), <<Head(code[t])>>, <<>>)
  BY <1>2, DoneTurn
<1>8. /\ tag' \in [Object -> Tags] /\ \A i \in Object : tag[i] # "none" => tag'[i] # "none"
      /\ tag'[o] # "none"
  BY <1>1, <1>4, <1>6 DEF Tags
<1>9. 1 \in 0..(2 * SHARED - 1)
  BY Numbers
<1>10. /\ rc' \in [Object -> 0..(2 * SHARED - 1)] /\ field' \in [Object -> Object \cup {Nil}]
       /\ owned' \in [Thread -> [Object -> Nat]]
  BY <1>1, <1>4, <1>6, <1>9
<1>11. \A u \in Thread : \A i \in Object : owned'[u][i] > 0 => tag'[i] # "none"
  <2>1. ASSUME NEW u \in Thread, NEW i \in Object, owned'[u][i] > 0, i # o PROVE tag'[i] # "none"
    BY <1>1, <1>6, <1>8, <2>1
  <2>2. QED
    BY <2>1, <1>8
<1>12. \A i \in Object : field'[i] # Nil => tag'[field'[i]] # "none" /\ field'[i] # i
  <2>1. ASSUME NEW i \in Object, field'[i] # Nil, i # o PROVE tag'[field'[i]] # "none" /\ field'[i] # i
    <3>1. field'[i] = field[i] /\ field[i] \in Object
      BY <1>1, <1>6, <2>1
    <3>2. QED
      BY <3>1, <1>1, <1>8, <2>1
  <2>2. field'[o] # Nil => tag'[field'[o]] # "none" /\ field'[o] # o
    BY <1>1, <1>4, <1>5, <1>6, <1>8
  <2>3. QED
    BY <2>1, <2>2
<1>13. Items(<<>>) = {}
  BY Nothing
<1>14. QED
  BY <1>1, <1>2, <1>7, <1>8, <1>10, <1>11, <1>12, <1>13, TypedTurn

(* The operations of the program.                                          *)
LEMMA TypedProgram ==
  ASSUME Typed, NEW t \in Thread, Program(t)
  PROVE  Typed'
<1>1. ASSUME NEW c, NEW gone, Started(t, c, gone) PROVE Typed'
  BY <1>1, TypedBegin DEF Started
<1>2. ASSUME NEW o \in Object, Copy(t, o) PROVE Typed'
  BY <1>1, <1>2, CopyBegin DEF Copies
<1>3. ASSUME NEW o \in Object, Release(t, o) PROVE Typed'
  BY <1>1, <1>3, ReleaseBegin
<1>4. ASSUME NEW o \in Object, Project(t, o) PROVE Typed'
  BY <1>1, <1>4, ProjectBegin DEF Copies
<1>5. ASSUME NEW o \in Object, CellRead(t, o) PROVE Typed'
  BY <1>1, <1>5, CellReadBegin
<1>6. ASSUME NEW o \in Object, ReuseMoved(t, o) PROVE Typed'
  <2>1. PICK c : Renews(t, o, c)
    BY <1>6, ReuseMovedBegin
  <2>2. Started(t, c, {o})
    BY <2>1 DEF Renews
  <2>3. QED
    BY <2>2, <1>1
<1>7. ASSUME NEW o \in Object, NEW u \in Thread, Publish(t, u, o) PROVE Typed'
  <2>1. PICK e \in Item : \E c : WithMark(c, o, e) /\ Started(t, c, {o})
    BY <1>7, PublishBegin
  <2>2. QED
    BY <2>1, <1>1
<1>8. ASSUME NEW o \in Object, NEW a \in Object \cup {Nil}, CellWrite(t, o, a) PROVE Typed'
  <2>1. PICK e \in Item : Exchanges(t, o, a, e)
    BY <1>8, CellWriteBegin
  <2>2. \E c : Started(t, c, {a})
    BY <2>1 DEF Exchanges
  <2>3. QED
    BY <2>2, <1>1
<1>9. ASSUME NEW o \in Object, NEW a \in Object \cup {Nil}, ReuseArg(t, o, a) PROVE Typed'
  <2>1. \E c : Started(t, c, {o, a})
    <3>1. PICK c : Replaces(t, o, a, c)
      BY <1>9, ReuseArgBegin
    <3>2. QED
      BY <3>1 DEF Replaces
  <2>2. QED
    BY <1>1, <2>1
<1>10. ASSUME NEW a \in Object \cup {Nil}, NEW k \in {"ctor", "ref"}, Build(t, a, k) PROVE Typed'
  <2>1. \E c : Started(t, c, {a})
    <3>1. PICK c : Builds(t, a, c)
      BY <1>10, BuildBegin
    <3>2. QED
      BY <3>1 DEF Builds
  <2>2. QED
    BY <1>1, <2>1
<1>11. QED
  BY <1>2, <1>3, <1>4, <1>5, <1>6, <1>7, <1>8, <1>9, <1>10 DEF Program

(* Every step preserves types.                                             *)
LEMMA TypedStep ==
  ASSUME Typed, [Next]_vars
  PROVE  Typed'
<1>1. ASSUME NEW t \in Thread, Micro(t) PROVE Typed'
  BY <1>1, TypedReads, TypedWrites, TypedOthers, TypedOwns, TypedAlloc DEF Micro
<1>2. ASSUME NEW t \in Thread, Program(t) PROVE Typed'
  BY <1>2, TypedProgram
<1>3. CASE UNCHANGED vars
  BY <1>3 DEF vars, Typed, TypeOK, Known, Parts
<1>4. QED
  BY <1>1, <1>2, <1>3 DEF Next

(* The initial states are typed.                                           *)
LEMMA TypedInit ==
  ASSUME Init
  PROVE  Typed
<1>1. PICK t \in Thread, a \in Object, b \in Object, k \in {"ctor", "ref"} :
        /\ a # b
        /\ tag = [o \in Object |-> IF o = a THEN k ELSE IF o = b THEN "ctor" ELSE "none"]
        /\ rc = [o \in Object |-> IF o \in {a, b} THEN 1 ELSE 0]
        /\ field = [o \in Object |-> IF o = a THEN b ELSE Nil]
        /\ owned = [u \in Thread |-> [o \in Object |-> IF u = t /\ o = a THEN 1 ELSE 0]]
        /\ code = [u \in Thread |-> <<>>]
        /\ markLock = Nil /\ cellLock = [o \in Object |-> Nil] /\ ops = MaxOps
  BY DEF Init
<1>2. Quiet(<<>>) /\ Items(<<>>) = {} /\ <<>> \in Seq(Item)
  BY Nothing
<1>3. 0 \in 0..(2 * SHARED - 1) /\ 1 \in 0..(2 * SHARED - 1)
  BY Numbers
<1>4. TypeOK
  <2>1. tag \in [Object -> Tags]
    BY <1>1 DEF Tags
  <2>2. rc \in [Object -> 0..(2 * SHARED - 1)] /\ field \in [Object -> Object \cup {Nil}]
    BY <1>1, <1>3
  <2>3. owned \in [Thread -> [Object -> Nat]] /\ code \in [Thread -> Seq(Item)]
    BY <1>1, <1>2
  <2>4. markLock \in Thread \cup {Nil} /\ cellLock \in [Object -> Thread \cup {Nil}] /\ ops \in Nat
    BY <1>1, RefCountAssumption
  <2>5. QED
    BY <2>1, <2>2, <2>3, <2>4 DEF TypeOK
<1>5. \A u \in Thread : code[u] = <<>>
  BY <1>1
<1>6. Known
  <2>1. \A u \in Thread : \A o \in Object : owned[u][o] > 0 => tag[o] # "none"
    BY <1>1
  <2>2. \A o \in Object : field[o] # Nil => tag[field[o]] # "none" /\ field[o] # o
    BY <1>1
  <2>3. QED
    BY <1>2, <1>5, <2>1, <2>2 DEF Known, Parts
<1>7. QED
  BY <1>2, <1>4, <1>5, <1>6 DEF Typed, Quiet

(* Type correctness: count words keep their width, every micro-operation a *)
(* thread has still to execute is well formed and in its place (at most    *)
(* one store or compare-and-swap, at the head; nothing but increments in   *)
(* front of a mark walk or an unlock), and nothing refers to an object     *)
(* that alloc_val has not returned.                                        *)
THEOREM TypeCorrect == Spec => []Typed
<1>1. Init => Typed
  BY TypedInit
<1>2. Typed /\ [Next]_vars => Typed'
  BY TypedStep
<1>3. QED
  BY <1>1, <1>2, PTL DEF Spec
=============================================================================
