--------------------- MODULE LocalDeviceTestRun_proofs ---------------------
(***************************************************************************)
(* Proofs about LocalDeviceTestRun, for any number of devices, tests and   *)
(* tries: the types, that the shards of a try are disjoint, that each test *)
(* is run in every try until it passes and gets one verdict, which is what *)
(* was last reported of it, that RunTests never goes on while a thread of  *)
(* a try is alive, and that RunTests implements the ledger of its tests.   *)
(***************************************************************************)
EXTENDS LocalDeviceTestRun, FiniteSetTheorems, SequenceTheorems, TLAPS

(* Sequences without repetitions, and what is left of them.                *)

\* There are finitely many test names, and _GetTests() has each of them once.
LEMMA NamesFinite == IsFiniteSet(Name) /\ Distinct(Tests) /\ Len(Tests) \in Nat
<1> DEFINE n == Len(Tests)
           f == [i \in 1..n |-> Tests[i]]
<1>1. n \in Nat
  BY RunAssumption, LenProperties
<1>2. IsFiniteSet(1..n) /\ Cardinality(1..n) = n
  BY <1>1, FS_Interval
<1>3. f \in Surjection(1..n, Name)
  BY DEF Surjection, Name, Listed
<1>4. IsFiniteSet(Name) /\ f \in Injection(1..n, Name)
  BY <1>2, <1>3, FS_Surjection, RunAssumption
<1>5. \A i, j \in 1..n : f[i] = f[j] => i = j
  BY <1>4 DEF Injection, IsInjective
<1> QED BY <1>1, <1>4, <1>5 DEF Distinct

\* The elements of a finite set of integers are numbered without gaps: Nth is
\* well defined, and meets each element once.
LEMMA Numbering ==
  ASSUME NEW left \in SUBSET Int, IsFiniteSet(left)
  PROVE  /\ Cardinality(left) \in Nat
         /\ \A k \in 1..Cardinality(left) : Nth(left, k) \in left
         /\ \A k, l \in 1..Cardinality(left) : Nth(left, k) = Nth(left, l) => k = l
         /\ \A i \in left : \E k \in 1..Cardinality(left) : Nth(left, k) = i
<1> DEFINE upTo(i) == {j \in left : j <= i}
           rank == [i \in left |-> Cardinality(upTo(i))]
           c == Cardinality(left)
<1>1. IsFiniteSet(left) /\ c \in Nat
  BY FS_CardinalityType
<1>2. \A i \in left : IsFiniteSet(upTo(i)) /\ rank[i] \in 1..c
  <2> TAKE i \in left
  <2>1. upTo(i) \in SUBSET left /\ i \in upTo(i)
    OBVIOUS
  <2>2. IsFiniteSet(upTo(i)) /\ Cardinality(upTo(i)) <= c /\ Cardinality(upTo(i)) \in Nat
    BY <1>1, <2>1, FS_Subset, FS_CardinalityType
  <2>3. Cardinality(upTo(i)) # 0
    BY <2>1, <2>2, FS_EmptySet
  <2> QED BY <1>1, <2>2, <2>3
<1>3. ASSUME NEW i \in left, NEW j \in left, i < j
      PROVE  rank[i] < rank[j]
  <2>1. upTo(i) \in SUBSET upTo(j)
    <3>1. \A k \in left : k <= i => k <= j
      BY <1>3
    <3> QED BY <3>1
  <2>2. j \in upTo(j) /\ j \notin upTo(i)
    BY <1>3
  <2>3. /\ Cardinality(upTo(i)) <= Cardinality(upTo(j))
        /\ Cardinality(upTo(i)) # Cardinality(upTo(j))
    BY <1>2, <2>1, <2>2, FS_Subset
  <2> QED BY <1>1, <1>2, <2>3
<1>4. rank \in Injection(left, 1..c)
  <2>1. \A i, j \in left : rank[i] = rank[j] => i = j
    <3> SUFFICES ASSUME NEW i \in left, NEW j \in left, i # j PROVE rank[i] # rank[j]
      OBVIOUS
    <3>1. i < j \/ j < i
      OBVIOUS
    <3>2. rank[i] \in Int /\ rank[j] \in Int
      BY <1>1, <1>2
    <3> QED BY <1>3, <3>1, <3>2
  <2> QED BY <1>2, <2>1 DEF Injection, IsInjective
<1>5. rank \in Surjection(left, 1..c)
  <2>1. IsFiniteSet(1..c) /\ Cardinality(1..c) = c
    BY <1>1, FS_Interval
  <2> QED BY <1>4, <2>1, FS_Injection
<1>6. \A k \in 1..c : \E i \in left : rank[i] = k
  BY <1>5 DEF Surjection
<1> DEFINE nth(k) == CHOOSE i \in left : Cardinality(upTo(i)) = k
<1>7. \A k \in 1..c : nth(k) \in left /\ rank[nth(k)] = k
  BY <1>6
<1>8. \A i \in left : rank[i] \in 1..c /\ nth(rank[i]) = i
  <2> TAKE i \in left
  <2>1. rank[i] \in 1..c
    BY <1>2
  <2>2. nth(rank[i]) \in left /\ rank[nth(rank[i])] = rank[i]
    BY <1>7, <2>1
  <2> QED BY <1>4, <2>1, <2>2 DEF Injection, IsInjective
<1>9. \A k : Nth(left, k) = nth(k)
  BY DEF Nth
<1> HIDE DEF nth, rank
<1> QED BY <1>1, <1>7, <1>8, <1>9

\* What RunTests keeps of its list: the tests that have not passed, once each.
LEMMA UnpassedFacts ==
  ASSUME NEW s \in Seq(Name), Distinct(s), NEW passed
  PROVE  /\ Unpassed(s, passed) \in Seq(Name)
         /\ Distinct(Unpassed(s, passed))
         /\ Listed(Unpassed(s, passed)) = Listed(s) \ passed
<1> DEFINE m == Len(s)
           left == {i \in 1..m : s[i] \notin passed}
           nth(k) == Nth(left, k)
           c == Cardinality(left)
           u == Unpassed(s, passed)
<1>1. m \in Nat /\ \A i \in 1..m : s[i] \in Name
  BY LenProperties, ElementOfSeq
<1>2. /\ c \in Nat
      /\ \A k \in 1..c : nth(k) \in left
      /\ \A k, l \in 1..c : nth(k) = nth(l) => k = l
      /\ \A i \in left : \E k \in 1..c : nth(k) = i
  <2>1. left \in SUBSET (1..m) /\ left \in SUBSET Int
    BY <1>1
  <2>2. IsFiniteSet(left)
    BY <2>1, FS_Interval, FS_Subset
  <2> HIDE DEF left
  <2> QED BY <2>1, <2>2, Numbering
<1>3. u = [k \in 1..c |-> s[nth(k)]]
  BY DEF Unpassed
<1> HIDE DEF u, nth, c
<1>4. \A k \in 1..c : s[nth(k)] \in Name
  BY <1>1, <1>2
<1>5. u \in Seq(Name) /\ Len(u) = c /\ \A k \in 1..c : u[k] = s[nth(k)]
  BY <1>2, <1>3, <1>4, IsASeq
<1>6. Distinct(u)
  <2> SUFFICES ASSUME NEW k \in 1..c, NEW l \in 1..c, k # l PROVE u[k] # u[l]
    BY <1>5 DEF Distinct
  <2>1. nth(k) # nth(l) /\ nth(k) \in 1..m /\ nth(l) \in 1..m
    BY <1>2
  <2> QED BY <1>5, <2>1 DEF Distinct
<1>7. Listed(u) = {s[i] : i \in left}
  BY <1>2, <1>5 DEF Listed
<1>8. {s[i] : i \in left} = Listed(s) \ passed
  BY DEF Listed
<1> QED BY <1>5, <1>6, <1>7, <1>8 DEF u

\* The strides of n devices: every position is in one of them, and in no other.
LEMMA StridePartition ==
  ASSUME NEW n \in Nat \ {0}, NEW k \in Nat \ {0}
  PROVE  /\ \E i \in 1..n : i <= k /\ (k - i) % n = 0
         /\ \A i, j \in 1..n : (k - i) % n = 0 /\ (k - j) % n = 0 => i = j
<1>1. ASSUME NEW a \in Int
      PROVE  a \div n \in Int /\ a % n \in 0..(n - 1) /\ a = n * (a \div n) + (a % n)
  OBVIOUS
<1>2. \E i \in 1..n : i <= k /\ (k - i) % n = 0
  <2> DEFINE a == k - 1
             i == (a % n) + 1
             q == a \div n
  <2>1. a \in Nat /\ q \in Int /\ a % n \in 0..(n - 1) /\ a = n * q + (a % n)
    <3>1. a \in Nat
      OBVIOUS
    <3> HIDE DEF a
    <3> QED BY <1>1, <3>1
  <2>2. i \in 1..n /\ k - i = n * q /\ i \in Int
    BY <2>1
  <2>3. q >= 0
    <3> HIDE DEF q
    <3>1. n * q > -n
      BY <2>1
    <3> QED BY <2>1, <3>1
  <2>4. n * q >= 0 /\ (n * q) % n = 0
    BY <2>1, <2>3
  <2>5. i <= k /\ (k - i) % n = 0
    <3> HIDE DEF i, q
    <3> QED BY <2>2, <2>4
  <2> QED BY <2>2, <2>5
<1>3. ASSUME NEW a \in Int, a % n = 0
      PROVE  \E q \in Int : a = n * q
  <2> DEFINE q == a \div n
  <2>1. q \in Int /\ a = n * q + (a % n)
    BY <1>1
  <2> HIDE DEF q
  <2>2. a = n * q
    BY <1>3, <2>1
  <2> QED BY <2>1, <2>2
<1>4. ASSUME NEW i \in 1..n, NEW j \in 1..n, (k - i) % n = 0, (k - j) % n = 0
      PROVE  i = j
  <2>0. k - i \in Int /\ k - j \in Int
    OBVIOUS
  <2>1. PICK p \in Int : k - i = n * p
    BY <1>3, <1>4, <2>0
  <2>2. PICK q \in Int : k - j = n * q
    BY <1>3, <1>4, <2>0
  <2>3. j - i = n * (p - q) /\ j - i < n /\ j - i > -n
    BY <2>1, <2>2
  <2>4. p - q < 1 /\ p - q > -1
    BY <2>3
  <2>5. p = q
    BY <2>4
  <2> QED BY <2>1, <2>2, <2>5
<1> QED BY <1>2, <1>4

\* Quotients and remainders of natural numbers.
LEMMA Division ==
  ASSUME NEW a \in Nat, NEW b \in Nat \ {0}
  PROVE  /\ a \div b \in Nat /\ a % b \in 0..(b - 1)
         /\ a = b * (a \div b) + (a % b)
         /\ a \div b <= a
<1>1. a \div b \in Int /\ a % b \in 0..(b - 1) /\ a = b * (a \div b) + (a % b)
  OBVIOUS
<1> DEFINE q == a \div b
<1> HIDE DEF q
<1>2. q \in Int /\ b * q > -b /\ b * q <= a
  BY <1>1 DEF q
<1>3. q >= 0
  BY <1>2
<1>4. q <= b * q
  BY <1>2, <1>3
<1> QED BY <1>1, <1>2, <1>3, <1>4 DEF q

\* The pieces of the strides: no test is in two of them, and each is in one.
LEMMA PieceFacts ==
  ASSUME NEW s \in Seq(Name), s # <<>>, Distinct(s), NEW n \in Nat \ {0}
  PROVE  LET piece(x) == Piece(s, (x \div Len(s)) + 1, n, x % Len(s))
             slots    == 0..(n * Len(s) - 1)
         IN  /\ \A x \in slots : piece(x) \in SUBSET Name
             /\ \A x, y \in slots : x # y => piece(x) \cap piece(y) = {}
             /\ \A t \in Listed(s) : \E x \in slots : t \in piece(x)
             /\ \A x \in slots : piece(x) \subseteq Listed(s)
<1> DEFINE m == Len(s)
           M == MaxShardSize
           piece(x) == Piece(s, (x \div m) + 1, n, x % m)
           slots == 0..(n * m - 1)
<1>1. m \in Nat \ {0} /\ M \in Nat \ {0} /\ \A i \in 1..m : s[i] \in Name
  BY RunAssumption, EmptySeq, LenProperties, ElementOfSeq
<1>2. \A x \in slots : piece(x) \subseteq Listed(s) /\ piece(x) \in SUBSET Name
  BY <1>1 DEF Piece, Listed
<1>3. ASSUME NEW x \in slots
      PROVE  /\ (x \div m) + 1 \in 1..n /\ x % m \in 0..(m - 1)
             /\ x \div m \in Nat /\ x = m * (x \div m) + (x % m)
  <2>1. n * m \in Nat
    BY <1>1
  <2>2. x \in Nat /\ x < n * m
    BY <2>1
  <2>3. x \div m \in Nat /\ x % m \in 0..(m - 1) /\ x = m * (x \div m) + (x % m)
    BY <1>1, <2>2, Division
  <2> DEFINE q == x \div m
  <2> HIDE DEF q, m
  <2>4. m * q < m * n
    BY <1>1, <2>2, <2>3 DEF q
  <2>5. q < n
    <3> SUFFICES ASSUME q >= n PROVE FALSE
      BY <2>3 DEF q
    <3>1. m * q >= m * n
      BY <1>1, <2>3 DEF q
    <3> QED BY <1>1, <2>3, <2>4, <3>1 DEF q
  <2> QED BY <2>3, <2>5 DEF q
<1>4. ASSUME NEW x \in slots, NEW y \in slots, x # y
      PROVE  piece(x) \cap piece(y) = {}
  <2> DEFINE i == (x \div m) + 1
             j == (y \div m) + 1
  <2> SUFFICES ASSUME NEW k \in 1..m, NEW l \in 1..m, s[k] = s[l],
                      (k - i) % n = 0, (l - j) % n = 0,
                      ((k - i) \div n) \div M = x % m,
                      ((l - j) \div n) \div M = y % m
               PROVE  FALSE
    BY DEF Piece
  <2>1. k = l /\ k \in Nat \ {0}
    BY <1>1 DEF Distinct
  <2>2. i \in 1..n /\ j \in 1..n
    BY <1>3
  <2>3. i = j
    <3> HIDE DEF i, j
    <3> QED BY <2>1, <2>2, StridePartition
  <2>4. x % m = y % m
    BY <2>1, <2>3
  <2>5. x \div m = y \div m
    <3>1. x \div m \in Nat /\ y \div m \in Nat
      BY <1>3
    <3> QED BY <2>3, <3>1
  <2> HIDE DEF m
  <2>6. x = m * (x \div m) + (x % m) /\ y = m * (y \div m) + (y % m)
    BY <1>3
  <2> QED BY <1>4, <2>4, <2>5, <2>6
<1>5. ASSUME NEW t \in Listed(s)
      PROVE  \E x \in slots : t \in piece(x)
  <2>1. PICK k \in 1..m : t = s[k]
    BY DEF Listed
  <2>2. k \in Nat \ {0} /\ k <= m
    BY <1>1
  <2>3. PICK i \in 1..n : i <= k /\ (k - i) % n = 0
    BY <2>2, StridePartition
  <2> DEFINE e == (k - i) \div n
             c == e \div M
             x == (i - 1) * m + c
  <2>4. e \in Nat /\ e <= k - i
    <3>1. k - i \in Nat
      BY <2>2, <2>3
    <3> QED BY <3>1, Division
  <2>5. c \in Nat /\ c <= e
    <3> HIDE DEF e
    <3> QED BY <1>1, <2>4, Division
  <2> HIDE DEF c, e, m
  <2>6. c \in 0..(m - 1)
    BY <1>1, <2>2, <2>3, <2>4, <2>5
  <2>7. (i - 1) * m \in Nat /\ (i - 1) * m <= (n - 1) * m /\ (n - 1) * m = n * m - m
    BY <1>1
  <2>8. x \in slots
    BY <1>1, <2>6, <2>7
  <2>9. x \div m = i - 1 /\ x % m = c
    <3> DEFINE q == x \div m
               r == x % m
    <3>1. q \in Nat /\ r \in 0..(m - 1) /\ x = m * q + r
      <4>1. x \in Nat
        BY <2>6, <2>7
      <4> HIDE DEF x
      <4> QED BY <1>1, <4>1, Division
    <3> HIDE DEF q, r
    <3>2. m * q + r = m * (i - 1) + c
      BY <1>1, <2>6, <3>1
    <3>3. m * (q - (i - 1)) = c - r /\ c - r < m /\ c - r > -m
      BY <1>1, <2>6, <3>1, <3>2
    <3>4. q - (i - 1) < 1 /\ q - (i - 1) > -1
      BY <1>1, <3>1, <3>3
    <3>5. q = i - 1
      BY <3>1, <3>4
    <3>6. r = c
      BY <1>1, <2>6, <3>1, <3>2, <3>5
    <3> QED BY <3>5, <3>6 DEF q, r
  <2> HIDE DEF x
  <2>10. piece(x) = Piece(s, i, n, c)
    BY <2>9
  <2>11. t \in Piece(s, i, n, c)
    BY <2>1, <2>3 DEF Piece, c, e, m
  <2> QED BY <2>8, <2>10, <2>11
<1> QED BY <1>2, <1>4, <1>5

\* The shards of gtests: the pieces that are not empty, in their order.
LEMMA GtestShardFacts ==
  ASSUME NEW s \in Seq(Name), s # <<>>, Distinct(s), NEW n \in Nat \ {0}
  PROVE  LET c == GtestShards(s, n) IN
         /\ c \in Seq((SUBSET Name) \ {{}}) /\ c # <<>>
         /\ \A i, j \in 1..Len(c) : i # j => c[i] \cap c[j] = {}
         /\ UNION Listed(c) = Listed(s)
<1> DEFINE c == GtestShards(s, n)
           piece(x) == Piece(s, (x \div Len(s)) + 1, n, x % Len(s))
           slots == 0..(n * Len(s) - 1)
           full == {x \in slots : piece(x) # {}}
           size == Cardinality(full)
<1>1. /\ \A x \in slots : piece(x) \in SUBSET Name
      /\ \A x, y \in slots : x # y => piece(x) \cap piece(y) = {}
      /\ \A t \in Listed(s) : \E x \in slots : t \in piece(x)
      /\ \A x \in slots : piece(x) \subseteq Listed(s)
  BY PieceFacts
<1>2. n * Len(s) - 1 \in Int /\ 1 \in 1..Len(s)
  BY LenProperties, EmptySeq
<1>3. /\ size \in Nat
      /\ \A k \in 1..size : Nth(full, k) \in full
      /\ \A k, l \in 1..size : Nth(full, k) = Nth(full, l) => k = l
      /\ \A x \in full : \E k \in 1..size : Nth(full, k) = x
  <2>1. full \in SUBSET slots /\ full \in SUBSET Int
    BY <1>2
  <2>2. IsFiniteSet(slots)
    BY <1>2, FS_Interval
  <2> HIDE DEF full, slots
  <2>3. IsFiniteSet(full)
    BY <2>1, <2>2, FS_Subset
  <2> QED BY <2>1, <2>3, Numbering
<1>4. c = [k \in 1..size |-> piece(Nth(full, k))]
  BY DEF GtestShards
<1>5. \A x \in full : x \in slots /\ piece(x) \in (SUBSET Name) \ {{}}
  BY <1>1
<1>6. \A x \in slots : \A t \in piece(x) : x \in full
  OBVIOUS
<1> HIDE DEF c, piece, slots, full, size
<1>7. /\ c \in Seq((SUBSET Name) \ {{}}) /\ Len(c) = size
      /\ \A k \in 1..size : c[k] = piece(Nth(full, k))
  BY <1>3, <1>4, <1>5, IsASeq
<1>8. \A i, j \in 1..Len(c) : i # j => c[i] \cap c[j] = {}
  BY <1>1, <1>3, <1>5, <1>7
<1>9. ASSUME NEW t \in Listed(s) PROVE \E k \in 1..size : t \in c[k]
  <2>1. PICK x \in slots : t \in piece(x)
    BY <1>1
  <2>2. x \in full
    BY <1>6, <2>1
  <2>3. PICK k \in 1..size : Nth(full, k) = x
    BY <1>3, <2>2
  <2> QED BY <1>7, <2>1, <2>3
<1>10. UNION Listed(c) = Listed(s)
  <2>1. \A t \in Listed(s) : t \in UNION Listed(c)
    BY <1>7, <1>9 DEF Listed
  <2>2. \A k \in 1..size : c[k] \subseteq Listed(s)
    BY <1>1, <1>3, <1>5, <1>7
  <2>3. UNION Listed(c) \subseteq Listed(s)
    <3>1. \A q \in Listed(c) : \E k \in 1..size : q = c[k]
      BY <1>7 DEF Listed
    <3> QED BY <2>2, <3>1
  <2> QED BY <2>1, <2>3
<1>11. c # <<>>
  <2>1. s[1] \in Listed(s)
    BY <1>2 DEF Listed
  <2>2. size # 0
    BY <1>9, <2>1, <1>3
  <2> QED BY <1>3, <1>7, <2>2, EmptySeq
<1> QED BY <1>7, <1>8, <1>10, <1>11 DEF c

\* The shards are not empty and have no test in common, and together they hold
\* the tests of the list.
LEMMA ShardFacts ==
  ASSUME NEW s \in Seq(Name), s # <<>>, Distinct(s)
  PROVE  /\ CreateShards(s) \in Seq((SUBSET Name) \ {{}})
         /\ CreateShards(s) # <<>>
         /\ \A i, j \in 1..Len(CreateShards(s)) :
              i # j => CreateShards(s)[i] \cap CreateShards(s)[j] = {}
         /\ UNION Listed(CreateShards(s)) = Listed(s)
<1> DEFINE c == CreateShards(s)
           m == Len(s)
<1>1. m \in Nat \ {0} /\ \A i \in 1..m : s[i] \in Name
  BY EmptySeq, LenProperties, ElementOfSeq
<1>2. CASE kind = "gtest"
  <2>1. Cardinality(Device) \in Nat \ {0}
    BY RunAssumption, FS_CardinalityType, FS_EmptySet
  <2> QED BY <1>2, <2>1, GtestShardFacts DEF CreateShards
<1>3. CASE kind # "gtest"
  <2>1. c = [i \in 1..m |-> {s[i]}]
    BY <1>3 DEF CreateShards
  <2> HIDE DEF c
  <2>2. /\ c \in Seq((SUBSET Name) \ {{}}) /\ Len(c) = m /\ c # <<>>
        /\ \A i \in 1..m : c[i] = {s[i]}
    BY <1>1, <2>1, IsASeq, EmptySeq
  <2>3. \A i, j \in 1..m : i # j => {s[i]} \cap {s[j]} = {}
    BY DEF Distinct
  <2>4. Listed(c) = {{s[i]} : i \in 1..m}
    BY <2>2 DEF Listed
  <2>5. UNION Listed(c) = Listed(s)
    BY <2>4 DEF Listed
  <2> QED BY <2>2, <2>3, <2>5 DEF c
<1> QED BY <1>2, <1>3
-----------------------------------------------------------------------------
(* The state of a try.                                                     *)

\* There are finitely many busy threads.
LEMMA BusyFinite == IsFiniteSet(Busy) /\ Cardinality(Busy) \in Nat
<1>1. Busy \in SUBSET Device
  BY DEF Busy
<1> QED BY <1>1, RunAssumption, FS_Subset, FS_CardinalityType

\* A counter of 0 means that no shard is pending and that nobody runs one.
LEMMA Drained ==
  ASSUME TypeOK, JoinInv, main = "join", tc.inProgress = 0
  PROVE  tc.tests = <<>> /\ Busy = {} /\ Pending = {}
<1>1. tc.tests \in Seq((SUBSET Name) \ {{}}) /\ Len(tc.tests) \in Nat
  BY LenProperties DEF TypeOK, Collection
<1>2. Len(tc.tests) = 0 /\ Cardinality(Busy) = 0
  BY <1>1, BusyFinite DEF JoinInv
<1>3. tc.tests = <<>> /\ Busy = {}
  BY <1>1, <1>2, BusyFinite, FS_EmptySet, EmptySeq
<1>4. Listed(tc.tests) = {}
  BY <1>3 DEF Listed
<1>5. \A d \in Device : held[d] = {}
  BY <1>3 DEF TypeOK
<1> QED BY <1>3, <1>4, <1>5 DEF Pending

\* Outside a try no thread holds a shard.
LEMMA NothingHeld ==
  ASSUME TypeOK, NoneAlive, main = "try"
  PROVE  \A d \in Device : held[d] = {} /\ phase[d] \in {"idle", "left"}
BY DEF TypeOK, NoneAlive, Busy

LEMMA Initially == Init => IInv
<1> SUFFICES ASSUME Init PROVE IInv
  OBVIOUS
<1>1. tests = Tests /\ Tests \in Seq(Name) /\ Distinct(Tests) /\ Listed(tests) = Name
  BY NamesFinite, RunAssumption DEF Init, Name
<1>2. tc \in Collection((SUBSET Name) \ {{}})
  <2>1. <<>> \in Seq((SUBSET Name) \ {{}}) /\ Len(<<>>) \in Int /\ (<<>> # <<>>) \in BOOLEAN
    BY EmptySeq
  <2> QED BY <2>1 DEF Init, NewCollection, Collection
<1>3. Busy = {} /\ \A d \in Device : held[d] = {}
  BY DEF Init, Busy
<1>4. TypeOK
  BY <1>1, <1>2, <1>3, RunAssumption DEF Init, TypeOK, Phase
<1>5. outcome # "returned" /\ main = "try" /\ results = {}
  BY RunAssumption DEF Init
<1>6. NoneAlive /\ ShardsDisjoint /\ JoinInv /\ FoundInv /\ OneVerdictPerTest
  BY <1>5 DEF Init, NoneAlive, ShardsDisjoint, JoinInv, FoundInv, OneVerdictPerTest
<1>7. ResultsInv
  BY <1>1, <1>5 DEF Init, ResultsInv, OneEach
<1>8. RunsInv /\ RunsBounded /\ LastInv
  BY <1>1, <1>5, RunAssumption DEF Init, RunsInv, RunsBounded, LastInv
<1> QED BY <1>4, <1>6, <1>7, <1>8 DEF IInv

(* The steps of a thread.                                                  *)

\* What a step of a thread leaves alone: the records of RunTests.
LEMMA DeviceStepLeaves ==
  ASSUME IInv, NEW d \in Device, DeviceStep(d)
  PROVE  /\ main = "join" /\ main' = "join" /\ kind' = kind /\ tries' = tries
         /\ tests' = tests /\ results' = results /\ failures' = failures
         /\ outcome' = outcome
         /\ NoneAlive' /\ ResultsInv' /\ OneVerdictPerTest'
<1>1. /\ main' = main /\ kind' = kind /\ tries' = tries /\ tests' = tests
      /\ results' = results /\ failures' = failures /\ outcome' = outcome
  BY DEF DeviceStep, mainVars
<1>2. phase[d] \in {"waiting", "woken", "running"}
  BY DEF DeviceStep, Wake, PopTest, PopNothing, RunTest, RunTestRaises
<1>3. main = "join"
  BY <1>2 DEF IInv, NoneAlive
<1>4. outcome # "returned"
  BY <1>3, RunAssumption DEF IInv, ResultsInv
<1> QED BY <1>1, <1>3, <1>4 DEF IInv, NoneAlive, ResultsInv, OneVerdictPerTest

\* A step that moves no shard: only the event and the phase of a thread that
\* is not busy, or that dies, change.
LEMMA IdleStep ==
  ASSUME IInv, NEW d \in Device, DeviceStep(d), UNCHANGED <<held, found, ran, last>>,
         Busy' = Busy, phase' \in [Device -> Phase],
         tc' \in Collection((SUBSET Name) \ {{}}),
         tc'.tests = tc.tests, tc'.inProgress = tc.inProgress,
         \A e \in Device : phase'[e] # "idle",
         (\E e \in Device : phase'[e] = "left") => tc.inProgress = 0
  PROVE  IInv'
<1>1. /\ main = "join" /\ main' = "join" /\ kind' = kind /\ tries' = tries
      /\ tests' = tests /\ results' = results /\ failures' = failures
      /\ outcome' = outcome
      /\ NoneAlive' /\ ResultsInv' /\ OneVerdictPerTest'
  BY DeviceStepLeaves
<1>2. TypeOK'
  BY <1>1 DEF IInv, TypeOK
<1>3. Pending' = Pending /\ PassedNames' = PassedNames
  BY <1>1 DEF Pending, PassedNames
<1>4. ShardsDisjoint' /\ JoinInv' /\ FoundInv'
  BY <1>1, <1>3 DEF IInv, ShardsDisjoint, JoinInv, FoundInv
<1>5. RunsInv' /\ RunsBounded' /\ LastInv'
  BY <1>1, <1>3 DEF IInv, RunsInv, RunsBounded, LastInv
<1> QED BY <1>1, <1>2, <1>4, <1>5 DEF IInv

LEMMA WakeKeeps ==
  ASSUME IInv, NEW d \in Device, DeviceStep(d), Wake(d)
  PROVE  IInv'
<1>1. phase \in [Device -> Phase] /\ tc \in Collection((SUBSET Name) \ {{}})
  BY DEF IInv, TypeOK
<1>2. \A e \in Device : phase[e] # "idle" /\ (phase[e] = "left" => tc.inProgress = 0)
  BY DeviceStepLeaves DEF IInv, JoinInv
<1>3. phase' \in [Device -> Phase] /\ Busy' = Busy
  BY <1>1 DEF Wake, Phase, Busy
<1>4. \A e \in Device : phase'[e] # "idle" /\ (phase'[e] = "left" => tc.inProgress = 0)
  BY <1>1, <1>2 DEF Wake
<1>5. UNCHANGED <<tc, held, found, ran, last>>
  BY DEF Wake
<1> QED BY <1>1, <1>3, <1>4, <1>5, IdleStep

LEMMA PopNothingKeeps ==
  ASSUME IInv, NEW d \in Device, DeviceStep(d), PopNothing(d)
  PROVE  IInv'
<1>1. phase \in [Device -> Phase] /\ tc \in Collection((SUBSET Name) \ {{}})
  BY DEF IInv, TypeOK
<1>2. \A e \in Device : phase[e] # "idle" /\ (phase[e] = "left" => tc.inProgress = 0)
  BY DeviceStepLeaves DEF IInv, JoinInv
<1>3. phase' \in [Device -> Phase] /\ Busy' = Busy
  BY <1>1 DEF PopNothing, Phase, Busy
<1>4. \A e \in Device : phase'[e] # "idle" /\ (phase'[e] = "left" => tc.inProgress = 0)
  BY <1>1, <1>2 DEF PopNothing, AllHandled
<1>5. /\ tc' \in Collection((SUBSET Name) \ {{}})
      /\ tc'.tests = tc.tests /\ tc'.inProgress = tc.inProgress
  BY <1>1 DEF PopNothing, Cleared, Collection
<1>6. UNCHANGED <<held, found, ran, last>>
  BY DEF PopNothing
<1> QED BY <1>3, <1>4, <1>5, <1>6, IdleStep

LEMMA RunTestRaisesKeeps ==
  ASSUME IInv, NEW d \in Device, DeviceStep(d), RunTestRaises(d)
  PROVE  IInv'
<1>1. phase \in [Device -> Phase] /\ tc \in Collection((SUBSET Name) \ {{}})
  BY DEF IInv, TypeOK
<1>2. \A e \in Device : phase[e] # "idle" /\ (phase[e] = "left" => tc.inProgress = 0)
  BY DeviceStepLeaves DEF IInv, JoinInv
<1>3. phase' \in [Device -> Phase] /\ Busy' = Busy
  BY <1>1 DEF RunTestRaises, Phase, Busy
<1>4. \A e \in Device : phase'[e] # "idle" /\ (phase'[e] = "left" => tc.inProgress = 0)
  BY <1>1, <1>2 DEF RunTestRaises
<1>5. UNCHANGED <<tc, held, found, ran, last>>
  BY DEF RunTestRaises
<1> QED BY <1>1, <1>3, <1>4, <1>5, IdleStep

\* A popped shard moves from the queue to the thread: the same tests are
\* pending, and the shards are as disjoint as before.
LEMMA PopTestKeeps ==
  ASSUME IInv, NEW d \in Device, DeviceStep(d), PopTest(d)
  PROVE  IInv'
<1> DEFINE q == tc.tests
           h == Head(q)
<1>1. /\ main = "join" /\ main' = "join" /\ kind' = kind /\ tries' = tries
      /\ tests' = tests /\ results' = results /\ failures' = failures
      /\ outcome' = outcome
      /\ NoneAlive' /\ ResultsInv' /\ OneVerdictPerTest'
  BY DeviceStepLeaves
<1>2. /\ q \in Seq((SUBSET Name) \ {{}}) /\ q # <<>> /\ Len(q) \in Nat \ {0}
      /\ tc \in Collection((SUBSET Name) \ {{}})
  BY LenProperties, EmptySeq DEF IInv, TypeOK, Collection, PopTest, TestAvailable
<1>3. /\ h = q[1] /\ h \in (SUBSET Name) \ {{}}
      /\ Tail(q) \in Seq((SUBSET Name) \ {{}}) /\ Len(Tail(q)) = Len(q) - 1
      /\ \A i \in 1..Len(Tail(q)) : Tail(q)[i] = q[i + 1] /\ i + 1 \in 1..Len(q)
  <2>1. /\ h \in (SUBSET Name) \ {{}}
        /\ Tail(q) \in Seq((SUBSET Name) \ {{}}) /\ Len(Tail(q)) = Len(q) - 1
        /\ \A i \in 1..Len(Tail(q)) : Tail(q)[i] = q[i + 1]
    BY <1>2, HeadTailProperties
  <2>2. h = q[1]
    OBVIOUS
  <2>3. \A i \in 1..Len(Tail(q)) : i + 1 \in 1..Len(q)
    BY <1>2, <2>1
  <2> QED BY <2>1, <2>2, <2>3
<1>4. Listed(q) = {h} \cup Listed(Tail(q))
  <2>1. \A i \in 1..Len(q) : i = 1 \/ (i - 1 \in 1..Len(Tail(q)) /\ q[i] = Tail(q)[i - 1])
    <3> TAKE i \in 1..Len(q)
    <3> SUFFICES ASSUME i # 1 PROVE i - 1 \in 1..Len(Tail(q)) /\ q[i] = Tail(q)[i - 1]
      OBVIOUS
    <3>1. i - 1 \in 1..Len(Tail(q)) /\ (i - 1) + 1 = i
      BY <1>2, <1>3
    <3> QED BY <1>3, <3>1
  <2>2. 1 \in 1..Len(q)
    BY <1>2
  <2>3. {h} \cup Listed(Tail(q)) \subseteq Listed(q)
    BY <1>3, <2>2 DEF Listed
  <2>4. Listed(q) \subseteq {h} \cup Listed(Tail(q))
    <3> SUFFICES ASSUME NEW i \in 1..Len(q) PROVE q[i] \in {h} \cup Listed(Tail(q))
      BY DEF Listed
    <3> HIDE DEF q, h
    <3> QED BY <1>3, <2>1 DEF Listed
  <2> QED BY <2>3, <2>4
<1>5. /\ tc'.tests = Tail(q) /\ tc'.inProgress = tc.inProgress
      /\ tc' \in Collection((SUBSET Name) \ {{}})
  BY <1>2, <1>3 DEF PopTest, Popped, Collection
<1>6. /\ d \notin Busy /\ held[d] = {} /\ held'[d] = h
      /\ \A e \in Device \ {d} : held'[e] = held[e] /\ phase'[e] = phase[e]
      /\ phase'[d] = "running"
      /\ Busy' = Busy \cup {d}
  BY DEF IInv, TypeOK, PopTest, Busy
<1>7. TypeOK'
  <2>1. phase' \in [Device -> Phase] /\ held' \in [Device -> SUBSET Name]
    BY <1>3 DEF IInv, TypeOK, PopTest, Phase
  <2>2. \A e \in Device : held'[e] # {} <=> e \in Busy'
    BY <1>3, <1>6 DEF IInv, TypeOK
  <2>3. found' = found /\ ran' = ran /\ last' = last
    BY DEF PopTest
  <2> QED BY <1>1, <1>5, <2>1, <2>2, <2>3 DEF IInv, TypeOK
<1>8. UNION {held'[e] : e \in Device} = h \cup UNION {held[e] : e \in Device}
  BY <1>6
<1>9. Pending' = Pending
  <2> DEFINE tail == UNION Listed(Tail(q))
             old == UNION {held[e] : e \in Device}
  <2>1. UNION Listed(q) = h \cup tail
    BY <1>4
  <2>2. Pending' = tail \cup (h \cup old)
    BY <1>5, <1>8 DEF Pending
  <2>3. Pending = (UNION Listed(q)) \cup old
    BY DEF Pending
  <2> HIDE DEF tail, old, h
  <2> QED BY <2>1, <2>2, <2>3
<1>10. ShardsDisjoint'
  <2>1. /\ \A i, j \in 1..Len(q) : i # j => q[i] \cap q[j] = {}
        /\ \A e \in Device : \A i \in 1..Len(q) : held[e] \cap q[i] = {}
        /\ \A e, f \in Device : e # f => held[e] \cap held[f] = {}
        /\ \A i \in 1..Len(q) : q[i] \cap PassedNames = {}
    BY <1>1 DEF IInv, ShardsDisjoint
  <2>2. \A i, j \in 1..Len(Tail(q)) : i # j => Tail(q)[i] \cap Tail(q)[j] = {}
    <3> SUFFICES ASSUME NEW i \in 1..Len(Tail(q)), NEW j \in 1..Len(Tail(q)), i # j
                 PROVE  Tail(q)[i] \cap Tail(q)[j] = {}
      OBVIOUS
    <3>1. i + 1 \in 1..Len(q) /\ j + 1 \in 1..Len(q) /\ i + 1 # j + 1
      BY <1>3
    <3>2. q[i + 1] \cap q[j + 1] = {}
      BY <2>1, <3>1
    <3> QED BY <1>3, <3>2
  <2>3. \A i \in 1..Len(Tail(q)) : h \cap Tail(q)[i] = {}
    <3>1. \A i \in 1..Len(Tail(q)) : i + 1 # 1
      OBVIOUS
    <3>2. 1 \in 1..Len(q)
      BY <1>2
    <3> QED BY <1>3, <2>1, <3>1, <3>2
  <2>4. \A e \in Device : held[e] \cap h = {}
    <3>1. 1 \in 1..Len(q)
      BY <1>2
    <3> QED BY <1>3, <2>1, <3>1
  <2>5. \A e \in Device : \A i \in 1..Len(Tail(q)) : held'[e] \cap Tail(q)[i] = {}
    BY <1>3, <1>6, <2>1, <2>3
  <2>6. \A e, f \in Device : e # f => held'[e] \cap held'[f] = {}
    BY <1>6, <2>1, <2>4
  <2>7. PassedNames' = PassedNames
    BY <1>1 DEF PassedNames
  <2>8. \A i \in 1..Len(Tail(q)) : Tail(q)[i] \cap PassedNames = {}
    BY <1>3, <2>1
  <2> QED BY <1>5, <2>2, <2>5, <2>6, <2>7, <2>8 DEF ShardsDisjoint
<1>11. JoinInv'
  <2>1. Cardinality(Busy') = Cardinality(Busy) + 1 /\ Cardinality(Busy) \in Nat
    BY <1>6, BusyFinite, FS_AddElement
  <2>2. tc'.inProgress = Len(tc'.tests) + Cardinality(Busy')
    BY <1>1, <1>2, <1>3, <1>5, <2>1 DEF IInv, JoinInv
  <2> QED BY <1>1, <1>5, <1>6, <2>2 DEF IInv, JoinInv
<1>12. FoundInv' /\ RunsInv' /\ RunsBounded' /\ LastInv'
  <2>1. found' = found /\ ran' = ran /\ last' = last /\ PassedNames' = PassedNames
    BY <1>1 DEF PopTest, PassedNames
  <2> QED BY <1>1, <1>9, <2>1 DEF IInv, FoundInv, RunsInv, RunsBounded, LastInv
<1> QED BY <1>1, <1>7, <1>10, <1>11, <1>12 DEF IInv

\* The results of a shard are the only ones of its tests, and the shard is
\* not pending any more.
LEMMA RunTestKeeps ==
  ASSUME IInv, NEW d \in Device, DeviceStep(d), RunTest(d)
  PROVE  IInv'
<1> DEFINE h == held[d]
<1>1. /\ main = "join" /\ main' = "join" /\ kind' = kind /\ tries' = tries
      /\ tests' = tests /\ results' = results /\ failures' = failures
      /\ outcome' = outcome
      /\ NoneAlive' /\ ResultsInv' /\ OneVerdictPerTest'
  BY DeviceStepLeaves
<1>2. PICK reported \in SUBSET h : \E type \in [reported -> Types] :
        /\ found' = [found EXCEPT ![d] =
                       @ \cup {[name |-> n, type |-> type[n]] : n \in reported}]
        /\ last' = [n \in Name |-> IF n \in reported THEN type[n] ELSE last[n]]
  BY DEF RunTest
<1>3. PICK type \in [reported -> Types] :
        /\ found' = [found EXCEPT ![d] =
                       @ \cup {[name |-> n, type |-> type[n]] : n \in reported}]
        /\ last' = [n \in Name |-> IF n \in reported THEN type[n] ELSE last[n]]
  BY <1>2
<1>typed. Types \subseteq Passing \cup Failing
  BY DEF Types, Passing, Failing
<1> DEFINE new == {[name |-> n, type |-> type[n]] : n \in reported}
<1>4. /\ found' \in [Device -> SUBSET Result(Passing \cup Failing)]
      /\ found'[d] = found[d] \cup new
      /\ \A e \in Device \ {d} : found'[e] = found[e]
  <2>1. h \subseteq Name
    BY DEF IInv, TypeOK
  <2>2. new \subseteq Result(Passing \cup Failing)
    BY <1>typed, <2>1 DEF Result
  <2> QED BY <1>3, <2>2 DEF IInv, TypeOK
<1>5. /\ \A r \in new : r.name \in h
      /\ OneEach(new)
  BY DEF OneEach
<1>latest.
       /\ last' \in [Name -> Passing \cup Failing \cup {None}]
       /\ \A r \in new : last'[r.name] = r.type
       /\ \A n \in Name : (\A r \in new : r.name # n) => last'[n] = last[n]
  <2>1. h \subseteq Name
    BY DEF IInv, TypeOK
  <2>2. \A n \in reported : [name |-> n, type |-> type[n]] \in new
    OBVIOUS
  <2>3. \A n \in Name : (\A r \in new : r.name # n) => n \notin reported
    BY <2>2
  <2> HIDE DEF new
  <2>4. \A n \in Name : n \notin reported => last'[n] = last[n]
    BY <1>3
  <2>5. \A r \in new : last'[r.name] = r.type
    BY <1>3, <2>1 DEF new
  <2>6. last' \in [Name -> Passing \cup Failing \cup {None}]
    BY <1>3, <1>typed DEF IInv, TypeOK
  <2> QED BY <2>3, <2>4, <2>5, <2>6
<1> HIDE DEF new
<1>6. /\ d \in Busy /\ held'[d] = {} /\ phase'[d] = "waiting"
      /\ \A e \in Device \ {d} : held'[e] = held[e] /\ phase'[e] = phase[e]
      /\ Busy' = Busy \ {d}
  BY DEF IInv, TypeOK, RunTest, Busy
<1>7. /\ tc'.tests = tc.tests /\ tc'.inProgress = tc.inProgress - 1
      /\ tc' \in Collection((SUBSET Name) \ {{}})
      /\ tc.inProgress \in Int /\ Len(tc.tests) \in Nat
  <2>1. /\ tc.tests \in Seq((SUBSET Name) \ {{}}) /\ tc.inProgress \in Int
        /\ Len(tc.tests) \in Nat /\ tc.signalled \in BOOLEAN
    BY LenProperties DEF IInv, TypeOK, Collection
  <2>2. (tc.signalled \/ tc.inProgress = 1) \in BOOLEAN
    OBVIOUS
  <2> QED BY <2>1, <2>2 DEF RunTest, TestCompleted, Collection
<1>8. ran' \in [Name -> Nat] /\ \A n \in Name : ran'[n] = ran[n] + IF n \in h THEN 1 ELSE 0
  BY DEF IInv, TypeOK, RunTest
<1>9. TypeOK'
  <2>1. phase' \in [Device -> Phase] /\ held' \in [Device -> SUBSET Name]
    BY DEF IInv, TypeOK, RunTest, Phase
  <2>2. \A e \in Device : held'[e] # {} <=> e \in Busy'
    BY <1>6 DEF IInv, TypeOK
  <2> QED BY <1>1, <1>4, <1>7, <1>8, <1>latest, <2>1, <2>2 DEF IInv, TypeOK
<1>10. /\ \A i \in 1..Len(tc.tests) : h \cap tc.tests[i] = {}
       /\ \A e \in Device : e # d => h \cap held[e] = {}
  BY <1>1 DEF IInv, ShardsDisjoint
<1>11. Pending' = Pending \ h /\ h \subseteq Pending
  <2> DEFINE queued == UNION Listed(tc.tests)
             old == UNION {held[e] : e \in Device}
  <2>1. h \cap queued = {} /\ h \subseteq old
    BY <1>10 DEF Listed
  <2>2. UNION {held'[e] : e \in Device} = old \ h
    BY <1>6, <1>10
  <2>3. Pending' = queued \cup (old \ h)
    BY <1>7, <2>2 DEF Pending
  <2>4. Pending = queued \cup old
    BY DEF Pending
  <2> HIDE DEF queued, old, h
  <2> QED BY <2>1, <2>3, <2>4
<1>12. ShardsDisjoint'
  <2>1. PassedNames' = PassedNames
    BY <1>1 DEF PassedNames
  <2>2. /\ \A e \in Device : \A i \in 1..Len(tc.tests) : held'[e] \cap tc.tests[i] = {}
        /\ \A e, f \in Device : e # f => held'[e] \cap held'[f] = {}
    BY <1>1, <1>6 DEF IInv, ShardsDisjoint
  <2> QED BY <1>1, <1>7, <2>1, <2>2 DEF IInv, ShardsDisjoint
<1>13. JoinInv'
  <2>1. /\ Cardinality(Busy') = Cardinality(Busy) - 1
        /\ Cardinality(Busy) \in Nat /\ Cardinality(Busy) # 0
    BY <1>6, BusyFinite, FS_RemoveElement, FS_EmptySet
  <2>2. tc.inProgress = Len(tc.tests) + Cardinality(Busy)
    BY <1>1 DEF IInv, JoinInv
  <2>3. tc'.inProgress = Len(tc'.tests) + Cardinality(Busy') /\ tc.inProgress # 0
    BY <1>7, <2>1, <2>2
  <2>4. \A e \in Device : phase'[e] # "left" /\ phase'[e] # "idle"
    BY <1>1, <1>6, <2>3 DEF IInv, JoinInv
  <2> QED BY <1>1, <2>3, <2>4 DEF IInv, JoinInv
<1>14. FoundInv'
  <2> DEFINE old == UNION {found[e] : e \in Device}
  <2>1. /\ Pending \subseteq Listed(tests) /\ OneEach(old)
        /\ \A r \in old : r.name \in Listed(tests) \ Pending
    BY <1>1 DEF IInv, FoundInv
  <2>2. UNION {found'[e] : e \in Device} = old \cup new
    BY <1>4
  <2>3. \A r \in old : r.name \notin h
    BY <1>11, <2>1
  <2>4. OneEach(old \cup new)
    BY <1>5, <2>1, <2>3 DEF OneEach
  <2>5. \A r \in old \cup new : r.name \in Listed(tests) \ (Pending \ h)
    BY <1>5, <1>11, <2>1
  <2> HIDE DEF old
  <2>6. \A e \in Device : \A r \in found'[e] : r \in old \cup new
    BY <2>2
  <2> QED BY <1>1, <1>11, <2>1, <2>2, <2>4, <2>5, <2>6 DEF FoundInv
<1>15. RunsInv' /\ RunsBounded'
  <2>1. /\ tries \in Nat /\ MaxTries \in Nat /\ tries < MaxTries
        /\ Pending \subseteq Listed(tests)
        /\ \A n \in Name :
             /\ ran[n] \in Nat /\ ran[n] <= tries + 1
             /\ n \in Listed(tests) => ran[n] = IF n \in Pending THEN tries ELSE tries + 1
    BY <1>1, RunAssumption DEF IInv, TypeOK, JoinInv, FoundInv, RunsInv
  <2>2. \A n \in Name :
          /\ ran'[n] <= tries + 1
          /\ n \in Listed(tests) =>
               ran'[n] = IF n \in Pending \ h THEN tries ELSE tries + 1
    BY <1>8, <1>11, <2>1
  <2>3. \A n \in Name : ran'[n] <= MaxTries
    BY <1>8, <2>1, <2>2
  <2>4. outcome' # "returned"
    BY <1>1, RunAssumption DEF IInv, ResultsInv
  <2> QED BY <1>1, <1>11, <2>2, <2>3, <2>4 DEF RunsInv, RunsBounded
<1>16. LastInv'
  <2> DEFINE old == UNION {found[e] : e \in Device}
             all == UNION {found'[e] : e \in Device}
  <2>1. /\ \A r \in results : last[r.name] = r.type
        /\ \A r \in old : last[r.name] = r.type
        /\ \A n \in Listed(tests) \ {r.name : r \in old} : last[n] = failures[n]
    BY <1>1 DEF IInv, LastInv
  <2>2. /\ Pending \subseteq Listed(tests)
        /\ \A r \in old : r.name \in Listed(tests) \ Pending
        /\ Listed(tests) = Name \ {r.name : r \in results}
    BY <1>1 DEF IInv, FoundInv, ResultsInv
  <2>3. all = old \cup new
    BY <1>4
  <2>4. \A r \in results : r.name \in Name
    BY DEF IInv, TypeOK, Result
  <2> HIDE DEF old, all
  <2>5. \A r \in results \cup old : r.name \in Name /\ \A q \in new : q.name # r.name
    BY <1>5, <1>11, <2>2, <2>4
  <2>6. \A r \in results \cup old : last'[r.name] = r.type
    <3> TAKE r \in results \cup old
    <3>1. last'[r.name] = last[r.name]
      BY <1>latest, <2>5
    <3> QED BY <2>1, <3>1
  <2>7. \A n \in Listed(tests) \ {r.name : r \in all} : last'[n] = failures[n]
    <3> TAKE n \in Listed(tests) \ {r.name : r \in all}
    <3>1. n \in Name /\ n \notin {r.name : r \in old} /\ \A r \in new : r.name # n
      BY <2>2, <2>3
    <3>2. last'[n] = last[n]
      BY <1>latest, <3>1
    <3> QED BY <2>1, <3>1, <3>2
  <2> QED BY <1>1, <1>latest, <2>3, <2>6, <2>7 DEF LastInv, all
<1> QED BY <1>1, <1>9, <1>12, <1>13, <1>14, <1>15, <1>16 DEF IInv

\* Every step of a thread keeps the invariant.
LEMMA DeviceStepKeeps ==
  ASSUME IInv, NEW d \in Device, DeviceStep(d)
  PROVE  IInv'
BY WakeKeeps, PopTestKeeps, PopNothingKeeps, RunTestKeeps, RunTestRaisesKeeps
   DEF DeviceStep
-----------------------------------------------------------------------------
(* The steps of RunTests.                                                  *)

\* A try starts with every test that has not passed in one shard.
LEMMA StartTryKeeps ==
  ASSUME IInv, StartTry
  PROVE  IInv'
<1> DEFINE c == CreateShards(tests)
<1>1. /\ main = "try" /\ main' = "join" /\ tries < MaxTries /\ tests # <<>>
      /\ UNCHANGED <<kind, tries, tests, results, failures, outcome, held, ran, last>>
      /\ tc' = NewCollection(c)
      /\ phase' = [d \in Device |-> "waiting"] /\ found' = [d \in Device |-> {}]
  BY DEF StartTry
<1>2. /\ c \in Seq((SUBSET Name) \ {{}}) /\ c # <<>> /\ Len(c) \in Nat
      /\ \A i, j \in 1..Len(c) : i # j => c[i] \cap c[j] = {}
      /\ UNION Listed(c) = Listed(tests)
  <2>1. tests \in Seq(Name) /\ Distinct(tests)
    BY <1>1 DEF IInv, TypeOK, ResultsInv
  <2> QED BY <1>1, <2>1, ShardFacts, LenProperties
<1> HIDE DEF c
<1>3. /\ tc'.tests = c /\ tc'.inProgress = Len(c)
      /\ tc' \in Collection((SUBSET Name) \ {{}})
  <2>1. (c # <<>>) \in BOOLEAN /\ Len(c) \in Int
    BY <1>2
  <2> QED BY <1>1, <1>2, <2>1 DEF NewCollection, Collection
<1>4. \A d \in Device : held'[d] = {} /\ phase'[d] = "waiting" /\ found'[d] = {}
  BY <1>1, NothingHeld DEF IInv
<1>5. Busy' = {}
  BY <1>4 DEF Busy
<1>6. TypeOK'
  BY <1>1, <1>3, <1>4, <1>5 DEF IInv, TypeOK, Phase
<1>7. Pending' = Listed(tests)
  <2>1. UNION {held'[d] : d \in Device} = {}
    BY <1>4
  <2> QED BY <1>2, <1>3, <2>1 DEF Pending
<1>8. PassedNames' = PassedNames /\ Listed(tests) \cap PassedNames = {}
  BY <1>1 DEF IInv, ResultsInv, PassedNames
<1>9. ShardsDisjoint'
  <2>1. \A i \in 1..Len(c) : c[i] \subseteq Listed(tests)
    BY <1>2 DEF Listed
  <2> QED BY <1>2, <1>3, <1>4, <1>8, <2>1 DEF ShardsDisjoint
<1>10. JoinInv'
  BY <1>1, <1>2, <1>3, <1>4, <1>5, FS_EmptySet DEF JoinInv
<1>11. FoundInv'
  <2>1. UNION {found'[d] : d \in Device} = {}
    BY <1>4
  <2> QED BY <1>1, <1>4, <1>7, <2>1 DEF FoundInv, OneEach
<1>12. RunsInv'
  <2>1. tries \in Nat /\ \A n \in Name : ran[n] \in Nat /\ ran[n] <= tries /\
          (n \in Listed(tests) => ran[n] = tries)
    BY <1>1 DEF IInv, TypeOK, RunsInv
  <2> QED BY <1>1, <1>7, <2>1 DEF RunsInv
<1>13. NoneAlive' /\ ResultsInv' /\ OneVerdictPerTest' /\ RunsBounded'
  BY <1>1, <1>8 DEF IInv, NoneAlive, ResultsInv, OneVerdictPerTest, RunsBounded
<1>14. LastInv'
  <2>1. UNION {found'[d] : d \in Device} = {}
    BY <1>4
  <2>2. /\ \A r \in results : last[r.name] = r.type
        /\ \A n \in Listed(tests) : last[n] = failures[n]
    BY <1>1 DEF IInv, LastInv
  <2> QED BY <1>1, <2>1, <2>2 DEF LastInv
<1> QED BY <1>6, <1>9, <1>10, <1>11, <1>12, <1>13, <1>14 DEF IInv

\* What a try found is merged into what the earlier ones left: the one result of
\* a test that is no pass, and nothing of a test without one.
LEMMA FailuresMerged ==
  ASSUME TypeOK, FinishTry, OneEach(UNION {found[d] : d \in Device})
  PROVE  LET try == UNION {found[d] : d \in Device}
             bad == {r \in try : r.type \notin Passing}
         IN  /\ failures' \in [Name -> Failing \cup {None}]
             /\ \A r \in bad : failures'[r.name] = r.type
             /\ \A n \in Name \ {r.name : r \in bad} : failures'[n] = failures[n]
<1> DEFINE try  == UNION {found[d] : d \in Device}
           good == {r \in try : r.type \in Passing}
           bad  == try \ good
           latest == [n \in {r.name : r \in bad} |-> (CHOOSE r \in bad : r.name = n).type]
<1>0. bad = {r \in try : r.type \notin Passing}
  OBVIOUS
<1>1. failures' = Merge(failures, latest)
  BY DEF FinishTry
<1>2. \A r \in bad : r.type \in Failing /\ r.name \in Name
  BY DEF TypeOK, Result
<1>3. \A r \in bad : r.name \in DOMAIN latest /\ latest[r.name] = r.type
  <2> TAKE r \in bad
  <2>1. (CHOOSE q \in bad : q.name = r.name) \in bad
        /\ (CHOOSE q \in bad : q.name = r.name).name = r.name
    OBVIOUS
  <2>2. (CHOOSE q \in bad : q.name = r.name) = r
    <3> HIDE DEF bad
    <3>1. bad \subseteq try
      BY DEF bad
    <3> QED BY <2>1, <3>1 DEF OneEach
  <2> QED BY <2>2
<1>4. DOMAIN latest = {r.name : r \in bad}
  OBVIOUS
<1> HIDE DEF latest, bad
<1>5. \A n \in Name : failures'[n] = IF n \in DOMAIN latest THEN latest[n] ELSE failures[n]
  BY <1>1 DEF Merge
<1>6. \A n \in DOMAIN latest : latest[n] \in Failing
  BY <1>2, <1>3, <1>4
<1>7. failures' \in [Name -> Failing \cup {None}]
  BY <1>1, <1>6 DEF Merge, TypeOK
<1> QED BY <1>0, <1>2, <1>3, <1>4, <1>5, <1>7

\* When the threads have left, every test of the try was run, its passes are
\* new, and what is left to try are the tests without one.
LEMMA FinishTryKeeps ==
  ASSUME IInv, FinishTry
  PROVE  IInv'
<1> DEFINE try  == UNION {found[d] : d \in Device}
           good == {r \in try : r.type \in Passing}
<1>1. /\ main = "join" /\ main' = "try" /\ tries' = tries + 1
      /\ \A d \in Device : phase[d] = "left"
      /\ results' = results \cup good
      /\ tests' = Unpassed(tests, {r.name : r \in results'})
      /\ UNCHANGED <<kind, outcome, tc, phase, held, found, ran, last>>
  BY DEF FinishTry
<1>2. Pending = {}
  <2>1. \E d \in Device : phase[d] = "left"
    BY <1>1, RunAssumption
  <2>2. tc.inProgress = 0
    BY <1>1, <2>1 DEF IInv, JoinInv
  <2> QED BY <1>1, <2>2, Drained DEF IInv
<1>3. /\ Distinct(tests) /\ tests \in Seq(Name) /\ OneEach(results)
      /\ \A r \in results : r.type \in Passing
      /\ Listed(tests) = Name \ {r.name : r \in results}
      /\ outcome = None
  BY <1>1 DEF IInv, TypeOK, ResultsInv
<1>4. OneEach(try) /\ \A r \in try : r.name \in Listed(tests)
  BY <1>1 DEF IInv, FoundInv
<1>5. results' \subseteq Result(Passing \cup Failing)
  BY <1>1 DEF IInv, TypeOK
<1>merged.
       /\ failures' \in [Name -> Failing \cup {None}]
       /\ \A r \in try \ good : failures'[r.name] = r.type
       /\ \A n \in Name \ {r.name : r \in try \ good} : failures'[n] = failures[n]
  <2>1. {r \in try : r.type \notin Passing} = try \ good
    OBVIOUS
  <2> HIDE DEF good
  <2> QED BY <1>4, <2>1, FailuresMerged DEF IInv
<1> HIDE DEF try
<1>6. /\ tests' \in Seq(Name) /\ Distinct(tests)'
      /\ Listed(tests') = Listed(tests) \ {r.name : r \in results'}
  <2>1. /\ Distinct(Unpassed(tests, {r.name : r \in results'}))
        /\ Unpassed(tests, {r.name : r \in results'}) \in Seq(Name)
        /\ Listed(Unpassed(tests, {r.name : r \in results'}))
             = Listed(tests) \ {r.name : r \in results'}
    BY <1>3, UnpassedFacts
  <2> QED BY <1>1, <2>1 DEF Distinct
<1>7. TypeOK'
  <2>1. tries' \in 0..MaxTries
    BY <1>1, RunAssumption DEF IInv, TypeOK, JoinInv
  <2>2. Busy' = Busy
    BY <1>1 DEF Busy
  <2> QED BY <1>1, <1>5, <1>6, <1>merged, <2>1, <2>2 DEF IInv, TypeOK
<1>8. ResultsInv'
  <2>1. OneEach(results') /\ \A r \in results' : r.type \in Passing
    BY <1>1, <1>3, <1>4 DEF OneEach
  <2>2. Listed(tests') = Name \ {r.name : r \in results'}
    BY <1>1, <1>3, <1>6
  <2> QED BY <1>1, <1>3, <1>6, <2>1, <2>2 DEF ResultsInv
<1>9. RunsInv'
  <2>1. tries \in Nat /\ \A n \in Name : ran[n] \in Nat /\ ran[n] <= tries + 1 /\
          (n \in Listed(tests) => ran[n] = tries + 1)
    BY <1>1, <1>2 DEF IInv, TypeOK, RunsInv
  <2> QED BY <1>1, <1>6, <2>1 DEF RunsInv
<1>10. NoneAlive' /\ ShardsDisjoint' /\ JoinInv' /\ FoundInv'
  BY <1>1 DEF NoneAlive, ShardsDisjoint, JoinInv, FoundInv
<1>11. OneVerdictPerTest' /\ RunsBounded'
  BY <1>1, <1>3, RunAssumption DEF IInv, OneVerdictPerTest, RunsBounded
<1>12. LastInv'
  <2>1. /\ \A r \in results : last[r.name] = r.type
        /\ \A r \in try : last[r.name] = r.type
        /\ \A n \in Listed(tests) \ {r.name : r \in try} : last[n] = failures[n]
    BY <1>1 DEF IInv, LastInv, try
  <2>2. \A n \in Listed(tests') : last[n] = failures'[n]
    <3> TAKE n \in Listed(tests')
    <3>1. n \in Listed(tests) /\ n \in Name /\ \A r \in good : r.name # n
      BY <1>1, <1>3, <1>6
    <3>2. CASE \E r \in try : r.name = n
      BY <1>merged, <2>1, <3>1, <3>2
    <3>3. CASE \A r \in try : r.name # n
      <4>1. n \notin {r.name : r \in try} /\ n \notin {r.name : r \in try \ good}
        BY <3>3
      <4>2. failures'[n] = failures[n]
        BY <1>merged, <3>1, <4>1
      <4> QED BY <2>1, <3>1, <4>1, <4>2
    <3> QED BY <3>2, <3>3
  <2> QED BY <1>1, <2>1, <2>2 DEF LastInv
<1> QED BY <1>7, <1>8, <1>9, <1>10, <1>11, <1>12 DEF IInv

LEMMA TryRaisesKeeps ==
  ASSUME IInv, TryRaises
  PROVE  IInv'
<1>1. /\ main = "join" /\ main' = "end" /\ outcome' = "raised"
      /\ \A d \in Device : phase[d] \in {"left", "dead"}
      /\ UNCHANGED <<kind, tries, tests, results, failures, tc, phase, held, found, ran,
                     last>>
  BY DEF TryRaises
<1>2. Busy' = Busy
  BY <1>1 DEF Busy
<1>3. TypeOK'
  BY <1>1, <1>2 DEF IInv, TypeOK
<1>4. /\ NoneAlive' /\ ShardsDisjoint' /\ ResultsInv' /\ JoinInv' /\ FoundInv'
      /\ RunsInv' /\ LastInv' /\ OneVerdictPerTest'
  BY <1>1 DEF NoneAlive, ShardsDisjoint, ResultsInv, JoinInv, FoundInv, RunsInv,
              LastInv, OneVerdictPerTest
<1>5. RunsBounded'
  BY <1>1 DEF IInv, RunsBounded
<1> QED BY <1>3, <1>4, <1>5 DEF IInv

\* Each test that never passed gets its one result at the end.
LEMMA ReturnKeeps ==
  ASSUME IInv, Return
  PROVE  IInv'
<1> DEFINE rest == Remaining(Listed(tests))
           type(n) == IF failures[n] = None THEN "UNKNOWN" ELSE failures[n]
<1>1. /\ main = "try" /\ main' = "end" /\ outcome' = "returned"
      /\ tries = MaxTries \/ tests = <<>>
      /\ results' = results \cup rest
      /\ UNCHANGED <<kind, tries, tests, failures, tc, phase, held, found, ran, last>>
  BY DEF Return
<1>2. /\ OneEach(results) /\ \A r \in results : r.type \in Passing
      /\ Listed(tests) = Name \ {r.name : r \in results}
  BY <1>1 DEF IInv, ResultsInv
<1>3. /\ \A r \in rest : r.name \in Listed(tests) /\ r.type = type(r.name)
      /\ \A n \in Listed(tests) : \E r \in rest : r.name = n
      /\ OneEach(rest)
  <2>1. rest = {[name |-> n, type |-> type(n)] : n \in Listed(tests)}
    BY DEF Remaining
  <2>2. ASSUME NEW r \in rest
        PROVE  r.name \in Listed(tests) /\ r = [name |-> r.name, type |-> type(r.name)]
    BY <2>1
  <2>3. \A n \in Listed(tests) : [name |-> n, type |-> type(n)] \in rest
    BY <2>1
  <2> HIDE DEF rest, type
  <2>4. OneEach(rest)
    BY <2>2 DEF OneEach
  <2>5. \A r \in rest : r.type = type(r.name)
    BY <2>2
  <2> QED BY <2>2, <2>3, <2>4, <2>5
<1>4. \A n \in Name : type(n) \in Failing
  BY DEF IInv, TypeOK, Failing
<1>5. rest \subseteq Result(Passing \cup Failing)
  <2>1. rest = {[name |-> n, type |-> type(n)] : n \in Listed(tests)}
    BY DEF Remaining
  <2>2. Listed(tests) \subseteq Name
    BY <1>2
  <2> QED BY <1>4, <2>1, <2>2 DEF Result
<1>6. TypeOK'
  <2>1. Busy' = Busy
    BY <1>1 DEF Busy
  <2> HIDE DEF rest
  <2> QED BY <1>1, <1>5, <2>1 DEF IInv, TypeOK
<1> HIDE DEF rest
<1>7. /\ NoneAlive' /\ ShardsDisjoint' /\ ResultsInv' /\ JoinInv' /\ FoundInv' /\ RunsInv'
      /\ LastInv'
  BY <1>1, NothingHeld
  DEF IInv, NoneAlive, ShardsDisjoint, ResultsInv, JoinInv, FoundInv, RunsInv, LastInv
<1>8. OneVerdictPerTest'
  <2> DEFINE verdict(n) == IF last[n] = None THEN "UNKNOWN" ELSE last[n]
  <2>0. \A r \in results : r.name \in Name /\ r = [name |-> r.name, type |-> r.type]
    BY DEF IInv, TypeOK, Result
  <2>1. /\ \A r \in results : last[r.name] = r.type
        /\ \A n \in Listed(tests) : last[n] = failures[n]
    BY <1>1 DEF IInv, LastInv
  <2>2. OneEach(results')
    BY <1>1, <1>2, <1>3 DEF OneEach
  <2>3. \A r \in results' : r = [name |-> r.name, type |-> verdict(r.name)]
    <3>1. \A r \in results : r.type = verdict(r.name)
      BY <1>2, <2>1, RunAssumption
    <3>2. \A r \in rest : r.type = verdict(r.name)
      BY <1>3, <2>1
    <3>3. \A r \in rest : r = [name |-> r.name, type |-> r.type]
      BY <1>5 DEF Result
    <3> HIDE DEF verdict
    <3> QED BY <1>1, <2>0, <3>1, <3>2, <3>3
  <2>4. \A n \in Name : \E r \in results' : r.name = n
    BY <1>1, <1>2, <1>3
  <2>5. ASSUME NEW n \in Name
        PROVE  {r \in results' : r.name = n} = {[name |-> n, type |-> verdict(n)]}
    <3> HIDE DEF verdict
    <3>1. PICK r \in results' : r.name = n
      BY <2>4
    <3>2. r = [name |-> n, type |-> verdict(n)]
      BY <2>3, <3>1
    <3> QED BY <2>2, <3>1, <3>2 DEF OneEach
  <2> QED BY <1>1, <2>5 DEF OneVerdictPerTest
<1>9. RunsBounded'
  <2>1. \A r \in rest : r.type \notin Passing
    BY <1>2, <1>3, <1>4 DEF Passing, Failing
  <2>2. PassedNames' = {r.name : r \in results}
    BY <1>1, <1>2, <2>1 DEF PassedNames
  <2>3. tests = <<>> => Listed(tests) = {}
    BY DEF Listed
  <2>4. \A n \in Listed(tests) : ran[n] = MaxTries
    BY <1>1, <1>2, <2>3 DEF IInv, RunsInv
  <2> QED BY <1>1, <1>2, <2>2, <2>4 DEF IInv, RunsBounded
<1> QED BY <1>6, <1>7, <1>8, <1>9 DEF IInv
-----------------------------------------------------------------------------
\* Every step keeps the invariant.
LEMMA Step ==
  ASSUME IInv, [Next]_vars
  PROVE  IInv'
<1>1. CASE StartTry
  BY <1>1, StartTryKeeps
<1>2. CASE FinishTry
  BY <1>2, FinishTryKeeps
<1>3. CASE TryRaises
  BY <1>3, TryRaisesKeeps
<1>4. CASE Return
  BY <1>4, ReturnKeeps
<1>5. CASE \E d \in Device : DeviceStep(d)
  BY <1>5, DeviceStepKeeps
<1>6. CASE UNCHANGED vars
  <2>1. Busy' = Busy /\ Pending' = Pending /\ PassedNames' = PassedNames
    BY <1>6 DEF vars, Busy, Pending, PassedNames
  <2>2. TypeOK' /\ NoneAlive' /\ ShardsDisjoint'
    BY <1>6, <2>1 DEF vars, IInv, TypeOK, NoneAlive, ShardsDisjoint
  <2>3. ResultsInv' /\ JoinInv' /\ FoundInv' /\ RunsInv'
    BY <1>6, <2>1 DEF vars, IInv, ResultsInv, JoinInv, FoundInv, RunsInv
  <2>4. LastInv' /\ OneVerdictPerTest' /\ RunsBounded'
    BY <1>6, <2>1 DEF vars, IInv, LastInv, OneVerdictPerTest, RunsBounded
  <2> QED BY <2>2, <2>3, <2>4 DEF IInv
<1> QED BY <1>1, <1>2, <1>3, <1>4, <1>5, <1>6 DEF Next, MainStep, Ended

\* The inductive invariant holds in every state, whatever is sharded, however
\* the threads are interleaved and whatever their calls report.
THEOREM InductiveInvariant == Spec => []IInv
<1>1. IInv /\ [Next]_vars => IInv'
  BY Step
<1> QED BY Initially, <1>1, PTL DEF Spec

\* The records of RunTests, the collection and the threads keep their types,
\* and a thread holds a shard exactly while it runs it or after it died of it.
THEOREM TypeCorrect == Spec => []TypeOK
<1>1. IInv => TypeOK
  BY DEF IInv
<1> QED BY <1>1, InductiveInvariant, PTL

\* No test is in two shards, queued or run, of a try, and none that has passed
\* is sharded again.
THEOREM ShardsNeverMeet == Spec => []ShardsDisjoint
<1>1. IInv => ShardsDisjoint
  BY DEF IInv
<1> QED BY <1>1, InductiveInvariant, PTL

\* RunTests returns exactly one result for each test: a pass if one was reported,
\* else what was reported last, and UNKNOWN for a test that no output had.
THEOREM OneVerdict == Spec => []OneVerdictPerTest
<1>1. IInv => OneVerdictPerTest
  BY DEF IInv
<1> QED BY <1>1, InductiveInvariant, PTL

\* A test is run at most max_tries times, and exactly as often when RunTests
\* returns without a pass of it.
THEOREM RunsAreBounded == Spec => []RunsBounded
<1>1. IInv => RunsBounded
  BY DEF IInv
<1> QED BY <1>1, InductiveInvariant, PTL

\* RunTests starts a try, returns or raises only when no thread of an earlier
\* try is alive: a late result can never be mixed with those of another try.
THEOREM ThreadsJoined == Spec => []NoneAlive
<1>1. IInv => NoneAlive
  BY DEF IInv
<1> QED BY <1>1, InductiveInvariant, PTL

(* The ledger.                                                             *)

LEMMA CollectedInductive == IInv /\ CollectedInv /\ [Next]_vars => CollectedInv'
<1> SUFFICES ASSUME IInv, CollectedInv, [Next]_vars PROVE CollectedInv'
  OBVIOUS
<1>1. CASE StartTry
  BY <1>1 DEF StartTry, CollectedInv
<1>2. CASE FinishTry
  BY <1>2 DEF FinishTry, CollectedInv
<1>3. CASE TryRaises \/ Return
  BY <1>3 DEF TryRaises, Return, CollectedInv
<1>4. CASE \E d \in Device : DeviceStep(d)
  BY <1>4, DeviceStepLeaves DEF CollectedInv
<1>5. CASE UNCHANGED vars
  BY <1>5 DEF vars, CollectedInv
<1> QED BY <1>1, <1>2, <1>3, <1>4, <1>5 DEF Next, MainStep, Ended

\* Entries of more results.
LEMMA EntriesGrow ==
  ASSUME NEW S, NEW N
  PROVE  Entries(S \cup N) = Entries(S) \cup Entries(N)
BY DEF Entries

\* The keys that are settled are the names of the passes a thread has found.
LEMMA SettledKeys == \A k : k \in Ledger!Settled <=> \E r \in PassesFound : k = r.name
<1>1. \A r \in PassesFound : [key |-> r.name, type |-> r.type] \in Entries(PassesFound)
  BY DEF Entries
<1>2. \A s \in Entries(PassesFound) : \E r \in PassesFound : s.key = r.name
  BY DEF Entries
<1>3. ASSUME NEW r \in PassesFound PROVE \E s \in Entries(PassesFound) : s.key = r.name
  <2>1. [key |-> r.name, type |-> r.type].key = r.name
    OBVIOUS
  <2> QED BY <1>1, <2>1
<1> HIDE DEF Entries
<1> QED BY <1>2, <1>3 DEF Ledger!Settled

\* RunTest runs the shard a thread holds: none of its tests has passed or was
\* run in this try, and those that pass are settled by it.
LEMMA RunTestIsRun ==
  ASSUME IInv, NEW d \in Device, DeviceStep(d), RunTest(d)
  PROVE  Ledger!Next
<1>1. /\ main = "join" /\ outcome' = outcome /\ results' = results /\ outcome = None
      /\ tries < MaxTries /\ tries \in Nat
  <2>1. main = "join" /\ outcome' = outcome /\ results' = results
    BY DeviceStepLeaves
  <2>2. tries \in 0..MaxTries
    BY DEF IInv, TypeOK
  <2>3. tries < MaxTries
    BY <2>1 DEF IInv, JoinInv
  <2>4. outcome = None
    BY <2>1 DEF IInv, ResultsInv
  <2> QED BY <2>1, <2>2, <2>3, <2>4, RunAssumption
<1>2. outcome # "returned"
  BY <1>1, RunAssumption
<1>3. PICK reported \in SUBSET held[d] :
        \E type \in [reported -> Types] :
          found' = [found EXCEPT ![d] =
                      @ \cup {[name |-> n, type |-> type[n]] : n \in reported}]
  BY DEF RunTest
<1>4. PICK type \in [reported -> Types] :
        found' = [found EXCEPT ![d] =
                    @ \cup {[name |-> n, type |-> type[n]] : n \in reported}]
  BY <1>3
<1> DEFINE N == {[name |-> n, type |-> type[n]] : n \in reported}
           done == {n \in reported : type[n] \in Passing}
           typed == [n \in done |-> type[n]]
           passes == {r \in N : r.type \in Passing}
<1>5. PassesFound' = PassesFound \cup passes
  <2>1. found' = [found EXCEPT ![d] = found[d] \cup N] /\ DOMAIN found = Device
    BY <1>4 DEF IInv, TypeOK
  <2> HIDE DEF N
  <2>2. found'[d] = found[d] \cup N /\ \A e \in Device \ {d} : found'[e] = found[e]
    BY <2>1
  <2>3. UNION {found'[e] : e \in Device} = (UNION {found[e] : e \in Device}) \cup N
    BY <2>2
  <2> QED BY <1>1, <2>3 DEF PassesFound
<1>6. Entries(passes) = {[key |-> n, type |-> typed[n]] : n \in done}
  <2>1. \A n \in done : [name |-> n, type |-> type[n]] \in passes /\ typed[n] = type[n]
    OBVIOUS
  <2>2. \A r \in passes : \E n \in done : r.name = n /\ r.type = typed[n]
    OBVIOUS
  <2> HIDE DEF N, done, typed, passes
  <2>3. ASSUME NEW e PROVE e \in Entries(passes) <=>
                            \E n \in done : e = [key |-> n, type |-> typed[n]]
    <3>1. ASSUME NEW r \in passes, e = [key |-> r.name, type |-> r.type]
          PROVE  \E n \in done : e = [key |-> n, type |-> typed[n]]
      BY <2>2, <3>1
    <3>2. ASSUME NEW n \in done, e = [key |-> n, type |-> typed[n]]
          PROVE  \E r \in passes : e = [key |-> r.name, type |-> r.type]
      <4> DEFINE r == [name |-> n, type |-> type[n]]
      <4>1. r \in passes /\ r.name = n /\ r.type = typed[n]
        BY <2>1
      <4> HIDE DEF r
      <4> QED BY <3>2, <4>1
    <3> QED BY <3>1, <3>2 DEF Entries
  <2> QED BY <2>3
<1>7. done \in SUBSET held[d] /\ typed \in [done -> Passing]
  BY <1>3
<1>8. Entries(PassesFound)' = Entries(PassesFound) \cup
         {[key |-> n, type |-> typed[n]] : n \in done}
  <2>1. Entries(PassesFound)' = Entries(PassesFound')
    BY DEF Entries
  <2> HIDE DEF passes, done, typed
  <2> QED BY <1>5, <1>6, <2>1, EntriesGrow
<1> HIDE DEF N, done, typed, passes
<1>9. held[d] \in SUBSET Name /\ held[d] \subseteq Pending
  BY DEF IInv, TypeOK, Pending
<1>10. \A k \in held[d] : k \notin Ledger!Settled /\ ran[k] < MaxTries
  <2> TAKE k \in held[d]
  <2>1. k \in Name /\ k \in Pending /\ k \in Listed(tests)
    BY <1>1, <1>9 DEF IInv, FoundInv
  <2>2. ran[k] < MaxTries
    BY <1>1, <2>1 DEF IInv, RunsInv
  <2>3. ASSUME NEW r \in results PROVE k # r.name
    BY <1>1, <2>1 DEF IInv, ResultsInv
  <2>4. ASSUME NEW e \in Device, NEW r \in found[e] PROVE k # r.name
    BY <1>1, <2>1 DEF IInv, FoundInv
  <2> QED BY <2>2, <2>3, <2>4, SettledKeys DEF PassesFound
<1>11. ran' = [k \in Name |-> IF k \in held[d] THEN ran[k] + 1 ELSE ran[k]]
  <2>1. \A k \in Name : ran[k] + 0 = ran[k]
    BY DEF IInv, TypeOK
  <2>2. ran' = [k \in Name |-> ran[k] + (IF k \in held[d] THEN 1 ELSE 0)]
    BY DEF RunTest
  <2> QED BY <2>1, <2>2
<1>12. Ledger!Run(held[d])
  BY <1>1, <1>2, <1>7, <1>8, <1>10, <1>11 DEF Ledger!Run
<1> QED BY <1>9, <1>12 DEF Ledger!Next

\* Return concludes: what is added for the tests that are left is no pass.
LEMMA ReturnIsConclude ==
  ASSUME IInv, CollectedInv, Return
  PROVE  Ledger!Next
<1>1. /\ main = "try" /\ outcome = None /\ outcome' = "returned" /\ found' = found
      /\ ran' = ran /\ results' = results \cup Remaining(Listed(tests))
  BY DEF Return, IInv, ResultsInv
<1>2. outcome # "returned"
  BY <1>1, RunAssumption
<1>3. \A r \in Remaining(Listed(tests)) : r.type \notin Passing
  <2>1. \A n \in Listed(tests) : n \in Name
    <3>1. Listed(tests) \subseteq Name
      BY <1>1 DEF IInv, ResultsInv
    <3> QED BY <3>1
  <2>2. \A n \in Listed(tests) : failures[n] \in Failing \cup {None}
    BY <2>1 DEF IInv, TypeOK
  <2> QED BY <2>2 DEF Remaining, Failing, Passing
<1>4. PassesFound' = PassesFound
  BY <1>1, <1>3 DEF PassesFound
<1>5. {q \in results' : q.type \in Passing} = PassesFound
  BY <1>1, <1>3 DEF PassesFound, CollectedInv
<1>6. PassedNames' = {r.name : r \in PassesFound}
  BY <1>5 DEF PassedNames
<1>7. {s.key : s \in {t \in Entries(PassesFound) : t.type \in Passing}}
         = {r.name : r \in PassesFound}
  <2>1. \A r \in PassesFound : /\ r.type \in Passing
                               /\ [key |-> r.name, type |-> r.type] \in Entries(PassesFound)
    BY DEF PassesFound, Entries
  <2>2. \A s \in Entries(PassesFound) : \E r \in PassesFound : s.key = r.name
    BY DEF Entries
  <2>3. ASSUME NEW r \in PassesFound
        PROVE  \E s \in Entries(PassesFound) : s.key = r.name /\ s.type \in Passing
    <3> DEFINE s == [key |-> r.name, type |-> r.type]
    <3>1. s \in Entries(PassesFound) /\ s.key = r.name /\ s.type \in Passing
      BY <2>1
    <3> HIDE DEF s
    <3> QED BY <3>1
  <2> QED BY <2>2, <2>3
<1>8. Entries(PassesFound)' = Entries(PassesFound)
  BY <1>4 DEF Entries
<1>9. Ledger!Conclude
  BY <1>1, <1>2, <1>6, <1>7, <1>8 DEF Ledger!Conclude
<1> QED BY <1>9 DEF Ledger!Next

\* Every step runs tests that are open, concludes, or says nothing of a test.
LEMMA StepRefines ==
  ASSUME IInv, CollectedInv, [Next]_vars
  PROVE  Ledger!Next \/ UNCHANGED Ledger!vars
<1>1. ASSUME UNCHANGED ran, PassesFound' = PassesFound,
             \/ outcome # "returned" /\ outcome' # "returned"
             \/ outcome' = outcome /\ results' = results
      PROVE  UNCHANGED Ledger!vars
  <2>1. Entries(PassesFound)' = Entries(PassesFound)
    BY <1>1 DEF Entries
  <2> QED BY <1>1, <2>1 DEF Ledger!vars, PassedNames
<1>2. main \in {"try", "join"} => outcome # "returned"
  BY RunAssumption DEF IInv, ResultsInv
<1>3. CASE StartTry
  <2>1. PassesFound' = PassesFound
    BY <1>3 DEF StartTry, PassesFound, CollectedInv
  <2> QED BY <1>1, <1>3, <2>1 DEF StartTry
<1>4. CASE FinishTry
  <2>1. PassesFound' = PassesFound
    BY <1>4 DEF FinishTry, PassesFound
  <2> QED BY <1>1, <1>2, <1>4, <2>1 DEF FinishTry
<1>5. CASE TryRaises
  <2>1. PassesFound' = PassesFound
    BY <1>5 DEF TryRaises, PassesFound
  <2> QED BY <1>1, <1>2, <1>5, <2>1 DEF TryRaises
<1>6. CASE Return
  BY <1>6, ReturnIsConclude
<1>7. ASSUME NEW d \in Device, DeviceStep(d)
      PROVE  Ledger!Next \/ UNCHANGED Ledger!vars
  <2>1. CASE RunTest(d)
    BY <1>7, <2>1, RunTestIsRun
  <2>2. CASE ~RunTest(d)
    <3>1. found' = found /\ ran' = ran /\ results' = results /\ outcome' = outcome
      BY <1>7, <2>2 DEF DeviceStep, Wake, PopTest, PopNothing, RunTestRaises, mainVars
    <3>2. PassesFound' = PassesFound
      BY <3>1 DEF PassesFound
    <3> QED BY <1>1, <3>1, <3>2
  <2> QED BY <2>1, <2>2
<1>8. CASE UNCHANGED vars
  <2>1. PassesFound' = PassesFound
    BY <1>8 DEF vars, PassesFound
  <2> QED BY <1>1, <1>8, <2>1 DEF vars
<1> QED BY <1>3, <1>4, <1>5, <1>6, <1>7, <1>8 DEF Next, MainStep, Ended

\* RunTests keeps the ledger of its tests: however the tries shard them and the
\* threads draw the shards, each is run only while no pass of it was seen, not
\* more than max_tries times, and what is reported as passed is exactly what
\* passed in some try.
THEOREM RunTestsKeepsTheLedger == Spec => LedgerSpec
<1>1. Init => Ledger!Init /\ CollectedInv
  <2> SUFFICES ASSUME Init PROVE Ledger!Init /\ CollectedInv
    OBVIOUS
  <2>1. PassesFound = {} /\ outcome # "returned"
    BY RunAssumption DEF Init, PassesFound
  <2>2. Entries(PassesFound) = {}
    BY <2>1 DEF Entries
  <2> QED BY <2>1, <2>2 DEF Init, Ledger!Init, CollectedInv
<1>2. IInv /\ CollectedInv /\ [Next]_vars => [Ledger!Next]_(Ledger!vars)
  BY StepRefines
<1> QED BY <1>1, <1>2, InductiveInvariant, CollectedInductive, PTL
    DEF Spec, LedgerSpec, Ledger!Spec
=============================================================================
