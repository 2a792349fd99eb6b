---------------------------- MODULE ReaderProofs ----------------------------
(***************************************************************************)
(* Proofs about Reader, for any files of the format, rings and slices of   *)
(* any size: the client gets the data in order, io.EOF never comes early,  *)
(* and a file that fits in the ring is read without an error.              *)
(***************************************************************************)
EXTENDS Reader, StreamOpsProofs, FiniteSetTheorems, WellFoundedInduction
-----------------------------------------------------------------------------
(***************************************************************************)
(* The file.                                                               *)
(***************************************************************************)
\* Every nonempty set of numbers has a least one.
LEMMA LeastNat ==
    ASSUME NEW T \in SUBSET Nat, T # {}
    PROVE  \E n \in T : \A m \in T : ~(m < n)
  <1> DEFINE R == OpToRel(<, Nat)
  <1>1. \A m, n \in Nat : m < n <=> <<m, n>> \in R
    BY DEF OpToRel
  <1>2. IsWellFoundedOn(R, Nat)
    BY NatLessThanWellFounded
  <1> HIDE DEF R
  <1>3. PICK n \in T : \A m \in T : ~(<<m, n>> \in R)
    BY <1>2, WFMin
  <1> QED BY <1>1, <1>3

\* Units of one kind, which only unit e may end, go on until it comes.
LEMMA RunGoesOn ==
    ASSUME NEW f \in Seq(Int), NEW S, NEW e,
           \A i \in 1 .. Len(f) - 1 : f[i] \in S => f[i + 1] \in S \cup {e},
           NEW a \in 1 .. Len(f), NEW b \in 1 .. Len(f), f[a] \in S,
           \A i \in a + 1 .. b : f[i] # e
    PROVE  \A i \in a .. b : f[i] \in S
  <1> DEFINE T == {i \in Nat : a <= i /\ i <= b /\ f[i] \notin S}
  <1>0. Len(f) \in Nat
    BY LenProperties
  <1>1. ASSUME T # {} PROVE FALSE
    <2>1. PICK n \in T : \A m \in T : ~(m < n)
      BY <1>1, LeastNat
    <2>2. n \in Nat /\ a <= n /\ n <= b /\ f[n] \notin S
      BY <2>1
    <2>3. n # a
      BY <2>2
    <2>4. /\ n - 1 \in Nat /\ a <= n - 1 /\ n - 1 <= b /\ n - 1 < n
          /\ n - 1 \in 1 .. Len(f) - 1 /\ (n - 1) + 1 = n /\ n \in a + 1 .. b
      BY <1>0, <2>2, <2>3
    <2>5. f[n - 1] \in S
      BY <2>1, <2>4
    <2>6. f[(n - 1) + 1] \in S \cup {e}
      BY <2>4, <2>5
    <2>7. f[n] \in S \cup {e} /\ f[n] # e
      BY <2>4, <2>6
    <2> QED BY <2>2, <2>7
  <1>2. ASSUME NEW i \in a .. b PROVE f[i] \in S
    <2>1. i \in Nat /\ a <= i /\ i <= b
      BY <1>0
    <2> QED BY <1>1, <2>1
  <1> QED BY <1>2

\* The data units among the first n.
DataUnits(f, n) == {i \in 1 .. n : IsData(f[i])}

\* The data of the first n units.
DataTo(f, n) == [k \in 1 .. DataCount(f, n) |-> f[DataAt(f, k)]]

LEMMA CountFacts ==
    ASSUME NEW f \in Seq(Int), NEW n \in Nat
    PROVE  /\ DataUnits(f, n) \in SUBSET (1 .. n)
           /\ IsFiniteSet(DataUnits(f, n))
           /\ DataCount(f, n) = Cardinality(DataUnits(f, n))
           /\ DataCount(f, n) \in Nat
  <1>1. DataUnits(f, n) \in SUBSET (1 .. n)
    BY DEF DataUnits
  <1>2. IsFiniteSet(1 .. n)
    BY FS_Interval
  <1>3. IsFiniteSet(DataUnits(f, n))
    BY <1>1, <1>2, FS_Subset
  <1>4. DataCount(f, n) = Cardinality(DataUnits(f, n))
    BY DEF DataCount, DataUnits
  <1>5. Cardinality(DataUnits(f, n)) \in Nat
    BY <1>3, FS_CardinalityType
  <1> QED BY <1>1, <1>3, <1>4, <1>5

LEMMA CountMonotonic ==
    ASSUME NEW f \in Seq(Int), NEW m \in Nat, NEW n \in Nat, m <= n
    PROVE  DataCount(f, m) <= DataCount(f, n)
  <1>1. DataUnits(f, m) \in SUBSET DataUnits(f, n)
    BY DEF DataUnits
  <1> QED BY <1>1, CountFacts, FS_Subset

\* A unit that is not data is not counted.
LEMMA CountSkip ==
    ASSUME NEW f \in Seq(Int), NEW n \in Nat, ~IsData(f[n + 1])
    PROVE  DataCount(f, n + 1) = DataCount(f, n)
  <1>1. DataUnits(f, n + 1) = DataUnits(f, n)
    BY DEF DataUnits
  <1>2. n + 1 \in Nat
    OBVIOUS
  <1> QED BY <1>1, <1>2, CountFacts

LEMMA CountRun ==
    ASSUME NEW f \in Seq(Int), NEW n \in Nat, NEW k \in Nat,
           \A i \in 1 .. k : IsData(f[n + i])
    PROVE  DataCount(f, n + k) = DataCount(f, n) + k
  <1> DEFINE A == DataUnits(f, n)
             B == n + 1 .. n + k
  <1>1. IsFiniteSet(B) /\ Cardinality(B) = k
    <2>1. IsFiniteSet(B) /\ Cardinality(B) = IF n + 1 > n + k THEN 0
                                             ELSE (n + k) - (n + 1) + 1
      BY FS_Interval
    <2> QED BY <2>1
  <1>2. IsFiniteSet(A)
    BY CountFacts
  <1>3. A \cap B = {}
    BY DEF DataUnits
  <1>4. DataUnits(f, n + k) = A \cup B
    <2>1. ASSUME NEW i \in B PROVE IsData(f[i])
      <3>1. i - n \in 1 .. k /\ n + (i - n) = i
        OBVIOUS
      <3> QED BY <3>1
    <2> QED BY <2>1 DEF DataUnits
  <1> HIDE DEF A, B
  <1>5. Cardinality(A \cup B) = Cardinality(A) + Cardinality(B) - 0
    <2>1. Cardinality(A \cup B)
            = Cardinality(A) + Cardinality(B) - Cardinality(A \cap B)
      BY <1>1, <1>2, FS_Union, Zenon
    <2> QED BY <1>3, <2>1, FS_EmptySet, Zenon
  <1> USE DEF A, B
  <1>6. n + k \in Nat /\ Cardinality(A) \in Nat
    BY <1>2, FS_CardinalityType
  <1>7. /\ DataCount(f, n + k) = Cardinality(A \cup B)
        /\ DataCount(f, n) = Cardinality(A)
    BY <1>4, <1>6, CountFacts
  <1> HIDE DEF A, B
  <1> QED BY <1>1, <1>5, <1>6, <1>7

\* Before the end there is something that is not data: the first unit.
LEMMA CountLess ==
    ASSUME NEW f \in Seq(Int), NEW n \in Nat, n > 0, ~IsData(f[1])
    PROVE  DataCount(f, n) < n
  <1>1. DataUnits(f, n) \in SUBSET (2 .. n)
    BY DEF DataUnits
  <1>2. IsFiniteSet(2 .. n) /\ Cardinality(2 .. n) = n - 1
    <2>1. IsFiniteSet(2 .. n)
          /\ Cardinality(2 .. n) = IF 2 > n THEN 0 ELSE n - 2 + 1
      <3>1. 2 \in Int /\ n \in Int
        OBVIOUS
      <3> QED BY <3>1, FS_Interval, Zenon
    <2> QED BY <2>1
  <1>3. Cardinality(DataUnits(f, n)) <= Cardinality(2 .. n)
    BY <1>1, <1>2, FS_Subset
  <1> QED BY <1>2, <1>3, CountFacts

\* A data unit is the one with its number.
LEMMA AtCount ==
    ASSUME NEW f \in Seq(Int), NEW n \in 1 .. Len(f), IsData(f[n])
    PROVE  DataAt(f, DataCount(f, n)) = n
  <1> DEFINE c == DataCount(f, n)
             P(i) == IsData(f[i]) /\ DataCount(f, i) = c
  <1>0. Len(f) \in Nat /\ n \in Nat
    BY LenProperties
  <1>1. ASSUME NEW i \in 1 .. Len(f), NEW j \in 1 .. Len(f), i < j,
               IsData(f[j])
        PROVE  DataCount(f, i) < DataCount(f, j)
    <2> DEFINE k == j - 1
    <2>1. k \in Nat /\ i \in Nat /\ i <= k /\ k + 1 = j
      BY <1>0, <1>1
    <2>2. \A m \in 1 .. 1 : IsData(f[k + m])
      BY <1>1, <2>1
    <2> HIDE DEF k
    <2>3. DataCount(f, k + 1) = DataCount(f, k) + 1
      BY <2>1, <2>2, CountRun
    <2>4. DataCount(f, i) <= DataCount(f, k)
      BY <2>1, CountMonotonic
    <2>5. DataCount(f, i) \in Nat /\ DataCount(f, k) \in Nat
      BY <2>1, CountFacts
    <2>6. DataCount(f, j) = DataCount(f, k) + 1
      BY <2>1, <2>3, Zenon
    <2> QED BY <2>4, <2>5, <2>6
  <1>2. ASSUME NEW i \in 1 .. Len(f), P(i) PROVE i = n
    <2>1. ~(i < n)
      <3>1. ASSUME i < n PROVE FALSE
        <4>1. DataCount(f, i) < DataCount(f, n) /\ DataCount(f, i) \in Nat
          BY <1>0, <1>1, <3>1, CountFacts
        <4> QED BY <4>1, <1>2
      <3> QED BY <3>1
    <2>2. ~(n < i)
      <3>1. ASSUME n < i PROVE FALSE
        <4>1. DataCount(f, n) < DataCount(f, i) /\ DataCount(f, i) \in Nat
          BY <1>0, <1>1, <1>2, <3>1, CountFacts
        <4> QED BY <4>1, <1>2
      <3> QED BY <3>1
    <2> QED BY <2>1, <2>2, <1>0
  <1>3. P(n)
    OBVIOUS
  <1>4. DataAt(f, c) = CHOOSE i \in 1 .. Len(f) : P(i)
    BY DEF DataAt
  <1> HIDE DEF P, c
  <1>5. (CHOOSE i \in 1 .. Len(f) : P(i)) = n
    BY <1>2, <1>3
  <1> QED BY <1>4, <1>5 DEF c

\* Data units taken one after the other are the next data of the file.
LEMMA DataRun ==
    ASSUME NEW f \in Seq(Int), NEW n \in Nat, NEW u \in Seq(Int),
           n + Len(u) <= Len(f),
           \A i \in 1 .. Len(u) : u[i] = f[n + i] /\ IsData(u[i]),
           NEW s \in Seq(Int), s = DataTo(f, n)
    PROVE  s \o u = DataTo(f, n + Len(u))
  <1> DEFINE c == DataCount(f, n)
             k == Len(u)
             t == s \o u
             e(i) == f[DataAt(f, i)]
  <1>0. Len(f) \in Nat /\ k \in Nat /\ c \in Nat
    BY CountFacts, LenProperties
  <1>1. Len(s) = c /\ \A i \in 1 .. c : s[i] = e(i)
    <2>1. s = [i \in 1 .. c |-> e(i)]
      BY DEF DataTo
    <2> HIDE DEF c, e
    <2> QED BY <1>0, <2>1
  <1>2. t \in Seq(Int) /\ Len(t) = c + k
    BY <1>1, CatType
  <1>3. ASSUME NEW j \in 1 .. k PROVE e(c + j) = u[j]
    <2>0. j \in Nat /\ n + j \in 1 .. Len(f) /\ \A i \in 1 .. j : i \in 1 .. k
      BY <1>0, SMTT(30)
    <2>1. \A i \in 1 .. j : IsData(f[n + i])
      BY <2>0
    <2>2. DataCount(f, n + j) = c + j
      BY <2>0, <2>1, CountRun
    <2>3. IsData(f[n + j]) /\ u[j] = f[n + j]
      OBVIOUS
    <2>4. DataAt(f, DataCount(f, n + j)) = n + j
      BY <2>0, <2>3, AtCount
    <2> HIDE DEF c
    <2> QED BY <2>2, <2>3, <2>4, Zenon
  <1>4. /\ \A i \in 1 .. Len(s) : t[i] = s[i]
        /\ \A i \in 1 .. Len(u) : t[Len(s) + i] = u[i]
    BY CatAt
  <1>5. ASSUME NEW i \in 1 .. c + k PROVE t[i] = e(i)
    <2>1. CASE i <= c
      <3>1. i \in 1 .. c
        BY <2>1, <1>0
      <3> HIDE DEF c, e, t
      <3> QED BY <3>1, <1>1, <1>4
    <2>2. CASE i > c
      <3> DEFINE j == i - c
      <3>1. j \in 1 .. k /\ c + j = i
        BY <2>2, <1>0, SMTT(30)
      <3> HIDE DEF j, c, e, t, k
      <3>2. t[c + j] = u[j]
        BY <3>1, <1>1, <1>4 DEF k
      <3>3. e(c + j) = u[j]
        BY <3>1, <1>3
      <3> QED BY <3>1, <3>2, <3>3
    <2>3. i <= c \/ i > c
      BY <1>0
    <2> QED BY <2>1, <2>2, <2>3, Zenon
  <1>6. DataCount(f, n + k) = c + k
    BY <1>0, CountRun
  <1>7. t = [i \in 1 .. c + k |-> t[i]]
    <2> HIDE DEF t, c, k
    <2> QED BY <1>0, <1>2
  <1>8. t = [i \in 1 .. c + k |-> e(i)]
    <2> HIDE DEF t, c, k, e
    <2>1. \A i \in 1 .. c + k : t[i] = e(i)
      BY <1>5
    <2> QED BY <1>7, <2>1
  <1> HIDE DEF t, c
  <1> QED BY <1>6, <1>8 DEF t, DataTo

\* Every number up to the count is that of a data unit.
LEMMA AtFacts ==
    ASSUME NEW f \in Seq(Int), NEW k \in 1 .. DataCount(f, Len(f))
    PROVE  DataAt(f, k) \in 1 .. Len(f) /\ IsData(f[DataAt(f, k)])
  <1> DEFINE T == {i \in Nat : i <= Len(f) /\ k <= DataCount(f, i)}
             P(i) == IsData(f[i]) /\ DataCount(f, i) = k
  <1>0. Len(f) \in Nat /\ DataCount(f, Len(f)) \in Nat
    BY CountFacts, LenProperties
  <1>1. Len(f) \in T
    BY <1>0
  <1>2. PICK n \in T : \A m \in T : ~(m < n)
    BY <1>1, LeastNat
  <1>3. n \in Nat /\ n <= Len(f) /\ k <= DataCount(f, n)
    BY <1>2
  <1>4. n # 0
    <2>1. DataUnits(f, 0) = {}
      BY DEF DataUnits
    <2>2. DataCount(f, 0) = 0
      BY <2>1, CountFacts, FS_EmptySet
    <2> QED BY <1>0, <1>3, <2>2
  <1> DEFINE m == n - 1
  <1>5. m \in Nat /\ m < n /\ m <= Len(f) /\ m + 1 = n /\ n \in 1 .. Len(f)
    BY <1>0, <1>3, <1>4
  <1> HIDE DEF m
  <1>6. DataCount(f, m) < k /\ DataCount(f, m) \in Nat
    <2>1. m \notin T /\ DataCount(f, m) \in Nat
      BY <1>2, <1>5, CountFacts
    <2> QED BY <1>0, <1>5, <2>1
  <1>7. IsData(f[n])
    <2>1. ASSUME ~IsData(f[n]) PROVE FALSE
      <3>1. DataCount(f, m + 1) = DataCount(f, m)
        BY <1>5, <2>1, CountSkip
      <3>2. DataCount(f, n) = DataCount(f, m)
        BY <1>5, <3>1, Zenon
      <3> QED BY <1>0, <1>3, <1>6, <3>2
    <2> QED BY <2>1
  <1>8. DataCount(f, n) = k
    <2>1. \A i \in 1 .. 1 : IsData(f[m + i])
      BY <1>5, <1>7
    <2>2. DataCount(f, m + 1) = DataCount(f, m) + 1
      BY <1>5, <2>1, CountRun
    <2>3. DataCount(f, n) = DataCount(f, m) + 1
      BY <1>5, <2>2, Zenon
    <2> QED BY <1>0, <1>3, <1>6, <2>3
  <1>9. P(n)
    BY <1>7, <1>8
  <1>10. DataAt(f, k) = CHOOSE i \in 1 .. Len(f) : P(i)
    BY DEF DataAt
  <1> HIDE DEF P
  <1>11. DataAt(f, k) \in 1 .. Len(f) /\ P(DataAt(f, k))
    BY <1>5, <1>9, <1>10
  <1> QED BY <1>11 DEF P

LEMMA DataFacts ==
    ASSUME NEW f \in Seq(Int), NEW n \in 0 .. Len(f)
    PROVE  /\ DataTo(f, n) \in Seq(Int) /\ Len(DataTo(f, n)) = DataCount(f, n)
           /\ \A i \in 1 .. DataCount(f, n) : IsData(DataTo(f, n)[i])
           /\ DataCount(f, n) <= DataCount(f, Len(f))
           /\ Data(f) = DataTo(f, Len(f))
           /\ \A i \in 1 .. DataCount(f, n) : DataTo(f, n)[i] = Data(f)[i]
  <1> DEFINE c == DataCount(f, n)
             e(i) == f[DataAt(f, i)]
  <1>0. /\ Len(f) \in Nat /\ n \in Nat /\ n <= Len(f)
        /\ c \in Nat /\ DataCount(f, Len(f)) \in Nat
    BY CountFacts, LenProperties
  <1>1. c <= DataCount(f, Len(f))
    BY <1>0, CountMonotonic
  <1>2. /\ Data(f) = [i \in 1 .. DataCount(f, Len(f)) |-> e(i)]
        /\ DataTo(f, n) = [i \in 1 .. c |-> e(i)]
        /\ DataTo(f, Len(f)) = [i \in 1 .. DataCount(f, Len(f)) |-> e(i)]
    BY DEF Data, DataTo
  <1>3. \A i \in 1 .. c : e(i) \in Int /\ IsData(e(i))
    <2>1. \A i \in 1 .. c :
            DataAt(f, i) \in 1 .. Len(f) /\ IsData(f[DataAt(f, i)])
      BY <1>0, <1>1, AtFacts
    <2> QED BY <2>1
  <1> HIDE DEF e, c
  <1>4. DataTo(f, n) \in Seq(Int) /\ Len(DataTo(f, n)) = c
    BY <1>0, <1>2, <1>3
  <1>6. \A i \in 1 .. c : IsData(DataTo(f, n)[i])
    BY <1>2, <1>3
  <1>5. \A i \in 1 .. c : DataTo(f, n)[i] = Data(f)[i]
    BY <1>0, <1>1, <1>2
  <1> QED BY <1>1, <1>2, <1>4, <1>5, <1>6 DEF c

\* A part of it is not only units but data.
LEMMA DataType ==
    ASSUME NEW f \in Seq(Int), NEW n \in 0 .. Len(f),
           NEW s \in Seq(Int), NEW t \in Seq(Int), s \o t = DataTo(f, n)
    PROVE  s \in Seq(Nat) /\ Len(s) + Len(t) = DataCount(f, n)
  <1> DEFINE a == DataTo(f, n)
             c == DataCount(f, n)
  <1>1. a \in Seq(Int) /\ Len(a) = c /\ \A i \in 1 .. c : IsData(a[i])
    BY DataFacts
  <1>2. Len(s \o t) = Len(s) + Len(t) /\ Len(s) \in Nat /\ Len(t) \in Nat
    BY CatType, LenProperties
  <1>3. \A i \in 1 .. Len(s) : (s \o t)[i] = s[i]
    BY CatAt
  <1> HIDE DEF a, c
  <1>4. ASSUME NEW i \in 1 .. Len(s) PROVE s[i] \in Nat
    <2>1. i \in 1 .. c /\ s[i] = a[i] /\ s[i] \in Int
      BY <1>1, <1>2, <1>3 DEF a
    <2> QED BY <1>1, <2>1 DEF IsData
  <1>5. s \in Seq(Nat)
    <2>1. s = [i \in 1 .. Len(s) |-> s[i]]
      BY LenProperties
    <2>2. s \in [1 .. Len(s) -> Nat]
      BY <1>4, <2>1, Zenon
    <2>3. ASSUME NEW m \in Nat, NEW g \in [1 .. m -> Nat]
          PROVE  g \in Seq(Nat)
      <3>1. g = [i \in 1 .. m |-> g[i]] /\ \A i \in 1 .. m : g[i] \in Nat
        OBVIOUS
      <3> QED BY <3>1
    <2> QED BY <1>2, <2>2, <2>3, Zenon
  <1> QED BY <1>1, <1>2, <1>5 DEF a, c

\* What begins the data of the first units begins the data of the file.
LEMMA DataPrefix ==
    ASSUME NEW f \in Seq(Int), NEW n \in 0 .. Len(f),
           NEW s \in Seq(Int), NEW t \in Seq(Int), s \o t = DataTo(f, n)
    PROVE  IsPrefix(s, Data(f))
  <1> DEFINE a == DataTo(f, n)
             b == Data(f)
             c == DataCount(f, n)
  <1>0. Len(f) \in Nat /\ Len(f) \in 0 .. Len(f)
    BY LenProperties
  <1>1. /\ a \in Seq(Int) /\ Len(a) = c
        /\ b \in Seq(Int) /\ Len(b) = DataCount(f, Len(f))
        /\ c <= DataCount(f, Len(f))
        /\ \A i \in 1 .. c : a[i] = b[i]
    BY <1>0, DataFacts
  <1>2. Len(s) + Len(t) = c /\ \A i \in 1 .. Len(s) : a[i] = s[i]
    <2>1. Len(s \o t) = Len(s) + Len(t)
      BY CatType
    <2>2. \A i \in 1 .. Len(s) : (s \o t)[i] = s[i]
      BY CatAt
    <2> HIDE DEF c
    <2> QED BY <1>1, <2>1, <2>2
  <1>3. Len(s) \in Nat /\ Len(t) \in Nat /\ Len(b) \in Nat
    BY <1>1, LenProperties
  <1> HIDE DEF a, b, c
  <1>4. Len(s) <= Len(b) /\ \A i \in 1 .. Len(s) : s[i] = b[i]
    BY <1>1, <1>2, <1>3
  <1>5. SubSeq(s, 1, Len(s)) = SubSeq(b, 1, Len(s))
    BY <1>1, <1>3, <1>4
  <1> QED BY <1>4, <1>5 DEF IsPrefix, b
-----------------------------------------------------------------------------
(***************************************************************************)
(* The inductive invariant.                                                *)
(***************************************************************************)
\* The units of the file that have left the ring.
here == pos - Len(rdBuf.q)

\* q is what follows the first p units of file f.
Views(q, f, p) ==
    /\ p \in Nat /\ p + Len(q) <= Len(f)
    /\ \A i \in 1 .. Len(q) : q[i] = f[p + i]

\* The ring holds what comes next.
RingInv ==
    /\ rdBuf.size = wrBuf.size /\ rdBuf.size >= Len(Header)
    /\ Formed(file)
    /\ Views(rdBuf.q, file, here)

\* The state is where in the file the Reader is.
PlaceInv ==
    /\ state = "init" => here = 0
    /\ state # "init" => here > 0
    /\ state = "header" => here < Len(file) /\ file[here + 1] = Header[1]
    /\ state = "block" => file[here] \in {Header[2], EndUnit}
    /\ state = "data" => IF z.ended THEN file[here] = EndUnit
                         ELSE file[here] = BlockStart \/ IsData(file[here])
    /\ state = "index" =>
         \/ file[here] = IndexStart
         \/ here < Len(file) /\ file[here + 1] = IndexStart
    /\ state = "footer" => file[here] = IndexEnd
    /\ state = "padding" => file[here] \in {Footer[2], Pad}

\* What the client, wrBuf and the decoder have, in this order.
Ahead == (out \o wrBuf.q) \o z.held

\* It is the data of what has left the ring.
FlowInv ==
    /\ Ahead = DataTo(file, here)
    /\ z.skip = 0 /\ (z.ended => z.held = <<>>)
    /\ state # "data" => wrBuf.q = <<>> /\ z.held = <<>>

CallInv ==
    /\ cl = "read" => result # "err"
    /\ rdErr = "err" => faulty
    /\ cl = "read" /\ rdErr = "EOF" => pos = Len(file)

\* io.EOF comes where there is nothing more.
EndInv ==
    result = "EOF" =>
      /\ here = Len(file)
      /\ state \in {"padding", "index", "data"}
      /\ state = "data" => ~z.ended

\* A file that fits is read into the ring at once.
Fits == Whole(file) /\ Len(file) <= rdBuf.size /\ ~faulty

FitInv ==
    Fits =>
      /\ result # "err" /\ ~fed
      /\ Straight(rdBuf)
      /\ \/ pos = Len(file)
         \/ state = "init" /\ pos = 0 /\ rdBuf.at = 0 /\ rdBuf.q = <<>>

ReaderInv ==
    /\ TypeOK /\ RingInv /\ PlaceInv /\ FlowInv /\ CallInv /\ EndInv /\ FitInv
-----------------------------------------------------------------------------
(***************************************************************************)
(* readFull.                                                               *)
(***************************************************************************)
\* Reading from the source into the ring.
ViewFilled(b, f, ps, n, buf) ==
    /\ IsRing(buf) /\ buf.size = b.size /\ buf.at = b.at
    /\ Len(buf.q) = Len(b.q) + n
    /\ Views(buf.q, f, ps - Len(b.q))

LEMMA FillView ==
    ASSUME NEW b, IsRing(b), NEW f \in Seq(Int), NEW ps \in 0 .. Len(f),
           Views(b.q, f, ps - Len(b.q)), NEW n \in 0 .. Len(f) - ps,
           n <= b.size - Len(b.q)
    PROVE  ViewFilled(b, f, ps, n,
                      WriteMark(b, SubSeq(SubSeq(f, ps + 1, Len(f)), 1, n)))
  <1> DEFINE r == SubSeq(f, ps + 1, Len(f))
             u == SubSeq(r, 1, n)
             q == b.q \o u
             p == ps - Len(b.q)
  <1>0. /\ Len(f) \in Nat /\ ps \in Nat /\ ps <= Len(f) /\ n \in Nat
        /\ ps + n <= Len(f)
        /\ b.q \in Seq(Int) /\ Len(b.q) \in Nat /\ b.size \in Nat
    BY RingFacts, LenProperties
  <1>1. p \in Nat /\ \A i \in 1 .. Len(b.q) : b.q[i] = f[p + i]
    BY DEF Views
  <1>2. /\ r \in Seq(Int) /\ Len(r) = Len(f) - ps
        /\ \A i \in 1 .. Len(f) - ps : r[i] = f[ps + i]
    <2>1. r \in Seq(Int) /\ Len(r) = Len(f) - ps
      BY <1>0, Split
    <2>2. ASSUME NEW i \in 1 .. Len(f) - ps PROVE r[i] = f[ps + i]
      <3>1. r[i] = f[(ps + 1) + i - 1]
        BY <1>0, <2>1, SubSeqProperties
      <3> QED BY <1>0, <3>1
    <2> QED BY <2>1, <2>2
  <1> HIDE DEF r
  <1>3. u \in Seq(Int) /\ Len(u) = n /\ \A i \in 1 .. n : u[i] = r[i]
    <2>1. n \in 0 .. Len(r)
      BY <1>0, <1>2
    <2>2. u \in Seq(Int) /\ Len(u) = n
      BY <1>2, <2>1, Split
    <2>3. ASSUME NEW i \in 1 .. n PROVE u[i] = r[i]
      <3>1. u[i] = r[1 + i - 1]
        BY <1>2, <2>1, <2>2, SubSeqProperties
      <3> QED BY <1>0, <3>1
    <2> QED BY <2>2, <2>3
  <1> HIDE DEF u
  <1>4. /\ IsRing(WriteMark(b, u)) /\ WriteMark(b, u).q = q
        /\ WriteMark(b, u).size = b.size /\ WriteMark(b, u).at = b.at
    BY <1>3, WriteMarkFits
  <1>5. /\ Len(q) = Len(b.q) + n
        /\ \A i \in 1 .. Len(b.q) : q[i] = b.q[i]
        /\ \A i \in 1 .. n : q[Len(b.q) + i] = u[i]
    BY <1>0, <1>3, CatType, CatAt
  <1> HIDE DEF q
  <1>6. ASSUME NEW i \in 1 .. Len(q) PROVE q[i] = f[p + i]
    <2>0. i \in Int /\ i >= 1 /\ i <= Len(b.q) + n
      BY <1>0, <1>5
    <2>1. CASE i <= Len(b.q)
      <3>1. i \in 1 .. Len(b.q)
        BY <1>0, <2>0, <2>1
      <3> HIDE DEF p
      <3> QED BY <1>1, <1>5, <3>1
    <2>2. CASE i > Len(b.q)
      <3> DEFINE j == i - Len(b.q)
      <3>1. /\ j \in 1 .. n /\ Len(b.q) + j = i /\ ps + j = p + i
            /\ j \in 1 .. Len(f) - ps
        BY <1>0, <2>0, <2>2, SMTT(30)
      <3> HIDE DEF j, p
      <3>2. q[Len(b.q) + j] = f[ps + j]
        BY <1>2, <1>3, <1>5, <3>1
      <3> QED BY <3>1, <3>2
    <2>3. i <= Len(b.q) \/ i > Len(b.q)
      BY <1>0, <2>0
    <2> QED BY <2>1, <2>2, <2>3, Zenon
  <1>7. p + Len(q) <= Len(f)
    BY <1>0, <1>5
  <1>8. Views(q, f, p)
    BY <1>1, <1>6, <1>7 DEF Views
  <1> QED BY <1>4, <1>5, <1>8 DEF ViewFilled, u, r

\* Taking units out of the ring.
ViewTaken(b, f, p, k, left) ==
    /\ IsRing(left) /\ left.size = b.size
    /\ Len(left.q) = Len(b.q) - k
    /\ Views(left.q, f, p + k)
    /\ Straight(b) => Straight(left)

LEMMA TakeView ==
    ASSUME NEW b, IsRing(b), NEW f \in Seq(Int), NEW p, Views(b.q, f, p),
           NEW k \in 0 .. Len(b.q)
    PROVE  ViewTaken(b, f, p, k, ReadMark(b, k))
  <1> DEFINE q == SubSeq(b.q, k + 1, Len(b.q))
  <1>0. /\ Len(f) \in Nat /\ b.q \in Seq(Int) /\ Len(b.q) \in Nat
        /\ k \in Nat /\ k <= Len(b.q)
    BY RingFacts, LenProperties
  <1>1. /\ p \in Nat /\ p + Len(b.q) <= Len(f)
        /\ \A i \in 1 .. Len(b.q) : b.q[i] = f[p + i]
    BY DEF Views
  <1>2. /\ IsRing(ReadMark(b, k)) /\ ReadMark(b, k).q = q
        /\ ReadMark(b, k).size = b.size
        /\ Straight(b) => Straight(ReadMark(b, k))
    BY ReadMarkFacts
  <1>3. q \in Seq(Int) /\ Len(q) = Len(b.q) - k
    BY <1>0, Split
  <1>4. ASSUME NEW i \in 1 .. Len(b.q) - k PROVE q[i] = f[(p + k) + i]
    <2>1. q[i] = b.q[(k + 1) + i - 1]
      BY <1>0, <1>3, SubSeqProperties
    <2>2. /\ (k + 1) + i - 1 = k + i /\ k + i \in 1 .. Len(b.q)
          /\ p + (k + i) = (p + k) + i
      BY <1>0, <1>1
    <2> HIDE DEF q
    <2> QED BY <1>1, <2>1, <2>2
  <1> HIDE DEF q
  <1>5. p + k \in Nat /\ (p + k) + Len(q) <= Len(f)
    <2>1. p \in Nat /\ p + Len(b.q) <= Len(f) /\ Len(q) = Len(b.q) - k
      BY <1>1, <1>3
    <2> DEFINE m == Len(b.q)
               l == Len(q)
               n == Len(f)
    <2>2. /\ p \in Nat /\ p + m <= n /\ l = m - k
          /\ n \in Nat /\ m \in Nat /\ k \in Nat /\ k <= m
      BY <1>0, <2>1
    <2> HIDE DEF m, l, n
    <2>3. p + k \in Nat /\ (p + k) + l <= n
      BY <2>2
    <2> QED BY <2>3 DEF l, n
  <1>6. Views(q, f, p + k)
    BY <1>3, <1>4, <1>5 DEF Views
  <1> QED BY <1>2, <1>3, <1>6 DEF ViewTaken

\* The types of what the steps work on.
ReaderFacts ==
    /\ file \in Seq(Int) /\ Len(file) \in Nat /\ faulty \in BOOLEAN
    /\ pos \in Nat /\ pos <= Len(file)
    /\ IsRing(rdBuf) /\ IsRing(wrBuf) /\ IsCoder(z)
    /\ rdBuf.q \in Seq(Int) /\ Len(rdBuf.q) \in Nat
    /\ rdBuf.size \in Nat /\ rdBuf.size >= 2
    /\ Len(rdBuf.q) <= rdBuf.size /\ Len(rdBuf.q) <= pos
    /\ here \in Nat /\ here <= Len(file) /\ here + Len(rdBuf.q) = pos

LEMMA InvFacts ==
    ASSUME ReaderInv
    PROVE  ReaderFacts
  <1>1. /\ file \in Seq(Int) /\ faulty \in BOOLEAN /\ pos \in 0 .. Len(file)
        /\ IsRing(rdBuf) /\ IsRing(wrBuf) /\ IsCoder(z)
    BY DEF ReaderInv, TypeOK
  <1>2. Len(file) \in Nat
    BY <1>1, LenProperties
  <1>3. /\ rdBuf.q \in Seq(Int) /\ Len(rdBuf.q) \in Nat /\ rdBuf.size \in Nat
        /\ Len(rdBuf.q) <= rdBuf.size
    BY <1>1, RingFacts
  <1>4. rdBuf.size >= 2
    BY DEF ReaderInv, RingInv, Header
  <1>5. here \in Nat
    BY DEF ReaderInv, RingInv, Views
  <1>6. /\ pos \in Nat /\ pos <= Len(file)
        /\ Len(rdBuf.q) <= pos /\ here <= Len(file)
        /\ here + Len(rdBuf.q) = pos
    BY <1>1, <1>2, <1>3, <1>5 DEF here
  <1> QED BY <1>1, <1>2, <1>3, <1>4, <1>5, <1>6 DEF ReaderFacts

\* rdBuf.ReadFrom: the ring is filled unless enough is there.
FillStep(size, n) ==
    /\ n \in Nat /\ n <= Len(file) - pos /\ n <= rdBuf.size - Len(rdBuf.q)
    /\ ViewFilled(rdBuf, file, pos, n, Filled(size))
    /\ Len(rdBuf.q) < size =>
         n = Len(file) - pos \/ n = rdBuf.size - Len(rdBuf.q)

LEMMA Fill ==
    ASSUME ReaderInv, NEW size \in {1, 2}
    PROVE  \E n \in Nat : FillStep(size, n)
  <1>0. /\ file \in Seq(Int) /\ Len(file) \in Nat /\ pos \in 0 .. Len(file)
        /\ IsRing(rdBuf) /\ Len(rdBuf.q) \in Nat /\ rdBuf.size \in Nat
        /\ Len(rdBuf.q) <= rdBuf.size
    BY InvFacts DEF ReaderFacts
  <1>1. Views(rdBuf.q, file, pos - Len(rdBuf.q))
    BY DEF ReaderInv, RingInv, here
  <1>2. CASE Len(rdBuf.q) >= size
    <2>1. Filled(size) = rdBuf
      BY <1>2 DEF Filled
    <2>2. Len(rdBuf.q) = Len(rdBuf.q) + 0
      BY <1>0
    <2>3. ViewFilled(rdBuf, file, pos, 0, Filled(size))
      BY <1>0, <1>1, <2>1, <2>2 DEF ViewFilled
    <2>4. FillStep(size, 0)
      BY <1>0, <1>2, <2>3 DEF FillStep
    <2> QED BY <2>4
  <1>3. CASE Len(rdBuf.q) < size
    <2> DEFINE n == Lesser(Len(Rest), rdBuf.size - Len(rdBuf.q))
    <2>1. Len(Rest) = Len(file) - pos
      BY <1>0, Split DEF Rest
    <2>2. /\ n \in Nat /\ n <= Len(file) - pos
          /\ n <= rdBuf.size - Len(rdBuf.q)
          /\ n = Len(file) - pos \/ n = rdBuf.size - Len(rdBuf.q)
      BY <1>0, <2>1 DEF Lesser
    <2>3. Filled(size)
            = WriteMark(rdBuf, SubSeq(SubSeq(file, pos + 1, Len(file)), 1, n))
      <3>1. ~(Len(rdBuf.q) >= size)
        BY <1>0, <1>3
      <3> QED BY <3>1 DEF Filled, Rest
    <2> HIDE DEF n
    <2>4. n \in 0 .. Len(file) - pos
      BY <1>0, <2>2
    <2>5. ViewFilled(rdBuf, file, pos, n, Filled(size))
      BY <1>0, <1>1, <2>2, <2>3, <2>4, FillView
    <2>6. FillStep(size, n)
      BY <1>3, <2>2, <2>5 DEF FillStep
    <2> QED BY <2>2, <2>6
  <1> QED BY <1>0, <1>2, <1>3

\* What a step that takes units does to the ring.
RingNext(took) ==
    /\ IsRing(rdBuf') /\ rdBuf'.size = rdBuf.size
    /\ pos' \in Nat /\ pos <= pos' /\ pos' <= Len(file)
    /\ pos' - Len(rdBuf'.q) = here + took
    /\ Views(rdBuf'.q, file, here + took)

FitNext == Fits => Straight(rdBuf') /\ pos' = Len(file)

FullFailed ==
    /\ faulty /\ cl' = "idle" /\ result' = "err" /\ state' = state
    /\ RingNext(0)

FullShort(size) ==
    /\ here + size > Len(file) /\ cl' = "idle" /\ state' = state
    /\ result' = IF CanEOF(state) /\ here = Len(file) THEN "EOF" ELSE "err"
    /\ RingNext(0) /\ FitNext

FullMoved(size, move) ==
    /\ here + size <= Len(file)
    /\ Got(size) \in Seq(Int) /\ Len(Got(size)) = size
    /\ \A i \in 1 .. size : Got(size)[i] = file[here + i]
    /\ RingNext(move.took) /\ FitNext
    /\ IF move.next = "bad"
       THEN cl' = "idle" /\ result' = "err" /\ state' = state
       ELSE state' = move.next /\ cl' = cl /\ result' = result

FullStep(size, move) == FullFailed \/ FullShort(size) \/ FullMoved(size, move)

\* Filling the ring, whether or not there is enough.
Filling(size, n) ==
    /\ FillStep(size, n)
    /\ pos + Len(Filled(size).q) - Len(rdBuf.q) = pos + n
    /\ Filled(size).q \in Seq(Int) /\ Len(Filled(size).q) = Len(rdBuf.q) + n
    /\ Len(Filled(size).q) \in Nat
    /\ (pos + n) - Len(Filled(size).q) = here
    /\ Len(Filled(size).q) < size => pos + n = Len(file)
    /\ Fits => Straight(Filled(size)) /\ pos + n = Len(file)

LEMMA FillingFacts ==
    ASSUME ReaderInv, NEW size \in {1, 2}, NEW n \in Nat, FillStep(size, n)
    PROVE  Filling(size, n)
  <1> DEFINE buf == Filled(size)
             m == Len(rdBuf.q)
             k == Len(buf.q)
             N == Len(file)
             s == rdBuf.size
  <1>0. /\ N \in Nat /\ pos \in Nat /\ pos <= N /\ m \in Nat /\ s \in Nat
        /\ s >= 2 /\ m <= s /\ m <= pos /\ here \in Nat /\ here + m = pos
        /\ rdBuf.q \in Seq(Int)
    BY InvFacts DEF ReaderFacts
  <1>1. /\ n <= N - pos /\ n <= s - m /\ IsRing(buf) /\ buf.size = s
        /\ buf.at = rdBuf.at /\ k = m + n
        /\ m < size => n = N - pos \/ n = s - m
    BY DEF FillStep, ViewFilled
  <1>2. buf.q \in Seq(Int) /\ k \in Nat
    BY <1>1, RingFacts
  <1>3. Fits => /\ Straight(rdBuf) /\ N <= s
                /\ pos = N \/ (pos = 0 /\ rdBuf.at = 0 /\ m = 0)
    <2>1. Fits => /\ Straight(rdBuf) /\ N <= s
                  /\ \/ pos = N
                     \/ pos = 0 /\ rdBuf.at = 0 /\ rdBuf.q = <<>>
      BY DEF ReaderInv, FitInv, Fits
    <2>2. rdBuf.q = <<>> => m = 0
      OBVIOUS
    <2> QED BY <2>1, <2>2
  <1>4. /\ Straight(rdBuf) <=> rdBuf.at + m <= s
        /\ Straight(buf) <=> rdBuf.at + k <= s
    BY <1>1 DEF Straight
  <1>5. rdBuf.at \in Nat
    BY InvFacts, RingFacts DEF ReaderFacts
  <1>6. size \in Nat /\ size <= 2 /\ size >= 1
    OBVIOUS
  <1> HIDE DEF buf, m, k, N, s
  <1>7. /\ pos + k - m = pos + n /\ (pos + n) - k = here
        /\ k < size => pos + n = N
    BY <1>0, <1>1, <1>2, <1>6
  <1>8. ASSUME Fits PROVE rdBuf.at + k <= s /\ pos + n = N
    BY <1>0, <1>1, <1>2, <1>3, <1>4, <1>5, <1>6, <1>8
  <1> QED BY <1>1, <1>2, <1>4, <1>7, <1>8 DEF Filling, buf, m, k, N, s

\* Got is what comes next in the file.
LEMMA GotFacts ==
    ASSUME ReaderInv, NEW size \in {1, 2}, NEW n \in Nat, Filling(size, n),
           size <= Len(Filled(size).q)
    PROVE  /\ here + size <= Len(file)
           /\ Got(size) \in Seq(Int) /\ Len(Got(size)) = size
           /\ \A i \in 1 .. size : Got(size)[i] = file[here + i]
  <1> DEFINE q == Filled(size).q
  <1>1. q \in Seq(Int) /\ Len(q) \in Nat /\ size \in 0 .. Len(q)
    BY DEF Filling
  <1>2. Views(q, file, here)
    BY DEF Filling, FillStep, ViewFilled, here
  <1>3. here \in Nat /\ Len(file) \in Nat
    BY InvFacts DEF ReaderFacts
  <1>4. here + Len(q) <= Len(file) /\ \A i \in 1 .. Len(q) : q[i] = file[here + i]
    BY <1>2 DEF Views
  <1>5. Got(size) = SubSeq(q, 1, size)
    BY DEF Got
  <1> HIDE DEF q
  <1>6. SubSeq(q, 1, size) \in Seq(Int) /\ Len(SubSeq(q, 1, size)) = size
    BY <1>1, Split
  <1>7. ASSUME NEW i \in 1 .. size PROVE SubSeq(q, 1, size)[i] = q[i]
    <2>1. SubSeq(q, 1, size)[i] = q[1 + i - 1]
      BY <1>1, <1>6, SubSeqProperties
    <2> QED BY <2>1
  <1>8. \A i \in 1 .. size : i \in 1 .. Len(q)
    BY <1>1
  <1>9. here + size <= Len(file)
    BY <1>1, <1>3, <1>4
  <1> QED BY <1>4, <1>5, <1>6, <1>7, <1>8, <1>9

LEMMA readFullStep ==
    ASSUME ReaderInv, NEW size \in {1, 2}, NEW move, move.took \in 0 .. size,
           readFull(size, move)
    PROVE  FullStep(size, move)
  <1> DEFINE buf == Filled(size)
  <1>0. ReaderFacts
    BY InvFacts
  <1>1. CASE /\ faulty /\ cl' = "idle" /\ result' = "err"
             /\ UNCHANGED <<pos, rdBuf, state>>
    <2>1. here + 0 = here /\ pos - Len(rdBuf.q) = here
      BY <1>0 DEF ReaderFacts
    <2>2. Views(rdBuf.q, file, here)
      BY DEF ReaderInv, RingInv
    <2>3. RingNext(0)
      BY <1>0, <1>1, <2>1, <2>2 DEF RingNext, ReaderFacts
    <2> QED BY <1>1, <2>3 DEF FullStep, FullFailed
  <1>2. CASE /\ pos' = pos + Len(buf.q) - Len(rdBuf.q)
             /\ IF Len(buf.q) < size
                THEN /\ rdBuf' = buf
                     /\ cl' = "idle" /\ state' = state
                     /\ result' = IF CanEOF(state) /\ buf.q = <<>> THEN "EOF"
                                                                  ELSE "err"
                ELSE /\ rdBuf' = ReadMark(buf, move.took)
                     /\ IF move.next = "bad"
                        THEN cl' = "idle" /\ result' = "err" /\ state' = state
                        ELSE state' = move.next /\ cl' = cl /\ result' = result
    <2>1. PICK n \in Nat : FillStep(size, n)
      BY Fill
    <2>2. Filling(size, n)
      BY <2>1, FillingFacts
    <2>3. /\ IsRing(buf) /\ buf.size = rdBuf.size /\ Views(buf.q, file, here)
          /\ n <= Len(file) - pos
      BY <2>1 DEF FillStep, ViewFilled, here
    <2>4. /\ pos' = pos + n /\ (pos + n) - Len(buf.q) = here
          /\ buf.q \in Seq(Int) /\ Len(buf.q) \in Nat
          /\ Len(buf.q) < size => pos + n = Len(file)
          /\ Fits => Straight(buf) /\ pos + n = Len(file)
      BY <1>2, <2>2 DEF Filling
    <2>5. pos' \in Nat /\ pos <= pos' /\ pos' <= Len(file)
      BY <1>0, <2>3, <2>4 DEF ReaderFacts
    <2> HIDE DEF buf
    <2>6. CASE Len(buf.q) < size
      <3>1. /\ rdBuf' = buf /\ cl' = "idle" /\ state' = state
            /\ result' = IF CanEOF(state) /\ buf.q = <<>> THEN "EOF" ELSE "err"
        BY <1>2, <2>6
      <3>2. /\ here + 0 = here /\ here + size > Len(file)
            /\ here = Len(file) <=> Len(buf.q) = 0
        BY <1>0, <2>4, <2>6 DEF ReaderFacts
      <3>3. buf.q = <<>> <=> Len(buf.q) = 0
        BY <2>4
      <3>4. RingNext(0)
        BY <2>3, <2>4, <2>5, <3>1, <3>2 DEF RingNext
      <3>5. FitNext
        BY <2>4, <3>1 DEF FitNext
      <3> QED BY <3>1, <3>2, <3>3, <3>4, <3>5 DEF FullStep, FullShort
    <2>7. CASE ~(Len(buf.q) < size)
      <3> DEFINE k == move.took
      <3>1. /\ rdBuf' = ReadMark(buf, k)
            /\ IF move.next = "bad"
               THEN cl' = "idle" /\ result' = "err" /\ state' = state
               ELSE state' = move.next /\ cl' = cl /\ result' = result
        BY <1>2, <2>7
      <3>2. k \in 0 .. Len(buf.q) /\ size <= Len(buf.q)
        BY <2>4, <2>7
      <3> HIDE DEF k
      <3>3. ViewTaken(buf, file, here, k, ReadMark(buf, k))
        BY <1>0, <2>3, <3>2, TakeView DEF ReaderFacts
      <3>4. /\ IsRing(rdBuf') /\ rdBuf'.size = rdBuf.size
            /\ Len(rdBuf'.q) = Len(buf.q) - k
            /\ Views(rdBuf'.q, file, here + k)
            /\ Straight(buf) => Straight(rdBuf')
        BY <2>3, <3>1, <3>3 DEF ViewTaken
      <3>5. pos' - Len(rdBuf'.q) = here + k
        <4> DEFINE l == Len(buf.q)
                   m == Len(rdBuf'.q)
        <4>1. /\ pos' = pos + n /\ (pos + n) - l = here /\ l \in Nat
              /\ m = l - k /\ k \in 0 .. l /\ pos \in Nat /\ here \in Nat
          BY <1>0, <2>4, <3>2, <3>4 DEF ReaderFacts
        <4> HIDE DEF l, m
        <4>2. pos' - m = here + k
          BY <4>1
        <4> QED BY <4>2 DEF m
      <3>6. RingNext(k)
        BY <2>5, <3>4, <3>5 DEF RingNext
      <3>7. FitNext
        BY <2>4, <3>4 DEF FitNext
      <3>8. /\ here + size <= Len(file)
            /\ Got(size) \in Seq(Int) /\ Len(Got(size)) = size
            /\ \A i \in 1 .. size : Got(size)[i] = file[here + i]
        BY <2>2, <3>2, GotFacts DEF buf
      <3> QED BY <3>1, <3>6, <3>7, <3>8 DEF FullStep, FullMoved, k
    <2> QED BY <2>6, <2>7
  <1> QED BY <1>1, <1>2 DEF readFull, Returns

\* What the steps that call readFull leave alone.
FullFrame ==
    /\ file' = file /\ faulty' = faulty /\ wrBuf' = wrBuf /\ fed' = fed
    /\ room' = room /\ out' = out
    /\ rdErr' \in {rdErr, "nil"}
    /\ z' = z \/ z' = Coder(<<>>, 0)

\* The file and the size of the rings do not change.
LEMMA RingKeeps ==
    ASSUME ReaderInv, NEW took, RingNext(took), file' = file, faulty' = faulty,
           wrBuf'.size = wrBuf.size
    PROVE  /\ RingInv' /\ here' = here + took /\ pos' \in 0 .. Len(file)
           /\ (Fits' <=> Fits) /\ IsRing(rdBuf')
  <1>1. here' = here + took
    BY DEF RingNext, here
  <1>2. RingInv'
    BY <1>1 DEF ReaderInv, RingInv, RingNext
  <1>3. pos' \in 0 .. Len(file)
    BY InvFacts DEF RingNext, ReaderFacts
  <1>4. Fits' <=> Fits
    BY DEF Fits, RingNext
  <1> QED BY <1>1, <1>2, <1>3, <1>4 DEF RingNext

LEMMA NewCoder == /\ IsCoder(Coder(<<>>, 0)) /\ Coder(<<>>, 0).held = <<>>
                  /\ Coder(<<>>, 0).skip = 0 /\ Coder(<<>>, 0).ended = FALSE
  BY DEF IsCoder, Coder

\* Outside of a block a new decoder makes no difference.
LEMMA FrameKeeps ==
    ASSUME ReaderInv, FullFrame, state # "data"
    PROVE  /\ IsCoder(z') /\ z'.held = <<>> /\ z'.skip = 0 /\ wrBuf'.q = <<>>
           /\ Ahead' = Ahead
  <1>1. IsCoder(z) /\ z.held = <<>> /\ z.skip = 0 /\ wrBuf.q = <<>>
    BY DEF ReaderInv, FlowInv, TypeOK
  <1>2. IsCoder(z') /\ z'.held = <<>> /\ z'.skip = 0
    BY <1>1, NewCoder DEF FullFrame
  <1>3. Ahead' = Ahead
    BY <1>1, <1>2 DEF Ahead, FullFrame
  <1> QED BY <1>1, <1>2, <1>3 DEF FullFrame

LEMMA FullType ==
    ASSUME ReaderInv, FullFrame, state # "data", NEW took, RingNext(took),
           cl' \in {"idle", "read"}, result' \in {"ok", "EOF", "err"},
           state' \in {"init", "header", "block", "data", "index", "footer",
                       "padding"}
    PROVE  TypeOK' /\ RingInv'
  <1>1. wrBuf'.size = wrBuf.size /\ file' = file /\ faulty' = faulty
    BY DEF FullFrame
  <1>2. RingInv' /\ pos' \in 0 .. Len(file) /\ IsRing(rdBuf')
    BY <1>1, RingKeeps
  <1>3. IsCoder(z')
    BY FrameKeeps
  <1>4. TypeOK
    BY DEF ReaderInv
  <1>5. rdErr' \in {"nil", "EOF", "err"}
    BY <1>4 DEF TypeOK, FullFrame
  <1>6. TypeOK'
    BY <1>1, <1>2, <1>3, <1>4, <1>5 DEF TypeOK, FullFrame
  <1> QED BY <1>2, <1>6

\* The call ends where it is.
LEMMA FullEnds ==
    ASSUME ReaderInv, cl = "read", FullFrame, state # "data", RingNext(0),
           cl' = "idle", state' = state, result' \in {"EOF", "err"},
           result' = "EOF" => here = Len(file) /\ state = "padding",
           Fits => result' = "EOF" /\ Straight(rdBuf') /\ pos' = Len(file)
    PROVE  ReaderInv'
  <1>1. TypeOK' /\ RingInv'
    BY FullType DEF ReaderInv, TypeOK
  <1>2. here' = here /\ (Fits' <=> Fits) /\ here \in Nat
    <2>1. wrBuf'.size = wrBuf.size /\ file' = file /\ faulty' = faulty
      BY DEF FullFrame
    <2>2. here' = here + 0 /\ (Fits' <=> Fits)
      BY <2>1, RingKeeps
    <2>3. here \in Nat
      BY InvFacts DEF ReaderFacts
    <2> QED BY <2>2, <2>3
  <1>3. file' = file /\ faulty' = faulty /\ fed' = fed
    BY DEF FullFrame
  <1>4. PlaceInv'
    BY <1>2, <1>3 DEF ReaderInv, PlaceInv
  <1>5. FlowInv'
    BY <1>2, <1>3, FrameKeeps DEF ReaderInv, FlowInv
  <1>6. CallInv'
    <2>1. rdErr' = "err" => faulty
      BY DEF ReaderInv, CallInv, FullFrame
    <2> QED BY <1>3, <2>1 DEF CallInv
  <1>7. EndInv'
    BY <1>2, <1>3 DEF EndInv
  <1>8. FitInv'
    <2>1. ASSUME Fits' PROVE /\ result' # "err" /\ ~fed' /\ Straight(rdBuf')
                             /\ pos' = Len(file')
      BY <1>2, <1>3, <2>1 DEF ReaderInv, FitInv
    <2> QED BY <2>1 DEF FitInv
  <1> QED BY <1>1, <1>4, <1>5, <1>6, <1>7, <1>8 DEF ReaderInv

\* The source fails, or there is not enough.
LEMMA FullFailedKeeps ==
    ASSUME ReaderInv, cl = "read", FullFrame, state # "data", FullFailed
    PROVE  ReaderInv'
  BY FullEnds DEF FullFailed, Fits

LEMMA FullShortKeeps ==
    ASSUME ReaderInv, cl = "read", FullFrame, state # "data",
           NEW size, FullShort(size),
           Fits => here = Len(file) /\ state = "padding",
           state = "header" => here # Len(file)
    PROVE  ReaderInv'
  <1>1. /\ cl' = "idle" /\ state' = state /\ RingNext(0) /\ FitNext
        /\ result' = IF CanEOF(state) /\ here = Len(file) THEN "EOF" ELSE "err"
    BY DEF FullShort
  <1>2. /\ result' \in {"EOF", "err"}
        /\ result' = "EOF" => here = Len(file) /\ state = "padding"
        /\ Fits => result' = "EOF"
    BY <1>1 DEF CanEOF
  <1>3. Fits => result' = "EOF" /\ Straight(rdBuf') /\ pos' = Len(file)
    BY <1>1, <1>2 DEF FitNext
  <1> QED BY <1>1, <1>2, <1>3, FullEnds

\* Units that are not data leave the ring.
LEMMA DataSkipped ==
    ASSUME NEW f \in Seq(Int), NEW n \in Nat, NEW k \in Nat,
           \A i \in 1 .. k : ~IsData(f[n + i])
    PROVE  DataTo(f, n + k) = DataTo(f, n)
  <1>1. DataUnits(f, n + k) = DataUnits(f, n)
    <2>1. ASSUME NEW j \in 1 .. n + k, IsData(f[j]) PROVE j \in 1 .. n
      <3>1. ASSUME j > n PROVE FALSE
        <4>1. j - n \in 1 .. k /\ n + (j - n) = j
          BY <3>1
        <4> QED BY <2>1, <4>1
      <3> QED BY <3>1
    <2>2. \A j \in 1 .. n : j \in 1 .. n + k
      OBVIOUS
    <2> QED BY <2>1, <2>2 DEF DataUnits
  <1>2. n + k \in Nat
    OBVIOUS
  <1>3. DataCount(f, n + k) = DataCount(f, n)
    BY <1>1, <1>2, CountFacts
  <1> QED BY <1>3 DEF DataTo

LEMMA FullMovedKeeps ==
    ASSUME ReaderInv, cl = "read", FullFrame, state # "data",
           NEW size \in {1, 2}, NEW move, FullMoved(size, move),
           move.took \in {0, 1, 2}, move.next # "bad",
           move.next \in {"header", "block", "data", "index", "footer",
                          "padding"},
           \A i \in 1 .. move.took : ~IsData(file[here + i]),
           here' = here + move.took => PlaceInv'
    PROVE  ReaderInv'
  <1> DEFINE k == move.took
  <1>1. /\ here + size <= Len(file) /\ RingNext(k) /\ FitNext
        /\ state' = move.next /\ cl' = cl /\ result' = result
    BY DEF FullMoved
  <1>2. file' = file /\ faulty' = faulty /\ fed' = fed
        /\ wrBuf'.size = wrBuf.size /\ rdErr' \in {rdErr, "nil"}
    BY DEF FullFrame
  <1>0. ReaderFacts
    BY InvFacts
  <1>3. TypeOK' /\ RingInv'
    BY <1>1, FullType DEF ReaderInv, TypeOK
  <1>4. here' = here + k /\ (Fits' <=> Fits)
    BY <1>1, <1>2, RingKeeps
  <1>5. PlaceInv'
    BY <1>4
  <1>6. FlowInv'
    <2>0. k \in Nat
      OBVIOUS
    <2>1. DataTo(file, here + k) = DataTo(file, here)
      BY <1>0, <2>0, DataSkipped DEF ReaderFacts
    <2> HIDE DEF k
    <2>2. Ahead' = DataTo(file', here')
      BY <1>2, <1>4, <2>1, FrameKeeps DEF ReaderInv, FlowInv
    <2> QED BY <2>2, FrameKeeps DEF FlowInv
  <1>7. CallInv'
    <2>1. /\ cl = "read" => result # "err"
          /\ rdErr = "err" => faulty
          /\ cl = "read" /\ rdErr = "EOF" => pos = Len(file)
      BY DEF ReaderInv, CallInv
    <2>2. pos' \in Nat /\ pos <= pos' /\ pos' <= Len(file)
      BY <1>1 DEF RingNext
    <2>3. pos = Len(file) => pos' = Len(file)
      BY <1>0, <2>2 DEF ReaderFacts
    <2> QED BY <1>1, <1>2, <2>1, <2>3 DEF CallInv
  <1>8. EndInv'
    <2>1. here # Len(file)
      BY <1>0, <1>1 DEF ReaderFacts
    <2> QED BY <1>1, <2>1 DEF ReaderInv, EndInv
  <1>9. FitInv'
    <2>1. ASSUME Fits' PROVE /\ result' # "err" /\ ~fed' /\ Straight(rdBuf')
                             /\ pos' = Len(file')
      BY <1>1, <1>2, <1>4, <2>1 DEF ReaderInv, FitInv, FitNext
    <2> QED BY <2>1 DEF FitInv
  <1> QED BY <1>3, <1>5, <1>6, <1>7, <1>8, <1>9 DEF ReaderInv
-----------------------------------------------------------------------------
(***************************************************************************)
(* The states that use readFull.                                           *)
(***************************************************************************)
LEMMA UnitFacts ==
    /\ Len(Header) = 2 /\ Len(Footer) = 2
    /\ Header = <<-1, -2>> /\ Footer = <<-3, -4>>
    /\ Header[1] = -1 /\ Header[2] = -2 /\ Footer[1] = -3 /\ Footer[2] = -4
    /\ Last(Footer) = -4
  BY DEF Header, Footer, Last

\* Where the file goes on.
LEMMA NextUnit ==
    ASSUME ReaderInv, NEW p \in Nat, p > 0, p < Len(file)
    PROVE  Follows(file[p], file[p + 1])
  <1>1. Len(file) \in Nat /\ Formed(file)
    BY InvFacts DEF ReaderFacts, ReaderInv, RingInv
  <1>2. p \in 1 .. Len(file) - 1
    BY <1>1
  <1> QED BY <1>1, <1>2 DEF Formed

LEMMA FirstUnit ==
    ASSUME ReaderInv, Len(file) > 0
    PROVE  file[1] = -1
  <1>1. file \in Seq(Int) /\ Formed(file)
    BY InvFacts DEF ReaderFacts, ReaderInv, RingInv
  <1>2. file # <<>>
    BY <1>1
  <1> QED BY <1>1, <1>2, UnitFacts DEF Formed

\* Where it ends.
LEMMA WholeFacts ==
    ASSUME ReaderInv
    PROVE  Whole(file) <=> Len(file) > 0 /\ file[Len(file)] \in {-4, -9}
  <1>1. file \in Seq(Int)
    BY InvFacts DEF ReaderFacts
  <1>2. file # <<>> <=> Len(file) > 0
    BY <1>1
  <1> QED BY <1>1, <1>2, UnitFacts DEF Whole, Last, Pad

LEMMA readHeaderStep ==
    ASSUME ReaderInv, readHeader
    PROVE  ReaderInv'
  <1> DEFINE move == HeaderMove(Got(2))
  <1>0. ReaderFacts
    BY InvFacts
  <1>1. /\ cl = "read" /\ state \in {"init", "header"} /\ state # "data"
        /\ readFull(2, move) /\ FullFrame
    BY UnitFacts DEF readHeader, FullFrame, env
  <1>2. move = [took |-> 2, next |-> IF Got(2) = Header THEN "block" ELSE "bad"]
    BY UnitFacts DEF HeaderMove, Move
  <1>3. move.took = 2 /\ move.next = IF Got(2) = Header THEN "block" ELSE "bad"
    BY <1>2
  <1> HIDE DEF move
  <1>4. FullStep(2, move)
    BY <1>1, <1>3, readFullStep
  <1>5. /\ state = "init" => here = 0
        /\ state = "header" => here < Len(file) /\ file[here + 1] = -1
    BY UnitFacts DEF ReaderInv, PlaceInv
  <1>6. here < Len(file) => file[here + 1] = -1
    <2>1. here = 0 /\ here < Len(file) => file[1] = -1 /\ here + 1 = 1
      BY <1>0, FirstUnit DEF ReaderFacts
    <2> QED BY <1>1, <1>5, <2>1
  <1>7. here + 2 <= Len(file) => file[here + 2] = -2
    <2>1. ASSUME here + 2 <= Len(file) PROVE file[here + 2] = -2
      <3>1. /\ here < Len(file) /\ here + 1 \in Nat /\ here + 1 > 0
            /\ here + 1 < Len(file) /\ (here + 1) + 1 = here + 2
        BY <1>0, <2>1 DEF ReaderFacts
      <3>2. Follows(file[here + 1], file[(here + 1) + 1])
        BY <3>1, NextUnit
      <3> QED BY <1>6, <3>1, <3>2, UnitFacts DEF Follows
    <2> QED BY <2>1
  <1>8. CASE FullFailed
    BY <1>1, <1>8, FullFailedKeeps
  <1>9. CASE FullShort(2)
    <2>1. ~Fits
      <3>1. ASSUME Fits PROVE FALSE
        <4>1. Len(file) > 0 /\ file[Len(file)] \in {-4, -9}
          BY <3>1, WholeFacts DEF Fits
        <4>2. here + 2 > Len(file)
          BY <1>9 DEF FullShort
        <4>3. here < Len(file)
          BY <1>1, <1>5, <4>1
        <4>4. here + 1 = Len(file)
          BY <1>0, <4>2, <4>3 DEF ReaderFacts
        <4> QED BY <1>6, <4>1, <4>3, <4>4
      <3> QED BY <3>1
    <2>2. state = "header" => here # Len(file)
      BY <1>0, <1>5 DEF ReaderFacts
    <2> QED BY <1>1, <1>9, <2>1, <2>2, FullShortKeeps
  <1>10. CASE FullMoved(2, move)
    <2>1. /\ here + 2 <= Len(file) /\ Got(2) \in Seq(Int) /\ Len(Got(2)) = 2
          /\ Got(2)[1] = file[here + 1] /\ Got(2)[2] = file[here + 2]
          /\ here < Len(file)
      BY <1>0, <1>10 DEF FullMoved, ReaderFacts
    <2>2. Got(2) = Header
      <3>1. Got(2)[1] = -1 /\ Got(2)[2] = -2
        BY <1>6, <1>7, <2>1
      <3> QED BY <2>1, <3>1, UnitFacts
    <2>3. move.next = "block" /\ state' = "block" /\ file' = file
      BY <1>1, <1>3, <1>10, <2>2 DEF FullMoved, FullFrame
    <2>4. \A i \in 1 .. 2 : ~IsData(file[here + i])
      BY <1>6, <1>7, <2>1 DEF IsData
    <2>5. ASSUME here' = here + 2 PROVE PlaceInv'
      <3>1. here' > 0 /\ file'[here'] = -2
        BY <1>0, <1>7, <2>1, <2>3, <2>5 DEF ReaderFacts
      <3> QED BY <2>3, <3>1, UnitFacts DEF PlaceInv
    <2> QED BY <1>1, <1>3, <1>10, <2>3, <2>4, <2>5, FullMovedKeeps
  <1> QED BY <1>4, <1>8, <1>9, <1>10 DEF FullStep

LEMMA openBlockStep ==
    ASSUME ReaderInv, openBlock
    PROVE  ReaderInv'
  <1> DEFINE move == BlockMove(Got(1))
  <1>0. ReaderFacts
    BY InvFacts
  <1>1. /\ cl = "read" /\ state = "block" /\ state # "data"
        /\ readFull(1, move) /\ FullFrame
        /\ z' = IF state' = "data" THEN Coder(<<>>, 0) ELSE z
    BY DEF openBlock, FullFrame, env
  <1>2. /\ Got(1) = <<BlockStart>> => move.took = 1 /\ move.next = "data"
        /\ Got(1) # <<BlockStart>> /\ Got(1) = <<IndexStart>> =>
             move.took = 0 /\ move.next = "index"
        /\ move.took \in 0 .. 1
    BY DEF BlockMove, Move
  <1> HIDE DEF move
  <1>3. FullStep(1, move)
    BY <1>1, <1>2, readFullStep
  <1>4. here > 0 /\ file[here] \in {-2, -6}
    BY <1>1, UnitFacts DEF ReaderInv, PlaceInv, EndUnit
  <1>5. here < Len(file) => file[here + 1] \in {BlockStart, IndexStart}
    <2>1. here < Len(file) => Follows(file[here], file[here + 1])
      BY <1>0, <1>4, NextUnit DEF ReaderFacts
    <2> QED BY <1>4, <2>1, UnitFacts DEF Follows, EndUnit
  <1>6. CASE FullFailed
    BY <1>1, <1>6, FullFailedKeeps
  <1>7. CASE FullShort(1)
    <2>1. ~Fits
      <3>1. ASSUME Fits PROVE FALSE
        <4>1. Len(file) > 0 /\ file[Len(file)] \in {-4, -9}
          BY <3>1, WholeFacts DEF Fits
        <4>2. here + 1 > Len(file)
          BY <1>7 DEF FullShort
        <4>3. here = Len(file)
          BY <1>0, <4>2 DEF ReaderFacts
        <4> QED BY <1>4, <4>1, <4>3
      <3> QED BY <3>1
    <2> QED BY <1>1, <1>7, <2>1, FullShortKeeps
  <1>8. CASE FullMoved(1, move)
    <2>1. /\ here + 1 <= Len(file) /\ Got(1) \in Seq(Int) /\ Len(Got(1)) = 1
          /\ Got(1)[1] = file[here + 1] /\ here < Len(file)
      BY <1>0, <1>8 DEF FullMoved, ReaderFacts
    <2>2. Got(1) = <<file[here + 1]>>
      BY <2>1
    <2>3. CASE file[here + 1] = BlockStart
      <3>1. move.took = 1 /\ move.next = "data"
        BY <1>2, <2>2, <2>3
      <3>2. state' = "data" /\ file' = file /\ z' = Coder(<<>>, 0)
        BY <1>1, <1>8, <3>1 DEF FullMoved, FullFrame
      <3>3. \A i \in 1 .. 1 : ~IsData(file[here + i])
        BY <2>3 DEF IsData, BlockStart
      <3>4. ASSUME here' = here + 1 PROVE PlaceInv'
        <4>1. here' > 0 /\ file'[here'] = BlockStart /\ z'.ended = FALSE
          BY <1>0, <2>3, <3>2, <3>4, NewCoder DEF ReaderFacts
        <4> QED BY <3>2, <4>1 DEF PlaceInv
      <3> QED BY <1>1, <1>8, <3>1, <3>3, <3>4, FullMovedKeeps
    <2>4. CASE file[here + 1] = IndexStart
      <3>1. move.took = 0 /\ move.next = "index"
        <4>1. Got(1) = <<IndexStart>> /\ Got(1) # <<BlockStart>>
          BY <2>2, <2>4 DEF IndexStart, BlockStart
        <4> QED BY <1>2, <4>1
      <3>2. state' = "index" /\ file' = file
        BY <1>8, <1>1, <3>1 DEF FullMoved, FullFrame
      <3>3. \A i \in 1 .. 0 : ~IsData(file[here + i])
        OBVIOUS
      <3>4. ASSUME here' = here + 0 PROVE PlaceInv'
        <4>1. here' = here /\ here' < Len(file') /\ file'[here' + 1] = IndexStart
          BY <1>0, <2>1, <2>4, <3>2, <3>4 DEF ReaderFacts
        <4> QED BY <1>4, <3>2, <4>1 DEF PlaceInv
      <3> QED BY <1>1, <1>8, <3>1, <3>3, <3>4, FullMovedKeeps
    <2> QED BY <1>5, <2>1, <2>3, <2>4
  <1> QED BY <1>3, <1>6, <1>7, <1>8 DEF FullStep

LEMMA readFooterStep ==
    ASSUME ReaderInv, readFooter
    PROVE  ReaderInv'
  <1> DEFINE move == FooterMove(Got(2))
  <1>0. ReaderFacts
    BY InvFacts
  <1>1. /\ cl = "read" /\ state = "footer" /\ state # "data"
        /\ readFull(2, move) /\ FullFrame
    BY UnitFacts DEF readFooter, FullFrame, env
  <1>2. move = [took |-> 2,
                next |-> IF Got(2) = Footer THEN "padding" ELSE "bad"]
    BY UnitFacts DEF FooterMove, Move
  <1>3. move.took = 2 /\ move.next = IF Got(2) = Footer THEN "padding" ELSE "bad"
    BY <1>2
  <1> HIDE DEF move
  <1>4. FullStep(2, move)
    BY <1>1, <1>3, readFullStep
  <1>5. here > 0 /\ file[here] = -8
    BY <1>1 DEF ReaderInv, PlaceInv, IndexEnd
  <1>6. here < Len(file) => file[here + 1] = -3
    <2>1. here < Len(file) => Follows(file[here], file[here + 1])
      BY <1>0, <1>5, NextUnit DEF ReaderFacts
    <2> QED BY <1>5, <2>1, UnitFacts DEF Follows, IndexEnd
  <1>7. here + 2 <= Len(file) => file[here + 2] = -4
    <2>1. ASSUME here + 2 <= Len(file) PROVE file[here + 2] = -4
      <3>1. /\ here < Len(file) /\ here + 1 \in Nat /\ here + 1 > 0
            /\ here + 1 < Len(file) /\ (here + 1) + 1 = here + 2
        BY <1>0, <2>1 DEF ReaderFacts
      <3>2. Follows(file[here + 1], file[(here + 1) + 1])
        BY <3>1, NextUnit
      <3> QED BY <1>6, <3>1, <3>2, UnitFacts DEF Follows
    <2> QED BY <2>1
  <1>8. CASE FullFailed
    BY <1>1, <1>8, FullFailedKeeps
  <1>9. CASE FullShort(2)
    <2>1. ~Fits
      <3>1. ASSUME Fits PROVE FALSE
        <4>1. Len(file) > 0 /\ file[Len(file)] \in {-4, -9}
          BY <3>1, WholeFacts DEF Fits
        <4>2. here + 2 > Len(file)
          BY <1>9 DEF FullShort
        <4>3. here # Len(file)
          BY <1>5, <4>1
        <4>4. here < Len(file) /\ here + 1 = Len(file)
          BY <1>0, <4>2, <4>3 DEF ReaderFacts
        <4> QED BY <1>6, <4>1, <4>4
      <3> QED BY <3>1
    <2> QED BY <1>1, <1>9, <2>1, FullShortKeeps
  <1>10. CASE FullMoved(2, move)
    <2>1. /\ here + 2 <= Len(file) /\ Got(2) \in Seq(Int) /\ Len(Got(2)) = 2
          /\ Got(2)[1] = file[here + 1] /\ Got(2)[2] = file[here + 2]
          /\ here < Len(file)
      BY <1>0, <1>10 DEF FullMoved, ReaderFacts
    <2>2. Got(2) = Footer
      <3>1. Got(2)[1] = -3 /\ Got(2)[2] = -4
        BY <1>6, <1>7, <2>1
      <3> QED BY <2>1, <3>1, UnitFacts
    <2>3. move.next = "padding" /\ state' = "padding" /\ file' = file
      BY <1>1, <1>3, <1>10, <2>2 DEF FullMoved, FullFrame
    <2>4. \A i \in 1 .. 2 : ~IsData(file[here + i])
      BY <1>6, <1>7, <2>1 DEF IsData
    <2>5. ASSUME here' = here + 2 PROVE PlaceInv'
      <3>1. here' > 0 /\ file'[here'] = -4
        BY <1>0, <1>7, <2>1, <2>3, <2>5 DEF ReaderFacts
      <3> QED BY <2>3, <3>1, UnitFacts DEF PlaceInv
    <2> QED BY <1>1, <1>3, <1>10, <2>3, <2>4, <2>5, FullMovedKeeps
  <1> QED BY <1>4, <1>8, <1>9, <1>10 DEF FullStep

LEMMA readPaddingStep ==
    ASSUME ReaderInv, readPadding
    PROVE  ReaderInv'
  <1> DEFINE move == PaddingMove(Got(1))
  <1>0. ReaderFacts
    BY InvFacts
  <1>1. /\ cl = "read" /\ state = "padding" /\ state # "data"
        /\ readFull(1, move) /\ FullFrame
    BY DEF readPadding, FullFrame, env
  <1>2. /\ Got(1) = <<Pad>> => move.took = 1 /\ move.next = "padding"
        /\ Got(1) # <<Pad>> => move.took = 0 /\ move.next = "header"
        /\ move.took \in 0 .. 1
    BY DEF PaddingMove, SkipPadding, Move
  <1> HIDE DEF move
  <1>3. FullStep(1, move)
    BY <1>1, <1>2, readFullStep
  <1>4. here > 0 /\ file[here] \in {-4, -9}
    BY <1>1, UnitFacts DEF ReaderInv, PlaceInv, Pad
  <1>5. here < Len(file) => file[here + 1] \in {-1, -9}
    <2>1. here < Len(file) => Follows(file[here], file[here + 1])
      BY <1>0, <1>4, NextUnit DEF ReaderFacts
    <2> QED BY <1>4, <2>1, UnitFacts DEF Follows, Pad
  <1>6. CASE FullFailed
    BY <1>1, <1>6, FullFailedKeeps
  <1>7. CASE FullShort(1)
    <2>1. here + 1 > Len(file)
      BY <1>7 DEF FullShort
    <2>2. here = Len(file)
      BY <1>0, <2>1 DEF ReaderFacts
    <2> QED BY <1>1, <1>7, <2>2, FullShortKeeps
  <1>8. CASE FullMoved(1, move)
    <2>1. /\ here + 1 <= Len(file) /\ Got(1) \in Seq(Int) /\ Len(Got(1)) = 1
          /\ Got(1)[1] = file[here + 1] /\ here < Len(file)
      BY <1>0, <1>8 DEF FullMoved, ReaderFacts
    <2>2. Got(1) = <<file[here + 1]>>
      BY <2>1
    <2>3. CASE file[here + 1] = -9
      <3>1. move.took = 1 /\ move.next = "padding"
        BY <1>2, <2>2, <2>3 DEF Pad
      <3>2. state' = "padding" /\ file' = file
        BY <1>1, <1>8, <3>1 DEF FullMoved, FullFrame
      <3>3. \A i \in 1 .. 1 : ~IsData(file[here + i])
        BY <2>3 DEF IsData
      <3>4. ASSUME here' = here + 1 PROVE PlaceInv'
        <4>1. here' > 0 /\ file'[here'] = Pad
          BY <1>0, <2>3, <3>2, <3>4 DEF ReaderFacts, Pad
        <4> QED BY <3>2, <4>1 DEF PlaceInv
      <3> QED BY <1>1, <1>8, <3>1, <3>3, <3>4, FullMovedKeeps
    <2>4. CASE file[here + 1] = -1
      <3>1. move.took = 0 /\ move.next = "header"
        <4>1. Got(1) # <<Pad>>
          BY <2>2, <2>4 DEF Pad
        <4> QED BY <1>2, <4>1
      <3>2. state' = "header" /\ file' = file
        BY <1>8, <1>1, <3>1 DEF FullMoved, FullFrame
      <3>3. \A i \in 1 .. 0 : ~IsData(file[here + i])
        OBVIOUS
      <3>4. ASSUME here' = here + 0 PROVE PlaceInv'
        <4>1. here' = here /\ here' < Len(file') /\ file'[here' + 1] = Header[1]
          BY <1>0, <2>1, <2>4, <3>2, <3>4, UnitFacts DEF ReaderFacts
        <4> QED BY <1>4, <3>2, <4>1 DEF PlaceInv
      <3> QED BY <1>1, <1>8, <3>1, <3>3, <3>4, FullMovedKeeps
    <2> QED BY <1>5, <2>1, <2>3, <2>4
  <1> QED BY <1>3, <1>6, <1>7, <1>8 DEF FullStep
-----------------------------------------------------------------------------
(***************************************************************************)
(* The states that call Process.                                           *)
(***************************************************************************)
FetchedOf(f) == WriteMark(rdBuf, SubSeq(Rest, 1, f.n))
SliceOf(f) == ReadSlice(FetchedOf(f))

\* A read, and what the coder gets of it.
FetchView(f) ==
    /\ f.n \in Nat /\ pos + f.n <= Len(file) /\ f.err \in RdErrs
    /\ f.err = "err" => faulty
    /\ f.err = "EOF" => pos + f.n = Len(file)
    /\ IsRing(FetchedOf(f)) /\ FetchedOf(f).size = rdBuf.size
    /\ Len(FetchedOf(f).q) = Len(rdBuf.q) + f.n
    /\ Views(FetchedOf(f).q, file, here)
    /\ Fits /\ state # "init" =>
         Straight(FetchedOf(f)) /\ pos + f.n = Len(file)

LEMMA FetchViews ==
    ASSUME ReaderInv, cl = "read", NEW f \in Fetches(rdBuf, rdErr, Rest, faulty)
    PROVE  FetchView(f)
  <1> DEFINE N == Len(file)
             n == f.n
             buf == FetchedOf(f)
             m == Len(rdBuf.q)
  <1>0. /\ file \in Seq(Int) /\ N \in Nat /\ faulty \in BOOLEAN
        /\ pos \in Nat /\ pos <= N /\ IsRing(rdBuf)
        /\ rdBuf.q \in Seq(Int) /\ m \in Nat
        /\ rdBuf.size \in Nat /\ m <= rdBuf.size
    BY InvFacts DEF ReaderFacts
  <1>1. rdErr \in RdErrs
    BY DEF ReaderInv, TypeOK, RdErrs
  <1>2. Rest \in Seq(Int) /\ Len(Rest) = N - pos
    BY <1>0, Split DEF Rest
  <1>3. FetchStep(rdBuf, rdErr, Rest, faulty, f)
    BY <1>0, <1>1, <1>2, FetchFacts
  <1>4. /\ n \in 0 .. N - pos /\ f.err \in RdErrs /\ n <= WriteSlice(rdBuf)
        /\ rdBuf.q # <<>> \/ rdErr # "nil" => n = 0 /\ f.err = rdErr
        /\ rdBuf.q = <<>> /\ rdErr = "nil" =>
             (f.err = "EOF" => n = N - pos) /\ (f.err = "err" => faulty)
    BY <1>2, <1>3 DEF FetchStep
  <1>5. WriteSlice(rdBuf) \in Nat /\ WriteSlice(rdBuf) <= rdBuf.size - m
    BY <1>0, WriteSliceFacts
  <1>6. n \in Nat /\ pos + n <= N /\ n <= rdBuf.size - m
    <2> HIDE DEF n, N, m
    <2> QED BY <1>0, <1>4, <1>5
  <1>7. Views(rdBuf.q, file, pos - m)
    BY DEF ReaderInv, RingInv, here
  <1>8. ViewFilled(rdBuf, file, pos, n, buf)
    <2>1. pos \in 0 .. N
      BY <1>0
    <2>2. buf = WriteMark(rdBuf, SubSeq(SubSeq(file, pos + 1, Len(file)), 1, n))
      BY DEF FetchedOf, Rest
    <2> HIDE DEF buf, n
    <2> QED BY <1>0, <1>4, <1>6, <1>7, <2>1, <2>2, FillView
  <1>9. /\ rdErr = "err" => faulty
        /\ rdErr = "EOF" => pos = N
    BY DEF ReaderInv, CallInv
  <1>10. (f.err = "err" => faulty) /\ (f.err = "EOF" => pos + n = N)
    <2> HIDE DEF n, N
    <2>1. CASE rdBuf.q # <<>> \/ rdErr # "nil"
      BY <1>0, <1>4, <1>9, <2>1
    <2>2. CASE rdBuf.q = <<>> /\ rdErr = "nil"
      BY <1>0, <1>4, <1>6, <2>2
    <2> QED BY <2>1, <2>2
  <1>11. /\ IsRing(buf) /\ buf.size = rdBuf.size /\ buf.at = rdBuf.at
         /\ Len(buf.q) = m + n /\ Views(buf.q, file, here)
    BY <1>8 DEF ViewFilled, here
  <1>12. ASSUME Fits, state # "init"
         PROVE  Straight(buf) /\ pos + n = N
    <2>1. Straight(rdBuf) /\ pos = N
      BY <1>12 DEF ReaderInv, FitInv
    <2>2. n = 0 /\ pos + n = N
      <3> HIDE DEF n, N
      <3> QED BY <1>0, <1>6, <2>1
    <2>3. Len(buf.q) = Len(rdBuf.q)
      BY <1>0, <1>11, <2>2
    <2> QED BY <1>11, <2>1, <2>2, <2>3 DEF Straight
  <1> QED BY <1>4, <1>6, <1>10, <1>11, <1>12 DEF FetchView

SliceView(f) ==
    /\ SliceOf(f) \in Seq(Int) /\ Len(SliceOf(f)) \in Nat
    /\ Len(SliceOf(f)) <= Len(FetchedOf(f).q)
    /\ here + Len(SliceOf(f)) <= Len(file)
    /\ \A i \in 1 .. Len(SliceOf(f)) : SliceOf(f)[i] = file[here + i]
    /\ SliceOf(f) = <<>> => FetchedOf(f).q = <<>>
    /\ Fits /\ state # "init" => here + Len(SliceOf(f)) = Len(file)

LEMMA SliceViews ==
    ASSUME ReaderInv, NEW f, FetchView(f)
    PROVE  SliceView(f)
  <1> DEFINE buf == FetchedOf(f)
             l == Len(buf.q)
             k == Lesser(l, buf.size - buf.at)
             in == SliceOf(f)
  <1>0. /\ f.n \in Nat /\ IsRing(buf) /\ l = Len(rdBuf.q) + f.n
        /\ Views(buf.q, file, here)
        /\ Fits /\ state # "init" => Straight(buf) /\ pos + f.n = Len(file)
    BY DEF FetchView
  <1>1. /\ buf.size \in Nat /\ buf.at \in Nat /\ buf.q \in Seq(Int)
        /\ buf.at < buf.size /\ l \in Nat
    BY <1>0, RingFacts
  <1>2. /\ k \in Nat /\ k <= l /\ (k = 0 => l = 0)
        /\ buf.at + l <= buf.size => k = l
    BY <1>1 DEF Lesser
  <1>3. in = SubSeq(buf.q, 1, k)
    BY DEF SliceOf, ReadSlice
  <1> HIDE DEF k, in
  <1>4. k \in 0 .. l
    BY <1>1, <1>2
  <1>5. in \in Seq(Int) /\ Len(in) = k
    BY <1>1, <1>3, <1>4, Split
  <1>6. ASSUME NEW i \in 1 .. k PROVE in[i] = buf.q[i]
    <2>1. in[i] = buf.q[1 + i - 1]
      BY <1>1, <1>3, <1>4, <1>5, SubSeqProperties
    <2>2. 1 + i - 1 = i
      OBVIOUS
    <2> QED BY <2>1, <2>2
  <1>7. here \in Nat /\ here + Len(rdBuf.q) = pos /\ Len(file) \in Nat
        /\ Len(rdBuf.q) \in Nat
    BY InvFacts DEF ReaderFacts
  <1>8. here + l <= Len(file) /\ \A i \in 1 .. l : buf.q[i] = file[here + i]
    BY <1>0 DEF Views
  <1>9. \A i \in 1 .. k : in[i] = file[here + i]
    <2>1. \A i \in 1 .. k : i \in 1 .. l
      BY <1>1, <1>2
    <2> QED BY <1>6, <1>8, <2>1
  <1>10. ASSUME Fits, state # "init" PROVE here + k = Len(file)
    <2>1. buf.at + l <= buf.size /\ pos + f.n = Len(file)
      BY <1>0, <1>10 DEF Straight
    <2> HIDE DEF l
    <2>2. k = l
      BY <1>2, <2>1
    <2> QED BY <1>0, <1>7, <2>1, <2>2
  <1>11. in = <<>> => buf.q = <<>>
    <2>1. in = <<>> => k = 0
      BY <1>5
    <2>2. l = 0 => buf.q = <<>>
      BY <1>1
    <2> HIDE DEF l
    <2> QED BY <1>2, <2>1, <2>2
  <1>12. here + k <= Len(file)
    <2>1. here + l <= Len(file)
      BY <1>8
    <2> HIDE DEF l
    <2> QED BY <1>1, <1>2, <1>7, <2>1
  <1> QED BY <1>2, <1>5, <1>9, <1>10, <1>11, <1>12 DEF SliceView, in, l

Advanced(h, b, N, k, p, m) ==
    /\ p \in Nat /\ h + b <= p /\ p <= N
    /\ p - m = h + k /\ (m = 0 => p = h + k)

LEMMA Advance ==
    ASSUME NEW h \in Nat, NEW b \in Nat, NEW n \in Nat, NEW k \in Nat,
           NEW N \in Nat, k <= b + n, (h + b) + n <= N,
           NEW p, p = (h + b) + n, NEW m, m = (b + n) - k
    PROVE  Advanced(h, b, N, k, p, m)
  BY DEF Advanced

\* What the coder takes leaves the ring.
LEMMA RoundRing ==
    ASSUME ReaderInv, NEW f, FetchView(f), NEW k \in Nat,
           k <= Len(SliceOf(f)), pos' = pos + f.n,
           rdBuf' = ReadMark(FetchedOf(f), k)
    PROVE  /\ RingNext(k) /\ here + k <= Len(file)
           /\ Fits /\ state # "init" => Straight(rdBuf') /\ pos' = Len(file)
           /\ rdBuf'.q = <<>> => pos' = here + k
  <1> DEFINE buf == FetchedOf(f)
             l == Len(buf.q)
             m == Len(rdBuf'.q)
  <1>0. /\ f.n \in Nat /\ pos + f.n <= Len(file)
        /\ IsRing(buf) /\ buf.size = rdBuf.size
        /\ l = Len(rdBuf.q) + f.n /\ Views(buf.q, file, here)
        /\ Fits /\ state # "init" => Straight(buf) /\ pos + f.n = Len(file)
    BY DEF FetchView
  <1>1. Len(SliceOf(f)) \in Nat /\ Len(SliceOf(f)) <= l
        /\ here + Len(SliceOf(f)) <= Len(file)
    BY SliceViews DEF SliceView
  <1>2. /\ file \in Seq(Int) /\ here \in Nat /\ here + Len(rdBuf.q) = pos
        /\ Len(file) \in Nat /\ Len(rdBuf.q) \in Nat /\ pos \in Nat
    BY InvFacts DEF ReaderFacts
  <1>3. k \in 0 .. l /\ l \in Nat /\ here + k <= Len(file)
    <2>1. l \in Nat
      BY <1>0, RingFacts
    <2> HIDE DEF l
    <2> QED BY <1>1, <1>2, <2>1
  <1>4. ViewTaken(buf, file, here, k, rdBuf')
    BY <1>0, <1>2, <1>3, TakeView
  <1> HIDE DEF buf
  <1>5. /\ IsRing(rdBuf') /\ rdBuf'.size = rdBuf.size /\ m = l - k
        /\ Views(rdBuf'.q, file, here + k)
        /\ Straight(buf) => Straight(rdBuf')
    BY <1>0, <1>4 DEF ViewTaken
  <1>6. rdBuf'.q = <<>> => m = 0
    OBVIOUS
  <1> HIDE DEF l, m
  <1>7. /\ pos' \in Nat /\ pos <= pos' /\ pos' <= Len(file)
        /\ pos' - m = here + k /\ (m = 0 => pos' = here + k)
    <2> DEFINE N == Len(file)
               b == Len(rdBuf.q)
    <2>1. /\ f.n \in Nat /\ pos + f.n <= N /\ l = b + f.n /\ m = l - k
          /\ here \in Nat /\ here + b = pos /\ N \in Nat /\ b \in Nat
          /\ pos \in Nat /\ k \in 0 .. l /\ l \in Nat /\ pos' = pos + f.n
      BY <1>0, <1>2, <1>3, <1>5
    <2> HIDE DEF N, b
    <2>2. k <= b + f.n /\ (here + b) + f.n <= N
      BY <2>1, SMTT(30)
    <2>3. pos' = (here + b) + f.n /\ m = (b + f.n) - k
      BY <2>1
    <2>4. Advanced(here, b, N, k, pos', m)
      BY <2>1, <2>2, <2>3, Advance, Zenon
    <2> QED BY <2>1, <2>4 DEF N, Advanced
  <1>8. RingNext(k)
    BY <1>5, <1>7 DEF RingNext, m
  <1> QED BY <1>0, <1>3, <1>5, <1>6, <1>7, <1>8

\* Until its end comes, an index has only units of an index ...
LEMMA IndexRun ==
    ASSUME ReaderInv, state = "index", NEW k \in Nat, here + k <= Len(file),
           \A i \in 1 .. k : file[here + i] # IndexEnd
    PROVE  \A i \in 1 .. k : file[here + i] = IndexStart
  <1>0. file \in Seq(Int) /\ Len(file) \in Nat /\ here \in Nat
    BY InvFacts DEF ReaderFacts
  <1>1. \A i \in 1 .. Len(file) - 1 :
          file[i] \in {IndexStart} => file[i + 1] \in {IndexStart} \cup {IndexEnd}
    BY DEF ReaderInv, RingInv, Formed, Follows
  <1>2. /\ here > 0
        /\ file[here] = IndexStart \/ file[here + 1] = IndexStart
    BY DEF ReaderInv, PlaceInv
  <1>3. ASSUME NEW i \in 1 .. k PROVE file[here + i] = IndexStart
    <2> DEFINE b == here + i
    <2>1. /\ b \in 1 .. Len(file) /\ i \in Nat /\ i >= 1 /\ i <= k
          /\ here \in 1 .. Len(file) /\ here + 1 \in 1 .. Len(file)
      BY <1>0, <1>2
    <2>2. \A j \in here + 1 .. b : file[j] # IndexEnd
      <3>1. ASSUME NEW j \in here + 1 .. b PROVE file[j] # IndexEnd
        <4>1. j - here \in 1 .. k /\ here + (j - here) = j
          BY <1>0, <2>1
        <4> QED BY <4>1
      <3> QED BY <3>1
    <2>3. CASE file[here] = IndexStart
      <3>1. \A j \in here .. b : file[j] \in {IndexStart}
        <4> HIDE DEF b
        <4> QED BY <1>0, <1>1, <2>1, <2>2, <2>3, RunGoesOn
      <3>2. b \in here .. b
        BY <1>0, <2>1
      <3> QED BY <3>1, <3>2
    <2>4. CASE file[here + 1] = IndexStart
      <3> DEFINE a == here + 1
      <3>1. \A j \in a + 1 .. b : file[j] # IndexEnd
        BY <1>0, <2>1, <2>2
      <3>2. b \in a .. b
        BY <1>0, <2>1
      <3>3. \A j \in a .. b : file[j] \in {IndexStart}
        <4> HIDE DEF b, a
        <4>1. file[a] \in {IndexStart} /\ a \in 1 .. Len(file)
          BY <2>1, <2>4 DEF a
        <4> QED BY <1>0, <1>1, <2>1, <3>1, <4>1, RunGoesOn
      <3> QED BY <3>2, <3>3
    <2> QED BY <1>2, <2>3, <2>4
  <1> QED BY <1>3

\* ... and a block has only data.
LEMMA BlockRun ==
    ASSUME ReaderInv, state = "data", ~z.ended, NEW k \in Nat,
           here + k <= Len(file), \A i \in 1 .. k : file[here + i] # EndUnit
    PROVE  \A i \in 1 .. k : IsData(file[here + i])
  <1> DEFINE S == {t \in Int : t = BlockStart \/ IsData(t)}
  <1>0. /\ file \in Seq(Int) /\ Len(file) \in Nat /\ here \in Nat
        /\ \A i \in 1 .. Len(file) : file[i] \in Int
    BY InvFacts DEF ReaderFacts
  <1>1. \A i \in 1 .. Len(file) - 1 :
          file[i] \in S => file[i + 1] = EndUnit \/ IsData(file[i + 1])
    BY DEF ReaderInv, RingInv, Formed, Follows
  <1>2. \A i \in 1 .. Len(file) - 1 : file[i] \in S => file[i + 1] \in S \cup {EndUnit}
    <2>1. \A i \in 1 .. Len(file) - 1 : i + 1 \in 1 .. Len(file)
      BY <1>0
    <2> QED BY <1>0, <1>1, <2>1
  <1>3. here > 0 /\ (file[here] = BlockStart \/ IsData(file[here]))
    BY DEF ReaderInv, PlaceInv
  <1>4. ASSUME NEW i \in 1 .. k PROVE IsData(file[here + i])
    <2> DEFINE b == here + i
               c == b - 1
    <2>1. /\ b \in 1 .. Len(file) /\ i \in Nat /\ i >= 1 /\ i <= k
          /\ here \in 1 .. Len(file) /\ c \in here .. b
          /\ c \in 1 .. Len(file) - 1 /\ c + 1 = b
      BY <1>0, <1>3
    <2>2. \A j \in here + 1 .. b : file[j] # EndUnit
      <3>1. ASSUME NEW j \in here + 1 .. b PROVE file[j] # EndUnit
        <4>1. j - here \in 1 .. k /\ here + (j - here) = j
          BY <1>0, <2>1
        <4> QED BY <4>1
      <3> QED BY <3>1
    <2>3. file[here] \in S
      BY <1>0, <1>3, <2>1
    <2> HIDE DEF S, b, c
    <2>4. \A j \in here .. b : file[j] \in S
      BY <1>0, <1>2, <2>1, <2>2, <2>3, RunGoesOn
    <2>5. file[c] \in S
      BY <2>1, <2>4
    <2>6. file[c + 1] = EndUnit \/ IsData(file[c + 1])
      BY <1>1, <2>1, <2>5
    <2>7. file[b] = EndUnit \/ IsData(file[b])
      BY <2>1, <2>6
    <2>8. file[here + i] # EndUnit
      OBVIOUS
    <2> QED BY <2>7, <2>8 DEF b
  <1> QED BY <1>4

\* A round of the index decoder that takes k units.
IndexRound(k) ==
    /\ file' = file /\ faulty' = faulty /\ wrBuf' = wrBuf /\ z' = z
    /\ room' = room /\ out' = out
    /\ k \in Nat /\ here + k <= Len(file) /\ RingNext(k)
    /\ \A i \in 1 .. k : ~IsData(file[here + i])
    /\ fed' \in BOOLEAN
    /\ rdErr' \in RdErrs /\ (rdErr' = "err" => faulty)
    /\ rdErr' = "EOF" => pos' = Len(file)
    /\ \/ cl' = "read" /\ result' = result
       \/ cl' = "idle" /\ result' \in {"EOF", "err"}
    /\ result' = "EOF" => here + k = Len(file) /\ state' = "index"
    /\ state' \in {"index", "footer"}
    /\ state' = "index" =>
         \/ file[here + k] = IndexStart
         \/ here + k < Len(file) /\ file[(here + k) + 1] = IndexStart
    /\ state' = "footer" => file[here + k] = IndexEnd
    /\ Fits => /\ result' # "err" /\ ~fed'
               /\ Straight(rdBuf') /\ pos' = Len(file)

LEMMA IndexKeeps ==
    ASSUME ReaderInv, cl = "read", state = "index", NEW k, IndexRound(k)
    PROVE  ReaderInv'
  <1>0. ReaderFacts
    BY InvFacts
  <1>1. /\ file' = file /\ faulty' = faulty /\ wrBuf' = wrBuf /\ z' = z
        /\ room' = room /\ out' = out /\ wrBuf'.size = wrBuf.size
        /\ k \in Nat /\ RingNext(k)
    BY DEF IndexRound
  <1>2. /\ RingInv' /\ here' = here + k /\ pos' \in 0 .. Len(file)
        /\ (Fits' <=> Fits) /\ IsRing(rdBuf')
    BY <1>1, RingKeeps
  <1>3. TypeOK /\ here > 0
    BY DEF ReaderInv, PlaceInv
  <1>4. TypeOK'
    <2>1. /\ cl' \in {"idle", "read"} /\ result' \in {"ok", "EOF", "err"}
          /\ rdErr' \in {"nil", "EOF", "err"} /\ fed' \in BOOLEAN
      BY <1>3 DEF IndexRound, TypeOK, RdErrs
    <2>2. state' \in {"init", "header", "block", "data", "index", "footer",
                      "padding"}
      BY DEF IndexRound
    <2> QED BY <1>1, <1>2, <1>3, <2>1, <2>2 DEF TypeOK
  <1>5. PlaceInv'
    <2>1. here' > 0
      BY <1>0, <1>1, <1>2, <1>3 DEF ReaderFacts
    <2>2. state' \in {"index", "footer"}
      BY DEF IndexRound
    <2>3. state' = "footer" => file'[here'] = IndexEnd
      BY <1>1, <1>2 DEF IndexRound
    <2>4. state' = "index" => \/ file'[here'] = IndexStart
                              \/ /\ here' < Len(file')
                                 /\ file'[here' + 1] = IndexStart
      BY <1>1, <1>2 DEF IndexRound
    <2> QED BY <2>1, <2>2, <2>3, <2>4 DEF PlaceInv
  <1>6. FlowInv'
    <2>1. DataTo(file, here + k) = DataTo(file, here)
      BY <1>0, <1>1, DataSkipped DEF ReaderFacts, IndexRound
    <2>2. /\ Ahead = DataTo(file, here) /\ z.skip = 0
          /\ wrBuf.q = <<>> /\ z.held = <<>>
      BY DEF ReaderInv, FlowInv
    <2>3. Ahead' = Ahead
      BY <1>1 DEF Ahead
    <2>4. Ahead' = DataTo(file', here')
      BY <1>1, <1>2, <2>1, <2>2, <2>3
    <2> QED BY <1>1, <2>2, <2>4 DEF FlowInv
  <1>7. CallInv'
    <2>1. result # "err"
      BY DEF ReaderInv, CallInv
    <2> QED BY <1>1, <2>1 DEF CallInv, IndexRound
  <1>8. EndInv'
    BY <1>1, <1>2 DEF EndInv, IndexRound
  <1>9. FitInv'
    BY <1>1, <1>2 DEF FitInv, IndexRound
  <1> QED BY <1>2, <1>4, <1>5, <1>6, <1>7, <1>8, <1>9 DEF ReaderInv

\* The three ways of the index decoder.
IndexCall(in, d) ==
    \/ fed /\ d.took = 0 /\ d.ret = "PROG_ERROR"
    \/ /\ d.took = Len(in) /\ d.ret = "OK"
       /\ \A i \in 1 .. d.took : in[i] # IndexEnd
    \/ /\ d.took \in 1 .. Len(in) /\ d.ret = "STREAM_END"
       /\ in[d.took] = IndexEnd
       /\ \A i \in 1 .. d.took - 1 : in[i] # IndexEnd

LEMMA IndexCalls ==
    ASSUME NEW in \in Seq(Int),
           NEW d \in IndexDecoded(in, fed /\ in # <<>>)
    PROVE  IndexCall(in, d)
  <1> DEFINE Open(n) == \A i \in 1 .. n : in[i] # IndexEnd
  <1>1. CASE fed /\ in # <<>>
    <2>1. d \in [took : {0}, ret : {"PROG_ERROR"}]
      BY <1>1 DEF IndexDecoded
    <2>2. d.took = 0 /\ d.ret = "PROG_ERROR"
      BY <2>1
    <2> QED BY <1>1, <2>2 DEF IndexCall
  <1>2. CASE ~(fed /\ in # <<>>)
    <2>1. \/ d \in [took : {n \in {Len(in)} : Open(n)}, ret : {"OK"}]
          \/ d \in [took : {n \in 1 .. Len(in) :
                              in[n] = IndexEnd /\ Open(n - 1)},
                    ret : {"STREAM_END"}]
      BY <1>2 DEF IndexDecoded
    <2> HIDE DEF Open
    <2>2. CASE d \in [took : {n \in {Len(in)} : Open(n)}, ret : {"OK"}]
      <3>1. d.took = Len(in) /\ d.ret = "OK" /\ Open(d.took)
        BY <2>2
      <3> QED BY <3>1 DEF IndexCall, Open
    <2>3. CASE d \in [took : {n \in 1 .. Len(in) :
                                in[n] = IndexEnd /\ Open(n - 1)},
                      ret : {"STREAM_END"}]
      <3>1. /\ d.took \in 1 .. Len(in) /\ d.ret = "STREAM_END"
            /\ in[d.took] = IndexEnd /\ Open(d.took - 1)
        BY <2>3
      <3> QED BY <3>1 DEF IndexCall, Open
    <2> QED BY <2>1, <2>2, <2>3
  <1> QED BY <1>1, <1>2

\* readIndex: a read, a call of the decoder and the switch.
IndexStepOf(f, d) ==
    LET left == ReadMark(FetchedOf(f), d.took)
        v == Verdict("nil", d.ret, f.err, wrBuf, left)
    IN  /\ f \in Fetches(rdBuf, rdErr, Rest, faulty)
        /\ d \in IndexDecoded(SliceOf(f), fed /\ SliceOf(f) # <<>>)
        /\ pos' = pos + f.n
        /\ rdBuf' = left
        /\ fed' = (v = "more")
        /\ state' = IF v = "STREAM_END" THEN "footer" ELSE state
        /\ rdErr' = f.err
        /\ CASE v \in {"more", "STREAM_END"} -> UNCHANGED <<cl, result>>
             [] v = "EOF" -> Returns("EOF")
             [] OTHER -> Returns("err")

LEMMA IndexSteps ==
    ASSUME readIndex
    PROVE  \E f, d : IndexStepOf(f, d)
  BY Zenon DEF readIndex, IndexStepOf, FetchedOf, SliceOf

\* What the switch makes of it.
IndexReports(f, d) ==
    LET v == IF d.ret # "OK" THEN d.ret
             ELSE IF f.err # "nil" /\ rdBuf'.q = <<>> THEN f.err
             ELSE "more"
    IN  /\ fed' = (v = "more")
        /\ state' = IF v = "STREAM_END" THEN "footer" ELSE state
        /\ v \in {"more", "STREAM_END"} => cl' = cl /\ result' = result
        /\ v = "EOF" => cl' = "idle" /\ result' = "EOF"
        /\ v \notin {"more", "STREAM_END", "EOF"} =>
             cl' = "idle" /\ result' = "err"

LEMMA IndexReported ==
    ASSUME NEW f, NEW d, IndexStepOf(f, d), wrBuf.q = <<>>
    PROVE  IndexReports(f, d)
  <1> DEFINE v == Verdict("nil", d.ret, f.err, wrBuf, rdBuf')
  <1>1. /\ fed' = (v = "more")
        /\ state' = IF v = "STREAM_END" THEN "footer" ELSE state
        /\ CASE v \in {"more", "STREAM_END"} -> UNCHANGED <<cl, result>>
             [] v = "EOF" -> cl' = "idle" /\ result' = "EOF"
             [] OTHER -> cl' = "idle" /\ result' = "err"
    BY DEF IndexStepOf, Returns
  <1>2. v = IF d.ret # "OK" THEN d.ret
            ELSE IF f.err # "nil" /\ rdBuf'.q = <<>> THEN f.err
            ELSE "more"
    BY DEF Verdict
  <1> HIDE DEF v
  <1>3. /\ v \in {"more", "STREAM_END"} => cl' = cl /\ result' = result
        /\ v = "EOF" => cl' = "idle" /\ result' = "EOF"
        /\ v \notin {"more", "STREAM_END", "EOF"} =>
             cl' = "idle" /\ result' = "err"
    BY <1>1
  <1> QED BY <1>1, <1>2, <1>3 DEF IndexReports

LEMMA readIndexStep ==
    ASSUME ReaderInv, readIndex
    PROVE  ReaderInv'
  <1>0. /\ file \in Seq(Int) /\ Len(file) \in Nat /\ here \in Nat
        /\ here <= Len(file)
    BY InvFacts DEF ReaderFacts
  <1>1. /\ cl = "read" /\ state = "index" /\ file' = file /\ faulty' = faulty
        /\ wrBuf' = wrBuf /\ z' = z /\ room' = room /\ out' = out
    BY DEF readIndex, env
  <1>2. PICK f, d : IndexStepOf(f, d)
    BY IndexSteps
  <1> DEFINE in == SliceOf(f)
             k == d.took
  <1>3. FetchView(f)
    BY <1>1, <1>2, FetchViews DEF IndexStepOf
  <1>4. /\ in \in Seq(Int) /\ Len(in) \in Nat /\ here + Len(in) <= Len(file)
        /\ \A i \in 1 .. Len(in) : in[i] = file[here + i]
        /\ Fits => here + Len(in) = Len(file)
    BY <1>1, <1>3, SliceViews DEF SliceView
  <1> HIDE DEF in
  <1>5. IndexCall(in, d)
    BY <1>2, <1>4, IndexCalls DEF IndexStepOf, in
  <1>6. k \in Nat /\ k <= Len(in)
    BY <1>4, <1>5 DEF IndexCall
  <1>7. /\ RingNext(k) /\ here + k <= Len(file)
        /\ Fits => Straight(rdBuf') /\ pos' = Len(file)
        /\ rdBuf'.q = <<>> => pos' = here + k
    <2>1. pos' = pos + f.n /\ rdBuf' = ReadMark(FetchedOf(f), k)
      BY <1>2 DEF IndexStepOf
    <2> HIDE DEF k
    <2> QED BY <1>1, <1>3, <1>6, <2>1, RoundRing DEF in
  <1>8. /\ rdErr' = f.err /\ f.err \in RdErrs
        /\ f.err = "err" => faulty
        /\ f.err = "EOF" => pos' = Len(file)
    BY <1>2, <1>3 DEF IndexStepOf, FetchView
  <1>9. /\ wrBuf.q = <<>> /\ result # "err"
        /\ result = "EOF" => here = Len(file)
        /\ Fits => ~fed
    BY <1>1 DEF ReaderInv, FlowInv, CallInv, EndInv, FitInv
  <1>10. IndexReports(f, d)
    BY <1>2, <1>9, IndexReported
  <1>11. result = "EOF" => Len(in) = 0 /\ k = 0
    <2> HIDE DEF k
    <2> QED BY <1>0, <1>4, <1>6, <1>9
  <1>12. \/ file[here] = IndexStart
         \/ here < Len(file) /\ file[here + 1] = IndexStart
    BY <1>1 DEF ReaderInv, PlaceInv
  <1>13. Fits => Len(file) > 0 /\ file[Len(file)] \in {-4, -9}
    BY WholeFacts DEF Fits
  <1> HIDE DEF k
  <1>14. CASE fed /\ k = 0 /\ d.ret = "PROG_ERROR"
    <2>1. cl' = "idle" /\ result' = "err" /\ state' = "index" /\ fed' = FALSE
      BY <1>1, <1>10, <1>14 DEF IndexReports
    <2>2. here + k = here
      BY <1>0, <1>14
    <2>3. \A i \in 1 .. k : ~IsData(file[here + i])
      BY <1>14
    <2>4. IndexRound(k)
      BY <1>1, <1>6, <1>7, <1>8, <1>9, <1>12, <1>14, <2>1, <2>2, <2>3
         DEF IndexRound
    <2> QED BY <1>1, <2>4, IndexKeeps
  <1>15. CASE /\ k = Len(in) /\ d.ret = "OK"
              /\ \A i \in 1 .. k : in[i] # IndexEnd
    <2>1. \A i \in 1 .. k : file[here + i] = IndexStart
      <3>1. \A i \in 1 .. k : file[here + i] # IndexEnd
        BY <1>4, <1>15
      <3> QED BY <1>1, <1>6, <1>7, <3>1, IndexRun
    <2>2. \/ file[here + k] = IndexStart
          \/ here + k < Len(file) /\ file[(here + k) + 1] = IndexStart
      <3>1. CASE k = 0
        BY <1>0, <1>12, <3>1
      <3>2. CASE k # 0
        <4>1. k \in 1 .. k
          BY <1>6, <3>2
        <4> QED BY <2>1, <4>1
      <3> QED BY <3>1, <3>2
    <2>3. ~Fits
      <3>1. ASSUME Fits PROVE FALSE
        <4>1. here + k = Len(file)
          BY <1>4, <1>15, <3>1
        <4>2. file[here + k] = IndexStart
          BY <1>0, <2>2, <4>1
        <4> QED BY <1>13, <3>1, <4>1, <4>2 DEF IndexStart
      <3> QED BY <3>1
    <2>4. /\ state' = "index" /\ fed' \in BOOLEAN
          /\ \/ cl' = "read" /\ result' = result
             \/ cl' = "idle" /\ result' \in {"EOF", "err"}
          /\ result' = "EOF" =>
               result = "EOF" \/ (f.err = "EOF" /\ rdBuf'.q = <<>>)
      BY <1>1, <1>8, <1>10, <1>15 DEF IndexReports, RdErrs
    <2>5. result' = "EOF" => here + k = Len(file)
      <3>1. result = "EOF" => here + k = Len(file)
        BY <1>0, <1>9, <1>11
      <3> QED BY <1>7, <1>8, <2>4, <3>1
    <2>6. \A i \in 1 .. k : ~IsData(file[here + i])
      BY <2>1 DEF IsData, IndexStart
    <2>7. IndexRound(k)
      BY <1>1, <1>6, <1>7, <1>8, <2>2, <2>3, <2>4, <2>5, <2>6 DEF IndexRound
    <2> QED BY <1>1, <2>7, IndexKeeps
  <1>16. CASE /\ k \in 1 .. Len(in) /\ d.ret = "STREAM_END"
              /\ in[k] = IndexEnd
              /\ \A i \in 1 .. k - 1 : in[i] # IndexEnd
    <2>1. file[here + k] = IndexEnd
      BY <1>4, <1>16
    <2>2. \A i \in 1 .. k : ~IsData(file[here + i])
      <3> DEFINE j == k - 1
      <3>1. j \in Nat /\ here + j <= Len(file) /\ j \in 0 .. Len(in) /\ j + 1 = k
        BY <1>0, <1>6, <1>7, <1>16
      <3>2. \A i \in 1 .. j : file[here + i] # IndexEnd
        BY <1>4, <1>16, <3>1, SMTT(30)
      <3> HIDE DEF j
      <3>3. \A i \in 1 .. j : file[here + i] = IndexStart
        BY <1>1, <3>1, <3>2, IndexRun
      <3>4. \A i \in 1 .. k : i \in 1 .. j \/ i = k
        BY <3>1
      <3> QED BY <2>1, <3>3, <3>4 DEF IsData, IndexStart, IndexEnd
    <2>3. /\ state' = "footer" /\ fed' = FALSE /\ cl' = "read"
          /\ result' = result /\ result # "EOF"
      <3>1. k # 0
        BY <1>4, <1>16
      <3>2. result # "EOF"
        BY <1>11, <3>1
      <3> QED BY <1>1, <1>10, <1>16, <3>2 DEF IndexReports
    <2>4. IndexRound(k)
      BY <1>1, <1>6, <1>7, <1>8, <1>9, <2>1, <2>2, <2>3 DEF IndexRound
    <2> QED BY <1>1, <2>4, IndexKeeps
  <1> QED BY <1>5, <1>14, <1>15, <1>16 DEF IndexCall, k

\* A round of the decoder of a block that takes k units.
BlockRound(k) ==
    /\ file' = file /\ faulty' = faulty /\ fed' = fed
    /\ k \in Nat /\ here + k <= Len(file) /\ RingNext(k)
    /\ IsRing(wrBuf') /\ wrBuf'.size = wrBuf.size
    /\ IsCoder(z') /\ z'.skip = 0 /\ (z'.ended => z'.held = <<>>)
    /\ out' \in Seq(Int) /\ room' \in 0 .. MaxRead
    /\ Ahead' = DataTo(file, here + k)
    /\ rdErr' \in RdErrs /\ (rdErr' = "err" => faulty)
    /\ rdErr' = "EOF" => pos' = Len(file)
    /\ \/ cl' = "read" /\ result' = result
       \/ cl' = "idle" /\ result' \in {"ok", "EOF", "err"}
    /\ result' = "EOF" => here + k = Len(file) /\ state' = "data" /\ ~z'.ended
    /\ state' \in {"data", "block"}
    /\ IF z'.ended THEN file[here + k] = EndUnit
       ELSE file[here + k] = BlockStart \/ IsData(file[here + k])
    /\ state' = "block" => z'.ended /\ wrBuf'.q = <<>>
    /\ Fits => result' # "err" /\ Straight(rdBuf') /\ pos' = Len(file)

LEMMA BlockKeeps ==
    ASSUME ReaderInv, cl = "read", state = "data", NEW k, BlockRound(k)
    PROVE  ReaderInv'
  <1>0. ReaderFacts
    BY InvFacts
  <1>1. /\ file' = file /\ faulty' = faulty /\ fed' = fed
        /\ IsRing(wrBuf') /\ wrBuf'.size = wrBuf.size /\ IsCoder(z')
        /\ k \in Nat /\ RingNext(k) /\ here + k <= Len(file)
    BY DEF BlockRound
  <1>2. /\ RingInv' /\ here' = here + k /\ pos' \in 0 .. Len(file)
        /\ (Fits' <=> Fits) /\ IsRing(rdBuf')
    BY <1>1, RingKeeps
  <1>3. TypeOK /\ here > 0
    BY DEF ReaderInv, PlaceInv
  <1>4. out' \in Seq(Nat)
    <2> DEFINE n == here + k
               t == wrBuf'.q \o z'.held
    <2>1. file \in Seq(Int) /\ n \in 0 .. Len(file)
      BY <1>0, <1>1 DEF ReaderFacts
    <2>2. out' \in Seq(Int) /\ wrBuf'.q \in Seq(Int) /\ z'.held \in Seq(Int)
      BY <1>1, RingFacts, CoderFacts DEF BlockRound
    <2>3. t \in Seq(Int)
      BY <2>2, CatType
    <2>4. out' \o t = DataTo(file, n)
      <3>1. Regrouped(out', wrBuf'.q, z'.held)
        BY <2>2, Regroup
      <3> QED BY <3>1 DEF Regrouped, BlockRound, Ahead
    <2> HIDE DEF n, t
    <2> QED BY <2>1, <2>2, <2>3, <2>4, DataType
  <1>5. TypeOK'
    <2>1. /\ cl' \in {"idle", "read"} /\ result' \in {"ok", "EOF", "err"}
          /\ rdErr' \in {"nil", "EOF", "err"} /\ room' \in 0 .. MaxRead
      BY <1>3 DEF BlockRound, TypeOK, RdErrs
    <2>2. state' \in {"init", "header", "block", "data", "index", "footer",
                      "padding"}
      BY DEF BlockRound
    <2> QED BY <1>1, <1>2, <1>3, <1>4, <2>1, <2>2 DEF TypeOK
  <1>6. PlaceInv'
    <2>1. here' > 0
      BY <1>0, <1>1, <1>2, <1>3 DEF ReaderFacts
    <2>2. state' \in {"data", "block"}
      BY DEF BlockRound
    <2>3. IF z'.ended THEN file'[here'] = EndUnit
          ELSE file'[here'] = BlockStart \/ IsData(file'[here'])
      BY <1>1, <1>2 DEF BlockRound
    <2>4. state' = "block" => file'[here'] \in {Header[2], EndUnit}
      BY <2>3 DEF BlockRound
    <2> QED BY <2>1, <2>2, <2>3, <2>4 DEF PlaceInv
  <1>7. FlowInv'
    <2>1. Ahead' = DataTo(file', here')
      BY <1>1, <1>2 DEF BlockRound
    <2>2. z'.skip = 0 /\ (z'.ended => z'.held = <<>>)
      BY DEF BlockRound
    <2>3. state' # "data" => wrBuf'.q = <<>> /\ z'.held = <<>>
      BY DEF BlockRound
    <2> QED BY <2>1, <2>2, <2>3 DEF FlowInv
  <1>8. CallInv'
    <2>1. result # "err"
      BY DEF ReaderInv, CallInv
    <2> QED BY <1>1, <2>1 DEF CallInv, BlockRound
  <1>9. EndInv'
    BY <1>1, <1>2 DEF EndInv, BlockRound
  <1>10. FitInv'
    <2>1. Fits => ~fed
      BY DEF ReaderInv, FitInv
    <2> QED BY <1>1, <1>2, <2>1 DEF FitInv, BlockRound
  <1> QED BY <1>2, <1>5, <1>6, <1>7, <1>8, <1>9, <1>10 DEF ReaderInv

\* The call of the decoder, as if its slice were a ring of its own.
SliceRing(f) == [size |-> rdBuf.size, at |-> 0, q |-> SliceOf(f)]

BlockCall(f, d, w) ==
    /\ d \in Decoded(z, SliceOf(f), WriteSlice(wrBuf))
    /\ w = Delivered(WriteMark(wrBuf, d.put), room)

BlockDecoded(f, d, w) ==
    /\ DecodeRound(out, SliceRing(f), z, wrBuf, room, d, w)
    /\ z.ended => AfterEnd(out, z, wrBuf, d, w)
    /\ ~z.ended => UpToEnd(out, SliceRing(f), z, wrBuf, d, w)

LEMMA BlockCalls ==
    ASSUME ReaderInv, NEW f, FetchView(f), NEW d, NEW w, BlockCall(f, d, w)
    PROVE  BlockDecoded(f, d, w)
  <1> DEFINE V == SliceRing(f)
  <1>1. /\ SliceOf(f) \in Seq(Int) /\ Len(SliceOf(f)) \in Nat
        /\ Len(SliceOf(f)) <= Len(FetchedOf(f).q)
    BY SliceViews DEF SliceView
  <1>2. /\ IsRing(FetchedOf(f)) /\ FetchedOf(f).size = rdBuf.size
    BY DEF FetchView
  <1>3. /\ Len(FetchedOf(f).q) <= rdBuf.size /\ rdBuf.size \in Nat
        /\ Len(FetchedOf(f).q) \in Nat /\ rdBuf.size > 0
    BY <1>2, RingFacts
  <1>4. Len(SliceOf(f)) <= rdBuf.size
    BY <1>1, <1>3
  <1>5. IsRing(V) /\ Straight(V) /\ V.q = SliceOf(f)
    BY <1>1, <1>3, <1>4 DEF SliceRing, IsRing, Straight
  <1>6. ReadSlice(V) = SliceOf(f)
    BY <1>5, ReadSliceFacts
  <1>7. IsCoder(z) /\ IsRing(wrBuf) /\ out \in Seq(Int) /\ room \in Nat
    <2>1. \A s \in Seq(Nat) : s \in Seq(Int)
      OBVIOUS
    <2> QED BY <2>1 DEF ReaderInv, TypeOK
  <1>8. /\ d \in Decoded(z, ReadSlice(V), WriteSlice(wrBuf))
        /\ w = Delivered(WriteMark(wrBuf, d.put), room)
    BY <1>6 DEF BlockCall
  <1> HIDE DEF V
  <1>9. /\ DecodeRound(out, V, z, wrBuf, room, d, w)
        /\ z.ended => AfterEnd(out, z, wrBuf, d, w)
        /\ ~z.ended => UpToEnd(out, V, z, wrBuf, d, w)
    BY <1>5, <1>7, <1>8, DecodeRounds
  <1> QED BY <1>9 DEF BlockDecoded, V

\* What a call of the decoder moves: the data among the units it takes.
BlockMoves(f, d, w) ==
    /\ d.took \in Nat /\ d.took <= Len(SliceOf(f))
    /\ ((out \o w.put) \o w.rest.q) \o d.z.held
         = DataTo(file, here + d.took)
    /\ d.z.ended => d.z.held = <<>>
    /\ IF d.z.ended THEN file[here + d.took] = EndUnit
       ELSE \/ file[here + d.took] = BlockStart
            \/ IsData(file[here + d.took])
    /\ d.z.ended /\ ~z.ended => d.took > 0

LEMMA BlockMoved ==
    ASSUME ReaderInv, state = "data", NEW f, FetchView(f), NEW d, NEW w,
           BlockDecoded(f, d, w)
    PROVE  BlockMoves(f, d, w)
  <1> DEFINE in == SliceOf(f)
             s == ((out \o w.put) \o w.rest.q) \o d.z.held
  <1>0. /\ file \in Seq(Int) /\ Len(file) \in Nat /\ here \in Nat
        /\ here <= Len(file)
    BY InvFacts DEF ReaderFacts
  <1>1. /\ in \in Seq(Int) /\ Len(in) \in Nat /\ here + Len(in) <= Len(file)
        /\ \A i \in 1 .. Len(in) : in[i] = file[here + i]
    BY SliceViews DEF SliceView
  <1>2. /\ out \in Seq(Int) /\ wrBuf.q \in Seq(Int) /\ z.held \in Seq(Int)
    <2>1. \A t \in Seq(Nat) : t \in Seq(Int)
      OBVIOUS
    <2> QED BY <2>1, RingFacts, CoderFacts DEF ReaderInv, TypeOK
  <1>3. Ahead \in Seq(Int) /\ out \o wrBuf.q \in Seq(Int)
    BY <1>2, CatType DEF Ahead
  <1>4. /\ Ahead = DataTo(file, here) /\ z.skip = 0
        /\ (z.ended => z.held = <<>>) /\ here > 0
        /\ IF z.ended THEN file[here] = EndUnit
           ELSE file[here] = BlockStart \/ IsData(file[here])
    BY DEF ReaderInv, FlowInv, PlaceInv
  <1>5. SliceRing(f).q = in
    BY DEF SliceRing
  <1> HIDE DEF in
  <1>6. CASE z.ended
    <2>1. /\ d.z.ended /\ d.took = 0 /\ d.z.held = <<>>
          /\ (out \o w.put) \o w.rest.q = out \o wrBuf.q
      BY <1>6 DEF BlockDecoded, AfterEnd
    <2>2. s = Ahead
      BY <1>4, <1>6, <2>1 DEF Ahead
    <2>3. here + d.took = here
      BY <1>0, <2>1
    <2>4. d.took \in Nat /\ d.took <= Len(in)
      BY <1>1, <2>1
    <2> QED BY <1>4, <1>6, <2>1, <2>2, <2>3, <2>4 DEF BlockMoves, in
  <1>7. CASE ~z.ended
    <2>1. UpToEnd(out, SliceRing(f), z, wrBuf, d, w)
      BY <1>7 DEF BlockDecoded
    <2>2. PICK c \in 0 .. Len(in) :
            /\ d.z.ended => /\ d.took = c + 1 /\ c < Len(in)
                            /\ in[c + 1] = EndUnit /\ d.z.held = <<>>
            /\ ~d.z.ended => d.took = c
            /\ \A i \in 1 .. c : in[i] # EndUnit
            /\ s = Ahead \o SubSeq(in, 1, c)
      <3>1. \E c \in 0 .. Len(in) :
              /\ d.z.ended => /\ d.took = c + 1 /\ c < Len(in)
                              /\ in[c + 1] = EndUnit /\ d.z.held = <<>>
              /\ ~d.z.ended => d.took = c
              /\ \A i \in 1 .. c : in[i] # EndUnit
              /\ s = Ahead \o SubSeq(in, z.skip + 1, c)
        BY <1>5, <2>1, Zenon DEF UpToEnd, Ahead
      <3>2. z.skip + 1 = 1
        BY <1>4
      <3> HIDE DEF s
      <3> QED BY <3>1, <3>2, Zenon
    <2> HIDE DEF s
    <2> DEFINE u == SubSeq(in, 1, c)
    <2>3. /\ c \in Nat /\ c <= Len(in) /\ here + c <= Len(file)
          /\ \A i \in 1 .. c : i \in 1 .. Len(in)
      <3> DEFINE l == Len(in)
                 N == Len(file)
      <3>1. c \in 0 .. l /\ l \in Nat /\ here + l <= N
        BY <1>1
      <3>2. N \in Nat
        BY <1>0
      <3> HIDE DEF l, N
      <3>3. c \in Nat /\ c <= l /\ here + c <= N
        BY <1>0, <3>1, <3>2
      <3>4. \A i \in 1 .. c : i \in 1 .. l
        BY <3>1
      <3> QED BY <3>3, <3>4 DEF l, N
    <2>4. u \in Seq(Int) /\ Len(u) = c /\ s = Ahead \o u
      BY <1>1, <2>2, Split
    <2>5. ASSUME NEW i \in 1 .. c PROVE u[i] = in[i]
      <3>1. u[i] = in[1 + i - 1]
        BY <1>1, <2>2, <2>4, SubSeqProperties
      <3>2. 1 + i - 1 = i
        OBVIOUS
      <3> QED BY <3>1, <3>2
    <2> HIDE DEF u
    <2>6. \A i \in 1 .. c : IsData(file[here + i])
      <3>1. \A i \in 1 .. c : file[here + i] # EndUnit
        BY <1>1, <2>2, <2>3
      <3> QED BY <1>7, <2>3, <3>1, BlockRun
    <2>7. \A i \in 1 .. Len(u) : u[i] = file[here + i] /\ IsData(u[i])
      <3>1. \A i \in 1 .. c : u[i] = file[here + i]
        BY <1>1, <2>3, <2>5
      <3> QED BY <2>4, <2>6, <3>1
    <2>8. s = DataTo(file, here + c)
      <3>1. here + Len(u) <= Len(file)
        BY <2>3, <2>4
      <3>2. Ahead \o u = DataTo(file, here + Len(u))
        BY <1>0, <1>3, <1>4, <2>4, <2>7, <3>1, DataRun
      <3> QED BY <2>4, <3>2
    <2>9. CASE d.z.ended
      <3>1. /\ d.took = c + 1 /\ c < Len(in) /\ in[c + 1] = EndUnit
            /\ d.z.held = <<>>
        BY <2>2, <2>9
      <3>2. /\ d.took \in Nat /\ d.took <= Len(in) /\ d.took > 0
            /\ here + d.took = (here + c) + 1 /\ c + 1 \in 1 .. Len(in)
            /\ here + c \in Nat
        BY <1>0, <1>1, <2>3, <3>1
      <3>3. file[here + d.took] = EndUnit
        BY <1>1, <3>1, <3>2
      <3>4. DataTo(file, (here + c) + 1) = DataTo(file, here + c)
        <4>1. ~IsData(file[(here + c) + 1])
          BY <3>2, <3>3 DEF IsData, EndUnit
        <4>2. \A i \in 1 .. 1 : ~IsData(file[(here + c) + i])
          BY <4>1
        <4> QED BY <1>0, <3>2, <4>2, DataSkipped
      <3>5. s = DataTo(file, here + d.took)
        BY <2>8, <3>2, <3>4
      <3> QED BY <2>9, <3>1, <3>2, <3>3, <3>5 DEF BlockMoves, in, s
    <2>10. CASE ~d.z.ended
      <3>1. d.took = c
        BY <2>2, <2>10
      <3>2. file[here + c] = BlockStart \/ IsData(file[here + c])
        <4>1. CASE c = 0
          BY <1>0, <1>4, <1>7, <4>1
        <4>2. CASE c # 0
          <5>1. c \in 1 .. c
            BY <2>3, <4>2
          <5> QED BY <2>6, <5>1
        <4> QED BY <4>1, <4>2
      <3> QED BY <2>3, <2>8, <2>10, <3>1, <3>2 DEF BlockMoves, in, s
    <2> QED BY <2>9, <2>10
  <1> QED BY <1>6, <1>7

\* The plain data of a file is shorter than the file: a ring that holds the
\* file never fills with its data.
LEMMA FitsHasSpace ==
    ASSUME ReaderInv, state = "data", Fits
    PROVE  WriteSlice(wrBuf) > 0
  <1> DEFINE q == Len(wrBuf.q)
             t == wrBuf.q \o z.held
             N == Len(file)
  <1>0. /\ file \in Seq(Int) /\ N \in Nat /\ here \in Nat /\ here <= N
        /\ IsRing(wrBuf) /\ IsCoder(z)
    BY InvFacts DEF ReaderFacts
  <1>1. /\ N <= rdBuf.size /\ rdBuf.size = wrBuf.size /\ here > 0
        /\ Ahead = DataTo(file, here)
    BY DEF Fits, ReaderInv, RingInv, PlaceInv, FlowInv
  <1>2. /\ out \in Seq(Int) /\ wrBuf.q \in Seq(Int) /\ z.held \in Seq(Int)
        /\ wrBuf.size \in Nat
    <2>1. \A s \in Seq(Nat) : s \in Seq(Int)
      OBVIOUS
    <2> QED BY <2>1, RingFacts, CoderFacts DEF ReaderInv, TypeOK
  <1>3. t \in Seq(Int) /\ Len(t) = q + Len(z.held)
    BY <1>2, CatType
  <1>4. out \o t = DataTo(file, here)
    <2>1. Regrouped(out, wrBuf.q, z.held)
      BY <1>2, Regroup
    <2> QED BY <1>1, <2>1 DEF Regrouped, Ahead
  <1> HIDE DEF t
  <1>5. Len(out) + Len(t) = DataCount(file, here)
    <2>1. here \in 0 .. Len(file)
      BY <1>0
    <2>2. file \in Seq(Int) /\ t \in Seq(Int) /\ out \in Seq(Int)
      BY <1>0, <1>2, <1>3
    <2> QED BY <1>4, <2>1, <2>2, DataType, Zenon
  <1>6. DataCount(file, here) < here
    <2>1. ~IsData(file[1])
      BY <1>0, <1>1, FirstUnit DEF IsData
    <2> QED BY <1>0, <1>1, <2>1, CountLess
  <1>7. Len(out) \in Nat /\ Len(z.held) \in Nat /\ q \in Nat
    BY <1>2, LenProperties
  <1>8. WriteSlice(wrBuf) \in Nat /\ (WriteSlice(wrBuf) = 0 => q = wrBuf.size)
    BY <1>0, WriteSliceFacts
  <1> DEFINE c == DataCount(file, here)
             s == WriteSlice(wrBuf)
             l == Len(out)
             h == Len(z.held)
  <1>9. /\ l + (q + h) = c /\ c < here /\ here <= N /\ N <= wrBuf.size
        /\ l \in Nat /\ h \in Nat /\ q \in Nat /\ here \in Nat /\ N \in Nat
        /\ s \in Nat /\ (s = 0 => q = wrBuf.size) /\ wrBuf.size \in Nat
    BY <1>0, <1>1, <1>2, <1>3, <1>5, <1>6, <1>7, <1>8
  <1> HIDE DEF c, s, l, h, q, N
  <1>10. s > 0
    BY <1>9
  <1> QED BY <1>10 DEF s

\* processBlock: a read, a call of the decoder, a write and the switch.
BlockStepOf(f, d, w) ==
    LET left == ReadMark(FetchedOf(f), d.took)
        v == Verdict(w.err, Ignored(d.ret, SliceOf(f) # <<>>,
                                    WriteSlice(wrBuf)),
                     f.err, w.rest, left)
    IN  /\ f \in Fetches(rdBuf, rdErr, Rest, faulty)
        /\ BlockCall(f, d, w)
        /\ pos' = pos + f.n
        /\ rdBuf' = left
        /\ wrBuf' = w.rest
        /\ out' = out \o w.put
        /\ room' = room - Len(w.put)
        /\ z' = d.z
        /\ state' = IF v = "STREAM_END" THEN "block" ELSE state
        /\ rdErr' = f.err
        /\ CASE v \in {"more", "STREAM_END"} -> UNCHANGED <<cl, result>>
             [] v = "short" -> Returns("ok")
             [] v = "EOF" -> Returns("EOF")
             [] OTHER -> Returns("err")

LEMMA BlockSteps ==
    ASSUME processBlock
    PROVE  \E f, d, w : BlockStepOf(f, d, w)
  <1>1. \E f \in Fetches(rdBuf, rdErr, Rest, faulty) :
          \E d \in Decoded(z, SliceOf(f), WriteSlice(wrBuf)) :
            BlockStepOf(f, d, Delivered(WriteMark(wrBuf, d.put), room))
    BY ZenonT(40) DEF processBlock, BlockStepOf, FetchedOf, SliceOf, BlockCall
  <1> QED BY <1>1

\* What the switch makes of it.
BlockReports(f, d, w) ==
    LET ret == Ignored(d.ret, SliceOf(f) # <<>>, WriteSlice(wrBuf))
    IN  \E v : /\ ReadVerdict(w.err, ret, f.err, rdBuf', v)
               /\ state' = IF v = "STREAM_END" THEN "block" ELSE state
               /\ v \in {"more", "STREAM_END"} => cl' = cl /\ result' = result
               /\ v = "short" => cl' = "idle" /\ result' = "ok"
               /\ v = "EOF" => cl' = "idle" /\ result' = "EOF"
               /\ v \in {"err", "BUF_ERROR"} => cl' = "idle" /\ result' = "err"

LEMMA BlockReported ==
    ASSUME NEW f, NEW d, NEW w, BlockStepOf(f, d, w), d.ret \in Rets,
           f.err \in RdErrs, w.err \in {"nil", "short"},
           w.err = "nil" => w.rest.q = <<>>
    PROVE  BlockReports(f, d, w)
  <1> DEFINE ret == Ignored(d.ret, SliceOf(f) # <<>>, WriteSlice(wrBuf))
             v == Verdict(w.err, ret, f.err, w.rest, rdBuf')
  <1>1. /\ state' = IF v = "STREAM_END" THEN "block" ELSE state
        /\ CASE v \in {"more", "STREAM_END"} -> UNCHANGED <<cl, result>>
             [] v = "short" -> cl' = "idle" /\ result' = "ok"
             [] v = "EOF" -> cl' = "idle" /\ result' = "EOF"
             [] OTHER -> cl' = "idle" /\ result' = "err"
    BY DEF BlockStepOf, Returns
  <1>2. ret \in Rets
    BY DEF Ignored, Rets
  <1> HIDE DEF ret
  <1>3. ReadVerdict(w.err, ret, f.err, rdBuf', v)
    BY <1>2, ReadVerdicts
  <1> HIDE DEF v
  <1>4. /\ v \in {"more", "STREAM_END"} => cl' = cl /\ result' = result
        /\ v = "short" => cl' = "idle" /\ result' = "ok"
        /\ v = "EOF" => cl' = "idle" /\ result' = "EOF"
        /\ v \in {"err", "BUF_ERROR"} => cl' = "idle" /\ result' = "err"
    BY <1>1
  <1>5. state' = IF v = "STREAM_END" THEN "block" ELSE state
    BY <1>1
  <1> QED BY <1>3, <1>4, <1>5, Zenon DEF BlockReports, ret

LEMMA processBlockStep ==
    ASSUME ReaderInv, processBlock
    PROVE  ReaderInv'
  <1>0. /\ file \in Seq(Int) /\ Len(file) \in Nat /\ here \in Nat
        /\ here <= Len(file)
    BY InvFacts DEF ReaderFacts
  <1>1. /\ cl = "read" /\ state = "data" /\ file' = file /\ faulty' = faulty
        /\ fed' = fed
    BY DEF processBlock, env
  <1>2. PICK f, d, w : BlockStepOf(f, d, w)
    BY BlockSteps
  <1> DEFINE in == SliceOf(f)
             k == d.took
             space == WriteSlice(wrBuf)
             ret == Ignored(d.ret, in # <<>>, space)
  <1>3. FetchView(f)
    BY <1>1, <1>2, FetchViews DEF BlockStepOf
  <1>4. BlockDecoded(f, d, w)
    BY <1>2, <1>3, BlockCalls DEF BlockStepOf
  <1>5. BlockMoves(f, d, w)
    BY <1>1, <1>3, <1>4, BlockMoved
  <1>6. /\ in \in Seq(Int) /\ Len(in) \in Nat /\ here + Len(in) <= Len(file)
        /\ Fits => here + Len(in) = Len(file)
    BY <1>1, <1>3, SliceViews DEF SliceView
  <1>7. /\ k \in Nat /\ k <= Len(in)
        /\ d.z.ended => d.z.held = <<>>
        /\ IF d.z.ended THEN file[here + k] = EndUnit
           ELSE file[here + k] = BlockStart \/ IsData(file[here + k])
        /\ d.z.ended /\ ~z.ended => k > 0
    BY <1>5 DEF BlockMoves
  <1>8. /\ IsCoder(d.z) /\ d.z.skip = 0 /\ d.ret \in Rets
        /\ d.z.ended <=> d.ret = "STREAM_END"
        /\ IsRing(w.rest) /\ w.rest.size = wrBuf.size
        /\ w.put \in Seq(Int) /\ Len(w.put) <= room
        /\ w.err \in {"nil", "short"}
        /\ w.err = "nil" <=> w.rest.q = <<>>
    <2>1. DecodeRound(out, SliceRing(f), z, wrBuf, room, d, w)
      BY <1>4 DEF BlockDecoded
    <2>2. z.skip = 0
      BY DEF ReaderInv, FlowInv
    <2>3. 0 - Lesser(0, k) = 0
      BY <1>7 DEF Lesser
    <2>4. d.z.skip = 0
      BY <2>1, <2>2, <2>3 DEF DecodeRound
    <2> QED BY <2>1, <2>4 DEF DecodeRound
  <1>9. /\ RingNext(k) /\ here + k <= Len(file)
        /\ Fits => Straight(rdBuf') /\ pos' = Len(file)
        /\ rdBuf'.q = <<>> => pos' = here + k
    <2>1. pos' = pos + f.n /\ rdBuf' = ReadMark(FetchedOf(f), k)
      BY <1>2 DEF BlockStepOf
    <2> HIDE DEF k
    <2> QED BY <1>1, <1>3, <1>7, <2>1, RoundRing DEF in
  <1>10. /\ rdErr' = f.err /\ f.err \in RdErrs
         /\ f.err = "err" => faulty
         /\ f.err = "EOF" => pos' = Len(file)
    BY <1>2, <1>3 DEF BlockStepOf, FetchView
  <1>11. wrBuf' = w.rest /\ out' = out \o w.put /\ z' = d.z
         /\ room' = room - Len(w.put)
    BY <1>2 DEF BlockStepOf
  <1>12. Ahead' = DataTo(file, here + k)
    BY <1>5, <1>11 DEF BlockMoves, Ahead
  <1>13. out' \in Seq(Int) /\ room' \in 0 .. MaxRead
    <2>1. out \in Seq(Int) /\ room \in 0 .. MaxRead
      <3>1. \A s \in Seq(Nat) : s \in Seq(Int)
        OBVIOUS
      <3> QED BY <3>1 DEF ReaderInv, TypeOK
    <2>2. Len(w.put) \in Nat /\ Len(w.put) <= room
      BY <1>8, LenProperties
    <2>3. MaxRead \in Nat
      BY ReaderAssumption
    <2>4. room' \in 0 .. MaxRead
      BY <1>11, <2>1, <2>2, <2>3
    <2> QED BY <1>8, <1>11, <2>1, <2>4, CatType
  <1>14. /\ result # "err"
         /\ result = "EOF" => here = Len(file) /\ ~z.ended
    BY <1>1 DEF ReaderInv, CallInv, EndInv
  <1>15. BlockReports(f, d, w)
    BY <1>2, <1>8, <1>10, BlockReported
  <1>16. result = "EOF" => k = 0 /\ here + k = Len(file) /\ ~d.z.ended
    <2>1. result = "EOF" => k = 0 /\ here + k = Len(file)
      <3> HIDE DEF k, in
      <3> QED BY <1>0, <1>6, <1>7, <1>14
    <2> QED BY <1>7, <1>14, <2>1
  <1>17. Fits => ret # "BUF_ERROR"
    <2>1. ASSUME Fits, ret = "BUF_ERROR" PROVE FALSE
      <3>1. ~(in # <<>> /\ space > 0)
        BY <2>1 DEF Ignored
      <3>2. space > 0
        BY <1>1, <2>1, FitsHasSpace
      <3>3. Len(in) = 0
        BY <3>1, <3>2
      <3>4. here = Len(file)
        BY <1>0, <1>6, <2>1, <3>3
      <3>5. file[here] \in {-4, -9}
        BY <2>1, <3>4, WholeFacts DEF Fits
      <3>6. file[here] \in {EndUnit, BlockStart} \/ IsData(file[here])
        BY <1>1 DEF ReaderInv, PlaceInv
      <3> QED BY <3>5, <3>6 DEF EndUnit, BlockStart, IsData
    <2> QED BY <2>1
  <1> HIDE DEF k, in, space
  <1>18. PICK v : /\ ReadVerdict(w.err, ret, f.err, rdBuf', v)
                  /\ state' = IF v = "STREAM_END" THEN "block" ELSE state
                  /\ v \in {"more", "STREAM_END"} =>
                       cl' = cl /\ result' = result
                  /\ v = "short" => cl' = "idle" /\ result' = "ok"
                  /\ v = "EOF" => cl' = "idle" /\ result' = "EOF"
                  /\ v \in {"err", "BUF_ERROR"} =>
                       cl' = "idle" /\ result' = "err"
    BY <1>15, Zenon DEF BlockReports, in, space
  <1>19. ret = "STREAM_END" <=> d.ret = "STREAM_END"
    BY DEF Ignored
  <1> HIDE DEF ret
  <1>20. /\ v \in Verdicts
         /\ v = "STREAM_END" => w.err = "nil" /\ ret = "STREAM_END"
         /\ v = "err" => f.err = "err"
         /\ v = "BUF_ERROR" => ret = "BUF_ERROR"
         /\ v = "EOF" => /\ w.err = "nil" /\ ret = "OK" /\ f.err = "EOF"
                         /\ rdBuf'.q = <<>>
    BY <1>18 DEF ReadVerdict
  <1>21. \/ cl' = "read" /\ result' = result
         \/ cl' = "idle" /\ result' \in {"ok", "EOF", "err"}
    BY <1>1, <1>18, <1>20 DEF Verdicts
  <1>22. /\ state' \in {"data", "block"}
         /\ state' = "block" => z'.ended /\ wrBuf'.q = <<>>
    BY <1>1, <1>8, <1>11, <1>18, <1>19, <1>20
  <1>23. result' = "EOF" => here + k = Len(file) /\ state' = "data" /\ ~z'.ended
    <2>1. CASE v \in {"more", "STREAM_END"}
      <3>1. result' = result
        BY <1>18, <2>1
      <3> QED BY <1>11, <1>16, <1>22, <3>1
    <2>2. CASE v = "EOF"
      <3>1. here + k = Len(file)
        BY <1>9, <1>10, <1>20, <2>2
      <3>2. ~d.z.ended /\ state' = "data"
        BY <1>1, <1>8, <1>18, <1>19, <1>20, <2>2
      <3> QED BY <1>11, <3>1, <3>2
    <2>3. CASE v \in {"short", "err", "BUF_ERROR"}
      BY <1>18, <2>3
    <2> QED BY <1>20, <2>1, <2>2, <2>3 DEF Verdicts
  <1>24. Fits => result' # "err"
    <2>1. ASSUME Fits PROVE v \notin {"err", "BUF_ERROR"}
      BY <1>10, <1>17, <1>20, <2>1 DEF Fits
    <2>2. v \notin {"err", "BUF_ERROR"} => result' # "err"
      BY <1>14, <1>18, <1>20 DEF Verdicts
    <2> QED BY <2>1, <2>2
  <1>25. BlockRound(k)
    BY <1>1, <1>7, <1>8, <1>9, <1>10, <1>11, <1>12, <1>13, <1>21, <1>22, <1>23,
       <1>24 DEF BlockRound
  <1> QED BY <1>1, <1>25, BlockKeeps
-----------------------------------------------------------------------------
(***************************************************************************)
(* The theorems.                                                           *)
(***************************************************************************)
LEMMA ReadStep ==
    ASSUME ReaderInv, NEW n \in 0 .. MaxRead, Read(n)
    PROVE  ReaderInv'
  <1>1. /\ cl = "idle" /\ result # "err" /\ cl' = "read" /\ room' = n
        /\ rdErr' = "nil"
        /\ UNCHANGED <<file, faulty, pos, rdBuf, wrBuf, state, z, fed, result,
                       out>>
    BY DEF Read, env
  <1>2. here' = here /\ Ahead' = Ahead /\ (Fits' <=> Fits)
    BY <1>1 DEF here, Ahead, Fits
  <1>3. TypeOK'
    BY <1>1 DEF ReaderInv, TypeOK
  <1>4. RingInv' /\ PlaceInv' /\ EndInv' /\ FitInv'
    BY <1>1, <1>2 DEF ReaderInv, RingInv, PlaceInv, EndInv, FitInv
  <1>5. FlowInv' /\ CallInv'
    BY <1>1, <1>2 DEF ReaderInv, FlowInv, CallInv
  <1> QED BY <1>3, <1>4, <1>5 DEF ReaderInv

\* A file that is cut off has the form of one.
LEMMA FormedCut ==
    ASSUME NEW f \in Seq(Int), Formed(f), NEW n \in 0 .. Len(f)
    PROVE  SubSeq(f, 1, n) \in Seq(Int) /\ Formed(SubSeq(f, 1, n))
  <1> DEFINE g == SubSeq(f, 1, n)
  <1>0. Len(f) \in Nat /\ n \in Nat /\ n <= Len(f)
    BY LenProperties
  <1>1. g \in Seq(Int) /\ Len(g) = n
    BY Split
  <1>2. ASSUME NEW i \in 1 .. n PROVE g[i] = f[i]
    <2>1. g[i] = f[1 + i - 1]
      BY <1>1, SubSeqProperties
    <2>2. 1 + i - 1 = i
      OBVIOUS
    <2> QED BY <2>1, <2>2
  <1> HIDE DEF g
  <1>3. ASSUME NEW i \in 1 .. Len(g) - 1 PROVE Follows(g[i], g[i + 1])
    <2>1. i \in 1 .. n /\ i + 1 \in 1 .. n /\ i \in 1 .. Len(f) - 1
      BY <1>0, <1>1
    <2>2. g[i] = f[i] /\ g[i + 1] = f[i + 1]
      BY <1>2, <2>1
    <2>3. Follows(f[i], f[i + 1])
      BY <2>1 DEF Formed
    <2> QED BY <2>2, <2>3
  <1>4. ASSUME g # <<>> PROVE g[1] = Header[1]
    <2>1. 1 \in 1 .. n /\ f # <<>>
      BY <1>0, <1>1, <1>4
    <2>2. g[1] = f[1]
      BY <1>2, <2>1
    <2> QED BY <2>1, <2>2 DEF Formed
  <1> QED BY <1>1, <1>3, <1>4 DEF Formed, g

LEMMA InitStep ==
    ASSUME Init
    PROVE  ReaderInv
  <1>1. PICK f \in Files : \E n \in 0 .. Len(f) : file = SubSeq(f, 1, n)
    BY DEF Init
  <1>2. PICK n \in 0 .. Len(f) : file = SubSeq(f, 1, n)
    BY <1>1
  <1>3. f \in Seq(Int) /\ Formed(f)
    BY ReaderAssumption
  <1>4. file \in Seq(Int) /\ Formed(file)
    BY <1>2, <1>3, FormedCut
  <1>5. PICK r \in Rings : rdBuf = Ring(r) /\ wrBuf = Ring(r)
    BY DEF Init
  <1>6. r \in Nat /\ r >= 2 /\ r > 0
    BY ReaderAssumption, UnitFacts
  <1>7. /\ faulty \in BOOLEAN /\ pos = 0 /\ state = "init"
        /\ z = Coder(<<>>, 0) /\ fed = FALSE /\ rdErr = "nil" /\ cl = "idle"
        /\ room = 0 /\ result = "ok" /\ out = <<>>
    BY ReaderAssumption DEF Init
  <1>8. /\ IsRing(rdBuf) /\ IsRing(wrBuf) /\ rdBuf.size = r /\ wrBuf.size = r
        /\ rdBuf.q = <<>> /\ wrBuf.q = <<>> /\ rdBuf.at = 0 /\ Straight(rdBuf)
    <2>1. /\ IsRing(Ring(r)) /\ Ring(r).size = r /\ Ring(r).q = <<>>
          /\ Straight(Ring(r))
      BY <1>6, NewRing
    <2>2. Ring(r).at = 0
      BY DEF Ring
    <2> QED BY <1>5, <2>1, <2>2
  <1>9. IsCoder(z) /\ z.held = <<>> /\ z.skip = 0 /\ z.ended = FALSE
    BY <1>7, NewCoder
  <1>10. here = 0
    <2>1. Len(rdBuf.q) = 0
      BY <1>8
    <2> QED BY <1>7, <2>1 DEF here
  <1>11. TypeOK
    <2>1. pos \in 0 .. Len(file)
      BY <1>4, <1>7, LenProperties
    <2>2. room \in 0 .. MaxRead
      BY <1>7, ReaderAssumption
    <2>3. out \in Seq(Nat)
      BY <1>7
    <2> QED BY <1>4, <1>7, <1>8, <1>9, <2>1, <2>2, <2>3 DEF TypeOK
  <1>12. RingInv
    <2>1. Views(rdBuf.q, file, here)
      <3>1. Len(rdBuf.q) = 0 /\ Len(file) \in Nat
        BY <1>4, <1>8, LenProperties
      <3> QED BY <1>10, <3>1 DEF Views
    <2> QED BY <1>4, <1>6, <1>8, <2>1, UnitFacts DEF RingInv
  <1>13. PlaceInv
    BY <1>7, <1>10 DEF PlaceInv
  <1>14. FlowInv
    <2>1. DataCount(file, 0) = 0
      <3>1. DataUnits(file, 0) = {}
        BY DEF DataUnits
      <3> QED BY <1>4, <3>1, CountFacts, FS_EmptySet
    <2>2. DataTo(file, here) = <<>>
      BY <1>10, <2>1 DEF DataTo
    <2>3. Ahead = <<>>
      BY <1>7, <1>8, <1>9 DEF Ahead
    <2> QED BY <1>8, <1>9, <2>2, <2>3 DEF FlowInv
  <1>15. CallInv /\ EndInv /\ FitInv
    BY <1>7, <1>8 DEF CallInv, EndInv, FitInv
  <1> QED BY <1>11, <1>12, <1>13, <1>14, <1>15 DEF ReaderInv

\* The Reader is always where its state says, and the client, wrBuf and the
\* decoder together have the data of all the units that have left rdBuf.
THEOREM ReaderInvariant == Spec => []ReaderInv
  <1>1. Init => ReaderInv
    BY InitStep
  <1>2. ReaderInv /\ [Next]_vars => ReaderInv'
    <2> SUFFICES ASSUME ReaderInv, [Next]_vars PROVE ReaderInv'
      OBVIOUS
    <2>1. CASE readHeader
      BY <2>1, readHeaderStep
    <2>2. CASE openBlock
      BY <2>2, openBlockStep
    <2>3. CASE processBlock
      BY <2>3, processBlockStep
    <2>4. CASE readIndex
      BY <2>4, readIndexStep
    <2>5. CASE readFooter
      BY <2>5, readFooterStep
    <2>6. CASE readPadding
      BY <2>6, readPaddingStep
    <2>7. CASE \E n \in 0 .. MaxRead : Read(n)
      BY <2>7, ReadStep
    <2>8. CASE UNCHANGED vars
      <3>1. UNCHANGED <<file, faulty, pos, rdBuf, wrBuf, state, z, fed, rdErr,
                        cl, room, result, out>>
        BY <2>8 DEF vars
      <3>2. here' = here /\ Ahead' = Ahead /\ (Fits' <=> Fits)
        BY <3>1 DEF here, Ahead, Fits
      <3>3. TypeOK' /\ RingInv' /\ PlaceInv'
        BY <3>1, <3>2 DEF ReaderInv, TypeOK, RingInv, PlaceInv
      <3>4. FlowInv' /\ CallInv' /\ EndInv' /\ FitInv'
        BY <3>1, <3>2 DEF ReaderInv, FlowInv, CallInv, EndInv, FitInv
      <3> QED BY <3>3, <3>4 DEF ReaderInv
    <2> QED BY <2>1, <2>2, <2>3, <2>4, <2>5, <2>6, <2>7, <2>8 DEF Next, Step
  <1> QED BY <1>1, <1>2, PTL DEF Spec

\* Every field keeps its type: the rings never hold more than their size, and
\* what the client gets is plain data only.
THEOREM ReaderTypes == Spec => []TypeOK
  <1>1. ReaderInv => TypeOK
    BY DEF ReaderInv
  <1> QED BY <1>1, ReaderInvariant, PTL

LEMMA InvInOrder ==
    ASSUME ReaderInv
    PROVE  DeliveredInOrder
  <1> DEFINE t == wrBuf.q \o z.held
  <1>1. file \in Seq(Int) /\ here \in 0 .. Len(file)
    BY InvFacts DEF ReaderFacts
  <1>2. out \in Seq(Int) /\ wrBuf.q \in Seq(Int) /\ z.held \in Seq(Int)
    <2>1. \A s \in Seq(Nat) : s \in Seq(Int)
      OBVIOUS
    <2> QED BY <2>1, RingFacts, CoderFacts DEF ReaderInv, TypeOK
  <1>3. out \o t = DataTo(file, here)
    <2>1. Regrouped(out, wrBuf.q, z.held)
      BY <1>2, Regroup
    <2>2. Ahead = DataTo(file, here)
      BY DEF ReaderInv, FlowInv
    <2> QED BY <2>1, <2>2 DEF Regrouped, Ahead
  <1>4. t \in Seq(Int)
    BY <1>2, CatType
  <1> HIDE DEF t
  <1>5. IsPrefix(out, Data(file))
    BY <1>1, <1>2, <1>3, <1>4, DataPrefix
  <1> QED BY <1>5 DEF DeliveredInOrder

\* For slices, rings and short reads of any size, and wherever the file is cut
\* or the source fails, the client gets the data of the file in order, without
\* a gap or a repetition.
THEOREM ReaderInOrder == Spec => []DeliveredInOrder
  <1>1. ReaderInv => DeliveredInOrder
    BY InvInOrder
  <1> QED BY <1>1, ReaderInvariant, PTL

LEMMA InvEOF ==
    ASSUME ReaderInv
    PROVE  EOFMeansAll
  <1>1. SUFFICES ASSUME result = "EOF"
                 PROVE  IF Whole(file) THEN out = Data(file)
                                       ELSE state \in {"data", "index"}
    BY DEF EOFMeansAll
  <1>2. /\ here = Len(file) /\ state \in {"padding", "index", "data"}
        /\ state = "data" => ~z.ended
    BY <1>1 DEF ReaderInv, EndInv
  <1>3. /\ file \in Seq(Int) /\ Len(file) \in Nat
        /\ Whole(file) <=> Len(file) > 0 /\ file[Len(file)] \in {-4, -9}
    BY InvFacts, WholeFacts DEF ReaderFacts
  <1>4. /\ here > 0
        /\ state = "data" =>
             file[here] = BlockStart \/ IsData(file[here])
        /\ state = "index" =>
             file[here] = IndexStart \/ here < Len(file)
        /\ state = "padding" => file[here] \in {Footer[2], Pad}
    BY <1>2 DEF ReaderInv, PlaceInv
  <1>5. Whole(file) <=> state = "padding"
    <2>1. CASE state = "padding"
      BY <1>2, <1>3, <1>4, <2>1, UnitFacts DEF Pad
    <2>2. CASE state = "index"
      BY <1>2, <1>3, <1>4, <2>2 DEF IndexStart
    <2>3. CASE state = "data"
      BY <1>2, <1>3, <1>4, <2>3 DEF BlockStart, IsData
    <2> QED BY <1>2, <2>1, <2>2, <2>3
  <1>6. ASSUME state = "padding" PROVE out = Data(file)
    <2>1. /\ Ahead = DataTo(file, Len(file)) /\ wrBuf.q = <<>>
          /\ z.held = <<>>
      BY <1>2, <1>6 DEF ReaderInv, FlowInv
    <2>2. out \in Seq(Int)
      <3>1. \A s \in Seq(Nat) : s \in Seq(Int)
        OBVIOUS
      <3> QED BY <3>1 DEF ReaderInv, TypeOK
    <2>3. Ahead = out
      BY <2>1, <2>2, CatEmpty DEF Ahead
    <2>4. Data(file) = DataTo(file, Len(file))
      BY DEF Data, DataTo
    <2> QED BY <2>1, <2>3, <2>4
  <1> QED BY <1>2, <1>5, <1>6

\* io.EOF never comes early: the client of a complete file has all of its
\* data, and one that is cut off ends inside a block or an index.
THEOREM ReaderEOF == Spec => []EOFMeansAll
  <1>1. ReaderInv => EOFMeansAll
    BY InvEOF
  <1> QED BY <1>1, ReaderInvariant, PTL

\* A complete file no longer than the ring, from a source that does not fail,
\* is read without an error.
THEOREM ReaderFitting == Spec => []FittingFileReads
  <1>1. ReaderInv => FittingFileReads
    BY DEF ReaderInv, TypeOK, FitInv, Fits, FittingFileReads
  <1> QED BY <1>1, ReaderInvariant, PTL
=============================================================================
