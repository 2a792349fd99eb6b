---------------------------- MODULE LiteralProofs ----------------------------
(***************************************************************************)
(* Proofs about Literal, for every size of a literal chunk, every range of *)
(* chunk sizes and every request: a slice of literalBlockSize bytes for a   *)
(* full chunk holds the literal block of any input, and the space reserved  *)
(* for the header of a compressed block holds it.                           *)
(***************************************************************************)
EXTENDS Literal, TLAPS
-----------------------------------------------------------------------------
(***************************************************************************)
(* The sizes.                                                              *)
(***************************************************************************)
\* n can be written as a variable-length integer.
Encodable(n) == n \in Nat /\ \E k \in 1 .. 9 : n < Group ^ k

LEMMA PowInt == \A k \in 1 .. 9 : Group ^ k \in Int
  BY LiteralAssumption

LEMMA EncodableBelow ==
    ASSUME NEW a \in Nat, NEW b \in Nat, a <= b, Encodable(b)
    PROVE  Encodable(a)
  <1>1. PICK k \in 1 .. 9 : b < Group ^ k
    BY DEF Encodable
  <1>2. a < Group ^ k
    BY <1>1, PowInt
  <1> QED BY <1>1, <1>2 DEF Encodable

\* A size has the least number of bytes that can hold it.
LEMMA VliSizeLeast ==
    ASSUME NEW n, Encodable(n)
    PROVE  /\ VliSize(n) \in 1 .. 9
           /\ n < Group ^ VliSize(n)
           /\ \A j \in 1 .. VliSize(n) - 1 : n >= Group ^ j
  <1> DEFINE Fits(k) == n < Group ^ k
             P(k) == Fits(k) /\ \A j \in 1 .. k - 1 : n >= Group ^ j
  <1>0. n \in Int /\ \A k \in 1 .. 9 : ~Fits(k) => n >= Group ^ k
    BY PowInt DEF Encodable
  <1>1. \E k \in 1 .. 9 : Fits(k)
    BY DEF Encodable
  <1> HIDE DEF Fits
  <1>2. \E k \in 1 .. 9 : Fits(k) /\ \A j \in 1 .. k - 1 : ~Fits(j)
    BY <1>1
  <1>3. PICK k \in 1 .. 9 : Fits(k) /\ \A j \in 1 .. k - 1 : ~Fits(j)
    BY <1>2
  <1>4. P(k)
    <2>1. ASSUME NEW j \in 1 .. k - 1 PROVE n >= Group ^ j
      BY <1>0, <1>3
    <2> QED BY <1>3, <2>1
  <1>5. P(CHOOSE i \in 1 .. 9 : P(i)) /\ (CHOOSE i \in 1 .. 9 : P(i)) \in 1 .. 9
    <2> HIDE DEF P
    <2> QED BY <1>4
  <1>6. VliSize(n) = CHOOSE i \in 1 .. 9 : P(i)
    BY DEF VliSize, Fits
  <1> QED BY <1>5, <1>6 DEF Fits

LEMMA VliSizeMono ==
    ASSUME NEW a \in Nat, NEW b \in Nat, a <= b, Encodable(b)
    PROVE  VliSize(a) \in 1 .. 9 /\ VliSize(b) \in 1 .. 9
             /\ VliSize(a) <= VliSize(b)
  <1>1. /\ VliSize(b) \in 1 .. 9 /\ b < Group ^ VliSize(b)
        /\ VliSize(a) \in 1 .. 9
        /\ \A j \in 1 .. VliSize(a) - 1 : a >= Group ^ j
    BY EncodableBelow, VliSizeLeast
  <1> DEFINE l == VliSize(b)
  <1>2. a < Group ^ l
    BY <1>1, PowInt
  <1>3. ~(l \in 1 .. VliSize(a) - 1)
    BY <1>1, <1>2, PowInt
  <1> QED BY <1>1, <1>3

\* Padding rounds up to the next multiple of four.
LEMMA PaddingMono ==
    ASSUME NEW a \in Nat, NEW b \in Nat, a <= b
    PROVE  /\ Padding(a) \in 0 .. 3 /\ Padding(b) \in 0 .. 3
           /\ (a + Padding(a)) % 4 = 0
           /\ a + Padding(a) <= b + Padding(b)
  BY DEF Padding

LEMMA HeaderSizeMono ==
    ASSUME NEW a \in Nat, NEW b \in Nat, NEW c \in Nat, NEW d \in Nat,
           VliSize(a) \in 1 .. 9, VliSize(b) \in 1 .. 9,
           VliSize(c) \in 1 .. 9, VliSize(d) \in 1 .. 9,
           VliSize(a) + VliSize(b) <= VliSize(c) + VliSize(d)
    PROVE  /\ HeaderSize(a, b) \in Nat /\ HeaderSize(c, d) \in Nat
           /\ HeaderSize(a, b) % 4 = 0
           /\ HeaderSize(a, b) <= HeaderSize(c, d)
  <1> DEFINE m == 2 + VliSize(a) + VliSize(b) + 3 + 4
             n == 2 + VliSize(c) + VliSize(d) + 3 + 4
  <1>1. m \in Nat /\ n \in Nat /\ m <= n
    OBVIOUS
  <1>2. HeaderSize(a, b) = m + Padding(m) /\ HeaderSize(c, d) = n + Padding(n)
    BY DEF HeaderSize
  <1> HIDE DEF m, n
  <1>3. /\ Padding(m) \in 0 .. 3 /\ Padding(n) \in 0 .. 3
        /\ (m + Padding(m)) % 4 = 0 /\ m + Padding(m) <= n + Padding(n)
    BY <1>1, PaddingMono
  <1> DEFINE x == Padding(m)
             y == Padding(n)
  <1>4. x \in 0 .. 3 /\ y \in 0 .. 3
    BY <1>3
  <1> HIDE DEF x, y
  <1>5. m + x \in Nat /\ n + y \in Nat
    BY <1>1, <1>4
  <1> QED BY <1>2, <1>3, <1>5 DEF x, y

\* Division rounds down.
LEMMA DivIs ==
    ASSUME NEW n \in Int, NEW d \in Nat \ {0}, NEW q \in Int,
           q * d <= n, n < q * d + d
    PROVE  n \div d = q
  OBVIOUS

LEMMA DivAbove ==
    ASSUME NEW n \in Int, NEW d \in Nat \ {0}, NEW q \in Int, q * d <= n
    PROVE  n \div d \in Int /\ q <= n \div d
  OBVIOUS

LEMMA DivMono ==
    ASSUME NEW a \in Nat, NEW b \in Nat, a <= b, NEW d \in Nat \ {0}
    PROVE  a \div d \in Nat /\ b \div d \in Nat /\ a \div d <= b \div d
  OBVIOUS

LEMMA CompSizeMono ==
    ASSUME NEW a \in Nat, NEW b \in Nat, a <= b
    PROVE  /\ literalCompSize(a) \in Nat /\ literalCompSize(b) \in Nat
           /\ literalCompSize(a) <= literalCompSize(b)
           /\ b < literalCompSize(b)
  <1> DEFINE p == (a + LiteralChunk - 1) \div LiteralChunk
             q == (b + LiteralChunk - 1) \div LiteralChunk
  <1>1. p \in Nat /\ q \in Nat /\ p <= q
    BY LiteralAssumption, DivMono
  <1>2. literalCompSize(a) = a + 3 * p + 1 /\ literalCompSize(b) = b + 3 * q + 1
    BY DEF literalCompSize
  <1> HIDE DEF p, q
  <1> QED BY <1>1, <1>2

LEMMA CheckSizes == \A c \in Checks : CheckSize(c) \in Nat
  BY DEF Checks, CheckSize

\* Both sizes of the largest block are within reach.
LEMMA HighestEncodable ==
    /\ Encodable(literalCompSize(ChunkHighest))
    /\ \A c \in Checks :
         literalBlockSize(c, ChunkHighest) \in Nat =>
           Encodable(literalBlockSize(c, ChunkHighest))
  <1>1. ChunkHighest \in Nat
    BY LiteralAssumption
  <1>2. literalCompSize(ChunkHighest) \in Nat
    BY <1>1, CompSizeMono
  <1> QED BY <1>2, SizesAssumption DEF Encodable

\* Of two inputs the longer one has the larger header and the larger block.
LEMMA BlockSizeMono ==
    ASSUME NEW a \in Nat, NEW b \in Nat, a <= b, b <= ChunkHighest,
           NEW c \in Checks
    PROVE  /\ VliSize(a) \in 1 .. 9 /\ VliSize(b) \in 1 .. 9
           /\ VliSize(a) <= VliSize(b)
           /\ HeaderSize(literalCompSize(a), a) \in Nat
           /\ HeaderSize(literalCompSize(a), a) % 4 = 0
           /\ literalBlockSize(c, a) \in Nat /\ literalBlockSize(c, b) \in Nat
           /\ literalBlockSize(c, a) <= literalBlockSize(c, b)
           /\ b <= literalBlockSize(c, b)
  <1> DEFINE p == literalCompSize(a)
             q == literalCompSize(b)
  <1>1. p \in Nat /\ q \in Nat /\ p <= q /\ b < q
    BY CompSizeMono
  <1>2. q <= literalCompSize(ChunkHighest) /\ ChunkHighest \in Nat
          /\ literalCompSize(ChunkHighest) \in Nat
    BY LiteralAssumption, CompSizeMono
  <1>3. Encodable(q)
    BY <1>1, <1>2, HighestEncodable, EncodableBelow
  <1>4. Encodable(b)
    BY <1>1, <1>3, EncodableBelow
  <1>5. /\ VliSize(p) \in 1 .. 9 /\ VliSize(q) \in 1 .. 9
        /\ VliSize(p) <= VliSize(q)
    BY <1>1, <1>3, VliSizeMono
  <1>6. /\ VliSize(a) \in 1 .. 9 /\ VliSize(b) \in 1 .. 9
        /\ VliSize(a) <= VliSize(b)
    BY <1>4, VliSizeMono
  <1> HIDE DEF p, q
  <1>S. VliSize(p) + VliSize(a) <= VliSize(q) + VliSize(b)
    BY <1>5, <1>6
  <1>7. /\ HeaderSize(p, a) \in Nat /\ HeaderSize(q, b) \in Nat
        /\ HeaderSize(p, a) % 4 = 0
        /\ HeaderSize(p, a) <= HeaderSize(q, b)
    BY <1>1, <1>5, <1>6, <1>S, HeaderSizeMono
  <1>8. /\ literalBlockSize(c, a)
             = HeaderSize(p, a) + p + Padding(p) + CheckSize(c)
        /\ literalBlockSize(c, b)
             = HeaderSize(q, b) + q + Padding(q) + CheckSize(c)
    BY DEF literalBlockSize, p, q
  <1>9. CheckSize(c) \in Nat
    BY CheckSizes
  <1>10. /\ Padding(p) \in 0 .. 3 /\ Padding(q) \in 0 .. 3
         /\ p + Padding(p) <= q + Padding(q)
    BY <1>1, PaddingMono
  <1>11. /\ literalBlockSize(c, a) \in Nat /\ literalBlockSize(c, b) \in Nat
         /\ literalBlockSize(c, a) <= literalBlockSize(c, b)
         /\ b <= literalBlockSize(c, b)
    BY <1>1, <1>7, <1>8, <1>9, <1>10
  <1> QED BY <1>6, <1>7, <1>11 DEF p
-----------------------------------------------------------------------------
(***************************************************************************)
(* The encoder.                                                            *)
(***************************************************************************)
H == HeaderSize(literalCompSize(uncomp), uncomp)
C == literalCompSize(uncomp)

\* There is an input only where there is a Writer, and no more than a chunk.
InputInv ==
    /\ check \in Checks
    /\ pc \in {"refused", "header", "chunks", "pad", "check", "done"}
    /\ cnt \in Nat /\ pad \in Nat
    /\ sizes \in Seq(0 .. LiteralChunk - 1)
    /\ inCnt = LiteralChunk * Len(sizes)
    /\ pc # "refused" =>
         /\ chunkSize \in Nat /\ chunkSize <= ChunkHighest
         /\ uncomp \in Nat /\ uncomp >= 1 /\ uncomp <= chunkSize
    /\ Len(sizes) > 0 => LiteralChunk * (Len(sizes) - 1) < uncomp
    /\ pc \in {"pad", "check", "done"} => inCnt >= uncomp

\* What has been written so far.
CountInv ==
    /\ pc = "header" => cnt = 0 /\ pad = 0 /\ Len(sizes) = 0
    /\ pc = "chunks" =>
         /\ pad = 0
         /\ cnt = H + 3 * Len(sizes)
                    + (IF inCnt < uncomp THEN inCnt ELSE uncomp)
    /\ pc = "pad" => cnt = H + C + pad /\ pad <= Padding(C)
    /\ pc = "check" => cnt = H + C + pad /\ pad = Padding(C)
    /\ pc = "done" =>
         cnt = H + C + pad + CheckSize(check) /\ pad = Padding(C)

\* Every size written so far is that of its piece of the input.
CutInv ==
    \A i \in 1 .. Len(sizes) :
      LiteralChunk * (i - 1) + sizes[i] + 1
        = IF LiteralChunk * i <= uncomp THEN LiteralChunk * i ELSE uncomp

LiteralInv == InputInv /\ CountInv /\ CutInv

LEMMA SizesFacts ==
    ASSUME InputInv, pc # "refused"
    PROVE  /\ H \in Nat /\ C \in Nat /\ H % 4 = 0 /\ Padding(C) \in 0 .. 3
           /\ CheckSize(check) \in Nat
           /\ literalBlockSize(check, uncomp)
                = H + C + Padding(C) + CheckSize(check)
           /\ literalBlockSize(check, uncomp)
                <= literalBlockSize(check, chunkSize)
           /\ literalBlockSize(check, chunkSize) \in Nat
  <1>1. /\ uncomp \in Nat /\ chunkSize \in Nat /\ uncomp <= chunkSize
        /\ chunkSize <= ChunkHighest /\ check \in Checks
    BY DEF InputInv
  <1>2. C \in Nat
    BY <1>1, CompSizeMono DEF C
  <1>3. Padding(C) \in 0 .. 3
    BY <1>2, PaddingMono
  <1> QED BY <1>1, <1>2, <1>3, BlockSizeMono, CheckSizes
          DEF H, C, literalBlockSize

\* When the last literal chunk has been written, there are as many as
\* literalCompSize counts.
LEMMA ChunksCounted ==
    ASSUME InputInv, pc = "chunks", inCnt >= uncomp
    PROVE  C = uncomp + 3 * Len(sizes) + 1
  <1> DEFINE m == Len(sizes)
             d == LiteralChunk
  <1>1. /\ m \in Nat /\ d \in Nat \ {0} /\ uncomp \in Nat /\ uncomp >= 1
        /\ d * m >= uncomp /\ (m > 0 => d * (m - 1) < uncomp)
    BY LiteralAssumption DEF InputInv
  <1>2. C = uncomp + 3 * ((uncomp + d - 1) \div d) + 1
    BY DEF C, literalCompSize
  <1> HIDE DEF m, d
  <1>3. m > 0
    BY <1>1
  <1>4. d * (m - 1) = d * m - d /\ d * m = m * d
    BY <1>1
  <1> DEFINE e == m * d
  <1>5. e \in Nat /\ e >= uncomp /\ e - d < uncomp
    BY <1>1, <1>3, <1>4
  <1>6. e <= uncomp + d - 1 /\ uncomp + d - 1 < e + d
    <2> HIDE DEF e
    <2> QED BY <1>1, <1>5
  <1>7. (uncomp + d - 1) \div d = m
    BY <1>1, <1>6, DivIs
  <1> QED BY <1>2, <1>7 DEF m

\* No more literal chunks are written than literalCompSize counts.
LEMMA ChunksBounded ==
    ASSUME InputInv, pc # "refused"
    PROVE  uncomp + 3 * Len(sizes) + 1 <= C
  <1> DEFINE m == Len(sizes)
             d == LiteralChunk
             n == (uncomp + d - 1) \div d
  <1>1. /\ m \in Nat /\ d \in Nat \ {0} /\ uncomp \in Nat /\ uncomp >= 1
        /\ (m > 0 => d * (m - 1) < uncomp)
    BY LiteralAssumption DEF InputInv
  <1>2. C = uncomp + 3 * n + 1
    BY DEF C, literalCompSize
  <1> HIDE DEF m, d
  <1>3. d * (m - 1) = d * m - d /\ d * m = m * d /\ m * d \in Int
    BY <1>1
  <1>4. m * d <= uncomp + d - 1
    <2>1. CASE m = 0
      BY <2>1, <1>1
    <2>2. CASE m > 0
      <3> DEFINE e == m * d
      <3>1. e - d < uncomp /\ e \in Int
        BY <2>2, <1>1, <1>3
      <3> HIDE DEF e
      <3>2. e <= uncomp + d - 1
        BY <3>1, <1>1
      <3> QED BY <3>2 DEF e
    <2> QED BY <2>1, <2>2, <1>1
  <1>5. m <= n /\ n \in Int
    BY <1>1, <1>4, DivAbove
  <1> HIDE DEF n
  <1> QED BY <1>1, <1>2, <1>5 DEF m

\* The padding loop stops after the number of bytes literalBlockSize counts.
LEMMA PaddingExact ==
    ASSUME NEW h \in Nat, NEW c \in Nat, NEW p \in Nat, h % 4 = 0,
           p <= Padding(c)
    PROVE  /\ (h + c + p) % 4 > 0 => p < Padding(c)
           /\ (h + c + p) % 4 = 0 => p = Padding(c)
  BY DEF Padding

LEMMA LiteralInit == Init => LiteralInv
  <1> SUFFICES ASSUME Init PROVE LiteralInv
    OBVIOUS
  <1>1. /\ check \in Checks /\ inCnt = 0 /\ cnt = 0 /\ pad = 0 /\ sizes = <<>>
        /\ \/ pc = "refused"
           \/ pc = "header" /\ uncomp \in 1 .. chunkSize
    BY DEF Init
  <1>2. PICK request \in Requests : chunkSize = ChunkSizeFor(request)
    BY DEF Init
  <1>3. chunkSize \in Int /\ chunkSize <= ChunkHighest
    BY <1>2, LiteralAssumption DEF ChunkSizeFor, ChunkStream
  <1>4. /\ Len(sizes) = 0 /\ sizes \in Seq(0 .. LiteralChunk - 1)
        /\ LiteralChunk * 0 = 0
    BY <1>1, LiteralAssumption
  <1>5. InputInv
    BY <1>1, <1>3, <1>4 DEF InputInv
  <1>6. CountInv /\ CutInv
    BY <1>1, <1>4 DEF CountInv, CutInv
  <1> QED BY <1>5, <1>6 DEF LiteralInv

LEMMA HeaderStep == LiteralInv /\ encodeHeader => LiteralInv'
  <1> SUFFICES ASSUME LiteralInv, encodeHeader PROVE LiteralInv'
    OBVIOUS
  <1>1. /\ pc = "header" /\ pc' = "chunks" /\ cnt' = cnt + H
        /\ check' = check /\ chunkSize' = chunkSize /\ uncomp' = uncomp
        /\ inCnt' = inCnt /\ pad' = pad /\ sizes' = sizes
    BY DEF encodeHeader, H
  <1>2. H \in Nat
    BY <1>1, SizesFacts DEF LiteralInv
  <1>3. cnt = 0 /\ pad = 0 /\ Len(sizes) = 0 /\ inCnt = 0 /\ uncomp >= 1
          /\ uncomp \in Nat
    BY <1>1, LiteralAssumption DEF LiteralInv, InputInv, CountInv
  <1>4. InputInv'
    BY <1>1, <1>2, <1>3 DEF LiteralInv, InputInv
  <1>5. H' = H
    BY <1>1 DEF H
  <1>6. CountInv'
    BY <1>1, <1>2, <1>3, <1>5 DEF CountInv
  <1>7. CutInv'
    BY <1>1 DEF LiteralInv, CutInv
  <1> QED BY <1>4, <1>6, <1>7 DEF LiteralInv

LEMMA EndMarkerStep == LiteralInv /\ encodeEndMarker => LiteralInv'
  <1> SUFFICES ASSUME LiteralInv, encodeEndMarker PROVE LiteralInv'
    OBVIOUS
  <1>1. /\ pc = "chunks" /\ pc' = "pad" /\ cnt' = cnt + 1 /\ inCnt >= uncomp
        /\ check' = check /\ chunkSize' = chunkSize /\ uncomp' = uncomp
        /\ inCnt' = inCnt /\ pad' = pad /\ sizes' = sizes
    BY DEF encodeEndMarker
  <1>2. /\ H \in Nat /\ C \in Nat /\ Padding(C) \in 0 .. 3
    BY <1>1, SizesFacts DEF LiteralInv
  <1>3. /\ cnt \in Nat /\ pad = 0 /\ uncomp \in Nat /\ Len(sizes) \in Nat
        /\ cnt = H + 3 * Len(sizes) + uncomp
    <2>1. inCnt \in Int /\ uncomp \in Nat
      BY <1>1, LiteralAssumption DEF LiteralInv, InputInv
    <2>2. ~(inCnt < uncomp)
      BY <2>1, <1>1
    <2> QED BY <1>1, <2>1, <2>2 DEF LiteralInv, InputInv, CountInv
  <1>4. C = uncomp + 3 * Len(sizes) + 1
    BY <1>1, ChunksCounted DEF LiteralInv
  <1>5. InputInv'
    BY <1>1, <1>3 DEF LiteralInv, InputInv
  <1>6. H' = H /\ C' = C
    BY <1>1 DEF H, C
  <1>7. CountInv'
    <2>1. cnt' = H + C + pad /\ pad <= Padding(C)
      BY <1>1, <1>2, <1>3, <1>4
    <2> QED BY <2>1, <1>1, <1>6 DEF CountInv
  <1>8. CutInv'
    BY <1>1 DEF LiteralInv, CutInv
  <1> QED BY <1>5, <1>7, <1>8 DEF LiteralInv

LEMMA PaddingStep == LiteralInv /\ encodePadding => LiteralInv'
  <1> SUFFICES ASSUME LiteralInv, encodePadding PROVE LiteralInv'
    OBVIOUS
  <1>1. /\ pc = "pad"
        /\ check' = check /\ chunkSize' = chunkSize /\ uncomp' = uncomp
        /\ inCnt' = inCnt /\ sizes' = sizes
        /\ \/ cnt % 4 > 0 /\ cnt' = cnt + 1 /\ pad' = pad + 1 /\ pc' = pc
           \/ ~(cnt % 4 > 0) /\ pc' = "check" /\ cnt' = cnt /\ pad' = pad
    BY DEF encodePadding
  <1>2. /\ H \in Nat /\ C \in Nat /\ H % 4 = 0 /\ Padding(C) \in 0 .. 3
    BY <1>1, SizesFacts DEF LiteralInv
  <1>3. cnt \in Nat /\ pad \in Nat /\ cnt = H + C + pad /\ pad <= Padding(C)
    BY <1>1 DEF LiteralInv, InputInv, CountInv
  <1>4. /\ cnt % 4 > 0 => pad < Padding(C)
        /\ cnt % 4 = 0 => pad = Padding(C)
    BY <1>2, <1>3, PaddingExact
  <1>5. InputInv'
    <2>1. cnt' \in Nat /\ pad' \in Nat /\ pc' \in {"pad", "check"}
      BY <1>1, <1>3
    <2> QED BY <1>1, <2>1 DEF LiteralInv, InputInv
  <1>6. H' = H /\ C' = C /\ Padding(C)' = Padding(C)
    BY <1>1 DEF H, C
  <1>7. CountInv'
    <2>1. CASE cnt % 4 > 0
      <3>1. cnt' = H + C + pad' /\ pad' <= Padding(C) /\ pc' = "pad"
        BY <2>1, <1>1, <1>2, <1>3, <1>4
      <3> QED BY <3>1, <1>6 DEF CountInv
    <2>2. CASE ~(cnt % 4 > 0)
      <3>1. cnt % 4 = 0
        BY <2>2, <1>3
      <3>2. cnt' = H + C + pad' /\ pad' = Padding(C) /\ pc' = "check"
        BY <2>2, <3>1, <1>1, <1>3, <1>4
      <3> QED BY <3>2, <1>6 DEF CountInv
    <2> QED BY <2>1, <2>2
  <1>8. CutInv'
    BY <1>1 DEF LiteralInv, CutInv
  <1> QED BY <1>5, <1>7, <1>8 DEF LiteralInv

LEMMA CheckStep == LiteralInv /\ encodeCheck => LiteralInv'
  <1> SUFFICES ASSUME LiteralInv, encodeCheck PROVE LiteralInv'
    OBVIOUS
  <1>1. /\ pc = "check" /\ pc' = "done" /\ cnt' = cnt + CheckSize(check)
        /\ check' = check /\ chunkSize' = chunkSize /\ uncomp' = uncomp
        /\ inCnt' = inCnt /\ pad' = pad /\ sizes' = sizes
    BY DEF encodeCheck
  <1>2. CheckSize(check) \in Nat
    BY <1>1, SizesFacts DEF LiteralInv
  <1>3. cnt \in Nat /\ cnt = H + C + pad /\ pad = Padding(C)
    BY <1>1 DEF LiteralInv, InputInv, CountInv
  <1>4. InputInv'
    BY <1>1, <1>2, <1>3 DEF LiteralInv, InputInv
  <1>5. H' = H /\ C' = C /\ Padding(C)' = Padding(C)
          /\ CheckSize(check)' = CheckSize(check)
    BY <1>1 DEF H, C
  <1>6. CountInv'
    BY <1>1, <1>3, <1>5 DEF CountInv
  <1>7. CutInv'
    BY <1>1 DEF LiteralInv, CutInv
  <1> QED BY <1>4, <1>6, <1>7 DEF LiteralInv

LEMMA ChunkStep == LiteralInv /\ encodeChunk => LiteralInv'
  <1> SUFFICES ASSUME LiteralInv, encodeChunk PROVE LiteralInv'
    OBVIOUS
  <1> DEFINE m == Len(sizes)
             d == LiteralChunk
             len == ChunkLen
             x == SizeField(len)
  <1>1. /\ pc = "chunks" /\ pc' = pc /\ cnt' = cnt + 1 + 2 + len
        /\ inCnt < uncomp /\ inCnt' = inCnt + d /\ sizes' = Append(sizes, x)
        /\ check' = check /\ chunkSize' = chunkSize /\ uncomp' = uncomp
        /\ pad' = pad
    BY DEF encodeChunk
  <1>2. /\ m \in Nat /\ d \in Nat \ {0} /\ uncomp \in Nat /\ cnt \in Nat
        /\ inCnt = d * m /\ inCnt \in Nat
    BY <1>1, LiteralAssumption DEF LiteralInv, InputInv
  <1>3. /\ len \in 1 .. d
        /\ inCnt + len = IF inCnt + d <= uncomp THEN inCnt + d ELSE uncomp
    <2>1. d \in Nat /\ d > 0 /\ inCnt \in Nat /\ uncomp \in Nat
            /\ inCnt < uncomp
      BY <1>1, <1>2
    <2>2. len = IF uncomp - inCnt > d THEN d ELSE uncomp - inCnt
      BY DEF ChunkLen
    <2> HIDE DEF len, d
    <2> QED BY <2>1, <2>2
  <1>4. x = len - 1
    <2> HIDE DEF len
    <2> QED BY <1>2, <1>3 DEF SizeField
  <1>5. x \in 0 .. d - 1
    BY <1>2, <1>3, <1>4
  <1>6. d * (m + 1) = inCnt + d /\ d * ((m + 1) - 1) = inCnt
    BY <1>2
  <1> HIDE DEF len, x
  <1>7. /\ sizes' \in Seq(0 .. d - 1) /\ Len(sizes') = m + 1
        /\ sizes'[m + 1] = x /\ \A i \in 1 .. m : sizes'[i] = sizes[i]
    <2>1. sizes \in Seq(0 .. d - 1)
      BY DEF LiteralInv, InputInv
    <2> QED BY <2>1, <1>1, <1>5
  <1> HIDE DEF m, d
  <1>8. InputInv'
    <2>1. cnt' \in Nat
      BY <1>1, <1>2, <1>3
    <2>2. inCnt' = d * Len(sizes') /\ d * (Len(sizes') - 1) < uncomp'
      BY <1>1, <1>6, <1>7
    <2> QED BY <2>1, <2>2, <1>1, <1>7 DEF LiteralInv, InputInv, d
  <1>9. CountInv'
    <2>1. H' = H
      BY <1>1 DEF H
    <2>2. H \in Nat
      BY <1>1, SizesFacts DEF LiteralInv
    <2>3. pad = 0 /\ cnt = H + 3 * m + inCnt
      BY <1>1 DEF LiteralInv, CountInv, m
    <2>4. inCnt + len = IF inCnt' < uncomp' THEN inCnt' ELSE uncomp'
      BY <1>1, <1>2, <1>3
    <2>5. cnt' = H + 3 * (m + 1) + (inCnt + len)
      BY <2>2, <2>3, <1>1, <1>2, <1>3
    <2> QED BY <2>1, <2>3, <2>4, <2>5, <1>1, <1>7 DEF CountInv
  <1>10. CutInv'
    <2> SUFFICES ASSUME NEW i \in 1 .. m + 1
                 PROVE  d * (i - 1) + sizes'[i] + 1
                          = IF d * i <= uncomp THEN d * i ELSE uncomp
      BY <1>1, <1>7 DEF CutInv, d
    <2>1. CASE i = m + 1
      <3>1. inCnt + x + 1 = inCnt + len
        BY <1>2, <1>3, <1>4
      <3> QED BY <3>1, <2>1, <1>3, <1>6, <1>7
    <2>2. CASE i # m + 1
      <3>1. i \in 1 .. m
        BY <2>2, <1>2
      <3> QED BY <3>1, <1>7 DEF LiteralInv, CutInv, d, m
    <2> QED BY <2>1, <2>2
  <1> QED BY <1>8, <1>9, <1>10 DEF LiteralInv

LEMMA LiteralInvariant == Spec => []LiteralInv
  <1>1. LiteralInv /\ [literalBlockEncode]_vars => LiteralInv'
    <2>1. LiteralInv /\ UNCHANGED vars => LiteralInv'
      BY DEF vars, LiteralInv, InputInv, CountInv, CutInv, H, C
    <2> QED BY <2>1, HeaderStep, ChunkStep, EndMarkerStep, PaddingStep,
               CheckStep DEF literalBlockEncode
  <1> QED BY <1>1, LiteralInit, PTL DEF Spec
-----------------------------------------------------------------------------
(***************************************************************************)
(* What the sizes are for.                                                 *)
(***************************************************************************)
\* The output slice, allocated by NewWriterCustom for a full chunk, is never
\* overrun by literalBlockEncode, whatever the length of the input.
THEOREM LiteralFits == Spec => []OutputFits
  <1>1. LiteralInv => OutputFits
    <2> SUFFICES ASSUME LiteralInv, pc # "refused"
                 PROVE  cnt <= literalBlockSize(check, chunkSize)
      BY DEF OutputFits
    <2>1. /\ H \in Nat /\ C \in Nat /\ Padding(C) \in 0 .. 3
          /\ CheckSize(check) \in Nat
          /\ literalBlockSize(check, uncomp)
               = H + C + Padding(C) + CheckSize(check)
          /\ literalBlockSize(check, uncomp)
               <= literalBlockSize(check, chunkSize)
          /\ literalBlockSize(check, chunkSize) \in Nat
      BY SizesFacts DEF LiteralInv
    <2>2. cnt <= H + C + Padding(C) + CheckSize(check) /\ cnt \in Nat
      <3>1. CASE pc = "header"
        BY <3>1, <2>1 DEF LiteralInv, CountInv
      <3>2. CASE pc = "chunks"
        <4>1. uncomp + 3 * Len(sizes) + 1 <= C
          BY <3>2, ChunksBounded DEF LiteralInv
        <4>2. /\ uncomp \in Nat /\ Len(sizes) \in Nat /\ inCnt \in Int
              /\ cnt \in Nat
          BY LiteralAssumption DEF LiteralInv, InputInv
        <4>3. cnt <= H + 3 * Len(sizes) + uncomp
          BY <3>2, <4>2, <2>1 DEF LiteralInv, CountInv
        <4> QED BY <4>1, <4>2, <4>3, <2>1
      <3>3. CASE pc \in {"pad", "check", "done"}
        BY <3>3, <2>1 DEF LiteralInv, InputInv, CountInv
      <3> QED BY <3>1, <3>2, <3>3 DEF LiteralInv, InputInv
    <2> QED BY <2>1, <2>2
  <1> QED BY <1>1, LiteralInvariant, PTL

\* The header of a compressed block fits the space that blockEncode reserved
\* for it before compressing, although the two sizes are given to blockInit
\* the wrong way round there.
THEOREM ReservedSuffices == Spec => []HeaderFits
  <1>1. LiteralInv => HeaderFits
    <2> DEFINE max == literalBlockSize(check, chunkSize)
               res == Reserved(check, chunkSize)
    <2> SUFFICES ASSUME LiteralInv, pc = "header",
                        NEW comp \in 1 .. max - res - CheckSize(check)
                 PROVE  HeaderSize(comp, uncomp) <= res
      BY DEF HeaderFits
    <2>1. /\ uncomp \in Nat /\ chunkSize \in Nat /\ uncomp <= chunkSize
          /\ chunkSize <= ChunkHighest /\ check \in Checks
          /\ ChunkHighest \in Nat
      BY LiteralAssumption DEF LiteralInv, InputInv
    <2>2. /\ max \in Nat /\ literalBlockSize(check, ChunkHighest) \in Nat
          /\ max <= literalBlockSize(check, ChunkHighest)
      BY <2>1, BlockSizeMono
    <2>3. /\ VliSize(uncomp) \in 1 .. 9 /\ VliSize(chunkSize) \in 1 .. 9
          /\ VliSize(uncomp) <= VliSize(chunkSize)
      BY <2>1, BlockSizeMono
    <2> HIDE DEF max
    <2>4. Encodable(max)
      BY <2>1, <2>2, HighestEncodable, EncodableBelow
    <2>5. VliSize(max) \in 1 .. 9
      BY <2>2, <2>4, VliSizeMono
    <2>6. res = HeaderSize(chunkSize, max)
      BY DEF Reserved, max
    <2>7. res \in Nat /\ CheckSize(check) \in Nat
      <3>1. VliSize(chunkSize) + VliSize(max) <= VliSize(chunkSize) + VliSize(max)
        BY <2>3, <2>5
      <3>2. HeaderSize(chunkSize, max) \in Nat
        BY <3>1, <2>1, <2>2, <2>3, <2>5, HeaderSizeMono
      <3> QED BY <3>2, <2>1, <2>6, CheckSizes
    <2> HIDE DEF res
    <2>8. comp \in Nat /\ comp <= max
      BY <2>2, <2>7
    <2>9. VliSize(comp) \in 1 .. 9 /\ VliSize(comp) <= VliSize(max)
      BY <2>2, <2>4, <2>8, VliSizeMono
    <2>10. VliSize(comp) + VliSize(uncomp) <= VliSize(chunkSize) + VliSize(max)
      BY <2>3, <2>5, <2>9
    <2> QED BY <2>1, <2>2, <2>3, <2>5, <2>6, <2>8, <2>9, <2>10, HeaderSizeMono
  <1> QED BY <1>1, LiteralInvariant, PTL

\* A finished literal block can be decoded: its chunks cut the input where the
\* encoder did, and it has the size that literalBlockSize announced to the
\* header and to the index.
THEOREM LiteralIsDecodable == Spec => []Decodable
  <1>1. LiteralInv => Decodable
    <2> SUFFICES ASSUME LiteralInv, pc = "done" PROVE Decodable
      BY DEF Decodable
    <2> DEFINE m == Len(sizes)
               d == LiteralChunk
    <2>1. /\ m \in Nat /\ d \in Nat \ {0} /\ uncomp \in Nat /\ uncomp >= 1
          /\ d * m >= uncomp /\ (m > 0 => d * (m - 1) < uncomp)
          /\ sizes \in Seq(0 .. d - 1) /\ check \in Checks
      BY LiteralAssumption DEF LiteralInv, InputInv
    <2>2. m > 0 /\ sizes # <<>>
      BY <2>1
    <2>3. ASSUME NEW i \in 1 .. m
          PROVE  d * (i - 1) + sizes[i] + 1 = IF i < m THEN d * i ELSE uncomp
      <3> HIDE DEF m, d
      <3>1. d * (i - 1) + sizes[i] + 1
              = IF d * i <= uncomp THEN d * i ELSE uncomp
        BY DEF LiteralInv, CutInv, d, m
      <3>2. CASE i < m
        <4>1. d * i <= d * (m - 1) /\ d * i \in Int /\ d * (m - 1) \in Int
          BY <3>2, <2>1
        <4>2. d * i <= uncomp
          BY <4>1, <2>1, <2>2
        <4> QED BY <3>1, <3>2, <4>2
      <3>3. CASE i = m
        BY <3>1, <3>3, <2>1
      <3> QED BY <3>2, <3>3, <2>1
    <2>4. /\ H \in Nat /\ C \in Nat /\ Padding(C) \in 0 .. 3
          /\ CheckSize(check) \in Nat
          /\ literalBlockSize(check, uncomp)
               = H + C + Padding(C) + CheckSize(check)
      BY SizesFacts DEF LiteralInv
    <2>5. cnt = H + C + pad + CheckSize(check) /\ pad = Padding(C)
      BY DEF LiteralInv, CountInv
    <2>6. cnt - pad = H + C + CheckSize(check)
      BY <2>4, <2>5
    <2>7. cnt = literalBlockSize(check, uncomp)
      BY <2>4, <2>5
    <2> QED BY <2>2, <2>3, <2>6, <2>7 DEF Decodable, H, C
  <1> QED BY <1>1, LiteralInvariant, PTL
=============================================================================
