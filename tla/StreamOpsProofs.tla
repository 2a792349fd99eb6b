--------------------------- MODULE StreamOpsProofs ---------------------------
(***************************************************************************)
(* Lemmas about the round of Stream.Process: what each of its steps does   *)
(* to the rings, to the coder and to the units between them.               *)
(***************************************************************************)
EXTENDS StreamOps, SequenceTheorems, TLAPS
-----------------------------------------------------------------------------
(***************************************************************************)
(* Sequences of units.                                                     *)
(***************************************************************************)
LEMMA CatType ==
    ASSUME NEW s \in Seq(Int), NEW t \in Seq(Int)
    PROVE  s \o t \in Seq(Int) /\ Len(s \o t) = Len(s) + Len(t)
  BY ConcatProperties

LEMMA Assoc ==
    ASSUME NEW s \in Seq(Int), NEW t \in Seq(Int), NEW u \in Seq(Int)
    PROVE  (s \o t) \o u = s \o (t \o u)
  BY ConcatAssociative, SMTT(30)

Regrouped(s, t, u) == (s \o t) \o u = s \o (t \o u)

LEMMA Regroup ==
    ASSUME NEW s \in Seq(Int), NEW t \in Seq(Int), NEW u \in Seq(Int)
    PROVE  Regrouped(s, t, u)
  BY Assoc DEF Regrouped

\* An element of a concatenation.
LEMMA CatAt ==
    ASSUME NEW s \in Seq(Int), NEW t \in Seq(Int)
    PROVE  /\ \A i \in 1 .. Len(s) : (s \o t)[i] = s[i]
           /\ \A i \in 1 .. Len(t) : (s \o t)[Len(s) + i] = t[i]
  <1>1. /\ Len(s) \in Nat /\ Len(t) \in Nat
        /\ \A i \in 1 .. Len(s) + Len(t) :
             (s \o t)[i] = IF i <= Len(s) THEN s[i] ELSE t[i - Len(s)]
    BY ConcatProperties, LenProperties
  <1>2. ASSUME NEW i \in 1 .. Len(s) PROVE (s \o t)[i] = s[i]
    BY <1>1
  <1>3. ASSUME NEW i \in 1 .. Len(t) PROVE (s \o t)[Len(s) + i] = t[i]
    <2> DEFINE k == Len(s) + i
    <2>1. k \in 1 .. Len(s) + Len(t) /\ ~(k <= Len(s)) /\ k - Len(s) = i
      BY <1>1
    <2>2. (s \o t)[k] = IF k <= Len(s) THEN s[k] ELSE t[k - Len(s)]
      BY <1>1, <2>1
    <2> HIDE DEF k
    <2>3. (s \o t)[k] = t[i]
      BY <2>1, <2>2
    <2> QED BY <2>3 DEF k
  <1> QED BY <1>2, <1>3

LEMMA One ==
    ASSUME NEW e \in Int
    PROVE  <<e>> \in Seq(Int) /\ Len(<<e>>) = 1 /\ <<e>>[1] = e
  OBVIOUS

\* A sequence is what is before a position and what is behind it.
LEMMA Split ==
    ASSUME NEW s \in Seq(Int), NEW n \in 0 .. Len(s)
    PROVE  /\ SubSeq(s, 1, n) \in Seq(Int) /\ Len(SubSeq(s, 1, n)) = n
           /\ SubSeq(s, n + 1, Len(s)) \in Seq(Int)
           /\ Len(SubSeq(s, n + 1, Len(s))) = Len(s) - n
           /\ SubSeq(s, 1, n) \o SubSeq(s, n + 1, Len(s)) = s
  <1>1. /\ SubSeq(s, 1, n) \in Seq(Int) /\ Len(SubSeq(s, 1, n)) = n
        /\ SubSeq(s, n + 1, Len(s)) \in Seq(Int)
        /\ Len(SubSeq(s, n + 1, Len(s))) = Len(s) - n
    BY SubSeqProperties, LenProperties
  <1>2. SubSeq(s, 1, n) \o SubSeq(s, n + 1, Len(s)) = s
    <2>1. Len(s) \in Nat
      BY LenProperties
    <2>2. 1 \in 1 .. Len(s) + 1 /\ n \in 1 - 1 .. Len(s) /\ Len(s) \in n .. Len(s)
      BY <2>1
    <2>3. SubSeq(s, 1, n) \o SubSeq(s, n + 1, Len(s)) = SubSeq(s, 1, Len(s))
      BY <2>2, ConcatAdjacentSubSeq
    <2> QED BY <2>3, SubSeqFull
  <1> QED BY <1>1, <1>2

LEMMA SplitAll ==
    ASSUME NEW s \in Seq(Int)
    PROVE  /\ SubSeq(s, 1, 0) = <<>> /\ SubSeq(s, 1, Len(s)) = s
           /\ SubSeq(s, Len(s) + 1, Len(s)) = <<>>
  BY SubSeqEmpty, SubSeqFull, LenProperties
-----------------------------------------------------------------------------
(***************************************************************************)
(* The rings.                                                              *)
(***************************************************************************)
\* What the ring holds does not go around its end.
Straight(b) == b.at + Len(b.q) <= b.size

LEMMA RingFacts ==
    ASSUME NEW b, IsRing(b)
    PROVE  /\ b.size \in Nat /\ b.at \in Nat /\ b.q \in Seq(Int)
           /\ b.at < b.size /\ Len(b.q) \in Nat /\ Len(b.q) <= b.size
           /\ b = [size |-> b.size, at |-> b.at, q |-> b.q]
  BY DEF IsRing

LEMMA NewRing ==
    ASSUME NEW n \in Nat, n > 0
    PROVE  /\ IsRing(Ring(n)) /\ Straight(Ring(n))
           /\ Ring(n).q = <<>> /\ Ring(n).size = n
  BY DEF IsRing, Ring, Straight

LEMMA WriteSliceFacts ==
    ASSUME NEW b, IsRing(b)
    PROVE  /\ WriteSlice(b) \in Nat /\ WriteSlice(b) <= b.size - Len(b.q)
           /\ WriteSlice(b) = 0 <=> Len(b.q) = b.size
           /\ b.q = <<>> => b.at + WriteSlice(b) <= b.size
  BY RingFacts DEF WriteSlice

LEMMA WriteMarkFits ==
    ASSUME NEW b, IsRing(b), NEW u \in Seq(Int),
           Len(u) <= b.size - Len(b.q)
    PROVE  /\ IsRing(WriteMark(b, u)) /\ WriteMark(b, u).q = b.q \o u
           /\ WriteMark(b, u).size = b.size /\ WriteMark(b, u).at = b.at
  <1>1. WriteMark(b, u) = [size |-> b.size, at |-> b.at, q |-> b.q \o u]
    BY DEF WriteMark, IsRing
  <1>2. b.q \o u \in Seq(Int) /\ Len(b.q \o u) = Len(b.q) + Len(u)
    BY RingFacts, CatType
  <1>3. Len(b.q) + Len(u) <= b.size /\ Len(b.q) + Len(u) \in Nat
    BY RingFacts, WriteSliceFacts, LenProperties
  <1> QED BY <1>1, <1>2, <1>3, RingFacts DEF IsRing

LEMMA WriteMarkFacts ==
    ASSUME NEW b, IsRing(b), NEW u \in Seq(Int), Len(u) <= WriteSlice(b)
    PROVE  /\ IsRing(WriteMark(b, u)) /\ WriteMark(b, u).q = b.q \o u
           /\ WriteMark(b, u).size = b.size /\ WriteMark(b, u).at = b.at
  <1>1. /\ b.size \in Nat /\ Len(b.q) \in Nat /\ Len(u) \in Nat
        /\ WriteSlice(b) \in Nat /\ WriteSlice(b) <= b.size - Len(b.q)
    BY RingFacts, WriteSliceFacts, LenProperties
  <1>2. Len(u) <= b.size - Len(b.q)
    BY <1>1
  <1> QED BY <1>2, WriteMarkFits

LEMMA ModSmall ==
    ASSUME NEW x \in Nat, NEW m \in Nat, x < m
    PROVE  x % m = x
  OBVIOUS

LEMMA ReadMarkFacts ==
    ASSUME NEW b, IsRing(b), NEW n \in 0 .. Len(b.q)
    PROVE  /\ IsRing(ReadMark(b, n))
           /\ ReadMark(b, n).q = SubSeq(b.q, n + 1, Len(b.q))
           /\ ReadMark(b, n).size = b.size
           /\ Straight(b) => Straight(ReadMark(b, n))
  <1> DEFINE rest == SubSeq(b.q, n + 1, Len(b.q))
             a == (b.at + n) % b.size
  <1>1. ReadMark(b, n) = [size |-> b.size, at |-> a, q |-> rest]
    BY DEF ReadMark, IsRing
  <1>2. rest \in Seq(Int) /\ Len(rest) = Len(b.q) - n
    BY RingFacts, Split
  <1>3. /\ b.size \in Nat /\ b.at \in Nat /\ b.at < b.size /\ Len(b.q) \in Nat
        /\ Len(b.q) <= b.size
    BY RingFacts
  <1>4. a \in Nat /\ a < b.size
    BY <1>3
  <1>5. ASSUME Straight(b) PROVE a + (Len(b.q) - n) <= b.size
    <2>1. b.at + Len(b.q) <= b.size
      BY <1>5 DEF Straight
    <2>2. CASE b.at + n = b.size
      <3>1. a = 0
        BY <1>3, <2>2
      <3> QED BY <1>3, <2>1, <2>2, <3>1
    <2>3. CASE b.at + n < b.size
      <3>1. a = b.at + n
        BY <1>3, <2>3, ModSmall
      <3> HIDE DEF a
      <3> QED BY <1>3, <2>1, <3>1
    <2> QED BY <1>3, <2>1, <2>2, <2>3
  <1> HIDE DEF rest, a
  <1> QED BY <1>1, <1>2, <1>3, <1>4, <1>5 DEF IsRing, Straight, rest

LEMMA ReadSliceFacts ==
    ASSUME NEW b, IsRing(b), Straight(b)
    PROVE  ReadSlice(b) = b.q
  BY RingFacts, SplitAll DEF ReadSlice, Straight, Lesser
-----------------------------------------------------------------------------
(***************************************************************************)
(* The steps of the round.                                                 *)
(***************************************************************************)
RdErrs == {"nil", "EOF", "err"}

\* A read moves units from the source into the ring, and only into an empty
\* one; it brings at least a unit, the end or an error.
FetchStep(b, rdErr, rest, fails, f) ==
    /\ f.n \in 0 .. Len(rest) /\ f.err \in RdErrs
    /\ f.n <= WriteSlice(b)
    /\ b.q # <<>> \/ rdErr # "nil" => f.n = 0 /\ f.err = rdErr
    /\ b.q = <<>> /\ rdErr = "nil" =>
         /\ f.err = "nil" => f.n >= 1
         /\ f.err = "EOF" => f.n = Len(rest)
         /\ f.err = "err" => fails

LEMMA FetchFacts ==
    ASSUME NEW b, IsRing(b), NEW rdErr \in RdErrs,
           NEW rest \in Seq(Int), NEW fails \in BOOLEAN,
           NEW f \in Fetches(b, rdErr, rest, fails)
    PROVE  FetchStep(b, rdErr, rest, fails, f)
  <1> USE DEF FetchStep
  <1> DEFINE most == Lesser(WriteSlice(b), Len(rest))
  <1>1. Len(rest) \in Nat /\ WriteSlice(b) \in Nat
    BY WriteSliceFacts, LenProperties
  <1>2. most \in Nat /\ most <= Len(rest) /\ most <= WriteSlice(b)
    BY <1>1 DEF Lesser
  <1>3. CASE b.q # <<>> \/ rdErr # "nil"
    <2>1. f = [n |-> 0, err |-> rdErr]
      BY <1>3 DEF Fetches
    <2> QED BY <2>1, <1>1, <1>3
  <1>4. CASE b.q = <<>> /\ rdErr = "nil"
    <2>1. \/ f \in [n : 1 .. most, err : {"nil"}]
          \/ f \in [n : {Len(rest)} \cap {most}, err : {"EOF"}]
          \/ f \in [n : 0 .. most, err : IF fails THEN {"err"} ELSE {}]
      BY <1>4 DEF Fetches
    <2> HIDE DEF most
    <2>2. CASE f \in [n : 1 .. most, err : {"nil"}]
      BY <2>2, <1>1, <1>2, <1>4 DEF RdErrs
    <2>3. CASE f \in [n : {Len(rest)} \cap {most}, err : {"EOF"}]
      BY <2>3, <1>1, <1>2, <1>4 DEF RdErrs
    <2>4. CASE f \in [n : 0 .. most, err : IF fails THEN {"err"} ELSE {}]
      BY <2>4, <1>1, <1>2, <1>4 DEF RdErrs
    <2> QED BY <2>1, <2>2, <2>3, <2>4
  <1> QED BY <1>3, <1>4

LEMMA Fetched ==
    ASSUME NEW b, IsRing(b), Straight(b), NEW rdErr \in RdErrs,
           NEW rest \in Seq(Int), NEW fails \in BOOLEAN,
           NEW f \in Fetches(b, rdErr, rest, fails)
    PROVE  LET in == WriteMark(b, SubSeq(rest, 1, f.n))
           IN  /\ IsRing(in) /\ Straight(in) /\ in.size = b.size
               /\ in.q = b.q \o SubSeq(rest, 1, f.n)
               /\ SubSeq(rest, f.n + 1, Len(rest)) \in Seq(Int)
               /\ in.q \o SubSeq(rest, f.n + 1, Len(rest)) = b.q \o rest
  <1> DEFINE u == SubSeq(rest, 1, f.n)
             v == SubSeq(rest, f.n + 1, Len(rest))
             in == WriteMark(b, u)
  <1>1. /\ f.n \in 0 .. Len(rest) /\ f.n <= WriteSlice(b)
        /\ b.q # <<>> => f.n = 0
    BY FetchFacts DEF FetchStep
  <1>2. u \in Seq(Int) /\ Len(u) = f.n /\ v \in Seq(Int) /\ u \o v = rest
    BY <1>1, Split
  <1> HIDE DEF u, v
  <1>3. /\ IsRing(in) /\ in.q = b.q \o u /\ in.size = b.size /\ in.at = b.at
    BY <1>1, <1>2, WriteMarkFacts
  <1>4. in.q \o v = b.q \o rest
    <2>1. b.q \in Seq(Int)
      BY RingFacts
    <2>2. (b.q \o u) \o v = b.q \o (u \o v)
      BY <2>1, <1>2, Assoc, Zenon
    <2> QED BY <2>2, <1>2, <1>3
  <1>5. Straight(in)
    <2>1. Len(in.q) = Len(b.q) + f.n /\ Len(b.q) \in Nat
      <3>1. b.q \in Seq(Int) /\ Len(b.q) \in Nat
        BY RingFacts
      <3>2. Len(b.q \o u) = Len(b.q) + Len(u)
        BY <3>1, <1>2, CatType
      <3> QED BY <3>1, <3>2, <1>2, <1>3
    <2>2. CASE b.q = <<>>
      <3>1. b.at + WriteSlice(b) <= b.size /\ Len(b.q) = 0
        BY <2>2, WriteSliceFacts
      <3>2. b.at \in Nat /\ b.size \in Nat /\ WriteSlice(b) \in Nat
        BY RingFacts, WriteSliceFacts
      <3>3. f.n \in Nat /\ f.n <= WriteSlice(b)
        BY <1>1, LenProperties
      <3>4. in.at = b.at /\ in.size = b.size
        BY <1>3
      <3> HIDE DEF in
      <3>5. Len(in.q) = f.n
        BY <2>1, <3>1, <3>3
      <3> QED BY <3>1, <3>2, <3>3, <3>4, <3>5 DEF Straight
    <2>3. CASE b.q # <<>>
      BY <2>3, <2>1, <1>1, <1>3, RingFacts DEF Straight
    <2> QED BY <2>2, <2>3
  <1> QED BY <1>2, <1>3, <1>4, <1>5 DEF u, v

Rets == {"OK", "STREAM_END", "BUF_ERROR"}

LEMMA CoderFacts ==
    ASSUME NEW z, IsCoder(z)
    PROVE  /\ z.held \in Seq(Int) /\ z.skip \in Nat
           /\ z.ended \in BOOLEAN /\ z.stalled \in BOOLEAN
  BY DEF IsCoder

LEMMA LesserFacts ==
    ASSUME NEW a \in Nat, NEW b \in Nat
    PROVE  /\ Lesser(a, b) \in Nat /\ Lesser(a, b) <= a /\ Lesser(a, b) <= b
           /\ Lesser(a, b) \in {a, b}
  BY DEF Lesser

\* Call d of lzma_code leaves coder z with something to do.
GoesOn(z, took, put, held, d) ==
    /\ d.took = took /\ d.put = put /\ d.z.held = held
    /\ ~d.z.ended /\ IsCoder(d.z)
    /\ d.ret \in Rets /\ d.ret # "STREAM_END"
    /\ d.z.skip = z.skip - Lesser(z.skip, took)
    /\ d.z.stalled => took = 0 /\ put = <<>>
    /\ d.ret = "BUF_ERROR" => z.stalled /\ d.z.stalled

\* Call d of lzma_code ends coder z.
Ends(z, took, put, d) ==
    /\ d.took = took /\ d.put = put /\ d.z.held = <<>>
    /\ d.z.ended /\ IsCoder(d.z)
    /\ d.ret \in Rets /\ d.ret = "STREAM_END"
    /\ d.z.skip = z.skip - Lesser(z.skip, took)
    /\ ~d.z.stalled

LEMMA CallGoesOn ==
    ASSUME NEW z, IsCoder(z), NEW took \in Nat, NEW put \in Seq(Int),
           NEW held \in Seq(Int)
    PROVE  GoesOn(z, took, put, held, Called(z, took, put, held))
  <1> DEFINE idle == took = 0 /\ put = <<>>
             d == Called(z, took, put, held)
  <1>1. /\ d.took = took /\ d.put = put
        /\ d.ret = IF idle /\ z.stalled THEN "BUF_ERROR" ELSE "OK"
        /\ d.z = [held |-> held, skip |-> z.skip - Lesser(z.skip, took),
                  ended |-> FALSE, stalled |-> idle]
    BY DEF Called
  <1>2. z.skip - Lesser(z.skip, took) \in Nat
    BY CoderFacts DEF Lesser
  <1>3. /\ d.ret \in Rets /\ d.ret # "STREAM_END"
        /\ d.ret = "BUF_ERROR" => z.stalled /\ idle
    BY <1>1 DEF Rets
  <1>4. idle \in BOOLEAN /\ <<>> \in Seq(Int)
    OBVIOUS
  <1> HIDE DEF d, idle
  <1>5. IsCoder(d.z)
    BY <1>1, <1>2, <1>4 DEF IsCoder
  <1>6. d.z.held = held /\ d.z.skip = z.skip - Lesser(z.skip, took)
    BY <1>1
  <1>7. ~d.z.ended
    BY <1>1
  <1>8. d.z.stalled <=> idle
    BY <1>1
  <1>9. d.z.stalled => took = 0 /\ put = <<>>
    BY <1>8 DEF idle
  <1>10. d.ret = "BUF_ERROR" => z.stalled /\ d.z.stalled
    BY <1>3, <1>8
  <1> QED BY <1>1, <1>3, <1>5, <1>6, <1>7, <1>9, <1>10 DEF d, GoesOn

LEMMA CallEnds ==
    ASSUME NEW z, IsCoder(z), NEW took \in Nat, NEW put \in Seq(Int)
    PROVE  Ends(z, took, put, Ended(z, took, put))
  <1> DEFINE d == Ended(z, took, put)
  <1>1. /\ d.took = took /\ d.put = put /\ d.ret = "STREAM_END"
        /\ d.z = [held |-> <<>>, skip |-> z.skip - Lesser(z.skip, took),
                  ended |-> TRUE, stalled |-> FALSE]
    BY DEF Ended
  <1>2. z.skip - Lesser(z.skip, took) \in Nat /\ <<>> \in Seq(Int)
    BY CoderFacts DEF Lesser
  <1> HIDE DEF d
  <1>3. IsCoder(d.z)
    BY <1>1, <1>2 DEF IsCoder
  <1> QED BY <1>1, <1>3 DEF d, Ends, Rets

\* A coder that has reached its end says so again.
LEMMA CallAgain ==
    ASSUME NEW z, IsCoder(z)
    PROVE  Ends(z, 0, <<>>, Ended(z, 0, <<>>))
  <1>1. <<>> \in Seq(Int) /\ 0 \in Nat
    OBVIOUS
  <1> QED BY <1>1, CallEnds

\* A call that goes on puts out the first p units it has and holds the others.
Splits(z, c, u, p, d) ==
    /\ d.put \in Seq(Int) /\ Len(d.put) = p /\ d.put \o d.z.held = u
    /\ d.z.held = SubSeq(u, p + 1, Len(u))
    /\ d.took = c /\ ~d.z.ended /\ IsCoder(d.z)
    /\ d.ret \in Rets /\ d.ret # "STREAM_END"
    /\ d.z.skip = z.skip - Lesser(z.skip, c)
    /\ d.z.stalled => c = 0 /\ d.put = <<>>
    /\ d.ret = "BUF_ERROR" => z.stalled /\ d.z.stalled

LEMMA CallSplits ==
    ASSUME NEW z, IsCoder(z), NEW c \in Nat, NEW u \in Seq(Int),
           NEW p \in 0 .. Len(u), NEW d,
           d = Called(z, c, SubSeq(u, 1, p), SubSeq(u, p + 1, Len(u)))
    PROVE  Splits(z, c, u, p, d)
  <1>1. /\ SubSeq(u, 1, p) \in Seq(Int) /\ Len(SubSeq(u, 1, p)) = p
        /\ SubSeq(u, p + 1, Len(u)) \in Seq(Int)
        /\ SubSeq(u, 1, p) \o SubSeq(u, p + 1, Len(u)) = u
    BY Split
  <1>2. GoesOn(z, c, SubSeq(u, 1, p), SubSeq(u, p + 1, Len(u)), d)
    BY <1>1, CallGoesOn
  <1> QED BY <1>1, <1>2 DEF Splits, GoesOn

\* What an encoder takes, it puts out or holds; only LZMA_FINISH ends it, and
\* then all of its input has been put out, with the end unit behind it.
EncodeStep(z, in, space, code, d) ==
    /\ IsCoder(d.z) /\ d.z.skip = 0 /\ d.ret \in Rets
    /\ d.took \in 0 .. Len(in) /\ d.put \in Seq(Int) /\ Len(d.put) <= space
    /\ d.z.stalled => d.took = 0 /\ d.put = <<>>
    /\ d.ret = "BUF_ERROR" => z.stalled /\ d.z.stalled
    /\ d.z.ended <=> d.ret = "STREAM_END"
    /\ d.z.ended => /\ code = "FINISH" /\ d.took = Len(in) /\ d.z.held = <<>>
                    /\ d.put = Append(z.held \o in, EndUnit)
    /\ ~d.z.ended => d.put \o d.z.held = z.held \o SubSeq(in, 1, d.took)

LEMMA EncodeEnds ==
    ASSUME NEW z, IsCoder(z), z.skip = 0, NEW in \in Seq(Int),
           NEW space \in Nat, NEW d, Len(z.held \o in) < space,
           d = Ended(z, Len(in), Append(z.held \o in, EndUnit))
    PROVE  EncodeStep(z, in, space, "FINISH", d)
  <1> DEFINE all == z.held \o in
             put == Append(all, EndUnit)
  <1>1. all \in Seq(Int) /\ Len(all) \in Nat /\ Len(in) \in Nat
    BY CoderFacts, CatType, LenProperties
  <1>2. put \in Seq(Int) /\ Len(put) = Len(all) + 1
    BY <1>1 DEF EndUnit
  <1>3. Ends(z, Len(in), put, d)
    BY <1>1, <1>2, CallEnds
  <1>4. Lesser(0, Len(in)) = 0 /\ Len(in) \in 0 .. Len(in)
    BY <1>1 DEF Lesser
  <1>5. Len(put) <= space
    BY <1>1, <1>2
  <1>6. /\ d.took = Len(in) /\ d.put = put /\ d.z.held = <<>>
        /\ d.z.ended /\ IsCoder(d.z) /\ ~d.z.stalled
        /\ d.ret \in Rets /\ d.ret = "STREAM_END"
        /\ d.z.skip = z.skip - Lesser(z.skip, Len(in))
    BY <1>3 DEF Ends
  <1>7. d.z.skip = 0
    BY <1>4, <1>6
  <1> QED BY <1>2, <1>4, <1>5, <1>6, <1>7 DEF EncodeStep

LEMMA EncodeGoesOn ==
    ASSUME NEW z, IsCoder(z), z.skip = 0, NEW in \in Seq(Int),
           NEW space \in Nat, NEW code, NEW d, NEW c \in Nat, c <= Len(in),
           NEW u \in Seq(Int), u = z.held \o SubSeq(in, 1, c),
           NEW p \in 0 .. Len(u), p <= space,
           d = Called(z, c, SubSeq(u, 1, p), SubSeq(u, p + 1, Len(u)))
    PROVE  EncodeStep(z, in, space, code, d)
  <1>1. Splits(z, c, u, p, d)
    BY CallSplits
  <1>2. /\ d.put \in Seq(Int) /\ Len(d.put) = p /\ d.put \o d.z.held = u
        /\ d.took = c /\ ~d.z.ended /\ IsCoder(d.z)
        /\ d.ret \in Rets /\ d.ret # "STREAM_END"
        /\ d.z.stalled => c = 0 /\ d.put = <<>>
        /\ d.ret = "BUF_ERROR" => z.stalled /\ d.z.stalled
    BY <1>1 DEF Splits
  <1>3. d.z.skip = 0
    <2>1. Lesser(0, c) = 0
      BY DEF Lesser
    <2>3. 0 - 0 = 0
      OBVIOUS
    <2>2. d.z.skip = z.skip - Lesser(z.skip, c)
      BY <1>1 DEF Splits
    <2> QED BY <2>1, <2>2, <2>3, Zenon
  <1>4. c \in 0 .. Len(in)
    BY LenProperties
  <1> QED BY <1>2, <1>3, <1>4 DEF EncodeStep

LEMMA EncodedFacts ==
    ASSUME NEW z, IsCoder(z), z.skip = 0, ~z.ended,
           NEW in \in Seq(Int), NEW space \in Nat, NEW code,
           NEW d \in Encoded(z, in, space, code)
    PROVE  EncodeStep(z, in, space, code, d)
  <1> DEFINE all == z.held \o in
             U(c) == z.held \o SubSeq(in, 1, c)
             After(c, p) == Called(z, c, SubSeq(U(c), 1, p),
                                   SubSeq(U(c), p + 1, Len(U(c))))
             Stops(c, p) == p = space \/ (code = "RUN" /\ c = Len(in))
  <1>1. Encoded(z, in, space, code)
          = IF code = "FINISH" /\ Len(all) < space
            THEN {Ended(z, Len(in), Append(all, EndUnit))}
            ELSE UNION {{After(c, p) :
                           p \in {n \in 0 .. Lesser(space, Len(U(c))) :
                                    Stops(c, n)}} :
                        c \in 0 .. Len(in)}
    BY DEF Encoded
  <1>2. ASSUME NEW c \in 0 .. Len(in),
               NEW p \in 0 .. Lesser(space, Len(U(c))), d = After(c, p)
        PROVE  EncodeStep(z, in, space, code, d)
    <2>1. SubSeq(in, 1, c) \in Seq(Int) /\ z.held \in Seq(Int)
      BY Split, CoderFacts
    <2>2. U(c) \in Seq(Int) /\ Len(U(c)) \in Nat
      BY <2>1, CatType, LenProperties
    <2>3. c \in Nat /\ c <= Len(in)
      BY LenProperties
    <2>4. /\ Lesser(space, Len(U(c))) \in Nat
          /\ Lesser(space, Len(U(c))) <= space
          /\ Lesser(space, Len(U(c))) <= Len(U(c))
      BY <2>2, LesserFacts
    <2>5. p \in 0 .. Len(U(c)) /\ p <= space
      <3> DEFINE l == Lesser(space, Len(U(c)))
                 m == Len(U(c))
      <3>1. p \in 0 .. l /\ l \in Nat /\ m \in Nat /\ l <= space /\ l <= m
        BY <2>2, <2>4
      <3> HIDE DEF l, m
      <3>2. p \in 0 .. m /\ p <= space
        BY <3>1
      <3> QED BY <3>2 DEF m
    <2> QED BY <1>2, <2>2, <2>3, <2>5, EncodeGoesOn
  <1> HIDE DEF Stops, After, U
  <1>3. CASE code = "FINISH" /\ Len(all) < space
    <2>1. d = Ended(z, Len(in), Append(all, EndUnit))
      BY <1>1, <1>3
    <2> QED BY <1>3, <2>1, EncodeEnds
  <1>4. CASE ~(code = "FINISH" /\ Len(all) < space)
    <2>1. d \in UNION {{After(c, p) :
                          p \in {n \in 0 .. Lesser(space, Len(U(c))) :
                                   Stops(c, n)}} :
                       c \in 0 .. Len(in)}
      BY <1>1, <1>4, Zenon
    <2>2. PICK c \in 0 .. Len(in) :
            d \in {After(c, p) : p \in {n \in 0 .. Lesser(space, Len(U(c))) :
                                          Stops(c, n)}}
      BY <2>1, Zenon
    <2>3. PICK p \in 0 .. Lesser(space, Len(U(c))) : d = After(c, p)
      BY <2>2
    <2> QED BY <1>2, <2>3
  <1> QED BY <1>3, <1>4

\* A decoder puts out or holds what it takes, but for the header, which it
\* takes first, and the end unit, which it takes last and ends with.
DecodeCall(z, in, space, d) ==
    /\ IsCoder(d.z) /\ d.ret \in Rets
    /\ d.z.skip = z.skip - Lesser(z.skip, d.took)
    /\ d.took \in 0 .. Len(in) /\ d.put \in Seq(Int) /\ Len(d.put) <= space
    /\ d.z.stalled => d.took = 0 /\ d.put = <<>>
    /\ d.ret = "BUF_ERROR" => z.stalled /\ d.z.stalled
    /\ d.z.ended <=> d.ret = "STREAM_END"

DecodeStep(z, in, space, d) ==
    /\ DecodeCall(z, in, space, d)
    /\ ~d.z.ended =>
         /\ \A i \in 1 .. d.took : in[i] # EndUnit
         /\ d.put \o d.z.held = z.held \o SubSeq(in, z.skip + 1, d.took)
    /\ d.z.ended =>
         /\ d.took > 0 /\ in[d.took] = EndUnit
         /\ \A i \in 1 .. d.took - 1 : in[i] # EndUnit
         /\ d.z.held = <<>>
         /\ d.put = z.held \o SubSeq(in, z.skip + 1, d.took - 1)

LEMMA DecodeGoesOn ==
    ASSUME NEW z, IsCoder(z), NEW in \in Seq(Int), NEW space \in Nat, NEW d,
           NEW c \in Nat, c <= Len(in), \A i \in 1 .. c : in[i] # EndUnit,
           NEW u \in Seq(Int), u = z.held \o SubSeq(in, z.skip + 1, c),
           NEW p \in 0 .. Len(u), p <= space,
           d = Called(z, c, SubSeq(u, 1, p), SubSeq(u, p + 1, Len(u)))
    PROVE  DecodeStep(z, in, space, d)
  <1>1. Splits(z, c, u, p, d)
    BY CallSplits
  <1>2. /\ d.put \in Seq(Int) /\ Len(d.put) = p /\ d.put \o d.z.held = u
        /\ d.took = c /\ ~d.z.ended /\ IsCoder(d.z)
        /\ d.ret \in Rets /\ d.ret # "STREAM_END"
        /\ d.z.skip = z.skip - Lesser(z.skip, c)
        /\ d.z.stalled => c = 0 /\ d.put = <<>>
        /\ d.ret = "BUF_ERROR" => z.stalled /\ d.z.stalled
    BY <1>1 DEF Splits
  <1>3. c \in 0 .. Len(in)
    BY LenProperties
  <1> QED BY <1>2, <1>3 DEF DecodeStep, DecodeCall

LEMMA DecodeEnds ==
    ASSUME NEW z, IsCoder(z), NEW in \in Seq(Int), NEW space \in Nat, NEW d,
           NEW c \in Nat, c < Len(in), in[c + 1] = EndUnit,
           \A i \in 1 .. c : in[i] # EndUnit,
           NEW u \in Seq(Int), u = z.held \o SubSeq(in, z.skip + 1, c),
           Len(u) <= space, d = Ended(z, c + 1, u)
    PROVE  DecodeStep(z, in, space, d)
  <1>1. c + 1 \in Nat
    OBVIOUS
  <1>2. Ends(z, c + 1, u, d)
    BY <1>1, CallEnds
  <1>3. /\ d.took = c + 1 /\ d.put = u /\ d.z.held = <<>>
        /\ d.z.ended /\ IsCoder(d.z) /\ ~d.z.stalled
        /\ d.ret \in Rets /\ d.ret = "STREAM_END"
        /\ d.z.skip = z.skip - Lesser(z.skip, c + 1)
    BY <1>2 DEF Ends
  <1>4. /\ c + 1 \in 0 .. Len(in) /\ (c + 1) - 1 = c /\ c + 1 > 0
    BY LenProperties
  <1> QED BY <1>3, <1>4 DEF DecodeStep, DecodeCall

LEMMA DecodedFacts ==
    ASSUME NEW z, IsCoder(z), ~z.ended, NEW in \in Seq(Int),
           NEW space \in Nat, NEW d \in Decoded(z, in, space)
    PROVE  DecodeStep(z, in, space, d)
  <1> DEFINE Before(c) == \A i \in 1 .. c : in[i] # EndUnit
             AtEnd(c) == c < Len(in) /\ in[c + 1] = EndUnit
             U(c) == z.held \o SubSeq(in, z.skip + 1, c)
             P(c) == Lesser(space, Len(U(c)))
             Put(c) == SubSeq(U(c), 1, P(c))
             Rest(c) == SubSeq(U(c), P(c) + 1, Len(U(c)))
             After(c) ==
               IF AtEnd(c) /\ Rest(c) = <<>>
               THEN {Ended(z, c + 1, Put(c))}
               ELSE {r \in {Called(z, c, Put(c), Rest(c))} :
                       /\ c = Len(in) \/ AtEnd(c) \/ P(c) = space
                       /\ Len(Rest(c)) <= 1}
  <1>1. Decoded(z, in, space)
          = UNION {After(c) : c \in {n \in 0 .. Len(in) : Before(n)}}
    BY DEF Decoded
  <1>2. PICK c \in 0 .. Len(in) : Before(c) /\ d \in After(c)
    <2> HIDE DEF After, Before
    <2> QED BY <1>1
  <1>3. c \in Nat /\ c <= Len(in) /\ Len(in) \in Nat
    BY LenProperties
  <1>4. U(c) \in Seq(Int) /\ Len(U(c)) \in Nat
    <2>1. z.held \in Seq(Int) /\ z.skip \in Nat
      BY CoderFacts
    <2>2. SubSeq(in, z.skip + 1, c) \in Seq(Int)
      BY <1>3, <2>1, SubSeqProperties
    <2> QED BY <2>1, <2>2, CatType, LenProperties
  <1>5. P(c) \in 0 .. Len(U(c)) /\ P(c) <= space /\ P(c) \in {space, Len(U(c))}
    <2> DEFINE m == Len(U(c))
    <2>1. m \in Nat
      BY <1>4
    <2> HIDE DEF m
    <2>2. Lesser(space, m) \in 0 .. m /\ Lesser(space, m) <= space
            /\ Lesser(space, m) \in {space, m}
      BY <2>1 DEF Lesser
    <2> QED BY <2>2 DEF m
  <1>6. \/ AtEnd(c) /\ Rest(c) = <<>> /\ d = Ended(z, c + 1, Put(c))
        \/ d = Called(z, c, Put(c), Rest(c))
    <2> HIDE DEF AtEnd, Put, Rest, P, U, Before
    <2> QED BY <1>2
  <1>7. CASE AtEnd(c) /\ Rest(c) = <<>> /\ d = Ended(z, c + 1, Put(c))
    <2>1. Put(c) = U(c) /\ Len(U(c)) <= space
      <3> DEFINE u == U(c)
                 q == P(c)
      <3>1. u \in Seq(Int) /\ q \in 0 .. Len(u) /\ SubSeq(u, q + 1, Len(u)) = <<>>
        BY <1>4, <1>5, <1>7
      <3>2. q \in Nat /\ q <= space
        BY <1>5, <1>4
      <3> HIDE DEF u, q
      <3>3. Len(SubSeq(u, q + 1, Len(u))) = Len(u) - q /\ Len(<<>>) = 0
        BY <3>1, Split
      <3>n. Len(u) \in Nat
        BY <3>1, LenProperties
      <3>m. Len(u) - q = 0
        BY <3>1, <3>3
      <3>4. q = Len(u)
        BY <3>2, <3>n, <3>m
      <3>5. SubSeq(u, 1, q) = u
        BY <3>1, <3>4, SplitAll
      <3>6. SubSeq(u, 1, q) = u /\ Len(u) <= space
        BY <3>2, <3>4, <3>5
      <3> QED BY <3>6 DEF u, q
    <2>2. d = Ended(z, c + 1, U(c)) /\ c < Len(in) /\ in[c + 1] = EndUnit
      BY <1>7, <2>1
    <2> HIDE DEF Put, Rest, P, After
    <2> QED BY <1>2, <1>3, <1>4, <2>1, <2>2, DecodeEnds
  <1>8. CASE d = Called(z, c, Put(c), Rest(c))
    <2> HIDE DEF After
    <2> QED BY <1>2, <1>3, <1>4, <1>5, <1>8, DecodeGoesOn
  <1> QED BY <1>6, <1>7, <1>8
-----------------------------------------------------------------------------
(***************************************************************************)
(* The destination.                                                        *)
(***************************************************************************)
\* What is written comes from the front of the ring, the rest stays; all of it
\* is written unless the slice was too short.
DeliverStep(b, room, w) ==
    /\ w.put \in Seq(Int) /\ Len(w.put) <= room
    /\ IsRing(w.rest) /\ w.rest.size = b.size /\ w.put \o w.rest.q = b.q
    /\ w.err \in {"nil", "short"}
    /\ w.err = "nil" <=> w.rest.q = <<>>
    /\ w.rest.q # <<>> => Len(w.put) = room

FlushStep(b, fails, w) ==
    /\ w.put \in Seq(Int)
    /\ IsRing(w.rest) /\ w.rest.size = b.size /\ w.put \o w.rest.q = b.q
    /\ w.err \in {"nil", "sink"}
    /\ w.err = "nil" <=> w.rest.q = <<>>
    /\ w.err = "sink" => fails

\* Moving the first k units out of a ring.
LEMMA Moved ==
    ASSUME NEW b, IsRing(b), NEW k \in 0 .. Len(b.q)
    PROVE  /\ SubSeq(b.q, 1, k) \in Seq(Int) /\ Len(SubSeq(b.q, 1, k)) = k
           /\ IsRing(ReadMark(b, k)) /\ ReadMark(b, k).size = b.size
           /\ SubSeq(b.q, 1, k) \o ReadMark(b, k).q = b.q
           /\ ReadMark(b, k).q = <<>> <=> k = Len(b.q)
  <1>1. b.q \in Seq(Int) /\ Len(b.q) \in Nat
    BY RingFacts
  <1>2. /\ IsRing(ReadMark(b, k)) /\ ReadMark(b, k).size = b.size
        /\ ReadMark(b, k).q = SubSeq(b.q, k + 1, Len(b.q))
    BY ReadMarkFacts
  <1>3. /\ SubSeq(b.q, 1, k) \in Seq(Int) /\ Len(SubSeq(b.q, 1, k)) = k
        /\ SubSeq(b.q, k + 1, Len(b.q)) \in Seq(Int)
        /\ Len(SubSeq(b.q, k + 1, Len(b.q))) = Len(b.q) - k
        /\ SubSeq(b.q, 1, k) \o SubSeq(b.q, k + 1, Len(b.q)) = b.q
    BY <1>1, Split
  <1>4. SubSeq(b.q, k + 1, Len(b.q)) = <<>> <=> k = Len(b.q)
    <2> DEFINE r == SubSeq(b.q, k + 1, Len(b.q))
               n == Len(b.q)
    <2>1. r \in Seq(Int) /\ Len(r) = n - k /\ n \in Nat /\ k \in 0 .. n
      BY <1>1, <1>3
    <2> HIDE DEF r, n
    <2>2. r = <<>> <=> Len(r) = 0
      BY <2>1, EmptySeq
    <2>3. r = <<>> <=> k = n
      BY <2>1, <2>2
    <2> QED BY <2>3 DEF r, n
  <1> QED BY <1>2, <1>3, <1>4

LEMMA DeliveredFacts ==
    ASSUME NEW b, IsRing(b), NEW room \in Nat
    PROVE  DeliverStep(b, room, Delivered(b, room))
  <1> DEFINE k == Lesser(room, Len(b.q))
             w == Delivered(b, room)
  <1>1. w.put = SubSeq(b.q, 1, k) /\ w.rest = ReadMark(b, k)
          /\ w.err = IF k < Len(b.q) THEN "short" ELSE "nil"
    BY DEF Delivered
  <1>2. k \in 0 .. Len(b.q) /\ k <= room /\ (k # Len(b.q) => k = room)
    BY RingFacts DEF Lesser
  <1> HIDE DEF k, w
  <1>3. /\ SubSeq(b.q, 1, k) \in Seq(Int) /\ Len(SubSeq(b.q, 1, k)) = k
        /\ IsRing(ReadMark(b, k)) /\ ReadMark(b, k).size = b.size
        /\ SubSeq(b.q, 1, k) \o ReadMark(b, k).q = b.q
        /\ ReadMark(b, k).q = <<>> <=> k = Len(b.q)
    BY <1>2, Moved
  <1>4. k < Len(b.q) <=> k # Len(b.q)
    BY <1>2, RingFacts
  <1>5. /\ w.err \in {"nil", "short"}
        /\ w.err = "nil" <=> k = Len(b.q)
    BY <1>1, <1>4
  <1>6. /\ w.put \in Seq(Int) /\ Len(w.put) = k
        /\ IsRing(w.rest) /\ w.rest.size = b.size /\ w.put \o w.rest.q = b.q
        /\ w.rest.q = <<>> <=> k = Len(b.q)
    BY <1>1, <1>3
  <1> QED BY <1>2, <1>5, <1>6 DEF DeliverStep, w

LEMMA FlushedFacts ==
    ASSUME NEW b, IsRing(b), NEW fails \in BOOLEAN, NEW w \in Flushes(b, fails)
    PROVE  FlushStep(b, fails, w)
  <1>1. Len(b.q) \in Nat /\ b.q \in Seq(Int)
    BY RingFacts
  <1>2. CASE w = [put |-> b.q, rest |-> ReadMark(b, Len(b.q)), err |-> "nil"]
    <2>1. Len(b.q) \in 0 .. Len(b.q)
      BY <1>1
    <2>2. /\ IsRing(ReadMark(b, Len(b.q))) /\ ReadMark(b, Len(b.q)).size = b.size
          /\ SubSeq(b.q, 1, Len(b.q)) \o ReadMark(b, Len(b.q)).q = b.q
          /\ ReadMark(b, Len(b.q)).q = <<>>
      BY <2>1, Moved
    <2>3. SubSeq(b.q, 1, Len(b.q)) = b.q
      BY <1>1, SplitAll
    <2>4. w.put = b.q /\ w.rest = ReadMark(b, Len(b.q)) /\ w.err = "nil"
      BY <1>2
    <2> QED BY <1>1, <2>2, <2>3, <2>4 DEF FlushStep
  <1>3. ASSUME NEW k \in 0 .. Len(b.q) - 1, fails,
               w = [put |-> SubSeq(b.q, 1, k), rest |-> ReadMark(b, k),
                    err |-> "sink"]
        PROVE  FlushStep(b, fails, w)
    <2>1. k \in 0 .. Len(b.q) /\ k # Len(b.q)
      BY <1>1
    <2>2. /\ SubSeq(b.q, 1, k) \in Seq(Int)
          /\ IsRing(ReadMark(b, k)) /\ ReadMark(b, k).size = b.size
          /\ SubSeq(b.q, 1, k) \o ReadMark(b, k).q = b.q
          /\ ReadMark(b, k).q = <<>> <=> k = Len(b.q)
      BY <2>1, Moved
    <2>3. /\ w.put = SubSeq(b.q, 1, k) /\ w.rest = ReadMark(b, k)
          /\ w.err = "sink"
      BY <1>3
    <2> QED BY <1>3, <2>1, <2>2, <2>3 DEF FlushStep
  <1>4. \/ w = [put |-> b.q, rest |-> ReadMark(b, Len(b.q)), err |-> "nil"]
        \/ fails /\ \E k \in 0 .. Len(b.q) - 1 :
             w = [put |-> SubSeq(b.q, 1, k), rest |-> ReadMark(b, k),
                  err |-> "sink"]
    BY DEF Flushes
  <1> QED BY <1>2, <1>3, <1>4
-----------------------------------------------------------------------------
(***************************************************************************)
(* A round, from the ring in behind the source to the destination.         *)
(***************************************************************************)
\* What the destination (D), outBuf (O) and the coder hold after a call that
\* puts out P and a write of K: what they had, then what the coder took.
FlowsOn(D, O, P, K, R, H) ==
    ((D \o K) \o R) \o H = (D \o O) \o (P \o H)

LEMMA FlowAhead ==
    ASSUME NEW D \in Seq(Int), NEW O \in Seq(Int), NEW P \in Seq(Int),
           NEW K \in Seq(Int), NEW R \in Seq(Int), NEW H \in Seq(Int),
           K \o R = O \o P
    PROVE  FlowsOn(D, O, P, K, R, H)
  <1> SUFFICES ((D \o K) \o R) \o H = (D \o O) \o (P \o H)
    BY DEF FlowsOn
  <1>0. (D \o K) \o R = D \o (K \o R)
    <2>1. Regrouped(D, K, R)
      BY Regroup
    <2> QED BY <2>1 DEF Regrouped
  <1>1. (D \o K) \o R = D \o (O \o P)
    BY <1>0, Zenon
  <1>2. D \o (O \o P) = (D \o O) \o P
    <2>1. Regrouped(D, O, P)
      BY Regroup
    <2> QED BY <2>1 DEF Regrouped
  <1>3. D \o O \in Seq(Int)
    BY CatType
  <1>4. ((D \o O) \o P) \o H = (D \o O) \o (P \o H)
    <2>1. Regrouped(D \o O, P, H)
      BY <1>3, Regroup
    <2> QED BY <2>1 DEF Regrouped
  <1> QED BY <1>1, <1>2, <1>4, Zenon

FlowsThrough(A, H, I, t) ==
    (A \o (H \o SubSeq(I, 1, t))) \o SubSeq(I, t + 1, Len(I)) = (A \o H) \o I

LEMMA FlowThrough ==
    ASSUME NEW A \in Seq(Int), NEW H \in Seq(Int), NEW I \in Seq(Int),
           NEW t \in 0 .. Len(I)
    PROVE  FlowsThrough(A, H, I, t)
  <1> DEFINE B == SubSeq(I, 1, t)
             C == SubSeq(I, t + 1, Len(I))
  <1>1. B \in Seq(Int) /\ C \in Seq(Int) /\ B \o C = I
    BY Split
  <1> HIDE DEF B, C
  <1>2. A \o H \in Seq(Int)
    BY CatType
  <1>3. A \o (H \o B) = (A \o H) \o B
    <2>1. Regrouped(A, H, B)
      BY <1>1, Regroup
    <2> QED BY <2>1 DEF Regrouped
  <1>4. ((A \o H) \o B) \o C = (A \o H) \o (B \o C)
    <2>1. Regrouped(A \o H, B, C)
      BY <1>1, <1>2, Regroup
    <2> QED BY <2>1 DEF Regrouped
  <1>5. (A \o (H \o B)) \o C = (A \o H) \o I
    BY <1>1, <1>3, <1>4, Zenon
  <1> QED BY <1>5 DEF B, C, FlowsThrough

LEMMA CatEmpty ==
    ASSUME NEW s \in Seq(Int)
    PROVE  s \o <<>> = s /\ <<>> \o s = s
  BY ConcatEmptySeq

LEMMA AppendCat ==
    ASSUME NEW s \in Seq(Int), NEW e \in Int
    PROVE  Append(s, e) = s \o <<e>>
  BY AppendIsConcat

\* A round of an encoder: nothing is lost, nothing is repeated.
EncodeRound(D, in, z, b, code, fails, d, w) ==
    /\ IsRing(ReadMark(in, d.took)) /\ Straight(ReadMark(in, d.took))
    /\ ReadMark(in, d.took).size = in.size
    /\ IsCoder(d.z) /\ d.z.skip = 0 /\ d.ret \in Rets
    /\ d.z.ended <=> d.ret = "STREAM_END"
    /\ d.ret = "BUF_ERROR" => z.stalled /\ d.z.stalled
    /\ IsRing(w.rest) /\ w.rest.size = b.size /\ w.put \in Seq(Int)
    /\ w.err \in {"nil", "sink"}
    /\ w.err = "nil" <=> w.rest.q = <<>>
    /\ w.err = "sink" => fails
    /\ d.z.stalled => /\ ReadMark(in, d.took).q = in.q
                      /\ w.rest.q # <<>> => b.q # <<>>
    /\ ~d.z.ended =>
         (((D \o w.put) \o w.rest.q) \o d.z.held) \o ReadMark(in, d.took).q
           = ((D \o b.q) \o z.held) \o in.q
    /\ d.z.ended =>
         /\ code = "FINISH" /\ d.z.held = <<>>
         /\ ReadMark(in, d.took).q = <<>>
         /\ (D \o w.put) \o w.rest.q
              = (((D \o b.q) \o z.held) \o in.q) \o <<EndUnit>>

LEMMA EncodeRounds ==
    ASSUME NEW D \in Seq(Int), NEW in, IsRing(in), Straight(in),
           NEW z, IsCoder(z), z.skip = 0, ~z.ended, NEW b, IsRing(b),
           NEW code, NEW fails \in BOOLEAN,
           NEW d \in Encoded(z, ReadSlice(in), WriteSlice(b), code),
           NEW w \in Flushes(WriteMark(b, d.put), fails)
    PROVE  EncodeRound(D, in, z, b, code, fails, d, w)
  <1> DEFINE space == WriteSlice(b)
             left == ReadMark(in, d.took)
             ob == WriteMark(b, d.put)
  <1>1. /\ in.q \in Seq(Int) /\ Len(in.q) \in Nat /\ ReadSlice(in) = in.q
        /\ space \in Nat /\ b.q \in Seq(Int) /\ z.held \in Seq(Int)
    BY RingFacts, ReadSliceFacts, WriteSliceFacts, CoderFacts
  <1>2. EncodeStep(z, in.q, space, code, d)
    BY <1>1, EncodedFacts
  <1>3. /\ IsCoder(d.z) /\ d.z.skip = 0 /\ d.ret \in Rets
        /\ d.took \in 0 .. Len(in.q) /\ d.put \in Seq(Int)
        /\ Len(d.put) <= space
    BY <1>2 DEF EncodeStep
  <1>4. /\ d.z.stalled => d.took = 0 /\ d.put = <<>>
        /\ d.ret = "BUF_ERROR" => z.stalled /\ d.z.stalled
        /\ d.z.ended <=> d.ret = "STREAM_END"
        /\ d.z.ended =>
             /\ code = "FINISH" /\ d.took = Len(in.q) /\ d.z.held = <<>>
             /\ d.put = Append(z.held \o in.q, EndUnit)
        /\ ~d.z.ended =>
             d.put \o d.z.held = z.held \o SubSeq(in.q, 1, d.took)
    BY <1>2 DEF EncodeStep
  <1>5. IsRing(ob) /\ ob.q = b.q \o d.put /\ ob.size = b.size
    BY <1>3, WriteMarkFacts
  <1>6. FlushStep(ob, fails, w)
    BY <1>5, FlushedFacts
  <1>7. /\ IsRing(w.rest) /\ w.rest.size = b.size /\ w.put \in Seq(Int)
        /\ w.put \o w.rest.q = b.q \o d.put
        /\ w.err \in {"nil", "sink"}
        /\ w.err = "nil" <=> w.rest.q = <<>>
        /\ w.err = "sink" => fails
    BY <1>5, <1>6 DEF FlushStep
  <1>8. /\ IsRing(left) /\ Straight(left) /\ left.size = in.size
        /\ left.q = SubSeq(in.q, d.took + 1, Len(in.q))
    BY <1>3, ReadMarkFacts
  <1>9. w.rest.q \in Seq(Int) /\ d.z.held \in Seq(Int)
    BY <1>3, <1>7, RingFacts, CoderFacts
  <1> HIDE DEF space, left, ob
  <1>10. ((D \o w.put) \o w.rest.q) \o d.z.held
           = (D \o b.q) \o (d.put \o d.z.held)
    <2>1. FlowsOn(D, b.q, d.put, w.put, w.rest.q, d.z.held)
      BY <1>1, <1>3, <1>7, <1>9, FlowAhead
    <2> QED BY <2>1 DEF FlowsOn
  <1>11. ASSUME d.z.stalled
         PROVE  left.q = in.q /\ (w.rest.q # <<>> => b.q # <<>>)
    <2>1. d.took = 0 /\ d.put = <<>>
      BY <1>4, <1>11
    <2>2. left.q = SubSeq(in.q, 1, Len(in.q))
      BY <1>8, <2>1
    <2>3. left.q = in.q
      BY <1>1, <2>2, SplitAll
    <2>4. b.q \o d.put = b.q
      BY <1>1, <2>1, CatEmpty
    <2>5. ASSUME b.q = <<>> PROVE w.rest.q = <<>>
      <3>1. w.put \o w.rest.q = <<>>
        BY <1>7, <2>4, <2>5
      <3> QED BY <1>7, <1>9, <3>1, ConcatEqualIffEmpty
    <2> QED BY <2>3, <2>5
  <1>12. ASSUME ~d.z.ended
         PROVE  (((D \o w.put) \o w.rest.q) \o d.z.held) \o left.q
                  = ((D \o b.q) \o z.held) \o in.q
    <2>1. d.put \o d.z.held = z.held \o SubSeq(in.q, 1, d.took)
      BY <1>4, <1>12
    <2>2. D \o b.q \in Seq(Int)
      BY <1>1, CatType
    <2>3. ((D \o b.q) \o (z.held \o SubSeq(in.q, 1, d.took)))
              \o SubSeq(in.q, d.took + 1, Len(in.q))
            = ((D \o b.q) \o z.held) \o in.q
      <3>1. FlowsThrough(D \o b.q, z.held, in.q, d.took)
        BY <1>1, <1>3, <2>2, FlowThrough
      <3> QED BY <3>1, Zenon DEF FlowsThrough
    <2> QED BY <1>8, <1>10, <2>1, <2>3
  <1>13. ASSUME d.z.ended
         PROVE  /\ code = "FINISH" /\ d.z.held = <<>> /\ left.q = <<>>
                /\ (D \o w.put) \o w.rest.q
                     = (((D \o b.q) \o z.held) \o in.q) \o <<EndUnit>>
    <2>1. /\ code = "FINISH" /\ d.took = Len(in.q) /\ d.z.held = <<>>
          /\ d.put = Append(z.held \o in.q, EndUnit)
      BY <1>4, <1>13
    <2>2. left.q = <<>>
      BY <1>1, <1>8, <2>1, SplitAll
    <2>3. /\ D \o b.q \in Seq(Int) /\ z.held \o in.q \in Seq(Int)
          /\ (D \o w.put) \o w.rest.q \in Seq(Int)
      BY <1>1, <1>7, <1>9, CatType
    <2>4. EndUnit \in Int /\ <<EndUnit>> \in Seq(Int)
      BY DEF EndUnit
    <2>5. d.put = (z.held \o in.q) \o <<EndUnit>>
      BY <2>1, <2>3, <2>4, AppendCat
    <2>6. ((D \o w.put) \o w.rest.q) \o <<>> = (D \o b.q) \o (d.put \o <<>>)
      BY <1>10, <2>1
    <2>7. (D \o w.put) \o w.rest.q = (D \o b.q) \o d.put
      BY <1>3, <2>3, <2>6, CatEmpty
    <2>8. (D \o b.q) \o ((z.held \o in.q) \o <<EndUnit>>)
            = ((D \o b.q) \o (z.held \o in.q)) \o <<EndUnit>>
      <3>1. Regrouped(D \o b.q, z.held \o in.q, <<EndUnit>>)
        BY <2>3, <2>4, Regroup
      <3> QED BY <3>1 DEF Regrouped
    <2>9. ((D \o b.q) \o z.held) \o in.q = (D \o b.q) \o (z.held \o in.q)
      <3>1. z.held \in Seq(Int) /\ in.q \in Seq(Int) /\ D \o b.q \in Seq(Int)
        BY <1>1, <2>3
      <3> QED BY <3>1, Assoc, Zenon
    <2>10. (D \o w.put) \o w.rest.q
             = (((D \o b.q) \o z.held) \o in.q) \o <<EndUnit>>
      BY <2>5, <2>7, <2>8, <2>9, Zenon
    <2> QED BY <2>1, <2>2, <2>10
  <1> QED BY <1>3, <1>4, <1>7, <1>8, <1>11, <1>12, <1>13
          DEF EncodeRound, left

\* A round of a decoder: what was ahead of it is followed by what it took,
\* without a header and an end unit.
DecodeRound(D, in, z, b, room, d, w) ==
    /\ IsRing(ReadMark(in, d.took)) /\ Straight(ReadMark(in, d.took))
    /\ ReadMark(in, d.took).size = in.size
    /\ IsCoder(d.z) /\ d.z.skip = z.skip - Lesser(z.skip, d.took)
    /\ d.ret \in Rets
    /\ d.z.ended <=> d.ret = "STREAM_END"
    /\ d.ret = "BUF_ERROR" => z.stalled /\ d.z.stalled
    /\ IsRing(w.rest) /\ w.rest.size = b.size
    /\ w.put \in Seq(Int) /\ Len(w.put) <= room
    /\ w.err \in {"nil", "short"}
    /\ w.err = "nil" <=> w.rest.q = <<>>
    /\ w.rest.q # <<>> => Len(w.put) = room
    /\ d.took \in 0 .. Len(in.q)
    /\ ReadMark(in, d.took).q = SubSeq(in.q, d.took + 1, Len(in.q))
    /\ d.z.stalled => d.took = 0 /\ w.put \o w.rest.q = b.q

\* The coder had reached its end before this round.
AfterEnd(D, z, b, d, w) ==
    /\ d.z.ended /\ d.took = 0 /\ d.z.held = <<>> /\ ~d.z.stalled
    /\ (D \o w.put) \o w.rest.q = D \o b.q

\* The coder takes units until the end unit.
UpToEnd(D, in, z, b, d, w) ==
    \E c \in 0 .. Len(in.q) :
      /\ d.z.ended => /\ d.took = c + 1 /\ c < Len(in.q)
                      /\ in.q[c + 1] = EndUnit /\ d.z.held = <<>>
      /\ ~d.z.ended => d.took = c
      /\ \A i \in 1 .. c : in.q[i] # EndUnit
      /\ ((D \o w.put) \o w.rest.q) \o d.z.held
           = ((D \o b.q) \o z.held) \o SubSeq(in.q, z.skip + 1, c)

LEMMA DecodeRoundParts ==
    ASSUME NEW D \in Seq(Int), NEW in, IsRing(in), Straight(in),
           NEW z, NEW b, IsRing(b), NEW room \in Nat, NEW d, NEW w,
           DecodeCall(z, in.q, WriteSlice(b), d),
           w = Delivered(WriteMark(b, d.put), room)
    PROVE  /\ DecodeRound(D, in, z, b, room, d, w)
           /\ FlowsOn(D, b.q, d.put, w.put, w.rest.q, d.z.held)
  <1>0. /\ IsCoder(d.z) /\ d.z.skip = z.skip - Lesser(z.skip, d.took)
        /\ d.ret \in Rets /\ d.took \in 0 .. Len(in.q)
        /\ d.put \in Seq(Int) /\ Len(d.put) <= WriteSlice(b)
        /\ d.z.stalled => d.took = 0 /\ d.put = <<>>
        /\ d.ret = "BUF_ERROR" => z.stalled /\ d.z.stalled
        /\ d.z.ended <=> d.ret = "STREAM_END"
    BY DEF DecodeCall
  <1> DEFINE left == ReadMark(in, d.took)
             ob == WriteMark(b, d.put)
  <1>1. IsRing(ob) /\ ob.q = b.q \o d.put /\ ob.size = b.size
    BY <1>0, WriteMarkFacts
  <1>2. DeliverStep(ob, room, w)
    BY <1>1, DeliveredFacts
  <1>3. /\ w.put \in Seq(Int) /\ Len(w.put) <= room
        /\ IsRing(w.rest) /\ w.rest.size = b.size
        /\ w.put \o w.rest.q = b.q \o d.put
        /\ w.err \in {"nil", "short"}
        /\ w.err = "nil" <=> w.rest.q = <<>>
        /\ w.rest.q # <<>> => Len(w.put) = room
    BY <1>1, <1>2 DEF DeliverStep
  <1>4. /\ IsRing(left) /\ Straight(left) /\ left.size = in.size
        /\ left.q = SubSeq(in.q, d.took + 1, Len(in.q))
    BY <1>0, ReadMarkFacts
  <1>5. w.rest.q \in Seq(Int) /\ d.z.held \in Seq(Int) /\ b.q \in Seq(Int)
    BY <1>0, <1>3, RingFacts, CoderFacts
  <1>6. FlowsOn(D, b.q, d.put, w.put, w.rest.q, d.z.held)
    BY <1>0, <1>3, <1>5, FlowAhead
  <1>7. ASSUME d.z.stalled PROVE d.took = 0 /\ w.put \o w.rest.q = b.q
    <2>1. d.took = 0 /\ d.put = <<>>
      BY <1>0, <1>7
    <2>2. b.q \o d.put = b.q
      BY <1>5, <2>1, CatEmpty
    <2> QED BY <1>3, <2>1, <2>2
  <1> QED BY <1>0, <1>3, <1>4, <1>6, <1>7 DEF DecodeRound

LEMMA UpToEndBy ==
    ASSUME NEW D \in Seq(Int), NEW in, NEW z, NEW b, NEW d, NEW w,
           in.q \in Seq(Int), b.q \in Seq(Int), z.held \in Seq(Int),
           z.skip \in Nat, NEW c \in 0 .. Len(in.q),
           d.z.ended => /\ d.took = c + 1 /\ c < Len(in.q)
                        /\ in.q[c + 1] = EndUnit /\ d.z.held = <<>>,
           ~d.z.ended => d.took = c,
           \A i \in 1 .. c : in.q[i] # EndUnit,
           FlowsOn(D, b.q, d.put, w.put, w.rest.q, d.z.held),
           d.put \o d.z.held = z.held \o SubSeq(in.q, z.skip + 1, c)
    PROVE  UpToEnd(D, in, z, b, d, w)
  <1> DEFINE s == SubSeq(in.q, z.skip + 1, c)
  <1>1. s \in Seq(Int)
    <2>1. c \in Nat /\ c <= Len(in.q)
      BY LenProperties
    <2> QED BY <2>1, SubSeqProperties
  <1>2. D \o b.q \in Seq(Int)
    BY CatType
  <1> HIDE DEF s
  <1>3. ((D \o b.q) \o z.held) \o s = (D \o b.q) \o (z.held \o s)
    BY <1>1, <1>2, Assoc, Zenon
  <1>4. ((D \o w.put) \o w.rest.q) \o d.z.held
          = (D \o b.q) \o (d.put \o d.z.held)
    BY DEF FlowsOn
  <1>5. d.put \o d.z.held = z.held \o s
    BY DEF s
  <1>6. ((D \o w.put) \o w.rest.q) \o d.z.held = ((D \o b.q) \o z.held) \o s
    BY <1>3, <1>4, <1>5, Zenon
  <1> QED BY <1>6, Zenon DEF UpToEnd, s

LEMMA DecodeRounds ==
    ASSUME NEW D \in Seq(Int), NEW in, IsRing(in), Straight(in),
           NEW z, IsCoder(z), NEW b, IsRing(b), NEW room \in Nat,
           NEW d \in Decoded(z, ReadSlice(in), WriteSlice(b)),
           NEW w, w = Delivered(WriteMark(b, d.put), room)
    PROVE  /\ DecodeRound(D, in, z, b, room, d, w)
           /\ z.ended => AfterEnd(D, z, b, d, w)
           /\ ~z.ended => UpToEnd(D, in, z, b, d, w)
  <1> DEFINE space == WriteSlice(b)
  <1>1. /\ in.q \in Seq(Int) /\ Len(in.q) \in Nat /\ ReadSlice(in) = in.q
        /\ space \in Nat /\ b.q \in Seq(Int) /\ z.held \in Seq(Int)
        /\ z.skip \in Nat
    BY RingFacts, ReadSliceFacts, WriteSliceFacts, CoderFacts
  <1>2. CASE z.ended
    <2>1. d = Ended(z, 0, <<>>)
      BY <1>2 DEF Decoded
    <2>2. Ends(z, 0, <<>>, d)
      BY <2>1, CallAgain
    <2>3. /\ d.took = 0 /\ d.put = <<>> /\ d.z.held = <<>> /\ ~d.z.stalled
          /\ d.z.ended /\ IsCoder(d.z) /\ d.ret \in Rets
          /\ d.ret = "STREAM_END" /\ d.z.skip = z.skip - Lesser(z.skip, 0)
      BY <2>2 DEF Ends
    <2>4. /\ d.took \in 0 .. Len(in.q) /\ d.put \in Seq(Int)
          /\ Len(d.put) <= space
      BY <1>1, <2>3
    <2>c. DecodeCall(z, in.q, space, d)
      BY <2>3, <2>4 DEF DecodeCall
    <2>5. /\ DecodeRound(D, in, z, b, room, d, w)
          /\ FlowsOn(D, b.q, d.put, w.put, w.rest.q, d.z.held)
      BY <2>c, DecodeRoundParts
    <2>6. (D \o w.put) \o w.rest.q = D \o b.q
      <3>1. w.put \in Seq(Int) /\ w.rest.q \in Seq(Int)
        BY <2>5, RingFacts DEF DecodeRound
      <3>2. D \o b.q \in Seq(Int) /\ (D \o w.put) \o w.rest.q \in Seq(Int)
        BY <1>1, <3>1, CatType
      <3>3. <<>> \o <<>> = <<>>
        OBVIOUS
      <3>4. ((D \o w.put) \o w.rest.q) \o <<>> = (D \o b.q) \o <<>>
        BY <2>3, <2>5, <3>3 DEF FlowsOn
      <3> QED BY <3>2, <3>4, CatEmpty
    <2> QED BY <1>2, <2>3, <2>5, <2>6 DEF AfterEnd
  <1>3. CASE ~z.ended
    <2>1. DecodeStep(z, in.q, space, d)
      BY <1>1, <1>3, DecodedFacts
    <2>2. DecodeCall(z, in.q, space, d)
      BY <2>1 DEF DecodeStep
    <2>3. /\ DecodeRound(D, in, z, b, room, d, w)
          /\ FlowsOn(D, b.q, d.put, w.put, w.rest.q, d.z.held)
      BY <2>2, DecodeRoundParts
    <2>4. d.took \in 0 .. Len(in.q) /\ d.put \in Seq(Int)
      BY <2>2 DEF DecodeCall
    <2>5. ASSUME d.z.ended PROVE UpToEnd(D, in, z, b, d, w)
      <3>1. /\ d.took > 0 /\ in.q[d.took] = EndUnit
            /\ \A i \in 1 .. d.took - 1 : in.q[i] # EndUnit
            /\ d.z.held = <<>>
            /\ d.put = z.held \o SubSeq(in.q, z.skip + 1, d.took - 1)
        BY <2>1, <2>5 DEF DecodeStep
      <3>n. d.took > 0 /\ d.took \in Nat /\ d.took <= Len(in.q)
        <4>1. d.took > 0
          BY <3>1, Zenon
        <4> QED BY <1>1, <2>4, <4>1
      <3>2. PICK c \in 0 .. Len(in.q) : c = d.took - 1
        BY <1>1, <3>n
      <3>3. c < Len(in.q) /\ d.took = c + 1
        BY <1>1, <3>n, <3>2
      <3>4. d.put \o d.z.held = z.held \o SubSeq(in.q, z.skip + 1, c)
        BY <2>4, <3>1, <3>2, CatEmpty
      <3>5. in.q[c + 1] = EndUnit /\ \A i \in 1 .. c : in.q[i] # EndUnit
        BY <3>1, <3>2, <3>3
      <3> QED BY <1>1, <2>3, <2>5, <3>1, <3>2, <3>3, <3>4, <3>5, UpToEndBy
    <2>6. ASSUME ~d.z.ended PROVE UpToEnd(D, in, z, b, d, w)
      <3>1. /\ \A i \in 1 .. d.took : in.q[i] # EndUnit
            /\ d.put \o d.z.held = z.held \o SubSeq(in.q, z.skip + 1, d.took)
        BY <2>1, <2>6 DEF DecodeStep
      <3>2. PICK c \in 0 .. Len(in.q) : c = d.took
        BY <2>4
      <3> QED BY <1>1, <2>3, <2>6, <3>1, <3>2, UpToEndBy
    <2> QED BY <1>3, <2>3, <2>5, <2>6
  <1> QED BY <1>2, <1>3

Verdicts == {"more", "short", "STREAM_END", "BUF_ERROR", "EOF", "err"}

\* The switch at the end of a round of Read.
ReadVerdict(wrErr, ret, rdErr0, ib, v) ==
    /\ v \in Verdicts
    /\ v = "more" => /\ wrErr = "nil" /\ ret = "OK"
                     /\ rdErr0 # "nil" => ib.q # <<>>
    /\ v = "STREAM_END" => wrErr = "nil" /\ ret = "STREAM_END"
    /\ v = "err" => rdErr0 = "err"
    /\ v = "BUF_ERROR" => wrErr = "nil" /\ ret = "BUF_ERROR"
    /\ v = "EOF" => /\ wrErr = "nil" /\ ret = "OK" /\ rdErr0 = "EOF"
                    /\ ib.q = <<>>

LEMMA ReadVerdicts ==
    ASSUME NEW wrErr \in {"nil", "short"}, NEW ret \in Rets,
           NEW rdErr0 \in RdErrs, NEW ob, NEW ib, wrErr = "nil" => ob.q = <<>>
    PROVE  ReadVerdict(wrErr, ret, rdErr0, ib,
                       Verdict(wrErr, ret, rdErr0, ob, ib))
  BY DEF Verdict, Rets, RdErrs, Verdicts, ReadVerdict
=============================================================================
