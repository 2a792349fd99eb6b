----------------------------- MODULE LzmaProofs -----------------------------
(***************************************************************************)
(* Proofs about Lzma, for any amount of data, slices and rings of any      *)
(* size and any number of failures: a stream loses and repeats nothing,    *)
(* Close and io.EOF tell the truth, and every error has a cause.           *)
(***************************************************************************)
EXTENDS Lzma, StreamOpsProofs
-----------------------------------------------------------------------------
(***************************************************************************)
(* The file.                                                               *)
(***************************************************************************)
\* A file that is still without its end, and one with a unit behind it.
Started(n) == <<HeaderUnit>> \o Units(n)
Followed(n) == Append(Alone(n), Junk)

LEMMA UnitsFacts ==
    ASSUME NEW n \in Nat
    PROVE  /\ Units(n) \in Seq(Int) /\ Len(Units(n)) = n
           /\ \A i \in 1 .. n : Units(n)[i] = i
  BY DEF Units

LEMMA RunFacts ==
    ASSUME NEW n \in Nat, NEW m \in Nat
    PROVE  /\ [j \in 1 .. m |-> n + j] \in Seq(Int)
           /\ Len([j \in 1 .. m |-> n + j]) = m
           /\ \A i \in 1 .. m : [j \in 1 .. m |-> n + j][i] = n + i
  OBVIOUS

LEMMA StartedFacts ==
    ASSUME NEW n \in Nat
    PROVE  /\ Started(n) \in Seq(Int) /\ Len(Started(n)) = n + 1
           /\ Started(n)[1] = HeaderUnit
           /\ \A i \in 1 .. n : Started(n)[1 + i] = i
  <1> DEFINE h == <<HeaderUnit>>
             u == Units(n)
  <1>1. h \in Seq(Int) /\ Len(h) = 1 /\ h[1] = HeaderUnit
    BY DEF HeaderUnit
  <1>2. u \in Seq(Int) /\ Len(u) = n /\ \A i \in 1 .. n : u[i] = i
    BY UnitsFacts
  <1> HIDE DEF h, u
  <1>3. h \o u \in Seq(Int) /\ Len(h \o u) = Len(h) + Len(u)
    BY <1>1, <1>2, CatType
  <1>4. /\ \A i \in 1 .. Len(h) : (h \o u)[i] = h[i]
        /\ \A i \in 1 .. Len(u) : (h \o u)[Len(h) + i] = u[i]
    BY <1>1, <1>2, CatAt
  <1>5. (h \o u)[1] = HeaderUnit /\ \A i \in 1 .. n : (h \o u)[1 + i] = i
    <2>1. 1 \in 1 .. Len(h)
      BY <1>1
    <2>2. (h \o u)[1] = HeaderUnit
      BY <1>1, <1>4, <2>1
    <2>3. ASSUME NEW i \in 1 .. n PROVE (h \o u)[1 + i] = i
      <3>1. i \in 1 .. Len(u)
        BY <1>2
      <3>2. (h \o u)[Len(h) + i] = u[i]
        BY <1>4, <3>1
      <3> QED BY <1>1, <1>2, <3>2
    <2> QED BY <2>2, <2>3
  <1>6. Started(n) = h \o u
    BY DEF Started, h, u
  <1>7. Len(h \o u) = n + 1
    BY <1>1, <1>2, <1>3
  <1> QED BY <1>3, <1>5, <1>6, <1>7

LEMMA AloneFacts ==
    ASSUME NEW n \in Nat
    PROVE  /\ Alone(n) = Started(n) \o <<EndUnit>>
           /\ Alone(n) \in Seq(Int) /\ Len(Alone(n)) = n + 2
           /\ Alone(n)[1] = HeaderUnit /\ Alone(n)[n + 2] = EndUnit
           /\ \A i \in 1 .. n : Alone(n)[1 + i] = i
  <1> DEFINE f == Started(n)
             e == <<EndUnit>>
  <1>1. /\ f \in Seq(Int) /\ Len(f) = n + 1 /\ f[1] = HeaderUnit
        /\ \A i \in 1 .. n : f[1 + i] = i
    BY StartedFacts
  <1>2. e \in Seq(Int) /\ Len(e) = 1 /\ e[1] = EndUnit
    BY DEF EndUnit
  <1>3. Alone(n) = f \o e
    BY DEF Alone, Started
  <1> HIDE DEF f, e
  <1>4. f \o e \in Seq(Int) /\ Len(f \o e) = Len(f) + Len(e)
    BY <1>1, <1>2, CatType
  <1>5. /\ \A i \in 1 .. Len(f) : (f \o e)[i] = f[i]
        /\ \A i \in 1 .. Len(e) : (f \o e)[Len(f) + i] = e[i]
    BY <1>1, <1>2, CatAt
  <1>6. Len(f \o e) = n + 2 /\ (f \o e)[1] = HeaderUnit
    BY <1>1, <1>2, <1>4, <1>5
  <1>7. (f \o e)[n + 2] = EndUnit
    <2>0. 1 \in 1 .. Len(e)
      BY <1>2
    <2>1. (f \o e)[Len(f) + 1] = EndUnit
      BY <1>2, <1>5, <2>0
    <2>2. Len(f) + 1 = n + 2
      BY <1>1
    <2> QED BY <2>1, <2>2
  <1>8. ASSUME NEW i \in 1 .. n PROVE (f \o e)[1 + i] = i
    <2>1. 1 + i \in 1 .. Len(f)
      BY <1>1
    <2> QED BY <1>1, <1>5, <2>1
  <1> QED BY <1>3, <1>4, <1>6, <1>7, <1>8 DEF f, e

LEMMA FollowedFacts ==
    ASSUME NEW n \in Nat
    PROVE  /\ Followed(n) = Alone(n) \o <<Junk>>
           /\ Followed(n) \in Seq(Int) /\ Len(Followed(n)) = n + 3
           /\ \A i \in 1 .. n + 2 : Followed(n)[i] = Alone(n)[i]
           /\ Followed(n)[n + 3] = Junk
  <1> DEFINE f == Alone(n)
             e == <<Junk>>
  <1>1. f \in Seq(Int) /\ Len(f) = n + 2
    BY AloneFacts
  <1>2. e \in Seq(Int) /\ Len(e) = 1 /\ e[1] = Junk /\ Junk \in Int
    BY DEF Junk
  <1>3. Followed(n) = f \o e
    BY <1>1, <1>2, AppendCat DEF Followed
  <1> HIDE DEF f, e
  <1>4. f \o e \in Seq(Int) /\ Len(f \o e) = Len(f) + Len(e)
    BY <1>1, <1>2, CatType
  <1>5. /\ \A i \in 1 .. Len(f) : (f \o e)[i] = f[i]
        /\ \A i \in 1 .. Len(e) : (f \o e)[Len(f) + i] = e[i]
    BY <1>1, <1>2, CatAt
  <1>6. (f \o e)[n + 3] = Junk
    <2>0. 1 \in 1 .. Len(e)
      BY <1>2
    <2>1. (f \o e)[Len(f) + 1] = Junk
      BY <1>2, <1>5, <2>0
    <2>2. Len(f) + 1 = n + 3
      BY <1>1
    <2> QED BY <2>1, <2>2
  <1>7. Len(f \o e) = n + 3
    BY <1>1, <1>2, <1>4
  <1> QED BY <1>1, <1>3, <1>4, <1>5, <1>6, <1>7 DEF f, e

\* A file grows by the units that follow.
LEMMA StartedGrows ==
    ASSUME NEW n \in Nat, NEW m \in Nat
    PROVE  Started(n) \o [j \in 1 .. m |-> n + j] = Started(n + m)
  <1> DEFINE a == Started(n)
             b == [j \in 1 .. m |-> n + j]
             c == Started(n + m)
  <1>0. n + m \in Nat
    OBVIOUS
  <1>1. /\ a \in Seq(Int) /\ Len(a) = n + 1 /\ a[1] = HeaderUnit
        /\ \A i \in 1 .. n : a[1 + i] = i
    BY StartedFacts
  <1>2. b \in Seq(Int) /\ Len(b) = m /\ \A i \in 1 .. m : b[i] = n + i
    BY RunFacts
  <1>3. /\ c \in Seq(Int) /\ Len(c) = (n + m) + 1 /\ c[1] = HeaderUnit
        /\ \A i \in 1 .. n + m : c[1 + i] = i
    BY <1>0, StartedFacts
  <1> HIDE DEF a, b, c
  <1>4. a \o b \in Seq(Int) /\ Len(a \o b) = Len(a) + Len(b)
    BY <1>1, <1>2, CatType
  <1>5. /\ \A i \in 1 .. Len(a) : (a \o b)[i] = a[i]
        /\ \A i \in 1 .. Len(b) : (a \o b)[Len(a) + i] = b[i]
    BY <1>1, <1>2, CatAt
  <1>6. Len(a \o b) = Len(c)
    BY <1>1, <1>2, <1>3, <1>4
  <1>7. ASSUME NEW i \in 1 .. Len(a \o b) PROVE (a \o b)[i] = c[i]
    <2>0. i \in Int /\ i >= 1 /\ i <= n + m + 1
      BY <1>1, <1>2, <1>4
    <2>1. CASE i = 1
      BY <2>1, <1>1, <1>3, <1>5
    <2>2. CASE i > 1 /\ i <= n + 1
      <3>1. i - 1 \in 1 .. n /\ i - 1 \in 1 .. n + m /\ 1 + (i - 1) = i
        BY <2>0, <2>2
      <3>2. a[1 + (i - 1)] = i - 1 /\ c[1 + (i - 1)] = i - 1
        BY <3>1, <1>1, <1>3
      <3>3. i \in 1 .. Len(a)
        BY <2>0, <2>2, <1>1
      <3> QED BY <3>1, <3>2, <3>3, <1>5
    <2>3. CASE i > n + 1
      <3> DEFINE k == i - (n + 1)
      <3>1. k \in 1 .. m /\ i - 1 \in 1 .. n + m /\ Len(a) + k = i
            /\ 1 + (i - 1) = i /\ n + k = i - 1
        BY <2>0, <2>3, <1>1
      <3> HIDE DEF k
      <3>2. (a \o b)[Len(a) + k] = n + k
        BY <1>2, <1>5, <3>1
      <3>3. c[1 + (i - 1)] = i - 1
        BY <1>3, <3>1
      <3> QED BY <3>1, <3>2, <3>3
    <2> QED BY <2>0, <2>1, <2>2, <2>3
  <1>8. a \o b = c
    BY <1>3, <1>4, <1>6, <1>7, SeqEqual
  <1> QED BY <1>8 DEF a, b, c
-----------------------------------------------------------------------------
(***************************************************************************)
(* The writer.                                                             *)
(***************************************************************************)
\* What the sink, outBuf and the coder have, in this order.
Ahead == (dst \o outBuf.q) \o z.held

\* Sink, rings and encoder hold the file up to what has been accepted.
WriterFlow ==
    /\ z.skip = 0 /\ Straight(inBuf)
    /\ ~z.ended => Ahead \o inBuf.q = Started(accepted)
    /\ z.ended => /\ dst \o outBuf.q = Alone(accepted)
                  /\ z.held = <<>> /\ inBuf.q = <<>>

\* Close is the last call, and the encoder ends with it.
WriterPhases ==
    /\ cl = "write" => ~closed
    /\ cl = "close" => closed
    /\ outcome # "none" <=> closed /\ cl = "idle"
    /\ z.ended => closed /\ cl = "idle"
    /\ result \in {"ok", "buf", "sink"}

\* The slice passed to Write continues what has been accepted.
WriterSource ==
    /\ accepted + Len(src) <= Total
    /\ cl = "write" =>
         /\ src = [j \in 1 .. Len(src) |-> accepted + j]
         /\ rdErr # "err"
         /\ rdErr # "nil" => inBuf.q # <<>>

\* The Close that did the work succeeded if and only if the encoder has come
\* to its end and outBuf has been written out.
WriterEnd ==
    /\ outcome = "ok" => z.ended /\ outBuf.q = <<>>
    /\ outcome = "failed" => ~(z.ended /\ outBuf.q = <<>>)

\* Only a failure leaves something in outBuf, and only a second one an encoder
\* that could not go on with it; an encoder without input is one that was
\* passed nothing.
WriterStalls ==
    /\ failed = 0 => outBuf.q = <<>>
    /\ z.stalled /\ outBuf.q # <<>> => failed >= 2
    /\ cl = "write" /\ z.stalled /\ inBuf.q = <<>> /\ src = <<>> => empty
    /\ result = "buf" => empty \/ failed >= 2

WriterInv ==
    /\ TypeOK /\ role = "writer"
    /\ WriterFlow /\ WriterPhases /\ WriterSource /\ WriterEnd /\ WriterStalls

LEMMA TypeFacts ==
    ASSUME TypeOK
    PROVE  /\ src \in Seq(Int) /\ Len(src) \in Nat /\ dst \in Seq(Int)
           /\ inBuf.q \in Seq(Int) /\ outBuf.q \in Seq(Int)
           /\ z.held \in Seq(Int)
           /\ accepted \in Nat /\ failed \in Nat /\ room \in Nat
           /\ Total \in Nat /\ Failures \in Nat /\ Slice \in Nat
           /\ failed <= Failures
  <1>1. /\ src \in Seq(Int) /\ dst \in Seq(Int)
        /\ IsRing(inBuf) /\ IsRing(outBuf) /\ IsCoder(z)
    BY DEF TypeOK
  <1>2. /\ accepted \in Nat /\ failed \in Nat /\ room \in Nat
        /\ Total \in Nat /\ Failures \in Nat /\ Slice \in Nat
        /\ failed <= Failures
    BY LzmaAssumption DEF TypeOK
  <1>3. Len(src) \in Nat
    BY <1>1
  <1> QED BY <1>1, <1>2, <1>3, RingFacts, CoderFacts

LEMMA WriterInvInit == Init => WriterInv
  <1> SUFFICES ASSUME Init PROVE WriterInv
    OBVIOUS
  <1>1. PICK n \in Sizes : inBuf = Ring(n) /\ outBuf = Ring(n)
    BY DEF Init
  <1>2. /\ IsRing(inBuf) /\ Straight(inBuf) /\ inBuf.q = <<>>
        /\ IsRing(outBuf) /\ outBuf.q = <<>>
    BY <1>1, NewRing, LzmaAssumption
  <1>3. /\ z = [held |-> <<HeaderUnit>>, skip |-> 0, ended |-> FALSE,
                stalled |-> FALSE]
    BY DEF Init, Coder
  <1>4. <<HeaderUnit>> \in Seq(Int)
    BY DEF HeaderUnit
  <1>5. IsCoder(z)
    BY <1>3, <1>4 DEF IsCoder
  <1>6. TypeOK
    <2>1. /\ src \in Seq(Int) /\ dst \in Seq(Int)
          /\ role \in {"writer", "reader"}
          /\ cl \in IF role = "writer" THEN {"idle", "write", "close"}
                                       ELSE {"idle", "read"}
          /\ rdErr \in {"nil", "EOF", "err"}
          /\ result \in {"ok", "EOF", "cut", "data", "buf", "sink", "err"}
          /\ outcome \in {"none", "ok", "failed"}
      BY DEF Init
    <2>2. /\ room \in 0 .. Slice /\ accepted \in 0 .. Total
          /\ failed \in 0 .. Failures
      BY LzmaAssumption DEF Init
    <2>3. /\ closed \in BOOLEAN /\ intact \in BOOLEAN
          /\ told \in BOOLEAN /\ empty \in BOOLEAN
      BY DEF Init
    <2> QED BY <1>2, <1>5, <2>1, <2>2, <2>3 DEF TypeOK
  <1>7. Ahead \o inBuf.q = Started(0)
    <2>1. Units(0) = <<>>
      BY UnitsFacts, EmptySeq
    <2>2. dst = <<>> /\ outBuf.q = <<>> /\ z.held = <<HeaderUnit>>
      BY <1>2, <1>3 DEF Init
    <2> QED BY <1>2, <1>4, <2>1, <2>2 DEF Ahead, Started
  <1>8. WriterFlow
    BY <1>2, <1>3, <1>7 DEF WriterFlow, Init
  <1>9. WriterPhases /\ WriterSource /\ WriterEnd /\ WriterStalls
    BY <1>2, <1>3, LzmaAssumption
       DEF Init, WriterPhases, WriterSource, WriterEnd, WriterStalls
  <1> QED BY <1>6, <1>8, <1>9 DEF WriterInv, Init

LEMMA WriteStep ==
    ASSUME WriterInv, NEW n \in 0 .. Slice, Write(n)
    PROVE  WriterInv'
  <1>1. /\ role' = "writer" /\ cl = "idle" /\ ~closed /\ accepted + n <= Total
        /\ cl' = "write" /\ rdErr' = "nil"
        /\ src' = [j \in 1 .. n |-> accepted + j]
        /\ empty' = (empty \/ n = 0)
        /\ inBuf' = inBuf /\ z' = z /\ outBuf' = outBuf /\ dst' = dst
        /\ UNCHANGED <<room, closed, result, accepted, outcome, intact,
                       failed, told>>
    BY DEF Write, WriterInv, stream
  <1>2. TypeOK /\ accepted \in Nat /\ n \in Nat
    BY TypeFacts, LzmaAssumption DEF WriterInv
  <1>3. src' \in Seq(Int) /\ Len(src') = n
    BY <1>1, <1>2, RunFacts
  <1>4. TypeOK'
    BY <1>1, <1>2, <1>3 DEF TypeOK
  <1>5. WriterFlow'
    BY <1>1 DEF WriterInv, WriterFlow, Ahead
  <1>6. WriterSource'
    BY <1>1, <1>3 DEF WriterSource
  <1>7. WriterPhases' /\ WriterEnd'
    BY <1>1 DEF WriterInv, WriterPhases, WriterEnd
  <1>8. WriterStalls'
    <2>1. src' = <<>> => n = 0
      BY <1>3
    <2>2. src' = <<>> => empty'
      BY <1>1, <2>1
    <2>3. empty => empty'
      BY <1>1
    <2> QED BY <1>1, <2>2, <2>3 DEF WriterInv, WriterStalls
  <1> QED BY <1>1, <1>4, <1>5, <1>6, <1>7, <1>8 DEF WriterInv

LEMMA CloseStep ==
    ASSUME WriterInv, Close
    PROVE  WriterInv'
  <1>1. /\ cl = "idle" /\ closed' = TRUE
        /\ inBuf' = inBuf /\ z' = z /\ outBuf' = outBuf /\ dst' = dst
        /\ UNCHANGED <<role, src, room, rdErr, accepted, outcome, intact,
                       failed, told, empty>>
    BY DEF Close, stream
  <1>2. \/ closed /\ result' = "ok" /\ cl' = cl
        \/ ~closed /\ cl' = "close" /\ result' = result
    BY DEF Close
  <1>3. TypeOK'
    BY <1>1, <1>2 DEF WriterInv, TypeOK
  <1>4. WriterFlow'
    BY <1>1 DEF WriterInv, WriterFlow, Ahead
  <1>5. WriterSource' /\ WriterEnd' /\ WriterStalls'
    BY <1>1, <1>2 DEF WriterInv, WriterSource, WriterEnd, WriterStalls
  <1>6. WriterPhases'
    BY <1>1, <1>2 DEF WriterInv, WriterPhases
  <1> QED BY <1>1, <1>3, <1>4, <1>5, <1>6 DEF WriterInv

\* What the round of an encoder does to the state.
WriterRound(in, code, d, w) ==
    /\ EncodeRound(dst, in, z, outBuf, code, failed < Failures, d, w)
    /\ inBuf' = ReadMark(in, d.took) /\ z' = d.z /\ outBuf' = w.rest
    /\ dst' = dst \o w.put
    /\ failed' = IF w.err = "sink" THEN failed + 1 ELSE failed

LEMMA WriterRounds ==
    ASSUME WriterInv, ~z.ended, NEW in, IsRing(in), Straight(in), NEW code,
           NEW d \in Encoded(z, ReadSlice(in), WriteSlice(outBuf), code),
           NEW w \in Flushes(WriteMark(outBuf, d.put), failed < Failures),
           Settle(in, d, w),
           failed' = IF w.err = "sink" THEN failed + 1 ELSE failed
    PROVE  WriterRound(in, code, d, w)
  <1>1. /\ dst \in Seq(Int) /\ IsCoder(z) /\ z.skip = 0 /\ IsRing(outBuf)
    BY DEF WriterInv, TypeOK, WriterFlow
  <1>2. (failed < Failures) \in BOOLEAN
    OBVIOUS
  <1>3. EncodeRound(dst, in, z, outBuf, code, failed < Failures, d, w)
    BY <1>1, <1>2, EncodeRounds
  <1> QED BY <1>3 DEF WriterRound, Settle

\* The state after the round: well-typed, conserved, and explained.
WriterRoundFlow(in, code) ==
    /\ IsRing(inBuf') /\ Straight(inBuf') /\ IsRing(outBuf') /\ IsCoder(z')
    /\ dst' \in Seq(Int) /\ failed' \in 0 .. Failures /\ z'.skip = 0
    /\ ~z'.ended => Ahead' \o inBuf'.q = Ahead \o in.q
    /\ z'.ended => /\ code = "FINISH" /\ z'.held = <<>> /\ inBuf'.q = <<>>
                   /\ dst' \o outBuf'.q = (Ahead \o in.q) \o <<EndUnit>>
    /\ z'.stalled => inBuf'.q = in.q

WriterRoundFailures(d, w) ==
    /\ failed' >= failed
    /\ failed' = 0 => outBuf'.q = <<>>
    /\ z'.stalled /\ outBuf'.q # <<>> => failed' >= 2
    /\ d.ret \in Rets
    /\ z'.ended <=> d.ret = "STREAM_END"
    /\ d.ret = "BUF_ERROR" => z.stalled /\ z'.stalled
    /\ w.err \in {"nil", "sink"}
    /\ w.err = "nil" <=> outBuf'.q = <<>>

LEMMA WriterRoundFacts ==
    ASSUME WriterInv, NEW in, NEW code, NEW d, NEW w,
           WriterRound(in, code, d, w)
    PROVE  WriterRoundFlow(in, code) /\ WriterRoundFailures(d, w)
  <1>1. /\ EncodeRound(dst, in, z, outBuf, code, failed < Failures, d, w)
        /\ inBuf' = ReadMark(in, d.took) /\ z' = d.z /\ outBuf' = w.rest
        /\ dst' = dst \o w.put
        /\ failed' = IF w.err = "sink" THEN failed + 1 ELSE failed
    BY DEF WriterRound
  <1>2. /\ IsRing(inBuf') /\ Straight(inBuf') /\ IsRing(outBuf')
        /\ IsCoder(z') /\ z'.skip = 0 /\ w.put \in Seq(Int)
        /\ d.ret \in Rets
        /\ z'.ended <=> d.ret = "STREAM_END"
        /\ d.ret = "BUF_ERROR" => z.stalled /\ z'.stalled
        /\ w.err \in {"nil", "sink"}
        /\ w.err = "nil" <=> outBuf'.q = <<>>
        /\ w.err = "sink" => failed < Failures
        /\ z'.stalled => /\ inBuf'.q = in.q
                         /\ outBuf'.q # <<>> => outBuf.q # <<>>
    BY <1>1 DEF EncodeRound
  <1>3. /\ ~z'.ended => Ahead' \o inBuf'.q = Ahead \o in.q
        /\ z'.ended => /\ code = "FINISH" /\ z'.held = <<>> /\ inBuf'.q = <<>>
                       /\ dst' \o outBuf'.q = (Ahead \o in.q) \o <<EndUnit>>
    BY <1>1 DEF EncodeRound, Ahead
  <1>4. /\ failed \in Nat /\ Failures \in Nat /\ failed <= Failures
        /\ dst \in Seq(Int)
    BY TypeFacts DEF WriterInv
  <1>e. /\ w.err \in {"nil", "sink"}
        /\ w.err = "nil" <=> outBuf'.q = <<>>
        /\ w.err = "sink" => failed < Failures
        /\ failed' = IF w.err = "sink" THEN failed + 1 ELSE failed
    BY <1>1, <1>2, Zenon
  <1>5. failed' \in 0 .. Failures /\ failed' >= failed
    BY <1>4, <1>e
  <1>6. dst' \in Seq(Int)
    <2>1. dst' = dst \o w.put /\ w.put \in Seq(Int)
      BY <1>1, <1>2, Zenon
    <2> QED BY <1>4, <2>1, CatType
  <1>7. failed = 0 => outBuf.q = <<>>
    BY DEF WriterInv, WriterStalls
  <1>8. ASSUME outBuf'.q # <<>> PROVE failed' = failed + 1
    BY <1>e, <1>8
  <1>9. ASSUME failed' = 0 PROVE outBuf'.q = <<>>
    BY <1>4, <1>8, <1>9
  <1>10. ASSUME z'.stalled, outBuf'.q # <<>> PROVE failed' >= 2
    <2>1. outBuf.q # <<>>
      BY <1>2, <1>10, Zenon
    <2> QED BY <1>4, <1>7, <1>8, <1>10, <2>1
  <1>11. WriterRoundFlow(in, code)
    BY <1>2, <1>3, <1>5, <1>6 DEF WriterRoundFlow
  <1>12. WriterRoundFailures(d, w)
    BY <1>2, <1>5, <1>9, <1>10 DEF WriterRoundFailures
  <1> QED BY <1>11, <1>12

\* processWrite: a read from the slice, then a round with LZMA_RUN.
LEMMA WriteRounds ==
    ASSUME WriterInv, processWrite
    PROVE  \E f \in Fetches(inBuf, rdErr, src, FALSE) :
             LET in == WriteMark(inBuf, SubSeq(src, 1, f.n))
                 fed == ReadSlice(in)
             IN  \E d \in Encoded(z, fed, WriteSlice(outBuf), "RUN") :
                   \E w \in Flushes(WriteMark(outBuf, d.put),
                                    failed < Failures) :
                     LET v == Verdict(w.err,
                                Ignored(d.ret, fed # <<>>, WriteSlice(outBuf)),
                                f.err, outBuf', inBuf')
                     IN  /\ WriterRound(in, "RUN", d, w)
                         /\ IsRing(in) /\ Straight(in) /\ fed = in.q
                         /\ src' = SubSeq(src, f.n + 1, Len(src))
                         /\ rdErr' = f.err /\ accepted' = accepted + f.n
                         /\ \/ v = "more" /\ UNCHANGED <<cl, result>>
                            \/ v = "EOF" /\ Returns("ok")
                            \/ v = "sink" /\ Returns("sink")
                            \/ v \notin {"more", "EOF", "sink"}
                                 /\ Returns("buf")
  <1> DEFINE In(f) == WriteMark(inBuf, SubSeq(src, 1, f.n))
             space == WriteSlice(outBuf)
             V(f, d, w) == Verdict(w.err,
                             Ignored(d.ret, ReadSlice(In(f)) # <<>>, space),
                             f.err, w.rest, ReadMark(In(f), d.took))
             Body(f, d, w) ==
               /\ Settle(In(f), d, w)
               /\ src' = SubSeq(src, f.n + 1, Len(src))
               /\ rdErr' = f.err
               /\ accepted' = accepted + Counted(f, d)
               /\ failed' = IF w.err = "sink" THEN failed + 1 ELSE failed
               /\ CASE V(f, d, w) = "more" -> UNCHANGED <<cl, result>>
                    [] V(f, d, w) = "EOF" -> Returns("ok")
                    [] V(f, d, w) = "sink" -> Returns("sink")
                    [] OTHER -> Returns("buf")
  <1>1. \E f \in Fetches(inBuf, rdErr, src, FALSE) :
          \E d \in Encoded(z, ReadSlice(In(f)), space, "RUN") :
            \E w \in Flushes(WriteMark(outBuf, d.put), failed < Failures) :
              Body(f, d, w)
    BY Zenon DEF processWrite
  <1> HIDE DEF Body, In, space
  <1>2. PICK f \in Fetches(inBuf, rdErr, src, FALSE) :
          \E d \in Encoded(z, ReadSlice(In(f)), space, "RUN") :
            \E w \in Flushes(WriteMark(outBuf, d.put), failed < Failures) :
              Body(f, d, w)
    BY <1>1
  <1>3. PICK d \in Encoded(z, ReadSlice(In(f)), space, "RUN") :
          \E w \in Flushes(WriteMark(outBuf, d.put), failed < Failures) :
            Body(f, d, w)
    BY <1>2
  <1>4. PICK w \in Flushes(WriteMark(outBuf, d.put), failed < Failures) :
          Body(f, d, w)
    BY <1>3
  <1>5. /\ IsRing(inBuf) /\ Straight(inBuf) /\ src \in Seq(Int)
        /\ rdErr \in RdErrs /\ FALSE \in BOOLEAN
    BY DEF WriterInv, TypeOK, WriterFlow, RdErrs
  <1> USE DEF Body
  <1>6. IsRing(In(f)) /\ Straight(In(f))
    BY <1>5, Fetched DEF In
  <1>7. ReadSlice(In(f)) = In(f).q
    BY <1>6, ReadSliceFacts
  <1>8. ~z.ended
    BY DEF WriterInv, WriterPhases, processWrite
  <1>9. WriterRound(In(f), "RUN", d, w)
    BY <1>4, <1>6, <1>8, WriterRounds DEF space
  <1>10. outBuf' = w.rest /\ inBuf' = ReadMark(In(f), d.took)
    BY <1>4 DEF Settle
  <1>11. accepted' = accepted + f.n
    BY <1>4 DEF Counted
  <1>12. \/ V(f, d, w) = "more" /\ UNCHANGED <<cl, result>>
         \/ V(f, d, w) = "EOF" /\ Returns("ok")
         \/ V(f, d, w) = "sink" /\ Returns("sink")
         \/ V(f, d, w) \notin {"more", "EOF", "sink"} /\ Returns("buf")
    <2> HIDE DEF V, In, space
    <2> QED BY <1>4
  <1> HIDE DEF In
  <1>13. /\ src' = SubSeq(src, f.n + 1, Len(src)) /\ rdErr' = f.err
    BY <1>4
  <1> HIDE DEF Body
  <1> QED BY <1>6, <1>7, <1>9, <1>10, <1>11, <1>12, <1>13 DEF In, space

\* A part of a run is a run.
Run(n, m) == [j \in 1 .. m |-> n + j]

LEMMA RunSplits ==
    ASSUME NEW n \in Nat, NEW m \in Nat, NEW k \in 0 .. m
    PROVE  /\ SubSeq(Run(n, m), 1, k) = Run(n, k)
           /\ SubSeq(Run(n, m), k + 1, m) = Run(n + k, m - k)
  <1> DEFINE s == Run(n, m)
             a == SubSeq(s, 1, k)
             b == SubSeq(s, k + 1, m)
             p == Run(n, k)
             q == Run(n + k, m - k)
  <1>0. k \in Nat /\ n + k \in Nat /\ m - k \in Nat
    OBVIOUS
  <1>1. s \in Seq(Int) /\ Len(s) = m /\ \A i \in 1 .. m : s[i] = n + i
    BY RunFacts DEF Run
  <1>2. p \in Seq(Int) /\ Len(p) = k /\ \A i \in 1 .. k : p[i] = n + i
    BY <1>0, RunFacts DEF Run
  <1>3. /\ q \in Seq(Int) /\ Len(q) = m - k
        /\ \A i \in 1 .. m - k : q[i] = (n + k) + i
    BY <1>0, RunFacts DEF Run
  <1> HIDE DEF s, p, q
  <1>4. /\ a \in Seq(Int) /\ Len(a) = k
        /\ \A i \in 1 .. k : a[i] = s[i]
    BY <1>0, <1>1, SubSeqProperties
  <1>5. /\ b \in Seq(Int) /\ Len(b) = m - k
        /\ \A i \in 1 .. m - k : b[i] = s[k + i]
    BY <1>0, <1>1, SubSeqProperties
  <1> HIDE DEF a, b
  <1>6. a = p
    <2>1. \A i \in 1 .. Len(a) : a[i] = p[i]
      BY <1>0, <1>1, <1>2, <1>4
    <2> QED BY <1>2, <1>4, <2>1, SeqEqual
  <1>7. b = q
    <2>1. ASSUME NEW i \in 1 .. Len(b) PROVE b[i] = q[i]
      <3>1. i \in 1 .. m - k /\ k + i \in 1 .. m
        BY <1>0, <1>5
      <3>2. b[i] = n + (k + i) /\ q[i] = (n + k) + i
        BY <1>1, <1>3, <1>5, <3>1
      <3> QED BY <1>0, <3>1, <3>2
    <2> QED BY <1>3, <1>5, <2>1, SeqEqual
  <1> QED BY <1>6, <1>7 DEF a, b, p, q, s

\* What Write reads from its slice continues the file.
Continues(A, q, n, m, k, s) ==
    /\ A \o (q \o SubSeq(s, 1, k)) = Started(n + k)
    /\ SubSeq(s, k + 1, m) = Run(n + k, m - k)

LEMMA StartedContinues ==
    ASSUME NEW A \in Seq(Int), NEW q \in Seq(Int), NEW n \in Nat,
           NEW m \in Nat, NEW k \in 0 .. m, NEW s, s = Run(n, m),
           A \o q = Started(n)
    PROVE  Continues(A, q, n, m, k, s)
  <1>1. SubSeq(s, 1, k) = Run(n, k) /\ SubSeq(s, k + 1, m) = Run(n + k, m - k)
    BY RunSplits
  <1>2. k \in Nat
    OBVIOUS
  <1>3. Run(n, k) \in Seq(Int) /\ Started(n) \o Run(n, k) = Started(n + k)
    BY <1>2, RunFacts, StartedGrows DEF Run
  <1>4. (A \o q) \o Run(n, k) = A \o (q \o Run(n, k))
    BY <1>3, Assoc, Zenon
  <1> QED BY <1>1, <1>3, <1>4, Zenon DEF Continues

\* A read from the slice passed to Write does not fail.
SliceRead(b, rdErr0, rest, f) ==
    /\ f.n \in 0 .. Len(rest) /\ f.err \in RdErrs
    /\ f.n <= WriteSlice(b)
    /\ b.q # <<>> \/ rdErr0 # "nil" => f.n = 0 /\ f.err = rdErr0
    /\ b.q = <<>> /\ rdErr0 = "nil" =>
         /\ f.err = "nil" => f.n >= 1
         /\ f.err = "EOF" => f.n = Len(rest)
         /\ f.err # "err"

LEMMA SliceReads ==
    ASSUME NEW b, IsRing(b), Straight(b), NEW rdErr0 \in RdErrs,
           NEW rest \in Seq(Int), NEW f \in Fetches(b, rdErr0, rest, FALSE)
    PROVE  SliceRead(b, rdErr0, rest, f)
  <1>1. PICK fails \in BOOLEAN : fails = FALSE
    OBVIOUS
  <1>2. f \in Fetches(b, rdErr0, rest, fails)
    BY <1>1, Zenon
  <1>3. /\ f.n \in 0 .. Len(rest) /\ f.err \in RdErrs
        /\ f.n <= WriteSlice(b)
        /\ b.q # <<>> \/ rdErr0 # "nil" => f.n = 0 /\ f.err = rdErr0
        /\ b.q = <<>> /\ rdErr0 = "nil" =>
             /\ f.err = "nil" => f.n >= 1
             /\ f.err = "EOF" => f.n = Len(rest)
             /\ f.err = "err" => fails
    <2>1. FetchStep(b, rdErr0, rest, fails, f)
      BY <1>2, FetchFacts
    <2> QED BY <2>1 DEF FetchStep
  <1> QED BY <1>1, <1>3, Zenon DEF SliceRead

\* The switch at the end of a round of Write.
LEMMA WriteVerdict ==
    ASSUME NEW wrErr \in {"nil", "sink"}, NEW ret \in {"OK", "BUF_ERROR"},
           NEW rdErr0 \in {"nil", "EOF"}, NEW ob, NEW ib,
           wrErr = "nil" <=> ob.q = <<>>,
           NEW v, v = Verdict(wrErr, ret, rdErr0, ob, ib)
    PROVE  /\ v = "more" => /\ wrErr = "nil" /\ ret = "OK"
                            /\ rdErr0 # "nil" => ib.q # <<>>
           /\ v = "EOF" => wrErr = "nil"
           /\ v \notin {"more", "EOF", "sink"} => ret = "BUF_ERROR"
  BY DEF Verdict

LEMMA IgnoredFacts ==
    ASSUME NEW ret \in Rets, NEW fed \in BOOLEAN, NEW space \in Nat
    PROVE  /\ Ignored(ret, fed, space) \in Rets
           /\ Ignored(ret, fed, space) = "STREAM_END" <=> ret = "STREAM_END"
           /\ Ignored(ret, fed, space) = "BUF_ERROR" =>
                ret = "BUF_ERROR" /\ (~fed \/ space = 0)
  BY DEF Ignored, Rets

LEMMA SliceWithin ==
    ASSUME NEW a \in Nat, NEW m \in Nat, NEW t \in Nat, NEW k \in 0 .. m,
           a + m <= t
    PROVE  (a + k) + (m - k) <= t /\ a + k \in 0 .. t
  OBVIOUS

LEMMA processWriteStep ==
    ASSUME WriterInv, processWrite
    PROVE  WriterInv'
  <1>1. /\ TypeOK /\ role = "writer" /\ WriterFlow /\ WriterPhases
        /\ WriterSource /\ WriterEnd /\ WriterStalls
    BY DEF WriterInv
  <1>2. /\ cl = "write"
        /\ UNCHANGED <<role, room, closed, outcome, intact, told, empty>>
    BY DEF processWrite
  <1>3. PICK f \in Fetches(inBuf, rdErr, src, FALSE) :
          LET in == WriteMark(inBuf, SubSeq(src, 1, f.n))
              fed == ReadSlice(in)
          IN  \E d \in Encoded(z, fed, WriteSlice(outBuf), "RUN") :
                \E w \in Flushes(WriteMark(outBuf, d.put),
                                 failed < Failures) :
                  LET v == Verdict(w.err,
                             Ignored(d.ret, fed # <<>>, WriteSlice(outBuf)),
                             f.err, outBuf', inBuf')
                  IN  /\ WriterRound(in, "RUN", d, w)
                      /\ IsRing(in) /\ Straight(in) /\ fed = in.q
                      /\ src' = SubSeq(src, f.n + 1, Len(src))
                      /\ rdErr' = f.err /\ accepted' = accepted + f.n
                      /\ \/ v = "more" /\ UNCHANGED <<cl, result>>
                         \/ v = "EOF" /\ Returns("ok")
                         \/ v = "sink" /\ Returns("sink")
                         \/ v \notin {"more", "EOF", "sink"}
                              /\ Returns("buf")
    BY WriteRounds
  <1> DEFINE in == WriteMark(inBuf, SubSeq(src, 1, f.n))
             space == WriteSlice(outBuf)
  <1>4. PICK d, w :
          LET v == Verdict(w.err, Ignored(d.ret, in.q # <<>>, space),
                           f.err, outBuf', inBuf')
          IN  /\ WriterRound(in, "RUN", d, w)
              /\ IsRing(in) /\ Straight(in)
              /\ src' = SubSeq(src, f.n + 1, Len(src))
              /\ rdErr' = f.err /\ accepted' = accepted + f.n
              /\ \/ v = "more" /\ UNCHANGED <<cl, result>>
                 \/ v = "EOF" /\ Returns("ok")
                 \/ v = "sink" /\ Returns("sink")
                 \/ v \notin {"more", "EOF", "sink"} /\ Returns("buf")
    BY <1>3, ZenonT(40)
  <1> DEFINE ret == Ignored(d.ret, in.q # <<>>, space)
             v == Verdict(w.err, ret, f.err, outBuf', inBuf')
  <1>5. /\ src \in Seq(Int) /\ Len(src) \in Nat /\ dst \in Seq(Int)
        /\ inBuf.q \in Seq(Int) /\ outBuf.q \in Seq(Int)
        /\ z.held \in Seq(Int) /\ accepted \in Nat /\ Total \in Nat
        /\ IsRing(inBuf) /\ Straight(inBuf) /\ IsRing(outBuf)
        /\ rdErr \in RdErrs /\ FALSE \in BOOLEAN
    BY <1>1, TypeFacts DEF TypeOK, WriterFlow, RdErrs
  <1>6. /\ f.n \in 0 .. Len(src) /\ f.err \in RdErrs
        /\ inBuf.q # <<>> \/ rdErr # "nil" => f.n = 0 /\ f.err = rdErr
        /\ inBuf.q = <<>> /\ rdErr = "nil" =>
             /\ f.err = "nil" => f.n >= 1
             /\ f.err = "EOF" => f.n = Len(src)
             /\ f.err # "err"
    <2>1. SliceRead(inBuf, rdErr, src, f)
      BY <1>5, SliceReads
    <2> QED BY <2>1 DEF SliceRead
  <1>e. f.err \in {"nil", "EOF"}
    <2>1. rdErr # "err"
      BY <1>1, <1>2 DEF WriterSource
    <2> QED BY <1>6, <2>1 DEF RdErrs
  <1>7. WriterRoundFlow(in, "RUN") /\ WriterRoundFailures(d, w)
    BY <1>4, WriterRoundFacts
  <1>8. in.q = inBuf.q \o SubSeq(src, 1, f.n)
    BY <1>5, Fetched
  <1>9. /\ SubSeq(src, 1, f.n) \in Seq(Int) /\ Len(SubSeq(src, 1, f.n)) = f.n
        /\ src' \in Seq(Int) /\ Len(src') = Len(src) - f.n
    BY <1>4, <1>5, <1>6, Split
  <1>10. ~z'.ended /\ ~z.ended
    BY <1>1, <1>2, <1>7 DEF WriterRoundFlow, WriterPhases
  <1>11. Ahead' \o inBuf'.q = Started(accepted') /\ src' = Run(accepted', Len(src'))
    <2>1. /\ Ahead \in Seq(Int) /\ Ahead \o inBuf.q = Started(accepted)
      BY <1>1, <1>5, <1>10, CatType DEF WriterFlow, Ahead
    <2>2. src = Run(accepted, Len(src))
      BY <1>1, <1>2 DEF WriterSource, Run
    <2>3. /\ Ahead \o (inBuf.q \o SubSeq(src, 1, f.n)) = Started(accepted + f.n)
          /\ SubSeq(src, f.n + 1, Len(src))
               = Run(accepted + f.n, Len(src) - f.n)
      <3>1. Continues(Ahead, inBuf.q, accepted, Len(src), f.n, src)
        BY <1>5, <1>6, <2>1, <2>2, StartedContinues
      <3> QED BY <3>1 DEF Continues
    <2>4. Ahead' \o inBuf'.q = Ahead \o in.q
      BY <1>7, <1>10 DEF WriterRoundFlow
    <2>5. Ahead' \o inBuf'.q = Started(accepted')
      BY <1>4, <1>8, <2>3, <2>4, Zenon
    <2>6. src' = Run(accepted', Len(src'))
      BY <1>4, <1>9, <2>3, Zenon
    <2> QED BY <2>5, <2>6
  <1>12. accepted' + Len(src') <= Total /\ accepted' \in 0 .. Total
    <2>1. accepted' = accepted + f.n /\ Len(src') = Len(src) - f.n
          /\ f.n \in 0 .. Len(src)
      BY <1>4, <1>6, <1>9
    <2>2. accepted + Len(src) <= Total
      BY <1>1 DEF WriterSource
    <2>3. accepted \in Nat /\ Len(src) \in Nat /\ Total \in Nat
      BY <1>5
    <2>4. /\ (accepted + f.n) + (Len(src) - f.n) <= Total
          /\ accepted + f.n \in 0 .. Total
      BY <2>1, <2>2, <2>3, SliceWithin
    <2> QED BY <2>1, <2>4, Zenon
  <1>13. /\ ret \in {"OK", "BUF_ERROR"} /\ d.ret \in Rets
         /\ ret = "BUF_ERROR" => /\ d.ret = "BUF_ERROR"
                                 /\ in.q = <<>> \/ space = 0
    <2>1. d.ret \in Rets /\ d.ret # "STREAM_END"
      BY <1>7, <1>10 DEF WriterRoundFailures
    <2>2. space \in Nat /\ (in.q # <<>>) \in BOOLEAN
      BY <1>5, WriteSliceFacts
    <2>3. /\ ret \in Rets
          /\ ret = "STREAM_END" <=> d.ret = "STREAM_END"
          /\ ret = "BUF_ERROR" =>
               d.ret = "BUF_ERROR" /\ (~(in.q # <<>>) \/ space = 0)
      BY <2>1, <2>2, IgnoredFacts
    <2> HIDE DEF ret, in, space
    <2> QED BY <2>1, <2>3 DEF Rets
  <1> HIDE DEF in, space, ret
  <1>14. /\ v = "more" => /\ w.err = "nil" /\ ret = "OK"
                          /\ f.err # "nil" => inBuf'.q # <<>>
         /\ v = "EOF" => w.err = "nil"
         /\ v \notin {"more", "EOF", "sink"} => ret = "BUF_ERROR"
    <2>1. /\ w.err \in {"nil", "sink"}
          /\ w.err = "nil" <=> outBuf'.q = <<>>
      BY <1>7 DEF WriterRoundFailures
    <2> QED BY <1>e, <1>13, <2>1, WriteVerdict
  <1>15. \/ v = "more" /\ UNCHANGED <<cl, result>>
         \/ v = "EOF" /\ Returns("ok")
         \/ v = "sink" /\ Returns("sink")
         \/ v \notin {"more", "EOF", "sink"} /\ Returns("buf")
    BY <1>4, Zenon DEF ret
  <1> HIDE DEF v
  <1>16. \/ /\ cl' = "write" /\ result' = result
            /\ f.err # "nil" => inBuf'.q # <<>>
         \/ cl' = "idle" /\ result' \in {"ok", "sink"}
         \/ cl' = "idle" /\ result' = "buf" /\ ret = "BUF_ERROR"
    BY <1>2, <1>14, <1>15 DEF Returns
  <1>17. TypeOK'
    <2>1. /\ IsRing(inBuf') /\ IsRing(outBuf') /\ IsCoder(z')
          /\ dst' \in Seq(Int) /\ failed' \in 0 .. Failures
      BY <1>7 DEF WriterRoundFlow
    <2>2. /\ role' \in {"writer", "reader"}
          /\ cl' \in IF role' = "writer" THEN {"idle", "write", "close"}
                                         ELSE {"idle", "read"}
          /\ result' \in {"ok", "EOF", "cut", "data", "buf", "sink", "err"}
      BY <1>1, <1>2, <1>16 DEF TypeOK
    <2>3. rdErr' \in {"nil", "EOF", "err"}
      BY <1>4, <1>6 DEF RdErrs
    <2>4. /\ room' \in 0 .. Slice /\ closed' \in BOOLEAN
          /\ intact' \in BOOLEAN /\ told' \in BOOLEAN /\ empty' \in BOOLEAN
          /\ outcome' \in {"none", "ok", "failed"}
      BY <1>1, <1>2 DEF TypeOK
    <2> QED BY <1>9, <1>12, <2>1, <2>2, <2>3, <2>4 DEF TypeOK
  <1>18. WriterFlow'
    <2>1. z'.skip = 0 /\ Straight(inBuf')
      BY <1>7 DEF WriterRoundFlow
    <2> QED BY <1>10, <1>11, <2>1 DEF WriterFlow
  <1>19. WriterPhases' /\ WriterEnd'
    <2>1. ~closed /\ outcome = "none" /\ result \in {"ok", "buf", "sink"}
      BY <1>1, <1>2 DEF WriterPhases
    <2> QED BY <1>2, <1>10, <1>16, <2>1 DEF WriterPhases, WriterEnd
  <1>20. WriterSource'
    <2>1. ASSUME cl' = "write"
          PROVE  /\ src' = [j \in 1 .. Len(src') |-> accepted' + j]
                 /\ rdErr' # "err"
                 /\ rdErr' # "nil" => inBuf'.q # <<>>
      <3>1. src' = [j \in 1 .. Len(src') |-> accepted' + j]
        BY <1>11 DEF Run
      <3>2. rdErr' = f.err
        BY <1>4
      <3> QED BY <1>e, <1>16, <2>1, <3>1, <3>2
    <2> QED BY <1>12, <2>1 DEF WriterSource
  <1>21. in.q = <<>> => inBuf.q = <<>> /\ f.n = 0
    <2> DEFINE s == SubSeq(src, 1, f.n)
    <2>1. in.q = inBuf.q \o s /\ s \in Seq(Int) /\ Len(s) = f.n
      BY <1>8, <1>9
    <2> HIDE DEF s
    <2>2. Len(inBuf.q \o s) = Len(inBuf.q) + Len(s)
      BY <1>5, <2>1, CatType
    <2>3. Len(inBuf.q) \in Nat /\ f.n \in Nat
      BY <1>5, <1>6
    <2>4. ASSUME in.q = <<>> PROVE Len(inBuf.q) = 0 /\ f.n = 0
      <3>1. Len(inBuf.q \o s) = 0
        BY <2>1, <2>4
      <3> QED BY <2>1, <2>2, <2>3, <3>1
    <2> QED BY <1>5, <2>4, EmptySeq
  <1>22. ASSUME cl' = "write", z'.stalled, inBuf'.q = <<>> PROVE FALSE
    <2>1. in.q = <<>>
      BY <1>7, <1>22 DEF WriterRoundFlow
    <2>2. inBuf.q = <<>> /\ f.n = 0
      BY <1>21, <2>1
    <2>3. f.err = "nil"
      BY <1>16, <1>22
    <2> QED BY <1>6, <2>2, <2>3
  <1>23. ASSUME ret = "BUF_ERROR" PROVE empty \/ failed' >= 2
    <2>1. z.stalled /\ failed' >= failed /\ failed \in Nat /\ failed' \in Nat
      <3>1. z.stalled /\ failed' >= failed
        BY <1>7, <1>13, <1>23 DEF WriterRoundFailures
      <3>2. failed \in Nat
        BY <1>1, TypeFacts
      <3>3. failed' \in Nat
        BY <1>7 DEF WriterRoundFlow
      <3> QED BY <3>1, <3>2, <3>3
    <2>2. CASE space = 0
      <3>1. outBuf.q # <<>>
        <4>1. Len(outBuf.q) = outBuf.size /\ outBuf.size > 0
          BY <1>5, <2>2, WriteSliceFacts, RingFacts DEF space
        <4> QED BY <4>1
      <3>2. failed >= 2
        BY <1>1, <2>1, <3>1 DEF WriterStalls
      <3> QED BY <2>1, <3>2
    <2>3. CASE in.q = <<>>
      <3>1. inBuf.q = <<>> /\ f.n = 0
        BY <1>21, <2>3
      <3>2. rdErr = "nil"
        BY <1>1, <1>2, <3>1 DEF WriterSource
      <3>3. f.err = "EOF" /\ Len(src) = 0
        BY <1>6, <1>e, <3>1, <3>2
      <3>4. src = <<>>
        BY <1>5, <3>3, EmptySeq
      <3> QED BY <1>1, <1>2, <2>1, <3>1, <3>4 DEF WriterStalls
    <2> QED BY <1>13, <1>23, <2>2, <2>3
  <1>24. WriterStalls'
    <2>1. /\ failed' = 0 => outBuf'.q = <<>>
          /\ z'.stalled /\ outBuf'.q # <<>> => failed' >= 2
          /\ failed' >= failed
      BY <1>7 DEF WriterRoundFailures
    <2>2. ASSUME result' = "buf" PROVE empty' \/ failed' >= 2
      <3>1. CASE ret = "BUF_ERROR"
        BY <1>2, <1>23, <3>1
      <3>2. CASE ret # "BUF_ERROR"
        <4>1. result = "buf"
          BY <1>16, <2>2, <3>2
        <4>2. empty \/ failed >= 2
          BY <1>1, <4>1 DEF WriterStalls
        <4>3. failed \in Nat /\ failed' \in Nat
          BY <1>1, <1>7, TypeFacts DEF WriterRoundFlow
        <4> QED BY <1>2, <2>1, <4>2, <4>3
      <3> QED BY <3>1, <3>2
    <2> QED BY <1>22, <2>1, <2>2 DEF WriterStalls
  <1> QED BY <1>1, <1>2, <1>17, <1>18, <1>19, <1>20, <1>24 DEF WriterInv

\* processClose: a round with LZMA_FINISH and no more input.
LEMMA CloseRounds ==
    ASSUME WriterInv, processClose
    PROVE  \E d, w :
             LET v == Verdict(w.err, Ignored(d.ret, TRUE, WriteSlice(outBuf)),
                              "nil", outBuf', inBuf')
             IN  /\ WriterRound(inBuf, "FINISH", d, w)
                 /\ \/ v = "more" /\ UNCHANGED <<cl, result, outcome>>
                    \/ v = "STREAM_END" /\ outcome' = "ok" /\ Returns("ok")
                    \/ v = "sink" /\ outcome' = "failed" /\ Returns("sink")
                    \/ /\ v \notin {"more", "STREAM_END", "sink"}
                       /\ outcome' = "failed" /\ Returns("buf")
  <1> DEFINE space == WriteSlice(outBuf)
             V(d, w) == Verdict(w.err, Ignored(d.ret, TRUE, space), "nil",
                                w.rest, ReadMark(inBuf, d.took))
             Body(d, w) ==
               /\ Settle(inBuf, d, w)
               /\ failed' = IF w.err = "sink" THEN failed + 1 ELSE failed
               /\ CASE V(d, w) = "more" -> UNCHANGED <<cl, result, outcome>>
                    [] V(d, w) = "STREAM_END" ->
                         outcome' = "ok" /\ Returns("ok")
                    [] V(d, w) = "sink" ->
                         outcome' = "failed" /\ Returns("sink")
                    [] OTHER -> outcome' = "failed" /\ Returns("buf")
  <1>1. \E d \in Encoded(z, ReadSlice(inBuf), space, "FINISH") :
          \E w \in Flushes(WriteMark(outBuf, d.put), failed < Failures) :
            Body(d, w)
    BY Zenon DEF processClose
  <1> HIDE DEF Body, space
  <1>2. PICK d \in Encoded(z, ReadSlice(inBuf), space, "FINISH") :
          \E w \in Flushes(WriteMark(outBuf, d.put), failed < Failures) :
            Body(d, w)
    BY <1>1
  <1>3. PICK w \in Flushes(WriteMark(outBuf, d.put), failed < Failures) :
          Body(d, w)
    BY <1>2
  <1>4. IsRing(inBuf) /\ Straight(inBuf) /\ ~z.ended
    BY DEF WriterInv, TypeOK, WriterFlow, WriterPhases, processClose
  <1> USE DEF Body
  <1>5. WriterRound(inBuf, "FINISH", d, w)
    BY <1>3, <1>4, WriterRounds DEF space
  <1>6. outBuf' = w.rest /\ inBuf' = ReadMark(inBuf, d.took)
    BY <1>3 DEF Settle
  <1>7. \/ V(d, w) = "more" /\ UNCHANGED <<cl, result, outcome>>
        \/ V(d, w) = "STREAM_END" /\ outcome' = "ok" /\ Returns("ok")
        \/ V(d, w) = "sink" /\ outcome' = "failed" /\ Returns("sink")
        \/ /\ V(d, w) \notin {"more", "STREAM_END", "sink"}
           /\ outcome' = "failed" /\ Returns("buf")
    <2> HIDE DEF V, space
    <2> QED BY <1>3
  <1> HIDE DEF Body
  <1> QED BY <1>5, <1>6, <1>7 DEF space

\* The switch at the end of a round of Close.
LEMMA CloseVerdict ==
    ASSUME NEW wrErr \in {"nil", "sink"}, NEW ret \in Rets, NEW ob, NEW ib,
           wrErr = "nil" <=> ob.q = <<>>,
           NEW v, v = Verdict(wrErr, ret, "nil", ob, ib)
    PROVE  /\ v = "more" => wrErr = "nil" /\ ret = "OK"
           /\ v = "STREAM_END" => wrErr = "nil" /\ ret = "STREAM_END"
           /\ v = "sink" => wrErr = "sink"
           /\ v \notin {"more", "STREAM_END", "sink"} => ret = "BUF_ERROR"
  BY DEF Verdict, Rets

LEMMA processCloseStep ==
    ASSUME WriterInv, processClose
    PROVE  WriterInv'
  <1>1. /\ TypeOK /\ role = "writer" /\ WriterFlow /\ WriterPhases
        /\ WriterSource /\ WriterEnd /\ WriterStalls
    BY DEF WriterInv
  <1>2. /\ cl = "close"
        /\ UNCHANGED <<role, src, room, rdErr, closed, accepted, intact, told,
                       empty>>
    BY DEF processClose
  <1> DEFINE space == WriteSlice(outBuf)
  <1>3. PICK d, w :
          LET v == Verdict(w.err, Ignored(d.ret, TRUE, space), "nil",
                           outBuf', inBuf')
          IN  /\ WriterRound(inBuf, "FINISH", d, w)
              /\ \/ v = "more" /\ UNCHANGED <<cl, result, outcome>>
                 \/ v = "STREAM_END" /\ outcome' = "ok" /\ Returns("ok")
                 \/ v = "sink" /\ outcome' = "failed" /\ Returns("sink")
                 \/ /\ v \notin {"more", "STREAM_END", "sink"}
                    /\ outcome' = "failed" /\ Returns("buf")
    BY CloseRounds, Zenon
  <1> DEFINE ret == Ignored(d.ret, TRUE, space)
             v == Verdict(w.err, ret, "nil", outBuf', inBuf')
  <1>4. WriterRoundFlow(inBuf, "FINISH") /\ WriterRoundFailures(d, w)
    BY <1>3, WriterRoundFacts
  <1>5. closed /\ outcome = "none" /\ ~z.ended
        /\ result \in {"ok", "buf", "sink"}
    BY <1>1, <1>2 DEF WriterPhases
  <1>6. /\ accepted \in Nat /\ failed \in Nat /\ failed' \in Nat
        /\ failed' >= failed /\ IsRing(outBuf)
    <2>1. accepted \in Nat /\ failed \in Nat /\ IsRing(outBuf)
      BY <1>1, TypeFacts DEF TypeOK
    <2>2. failed' \in Nat /\ failed' >= failed
      BY <1>4 DEF WriterRoundFlow, WriterRoundFailures
    <2> QED BY <2>1, <2>2
  <1>7. /\ ret \in Rets
        /\ ret = "STREAM_END" <=> d.ret = "STREAM_END"
        /\ ret = "BUF_ERROR" => d.ret = "BUF_ERROR" /\ space = 0
    <2>1. d.ret \in Rets /\ space \in Nat
      BY <1>4, <1>6, WriteSliceFacts DEF WriterRoundFailures
    <2>2. CASE d.ret = "BUF_ERROR" /\ space > 0
      BY <2>2 DEF Ignored, Rets
    <2>3. CASE ~(d.ret = "BUF_ERROR" /\ space > 0)
      <3>1. ret = d.ret
        BY <2>3 DEF Ignored
      <3> HIDE DEF ret, space
      <3> QED BY <2>1, <2>3, <3>1
    <2> QED BY <2>2, <2>3
  <1> HIDE DEF ret, space
  <1>8. /\ w.err \in {"nil", "sink"} /\ w.err = "nil" <=> outBuf'.q = <<>>
        /\ z'.ended <=> d.ret = "STREAM_END"
        /\ d.ret = "BUF_ERROR" => z.stalled /\ z'.stalled
    BY <1>4 DEF WriterRoundFailures
  <1>9. /\ v = "more" => w.err = "nil" /\ ret = "OK"
        /\ v = "STREAM_END" => w.err = "nil" /\ ret = "STREAM_END"
        /\ v = "sink" => w.err = "sink"
        /\ v \notin {"more", "STREAM_END", "sink"} => ret = "BUF_ERROR"
    <2>1. /\ w.err \in {"nil", "sink"}
          /\ w.err = "nil" <=> outBuf'.q = <<>>
      BY <1>4 DEF WriterRoundFailures
    <2> QED BY <1>7, <2>1, CloseVerdict
  <1>10. \/ v = "more" /\ UNCHANGED <<cl, result, outcome>>
         \/ v = "STREAM_END" /\ outcome' = "ok" /\ Returns("ok")
         \/ v = "sink" /\ outcome' = "failed" /\ Returns("sink")
         \/ /\ v \notin {"more", "STREAM_END", "sink"}
            /\ outcome' = "failed" /\ Returns("buf")
    BY <1>3, Zenon DEF ret
  <1> HIDE DEF v
  <1>11. \/ /\ cl' = "close" /\ result' = result /\ outcome' = "none"
            /\ ~z'.ended
         \/ /\ cl' = "idle" /\ result' = "ok" /\ outcome' = "ok"
            /\ z'.ended /\ outBuf'.q = <<>>
         \/ /\ cl' = "idle" /\ result' = "sink" /\ outcome' = "failed"
            /\ outBuf'.q # <<>>
         \/ /\ cl' = "idle" /\ result' = "buf" /\ outcome' = "failed"
            /\ ~z'.ended /\ ret = "BUF_ERROR"
    <2>1. /\ w.err = "nil" => outBuf'.q = <<>>
          /\ w.err = "sink" => outBuf'.q # <<>>
      BY <1>4 DEF WriterRoundFailures
    <2>2. CASE v = "more" /\ UNCHANGED <<cl, result, outcome>>
      BY <1>2, <1>5, <1>7, <1>8, <1>9, <2>2
    <2>3. CASE v = "STREAM_END" /\ outcome' = "ok" /\ Returns("ok")
      BY <1>7, <1>8, <1>9, <2>1, <2>3 DEF Returns
    <2>4. CASE v = "sink" /\ outcome' = "failed" /\ Returns("sink")
      BY <1>9, <2>1, <2>4 DEF Returns
    <2>5. CASE /\ v \notin {"more", "STREAM_END", "sink"}
               /\ outcome' = "failed" /\ Returns("buf")
      BY <1>7, <1>8, <1>9, <2>5 DEF Returns
    <2> QED BY <1>10, <2>2, <2>3, <2>4, <2>5
  <1>12. TypeOK'
    <2>1. /\ IsRing(inBuf') /\ IsRing(outBuf') /\ IsCoder(z')
          /\ dst' \in Seq(Int) /\ failed' \in 0 .. Failures
      BY <1>4 DEF WriterRoundFlow
    <2>2. /\ role' \in {"writer", "reader"}
          /\ cl' \in IF role' = "writer" THEN {"idle", "write", "close"}
                                         ELSE {"idle", "read"}
          /\ result' \in {"ok", "EOF", "cut", "data", "buf", "sink", "err"}
          /\ outcome' \in {"none", "ok", "failed"}
      BY <1>1, <1>2, <1>5, <1>11
    <2> QED BY <1>1, <1>2, <2>1, <2>2 DEF TypeOK
  <1>13. WriterFlow'
    <2>1. /\ z'.skip = 0 /\ Straight(inBuf')
          /\ ~z'.ended => Ahead' \o inBuf'.q = Ahead \o inBuf.q
          /\ z'.ended => /\ z'.held = <<>> /\ inBuf'.q = <<>>
                         /\ dst' \o outBuf'.q
                              = (Ahead \o inBuf.q) \o <<EndUnit>>
      BY <1>4 DEF WriterRoundFlow
    <2>2. Ahead \o inBuf.q = Started(accepted)
      BY <1>1, <1>5 DEF WriterFlow
    <2>3. Alone(accepted) = Started(accepted) \o <<EndUnit>>
      BY <1>6, AloneFacts
    <2>4. accepted' = accepted
      BY <1>2
    <2>5. z'.ended => dst' \o outBuf'.q = Alone(accepted')
      BY <2>1, <2>2, <2>3, <2>4, Zenon
    <2>6. ~z'.ended => Ahead' \o inBuf'.q = Started(accepted')
      BY <2>1, <2>2, <2>4, Zenon
    <2> QED BY <2>1, <2>5, <2>6 DEF WriterFlow
  <1>14. WriterPhases' /\ WriterEnd'
    <2>1. closed'
      BY <1>2, <1>5
    <2> QED BY <1>5, <1>11, <2>1 DEF WriterPhases, WriterEnd
  <1>15. WriterSource'
    BY <1>1, <1>2, <1>11 DEF WriterSource
  <1>16. WriterStalls'
    <2>1. /\ failed' = 0 => outBuf'.q = <<>>
          /\ z'.stalled /\ outBuf'.q # <<>> => failed' >= 2
      BY <1>4 DEF WriterRoundFailures
    <2>2. ASSUME ret = "BUF_ERROR" PROVE failed' >= 2
      <3>1. z.stalled /\ space = 0
        BY <1>7, <1>8, <2>2
      <3>2. outBuf.q # <<>>
        <4>1. Len(outBuf.q) = outBuf.size /\ outBuf.size > 0
          BY <1>6, <3>1, WriteSliceFacts, RingFacts DEF space
        <4> QED BY <4>1
      <3>3. failed >= 2
        BY <1>1, <3>1, <3>2 DEF WriterStalls
      <3> QED BY <1>6, <3>3
    <2>3. ASSUME result' = "buf" PROVE empty' \/ failed' >= 2
      <3>1. result = "buf" => empty \/ failed >= 2
        BY <1>1 DEF WriterStalls
      <3> QED BY <1>2, <1>6, <1>11, <2>2, <2>3, <3>1
    <2>4. cl' # "write"
      BY <1>11
    <2> QED BY <2>1, <2>3, <2>4 DEF WriterStalls
  <1> QED BY <1>1, <1>2, <1>12, <1>13, <1>14, <1>15, <1>16 DEF WriterInv
-----------------------------------------------------------------------------
(***************************************************************************)
(* The file as a reader sees it: cut somewhere, or with a unit behind it.  *)
(***************************************************************************)
Beginning(s, n) ==
    /\ Len(s) <= n + 3
    /\ \A i \in 1 .. Len(s) : s[i] = Followed(n)[i]

\* Its header is at the front, its end where it belongs and nowhere else.
Marked(s, n) ==
    /\ Len(s) >= 1 => s[1] = HeaderUnit
    /\ \A i \in 1 .. Len(s) : s[i] = EndUnit <=> i = n + 2
    /\ \A i \in 1 .. Len(s) : i > 1 /\ i <= n + 1 => s[i] = i - 1

LEMMA BeginningMarked ==
    ASSUME NEW n \in Nat, NEW s \in Seq(Int), Beginning(s, n)
    PROVE  Marked(s, n)
  <1> DEFINE F == Followed(n)
             A == Alone(n)
  <1>1. /\ A[1] = HeaderUnit /\ A[n + 2] = EndUnit
        /\ \A i \in 1 .. n : A[1 + i] = i
    BY AloneFacts
  <1>2. F[n + 3] = Junk /\ \A i \in 1 .. n + 2 : F[i] = A[i]
    BY FollowedFacts
  <1>3. Len(s) \in Nat /\ Len(s) <= n + 3 /\ \A i \in 1 .. Len(s) : s[i] = F[i]
    BY DEF Beginning
  <1> HIDE DEF F, A
  <1>4. F[1] = HeaderUnit /\ F[n + 2] = EndUnit
    BY <1>1, <1>2
  <1>5. ASSUME NEW i \in 1 .. n + 3, i > 1, i <= n + 1 PROVE F[i] = i - 1
    <2>1. i - 1 \in 1 .. n /\ 1 + (i - 1) = i /\ i \in 1 .. n + 2
      BY <1>5
    <2>2. A[1 + (i - 1)] = i - 1
      BY <1>1, <2>1
    <2> QED BY <1>2, <2>1, <2>2
  <1>6. ASSUME NEW i \in 1 .. n + 3 PROVE F[i] = EndUnit <=> i = n + 2
    <2>1. CASE i = 1
      BY <1>4, <2>1 DEF HeaderUnit, EndUnit
    <2>2. CASE i > 1 /\ i <= n + 1
      BY <1>5, <2>2 DEF EndUnit
    <2>3. CASE i = n + 2
      BY <1>4, <2>3
    <2>4. CASE i = n + 3
      BY <1>2, <2>4 DEF Junk, EndUnit
    <2> QED BY <2>1, <2>2, <2>3, <2>4
  <1>7. \A i \in 1 .. Len(s) : i \in 1 .. n + 3
    BY <1>3
  <1>8. Len(s) >= 1 => s[1] = HeaderUnit
    BY <1>3, <1>4
  <1>9. \A i \in 1 .. Len(s) : s[i] = EndUnit <=> i = n + 2
    BY <1>3, <1>6, <1>7
  <1>10. \A i \in 1 .. Len(s) : i > 1 /\ i <= n + 1 => s[i] = i - 1
    BY <1>3, <1>5, <1>7
  <1> QED BY <1>8, <1>9, <1>10 DEF Marked

LEMMA BeginningShorter ==
    ASSUME NEW n \in Nat, NEW s \in Seq(Int), NEW t \in Seq(Int),
           Beginning(s \o t, n)
    PROVE  Beginning(s, n)
  <1>1. Len(s \o t) = Len(s) + Len(t) /\ Len(s) \in Nat /\ Len(t) \in Nat
    BY CatType
  <1>2. \A i \in 1 .. Len(s) : (s \o t)[i] = s[i]
    BY CatAt
  <1>3. /\ Len(s \o t) <= n + 3
        /\ \A i \in 1 .. Len(s \o t) : (s \o t)[i] = Followed(n)[i]
    BY DEF Beginning
  <1>4. Len(s) <= n + 3
    BY <1>1, <1>3
  <1>5. ASSUME NEW i \in 1 .. Len(s) PROVE s[i] = Followed(n)[i]
    <2>1. i \in 1 .. Len(s \o t)
      BY <1>1
    <2> QED BY <1>2, <1>3, <2>1
  <1> QED BY <1>4, <1>5 DEF Beginning

\* A beginning of the right length is the file.
LEMMA BeginningWhole ==
    ASSUME NEW n \in Nat, NEW s \in Seq(Int), Beginning(s, n), Len(s) = n + 2
    PROVE  s = Alone(n)
  <1>1. Alone(n) \in Seq(Int) /\ Len(Alone(n)) = n + 2
    BY AloneFacts
  <1>2. \A i \in 1 .. n + 2 : Followed(n)[i] = Alone(n)[i]
    BY FollowedFacts
  <1>3. \A i \in 1 .. Len(s) : s[i] = Alone(n)[i]
    BY <1>2 DEF Beginning
  <1> QED BY <1>1, <1>3, SeqEqual

\* The file, and the file with a unit behind it, are beginnings.
LEMMA BeginningFiles ==
    ASSUME NEW n \in Nat
    PROVE  Beginning(Alone(n), n) /\ Beginning(Followed(n), n)
  <1>1. Len(Alone(n)) = n + 2
    BY AloneFacts
  <1>2. /\ Len(Followed(n)) = n + 3
        /\ \A i \in 1 .. n + 2 : Followed(n)[i] = Alone(n)[i]
    BY FollowedFacts
  <1> QED BY <1>1, <1>2 DEF Beginning

\* What follows the header is, up to the end, the data.
LEMMA BeginningData ==
    ASSUME NEW n \in Nat, NEW h \in Seq(Int), Len(h) = 1, NEW a \in Seq(Int),
           Beginning(h \o a, n), Len(a) <= n
    PROVE  /\ \A i \in 1 .. Len(a) : a[i] = i
           /\ IsPrefix(a, Units(n))
           /\ Len(a) = n => a = Units(n)
  <1>0. Len(a) \in Nat
    OBVIOUS
  <1>1. /\ h \o a \in Seq(Int) /\ Len(h \o a) = 1 + Len(a)
    BY CatType
  <1>2. Marked(h \o a, n)
    BY <1>1, BeginningMarked
  <1>3. \A i \in 1 .. Len(a) : (h \o a)[Len(h) + i] = a[i]
    BY CatAt
  <1>4. ASSUME NEW i \in 1 .. Len(a) PROVE a[i] = i
    <2> DEFINE k == Len(h) + i
    <2>1. k \in 1 .. Len(h \o a) /\ k > 1 /\ k <= n + 1 /\ k - 1 = i
      BY <1>0, <1>1
    <2>2. (h \o a)[k] = a[i]
      BY <1>3
    <2> HIDE DEF k
    <2>3. (h \o a)[k] = k - 1
      BY <1>2, <2>1 DEF Marked
    <2> QED BY <2>1, <2>2, <2>3
  <1>5. /\ Units(n) \in Seq(Int) /\ Len(Units(n)) = n
        /\ \A i \in 1 .. n : Units(n)[i] = i
    BY UnitsFacts
  <1>6. Len(a) = n => a = Units(n)
    BY <1>4, <1>5, SeqEqual
  <1>7. IsPrefix(a, Units(n))
    <2> DEFINE u == SubSeq(Units(n), 1, Len(a))
    <2>1. /\ u \in Seq(Int) /\ Len(u) = Len(a)
          /\ \A i \in 1 .. Len(a) : u[i] = Units(n)[i]
      <3>1. Len(a) \in 0 .. Len(Units(n))
        BY <1>0, <1>5
      <3> QED BY <1>5, <3>1, SubSeqProperties
    <2> HIDE DEF u
    <2>2. ASSUME NEW i \in 1 .. Len(a) PROVE a[i] = u[i]
      <3>1. i \in 1 .. n
        BY <1>0
      <3> QED BY <1>4, <1>5, <2>1, <3>1
    <2>3. a = u
      BY <2>1, <2>2, SeqEqual
    <2>4. SubSeq(a, 1, Len(a)) = a
      BY SplitAll
    <2> QED BY <1>5, <2>3, <2>4 DEF IsPrefix, u
  <1> QED BY <1>4, <1>6, <1>7
-----------------------------------------------------------------------------
(***************************************************************************)
(* A round of the decoder.                                                 *)
(***************************************************************************)
\* Its first unit and those that follow it.
LEMMA FirstAndRest ==
    ASSUME NEW s \in Seq(Int), NEW c \in 1 .. Len(s)
    PROVE  <<s[1]>> \o SubSeq(s, 2, c) = SubSeq(s, 1, c)
  <1> DEFINE h == <<s[1]>>
             t == SubSeq(s, 2, c)
             u == SubSeq(s, 1, c)
  <1>0. Len(s) \in Nat /\ c \in Nat /\ c >= 1 /\ c <= Len(s) /\ s[1] \in Int
    BY LenProperties, ElementOfSeq
  <1>1. h \in Seq(Int) /\ Len(h) = 1 /\ h[1] = s[1]
    BY <1>0
  <1>2. /\ t \in Seq(Int) /\ Len(t) = c - 1
        /\ \A i \in 1 .. c - 1 : t[i] = s[1 + i]
    BY <1>0, SubSeqProperties
  <1>3. u \in Seq(Int) /\ Len(u) = c /\ \A i \in 1 .. c : u[i] = s[i]
    BY <1>0, SubSeqProperties
  <1> HIDE DEF h, t, u
  <1>4. h \o t \in Seq(Int) /\ Len(h \o t) = c
    <2>1. h \o t \in Seq(Int) /\ Len(h \o t) = Len(h) + Len(t)
      BY <1>1, <1>2, CatType
    <2> QED BY <1>0, <1>1, <1>2, <2>1
  <1>5. /\ \A i \in 1 .. Len(h) : (h \o t)[i] = h[i]
        /\ \A i \in 1 .. Len(t) : (h \o t)[Len(h) + i] = t[i]
    BY <1>1, <1>2, CatAt
  <1>6. ASSUME NEW i \in 1 .. c PROVE (h \o t)[i] = u[i]
    <2>1. CASE i = 1
      <3>1. 1 \in 1 .. Len(h) /\ 1 \in 1 .. c
        BY <1>0, <1>1
      <3>2. (h \o t)[1] = s[1] /\ u[1] = s[1]
        BY <1>1, <1>3, <1>5, <3>1
      <3> QED BY <2>1, <3>2
    <2>2. CASE i # 1
      <3>1. i - 1 \in 1 .. c - 1 /\ 1 + (i - 1) = i
        BY <1>0, <2>2
      <3>2. (h \o t)[1 + (i - 1)] = s[1 + (i - 1)]
        BY <1>1, <1>2, <1>5, <3>1
      <3> QED BY <1>3, <3>1, <3>2
    <2> QED BY <2>1, <2>2
  <1>7. h \o t = u
    BY <1>3, <1>4, <1>6, SeqEqual
  <1> QED BY <1>7 DEF h, t, u

\* One more unit.
LEMMA OneMore ==
    ASSUME NEW s \in Seq(Int), NEW c \in 0 .. Len(s) - 1
    PROVE  SubSeq(s, 1, c) \o <<s[c + 1]>> = SubSeq(s, 1, c + 1)
  <1> DEFINE h == SubSeq(s, 1, c)
             t == <<s[c + 1]>>
             u == SubSeq(s, 1, c + 1)
  <1>0. /\ Len(s) \in Nat /\ c \in Nat /\ c + 1 <= Len(s)
        /\ s[c + 1] \in Int
    BY LenProperties, ElementOfSeq
  <1>1. h \in Seq(Int) /\ Len(h) = c /\ \A i \in 1 .. c : h[i] = s[i]
    BY <1>0, SubSeqProperties
  <1>2. t \in Seq(Int) /\ Len(t) = 1 /\ t[1] = s[c + 1]
    BY <1>0
  <1>3. u \in Seq(Int) /\ Len(u) = c + 1 /\ \A i \in 1 .. c + 1 : u[i] = s[i]
    BY <1>0, SubSeqProperties
  <1> HIDE DEF h, t, u
  <1>4. h \o t \in Seq(Int) /\ Len(h \o t) = c + 1
    BY <1>0, <1>1, <1>2, CatType
  <1>5. /\ \A i \in 1 .. Len(h) : (h \o t)[i] = h[i]
        /\ \A i \in 1 .. Len(t) : (h \o t)[Len(h) + i] = t[i]
    BY <1>1, <1>2, CatAt
  <1>6. ASSUME NEW i \in 1 .. c + 1 PROVE (h \o t)[i] = u[i]
    <2>1. CASE i = c + 1
      <3>1. 1 \in 1 .. Len(t)
        BY <1>2
      <3>2. (h \o t)[Len(h) + 1] = t[1]
        BY <1>5, <3>1
      <3> QED BY <1>0, <1>1, <1>2, <1>3, <2>1, <3>2
    <2>2. CASE i # c + 1
      <3>1. i \in 1 .. c
        BY <1>0, <2>2
      <3> QED BY <1>0, <1>1, <1>3, <1>5, <3>1
    <2> QED BY <2>1, <2>2
  <1>7. h \o t = u
    BY <1>3, <1>4, <1>6, SeqEqual
  <1> QED BY <1>7 DEF h, t, u

\* What has passed decoder y: the header, if it has been taken, what is ahead,
\* and the end unit, if it has been taken.
BegunOf(y) == IF y.skip = 0 THEN <<HeaderUnit>> ELSE <<>>
DoneOf(y) == IF y.ended THEN <<EndUnit>> ELSE <<>>
Passed(ahead, y) == (BegunOf(y) \o ahead) \o DoneOf(y)

LEMMA MarksType ==
    ASSUME NEW y
    PROVE  /\ BegunOf(y) \in Seq(Int) /\ DoneOf(y) \in Seq(Int)
           /\ y.skip = 0 => Len(BegunOf(y)) = 1
           /\ y.skip # 0 => BegunOf(y) = <<>>
           /\ y.ended => Len(DoneOf(y)) = 1
  BY DEF BegunOf, DoneOf, HeaderUnit, EndUnit

\* A decoder either has or has not taken the header.
HeaderFirst(ahead, y) ==
    /\ y.skip \in {0, 1}
    /\ y.skip = 1 => ahead = <<>> /\ ~y.ended
    /\ y.ended => y.held = <<>>

\* The decoder takes c units from q, and the end unit if it comes to its end.
Takes(a, y, q, a2, y2, took, c) ==
    /\ a \in Seq(Int) /\ q \in Seq(Int) /\ a2 \in Seq(Int)
    /\ ~y.ended /\ y2.ended \in BOOLEAN
    /\ c \in 0 .. Len(q) /\ \A i \in 1 .. c : q[i] # EndUnit
    /\ BegunOf(y2) \o a2 = (BegunOf(y) \o a) \o SubSeq(q, 1, c)
    /\ y2.ended => took = c + 1 /\ c < Len(q) /\ q[c + 1] = EndUnit
    /\ ~y2.ended => took = c

LEMMA HeaderTaken ==
    ASSUME NEW c \in Nat, NEW took \in Nat, c >= 1, took = c \/ took = c + 1
    PROVE  took >= 1 /\ 1 - Lesser(1, took) = 0
  BY DEF Lesser

LEMMA TakesUnits ==
    ASSUME NEW a \in Seq(Int), NEW y, HeaderFirst(a, y), ~y.ended,
           NEW q \in Seq(Int), Len(q) >= 1 /\ y.skip = 1 => q[1] = HeaderUnit,
           NEW a2 \in Seq(Int), NEW y2, NEW took \in 0 .. Len(q),
           NEW c \in 0 .. Len(q),
           y2.skip = y.skip - Lesser(y.skip, took), y2.ended \in BOOLEAN,
           y2.ended => /\ took = c + 1 /\ c < Len(q)
                       /\ q[c + 1] = EndUnit /\ y2.held = <<>>,
           ~y2.ended => took = c,
           \A i \in 1 .. c : q[i] # EndUnit,
           a2 = a \o SubSeq(q, y.skip + 1, c)
    PROVE  HeaderFirst(a2, y2) /\ Takes(a, y, q, a2, y2, took, c)
  <1>0. /\ Len(q) \in Nat /\ c \in Nat /\ c <= Len(q) /\ took \in Nat
        /\ y.skip \in {0, 1}
    BY LenProperties DEF HeaderFirst
  <1>1. CASE y.skip = 0
    <2>1. y2.skip = 0
      <3>1. Lesser(y.skip, took) = 0
        BY <1>0, <1>1 DEF Lesser
      <3> QED BY <1>1, <3>1
    <2>2. BegunOf(y) = <<HeaderUnit>> /\ BegunOf(y2) = <<HeaderUnit>>
      BY <1>1, <2>1 DEF BegunOf
    <2>3. SubSeq(q, 1, c) \in Seq(Int) /\ a2 = a \o SubSeq(q, 1, c)
      BY <1>0, <1>1, Split
    <2>4. BegunOf(y) \in Seq(Int)
      BY MarksType
    <2>5. (BegunOf(y) \o a) \o SubSeq(q, 1, c)
            = BegunOf(y) \o (a \o SubSeq(q, 1, c))
      BY <2>3, <2>4, Assoc, Zenon
    <2>6. BegunOf(y2) \o a2 = (BegunOf(y) \o a) \o SubSeq(q, 1, c)
      BY <2>2, <2>3, <2>5, Zenon
    <2>7. HeaderFirst(a2, y2)
      BY <2>1 DEF HeaderFirst
    <2> QED BY <2>6, <2>7 DEF Takes
  <1>2. CASE y.skip = 1
    <2>1. a = <<>> /\ BegunOf(y) = <<>>
      BY <1>2 DEF HeaderFirst, BegunOf
    <2>2. (BegunOf(y) \o a) \o SubSeq(q, 1, c) = SubSeq(q, 1, c)
      <3>1. SubSeq(q, 1, c) \in Seq(Int)
        BY <1>0, Split
      <3> QED BY <2>1, <3>1, CatEmpty
    <2>3. SubSeq(q, 2, c) \in Seq(Int) /\ a2 = SubSeq(q, 2, c)
      <3>1. SubSeq(q, 2, c) \in Seq(Int)
        BY <1>0, SubSeqProperties
      <3>2. a2 = a \o SubSeq(q, 2, c)
        BY <1>2
      <3> QED BY <2>1, <3>1, <3>2, CatEmpty
    <2>4. CASE c = 0
      <3>1. ~y2.ended
        <4>1. y2.ended => q[1] = EndUnit /\ Len(q) >= 1
          BY <1>0, <2>4
        <4>2. y2.ended => q[1] = HeaderUnit
          BY <1>2, <4>1, Zenon
        <4>3. HeaderUnit # EndUnit
          BY DEF HeaderUnit, EndUnit
        <4> QED BY <4>1, <4>2, <4>3, Zenon
      <3>2. took = 0
        BY <2>4, <3>1
      <3>3. y2.skip = 1
        BY <1>2, <3>2 DEF Lesser
      <3>4. SubSeq(q, 2, 0) = <<>> /\ SubSeq(q, 1, 0) = <<>>
        BY SubSeqEmpty
      <3>5. a2 = <<>> /\ BegunOf(y2) = <<>>
        <4>1. a2 = <<>>
          BY <2>3, <2>4, <3>4, Zenon
        <4>2. BegunOf(y2) = <<>>
          BY <3>3 DEF BegunOf
        <4> QED BY <4>1, <4>2
      <3>6. BegunOf(y2) \o a2 = SubSeq(q, 1, c)
        BY <2>4, <3>4, <3>5
      <3>7. HeaderFirst(a2, y2)
        BY <3>1, <3>3, <3>5 DEF HeaderFirst
      <3> QED BY <2>2, <3>1, <3>6, <3>7 DEF Takes
    <2>5. CASE c >= 1
      <3>0. took = c \/ took = c + 1
        BY Zenon
      <3>1. took >= 1 /\ 1 - Lesser(1, took) = 0
        BY <1>0, <2>5, <3>0, HeaderTaken
      <3>2. y2.skip = 0
        BY <1>2, <3>1, Zenon
      <3>3. BegunOf(y2) = <<q[1]>>
        BY <1>0, <1>2, <2>5, <3>2 DEF BegunOf
      <3>c. c \in 1 .. Len(q)
        BY <1>0, <2>5
      <3>4. <<q[1]>> \o SubSeq(q, 2, c) = SubSeq(q, 1, c)
        BY <3>c, FirstAndRest, Zenon
      <3>5. BegunOf(y2) \o a2 = (BegunOf(y) \o a) \o SubSeq(q, 1, c)
        BY <2>2, <2>3, <3>3, <3>4, Zenon
      <3>6. HeaderFirst(a2, y2)
        BY <3>2 DEF HeaderFirst
      <3> QED BY <3>5, <3>6 DEF Takes
    <2> QED BY <1>0, <2>4, <2>5
  <1> QED BY <1>0, <1>1, <1>2

\* What it has taken and what it has left are what there was.
Balanced(a, y, q, a2, y2, took) ==
    Passed(a2, y2) \o SubSeq(q, took + 1, Len(q)) = Passed(a, y) \o q

LEMMA TakesFlow ==
    ASSUME NEW a, NEW y, NEW q, NEW a2, NEW y2, NEW took, NEW c,
           Takes(a, y, q, a2, y2, took, c)
    PROVE  Balanced(a, y, q, a2, y2, took)
  <1> USE DEF Balanced
  <1>0. /\ a \in Seq(Int) /\ q \in Seq(Int) /\ a2 \in Seq(Int)
        /\ ~y.ended /\ y2.ended \in BOOLEAN
    BY DEF Takes
  <1>1. /\ c \in 0 .. Len(q) /\ c \in Nat /\ Len(q) \in Nat
        /\ BegunOf(y2) \o a2 = (BegunOf(y) \o a) \o SubSeq(q, 1, c)
        /\ y2.ended => took = c + 1 /\ c < Len(q) /\ q[c + 1] = EndUnit
        /\ ~y2.ended => took = c
    BY <1>0, LenProperties DEF Takes
  <1> DEFINE l == BegunOf(y) \o a
             f == SubSeq(q, 1, c)
  <1>2. l \in Seq(Int) /\ f \in Seq(Int)
    BY <1>0, <1>1, MarksType, CatType, Split
  <1>3. Passed(a, y) = l
    <2>1. DoneOf(y) = <<>>
      BY <1>0 DEF DoneOf
    <2> QED BY <1>2, <2>1, CatEmpty DEF Passed
  <1>4. Passed(a2, y2) = (l \o f) \o DoneOf(y2)
    BY <1>1 DEF Passed
  <1>5. l \o f \in Seq(Int)
    BY <1>2, CatType
  <1> HIDE DEF l
  <1>6. CASE ~y2.ended
    <2> DEFINE g == SubSeq(q, c + 1, Len(q))
    <2>1. g \in Seq(Int) /\ f \o g = q
      BY <1>0, <1>1, Split
    <2>2. Passed(a2, y2) = l \o f /\ took = c
      <3>1. DoneOf(y2) = <<>>
        BY <1>6 DEF DoneOf
      <3> QED BY <1>1, <1>4, <1>5, <1>6, <3>1, CatEmpty
    <2> HIDE DEF f, g
    <2>3. (l \o f) \o g = l \o (f \o g)
      <3>1. l \in Seq(Int) /\ f \in Seq(Int) /\ g \in Seq(Int)
        BY <1>2, <2>1
      <3>2. Regrouped(l, f, g)
        BY <3>1, Regroup
      <3> QED BY <3>2 DEF Regrouped
    <2> QED BY <1>3, <2>1, <2>2, <2>3, Zenon DEF g
  <1>7. CASE y2.ended
    <2> DEFINE e == <<EndUnit>>
               g == SubSeq(q, (c + 1) + 1, Len(q))
               m == SubSeq(q, 1, c + 1)
    <2>1. c + 1 \in 0 .. Len(q) /\ c \in 0 .. Len(q) - 1
      BY <1>1, <1>7
    <2>2. g \in Seq(Int) /\ m \in Seq(Int) /\ m \o g = q
      BY <1>0, <2>1, Split
    <2>3. f \o e = m /\ e \in Seq(Int)
      <3>1. q[c + 1] = EndUnit
        BY <1>1, <1>7
      <3>2. f \o <<q[c + 1]>> = m
        BY <1>0, <2>1, OneMore
      <3>3. <<EndUnit>> \in Seq(Int)
        BY DEF EndUnit
      <3> QED BY <3>1, <3>2, <3>3, Zenon
    <2>4. Passed(a2, y2) = (l \o f) \o e /\ took = c + 1
      <3>1. DoneOf(y2) = e
        BY <1>7 DEF DoneOf
      <3> QED BY <1>1, <1>4, <1>7, <3>1
    <2> HIDE DEF f, g, m, e
    <2>s. /\ l \in Seq(Int) /\ f \in Seq(Int) /\ e \in Seq(Int)
          /\ m \in Seq(Int) /\ g \in Seq(Int)
      BY <1>2, <2>2, <2>3
    <2>5. (l \o f) \o e = l \o m
      <3>1. (l \o f) \o e = l \o (f \o e)
        <4>1. Regrouped(l, f, e)
          BY <2>s, Regroup
        <4> QED BY <4>1 DEF Regrouped
      <3> QED BY <2>3, <3>1, Zenon
    <2>6. (l \o m) \o g = l \o (m \o g)
      <3>1. Regrouped(l, m, g)
        BY <2>s, Regroup
      <3> QED BY <3>1 DEF Regrouped
    <2>7. ((l \o f) \o e) \o g = l \o q
      BY <2>2, <2>5, <2>6, Zenon
    <2> QED BY <1>3, <2>4, <2>7, Zenon DEF g
  <1> QED BY <1>0, <1>6, <1>7

\* What is ahead of the decoder never goes past the data of the file.
LEMMA TakesWithin ==
    ASSUME NEW n \in Nat, NEW a \in Seq(Int), NEW y, HeaderFirst(a, y),
           NEW q \in Seq(Int), NEW a2 \in Seq(Int), NEW y2,
           HeaderFirst(a2, y2), NEW took, NEW c,
           Takes(a, y, q, a2, y2, took, c), Len(a) <= n,
           Beginning(Passed(a2, y2), n)
    PROVE  Len(a2) <= n /\ (y2.ended => Len(a2) = n)
  <1> DEFINE l == BegunOf(y) \o a
             f == SubSeq(q, 1, c)
             l2 == BegunOf(y2) \o a2
             e == DoneOf(y2)
  <1>1. /\ c \in 0 .. Len(q) /\ c \in Nat /\ Len(q) \in Nat
        /\ \A i \in 1 .. c : q[i] # EndUnit
        /\ l2 = l \o f
    BY LenProperties DEF Takes
  <1>2. /\ l \in Seq(Int) /\ l2 \in Seq(Int) /\ e \in Seq(Int)
        /\ Len(l) = Len(BegunOf(y)) + Len(a)
        /\ Len(l2) = Len(BegunOf(y2)) + Len(a2)
        /\ Len(a) \in Nat /\ Len(a2) \in Nat
    BY MarksType, CatType, LenProperties
  <1>3. /\ f \in Seq(Int) /\ Len(f) = c /\ \A i \in 1 .. c : f[i] = q[i]
    BY <1>1, SubSeqProperties
  <1>4. Passed(a2, y2) = l2 \o e
    BY DEF Passed
  <1> HIDE DEF l, l2, e, f
  <1>5. Beginning(l2, n) /\ l2 \o e \in Seq(Int)
    BY <1>2, <1>4, BeginningShorter, CatType
  <1>6. Marked(l2, n) /\ Marked(l2 \o e, n)
    BY <1>2, <1>4, <1>5, BeginningMarked
  <1>7. y2.skip \in {0, 1} /\ y.skip \in {0, 1}
    BY DEF HeaderFirst
  <1>8. CASE y2.skip = 1
    BY <1>8 DEF HeaderFirst
  <1>9. CASE y2.skip = 0
    <2>1. Len(l2) = 1 + Len(a2)
      BY <1>2, <1>9, MarksType
    <2>2. ASSUME y2.ended PROVE Len(a2) = n
      <3> DEFINE k == Len(l2) + 1
      <3>1. e = <<EndUnit>> /\ Len(e) = 1 /\ e[1] = EndUnit
        BY <2>2 DEF e, DoneOf
      <3>2. Len(l2 \o e) = Len(l2) + 1
        BY <1>2, <3>1, CatType
      <3>3. (l2 \o e)[Len(l2) + 1] = EndUnit
        <4>1. 1 \in 1 .. Len(e)
          BY <3>1
        <4>2. \A i \in 1 .. Len(e) : (l2 \o e)[Len(l2) + i] = e[i]
          BY <1>2, CatAt
        <4>3. (l2 \o e)[Len(l2) + 1] = e[1]
          BY <4>1, <4>2, Zenon
        <4> QED BY <3>1, <4>3, Zenon
      <3>4. k \in 1 .. Len(l2 \o e)
        BY <1>2, <2>1, <3>2
      <3>5. (l2 \o e)[k] = EndUnit
        BY <3>3
      <3> HIDE DEF k
      <3>6. k = n + 2
        BY <1>6, <3>4, <3>5 DEF Marked
      <3> QED BY <1>2, <2>1, <3>6 DEF k
    <2>3. ASSUME Len(a2) > n PROVE FALSE
      <3> DEFINE k == (n + 2) - Len(l)
      <3>1. Len(l) \in Nat /\ Len(l) <= n + 1
        <4>1. y.skip = 0 => Len(l) = 1 + Len(a)
          BY <1>2, MarksType
        <4>2. y.skip = 1 => Len(l) = Len(a)
          <5>1. y.skip = 1 => BegunOf(y) = <<>>
            BY DEF BegunOf
          <5>2. Len(<<>>) = 0
            OBVIOUS
          <5>3. y.skip = 1 => Len(l) = 0 + Len(a)
            BY <1>2, <5>1, <5>2, Zenon
          <5> QED BY <1>2, <5>3
        <4> QED BY <1>2, <1>7, <4>1, <4>2
      <3>2. Len(l2) = Len(l) + c
        BY <1>1, <1>2, <1>3, CatType
      <3>3. k \in 1 .. c /\ Len(l) + k = n + 2 /\ n + 2 \in 1 .. Len(l2)
        BY <1>1, <1>2, <2>1, <2>3, <3>1, <3>2
      <3> HIDE DEF k
      <3>4. l2[n + 2] = EndUnit
        BY <1>6, <3>3 DEF Marked
      <3>5. (l \o f)[Len(l) + k] = f[k]
        BY <1>2, <1>3, <3>3, CatAt
      <3>6. f[k] # EndUnit
        BY <1>1, <1>3, <3>3
      <3> QED BY <1>1, <3>3, <3>4, <3>5, <3>6
    <2> QED BY <1>2, <2>2, <2>3
  <1> QED BY <1>7, <1>8, <1>9

\* A round of the decoder, in terms of what has passed it.
DecodesOn(a, y, q, a2, y2, took, left) ==
    /\ a2 \in Seq(Int) /\ HeaderFirst(a2, y2)
    /\ Passed(a2, y2) \o left = Passed(a, y) \o q
    /\ y.ended => y2.ended /\ a2 = a /\ ~y2.stalled
    /\ ~y.ended => \E c : Takes(a, y, q, a2, y2, took, c)

LEMMA DecodesFlow ==
    ASSUME NEW D \in Seq(Int), NEW in, IsRing(in),
           NEW y, IsCoder(y), NEW b, IsRing(b), NEW rm, NEW d, NEW w,
           DecodeRound(D, in, y, b, rm, d, w),
           y.ended => AfterEnd(D, y, b, d, w),
           ~y.ended => UpToEnd(D, in, y, b, d, w),
           NEW a, a = (D \o b.q) \o y.held, HeaderFirst(a, y),
           Len(in.q) >= 1 /\ y.skip = 1 => in.q[1] = HeaderUnit,
           NEW a2, a2 = ((D \o w.put) \o w.rest.q) \o d.z.held
    PROVE  DecodesOn(a, y, in.q, a2, d.z, d.took, ReadMark(in, d.took).q)
  <1> DEFINE q == in.q
             left == ReadMark(in, d.took).q
  <1>1. /\ q \in Seq(Int) /\ b.q \in Seq(Int) /\ y.held \in Seq(Int)
        /\ y.skip \in Nat /\ y.ended \in BOOLEAN
    BY RingFacts, CoderFacts
  <1>2. /\ IsCoder(d.z) /\ d.z.skip = y.skip - Lesser(y.skip, d.took)
        /\ IsRing(w.rest) /\ w.put \in Seq(Int) /\ d.took \in 0 .. Len(q)
        /\ left = SubSeq(q, d.took + 1, Len(q))
    BY DEF DecodeRound
  <1>3. /\ w.rest.q \in Seq(Int) /\ d.z.held \in Seq(Int)
        /\ d.z.ended \in BOOLEAN
    BY <1>2, RingFacts, CoderFacts
  <1>4. a \in Seq(Int)
    <2>1. D \o b.q \in Seq(Int)
      BY <1>1, CatType
    <2> QED BY <1>1, <2>1, CatType
  <1>5. a2 \in Seq(Int)
    <2>1. D \o w.put \in Seq(Int)
      BY <1>2, CatType
    <2>2. (D \o w.put) \o w.rest.q \in Seq(Int)
      BY <1>3, <2>1, CatType
    <2> QED BY <1>3, <2>2, CatType
  <1>6. CASE y.ended
    <2>1. /\ d.z.ended /\ d.took = 0 /\ d.z.held = <<>> /\ ~d.z.stalled
          /\ (D \o w.put) \o w.rest.q = D \o b.q
      BY <1>6 DEF AfterEnd
    <2>2. y.held = <<>> /\ y.skip = 0
      BY <1>6 DEF HeaderFirst
    <2>3. a2 = a
      BY <2>1, <2>2
    <2>4. d.z.skip = 0
      <3>1. Lesser(y.skip, d.took) = 0
        BY <2>1, <2>2 DEF Lesser
      <3> QED BY <1>2, <2>2, <3>1
    <2>5. Passed(a2, d.z) = Passed(a, y)
      BY <1>6, <2>1, <2>2, <2>3, <2>4 DEF Passed, BegunOf, DoneOf
    <2>6. left = q
      BY <1>1, <1>2, <2>1, SplitAll
    <2>7. HeaderFirst(a2, d.z)
      BY <2>1, <2>4 DEF HeaderFirst
    <2> HIDE DEF q, left
    <2>8. Passed(a2, d.z) \o left = Passed(a, y) \o q
      BY <2>5, <2>6
    <2> QED BY <1>5, <1>6, <2>1, <2>3, <2>7, <2>8 DEF DecodesOn, q, left
  <1>7. CASE ~y.ended
    <2>1. PICK c \in 0 .. Len(q) :
            /\ d.z.ended => /\ d.took = c + 1 /\ c < Len(q)
                            /\ q[c + 1] = EndUnit /\ d.z.held = <<>>
            /\ ~d.z.ended => d.took = c
            /\ \A i \in 1 .. c : q[i] # EndUnit
            /\ a2 = a \o SubSeq(q, y.skip + 1, c)
      BY <1>7 DEF UpToEnd
    <2>2. HeaderFirst(a2, d.z) /\ Takes(a, y, q, a2, d.z, d.took, c)
      <3> HIDE DEF q
      <3>1. Len(q) >= 1 /\ y.skip = 1 => q[1] = HeaderUnit
        BY DEF q
      <3> QED BY <1>1, <1>2, <1>3, <1>4, <1>5, <1>7, <2>1, <3>1, TakesUnits
    <2> HIDE DEF q, left
    <2>3. Passed(a2, d.z) \o left = Passed(a, y) \o q
      <3>1. Passed(a2, d.z) \o SubSeq(q, d.took + 1, Len(q))
              = Passed(a, y) \o q
        <4>1. Balanced(a, y, q, a2, d.z, d.took)
          BY <2>2, TakesFlow
        <4> QED BY <4>1 DEF Balanced
      <3> QED BY <1>2, <3>1, Zenon
    <2> QED BY <1>5, <1>7, <2>2, <2>3 DEF DecodesOn, q, left
  <1> QED BY <1>1, <1>6, <1>7

LEMMA PassedFacts ==
    ASSUME NEW a \in Seq(Int), NEW y, HeaderFirst(a, y), y.ended \in BOOLEAN
    PROVE  /\ Passed(a, y) \in Seq(Int) /\ Len(Passed(a, y)) \in Nat
           /\ y.ended => Len(Passed(a, y)) = Len(a) + 2
           /\ ~y.ended => Len(Passed(a, y)) <= Len(a) + 1
           /\ y.skip = 1 => Passed(a, y) = <<>>
  <1> DEFINE h == BegunOf(y)
             e == DoneOf(y)
  <1>1. /\ h \in Seq(Int) /\ e \in Seq(Int) /\ Len(a) \in Nat
        /\ y.skip = 0 => Len(h) = 1
        /\ y.skip # 0 => h = <<>>
        /\ y.ended => Len(e) = 1
    BY MarksType, LenProperties
  <1>2. ~y.ended => e = <<>>
    BY DEF DoneOf
  <1>3. y.skip \in {0, 1} /\ (y.skip = 1 => a = <<>> /\ ~y.ended)
    BY DEF HeaderFirst
  <1>4. Passed(a, y) = (h \o a) \o e
    BY DEF Passed
  <1> HIDE DEF h, e
  <1>5. h \o a \in Seq(Int) /\ Len(h \o a) = Len(h) + Len(a)
    BY <1>1, CatType
  <1>6. (h \o a) \o e \in Seq(Int) /\ Len((h \o a) \o e) = Len(h \o a) + Len(e)
    BY <1>1, <1>5, CatType
  <1>7. Len(<<>>) = 0
    OBVIOUS
  <1>8. ASSUME y.skip = 1 PROVE (h \o a) \o e = <<>>
    <2>1. h = <<>> /\ a = <<>> /\ e = <<>>
      BY <1>1, <1>2, <1>3, <1>8
    <2> QED BY <2>1, CatEmpty
  <1>9. Len(h) \in 0 .. 1 /\ (y.ended => Len(h) = 1)
    <2>1. CASE y.skip = 0
      BY <1>1, <2>1
    <2>2. CASE y.skip = 1
      <3>1. h = <<>> /\ ~y.ended
        BY <1>1, <1>3, <2>2
      <3>2. Len(h) = 0
        BY <1>7, <3>1, Zenon
      <3> QED BY <3>1, <3>2
    <2> QED BY <1>3, <2>1, <2>2
  <1>10. ~y.ended => Len(e) = 0
    BY <1>2, <1>7, Zenon
  <1>l. /\ Len((h \o a) \o e) = (Len(h) + Len(a)) + Len(e)
        /\ Len(a) \in Nat /\ Len(h) \in 0 .. 1
    BY <1>1, <1>5, <1>6, <1>9, Zenon
  <1> DEFINE k == Len((h \o a) \o e)
             n == Len(a)
             m == Len(h)
             o == Len(e)
  <1>n. /\ k = (m + n) + o /\ n \in Nat /\ m \in 0 .. 1
        /\ y.ended => m = 1 /\ o = 1
        /\ ~y.ended => o = 0
    BY <1>1, <1>l, <1>9, <1>10, Zenon
  <1> HIDE DEF k, n, m, o
  <1>11. (y.ended => k = n + 2) /\ (~y.ended => k <= n + 1)
    BY <1>n
  <1>12. /\ y.ended => Len((h \o a) \o e) = Len(a) + 2
         /\ ~y.ended => Len((h \o a) \o e) <= Len(a) + 1
    BY <1>11 DEF k, n
  <1>13. Len((h \o a) \o e) \in Nat
    BY <1>6, LenProperties
  <1> QED BY <1>4, <1>6, <1>8, <1>11, <1>12, <1>13
-----------------------------------------------------------------------------
(***************************************************************************)
(* The reader.                                                             *)
(***************************************************************************)
\* All that the file held, but for a unit behind it that was looked for.
All == (Passed(Ahead, z) \o inBuf.q) \o src

\* What has been read is the beginning of the file.
ReaderFlow ==
    /\ Straight(inBuf) /\ HeaderFirst(Ahead, z)
    /\ Len(Ahead) <= accepted
    /\ z.ended => Len(Ahead) = accepted
    /\ Beginning(All, accepted)

\* A file that reaches to its end comes from a writer that was closed without
\* an error; one without a unit behind it is intact, or had one.
ReaderFile ==
    /\ Len(All) >= accepted + 2 => outcome = "ok"
    /\ Len(All) = accepted + 2 => intact \/ told
    /\ intact => All = Alone(accepted)

\* While Read runs: the end of the source and an error wait for inBuf, and only
\* an empty slice finds outBuf in the way.
ReaderCall ==
    cl = "read" =>
      /\ rdErr = "EOF" => src = <<>>
      /\ rdErr # "nil" => inBuf.q # <<>>
      /\ outBuf.q # <<>> /\ room = 0 => empty

\* Why a decoder of an intact file made no progress.
ReaderStalls ==
    /\ z.stalled /\ Len(outBuf.q) = outBuf.size => empty
    /\ intact /\ z.stalled /\ inBuf.q = <<>> => failed >= 1

ReaderInv ==
    /\ TypeOK /\ role = "reader"
    /\ ReaderFlow /\ ReaderFile /\ ReaderCall /\ ReaderStalls
    /\ EOFMeansIntact /\ ErrorsExplained

\* What Read makes of it, and of what is behind the end.
ReportStep(v, left, rest, fails, r) ==
    /\ r.fail \in {0, 1} /\ (r.fail = 1 => fails)
    /\ \/ r.rest = rest
       \/ /\ v = "STREAM_END" /\ left = <<>> /\ rest # <<>>
          /\ r.rest = SubSeq(rest, 2, Len(rest)) /\ r.result = "data"
    /\ v # "more" =>
         r.result \in {"ok", "EOF", "cut", "data", "buf", "sink", "err"}
    /\ r.result = "EOF" => v = "STREAM_END" /\ left = <<>> /\ rest = <<>>
    /\ r.result = "data" => /\ v = "STREAM_END"
                            /\ left # <<>> \/ rest # <<>> \/ r.fail = 1
    /\ r.result = "cut" => v = "EOF"
    /\ r.result = "buf" => v = "BUF_ERROR"

LEMMA ReportFacts ==
    ASSUME NEW v \in Verdicts, NEW left \in Seq(Int), NEW rest \in Seq(Int),
           NEW fails \in BOOLEAN, NEW r \in Reports(v, left, rest, fails)
    PROVE  ReportStep(v, left, rest, fails, r)
  <1>1. CASE v # "STREAM_END"
    <2>1. r = [result |-> CASE v = "short" -> "ok"
                            [] v = "EOF" -> "cut"
                            [] v = "BUF_ERROR" -> "buf"
                            [] OTHER -> v,
               rest |-> rest, fail |-> 0]
      BY <1>1 DEF Reports
    <2>2. r.fail = 0 /\ r.rest = rest
      BY <2>1
    <2>3. \/ v = "short" /\ r.result = "ok"
          \/ v = "EOF" /\ r.result = "cut"
          \/ v = "BUF_ERROR" /\ r.result = "buf"
          \/ v \in {"more", "err"} /\ r.result = v
      BY <1>1, <2>1 DEF Verdicts
    <2> QED BY <1>1, <2>2, <2>3 DEF ReportStep
  <1>2. CASE v = "STREAM_END" /\ left # <<>>
    <2>1. r = [result |-> "data", rest |-> rest, fail |-> 0]
      BY <1>2 DEF Reports, AllConsumed
    <2> QED BY <1>2, <2>1 DEF ReportStep
  <1>3. CASE v = "STREAM_END" /\ left = <<>>
    <2>1. r \in Probes(rest, fails)
      BY <1>3 DEF Reports, AllConsumed
    <2>2. CASE r = [result |-> IF rest = <<>> THEN "EOF" ELSE "data",
                    rest |-> SubSeq(rest, 2, Len(rest)), fail |-> 0]
      <3>1. r.fail = 0 /\ r.rest = SubSeq(rest, 2, Len(rest))
        BY <2>2
      <3>2. r.result = IF rest = <<>> THEN "EOF" ELSE "data"
        BY <2>2
      <3>3. CASE rest = <<>>
        <4>1. Len(rest) = 0
          BY <3>3
        <4>2. SubSeq(rest, 2, Len(rest)) = <<>>
          BY <4>1, SubSeqEmpty
        <4>3. r.rest = rest /\ r.result = "EOF"
          BY <3>1, <3>2, <3>3, <4>2
        <4> QED BY <1>3, <3>1, <3>3, <4>3 DEF ReportStep
      <3>4. CASE rest # <<>>
        BY <1>3, <3>1, <3>2, <3>4 DEF ReportStep
      <3> QED BY <3>3, <3>4
    <2>3. CASE r \in [result : {"data"}, rest : {rest},
                      fail : IF fails THEN {1} ELSE {}]
      <3>1. r.result = "data" /\ r.rest = rest /\ r.fail = 1 /\ fails
        BY <2>3
      <3> QED BY <1>3, <3>1 DEF ReportStep
    <2> QED BY <2>1, <2>2, <2>3 DEF Probes
  <1> QED BY <1>1, <1>2, <1>3

\* processRead: a read from the source, a round of the decoder, a report.
ReadStepOf(f, d, w, r) ==
    LET in == WriteMark(inBuf, SubSeq(src, 1, f.n))
        rest == SubSeq(src, f.n + 1, Len(src))
        left == ReadMark(in, d.took)
        v == Verdict(w.err,
                     Ignored(d.ret, ReadSlice(in) # <<>>, WriteSlice(outBuf)),
                     f.err, w.rest, left)
        fails == IF f.err = "err" /\ rdErr = "nil" THEN failed + 1 ELSE failed
    IN  /\ f \in Fetches(inBuf, rdErr, src, failed < Failures)
        /\ d \in Decoded(z, ReadSlice(in), WriteSlice(outBuf))
        /\ w = Delivered(WriteMark(outBuf, d.put), room)
        /\ r \in Reports(v, left.q, rest, fails < Failures)
        /\ Settle(in, d, w)
        /\ room' = room - Len(w.put)
        /\ rdErr' = f.err
        /\ src' = r.rest
        /\ failed' = fails + r.fail
        /\ IF v = "more" THEN UNCHANGED <<cl, result>> ELSE Returns(r.result)

LEMMA ReadRounds ==
    ASSUME processRead
    PROVE  \E f, d, w, r : ReadStepOf(f, d, w, r)
  <1> DEFINE In(f) == WriteMark(inBuf, SubSeq(src, 1, f.n))
             Rest(f) == SubSeq(src, f.n + 1, Len(src))
             Left(f, d) == ReadMark(In(f), d.took)
             W(d) == Delivered(WriteMark(outBuf, d.put), room)
             V(f, d) ==
               Verdict(W(d).err,
                       Ignored(d.ret, ReadSlice(In(f)) # <<>>,
                               WriteSlice(outBuf)),
                       f.err, W(d).rest, Left(f, d))
             Fails(f) ==
               IF f.err = "err" /\ rdErr = "nil" THEN failed + 1 ELSE failed
             Body(f, d, r) ==
               /\ Settle(In(f), d, W(d))
               /\ room' = room - Len(W(d).put)
               /\ rdErr' = f.err
               /\ src' = r.rest
               /\ failed' = Fails(f) + r.fail
               /\ IF V(f, d) = "more" THEN UNCHANGED <<cl, result>>
                                      ELSE Returns(r.result)
  <1>1. \E f \in Fetches(inBuf, rdErr, src, failed < Failures) :
          \E d \in Decoded(z, ReadSlice(In(f)), WriteSlice(outBuf)) :
            \E r \in Reports(V(f, d), Left(f, d).q, Rest(f),
                             Fails(f) < Failures) :
              Body(f, d, r)
    BY Zenon DEF processRead
  <1> HIDE DEF Body
  <1>2. PICK f \in Fetches(inBuf, rdErr, src, failed < Failures) :
          \E d \in Decoded(z, ReadSlice(In(f)), WriteSlice(outBuf)) :
            \E r \in Reports(V(f, d), Left(f, d).q, Rest(f),
                             Fails(f) < Failures) :
              Body(f, d, r)
    BY <1>1, Zenon
  <1>3. PICK d \in Decoded(z, ReadSlice(In(f)), WriteSlice(outBuf)) :
          \E r \in Reports(V(f, d), Left(f, d).q, Rest(f),
                           Fails(f) < Failures) :
            Body(f, d, r)
    BY <1>2, Zenon
  <1>4. PICK r \in Reports(V(f, d), Left(f, d).q, Rest(f),
                          Fails(f) < Failures) :
          Body(f, d, r)
    BY <1>3, Zenon
  <1>5. ReadStepOf(f, d, W(d), r)
    BY <1>2, <1>3, <1>4, Zenon DEF ReadStepOf, Body
  <1> QED BY <1>5, Zenon

InOf(f) == WriteMark(inBuf, SubSeq(src, 1, f.n))
RestOf(f) == SubSeq(src, f.n + 1, Len(src))
RetOf(f, d) == Ignored(d.ret, InOf(f).q # <<>>, WriteSlice(outBuf))
FailsOf(f) == IF f.err = "err" /\ rdErr = "nil" THEN failed + 1 ELSE failed
VerdictOf(f, d, w) == Verdict(w.err, RetOf(f, d), f.err, outBuf', inBuf')

\* The read: what it found is what there was, and the end is the end.
ReadFetched(f) ==
    /\ f.n \in 0 .. Len(src) /\ f.err \in RdErrs
    /\ inBuf.q # <<>> \/ rdErr # "nil" => f.n = 0 /\ f.err = rdErr
    /\ inBuf.q = <<>> /\ rdErr = "nil" =>
         /\ f.err = "nil" => f.n >= 1
         /\ f.err = "EOF" => f.n = Len(src)
         /\ f.err = "err" => failed < Failures
    /\ IsRing(InOf(f)) /\ Straight(InOf(f))
    /\ InOf(f).q = <<>> => inBuf.q = <<>> /\ f.n = 0
    /\ RestOf(f) \in Seq(Int)
    /\ InOf(f).q \o RestOf(f) = inBuf.q \o src
    /\ f.err = "EOF" => RestOf(f) = <<>>

LEMMA ReadFetches ==
    ASSUME ReaderInv, cl = "read", NEW f,
           f \in Fetches(inBuf, rdErr, src, failed < Failures)
    PROVE  ReadFetched(f)
  <1>1. /\ IsRing(inBuf) /\ Straight(inBuf) /\ src \in Seq(Int)
        /\ rdErr \in RdErrs /\ inBuf.q \in Seq(Int) /\ Len(src) \in Nat
    BY TypeFacts DEF ReaderInv, TypeOK, ReaderFlow, RdErrs
  <1>2. (failed < Failures) \in BOOLEAN
    OBVIOUS
  <1>3. /\ f.n \in 0 .. Len(src) /\ f.err \in RdErrs
        /\ inBuf.q # <<>> \/ rdErr # "nil" => f.n = 0 /\ f.err = rdErr
        /\ inBuf.q = <<>> /\ rdErr = "nil" =>
             /\ f.err = "nil" => f.n >= 1
             /\ f.err = "EOF" => f.n = Len(src)
             /\ f.err = "err" => failed < Failures
    <2>1. FetchStep(inBuf, rdErr, src, failed < Failures, f)
      BY <1>1, <1>2, FetchFacts
    <2> QED BY <2>1 DEF FetchStep
  <1>4. /\ IsRing(InOf(f)) /\ Straight(InOf(f))
        /\ InOf(f).q = inBuf.q \o SubSeq(src, 1, f.n)
        /\ RestOf(f) \in Seq(Int)
        /\ InOf(f).q \o RestOf(f) = inBuf.q \o src
    BY <1>1, <1>2, Fetched DEF InOf, RestOf
  <1>5. ASSUME InOf(f).q = <<>> PROVE inBuf.q = <<>> /\ f.n = 0
    <2> DEFINE s == SubSeq(src, 1, f.n)
               k == Len(inBuf.q)
    <2>1. s \in Seq(Int) /\ Len(s) = f.n
      BY <1>1, <1>3, Split
    <2> HIDE DEF s
    <2>2. Len(inBuf.q \o s) = Len(inBuf.q) + Len(s)
      BY <1>1, <2>1, CatType
    <2>3. inBuf.q \o s = <<>>
      BY <1>4, <1>5 DEF s
    <2>4. k \in Nat /\ f.n \in Nat /\ k + f.n = 0
      <3>1. Len(inBuf.q \o s) = 0
        BY <2>3
      <3>2. k + f.n = 0
        BY <2>1, <2>2, <3>1
      <3> QED BY <1>1, <1>3, <3>2
    <2>5. k = 0 /\ f.n = 0
      <3> HIDE DEF k
      <3> QED BY <2>4
    <2> QED BY <1>1, <2>5, EmptySeq
  <1>6. ASSUME f.err = "EOF" PROVE RestOf(f) = <<>>
    <2>1. CASE inBuf.q = <<>> /\ rdErr = "nil"
      <3>1. f.n = Len(src)
        BY <1>3, <1>6, <2>1
      <3> QED BY <1>1, <3>1, SplitAll DEF RestOf
    <2>2. CASE ~(inBuf.q = <<>> /\ rdErr = "nil")
      <3>1. f.n = 0 /\ rdErr = "EOF"
        BY <1>3, <1>6, <2>2
      <3>2. src = <<>>
        BY <3>1 DEF ReaderInv, ReaderCall
      <3>3. Len(src) = 0
        BY <3>2
      <3> QED BY <1>1, <3>1, <3>3, SplitAll DEF RestOf
    <2> QED BY <2>1, <2>2
  <1> QED BY <1>3, <1>4, <1>5, <1>6 DEF ReadFetched

\* What is ahead of the decoder, and all the file.
LEMMA AheadFacts ==
    ASSUME TypeOK
    PROVE  Ahead \in Seq(Int) /\ z.ended \in BOOLEAN
  <1>1. dst \in Seq(Int) /\ outBuf.q \in Seq(Int) /\ z.held \in Seq(Int)
    BY TypeFacts
  <1>2. dst \o outBuf.q \in Seq(Int)
    BY <1>1, CatType
  <1>3. z.ended \in BOOLEAN
    BY CoderFacts DEF TypeOK
  <1> QED BY <1>1, <1>2, <1>3, CatType DEF Ahead

\* The decoder finds the header first.
LEMMA HeaderFound ==
    ASSUME ReaderInv, NEW f, ReadFetched(f), z.skip = 1,
           Len(InOf(f).q) >= 1
    PROVE  InOf(f).q[1] = HeaderUnit
  <1> DEFINE q == InOf(f).q
             t == RestOf(f)
             s == q \o t
  <1>1. /\ accepted \in Nat /\ inBuf.q \in Seq(Int) /\ src \in Seq(Int)
        /\ Ahead \in Seq(Int) /\ z.ended \in BOOLEAN
    BY TypeFacts, AheadFacts DEF ReaderInv
  <1>2. Passed(Ahead, z) = <<>>
    BY <1>1, PassedFacts DEF ReaderInv, ReaderFlow
  <1>3. q \in Seq(Int) /\ t \in Seq(Int) /\ q \o t = inBuf.q \o src
    BY RingFacts DEF ReadFetched
  <1>4. Beginning(All, accepted)
    BY DEF ReaderInv, ReaderFlow
  <1>5. All = inBuf.q \o src
    <2>1. <<>> \o inBuf.q = inBuf.q
      BY <1>1, CatEmpty
    <2> QED BY <1>2, <2>1 DEF All
  <1>6. s \in Seq(Int) /\ Len(s) = Len(q) + Len(t) /\ Len(q) \in Nat
        /\ Len(t) \in Nat
    BY <1>3, CatType, LenProperties
  <1> HIDE DEF q, t
  <1>7. Beginning(s, accepted)
    BY <1>3, <1>4, <1>5
  <1>8. Len(q) >= 1
    BY DEF q
  <1>9. s[1] = q[1]
    <2>1. 1 \in 1 .. Len(q)
      BY <1>6, <1>8
    <2> QED BY <1>3, <2>1, CatAt
  <1>10. Marked(s, accepted)
    BY <1>1, <1>6, <1>7, BeginningMarked
  <1>11. Len(s) >= 1
    BY <1>6, <1>8
  <1>12. s[1] = HeaderUnit
    BY <1>10, <1>11 DEF Marked
  <1> QED BY <1>9, <1>12 DEF q

\* The round of the decoder: what it leaves in the stream, and why it stalls.
ReadRings(d, w) ==
    /\ IsRing(inBuf') /\ Straight(inBuf') /\ IsRing(outBuf') /\ IsCoder(z')
    /\ outBuf'.size = outBuf.size
    /\ dst' \in Seq(Int) /\ Len(dst') >= Len(dst)
    /\ room' \in 0 .. Slice
    /\ outBuf'.q # <<>> => Len(w.put) = room
    /\ w.put \in Seq(Int)

ReadCoder(f, d, w) ==
    /\ d.ret \in Rets
    /\ z'.ended <=> d.ret = "STREAM_END"
    /\ d.ret = "BUF_ERROR" => z.stalled /\ z'.stalled
    /\ w.err \in {"nil", "short"}
    /\ w.err = "nil" <=> outBuf'.q = <<>>
    /\ z'.stalled => /\ inBuf'.q = InOf(f).q /\ w.put \o outBuf'.q = outBuf.q
                     /\ ~z'.ended
    /\ DecodesOn(Ahead, z, InOf(f).q, Ahead', z', d.took, inBuf'.q)

LEMMA ReadDecodes ==
    ASSUME ReaderInv, cl = "read", NEW f, NEW d, NEW w, NEW r,
           ReadStepOf(f, d, w, r), ReadFetched(f)
    PROVE  ReadRings(d, w) /\ ReadCoder(f, d, w)
  <1> DEFINE in == InOf(f)
  <1>1. /\ IsRing(inBuf) /\ IsRing(outBuf) /\ IsCoder(z) /\ dst \in Seq(Int)
        /\ room \in Nat /\ Slice \in Nat /\ room <= Slice /\ Len(dst) \in Nat
    <2>1. /\ IsRing(inBuf) /\ IsRing(outBuf) /\ IsCoder(z)
          /\ dst \in Seq(Int) /\ room \in 0 .. Slice
      BY DEF ReaderInv, TypeOK
    <2> QED BY <2>1, LzmaAssumption, LenProperties
  <1>2. /\ IsRing(in) /\ Straight(in)
    BY DEF ReadFetched
  <1>3. /\ d \in Decoded(z, ReadSlice(in), WriteSlice(outBuf))
        /\ w = Delivered(WriteMark(outBuf, d.put), room)
        /\ Settle(in, d, w) /\ room' = room - Len(w.put)
    BY DEF ReadStepOf, InOf
  <1>4. /\ inBuf' = ReadMark(in, d.took) /\ z' = d.z /\ outBuf' = w.rest
        /\ dst' = dst \o w.put
    BY <1>3 DEF Settle
  <1> HIDE DEF in
  <1>5. /\ DecodeRound(dst, in, z, outBuf, room, d, w)
        /\ z.ended => AfterEnd(dst, z, outBuf, d, w)
        /\ ~z.ended => UpToEnd(dst, in, z, outBuf, d, w)
    BY <1>1, <1>2, <1>3, DecodeRounds
  <1>6. /\ IsRing(inBuf') /\ Straight(inBuf')
        /\ IsCoder(z') /\ d.ret \in Rets
        /\ z'.ended <=> d.ret = "STREAM_END"
        /\ d.ret = "BUF_ERROR" => z.stalled /\ z'.stalled
        /\ IsRing(outBuf') /\ outBuf'.size = outBuf.size
        /\ w.put \in Seq(Int) /\ Len(w.put) <= room
        /\ w.err \in {"nil", "short"}
        /\ w.err = "nil" <=> outBuf'.q = <<>>
        /\ outBuf'.q # <<>> => Len(w.put) = room
        /\ d.took \in 0 .. Len(in.q)
        /\ inBuf'.q = SubSeq(in.q, d.took + 1, Len(in.q))
        /\ z'.stalled => d.took = 0 /\ w.put \o outBuf'.q = outBuf.q
    BY <1>4, <1>5 DEF DecodeRound
  <1>7. dst' \in Seq(Int) /\ Len(dst') >= Len(dst) /\ room' \in 0 .. Slice
    <2>1. Len(w.put) \in Nat /\ Len(w.put) <= room
      BY <1>6, LenProperties
    <2>2. dst \o w.put \in Seq(Int) /\ Len(dst \o w.put) = Len(dst) + Len(w.put)
      BY <1>1, <1>6, CatType
    <2>3. dst' \in Seq(Int)
      BY <1>4, <2>2
    <2>4. Len(dst') >= Len(dst)
      BY <1>1, <1>4, <2>1, <2>2
    <2>5. room' \in 0 .. Slice
      BY <1>1, <1>3, <2>1
    <2> QED BY <2>3, <2>4, <2>5
  <1>8. ReadRings(d, w)
    BY <1>6, <1>7 DEF ReadRings
  <1>9. DecodesOn(Ahead, z, in.q, Ahead', z', d.took, inBuf'.q)
    <2>1. HeaderFirst(Ahead, z)
      BY DEF ReaderInv, ReaderFlow
    <2>2. Len(in.q) >= 1 /\ z.skip = 1 => in.q[1] = HeaderUnit
      BY HeaderFound DEF in
    <2>3. /\ Ahead = (dst \o outBuf.q) \o z.held
          /\ Ahead' = ((dst \o w.put) \o w.rest.q) \o d.z.held
      BY <1>4 DEF Ahead
    <2>4. DecodesOn(Ahead, z, in.q, Ahead', d.z, d.took,
                    ReadMark(in, d.took).q)
      BY <1>1, <1>2, <1>5, <2>1, <2>2, <2>3, DecodesFlow
    <2> QED BY <1>4, <2>4
  <1>10. ASSUME z'.stalled PROVE inBuf'.q = in.q /\ ~z'.ended
    <2>1. d.took = 0
      BY <1>6, <1>10
    <2>2. in.q \in Seq(Int)
      BY <1>2, RingFacts
    <2>3. inBuf'.q = in.q
      BY <1>6, <2>1, <2>2, SplitAll
    <2>4. CASE z.ended
      BY <1>9, <1>10, <2>4 DEF DecodesOn
    <2>5. CASE ~z.ended
      <3>1. PICK c : Takes(Ahead, z, in.q, Ahead', z', d.took, c)
        BY <1>9, <2>5 DEF DecodesOn
      <3>2. c \in 0 .. Len(in.q) /\ (z'.ended => d.took = c + 1)
        BY <3>1 DEF Takes
      <3> QED BY <2>1, <2>3, <3>2
    <2> QED BY <2>4, <2>5
  <1>11. ReadCoder(f, d, w)
    BY <1>6, <1>9, <1>10 DEF ReadCoder, in
  <1> QED BY <1>8, <1>11

\* The switch and the report.
ReadReported(f, d, w, r) ==
    /\ ReadVerdict(w.err, RetOf(f, d), f.err, inBuf', VerdictOf(f, d, w))
    /\ ReportStep(VerdictOf(f, d, w), inBuf'.q, RestOf(f),
                  FailsOf(f) < Failures, r)
    /\ src' = r.rest
    /\ IF VerdictOf(f, d, w) = "more"
       THEN cl' = "read" /\ result' = result
       ELSE cl' = "idle" /\ result' = r.result

ReadFails(f, d, r) ==
    /\ rdErr' = f.err
    /\ failed' \in 0 .. Failures /\ failed' >= failed
    /\ r.fail = 1 => failed' >= 1
    /\ f.err = "err" /\ rdErr = "nil" => failed' >= failed + 1
    /\ RetOf(f, d) \in Rets
    /\ RetOf(f, d) = "STREAM_END" <=> d.ret = "STREAM_END"
    /\ RetOf(f, d) = "BUF_ERROR" =>
         d.ret = "BUF_ERROR" /\ (InOf(f).q = <<>> \/ WriteSlice(outBuf) = 0)

LEMMA ReadReports ==
    ASSUME ReaderInv, cl = "read", NEW f, NEW d, NEW w, NEW r,
           ReadStepOf(f, d, w, r), ReadFetched(f), ReadRings(d, w),
           ReadCoder(f, d, w)
    PROVE  ReadReported(f, d, w, r) /\ ReadFails(f, d, r)
  <1> DEFINE in == InOf(f)
             rest == RestOf(f)
             ret == RetOf(f, d)
             fails == FailsOf(f)
             v == VerdictOf(f, d, w)
  <1>1. /\ IsRing(in) /\ Straight(in) /\ f.err \in RdErrs
        /\ rest \in Seq(Int)
    BY DEF ReadFetched
  <1>2. ReadSlice(in) = in.q
    BY <1>1, ReadSliceFacts
  <1>3. /\ d.ret \in Rets /\ w.err \in {"nil", "short"}
        /\ w.err = "nil" => outBuf'.q = <<>>
    BY DEF ReadCoder
  <1>4. /\ inBuf' = ReadMark(in, d.took) /\ outBuf' = w.rest
        /\ inBuf'.q \in Seq(Int)
    <2>1. Settle(in, d, w)
      BY DEF ReadStepOf, InOf
    <2>2. IsRing(inBuf')
      BY DEF ReadRings
    <2> QED BY <2>1, <2>2, RingFacts DEF Settle
  <1>5. /\ r \in Reports(v, inBuf'.q, rest, fails < Failures)
        /\ src' = r.rest /\ failed' = fails + r.fail /\ rdErr' = f.err
        /\ IF v = "more" THEN UNCHANGED <<cl, result>> ELSE Returns(r.result)
    BY <1>2, <1>4, Zenon
       DEF ReadStepOf, VerdictOf, RetOf, FailsOf, RestOf, InOf
  <1>6. /\ ret \in Rets
        /\ ret = "STREAM_END" <=> d.ret = "STREAM_END"
        /\ ret = "BUF_ERROR" =>
             d.ret = "BUF_ERROR" /\ (in.q = <<>> \/ WriteSlice(outBuf) = 0)
    <2>1. WriteSlice(outBuf) \in Nat /\ (in.q # <<>>) \in BOOLEAN
      BY WriteSliceFacts DEF ReaderInv, TypeOK
    <2> QED BY <1>3, <2>1, IgnoredFacts DEF RetOf
  <1> HIDE DEF in, rest, ret, fails, v
  <1>7. ReadVerdict(w.err, ret, f.err, inBuf', v)
    BY <1>1, <1>3, <1>6, ReadVerdicts DEF v, VerdictOf, ret
  <1>8. v \in Verdicts
    BY <1>7 DEF ReadVerdict
  <1>9. (fails < Failures) \in BOOLEAN
    OBVIOUS
  <1>10. ReportStep(v, inBuf'.q, rest, fails < Failures, r)
    BY <1>1, <1>4, <1>5, <1>8, <1>9, ReportFacts
  <1>11. IF v = "more" THEN cl' = "read" /\ result' = result
                       ELSE cl' = "idle" /\ result' = r.result
    BY <1>5 DEF Returns
  <1>12. ReadReported(f, d, w, r)
    BY <1>5, <1>7, <1>10, <1>11 DEF ReadReported, v, ret, rest, fails
  <1>13. failed \in Nat /\ Failures \in Nat /\ failed <= Failures
    BY TypeFacts DEF ReaderInv
  <1>14. /\ fails \in 0 .. Failures /\ fails >= failed
         /\ f.err = "err" /\ rdErr = "nil" => fails = failed + 1
    <2>1. CASE f.err = "err" /\ rdErr = "nil"
      <3>1. failed < Failures
        BY <2>1 DEF ReadFetched
      <3>2. fails = failed + 1
        BY <2>1 DEF fails, FailsOf
      <3> QED BY <1>13, <3>1, <3>2
    <2>2. CASE ~(f.err = "err" /\ rdErr = "nil")
      <3>1. fails = failed
        BY <2>2 DEF fails, FailsOf
      <3> QED BY <1>13, <2>2, <3>1
    <2> QED BY <2>1, <2>2
  <1>15. r.fail \in {0, 1} /\ (r.fail = 1 => fails < Failures)
    BY <1>10 DEF ReportStep
  <1>16. /\ failed' \in 0 .. Failures /\ failed' >= failed
         /\ r.fail = 1 => failed' >= 1
         /\ f.err = "err" /\ rdErr = "nil" => failed' >= failed + 1
    BY <1>5, <1>13, <1>14, <1>15
  <1>17. ReadFails(f, d, r)
    BY <1>5, <1>6, <1>16 DEF ReadFails, ret, in
  <1> QED BY <1>12, <1>17

\* The round conserves the file and stays within it.
ReadConserved(rest) ==
    /\ Ahead' \in Seq(Int) /\ HeaderFirst(Ahead', z')
    /\ Len(Ahead') <= accepted
    /\ z'.ended => Len(Ahead') = accepted
    /\ (Passed(Ahead', z') \o inBuf'.q) \o rest = All
    /\ Passed(Ahead', z') \o inBuf'.q \in Seq(Int)
    /\ Beginning(Passed(Ahead', z') \o inBuf'.q, accepted)
    /\ Beginning(Passed(Ahead', z'), accepted)

LEMMA ReadConserves ==
    ASSUME ReaderInv, NEW f, NEW d, NEW w, ReadFetched(f), ReadRings(d, w),
           ReadCoder(f, d, w)
    PROVE  ReadConserved(RestOf(f))
  <1> DEFINE q == InOf(f).q
             t == RestOf(f)
             P == Passed(Ahead, z)
             P2 == Passed(Ahead', z')
             l == inBuf'.q
  <1>1. /\ accepted \in Nat /\ inBuf.q \in Seq(Int) /\ src \in Seq(Int)
        /\ Ahead \in Seq(Int) /\ z.ended \in BOOLEAN
    BY TypeFacts, AheadFacts DEF ReaderInv
  <1>2. /\ HeaderFirst(Ahead, z) /\ Len(Ahead) <= accepted
        /\ z.ended => Len(Ahead) = accepted
        /\ Beginning(All, accepted)
    BY DEF ReaderInv, ReaderFlow
  <1>3. q \in Seq(Int) /\ t \in Seq(Int) /\ q \o t = inBuf.q \o src
    BY RingFacts DEF ReadFetched
  <1>4. l \in Seq(Int) /\ z'.ended \in BOOLEAN
    BY RingFacts, CoderFacts DEF ReadRings
  <1>5. DecodesOn(Ahead, z, q, Ahead', z', d.took, l)
    BY DEF ReadCoder
  <1>6. /\ Ahead' \in Seq(Int) /\ HeaderFirst(Ahead', z')
        /\ P2 \o l = P \o q
        /\ z.ended => z'.ended /\ Ahead' = Ahead
        /\ ~z.ended => \E c : Takes(Ahead, z, q, Ahead', z', d.took, c)
    BY <1>5 DEF DecodesOn
  <1>7. P \in Seq(Int)
    BY <1>1, <1>2, PassedFacts
  <1>8. P2 \in Seq(Int)
    BY <1>4, <1>6, PassedFacts
  <1>9. P2 \o l \in Seq(Int)
    BY <1>4, <1>8, CatType
  <1>10. All = (P \o inBuf.q) \o src
    BY DEF All
  <1> HIDE DEF q, t, P, P2, l
  <1>11. (P2 \o l) \o t = All
    <2>1. Regrouped(P, q, t) /\ Regrouped(P, inBuf.q, src)
      BY <1>1, <1>3, <1>7, Regroup
    <2>2. (P \o q) \o t = P \o (q \o t)
      BY <2>1 DEF Regrouped
    <2>3. (P \o inBuf.q) \o src = P \o (inBuf.q \o src)
      BY <2>1 DEF Regrouped
    <2> QED BY <1>3, <1>6, <1>10, <2>2, <2>3, Zenon
  <1>12. Beginning((P2 \o l) \o t, accepted)
    BY <1>2, <1>11, Zenon
  <1>13. Beginning(P2 \o l, accepted)
    BY <1>1, <1>3, <1>9, <1>12, BeginningShorter
  <1>14. Beginning(P2, accepted)
    BY <1>1, <1>4, <1>8, <1>13, BeginningShorter
  <1>15. Len(Ahead') <= accepted /\ (z'.ended => Len(Ahead') = accepted)
    <2>1. CASE z.ended
      BY <1>2, <1>6, <2>1
    <2>2. CASE ~z.ended
      <3>1. PICK c : Takes(Ahead, z, q, Ahead', z', d.took, c)
        BY <1>6, <2>2
      <3>2. Beginning(Passed(Ahead', z'), accepted)
        BY <1>14 DEF P2
      <3> QED BY <1>1, <1>2, <1>3, <1>6, <3>1, <3>2, TakesWithin
    <2> QED BY <2>1, <2>2
  <1> QED BY <1>6, <1>9, <1>11, <1>13, <1>14, <1>15
          DEF ReadConserved, P2, l, t

\* How long what has passed is, and with it all of the file.
ReadLengths(rest) ==
    \E k \in Nat, m \in Nat, n \in Nat :
      /\ m = Len(inBuf'.q) /\ n = Len(rest)
      /\ Len(All) = (k + m) + n
      /\ Len(Passed(Ahead', z') \o inBuf'.q) = k + m
      /\ z'.ended => k = accepted + 2
      /\ ~z'.ended => k <= accepted + 1
      /\ Len(All) <= accepted + 3

LEMMA ReadLengthsFacts ==
    ASSUME ReaderInv, NEW d, NEW w, ReadRings(d, w), NEW rest \in Seq(Int),
           ReadConserved(rest)
    PROVE  ReadLengths(rest)
  <1> DEFINE P2 == Passed(Ahead', z')
             l == inBuf'.q
             k == Len(P2)
             m == Len(l)
             n == Len(rest)
  <1>1. accepted \in Nat /\ l \in Seq(Int) /\ z'.ended \in BOOLEAN
    BY TypeFacts, RingFacts, CoderFacts DEF ReaderInv, ReadRings
  <1>2. /\ Ahead' \in Seq(Int) /\ HeaderFirst(Ahead', z')
        /\ Len(Ahead') <= accepted
        /\ z'.ended => Len(Ahead') = accepted
        /\ (P2 \o l) \o rest = All
    BY DEF ReadConserved
  <1>3. /\ P2 \in Seq(Int) /\ k \in Nat /\ Len(Ahead') \in Nat
        /\ z'.ended => k = Len(Ahead') + 2
        /\ ~z'.ended => k <= Len(Ahead') + 1
    BY <1>1, <1>2, PassedFacts, LenProperties
  <1>4. Len(All) <= accepted + 3
    BY DEF ReaderInv, ReaderFlow, Beginning
  <1> HIDE DEF P2, l
  <1>5. P2 \o l \in Seq(Int) /\ Len(P2 \o l) = k + m
    BY <1>1, <1>3, CatType
  <1>6. Len((P2 \o l) \o rest) = Len(P2 \o l) + n
    BY <1>5, CatType
  <1>7. m \in Nat /\ n \in Nat
    BY <1>1, LenProperties
  <1>8. Len(All) = (k + m) + n
    BY <1>2, <1>5, <1>6, Zenon
  <1>9. /\ z'.ended => k = accepted + 2
        /\ ~z'.ended => k <= accepted + 1
    <2> HIDE DEF k
    <2> QED BY <1>1, <1>2, <1>3
  <1> QED BY <1>3, <1>4, <1>5, <1>7, <1>8, <1>9, Zenon
          DEF ReadLengths, P2, l

\* A step of Read as the lemmas above describe it.
ReadRound(f, d, w, r) ==
    /\ ReadFetched(f) /\ ReadRings(d, w) /\ ReadCoder(f, d, w)
    /\ ReadReported(f, d, w, r) /\ ReadFails(f, d, r)
    /\ ReadConserved(RestOf(f)) /\ ReadLengths(RestOf(f))
    /\ cl = "read" /\ told' = (told \/ result' = "data")
    /\ UNCHANGED <<role, closed, accepted, outcome, intact, empty>>

LEMMA ReadRoundExists ==
    ASSUME ReaderInv, processRead
    PROVE  \E f, d, w, r : ReadRound(f, d, w, r)
  <1>1. /\ cl = "read" /\ told' = (told \/ result' = "data")
        /\ UNCHANGED <<role, closed, accepted, outcome, intact, empty>>
    BY DEF processRead
  <1>2. PICK f, d, w, r : ReadStepOf(f, d, w, r)
    BY ReadRounds
  <1>3. ReadFetched(f)
    <2>1. f \in Fetches(inBuf, rdErr, src, failed < Failures)
      BY <1>2 DEF ReadStepOf
    <2> QED BY <1>1, <2>1, ReadFetches
  <1>4. ReadRings(d, w) /\ ReadCoder(f, d, w)
    BY <1>1, <1>2, <1>3, ReadDecodes
  <1>5. ReadReported(f, d, w, r) /\ ReadFails(f, d, r)
    BY <1>1, <1>2, <1>3, <1>4, ReadReports
  <1>6. ReadConserved(RestOf(f))
    BY <1>3, <1>4, ReadConserves
  <1>7. RestOf(f) \in Seq(Int)
    BY <1>3 DEF ReadFetched
  <1>8. ReadLengths(RestOf(f))
    BY <1>4, <1>6, <1>7, ReadLengthsFacts
  <1>9. ReadRound(f, d, w, r)
    BY <1>1, <1>3, <1>4, <1>5, <1>6, <1>8 DEF ReadRound
  <1> QED BY <1>9

\* The probe at the end may lose a unit behind the file, nothing else.
ReadKept(rest) ==
    /\ Beginning(All', accepted)
    /\ \/ All' = All
       \/ /\ told' /\ ~intact
          /\ Len(All) = accepted + 3 /\ Len(All') = accepted + 2

LEMMA ReadKeeps ==
    ASSUME ReaderInv, NEW f, NEW d, NEW w, NEW r, ReadRound(f, d, w, r)
    PROVE  ReadKept(RestOf(f))
  <1> DEFINE rest == RestOf(f)
             F == Passed(Ahead', z') \o inBuf'.q
             v == VerdictOf(f, d, w)
  <1>1. /\ F \in Seq(Int) /\ F \o rest = All /\ Beginning(F, accepted)
    BY DEF ReadRound, ReadConserved
  <1>2. All' = F \o src'
    BY DEF All
  <1>3. Beginning(All, accepted)
    BY DEF ReaderInv, ReaderFlow
  <1>4. PICK k \in Nat, m \in Nat, n \in Nat :
          /\ m = Len(inBuf'.q) /\ n = Len(rest)
          /\ Len(All) = (k + m) + n
          /\ Len(F) = k + m
          /\ z'.ended => k = accepted + 2
          /\ Len(All) <= accepted + 3
    BY DEF ReadRound, ReadLengths
  <1>5. ReportStep(v, inBuf'.q, rest, FailsOf(f) < Failures, r)
        /\ src' = r.rest
    BY DEF ReadRound, ReadReported
  <1>6. rest \in Seq(Int) /\ accepted \in Nat
    BY TypeFacts DEF ReadRound, ReadFetched, ReaderInv
  <1> HIDE DEF F
  <1>7. CASE r.rest = rest
    <2>1. All' = All
      BY <1>1, <1>2, <1>5, <1>7, Zenon
    <2>2. Beginning(All', accepted)
      BY <1>3, <2>1, Zenon
    <2> QED BY <2>1, <2>2 DEF ReadKept
  <1>8. CASE r.rest # rest
    <2>1. /\ v = "STREAM_END" /\ inBuf'.q = <<>> /\ rest # <<>>
          /\ r.rest = SubSeq(rest, 2, Len(rest)) /\ r.result = "data"
      BY <1>5, <1>8 DEF ReportStep
    <2>2. z'.ended
      <3>1. RetOf(f, d) = "STREAM_END"
        BY <2>1 DEF ReadRound, ReadReported, ReadVerdict
      <3>2. d.ret = "STREAM_END"
        BY <3>1 DEF ReadRound, ReadFails
      <3> QED BY <3>2 DEF ReadRound, ReadCoder
    <2>3. n >= 1 /\ m = 0
      <3>1. n # 0
        BY <1>4, <1>6, <2>1, EmptySeq
      <3>2. m = 0
        BY <1>4, <2>1
      <3> QED BY <3>1, <3>2
    <2>4. n = 1 /\ Len(All) = accepted + 3 /\ Len(F) = accepted + 2
      BY <1>4, <1>6, <2>2, <2>3
    <2>5. r.rest = <<>>
      <3>1. r.rest = SubSeq(rest, 2, 1)
        BY <1>4, <2>1, <2>4
      <3> QED BY <3>1, SubSeqEmpty
    <2>6. All' = F
      BY <1>1, <1>2, <1>5, <2>5, CatEmpty
    <2>7. told'
      <3>1. result' = "data"
        BY <2>1 DEF ReadRound, ReadReported
      <3> QED BY <3>1 DEF ReadRound
    <2>8. ~intact
      <3>1. intact => Len(All) = accepted + 2
        BY <1>6, AloneFacts DEF ReaderInv, ReaderFile
      <3> QED BY <1>6, <2>4, <3>1
    <2>9. Beginning(All', accepted) /\ Len(All') = accepted + 2
      BY <1>1, <2>4, <2>6
    <2> QED BY <2>4, <2>7, <2>8, <2>9 DEF ReadKept
  <1> QED BY <1>7, <1>8

LEMMA ReadType ==
    ASSUME ReaderInv, NEW f, NEW d, NEW w, NEW r, ReadRound(f, d, w, r)
    PROVE  TypeOK'
  <1>1. TypeOK /\ role = "reader"
    BY DEF ReaderInv
  <1>2. /\ IsRing(inBuf') /\ IsRing(outBuf') /\ IsCoder(z')
        /\ dst' \in Seq(Int) /\ room' \in 0 .. Slice
    BY DEF ReadRound, ReadRings
  <1>3. failed' \in 0 .. Failures
    BY DEF ReadRound, ReadFails
  <1>4. rdErr' \in {"nil", "EOF", "err"}
    BY DEF ReadRound, ReadFails, ReadFetched, RdErrs
  <1>5. src' \in Seq(Int)
    <2> DEFINE rest == RestOf(f)
    <2>1. rest \in Seq(Int)
      BY DEF ReadRound, ReadFetched
    <2>2. src' = rest \/ src' = SubSeq(rest, 2, Len(rest))
      BY DEF ReadRound, ReadReported, ReportStep
    <2> HIDE DEF rest
    <2>3. SubSeq(rest, 2, Len(rest)) \in Seq(Int)
      <3>1. \A i \in 2 .. Len(rest) : rest[i] \in Int
        BY <2>1, ElementOfSeq
      <3> QED BY <2>1, <3>1, SubSeqProperties
    <2> QED BY <2>1, <2>2, <2>3
  <1>6. /\ cl' \in {"idle", "read"}
        /\ result' \in {"ok", "EOF", "cut", "data", "buf", "sink", "err"}
    <2>1. CASE VerdictOf(f, d, w) = "more"
      BY <1>1, <2>1 DEF ReadRound, ReadReported, TypeOK
    <2>2. CASE VerdictOf(f, d, w) # "more"
      BY <2>2 DEF ReadRound, ReadReported, ReportStep
    <2> QED BY <2>1, <2>2
  <1>7. /\ role' = "reader" /\ closed' \in BOOLEAN /\ intact' \in BOOLEAN
        /\ empty' \in BOOLEAN /\ accepted' \in 0 .. Total
        /\ outcome' \in {"none", "ok", "failed"} /\ told' \in BOOLEAN
    BY <1>1 DEF ReadRound, TypeOK
  <1> QED BY <1>2, <1>3, <1>4, <1>5, <1>6, <1>7 DEF TypeOK

LEMMA ReadFile ==
    ASSUME ReaderInv, NEW f, NEW d, NEW w, NEW r, ReadRound(f, d, w, r)
    PROVE  ReaderFlow' /\ ReaderFile'
  <1>1. ReadKept(RestOf(f))
    BY ReadKeeps
  <1>2. /\ accepted' = accepted /\ outcome' = outcome /\ intact' = intact
        /\ told => told'
    BY DEF ReadRound
  <1>3. /\ HeaderFirst(Ahead', z') /\ Len(Ahead') <= accepted
        /\ z'.ended => Len(Ahead') = accepted
    BY DEF ReadRound, ReadConserved
  <1>4. Straight(inBuf')
    BY DEF ReadRound, ReadRings
  <1>5. ReaderFlow'
    BY <1>1, <1>2, <1>3, <1>4 DEF ReaderFlow, ReadKept
  <1>6. accepted \in Nat
    BY TypeFacts DEF ReaderInv
  <1>7. /\ Len(All) >= accepted + 2 => outcome = "ok"
        /\ Len(All) = accepted + 2 => intact \/ told
        /\ intact => All = Alone(accepted)
    BY DEF ReaderInv, ReaderFile
  <1>8. CASE All' = All
    <2>1. /\ Len(All') >= accepted' + 2 => outcome' = "ok"
          /\ Len(All') = accepted' + 2 => intact' \/ told'
          /\ intact' => All' = Alone(accepted')
      BY <1>2, <1>7, <1>8, Zenon
    <2> QED BY <1>5, <2>1 DEF ReaderFile
  <1>9. CASE /\ told' /\ ~intact
             /\ Len(All) = accepted + 3 /\ Len(All') = accepted + 2
    <2>1. outcome' = "ok"
      BY <1>2, <1>6, <1>7, <1>9
    <2> QED BY <1>2, <1>5, <1>9, <2>1 DEF ReaderFile
  <1> QED BY <1>1, <1>5, <1>8, <1>9 DEF ReadKept

LEMMA ReadCall ==
    ASSUME ReaderInv, NEW f, NEW d, NEW w, NEW r, ReadRound(f, d, w, r)
    PROVE  ReaderCall'
  <1> SUFFICES ASSUME cl' = "read" PROVE ReaderCall'
    BY DEF ReaderCall
  <1> DEFINE v == VerdictOf(f, d, w)
  <1>1. v = "more" /\ w.err = "nil" /\ (f.err # "nil" => inBuf'.q # <<>>)
    <2>1. v = "more"
      BY DEF ReadRound, ReadReported
    <2> QED BY <2>1 DEF ReadRound, ReadReported, ReadVerdict
  <1>2. outBuf'.q = <<>>
    BY <1>1 DEF ReadRound, ReadCoder
  <1>3. rdErr' = f.err
    BY DEF ReadRound, ReadFails
  <1>4. f.err = "EOF" => src' = <<>>
    <2>1. f.err = "EOF" => RestOf(f) = <<>>
      BY DEF ReadRound, ReadFetched
    <2>2. src' = RestOf(f)
      <3>1. r.rest = RestOf(f)
        BY <1>1 DEF ReadRound, ReadReported, ReportStep
      <3> QED BY <3>1 DEF ReadRound, ReadReported
    <2> QED BY <2>1, <2>2
  <1> QED BY <1>1, <1>2, <1>3, <1>4 DEF ReaderCall

\* An intact file never ends before its end.
LEMMA ReadNotCut ==
    ASSUME ReaderInv, NEW f, NEW d, NEW w, NEW r, ReadRound(f, d, w, r),
           ~z'.ended, inBuf'.q = <<>>, RestOf(f) = <<>>
    PROVE  ~intact
  <1>1. accepted \in Nat
    BY TypeFacts DEF ReaderInv
  <1>2. PICK k \in Nat, m \in Nat, n \in Nat :
          /\ m = Len(inBuf'.q) /\ n = Len(RestOf(f))
          /\ Len(All) = (k + m) + n /\ k <= accepted + 1
    BY DEF ReadRound, ReadLengths
  <1>3. m = 0 /\ n = 0
    BY <1>2
  <1>4. Len(All) <= accepted + 1
    BY <1>1, <1>2, <1>3
  <1>5. intact => Len(All) = accepted + 2
    BY <1>1, AloneFacts DEF ReaderInv, ReaderFile
  <1> QED BY <1>1, <1>2, <1>4, <1>5

\* A decoder that finds no input after a read that found none.
LEMMA ReadStarved ==
    ASSUME ReaderInv, NEW f, NEW d, NEW w, NEW r, ReadRound(f, d, w, r),
           InOf(f).q = <<>>, inBuf'.q = <<>>, ~z'.ended, intact
    PROVE  inBuf.q = <<>> /\ failed' >= failed + 1
  <1>1. inBuf.q = <<>> /\ f.n = 0
    BY DEF ReadRound, ReadFetched
  <1>2. rdErr = "nil"
    BY <1>1 DEF ReadRound, ReaderInv, ReaderCall
  <1>3. f.err \in RdErrs /\ f.err # "nil"
    BY <1>1, <1>2 DEF ReadRound, ReadFetched
  <1>4. f.err # "EOF"
    <2>1. f.err = "EOF" => RestOf(f) = <<>>
      BY DEF ReadRound, ReadFetched
    <2> QED BY <2>1, ReadNotCut
  <1>5. f.err = "err"
    BY <1>3, <1>4 DEF RdErrs
  <1> QED BY <1>1, <1>2, <1>5 DEF ReadRound, ReadFails

LEMMA ReadStalls ==
    ASSUME ReaderInv, NEW f, NEW d, NEW w, NEW r, ReadRound(f, d, w, r)
    PROVE  ReaderStalls'
  <1>1. ASSUME z'.stalled, Len(outBuf'.q) = outBuf'.size PROVE empty'
    <2> DEFINE o == outBuf'.q
               p == w.put
    <2>1. /\ p \o o = outBuf.q /\ p \in Seq(Int) /\ IsRing(outBuf')
          /\ outBuf'.size = outBuf.size
      BY <1>1 DEF ReadRound, ReadCoder, ReadRings
    <2>2. IsRing(outBuf) /\ room \in Nat
      BY TypeFacts DEF ReaderInv, TypeOK
    <2>3. /\ o \in Seq(Int) /\ Len(o) = outBuf.size /\ outBuf.size > 0
          /\ outBuf.size \in Nat /\ Len(outBuf.q) <= outBuf.size
      BY <1>1, <2>1, <2>2, RingFacts
    <2>4. o # <<>>
      BY <2>3
    <2>5. Len(p) = room
      BY <2>4 DEF ReadRound, ReadRings
    <2> HIDE DEF o, p
    <2>6. Len(p \o o) = Len(p) + Len(o)
      BY <2>1, <2>3, CatType
    <2>7. room + outBuf.size <= outBuf.size
      BY <2>1, <2>3, <2>5, <2>6
    <2>8. room = 0
      BY <2>2, <2>3, <2>7
    <2>9. Len(outBuf.q) > 0
      BY <2>1, <2>2, <2>3, <2>5, <2>6
    <2>10. outBuf.q # <<>>
      BY <2>9
    <2> QED BY <2>8, <2>10 DEF ReadRound, ReaderInv, ReaderCall
  <1>2. ASSUME intact', z'.stalled, inBuf'.q = <<>> PROVE failed' >= 1
    <2>1. InOf(f).q = <<>> /\ ~z'.ended /\ intact
      BY <1>2 DEF ReadRound, ReadCoder
    <2>2. failed' >= failed + 1
      BY <1>2, <2>1, ReadStarved
    <2>3. failed \in Nat /\ failed' \in Nat
      BY TypeFacts DEF ReaderInv, ReadRound, ReadFails
    <2> QED BY <2>2, <2>3
  <1> QED BY <1>1, <1>2 DEF ReaderStalls

\* When io.EOF is returned, and for as long as it is the last result.
LEMMA ReadEnd ==
    ASSUME ReaderInv, NEW f, NEW d, NEW w, NEW r, ReadRound(f, d, w, r)
    PROVE  EOFMeansIntact'
  <1> SUFFICES ASSUME result' = "EOF"
               PROVE  /\ outcome' = "ok" /\ dst' = Units(accepted')
                      /\ intact' \/ told'
    BY DEF EOFMeansIntact
  <1>1. /\ accepted' = accepted /\ outcome' = outcome /\ intact' = intact
        /\ told => told'
    BY DEF ReadRound
  <1>2. /\ accepted \in Nat /\ dst \in Seq(Int) /\ Len(dst) \in Nat
    BY TypeFacts, LenProperties DEF ReaderInv
  <1>3. /\ dst' \in Seq(Int) /\ outBuf'.q \in Seq(Int)
        /\ z'.held \in Seq(Int) /\ z'.ended \in BOOLEAN
        /\ Len(dst') >= Len(dst)
    BY RingFacts, CoderFacts DEF ReadRound, ReadRings
  <1>4. /\ HeaderFirst(Ahead', z') /\ Len(Ahead') <= accepted
        /\ z'.ended => Len(Ahead') = accepted
        /\ Ahead' \in Seq(Int)
        /\ Beginning(Passed(Ahead', z'), accepted)
    BY DEF ReadRound, ReadConserved
  <1> DEFINE a == Ahead'
             h == BegunOf(z')
  <1>5. /\ dst' \o outBuf'.q \in Seq(Int)
        /\ Len(dst' \o outBuf'.q) = Len(dst') + Len(outBuf'.q)
    BY <1>3, CatType
  <1>6. /\ a = (dst' \o outBuf'.q) \o z'.held
        /\ Len(a) = Len(dst' \o outBuf'.q) + Len(z'.held)
    BY <1>3, <1>5, CatType DEF Ahead
  <1>7. /\ Len(dst') \in Nat /\ Len(outBuf'.q) \in Nat
        /\ Len(z'.held) \in Nat
    BY <1>3, LenProperties
  <1>8. Len(a) = (Len(dst') + Len(outBuf'.q)) + Len(z'.held)
    BY <1>5, <1>6, Zenon
  <1>9. /\ outcome = "ok" /\ (intact \/ told')
        /\ Len(dst') = accepted
        /\ Len(outBuf'.q) = 0 /\ Len(z'.held) = 0
    <2>1. CASE VerdictOf(f, d, w) = "more"
      <3>1. result = "EOF"
        BY <2>1 DEF ReadRound, ReadReported
      <3>2. outcome = "ok" /\ dst = Units(accepted) /\ (intact \/ told)
        BY <3>1 DEF ReaderInv, EOFMeansIntact
      <3>3. Len(dst) = accepted
        BY <1>2, <3>2, UnitsFacts
      <3>4. Len(dst') >= accepted
        BY <1>3, <3>3
      <3> DEFINE i == Len(a)
                 j == Len(dst')
                 k == Len(outBuf'.q)
                 l == Len(z'.held)
      <3>5. /\ i = (j + k) + l /\ i <= accepted /\ j >= accepted
            /\ j \in Nat /\ k \in Nat /\ l \in Nat
        BY <1>4, <1>7, <1>8, <3>4, Zenon
      <3> HIDE DEF a, i, j, k, l
      <3>6. j = accepted /\ k = 0 /\ l = 0
        BY <1>2, <3>5
      <3> QED BY <1>1, <3>2, <3>6 DEF j, k, l
    <2>2. CASE VerdictOf(f, d, w) # "more"
      <3>1. r.result = "EOF"
        BY <2>2 DEF ReadRound, ReadReported
      <3>2. /\ VerdictOf(f, d, w) = "STREAM_END" /\ inBuf'.q = <<>>
            /\ RestOf(f) = <<>> /\ src' = RestOf(f)
        BY <3>1 DEF ReadRound, ReadReported, ReportStep
      <3>3. w.err = "nil" /\ RetOf(f, d) = "STREAM_END"
        BY <3>2 DEF ReadRound, ReadReported, ReadVerdict
      <3>4. d.ret = "STREAM_END"
        BY <3>3 DEF ReadRound, ReadFails
      <3>5. z'.ended /\ outBuf'.q = <<>>
        BY <3>3, <3>4 DEF ReadRound, ReadCoder
      <3>6. z'.held = <<>>
        BY <1>4, <3>5 DEF HeaderFirst
      <3>7. Len(outBuf'.q) = 0 /\ Len(z'.held) = 0
        BY <3>5, <3>6
      <3>8. Len(dst') = accepted
        <4>1. Len(a) = accepted
          BY <1>4, <3>5
        <4> HIDE DEF a
        <4> QED BY <1>7, <1>8, <3>7, <4>1
      <3>9. Len(All) = accepted + 2
        <4>1. PICK k \in Nat, m \in Nat, n \in Nat :
                /\ m = Len(inBuf'.q) /\ n = Len(RestOf(f))
                /\ Len(All) = (k + m) + n /\ k = accepted + 2
          BY <3>5 DEF ReadRound, ReadLengths
        <4>2. m = 0 /\ n = 0
          BY <3>2, <4>1
        <4> QED BY <1>2, <4>1, <4>2
      <3>10. outcome = "ok" /\ (intact \/ told)
        BY <1>2, <3>9 DEF ReaderInv, ReaderFile
      <3> QED BY <1>1, <3>7, <3>8, <3>10
    <2> QED BY <2>1, <2>2
  <1>10. a = dst'
    <2>1. outBuf'.q = <<>> /\ z'.held = <<>>
      BY <1>3, <1>9, EmptySeq
    <2> QED BY <1>3, <1>6, <2>1, CatEmpty
  <1>11. dst' = Units(accepted)
    <2>1. CASE z'.skip = 1
      <3>1. dst' = <<>>
        BY <1>4, <1>10, <2>1 DEF HeaderFirst
      <3>2. accepted = 0
        BY <1>9, <3>1
      <3>3. Units(0) = <<>>
        BY UnitsFacts, EmptySeq
      <3> QED BY <3>1, <3>2, <3>3
    <2>2. CASE z'.skip = 0
      <3>1. h \in Seq(Int) /\ Len(h) = 1 /\ DoneOf(z') \in Seq(Int)
        BY <2>2, MarksType
      <3>2. h \o a \in Seq(Int)
        BY <1>4, <3>1, CatType
      <3>3. Beginning((h \o a) \o DoneOf(z'), accepted)
        BY <1>4 DEF Passed
      <3> HIDE DEF h, a
      <3>4. Beginning(h \o a, accepted)
        BY <1>2, <3>1, <3>2, <3>3, BeginningShorter
      <3>5. a \in Seq(Int) /\ Len(a) = accepted
        BY <1>3, <1>9, <1>10
      <3>6. Len(a) <= accepted
        BY <1>2, <3>5
      <3>7. a = Units(accepted)
        BY <1>2, <3>1, <3>4, <3>5, <3>6, BeginningData
      <3> QED BY <1>10, <3>7
    <2> QED BY <1>4, <2>1, <2>2 DEF HeaderFirst
  <1> QED BY <1>1, <1>9, <1>11

\* Every error has a cause.
LEMMA ReadErrors ==
    ASSUME ReaderInv, NEW f, NEW d, NEW w, NEW r, ReadRound(f, d, w, r)
    PROVE  ErrorsExplained'
  <1>1. /\ role' = "reader" /\ intact' = intact /\ empty' = empty
        /\ failed' >= failed /\ failed \in Nat /\ failed' \in Nat
    <2>1. role' = "reader" /\ intact' = intact /\ empty' = empty
      BY DEF ReadRound, ReaderInv
    <2>2. failed' >= failed /\ failed' \in Nat
      BY DEF ReadRound, ReadFails
    <2> QED BY <2>1, <2>2, TypeFacts DEF ReaderInv
  <1>2. /\ result = "buf" => empty \/ failed >= 2 \/ ~intact
        /\ result \in {"cut", "data"} => ~intact \/ failed > 0
    BY DEF ReaderInv, ErrorsExplained
  <1> DEFINE v == VerdictOf(f, d, w)
  <1>3. CASE v = "more"
    <2>1. result' = result
      BY <1>3 DEF ReadRound, ReadReported
    <2> QED BY <1>1, <1>2, <2>1 DEF ErrorsExplained
  <1>4. CASE v # "more"
    <2>1. result' = r.result
      BY <1>4 DEF ReadRound, ReadReported
    <2>2. ASSUME r.result = "buf", intact PROVE empty \/ failed' >= 2
      <3>1. RetOf(f, d) = "BUF_ERROR"
        BY <2>2 DEF ReadRound, ReadReported, ReportStep, ReadVerdict
      <3>2. /\ d.ret = "BUF_ERROR"
            /\ InOf(f).q = <<>> \/ WriteSlice(outBuf) = 0
        BY <3>1 DEF ReadRound, ReadFails
      <3>3. z.stalled /\ z'.stalled
        BY <3>2 DEF ReadRound, ReadCoder
      <3>4. CASE WriteSlice(outBuf) = 0
        <4>1. IsRing(outBuf)
          BY DEF ReaderInv, TypeOK
        <4>2. Len(outBuf.q) = outBuf.size
          BY <3>4, <4>1, WriteSliceFacts
        <4> QED BY <3>3, <4>2 DEF ReaderInv, ReaderStalls
      <3>5. CASE InOf(f).q = <<>>
        <4>1. inBuf'.q = <<>> /\ ~z'.ended
          BY <3>3, <3>5 DEF ReadRound, ReadCoder
        <4>2. inBuf.q = <<>> /\ failed' >= failed + 1
          BY <2>2, <3>5, <4>1, ReadStarved
        <4>3. failed >= 1
          BY <2>2, <3>3, <4>2 DEF ReaderInv, ReaderStalls
        <4> QED BY <1>1, <4>2, <4>3
      <3> QED BY <3>2, <3>4, <3>5
    <2>3. ASSUME r.result = "cut" PROVE ~intact
      <3>1. v = "EOF"
        BY <2>3 DEF ReadRound, ReadReported, ReportStep
      <3>2. f.err = "EOF" /\ RetOf(f, d) = "OK" /\ inBuf'.q = <<>>
        BY <3>1 DEF ReadRound, ReadReported, ReadVerdict
      <3>3. RestOf(f) = <<>>
        BY <3>2 DEF ReadRound, ReadFetched
      <3>4. ~z'.ended
        <4>1. d.ret # "STREAM_END"
          BY <3>2 DEF ReadRound, ReadFails
        <4> QED BY <4>1 DEF ReadRound, ReadCoder
      <3> QED BY <3>2, <3>3, <3>4, ReadNotCut
    <2>4. ASSUME r.result = "data" PROVE ~intact \/ failed' > 0
      <3>1. /\ v = "STREAM_END"
            /\ inBuf'.q # <<>> \/ RestOf(f) # <<>> \/ r.fail = 1
        BY <2>4 DEF ReadRound, ReadReported, ReportStep
      <3>2. r.fail = 1 => failed' > 0
        BY <1>1 DEF ReadRound, ReadFails
      <3>3. z'.ended
        <4>1. RetOf(f, d) = "STREAM_END"
          BY <3>1 DEF ReadRound, ReadReported, ReadVerdict
        <4>2. d.ret = "STREAM_END"
          BY <4>1 DEF ReadRound, ReadFails
        <4> QED BY <4>2 DEF ReadRound, ReadCoder
      <3>4. ASSUME inBuf'.q # <<>> \/ RestOf(f) # <<>> PROVE ~intact
        <4>1. inBuf'.q \in Seq(Int) /\ RestOf(f) \in Seq(Int)
          BY RingFacts DEF ReadRound, ReadRings, ReadFetched
        <4>2. PICK k \in Nat, m \in Nat, n \in Nat :
                /\ m = Len(inBuf'.q) /\ n = Len(RestOf(f))
                /\ Len(All) = (k + m) + n /\ k = accepted + 2
          BY <3>3 DEF ReadRound, ReadLengths
        <4>3. m > 0 \/ n > 0
          BY <3>4, <4>1, <4>2, EmptySeq
        <4>4. accepted \in Nat
          BY TypeFacts DEF ReaderInv
        <4>5. Len(All) > accepted + 2
          <5> DEFINE i == Len(All)
          <5>1. i = (k + m) + n /\ k = accepted + 2
            BY <4>2
          <5> HIDE DEF i
          <5>2. i > accepted + 2
            BY <4>3, <4>4, <5>1
          <5> QED BY <5>2 DEF i
        <4>6. intact => Len(All) = accepted + 2
          BY <4>4, AloneFacts DEF ReaderInv, ReaderFile
        <4> QED BY <4>4, <4>5, <4>6
      <3> QED BY <3>1, <3>2, <3>4
    <2> HIDE DEF v
    <2> QED BY <1>1, <2>1, <2>2, <2>3, <2>4 DEF ErrorsExplained
  <1> QED BY <1>3, <1>4

LEMMA processReadStep ==
    ASSUME ReaderInv, processRead
    PROVE  ReaderInv'
  <1>1. PICK f, d, w, r : ReadRound(f, d, w, r)
    BY ReadRoundExists
  <1>2. role' = "reader"
    BY <1>1 DEF ReadRound, ReaderInv
  <1> QED BY <1>1, <1>2, ReadType, ReadFile, ReadCall, ReadStalls, ReadEnd,
             ReadErrors
          DEF ReaderInv
-----------------------------------------------------------------------------
(***************************************************************************)
(* From the writer to the reader, and the theorems.                        *)
(***************************************************************************)
\* What the sink has is the beginning of the file, and all of it if and only
\* if the encoder has come to its end and outBuf has been written out.
LEMMA SinkBegins ==
    ASSUME WriterInv
    PROVE  \E t \in Seq(Int) : /\ dst \o t = Alone(accepted)
                               /\ t = <<>> <=> z.ended /\ outBuf.q = <<>>
  <1>1. /\ accepted \in Nat /\ dst \in Seq(Int) /\ outBuf.q \in Seq(Int)
        /\ z.held \in Seq(Int) /\ inBuf.q \in Seq(Int)
        /\ z.ended \in BOOLEAN
    BY TypeFacts, AheadFacts DEF WriterInv
  <1>2. CASE z.ended
    <2>1. dst \o outBuf.q = Alone(accepted)
      BY <1>2 DEF WriterInv, WriterFlow
    <2> QED BY <1>1, <1>2, <2>1
  <1>3. CASE ~z.ended
    <2> DEFINE a == outBuf.q \o z.held
               b == a \o inBuf.q
               e == <<EndUnit>>
               t == b \o e
    <2>1. ((dst \o outBuf.q) \o z.held) \o inBuf.q = Started(accepted)
      BY <1>3 DEF WriterInv, WriterFlow, Ahead
    <2>2. Alone(accepted) = Started(accepted) \o e
      BY <1>1, AloneFacts
    <2>3. e \in Seq(Int) /\ Len(e) = 1
      BY DEF EndUnit
    <2>4. a \in Seq(Int)
      BY <1>1, CatType
    <2>5. (dst \o outBuf.q) \o z.held = dst \o a
      <3>1. Regrouped(dst, outBuf.q, z.held)
        BY <1>1, Regroup
      <3> QED BY <3>1 DEF Regrouped
    <2> HIDE DEF a, e
    <2>6. b \in Seq(Int)
      BY <1>1, <2>4, CatType
    <2>7. (dst \o a) \o inBuf.q = dst \o b
      <3>1. Regrouped(dst, a, inBuf.q)
        BY <1>1, <2>4, Regroup
      <3> QED BY <3>1 DEF Regrouped
    <2> HIDE DEF b
    <2>8. t \in Seq(Int) /\ Len(t) = Len(b) + Len(e) /\ Len(b) \in Nat
      BY <2>3, <2>6, CatType, LenProperties
    <2>9. (dst \o b) \o e = dst \o t
      <3>1. Regrouped(dst, b, e)
        BY <1>1, <2>3, <2>6, Regroup
      <3> QED BY <3>1 DEF Regrouped
    <2>10. dst \o t = Alone(accepted)
      <3> HIDE DEF t
      <3> QED BY <2>1, <2>2, <2>5, <2>7, <2>9, Zenon
    <2> HIDE DEF t
    <2>11. Len(t) >= 1
      BY <2>3, <2>8
    <2>12. t # <<>>
      BY <2>11
    <2> QED BY <1>3, <2>8, <2>10, <2>12
  <1> QED BY <1>1, <1>2, <1>3

LEMMA SinkComplete ==
    ASSUME WriterInv
    PROVE  /\ dst \in Seq(Int) /\ accepted \in Nat /\ Beginning(dst, accepted)
           /\ dst = Alone(accepted) <=> z.ended /\ outBuf.q = <<>>
           /\ Len(dst) >= accepted + 2 => dst = Alone(accepted)
  <1>1. /\ accepted \in Nat /\ dst \in Seq(Int) /\ Len(dst) \in Nat
        /\ Len(Alone(accepted)) = accepted + 2
    BY TypeFacts, AloneFacts, LenProperties DEF WriterInv
  <1>2. PICK t \in Seq(Int) : /\ dst \o t = Alone(accepted)
                              /\ t = <<>> <=> z.ended /\ outBuf.q = <<>>
    BY SinkBegins
  <1>3. Len(dst \o t) = Len(dst) + Len(t) /\ Len(t) \in Nat
    BY <1>1, CatType, LenProperties
  <1>4. Len(dst) + Len(t) = accepted + 2
    BY <1>1, <1>2, <1>3, Zenon
  <1>5. t = <<>> => dst = Alone(accepted)
    BY <1>1, <1>2, CatEmpty
  <1>6. Len(dst) >= accepted + 2 => t = <<>>
    <2>1. Len(dst) >= accepted + 2 => Len(t) = 0
      BY <1>1, <1>3, <1>4
    <2> QED BY <2>1, EmptySeq
  <1>7. dst = Alone(accepted) => Len(dst) >= accepted + 2
    BY <1>1
  <1>8. Beginning(dst, accepted)
    <2>1. Beginning(dst \o t, accepted)
      BY <1>1, <1>2, BeginningFiles
    <2> QED BY <1>1, <2>1, BeginningShorter
  <1>9. dst = Alone(accepted) <=> t = <<>>
    BY <1>5, <1>6, <1>7
  <1>10. t = <<>> <=> z.ended /\ outBuf.q = <<>>
    BY <1>2
  <1>11. dst = Alone(accepted) <=> z.ended /\ outBuf.q = <<>>
    BY <1>9, <1>10, Zenon
  <1> QED BY <1>1, <1>5, <1>6, <1>8, <1>11

\* A file that is complete has been closed without an error.
LEMMA CompleteIsClosed ==
    ASSUME WriterInv, dst = Alone(accepted)
    PROVE  outcome = "ok"
  <1>1. z.ended /\ outBuf.q = <<>>
    BY SinkComplete
  <1>2. outcome \in {"none", "ok", "failed"}
    BY DEF WriterInv, TypeOK
  <1> QED BY <1>1, <1>2 DEF WriterInv, WriterPhases, WriterEnd

LEMMA NewReaderStep ==
    ASSUME WriterInv, NEW tail \in {<<>>, <<Junk>>}, NewReader(tail)
    PROVE  ReaderInv'
  <1>1. /\ cl = "idle" /\ role' = "reader"
        /\ tail # <<>> => dst = Alone(accepted)
        /\ src' = dst \o tail
        /\ intact' = (src' = Alone(accepted))
        /\ inBuf' = Ring(inBuf.size) /\ outBuf' = Ring(outBuf.size)
        /\ z' = Coder(<<>>, 1)
        /\ dst' = <<>> /\ rdErr' = "nil" /\ closed' = FALSE /\ result' = "ok"
        /\ failed' = 0 /\ empty' = FALSE
        /\ UNCHANGED <<cl, room, accepted, outcome, told>>
    BY DEF NewReader
  <1>2. /\ dst \in Seq(Int) /\ accepted \in Nat /\ Beginning(dst, accepted)
        /\ Len(dst) >= accepted + 2 => dst = Alone(accepted)
    BY SinkComplete
  <1>3. /\ IsRing(inBuf') /\ Straight(inBuf') /\ inBuf'.q = <<>>
        /\ IsRing(outBuf') /\ outBuf'.q = <<>>
    <2>1. /\ inBuf.size \in Nat /\ inBuf.size > 0
          /\ outBuf.size \in Nat /\ outBuf.size > 0
      BY RingFacts DEF WriterInv, TypeOK
    <2> QED BY <1>1, <2>1, NewRing
  <1>4. z' = [held |-> <<>>, skip |-> 1, ended |-> FALSE, stalled |-> FALSE]
    BY <1>1 DEF Coder
  <1>5. IsCoder(z') /\ z'.held = <<>>
    BY <1>4, EmptySeq DEF IsCoder
  <1>6. tail \in Seq(Int)
    <2>1. Junk \in Int
      BY DEF Junk
    <2>2. <<Junk>> \in Seq(Int) /\ <<>> \in Seq(Int)
      BY <2>1, One, EmptySeq
    <2> QED BY <2>2
  <1>7. src' \in Seq(Int)
    BY <1>1, <1>2, <1>6, CatType
  <1>8. TypeOK'
    <2>1. /\ role' \in {"writer", "reader"}
          /\ cl' \in IF role' = "writer" THEN {"idle", "write", "close"}
                                         ELSE {"idle", "read"}
          /\ rdErr' \in {"nil", "EOF", "err"}
          /\ result' \in {"ok", "EOF", "cut", "data", "buf", "sink", "err"}
      BY <1>1
    <2>2. closed' \in BOOLEAN /\ intact' \in BOOLEAN /\ empty' \in BOOLEAN
      BY <1>1
    <2>3. failed' \in 0 .. Failures
      BY <1>1, LzmaAssumption
    <2>4. /\ room' \in 0 .. Slice /\ accepted' \in 0 .. Total
          /\ outcome' \in {"none", "ok", "failed"} /\ told' \in BOOLEAN
      BY <1>1 DEF WriterInv, TypeOK
    <2>5. dst' \in Seq(Int)
      BY <1>1, EmptySeq
    <2> QED BY <1>3, <1>5, <1>7, <2>1, <2>2, <2>3, <2>4, <2>5 DEF TypeOK
  <1>9. Ahead' = <<>>
    BY <1>1, <1>3, <1>5, CatEmpty, EmptySeq DEF Ahead
  <1>10. HeaderFirst(Ahead', z')
    BY <1>4, <1>9 DEF HeaderFirst
  <1>11. Passed(Ahead', z') = <<>>
    <2>1. Ahead' \in Seq(Int) /\ z'.ended \in BOOLEAN /\ z'.skip = 1
      BY <1>4, <1>9, EmptySeq
    <2> QED BY <1>10, <2>1, PassedFacts
  <1>12. All' = src'
    <2>1. <<>> \o <<>> = <<>> /\ <<>> \o src' = src'
      BY <1>7, CatEmpty, EmptySeq
    <2> QED BY <1>3, <1>11, <2>1 DEF All
  <1>13. CASE tail = <<>>
    <2>1. src' = dst
      BY <1>1, <1>2, <1>13, CatEmpty
    <2>2. Len(dst) >= accepted + 2 => outcome = "ok"
      BY <1>2, CompleteIsClosed
    <2>3. Len(dst) = accepted + 2 => dst = Alone(accepted)
      BY <1>2
    <2> QED
      <3>1. Beginning(All', accepted')
        BY <1>1, <1>2, <1>12, <2>1
      <3>2. ReaderFile'
        BY <1>1, <1>12, <2>1, <2>2, <2>3 DEF ReaderFile
      <3>3. ReaderFlow'
        BY <1>1, <1>2, <1>3, <1>4, <1>9, <1>10, <3>1 DEF ReaderFlow
      <3>4. ReaderCall' /\ ReaderStalls' /\ EOFMeansIntact' /\ ErrorsExplained'
        BY <1>1, <1>4
           DEF ReaderCall, ReaderStalls, EOFMeansIntact, ErrorsExplained
      <3> QED BY <1>1, <1>8, <3>2, <3>3, <3>4 DEF ReaderInv
  <1>14. CASE tail = <<Junk>>
    <2>1. dst = Alone(accepted)
      <3>1. tail # <<>>
        BY <1>14
      <3> QED BY <1>1, <3>1
    <2>2. src' = Followed(accepted)
      BY <1>1, <1>2, <1>14, <2>1, FollowedFacts
    <2>3. outcome = "ok"
      BY <2>1, CompleteIsClosed
    <2>4. Len(src') = accepted + 3 /\ Len(Alone(accepted)) = accepted + 2
      BY <1>2, <2>2, FollowedFacts, AloneFacts
    <2>5. ~intact' /\ Len(src') # accepted + 2
      <3>1. Len(src') # accepted + 2
        BY <1>2, <2>4
      <3>2. src' # Alone(accepted)
        BY <2>4, <3>1, Zenon
      <3> QED BY <1>1, <3>1, <3>2, Zenon
    <2> QED
      <3>1. Beginning(All', accepted')
        BY <1>1, <1>2, <1>12, <2>2, BeginningFiles
      <3>2. ReaderFile'
        BY <1>1, <1>12, <2>3, <2>5 DEF ReaderFile
      <3>3. ReaderFlow'
        BY <1>1, <1>2, <1>3, <1>4, <1>9, <1>10, <3>1 DEF ReaderFlow
      <3>4. ReaderCall' /\ ReaderStalls' /\ EOFMeansIntact' /\ ErrorsExplained'
        BY <1>1, <1>4
           DEF ReaderCall, ReaderStalls, EOFMeansIntact, ErrorsExplained
      <3> QED BY <1>1, <1>8, <3>2, <3>3, <3>4 DEF ReaderInv
  <1> QED BY <1>13, <1>14

LEMMA ReadCallStep ==
    ASSUME ReaderInv, NEW n \in 0 .. Slice, Read(n)
    PROVE  ReaderInv'
  <1>1. /\ role' = "reader" /\ cl' = "read" /\ room' = n /\ rdErr' = "nil"
        /\ empty' = (empty \/ n = 0)
        /\ inBuf' = inBuf /\ z' = z /\ outBuf' = outBuf /\ dst' = dst
        /\ UNCHANGED <<src, closed, result, accepted, outcome, intact, failed,
                       told>>
    BY DEF Read, ReaderInv, stream
  <1>2. empty \in BOOLEAN
    BY DEF ReaderInv, TypeOK
  <1>3. empty' \in BOOLEAN /\ (empty => empty') /\ (n = 0 => empty')
    BY <1>1, <1>2
  <1>4. TypeOK'
    BY <1>1, <1>3 DEF ReaderInv, TypeOK
  <1>5. All' = All /\ Ahead' = Ahead
    BY <1>1 DEF All, Ahead
  <1>6. ReaderFlow' /\ ReaderFile'
    BY <1>1, <1>5 DEF ReaderInv, ReaderFlow, ReaderFile
  <1>7. ReaderCall'
    BY <1>1, <1>3 DEF ReaderCall
  <1>8. ReaderStalls'
    BY <1>1, <1>3 DEF ReaderInv, ReaderStalls
  <1>9. EOFMeansIntact'
    BY <1>1 DEF ReaderInv, EOFMeansIntact
  <1>10. ErrorsExplained'
    BY <1>1, <1>3 DEF ReaderInv, ErrorsExplained
  <1> QED BY <1>1, <1>4, <1>6, <1>7, <1>8, <1>9, <1>10 DEF ReaderInv

LEMMA CloseReaderStep ==
    ASSUME ReaderInv, CloseReader
    PROVE  ReaderInv'
  <1>1. /\ role' = role /\ cl' = cl /\ closed' = TRUE
        /\ inBuf' = inBuf /\ z' = z /\ outBuf' = outBuf /\ dst' = dst
        /\ UNCHANGED <<src, room, rdErr, result, accepted, outcome, intact,
                       failed, told, empty>>
    BY DEF CloseReader, stream
  <1>2. TypeOK'
    BY <1>1 DEF ReaderInv, TypeOK
  <1>3. All' = All /\ Ahead' = Ahead
    BY <1>1 DEF All, Ahead
  <1>4. ReaderFlow' /\ ReaderFile'
    BY <1>1, <1>3 DEF ReaderInv, ReaderFlow, ReaderFile
  <1>5. ReaderCall' /\ ReaderStalls'
    BY <1>1 DEF ReaderInv, ReaderCall, ReaderStalls
  <1>6. EOFMeansIntact' /\ ErrorsExplained'
    BY <1>1 DEF ReaderInv, EOFMeansIntact, ErrorsExplained
  <1> QED BY <1>1, <1>2, <1>4, <1>5, <1>6 DEF ReaderInv

\* The inductive invariant: that of the writer, then that of the reader.
LzmaInv == WriterInv \/ ReaderInv

LEMMA WriterNext ==
    ASSUME WriterInv, Next
    PROVE  LzmaInv'
  <1>1. role = "writer" /\ cl \in {"idle", "write", "close"}
    BY DEF WriterInv, TypeOK
  <1>2. CASE processWrite
    BY <1>2, processWriteStep DEF LzmaInv
  <1>3. CASE processClose
    BY <1>3, processCloseStep DEF LzmaInv
  <1>4. CASE processRead
    BY <1>1, <1>4 DEF processRead
  <1>5. CASE Close
    BY <1>5, CloseStep DEF LzmaInv
  <1>6. CASE CloseReader
    BY <1>1, <1>6 DEF CloseReader
  <1>7. ASSUME NEW n \in 0 .. Slice, Write(n) PROVE LzmaInv'
    BY <1>7, WriteStep DEF LzmaInv
  <1>8. ASSUME NEW n \in 0 .. Slice, Read(n) PROVE LzmaInv'
    BY <1>1, <1>8 DEF Read
  <1>9. ASSUME NEW tail \in {<<>>, <<Junk>>}, NewReader(tail) PROVE LzmaInv'
    BY <1>9, NewReaderStep DEF LzmaInv
  <1> QED BY <1>2, <1>3, <1>4, <1>5, <1>6, <1>7, <1>8, <1>9 DEF Next, Process

LEMMA ReaderNext ==
    ASSUME ReaderInv, Next
    PROVE  LzmaInv'
  <1>1. role = "reader" /\ cl \in {"idle", "read"}
    BY DEF ReaderInv, TypeOK
  <1>2. CASE processWrite
    BY <1>1, <1>2 DEF processWrite
  <1>3. CASE processClose
    BY <1>1, <1>3 DEF processClose
  <1>4. CASE processRead
    BY <1>4, processReadStep DEF LzmaInv
  <1>5. CASE Close
    BY <1>1, <1>5 DEF Close
  <1>6. CASE CloseReader
    BY <1>6, CloseReaderStep DEF LzmaInv
  <1>7. ASSUME NEW n \in 0 .. Slice, Write(n) PROVE LzmaInv'
    BY <1>1, <1>7 DEF Write
  <1>8. ASSUME NEW n \in 0 .. Slice, Read(n) PROVE LzmaInv'
    BY <1>8, ReadCallStep DEF LzmaInv
  <1>9. ASSUME NEW tail \in {<<>>, <<Junk>>}, NewReader(tail) PROVE LzmaInv'
    BY <1>1, <1>9 DEF NewReader
  <1> QED BY <1>2, <1>3, <1>4, <1>5, <1>6, <1>7, <1>8, <1>9 DEF Next, Process

LEMMA LzmaStutter ==
    ASSUME LzmaInv, UNCHANGED vars
    PROVE  LzmaInv'
  <1>1. /\ inBuf' = inBuf /\ z' = z /\ outBuf' = outBuf /\ dst' = dst
        /\ UNCHANGED <<role, cl, src, room, rdErr, closed, result, accepted,
                       outcome, intact, failed, told, empty>>
    BY DEF vars, stream
  <1>2. TypeOK => TypeOK'
    BY <1>1 DEF TypeOK
  <1>3. All' = All /\ Ahead' = Ahead
    BY <1>1 DEF All, Ahead
  <1>4. CASE WriterInv
    <2>1. WriterFlow' /\ WriterPhases'
      BY <1>1, <1>3, <1>4 DEF WriterInv, WriterFlow, WriterPhases
    <2>2. WriterSource' /\ WriterEnd' /\ WriterStalls'
      BY <1>1, <1>4 DEF WriterInv, WriterSource, WriterEnd, WriterStalls
    <2> QED BY <1>1, <1>2, <1>4, <2>1, <2>2 DEF WriterInv, LzmaInv
  <1>5. CASE ReaderInv
    <2>1. ReaderFlow' /\ ReaderFile'
      BY <1>1, <1>3, <1>5 DEF ReaderInv, ReaderFlow, ReaderFile
    <2>2. ReaderCall' /\ ReaderStalls'
      BY <1>1, <1>5 DEF ReaderInv, ReaderCall, ReaderStalls
    <2>3. EOFMeansIntact' /\ ErrorsExplained'
      BY <1>1, <1>5 DEF ReaderInv, EOFMeansIntact, ErrorsExplained
    <2> QED BY <1>1, <1>2, <1>5, <2>1, <2>2, <2>3 DEF ReaderInv, LzmaInv
  <1> QED BY <1>4, <1>5 DEF LzmaInv

\* The invariant holds throughout: while the client writes the file, and while
\* it reads it back.
THEOREM LzmaInvariant == Spec => []LzmaInv
  <1>1. Init => LzmaInv
    BY WriterInvInit DEF LzmaInv
  <1>2. LzmaInv /\ [Next]_vars => LzmaInv'
    BY WriterNext, ReaderNext, LzmaStutter DEF LzmaInv
  <1> QED BY <1>1, <1>2, PTL DEF Spec
-----------------------------------------------------------------------------
(***************************************************************************)
(* What the invariant says.                                                *)
(***************************************************************************)
\* A beginning is a prefix.
LEMMA BeginningPrefix ==
    ASSUME NEW n \in Nat, NEW s \in Seq(Int), Beginning(s, n)
    PROVE  IsPrefix(s, Followed(n))
  <1> DEFINE F == Followed(n)
             u == SubSeq(F, 1, Len(s))
  <1>1. F \in Seq(Int) /\ Len(F) = n + 3
    BY FollowedFacts
  <1>2. /\ Len(s) \in Nat /\ Len(s) <= n + 3
        /\ \A i \in 1 .. Len(s) : s[i] = F[i]
    BY DEF Beginning
  <1> HIDE DEF F
  <1>3. /\ u \in Seq(Int) /\ Len(u) = Len(s)
        /\ \A i \in 1 .. Len(s) : u[i] = F[i]
    <2>1. Len(s) \in 0 .. Len(F)
      BY <1>1, <1>2
    <2> QED BY <1>1, <2>1, SubSeqProperties
  <1> HIDE DEF u
  <1>4. s = u
    BY <1>2, <1>3, SeqEqual
  <1>5. SubSeq(s, 1, Len(s)) = s
    BY SplitAll
  <1> QED BY <1>1, <1>2, <1>4, <1>5 DEF IsPrefix, u, F

LEMMA WriterConserved ==
    ASSUME WriterInv
    PROVE  Conserved
  <1> DEFINE open == IF z.ended THEN <<>> ELSE <<EndUnit>>
  <1>1. /\ accepted \in Nat /\ dst \in Seq(Int) /\ outBuf.q \in Seq(Int)
        /\ z.held \in Seq(Int) /\ inBuf.q \in Seq(Int)
        /\ z.ended \in BOOLEAN
    BY TypeFacts, AheadFacts DEF WriterInv
  <1>2. (Ahead \o inBuf.q) \o open = Alone(accepted)
    <2>1. CASE z.ended
      <3>1. /\ dst \o outBuf.q = Alone(accepted)
            /\ z.held = <<>> /\ inBuf.q = <<>> /\ open = <<>>
        BY <2>1 DEF WriterInv, WriterFlow
      <3>2. Alone(accepted) \in Seq(Int)
        BY <1>1, AloneFacts
      <3>3. Alone(accepted) \o <<>> = Alone(accepted)
        BY <3>2, CatEmpty
      <3> HIDE DEF open
      <3> QED BY <3>1, <3>3, Zenon DEF Ahead
    <2>2. CASE ~z.ended
      <3>1. Ahead \o inBuf.q = Started(accepted) /\ open = <<EndUnit>>
        BY <2>2 DEF WriterInv, WriterFlow
      <3>2. Alone(accepted) = Started(accepted) \o <<EndUnit>>
        BY <1>1, AloneFacts
      <3> HIDE DEF open
      <3> QED BY <3>1, <3>2, Zenon
    <2> QED BY <1>1, <2>1, <2>2
  <1>3. role = "writer"
    BY DEF WriterInv
  <1> QED BY <1>2, <1>3 DEF Conserved, Ahead

LEMMA ReaderConserved ==
    ASSUME ReaderInv
    PROVE  Conserved
  <1> DEFINE h == BegunOf(z)
             p == h \o Ahead
             q == Passed(Ahead, z)
             r == q \o inBuf.q
  <1>1. /\ accepted \in Nat /\ src \in Seq(Int) /\ inBuf.q \in Seq(Int)
        /\ Ahead \in Seq(Int) /\ z.ended \in BOOLEAN
    BY TypeFacts, AheadFacts DEF ReaderInv
  <1>2. /\ h \in Seq(Int) /\ DoneOf(z) \in Seq(Int)
        /\ z.skip = 0 => Len(h) = 1
    BY MarksType
  <1>3. /\ HeaderFirst(Ahead, z) /\ Len(Ahead) <= accepted
        /\ Beginning(All, accepted)
    BY DEF ReaderInv, ReaderFlow
  <1>4. p \in Seq(Int)
    BY <1>1, <1>2, CatType
  <1>5. q = p \o DoneOf(z) /\ All = r \o src
    BY DEF Passed, All
  <1> HIDE DEF h, p, q
  <1>6. q \in Seq(Int)
    BY <1>2, <1>4, <1>5, CatType
  <1>7. r \in Seq(Int)
    BY <1>1, <1>6, CatType
  <1>8. Beginning(r, accepted)
    <2>1. Beginning(r \o src, accepted)
      BY <1>3, <1>5, Zenon
    <2> QED BY <1>1, <1>7, <2>1, BeginningShorter
  <1>9. Beginning(q, accepted)
    BY <1>1, <1>6, <1>8, BeginningShorter
  <1>10. Beginning(p, accepted)
    <2>1. Beginning(p \o DoneOf(z), accepted)
      BY <1>5, <1>9, Zenon
    <2> QED BY <1>1, <1>2, <1>4, <2>1, BeginningShorter
  <1>11. IsPrefix(Ahead, Units(accepted))
    <2>1. CASE z.skip = 0
      <3>1. Beginning(h \o Ahead, accepted)
        BY <1>10 DEF p
      <3> QED BY <1>1, <1>2, <1>3, <2>1, <3>1, BeginningData
    <2>2. CASE z.skip = 1
      <3>1. Ahead = <<>>
        BY <1>3, <2>2 DEF HeaderFirst
      <3>2. Units(accepted) \in Seq(Int)
        BY <1>1, UnitsFacts
      <3>3. IsPrefix(<<>>, Units(accepted))
        BY <3>2 DEF IsPrefix
      <3> QED BY <3>1, <3>3
    <2> QED BY <1>3, <2>1, <2>2 DEF HeaderFirst
  <1>12. All \in Seq(Int)
    BY <1>1, <1>5, <1>7, CatType
  <1>13. IsPrefix(All, Append(Alone(accepted), Junk))
    BY <1>1, <1>3, <1>12, BeginningPrefix DEF Followed
  <1>14. role = "reader" /\ (intact => All = Alone(accepted))
    BY DEF ReaderInv, ReaderFile
  <1> QED BY <1>11, <1>13, <1>14
          DEF Conserved, All, Passed, BegunOf, DoneOf, Ahead
-----------------------------------------------------------------------------
(***************************************************************************)
(* The theorems.                                                           *)
(***************************************************************************)
\* The rings never hold more than their size, and Write never counts more
\* units than it was passed, for rings and slices of any size.
THEOREM TypeCorrect == Spec => []TypeOK
  <1>1. LzmaInv => TypeOK
    BY DEF LzmaInv, WriterInv, ReaderInv
  <1> QED BY <1>1, LzmaInvariant, PTL

\* lib.Stream.Process, called again and again with one pair of rings, loses
\* and repeats nothing between source and destination, whatever fails: the
\* count that Write returns is where the client may go on.
THEOREM FileConserved == Spec => []Conserved
  <1>1. LzmaInv => Conserved
    BY WriterConserved, ReaderConserved DEF LzmaInv
  <1> QED BY <1>1, LzmaInvariant, PTL

\* The first Close of a Writer returns nil if and only if the sink has the
\* complete file.
THEOREM CloseIsHonest == Spec => []CloseTellsComplete
  <1>1. LzmaInv => CloseTellsComplete
    <2>1. ASSUME WriterInv PROVE CloseTellsComplete
      <3>1. dst = Alone(accepted) <=> z.ended /\ outBuf.q = <<>>
        BY <2>1, SinkComplete
      <3>2. /\ outcome \in {"none", "ok", "failed"}
            /\ outcome = "ok" => z.ended /\ outBuf.q = <<>>
            /\ outcome = "failed" => ~(z.ended /\ outBuf.q = <<>>)
        BY <2>1 DEF WriterInv, TypeOK, WriterEnd
      <3> QED BY <3>1, <3>2 DEF CloseTellsComplete
    <2>2. ASSUME ReaderInv PROVE CloseTellsComplete
      BY <2>2 DEF ReaderInv, CloseTellsComplete
    <2> QED BY <2>1, <2>2 DEF LzmaInv
  <1> QED BY <1>1, LzmaInvariant, PTL

\* Read returns io.EOF only for a file whose Writer was closed without an
\* error, after all of its data, and with nothing behind it unless a data
\* error has said so.
THEOREM EOFIsHonest == Spec => []EOFMeansIntact
  <1>1. LzmaInv => EOFMeansIntact
    BY DEF LzmaInv, WriterInv, ReaderInv, EOFMeansIntact
  <1> QED BY <1>1, LzmaInvariant, PTL

\* Write, Close and Read return no BUF_ERROR, no io.ErrUnexpectedEOF and no
\* data error that the client, the sink, the source or the file did not cause.
THEOREM ErrorsHaveCauses == Spec => []ErrorsExplained
  <1>1. LzmaInv => ErrorsExplained
    <2>1. ASSUME WriterInv PROVE ErrorsExplained
      <3>1. /\ result \in {"ok", "buf", "sink"}
            /\ result = "buf" => empty \/ failed >= 2
        BY <2>1 DEF WriterInv, WriterPhases, WriterStalls
      <3> QED BY <3>1 DEF ErrorsExplained
    <2>2. ASSUME ReaderInv PROVE ErrorsExplained
      BY <2>2 DEF ReaderInv
    <2> QED BY <2>1, <2>2 DEF LzmaInv
  <1> QED BY <1>1, LzmaInvariant, PTL
=============================================================================
