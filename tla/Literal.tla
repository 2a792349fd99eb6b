------------------------------- MODULE Literal -------------------------------
(***************************************************************************)
(* xz/literal.go: how large a literal block is said to be, and the encoder *)
(* that writes it; and the sizes that NewWriterCustom and blockEncode      *)
(* derive from it.  The output slice was allocated for a full chunk, with  *)
(* literalBlockSize(check, chunkSize) bytes, before the input was known;   *)
(* a byte written past its end is a Go panic.                              *)
(*                                                                         *)
(* Bytes are counted, not stored: the sizes the encoder writes into the    *)
(* chunk headers are the only values a decoder depends on.                 *)
(***************************************************************************)
EXTENDS Integers, Sequences

CONSTANTS LiteralChunk, \* literalChunkSize, and one more than the largest uint16
          Group,        \* values of one byte of a variable-length integer
          ChunkLowest,  \* the range of chunk sizes
          ChunkHighest,
          Requests      \* bound: the chunk sizes asked for

ASSUME LiteralAssumption ==
    /\ LiteralChunk \in Nat \ {0}
    /\ Group \in Nat \ {0, 1}
    /\ ChunkLowest \in Nat \ {0} /\ ChunkHighest \in Nat
    /\ ChunkLowest <= ChunkHighest
    /\ Requests \subseteq Int

Checks == {"CheckNone", "CheckCRC32", "CheckCRC64", "CheckSHA256"}

CheckSize(check) ==
    CASE check = "CheckNone" -> 0
      [] check = "CheckCRC32" -> 4
      [] check = "CheckCRC64" -> 8
      [] check = "CheckSHA256" -> 32

Padding(n) == (4 - (n % 4)) % 4

\* Bytes of a variable-length integer, at most nine.
VliSize(n) ==
    CHOOSE k \in 1 .. 9 : n < Group ^ k /\ \A j \in 1 .. k - 1 : n >= Group ^ j

\* lzma_block_header_size: a size byte, a flags byte, the two sizes, three
\* bytes for the LZMA2 filter and a CRC32, padded to a multiple of four.
HeaderSize(compSize, uncompSize) ==
    LET bytes == 2 + VliSize(compSize) + VliSize(uncompSize) + 3 + 4
    IN  bytes + Padding(bytes)

literalCompSize(uncompSize) ==
    LET numChunks == (uncompSize + LiteralChunk - 1) \div LiteralChunk
    IN  uncompSize + 3 * numChunks + 1

\* Mutant: the padding is forgotten.
literalBlockSizeUnpadded(check, uncompSize) ==
    LET compSize == literalCompSize(uncompSize)
    IN  HeaderSize(compSize, uncompSize) + compSize + CheckSize(check)

literalBlockSize(check, uncompSize) ==
    LET compSize == literalCompSize(uncompSize)
    IN  HeaderSize(compSize, uncompSize) + compSize + Padding(compSize)
          + CheckSize(check)

\* The sizes of the largest blocks can be written as variable-length integers.
ASSUME SizesAssumption ==
    \A size \in {literalCompSize(ChunkHighest)}
                 \cup {literalBlockSize(check, ChunkHighest) : check \in Checks} :
      \E k \in 1 .. 9 : size < Group ^ k
-----------------------------------------------------------------------------
ChunkStream == -1

\* The chunk size that NewWriterCustom makes of the one it is given.
ChunkSizeFor(request) ==
    IF request < 0 THEN ChunkStream
    ELSE IF request < ChunkLowest THEN ChunkLowest
    ELSE IF request > ChunkHighest THEN ChunkHighest
    ELSE request

\* lzma_block_header_size refuses a block without compressed data, and with it
\* literalBlockSize and NewWriterCustom fail: a literal block of ChunkStream
\* bytes has the compressed size 0.
Refused(chunkSize) == literalCompSize(chunkSize) = 0

\* Mutant: space for a header without sizes.
ReservedUnsized(check, chunkSize) == 2 + 3 + 4 + Padding(2 + 3 + 4)

\* What blockEncode leaves free for the header of a compressed block, before
\* its sizes are known.  blockInit is given the two sizes the wrong way round.
Reserved(check, chunkSize) ==
    HeaderSize(chunkSize, literalBlockSize(check, chunkSize))
-----------------------------------------------------------------------------
VARIABLES pc,        \* "header", "chunks", "pad", "check" or "done"; or
                     \* "refused": there is no Writer
          check,     \* the check type of the stream
          chunkSize, \* the size the output slice was allocated for
          uncomp,    \* len(input)
          inCnt,     \* input bytes copied
          cnt,       \* output bytes written
          pad,       \* padding bytes among them
          sizes      \* the size fields of the chunk headers

vars == <<pc, check, chunkSize, uncomp, inCnt, cnt, pad, sizes>>

TypeOK ==
    /\ pc \in {"refused", "header", "chunks", "pad", "check", "done"}
    /\ check \in Checks
    /\ chunkSize \in {ChunkStream} \cup (ChunkLowest .. ChunkHighest)
    /\ uncomp \in 0 .. ChunkHighest
    /\ inCnt \in Nat
    /\ cnt \in Nat
    /\ pad \in 0 .. 3
    /\ sizes \in Seq(0 .. LiteralChunk - 1)

Init ==
    /\ check \in Checks
    /\ \E request \in Requests : chunkSize = ChunkSizeFor(request)
    /\ IF Refused(chunkSize) THEN pc = "refused" /\ uncomp = 0
                             ELSE pc = "header" /\ uncomp \in 1 .. chunkSize
    /\ inCnt = 0 /\ cnt = 0 /\ pad = 0
    /\ sizes = <<>>

encodeHeader ==
    /\ pc = "header"
    /\ cnt' = cnt + HeaderSize(literalCompSize(uncomp), uncomp)
    /\ pc' = "chunks"
    /\ UNCHANGED <<check, chunkSize, uncomp, inCnt, pad, sizes>>

\* The bytes of the next literal chunk.
ChunkLen ==
    IF uncomp - inCnt > LiteralChunk THEN LiteralChunk ELSE uncomp - inCnt

\* Mutant: the length itself is stored.
SizeFieldPlain(len) == len % LiteralChunk

\* uint16(len(chunk) - 1)
SizeField(len) == (len - 1) % LiteralChunk

\* The marker, the size and the data.
encodeChunk ==
    /\ pc = "chunks" /\ inCnt < uncomp
    /\ sizes' = Append(sizes, SizeField(ChunkLen))
    /\ cnt' = cnt + 1 + 2 + ChunkLen
    /\ inCnt' = inCnt + LiteralChunk
    /\ UNCHANGED <<pc, check, chunkSize, uncomp, pad>>

encodeEndMarker ==
    /\ pc = "chunks" /\ inCnt >= uncomp
    /\ cnt' = cnt + 1
    /\ pc' = "pad"
    /\ UNCHANGED <<check, chunkSize, uncomp, inCnt, pad, sizes>>

encodePadding ==
    /\ pc = "pad"
    /\ IF cnt % 4 > 0
       THEN cnt' = cnt + 1 /\ pad' = pad + 1 /\ UNCHANGED pc
       ELSE pc' = "check" /\ UNCHANGED <<cnt, pad>>
    /\ UNCHANGED <<check, chunkSize, uncomp, inCnt, sizes>>

encodeCheck ==
    /\ pc = "check"
    /\ cnt' = cnt + CheckSize(check)
    /\ pc' = "done"
    /\ UNCHANGED <<check, chunkSize, uncomp, inCnt, pad, sizes>>

literalBlockEncode ==
    \/ encodeHeader \/ encodeChunk \/ encodeEndMarker \/ encodePadding
    \/ encodeCheck

Spec == Init /\ [][literalBlockEncode]_vars
-----------------------------------------------------------------------------
\* "The output slice must be large enough, as calculated with
\* literalBlockSize": sized for a full chunk, it holds the literal block of
\* any shorter input too, although header and padding vary with the size.
OutputFits ==
    pc # "refused" => cnt <= literalBlockSize(check, chunkSize)

\* blockEncode reserves the header before it compresses and encodes it
\* afterwards: whatever size the compressed block turns out to have, as long
\* as it fits the slice, its header fits what was reserved.
HeaderFits ==
    pc = "header" =>
      LET maxSize == literalBlockSize(check, chunkSize)
          reserved == Reserved(check, chunkSize)
      IN  \A comp \in 1 .. maxSize - reserved - CheckSize(check) :
            HeaderSize(comp, uncomp) <= reserved

\* A decoder that adds one to each 16-bit size cuts the input exactly where
\* the encoder did: a chunk ends where the next one begins, and the last one
\* ends the input.  The sizes in the block header and in the index (cnt - pad
\* is the unpadded size) are those of what was written.
Decodable ==
    pc = "done" =>
      /\ sizes # <<>>
      /\ \A i \in 1 .. Len(sizes) :
           LiteralChunk * (i - 1) + sizes[i] + 1
             = IF i < Len(sizes) THEN LiteralChunk * i ELSE uncomp
      /\ cnt - pad = HeaderSize(literalCompSize(uncomp), uncomp)
                       + literalCompSize(uncomp) + CheckSize(check)
      /\ cnt = literalBlockSize(check, uncomp)
=============================================================================
