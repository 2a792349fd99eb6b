------------------------------ MODULE MCReader ------------------------------
(***************************************************************************)
(* Model checking of Reader.                                               *)
(***************************************************************************)
EXTENDS Reader

\* A block with the given data; an index of the least length and a longer one.
BlockOf(units) == <<BlockStart>> \o units \o <<EndUnit>>
Index == <<IndexStart, IndexEnd>>
LongIndex == <<IndexStart, IndexStart, IndexEnd>>

\* Two blocks and padding; two streams with padding between them; one stream
\* without any block.
MCFiles == {
    Header \o BlockOf(<<1, 2, 3>>) \o BlockOf(<<4>>) \o Index \o Footer
      \o <<Pad>>,
    Header \o BlockOf(<<1, 2>>) \o Index \o Footer \o <<Pad, Pad>>
      \o Header \o BlockOf(<<3>>) \o Index \o Footer,
    Header \o LongIndex \o Footer }

\* Data is what one would write for TLC.
ASSUME DataAssumption == \A f \in MCFiles : Data(f) = SelectSeq(f, IsData)
=============================================================================
