------------------------------ MODULE TextPieces ------------------------------
(***************************************************************************)
(* Text as a sequence of pieces [text, size]: what a piece stands for and  *)
(* its length in bytes.                                                    *)
(***************************************************************************)
EXTENDS Integers, Sequences, SequencesExt

Bytes(text) == FoldLeft(LAMBDA total, p : total + p.size, 0, text)

\* What a reader sees of pieces that may be empty.
TextOf(pieces) ==
    FoldLeft(LAMBDA text, p : IF p.size = 0 THEN text ELSE Append(text, p), <<>>, pieces)
=============================================================================
