------------------------------ MODULE MCChunker ------------------------------
(* Instances of Chunker for TLC. *)
EXTENDS Chunker, FiniteSets, FiniteSetsExt, SequencesExt

CONSTANTS MaxParagraphs, MaxSentences, Lengths

(* The lengths of the sentences of each paragraph *)
Shapes == BoundedSeq(BoundedSeq(Lengths, MaxSentences) \ {<<>>}, MaxParagraphs) \ {<<>>}

(* The characters before sentence s of paragraph p *)
Before(shape, p, s) ==
    FoldSeq(LAMBDA x, y : x + y, 0, FlattenSeq(SubSeq(shape, 1, p - 1)))
        + FoldSeq(LAMBDA x, y : x + y, 0, SubSeq(shape[p], 1, s - 1))

TextOf(shape) ==
    [p \in DOMAIN shape |-> [s \in DOMAIN shape[p] |->
        [i \in 1..shape[p][s] |-> Before(shape, p, s) + i]]]

(* Every third, every fifth, or a single position is blank. *)
BlankSets == {{}, {2}, {q \in 1..60 : q % 3 = 2}, {q \in 1..60 : q % 5 = 2}}

(* Overlaps of none, one, less and more than half of max, and beyond it *)
ScaledLimits == {<<8, 0>>, <<8, 2>>, <<8, 3>>, <<7, 5>>, <<5, 5>>, <<4, 6>>}

ShapedTexts == {TextOf(shape) : shape \in Shapes}
=============================================================================
