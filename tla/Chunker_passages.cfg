\* Texts of up to three paragraphs of up to two sentences, the limits scaled
\* down; the call ends.
SPECIFICATION Spec
CONSTANTS
    Texts <- ShapedTexts
    Blanks <- BlankSets
    Limits <- ScaledLimits
    MinChunk = 4
    Space = Space
    Newline = Newline
    MaxParagraphs = 3
    MaxSentences = 2
    Lengths = {1, 4, 9}
CHECK_DEADLOCK FALSE
INVARIANTS
    NothingLost
    SizeBounded
    Passages
