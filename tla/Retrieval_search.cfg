\* Two documents of up to two versions of two chunks, fewer results than
\* candidates and fewer candidates than chunks; one question, then nothing.
SPECIFICATION Spec
CONSTANTS
    Docs = {d1, d2}
    Categories = {c1, c2}
    None = None
    MaxVersions = 2
    PerVersion = 2
    N = 2
    K = 3
    RRF_K = 60
    Confidences <- AllConfidences
    MinConfidence = 6
SYMMETRY Symmetry
CHECK_DEADLOCK FALSE
INVARIANTS
    TypeOK
    ContextsCoherent
    CitedAsFound
PROPERTIES
    FusionRespectsRanks
    UnchangedFound
