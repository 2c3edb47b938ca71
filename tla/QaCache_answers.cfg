\* Two similar questions, a category beside the global scope, an L1 of one
\* entry, two changes that may overlap.
SPECIFICATION Spec
CONSTANTS
    Categories = {c1}
    NoCategory = NoCategory
    Questions = {q1, q2}
    Similar <- AllSimilar
    Asks = {a1}
    Changes = {w1, w2}
    L1Max = 1
    Contents <- TwoChanges
    Absent = Absent
SYMMETRY Symmetry
INVARIANTS
    TypeOK
    L1Bounded
    AnswerMatchesKey
    GenerationGuardsSearch
    FreshUnlessOverlapped
