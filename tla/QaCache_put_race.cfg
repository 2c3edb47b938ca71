\* One ask and one change: the check of put against a concurrent invalidation.
SPECIFICATION Spec
CONSTANTS
    Categories = {}
    NoCategory = NoCategory
    Questions = {q1}
    Similar <- AllSimilar
    Asks = {a1}
    Changes = {w1}
    L1Max = 1
    Contents <- OneChange
    Absent = Absent
INVARIANTS
    PutNeverResurrects
