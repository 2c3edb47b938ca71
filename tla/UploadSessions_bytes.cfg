\* Three requests under way together, a file of three bytes.
SPECIFICATION Spec
CONSTANTS
    Requests = {r1, r2, r3}
    TotalSize = 3
    NoRow = NoRow
SYMMETRY Symmetry
INVARIANTS
    TypeOK
    BytesKept
    SequentialClientSafe
PROPERTIES
    FirstIngestionWhole
