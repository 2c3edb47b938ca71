\* Requests of one or two files, sent twice, with one deletion beside them;
\* then nothing happens any more.
SPECIFICATION Spec
CONSTANTS
    FileNames = {n1, n2}
    Requests <- SomeRequests
    MaxBatch = 2
    MaxAttempts = 3
    Messages <- SomeMessages
    Antiword = TRUE
    MaxRepeats = 1
    MaxDeletions = 1
    Unset = Unset
CHECK_DEADLOCK FALSE
INVARIANTS
    TypeOK
    RepeatsAppendNothing
    PagesTrue
    RetriesAsPromised
PROPERTIES
    ItemsTruthful
