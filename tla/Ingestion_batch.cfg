\* A batch with a file that cannot be parsed.
SPECIFICATION Spec
CONSTANTS
    FileNames = {n1, n2}
    Requests <- SomeRequests
    MaxBatch = 2
    MaxAttempts = 3
    Messages <- SomeMessages
    Antiword = TRUE
    MaxRepeats = 1
    MaxDeletions = 1
    Unset = Unset
CHECK_DEADLOCK FALSE
INVARIANTS
    InvalidFileReported
