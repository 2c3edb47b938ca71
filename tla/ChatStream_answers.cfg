\* Two questions, a document, two chats, answers of two deltas. No symmetry: it
\* is unsound for liveness.
SPECIFICATION FairSpec
CONSTANTS
    Streams = {s1, s2}
    Docs = {d1}
    Shared = {d1}
    Chats = {c1, c2}
    MaxTokens = 2
    ErrorText = ErrorText
    None = None
INVARIANTS
    TypeOK
    StoredAsSent
    SourcedUnlessDeleted
PROPERTIES
    ImplementsStreamContract
    StreamsEndOrFreeze
