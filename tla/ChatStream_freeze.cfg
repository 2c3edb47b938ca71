\* A deletion on the event loop waits for a stream it should run.
SPECIFICATION FairSpec
CONSTANTS
    Streams = {s1, s2}
    Docs = {d1}
    Shared = {d1}
    Chats = {c1, c2}
    MaxTokens = 1
    ErrorText = ErrorText
    None = None
PROPERTIES
    StreamsEnd
