\* Three uploads, two names, two contents, two document ids. Requests are served
\* once each: TLC may find them all over and no document left.
SPECIFICATION Spec
CONSTANTS
    Uploads = {u1, u2, u3}
    Docs = {d1, d2}
    Names = {n1, n2}
    Scopes = {s1}
    Contents = {b1, b2}
    Unset = Unset
SYMMETRY Symmetry
INVARIANTS
    TypeOK
    VersionsNumbered
    SearchFindsLatest
    AckedLostToCreatorOnly
    OneDocumentPerName
    NoRepeatedVersion
CHECK_DEADLOCK FALSE
PROPERTIES
    ImplementsVersionStore
