\* Two users and requests without one, three folders and one chat.
SPECIFICATION TreeSpec
CONSTANTS
    Owners = {u1, u2}
    Folders = {f1, f2, f3}
    Chats = {c1}
    None = None
    NoOwner = NoOwner
SYMMETRY Symmetry
INVARIANTS
    TreeTypeOK
    Acyclic
    UsersMeetBelowOwnerless
