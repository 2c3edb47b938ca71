\* Three users, two concurrent admin requests, two codes.
SPECIFICATION Spec
CONSTANTS
    Users = {u1, u2, u3}
    FirstAdmin = u1
    Requests = {r1, r2}
    MaxAttempts = 1
    MaxIssues = 2
    MaxUncounted = 1
    NoRole = NoRole
    Nobody = Nobody
SYMMETRY Symmetry
INVARIANTS
    ActiveAdminRemains
    LiveCodeIsLastIssued
    GuessesBounded
