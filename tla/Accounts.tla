------------------------------ MODULE Accounts -------------------------------
(***************************************************************************)
(* User accounts: registration and password resets                         *)
(* (src/services/auth_service.py), and the administration of roles and     *)
(* activity (src/services/admin_service.py) behind require_admin           *)
(* (src/auth.py).                                                          *)
(*                                                                         *)
(* The handlers run on the event loop without giving way, so each is one   *)
(* step; but require_admin runs before them on a worker thread, and any    *)
(* number of other handlers may run between the check of an admin and what *)
(* the admin's request does.                                               *)
(*                                                                         *)
(* A user is an email; a code is the row that holds it, and whether an     *)
(* entered code is the right one is a free choice.                         *)
(***************************************************************************)
EXTENDS Naturals, FiniteSets

CONSTANTS
    Users,          \* emails
    FirstAdmin,     \* the user promoted by hand after the first migration
    Requests,       \* concurrent requests to /admin/users
    MaxAttempts,    \* _MAX_ATTEMPTS
    MaxIssues,      \* bound on the codes issued
    MaxUncounted,   \* bound on the failed writes of a code's attempts
    NoRole,         \* the role of an email that is not registered
    Nobody          \* no user

ASSUME UsersAssumption == IsFiniteSet(Users) /\ FirstAdmin \in Users /\ Nobody \notin Users
ASSUME LimitsAssumption == MaxAttempts \in Nat /\ MaxIssues \in Nat /\ MaxUncounted \in Nat
ASSUME NoRoleAssumption == NoRole \notin {"admin", "editor", "viewer"}

Roles == {"admin", "editor", "viewer"}

(* Rows of password_reset_codes, by the order of their created_at. *)
Issues == 1 .. MaxIssues
Codes == [user : Users \union {Nobody}, attempts : Nat, expired : BOOLEAN,
          state : {"none", "unused", "used", "deleted"}]
NoCode == [user |-> Nobody, attempts |-> 0, expired |-> FALSE, state |-> "none"]

VARIABLES
    role,        \* role of each user, NoRole before registration
    active,      \* is_active of each user
    acting,      \* the admin a request was authenticated as, or Nobody
    issued,      \* the number of codes issued
    codes,       \* the row of each issued code
    missed,      \* history: wrong codes compared with each row
    uncounted,   \* history: those whose count could not be written
    resets       \* history: passwords changed with each row

users == <<role, active, acting>>
resetting == <<issued, codes, missed, uncounted, resets>>
vars == <<users, resetting>>

Init ==
    /\ role = [u \in Users |-> IF u = FirstAdmin THEN "admin" ELSE NoRole]
    /\ active = [u \in Users |-> TRUE]
    /\ acting = [r \in Requests |-> Nobody]
    /\ issued = 0
    /\ codes = [i \in Issues |-> NoCode]
    /\ missed = [i \in Issues |-> 0]
    /\ uncounted = [i \in Issues |-> 0]
    /\ resets = [i \in Issues |-> 0]

-----------------------------------------------------------------------------
(* Roles *)

(* register: a new user is an active viewer; a known email is a conflict. *)
Register(u) ==
    /\ role[u] = NoRole
    /\ role' = [role EXCEPT ![u] = "viewer"]
    /\ active' = [active EXCEPT ![u] = TRUE]
    /\ UNCHANGED <<acting, resetting>>

(* authenticate_token reads the user of the token again on every request,  *)
(* require_role compares the role it reads.                                *)
Authorize(r, u) ==
    /\ acting[r] = Nobody
    /\ active[u]
    /\ role[u] = "admin"
    /\ acting' = [acting EXCEPT ![r] = u]
    /\ UNCHANGED <<role, active, resetting>>

ActiveAdmins == {u \in Users : role[u] = "admin" /\ active[u]}

(* variant of LastActiveAdmin: deactivated admins are counted as well *)
LastActiveAdminOfAll(u) ==
    u \in ActiveAdmins /\ Cardinality({v \in Users : role[v] = "admin"}) <= 1

(* _ensure_not_last_admin raises *)
LastActiveAdmin(u) == u \in ActiveAdmins /\ Cardinality(ActiveAdmins) <= 1

SetUserRole(r, u, new) ==
    /\ acting[r] # Nobody
    /\ role[u] # NoRole
    /\ new # "admin" => ~LastActiveAdmin(u)
    /\ role' = [role EXCEPT ![u] = new]
    /\ acting' = [acting EXCEPT ![r] = Nobody]
    /\ UNCHANGED <<active, resetting>>

SetUserActive(r, u, is_active) ==
    /\ acting[r] # Nobody
    /\ role[u] # NoRole
    /\ ~is_active => ~LastActiveAdmin(u)
    /\ active' = [active EXCEPT ![u] = is_active]
    /\ acting' = [acting EXCEPT ![r] = Nobody]
    /\ UNCHANGED <<role, resetting>>

(* The request ends without a change: a conflict, an unknown user, another  *)
(* admin operation, a failed transaction, or a restart.                     *)
EndUnchanged(r) ==
    /\ acting[r] # Nobody
    /\ acting' = [acting EXCEPT ![r] = Nobody]
    /\ UNCHANGED <<role, active, resetting>>

-----------------------------------------------------------------------------
(* Password resets *)

Unused(i) == codes[i].state = "unused"

(* A new row, and the deletion of some others *)
IssueCode(u, replaced) ==
    /\ issued < MaxIssues
    /\ issued' = issued + 1
    /\ codes' = [i \in Issues |->
         IF i = issued + 1
         THEN [user |-> u, attempts |-> 0, expired |-> FALSE, state |-> "unused"]
         ELSE IF i \in replaced THEN [codes[i] EXCEPT !.state = "deleted"]
         ELSE codes[i]]
    /\ UNCHANGED <<users, missed, uncounted, resets>>

UnusedOf(u) == {i \in Issues : Unused(i) /\ codes[i].user = u}

(* variant of RequestPasswordReset: the unused codes of the user stay *)
RequestPasswordResetKeepsOld(u) == role[u] # NoRole /\ IssueCode(u, {})

(* request_password_reset deletes the unused codes of the user and adds a   *)
(* new one in one transaction.  Sending it may fail without an effect here. *)
RequestPasswordReset(u) == role[u] # NoRole /\ IssueCode(u, UnusedOf(u))

(* The row reset_password selects: the latest unused code of the user *)
Selected(u) == {i \in UnusedOf(u) : \A j \in UnusedOf(u) : j <= i}

(* variant of Usable: one attempt too many *)
UsableOnceMore(i) == ~codes[i].expired /\ codes[i].attempts <= MaxAttempts

(* The checks before the code is compared *)
Usable(i) == ~codes[i].expired /\ codes[i].attempts < MaxAttempts

(* A wrong code is counted, or the transaction that counts it fails and the *)
(* exception is suppressed.                                                 *)
WrongCode(u) == \E i \in Selected(u) :
    /\ Usable(i)
    /\ missed' = [missed EXCEPT ![i] = @ + 1]
    /\ \/ /\ codes' = [codes EXCEPT ![i].attempts = @ + 1]
          /\ UNCHANGED uncounted
       \/ /\ uncounted[i] < MaxUncounted
          /\ uncounted' = [uncounted EXCEPT ![i] = @ + 1]
          /\ UNCHANGED codes
    /\ UNCHANGED <<users, issued, resets>>

(* The right code changes the password and is used up in one transaction. *)
RightCode(u) == \E i \in Selected(u) :
    /\ Usable(i)
    /\ codes' = [codes EXCEPT ![i].state = "used"]
    /\ resets' = [resets EXCEPT ![i] = @ + 1]
    /\ UNCHANGED <<users, issued, missed, uncounted>>

(* Fifteen minutes after it was issued a code is worth nothing; an earlier  *)
(* code expires earlier.                                                    *)
Expire(i) ==
    /\ i <= issued
    /\ ~codes[i].expired
    /\ \A j \in 1 .. i - 1 : codes[j].expired
    /\ codes' = [codes EXCEPT ![i].expired = TRUE]
    /\ UNCHANGED <<users, issued, missed, uncounted, resets>>

Next ==
    \/ \E u \in Users :
         \/ Register(u) \/ RequestPasswordReset(u) \/ WrongCode(u) \/ RightCode(u)
         \/ \E r \in Requests :
              \/ Authorize(r, u)
              \/ \E new \in Roles : SetUserRole(r, u, new)
              \/ \E is_active \in BOOLEAN : SetUserActive(r, u, is_active)
    \/ \E r \in Requests : EndUnchanged(r)
    \/ \E i \in Issues : Expire(i)

Spec == Init /\ [][Next]_vars

-----------------------------------------------------------------------------
(* Properties *)

(* Every variable has its type; a code that was issued belongs to a         *)
(* registered user, and a request acts for one.                             *)
TypeOK ==
    /\ role \in [Users -> Roles \union {NoRole}]
    /\ active \in [Users -> BOOLEAN]
    /\ acting \in [Requests -> Users \union {Nobody}]
    /\ issued \in 0 .. MaxIssues
    /\ codes \in [Issues -> Codes]
    /\ \A i \in Issues : IF i <= issued
         THEN codes[i].user \in Users /\ role[codes[i].user] # NoRole
         ELSE codes[i] = NoCode
    /\ \A r \in Requests : acting[r] # Nobody => role[acting[r]] # NoRole
    /\ missed \in [Issues -> Nat]
    /\ uncounted \in [Issues -> 0 .. MaxUncounted]
    /\ resets \in [Issues -> Nat]

(* However role changes and deactivations of admins who were checked before *)
(* the others acted are interleaved, even of two admins who demote each     *)
(* other, one active admin remains (_ensure_not_last_admin).                *)
ActiveAdminRemains == ActiveAdmins # {}

(* A code that can still change a password is the last one issued to its    *)
(* user and has changed none yet, so that an old email or a replay is worth *)
(* nothing (request_password_reset, reset_password).                        *)
LiveCodeIsLastIssued ==
    \A i \in Issues : Unused(i) =>
        /\ resets[i] = 0
        /\ \A j \in Issues : j > i => codes[j].user # codes[i].user

(* No code is compared with more than _MAX_ATTEMPTS wrong guesses, but for  *)
(* those whose count the database refused to write: that failure is         *)
(* suppressed, and the guess is free.                                       *)
GuessesBounded == \A i \in Issues : missed[i] <= MaxAttempts + uncounted[i]
=============================================================================
