------------------------------ MODULE UsersProofs ------------------------------
(***************************************************************************)
(* What is kept of users: the invariants of Accounts, for any finite set   *)
(* of users and any limits, and those of FolderTree, for any folders and   *)
(* chats.  No action of the one touches a variable of the other.           *)
(*                                                                         *)
(* ActiveAdminRemains is inductive with TypeOK: a step that takes an admin *)
(* away found another one when it counted.  The properties of codes follow *)
(* from CodesKept, which gives what has been counted for each row: what    *)
(* was missed is what the row counted and what it could not.               *)
(*                                                                         *)
(* Acyclic is inductive with TreeTypeOK.  UsersMeetBelowOwnerless follows  *)
(* from a local invariant, OwnTree: until a request without a user moves   *)
(* something, a folder and its parent, a chat and its folder, or the two   *)
(* of a move under way are of one user unless one of them is ownerless.    *)
(***************************************************************************)
EXTENDS Accounts, FolderTree, FiniteSetTheorems, TLAPS

-----------------------------------------------------------------------------
(* Accounts *)

CodesKept ==
    /\ \A i \in Issues : i > issued =>
         missed[i] = 0 /\ uncounted[i] = 0 /\ resets[i] = 0
    /\ \A i \in Issues :
         /\ codes[i].attempts <= MaxAttempts
         /\ missed[i] = codes[i].attempts + uncounted[i]

Inv == TypeOK /\ ActiveAdminRemains /\ CodesKept /\ LiveCodeIsLastIssued

-----------------------------------------------------------------------------

LEMMA Initially == Init => Inv
<1> SUFFICES ASSUME Init PROVE Inv
    OBVIOUS
<1> USE UsersAssumption, LimitsAssumption, NoRoleAssumption DEF Init
<1>1. TypeOK
    BY DEF TypeOK, Roles, Issues, Codes, NoCode
<1>2. ActiveAdminRemains
    BY DEF ActiveAdminRemains, ActiveAdmins
<1>3. CodesKept
    BY DEF CodesKept, Issues, NoCode
<1>4. LiveCodeIsLastIssued
    BY DEF LiveCodeIsLastIssued, Unused, Issues, NoCode
<1> QED BY <1>1, <1>2, <1>3, <1>4 DEF Inv

(* Who is not the last active admin leaves another one behind. *)
LEMMA AnotherAdmin ==
    ASSUME ActiveAdminRemains, NEW u \in Users, ~LastActiveAdmin(u)
    PROVE  \E v \in ActiveAdmins : v # u
<1>1. IsFiniteSet(ActiveAdmins)
    BY UsersAssumption, FS_Subset DEF ActiveAdmins
<1>2. CASE u \notin ActiveAdmins
    BY <1>2 DEF ActiveAdminRemains
<1>3. CASE u \in ActiveAdmins
    <2>1. Cardinality({u}) = 1
        BY FS_Singleton
    <2>2. ActiveAdmins # {u}
        BY <1>3, <2>1 DEF LastActiveAdmin
    <2> QED BY <1>3, <2>2
<1> QED BY <1>2, <1>3

(* What the steps that leave the codes alone keep of the invariant. *)
LEMMA CodesUntouched ==
    ASSUME CodesKept, LiveCodeIsLastIssued, UNCHANGED resetting
    PROVE  CodesKept' /\ LiveCodeIsLastIssued'
BY DEF resetting, CodesKept, LiveCodeIsLastIssued, Unused

(* The admins do not depend on the codes and the requests. *)
LEMMA AdminsUntouched ==
    ASSUME ActiveAdminRemains, UNCHANGED <<role, active>>
    PROVE  ActiveAdminRemains'
BY DEF ActiveAdminRemains, ActiveAdmins

-----------------------------------------------------------------------------

LEMMA RegisterInv ==
    ASSUME Inv, NEW u \in Users, Register(u)
    PROVE  Inv'
<1> USE DEF Inv
<1>1. TypeOK'
    BY NoRoleAssumption DEF TypeOK, Register, resetting, Roles
<1>2. ActiveAdminRemains'
    <2>1. PICK v \in ActiveAdmins : TRUE
        BY DEF ActiveAdminRemains
    <2>2. v # u /\ v \in Users
        BY <2>1, NoRoleAssumption DEF ActiveAdmins, Register
    <2>3. role'[v] = role[v] /\ active'[v] = active[v]
        BY <2>2 DEF Register, TypeOK
    <2> QED BY <2>1, <2>2, <2>3 DEF ActiveAdmins, ActiveAdminRemains
<1> QED BY <1>1, <1>2, CodesUntouched DEF Register

LEMMA AuthorizeInv ==
    ASSUME Inv, NEW u \in Users, NEW r \in Requests, Authorize(r, u)
    PROVE  Inv'
<1> USE DEF Inv
<1>1. TypeOK'
    BY NoRoleAssumption DEF TypeOK, Authorize, resetting, Roles
<1> QED BY <1>1, AdminsUntouched, CodesUntouched DEF Authorize

LEMMA SetUserRoleInv ==
    ASSUME Inv, NEW u \in Users, NEW r \in Requests, NEW new \in Roles,
           SetUserRole(r, u, new)
    PROVE  Inv'
<1> USE DEF Inv
<1>1. TypeOK'
    BY NoRoleAssumption DEF TypeOK, SetUserRole, resetting, Roles
<1>2. ActiveAdminRemains'
    <2>1. PICK v \in ActiveAdmins : new = "admin" \/ v # u
        BY AnotherAdmin DEF SetUserRole, ActiveAdminRemains
    <2>2. v \in Users /\ role[v] = "admin" /\ active[v]
        BY <2>1 DEF ActiveAdmins
    <2>3. role'[v] = "admin" /\ active' = active
        BY <2>1, <2>2 DEF SetUserRole, TypeOK
    <2> QED BY <2>2, <2>3 DEF ActiveAdmins, ActiveAdminRemains
<1> QED BY <1>1, <1>2, CodesUntouched DEF SetUserRole

LEMMA SetUserActiveInv ==
    ASSUME Inv, NEW u \in Users, NEW r \in Requests, NEW is_active \in BOOLEAN,
           SetUserActive(r, u, is_active)
    PROVE  Inv'
<1> USE DEF Inv
<1>1. TypeOK'
    BY NoRoleAssumption DEF TypeOK, SetUserActive, resetting, Roles
<1>2. ActiveAdminRemains'
    <2>1. PICK v \in ActiveAdmins : is_active \/ v # u
        BY AnotherAdmin DEF SetUserActive, ActiveAdminRemains
    <2>2. v \in Users /\ role[v] = "admin" /\ active[v]
        BY <2>1 DEF ActiveAdmins
    <2>3. role' = role /\ active'[v]
        BY <2>1, <2>2 DEF SetUserActive, TypeOK
    <2> QED BY <2>2, <2>3 DEF ActiveAdmins, ActiveAdminRemains
<1> QED BY <1>1, <1>2, CodesUntouched DEF SetUserActive

LEMMA EndUnchangedInv ==
    ASSUME Inv, NEW r \in Requests, EndUnchanged(r)
    PROVE  Inv'
<1> USE DEF Inv
<1>1. TypeOK'
    BY UsersAssumption DEF TypeOK, EndUnchanged, resetting
<1> QED BY <1>1, AdminsUntouched, CodesUntouched DEF EndUnchanged

-----------------------------------------------------------------------------

LEMMA RequestPasswordResetInv ==
    ASSUME Inv, NEW u \in Users, RequestPasswordReset(u)
    PROVE  Inv'
<1> USE LimitsAssumption DEF Inv, RequestPasswordReset, IssueCode, users, Issues
<1> DEFINE n == issued + 1
<1>1. n \in Issues /\ issued \in Nat
    BY DEF TypeOK
<1>2. codes'[n] = [user |-> u, attempts |-> 0, expired |-> FALSE, state |-> "unused"]
    BY <1>1
<1>3. ASSUME NEW i \in Issues, i # n
      PROVE  codes'[i] = IF i \in UnusedOf(u) THEN [codes[i] EXCEPT !.state = "deleted"]
                         ELSE codes[i]
    BY <1>3
<1>4. \A i \in Issues : codes[i] \in Codes
    BY DEF TypeOK
<1>5. \A i \in Issues : i # n =>
        /\ codes'[i] \in Codes
        /\ codes'[i].user = codes[i].user
        /\ codes'[i].attempts = codes[i].attempts
        /\ codes'[i].state = IF i \in UnusedOf(u) THEN "deleted" ELSE codes[i].state
    BY <1>3, <1>4 DEF Codes
<1>6. \A i \in Issues : i > n => codes'[i] = NoCode
    <2> SUFFICES ASSUME NEW i \in Issues, i > n PROVE codes'[i] = NoCode
        OBVIOUS
    <2>1. codes[i] = NoCode
        BY <1>1 DEF TypeOK
    <2>2. i \notin UnusedOf(u)
        BY <2>1 DEF UnusedOf, Unused, NoCode
    <2> QED BY <1>1, <1>3, <2>1, <2>2
<1>7. TypeOK'
    <2>1. codes' \in [Issues -> Codes]
        BY <1>2, <1>4, <1>5 DEF Codes
    <2>2. \A i \in Issues : i <= n =>
            codes'[i].user \in Users /\ role[codes'[i].user] # NoRole
        BY <1>1, <1>2, <1>5 DEF TypeOK
    <2>3. issued' = n /\ n \in 0 .. MaxIssues
        BY <1>1 DEF TypeOK
    <2>4. \A i \in Issues : IF i <= issued'
            THEN codes'[i].user \in Users /\ role'[codes'[i].user] # NoRole
            ELSE codes'[i] = NoCode
        <3> HIDE DEF RequestPasswordReset, IssueCode
        <3>1. \A i \in Issues : ~(i <= n) => codes'[i] = NoCode
            BY <1>1, <1>6
        <3>2. role' = role
            BY DEF RequestPasswordReset, IssueCode
        <3> QED BY <2>2, <2>3, <3>1, <3>2
    <2>5. UNCHANGED <<role, active, acting, missed, uncounted, resets>>
        OBVIOUS
    <2> HIDE DEF RequestPasswordReset, IssueCode, Issues
    <2> QED BY <2>1, <2>3, <2>4, <2>5 DEF TypeOK
<1>8. CodesKept'
    BY <1>1, <1>2, <1>5 DEF CodesKept, TypeOK, Codes
<1>9. LiveCodeIsLastIssued'
    <2> SUFFICES ASSUME NEW i \in Issues, codes'[i].state = "unused"
                 PROVE  /\ resets'[i] = 0
                        /\ \A j \in Issues : j > i => codes'[j].user # codes'[i].user
        BY DEF LiveCodeIsLastIssued, Unused
    <2>1. CASE i = n
        <3>1. resets[i] = 0
            BY <1>1, <2>1 DEF CodesKept
        <3>2. ASSUME NEW j \in Issues, j > i PROVE codes'[j].user # u
            <4>1. codes'[j] = NoCode
                BY <1>6, <2>1, <3>2
            <4>2. NoCode.user = Nobody
                BY DEF NoCode
            <4> QED BY <4>1, <4>2, UsersAssumption
        <3> QED BY <1>2, <2>1, <3>1, <3>2
    <2>2. CASE i # n
        <3>1. codes[i].state = "unused" /\ codes[i].user # u
            BY <1>5, <2>2 DEF UnusedOf, Unused
        <3>2. resets[i] = 0 /\ \A j \in Issues : j > i => codes[j].user # codes[i].user
            BY <3>1 DEF LiveCodeIsLastIssued, Unused
        <3> QED BY <1>2, <1>5, <2>2, <3>1, <3>2
    <2> QED BY <2>1, <2>2
<1> QED BY <1>7, <1>8, <1>9, AdminsUntouched

LEMMA WrongCodeInv ==
    ASSUME Inv, NEW u \in Users, WrongCode(u)
    PROVE  Inv'
<1> USE LimitsAssumption DEF Inv, users
<1>1. PICK i \in Selected(u) :
        /\ codes[i].attempts < MaxAttempts
        /\ missed' = [missed EXCEPT ![i] = @ + 1]
        /\ \/ /\ codes' = [codes EXCEPT ![i].attempts = @ + 1]
              /\ UNCHANGED uncounted
           \/ /\ uncounted[i] < MaxUncounted
              /\ uncounted' = [uncounted EXCEPT ![i] = @ + 1]
              /\ UNCHANGED codes
        /\ UNCHANGED <<role, active, acting, issued, resets>>
    BY DEF WrongCode, Usable
<1>2. i \in Issues /\ Unused(i)
    BY <1>1 DEF Selected, UnusedOf
<1>3. i <= issued
    BY <1>2 DEF TypeOK, Unused, NoCode
<1>4. \A j \in Issues : codes[j] \in Codes
    BY DEF TypeOK
<1>5. \A j \in Issues :
        /\ codes'[j] \in Codes
        /\ codes'[j].user = codes[j].user /\ codes'[j].state = codes[j].state
        /\ codes'[j].attempts \in {codes[j].attempts, codes[j].attempts + 1}
        /\ j # i => codes'[j] = codes[j]
    BY <1>1, <1>2, <1>4 DEF TypeOK, Codes
<1>6. TypeOK'
    <2>1. codes' \in [Issues -> Codes] /\ missed' \in [Issues -> Nat]
        BY <1>1, <1>2, <1>5 DEF TypeOK
    <2>2. uncounted' \in [Issues -> 0 .. MaxUncounted]
        BY <1>1, <1>2 DEF TypeOK
    <2> QED BY <1>1, <1>3, <1>5, <2>1, <2>2 DEF TypeOK, Issues
<1>7. CodesKept'
    <2>1. \A j \in Issues : j # i => missed'[j] = missed[j] /\ uncounted'[j] = uncounted[j]
        BY <1>1, <1>2 DEF TypeOK
    <2>2. /\ codes'[i].attempts <= MaxAttempts
          /\ missed'[i] = codes'[i].attempts + uncounted'[i]
        BY <1>1, <1>2, <1>4 DEF TypeOK, Codes, CodesKept
    <2> QED BY SMTT(30), <1>1, <1>3, <1>5, <2>1, <2>2 DEF CodesKept, TypeOK, Issues
<1>8. LiveCodeIsLastIssued'
    BY <1>1, <1>5 DEF LiveCodeIsLastIssued, Unused
<1> QED BY <1>1, <1>6, <1>7, <1>8, AdminsUntouched

LEMMA RightCodeInv ==
    ASSUME Inv, NEW u \in Users, RightCode(u)
    PROVE  Inv'
<1> USE LimitsAssumption DEF Inv, users
<1>1. PICK i \in Selected(u) :
        /\ codes' = [codes EXCEPT ![i].state = "used"]
        /\ resets' = [resets EXCEPT ![i] = @ + 1]
        /\ UNCHANGED <<role, active, acting, issued, missed, uncounted>>
    BY DEF RightCode
<1>2. i \in Issues /\ Unused(i)
    BY <1>1 DEF Selected, UnusedOf
<1>3. i <= issued
    BY <1>2 DEF TypeOK, Unused, NoCode
<1>4. \A j \in Issues : codes[j] \in Codes
    BY DEF TypeOK
<1>5. \A j \in Issues :
        /\ codes'[j] \in Codes
        /\ codes'[j].user = codes[j].user /\ codes'[j].attempts = codes[j].attempts
        /\ j # i => codes'[j] = codes[j]
    BY <1>1, <1>2, <1>4 DEF TypeOK, Codes
<1>6. codes'[i].state = "used"
    BY <1>1, <1>2, <1>4 DEF TypeOK, Codes
<1>7. \A j \in Issues : j # i => resets'[j] = resets[j]
    BY <1>1, <1>2 DEF TypeOK
<1>8. TypeOK'
    <2>1. codes' \in [Issues -> Codes] /\ resets' \in [Issues -> Nat]
        BY <1>1, <1>2, <1>5 DEF TypeOK
    <2> QED BY <1>1, <1>3, <1>5, <2>1 DEF TypeOK, Issues
<1>9. CodesKept'
    BY <1>1, <1>3, <1>5, <1>7 DEF CodesKept, TypeOK, Issues
<1>10. LiveCodeIsLastIssued'
    BY <1>1, <1>5, <1>6, <1>7 DEF LiveCodeIsLastIssued, Unused
<1> QED BY <1>1, <1>8, <1>9, <1>10, AdminsUntouched

LEMMA ExpireInv ==
    ASSUME Inv, NEW i \in Issues, Expire(i)
    PROVE  Inv'
<1> USE LimitsAssumption DEF Inv, users, Expire
<1>1. \A j \in Issues : codes[j] \in Codes
    BY DEF TypeOK
<1>2. \A j \in Issues :
        /\ codes'[j] \in Codes
        /\ codes'[j].user = codes[j].user /\ codes'[j].attempts = codes[j].attempts
        /\ codes'[j].state = codes[j].state
        /\ j # i => codes'[j] = codes[j]
    BY <1>1 DEF TypeOK, Codes
<1>3. TypeOK'
    <2>1. codes' \in [Issues -> Codes]
        BY <1>2 DEF TypeOK
    <2> QED BY <1>2, <2>1 DEF TypeOK, Issues
<1>4. CodesKept'
    BY <1>2 DEF CodesKept
<1>5. LiveCodeIsLastIssued'
    BY <1>2 DEF LiveCodeIsLastIssued, Unused
<1> QED BY <1>3, <1>4, <1>5, AdminsUntouched

LEMMA NextInv ==
    ASSUME Inv, [Next]_vars
    PROVE  Inv'
<1>1. CASE UNCHANGED vars
    BY <1>1 DEF vars, users, resetting, Inv, TypeOK, ActiveAdminRemains, ActiveAdmins,
               CodesKept, LiveCodeIsLastIssued, Unused
<1>2. ASSUME NEW u \in Users,
             \/ Register(u) \/ RequestPasswordReset(u) \/ WrongCode(u) \/ RightCode(u)
      PROVE  Inv'
    BY <1>2, RegisterInv, RequestPasswordResetInv, WrongCodeInv, RightCodeInv
<1>3. ASSUME NEW u \in Users, NEW r \in Requests,
             \/ Authorize(r, u)
             \/ \E new \in Roles : SetUserRole(r, u, new)
             \/ \E is_active \in BOOLEAN : SetUserActive(r, u, is_active)
      PROVE  Inv'
    BY <1>3, AuthorizeInv, SetUserRoleInv, SetUserActiveInv
<1>4. ASSUME NEW r \in Requests, EndUnchanged(r) PROVE Inv'
    BY <1>4, EndUnchangedInv
<1>5. ASSUME NEW i \in Issues, Expire(i) PROVE Inv'
    BY <1>5, ExpireInv
<1> QED BY <1>1, <1>2, <1>3, <1>4, <1>5 DEF Next

-----------------------------------------------------------------------------

LEMMA Invariance == Spec => []Inv
<1>1. Init => Inv
    BY Initially
<1>2. Inv /\ [Next]_vars => Inv'
    BY NextInv
<1> QED BY <1>1, <1>2, PTL DEF Spec

(* Every variable keeps its type (Accounts!TypeOK). *)
THEOREM TypeCorrect == Spec => []TypeOK
<1>1. Inv => TypeOK
    BY DEF Inv
<1> QED BY <1>1, Invariance, PTL

(* One active admin remains (_ensure_not_last_admin), for any number of     *)
(* users and of concurrent requests.                                        *)
THEOREM AdminRemains == Spec => []ActiveAdminRemains
<1>1. Inv => ActiveAdminRemains
    BY DEF Inv
<1> QED BY <1>1, Invariance, PTL

(* Only the code issued last can change a password, and only once           *)
(* (request_password_reset, reset_password).                                *)
THEOREM LastCodeOnly == Spec => []LiveCodeIsLastIssued
<1>1. Inv => LiveCodeIsLastIssued
    BY DEF Inv
<1> QED BY <1>1, Invariance, PTL

(* At most _MAX_ATTEMPTS wrong guesses and those that could not be counted  *)
(* (reset_password).                                                        *)
THEOREM Guesses == Spec => []GuessesBounded
<1>1. Inv => GuessesBounded
    BY LimitsAssumption DEF Inv, CodesKept, TypeOK, Codes, GuessesBounded
<1> QED BY <1>1, Invariance, PTL

-----------------------------------------------------------------------------
(* Folders and chats *)

Agree(o, p) == o = p \/ o = NoOwner \/ p = NoOwner

OwnTree == ~rearranged =>
    /\ \A f \in folders : parent[f] # None => Agree(owner[f], owner[parent[f]])
    /\ \A c \in chats : filed[c] # None => Agree(user[c], owner[filed[c]])
    /\ \A m \in moving : m[1] \in chats /\ m[2] \in folders =>
         Agree(user[m[1]], owner[m[2]])

TreeInv == TreeTypeOK /\ Acyclic /\ OwnTree

-----------------------------------------------------------------------------

(* A folder is in its own subtree, and what is filed below a subtree is in it. *)
LEMMA SubtreeClosed ==
    ASSUME NEW f \in folders, NEW g \in folders, parent[g] \in Subtree(f),
           None \notin folders
    PROVE  g \in Subtree(f)
<1>1. SUFFICES ASSUME NEW S \in SUBSET folders, g \in S, Closed(S)
               PROVE  f \in S
    BY DEF Subtree, IsDescendant
<1>2. parent[g] \in S
    BY <1>1 DEF Closed, Subtree
<1> QED BY <1>1, <1>2 DEF Subtree, IsDescendant

(* The walk up from g passes g, and whatever is above what it passes. *)
LEMMA SubtreeSelf ==
    ASSUME NEW f \in folders
    PROVE  f \in Subtree(f)
BY DEF Subtree, IsDescendant

LEMMA SubtreeUp ==
    ASSUME NEW h \in folders, NEW g \in Subtree(h), parent[h] \in folders,
           parent[h] # None
    PROVE  g \in Subtree(parent[h])
BY DEF Subtree, IsDescendant, Closed

(* Where owners agree along parent_id, the walk from a folder of one user   *)
(* up to one of another passes a folder without owner: else the folders it  *)
(* passes before f, all of g's owner, and those above f would be a closed   *)
(* set that f is not in.                                                    *)
LEMMA OwnerlessBetween ==
    ASSUME TreeTypeOK, OwnTree, ~rearranged, NEW f \in folders, NEW g \in Subtree(f),
           owner[f] # NoOwner, owner[g] \notin {owner[f], NoOwner}
    PROVE  Between(f, g)
<1> USE NoneAssumption
<1>1. SUFFICES ASSUME ~Between(f, g) PROVE FALSE
    OBVIOUS
<1> DEFINE S == {h \in folders : /\ g \in Subtree(h)
                                 /\ \/ h \notin Subtree(f)
                                    \/ h # f /\ owner[h] = owner[g]}
<1>2. g \in folders /\ None \notin folders
    BY DEF Subtree, TreeTypeOK
<1>3. g \in S
    BY <1>2, SubtreeSelf
<1>4. f \notin S
    BY SubtreeSelf
<1>5. ASSUME NEW h \in S, parent[h] # None PROVE parent[h] \in S
    <2>1. h \in folders /\ parent[h] \in folders /\ g \in Subtree(h)
        BY <1>5 DEF TreeTypeOK
    <2>2. g \in Subtree(parent[h])
        BY <1>5, <2>1, SubtreeUp
    <2>3. CASE parent[h] \notin Subtree(f)
        BY <2>1, <2>2, <2>3
    <2>4. CASE parent[h] \in Subtree(f)
        <3>1. h \in Subtree(f)
            BY <1>2, <2>1, <2>4, SubtreeClosed
        <3>2. owner[h] = owner[g]
            BY <3>1
        <3>3. Agree(owner[h], owner[parent[h]])
            BY <1>5, <2>1 DEF OwnTree
        <3>4. owner[parent[h]] # NoOwner
            BY <1>1, <2>2, <2>4 DEF Between
        <3>5. owner[parent[h]] = owner[g]
            BY <3>2, <3>3, <3>4 DEF Agree
        <3> QED BY <2>1, <2>2, <3>5
    <2> QED BY <2>3, <2>4
<1>6. S \in SUBSET folders /\ Closed(S)
    BY <1>5 DEF Closed
<1> HIDE DEF S
<1> QED BY <1>3, <1>4, <1>6 DEF Subtree, IsDescendant

LEMMA TreeInitially == TreeInit => TreeInv
<1> SUFFICES ASSUME TreeInit PROVE TreeInv
    OBVIOUS
<1>1. TreeTypeOK
    BY DEF TreeInit, TreeTypeOK, Anyone
<1>2. Acyclic /\ OwnTree
    BY DEF TreeInit, Acyclic, OwnTree
<1> QED BY <1>1, <1>2 DEF TreeInv

(* What a user's request may use of another's is ownerless. *)
LEMMA PermitsAgree ==
    ASSUME NEW o, NEW p, NEW u, u # NoOwner, Permits(o, u), Permits(p, u)
    PROVE  Agree(o, p)
BY DEF Permits, Agree

-----------------------------------------------------------------------------

LEMMA CreateTree ==
    ASSUME TreeInv, NEW u \in Anyone, NEW f \in Folders, NEW p \in folders \union {None},
           Create(u, f, p)
    PROVE  TreeInv'
<1> USE NoneAssumption
<1>1. TreeTypeOK'
    BY DEF TreeInv, TreeTypeOK, Create
<1>2. Acyclic'
    <2>1. SUFFICES ASSUME NEW S \in SUBSET (folders \union {f}), S # {}
                   PROVE  \E g \in S : parent'[g] \notin S
        BY DEF Acyclic, Create
    <2>2. CASE S = {f}
        BY <2>2 DEF TreeInv, TreeTypeOK, Create
    <2>3. CASE S # {f}
        <3>1. S \ {f} \in SUBSET folders /\ S \ {f} # {}
            BY <2>1, <2>3
        <3>2. PICK g \in S \ {f} : parent[g] \notin S \ {f}
            BY <3>1 DEF TreeInv, Acyclic
        <3>3. g \in folders /\ f \notin folders /\ parent[g] # f
            BY <3>1, <3>2 DEF TreeInv, TreeTypeOK, Create
        <3>4. parent'[g] = parent[g]
            BY <3>3 DEF TreeInv, TreeTypeOK, Create
        <3> QED BY <3>2, <3>3, <3>4
    <2> QED BY <2>2, <2>3
<1>3. OwnTree'
    <2> SUFFICES ASSUME ~rearranged
                 PROVE  /\ \A g \in folders' : parent'[g] # None =>
                             Agree(owner'[g], owner'[parent'[g]])
                        /\ \A c \in chats : filed[c] # None =>
                             Agree(user[c], owner'[filed[c]])
                        /\ \A m \in moving : m[1] \in chats /\ m[2] \in folders' =>
                             Agree(user[m[1]], owner'[m[2]])
        BY DEF OwnTree, Create
    <2>1. /\ folders' = folders \union {f} /\ f \notin folders
          /\ parent'[f] = p /\ owner'[f] = u
          /\ \A g \in folders : parent'[g] = parent[g] /\ owner'[g] = owner[g]
          /\ \A m \in moving : m[2] # f
        BY DEF TreeInv, TreeTypeOK, Create
    <2>2. p # None => p \in folders /\ Agree(u, owner[p])
        BY DEF Create, Owned, Permits, Agree
    <2>3. \A g \in folders' : parent'[g] # None => Agree(owner'[g], owner'[parent'[g]])
        BY <2>1, <2>2 DEF TreeInv, TreeTypeOK, OwnTree
    <2>4. \A c \in chats : filed[c] # None => Agree(user[c], owner'[filed[c]])
        BY <2>1 DEF TreeInv, TreeTypeOK, OwnTree
    <2>5. \A m \in moving : m[1] \in chats /\ m[2] \in folders' =>
            Agree(user[m[1]], owner'[m[2]])
        BY <2>1 DEF TreeInv, OwnTree
    <2> QED BY <2>3, <2>4, <2>5
<1> QED BY <1>1, <1>2, <1>3 DEF TreeInv

LEMMA MoveTree ==
    ASSUME TreeInv, NEW u \in Anyone, NEW f \in Folders, NEW p \in folders \union {None},
           Move(u, f, p)
    PROVE  TreeInv'
<1> USE NoneAssumption
<1>1. TreeTypeOK'
    BY DEF TreeInv, TreeTypeOK, Move
<1>2. Acyclic'
    <2>1. SUFFICES ASSUME NEW S \in SUBSET folders, S # {},
                          \A g \in S : parent'[g] \in S
                   PROVE  FALSE
        BY DEF Acyclic, Move
    <2>2. f \in S
        BY <2>1 DEF TreeInv, TreeTypeOK, Acyclic, Move
    <2>3. parent'[f] = p /\ p \in S /\ p # None
        BY <2>1, <2>2 DEF TreeInv, TreeTypeOK, Move
    <2>4. PICK T \in SUBSET folders : p \in T /\ Closed(T) /\ f \notin T
        BY <2>3 DEF Move, IsDescendant
    <2>5. \A g \in S \intersect T : parent[g] \in S \intersect T
        BY <2>1, <2>4 DEF TreeInv, TreeTypeOK, Move, Closed
    <2> QED BY <2>3, <2>4, <2>5 DEF TreeInv, Acyclic
<1>3. OwnTree'
    <2> SUFFICES ASSUME ~rearranged, u # NoOwner
                 PROVE  /\ \A g \in folders : parent'[g] # None =>
                             Agree(owner[g], owner[parent'[g]])
                        /\ \A c \in chats : filed[c] # None =>
                             Agree(user[c], owner[filed[c]])
                        /\ \A m \in moving : m[1] \in chats /\ m[2] \in folders =>
                             Agree(user[m[1]], owner[m[2]])
        BY DEF OwnTree, Move
    <2>1. parent'[f] = p /\ \A g \in folders : g # f => parent'[g] = parent[g]
        BY DEF TreeInv, TreeTypeOK, Move
    <2>2. p # None => Agree(owner[f], owner[p])
        BY PermitsAgree DEF Move, Owned
    <2> QED BY <2>1, <2>2 DEF TreeInv, OwnTree
<1> QED BY <1>1, <1>2, <1>3 DEF TreeInv

LEMMA DeleteTree ==
    ASSUME TreeInv, NEW u \in Anyone, NEW f \in Folders, Delete(u, f)
    PROVE  TreeInv'
<1> USE NoneAssumption
<1>0. f \in folders /\ None \notin folders /\ Subtree(f) \subseteq folders
    BY DEF TreeInv, TreeTypeOK, Delete, Owned, Subtree
<1>1. \A g \in folders \ Subtree(f) : parent[g] \notin Subtree(f)
    BY <1>0, SubtreeClosed
<1>2. /\ folders' = folders \ Subtree(f) /\ chats' = chats \ ChatsIn(Subtree(f))
      /\ \A g \in folders' : parent'[g] = parent[g] /\ owner'[g] = owner[g]
      /\ \A c \in chats' : filed'[c] = filed[c] /\ user'[c] = user[c]
      /\ UNCHANGED <<moving, rearranged>>
    BY DEF TreeInv, TreeTypeOK, Delete, RemoveFolders, RemoveChats
<1>3. TreeTypeOK'
    <2>1. /\ parent' \in [Folders -> Folders \union {None}]
          /\ owner' \in [Folders -> Anyone] /\ user' \in [Chats -> Anyone]
          /\ filed' \in [Chats -> Folders \union {None}]
        BY DEF TreeInv, TreeTypeOK, Delete, RemoveFolders, RemoveChats, Anyone
    <2>2. \A c \in chats' : filed'[c] \in folders' \union {None}
        BY <1>2 DEF TreeInv, TreeTypeOK, ChatsIn
    <2>3. \A g \in folders' : parent'[g] \in folders' \union {None}
        BY <1>1, <1>2 DEF TreeInv, TreeTypeOK
    <2> QED BY <1>2, <2>1, <2>2, <2>3 DEF TreeInv, TreeTypeOK
<1>4. Acyclic'
    BY <1>2 DEF TreeInv, Acyclic
<1>5. OwnTree'
    <2> SUFFICES ASSUME ~rearranged
                 PROVE  /\ \A g \in folders' : parent'[g] # None =>
                             Agree(owner'[g], owner'[parent'[g]])
                        /\ \A c \in chats' : filed'[c] # None =>
                             Agree(user'[c], owner'[filed'[c]])
                        /\ \A m \in moving : m[1] \in chats' /\ m[2] \in folders' =>
                             Agree(user'[m[1]], owner'[m[2]])
        BY <1>2 DEF OwnTree
    <2>1. \A g \in folders' : parent'[g] # None => parent[g] \in folders'
        BY <1>2, <1>3 DEF TreeTypeOK
    <2>2. \A c \in chats' : filed'[c] # None => filed[c] \in folders'
        BY <1>2, <1>3 DEF TreeTypeOK
    <2> QED BY <1>2, <2>1, <2>2 DEF TreeInv, OwnTree
<1> QED BY <1>3, <1>4, <1>5 DEF TreeInv

LEMMA ChatsTree ==
    ASSUME TreeInv,
           \/ \E u \in Anyone, c \in Chats :
                \/ CreateChat(u, c) \/ DeleteChat(u, c)
                \/ \E f \in folders \union {None} : LookUpFolder(u, c, f)
           \/ \E m \in moving : MoveChat(m) \/ MoveChatFails(m)
    PROVE  TreeInv'
<1> USE NoneAssumption
<1>1. ASSUME NEW u \in Anyone, NEW c \in Chats, CreateChat(u, c)
      PROVE  TreeInv'
    <2>1. TreeTypeOK'
        BY <1>1 DEF TreeInv, TreeTypeOK, CreateChat
    <2>2. Acyclic'
        BY <1>1 DEF TreeInv, Acyclic, CreateChat
    <2>3. OwnTree'
        BY <1>1 DEF TreeInv, TreeTypeOK, OwnTree, CreateChat
    <2> QED BY <2>1, <2>2, <2>3 DEF TreeInv
<1>2. ASSUME NEW u \in Anyone, NEW c \in Chats, DeleteChat(u, c)
      PROVE  TreeInv'
    <2>1. /\ UNCHANGED <<folders, parent, owner, moving, rearranged>>
          /\ chats' \subseteq chats
          /\ \A d \in chats' : filed'[d] = filed[d] /\ user'[d] = user[d]
        BY <1>2 DEF TreeInv, TreeTypeOK, DeleteChat, RemoveChats
    <2>2. TreeTypeOK'
        <3>1. user' \in [Chats -> Anyone] /\ filed' \in [Chats -> Folders \union {None}]
            BY <1>2 DEF TreeInv, TreeTypeOK, DeleteChat, RemoveChats, Anyone
        <3> QED BY <2>1, <3>1 DEF TreeInv, TreeTypeOK
    <2>3. Acyclic' /\ OwnTree'
        BY <2>1 DEF TreeInv, Acyclic, OwnTree
    <2> QED BY <2>2, <2>3 DEF TreeInv
<1>3. ASSUME NEW u \in Anyone, NEW c \in Chats, NEW f \in folders \union {None},
             LookUpFolder(u, c, f)
      PROVE  TreeInv'
    <2>1. TreeTypeOK'
        BY <1>3 DEF TreeInv, TreeTypeOK, LookUpFolder
    <2>2. Acyclic'
        BY <1>3 DEF TreeInv, Acyclic, LookUpFolder
    <2>3. OwnTree'
        <3> SUFFICES ASSUME ~rearranged, u # NoOwner, NEW m \in moving \union {<<c, f>>},
                            m[1] \in chats, m[2] \in folders
                     PROVE  Agree(user[m[1]], owner[m[2]])
            BY <1>3 DEF TreeInv, OwnTree, LookUpFolder
        <3>1. CASE m \in moving
            BY <3>1 DEF TreeInv, OwnTree
        <3>2. CASE m = <<c, f>>
            <4>1. m[1] = c /\ m[2] = f /\ f # None
                BY <3>2 DEF TreeInv, TreeTypeOK
            <4>2. OwnedChat(c, u) /\ Owned(f, u)
                BY <1>3, <4>1 DEF LookUpFolder
            <4>3. Permits(user[c], u) /\ Permits(owner[f], u)
                BY <4>2 DEF OwnedChat, Owned
            <4> QED BY <4>1, <4>3, PermitsAgree
        <3> QED BY <3>1, <3>2
    <2> QED BY <2>1, <2>2, <2>3 DEF TreeInv
<1>4. ASSUME NEW m \in moving, MoveChat(m)
      PROVE  TreeInv'
    <2>1. TreeTypeOK'
        BY <1>4 DEF TreeInv, TreeTypeOK, MoveChat
    <2>2. Acyclic'
        BY <1>4 DEF TreeInv, Acyclic, MoveChat
    <2>3. OwnTree'
        BY <1>4 DEF TreeInv, TreeTypeOK, OwnTree, MoveChat
    <2> QED BY <2>1, <2>2, <2>3 DEF TreeInv
<1>5. ASSUME NEW m \in moving, MoveChatFails(m)
      PROVE  TreeInv'
    BY <1>5 DEF TreeInv, TreeTypeOK, Acyclic, OwnTree, MoveChatFails
<1> QED BY <1>1, <1>2, <1>3, <1>4, <1>5

LEMMA TreePreserved == TreeInv /\ [TreeNext]_treeVars => TreeInv'
<1> SUFFICES ASSUME TreeInv, [TreeNext]_treeVars PROVE TreeInv'
    OBVIOUS
<1>1. ASSUME NEW u \in Anyone, NEW f \in Folders, NEW p \in folders \union {None},
             Create(u, f, p) \/ Move(u, f, p)
      PROVE  TreeInv'
    BY <1>1, CreateTree, MoveTree
<1>2. ASSUME NEW u \in Anyone, NEW f \in Folders, Delete(u, f)
      PROVE  TreeInv'
    BY <1>2, DeleteTree
<1>3. CASE UNCHANGED treeVars
    BY <1>3 DEF TreeInv, TreeTypeOK, Acyclic, OwnTree, treeVars
<1> QED BY <1>1, <1>2, <1>3, ChatsTree DEF TreeNext

-----------------------------------------------------------------------------

(* The inductive invariant holds in every reachable state. *)
THEOREM TreeInvariance == TreeSpec => []TreeInv
BY TreeInitially, TreePreserved, PTL DEF TreeSpec

(* Every variable keeps its type and no row refers to a deleted one         *)
(* (ChatFolderService, ChatService.update).                                 *)
THEOREM TreeTypeCorrect == TreeSpec => []TreeTypeOK
<1>1. TreeInv => TreeTypeOK
    BY DEF TreeInv
<1> QED BY <1>1, TreeInvariance, PTL

(* However folders are made, moved and deleted, they form a forest          *)
(* (_is_descendant).                                                        *)
THEOREM Forest == TreeSpec => []Acyclic
<1>1. TreeInv => Acyclic
    BY DEF TreeInv
<1> QED BY <1>1, TreeInvariance, PTL

(* Where the moves are all of users, rows of two users lie in one subtree   *)
(* only below a folder of no owner in between: the refusals of              *)
(* _delete_recursive below the folder a user names are needed there, and    *)
(* nowhere else.                                                            *)
THEOREM UsersMeet == TreeSpec => []UsersMeetBelowOwnerless
<1>1. TreeInv => UsersMeetBelowOwnerless
    <2> SUFFICES ASSUME TreeInv, ~rearranged, NEW f \in folders, owner[f] # NoOwner
                 PROVE  /\ \A g \in Subtree(f) :
                             owner[g] \notin {owner[f], NoOwner} => Between(f, g)
                        /\ \A c \in ChatsIn(Subtree(f)) :
                             user[c] \notin {owner[f], NoOwner} => Between(f, filed[c])
        BY DEF UsersMeetBelowOwnerless
    <2>1. \A g \in Subtree(f) : owner[g] \notin {owner[f], NoOwner} => Between(f, g)
        BY OwnerlessBetween DEF TreeInv
    <2>2. ASSUME NEW c \in ChatsIn(Subtree(f)), user[c] \notin {owner[f], NoOwner}
          PROVE  Between(f, filed[c])
        <3>1. c \in chats /\ filed[c] \in Subtree(f) /\ filed[c] \in folders
              /\ filed[c] # None
            BY <2>2, NoneAssumption DEF ChatsIn, Subtree, TreeInv, TreeTypeOK
        <3>2. Agree(user[c], owner[filed[c]])
            BY <3>1 DEF TreeInv, OwnTree
        <3>3. CASE owner[filed[c]] = NoOwner
            BY <3>1, <3>3, SubtreeSelf DEF Between
        <3>4. CASE owner[filed[c]] = user[c]
            BY <2>1, <2>2, <3>1, <3>4
        <3> QED BY <2>2, <3>2, <3>3, <3>4 DEF Agree
    <2> QED BY <2>1, <2>2
<1> QED BY <1>1, TreeInvariance, PTL
=============================================================================
