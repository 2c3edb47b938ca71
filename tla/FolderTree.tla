------------------------------ MODULE FolderTree ------------------------------
(***************************************************************************)
(* Chat folders and the chats filed in them (folder_service.py, and update *)
(* and delete of chat_service.py).                                         *)
(*                                                                         *)
(* The folder handlers run on the event loop and never give way: each is   *)
(* one step.  A chat is moved on a worker thread: the folder it looked up  *)
(* may be gone when it commits.  An id is fresh: no row and no request     *)
(* under way knows it.                                                     *)
(*                                                                         *)
(* A row may have no owner (owner_id, user_id are nullable), and a request *)
(* no user: the controllers and the MCP tools always give one, the         *)
(* services' parameter is None by default.  Whatever has no owner is       *)
(* everyone's, and a request without a user is refused nothing.            *)
(***************************************************************************)
EXTENDS FiniteSets

CONSTANTS
    Owners,       \* users, who own folders and chats
    NoOwner,      \* no user: owner_id, user_id None
    Folders, Chats,
    None          \* no folder

ASSUME NoneAssumption == None \notin Folders
ASSUME NoOwnerAssumption == NoOwner \notin Owners

(* whom a request is of, or a row *)
Anyone == Owners \union {NoOwner}

VARIABLES
    folders,      \* chat_folders: the ids that exist
    parent,       \* parent_id of each folder
    owner,        \* owner_id of each folder
    chats,        \* the chats that exist
    user,         \* user_id of each chat
    filed,        \* folder_id of each chat
    moving,       \* moves of chats under way: the chat and the folder looked up
    rearranged    \* history: a request without a user moved a folder or a chat

treeVars == <<folders, parent, owner, chats, user, filed, moving, rearranged>>

TreeInit ==
    /\ folders = {} /\ chats = {} /\ moving = {}
    /\ parent = [f \in Folders |-> None]
    /\ owner = [f \in Folders |-> NoOwner]
    /\ user = [c \in Chats |-> NoOwner]
    /\ filed = [c \in Chats |-> None]
    /\ rearranged = FALSE

-----------------------------------------------------------------------------
(* Helpers *)

(* _is_descendant: the walk from folder f along parent_id meets folder a,   *)
(* that is, a is in every set of folders that holds f and is closed under   *)
(* parent_id.                                                               *)
Closed(S) == \A g \in S : parent[g] # None => parent[g] \in S
IsDescendant(f, a) == \A S \in SUBSET folders : f \in S /\ Closed(S) => a \in S

(* the folders _delete_recursive visits *)
Subtree(f) == {g \in folders : IsDescendant(g, f)}
ChatsIn(S) == {c \in chats : filed[c] \in S}

(* A request of user u may use a row of owner o. *)
Permits(o, u) == u = NoOwner \/ o = NoOwner \/ o = u

(* _load_owned, _ensure_parent_owned, _ensure_folder_owned *)
Owned(f, u) == f \in folders /\ Permits(owner[f], u)
OwnedChat(c, u) == c \in chats /\ Permits(user[c], u)

(* Rows go with their columns. *)
RemoveFolders(F) ==
    /\ folders' = folders \ F
    /\ parent' = [g \in Folders |-> IF g \in F THEN None ELSE parent[g]]
    /\ owner' = [g \in Folders |-> IF g \in F THEN NoOwner ELSE owner[g]]
RemoveChats(C) ==
    /\ chats' = chats \ C
    /\ user' = [c \in Chats |-> IF c \in C THEN NoOwner ELSE user[c]]
    /\ filed' = [c \in Chats |-> IF c \in C THEN None ELSE filed[c]]

-----------------------------------------------------------------------------
(* Folders *)

(* variant of Create: the parent may be anyone's *)
CreateUnderAny(u, f, p) ==
    /\ f \notin folders /\ \A m \in moving : m[2] # f
    /\ p # None => p \in folders
    /\ folders' = folders \union {f}
    /\ parent' = [parent EXCEPT ![f] = p]
    /\ owner' = [owner EXCEPT ![f] = u]
    /\ UNCHANGED <<chats, user, filed, moving, rearranged>>

Create(u, f, p) ==
    /\ f \notin folders /\ \A m \in moving : m[2] # f
    /\ p # None => Owned(p, u)
    /\ folders' = folders \union {f}
    /\ parent' = [parent EXCEPT ![f] = p]
    /\ owner' = [owner EXCEPT ![f] = u]
    /\ UNCHANGED <<chats, user, filed, moving, rearranged>>

(* variant of Move: only the folder itself is refused *)
MoveUnderDescendant(u, f, p) ==
    /\ Owned(f, u)
    /\ p # f
    /\ p # None => Owned(p, u)
    /\ parent' = [parent EXCEPT ![f] = p]
    /\ rearranged' = (rearranged \/ u = NoOwner)
    /\ UNCHANGED <<folders, owner, chats, user, filed, moving>>

(* update with a parent_id: neither the folder itself nor a descendant *)
Move(u, f, p) ==
    /\ Owned(f, u)
    /\ p # f
    /\ p # None => Owned(p, u) /\ ~IsDescendant(p, f)
    /\ parent' = [parent EXCEPT ![f] = p]
    /\ rearranged' = (rearranged \/ u = NoOwner)
    /\ UNCHANGED <<folders, owner, chats, user, filed, moving>>

(* variant of Delete: the folders below stay *)
DeleteAlone(u, f) ==
    /\ Owned(f, u)
    /\ RemoveFolders({f})
    /\ RemoveChats(ChatsIn({f}))
    /\ UNCHANGED <<moving, rearranged>>

(* delete: the folder, those below it and the chats in them; the request is *)
(* refused whole if one of them is another user's.  (A foreign key error of *)
(* a chat moved in meanwhile has no effect either.)                         *)
Delete(u, f) ==
    /\ Owned(f, u)
    /\ \A g \in Subtree(f) : Permits(owner[g], u)
    /\ \A c \in ChatsIn(Subtree(f)) : Permits(user[c], u)
    /\ RemoveFolders(Subtree(f))
    /\ RemoveChats(ChatsIn(Subtree(f)))
    /\ UNCHANGED <<moving, rearranged>>

-----------------------------------------------------------------------------
(* Chats *)

(* The first question of a chat makes it, outside any folder. *)
CreateChat(u, c) ==
    /\ c \notin chats /\ \A m \in moving : m[1] # c
    /\ chats' = chats \union {c}
    /\ user' = [user EXCEPT ![c] = u]
    /\ filed' = [filed EXCEPT ![c] = None]
    /\ UNCHANGED <<folders, parent, owner, moving, rearranged>>

DeleteChat(u, c) ==
    /\ OwnedChat(c, u)
    /\ RemoveChats({c})
    /\ UNCHANGED <<folders, parent, owner, moving, rearranged>>

(* update of a chat: chat and folder are looked up ... *)
LookUpFolder(u, c, f) ==
    /\ OwnedChat(c, u)
    /\ f # None => Owned(f, u)
    /\ moving' = moving \union {<<c, f>>}
    /\ rearranged' = (rearranged \/ u = NoOwner)
    /\ UNCHANGED <<folders, parent, owner, chats, user, filed>>

(* ... and the row is updated, which fails if the chat is gone or, by its   *)
(* foreign key, if the folder is.                                           *)
MoveChat(m) ==
    /\ m \in moving
    /\ m[1] \in chats
    /\ m[2] \in folders \union {None}
    /\ filed' = [filed EXCEPT ![m[1]] = m[2]]
    /\ moving' = moving \ {m}
    /\ UNCHANGED <<folders, parent, owner, chats, user, rearranged>>

MoveChatFails(m) ==
    /\ m \in moving
    /\ moving' = moving \ {m}
    /\ UNCHANGED <<folders, parent, owner, chats, user, filed, rearranged>>

TreeNext ==
    \/ \E u \in Anyone, f \in Folders :
         \/ \E p \in folders \union {None} : Create(u, f, p) \/ Move(u, f, p)
         \/ Delete(u, f)
    \/ \E u \in Anyone, c \in Chats :
         \/ CreateChat(u, c) \/ DeleteChat(u, c)
         \/ \E f \in folders \union {None} : LookUpFolder(u, c, f)
    \/ \E m \in moving : MoveChat(m) \/ MoveChatFails(m)

TreeSpec == TreeInit /\ [][TreeNext]_treeVars

-----------------------------------------------------------------------------
(* Properties *)

(* Every variable has its type, and rows refer to rows that exist. *)
TreeTypeOK ==
    /\ folders \subseteq Folders
    /\ parent \in [Folders -> Folders \union {None}]
    /\ owner \in [Folders -> Anyone]
    /\ chats \subseteq Chats
    /\ user \in [Chats -> Anyone]
    /\ filed \in [Chats -> Folders \union {None}]
    /\ moving \subseteq Chats \X (Folders \union {None})
    /\ rearranged \in BOOLEAN
    /\ \A f \in folders : parent[f] \in folders \union {None}
    /\ \A c \in chats : filed[c] \in folders \union {None}

(* No sequence of moves closes a cycle of folders, on which _is_descendant  *)
(* and _delete_recursive would not end and which _build_tree would not      *)
(* show: every set of folders has one whose parent is outside the set.      *)
Acyclic == \A S \in SUBSET folders :
    S # {} => \E f \in S : parent[f] \notin S

(* Where the moves are all of users, rows of two users come to lie in one   *)
(* subtree only below a folder of no owner in between, which both may use:  *)
(* without ownerless folders a user's deletion is never refused below the   *)
(* folder it names (_delete_recursive), however folders and chats are moved *)
(* and late a chat arrives.                                                 *)
Between(f, g) == \E h \in Subtree(f) : owner[h] = NoOwner /\ g \in Subtree(h)
UsersMeetBelowOwnerless == ~rearranged => \A f \in folders : owner[f] # NoOwner =>
    /\ \A g \in Subtree(f) : owner[g] \notin {owner[f], NoOwner} => Between(f, g)
    /\ \A c \in ChatsIn(Subtree(f)) :
         user[c] \notin {owner[f], NoOwner} => Between(f, filed[c])
=============================================================================
