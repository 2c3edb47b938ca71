---------------------------- MODULE KnowledgeBase ----------------------------
(***************************************************************************)
(* Documents, their versions and their searchable chunks                   *)
(* (document_service.py, vector_index_service.py) under concurrent upload  *)
(* requests, deletions, failures and restarts.                             *)
(*                                                                         *)
(* An upload runs on a worker thread with a session of its own; PostgreSQL *)
(* is at READ COMMITTED.  One step is one statement or one commit, so what *)
(* an upload read may have changed when it writes.  A chunk row lives with *)
(* its version; what matters of it is is_latest, the only rows a search    *)
(* reads.                                                                  *)
(***************************************************************************)
EXTENDS Naturals, FiniteSets, FiniteSetsExt

CONSTANTS
    Uploads,      \* upload requests, each served once
    Docs,         \* document ids, each used once
    Names,        \* pairs (file_name, uploaded_by)
    Scopes,       \* category ids, and None
    Contents,     \* file bytes
    Unset         \* no value

(* A document of knowledge_documents, and the request of an upload. *)
Headers == [name : Names, scope : Scopes]
Requests == [name : Names, scope : Scopes, bytes : Contents]

ASSUME UnsetAssumption == Unset \notin Headers \union Requests \union Docs

(* A row of document_versions. *)
Rows == [doc : Docs, number : Nat, bytes : Contents]

VARIABLES
    docs,         \* knowledge_documents: the header of each existing document
    used,         \* ids ever given to a document
    versions,     \* document_versions
    searchable,   \* (doc, version_number) of the chunks with is_latest
    pc, req, doc, created, number,    \* of each upload
    acked,        \* history: versions an upload answered with, whose document
                  \* no user has deleted since
    met           \* history: names of which two uploads were under way at once

uploads == <<pc, req, doc, created, number>>
history == <<acked, met>>
vars == <<docs, used, versions, searchable, uploads, history>>

Places == {"find", "create", "latest", "number", "insert", "committed",
           "cleanup", "done", "failed"}
UnderWay == Places \ {"find", "done", "failed"}

Init ==
    /\ docs = [d \in Docs |-> Unset]
    /\ used = {}
    /\ versions = {}
    /\ searchable = {}
    /\ pc = [u \in Uploads |-> "find"]
    /\ req = [u \in Uploads |-> Unset]
    /\ doc = [u \in Uploads |-> Unset]
    /\ created = [u \in Uploads |-> FALSE]
    /\ number = [u \in Uploads |-> 0]
    /\ acked = {}
    /\ met = {}

-----------------------------------------------------------------------------
(* Helpers *)

Existing == {d \in Docs : docs[d] # Unset}
RowsOf(d) == {r \in versions : r.doc = d}
Numbers(d) == {r.number : r \in RowsOf(d)}

(* variant of LatestRow: the rows are ordered the other way *)
LatestRowAscending(d) == {r \in RowsOf(d) : \A n \in Numbers(d) : r.number <= n}

(* _latest_version_row: the row with the highest number, or none *)
LatestRow(d) == {r \in RowsOf(d) : \A n \in Numbers(d) : n <= r.number}

(* _next_version_number *)
NextNumber(d) == IF Numbers(d) = {} THEN 1 ELSE Max(Numbers(d)) + 1

(* The new row of upload u, with is_latest chunks; those of the document's  *)
(* other versions are demoted when its number is above first.               *)
AddRow(u, first) ==
    LET d == doc[u]
        n == number[u]
    IN /\ versions' = versions \union
            {[doc |-> d, number |-> n, bytes |-> req[u].bytes]}
       /\ searchable' = {<<d, n>>} \union
            {p \in searchable : ~(p[1] = d /\ n > first)}

(* The document goes with its versions (ORM cascade) and its chunks (purge, *)
(* or ON DELETE CASCADE).                                                   *)
Remove(d) ==
    /\ docs' = [docs EXCEPT ![d] = Unset]
    /\ versions' = versions \ RowsOf(d)
    /\ searchable' = {p \in searchable : p[1] # d}

-----------------------------------------------------------------------------
(* Uploads *)

(* Upload u meets another one of the same name. *)
Meeting(u, name) ==
    IF \E v \in Uploads \ {u} : pc[v] \in UnderWay /\ req[v].name = name
    THEN {name} ELSE {}

(* variant of Find: the lookup joins the versions of a document *)
FindWithVersions(u) ==
    /\ pc[u] = "find"
    /\ \E r \in Requests :
         LET same == {d \in Existing : docs[d].name = r.name /\ RowsOf(d) # {}}
         IN /\ req' = [req EXCEPT ![u] = r]
            /\ met' = met \union Meeting(u, r.name)
            /\ \/ \E d \in same :
                    /\ doc' = [doc EXCEPT ![u] = d]
                    /\ pc' = [pc EXCEPT ![u] = "latest"]
               \/ /\ same = {}
                  /\ pc' = [pc EXCEPT ![u] = "create"]
                  /\ UNCHANGED doc
    /\ UNCHANGED <<docs, used, versions, searchable, created, number, acked>>

(* _find_existing_document: first() of the documents of this name and user; *)
(* an existing document is used whatever category the upload asks for.      *)
Find(u) ==
    /\ pc[u] = "find"
    /\ \E r \in Requests :
         LET same == {d \in Existing : docs[d].name = r.name}
         IN /\ req' = [req EXCEPT ![u] = r]
            /\ met' = met \union Meeting(u, r.name)
            /\ \/ \E d \in same :
                    /\ doc' = [doc EXCEPT ![u] = d]
                    /\ pc' = [pc EXCEPT ![u] = "latest"]
               \/ /\ same = {}
                  /\ pc' = [pc EXCEPT ![u] = "create"]
                  /\ UNCHANGED doc
    /\ UNCHANGED <<docs, used, versions, searchable, created, number, acked>>

(* variant of Create: the id is not kept *)
CreateIdLost(u) ==
    /\ pc[u] = "create"
    /\ \E d \in Docs \ used :
         /\ docs' = [docs EXCEPT ![d] = [name |-> req[u].name, scope |-> req[u].scope]]
         /\ used' = used \union {d}
    /\ created' = [created EXCEPT ![u] = TRUE]
    /\ pc' = [pc EXCEPT ![u] = "latest"]
    /\ UNCHANGED <<versions, searchable, req, doc, number, history>>

(* create_document, in a transaction of its own *)
Create(u) ==
    /\ pc[u] = "create"
    /\ \E d \in Docs \ used :
         /\ docs' = [docs EXCEPT ![d] = [name |-> req[u].name, scope |-> req[u].scope]]
         /\ used' = used \union {d}
         /\ doc' = [doc EXCEPT ![u] = d]
    /\ created' = [created EXCEPT ![u] = TRUE]
    /\ pc' = [pc EXCEPT ![u] = "latest"]
    /\ UNCHANGED <<versions, searchable, req, number, history>>

(* add_version: bytes identical to the latest version are a no-op, and the  *)
(* upload answers with that version; other bytes are extracted and embedded. *)
ReadLatest(u) ==
    /\ pc[u] = "latest"
    /\ LET same == {r \in LatestRow(doc[u]) : r.bytes = req[u].bytes}
       IN \/ /\ same # {}
             /\ acked' = acked \union same
             /\ pc' = [pc EXCEPT ![u] = "done"]
          \/ /\ same = {}
             /\ pc' = [pc EXCEPT ![u] = "number"]
             /\ UNCHANGED acked
    /\ UNCHANGED <<docs, used, versions, searchable, req, doc, created, number, met>>

(* In the indexing transaction: the next number is read ... *)
ReadNumber(u) ==
    /\ pc[u] = "number"
    /\ number' = [number EXCEPT ![u] = NextNumber(doc[u])]
    /\ pc' = [pc EXCEPT ![u] = "insert"]
    /\ UNCHANGED <<docs, used, versions, searchable, req, doc, created, history>>

(* variants of Insert: uq_document_version missing; the first version is    *)
(* not demoted; no version is demoted                                       *)
InsertNotUnique(u) ==
    /\ pc[u] = "insert"
    /\ doc[u] \in Existing
    /\ AddRow(u, 1)
    /\ pc' = [pc EXCEPT ![u] = "committed"]
    /\ UNCHANGED <<docs, used, req, doc, created, number, history>>

InsertDemotionLate(u) ==
    /\ pc[u] = "insert"
    /\ doc[u] \in Existing
    /\ number[u] \notin Numbers(doc[u])
    /\ AddRow(u, 2)
    /\ pc' = [pc EXCEPT ![u] = "committed"]
    /\ UNCHANGED <<docs, used, req, doc, created, number, history>>

InsertNoDemotion(u) ==
    /\ pc[u] = "insert"
    /\ doc[u] \in Existing
    /\ number[u] \notin Numbers(doc[u])
    /\ AddRow(u, number[u])
    /\ pc' = [pc EXCEPT ![u] = "committed"]
    /\ UNCHANGED <<docs, used, req, doc, created, number, history>>

(* ... and used: the row is inserted, earlier versions are demoted, the     *)
(* chunks are inserted and all of it commits.  The foreign key wants the    *)
(* document to exist, uq_document_version wants the number to be free; a    *)
(* rival insert or deletion under way is waited for.                        *)
Insert(u) ==
    /\ pc[u] = "insert"
    /\ doc[u] \in Existing
    /\ number[u] \notin Numbers(doc[u])
    /\ AddRow(u, 1)
    /\ pc' = [pc EXCEPT ![u] = "committed"]
    /\ UNCHANGED <<docs, used, req, doc, created, number, history>>

(* The rows are read again (the commit expired them), the cache is          *)
(* invalidated and the upload answers with its version.                     *)
Respond(u) ==
    /\ pc[u] = "committed"
    /\ doc[u] \in Existing
    /\ acked' = acked \union {r \in RowsOf(doc[u]) : r.number = number[u]}
    /\ pc' = [pc EXCEPT ![u] = "done"]
    /\ UNCHANGED <<docs, used, versions, searchable, req, doc, created, number, met>>

(* variant of Fail: the document is removed whoever created it *)
FailAlwaysCleans(u) ==
    /\ pc[u] \in {"find", "create", "latest", "number", "insert", "committed"}
    /\ pc' = [pc EXCEPT ![u] = IF doc[u] # Unset THEN "cleanup" ELSE "failed"]
    /\ UNCHANGED <<docs, used, versions, searchable, req, doc, created, number, history>>

(* An exception anywhere: no category, no text, a failed embedding, a       *)
(* violated constraint, a document gone, a lost connection.  A request that *)
(* created its document cleans up.                                          *)
Fail(u) ==
    /\ pc[u] \in {"find", "create", "latest", "number", "insert", "committed"}
    /\ pc' = [pc EXCEPT ![u] = IF created[u] THEN "cleanup" ELSE "failed"]
    /\ UNCHANGED <<docs, used, versions, searchable, req, doc, created, number, history>>

(* upload_new_document's cleanup deletes the document it had created, with  *)
(* every version it has by now; a failure to do so is logged and swallowed. *)
Cleanup(u) ==
    /\ pc[u] = "cleanup"
    /\ \/ doc[u] \in Existing /\ Remove(doc[u])
       \/ UNCHANGED <<docs, versions, searchable>>
    /\ pc' = [pc EXCEPT ![u] = "failed"]
    /\ UNCHANGED <<used, req, doc, created, number, history>>

-----------------------------------------------------------------------------
(* Other steps *)

(* delete_document by a user: one transaction, or (when an upload inserts a *)
(* version between its statements) a foreign key error and no effect.       *)
Delete(d) ==
    /\ d \in Existing
    /\ Remove(d)
    /\ acked' = {r \in acked : r.doc # d}
    /\ UNCHANGED <<used, uploads, met>>

(* The process restarts: the requests under way are gone. *)
Crash ==
    /\ pc' = [u \in Uploads |->
                IF pc[u] \in {"find", "done", "failed"} THEN pc[u] ELSE "failed"]
    /\ UNCHANGED <<docs, used, versions, searchable, req, doc, created, number, history>>

Next ==
    \/ \E u \in Uploads :
         \/ Find(u) \/ Create(u) \/ ReadLatest(u) \/ ReadNumber(u)
         \/ Insert(u) \/ Respond(u) \/ Fail(u) \/ Cleanup(u)
    \/ \E d \in Docs : Delete(d)
    \/ Crash

Spec == Init /\ [][Next]_vars

-----------------------------------------------------------------------------
(* Properties *)

(* Every variable has its type, and an upload past its first steps has a    *)
(* request and a document.                                                  *)
TypeOK ==
    /\ docs \in [Docs -> Headers \union {Unset}]
    /\ used \subseteq Docs
    /\ versions \subseteq Rows
    /\ searchable \subseteq Docs \X Nat
    /\ pc \in [Uploads -> Places]
    /\ req \in [Uploads -> Requests \union {Unset}]
    /\ doc \in [Uploads -> Docs \union {Unset}]
    /\ created \in [Uploads -> BOOLEAN]
    /\ number \in [Uploads -> Nat]
    /\ acked \subseteq Rows
    /\ met \subseteq Names
    /\ \A u \in Uploads :
         /\ pc[u] = "cleanup" => created[u]
         /\ pc[u] \notin {"find", "failed"} => req[u] \in Requests
         /\ created[u] \/ pc[u] \in {"latest", "number", "insert", "committed", "done"}
              => req[u] \in Requests /\ doc[u] \in Docs

(* Concurrent uploads number the versions of a document 1, 2, 3 ... with no *)
(* gap, no number twice and no row left behind by a deleted document        *)
(* (_next_version_number against uq_document_version).                      *)
VersionsNumbered ==
    /\ \A d \in Docs : Numbers(d) = 1..Cardinality(RowsOf(d))
    /\ \A r \in versions : r.doc \in Existing

(* A search finds the chunks of the latest version of a document and of no  *)
(* other (_demote_previous_versions, commit).                               *)
SearchFindsLatest ==
    \A d \in Docs : {p[2] : p \in {q \in searchable : q[1] = d}}
                    = {r.number : r \in LatestRow(d)}

(* A version an upload answered with is there until a user deletes its      *)
(* document, or until the request that created the document fails.          *)
AckedLostToCreatorOnly ==
    \A r \in acked : r \in versions
        \/ \E u \in Uploads : created[u] /\ doc[u] = r.doc /\ pc[u] = "failed"

(* Each step is one atomic Open, Publish or Drop of the abstract store, or  *)
(* nothing: the histories of documents only grow at their end, and a search *)
(* moves from each version to the next.                                     *)
Past(rows) == [n \in 1..Cardinality(rows) |->
                 (CHOOSE r \in rows : r.number = n).bytes]
Found(d) == {r.bytes : r \in {s \in RowsOf(d) : <<d, s.number>> \in searchable}}
Abstract == INSTANCE VersionStore WITH
    open <- Existing,
    past <- [d \in Docs |-> Past(RowsOf(d))],
    found <- [d \in Docs |-> Found(d)]
ImplementsVersionStore == Abstract!Spec

(* Find-or-create has no unique constraint behind it, and yet a name has    *)
(* one document unless two uploads of it were under way at once: failures,  *)
(* restarts and deletions make no second one (_find_existing_document).     *)
OneDocumentPerName ==
    \A d, e \in Existing : d # e /\ docs[d].name = docs[e].name => docs[d].name \in met

(* "Bytes identical to the current latest version are a no-op ... so a      *)
(* retried upload never appends a duplicate" (add_version's docstring): so  *)
(* it is unless the retry overlaps another upload of the name.              *)
NoRepeatedVersion ==
    \A r, s \in versions :
        r.doc = s.doc /\ s.number = r.number + 1 /\ r.bytes = s.bytes
            => docs[r.doc].name \in met
=============================================================================
