---------------------------- MODULE UploadSessions ----------------------------
(***************************************************************************)
(* One resumable upload session (upload_session_service.py) and the        *)
(* requests for it, which may overlap: a client that times out retries     *)
(* while the first request still runs.                                     *)
(*                                                                         *)
(* Chunks and completions run on worker threads; create, pause and abort   *)
(* on the event loop, so they exclude each other only.  A request loads    *)
(* the row, checks it, and commits what it changed: the ORM writes the     *)
(* attributes whose value differs from the one loaded, and the last writer *)
(* wins.  The row is not locked and has no version column.                 *)
(*                                                                         *)
(* The bytes of the client's file are their positions 1, 2 ... TotalSize.  *)
(***************************************************************************)
EXTENDS Naturals, Sequences

CONSTANTS
    Requests,     \* requests that may be under way together
    TotalSize,    \* total_size of the session, in bytes
    NoRow         \* no row in upload_sessions, or nothing loaded

ASSUME SizeAssumption == TotalSize \in Nat \ {0}

Sizes == 0..TotalSize
Statuses == {"active", "paused", "completed"}
SessionRows == [status : Statuses, received : Nat, data : Seq(1..TotalSize)]

ASSUME NoRowAssumption == NoRow \notin SessionRows

VARIABLES
    opened,       \* the session was created
    row,          \* its row of upload_sessions, or NoRow
    pc, seen, len,    \* of each request: its place, the row it loaded, chunk size
    ingested,     \* the file contents handed to upload_new_document
    overlapped    \* history: two requests were under way together

requests == <<pc, seen, len>>
vars == <<opened, row, requests, ingested, overlapped>>

Places == {"idle", "append", "pause", "ingest", "complete"}

Init ==
    /\ opened = FALSE
    /\ row = NoRow
    /\ pc = [r \in Requests |-> "idle"]
    /\ seen = [r \in Requests |-> NoRow]
    /\ len = [r \in Requests |-> 0]
    /\ ingested = {}
    /\ overlapped = FALSE

-----------------------------------------------------------------------------
(* Helpers *)

(* the bytes [offset, offset + n) of the client's file, and its first n *)
Chunk(offset, n) == [i \in 1..n |-> offset + i]
Prefix(n) == [i \in 1..n |-> i]

LoopFree == \A r \in Requests : pc[r] # "pause"

(* Request r loads the row and goes on at place p with a chunk of n bytes. *)
Load(r, p, n) ==
    /\ seen' = [seen EXCEPT ![r] = row]
    /\ len' = [len EXCEPT ![r] = n]
    /\ pc' = [pc EXCEPT ![r] = p]
    /\ overlapped' = (overlapped \/ \E q \in Requests : pc[q] # "idle")
    /\ UNCHANGED <<opened, row, ingested>>

End(r) ==
    /\ pc' = [pc EXCEPT ![r] = "idle"]
    /\ seen' = [seen EXCEPT ![r] = NoRow]
    /\ len' = [len EXCEPT ![r] = 0]

-----------------------------------------------------------------------------
(* Requests *)

(* create_session *)
Create ==
    /\ LoopFree
    /\ ~opened
    /\ opened' = TRUE
    /\ row' = [status |-> "active", received |-> 0, data |-> <<>>]
    /\ UNCHANGED <<requests, ingested, overlapped>>

(* variant of AppendLoad: the overflow test is off by one *)
AppendLoadOffByOne(r) ==
    /\ pc[r] = "idle"
    /\ row # NoRow
    /\ row.status # "completed"
    /\ \E offset \in Sizes, n \in 1..TotalSize :
         /\ offset = row.received
         /\ row.received + n <= TotalSize + 1
         /\ Load(r, "append", n)

(* append_chunk: the offset sent must be the row's bytes_received, and the  *)
(* chunk, never empty, must fit.                                            *)
AppendLoad(r) ==
    /\ pc[r] = "idle"
    /\ row # NoRow
    /\ row.status # "completed"
    /\ \E offset \in Sizes, n \in 1..TotalSize :
         /\ offset = row.received
         /\ row.received + n <= TotalSize
         /\ Load(r, "append", n)

(* variant of AppendCommit: bytes_received is incremented in the row as it  *)
(* is by now                                                                *)
AppendCommitFreshCount(r) ==
    /\ pc[r] = "append"
    /\ row' = IF row = NoRow THEN NoRow ELSE
         [status   |-> IF seen[r].status = "paused" THEN "active" ELSE row.status,
          received |-> row.received + len[r],
          data     |-> seen[r].data \o Chunk(seen[r].received, len[r])]
    /\ End(r)
    /\ UNCHANGED <<opened, ingested, overlapped>>

(* data and bytes_received are written from the row loaded; the status is   *)
(* written only if it was paused.  A row gone meanwhile is an error.        *)
AppendCommit(r) ==
    /\ pc[r] = "append"
    /\ row' = IF row = NoRow THEN NoRow ELSE
         [status   |-> IF seen[r].status = "paused" THEN "active" ELSE row.status,
          received |-> seen[r].received + len[r],
          data     |-> seen[r].data \o Chunk(seen[r].received, len[r])]
    /\ End(r)
    /\ UNCHANGED <<opened, ingested, overlapped>>

(* pause, on the event loop but not alone: worker threads go on *)
PauseLoad(r) ==
    /\ LoopFree
    /\ pc[r] = "idle"
    /\ row # NoRow
    /\ row.status # "completed"
    /\ Load(r, "pause", 0)

PauseCommit(r) ==
    /\ pc[r] = "pause"
    /\ row' = IF row = NoRow \/ seen[r].status = "paused" THEN row
              ELSE [row EXCEPT !.status = "paused"]
    /\ End(r)
    /\ UNCHANGED <<opened, ingested, overlapped>>

(* variant of CompleteLoad: bytes may be missing *)
CompleteLoadEarly(r) ==
    /\ pc[r] = "idle"
    /\ row # NoRow
    /\ row.status # "completed"
    /\ row.data # <<>>
    /\ Load(r, "ingest", 0)

(* complete: every byte must have been received.  validate_mime_for_ext     *)
(* refuses an empty blob, and may refuse any other.                         *)
CompleteLoad(r) ==
    /\ pc[r] = "idle"
    /\ row # NoRow
    /\ row.status # "completed"
    /\ row.received = TotalSize
    /\ row.data # <<>>
    /\ Load(r, "ingest", 0)

(* upload_new_document commits the bytes loaded. *)
Ingest(r) ==
    /\ pc[r] = "ingest"
    /\ ingested' = ingested \union {seen[r].data}
    /\ pc' = [pc EXCEPT ![r] = "complete"]
    /\ UNCHANGED <<opened, row, seen, len, overlapped>>

(* An exception: the database or the ingestion fails, and the session is    *)
(* left as it is, even after the bytes were ingested.                       *)
Fail(r) ==
    /\ pc[r] # "idle"
    /\ End(r)
    /\ UNCHANGED <<opened, row, ingested, overlapped>>

(* variant of CompleteCommit: the blob stays *)
CompleteCommitKeepsBlob(r) ==
    /\ pc[r] = "complete"
    /\ row' = IF row = NoRow THEN NoRow ELSE [row EXCEPT !.status = "completed"]
    /\ End(r)
    /\ UNCHANGED <<opened, ingested, overlapped>>

(* The session is marked and its blob cleared; bytes_received stays.  A row *)
(* gone meanwhile is an error.                                              *)
CompleteCommit(r) ==
    /\ pc[r] = "complete"
    /\ row' = IF row = NoRow THEN NoRow
              ELSE [row EXCEPT !.status = "completed", !.data = <<>>]
    /\ End(r)
    /\ UNCHANGED <<opened, ingested, overlapped>>

(* abort deletes the row, whatever its status. *)
Abort ==
    /\ LoopFree
    /\ row # NoRow
    /\ row' = NoRow
    /\ UNCHANGED <<opened, requests, ingested, overlapped>>

(* The process restarts: no request is under way any more. *)
Crash ==
    /\ pc' = [r \in Requests |-> "idle"]
    /\ seen' = [r \in Requests |-> NoRow]
    /\ len' = [r \in Requests |-> 0]
    /\ UNCHANGED <<opened, row, ingested, overlapped>>

Next ==
    \/ Create \/ Abort \/ Crash
    \/ \E r \in Requests :
         \/ AppendLoad(r) \/ AppendCommit(r) \/ PauseLoad(r) \/ PauseCommit(r)
         \/ CompleteLoad(r) \/ Ingest(r) \/ Fail(r) \/ CompleteCommit(r)

Spec == Init /\ [][Next]_vars

-----------------------------------------------------------------------------
(* Properties *)

(* Every variable has its type; a request under way loaded a row. *)
TypeOK ==
    /\ opened \in BOOLEAN
    /\ row \in SessionRows \union {NoRow}
    /\ row # NoRow => opened /\ row.received <= TotalSize
    /\ pc \in [Requests -> Places]
    /\ seen \in [Requests -> SessionRows \union {NoRow}]
    /\ len \in [Requests -> Sizes]
    /\ \A r \in Requests :
         /\ pc[r] # "idle" => seen[r] \in SessionRows
         /\ pc[r] = "append" => seen[r].received + len[r] <= TotalSize
    /\ ingested \subseteq Seq(1..TotalSize)
    /\ overlapped \in BOOLEAN

(* Until something was ingested the blob is the first bytes_received bytes  *)
(* of the file, however appends, retries and pauses overlap (append_chunk). *)
BytesKept == row # NoRow /\ ingested = {} => row.data = Prefix(row.received)

(* The first completion that ingests anything ingests the whole file.       *)
FirstIngestionWhole ==
    [][ingested = {} => ingested' \subseteq {Prefix(TotalSize)}]_vars

(* With a client that sends one request at a time, only the whole file is   *)
(* ever ingested, a completed session was ingested and its blob is cleared. *)
SequentialClientSafe ==
    ~overlapped =>
        /\ ingested \subseteq {Prefix(TotalSize)}
        /\ row # NoRow /\ row.status = "completed" => row.data = <<>> /\ ingested # {}
=============================================================================
