------------------------- MODULE UploadSessionsProofs -------------------------
(***************************************************************************)
(* Proofs about UploadSessions for any number of overlapping requests and  *)
(* any file size.                                                          *)
(***************************************************************************)
EXTENDS UploadSessions, SequenceTheorems, TLAPS

-----------------------------------------------------------------------------
(* The bytes of a prefix *)

(* A chunk sent at its offset makes the prefix longer. *)
LEMMA PrefixGrows ==
    ASSUME NEW n \in Nat, NEW m \in Nat
    PROVE  Prefix(n) \o Chunk(n, m) = Prefix(n + m)
  <1>1. Prefix(n) \in Seq(Nat) /\ Len(Prefix(n)) = n
    BY DEF Prefix
  <1>2. Chunk(n, m) \in Seq(Nat) /\ Len(Chunk(n, m)) = m
    BY DEF Chunk
  <1>3. Prefix(n + m) \in Seq(Nat) /\ Len(Prefix(n + m)) = n + m
    BY DEF Prefix
  <1>4. \A i \in 1..(n + m) : (Prefix(n) \o Chunk(n, m))[i] = Prefix(n + m)[i]
    BY <1>1, <1>2 DEF Prefix, Chunk
  <1>5. Prefix(n) \o Chunk(n, m) \in Seq(Nat)
        /\ Len(Prefix(n) \o Chunk(n, m)) = n + m
    BY <1>1, <1>2
  <1>6. QED
    BY <1>3, <1>4, <1>5, SeqEqual

LEMMA ChunkBytes ==
    ASSUME NEW n \in Nat, NEW m \in Nat, n + m <= TotalSize
    PROVE  Chunk(n, m) \in Seq(1..TotalSize)
  BY SizeAssumption DEF Chunk

-----------------------------------------------------------------------------
(* Type correctness *)

LEMMA InitType == Init => TypeOK
  <1> SUFFICES ASSUME Init PROVE TypeOK
    OBVIOUS
  <1>1. opened \in BOOLEAN /\ overlapped \in BOOLEAN
    BY DEF Init
  <1>2. len \in [Requests -> Sizes]
    BY SizeAssumption DEF Init, Sizes
  <1>3. QED
    BY <1>1, <1>2 DEF Init, TypeOK, Places

LEMMA LoadType ==
    ASSUME TypeOK, NEW r \in Requests, row # NoRow,
           NEW p \in Places \ {"append"}, Load(r, p, 0)
    PROVE  TypeOK'
  BY SizeAssumption DEF TypeOK, Load, Sizes

LEMMA AppendLoadType ==
    ASSUME TypeOK, NEW r \in Requests, AppendLoad(r)
    PROVE  TypeOK'
  <1>1. PICK n \in 1..TotalSize : row.received + n <= TotalSize /\ Load(r, "append", n)
    BY DEF AppendLoad
  <1>2. row \in SessionRows /\ n \in Sizes
    BY SizeAssumption DEF TypeOK, AppendLoad, Sizes
  <1>3. QED
    BY <1>1, <1>2 DEF TypeOK, Load, Places

(* A request that ends having written a row. *)
LEMMA EndType ==
    ASSUME TypeOK, NEW r \in Requests, End(r), UNCHANGED <<opened, ingested, overlapped>>,
           row' = NoRow \/ (row # NoRow /\ row' \in SessionRows /\ row'.received <= TotalSize)
    PROVE  TypeOK'
  <1>1. row' \in SessionRows \union {NoRow} /\ (row' # NoRow => opened' /\ row'.received <= TotalSize)
    BY DEF TypeOK
  <1>2. 0 \in Sizes /\ "idle" \in Places
    BY SizeAssumption DEF Sizes, Places
  <1>3. QED
    BY <1>1, <1>2 DEF TypeOK, End

LEMMA NextType == TypeOK /\ [Next]_vars => TypeOK'
  <1> SUFFICES ASSUME TypeOK, [Next]_vars PROVE TypeOK'
    OBVIOUS
  <1>1. CASE Create
    <2>1. row' \in SessionRows /\ row'.received <= TotalSize
      BY <1>1, SizeAssumption DEF Create, SessionRows, Statuses
    <2>2. QED  BY <1>1, <2>1 DEF Create, TypeOK, requests
  <1>2. CASE Abort
    BY <1>2 DEF Abort, TypeOK, requests
  <1>3. CASE Crash
    BY <1>3, SizeAssumption DEF Crash, TypeOK, Places, Sizes
  <1>4. ASSUME NEW r \in Requests, AppendLoad(r) PROVE TypeOK'
    BY <1>4, AppendLoadType
  <1>5. ASSUME NEW r \in Requests, AppendCommit(r) PROVE TypeOK'
    <2>1. /\ seen[r] \in SessionRows
          /\ len[r] \in Nat
          /\ seen[r].received + len[r] <= TotalSize
      BY <1>5 DEF AppendCommit, TypeOK, Sizes
    <2>2. Chunk(seen[r].received, len[r]) \in Seq(1..TotalSize)
      BY <2>1, ChunkBytes DEF SessionRows
    <2>3. seen[r].data \o Chunk(seen[r].received, len[r]) \in Seq(1..TotalSize)
      BY <2>1, <2>2 DEF SessionRows
    <2>4. CASE row = NoRow
      BY <1>5, <2>4, EndType DEF AppendCommit
    <2>5. CASE row # NoRow
      <3>1. (IF seen[r].status = "paused" THEN "active" ELSE row.status) \in Statuses
        BY <2>5 DEF TypeOK, SessionRows, Statuses
      <3>2. seen[r].received + len[r] \in Nat
        BY <2>1 DEF SessionRows
      <3>3. row' \in SessionRows /\ row'.received <= TotalSize
        BY <1>5, <2>1, <2>3, <2>5, <3>1, <3>2 DEF AppendCommit, SessionRows
      <3>4. QED  BY <1>5, <2>5, <3>3, EndType DEF AppendCommit
    <2>6. QED  BY <2>4, <2>5
  <1>6. ASSUME NEW r \in Requests, PauseLoad(r) \/ CompleteLoad(r) PROVE TypeOK'
    BY <1>6, LoadType DEF PauseLoad, CompleteLoad, Places
  <1>7. ASSUME NEW r \in Requests, PauseCommit(r) \/ CompleteCommit(r) PROVE TypeOK'
    <2>1. row = NoRow => row' = NoRow
      BY <1>7 DEF PauseCommit, CompleteCommit
    <2>2. ASSUME row # NoRow PROVE row' \in SessionRows /\ row'.received = row.received
      <3>1. row \in SessionRows /\ "paused" \in Statuses /\ "completed" \in Statuses
        BY <2>2 DEF TypeOK, Statuses
      <3>2. <<>> \in Seq(1..TotalSize)
        OBVIOUS
      <3>3. QED  BY <1>7, <2>2, <3>1, <3>2 DEF PauseCommit, CompleteCommit, SessionRows
    <2>3. row' = NoRow \/ (row # NoRow /\ row' \in SessionRows /\ row'.received <= TotalSize)
      BY <2>1, <2>2 DEF TypeOK
    <2>4. QED  BY <1>7, <2>3, EndType DEF PauseCommit, CompleteCommit
  <1>8. ASSUME NEW r \in Requests, Ingest(r) PROVE TypeOK'
    <2>1. seen[r].data \in Seq(1..TotalSize)
      BY <1>8 DEF Ingest, TypeOK, SessionRows
    <2>2. QED  BY <1>8, <2>1 DEF Ingest, TypeOK, Places
  <1>9. ASSUME NEW r \in Requests, Fail(r) PROVE TypeOK'
    <2>1. row' = NoRow \/ (row # NoRow /\ row' \in SessionRows /\ row'.received <= TotalSize)
      BY <1>9 DEF Fail, TypeOK
    <2>2. QED  BY <1>9, <2>1, EndType DEF Fail
  <1>10. CASE UNCHANGED vars
    BY <1>10 DEF TypeOK, vars, requests
  <1>11. QED
    BY <1>1, <1>2, <1>3, <1>4, <1>5, <1>6, <1>7, <1>8, <1>9, <1>10 DEF Next

(* Every variable of every reachable state has its type: no overlap of      *)
(* requests makes bytes_received exceed total_size.                         *)
THEOREM TypeCorrect == Spec => []TypeOK
  <1>1. QED
    BY InitType, NextType, PTL DEF Spec

-----------------------------------------------------------------------------
(* Until the first ingestion *)

(* What a request loaded is a prefix too, a complete one for a completion,  *)
(* and none is past its ingestion.                                          *)
SeenKept ==
    ingested = {} => \A r \in Requests :
        /\ pc[r] # "idle" => seen[r].data = Prefix(seen[r].received)
        /\ pc[r] = "ingest" => seen[r].received = TotalSize
        /\ pc[r] # "complete"

KeptInv == TypeOK /\ BytesKept /\ SeenKept

LEMMA KeptInit == Init => KeptInv
  BY InitType DEF Init, KeptInv, BytesKept, SeenKept

LEMMA LoadKept ==
    ASSUME KeptInv, NEW r \in Requests, row # NoRow, NEW p \in {"append", "pause", "ingest"},
           NEW n, Load(r, p, n), p = "ingest" => row.received = TotalSize
    PROVE  BytesKept' /\ SeenKept'
  BY DEF KeptInv, TypeOK, BytesKept, SeenKept, Load

LEMMA EndKept ==
    ASSUME KeptInv, NEW r \in Requests, End(r), ingested' = ingested
    PROVE  SeenKept'
  BY DEF KeptInv, TypeOK, SeenKept, End

LEMMA KeptNext == KeptInv /\ [Next]_vars => KeptInv'
  <1> SUFFICES ASSUME KeptInv, [Next]_vars PROVE BytesKept' /\ SeenKept'
    BY NextType DEF KeptInv
  <1>1. CASE Create
    <2>1. <<>> = Prefix(0)
      BY DEF Prefix
    <2>2. QED  BY <1>1, <2>1 DEF Create, KeptInv, BytesKept, SeenKept, requests
  <1>2. CASE Abort
    BY <1>2 DEF Abort, KeptInv, BytesKept, SeenKept, requests
  <1>3. CASE Crash
    BY <1>3 DEF Crash, KeptInv, BytesKept, SeenKept
  <1>4. ASSUME NEW r \in Requests, AppendLoad(r) \/ PauseLoad(r) \/ CompleteLoad(r)
        PROVE  BytesKept' /\ SeenKept'
    BY <1>4, LoadKept DEF AppendLoad, PauseLoad, CompleteLoad
  <1>5. ASSUME NEW r \in Requests, AppendCommit(r) PROVE BytesKept' /\ SeenKept'
    <2>1. ASSUME row' # NoRow, ingested' = {} PROVE row'.data = Prefix(row'.received)
      <3>1. seen[r].data = Prefix(seen[r].received)
        BY <1>5, <2>1 DEF AppendCommit, KeptInv, SeenKept
      <3>2. seen[r].received \in Nat /\ len[r] \in Nat
        BY <1>5 DEF AppendCommit, KeptInv, TypeOK, SessionRows, Sizes
      <3>3. row'.received = seen[r].received + len[r]
            /\ row'.data = seen[r].data \o Chunk(seen[r].received, len[r])
        BY <1>5, <2>1 DEF AppendCommit
      <3>4. QED  BY <3>1, <3>2, <3>3, PrefixGrows
    <2>2. QED  BY <1>5, <2>1, EndKept DEF AppendCommit, BytesKept
  <1>6. ASSUME NEW r \in Requests, PauseCommit(r) PROVE BytesKept' /\ SeenKept'
    <2>1. row' # NoRow => row # NoRow /\ row'.data = row.data /\ row'.received = row.received
      BY <1>6 DEF PauseCommit, KeptInv, TypeOK, SessionRows
    <2>2. QED  BY <1>6, <2>1, EndKept DEF PauseCommit, KeptInv, BytesKept
  <1>7. ASSUME NEW r \in Requests, Ingest(r) PROVE BytesKept' /\ SeenKept'
    BY <1>7 DEF Ingest, BytesKept, SeenKept
  <1>8. ASSUME NEW r \in Requests, Fail(r) PROVE BytesKept' /\ SeenKept'
    BY <1>8, EndKept DEF Fail, KeptInv, BytesKept
  <1>9. ASSUME NEW r \in Requests, CompleteCommit(r) PROVE BytesKept' /\ SeenKept'
    BY <1>9, EndKept DEF CompleteCommit, KeptInv, BytesKept, SeenKept
  <1>10. CASE UNCHANGED vars
    BY <1>10 DEF KeptInv, BytesKept, SeenKept, vars, requests
  <1>11. QED
    BY <1>1, <1>2, <1>3, <1>4, <1>5, <1>6, <1>7, <1>8, <1>9, <1>10 DEF Next

(* Whatever appends, retries, pauses and crashes do, the blob is the first  *)
(* bytes_received bytes of the file until something was ingested.           *)
THEOREM Kept == Spec => []BytesKept
  <1>1. KeptInv => BytesKept
    BY DEF KeptInv
  <1>2. QED
    BY <1>1, KeptInit, KeptNext, PTL DEF Spec

(* What the first successful completion ingests is the whole file. *)
THEOREM FirstWhole == Spec => FirstIngestionWhole
  <1>1. KeptInv /\ [Next]_vars => [ingested = {} => ingested' \subseteq {Prefix(TotalSize)}]_vars
    <2> SUFFICES ASSUME KeptInv, Next, ingested = {}
                 PROVE  ingested' \subseteq {Prefix(TotalSize)}
      OBVIOUS
    <2>1. ASSUME NEW r \in Requests, Ingest(r) PROVE ingested' \subseteq {Prefix(TotalSize)}
      BY <2>1 DEF Ingest, KeptInv, SeenKept
    <2>2. ASSUME ~\E r \in Requests : Ingest(r) PROVE ingested' = {}
      BY <2>2 DEF Next, Create, Abort, Crash, AppendLoad, AppendCommit, PauseLoad,
         PauseCommit, CompleteLoad, Fail, CompleteCommit, Load
    <2>3. QED  BY <2>1, <2>2
  <1>2. QED
    BY <1>1, KeptInit, KeptNext, PTL DEF Spec, FirstIngestionWhole

-----------------------------------------------------------------------------
(* A client that sends one request at a time *)

OneAtATime == \A r, q \in Requests : pc[r] # "idle" /\ pc[q] # "idle" => r = q

(* The row a request loaded is the row as it is, unless it was aborted. *)
SeenIsRow == \A r \in Requests : pc[r] # "idle" =>
    /\ row # NoRow => row = seen[r]
    /\ seen[r].status # "completed"
    /\ seen[r].data = Prefix(seen[r].received)
    /\ pc[r] = "ingest" => seen[r].received = TotalSize
    /\ pc[r] = "complete" => ingested # {}

OpenIsPrefix ==
    row # NoRow /\ row.status # "completed" => row.data = Prefix(row.received)

(* There is no request for a session before it is created. *)
CreatedFirst == ~opened => \A r \in Requests : pc[r] = "idle"

AloneInv ==
    /\ TypeOK
    /\ CreatedFirst
    /\ ~overlapped => OneAtATime /\ SeenIsRow /\ OpenIsPrefix
    /\ SequentialClientSafe

LEMMA AloneInit == Init => AloneInv
  BY InitType DEF Init, AloneInv, CreatedFirst, OneAtATime, SeenIsRow, OpenIsPrefix, SequentialClientSafe

LEMMA LoadAlone ==
    ASSUME AloneInv, NEW r \in Requests, row # NoRow, row.status # "completed",
           NEW p \in {"append", "pause", "ingest"}, NEW n, Load(r, p, n),
           p = "ingest" => row.received = TotalSize, ~overlapped'
    PROVE  OneAtATime' /\ SeenIsRow' /\ OpenIsPrefix' /\ SequentialClientSafe'
  <1>1. ~overlapped /\ \A q \in Requests : pc[q] = "idle"
    BY DEF Load, AloneInv, TypeOK
  <1>2. OneAtATime'
    BY <1>1 DEF Load, OneAtATime, AloneInv, TypeOK
  <1>3. SeenIsRow'
    BY <1>1 DEF Load, SeenIsRow, OpenIsPrefix, AloneInv, TypeOK
  <1>4. OpenIsPrefix' /\ SequentialClientSafe'
    BY <1>1 DEF Load, OpenIsPrefix, SequentialClientSafe, AloneInv
  <1>5. QED
    BY <1>2, <1>3, <1>4

(* With its only request over, nobody holds a row. *)
LEMMA EndAlone ==
    ASSUME AloneInv, ~overlapped, NEW r \in Requests, pc[r] # "idle", End(r)
    PROVE  OneAtATime' /\ SeenIsRow'
  <1>1. \A q \in Requests : pc'[q] = "idle"
    BY DEF End, AloneInv, TypeOK, OneAtATime
  <1>2. QED
    BY <1>1 DEF OneAtATime, SeenIsRow

LEMMA AloneNext == AloneInv /\ [Next]_vars => AloneInv'
  <1> DEFINE Holds == OneAtATime /\ SeenIsRow /\ OpenIsPrefix /\ SequentialClientSafe
  <1> SUFFICES ASSUME AloneInv, [Next]_vars, ~overlapped' PROVE Holds'
    <2>1. AloneInv /\ [Next]_vars => CreatedFirst'
      BY DEF AloneInv, TypeOK, CreatedFirst, Next, Create, Abort, Crash, AppendLoad, AppendCommit,
         PauseLoad, PauseCommit, CompleteLoad, Ingest, Fail, CompleteCommit, Load, End, vars, requests
    <2>2. QED  BY <2>1, NextType DEF AloneInv, SequentialClientSafe
  <1>0. ~overlapped /\ TypeOK /\ Holds
    <2>1. overlapped => overlapped'
      BY DEF AloneInv, TypeOK, Next, Create, Abort, Crash, AppendLoad, AppendCommit, PauseLoad,
         PauseCommit, CompleteLoad, Ingest, Fail, CompleteCommit, Load, vars
    <2>2. QED  BY <2>1 DEF AloneInv, TypeOK
  <1>1. CASE Create
    <2>1. <<>> = Prefix(0)
      BY DEF Prefix
    <2>2. row'.status = "active" /\ row'.data = <<>> /\ row'.received = 0
      BY <1>1 DEF Create
    <2>3. \A r \in Requests : pc'[r] = "idle"
      BY <1>1 DEF Create, requests, AloneInv, CreatedFirst
    <2>4. OneAtATime' /\ SeenIsRow'
      BY <2>3 DEF OneAtATime, SeenIsRow
    <2>5. OpenIsPrefix' /\ SequentialClientSafe'
      BY <1>0, <1>1, <2>1, <2>2 DEF Create, OpenIsPrefix, SequentialClientSafe
    <2>6. QED  BY <2>4, <2>5
  <1>2. CASE Abort
    BY <1>0, <1>2 DEF Abort, OneAtATime, SeenIsRow, OpenIsPrefix, SequentialClientSafe, requests
  <1>3. CASE Crash
    BY <1>0, <1>3 DEF Crash, OneAtATime, SeenIsRow, OpenIsPrefix, SequentialClientSafe
  <1>4. ASSUME NEW r \in Requests, AppendLoad(r) \/ PauseLoad(r) \/ CompleteLoad(r)
        PROVE  Holds'
    BY <1>4, LoadAlone DEF AppendLoad, PauseLoad, CompleteLoad
  <1>5. ASSUME NEW r \in Requests, AppendCommit(r) PROVE Holds'
    <2>1. OneAtATime' /\ SeenIsRow'
      BY <1>0, <1>5, EndAlone DEF AppendCommit
    <2>2. ASSUME row' # NoRow
          PROVE  row'.status # "completed" /\ row'.data = Prefix(row'.received)
      <3>1. row = seen[r] /\ seen[r].status # "completed" /\ seen[r].data = Prefix(seen[r].received)
        BY <1>0, <1>5, <2>2 DEF AppendCommit, SeenIsRow
      <3>2. seen[r].received \in Nat /\ len[r] \in Nat
        BY <1>0, <1>5 DEF AppendCommit, TypeOK, SessionRows, Sizes
      <3>3. /\ row'.received = seen[r].received + len[r]
            /\ row'.data = seen[r].data \o Chunk(seen[r].received, len[r])
            /\ row'.status = IF seen[r].status = "paused" THEN "active" ELSE row.status
        BY <1>5, <2>2 DEF AppendCommit
      <3>4. QED  BY <3>1, <3>2, <3>3, PrefixGrows
    <2>3. OpenIsPrefix' /\ SequentialClientSafe'
      BY <1>0, <1>5, <2>2 DEF AppendCommit, OpenIsPrefix, SequentialClientSafe
    <2>4. QED  BY <2>1, <2>3
  <1>6. ASSUME NEW r \in Requests, PauseCommit(r) PROVE Holds'
    <2>1. OneAtATime' /\ SeenIsRow'
      BY <1>0, <1>6, EndAlone DEF PauseCommit
    <2>2. ASSUME row' # NoRow
          PROVE  row'.status # "completed" /\ row'.data = Prefix(row'.received)
      <3>1. row # NoRow /\ row.status # "completed" /\ row.data = Prefix(row.received)
        BY <1>0, <1>6, <2>2 DEF PauseCommit, SeenIsRow
      <3>2. row'.data = row.data /\ row'.received = row.received /\ row'.status \in {row.status, "paused"}
        BY <1>0, <1>6, <2>2, <3>1 DEF PauseCommit, TypeOK, SessionRows
      <3>3. QED  BY <3>1, <3>2
    <2>3. OpenIsPrefix' /\ SequentialClientSafe'
      BY <1>0, <1>6, <2>2 DEF PauseCommit, OpenIsPrefix, SequentialClientSafe
    <2>4. QED  BY <2>1, <2>3
  <1>7. ASSUME NEW r \in Requests, Ingest(r) PROVE Holds'
    <2>1. seen[r].data = Prefix(TotalSize)
      BY <1>0, <1>7 DEF Ingest, SeenIsRow
    <2>2. SeenIsRow' /\ OneAtATime'
      BY <1>0, <1>7 DEF Ingest, SeenIsRow, OneAtATime, TypeOK
    <2>3. OpenIsPrefix' /\ SequentialClientSafe'
      BY <1>0, <1>7, <2>1 DEF Ingest, OpenIsPrefix, SequentialClientSafe
    <2>4. QED  BY <2>2, <2>3
  <1>8. ASSUME NEW r \in Requests, Fail(r) PROVE Holds'
    <2>1. OneAtATime' /\ SeenIsRow'
      BY <1>0, <1>8, EndAlone DEF Fail
    <2>2. QED  BY <1>0, <1>8, <2>1 DEF Fail, OpenIsPrefix, SequentialClientSafe
  <1>9. ASSUME NEW r \in Requests, CompleteCommit(r) PROVE Holds'
    <2>1. OneAtATime' /\ SeenIsRow'
      BY <1>0, <1>9, EndAlone DEF CompleteCommit
    <2>2. ingested # {}
      BY <1>0, <1>9 DEF CompleteCommit, SeenIsRow
    <2>3. row' # NoRow => row'.status = "completed" /\ row'.data = <<>>
      BY <1>0, <1>9 DEF CompleteCommit, TypeOK, SessionRows
    <2>4. OpenIsPrefix' /\ SequentialClientSafe'
      BY <1>0, <1>9, <2>2, <2>3 DEF CompleteCommit, OpenIsPrefix, SequentialClientSafe
    <2>5. QED  BY <2>1, <2>4
  <1>10. CASE UNCHANGED vars
    BY <1>0, <1>10 DEF vars, requests, OneAtATime, SeenIsRow, OpenIsPrefix, SequentialClientSafe
  <1>11. QED
    BY <1>1, <1>2, <1>3, <1>4, <1>5, <1>6, <1>7, <1>8, <1>9, <1>10 DEF Next

(* A client that waits for each answer has only its own file ingested, and  *)
(* a session marked completed was, whatever fails, is aborted or restarted  *)
(* on the way (upload_session_service).                                     *)
THEOREM SequentialSafe == Spec => []SequentialClientSafe
  <1>1. AloneInv => SequentialClientSafe
    BY DEF AloneInv
  <1>2. QED
    BY <1>1, AloneInit, AloneNext, PTL DEF Spec
=============================================================================
