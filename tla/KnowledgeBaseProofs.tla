------------------------- MODULE KnowledgeBaseProofs -------------------------
(***************************************************************************)
(* Proofs about KnowledgeBase for any number of uploads, documents, names, *)
(* categories and contents.                                                *)
(***************************************************************************)
EXTENDS KnowledgeBase, Sequences, FunctionTheorems, FiniteSetTheorems, TLAPS

-----------------------------------------------------------------------------
(* The inductive invariant *)

(* The version numbers whose chunks a search reads. *)
Hits(d) == {n \in Nat : <<d, n>> \in searchable}

(* The versions of d are 1 to k and the last of them is searchable. *)
Counted(d, k) ==
    /\ Numbers(d) = 1..k
    /\ Hits(d) = IF k = 0 THEN {} ELSE {k}

AllCounted == \A d \in Docs : \E k \in Nat : Counted(d, k)

NumbersUnique == \A r, s \in versions : r.doc = s.doc /\ r.number = s.number => r = s

RowsBelong == \A r \in versions : r.doc \in Existing

(* The documents that exist and those of uploads were given an id. *)
IdsUsed ==
    /\ Existing \subseteq used
    /\ \A u \in Uploads :
         created[u] \/ pc[u] \in {"latest", "number", "insert", "committed", "done"}
           => doc[u] \in used

(* The number an upload has read comes right after a number taken, unless   *)
(* its document is gone.                                                    *)
Fits(u) == number[u] # 0 /\ (number[u] = 1 \/ number[u] - 1 \in Numbers(doc[u]))
NumbersFit ==
    \A u \in Uploads : pc[u] = "insert" /\ doc[u] \in Existing => Fits(u)

Inv == TypeOK /\ RowsBelong /\ IdsUsed /\ NumbersUnique /\ AllCounted /\ NumbersFit

-----------------------------------------------------------------------------
(* Type correctness *)

LEMMA InitType == Init => TypeOK
  BY UnsetAssumption DEF Init, TypeOK, Places

LEMMA RemoveType ==
    ASSUME TypeOK, NEW d \in Docs, Remove(d)
    PROVE  /\ docs' \in [Docs -> Headers \union {Unset}]
           /\ versions' \subseteq Rows
           /\ searchable' \subseteq Docs \X Nat
  BY DEF TypeOK, Remove

(* The next number is a positive natural, one above a number taken if any. *)
LEMMA NextFits ==
    ASSUME NEW d \in Docs, NEW k \in Nat, Numbers(d) = 1..k
    PROVE  NextNumber(d) = k + 1
  <1>1. CASE k = 0
    <2>1. Numbers(d) = {}
      BY <1>1
    <2>2. QED  BY <2>1, <1>1 DEF NextNumber
  <1>2. CASE k # 0
    <2>1. k \in Numbers(d) /\ \A y \in Numbers(d) : k >= y
      BY <1>2
    <2>2. Max(Numbers(d)) = k
      <3>1. \A x \in Numbers(d) : (\A y \in Numbers(d) : x >= y) => x = k
        BY <2>1
      <3>2. \E x \in Numbers(d) : \A y \in Numbers(d) : x >= y
        BY <2>1
      <3>3. QED  BY <3>1, <3>2 DEF Max
    <2>3. QED  BY <2>1, <2>2 DEF NextNumber
  <1>3. QED  BY <1>1, <1>2

LEMMA NextType == TypeOK /\ AllCounted /\ [Next]_vars => TypeOK'
  <1> SUFFICES ASSUME TypeOK, AllCounted, [Next]_vars PROVE TypeOK'
    OBVIOUS
  <1> USE DEF TypeOK, history
  <1>1. ASSUME NEW u \in Uploads, Find(u) PROVE TypeOK'
    BY <1>1 DEF Find, Places, Existing, Meeting, Requests
  <1>2. ASSUME NEW u \in Uploads, Create(u) PROVE TypeOK'
    <2>1. req[u] \in Requests
      BY <1>2 DEF Create
    <2>2. [name |-> req[u].name, scope |-> req[u].scope] \in Headers
      BY <2>1 DEF Requests, Headers
    <2>3. QED  BY <1>2, <2>2 DEF Create, Places
  <1>3. ASSUME NEW u \in Uploads, ReadLatest(u) PROVE TypeOK'
    BY <1>3 DEF ReadLatest, Places, LatestRow, RowsOf
  <1>4. ASSUME NEW u \in Uploads, ReadNumber(u) PROVE TypeOK'
    <2>1. doc[u] \in Docs
      BY <1>4 DEF ReadNumber
    <2>2. PICK k \in Nat : Numbers(doc[u]) = 1..k
      BY <2>1 DEF AllCounted, Counted
    <2>3. NextNumber(doc[u]) \in Nat
      BY <2>1, <2>2, NextFits
    <2>4. QED  BY <1>4, <2>3 DEF ReadNumber, Places
  <1>5. ASSUME NEW u \in Uploads, Insert(u) PROVE TypeOK'
    <2>1. doc[u] \in Docs /\ req[u] \in Requests /\ number[u] \in Nat
      BY <1>5 DEF Insert
    <2>2. [doc |-> doc[u], number |-> number[u], bytes |-> req[u].bytes] \in Rows
      BY <2>1 DEF Requests, Rows
    <2>3. QED  BY <1>5, <2>1, <2>2 DEF Insert, AddRow, Places
  <1>6. ASSUME NEW u \in Uploads, Respond(u) PROVE TypeOK'
    BY <1>6 DEF Respond, Places, RowsOf
  <1>7. ASSUME NEW u \in Uploads, Fail(u) PROVE TypeOK'
    BY <1>7 DEF Fail, Places
  <1>8. ASSUME NEW u \in Uploads, Cleanup(u) PROVE TypeOK'
    BY <1>8, RemoveType DEF Cleanup, Places
  <1>9. ASSUME NEW d \in Docs, Delete(d) PROVE TypeOK'
    BY <1>9, RemoveType DEF Delete, uploads
  <1>10. ASSUME Crash PROVE TypeOK'
    BY <1>10 DEF Crash, Places
  <1>11. CASE UNCHANGED vars
    BY <1>11 DEF vars, uploads
  <1>12. QED
    BY <1>1, <1>2, <1>3, <1>4, <1>5, <1>6, <1>7, <1>8, <1>9, <1>10, <1>11 DEF Next

-----------------------------------------------------------------------------
(* The invariant is inductive *)

(* A step that leaves the tables alone. *)
Quiet == UNCHANGED <<docs, used, versions, searchable>>

LEMMA QuietTables ==
    ASSUME Inv, Quiet
    PROVE  /\ Existing' = Existing
           /\ \A d \in Docs : Numbers(d)' = Numbers(d)
           /\ RowsBelong' /\ NumbersUnique' /\ AllCounted'
  BY DEF Inv, Quiet, Existing, Numbers, RowsOf, RowsBelong, NumbersUnique,
         AllCounted, Counted, Hits

(* What is left of the tables when document d goes. *)
LEMMA RemoveTables ==
    ASSUME Inv, NEW d \in Docs, Remove(d)
    PROVE  /\ Existing' = Existing \ {d}
           /\ Numbers(d)' = {} /\ Hits(d)' = {}
           /\ \A e \in Docs \ {d} : Numbers(e)' = Numbers(e) /\ Hits(e)' = Hits(e)
           /\ RowsBelong' /\ NumbersUnique' /\ AllCounted'
  <1> USE DEF Inv
  <1>1. Existing' = Existing \ {d}
    BY DEF TypeOK, Remove, Existing
  <1>2. Numbers(d)' = {} /\ Hits(d)' = {}
    BY DEF Remove, Numbers, RowsOf, Hits
  <1>3. ASSUME NEW e \in Docs \ {d} PROVE Numbers(e)' = Numbers(e) /\ Hits(e)' = Hits(e)
    <2>1. RowsOf(e)' = RowsOf(e)
      BY DEF Remove, RowsOf
    <2>2. Numbers(e)' = Numbers(e)
      BY <2>1 DEF Numbers
    <2>3. Hits(e)' = Hits(e)
      BY DEF Remove, Hits
    <2>4. QED  BY <2>2, <2>3
  <1>4. RowsBelong' /\ NumbersUnique'
    BY <1>1 DEF RowsBelong, NumbersUnique, Remove, RowsOf
  <1>5. AllCounted'
    <2> SUFFICES ASSUME NEW e \in Docs PROVE \E k \in Nat : Counted(e, k)'
      BY DEF AllCounted
    <2>1. CASE e = d
      <3>1. 1..0 = {}
        OBVIOUS
      <3>2. Counted(d, 0)'
        BY <1>2, <3>1 DEF Counted
      <3>3. QED  BY <2>1, <3>2
    <2>2. CASE e # d
      BY <2>2, <1>3 DEF AllCounted, Counted
    <2>3. QED  BY <2>1, <2>2
  <1>6. QED
    BY <1>1, <1>2, <1>3, <1>4, <1>5

(* The number of an inserted row is one more than its document has. *)
LEMMA InsertNumber ==
    ASSUME Inv, NEW u \in Uploads, Insert(u), NEW k \in Nat, Counted(doc[u], k)
    PROVE  number[u] = k + 1
  <1>1. doc[u] \in Docs /\ number[u] \in Nat
    BY DEF Inv, TypeOK, Insert
  <1>2. Fits(u) /\ number[u] \notin Numbers(doc[u])
    BY DEF Inv, NumbersFit, Insert
  <1>3. Numbers(doc[u]) = 1..k
    BY DEF Counted
  <1>4. number[u] >= 1 /\ number[u] \notin 1..k
    BY <1>1, <1>2, <1>3 DEF Fits
  <1>5. number[u] > k
    BY <1>1, <1>4
  <1>6. CASE number[u] = 1
    BY <1>5, <1>6
  <1>7. CASE number[u] - 1 \in Numbers(doc[u])
    BY <1>1, <1>3, <1>5, <1>7
  <1>8. QED  BY <1>2, <1>6, <1>7 DEF Fits

LEMMA InsertTables ==
    ASSUME Inv, NEW u \in Uploads, Insert(u), NEW d \in Docs, doc[u] = d
    PROVE  /\ Existing' = Existing
           /\ \A e \in Docs \ {d} :
                RowsOf(e)' = RowsOf(e) /\ Numbers(e)' = Numbers(e) /\ Hits(e)' = Hits(e)
           /\ \A k \in Nat : Counted(d, k) => Counted(d, k + 1)'
           /\ RowsBelong' /\ NumbersUnique' /\ AllCounted'
  <1> USE DEF Inv
  <1> DEFINE n == number[u]
             row == [doc |-> d, number |-> n, bytes |-> req[u].bytes]
  <1>1. d \in Docs /\ d \in Existing /\ n \in Nat /\ n \notin Numbers(d)
    BY DEF TypeOK, Insert
  <1>2. /\ versions' = versions \union {row}
        /\ searchable' = {<<d, n>>} \union {p \in searchable : ~(p[1] = d /\ n > 1)}
        /\ docs' = docs
    BY DEF Insert, AddRow
  <1>3. row.doc = d /\ row.number = n
    OBVIOUS
  <1> HIDE DEF n, row
  <1>4. Existing' = Existing
    BY <1>2 DEF Existing
  <1>5. ASSUME NEW e \in Docs \ {d}
        PROVE  RowsOf(e)' = RowsOf(e) /\ Numbers(e)' = Numbers(e) /\ Hits(e)' = Hits(e)
    <2>1. RowsOf(e)' = RowsOf(e)
      BY <1>2, <1>3 DEF RowsOf
    <2>2. Numbers(e)' = Numbers(e)
      BY <2>1 DEF Numbers
    <2>3. Hits(e)' = Hits(e)
      BY <1>2 DEF Hits
    <2>4. QED  BY <2>1, <2>2, <2>3
  <1>6. Numbers(d)' = Numbers(d) \union {n}
    <2>1. RowsOf(d)' = RowsOf(d) \union {row}
      BY <1>2, <1>3 DEF RowsOf
    <2>2. QED  BY <2>1, <1>3 DEF Numbers
  <1>7. ASSUME NEW k \in Nat, Counted(d, k) PROVE Counted(d, k + 1)'
    <2>1. n = k + 1
      BY <1>7, InsertNumber DEF n
    <2>2. Numbers(d)' = 1..(k + 1)
      BY <1>6, <1>7, <2>1 DEF Counted
    <2>3. Hits(d)' = {n}
      <3>1. CASE k = 0
        <4>1. Hits(d) = {}
          BY <1>7, <3>1 DEF Counted
        <4>2. QED  BY <4>1, <1>1, <1>2 DEF Hits
      <3>2. CASE k # 0
        <4>1. n > 1
          BY <2>1, <3>2
        <4>2. QED  BY <4>1, <1>1, <1>2 DEF Hits
      <3>3. QED  BY <3>1, <3>2
    <2>4. QED  BY <2>1, <2>2, <2>3 DEF Counted
  <1>8. RowsBelong'
    BY <1>1, <1>2, <1>3, <1>4 DEF RowsBelong
  <1>9. NumbersUnique'
    <2>1. \A r \in versions : ~(r.doc = d /\ r.number = n)
      BY <1>1 DEF Numbers, RowsOf
    <2>2. QED  BY <1>2, <1>3, <2>1 DEF NumbersUnique
  <1>10. AllCounted'
    <2> SUFFICES ASSUME NEW e \in Docs PROVE \E k \in Nat : Counted(e, k)'
      BY DEF AllCounted
    <2>1. PICK k \in Nat : Counted(e, k)
      BY DEF AllCounted
    <2>2. CASE e = d
      <3>1. Counted(d, k + 1)' /\ k + 1 \in Nat
        BY <1>7, <2>1, <2>2
      <3>2. QED  BY <2>2, <3>1
    <2>3. CASE e # d
      BY <1>5, <2>1, <2>3 DEF Counted
    <2>4. QED  BY <2>2, <2>3
  <1>11. QED
    BY <1>4, <1>5, <1>7, <1>8, <1>9, <1>10

LEMMA InvInit == Init => Inv
  <1> SUFFICES ASSUME Init PROVE Inv
    OBVIOUS
  <1>1. versions = {} /\ searchable = {} /\ Existing = {}
    BY DEF Init, Existing
  <1>2. ASSUME NEW d \in Docs PROVE Counted(d, 0)
    <2>1. Numbers(d) = {} /\ Hits(d) = {}
      BY <1>1 DEF Numbers, RowsOf, Hits
    <2>2. 1..0 = {}
      OBVIOUS
    <2>3. QED  BY <2>1, <2>2 DEF Counted
  <1>3. AllCounted
    BY <1>2 DEF AllCounted
  <1>4. IdsUsed /\ NumbersFit
    BY <1>1 DEF Init, IdsUsed, NumbersFit
  <1>5. QED
    BY <1>1, <1>3, <1>4, InitType DEF Inv, RowsBelong, NumbersUnique

(* Steps that leave the tables alone. *)
LEMMA QuietInv ==
    ASSUME Inv, TypeOK', Quiet,
           NEW u \in Uploads,
           Find(u) \/ ReadLatest(u) \/ ReadNumber(u) \/ Respond(u) \/ Fail(u)
             \/ Cleanup(u) \/ Crash \/ UNCHANGED vars
    PROVE  Inv'
  <1> USE DEF Inv
  <1>1. /\ Existing' = Existing
        /\ \A d \in Docs : Numbers(d)' = Numbers(d)
        /\ RowsBelong' /\ NumbersUnique' /\ AllCounted'
    BY QuietTables
  <1>2. IdsUsed'
    <2>1. used' = used
      BY DEF Quiet
    <2>2. \A v \in Uploads : pc[v] = "cleanup" => created[v]
      BY DEF TypeOK
    <2>3. QED
      BY <1>1, <2>1, <2>2 DEF IdsUsed, TypeOK, Find, ReadLatest, ReadNumber, Respond,
         Fail, Cleanup, Crash, vars, uploads
  <1>3. NumbersFit'
    <2> SUFFICES ASSUME NEW v \in Uploads, pc'[v] = "insert", doc'[v] \in Existing'
                 PROVE  Fits(v)'
      BY DEF NumbersFit
    <2>1. CASE ~ReadNumber(u)
      <3>1. pc[v] = "insert" /\ doc'[v] = doc[v] /\ number'[v] = number[v]
        BY <2>1 DEF TypeOK, Find, ReadLatest, Respond, Fail, Cleanup, Crash, vars, uploads
      <3>2. Fits(v) /\ doc[v] \in Docs
        BY <3>1, <1>1 DEF NumbersFit, TypeOK
      <3>3. QED  BY <3>1, <3>2, <1>1 DEF Fits
    <2>2. CASE ReadNumber(u)
      <3>1. CASE v # u
        <4>1. pc[v] = "insert" /\ doc'[v] = doc[v] /\ number'[v] = number[v]
          BY <2>2, <3>1 DEF TypeOK, ReadNumber
        <4>2. Fits(v) /\ doc[v] \in Docs
          BY <4>1, <1>1 DEF NumbersFit, TypeOK
        <4>3. QED  BY <4>1, <4>2, <1>1 DEF Fits
      <3>2. CASE v = u
        <4>1. doc[u] \in Docs /\ doc' = doc /\ number'[u] = NextNumber(doc[u])
          BY <2>2 DEF TypeOK, ReadNumber
        <4>2. PICK k \in Nat : Numbers(doc[u]) = 1..k
          BY <4>1 DEF AllCounted, Counted
        <4>3. number'[u] = k + 1
          BY <4>1, <4>2, NextFits
        <4>4. number'[u] = 1 \/ number'[u] - 1 \in Numbers(doc[u])
          BY <4>2, <4>3
        <4>5. number'[u] # 0
          BY <4>3
        <4>6. QED  BY <1>1, <3>2, <4>1, <4>4, <4>5 DEF Fits
      <3>3. QED  BY <3>1, <3>2
    <2>3. QED  BY <2>1, <2>2
  <1>4. QED
    BY <1>1, <1>2, <1>3

LEMMA CreateInv ==
    ASSUME Inv, TypeOK', NEW u \in Uploads, Create(u)
    PROVE  Inv'
  <1> USE DEF Inv
  <1>1. PICK d \in Docs \ used :
          /\ docs' = [docs EXCEPT ![d] = [name |-> req[u].name, scope |-> req[u].scope]]
          /\ used' = used \union {d}
          /\ doc' = [doc EXCEPT ![u] = d]
    BY DEF Create
  <1>2. versions' = versions /\ searchable' = searchable /\ number' = number
    BY DEF Create
  <1>3. Existing \subseteq Existing' /\ Existing' \subseteq Existing \union {d}
    <2>1. req[u] \in Requests
      BY DEF TypeOK, Create
    <2>2. [name |-> req[u].name, scope |-> req[u].scope] # Unset
      BY <2>1, UnsetAssumption DEF Requests, Headers
    <2>3. QED  BY <1>1, <2>2 DEF TypeOK, Existing
  <1>4. RowsBelong' /\ NumbersUnique' /\ AllCounted'
    BY <1>2, <1>3 DEF RowsBelong, NumbersUnique, AllCounted, Counted, Numbers, RowsOf, Hits
  <1>5. IdsUsed'
    BY <1>1, <1>3 DEF IdsUsed, Create, TypeOK
  <1>6. NumbersFit'
    <2> SUFFICES ASSUME NEW v \in Uploads, pc'[v] = "insert", doc'[v] \in Existing'
                 PROVE  Fits(v)'
      BY DEF NumbersFit
    <2>1. v # u /\ pc[v] = "insert" /\ doc'[v] = doc[v]
      BY DEF TypeOK, Create
    <2>2. doc[v] \in used
      BY <2>1 DEF IdsUsed
    <2>3. doc[v] \in Existing
      BY <1>3, <2>1, <2>2
    <2>4. Fits(v)
      BY <2>1, <2>3 DEF NumbersFit
    <2>5. QED  BY <1>2, <2>1, <2>4 DEF Fits, Numbers, RowsOf
  <1>7. QED
    BY <1>4, <1>5, <1>6

LEMMA InsertInv ==
    ASSUME Inv, TypeOK', NEW u \in Uploads, Insert(u)
    PROVE  Inv'
  <1> USE DEF Inv
  <1>1. PICK d \in Docs : doc[u] = d
    BY DEF TypeOK, Insert
  <1>2. /\ Existing' = Existing
        /\ \A e \in Docs \ {d} : Numbers(e)' = Numbers(e)
        /\ RowsBelong' /\ NumbersUnique' /\ AllCounted'
    BY <1>1, InsertTables
  <1>3. Numbers(d) \subseteq Numbers(d)'
    BY DEF Insert, AddRow, Numbers, RowsOf
  <1>4. IdsUsed'
    BY <1>2 DEF IdsUsed, Insert, TypeOK
  <1>5. NumbersFit'
    <2> SUFFICES ASSUME NEW v \in Uploads, pc'[v] = "insert", doc'[v] \in Existing'
                 PROVE  Fits(v)'
      BY DEF NumbersFit
    <2>1. pc[v] = "insert" /\ doc' = doc /\ number' = number
      BY DEF TypeOK, Insert
    <2>2. Fits(v) /\ doc[v] \in Docs
      BY <1>2, <2>1 DEF NumbersFit, TypeOK
    <2>3. PICK e \in Docs : e = doc[v]
      BY <2>2
    <2>4. Numbers(e) \subseteq Numbers(e)'
      BY <1>2, <1>3
    <2>5. number[v] # 0 /\ (number[v] = 1 \/ number[v] - 1 \in Numbers(e))
      BY <2>2, <2>3 DEF Fits
    <2>6. QED  BY <2>1, <2>3, <2>4, <2>5 DEF Fits
  <1>6. QED
    BY <1>2, <1>4, <1>5

(* A deletion, by a user or by the cleanup of a failed upload. *)
LEMMA RemoveInv ==
    ASSUME Inv, TypeOK', NEW d \in Docs, Remove(d), used' = used, doc' = doc,
           created' = created, number' = number,
           \A v \in Uploads : pc'[v] = pc[v] \/ pc'[v] = "failed"
    PROVE  Inv'
  <1> USE DEF Inv
  <1>1. /\ Existing' = Existing \ {d}
        /\ \A e \in Docs \ {d} : Numbers(e)' = Numbers(e)
        /\ RowsBelong' /\ NumbersUnique' /\ AllCounted'
    BY RemoveTables
  <1>2. IdsUsed'
    BY <1>1 DEF IdsUsed
  <1>3. NumbersFit'
    <2> SUFFICES ASSUME NEW v \in Uploads, pc'[v] = "insert", doc'[v] \in Existing'
                 PROVE  Fits(v)'
      BY DEF NumbersFit
    <2>1. pc[v] = "insert" /\ doc[v] \in Existing /\ doc[v] # d
      BY <1>1
    <2>2. Fits(v) /\ doc[v] \in Docs
      BY <2>1 DEF NumbersFit, Existing
    <2>3. QED  BY <1>1, <2>1, <2>2 DEF Fits
  <1>4. QED
    BY <1>1, <1>2, <1>3

LEMMA InvNext == Inv /\ [Next]_vars => Inv'
  <1> SUFFICES ASSUME Inv, [Next]_vars PROVE Inv'
    OBVIOUS
  <1>1. TypeOK'
    BY NextType DEF Inv
  <1>2. ASSUME NEW u \in Uploads, Find(u) \/ ReadLatest(u) \/ ReadNumber(u)
                                    \/ Respond(u) \/ Fail(u)
        PROVE  Inv'
    <2>1. Quiet
      BY <1>2 DEF Quiet, Find, ReadLatest, ReadNumber, Respond, Fail
    <2>2. QED  BY <1>1, <1>2, <2>1, QuietInv
  <1>3. ASSUME NEW u \in Uploads, Create(u) PROVE Inv'
    BY <1>1, <1>3, CreateInv
  <1>4. ASSUME NEW u \in Uploads, Insert(u) PROVE Inv'
    BY <1>1, <1>4, InsertInv
  <1>5. ASSUME NEW u \in Uploads, Cleanup(u) PROVE Inv'
    <2>1. CASE Remove(doc[u]) /\ doc[u] \in Existing
      <3>1. PICK d \in Docs : d = doc[u]
        BY <2>1 DEF Existing
      <3>2. Remove(d)
        BY <2>1, <3>1
      <3>3. /\ used' = used /\ doc' = doc /\ created' = created /\ number' = number
            /\ \A v \in Uploads : pc'[v] = pc[v] \/ pc'[v] = "failed"
        BY <1>5 DEF Cleanup, Inv, TypeOK
      <3>4. QED  BY <1>1, <3>2, <3>3, RemoveInv
    <2>2. CASE UNCHANGED <<docs, versions, searchable>>
      <3>1. Quiet
        BY <1>5, <2>2 DEF Quiet, Cleanup
      <3>2. QED  BY <1>1, <1>5, <3>1, QuietInv
    <2>3. QED  BY <1>5, <2>1, <2>2 DEF Cleanup
  <1>6. ASSUME NEW d \in Docs, Delete(d) PROVE Inv'
    <2>1. /\ Remove(d) /\ used' = used /\ doc' = doc
          /\ created' = created /\ number' = number /\ pc' = pc
      BY <1>6 DEF Delete, uploads
    <2>2. QED  BY <1>1, <2>1, RemoveInv
  <1>7. CASE Crash \/ UNCHANGED vars
    <2>1. Quiet
      BY <1>7 DEF Quiet, Crash, vars
    <2>2. CASE \E u \in Uploads : TRUE
      BY <1>1, <1>7, <2>1, <2>2, QuietInv
    <2>3. CASE Uploads = {}
      <3>1. IdsUsed' /\ NumbersFit'
        BY <2>1, <2>3, QuietTables DEF IdsUsed, NumbersFit, Inv, Quiet
      <3>2. QED  BY <1>1, <2>1, <3>1, QuietTables DEF Inv
    <2>4. QED  BY <2>2, <2>3
  <1>8. QED
    BY <1>2, <1>3, <1>4, <1>5, <1>6, <1>7 DEF Next

(* The versions of every document are numbered without gap or repetition,   *)
(* and every upload's number fits, in every reachable state.                *)
THEOREM InvariantHolds == Spec => []Inv
  <1>1. QED
    BY InvInit, InvNext, PTL DEF Spec

(* Every variable of every reachable state has its type. *)
THEOREM TypeCorrect == Spec => []TypeOK
  <1>1. Inv => TypeOK
    BY DEF Inv
  <1>2. QED
    BY <1>1, InvariantHolds, PTL

-----------------------------------------------------------------------------
(* What the invariant says of versions and searches *)

(* Rows numbered 1 to k, each number once. *)
Listed(rows, k) ==
    /\ {r.number : r \in rows} = 1..k
    /\ \A r, s \in rows : r.number = s.number => r = s
    /\ \A r \in rows : r.bytes \in Contents

LEMMA CountedListed ==
    ASSUME Inv, NEW d \in Docs, NEW k \in Nat, Counted(d, k)
    PROVE  Listed(RowsOf(d), k)
  BY DEF Inv, TypeOK, NumbersUnique, Counted, Numbers, Listed, RowsOf, Rows

(* There are k of them. *)
LEMMA RowCount ==
    ASSUME NEW rows, NEW k \in Nat, Listed(rows, k)
    PROVE  Cardinality(rows) = k
  <1> DEFINE f == [r \in rows |-> r.number]
  <1>1. f \in [rows -> 1..k]
    BY DEF Listed
  <1>2. \A r, s \in rows : f[r] = f[s] => r = s
    BY DEF Listed
  <1>3. \A n \in 1..k : \E r \in rows : f[r] = n
    BY DEF Listed
  <1>4. f \in Bijection(rows, 1..k)
    BY <1>1, <1>2, <1>3 DEF Bijection, Surjection, Injection, IsInjective
  <1>5. ExistsBijection(rows, 1..k)
    BY <1>4 DEF ExistsBijection
  <1>6. ExistsBijection(1..k, rows)
    BY <1>5, Fun_ExistsBijSymmetric
  <1>7. IsFiniteSet(1..k) /\ Cardinality(1..k) = k
    BY FS_Interval
  <1>8. QED
    BY <1>6, <1>7, FS_Bijection

(* The versions of every document are 1, 2, 3 ... in every reachable state, *)
(* however its uploads interleave, fail and crash.                          *)
THEOREM Numbering == Spec => []VersionsNumbered
  <1>1. Inv => VersionsNumbered
    <2> SUFFICES ASSUME Inv PROVE VersionsNumbered
      OBVIOUS
    <2>1. ASSUME NEW d \in Docs PROVE Numbers(d) = 1..Cardinality(RowsOf(d))
      <3>1. PICK k \in Nat : Counted(d, k)
        BY DEF Inv, AllCounted
      <3>2. Cardinality(RowsOf(d)) = k
        BY <3>1, CountedListed, RowCount
      <3>3. QED  BY <3>1, <3>2 DEF Counted
    <2>2. QED  BY <2>1 DEF VersionsNumbered, Inv, RowsBelong
  <1>2. QED
    BY <1>1, InvariantHolds, PTL

(* A search finds the chunks of exactly the latest version of a document.   *)
THEOREM SearchLatest == Spec => []SearchFindsLatest
  <1>1. Inv => SearchFindsLatest
    <2> SUFFICES ASSUME Inv, NEW d \in Docs
                 PROVE  {p[2] : p \in {q \in searchable : q[1] = d}}
                          = {r.number : r \in LatestRow(d)}
      BY DEF SearchFindsLatest
    <2>1. PICK k \in Nat : Counted(d, k)
      BY DEF Inv, AllCounted
    <2>2. {p[2] : p \in {q \in searchable : q[1] = d}} = Hits(d)
      BY DEF Inv, TypeOK, Hits
    <2>3. \A r \in RowsOf(d) : r.number \in 1..k
      BY <2>1 DEF Counted, Numbers
    <2>4. CASE k = 0
      BY <2>1, <2>2, <2>3, <2>4 DEF Counted, LatestRow
    <2>5. CASE k # 0
      <3>1. k \in Numbers(d) /\ \A n \in Numbers(d) : n <= k
        BY <2>1, <2>5 DEF Counted
      <3>2. PICK r \in RowsOf(d) : r.number = k
        BY <3>1 DEF Numbers
      <3>3. r \in LatestRow(d)
        BY <3>1, <3>2 DEF LatestRow
      <3>4. \A s \in LatestRow(d) : s.number = k
        BY <2>3, <3>1 DEF LatestRow
      <3>5. {s.number : s \in LatestRow(d)} = {k}
        BY <3>2, <3>3, <3>4
      <3>6. QED  BY <2>1, <2>2, <2>5, <3>5 DEF Counted
    <2>6. QED  BY <2>4, <2>5
  <1>2. QED
    BY <1>1, InvariantHolds, PTL

-----------------------------------------------------------------------------
(* What an answered upload may rely on *)

LEMMA AckedNext == Inv /\ AckedLostToCreatorOnly /\ [Next]_vars => AckedLostToCreatorOnly'
  <1> SUFFICES ASSUME Inv, AckedLostToCreatorOnly, [Next]_vars,
                      NEW r \in acked', r \notin versions'
               PROVE  \E u \in Uploads : created'[u] /\ doc'[u] = r.doc /\ pc'[u] = "failed"
    BY DEF AckedLostToCreatorOnly
  <1> USE DEF Inv, TypeOK
  <1>1. ASSUME r \in versions
        PROVE  \E u \in Uploads : created'[u] /\ doc'[u] = r.doc /\ pc'[u] = "failed"
    <2>1. CASE \E u \in Uploads : Cleanup(u) /\ doc[u] = r.doc
      BY <2>1 DEF Cleanup
    <2>2. CASE \E d \in Docs : Delete(d) /\ d = r.doc
      BY <2>2 DEF Delete
    <2>3. ASSUME ~(\E u \in Uploads : Cleanup(u) /\ doc[u] = r.doc),
                 ~(\E d \in Docs : Delete(d) /\ d = r.doc)
          PROVE  r \in versions'
      BY <1>1, <2>3 DEF Next, Find, Create, ReadLatest, ReadNumber, Insert, AddRow, Respond,
         Fail, Cleanup, Delete, Crash, Remove, RowsOf, vars
    <2>4. QED  BY <2>1, <2>2, <2>3
  <1>2. ASSUME r \notin versions
        PROVE  \E u \in Uploads : created'[u] /\ doc'[u] = r.doc /\ pc'[u] = "failed"
    <2>1. r \in acked
      BY <1>2 DEF Next, Find, Create, ReadLatest, ReadNumber, Insert, Respond, LatestRow,
         RowsOf, Fail, Cleanup, Delete, Crash, vars, history
    <2>2. PICK u \in Uploads : created[u] /\ doc[u] = r.doc /\ pc[u] = "failed"
      BY <1>2, <2>1 DEF AckedLostToCreatorOnly
    <2>3. created'[u] = created[u] /\ doc'[u] = doc[u] /\ pc'[u] = "failed"
      BY ZenonT(60), <2>2 DEF Next, Find, Create, ReadLatest, ReadNumber, Insert, Respond, Fail,
         Cleanup, Delete, Crash, vars, uploads
    <2>4. QED  BY <2>2, <2>3
  <1>3. QED
    BY <1>1, <1>2

(* Nobody but a user, or the failing request that created the document,     *)
(* takes back a version an upload has answered with.                        *)
THEOREM AckedLoss == Spec => []AckedLostToCreatorOnly
  <1>1. Init => AckedLostToCreatorOnly
    BY DEF Init, AckedLostToCreatorOnly
  <1>2. QED
    BY <1>1, AckedNext, InvariantHolds, PTL DEF Spec

-----------------------------------------------------------------------------
(* What holds for names whose uploads never overlap *)

(* An upload that has not begun created nothing. *)
NotBegun == \A u \in Uploads : pc[u] = "find" => ~created[u]

(* Two uploads of one name under way have met. *)
ActiveMeet ==
    \A u, v \in Uploads :
        u # v /\ pc[u] \in UnderWay /\ pc[v] \in UnderWay /\ req[u].name = req[v].name
            => req[u].name \in met

(* An upload about to create a document found none of its name. *)
CreatorsAlone ==
    \A u \in Uploads : pc[u] = "create" =>
        \A d \in Existing : docs[d].name = req[u].name => req[u].name \in met

(* The document of an upload bears its name. *)
Targets ==
    \A u \in Uploads : pc[u] \in {"latest", "number", "insert"} /\ doc[u] \in Existing
        => docs[doc[u]].name = req[u].name

(* The bytes of an upload past its comparison are not the latest ones. *)
Differ(u) ==
    req[u].name \notin met => \A r \in LatestRow(doc[u]) : r.bytes # req[u].bytes
BytesDiffer == \A u \in Uploads : pc[u] \in {"number", "insert"} => Differ(u)

Apart == NotBegun /\ ActiveMeet /\ CreatorsAlone /\ Targets /\ BytesDiffer

LEMMA ApartInit == Init => Apart /\ OneDocumentPerName /\ NoRepeatedVersion
  BY DEF Init, Apart, NotBegun, ActiveMeet, CreatorsAlone, Targets, BytesDiffer, Existing,
         OneDocumentPerName, NoRepeatedVersion, UnderWay, Places

LEMMA MetGrows == [Next]_vars => met \subseteq met'
  BY DEF Next, Find, Create, ReadLatest, ReadNumber, Insert, Respond, Fail, Cleanup,
         Delete, Crash, vars, history

LEMMA NotBegunNext == Inv /\ NotBegun /\ [Next]_vars => NotBegun'
  BY DEF Inv, TypeOK, NotBegun, Next, Find, Create, ReadLatest, ReadNumber, Insert, Respond,
     Fail, Cleanup, Delete, Crash, vars, uploads

LEMMA MeetNext == Inv /\ NotBegun /\ ActiveMeet /\ [Next]_vars => ActiveMeet'
  <1> SUFFICES ASSUME Inv, NotBegun, ActiveMeet, [Next]_vars, NEW u \in Uploads, NEW v \in Uploads,
                      u # v, pc'[u] \in UnderWay, pc'[v] \in UnderWay,
                      req'[u].name = req'[v].name
               PROVE  req'[u].name \in met'
    BY DEF ActiveMeet
  <1> USE DEF Inv, TypeOK
  <1>1. ASSUME NEW w \in Uploads, Find(w), w \in {u, v} PROVE req'[u].name \in met'
    <2>1. PICK x \in {u, v} : x # w
      BY <1>1
    <2>2. pc[x] \in UnderWay /\ req'[x] = req[x]
      BY <1>1, <2>1 DEF Find
    <2>3. req[x].name = req'[w].name
      BY <1>1, <2>1, <2>2
    <2>4. met' = met \union Meeting(w, req'[w].name)
      BY <1>1 DEF Find
    <2>5. QED  BY <1>1, <2>1, <2>2, <2>3, <2>4 DEF Meeting
  <1>2. ASSUME ~(\E w \in {u, v} : Find(w)) PROVE req'[u].name \in met'
    <2>1. ASSUME NEW x \in {u, v} PROVE pc[x] \in UnderWay /\ req'[x] = req[x]
      <3>1. x \in Uploads /\ ~Find(x) /\ pc'[x] \notin {"find", "done", "failed"}
        BY <1>2 DEF UnderWay
      <3>2. pc[x] \notin {"find", "done", "failed"} /\ req'[x] = req[x]
        BY <3>1 DEF NotBegun, Next, Find, Create, ReadLatest, ReadNumber, Insert, Respond,
           Fail, Cleanup, Delete, Crash, vars, uploads
      <3>3. QED  BY <3>1, <3>2 DEF UnderWay
    <2>2. req[u].name \in met
      BY <2>1 DEF ActiveMeet
    <2>3. QED  BY <2>1, <2>2, MetGrows
  <1>3. QED
    BY <1>1, <1>2

(* Steps of uploads that leave the tables alone. *)
LEMMA QuietApart ==
    ASSUME Inv, Apart, [Next]_vars, Quiet
    PROVE  CreatorsAlone' /\ Targets' /\ BytesDiffer'
  <1> USE DEF Inv, TypeOK
  <1>1. Existing' = Existing /\ docs' = docs /\ \A d \in Docs : LatestRow(d)' = LatestRow(d)
    BY DEF Quiet, Existing, LatestRow, Numbers, RowsOf
  <1>2. ASSUME NEW u \in Uploads, pc'[u] = "create"
        PROVE  \A d \in Existing' : docs'[d].name = req'[u].name => req'[u].name \in met'
    <2>1. CASE Find(u)
      BY <2>1, <1>1, <1>2 DEF Find
    <2>2. CASE ~Find(u)
      <3>1. pc[u] = "create" /\ req'[u] = req[u]
        BY <2>2, <1>2 DEF Next, Find, Create, ReadLatest, ReadNumber, Insert, Respond, Fail,
           Cleanup, Delete, Crash, vars, uploads
      <3>2. QED  BY <3>1, <1>1, MetGrows DEF Apart, CreatorsAlone
    <2>3. QED  BY <2>1, <2>2
  <1>3. ASSUME NEW u \in Uploads, pc'[u] \in {"latest", "number", "insert"},
               doc'[u] \in Existing'
        PROVE  docs'[doc'[u]].name = req'[u].name
    <2>1. CASE Find(u)
      BY <2>1, <1>1, <1>3 DEF Find
    <2>2. CASE Create(u)
      <3>1. PICK d \in Docs \ used : used' = used \union {d}
        BY <2>2 DEF Create
      <3>2. QED  BY <3>1 DEF Quiet
    <2>3. CASE ~Find(u) /\ ~Create(u)
      <3>1. pc[u] \in {"latest", "number", "insert"} /\ req'[u] = req[u] /\ doc'[u] = doc[u]
        BY <2>3, <1>3 DEF Next, Find, Create, ReadLatest, ReadNumber, Insert, Respond, Fail,
           Cleanup, Delete, Crash, vars, uploads
      <3>2. QED  BY <3>1, <1>1, <1>3 DEF Apart, Targets
    <2>4. QED  BY <2>1, <2>2, <2>3
  <1>4. ASSUME NEW u \in Uploads, pc'[u] \in {"number", "insert"} PROVE Differ(u)'
    <2>1. CASE ReadLatest(u)
      <3>1. \A r \in LatestRow(doc[u]) : r.bytes # req[u].bytes
        BY <2>1, <1>4 DEF ReadLatest
      <3>2. doc[u] \in Docs /\ doc' = doc /\ req' = req
        BY <2>1 DEF ReadLatest
      <3>3. QED  BY <3>1, <3>2, <1>1 DEF Differ
    <2>2. CASE ~ReadLatest(u)
      <3>1. pc[u] \in {"number", "insert"} /\ req'[u] = req[u] /\ doc'[u] = doc[u]
        BY <2>2, <1>4 DEF Next, Find, Create, ReadLatest, ReadNumber, Insert, Respond, Fail,
           Cleanup, Delete, Crash, vars, uploads
      <3>2. doc[u] \in Docs
        BY <3>1
      <3>3. QED  BY <3>1, <3>2, <1>1, MetGrows DEF Apart, BytesDiffer, Differ
    <2>3. QED  BY <2>1, <2>2
  <1>5. QED
    BY <1>2, <1>3, <1>4 DEF CreatorsAlone, Targets, BytesDiffer

(* A created document carries its upload's name, which no other has unless  *)
(* uploads of it met.                                                       *)
LEMMA CreateApart ==
    ASSUME Inv, Apart, OneDocumentPerName, NoRepeatedVersion, ActiveMeet',
           NEW u \in Uploads, Create(u)
    PROVE  /\ CreatorsAlone' /\ Targets' /\ BytesDiffer'
           /\ OneDocumentPerName' /\ NoRepeatedVersion'
  <1> USE DEF Inv, TypeOK
  <1>1. PICK d \in Docs \ used :
          /\ docs' = [docs EXCEPT ![d] = [name |-> req[u].name, scope |-> req[u].scope]]
          /\ doc' = [doc EXCEPT ![u] = d]
    BY DEF Create
  <1>2. /\ versions' = versions /\ req' = req /\ met' = met
        /\ pc' = [pc EXCEPT ![u] = "latest"] /\ pc[u] = "create"
    BY DEF Create, history
  <1>3. d \notin Existing /\ Existing' \subseteq Existing \union {d}
    BY <1>1 DEF IdsUsed, Existing
  <1>4. docs'[d].name = req[u].name
    BY <1>1
  <1>5. \A e \in Existing : docs'[e] = docs[e] /\ e # d
    BY <1>1, <1>3
  <1>6. ASSUME NEW v \in Uploads, pc'[v] = "create", NEW e \in Existing',
               docs'[e].name = req'[v].name
        PROVE  req'[v].name \in met'
    <2>1. v # u /\ pc[v] = "create"
      BY <1>2, <1>6
    <2>2. CASE e = d
      <3>1. pc[u] \in UnderWay /\ pc[v] \in UnderWay
        BY <1>2, <2>1 DEF UnderWay, Places
      <3>2. req[u].name = req[v].name
        BY <1>2, <1>4, <1>6, <2>2
      <3>3. req[v].name \in met
        BY <2>1, <3>1, <3>2 DEF Apart, ActiveMeet
      <3>4. QED  BY <1>2, <3>3
    <2>3. CASE e # d
      BY <1>2, <1>3, <1>5, <1>6, <2>1, <2>3 DEF Apart, CreatorsAlone
    <2>4. QED  BY <2>2, <2>3
  <1>7. ASSUME NEW v \in Uploads, pc'[v] \in {"latest", "number", "insert"},
               doc'[v] \in Existing'
        PROVE  docs'[doc'[v]].name = req'[v].name
    <2>1. CASE v = u
      BY <1>1, <1>2, <1>4, <2>1
    <2>2. CASE v # u
      <3>1. pc[v] \in {"latest", "number", "insert"} /\ doc'[v] = doc[v]
        BY <1>1, <1>2, <1>7, <2>2
      <3>2. doc[v] \in used /\ doc[v] # d
        BY <1>1, <3>1 DEF IdsUsed
      <3>3. doc[v] \in Existing
        BY <1>3, <1>7, <3>1, <3>2
      <3>4. QED  BY <1>2, <1>5, <3>1, <3>3 DEF Apart, Targets
    <2>3. QED  BY <2>1, <2>2
  <1>8. BytesDiffer'
    <2> SUFFICES ASSUME NEW v \in Uploads, pc'[v] \in {"number", "insert"} PROVE Differ(v)'
      BY DEF BytesDiffer
    <2>1. pc[v] \in {"number", "insert"} /\ doc'[v] = doc[v]
      BY <1>1, <1>2
    <2>2. QED
      BY <1>2, <2>1 DEF Apart, BytesDiffer, Differ, LatestRow, Numbers, RowsOf
  <1>9. OneDocumentPerName'
    <2> SUFFICES ASSUME NEW e \in Existing', NEW f \in Existing', e # f,
                        docs'[e].name = docs'[f].name
                 PROVE  docs'[e].name \in met'
      BY DEF OneDocumentPerName
    <2>1. CASE e # d /\ f # d
      BY <1>2, <1>3, <1>5, <2>1 DEF OneDocumentPerName
    <2>2. CASE e = d \/ f = d
      <3>1. PICK g \in Existing : docs[g].name = req[u].name
        BY <1>3, <1>4, <1>5, <2>2
      <3>2. req[u].name \in met
        BY <1>2, <3>1 DEF Apart, CreatorsAlone
      <3>3. QED  BY <1>2, <1>4, <2>2, <3>2
    <2>3. QED  BY <2>1, <2>2
  <1>10. NoRepeatedVersion'
    BY <1>2, <1>5 DEF NoRepeatedVersion, RowsBelong
  <1>11. QED
    BY <1>6, <1>7, <1>8, <1>9, <1>10 DEF CreatorsAlone, Targets

(* What is left after a deletion keeps every fact. *)
LEMMA RemoveApart ==
    ASSUME Inv, Apart, OneDocumentPerName, NoRepeatedVersion, NEW d \in Docs, Remove(d),
           doc' = doc, req' = req, met' = met,
           \A v \in Uploads : pc'[v] = pc[v] \/ pc'[v] = "failed"
    PROVE  /\ CreatorsAlone' /\ Targets' /\ BytesDiffer'
           /\ OneDocumentPerName' /\ NoRepeatedVersion'
  <1> USE DEF Inv, TypeOK
  <1>1. Existing' = Existing \ {d} /\ \A e \in Existing' : docs'[e] = docs[e]
    BY DEF Remove, Existing
  <1>2. versions' \subseteq versions /\ \A r \in versions' : r.doc # d
    BY DEF Remove, RowsOf
  <1>3. \A e \in Docs \ {d} : LatestRow(e)' = LatestRow(e)
    <2> SUFFICES ASSUME NEW e \in Docs \ {d} PROVE LatestRow(e)' = LatestRow(e)
      OBVIOUS
    <2>1. RowsOf(e)' = RowsOf(e)
      BY DEF Remove, RowsOf
    <2>2. QED  BY <2>1 DEF LatestRow, Numbers
  <1>4. LatestRow(d)' = {}
    BY <1>2 DEF LatestRow, RowsOf
  <1>5. CreatorsAlone' /\ Targets'
    BY <1>1 DEF Apart, CreatorsAlone, Targets
  <1>6. BytesDiffer'
    <2> SUFFICES ASSUME NEW v \in Uploads, pc'[v] \in {"number", "insert"} PROVE Differ(v)'
      BY DEF BytesDiffer
    <2>1. pc[v] \in {"number", "insert"} /\ doc[v] \in Docs
      OBVIOUS
    <2>2. CASE doc[v] = d
      BY <1>4, <2>2 DEF Differ
    <2>3. CASE doc[v] # d
      BY <1>3, <2>1, <2>3 DEF Apart, BytesDiffer, Differ
    <2>4. QED  BY <2>2, <2>3
  <1>7. OneDocumentPerName'
    BY <1>1 DEF OneDocumentPerName
  <1>8. NoRepeatedVersion'
    BY <1>1, <1>2 DEF NoRepeatedVersion, RowsBelong
  <1>9. QED
    BY <1>5, <1>6, <1>7, <1>8

(* The inserted row follows the latest one, whose bytes are others. *)
LEMMA InsertApart ==
    ASSUME Inv, Apart, OneDocumentPerName, NoRepeatedVersion, NEW u \in Uploads, Insert(u)
    PROVE  /\ CreatorsAlone' /\ Targets' /\ BytesDiffer'
           /\ OneDocumentPerName' /\ NoRepeatedVersion'
  <1> USE DEF Inv, TypeOK
  <1> DEFINE d == doc[u]
             row == [doc |-> d, number |-> number[u], bytes |-> req[u].bytes]
  <1>1. /\ pc[u] = "insert" /\ d \in Existing /\ d \in Docs
        /\ docs' = docs /\ doc' = doc /\ req' = req /\ met' = met
        /\ versions' = versions \union {row}
        /\ pc' = [pc EXCEPT ![u] = "committed"]
    BY DEF Insert, AddRow, history
  <1>2. row.doc = d /\ row.number = number[u] /\ row.bytes = req[u].bytes
    OBVIOUS
  <1>3. docs[d].name = req[u].name
    BY <1>1 DEF Apart, Targets
  <1> HIDE DEF d, row
  <1>4. Existing' = Existing
    BY <1>1 DEF Existing
  <1>5. CreatorsAlone' /\ Targets' /\ OneDocumentPerName'
    BY <1>1, <1>4 DEF Apart, CreatorsAlone, Targets, OneDocumentPerName
  <1>6. BytesDiffer'
    <2> SUFFICES ASSUME NEW v \in Uploads, pc'[v] \in {"number", "insert"},
                        req[v].name \notin met
                 PROVE  \A r \in LatestRow(doc[v])' : r.bytes # req[v].bytes
      BY <1>1 DEF BytesDiffer, Differ
    <2>1. v # u /\ pc[v] \in {"number", "insert"} /\ doc[v] \in Docs
      BY <1>1
    <2>2. doc[v] # d
      <3>1. SUFFICES ASSUME doc[v] = d PROVE FALSE
        OBVIOUS
      <3>2. docs[d].name = req[v].name
        BY <1>1, <2>1, <3>1 DEF Apart, Targets
      <3>3. pc[u] \in UnderWay /\ pc[v] \in UnderWay
        BY <1>1, <2>1 DEF UnderWay, Places
      <3>4. req[v].name \in met
        BY <1>3, <2>1, <3>2, <3>3 DEF Apart, ActiveMeet
      <3>5. QED  BY <3>4
    <2>3. LatestRow(doc[v])' = LatestRow(doc[v])
      <3>1. RowsOf(doc[v])' = RowsOf(doc[v])
        BY <1>1, <1>2, <2>2 DEF RowsOf
      <3>2. QED  BY <1>1, <3>1 DEF LatestRow, Numbers
    <2>4. QED  BY <2>1, <2>3 DEF Apart, BytesDiffer, Differ
  <1>7. NoRepeatedVersion'
    <2> SUFFICES ASSUME NEW r \in versions', NEW s \in versions', r.doc = s.doc,
                        s.number = r.number + 1, r.bytes = s.bytes
                 PROVE  docs[r.doc].name \in met
      BY <1>1 DEF NoRepeatedVersion
    <2>1. PICK k \in Nat : Counted(d, k)
      BY <1>1 DEF AllCounted
    <2>2. number[u] = k + 1
      BY <2>1, InsertNumber DEF d
    <2>3. \A t \in versions : t.doc = d => t.number \in 1..k
      BY <2>1 DEF Counted, Numbers, RowsOf
    <2>4. CASE r \in versions /\ s \in versions
      BY <2>4 DEF NoRepeatedVersion
    <2>5. CASE r = row
      <3>1. s.number = k + 2 /\ s.doc = d
        BY <1>2, <2>2, <2>5
      <3>2. s \in versions
        BY <1>1, <1>2, <2>2, <3>1
      <3>3. QED  BY <2>3, <3>1, <3>2
    <2>6. CASE s = row /\ r \in versions
      <3>1. r.doc = d /\ r.number = k /\ r.bytes = req[u].bytes
        <4>1. r.number \in Nat
          BY <2>6 DEF Rows
        <4>2. QED  BY <1>2, <2>2, <2>6, <4>1
      <3>2. r \in LatestRow(d)
        BY <2>1, <2>6, <3>1 DEF LatestRow, RowsOf, Counted
      <3>3. req[u].name \in met
        BY <1>1, <3>1, <3>2 DEF Apart, BytesDiffer, Differ, d
      <3>4. QED  BY <1>3, <3>1, <3>3
    <2>7. QED  BY <1>1, <2>4, <2>5, <2>6
  <1>8. QED
    BY <1>5, <1>6, <1>7

LEMMA ApartNext ==
    Inv /\ Apart /\ OneDocumentPerName /\ NoRepeatedVersion /\ [Next]_vars
        => Apart' /\ OneDocumentPerName' /\ NoRepeatedVersion'
  <1> SUFFICES ASSUME Inv, Apart, OneDocumentPerName, NoRepeatedVersion, [Next]_vars
               PROVE  Apart' /\ OneDocumentPerName' /\ NoRepeatedVersion'
    OBVIOUS
  <1>1. NotBegun' /\ ActiveMeet'
    BY NotBegunNext, MeetNext DEF Apart
  <1>2. CASE Quiet
    <2>1. OneDocumentPerName' /\ NoRepeatedVersion'
      BY <1>2, MetGrows DEF Quiet, OneDocumentPerName, NoRepeatedVersion, Existing
    <2>2. QED  BY <1>1, <1>2, <2>1, QuietApart DEF Apart
  <1>3. ASSUME NEW u \in Uploads, Create(u)
        PROVE  Apart' /\ OneDocumentPerName' /\ NoRepeatedVersion'
    BY <1>1, <1>3, CreateApart DEF Apart
  <1>4. ASSUME NEW u \in Uploads, Insert(u)
        PROVE  Apart' /\ OneDocumentPerName' /\ NoRepeatedVersion'
    BY <1>1, <1>4, InsertApart DEF Apart
  <1>5. ASSUME NEW u \in Uploads, Cleanup(u), ~Quiet
        PROVE  Apart' /\ OneDocumentPerName' /\ NoRepeatedVersion'
    <2>1. doc[u] \in Docs /\ Remove(doc[u])
      BY <1>5 DEF Cleanup, Quiet, Existing
    <2>2. /\ doc' = doc /\ req' = req /\ met' = met
          /\ \A v \in Uploads : pc'[v] = pc[v] \/ pc'[v] = "failed"
      BY <1>5 DEF Cleanup, history, Inv, TypeOK
    <2>3. QED  BY <1>1, <2>1, <2>2, RemoveApart DEF Apart
  <1>6. ASSUME NEW d \in Docs, Delete(d)
        PROVE  Apart' /\ OneDocumentPerName' /\ NoRepeatedVersion'
    <2>1. Remove(d) /\ doc' = doc /\ req' = req /\ met' = met /\ pc' = pc
      BY <1>6 DEF Delete, uploads
    <2>2. QED  BY <1>1, <2>1, RemoveApart DEF Apart
  <1>7. QED
    BY <1>2, <1>3, <1>4, <1>5, <1>6 DEF Next, Quiet, Find, ReadLatest, ReadNumber, Respond,
       Fail, Crash, vars

LEMMA ApartAlways == Spec => [](Apart /\ OneDocumentPerName /\ NoRepeatedVersion)
  BY ApartInit, ApartNext, InvariantHolds, PTL DEF Spec

(* A name has one document, whatever fails, restarts or is deleted, unless  *)
(* two uploads of the name were under way at once.                          *)
THEOREM OnePerName == Spec => []OneDocumentPerName
  BY ApartAlways, PTL

(* A retry that does not overlap another upload of its name appends no      *)
(* version equal to the one before it.                                      *)
THEOREM NoRepetition == Spec => []NoRepeatedVersion
  BY ApartAlways, PTL

-----------------------------------------------------------------------------
(* Refinement of the abstract store *)

(* The history Past reads from k rows is a sequence of their contents. *)
LEMMA PastShape ==
    ASSUME NEW rows, NEW k \in Nat, Listed(rows, k)
    PROVE  /\ Past(rows) \in Seq(Contents)
           /\ Len(Past(rows)) = k
           /\ \A r \in rows : r.number \in 1..k /\ Past(rows)[r.number] = r.bytes
           /\ \A n \in 1..k : \E r \in rows : r.number = n
  <1>1. Past(rows) = [n \in 1..k |-> (CHOOSE r \in rows : r.number = n).bytes]
    BY RowCount DEF Past
  <1>2. \A n \in 1..k : \E r \in rows : r.number = n
    BY DEF Listed
  <1>3. Past(rows) \in [1..k -> Contents]
    BY <1>1, <1>2 DEF Listed
  <1>4. Past(rows) \in Seq(Contents) /\ Len(Past(rows)) = k
    BY <1>3
  <1>5. ASSUME NEW r \in rows
        PROVE  r.number \in 1..k /\ Past(rows)[r.number] = r.bytes
    <2>1. r.number \in 1..k
      BY DEF Listed
    <2>2. (CHOOSE s \in rows : s.number = r.number) = r
      BY DEF Listed
    <2>3. QED  BY <1>1, <2>1, <2>2
  <1>6. QED
    BY <1>2, <1>4, <1>5

LEMMA PastEmpty == Past({}) = <<>>
  <1>1. 1..0 = {}
    OBVIOUS
  <1>2. Listed({}, 0)
    BY <1>1 DEF Listed
  <1>3. Past({}) \in Seq(Contents) /\ Len(Past({})) = 0
    BY <1>2, PastShape
  <1>4. QED
    BY <1>3

(* A step that leaves the rows of d and their chunks alone. *)
LEMMA SameStore ==
    ASSUME NEW d \in Docs, RowsOf(d)' = RowsOf(d), Hits(d)' = Hits(d), Inv, TypeOK'
    PROVE  Past(RowsOf(d))' = Past(RowsOf(d)) /\ Found(d)' = Found(d)
  <1>1. Past(RowsOf(d))' = Past(RowsOf(d))
    BY DEF Past
  <1>2. \A r \in RowsOf(d) : r.number \in Nat
    BY DEF Inv, TypeOK, Rows, RowsOf
  <1>3. \A r \in RowsOf(d) : <<d, r.number>> \in searchable' <=> <<d, r.number>> \in searchable
    BY <1>2 DEF Hits
  <1>4. QED
    BY <1>1, <1>3 DEF Found

LEMMA StepRemove ==
    ASSUME Inv, TypeOK', NEW d \in Existing, Remove(d)
    PROVE  Abstract!Drop(d)
  <1>1. d \in Docs
    BY DEF Existing
  <1>2. Existing' = Existing \ {d} /\ Numbers(d)' = {}
    BY <1>1, RemoveTables
  <1>3. RowsOf(d)' = {}
    BY DEF Remove, RowsOf
  <1>4. Past(RowsOf(d))' = <<>> /\ Found(d)' = {}
    <2>1. Past(RowsOf(d))' = Past({})
      BY <1>3 DEF Past
    <2>2. QED  BY <1>3, <2>1, PastEmpty DEF Found
  <1>5. ASSUME NEW e \in Docs \ {d} PROVE Past(RowsOf(e))' = Past(RowsOf(e)) /\ Found(e)' = Found(e)
    <2>1. RowsOf(e)' = RowsOf(e)
      BY DEF Remove, RowsOf
    <2>2. Hits(e)' = Hits(e)
      BY <1>1, RemoveTables
    <2>3. QED  BY <2>1, <2>2, SameStore
  <1>6. QED
    BY <1>1, <1>2, <1>4, <1>5 DEF Abstract!Drop

LEMMA StepInsert ==
    ASSUME Inv, TypeOK', NEW u \in Uploads, Insert(u), NEW d \in Docs, doc[u] = d
    PROVE  Abstract!Publish(d, req[u].bytes) /\ req[u].bytes \in Contents
  <1> DEFINE b == req[u].bytes
             row == [doc |-> d, number |-> number[u], bytes |-> b]
  <1>1. d \in Existing /\ b \in Contents /\ number[u] \in Nat
    BY DEF Insert, Inv, TypeOK, Requests
  <1>2. Inv'
    BY InsertInv
  <1>3. PICK k \in Nat : Counted(d, k)
    BY DEF Inv, AllCounted
  <1>4. number[u] = k + 1
    BY <1>3, InsertNumber
  <1>5. Counted(d, k + 1)'
    BY <1>3, InsertTables
  <1>6. RowsOf(d)' = RowsOf(d) \union {row}
    BY DEF Insert, AddRow, RowsOf
  <1>7. row.number = k + 1 /\ row.bytes = b
    BY <1>4
  <1> HIDE DEF row, b
  <1>8. Past(RowsOf(d))' = Append(Past(RowsOf(d)), b)
    <2>1. PICK old : old = RowsOf(d)
      OBVIOUS
    <2>2. PICK new : new = RowsOf(d)'
      OBVIOUS
    <2>3. Listed(old, k)
      BY <1>3, <2>1, CountedListed
    <2>4. Listed(new, k + 1)
      BY <1>2, <1>5, <2>2 DEF Inv, TypeOK, NumbersUnique, Counted, Numbers, Listed,
         RowsOf, Rows
    <2>5. new = old \union {row}
      BY <1>6, <2>1, <2>2
    <2>6. Past(old) \in Seq(Contents) /\ Len(Past(old)) = k
      BY <2>3, PastShape
    <2>7. Past(new) \in Seq(Contents) /\ Len(Past(new)) = k + 1
      BY <2>4, PastShape
    <2>8. \A r \in new : Past(new)[r.number] = r.bytes
      BY <2>4, PastShape
    <2>9. Past(new)[k + 1] = b
      BY <1>7, <2>5, <2>8
    <2>10. ASSUME NEW n \in 1..k PROVE Past(new)[n] = Past(old)[n]
      <3>1. PICK r \in old : r.number = n
        BY <2>3, PastShape
      <3>2. Past(old)[n] = r.bytes
        BY <2>3, <3>1, PastShape
      <3>3. Past(new)[n] = r.bytes
        BY <2>5, <2>8, <3>1
      <3>4. QED  BY <3>2, <3>3
    <2>11. Append(Past(old), b) \in Seq(Contents) /\ Len(Append(Past(old), b)) = k + 1
      BY <1>1, <2>6
    <2>12. \A n \in 1..(k + 1) : Append(Past(old), b)[n] = Past(new)[n]
      BY <1>1, <2>6, <2>9, <2>10
    <2>13. Past(new) = Append(Past(old), b)
      BY <2>7, <2>11, <2>12
    <2>14. Past(new) = Past(RowsOf(d))'
      BY <2>2 DEF Past
    <2>15. QED  BY <2>1, <2>13, <2>14
  <1>9. Found(d)' = {b}
    <2>1. Hits(d)' = {k + 1}
      BY <1>5 DEF Counted
    <2>2. \A r \in RowsOf(d)' : r.number \in Nat /\ (r.number = k + 1 => r = row)
      <3>1. Numbers(d) = 1..k
        BY <1>3 DEF Counted
      <3>2. \A r \in RowsOf(d) : r.number \in 1..k
        BY <3>1 DEF Numbers
      <3>3. QED  BY <1>6, <1>7, <3>2
    <2>3. \A r \in RowsOf(d)' : <<d, r.number>> \in searchable' <=> r = row
      BY <1>7, <2>1, <2>2 DEF Hits
    <2>4. {r \in RowsOf(d)' : <<d, r.number>> \in searchable'} = {row}
      BY <1>6, <2>3
    <2>5. QED  BY <1>7, <2>4 DEF Found
  <1>10. ASSUME NEW e \in Docs \ {d} PROVE Past(RowsOf(e))' = Past(RowsOf(e)) /\ Found(e)' = Found(e)
    BY InsertTables, SameStore
  <1>11. Existing' = Existing
    BY InsertTables
  <1>12. QED
    BY <1>1, <1>8, <1>9, <1>10, <1>11 DEF Abstract!Publish, b

LEMMA StepCreate ==
    ASSUME Inv, TypeOK', NEW u \in Uploads, Create(u)
    PROVE  \E d \in Docs : Abstract!Open(d)
  <1>1. PICK d \in Docs \ used :
          docs' = [docs EXCEPT ![d] = [name |-> req[u].name, scope |-> req[u].scope]]
    BY DEF Create
  <1>2. d \notin Existing
    BY <1>1 DEF Inv, IdsUsed
  <1>3. Existing' = Existing \union {d}
    <2>1. req[u] \in Requests
      BY DEF Inv, TypeOK, Create
    <2>2. [name |-> req[u].name, scope |-> req[u].scope] # Unset
      BY <2>1, UnsetAssumption DEF Requests, Headers
    <2>3. QED  BY <1>1, <2>2 DEF Inv, TypeOK, Existing
  <1>4. versions' = versions /\ searchable' = searchable
    BY DEF Create
  <1>5. QED
    BY <1>1, <1>2, <1>3, <1>4 DEF Abstract!Open, Past, Found, RowsOf

LEMMA StepQuiet ==
    ASSUME Quiet
    PROVE  UNCHANGED Abstract!store
  BY DEF Quiet, Abstract!store, Existing, Past, Found, RowsOf

LEMMA InitAbstract == Init => Abstract!Init
  <1> SUFFICES ASSUME Init PROVE Abstract!Init
    OBVIOUS
  <1>1. Existing = {}
    BY DEF Init, Existing
  <1>2. \A d \in Docs : RowsOf(d) = {}
    BY DEF Init, RowsOf
  <1>3. ASSUME NEW d \in Docs PROVE Past(RowsOf(d)) = <<>> /\ Found(d) = {}
    BY <1>2, PastEmpty DEF Found
  <1>4. QED
    BY <1>1, <1>3 DEF Abstract!Init

LEMMA StepAbstract == Inv /\ [Next]_vars => [Abstract!Next]_(Abstract!store)
  <1> SUFFICES ASSUME Inv, [Next]_vars PROVE [Abstract!Next]_(Abstract!store)
    OBVIOUS
  <1>1. TypeOK'
    BY NextType DEF Inv
  <1>2. ASSUME NEW u \in Uploads, Find(u) \/ ReadLatest(u) \/ ReadNumber(u)
                                    \/ Respond(u) \/ Fail(u)
        PROVE  UNCHANGED Abstract!store
    <2>1. Quiet
      BY <1>2 DEF Quiet, Find, ReadLatest, ReadNumber, Respond, Fail
    <2>2. QED  BY <2>1, StepQuiet
  <1>3. ASSUME NEW u \in Uploads, Create(u) PROVE Abstract!Next
    BY <1>1, <1>3, StepCreate DEF Abstract!Next
  <1>4. ASSUME NEW u \in Uploads, Insert(u) PROVE Abstract!Next
    <2>1. PICK d \in Docs : doc[u] = d
      BY <1>4 DEF Inv, TypeOK, Insert
    <2>2. QED  BY <1>1, <1>4, <2>1, StepInsert DEF Abstract!Next
  <1>5. ASSUME NEW u \in Uploads, Cleanup(u)
        PROVE  Abstract!Next \/ UNCHANGED Abstract!store
    <2>1. CASE doc[u] \in Existing /\ Remove(doc[u])
      <3>1. PICK d \in Existing : doc[u] = d /\ Remove(d)
        BY <2>1
      <3>2. Abstract!Drop(d) /\ d \in Docs
        BY <1>1, <3>1, StepRemove DEF Existing
      <3>3. QED  BY <3>2 DEF Abstract!Next
    <2>2. CASE UNCHANGED <<docs, versions, searchable>>
      <3>1. Quiet
        BY <1>5, <2>2 DEF Quiet, Cleanup
      <3>2. QED  BY <3>1, StepQuiet
    <2>3. QED  BY <1>5, <2>1, <2>2 DEF Cleanup
  <1>6. ASSUME NEW d \in Docs, Delete(d) PROVE Abstract!Next
    <2>1. Abstract!Drop(d)
      BY <1>1, <1>6, StepRemove DEF Delete
    <2>2. QED  BY <2>1 DEF Abstract!Next
  <1>7. CASE Crash \/ UNCHANGED vars
    <2>1. Quiet
      BY <1>7 DEF Quiet, Crash, vars
    <2>2. QED  BY <2>1, StepQuiet
  <1>8. QED
    BY <1>2, <1>3, <1>4, <1>5, <1>6, <1>7 DEF Next

(* Concurrent, failing and crashing uploads and deletions implement the     *)
(* abstract store: versions are only appended, a search sees the last one,  *)
(* and both disappear together.                                             *)
THEOREM Refinement == Spec => ImplementsVersionStore
  <1>1. QED
    BY InitAbstract, StepAbstract, InvariantHolds, PTL
       DEF Spec, ImplementsVersionStore, Abstract!Spec
=============================================================================
