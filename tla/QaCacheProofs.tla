---------------------------- MODULE QaCacheProofs ----------------------------
(***************************************************************************)
(* Proofs about QaCache for any number of requests, questions, categories  *)
(* and changes, and any size of L1.                                        *)
(***************************************************************************)
EXTENDS QaCache, FiniteSetTheorems, TLAPS

(* A write to L1 drops entries or adds the answer written, nothing else. *)
LEMMA StoreL1Entries ==
    ASSUME NEW k \in Keys, NEW p, StoreL1(k, p), TypeOK
    PROVE  \A j \in Keys : l1'[j] = l1[j] \/ l1'[j] = Absent \/ (j = k /\ l1'[j] = p)
  BY DEF StoreL1, TypeOK, Occupied

LEMMA StoreL1Type ==
    ASSUME NEW k \in Keys, NEW p \in Payloads, StoreL1(k, p), TypeOK
    PROVE  l1' \in [Keys -> Payloads \union {Absent}]
  BY DEF StoreL1, TypeOK, Occupied

(* The row a semantic lookup returns is of the same scope and similar. *)
LEMMA RowKeys ==
    ASSUME NEW k \in Keys, NEW r \in NearestRows(k), TypeOK
    PROVE  /\ r \in Keys
           /\ r[2] = k[2]
           /\ r[1] \in Similar[k[1]] \union {k[1]}
           /\ l2[r] \in Payloads
  <1>1. Similar[k[1]] \subseteq Questions /\ k[1] \in Questions /\ k[2] \in Scopes
    BY SimilarAssumption DEF Keys
  <1>2. CASE l2[k] # Absent
    BY <1>1, <1>2 DEF NearestRows, TypeOK
  <1>3. CASE l2[k] = Absent
    <2>1. r \in Similar[k[1]] \X {k[2]} /\ l2[r] # Absent
      BY <1>3 DEF NearestRows
    <2>2. r \in Keys /\ r[2] = k[2] /\ r[1] \in Similar[k[1]]
      BY <2>1, <1>1 DEF Keys
    <2>3. QED  BY <2>1, <2>2 DEF TypeOK
  <1>4. QED  BY <1>2, <1>3

-----------------------------------------------------------------------------
(* Type correctness *)

LEMMA InitType == Init => TypeOK
  <1> SUFFICES ASSUME Init PROVE TypeOK
    OBVIOUS
  <1>1. content \in [Scopes -> Nat] /\ generation \in Nat /\ gen \in [Asks -> Nat]
    BY DEF Init
  <1>2. /\ announced \in [Scopes -> Nat]
        /\ l1Cleared \in [Scopes -> Nat] /\ l2Cleared \in [Scopes -> Nat]
    BY <1>1 DEF Init
  <1>3. pc \in [Asks -> AskPlaces] /\ cpc \in [Changes -> ChangePlaces]
    BY DEF Init, AskPlaces, ChangePlaces
  <1>4. cat \in [Changes -> Scopes]
    BY DEF Init, Scopes
  <1>5. onLoop \in [Changes -> BOOLEAN] /\ overlapped \in BOOLEAN
    BY DEF Init
  <1>6. QED
    BY <1>1, <1>2, <1>3, <1>4, <1>5 DEF Init, TypeOK

LEMMA NextType == TypeOK /\ [Next]_vars => TypeOK'
  <1> SUFFICES ASSUME TypeOK, [Next]_vars PROVE TypeOK'
    OBVIOUS
  <1> USE DEF TypeOK
  <1>1. ASSUME NEW a \in Asks, LookupExactMiss(a) PROVE TypeOK'
    BY <1>1 DEF LookupExactMiss, AskPlaces, changes, history
  <1>2. ASSUME NEW a \in Asks, SemanticHit(a) PROVE TypeOK'
    <2>1. key[a] \in Keys
      BY <1>2 DEF SemanticHit
    <2>2. PICK r \in NearestRows(key[a]) : draft' = [draft EXCEPT ![a] = l2[r]]
      BY <1>2 DEF SemanticHit
    <2>3. l2[r] \in Payloads
      BY <2>1, RowKeys
    <2>4. overlapped' \in BOOLEAN
      BY <1>2 DEF SemanticHit
    <2>5. QED
      BY <1>2, <2>2, <2>3, <2>4 DEF SemanticHit, AskPlaces, changes
  <1>3. ASSUME NEW a \in Asks, SemanticMiss(a) PROVE TypeOK'
    BY <1>3 DEF SemanticMiss, AskPlaces, changes, history
  <1>4. ASSUME NEW a \in Asks, Promote(a) PROVE TypeOK'
    <2>1. key[a] \in Keys /\ draft[a] \in Payloads
      BY <1>4 DEF Promote
    <2>2. l1' \in [Keys -> Payloads \union {Absent}]
      BY <1>4, <2>1, StoreL1Type DEF Promote
    <2>3. QED
      BY <1>4, <2>2 DEF Promote, End, AskPlaces, changes, history
  <1>5. ASSUME NEW a \in Asks, CaptureGeneration(a) PROVE TypeOK'
    BY <1>5 DEF CaptureGeneration, AskPlaces, changes, history
  <1>6. ASSUME NEW a \in Asks, Search(a) PROVE TypeOK'
    <2>1. key[a] \in Keys
      BY <1>6 DEF Search
    <2>2. [about |-> key[a][1], scope |-> key[a][2],
           seen |-> [c \in Scopes |->
                       IF c \in Draws(key[a][2]) THEN content[c] ELSE 0]] \in Payloads
      BY <2>1 DEF Payloads, Keys
    <2>3. QED
      BY <1>6, <2>2 DEF Search, AskPlaces, changes, history
  <1>7. ASSUME NEW a \in Asks, GiveUp(a) PROVE TypeOK'
    BY <1>7 DEF GiveUp, End, AskPlaces, changes, history
  <1>8. ASSUME NEW a \in Asks, PutSkipped(a) PROVE TypeOK'
    BY <1>8 DEF PutSkipped, End, AskPlaces, changes, history
  <1>9. ASSUME NEW a \in Asks, PutAccepted(a) PROVE TypeOK'
    BY <1>9 DEF PutAccepted, AskPlaces, changes, history
  <1>10. ASSUME NEW a \in Asks, PutL1(a) PROVE TypeOK'
    <2>1. key[a] \in Keys /\ draft[a] \in Payloads
      BY <1>10 DEF PutL1
    <2>2. l1' \in [Keys -> Payloads \union {Absent}]
      BY <1>10, <2>1, StoreL1Type DEF PutL1
    <2>3. QED
      BY <1>10, <2>1, <2>2 DEF PutL1, AskPlaces, changes, history
  <1>11. ASSUME NEW a \in Asks, PutL2(a) PROVE TypeOK'
    <2>1. key[a] \in Keys /\ draft[a] \in Payloads
      BY <1>11 DEF PutL2
    <2>2. QED
      BY <1>11, <2>1 DEF PutL2, End, AskPlaces, changes, history
  <1>12. ASSUME NEW w \in Changes, CommitChange(w) PROVE TypeOK'
    BY <1>12 DEF CommitChange, ChangePlaces, asks
  <1>13. ASSUME NEW w \in Changes, ClearL1(w) PROVE TypeOK'
    BY <1>13 DEF ClearL1, ChangePlaces, asks
  <1>14. ASSUME NEW w \in Changes, ClearL2(w) PROVE TypeOK'
    BY <1>14 DEF ClearL2, EndChange, ChangePlaces, Scopes, asks
  <1>15. ASSUME NEW w \in Changes, InvalidationFails(w) PROVE TypeOK'
    BY <1>15 DEF InvalidationFails, EndChange, ChangePlaces, Scopes, asks
  <1>16. CASE Crash
    BY <1>16 DEF Crash, AskPlaces, ChangePlaces, Scopes
  <1>17. CASE UNCHANGED vars
    BY <1>17 DEF vars, asks, changes, history
  <1>18. ASSUME NEW c \in Scopes, CleanUpDocument(c) PROVE TypeOK'
    BY <1>18 DEF CleanUpDocument, asks, changes, history
  <1>19. QED
    BY <1>1, <1>2, <1>3, <1>4, <1>5, <1>6, <1>7, <1>8, <1>9, <1>10, <1>11,
       <1>12, <1>13, <1>14, <1>15, <1>16, <1>17, <1>18 DEF Next

(* Every state the cache and its callers reach is of the declared types,   *)
(* whatever the number of requests and questions.                          *)
THEOREM TypeCorrect == Spec => []TypeOK
  BY InitType, NextType, PTL DEF Spec

-----------------------------------------------------------------------------
(* Facts about scopes and levels *)

LEMMA DrawsScopes == \A s \in Scopes : Draws(s) \subseteq Scopes
  BY DEF Draws, Scopes

(* Invalidation reaches exactly the scopes whose searches read the category *)
(* (invalidate_category against _scope in vector_index_service.py).         *)
THEOREM InvalidationMatchesRetrieval ==
    \A c, s \in Scopes : s \in Affected(c) <=> c \in Draws(s)
  BY ScopeAssumption DEF Affected, Draws, Scopes

(* What Covered adds to a level no scope left alone reads. *)
LEMMA CoveredUnread ==
    ASSUME NEW c \in Scopes, NEW s \in Scopes, s \notin Affected(c)
    PROVE  \A d \in Draws(s) : d \notin Covered(c)
  BY DEF Affected, Covered, Draws, Scopes

LEMMA AsNewAsWeaken ==
    ASSUME NEW p \in Payloads, NEW s \in Scopes,
           NEW hi \in [Scopes -> Nat], NEW lo \in [Scopes -> Nat],
           \A c \in Draws(s) : lo[c] <= hi[c],
           AsNewAs(p, s, hi)
    PROVE  AsNewAs(p, s, lo)
  BY DrawsScopes DEF AsNewAs, Payloads

-----------------------------------------------------------------------------
(* The generation protocol *)

LevelsOrdered == \A c \in Scopes :
    /\ l2Cleared[c] <= l1Cleared[c] /\ l1Cleared[c] <= content[c]
    /\ announced[c] <= content[c]

GenerationsPast == \A a \in Asks : gen[a] <= generation

GuardInv == LevelsOrdered /\ GenerationsPast /\ GenerationGuardsSearch

LEMMA InitGuard == Init => GuardInv
  BY DEF Init, GuardInv, LevelsOrdered, GenerationsPast, GenerationGuardsSearch

LEMMA NextLevels == TypeOK /\ LevelsOrdered /\ [Next]_vars => LevelsOrdered'
  <1> SUFFICES ASSUME TypeOK, LevelsOrdered, [Next]_vars PROVE LevelsOrdered'
    OBVIOUS
  <1> USE DEF LevelsOrdered
  <1>1. CASE UNCHANGED <<content, announced, l1Cleared, l2Cleared>>
    BY <1>1
  <1>2. ASSUME NEW w \in Changes, CommitChange(w) PROVE LevelsOrdered'
    BY <1>2 DEF CommitChange, TypeOK
  <1>7. ASSUME NEW c \in Scopes, CleanUpDocument(c) PROVE LevelsOrdered'
    BY <1>7 DEF CleanUpDocument, TypeOK, history
  <1>3. ASSUME NEW w \in Changes, ClearL1(w) PROVE LevelsOrdered'
    <2>1. \A c \in Scopes : l1Cleared[c] <= l1Cleared'[c] /\ l1Cleared'[c] <= content[c]
      BY <1>3 DEF ClearL1, TypeOK
    <2>2. QED
      BY <1>3, <2>1 DEF ClearL1, TypeOK
  <1>4. ASSUME NEW w \in Changes, ClearL2(w) PROVE LevelsOrdered'
    BY <1>4 DEF ClearL2, TypeOK
  <1>5. CASE Crash
    BY <1>5, <1>1 DEF Crash
  <1>6. QED
    BY <1>1, <1>2, <1>3, <1>4, <1>5, <1>7
    DEF Next, LookupExactMiss, SemanticHit, SemanticMiss, Promote,
        CaptureGeneration, Search, GiveUp, PutSkipped, PutAccepted, PutL1, PutL2,
        InvalidationFails, vars, history

LEMMA NextGenerations == TypeOK /\ GenerationsPast /\ [Next]_vars => GenerationsPast'
  <1> SUFFICES ASSUME TypeOK, GenerationsPast, [Next]_vars PROVE GenerationsPast'
    OBVIOUS
  <1> USE DEF GenerationsPast
  <1>1. CASE UNCHANGED <<gen, generation>>
    BY <1>1
  <1>2. ASSUME NEW a \in Asks, End(a), UNCHANGED generation PROVE GenerationsPast'
    BY <1>2 DEF End, TypeOK
  <1>3. ASSUME NEW a \in Asks, CaptureGeneration(a) PROVE GenerationsPast'
    BY <1>3 DEF CaptureGeneration, TypeOK
  <1>4. ASSUME NEW w \in Changes, ClearL1(w) PROVE GenerationsPast'
    BY <1>4 DEF ClearL1, TypeOK, asks
  <1>5. CASE Crash
    BY <1>5 DEF Crash
  <1>6. QED
    BY <1>1, <1>2, <1>3, <1>4, <1>5
    DEF Next, LookupExactMiss, SemanticHit, SemanticMiss, Promote, Search, GiveUp,
        PutSkipped, PutAccepted, PutL1, PutL2, CommitChange, CleanUpDocument, ClearL2,
        InvalidationFails, vars, asks

(* One step per action that can move an ask to "llm", change what it holds  *)
(* there, or change the generation or the level it is compared with.        *)
LEMMA NextGuard ==
    TypeOK /\ GuardInv /\ [Next]_vars => GenerationGuardsSearch'
  <1> SUFFICES ASSUME TypeOK, GuardInv, [Next]_vars, NEW b \in Asks,
                      pc'[b] = "llm", gen'[b] = generation'
               PROVE  AsNewAs(draft[b], key[b][2], l1Cleared)'
    BY DEF GenerationGuardsSearch
  <1>0. TypeOK'
    BY NextType
  <1>1. ASSUME UNCHANGED <<pc, key, gen, draft, generation, l1Cleared>>
        PROVE  AsNewAs(draft[b], key[b][2], l1Cleared)'
    BY <1>1 DEF GuardInv, GenerationGuardsSearch, AsNewAs
  <1>2. ASSUME NEW a \in Asks, a # b => UNCHANGED <<pc[b], key[b], gen[b], draft[b]>>,
               a = b => pc'[b] # "llm", UNCHANGED <<generation, l1Cleared>>
        PROVE  AsNewAs(draft[b], key[b][2], l1Cleared)'
    BY <1>2 DEF GuardInv, GenerationGuardsSearch, AsNewAs
  <1>3. ASSUME NEW a \in Asks, Search(a) PROVE AsNewAs(draft[b], key[b][2], l1Cleared)'
    <2>1. CASE a # b
      BY <1>3, <2>1 DEF Search, TypeOK, GuardInv, GenerationGuardsSearch, AsNewAs, history
    <2>2. CASE a = b
      <3>1. key[b] \in Keys
        BY <1>3, <2>2 DEF Search, TypeOK
      <3>2. key[b][2] \in Scopes
        BY <3>1 DEF Keys
      <3>3. /\ \A c \in Scopes : c \in Draws(key[b][2]) => draft'[b].seen[c] = content[c]
            /\ UNCHANGED <<key, l1Cleared>>
        BY <1>3, <2>2 DEF Search, TypeOK, history
      <3>4. \A c \in Draws(key[b][2]) : draft'[b].seen[c] = content[c]
        BY <3>2, <3>3, DrawsScopes
      <3>5. \A c \in Draws(key[b][2]) : draft'[b].seen[c] >= l1Cleared[c]
        BY <3>2, <3>4, DrawsScopes DEF GuardInv, LevelsOrdered, TypeOK
      <3>6. QED
        BY <3>3, <3>5 DEF AsNewAs
    <2>3. QED  BY <2>1, <2>2
  <1>4. ASSUME NEW w \in Changes, ClearL1(w) PROVE AsNewAs(draft[b], key[b][2], l1Cleared)'
    <2>1. gen'[b] = gen[b] /\ generation' = generation + 1 /\ gen[b] <= generation
      BY <1>4 DEF ClearL1, asks, GuardInv, GenerationsPast
    <2>2. gen[b] \in Nat /\ generation \in Nat
      BY DEF TypeOK
    <2>3. gen[b] = generation + 1
      BY <2>1
    <2>4. FALSE
      BY <2>1, <2>2, <2>3
    <2>5. QED  BY <2>4
  <1>5. CASE Crash
    BY <1>5 DEF Crash
  <1>6. QED
    <2>1. CASE \E a \in Asks : \/ LookupExactMiss(a) \/ SemanticMiss(a) \/ SemanticHit(a)
                               \/ CaptureGeneration(a) \/ PutAccepted(a) \/ PutL1(a)
      BY <2>1, <1>2 DEF LookupExactMiss, SemanticMiss, SemanticHit, CaptureGeneration,
                       PutAccepted, PutL1, TypeOK, history
    <2>2. CASE \E a \in Asks : Promote(a) \/ GiveUp(a) \/ PutSkipped(a) \/ PutL2(a)
      BY <2>2, <1>2 DEF Promote, GiveUp, PutSkipped, PutL2, End, TypeOK, history
    <2>3. CASE \/ \E w \in Changes : CommitChange(w) \/ ClearL2(w) \/ InvalidationFails(w)
               \/ \E c \in Scopes : CleanUpDocument(c)
      BY <2>3, <1>1
      DEF CommitChange, ClearL2, InvalidationFails, CleanUpDocument, asks, history
    <2>4. CASE UNCHANGED vars
      BY <2>4, <1>1 DEF vars, asks, history
    <2>5. QED
      BY <1>3, <1>4, <1>5, <2>1, <2>2, <2>3, <2>4 DEF Next

LEMMA GuardCorrect == Spec => []GuardInv
  <1>1. TypeOK /\ GuardInv /\ [Next]_vars => GuardInv'
    BY NextLevels, NextGenerations, NextGuard DEF GuardInv
  <1>2. QED
    BY <1>1, InitGuard, TypeCorrect, PTL DEF Spec

(* An answer whose generation is still current when put checks it was       *)
(* searched after every invalidation L1 has seen.                           *)
THEOREM GenerationGuard == Spec => []GenerationGuardsSearch
  <1>1. GuardInv => GenerationGuardsSearch
    BY DEF GuardInv
  <1>2. QED
    BY <1>1, GuardCorrect, PTL

-----------------------------------------------------------------------------
(* Freshness.  The strengthening: a change that is announced and not yet    *)
(* reflected in a layer's level is still on its way there, and what is      *)
(* cached, or held by an ask past its check, is as new as the level of the  *)
(* layer it is or will be in.                                               *)

PendingL1 == \A c \in Scopes : l1Cleared[c] < announced[c] =>
    \E w \in Changes : cat[w] = c /\ cpc[w] = "clearL1"
PendingL2 == \A c \in Scopes : l2Cleared[c] # l1Cleared[c] =>
    \E w \in Changes : c \in Covered(cat[w]) /\ cpc[w] = "clearL2"
L1Fresh == \A k \in Keys : l1[k] # Absent => AsNewAs(l1[k], k[2], l1Cleared)
L2Fresh == \A k \in Keys : l2[k] # Absent => AsNewAs(l2[k], k[2], l2Cleared)
DraftsFresh == \A a \in Asks : pc[a] \in {"promote", "putL1", "putL2"} =>
    AsNewAs(draft[a], key[a][2], l1Cleared)

FreshInv ==
    ~overlapped => PendingL1 /\ PendingL2 /\ L1Fresh /\ L2Fresh /\ DraftsFresh

LEMMA InitFresh == Init => FreshInv
  BY DEF Init, FreshInv, PendingL1, PendingL2, L1Fresh, L2Fresh, DraftsFresh

LEMMA OverlapStays == TypeOK /\ [Next]_vars /\ ~overlapped' => ~overlapped
  BY DEF TypeOK, Next, LookupExactMiss, SemanticHit, SemanticMiss, Promote,
         CaptureGeneration, Search, GiveUp, PutSkipped, PutAccepted, PutL1, PutL2,
         CommitChange, CleanUpDocument, ClearL1, ClearL2, InvalidationFails, Crash, vars,
         history

LEMMA NextPending ==
    ASSUME TypeOK, LevelsOrdered, PendingL1, PendingL2, [Next]_vars, ~overlapped'
    PROVE  PendingL1' /\ PendingL2'
  <1> USE DEF PendingL1, PendingL2
  <1>1. CASE UNCHANGED <<announced, l1Cleared, l2Cleared, cat, cpc>>
    BY <1>1
  <1>2. ASSUME NEW w \in Changes, CommitChange(w) PROVE PendingL1' /\ PendingL2'
    <2>1. PICK c \in Scopes : /\ announced' = [announced EXCEPT ![c] = content[c] + 1]
                             /\ cat' = [cat EXCEPT ![w] = c]
      BY <1>2 DEF CommitChange
    <2>2. /\ cpc[w] = "idle" /\ cpc' = [cpc EXCEPT ![w] = "clearL1"]
          /\ UNCHANGED <<l1Cleared, l2Cleared>>
      BY <1>2 DEF CommitChange
    <2>3. \A v \in Changes : cpc[v] # "idle" => cat'[v] = cat[v] /\ cpc'[v] = cpc[v]
      BY <2>1, <2>2 DEF TypeOK
    <2>4. /\ cat'[w] = c /\ cpc'[w] = "clearL1"
          /\ \A d \in Scopes \ {c} : announced'[d] = announced[d]
      BY <2>1, <2>2 DEF TypeOK
    <2>5. QED
      BY <2>2, <2>3, <2>4
  <1>3. ASSUME NEW w \in Changes, ClearL1(w) PROVE PendingL1' /\ PendingL2'
    <2>1. /\ cpc' = [cpc EXCEPT ![w] = "clearL2"] /\ cpc[w] = "clearL1"
          /\ UNCHANGED <<announced, cat, l2Cleared>>
          /\ \A c \in Scopes : l1Cleared'[c] = IF c \in Covered(cat[w]) THEN content[c]
                                               ELSE l1Cleared[c]
      BY <1>3 DEF ClearL1
    <2>2. cat[w] \in Covered(cat[w])
      BY DEF Covered, TypeOK
    <2>3. cpc'[w] = "clearL2" /\ \A v \in Changes \ {w} : cpc'[v] = cpc[v]
      BY <2>1 DEF TypeOK
    <2>4. PendingL1'
      <3> SUFFICES ASSUME NEW c \in Scopes, l1Cleared'[c] < announced'[c]
                   PROVE  \E v \in Changes : cat'[v] = c /\ cpc'[v] = "clearL1"
        OBVIOUS
      <3>1. announced[c] \in Nat /\ content[c] \in Nat /\ announced[c] <= content[c]
        BY DEF LevelsOrdered, TypeOK
      <3>2. c \notin Covered(cat[w])
        BY <2>1, <3>1
      <3>3. QED
        BY <2>1, <2>2, <2>3, <3>2
    <2>5. PendingL2'
      BY <2>1, <2>3
    <2>6. QED  BY <2>4, <2>5
  <1>4. ASSUME NEW w \in Changes, ClearL2(w) PROVE PendingL1' /\ PendingL2'
    <2>1. /\ cpc' = [cpc EXCEPT ![w] = "idle"] /\ cpc[w] = "clearL2"
          /\ cat' = [cat EXCEPT ![w] = NoCategory]
          /\ UNCHANGED <<announced, l1Cleared>>
          /\ \A c \in Scopes : l2Cleared'[c] = IF c \in Covered(cat[w]) THEN l1Cleared[c]
                                               ELSE l2Cleared[c]
      BY <1>4 DEF ClearL2, EndChange
    <2>2. \A v \in Changes \ {w} : cpc'[v] = cpc[v] /\ cat'[v] = cat[v]
      BY <2>1 DEF TypeOK
    <2>3. QED
      BY <2>1, <2>2
  <1>5. CASE Crash
    <2>1. \A w \in Changes : cpc[w] = "idle"
      BY <1>5 DEF Crash
    <2>2. QED
      BY <2>1, <1>5 DEF Crash
  <1>6. QED
    BY <1>1, <1>2, <1>3, <1>4, <1>5
    DEF Next, LookupExactMiss, SemanticHit, SemanticMiss, Promote, CaptureGeneration,
        Search, GiveUp, PutSkipped, PutAccepted, PutL1, PutL2, InvalidationFails,
        CleanUpDocument, vars, changes, history

(* Entries of L1: written from a fresh draft, or left by a clear whose      *)
(* scopes read nothing the clear covered.                                   *)
LEMMA NextL1Fresh ==
    ASSUME TypeOK, L1Fresh, DraftsFresh, [Next]_vars
    PROVE  L1Fresh'
  <1> USE DEF L1Fresh
  <1>1. CASE UNCHANGED <<l1, l1Cleared>>
    BY <1>1 DEF AsNewAs
  <1>2. ASSUME NEW a \in Asks, pc[a] \in {"promote", "putL1"}, StoreL1(key[a], draft[a]),
               UNCHANGED l1Cleared
        PROVE  L1Fresh'
    <2>1. key[a] \in Keys
      BY <1>2 DEF TypeOK
    <2>2. AsNewAs(draft[a], key[a][2], l1Cleared)
      BY <1>2 DEF DraftsFresh
    <2>3. ASSUME NEW j \in Keys, l1'[j] # Absent
          PROVE  AsNewAs(l1'[j], j[2], l1Cleared)
      BY <2>1, <2>2, <2>3, <1>2, StoreL1Entries
    <2>4. QED
      BY <2>3, <1>2 DEF AsNewAs
  <1>3. ASSUME NEW w \in Changes, ClearL1(w) PROVE L1Fresh'
    <2> SUFFICES ASSUME NEW k \in Keys, l1'[k] # Absent
                 PROVE  AsNewAs(l1'[k], k[2], l1Cleared')
      OBVIOUS
    <2>1. k[2] \notin Affected(cat[w]) /\ l1'[k] = l1[k]
      BY <1>3 DEF ClearL1
    <2>2. k[2] \in Scopes /\ cat[w] \in Scopes
      BY DEF Keys, TypeOK
    <2>3. \A c \in Draws(k[2]) : l1Cleared'[c] = l1Cleared[c]
      BY <1>3, <2>1, <2>2, CoveredUnread, DrawsScopes DEF ClearL1
    <2>4. QED
      BY <2>1, <2>3 DEF AsNewAs
  <1>4. CASE Crash
    BY <1>4 DEF Crash
  <1>5. QED
    BY <1>1, <1>2, <1>3, <1>4
    DEF Next, LookupExactMiss, SemanticHit, SemanticMiss, Promote, CaptureGeneration,
        Search, GiveUp, PutSkipped, PutAccepted, PutL1, PutL2, CommitChange, CleanUpDocument,
        ClearL2, InvalidationFails, vars, history

LEMMA NextL2Fresh ==
    ASSUME TypeOK, LevelsOrdered, L2Fresh, DraftsFresh, [Next]_vars
    PROVE  L2Fresh'
  <1> USE DEF L2Fresh
  <1>1. CASE UNCHANGED <<l2, l2Cleared>>
    BY <1>1 DEF AsNewAs
  <1>2. ASSUME NEW a \in Asks, PutL2(a) PROVE L2Fresh'
    <2>1. key[a] \in Keys /\ draft[a] \in Payloads /\ key[a][2] \in Scopes
      BY <1>2 DEF PutL2, TypeOK, Keys
    <2>2. AsNewAs(draft[a], key[a][2], l1Cleared)
      BY <1>2 DEF PutL2, DraftsFresh
    <2>3. \A c \in Draws(key[a][2]) : l2Cleared[c] <= l1Cleared[c]
      BY <2>1, DrawsScopes DEF LevelsOrdered
    <2>4. AsNewAs(draft[a], key[a][2], l2Cleared)
      BY <2>1, <2>2, <2>3, AsNewAsWeaken DEF TypeOK
    <2>5. \A j \in Keys : l2'[j] = l2[j] \/ (j = key[a] /\ l2'[j] = draft[a])
      BY <1>2 DEF PutL2, TypeOK
    <2>6. \A j \in Keys : l2'[j] # Absent => AsNewAs(l2'[j], j[2], l2Cleared)
      BY <2>4, <2>5
    <2>7. QED
      BY <2>6, <1>2 DEF PutL2, history, AsNewAs
  <1>3. ASSUME NEW w \in Changes, ClearL2(w) PROVE L2Fresh'
    <2> SUFFICES ASSUME NEW k \in Keys, l2'[k] # Absent
                 PROVE  AsNewAs(l2'[k], k[2], l2Cleared')
      OBVIOUS
    <2>1. k[2] \notin Affected(cat[w]) /\ l2'[k] = l2[k]
      BY <1>3 DEF ClearL2
    <2>2. k[2] \in Scopes /\ cat[w] \in Scopes
      BY DEF Keys, TypeOK
    <2>3. \A c \in Draws(k[2]) : l2Cleared'[c] = l2Cleared[c]
      BY <1>3, <2>1, <2>2, CoveredUnread, DrawsScopes DEF ClearL2
    <2>4. QED
      BY <2>1, <2>3 DEF AsNewAs
  <1>4. QED
    BY <1>1, <1>2, <1>3
    DEF Next, LookupExactMiss, SemanticHit, SemanticMiss, Promote, CaptureGeneration,
        Search, GiveUp, PutSkipped, PutAccepted, PutL1, CommitChange, CleanUpDocument,
        ClearL1, InvalidationFails, Crash, vars, history

(* Drafts past their check.  A semantic hit that meets no invalidation reads *)
(* a row of an L2 cleared as far as L1; an accepted put is covered by   *)
(* the generation; a clear of L1 that meets no write leaves the rest alone.  *)
LEMMA NextDraftsFresh ==
    ASSUME TypeOK, GuardInv, PendingL2, L2Fresh, DraftsFresh, [Next]_vars, ~overlapped'
    PROVE  DraftsFresh'
  <1> SUFFICES ASSUME NEW b \in Asks, pc'[b] \in {"promote", "putL1", "putL2"}
               PROVE  AsNewAs(draft'[b], key'[b][2], l1Cleared')
    BY DEF DraftsFresh, AsNewAs
  <1>1. ASSUME UNCHANGED <<pc[b], key[b], draft[b], l1Cleared>>
        PROVE  AsNewAs(draft'[b], key'[b][2], l1Cleared')
    BY <1>1 DEF DraftsFresh
  <1>2. ASSUME NEW a \in Asks, a # b => UNCHANGED <<pc[b], key[b], draft[b]>>,
               a = b => pc'[b] \notin {"promote", "putL1", "putL2"}, UNCHANGED l1Cleared
        PROVE  AsNewAs(draft'[b], key'[b][2], l1Cleared')
    BY <1>1, <1>2
  <1>3. ASSUME NEW a \in Asks, SemanticHit(a)
        PROVE  AsNewAs(draft'[b], key'[b][2], l1Cleared')
    <2>1. CASE a # b
      BY <1>1, <1>3, <2>1 DEF SemanticHit, TypeOK
    <2>2. CASE a = b
      <3>1. PICK r \in NearestRows(key[b]) : draft' = [draft EXCEPT ![b] = l2[r]]
        BY <1>3, <2>2 DEF SemanticHit
      <3>2. key[b] \in Keys /\ key[b][2] \in Scopes /\ UNCHANGED <<key, l1Cleared>>
        BY <1>3, <2>2 DEF SemanticHit, TypeOK, Keys
      <3>3. r \in Keys /\ r[2] = key[b][2] /\ l2[r] \in Payloads /\ l2[r] # Absent
        BY <3>2, RowKeys, AbsentAssumption
      <3>4. AsNewAs(l2[r], key[b][2], l2Cleared)
        BY <3>3 DEF L2Fresh
      <3>5. ASSUME NEW c \in Draws(key[b][2]) PROVE l1Cleared[c] <= l2Cleared[c]
        <4>1. c \in Scopes /\ key[b][2] \in Affected(c)
          BY <3>2, DrawsScopes, InvalidationMatchesRetrieval
        <4>2. ASSUME NEW w \in Changes, cpc[w] = "clearL2" PROVE c \notin Covered(cat[w])
          <5>1. key[b][2] \notin Affected(cat[w])
            BY <1>3, <2>2, <4>2 DEF SemanticHit, MeetsInvalidation, Touches
          <5>2. QED
            BY <3>2, <5>1, CoveredUnread DEF TypeOK
        <4>3. l1Cleared[c] = l2Cleared[c]
          BY <4>1, <4>2 DEF PendingL2
        <4>4. QED
          BY <4>1, <4>3 DEF TypeOK
      <3>6. AsNewAs(l2[r], key[b][2], l1Cleared)
        BY <3>2, <3>3, <3>4, <3>5, AsNewAsWeaken DEF TypeOK
      <3>7. QED
        BY <3>1, <3>2, <3>6 DEF TypeOK
    <2>3. QED  BY <2>1, <2>2
  <1>4. ASSUME NEW a \in Asks, PutAccepted(a)
        PROVE  AsNewAs(draft'[b], key'[b][2], l1Cleared')
    <2>1. CASE a # b
      BY <1>1, <1>4, <2>1 DEF PutAccepted, TypeOK, history
    <2>2. CASE a = b
      BY <1>4, <2>2 DEF PutAccepted, GuardInv, GenerationGuardsSearch, history
    <2>3. QED  BY <2>1, <2>2
  <1>5. ASSUME NEW a \in Asks, PutL1(a)
        PROVE  AsNewAs(draft'[b], key'[b][2], l1Cleared')
    BY <1>5 DEF PutL1, DraftsFresh, TypeOK, history
  <1>6. ASSUME NEW w \in Changes, ClearL1(w)
        PROVE  AsNewAs(draft'[b], key'[b][2], l1Cleared')
    <2>1. /\ UNCHANGED <<pc, key, draft>>
          /\ \A c \in Scopes : l1Cleared'[c] = IF c \in Covered(cat[w]) THEN content[c]
                                               ELSE l1Cleared[c]
          /\ ~MeetsWrite(w)
      BY <1>6 DEF ClearL1, asks
    <2>2. key[b] \in Keys /\ key[b][2] \in Scopes /\ cat[w] \in Scopes
      BY <2>1 DEF TypeOK, Keys
    <2>3. key[b][2] \notin Affected(cat[w])
      BY <2>1 DEF MeetsWrite, Touches
    <2>4. \A c \in Draws(key[b][2]) : l1Cleared'[c] = l1Cleared[c]
      BY <2>1, <2>2, <2>3, CoveredUnread, DrawsScopes
    <2>5. QED
      BY <2>1, <2>4 DEF DraftsFresh, AsNewAs
  <1>7. CASE Crash
    BY <1>7 DEF Crash
  <1>8. QED
    <2>1. CASE \E a \in Asks : \/ LookupExactMiss(a) \/ SemanticMiss(a) \/ Search(a)
                               \/ CaptureGeneration(a)
      BY <2>1, <1>2 DEF LookupExactMiss, SemanticMiss, Search, CaptureGeneration,
                       TypeOK, history
    <2>2. CASE \E a \in Asks : Promote(a) \/ GiveUp(a) \/ PutSkipped(a) \/ PutL2(a)
      BY <2>2, <1>2 DEF Promote, GiveUp, PutSkipped, PutL2, End, TypeOK, history
    <2>3. CASE \/ \E w \in Changes : CommitChange(w) \/ ClearL2(w) \/ InvalidationFails(w)
               \/ \E c \in Scopes : CleanUpDocument(c)
      BY <2>3, <1>1
      DEF CommitChange, ClearL2, InvalidationFails, CleanUpDocument, asks, history
    <2>4. CASE UNCHANGED vars
      BY <2>4, <1>1 DEF vars, asks, history
    <2>5. QED
      BY <1>3, <1>4, <1>5, <1>6, <1>7, <2>1, <2>2, <2>3, <2>4 DEF Next

LEMMA FreshCorrect == Spec => []FreshInv
  <1>1. TypeOK /\ GuardInv /\ FreshInv /\ [Next]_vars => FreshInv'
    <2> SUFFICES ASSUME TypeOK, GuardInv, FreshInv, [Next]_vars, ~overlapped'
                 PROVE  PendingL1' /\ PendingL2' /\ L1Fresh' /\ L2Fresh' /\ DraftsFresh'
      BY DEF FreshInv
    <2>1. PendingL1 /\ PendingL2 /\ L1Fresh /\ L2Fresh /\ DraftsFresh
      BY OverlapStays DEF FreshInv
    <2>2. PendingL1' /\ PendingL2'
      BY <2>1, NextPending DEF GuardInv
    <2>3. L1Fresh' /\ L2Fresh'
      BY <2>1, NextL1Fresh, NextL2Fresh DEF GuardInv
    <2>4. DraftsFresh'
      BY <2>1, NextDraftsFresh
    <2>5. QED
      BY <2>2, <2>3, <2>4
  <1>2. QED
    BY <1>1, InitFresh, TypeCorrect, GuardCorrect, PTL DEF Spec

(* Unless a cache write met an invalidation, or one was cut short, every    *)
(* cached answer of a scope no change is being made to reflects, of each    *)
(* category it draws on, the last added version or deletion and all that    *)
(* was committed before it; only later cleanups of failed uploads, which do *)
(* not invalidate, may be missing.                                          *)
THEOREM Freshness == Spec => []FreshUnlessOverlapped
  <1>1. TypeOK /\ LevelsOrdered /\ FreshInv => FreshUnlessOverlapped
    <2> SUFFICES ASSUME TypeOK, LevelsOrdered, FreshInv, ~overlapped,
                        NEW k \in Keys, Settled(k[2])
                 PROVE  /\ l1[k] # Absent => AsNewAs(l1[k], k[2], announced)
                        /\ l2[k] # Absent => AsNewAs(l2[k], k[2], announced)
      BY DEF FreshUnlessOverlapped
    <2>1. k[2] \in Scopes
      BY DEF Keys
    <2>2. ASSUME NEW c \in Draws(k[2])
          PROVE  announced[c] <= l1Cleared[c] /\ announced[c] <= l2Cleared[c]
      <3>1. c \in Scopes /\ k[2] \in Affected(c)
        BY <2>1, DrawsScopes, InvalidationMatchesRetrieval
      <3>2. \A w \in Changes : cpc[w] # "idle" => cat[w] # c
        BY <3>1 DEF Settled
      <3>3. \A w \in Changes : cpc[w] # "idle" => c \notin Covered(cat[w])
        BY <2>1, CoveredUnread DEF Settled, TypeOK
      <3>4. l2Cleared[c] = l1Cleared[c]
        BY <3>1, <3>3 DEF FreshInv, PendingL2
      <3>5. ~(l1Cleared[c] < announced[c])
        BY <3>1, <3>2 DEF FreshInv, PendingL1
      <3>6. QED
        BY <3>1, <3>4, <3>5 DEF TypeOK
    <2>3. l1[k] # Absent => AsNewAs(l1[k], k[2], announced)
      <3>1. CASE l1[k] # Absent
        <4>1. l1[k] \in Payloads /\ AsNewAs(l1[k], k[2], l1Cleared)
          BY <3>1 DEF TypeOK, FreshInv, L1Fresh
        <4>2. QED
          BY <2>1, <2>2, <4>1, AsNewAsWeaken DEF TypeOK
      <3>2. QED  BY <3>1
    <2>4. l2[k] # Absent => AsNewAs(l2[k], k[2], announced)
      <3>1. CASE l2[k] # Absent
        <4>1. l2[k] \in Payloads /\ AsNewAs(l2[k], k[2], l2Cleared)
          BY <3>1 DEF TypeOK, FreshInv, L2Fresh
        <4>2. QED
          BY <2>1, <2>2, <4>1, AsNewAsWeaken DEF TypeOK
      <3>2. QED  BY <3>1
    <2>5. QED  BY <2>3, <2>4
  <1>2. GuardInv => LevelsOrdered
    BY DEF GuardInv
  <1>3. QED
    BY <1>1, <1>2, FreshCorrect, GuardCorrect, TypeCorrect, PTL

-----------------------------------------------------------------------------
(* Scope isolation *)

(* What an ask past its L2 read or its search holds belongs to its key. *)
DraftsMatch == \A a \in Asks : pc[a] \in {"promote", "llm", "putL1", "putL2"} =>
    /\ draft[a].scope = key[a][2]
    /\ draft[a].about \in Similar[key[a][1]] \union {key[a][1]}
    /\ pc[a] # "promote" => draft[a].about = key[a][1]

MatchInv == AnswerMatchesKey /\ DraftsMatch

LEMMA NextDraftsMatch ==
    ASSUME TypeOK, MatchInv, [Next]_vars
    PROVE  DraftsMatch'
  <1> SUFFICES ASSUME NEW b \in Asks, pc'[b] \in {"promote", "llm", "putL1", "putL2"}
               PROVE  /\ draft'[b].scope = key'[b][2]
                      /\ draft'[b].about \in Similar[key'[b][1]] \union {key'[b][1]}
                      /\ pc'[b] # "promote" => draft'[b].about = key'[b][1]
    BY DEF DraftsMatch
  <1> DEFINE Goal == /\ draft'[b].scope = key'[b][2]
                     /\ draft'[b].about \in Similar[key'[b][1]] \union {key'[b][1]}
                     /\ pc'[b] # "promote" => draft'[b].about = key'[b][1]
  <1>1. ASSUME UNCHANGED <<pc[b], key[b], draft[b]>> PROVE Goal
    BY <1>1 DEF MatchInv, DraftsMatch
  <1>2. ASSUME NEW a \in Asks, a # b => UNCHANGED <<pc[b], key[b], draft[b]>>,
               a = b => pc'[b] \notin {"promote", "llm", "putL1", "putL2"}
        PROVE  Goal
    BY <1>1, <1>2
  <1>3. ASSUME NEW a \in Asks, SemanticHit(a) PROVE Goal
    <2>1. CASE a # b
      BY <1>1, <1>3, <2>1 DEF SemanticHit, TypeOK
    <2>2. CASE a = b
      <3>1. PICK r \in NearestRows(key[b]) : draft' = [draft EXCEPT ![b] = l2[r]]
        BY <1>3, <2>2 DEF SemanticHit
      <3>2. key[b] \in Keys /\ key' = key /\ pc'[b] = "promote"
        BY <1>3, <2>2 DEF SemanticHit, TypeOK
      <3>3. /\ r \in Keys /\ r[2] = key[b][2] /\ l2[r] # Absent
            /\ r[1] \in Similar[key[b][1]] \union {key[b][1]}
        BY <3>2, RowKeys, AbsentAssumption
      <3>4. l2[r].scope = r[2] /\ l2[r].about = r[1]
        BY <3>3 DEF MatchInv, AnswerMatchesKey
      <3>5. QED
        BY <3>1, <3>2, <3>3, <3>4 DEF TypeOK
    <2>3. QED  BY <2>1, <2>2
  <1>4. ASSUME NEW a \in Asks, Search(a) PROVE Goal
    <2>1. CASE a # b
      BY <1>1, <1>4, <2>1 DEF Search, TypeOK
    <2>2. CASE a = b
      BY <1>4, <2>2 DEF Search, TypeOK
    <2>3. QED  BY <2>1, <2>2
  <1>5. ASSUME NEW a \in Asks, PutAccepted(a) \/ PutL1(a) PROVE Goal
    <2>1. CASE a # b
      BY <1>1, <1>5, <2>1 DEF PutAccepted, PutL1, TypeOK
    <2>2. CASE a = b
      BY <1>5, <2>2 DEF PutAccepted, PutL1, TypeOK, MatchInv, DraftsMatch
    <2>3. QED  BY <2>1, <2>2
  <1>6. CASE Crash
    BY <1>6 DEF Crash
  <1>7. QED
    <2>1. CASE \E a \in Asks : LookupExactMiss(a) \/ SemanticMiss(a) \/ CaptureGeneration(a)
      BY <2>1, <1>2 DEF LookupExactMiss, SemanticMiss, CaptureGeneration, TypeOK
    <2>2. CASE \E a \in Asks : Promote(a) \/ GiveUp(a) \/ PutSkipped(a) \/ PutL2(a)
      BY <2>2, <1>2 DEF Promote, GiveUp, PutSkipped, PutL2, End, TypeOK
    <2>3. CASE \/ \E w \in Changes : \/ CommitChange(w) \/ ClearL1(w) \/ ClearL2(w)
                                     \/ InvalidationFails(w)
               \/ \E c \in Scopes : CleanUpDocument(c)
      BY <2>3, <1>1
      DEF CommitChange, ClearL1, ClearL2, InvalidationFails, CleanUpDocument, asks
    <2>4. CASE UNCHANGED vars
      BY <2>4, <1>1 DEF vars, asks
    <2>5. QED
      BY <1>3, <1>4, <1>5, <1>6, <2>1, <2>2, <2>3, <2>4 DEF Next

LEMMA NextEntriesMatch ==
    ASSUME TypeOK, MatchInv, [Next]_vars
    PROVE  AnswerMatchesKey'
  <1> USE DEF AnswerMatchesKey, MatchInv
  <1>1. CASE UNCHANGED <<l1, l2>>
    BY <1>1
  <1>2. ASSUME NEW a \in Asks, pc[a] \in {"promote", "putL1"}, StoreL1(key[a], draft[a]),
               UNCHANGED l2
        PROVE  AnswerMatchesKey'
    <2>1. key[a] \in Keys /\ draft[a].scope = key[a][2]
          /\ draft[a].about \in Similar[key[a][1]] \union {key[a][1]}
      BY <1>2 DEF TypeOK, DraftsMatch
    <2>2. ASSUME NEW j \in Keys, l1'[j] # Absent
          PROVE  l1'[j].scope = j[2] /\ l1'[j].about \in Similar[j[1]] \union {j[1]}
      BY <2>1, <2>2, <1>2, StoreL1Entries
    <2>3. QED
      BY <2>2, <1>2
  <1>3. ASSUME NEW a \in Asks, PutL2(a) PROVE AnswerMatchesKey'
    <2>1. key[a] \in Keys /\ draft[a].scope = key[a][2] /\ draft[a].about = key[a][1]
      BY <1>3 DEF PutL2, TypeOK, DraftsMatch
    <2>2. \A j \in Keys : l2'[j] = l2[j] \/ (j = key[a] /\ l2'[j] = draft[a])
      BY <1>3 DEF PutL2, TypeOK
    <2>3. QED
      BY <2>1, <2>2, <1>3 DEF PutL2
  <1>4. ASSUME NEW w \in Changes, ClearL1(w) \/ ClearL2(w) PROVE AnswerMatchesKey'
    BY <1>4 DEF ClearL1, ClearL2
  <1>5. CASE Crash
    BY <1>5 DEF Crash
  <1>6. QED
    BY <1>1, <1>2, <1>3, <1>4, <1>5
    DEF Next, LookupExactMiss, SemanticHit, SemanticMiss, Promote, CaptureGeneration,
        Search, GiveUp, PutSkipped, PutAccepted, PutL1, CommitChange, CleanUpDocument,
        InvalidationFails, vars

(* A chat only ever reads back an answer computed for its own scope, and    *)
(* promotions never carry an answer more than one similarity step.          *)
THEOREM ScopeIsolation == Spec => []AnswerMatchesKey
  <1>1. Init => MatchInv
    BY DEF Init, MatchInv, AnswerMatchesKey, DraftsMatch
  <1>2. TypeOK /\ MatchInv /\ [Next]_vars => MatchInv'
    BY NextDraftsMatch, NextEntriesMatch DEF MatchInv
  <1>3. MatchInv => AnswerMatchesKey
    BY DEF MatchInv
  <1>4. QED
    BY <1>1, <1>2, <1>3, TypeCorrect, PTL DEF Spec

-----------------------------------------------------------------------------
(* The size of L1 *)

SizeInv == IsFiniteSet(Occupied) /\ Cardinality(Occupied) <= L1Max

LEMMA StoreL1Size ==
    ASSUME TypeOK, SizeInv, NEW k \in Keys, NEW p \in Payloads, StoreL1(k, p)
    PROVE  SizeInv'
  <1>1. IsFiniteSet(Occupied) /\ Cardinality(Occupied) \in Nat /\ L1Max \in Nat \ {0}
    BY FS_CardinalityType, L1MaxAssumption DEF SizeInv
  <1>2. CASE k \in Occupied /\ l1' = [l1 EXCEPT ![k] = p]
    <2>1. Occupied' = Occupied
      BY <1>2, AbsentAssumption DEF Occupied, TypeOK
    <2>2. QED
      BY <2>1 DEF SizeInv
  <1>3. CASE /\ k \notin Occupied /\ Cardinality(Occupied) < L1Max
             /\ l1' = [l1 EXCEPT ![k] = p]
    <2>1. Occupied' = Occupied \union {k}
      BY <1>3, AbsentAssumption DEF Occupied, TypeOK
    <2>2. /\ IsFiniteSet(Occupied \union {k})
          /\ Cardinality(Occupied \union {k}) = Cardinality(Occupied) + 1
      BY <1>1, <1>3, FS_AddElement
    <2>3. QED
      BY <1>1, <1>3, <2>1, <2>2 DEF SizeInv
  <1>4. ASSUME NEW victim \in Occupied, k \notin Occupied,
               l1' = [l1 EXCEPT ![victim] = Absent, ![k] = p]
        PROVE  SizeInv'
    <2> DEFINE Rest == Occupied \ {victim}
    <2>1. Occupied' = Rest \union {k}
      BY <1>4, AbsentAssumption DEF Occupied, TypeOK
    <2>2. IsFiniteSet(Rest) /\ Cardinality(Rest) = Cardinality(Occupied) - 1
      BY <1>1, FS_RemoveElement
    <2>3. IsFiniteSet(Rest \union {k}) /\ Cardinality(Rest \union {k}) = Cardinality(Rest) + 1
      <3>1. k \notin Rest
        BY <1>4
      <3> HIDE DEF Rest
      <3>2. QED
        BY <2>2, <3>1, FS_AddElement
    <2>4. Cardinality(Rest \union {k}) <= L1Max
      <3> HIDE DEF Rest
      <3>1. QED
        BY <1>1, <2>2, <2>3 DEF SizeInv
    <2>5. QED
      BY <2>1, <2>3, <2>4 DEF SizeInv
  <1>5. QED
    BY <1>2, <1>3, <1>4 DEF StoreL1

LEMMA NextSize == TypeOK /\ SizeInv /\ [Next]_vars => SizeInv'
  <1> SUFFICES ASSUME TypeOK, SizeInv, [Next]_vars PROVE SizeInv'
    OBVIOUS
  <1>1. CASE UNCHANGED l1
    BY <1>1 DEF SizeInv, Occupied
  <1>2. ASSUME NEW a \in Asks, Promote(a) \/ PutL1(a) PROVE SizeInv'
    BY <1>2, StoreL1Size DEF Promote, PutL1, TypeOK
  <1>3. CASE Crash \/ \E w \in Changes : ClearL1(w)
    <2>1. Occupied' \subseteq Occupied
      BY <1>3 DEF Crash, ClearL1, Occupied
    <2>2. IsFiniteSet(Occupied') /\ Cardinality(Occupied') <= Cardinality(Occupied)
      BY <2>1, FS_Subset DEF SizeInv
    <2>3. QED
      BY <2>2, FS_CardinalityType, L1MaxAssumption DEF SizeInv
  <1>4. QED
    BY <1>1, <1>2, <1>3
    DEF Next, LookupExactMiss, SemanticHit, SemanticMiss, CaptureGeneration, Search,
        GiveUp, PutSkipped, PutAccepted, PutL2, CommitChange, CleanUpDocument, ClearL2,
        InvalidationFails, vars

(* L1 stays within l1_max_entries for every capacity and every set of       *)
(* threads filling it.                                                      *)
THEOREM SizeBounded == Spec => []L1Bounded
  <1>1. Init => SizeInv
    <2> SUFFICES ASSUME Init PROVE SizeInv
      OBVIOUS
    <2>1. Occupied = {}
      BY DEF Init, Occupied
    <2>2. QED
      BY <2>1, FS_EmptySet, L1MaxAssumption DEF SizeInv
  <1>2. SizeInv => L1Bounded
    BY DEF SizeInv, L1Bounded
  <1>3. QED
    BY <1>1, <1>2, NextSize, TypeCorrect, PTL DEF Spec
=============================================================================
