------------------------------- MODULE QaCache -------------------------------
(***************************************************************************)
(* The two-layer answer cache (src/services/qa_cache.py) with the two      *)
(* kinds of caller it has: questions, which look an answer up and, on a    *)
(* miss, store the answer they generated (ask_stream in chat_service.py),  *)
(* and document changes, which commit and then invalidate (add_version and *)
(* delete_document in document_service.py).  The one change that does not  *)
(* invalidate is the cleanup of an upload that could not index its first   *)
(* version (upload_new_document).                                          *)
(*                                                                         *)
(* One step is what runs without another thread in between: a region under *)
(* _l1_lock, one database statement or commit, or a stretch of the event   *)
(* loop.  put, lookup_exact and generation are called by the event loop,   *)
(* lookup_semantic and the search run on worker threads, and so do the     *)
(* document changes that come from an upload; a delete_document runs on    *)
(* the loop.                                                               *)
(*                                                                         *)
(* The documents are abstracted to a count of committed changes for each   *)
(* category; an answer remembers the counts its search saw.                *)
(***************************************************************************)
EXTENDS Naturals, FiniteSets

CONSTANTS
    Categories,   \* category ids
    NoCategory,   \* category_id None: the global scope, and shared documents
    Questions,    \* normalized questions
    Similar,      \* Similar[q]: the questions within the L2 distance threshold of q
    Asks,         \* the requests running ask_stream
    Changes,      \* the requests running add_version or delete_document
    L1Max,        \* l1_max_entries
    Contents,     \* bound of an instance: the values content may take
    Absent        \* no entry

ASSUME ScopeAssumption == NoCategory \notin Categories
ASSUME SimilarAssumption == Similar \in [Questions -> SUBSET Questions]
ASSUME L1MaxAssumption == L1Max \in Nat \ {0}

(* category_id of a chat (the scope of its searches) or of a document *)
Scopes == Categories \union {NoCategory}

(* question_key hashes the scope and the normalized question *)
Keys == Questions \X Scopes

(* An answer: the question and scope it was generated for and, for each    *)
(* category, the number of changes its search had seen.                    *)
Payloads == [about : Questions, scope : Scopes, seen : [Scopes -> Nat]]

ASSUME AbsentAssumption == Absent \notin Payloads

(* The categories whose documents a search under scope s reads. *)
Draws(s) == IF s = NoCategory THEN Scopes ELSE {s, NoCategory}

(* The scopes whose cached answers invalidate_category(c) drops. *)
Affected(c) == IF c = NoCategory THEN Scopes ELSE {c, NoCategory}

VARIABLES
    content,      \* committed changes of each category (the documents)
    l1,           \* L1: an answer or Absent for each key
    l2,           \* L2, the table qa_cache_entries
    generation,   \* the invalidation counter
    pc, key, gen, draft,    \* of each ask: its place, key, generation, answer
    cpc, cat, onLoop,       \* of each change: its place, category, thread
    announced,    \* history: the content at the last change that invalidates
    l1Cleared,    \* history: the content L1 was last invalidated for
    l2Cleared,    \* history: the same for L2
    overlapped    \* history: a cache write met an invalidation (see Meets)

asks    == <<pc, key, gen, draft>>
changes == <<cpc, cat, onLoop>>
history == <<announced, l1Cleared, l2Cleared, overlapped>>
vars == <<content, l1, l2, generation, asks, changes, history>>

AskPlaces == {"idle", "semantic", "promote", "generation", "search", "llm",
              "putL1", "putL2"}
ChangePlaces == {"idle", "clearL1", "clearL2"}

Init ==
    /\ content = [c \in Scopes |-> 0]
    /\ l1 = [k \in Keys |-> Absent]
    /\ l2 = [k \in Keys |-> Absent]
    /\ generation = 0
    /\ pc = [a \in Asks |-> "idle"]
    /\ key = [a \in Asks |-> Absent]
    /\ gen = [a \in Asks |-> 0]
    /\ draft = [a \in Asks |-> Absent]
    /\ cpc = [w \in Changes |-> "idle"]
    /\ cat = [w \in Changes |-> NoCategory]
    /\ onLoop = [w \in Changes |-> FALSE]
    /\ announced = content
    /\ l1Cleared = content
    /\ l2Cleared = content
    /\ overlapped = FALSE

-----------------------------------------------------------------------------
(* Helpers *)

(* put and delete_document never await, so while one of them is under way  *)
(* the event loop runs nothing else; worker threads still run.             *)
LoopFree ==
    /\ \A a \in Asks : pc[a] \notin {"putL1", "putL2"}
    /\ \A w \in Changes : onLoop[w] => cpc[w] = "idle"

Occupied == {k \in Keys : l1[k] # Absent}

(* variant of StoreL1: the test for a full L1 is off by one *)
StoreL1OffByOne(k, p) ==
    \/ /\ k \in Occupied \/ Cardinality(Occupied) <= L1Max
       /\ l1' = [l1 EXCEPT ![k] = p]
    \/ /\ k \notin Occupied /\ Cardinality(Occupied) > L1Max
       /\ \E victim \in Occupied :
            l1' = [l1 EXCEPT ![victim] = Absent, ![k] = p]

(* _put_l1: overwrite, or insert after evicting one entry when L1 is full.  *)
(* The victim is the least-frequently-used entry; which one that is depends *)
(* on hit counts left out here, so any entry may be the victim.             *)
StoreL1(k, p) ==
    \/ /\ k \in Occupied \/ Cardinality(Occupied) < L1Max
       /\ l1' = [l1 EXCEPT ![k] = p]
    \/ /\ k \notin Occupied /\ Cardinality(Occupied) >= L1Max
       /\ \E victim \in Occupied :
            l1' = [l1 EXCEPT ![victim] = Absent, ![k] = p]

(* variant of NearestRows: no test that a row was found *)
NearestRowsUnchecked(k) == {k}

(* The row the nearest-neighbour query returns, if its distance is within   *)
(* the threshold: the question itself, else one of the similar ones.        *)
NearestRows(k) ==
    IF l2[k] # Absent THEN {k}
    ELSE {r \in Similar[k[1]] \X {k[2]} : l2[r] # Absent}

(* The invalidation of change w touches the scope of ask a. *)
Touches(w, a) == pc[a] # "idle" /\ key[a][2] \in Affected(cat[w])

(* The request of ask a is over: its local variables are gone. *)
End(a) ==
    /\ pc' = [pc EXCEPT ![a] = "idle"]
    /\ key' = [key EXCEPT ![a] = Absent]
    /\ gen' = [gen EXCEPT ![a] = 0]
    /\ draft' = [draft EXCEPT ![a] = Absent]

(* The request of change w is over. *)
EndChange(w) ==
    /\ cpc' = [cpc EXCEPT ![w] = "idle"]
    /\ cat' = [cat EXCEPT ![w] = NoCategory]
    /\ onLoop' = [onLoop EXCEPT ![w] = FALSE]

(* History: the overlaps of a cache write with an invalidation.  Change w   *)
(* clears L1 while an ask is between its check (or its L2 read) and its     *)
(* write; or an ask reads L2 while an invalidation of it is under way.      *)
MeetsWrite(w) == \E a \in Asks :
    pc[a] \in {"promote", "putL1", "putL2"} /\ Touches(w, a)
MeetsInvalidation(a) == \E w \in Changes : cpc[w] # "idle" /\ Touches(w, a)

(* The categories every cached reader of which invalidate_category(c) drops *)
Covered(c) == IF c = NoCategory THEN Scopes ELSE {c}

-----------------------------------------------------------------------------
(* Questions *)

(* lookup_exact misses; the question is embedded. *)
LookupExactMiss(a) ==
    /\ LoopFree
    /\ pc[a] = "idle"
    /\ \E k \in Keys \ Occupied : key' = [key EXCEPT ![a] = k]
    /\ pc' = [pc EXCEPT ![a] = "semantic"]
    /\ UNCHANGED <<content, l1, l2, generation, gen, draft, changes, history>>

(* lookup_semantic finds a row; its session is closed before _put_l1. *)
SemanticHit(a) ==
    /\ pc[a] = "semantic"
    /\ \E r \in NearestRows(key[a]) : draft' = [draft EXCEPT ![a] = l2[r]]
    /\ pc' = [pc EXCEPT ![a] = "promote"]
    /\ overlapped' = (overlapped \/ MeetsInvalidation(a))
    /\ UNCHANGED <<content, l1, l2, generation, key, gen, changes,
                   announced, l1Cleared, l2Cleared>>

(* No row within the threshold, or the query failed (swallowed). *)
SemanticMiss(a) ==
    /\ pc[a] = "semantic"
    /\ pc' = [pc EXCEPT ![a] = "generation"]
    /\ UNCHANGED <<content, l1, l2, generation, key, gen, draft, changes, history>>

(* variant of Promote: the similar answer is stored in L2 as well *)
PromoteToBothLayers(a) ==
    /\ pc[a] = "promote"
    /\ StoreL1(key[a], draft[a])
    /\ l2' = [l2 EXCEPT ![key[a]] = draft[a]]
    /\ End(a)
    /\ UNCHANGED <<content, generation, changes, history>>

(* lookup_semantic copies the row's payload to L1 and the answer is served. *)
Promote(a) ==
    /\ pc[a] = "promote"
    /\ StoreL1(key[a], draft[a])
    /\ End(a)
    /\ UNCHANGED <<content, l2, generation, changes, history>>

(* cache_generation is captured before the search. *)
CaptureGeneration(a) ==
    /\ LoopFree
    /\ pc[a] = "generation"
    /\ gen' = [gen EXCEPT ![a] = generation]
    /\ pc' = [pc EXCEPT ![a] = "search"]
    /\ UNCHANGED <<content, l1, l2, generation, key, draft, changes, history>>

(* The search reads the chunks the answer will be built from. *)
Search(a) ==
    /\ pc[a] = "search"
    /\ LET s == key[a][2]
           counts == [c \in Scopes |-> IF c \in Draws(s) THEN content[c] ELSE 0]
       IN draft' = [draft EXCEPT ![a] =
                      [about |-> key[a][1], scope |-> s, seen |-> counts]]
    /\ pc' = [pc EXCEPT ![a] = "llm"]
    /\ UNCHANGED <<content, l1, l2, generation, key, gen, changes, history>>

(* No answer worth caching: nothing found, no citation passed the gate, the *)
(* LLM failed, or the client left.                                          *)
GiveUp(a) ==
    /\ pc[a] \in {"generation", "search", "llm"}
    /\ End(a)
    /\ UNCHANGED <<content, l1, l2, generation, changes, history>>

(* put skips the write when the generation moved since it was captured. *)
PutSkipped(a) ==
    /\ LoopFree
    /\ pc[a] = "llm"
    /\ gen[a] # generation
    /\ End(a)
    /\ UNCHANGED <<content, l1, l2, generation, changes, history>>

(* variant of PutAccepted: the captured generation is not compared *)
PutUnguarded(a) ==
    /\ LoopFree
    /\ pc[a] = "llm"
    /\ pc' = [pc EXCEPT ![a] = "putL1"]
    /\ UNCHANGED <<content, l1, l2, generation, key, gen, draft, changes, history>>

(* put's check passes; the lock is released before the writes. *)
PutAccepted(a) ==
    /\ LoopFree
    /\ pc[a] = "llm"
    /\ gen[a] = generation
    /\ pc' = [pc EXCEPT ![a] = "putL1"]
    /\ UNCHANGED <<content, l1, l2, generation, key, gen, draft, changes, history>>

PutL1(a) ==
    /\ pc[a] = "putL1"
    /\ StoreL1(key[a], draft[a])
    /\ pc' = [pc EXCEPT ![a] = "putL2"]
    /\ UNCHANGED <<content, l2, generation, key, gen, draft, changes, history>>

(* The upsert of L2 commits, or fails and is swallowed. *)
PutL2(a) ==
    /\ pc[a] = "putL2"
    /\ \/ l2' = [l2 EXCEPT ![key[a]] = draft[a]]
       \/ UNCHANGED l2
    /\ End(a)
    /\ UNCHANGED <<content, l1, generation, changes, history>>

-----------------------------------------------------------------------------
(* Document changes *)

(* A version is added, or a document deleted, in one transaction. *)
CommitChange(w) ==
    /\ cpc[w] = "idle"
    /\ \E c \in Scopes, loop \in BOOLEAN :
         /\ loop => LoopFree
         /\ content' = [content EXCEPT ![c] = @ + 1]
         /\ content' \in Contents
         /\ announced' = [announced EXCEPT ![c] = content[c] + 1]
         /\ cat' = [cat EXCEPT ![w] = c]
         /\ onLoop' = [onLoop EXCEPT ![w] = loop]
    /\ cpc' = [cpc EXCEPT ![w] = "clearL1"]
    /\ UNCHANGED <<l1, l2, generation, asks, l1Cleared, l2Cleared, overlapped>>

(* The creator of a document failed to index its version and deletes the    *)
(* document, with the versions others have added since, on its worker       *)
(* thread.  The cleanup ends there: no layer is invalidated.                *)
CleanUpDocument(c) ==
    /\ content' = [content EXCEPT ![c] = @ + 1]
    /\ content' \in Contents
    /\ UNCHANGED <<l1, l2, generation, asks, changes, history>>

(* variant of ClearL1: the generation stays *)
ClearL1SameGeneration(w) ==
    /\ cpc[w] = "clearL1"
    /\ l1' = [k \in Keys |-> IF k[2] \in Affected(cat[w]) THEN Absent ELSE l1[k]]
    /\ cpc' = [cpc EXCEPT ![w] = "clearL2"]
    /\ l1Cleared' = [c \in Scopes |->
                       IF c \in Covered(cat[w]) THEN content[c] ELSE l1Cleared[c]]
    /\ overlapped' = (overlapped \/ MeetsWrite(w))
    /\ UNCHANGED <<content, l2, generation, asks, cat, onLoop, announced, l2Cleared>>

(* invalidate_category under the lock: drop the affected entries of L1 and  *)
(* bump the generation.                                                     *)
ClearL1(w) ==
    /\ cpc[w] = "clearL1"
    /\ l1' = [k \in Keys |-> IF k[2] \in Affected(cat[w]) THEN Absent ELSE l1[k]]
    /\ generation' = generation + 1
    /\ cpc' = [cpc EXCEPT ![w] = "clearL2"]
    /\ l1Cleared' = [c \in Scopes |->
                       IF c \in Covered(cat[w]) THEN content[c] ELSE l1Cleared[c]]
    /\ overlapped' = (overlapped \/ MeetsWrite(w))
    /\ UNCHANGED <<content, l2, asks, cat, onLoop, announced, l2Cleared>>

(* ... then delete the affected rows of L2 in a transaction of their own. *)
ClearL2(w) ==
    /\ cpc[w] = "clearL2"
    /\ l2' = [k \in Keys |-> IF k[2] \in Affected(cat[w]) THEN Absent ELSE l2[k]]
    /\ EndChange(w)
    /\ l2Cleared' = [c \in Scopes |->
                       IF c \in Covered(cat[w]) THEN l1Cleared[c] ELSE l2Cleared[c]]
    /\ UNCHANGED <<content, l1, generation, asks, announced, l1Cleared, overlapped>>

(* The delete of L2's rows fails and is swallowed; or add_version's reload   *)
(* of doc.category_id, expired by its commit, fails and no layer is cleared. *)
InvalidationFails(w) ==
    /\ \/ cpc[w] = "clearL2"
       \/ cpc[w] = "clearL1" /\ ~onLoop[w]
    /\ EndChange(w)
    /\ overlapped' = TRUE
    /\ UNCHANGED <<content, l1, l2, generation, asks, announced, l1Cleared, l2Cleared>>

(* The process restarts: L1 and every request in flight are gone. *)
Crash ==
    /\ l1' = [k \in Keys |-> Absent]
    /\ generation' = 0
    /\ pc' = [a \in Asks |-> "idle"]
    /\ key' = [a \in Asks |-> Absent]
    /\ gen' = [a \in Asks |-> 0]
    /\ draft' = [a \in Asks |-> Absent]
    /\ cpc' = [w \in Changes |-> "idle"]
    /\ cat' = [w \in Changes |-> NoCategory]
    /\ onLoop' = [w \in Changes |-> FALSE]
    /\ overlapped' = (overlapped \/ \E w \in Changes : cpc[w] # "idle")
    /\ UNCHANGED <<content, l2, announced, l1Cleared, l2Cleared>>

Next ==
    \/ \E a \in Asks :
         \/ LookupExactMiss(a) \/ SemanticHit(a) \/ SemanticMiss(a)
         \/ Promote(a) \/ CaptureGeneration(a) \/ Search(a) \/ GiveUp(a)
         \/ PutSkipped(a) \/ PutAccepted(a) \/ PutL1(a) \/ PutL2(a)
    \/ \E w \in Changes :
         \/ CommitChange(w) \/ ClearL1(w) \/ ClearL2(w) \/ InvalidationFails(w)
    \/ \E c \in Scopes : CleanUpDocument(c)
    \/ Crash

Spec == Init /\ [][Next]_vars

-----------------------------------------------------------------------------
(* Properties *)

(* Every variable has its type; an ask that is about to write holds an      *)
(* answer.                                                                  *)
TypeOK ==
    /\ content \in [Scopes -> Nat]
    /\ l1 \in [Keys -> Payloads \union {Absent}]
    /\ l2 \in [Keys -> Payloads \union {Absent}]
    /\ generation \in Nat
    /\ pc \in [Asks -> AskPlaces]
    /\ key \in [Asks -> Keys \union {Absent}]
    /\ gen \in [Asks -> Nat]
    /\ draft \in [Asks -> Payloads \union {Absent}]
    /\ \A a \in Asks :
         /\ pc[a] # "idle" => key[a] \in Keys
         /\ pc[a] \in {"promote", "llm", "putL1", "putL2"} => draft[a] \in Payloads
    /\ cpc \in [Changes -> ChangePlaces]
    /\ cat \in [Changes -> Scopes]
    /\ onLoop \in [Changes -> BOOLEAN]
    /\ announced \in [Scopes -> Nat]
    /\ l1Cleared \in [Scopes -> Nat]
    /\ l2Cleared \in [Scopes -> Nat]
    /\ overlapped \in BOOLEAN

(* L1 never holds more than l1_max_entries answers, whichever of put and    *)
(* the promotions of several threads filled it (_put_l1).                   *)
L1Bounded == Cardinality(Occupied) <= L1Max

(* p reflects every change counted in level, of the categories scope s reads *)
AsNewAs(p, s, level) == \A c \in Draws(s) : p.seen[c] >= level[c]

(* An answer is only ever read back under the scope it was computed for,    *)
(* and, however often answers move between L2 and L1, for a question within *)
(* one similarity step of its own (question_key, lookup_semantic).          *)
AnswerMatchesKey ==
    /\ \A k \in Keys : l1[k] # Absent =>
         l1[k].scope = k[2] /\ l1[k].about \in Similar[k[1]] \union {k[1]}
    /\ \A k \in Keys : l2[k] # Absent => l2[k].scope = k[2] /\ l2[k].about = k[1]

(* The generation protocol (generation, put): an answer whose generation is *)
(* still current was searched after every invalidation L1 has seen.         *)
GenerationGuardsSearch ==
    \A a \in Asks : pc[a] = "llm" /\ gen[a] = generation =>
        AsNewAs(draft[a], key[a][2], l1Cleared)

(* Unless a cache write met an invalidation, or an invalidation was cut     *)
(* short by a failure or a restart, an answer in either layer reflects, of  *)
(* every category it draws on, the last added version or deletion whose     *)
(* request is over, and all that was committed before it.  (Only the        *)
(* cleanups of failed uploads since then may be missing: they do not        *)
(* invalidate, and what they deleted may still be answered from.)           *)
Settled(s) == \A w \in Changes : cpc[w] # "idle" => s \notin Affected(cat[w])
FreshUnlessOverlapped ==
    ~overlapped => \A k \in Keys : Settled(k[2]) =>
        /\ l1[k] # Absent => AsNewAs(l1[k], k[2], announced)
        /\ l2[k] # Absent => AsNewAs(l2[k], k[2], announced)

(* "an answer built from pre-invalidation content is discarded instead of   *)
(* resurrecting stale data in the cache" (generation's docstring), for what *)
(* put leaves in L2.                                                        *)
PutNeverResurrects ==
    \A k \in Keys : l2[k] # Absent => AsNewAs(l2[k], k[2], l2Cleared)
=============================================================================
