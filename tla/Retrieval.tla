------------------------------ MODULE Retrieval ------------------------------
(***************************************************************************)
(* What a question is answered from: the hybrid search                     *)
(* (vector_index_service.search) and the citations the model makes of what *)
(* it found (chat_service._build_and_persist_citations), while documents   *)
(* get new versions and are deleted.                                       *)
(*                                                                         *)
(* The search is three statements at READ COMMITTED: two rank chunks, by   *)
(* meaning and by words, the third reads the chunks ranked best by both.   *)
(* New versions and deletions are the atomic steps KnowledgeBase           *)
(* implements (VersionStore).  Distances and text ranks are data: a        *)
(* statement may rank what it sees in any order.                           *)
(***************************************************************************)
EXTENDS Integers, Sequences, FiniteSets, Functions

CONSTANTS
    Docs, Categories,
    None,         \* no category, no version, not a number
    MaxVersions,  \* bound: versions of a document
    PerVersion,   \* chunks of a version
    N,            \* n_results
    K,            \* HYBRID_CANDIDATE_K
    RRF_K,
    Confidences,  \* what a model may answer, in tenths, or None
    MinConfidence \* MIN_CITATION_CONFIDENCE

ASSUME DocsAssumption == IsFiniteSet(Docs)
ASSUME NoneAssumption == None \notin Categories \union Int
ASSUME NumbersAssumption ==
    /\ MaxVersions \in Nat /\ PerVersion \in Nat
    /\ N \in Nat /\ K \in Nat /\ RRF_K \in Nat
ASSUME ConfidenceAssumption ==
    Confidences \subseteq Int \union {None} /\ MinConfidence \in 0..10

Chunks == Docs \X (1..MaxVersions) \X (1..PerVersion)

VARIABLES
    latest,       \* latest[d]: the number of d's latest version, 0 before one
    deleted,      \* documents that were deleted
    category,     \* category[d]: of the document and its chunks
    pc,
    scope,        \* the category searched in, or None
    semantic, words,    \* the rows of the two ranking statements, best first
    contexts,     \* the chunks found, best first
    citations,    \* evidence_citations
    touched       \* history: documents changed since the first statement

store == <<latest, deleted, category>>
search == <<scope, semantic, words>>
vars == <<store, search, pc, contexts, citations, touched>>

Init ==
    /\ latest \in [Docs -> {0, 1} \intersect 0..MaxVersions]
    /\ deleted = {}
    /\ category \in [Docs -> Categories \union {None}]
    /\ scope \in Categories \union {None}
    /\ pc = "start"
    /\ semantic = <<>> /\ words = <<>> /\ contexts = <<>>
    /\ citations = {}
    /\ touched = {}

-----------------------------------------------------------------------------
(* Helpers *)

Least(a, b) == IF a <= b THEN a ELSE b

(* The chunks with is_latest *)
Latest == {c \in Chunks : c[1] \notin deleted /\ c[2] = latest[c[1]]}

(* _scope: chunks of the category, and those of none *)
InScope(c) == scope = None \/ category[c[1]] \in {scope, None}
Visible == {c \in Latest : InScope(c)}

(* The ways to rank k of the rows of a set *)
Rankings(S, k) == {s \in [1..k -> S] : IsInjective(s)}

(* The ids the dictionary of scores holds, and the order it got them in *)
Candidates == Range(semantic) \union Range(words)
RankIn(s, c) == CHOOSE i \in DOMAIN s : s[i] = c
AddedBefore(c, e) ==
    IF c \in Range(semantic)
    THEN e \notin Range(semantic) \/ RankIn(semantic, c) < RankIn(semantic, e)
    ELSE e \notin Range(semantic) /\ RankIn(words, c) < RankIn(words, e)

(* variant of Score: the rank by words replaces the one by meaning *)
ScoreReplaced(c) ==
    LET a == RRF_K + RankIn(semantic, c)
        b == RRF_K + RankIn(words, c)
    IN IF c \in Range(words) THEN <<1, b>> ELSE <<1, a>>

(* The score of an id, a fraction: the sum of 1 / (RRF_K + rank), with ranks *)
(* from 1.                                                                   *)
Score(c) ==
    LET a == RRF_K + RankIn(semantic, c)
        b == RRF_K + RankIn(words, c)
    IN IF c \notin Range(words) THEN <<1, a>>
       ELSE IF c \notin Range(semantic) THEN <<1, b>>
       ELSE <<a + b, a * b>>

(* The sort by score is stable. *)
Ahead(c, e) ==
    LET x == Score(c)
        y == Score(e)
    IN \/ x[1] * y[2] > y[1] * x[2]
       \/ x[1] * y[2] = y[1] * x[2] /\ AddedBefore(c, e)

(* top_ids, as a set *)
TopIds == {c \in Candidates : Cardinality({e \in Candidates : Ahead(e, c)}) < N}

(* The rows of some of the ids, in the order of the sort *)
Sorted(S) ==
    {s \in Rankings(S, Cardinality(S)) : \A j \in DOMAIN s : \A i \in 1..(j - 1) : Ahead(s[i], s[j])}

(* variant of FindVersion: the latest one *)
LatestVersion(d, n) == latest[d]

(* find_version of a document that exists *)
FindVersion(d, n) == IF n \in 1..latest[d] THEN n ELSE None

(* _clamp_confidence *)
Clamp(x) == IF x = None THEN None ELSE IF x < 0 THEN 0 ELSE Least(x, 10)

-----------------------------------------------------------------------------
(* The search *)

(* A blank query finds nothing; a query without an embedding is embedded    *)
(* first, which may fail (Fail).  Databases other than PostgreSQL search by *)
(* meaning only.                                                            *)
Start ==
    /\ pc = "start"
    /\ pc' \in {"done", "by_meaning", "semantic"}
    /\ UNCHANGED <<store, search, contexts, citations, touched>>

(* _search_semantic: one statement *)
SearchSemantic ==
    /\ pc = "by_meaning"
    /\ contexts' \in Rankings(Visible, Least(N, Cardinality(Visible)))
    /\ pc' = "cite"
    /\ UNCHANGED <<store, search, citations, touched>>

(* variant of RankByMeaning: no more rows than results *)
RankByMeaningFew ==
    /\ pc = "semantic"
    /\ semantic' \in Rankings(Visible, Least(N, Cardinality(Visible)))
    /\ touched' = {}
    /\ pc' = "words"
    /\ UNCHANGED <<store, scope, words, contexts, citations>>

(* The first statement of _search_hybrid *)
RankByMeaning ==
    /\ pc = "semantic"
    /\ semantic' \in Rankings(Visible, Least(K, Cardinality(Visible)))
    /\ touched' = {}
    /\ pc' = "words"
    /\ UNCHANGED <<store, scope, words, contexts, citations>>

(* The second, of the rows that have one of the words; none if the query    *)
(* has no word of two letters.                                              *)
RankByWords ==
    /\ pc = "words"
    /\ \E k \in 0..Least(K, Cardinality(Visible)) : words' \in Rankings(Visible, k)
    /\ pc' = "read"
    /\ UNCHANGED <<store, scope, semantic, contexts, citations, touched>>

(* variant of ReadRows: any row with such an id *)
ReadRowsOfAnyVersion ==
    /\ pc = "read"
    /\ contexts' \in Sorted({c \in TopIds : c[1] \notin deleted})
    /\ pc' = "cite"
    /\ UNCHANGED <<store, search, citations, touched>>

(* The third: what is no longer a latest chunk is left out. *)
ReadRows ==
    /\ pc = "read"
    /\ contexts' \in Sorted(TopIds \intersect Latest)
    /\ pc' = "cite"
    /\ UNCHANGED <<store, search, citations, touched>>

-----------------------------------------------------------------------------
(* The citations, in one transaction *)

Citation(i, confidence) ==
    [index |-> i, chunk |-> contexts[i],
     version |-> FindVersion(contexts[i][1], contexts[i][2]),
     confidence |-> confidence]

Seen == {c.index : c \in citations}

(* A citation the model makes; the others, of no context or one that was    *)
(* cited, of low or no confidence, or of a document that is gone, are       *)
(* passed over.                                                             *)
Cite ==
    /\ pc = "cite"
    /\ \E i \in DOMAIN contexts \ Seen, x \in Confidences :
         /\ Clamp(x) # None /\ Clamp(x) >= MinConfidence
         /\ contexts[i][1] \notin deleted
         /\ citations' = citations \union {Citation(i, Clamp(x))}
    /\ UNCHANGED <<store, search, pc, contexts, touched>>

EndCitations ==
    /\ pc = "cite"
    /\ pc' = "done"
    /\ UNCHANGED <<store, search, contexts, citations, touched>>

(* A statement fails, be it for a document deleted since it was looked up. *)
Fail ==
    /\ pc \notin {"done", "failed"}
    /\ pc' = "failed"
    /\ citations' = {}
    /\ UNCHANGED <<store, search, contexts, touched>>

-----------------------------------------------------------------------------
(* Beside it *)

AddVersion(d) ==
    /\ d \notin deleted /\ latest[d] < MaxVersions
    /\ latest' = [latest EXCEPT ![d] = @ + 1]
    /\ touched' = touched \union {d}
    /\ UNCHANGED <<deleted, category, search, pc, contexts, citations>>

(* variant of DeleteDocument: the citations stay *)
DeleteDocumentAlone(d) ==
    /\ d \notin deleted
    /\ ~(pc = "cite" /\ \E c \in citations : c.chunk[1] = d)
    /\ deleted' = deleted \union {d}
    /\ touched' = touched \union {d}
    /\ UNCHANGED <<latest, category, search, pc, contexts, citations>>

(* It waits for a transaction that cites the document, and takes the        *)
(* document's citations with it.                                            *)
DeleteDocument(d) ==
    /\ d \notin deleted
    /\ ~(pc = "cite" /\ \E c \in citations : c.chunk[1] = d)
    /\ deleted' = deleted \union {d}
    /\ citations' = {c \in citations : c.chunk[1] # d}
    /\ touched' = touched \union {d}
    /\ UNCHANGED <<latest, category, search, pc, contexts>>

Next ==
    \/ Start \/ SearchSemantic
    \/ RankByMeaning \/ RankByWords \/ ReadRows
    \/ Cite \/ EndCitations \/ Fail
    \/ \E d \in Docs : AddVersion(d) \/ DeleteDocument(d)

Spec == Init /\ [][Next]_vars

-----------------------------------------------------------------------------
(* Properties *)

Places == {"start", "by_meaning", "semantic", "words", "read", "cite", "done", "failed"}
Citations == [index : Nat, chunk : Chunks, version : Nat \union {None},
              confidence : Int]

(* Every variable has its type, and a citation is of a document that exists. *)
TypeOK ==
    /\ latest \in [Docs -> 0..MaxVersions]
    /\ deleted \subseteq Docs /\ touched \subseteq Docs
    /\ category \in [Docs -> Categories \union {None}]
    /\ scope \in Categories \union {None}
    /\ pc \in Places
    /\ semantic \in Seq(Chunks) /\ words \in Seq(Chunks) /\ contexts \in Seq(Chunks)
    /\ citations \subseteq Citations
    /\ \A c \in citations : c.chunk[1] \notin deleted

(* Whatever changes between the statements, the model is given no two        *)
(* versions of one document to answer from, and nothing from outside the     *)
(* searched category, which the third statement does not look at             *)
(* (_scope, _search_hybrid).                                                 *)
ContextsCoherent ==
    /\ \A i, j \in DOMAIN contexts :
         contexts[i][1] = contexts[j][1] => contexts[i][2] = contexts[j][2]
    /\ \A i \in DOMAIN contexts : InScope(contexts[i])

(* A chunk that every statement which ranks another one ranks above it is   *)
(* found if the other is, and before it, unless it was replaced             *)
(* (_search_hybrid: the fusion of ranks).                                   *)
AboveIn(s, a, b) == \E i, j \in DOMAIN s : i < j /\ s[i] = a /\ s[j] = b
RankedAbove(a, b) ==
    /\ b \in Range(semantic) => AboveIn(semantic, a, b)
    /\ b \in Range(words) => AboveIn(words, a, b)
FusionRespectsRanks ==
    [][pc = "read" /\ pc' = "cite" =>
        \A j \in DOMAIN (contexts') : \A a \in Latest :
            RankedAbove(a, contexts'[j]) => \E i \in 1..(j - 1) : contexts'[i] = a]_vars

(* A chunk of a document nobody changed during the search is missing only   *)
(* because there are more candidates than results, or more chunks than the  *)
(* ranking by meaning considers (_search_hybrid).                           *)
UnchangedFound ==
    [][pc = "read" /\ pc' = "cite" =>
        \A c \in Visible :
            c[1] \notin touched /\ c \notin Range(contexts') =>
                \/ Cardinality(Candidates) > N
                \/ Len(semantic) = K /\ c \notin Range(semantic)]_vars

(* What is stored of a citation is the version its excerpt is from, whatever *)
(* versions came since the search; no context is cited twice, and none with *)
(* a confidence out of bounds (_persist_citation_by_context,                *)
(* _build_and_persist_citations).                                           *)
CitedAsFound ==
    /\ \A c \in citations :
         /\ c.index \in DOMAIN contexts
         /\ c.chunk = contexts[c.index] /\ c.version = c.chunk[2]
         /\ c.confidence \in MinConfidence..10
    /\ \A c, e \in citations : c.index = e.index => c = e
=============================================================================
