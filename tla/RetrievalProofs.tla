---------------------------- MODULE RetrievalProofs ----------------------------
(***************************************************************************)
(* Proofs about Retrieval for any finite number of documents, versions and *)
(* chunks, any numbers of results and candidates, and any answers of the   *)
(* model.                                                                  *)
(*                                                                         *)
(* What a statement ranked stays in scope, and a context stays a version   *)
(* of its document, whatever is committed later; a chunk nobody touched is *)
(* ranked by the first statement or crowded out of it.  Fused scores are   *)
(* compared as fractions: a chunk with better ranks has the better score,  *)
(* and whatever is better than one of the best is one of the best.         *)
(***************************************************************************)
EXTENDS Retrieval, FiniteSetTheorems, TLAPS

-----------------------------------------------------------------------------
(* The inductive invariant *)

RankedInScope == \A c \in Candidates : InScope(c)
RankedOnce == IsInjective(semantic) /\ IsInjective(words)

ContextsKnown ==
    \A i \in DOMAIN contexts : contexts[i][2] \in 1..latest[contexts[i][1]]

Uncited == pc \in {"start", "by_meaning", "semantic", "words", "read"} => citations = {}

UnchangedRanked ==
    pc \in {"words", "read"} =>
        \A c \in Visible :
            c[1] \notin touched /\ c \notin Range(semantic) => Len(semantic) = K

Inv == /\ TypeOK /\ RankedInScope /\ RankedOnce /\ ContextsCoherent /\ ContextsKnown
       /\ Uncited /\ CitedAsFound /\ UnchangedRanked

-----------------------------------------------------------------------------
(* Rankings *)

LEMMA FiniteChunks == IsFiniteSet(Chunks)
<1>1. IsFiniteSet(1..MaxVersions) /\ IsFiniteSet(1..PerVersion)
    BY FS_Interval, NumbersAssumption
<1> DEFINE Pairs == Docs \X ((1..MaxVersions) \X (1..PerVersion))
           nest == [c \in Chunks |-> <<c[1], <<c[2], c[3]>>>>]
<1>2. IsFiniteSet(Pairs)
    BY <1>1, FS_Product, DocsAssumption
<1>3. nest \in Injection(Chunks, Pairs)
    BY DEF Injection, IsInjective, Chunks
<1> HIDE DEF Pairs, nest
<1> QED BY <1>2, <1>3, FS_Injection

LEMMA SomeFinite ==
    ASSUME NEW S \in SUBSET Chunks
    PROVE  IsFiniteSet(S) /\ Cardinality(S) \in Nat
BY FiniteChunks, FS_Subset, FS_CardinalityType

LEMMA Ranking ==
    ASSUME NEW S \in SUBSET Chunks, NEW k \in Nat, NEW s \in Rankings(S, k)
    PROVE  /\ s \in Seq(Chunks) /\ Len(s) = k
           /\ DOMAIN s = 1..k /\ IsInjective(s)
           /\ \A i \in DOMAIN s : s[i] \in S
           /\ Range(s) \subseteq S
BY DEF Rankings, Range

(* A ranking of as many rows as there are is of all of them. *)
LEMMA RankingOfAll ==
    ASSUME NEW S \in SUBSET Chunks, NEW s \in Rankings(S, Cardinality(S))
    PROVE  Range(s) = S
<1> DEFINE n == Cardinality(S)
<1>1. n \in Nat /\ IsFiniteSet(S)
    BY SomeFinite
<1>2. s \in Injection(1..n, S)
    BY DEF Rankings, Injection
<1>3. Cardinality(1..n) = n
    BY <1>1, FS_Interval
<1>4. s \in Surjection(1..n, S)
    BY <1>1, <1>2, <1>3, FS_Injection
<1> QED BY <1>4 DEF Surjection, Range

LEMMA LeastNat ==
    ASSUME NEW a \in Nat, NEW b \in Nat
    PROVE  Least(a, b) \in Nat /\ Least(a, b) <= a /\ Least(a, b) <= b
BY DEF Least

LEMMA VisibleChunks == Visible \subseteq Chunks
BY DEF Visible, Latest

-----------------------------------------------------------------------------
(* One lemma per action *)

LEMMA InitInv == Init => Inv
<1> SUFFICES ASSUME Init PROVE Inv
    OBVIOUS
<1>1. TypeOK
    BY NumbersAssumption DEF Init, TypeOK, Places
<1>2. RankedInScope /\ RankedOnce /\ ContextsCoherent /\ ContextsKnown
    BY DEF Init, RankedInScope, RankedOnce, IsInjective, Candidates, Range, ContextsCoherent, ContextsKnown
<1>3. Uncited /\ CitedAsFound /\ UnchangedRanked
    BY DEF Init, Uncited, CitedAsFound, UnchangedRanked
<1> QED BY <1>1, <1>2, <1>3 DEF Inv

(* A step that leaves the store, the rankings, contexts and citations alone *)
LEMMA MoveInv ==
    ASSUME Inv, UNCHANGED <<store, search, contexts, citations, touched>>,
           pc' \in Places, pc' \notin {"words", "read"},
           pc' \in {"start", "by_meaning", "semantic"} => citations = {}
    PROVE  Inv'
<1>1. TypeOK'
    BY DEF Inv, TypeOK, store, search, Places
<1>2. RankedInScope' /\ RankedOnce'
    BY DEF Inv, RankedInScope, RankedOnce, Candidates, InScope, store, search
<1>3. ContextsCoherent' /\ ContextsKnown'
    BY DEF Inv, ContextsCoherent, ContextsKnown, InScope, store, search
<1>4. Uncited' /\ CitedAsFound' /\ UnchangedRanked'
    BY DEF Inv, Uncited, CitedAsFound, UnchangedRanked, search
<1> QED BY <1>1, <1>2, <1>3, <1>4 DEF Inv

LEMMA StartInv == Inv /\ Start => Inv'
BY MoveInv DEF Start, Inv, Uncited, Places

LEMMA EndCitationsInv == Inv /\ EndCitations => Inv'
BY MoveInv DEF EndCitations, Places

(* What was read of the latest chunks in scope is coherent. *)
LEMMA ReadInv ==
    ASSUME Inv, UNCHANGED <<store, search, citations, touched>>,
           pc \in {"by_meaning", "read"}, pc' = "cite",
           NEW T \in SUBSET Latest, \A c \in T : InScope(c),
           contexts' \in Rankings(T, Cardinality(T)) \/
             (\E k \in Nat : contexts' \in Rankings(T, k))
    PROVE  Inv'
<1>1. T \in SUBSET Chunks
    BY DEF Latest
<1>2. PICK k \in Nat : contexts' \in Rankings(T, k)
    BY <1>1, SomeFinite
<1>3. /\ contexts' \in Seq(Chunks)
      /\ \A i \in DOMAIN contexts' : contexts'[i] \in T
    BY <1>1, <1>2, Ranking
<1>4. citations' = {}
    BY DEF Inv, Uncited
<1>5. TypeOK'
    BY <1>3, <1>4 DEF Inv, TypeOK, store, search, Places
<1>6. RankedInScope' /\ RankedOnce'
    BY DEF Inv, RankedInScope, RankedOnce, Candidates, InScope, store, search
<1>7. \A i \in DOMAIN contexts' :
        /\ contexts'[i][2] = latest[contexts'[i][1]]
        /\ contexts'[i][2] \in 1..MaxVersions
        /\ InScope(contexts'[i])
    BY <1>3 DEF Latest, Chunks
<1>8. ContextsCoherent'
    BY <1>7 DEF ContextsCoherent, InScope, store, search
<1>9. ContextsKnown'
    BY <1>7, NumbersAssumption DEF ContextsKnown, store
<1>10. Uncited' /\ CitedAsFound' /\ UnchangedRanked'
    BY <1>4 DEF Uncited, CitedAsFound, UnchangedRanked
<1> QED BY <1>5, <1>6, <1>8, <1>9, <1>10 DEF Inv

LEMMA SearchSemanticInv == Inv /\ SearchSemantic => Inv'
<1> SUFFICES ASSUME Inv, SearchSemantic PROVE Inv'
    OBVIOUS
<1> DEFINE k == Least(N, Cardinality(Visible))
<1>1. k \in Nat
    BY VisibleChunks, SomeFinite, LeastNat, NumbersAssumption
<1>2. contexts' \in Rankings(Visible, k) /\ pc = "by_meaning" /\ pc' = "cite"
      /\ UNCHANGED <<store, search, citations, touched>>
    BY DEF SearchSemantic
<1>3. Visible \in SUBSET Latest /\ \A c \in Visible : InScope(c)
    BY DEF Visible
<1> HIDE DEF k
<1> QED BY <1>1, <1>2, <1>3, ReadInv

LEMMA RankByMeaningInv == Inv /\ RankByMeaning => Inv'
<1> SUFFICES ASSUME Inv, RankByMeaning PROVE Inv'
    OBVIOUS
<1> DEFINE all == Cardinality(Visible)
           k == Least(K, all)
<1>1. all \in Nat /\ k \in Nat /\ (k = K \/ k = all)
    BY VisibleChunks, SomeFinite, LeastNat, NumbersAssumption DEF Least
<1>2. /\ semantic' \in Rankings(Visible, k)
      /\ pc = "semantic" /\ pc' = "words" /\ touched' = {}
      /\ UNCHANGED <<store, scope, words, contexts, citations>>
    BY DEF RankByMeaning
<1> HIDE DEF k, all
<1>3. /\ semantic' \in Seq(Chunks) /\ Len(semantic') = k /\ IsInjective(semantic')
      /\ Range(semantic') \subseteq Visible
    BY <1>1, <1>2, VisibleChunks, Ranking
<1>4. TypeOK'
    BY <1>2, <1>3 DEF Inv, TypeOK, store, Places
<1>5. RankedInScope' /\ RankedOnce'
    BY <1>2, <1>3 DEF Inv, RankedInScope, RankedOnce, Candidates, Visible, InScope, store
<1>6. ContextsCoherent' /\ ContextsKnown'
    BY <1>2 DEF Inv, ContextsCoherent, ContextsKnown, InScope, store
<1>7. Uncited' /\ CitedAsFound'
    BY <1>2 DEF Inv, Uncited, CitedAsFound
<1>8. UnchangedRanked'
  <2> SUFFICES ASSUME NEW c \in Visible', c \notin Range(semantic')
               PROVE  Len(semantic') = K
      BY DEF UnchangedRanked
  <2>1. c \in Visible
      BY <1>2 DEF Visible, Latest, InScope, store
  <2>2. k = all => Range(semantic') = Visible
      BY <1>2, VisibleChunks, RankingOfAll DEF all
  <2> QED BY <1>1, <1>3, <2>1, <2>2
<1> QED BY <1>4, <1>5, <1>6, <1>7, <1>8 DEF Inv

LEMMA RankByWordsInv == Inv /\ RankByWords => Inv'
<1> SUFFICES ASSUME Inv, RankByWords PROVE Inv'
    OBVIOUS
<1>1. PICK k \in Nat : words' \in Rankings(Visible, k)
    BY VisibleChunks, SomeFinite, LeastNat, NumbersAssumption DEF RankByWords
<1>2. /\ pc = "words" /\ pc' = "read"
      /\ UNCHANGED <<store, scope, semantic, contexts, citations, touched>>
    BY DEF RankByWords
<1>3. words' \in Seq(Chunks) /\ IsInjective(words') /\ Range(words') \subseteq Visible
    BY <1>1, VisibleChunks, Ranking
<1>4. TypeOK'
    BY <1>2, <1>3 DEF Inv, TypeOK, store, Places
<1>5. RankedInScope' /\ RankedOnce'
    BY <1>2, <1>3 DEF Inv, RankedInScope, RankedOnce, Candidates, Visible, InScope, store
<1>6. ContextsCoherent' /\ ContextsKnown'
    BY <1>2 DEF Inv, ContextsCoherent, ContextsKnown, InScope, store
<1>7. Uncited' /\ CitedAsFound'
    BY <1>2 DEF Inv, Uncited, CitedAsFound
<1>8. Visible' = Visible
    BY <1>2 DEF Visible, Latest, InScope, store
<1>9. UnchangedRanked'
    BY <1>2, <1>8 DEF Inv, UnchangedRanked
<1> QED BY <1>4, <1>5, <1>6, <1>7, <1>9 DEF Inv

LEMMA ReadRowsInv == Inv /\ ReadRows => Inv'
<1> SUFFICES ASSUME Inv, ReadRows PROVE Inv'
    OBVIOUS
<1> DEFINE T == TopIds \intersect Latest
<1>1. /\ contexts' \in Rankings(T, Cardinality(T))
      /\ pc = "read" /\ pc' = "cite"
      /\ UNCHANGED <<store, search, citations, touched>>
    BY DEF ReadRows, Sorted
<1>2. T \in SUBSET Latest /\ \A c \in T : InScope(c)
    BY DEF Inv, RankedInScope, TopIds
<1> HIDE DEF T
<1> QED BY <1>1, <1>2, ReadInv

LEMMA ClampBounded ==
    ASSUME NEW x \in Confidences, Clamp(x) # None, Clamp(x) >= MinConfidence
    PROVE  Clamp(x) \in MinConfidence..10
<1>1. x # None /\ x \in Int
    BY ConfidenceAssumption DEF Clamp
<1>2. Clamp(x) \in Int /\ Clamp(x) <= 10
    BY <1>1 DEF Clamp, Least
<1> QED BY <1>2, ConfidenceAssumption

LEMMA CiteInv == Inv /\ Cite => Inv'
<1> SUFFICES ASSUME Inv, Cite PROVE Inv'
    OBVIOUS
<1>1. PICK i \in DOMAIN contexts \ Seen, x \in Confidences :
        /\ Clamp(x) # None /\ Clamp(x) >= MinConfidence
        /\ contexts[i][1] \notin deleted
        /\ citations' = citations \union {Citation(i, Clamp(x))}
    BY DEF Cite
<1>2. pc = "cite" /\ UNCHANGED <<store, search, pc, contexts, touched>>
    BY DEF Cite
<1> DEFINE new == Citation(i, Clamp(x))
<1>3. /\ i \in Nat /\ contexts[i] \in Chunks
      /\ contexts[i][2] \in 1..latest[contexts[i][1]] /\ contexts[i][2] \in Nat
    BY DEF Inv, TypeOK, ContextsKnown, Chunks
<1>4. Clamp(x) \in MinConfidence..10
    BY <1>1, ClampBounded
<1>5. /\ new.index = i /\ new.chunk = contexts[i] /\ new.version = contexts[i][2]
      /\ new.confidence = Clamp(x) /\ new \in Citations
    BY <1>3, <1>4, ConfidenceAssumption DEF Citation, FindVersion, Citations
<1>6. \A c \in citations : c.index # i
    BY DEF Seen
<1> HIDE DEF new
<1>7. TypeOK'
  <2>1. citations' \subseteq Citations /\ \A c \in citations' : c.chunk[1] \notin deleted
      BY <1>1, <1>5 DEF Inv, TypeOK, new
  <2> QED BY <1>2, <2>1 DEF Inv, TypeOK, store, search
<1>8. RankedInScope' /\ RankedOnce'
    BY <1>2 DEF Inv, RankedInScope, RankedOnce, Candidates, InScope, store, search
<1>9. ContextsCoherent' /\ ContextsKnown' /\ Uncited' /\ UnchangedRanked'
    BY <1>2 DEF Inv, ContextsCoherent, ContextsKnown, Uncited, UnchangedRanked, InScope, store, search
<1>10. CitedAsFound'
  <2>1. citations' = citations \union {new} /\ contexts' = contexts
      BY <1>1, <1>2 DEF new
  <2>2. \A c \in citations :
           /\ c.index \in DOMAIN contexts /\ c.chunk = contexts[c.index]
           /\ c.version = c.chunk[2] /\ c.confidence \in MinConfidence..10
      BY DEF Inv, CitedAsFound
  <2>3. \A c, e \in citations : c.index = e.index => c = e
      BY DEF Inv, CitedAsFound
  <2> QED BY <1>1, <1>4, <1>5, <1>6, <2>1, <2>2, <2>3 DEF CitedAsFound
<1> QED BY <1>7, <1>8, <1>9, <1>10 DEF Inv

LEMMA FailInv == Inv /\ Fail => Inv'
<1> SUFFICES ASSUME Inv, Fail PROVE Inv'
    OBVIOUS
<1>1. pc' = "failed" /\ citations' = {} /\ UNCHANGED <<store, search, contexts, touched>>
    BY DEF Fail
<1>2. TypeOK'
    BY <1>1 DEF Inv, TypeOK, store, search, Places
<1>3. RankedInScope' /\ RankedOnce'
    BY <1>1 DEF Inv, RankedInScope, RankedOnce, Candidates, InScope, store, search
<1>4. ContextsCoherent' /\ ContextsKnown' /\ Uncited' /\ CitedAsFound' /\ UnchangedRanked'
    BY <1>1 DEF Inv, ContextsCoherent, ContextsKnown, Uncited, CitedAsFound, UnchangedRanked,
                InScope, store, search
<1> QED BY <1>2, <1>3, <1>4 DEF Inv

(* A chunk in sight of a document that did not change was in sight before. *)
LEMMA AddVersionInv ==
    ASSUME Inv, NEW d \in Docs, AddVersion(d)
    PROVE  Inv'
<1>1. /\ d \notin deleted /\ latest[d] < MaxVersions
      /\ latest' = [latest EXCEPT ![d] = @ + 1]
      /\ touched' = touched \union {d}
      /\ UNCHANGED <<deleted, category, scope, semantic, words, pc, contexts, citations>>
    BY DEF AddVersion, search
<1>2. /\ latest \in [Docs -> 0..MaxVersions]
      /\ latest' \in [Docs -> 0..MaxVersions]
      /\ \A e \in Docs : latest[e] <= latest'[e] /\ (e # d => latest'[e] = latest[e])
    BY <1>1, NumbersAssumption DEF Inv, TypeOK
<1>3. TypeOK'
    BY <1>1, <1>2 DEF Inv, TypeOK
<1>4. RankedInScope' /\ RankedOnce'
    BY <1>1 DEF Inv, RankedInScope, RankedOnce, Candidates, InScope
<1>5. ContextsCoherent' /\ Uncited' /\ CitedAsFound'
    BY <1>1 DEF Inv, ContextsCoherent, Uncited, CitedAsFound, InScope
<1>6. ContextsKnown'
  <2> SUFFICES ASSUME NEW i \in DOMAIN contexts
               PROVE  contexts[i][2] \in 1..latest'[contexts[i][1]]
      BY <1>1 DEF ContextsKnown
  <2>1. contexts[i][2] \in 1..latest[contexts[i][1]] /\ contexts[i][1] \in Docs
      BY DEF Inv, ContextsKnown, TypeOK, Chunks
  <2> QED BY <1>2, <2>1
<1>7. UnchangedRanked'
  <2> SUFFICES ASSUME pc \in {"words", "read"}, NEW c \in Visible',
                      c[1] \notin touched', c \notin Range(semantic)
               PROVE  Len(semantic) = K
      BY <1>1 DEF UnchangedRanked
  <2>1. c \in Visible
      BY <1>1, <1>2 DEF Visible, Latest, InScope, Chunks
  <2> QED BY <1>1, <2>1 DEF Inv, UnchangedRanked
<1> QED BY <1>3, <1>4, <1>5, <1>6, <1>7 DEF Inv

LEMMA DeleteDocumentInv ==
    ASSUME Inv, NEW d \in Docs, DeleteDocument(d)
    PROVE  Inv'
<1>1. /\ deleted' = deleted \union {d}
      /\ citations' = {c \in citations : c.chunk[1] # d}
      /\ touched' = touched \union {d}
      /\ UNCHANGED <<latest, category, scope, semantic, words, pc, contexts>>
    BY DEF DeleteDocument, search
<1>2. citations' \subseteq citations /\ \A c \in citations' : c.chunk[1] # d
    BY <1>1
<1>3. TypeOK'
    BY <1>1, <1>2 DEF Inv, TypeOK
<1>4. RankedInScope' /\ RankedOnce'
    BY <1>1 DEF Inv, RankedInScope, RankedOnce, Candidates, InScope
<1>5. ContextsCoherent' /\ ContextsKnown'
    BY <1>1 DEF Inv, ContextsCoherent, ContextsKnown, InScope
<1>6. Uncited' /\ CitedAsFound'
    BY <1>1, <1>2 DEF Inv, Uncited, CitedAsFound
<1>7. UnchangedRanked'
  <2> SUFFICES ASSUME pc \in {"words", "read"}, NEW c \in Visible',
                      c[1] \notin touched', c \notin Range(semantic)
               PROVE  Len(semantic) = K
      BY <1>1 DEF UnchangedRanked
  <2>1. c \in Visible
      BY <1>1 DEF Visible, Latest, InScope
  <2> QED BY <1>1, <2>1 DEF Inv, UnchangedRanked
<1> QED BY <1>3, <1>4, <1>5, <1>6, <1>7 DEF Inv

LEMMA StutterInv == Inv /\ UNCHANGED vars => Inv'
BY DEF Inv, TypeOK, RankedInScope, RankedOnce, Candidates, ContextsCoherent, ContextsKnown, Uncited,
       CitedAsFound, UnchangedRanked, Visible, Latest, InScope, vars, store, search

(* The inductive invariant holds in every state of every behaviour of the   *)
(* search and what runs beside it.                                          *)
THEOREM InvariantHolds == Spec => []Inv
<1>1. Inv /\ Next => Inv'
    BY StartInv, SearchSemanticInv, RankByMeaningInv, RankByWordsInv, ReadRowsInv, CiteInv,
       EndCitationsInv, FailInv, AddVersionInv, DeleteDocumentInv DEF Next
<1> QED BY InitInv, <1>1, StutterInv, PTL DEF Spec

-----------------------------------------------------------------------------
(* The theorems *)

(* Every variable has its type, and citations are of documents that exist. *)
THEOREM TypeCorrect == Spec => []TypeOK
<1>1. Inv => TypeOK
    BY DEF Inv
<1> QED BY <1>1, InvariantHolds, PTL

(* What the model is given is of one version of each document and of the    *)
(* category asked about, whatever is committed between the three statements *)
(* of _search_hybrid.                                                       *)
THEOREM Coherent == Spec => []ContextsCoherent
<1>1. Inv => ContextsCoherent
    BY DEF Inv
<1> QED BY <1>1, InvariantHolds, PTL

(* A citation is stored of the version its excerpt is from, once, with a    *)
(* confidence in bounds (_build_and_persist_citations).                     *)
THEOREM Cited == Spec => []CitedAsFound
<1>1. Inv => CitedAsFound
    BY DEF Inv
<1> QED BY <1>1, InvariantHolds, PTL

-----------------------------------------------------------------------------
(* The order of the candidates *)

LEMMA RankInRange ==
    ASSUME NEW s \in Seq(Chunks), NEW c \in Range(s)
    PROVE  RankIn(s, c) \in 1..Len(s) /\ s[RankIn(s, c)] = c
<1>1. \E i \in DOMAIN s : s[i] = c
    BY DEF Range
<1>2. RankIn(s, c) \in DOMAIN s /\ s[RankIn(s, c)] = c
    BY <1>1 DEF RankIn
<1> QED BY <1>2

Positive == Nat \ {0}

LEMMA PositiveClosed ==
    ASSUME NEW p \in Positive, NEW q \in Positive
    PROVE  p + q \in Positive /\ p * q \in Positive
<1>1. \A x \in Positive : x \in Nat /\ x >= 1
    BY DEF Positive
<1>2. p * q \in Nat /\ p + q \in Nat /\ p + q >= 1
    BY <1>1
<1>3. p * q >= 1
    BY <1>1
<1> QED BY <1>2, <1>3 DEF Positive

(* A score is a fraction of positive numbers. *)
LEMMA ScorePositive ==
    ASSUME TypeOK, NEW c \in Candidates
    PROVE  Score(c)[1] \in Positive /\ Score(c)[2] \in Positive
<1> DEFINE a == RRF_K + RankIn(semantic, c)
           b == RRF_K + RankIn(words, c)
<1>0. semantic \in Seq(Chunks) /\ words \in Seq(Chunks) /\ RRF_K \in Nat
    BY NumbersAssumption DEF TypeOK
<1>1. c \in Range(semantic) => a \in Positive
    BY <1>0, RankInRange DEF Positive
<1>2. c \in Range(words) => b \in Positive
    BY <1>0, RankInRange DEF Positive
<1>3. Score(c) = IF c \notin Range(words) THEN <<1, a>>
                 ELSE IF c \notin Range(semantic) THEN <<1, b>>
                 ELSE <<a + b, a * b>>
    BY DEF Score
<1>4. c \in Range(semantic) \/ c \in Range(words)
    BY DEF Candidates
<1> HIDE DEF a, b
<1>5. 1 \in Positive
    BY DEF Positive
<1> QED BY <1>1, <1>2, <1>3, <1>4, <1>5, PositiveClosed

LEMMA NotAheadOfItself ==
    ASSUME TypeOK, NEW c \in Candidates
    PROVE  ~Ahead(c, c)
<1>1. \A p, q \in Nat : ~(p * q > p * q)
    OBVIOUS
<1>2. ~(Score(c)[1] * Score(c)[2] > Score(c)[1] * Score(c)[2])
    BY ScorePositive, <1>1 DEF Positive
<1>3. semantic \in Seq(Chunks) /\ words \in Seq(Chunks)
    BY DEF TypeOK
<1>4. c \in Range(semantic) => ~(RankIn(semantic, c) < RankIn(semantic, c))
    BY <1>3, RankInRange
<1>5. c \in Range(words) => ~(RankIn(words, c) < RankIn(words, c))
    BY <1>3, RankInRange
<1>6. ~AddedBefore(c, c)
    BY <1>4, <1>5 DEF AddedBefore, Candidates
<1> QED BY <1>2, <1>6 DEF Ahead

(* The one of the higher score comes before the other. *)
Better(c, e) == Score(c)[1] * Score(e)[2] > Score(e)[1] * Score(c)[2]

(* Fractions: u/v at least p/q, which is more than r/t *)
LEMMA FractionsOrdered ==
    ASSUME NEW u \in Positive, NEW v \in Positive, NEW p \in Positive,
           NEW q \in Positive, NEW r \in Positive, NEW t \in Positive,
           u * q >= p * v, p * t > r * q
    PROVE  u * t > r * v
<1>1. /\ u \in Nat /\ v \in Nat /\ p \in Nat /\ q \in Nat /\ r \in Nat /\ t \in Nat
      /\ v >= 1 /\ q >= 1 /\ t >= 1
    BY DEF Positive
<1>2. (u * q) * t >= (p * v) * t
  <2> DEFINE x == u * q
             y == p * v
  <2>1. x \in Nat /\ y \in Nat /\ x >= y
      BY <1>1
  <2> HIDE DEF x, y
  <2>2. x * t >= y * t
      BY <2>1, <1>1
  <2> QED BY <2>2 DEF x, y
<1>3. (p * t) * v > (r * q) * v
  <2> DEFINE x == p * t
             y == r * q
  <2>1. x \in Nat /\ y \in Nat /\ x > y
      BY <1>1
  <2> HIDE DEF x, y
  <2>2. x * v > y * v
      BY <2>1, <1>1
  <2> QED BY <2>2 DEF x, y
<1>4. (u * q) * t = (u * t) * q /\ (p * v) * t = (p * t) * v /\ (r * q) * v = (r * v) * q
    BY <1>1
<1> DEFINE x == u * t
           y == r * v
<1>5. x \in Nat /\ y \in Nat
    BY <1>1
<1>6. /\ (u * q) * t \in Nat /\ (p * v) * t \in Nat /\ (p * t) * v \in Nat /\ (r * q) * v \in Nat
    BY <1>1
<1>7. x * q > y * q
    BY <1>2, <1>3, <1>4, <1>6
<1> HIDE DEF x, y
<1>8. x > y
    BY <1>1, <1>5, <1>7
<1> QED BY <1>8 DEF x, y

LEMMA AheadOfWorse ==
    ASSUME TypeOK, NEW c \in Candidates, NEW a \in Candidates, NEW e \in Candidates,
           Better(a, c), Ahead(e, a)
    PROVE  Ahead(e, c)
<1>1. Score(e)[1] * Score(a)[2] >= Score(a)[1] * Score(e)[2]
  <2>1. Score(e)[1] * Score(a)[2] \in Nat /\ Score(a)[1] * Score(e)[2] \in Nat
      BY ScorePositive DEF Positive
  <2> QED BY <2>1 DEF Ahead
<1>2. Score(e)[1] * Score(c)[2] > Score(c)[1] * Score(e)[2]
    BY <1>1, ScorePositive, FractionsOrdered DEF Better
<1> QED BY <1>2 DEF Ahead

LEMMA WorseNotAhead ==
    ASSUME TypeOK, NEW c \in Candidates, NEW a \in Candidates, Better(a, c)
    PROVE  ~Ahead(c, a)
<1>1. Score(a)[1] * Score(c)[2] \in Nat /\ Score(c)[1] * Score(a)[2] \in Nat
    BY ScorePositive DEF Positive
<1> QED BY <1>1 DEF Better, Ahead

(* What is better than one of the top is of the top. *)
LEMMA BetterOnTop ==
    ASSUME TypeOK, NEW c \in TopIds, NEW a \in Candidates, Better(a, c)
    PROVE  a \in TopIds
<1> DEFINE beforeA == {e \in Candidates : Ahead(e, a)}
           beforeC == {e \in Candidates : Ahead(e, c)}
<1>1. c \in Candidates /\ Cardinality(beforeC) < N
    BY DEF TopIds
<1>2. beforeA \subseteq beforeC
    BY <1>1, AheadOfWorse
<1>3. beforeC \in SUBSET Chunks /\ beforeA \in SUBSET Chunks
    BY DEF TypeOK, Candidates, Range
<1>4. /\ IsFiniteSet(beforeC) /\ Cardinality(beforeC) \in Nat
      /\ Cardinality(beforeA) \in Nat
    BY <1>3, SomeFinite
<1>5. Cardinality(beforeA) <= Cardinality(beforeC)
    BY <1>2, <1>4, FS_Subset
<1>6. Cardinality(beforeA) < N
    BY <1>1, <1>4, <1>5, NumbersAssumption
<1> QED BY <1>6 DEF TopIds

(* With no more candidates than results, all of them are on top. *)
LEMMA AllOnTop ==
    ASSUME TypeOK, Cardinality(Candidates) <= N, NEW c \in Candidates
    PROVE  c \in TopIds
<1> DEFINE before == {e \in Candidates : Ahead(e, c)}
           others == Candidates \ {c}
<1>1. Candidates \subseteq Chunks
    BY DEF TypeOK, Candidates, Range
<1>2. IsFiniteSet(Candidates) /\ Cardinality(Candidates) \in Nat
    BY <1>1, SomeFinite
<1>3. before \subseteq others
    BY NotAheadOfItself
<1>4. IsFiniteSet(others) /\ Cardinality(others) = Cardinality(Candidates) - 1
    BY <1>2, FS_RemoveElement
<1>5. IsFiniteSet(before) /\ Cardinality(before) <= Cardinality(others)
    BY <1>3, <1>4, FS_Subset
<1>6. Cardinality(before) \in Nat
    BY <1>5, FS_CardinalityType
<1> HIDE DEF others
<1>7. Cardinality(before) < N
    BY <1>2, <1>4, <1>5, <1>6, NumbersAssumption
<1> QED BY <1>7 DEF TopIds

(* What nobody changed during a search is missing from its contexts only    *)
(* because the results or the ranking by meaning were full                  *)
(* (_search_hybrid).                                                        *)
THEOREM Found == Spec => UnchangedFound
<1> DEFINE Complete ==
      pc = "read" /\ pc' = "cite" =>
        \A c \in Visible :
            c[1] \notin touched /\ c \notin Range(contexts') =>
                \/ Cardinality(Candidates) > N
                \/ Len(semantic) = K /\ c \notin Range(semantic)
<1>1. Inv /\ [Next]_vars => [Complete]_vars
  <2> SUFFICES ASSUME Inv, Next, pc = "read", pc' = "cite", NEW c \in Visible,
                      c[1] \notin touched, c \notin Range(contexts')
               PROVE  \/ Cardinality(Candidates) > N
                      \/ Len(semantic) = K /\ c \notin Range(semantic)
      OBVIOUS
  <2>1. ReadRows
      BY DEF Next, Start, SearchSemantic, RankByMeaning, RankByWords, Cite, EndCitations,
             Fail, AddVersion, DeleteDocument
  <2>2. CASE c \notin Range(semantic)
      BY <2>2 DEF Inv, UnchangedRanked
  <2>3. CASE c \in Range(semantic)
    <3> DEFINE T == TopIds \intersect Latest
    <3>1. contexts' \in Rankings(T, Cardinality(T))
        BY <2>1 DEF ReadRows, Sorted
    <3>2. T \in SUBSET Chunks /\ Range(contexts') = T
        BY <3>1, RankingOfAll DEF Latest
    <3>3. c \in Latest /\ c \in Candidates
        BY <2>3 DEF Visible, Candidates
    <3>4. ~(Cardinality(Candidates) <= N)
        BY <3>2, <3>3, AllOnTop DEF Inv
    <3>5. Cardinality(Candidates) \in Nat
        BY SomeFinite DEF Inv, TypeOK, Candidates, Range
    <3> QED BY <3>4, <3>5, NumbersAssumption
  <2> QED BY <2>2, <2>3
<1> QED BY <1>1, InvariantHolds, PTL DEF Spec, UnchangedFound

-----------------------------------------------------------------------------
(* The fusion of ranks *)

LEMMA AboveRank ==
    ASSUME NEW s \in Seq(Chunks), IsInjective(s), NEW a, NEW c, AboveIn(s, a, c)
    PROVE  a \in Range(s) /\ c \in Range(s) /\ RankIn(s, a) < RankIn(s, c)
<1>1. PICK i, j \in DOMAIN s : i < j /\ s[i] = a /\ s[j] = c
    BY DEF AboveIn
<1>2. a \in Range(s) /\ c \in Range(s)
    BY <1>1 DEF Range
<1>3. RankIn(s, a) = i /\ RankIn(s, c) = j
    BY <1>1, <1>2, RankInRange DEF IsInjective
<1> QED BY <1>1, <1>2, <1>3

LEMMA ProductsOrdered ==
    ASSUME NEW p \in Positive, NEW q \in Positive, NEW r \in Positive, p < q
    PROVE  p * r < q * r
<1>1. p \in Nat /\ q \in Nat /\ r \in Nat /\ r >= 1
    BY DEF Positive
<1> QED BY <1>1

(* 1/a + 1/b is more than 1/c + 1/d. *)
LEMMA SumsOrdered ==
    ASSUME NEW a \in Positive, NEW b \in Positive, NEW c \in Positive, NEW d \in Positive,
           a < c, b < d
    PROVE  (a + b) * (c * d) > (c + d) * (a * b)
<1>1. a * b \in Positive /\ a * d \in Positive /\ c * b \in Positive /\ c * d \in Positive
    BY PositiveClosed
<1>2. b * (a * c) < d * (a * c) /\ a * (b * d) < c * (b * d)
    BY PositiveClosed, ProductsOrdered
<1>3. a \in Nat /\ b \in Nat /\ c \in Nat /\ d \in Nat
    BY DEF Positive
<1>4. /\ (a + b) * (c * d) = d * (a * c) + c * (b * d)
      /\ (c + d) * (a * b) = b * (a * c) + a * (b * d)
    BY <1>3
<1>5. /\ b * (a * c) \in Nat /\ d * (a * c) \in Nat
      /\ a * (b * d) \in Nat /\ c * (b * d) \in Nat
    BY <1>3
<1> QED BY <1>2, <1>4, <1>5

(* 1/a + 1/b is more than 1/c. *)
LEMMA SumMore ==
    ASSUME NEW a \in Positive, NEW b \in Positive, NEW c \in Positive, a < c
    PROVE  /\ (a + b) * c > 1 * (a * b)
           /\ (b + a) * c > 1 * (b * a)
<1>1. a * b < c * b
    BY ProductsOrdered
<1>2. a \in Nat /\ b \in Nat /\ c \in Nat
    BY DEF Positive
<1>3. a * b \in Nat /\ c * b \in Nat /\ a * c \in Nat
    BY <1>2
<1>4. /\ (a + b) * c = a * c + c * b /\ (b + a) * c = a * c + c * b
      /\ 1 * (a * b) = a * b /\ 1 * (b * a) = a * b
    BY <1>2
<1> QED BY <1>1, <1>3, <1>4

LEMMA RankedAboveBetter ==
    ASSUME TypeOK, RankedOnce, NEW c \in Candidates, NEW a, RankedAbove(a, c)
    PROVE  a \in Candidates /\ Better(a, c)
<1> DEFINE a1 == RRF_K + RankIn(semantic, a)
           a2 == RRF_K + RankIn(words, a)
           c1 == RRF_K + RankIn(semantic, c)
           c2 == RRF_K + RankIn(words, c)
<1>0. semantic \in Seq(Chunks) /\ words \in Seq(Chunks) /\ RRF_K \in Nat
    BY NumbersAssumption DEF TypeOK
<1>1. c \in Range(semantic) \/ c \in Range(words)
    BY DEF Candidates
<1>2. ASSUME c \in Range(semantic)
      PROVE  a \in Range(semantic) /\ a1 < c1 /\ c1 \in Positive
  <2>1. a \in Range(semantic) /\ RankIn(semantic, a) < RankIn(semantic, c)
      BY <1>0, <1>2, AboveRank DEF RankedAbove, RankedOnce
  <2> QED BY <1>0, <1>2, <2>1, RankInRange DEF Positive
<1>3. ASSUME c \in Range(words)
      PROVE  a \in Range(words) /\ a2 < c2 /\ c2 \in Positive
  <2>1. a \in Range(words) /\ RankIn(words, a) < RankIn(words, c)
      BY <1>0, <1>3, AboveRank DEF RankedAbove, RankedOnce
  <2> QED BY <1>0, <1>3, <2>1, RankInRange DEF Positive
<1>4. a \in Candidates
    BY <1>1, <1>2, <1>3 DEF Candidates
<1>5. /\ a \in Range(semantic) => a1 \in Positive
      /\ a \in Range(words) => a2 \in Positive
    BY <1>0, RankInRange DEF Positive
<1>6. /\ Score(a) = IF a \notin Range(words) THEN <<1, a1>>
                    ELSE IF a \notin Range(semantic) THEN <<1, a2>>
                    ELSE <<a1 + a2, a1 * a2>>
      /\ Score(c) = IF c \notin Range(words) THEN <<1, c1>>
                    ELSE IF c \notin Range(semantic) THEN <<1, c2>>
                    ELSE <<c1 + c2, c1 * c2>>
    BY DEF Score
<1> HIDE DEF a1, a2, c1, c2
<1>7. CASE c \in Range(semantic) /\ c \in Range(words)
    BY <1>2, <1>3, <1>4, <1>5, <1>6, <1>7, SumsOrdered DEF Better
<1>8. CASE c \in Range(semantic) /\ c \notin Range(words)
  <2>1. CASE a \in Range(words)
      BY <1>2, <1>4, <1>5, <1>6, <1>8, <2>1, SumMore DEF Better
  <2>2. CASE a \notin Range(words)
      BY <1>2, <1>4, <1>5, <1>6, <1>8, <2>2 DEF Better, Positive
  <2> QED BY <2>1, <2>2
<1>9. CASE c \notin Range(semantic) /\ c \in Range(words)
  <2>1. CASE a \in Range(semantic)
      BY <1>3, <1>4, <1>5, <1>6, <1>9, <2>1, SumMore DEF Better
  <2>2. CASE a \notin Range(semantic)
      BY <1>3, <1>4, <1>5, <1>6, <1>9, <2>2 DEF Better, Positive
  <2> QED BY <2>1, <2>2
<1> QED BY <1>1, <1>7, <1>8, <1>9

(* A chunk ranked above another by every statement that ranks the other is  *)
(* found if the other is, and before it, unless it was replaced             *)
(* (_search_hybrid).                                                        *)
THEOREM Fused == Spec => FusionRespectsRanks
<1> DEFINE Respected ==
      pc = "read" /\ pc' = "cite" =>
        \A j \in DOMAIN (contexts') : \A a \in Latest :
            RankedAbove(a, contexts'[j]) => \E i \in 1..(j - 1) : contexts'[i] = a
<1>1. Inv /\ [Next]_vars => [Respected]_vars
  <2> SUFFICES ASSUME Inv, Next, pc = "read", pc' = "cite",
                      NEW j \in DOMAIN (contexts'), NEW a \in Latest,
                      RankedAbove(a, contexts'[j])
               PROVE  \E i \in 1..(j - 1) : contexts'[i] = a
      OBVIOUS
  <2>1. ReadRows
      BY DEF Next, Start, SearchSemantic, RankByMeaning, RankByWords, Cite, EndCitations,
             Fail, AddVersion, DeleteDocument
  <2> DEFINE T == TopIds \intersect Latest
             c == contexts'[j]
  <2>2. /\ contexts' \in Rankings(T, Cardinality(T))
        /\ \A m \in DOMAIN (contexts') : \A i \in 1..(m - 1) : Ahead(contexts'[i], contexts'[m])
      BY <2>1 DEF ReadRows, Sorted
  <2>3. T \in SUBSET Chunks /\ Cardinality(T) \in Nat
      BY SomeFinite DEF Latest
  <2>4. Range(contexts') = T /\ DOMAIN (contexts') = 1..Cardinality(T) /\ c \in T
      BY <2>2, <2>3, RankingOfAll, Ranking
  <2>5. TypeOK /\ RankedOnce /\ c \in TopIds /\ c \in Candidates
      BY <2>4 DEF Inv, TopIds
  <2>6. a \in Candidates /\ Better(a, c)
      BY <2>5, RankedAboveBetter
  <2>7. a \in T
      BY <2>5, <2>6, BetterOnTop
  <2>8. PICK i \in DOMAIN (contexts') : contexts'[i] = a
      BY <2>4, <2>7 DEF Range
  <2>9. ~Ahead(c, a)
      BY <2>5, <2>6, WorseNotAhead
  <2>10. a # c
    <3>1. Score(c)[1] \in Nat /\ Score(c)[2] \in Nat
        BY <2>5, ScorePositive DEF Positive
    <3>2. ~(Score(c)[1] * Score(c)[2] > Score(c)[1] * Score(c)[2])
        BY <3>1
    <3> QED BY <2>6, <3>2 DEF Better
  <2> HIDE DEF T
  <2>11. i # j /\ ~(j < i)
    <3>1. i \in Nat /\ j \in Nat /\ j >= 1
        BY <2>3, <2>4
    <3>2. j < i => Ahead(contexts'[j], contexts'[i])
        BY <2>2, <3>1
    <3> QED BY <2>8, <2>9, <2>10, <3>2
  <2> QED BY <2>3, <2>4, <2>8, <2>11
<1> QED BY <1>1, InvariantHolds, PTL DEF Spec, FusionRespectsRanks
=============================================================================
