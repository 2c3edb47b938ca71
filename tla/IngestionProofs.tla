---------------------------- MODULE IngestionProofs ----------------------------
(***************************************************************************)
(* Proofs about Ingestion for every request, its files and their contents, *)
(* any number of embedding attempts, repetitions and deletions.            *)
(***************************************************************************)
EXTENDS Ingestion, SequenceTheorems, FiniteSetTheorems, WellFoundedInduction, TLAPS

Stored == Seq(StoredVersions) \union {Unset}
Accepted == {"find", "compare", "extract", "embed", "commit"}
Handling == Accepted \union {"cleanup"}

-----------------------------------------------------------------------------
(* The file and what the code finds out about it *)

LEMMA FileFacts ==
    ASSUME request \in Requests, pos \in Nat \ {0}, pos <= Len(Files)
    PROVE  /\ File \in Range(Files) /\ File.name \in Names
           /\ File.extension \in Extensions /\ Content \in Contents
           /\ Kind \in Kinds /\ ContentType \in Extensions
  <1>1. Files \in Seq(Range(Files)) /\ pos \in 1..Len(Files)
    BY RequestsAssumption, LenProperties DEF Files
  <1>2. File \in Range(Files)
    BY <1>1, ElementOfSeq DEF File
  <1>3. File.name \in Names
    BY <1>2 DEF Names, Files
  <1>4. File.extension \in Extensions /\ Content \in Contents
    BY <1>2, RequestsAssumption DEF Files, Content
  <1>5. Kind \in Kinds
    BY RequestsAssumption DEF Kind, Kinds
  <1>6. ContentType \in Extensions
    BY <1>4 DEF ContentType, Extensions
  <1>7. QED  BY <1>2, <1>3, <1>4, <1>5, <1>6

(* What is stored of a file its parser could read, unless it is plain text. *)
LEMMA ReadableFacts ==
    ASSUME request \in Requests, pos \in Nat \ {0}, pos <= Len(Files),
           ~Invalid, ~Unsupported, ~Unreadable
    PROVE  Content.readable \/ ContentType = "text"
  <1>1. /\ File.extension \in Extensions /\ Content \in Contents /\ Kind \in Kinds
    BY FileFacts
  <1>2. CASE Kind = "text"
    BY <1>2 DEF ContentType
  <1>3. CASE Kind = "image"
    BY <1>1, <1>3 DEF Invalid, InvalidImage, ContentType, Unreadable, Format, Parsed, Contents
  <1>4. CASE Kind = "file"
    <2>1. File.extension \in {"pdf", "word", "text"} /\ ContentType = File.extension
      BY <1>4 DEF Invalid, InvalidFile, ContentType
    <2>2. QED
      BY <1>1, <2>1 DEF Unsupported, NoDocText, Unreadable, Format, Parsed, Contents
  <1>5. QED  BY <1>1, <1>2, <1>3, <1>4 DEF Kinds

(* A set of naturals has a least element. *)
Below == {p \in Nat \X Nat : p[1] < p[2]}
LEMMA BelowWellFounded == IsWellFoundedOn(Below, Nat)
  BY NatLessThanWellFounded, Zenon DEF OpToRel, Below

LEMMA LeastOf ==
    ASSUME NEW S, S \subseteq Nat, S # {}
    PROVE  \E j \in S : \A k \in S : j <= k
  <1>1. PICK j \in S : \A k \in S : ~(<<k, j>> \in Below)
    BY BelowWellFounded, WFMin
  <1>2. \A k \in S : ~(k < j)
    BY <1>1 DEF Below
  <1>3. QED  BY <1>2

LEMMA RulesFacts == DOMAIN Rules \subseteq Nat
  <1>1. Rules \in Seq({"rate_limit", "auth", "timeout", "model_not_found",
                       "content_filter", "bad_request"})
    BY DEF Rules
  <1>2. QED  BY <1>1, LenProperties

LEMMA ClassifyFacts ==
    ASSUME NEW message
    PROVE  Classify(message) \in LlmErrors
  <1> DEFINE matching == {i \in DOMAIN Rules : Rules[i] \in message}
  <1>1. CASE matching = {}
    BY <1>1 DEF Classify, LlmErrors
  <1>2. CASE matching # {}
    <2>1. \E j \in matching : \A k \in matching : j <= k
      BY <1>2, RulesFacts, LeastOf
    <2>2. Min(matching) \in matching
      BY <2>1 DEF Min
    <2>3. Classify(message) = Rules[Min(matching)]
      BY <1>2 DEF Classify
    <2>4. QED  BY <2>2, <2>3 DEF LlmErrors, Range
  <1>3. QED  BY <1>1, <1>2

-----------------------------------------------------------------------------
(* The pages of chunks *)

(* The recursion of FlattenSeq, whose existence is shown by looking for the *)
(* least length that has none.                                              *)
Steps(seqs, n, g) ==
    g = [i \in 1..n |-> IF i = 1 THEN seqs[i] ELSE g[i - 1] \o seqs[i]]

LEMMA StepsExist ==
    ASSUME NEW seqs, NEW n \in Nat
    PROVE  \E g : Steps(seqs, n, g)
  <1> DEFINE Bad == {k \in Nat : ~\E g : Steps(seqs, k, g)}
  <1>1. SUFFICES ASSUME Bad # {} PROVE FALSE
    OBVIOUS
  <1>2. PICK k \in Bad : \A j \in Bad : k <= j
    BY <1>1, LeastOf
  <1>3. k \in Nat /\ ~\E g : Steps(seqs, k, g)
    BY <1>2
  <1>4. CASE k = 0
    <2> DEFINE g == [i \in {} |-> <<>>]
    <2>1. 1..0 = {}
      OBVIOUS
    <2>2. Steps(seqs, 0, g)
      BY <2>1 DEF Steps
    <2>3. QED  BY <1>3, <1>4, <2>2
  <1>5. CASE k # 0
    <2>1. k - 1 \in Nat /\ k - 1 \notin Bad
      BY <1>2, <1>3, <1>5
    <2>2. PICK g : Steps(seqs, k - 1, g)
      BY <2>1
    <2> DEFINE h == [i \in 1..k |-> IF i = k THEN IF k = 1 THEN seqs[k] ELSE g[k - 1] \o seqs[k]
                                    ELSE g[i]]
    <2>3. ASSUME NEW i \in 1..k
          PROVE  h[i] = IF i = 1 THEN seqs[i] ELSE h[i - 1] \o seqs[i]
      <3>1. CASE i = k
        <4>1. k # 1 => k - 1 \in 1..k /\ h[k - 1] = g[k - 1]
          BY <1>3, <1>5
        <4>2. QED  BY <1>3, <1>5, <3>1, <4>1
      <3>2. CASE i # k
        <4>1. i \in 1..(k - 1) /\ h[i] = g[i]
          BY <1>3, <2>3, <3>2
        <4>2. g[i] = IF i = 1 THEN seqs[i] ELSE g[i - 1] \o seqs[i]
          BY <2>2, <4>1 DEF Steps
        <4>3. i # 1 => i - 1 \in 1..k /\ i - 1 # k
          BY <1>3, <4>1
        <4>4. QED  BY <4>1, <4>2, <4>3
      <3>3. QED  BY <3>1, <3>2
    <2>4. h = [i \in 1..k |-> h[i]]
      OBVIOUS
    <2> HIDE DEF h
    <2>5. Steps(seqs, k, h)
      BY <2>3, <2>4 DEF Steps
    <2>6. QED  BY <1>3, <2>5
  <1>6. QED  BY <1>4, <1>5

LEMMA FlattenSteps ==
    ASSUME NEW seqs, NEW n \in Nat \ {0}, Len(seqs) = n
    PROVE  \E g : Steps(seqs, n, g) /\ FlattenSeq(seqs) = g[n]
  <1> DEFINE g == CHOOSE g : g = [i \in 1..n |-> IF i = 1 THEN seqs[i] ELSE g[i - 1] \o seqs[i]]
  <1>1. FlattenSeq(seqs) = g[n]
    BY Zenon DEF FlattenSeq
  <1>2. \E h : h = [i \in 1..n |-> IF i = 1 THEN seqs[i] ELSE h[i - 1] \o seqs[i]]
    BY StepsExist DEF Steps
  <1>3. Steps(seqs, n, g)
    BY <1>2, Zenon DEF Steps
  <1>4. QED  BY <1>1, <1>3

(* Where page p is in the pages of the chunks *)
On(s, p) == {i \in DOMAIN s : s[i] = p}

(* The chunks of one page more, behind those of the pages before it *)
LEMMA OnePageMore ==
    ASSUME NEW n \in Nat \ {0}, NEW k \in Nat, NEW s \in Seq(1..(n - 1))
    PROVE  LET t == [i \in 1..k |-> n]
           IN  /\ s \o t \in Seq(1..n) /\ Cardinality(On(s \o t, n)) = k
               /\ \A p \in 1..(n - 1) : On(s \o t, p) = On(s, p)
  <1> DEFINE t == [i \in 1..k |-> n]
             u == s \o t
  <1>1. t \in Seq(1..n) /\ Len(t) = k /\ \A i \in 1..k : t[i] = n
    BY IsASeq, LenProperties
  <1>2. s \in Seq(1..n) /\ Len(s) \in Nat /\ DOMAIN s = 1..Len(s)
    <2>1. \A i \in 1..Len(s) : s[i] \in 1..n
      BY ElementOfSeq
    <2>2. Len(s) \in Nat /\ DOMAIN s = 1..Len(s) /\ s = [i \in 1..Len(s) |-> s[i]]
      BY LenProperties
    <2>3. QED  BY <2>1, <2>2, IsASeq
  <1> HIDE DEF t
  <1>3. /\ u \in Seq(1..n) /\ Len(u) = Len(s) + k
        /\ \A i \in 1..(Len(s) + k) : u[i] = IF i <= Len(s) THEN s[i] ELSE t[i - Len(s)]
    BY <1>1, <1>2, ConcatProperties
  <1>4. DOMAIN u = 1..(Len(s) + k)
    BY <1>3, LenProperties
  <1> HIDE DEF u
  <1>5. \A i \in 1..Len(s) : u[i] = s[i] /\ s[i] \in 1..(n - 1)
    BY <1>2, <1>3, ElementOfSeq
  <1>6. \A i \in (Len(s) + 1)..(Len(s) + k) : u[i] = n
    <2> SUFFICES ASSUME NEW i \in (Len(s) + 1)..(Len(s) + k) PROVE u[i] = n
      OBVIOUS
    <2>1. i \in 1..(Len(s) + k) /\ ~(i <= Len(s)) /\ i - Len(s) \in 1..k
      BY <1>2
    <2>2. QED  BY <1>1, <1>3, <2>1
  <1>7. On(u, n) = (Len(s) + 1)..(Len(s) + k)
    BY <1>2, <1>4, <1>5, <1>6 DEF On
  <1>8. Cardinality(On(u, n)) = k
    <2>1. Len(s) + 1 \in Int /\ Len(s) + k \in Int
      BY <1>2
    <2>2. Cardinality((Len(s) + 1)..(Len(s) + k))
            = IF Len(s) + 1 > Len(s) + k THEN 0 ELSE (Len(s) + k) - (Len(s) + 1) + 1
      BY <2>1, FS_Interval
    <2>3. QED  BY <1>2, <1>7, <2>2
  <1>9. \A p \in 1..(n - 1) : On(u, p) = On(s, p)
    BY <1>2, <1>4, <1>5, <1>6 DEF On
  <1>10. QED  BY <1>3, <1>8, <1>9 DEF u, t

(* Every page has as many chunks as it is cut into. *)
LEMMA PagesOfChunksFacts ==
    ASSUME NEW pages \in Seq(Nat)
    PROVE  /\ PagesOfChunks(pages) \in Seq(DOMAIN pages)
           /\ \A p \in DOMAIN pages : Cardinality(On(PagesOfChunks(pages), p)) = pages[p]
  <1> DEFINE N == Len(pages)
             T(p) == [i \in 1..pages[p] |-> p]
             seqs == [p \in DOMAIN pages |-> T(p)]
  <1>1. N \in Nat /\ DOMAIN pages = 1..N /\ \A p \in 1..N : pages[p] \in Nat
    BY LenProperties, ElementOfSeq
  <1>2. PagesOfChunks(pages) = FlattenSeq(seqs)
    BY DEF PagesOfChunks
  <1>3. \A p \in 1..N : T(p) \in Seq(Nat)
    BY <1>1
  <1>4. seqs \in Seq(Seq(Nat)) /\ Len(seqs) = N /\ \A p \in 1..N : seqs[p] = T(p)
    <2>1. seqs = [p \in 1..N |-> T(p)]
      BY <1>1
    <2> HIDE DEF T, N, seqs
    <2>2. seqs \in Seq(Seq(Nat)) /\ DOMAIN seqs = 1..N
      BY <1>1, <1>3, <2>1, IsASeq
    <2>3. Len(seqs) = N
      BY <1>1, <2>2, LenProperties
    <2>4. QED  BY <2>1, <2>2, <2>3
  <1> HIDE DEF seqs, N
  <1>5. CASE N = 0
    <2>1. FlattenSeq(seqs) = seqs
      BY <1>4, <1>5 DEF FlattenSeq
    <2>2. seqs = <<>> /\ DOMAIN pages = {}
      BY <1>1, <1>4, <1>5, EmptySeq
    <2>3. QED  BY <1>2, <2>1, <2>2
  <1>6. CASE N # 0
    <2>1. PICK g : Steps(seqs, N, g) /\ FlattenSeq(seqs) = g[N]
      BY <1>1, <1>4, <1>6, FlattenSteps
    <2> DEFINE Right(n) == g[n] \in Seq(1..n) /\ \A p \in 1..n : Cardinality(On(g[n], p)) = pages[p]
               Bad == {n \in 1..N : ~Right(n)}
    <2>2. \A n \in 1..N : g[n] = IF n = 1 THEN T(n) ELSE g[n - 1] \o T(n)
      BY <1>4, <2>1 DEF Steps
    <2>3. Bad = {}
      <3>1. SUFFICES ASSUME Bad # {} PROVE FALSE
        OBVIOUS
      <3>2. Bad \subseteq Nat
        BY <1>1
      <3>3. PICK n \in Bad : \A k \in Bad : n <= k
        BY <3>1, <3>2, LeastOf
      <3>4. n \in Nat \ {0} /\ n \in 1..N /\ ~Right(n) /\ pages[n] \in Nat
        BY <1>1, <3>3
      <3>5. ASSUME NEW s \in Seq(1..(n - 1)), g[n] = s \o T(n),
                   \A p \in 1..(n - 1) : Cardinality(On(s, p)) = pages[p]
            PROVE  FALSE
        <4>1. /\ s \o T(n) \in Seq(1..n) /\ Cardinality(On(s \o T(n), n)) = pages[n]
              /\ \A p \in 1..(n - 1) : On(s \o T(n), p) = On(s, p)
          BY <3>4, OnePageMore
        <4> HIDE DEF T
        <4>2. \A p \in 1..n : p = n \/ p \in 1..(n - 1)
          BY <3>4
        <4>3. \A p \in 1..n : Cardinality(On(g[n], p)) = pages[p]
          BY <3>5, <4>1, <4>2
        <4>4. QED  BY <3>4, <3>5, <4>1, <4>3
      <3>6. CASE n = 1
        <4>1. T(1) \in Seq(Nat)
          BY <1>3, <3>4, <3>6
        <4>2. <<>> \in Seq(1..0) /\ \A p \in 1..0 : Cardinality(On(<<>>, p)) = pages[p]
          OBVIOUS
        <4> HIDE DEF T
        <4>3. <<>> \o T(1) = T(1)
          BY <4>1, ConcatEmptySeq
        <4>4. g[1] = T(1)
          BY <2>2, <3>4, <3>6
        <4>5. g[n] = <<>> \o T(n) /\ n - 1 = 0
          BY <3>6, <4>3, <4>4
        <4>6. QED  BY <3>5, <4>2, <4>5
      <3>7. CASE n # 1
        <4>1. n - 1 \in 1..N /\ n - 1 \notin Bad
          BY <1>1, <3>3, <3>4, <3>7
        <4>2. g[n - 1] \in Seq(1..(n - 1)) /\ \A p \in 1..(n - 1) : Cardinality(On(g[n - 1], p)) = pages[p]
          BY <4>1
        <4>3. QED  BY <2>2, <3>4, <3>5, <3>7, <4>2
      <3>8. QED  BY <3>6, <3>7
    <2>4. Right(N) /\ N \in 1..N
      <3>1. N \in 1..N
        BY <1>1, <1>6
      <3>2. N \notin Bad
        BY <2>3
      <3>3. QED  BY <3>1, <3>2
    <2>5. QED  BY <1>1, <1>2, <2>1, <2>4
  <1>7. QED  BY <1>5, <1>6

LEMMA TrimmedFacts ==
    ASSUME NEW pages \in Seq(Nat)
    PROVE  /\ Trimmed(pages) \in Seq(Nat)
           /\ DOMAIN Trimmed(pages) \subseteq DOMAIN pages
           /\ \A p \in DOMAIN pages :
                IF p \in DOMAIN Trimmed(pages) THEN Trimmed(pages)[p] = pages[p] ELSE pages[p] = 0
  <1> DEFINE N == Len(pages)
             used == {p \in DOMAIN pages : pages[p] > 0}
             m == IF used = {} THEN 0 ELSE Max(used)
             t == SubSeq(pages, 1, m)
  <1>1. N \in Nat /\ DOMAIN pages = 1..N /\ \A p \in 1..N : pages[p] \in Nat
    BY LenProperties, ElementOfSeq
  <1>2. Trimmed(pages) = t
    BY DEF Trimmed
  <1>3. m \in 0..N /\ \A p \in 1..N : pages[p] > 0 => p <= m
    <2>1. CASE used = {}
      BY <1>1, <2>1
    <2>2. CASE used # {}
      <3> DEFINE down == {N - p : p \in used}
      <3>1. down \subseteq Nat /\ down # {}
        BY <1>1, <2>2
      <3>2. PICK d \in down : \A e \in down : d <= e
        BY <3>1, LeastOf
      <3>3. PICK x \in used : d = N - x
        BY <3>2
      <3>4. ASSUME NEW y \in used PROVE x >= y
        <4>1. N - y \in down
          OBVIOUS
        <4>2. N - x <= N - y /\ x \in 1..N /\ y \in 1..N
          BY <1>1, <3>2, <3>3, <3>4, <4>1
        <4>3. QED  BY <1>1, <4>2
      <3>5. Max(used) \in used /\ \A y \in used : Max(used) >= y
        BY <3>4, Zenon DEF Max
      <3>6. m = Max(used)
        BY <2>2
      <3> HIDE DEF m
      <3>7. m \in 1..N /\ \A p \in 1..N : pages[p] > 0 => m >= p
        BY <1>1, <3>5, <3>6
      <3>8. QED  BY <1>1, <3>7
    <2>3. QED  BY <2>1, <2>2
  <1> HIDE DEF m, N
  <1>4. \A i \in 1..m : pages[i] \in Nat
    BY <1>1, <1>3
  <1>5. t \in Seq(Nat) /\ Len(t) = m /\ \A i \in 1..m : t[i] = pages[i]
    BY <1>1, <1>3, <1>4, SubSeqProperties
  <1>6. DOMAIN t = 1..m
    BY <1>5, LenProperties
  <1> HIDE DEF t
  <1>7. \A p \in 1..N : IF p \in 1..m THEN t[p] = pages[p] ELSE pages[p] = 0
    BY <1>1, <1>3, <1>5
  <1>8. QED  BY <1>1, <1>2, <1>3, <1>5, <1>6, <1>7

(* What Extract makes of a file's text is true to its pages. *)
LEMMA ExtractedTrue ==
    ASSUME request \in Requests, pos \in Nat \ {0}, pos <= Len(Files), ~Blank,
           NEW c, c = IF Pages = Unset THEN Unpaged(Content.pages) ELSE PagesOfChunks(Pages)
    PROVE  /\ c \in Seq(Nat \union {Unset})
           /\ PageTrue([content |-> Content, type |-> ContentType, chunks |-> c])
  <1> DEFINE pages == Content.pages
             all == PagesOfChunks(pages)
             v == [content |-> Content, type |-> ContentType, chunks |-> c]
  <1>1. Content \in Contents /\ ContentType \in Extensions /\ pages \in Seq(Nat)
    BY FileFacts DEF Contents
  <1>2. Unset \notin Nat /\ Unset \notin Seq(Nat)
    BY UnsetAssumption
  <1>3. PICK n \in Nat : DOMAIN pages = 1..n
    BY <1>1, LenProperties
  <1>4. v.content = Content /\ v.type = ContentType /\ v.chunks = c
    OBVIOUS
  <1>5. PageTrue(v) <=>
          IF On(c, Unset) # {} THEN ContentType # "pdf" /\ On(c, Unset) = DOMAIN c
          ELSE \A p \in DOMAIN pages : Cardinality(On(c, p)) = pages[p]
    BY <1>4 DEF PageTrue, On
  <1> HIDE DEF v
  <1>6. ASSUME NEW t \in Seq(Nat), c = PagesOfChunks(t), DOMAIN t \subseteq DOMAIN pages,
               \A p \in DOMAIN pages : IF p \in DOMAIN t THEN t[p] = pages[p] ELSE pages[p] = 0
        PROVE  c \in Seq(Nat \union {Unset}) /\ PageTrue(v)
    <2>1. c \in Seq(DOMAIN t) /\ \A p \in DOMAIN t : Cardinality(On(c, p)) = t[p]
      BY <1>6, PagesOfChunksFacts
    <2>2. PICK m \in Nat : DOMAIN c = 1..m /\ c = [i \in 1..m |-> c[i]]
      BY <2>1, LenProperties
    <2>3. \A i \in 1..m : c[i] \in DOMAIN t /\ c[i] \in Nat
      <3>1. \A i \in 1..m : c[i] \in DOMAIN t
        BY <2>1, <2>2, ElementOfSeq, LenProperties
      <3>2. \A x \in DOMAIN t : x \in Nat
        BY <1>3, <1>6
      <3>3. QED  BY <3>1, <3>2
    <2>4. c \in Seq(Nat \union {Unset})
      <3>1. \A i \in 1..m : c[i] \in Nat \union {Unset}
        BY <2>3
      <3>2. [i \in 1..m |-> c[i]] \in Seq(Nat \union {Unset})
        BY <3>1, IsASeq
      <3>3. QED  BY <2>2, <3>2
    <2>5. On(c, Unset) = {}
      BY <1>2, <2>2, <2>3 DEF On
    <2>6. ASSUME NEW p \in DOMAIN pages PROVE Cardinality(On(c, p)) = pages[p]
      <3>1. CASE p \in DOMAIN t
        BY <1>6, <2>1, <3>1
      <3>2. CASE p \notin DOMAIN t
        <4>1. On(c, p) = {} /\ pages[p] = 0
          BY <1>6, <2>2, <2>3, <3>2 DEF On
        <4>2. QED  BY <4>1, FS_EmptySet
      <3>3. QED  BY <3>1, <3>2
    <2>7. QED  BY <1>5, <2>4, <2>5, <2>6
  <1>7. CASE ContentType = "pdf"
    <2>1. Pages = pages
      BY <1>7 DEF Pages
    <2> HIDE DEF pages
    <2>2. c = PagesOfChunks(pages)
      BY <1>1, <1>2, <2>1
    <2>3. QED  BY <1>1, <1>6, <2>2 DEF v
  <1>8. CASE ContentType = "word" /\ Pages # Unset
    <2>1. Pages = Trimmed(pages)
      BY <1>8 DEF Pages, WordPages
    <2>2. c = PagesOfChunks(Trimmed(pages))
      BY <1>8, <2>1
    <2> HIDE DEF pages
    <2>3. QED  BY <1>1, <1>6, <2>2, TrimmedFacts DEF v
  <1>9. CASE ContentType # "pdf" /\ Pages = Unset
    <2>1. /\ all \in Seq(DOMAIN pages)
          /\ \A p \in DOMAIN pages : Cardinality(On(all, p)) = pages[p]
      BY <1>1, PagesOfChunksFacts
    <2>2. PICK m \in Nat : DOMAIN all = 1..m
      BY <2>1, LenProperties
    <2>3. c = [i \in 1..m |-> Unset]
      BY <1>9, <2>2 DEF Unpaged
    <2>4. PICK p \in DOMAIN pages : pages[p] # 0
      BY DEF Blank
    <2>5. On(all, p) # {}
      BY <2>1, <2>4, FS_EmptySet
    <2>6. 1..m # {}
      BY <2>2, <2>5 DEF On
    <2>7. DOMAIN c = 1..m /\ On(c, Unset) = DOMAIN c
      BY <2>3 DEF On
    <2>8. c \in Seq(Nat \union {Unset})
      BY <2>3, IsASeq
    <2>9. QED  BY <1>5, <1>9, <2>6, <2>7, <2>8 DEF v
  <1>10. QED  BY <1>7, <1>8, <1>9 DEF Pages

-----------------------------------------------------------------------------
(* Types *)

(* TypeOK with the sequences' types; a file being handled is one of the     *)
(* request, was not refused and, once its text is extracted, was read.      *)
Typed ==
    /\ TypeOK
    /\ store \in [Names -> Stored] /\ before \in [Names -> Stored]
    /\ chunks \in Seq(Nat \union {Unset})
    /\ items \in Seq([file : Nat, ok : BOOLEAN])
    /\ calls \in Seq(LlmErrors)
    /\ pc \in Handling => pos <= Len(Files)
    /\ pc \in Accepted => ~Invalid
    /\ pc \in {"embed", "commit"} => ~Unsupported /\ ~Unreadable /\ attempt # 0

LEMMA InitTyped == Init => Typed
  <1> SUFFICES ASSUME Init PROVE Typed
    OBVIOUS
  <1>1. Files \in Seq(Range(Files)) /\ Len(Files) \in Nat
    BY RequestsAssumption, LenProperties DEF Init, Files
  <1>2. store \in [Names -> Stored] /\ \A n \in Names : store[n] = Unset
    BY DEF Init, Stored
  <1>3. pos \in 1..(Len(Files) + 1) /\ Len(items) = pos - 1
    BY <1>1 DEF Init
  <1>4. repeats \in 0..MaxRepeats /\ deletions \in 0..MaxDeletions /\ attempt \in 0..MaxAttempts
    BY LimitsAssumption DEF Init, FileInit
  <1>5. pc = "start" /\ before = store /\ request \in Requests /\ created \in BOOLEAN
        /\ lastError = Unset /\ error = Unset /\ answer = Unset
    BY DEF Init, FileInit
  <1>6. chunks = <<>> /\ items = <<>> /\ calls = <<>>
    BY DEF Init, FileInit
  <1>7. TypeOK
    BY <1>2, <1>3, <1>4, <1>5 DEF TypeOK
  <1>8. QED
    BY <1>1, <1>2, <1>5, <1>6, <1>7 DEF Typed, Handling, Accepted

(* One version more *)
LEMMA AppendVersion ==
    ASSUME NEW s \in Seq(StoredVersions), NEW v \in StoredVersions
    PROVE  /\ Append(s, v) \in Seq(StoredVersions) /\ Append(s, v) \notin {Unset, <<>>}
           /\ Len(s) \in Nat /\ Len(Append(s, v)) = Len(s) + 1
           /\ DOMAIN s = 1..Len(s) /\ DOMAIN Append(s, v) = 1..(Len(s) + 1)
           /\ Append(s, v)[Len(s) + 1] = v
           /\ \A i \in 1..Len(s) : Append(s, v)[i] = s[i]
  <1>1. /\ Append(s, v) \in Seq(StoredVersions) /\ Len(Append(s, v)) = Len(s) + 1
        /\ Len(s) \in Nat /\ Append(s, v)[Len(s) + 1] = v
        /\ \A i \in 1..Len(s) : Append(s, v)[i] = s[i]
    BY AppendProperties, LenProperties
  <1>2. Append(s, v) # <<>>
    BY <1>1
  <1>3. QED
    BY <1>1, <1>2, LenProperties, UnsetAssumption

(* A request goes on to the next file with one more entry in its answer. *)
LEMMA NextItem ==
    ASSUME Typed, pos <= Len(Files), NEW b \in BOOLEAN,
           items' = Append(items, [file |-> pos, ok |-> b]), pos' = pos + 1, request' = request
    PROVE  /\ items' \in Seq([file : Nat, ok : BOOLEAN]) /\ Len(items') = pos' - 1
           /\ Files' = Files /\ pos' \in 1..(Len(Files) + 1)
           /\ Len(items') = Len(items) + 1 /\ Len(items') = pos
           /\ items'[Len(items')] = [file |-> pos, ok |-> b]
  <1>1. Files \in Seq(Range(Files)) /\ Len(Files) \in Nat
    BY RequestsAssumption, LenProperties DEF Typed, TypeOK, Files
  <1>2. pos \in Nat /\ Len(items) = pos - 1 /\ [file |-> pos, ok |-> b] \in [file : Nat, ok : BOOLEAN]
    BY <1>1 DEF Typed, TypeOK
  <1>3. /\ items' \in Seq([file : Nat, ok : BOOLEAN]) /\ Len(items') = Len(items) + 1
        /\ items'[Len(items) + 1] = [file |-> pos, ok |-> b]
    BY <1>2, AppendProperties DEF Typed
  <1>4. QED  BY <1>1, <1>2, <1>3 DEF Files, Typed, TypeOK
(* What is found out about a file depends on the request and the position.  *)
LEMMA SameFile ==
    ASSUME request' = request, pos' = pos
    PROVE  /\ Files' = Files /\ File' = File /\ Content' = Content
           /\ Kind' = Kind /\ ContentType' = ContentType /\ (Invalid' <=> Invalid)
           /\ (Unsupported' <=> Unsupported) /\ (Unreadable' <=> Unreadable)
  <1>1. Files' = Files
    BY DEF Files
  <1>2. File' = File
    BY <1>1 DEF File
  <1>3. Content' = Content /\ Kind' = Kind
    BY <1>2 DEF Content, Kind
  <1>4. ContentType' = ContentType
    BY <1>2, <1>3 DEF ContentType
  <1>5. Invalid' <=> Invalid
    BY <1>2, <1>3 DEF Invalid, InvalidFile, InvalidImage, InvalidText, Unreceivable, Mismatched
  <1>6. Unsupported' <=> Unsupported
    BY <1>3, <1>4 DEF Unsupported, NoDocText
  <1>7. Unreadable' <=> Unreadable
    BY <1>3, <1>4 DEF Unreadable, Format
  <1>8. QED  BY <1>1, <1>2, <1>3, <1>4, <1>5, <1>6, <1>7

(* The part of Typed about the versions that are stored *)
Readable(s) == \A n \in Names : s[n] = Unset \/ \A i \in DOMAIN s[n] :
    s[n][i].content.readable \/ s[n][i].type = "text"

(* A document more, a document less and a version more *)
LEMMA StoreChanges ==
    ASSUME NEW s \in [Names -> Stored], Readable(s), NEW n \in Names
    PROVE  /\ \A v \in {Unset, <<>>} :
                [s EXCEPT ![n] = v] \in [Names -> Stored] /\ Readable([s EXCEPT ![n] = v])
           /\ \A v \in StoredVersions :
                s[n] # Unset /\ (v.content.readable \/ v.type = "text") =>
                  /\ [s EXCEPT ![n] = Append(@, v)] \in [Names -> Stored]
                  /\ Readable([s EXCEPT ![n] = Append(@, v)])
  <1>1. ASSUME NEW v \in {Unset, <<>>}
        PROVE  [s EXCEPT ![n] = v] \in [Names -> Stored] /\ Readable([s EXCEPT ![n] = v])
    <2>1. v \in Stored
      BY EmptySeq DEF Stored
    <2>2. v = Unset \/ DOMAIN v = {}
      OBVIOUS
    <2>3. QED  BY <2>1, <2>2 DEF Readable
  <1>2. ASSUME NEW v \in StoredVersions, s[n] # Unset, v.content.readable \/ v.type = "text"
        PROVE  /\ [s EXCEPT ![n] = Append(@, v)] \in [Names -> Stored]
               /\ Readable([s EXCEPT ![n] = Append(@, v)])
    <2> DEFINE t == [s EXCEPT ![n] = Append(@, v)]
    <2>1. s[n] \in Seq(StoredVersions)
      BY <1>2 DEF Stored
    <2>2. PICK k \in Nat : k = Len(s[n])
      BY <2>1, LenProperties
    <2>3. /\ Append(s[n], v) \in Seq(StoredVersions)
          /\ DOMAIN s[n] = 1..k /\ DOMAIN Append(s[n], v) = 1..(k + 1)
          /\ Append(s[n], v)[k + 1] = v /\ \A i \in 1..k : Append(s[n], v)[i] = s[n][i]
      BY <2>1, <2>2, AppendVersion
    <2>4. t[n] = Append(s[n], v) /\ t \in [Names -> Stored] /\ \A m \in Names \ {n} : t[m] = s[m]
      BY <2>3 DEF Stored
    <2> HIDE DEF t
    <2>5. ASSUME NEW i \in DOMAIN t[n] PROVE t[n][i].content.readable \/ t[n][i].type = "text"
      <3>1. CASE i = k + 1
        BY <1>2, <2>3, <2>4, <3>1
      <3>2. CASE i \in 1..k
        BY <1>2, <2>3, <2>4, <3>2 DEF Readable
      <3>3. QED  BY <2>3, <2>4, <2>5, <3>1, <3>2
    <2>6. Readable(t)
      BY <2>4, <2>5 DEF Readable
    <2>7. QED  BY <2>4, <2>6 DEF t
  <1>3. QED  BY <1>1, <1>2

LEMMA StepTyped == Typed /\ [Next]_vars => Typed'
  <1> SUFFICES ASSUME Typed, [Next]_vars PROVE Typed'
    OBVIOUS
  <1>1. /\ request \in Requests /\ Files \in Seq(Range(Files)) /\ Len(Files) \in Nat
        /\ pos \in Nat \ {0} /\ MaxAttempts \in Nat \ {0} /\ MaxRepeats \in Nat /\ MaxDeletions \in Nat
    BY RequestsAssumption, LimitsAssumption, LenProperties DEF Typed, TypeOK, Files
  <1>2. Readable(store)
    BY DEF Typed, TypeOK, Readable
  <1>3. TypeOK' <=>
          /\ (request \in Requests)' /\ Readable(store')
          /\ repeats' \in 0..MaxRepeats /\ deletions' \in 0..MaxDeletions
          /\ pos' \in 1..(Len(Files') + 1)
          /\ pc' \in {"start", "file", "answered"} \union Handling
          /\ created' \in BOOLEAN /\ attempt' \in 0..MaxAttempts
          /\ lastError' \in LlmErrors \union {Unset}
          /\ error' \in Reported \union {"other", Unset}
          /\ answer' \in Reported \union {"other", "items", "ok", Unset}
          /\ Len(items') = pos' - 1
    BY DEF TypeOK, Readable, Handling, Accepted
  <1>4. CASE UNCHANGED vars
    BY <1>4, SameFile DEF Typed, TypeOK, vars, client, file
  <1>5. CASE Begin
    <2>1. request' = request /\ pos' = pos
      BY <1>5 DEF Begin, client
    <2>2. TypeOK'
      BY <1>2, <1>3, <1>5, <2>1, SameFile DEF Begin, client, file, Typed, TypeOK, Reported
    <2>3. QED
      BY <1>5, <2>1, <2>2, SameFile DEF Begin, client, file, Typed, Handling, Accepted
  <1>6. CASE Build
    <2>1. request' = request /\ pos' = pos
      BY <1>6 DEF Build, client
    <2>2. TypeOK'
      <3>1. pc' \in Handling /\ error' \in {"domain", Unset}
        BY <1>6 DEF Build, Handling, Accepted
      <3>2. created' \in BOOLEAN /\ attempt' \in 0..MaxAttempts
        <4>1. created' = FALSE /\ attempt' = 0
          BY <1>6 DEF Build
        <4>2. attempt' \in 0..MaxAttempts
          BY <1>1, <4>1
        <4>3. QED  BY <4>1, <4>2, Zenon
      <3>3. Files' = Files
        BY <2>1, SameFile
      <3>4. QED
        BY <1>2, <1>3, <1>6, <2>1, <3>1, <3>2, <3>3 DEF Build, client, Typed, TypeOK, Reported
    <2>3. QED
      BY <1>6, <2>1, <2>2, SameFile DEF Build, client, Typed, Handling, Accepted
  <1>7. CASE Find
    <2>1. request' = request /\ pos' = pos /\ File.name \in Names
      BY <1>1, <1>7, FileFacts DEF Find, client, Typed, Handling, Accepted
    <2>2. store' \in [Names -> Stored] /\ Readable(store') /\ created' \in BOOLEAN
      <3>1. CASE store' = store /\ created' = created
        BY <1>2, <3>1 DEF Typed, TypeOK
      <3>2. CASE /\ created' = (Versions = Unset)
                 /\ store' = IF Versions = Unset THEN [store EXCEPT ![File.name] = <<>>] ELSE store
        <4>1. [store EXCEPT ![File.name] = <<>>] \in [Names -> Stored]
              /\ Readable([store EXCEPT ![File.name] = <<>>])
          BY <1>2, <2>1, StoreChanges DEF Typed
        <4>2. QED  BY <1>2, <3>2, <4>1 DEF Typed
      <3>3. QED  BY <1>7, <3>1, <3>2 DEF Find
    <2>3. TypeOK'
      BY <1>3, <1>7, <2>1, <2>2, SameFile
      DEF Find, FailWith, client, Typed, TypeOK, Reported, Handling, Accepted
    <2>4. QED
      BY <1>7, <2>1, <2>2, <2>3, SameFile DEF Find, FailWith, client, Typed, Handling, Accepted
  <1>8. CASE Compare
    <2>1. pos <= Len(Files) /\ store' = store
      BY <1>8 DEF Compare, Typed, Handling, Accepted
    <2>2. CASE Known(Versions)
      <3>1. /\ items' \in Seq([file : Nat, ok : BOOLEAN]) /\ Len(items') = pos' - 1
            /\ Files' = Files /\ pos' \in 1..(Len(Files) + 1)
        BY <1>8, <2>1, <2>2, NextItem DEF Compare, Succeed, client
      <3>2. TypeOK'
        BY <1>2, <1>3, <1>8, <2>1, <2>2, <3>1
        DEF Compare, Succeed, client, file, Typed, TypeOK
      <3>3. QED
        BY <1>8, <2>2, <3>1, <3>2 DEF Compare, Succeed, client, file, Typed, Handling, Accepted
    <2>3. CASE ~Known(Versions)
      <3>1. request' = request /\ pos' = pos
        BY <1>8, <2>3 DEF Compare, client
      <3>2. TypeOK'
        BY <1>2, <1>3, <1>8, <2>1, <2>3, <3>1, SameFile
        DEF Compare, client, file, Typed, TypeOK, Handling, Accepted
      <3>3. QED
        BY <1>8, <2>1, <2>3, <3>1, <3>2, SameFile
        DEF Compare, client, file, Typed, Handling, Accepted
    <2>4. QED  BY <2>2, <2>3
  <1>9. CASE Extract
    <2>1. request' = request /\ pos' = pos /\ store' = store /\ pos <= Len(Files)
      BY <1>9 DEF Extract, client, Typed, Handling, Accepted
    <2>2. chunks' \in Seq(Nat \union {Unset})
      BY <1>1, <1>9, <2>1, ExtractedTrue DEF Extract, Typed
    <2>3. TypeOK'
      BY <1>1, <1>2, <1>3, <1>9, <2>1, SameFile
      DEF Extract, FailWith, client, Typed, TypeOK, Reported, Handling, Accepted
    <2>4. QED
      BY <1>9, <2>1, <2>2, <2>3, SameFile DEF Extract, FailWith, client, Typed, Handling, Accepted
  <1>10. CASE EmbedSucceeds
    <2>1. request' = request /\ pos' = pos
      BY <1>10 DEF EmbedSucceeds, client
    <2>2. TypeOK'
      BY <1>2, <1>3, <1>10, <2>1, SameFile
      DEF EmbedSucceeds, client, file, Typed, TypeOK, Handling, Accepted
    <2>3. QED
      BY <1>10, <2>1, <2>2, SameFile DEF EmbedSucceeds, client, file, Typed, Handling, Accepted
  <1>11. CASE EmbedUnusable
    <2>1. request' = request /\ pos' = pos /\ store' = store /\ pc' = "cleanup"
          /\ error' \in {"config", "other", "empty"}
      BY <1>11 DEF EmbedUnusable, FailWith, client
    <2>2. TypeOK'
      BY <1>2, <1>3, <1>11, <2>1, SameFile
      DEF EmbedUnusable, client, Typed, TypeOK, Reported, LlmErrors, Handling, Accepted
    <2>3. QED
      BY <1>11, <2>1, <2>2, SameFile DEF EmbedUnusable, client, Typed, Handling, Accepted
  <1>12. CASE EmbedFails
    <2>1. request' = request /\ pos' = pos /\ store' = store /\ pc = "embed" /\ before' = before
          /\ created' = created /\ chunks' = chunks /\ items' = items /\ answer' = answer
          /\ repeats' = repeats /\ deletions' = deletions
      BY <1>12 DEF EmbedFails, client
    <2>2. PICK kind \in LlmErrors :
            /\ lastError' = kind /\ calls' = Append(calls, kind)
            /\ IF kind \notin Retryable \/ LastAttempt
               THEN FailWith(lastError') /\ UNCHANGED attempt
               ELSE attempt' = attempt + 1 /\ UNCHANGED <<pc, error>>
      <3>1. PICK message \in Messages :
              /\ lastError' = Classify(message) /\ calls' = Append(calls, Classify(message))
              /\ IF Classify(message) \notin Retryable \/ LastAttempt
                 THEN FailWith(lastError') /\ UNCHANGED attempt
                 ELSE attempt' = attempt + 1 /\ UNCHANGED <<pc, error>>
        BY <1>12 DEF EmbedFails
      <3>2. QED  BY <3>1, ClassifyFacts
    <2>3. calls' \in Seq(LlmErrors)
      BY <2>2, AppendProperties DEF Typed
    <2>4. attempt' \in 1..MaxAttempts
      BY <1>1, <2>1, <2>2 DEF Typed, TypeOK, LastAttempt
    <2>5. pc' \in {"embed", "cleanup"} /\ error' \in LlmErrors \union {"domain", "other", Unset}
      BY <2>1, <2>2 DEF FailWith, Typed, TypeOK, Reported
    <2>6. TypeOK'
      BY <1>2, <1>3, <2>1, <2>2, <2>4, <2>5, SameFile
      DEF Typed, TypeOK, Reported, Handling, Accepted
    <2>7. QED
      BY <1>1, <2>1, <2>3, <2>4, <2>5, <2>6, SameFile DEF Typed, Handling, Accepted
  <1>13. CASE Commit
    <2>1. pc = "commit" /\ pos <= Len(Files) /\ File.name \in Names /\ request' = request
      BY <1>1, <1>13, FileFacts DEF Commit, client, Typed, Handling, Accepted
    <2>2. CASE Versions # Unset /\ Succeed /\ UNCHANGED error
               /\ store' = [store EXCEPT ![File.name] =
                     Append(@, [content |-> Content, type |-> ContentType, chunks |-> chunks])]
      <3> DEFINE v == [content |-> Content, type |-> ContentType, chunks |-> chunks]
      <3>1. v \in StoredVersions /\ (v.content.readable \/ v.type = "text")
        BY <1>1, <2>1, FileFacts, ReadableFacts DEF StoredVersions, Typed, Accepted
      <3>2. store' \in [Names -> Stored] /\ Readable(store')
        BY <1>2, <2>1, <2>2, <3>1, StoreChanges DEF Versions, Typed
      <3>3. /\ items' \in Seq([file : Nat, ok : BOOLEAN]) /\ Len(items') = pos' - 1
            /\ Files' = Files /\ pos' \in 1..(Len(Files) + 1)
        BY <2>1, <2>2, NextItem DEF Succeed
      <3>4. TypeOK'
        BY <1>3, <1>13, <2>1, <2>2, <3>2, <3>3 DEF Commit, Succeed, client, Typed, TypeOK
      <3>5. QED
        BY <1>13, <2>2, <3>2, <3>3, <3>4 DEF Commit, Succeed, client, Typed, Handling, Accepted
    <2>3. CASE (FailWith("domain") \/ FailWith("other")) /\ UNCHANGED <<pos, store, items>>
      <3>1. TypeOK'
        BY <1>2, <1>3, <1>13, <2>1, <2>3, SameFile
        DEF Commit, FailWith, client, Typed, TypeOK, Reported, Handling, Accepted
      <3>2. QED
        BY <1>13, <2>1, <2>3, <3>1, SameFile DEF Commit, FailWith, client, Typed, Handling, Accepted
    <2>4. QED  BY <1>13, <2>2, <2>3 DEF Commit
  <1>14. CASE CleanUp
    <2>1. pos <= Len(Files) /\ File.name \in Names /\ request' = request
      BY <1>1, <1>14, FileFacts DEF CleanUp, client, Typed, Handling
    <2>2. store' \in [Names -> Stored] /\ Readable(store')
      <3>1. [store EXCEPT ![File.name] = Unset] \in [Names -> Stored]
            /\ Readable([store EXCEPT ![File.name] = Unset])
        BY <1>2, <2>1, StoreChanges DEF Typed
      <3>2. QED  BY <1>2, <1>14, <3>1 DEF CleanUp, Removed, Typed
    <2>3. CASE request.kind = "batch" /\ error \in Reported
      <3>1. /\ items' \in Seq([file : Nat, ok : BOOLEAN]) /\ Len(items') = pos' - 1
            /\ Files' = Files /\ pos' \in 1..(Len(Files) + 1)
        BY <1>14, <2>1, <2>3, NextItem DEF CleanUp
      <3>2. TypeOK'
        BY <1>3, <1>14, <2>1, <2>2, <2>3, <3>1 DEF CleanUp, client, file, Typed, TypeOK
      <3>3. QED
        BY <1>14, <2>2, <2>3, <3>1, <3>2 DEF CleanUp, client, file, Typed, Handling, Accepted
    <2>4. CASE ~(request.kind = "batch" /\ error \in Reported)
      <3>1. TypeOK'
        BY <1>3, <1>14, <2>1, <2>2, <2>4, SameFile DEF CleanUp, client, file, Typed, TypeOK
      <3>2. QED
        BY <1>14, <2>1, <2>2, <2>4, <3>1, SameFile DEF CleanUp, client, file, Typed, Handling, Accepted
    <2>5. QED  BY <2>3, <2>4
  <1>15. CASE Finish
    <2>1. request' = request /\ pos' = pos
      BY <1>15 DEF Finish, client
    <2>2. TypeOK'
      BY <1>2, <1>3, <1>15, <2>1, SameFile DEF Finish, client, file, Typed, TypeOK, Reported
    <2>3. QED
      BY <1>15, <2>1, <2>2, SameFile DEF Finish, client, file, Typed, Handling, Accepted
  <1>16. CASE Repeat
    <2>1. items' = <<>> /\ Files' = Files /\ pos' = 1
      BY <1>16 DEF Repeat, Files
    <2>2. TypeOK'
      BY <1>1, <1>2, <1>3, <1>16, <2>1 DEF Repeat, file, Typed, TypeOK
    <2>3. QED
      BY <1>16, <2>1, <2>2 DEF Repeat, file, Typed, Handling, Accepted
  <1>17. ASSUME NEW n \in Names, DeleteDocument(n) PROVE Typed'
    <2>1. request' = request /\ pos' = pos
      BY <1>17 DEF DeleteDocument
    <2>2. store' \in [Names -> Stored] /\ Readable(store') /\ before' \in [Names -> Stored]
      BY <1>2, <1>17, StoreChanges DEF DeleteDocument, Typed, Stored
    <2>3. TypeOK'
      BY <1>1, <1>3, <1>17, <2>1, <2>2, SameFile
      DEF DeleteDocument, file, Typed, TypeOK, Handling, Accepted
    <2>4. QED
      BY <1>17, <2>1, <2>2, <2>3, SameFile DEF DeleteDocument, file, Typed
  <1>18. QED
    BY <1>4, <1>5, <1>6, <1>7, <1>8, <1>9, <1>10, <1>11, <1>12, <1>13, <1>14, <1>15, <1>16, <1>17
    DEF Next

LEMMA AlwaysTyped == Spec => []Typed
  BY InitTyped, StepTyped, PTL DEF Spec

(* Whatever is requested and whatever fails, every variable keeps its type, *)
(* an answer has an entry for every file the request is through with, and   *)
(* nothing is stored of a file its parser cannot read (extract_from_bytes). *)
THEOREM TypeCorrect == Spec => []TypeOK
  <1>1. Typed => TypeOK
    BY DEF Typed
  <1>2. QED  BY <1>1, AlwaysTyped, PTL
-----------------------------------------------------------------------------
(* Embedding attempts *)

(* Before an attempt all earlier ones failed, each with an error that may   *)
(* pass; a file that is still accepted has not failed with anything.        *)
RetryInv ==
    /\ pc \in Accepted => error = Unset
    /\ pc \in {"find", "compare", "extract"} => calls = <<>>
    /\ pc \in {"embed", "commit"} =>
         Len(calls) = attempt - 1 /\ \A i \in 1..Len(calls) : calls[i] \in Retryable
    /\ RetriesAsPromised

LEMMA ErrorFacts == {"domain", "other", Unset} \intersect LlmErrors = {}
  <1>1. Rules \in Seq({"rate_limit", "auth", "timeout", "model_not_found",
                       "content_filter", "bad_request"})
    BY DEF Rules
  <1>2. \A i \in DOMAIN Rules : Rules[i] \notin {"domain", "other"}
    BY DEF Rules
  <1>3. {"domain", "other"} \intersect LlmErrors = {}
    BY <1>2 DEF LlmErrors, Range
  <1>4. QED  BY <1>3, UnsetAssumption

LEMMA StepRetry == Typed /\ RetryInv /\ [Next]_vars => RetryInv'
  <1> SUFFICES ASSUME Typed, RetryInv, [Next]_vars PROVE RetryInv'
    OBVIOUS
  <1>1. /\ MaxAttempts \in Nat \ {0} /\ calls \in Seq(LlmErrors) /\ Len(calls) \in Nat
        /\ attempt \in 0..MaxAttempts
    BY LimitsAssumption, LenProperties DEF Typed, TypeOK
  <1>2. {"domain", "other", Unset} \intersect LlmErrors = {}
    BY ErrorFacts
  <1>3. CASE calls' = calls /\ error' = error /\ pc' \notin Accepted
    BY <1>3 DEF RetryInv, RetriesAsPromised, Accepted
  <1>4. CASE UNCHANGED vars
    BY <1>4 DEF RetryInv, RetriesAsPromised, vars, file
  <1>5. CASE Build
    <2>1. calls' = <<>> /\ pc' \in {"cleanup", "find"} /\ error' \in {"domain", Unset}
          /\ (pc' = "find" => error' = Unset)
      BY <1>5 DEF Build
    <2>2. QED
      BY <1>1, <1>2, <2>1 DEF RetryInv, RetriesAsPromised, Accepted
  <1>6. CASE Find
    <2>1. calls' = calls /\ calls = <<>> /\ error = Unset
          /\ \/ pc' = "cleanup" /\ error' = "domain"
             \/ pc' = "compare" /\ error' = error
      BY <1>6 DEF Find, FailWith, RetryInv, Accepted
    <2>2. QED
      BY <1>1, <1>2, <2>1 DEF RetryInv, RetriesAsPromised, Accepted
  <1>7. CASE Compare
    <2>1. calls' = calls /\ calls = <<>> /\ error = Unset /\ error' = error
          /\ pc' \in {"file", "extract"}
      BY <1>7 DEF Compare, Succeed, file, RetryInv, Accepted
    <2>2. QED
      BY <1>1, <1>2, <2>1 DEF RetryInv, RetriesAsPromised, Accepted
  <1>8. CASE Extract
    <2>1. calls' = calls /\ calls = <<>> /\ error = Unset
          /\ \/ pc' = "cleanup" /\ error' \in {"domain", "other"}
             \/ pc' = "embed" /\ error' = error /\ attempt' = 1
      BY <1>8 DEF Extract, FailWith, RetryInv, Accepted
    <2>2. QED
      BY <1>1, <1>2, <2>1 DEF RetryInv, RetriesAsPromised, Accepted
  <1>9. CASE EmbedSucceeds
    <2>1. pc = "embed" /\ pc' = "commit" /\ calls' = calls /\ error' = error /\ attempt' = attempt
      BY <1>9 DEF EmbedSucceeds, file
    <2>2. QED
      BY <2>1 DEF RetryInv, RetriesAsPromised, Accepted
  <1>10. CASE EmbedUnusable
    <2>1. pc = "embed" /\ pc' = "cleanup" /\ calls' = calls /\ error' \in {"config", "other", "empty"}
      BY <1>10 DEF EmbedUnusable, FailWith
    <2>2. QED
      BY <1>2, <2>1 DEF RetryInv, RetriesAsPromised, Accepted
  <1>11. CASE EmbedFails
    <2>1. pc = "embed" /\ error = Unset /\ attempt # 0 /\ Len(calls) = attempt - 1
          /\ \A i \in 1..Len(calls) : calls[i] \in Retryable
      BY <1>11 DEF EmbedFails, RetryInv, Accepted, Typed
    <2>2. PICK kind \in LlmErrors :
            /\ lastError' = kind /\ calls' = Append(calls, kind)
            /\ IF kind \notin Retryable \/ LastAttempt
               THEN FailWith(lastError') /\ UNCHANGED attempt
               ELSE attempt' = attempt + 1 /\ UNCHANGED <<pc, error>>
      <3>1. PICK message \in Messages :
              /\ lastError' = Classify(message) /\ calls' = Append(calls, Classify(message))
              /\ IF Classify(message) \notin Retryable \/ LastAttempt
                 THEN FailWith(lastError') /\ UNCHANGED attempt
                 ELSE attempt' = attempt + 1 /\ UNCHANGED <<pc, error>>
        BY <1>11 DEF EmbedFails
      <3>2. QED  BY <3>1, ClassifyFacts
    <2>3. /\ calls' # <<>> /\ Len(calls') = attempt /\ calls'[attempt] = kind
          /\ \A i \in 1..(attempt - 1) : calls'[i] \in Retryable
      <3>1. /\ calls' \in Seq(LlmErrors) /\ Len(calls') = Len(calls) + 1
            /\ calls'[Len(calls) + 1] = kind /\ \A i \in 1..Len(calls) : calls'[i] = calls[i]
        BY <1>1, <2>2, AppendProperties
      <3>2. Len(calls) + 1 = attempt
        BY <1>1, <2>1
      <3>3. calls' # <<>>
        BY <1>1, <3>1
      <3>4. QED  BY <2>1, <3>1, <3>2, <3>3
    <2>4. CASE kind \notin Retryable \/ LastAttempt
      <3>1. pc' = "cleanup" /\ error' = kind /\ (kind \in Retryable => attempt = MaxAttempts)
        BY <2>2, <2>4 DEF FailWith, LastAttempt
      <3>2. RetriesAsPromised'
        BY <1>1, <2>3, <3>1 DEF RetriesAsPromised
      <3>3. QED
        BY <3>1, <3>2 DEF RetryInv, Accepted
    <2>5. CASE ~(kind \notin Retryable \/ LastAttempt)
      <3>1. pc' = "embed" /\ error' = Unset /\ attempt' = attempt + 1 /\ kind \in Retryable
            /\ attempt # MaxAttempts
        BY <2>1, <2>2, <2>5 DEF LastAttempt
      <3>2. \A i \in 1..attempt : i = attempt \/ i \in 1..(attempt - 1)
        BY <1>1
      <3>3. \A i \in 1..Len(calls') : calls'[i] \in Retryable
        BY <2>3, <3>1, <3>2
      <3>4. RetriesAsPromised'
        BY <1>1, <1>2, <2>3, <3>1 DEF RetriesAsPromised
      <3>5. Len(calls') = attempt' - 1
        BY <1>1, <2>3, <3>1
      <3>6. QED
        BY <3>1, <3>3, <3>4, <3>5 DEF RetryInv, Accepted
    <2>6. QED  BY <2>4, <2>5
  <1>12. CASE Commit
    <2>1. pc = "commit" /\ calls' = calls /\ pc' \in {"cleanup", "file"}
          /\ error' \in {"domain", "other", error} /\ error = Unset
      BY <1>12 DEF Commit, FailWith, Succeed, RetryInv, Accepted
    <2>2. QED
      BY <1>2, <2>1 DEF RetryInv, RetriesAsPromised, Accepted
  <1>13. ASSUME NEW n \in Names, DeleteDocument(n) PROVE RetryInv'
    BY <1>13 DEF DeleteDocument, file, RetryInv, RetriesAsPromised
  <1>14. CASE Begin
    BY <1>3, <1>14 DEF Begin, file, Accepted
  <1>15. CASE CleanUp
    BY <1>3, <1>15 DEF CleanUp, file, Accepted
  <1>16. CASE Finish
    BY <1>3, <1>16 DEF Finish, file, Accepted
  <1>17. CASE Repeat
    BY <1>3, <1>17 DEF Repeat, file, Accepted
  <1>18. QED
    BY <1>4, <1>5, <1>6, <1>7, <1>8, <1>9, <1>10, <1>11, <1>12, <1>13, <1>14, <1>15, <1>16, <1>17
    DEF Next

(* Whatever the provider's errors say, an embedding is tried MaxAttempts    *)
(* times at most, again only after an error that may pass, and the error    *)
(* that comes out is the last one (_embed_with_retry).                      *)
THEOREM RetriesKept == Spec => []RetriesAsPromised
  <1>1. Init => RetryInv
    BY UnsetAssumption, LimitsAssumption
    DEF Init, FileInit, RetryInv, RetriesAsPromised, Accepted, LlmErrors
  <1>2. RetryInv => RetriesAsPromised
    BY DEF RetryInv
  <1>3. QED  BY <1>1, <1>2, AlwaysTyped, StepRetry, PTL DEF Spec

-----------------------------------------------------------------------------
(* The pages of what is stored *)

PageInv ==
    /\ pc \in {"embed", "commit"} =>
         PageTrue([content |-> Content, type |-> ContentType, chunks |-> chunks])
    /\ PagesTrue

(* A document more, a document less and a version more, once again *)
LEMMA PagesKept ==
    ASSUME Typed, PagesTrue, NEW n \in Names
    PROVE  /\ \A v \in {Unset, <<>>} : store' = [store EXCEPT ![n] = v] => PagesTrue'
           /\ \A v \in StoredVersions :
                store[n] # Unset /\ PageTrue(v) /\ store' = [store EXCEPT ![n] = Append(@, v)]
                => PagesTrue'
  <1>1. ASSUME NEW v \in {Unset, <<>>}, store' = [store EXCEPT ![n] = v] PROVE PagesTrue'
    <2>1. store'[n] = v /\ (v = Unset \/ DOMAIN v = {}) /\ \A m \in Names \ {n} : store'[m] = store[m]
      BY <1>1 DEF Typed
    <2>2. QED  BY <2>1 DEF PagesTrue
  <1>2. ASSUME NEW v \in StoredVersions, store[n] # Unset, PageTrue(v),
               store' = [store EXCEPT ![n] = Append(@, v)]
        PROVE  PagesTrue'
    <2>1. store[n] \in Seq(StoredVersions)
      BY <1>2 DEF Stored, Typed
    <2>2. PICK k \in Nat : k = Len(store[n])
      BY <2>1, LenProperties
    <2>3. /\ DOMAIN store[n] = 1..k /\ DOMAIN Append(store[n], v) = 1..(k + 1)
          /\ Append(store[n], v)[k + 1] = v /\ \A i \in 1..k : Append(store[n], v)[i] = store[n][i]
      BY <2>1, <2>2, AppendVersion
    <2>4. store'[n] = Append(store[n], v) /\ \A m \in Names \ {n} : store'[m] = store[m]
      BY <1>2 DEF Typed
    <2>5. ASSUME NEW i \in DOMAIN store'[n] PROVE PageTrue(store'[n][i])
      <3>1. CASE i = k + 1
        BY <1>2, <2>3, <2>4, <3>1
      <3>2. CASE i \in 1..k
        BY <1>2, <2>3, <2>4, <3>2 DEF PagesTrue
      <3>3. QED  BY <2>3, <2>4, <2>5, <3>1, <3>2
    <2>6. QED  BY <2>4, <2>5 DEF PagesTrue
  <1>3. QED  BY <1>1, <1>2

LEMMA StepPages == Typed /\ PageInv /\ [Next]_vars => PageInv'
  <1> SUFFICES ASSUME Typed, PageInv, [Next]_vars PROVE PageInv'
    OBVIOUS
  <1>1. request \in Requests /\ pos \in Nat \ {0}
    BY DEF Typed, TypeOK
  <1>2. CASE store' = store /\ pc' \notin {"embed", "commit"}
    BY <1>2 DEF PageInv, PagesTrue
  <1>3. CASE /\ store' = store /\ pc \in {"embed", "commit"}
             /\ request' = request /\ pos' = pos /\ chunks' = chunks
    <2>1. Content' = Content /\ ContentType' = ContentType
      BY <1>3, SameFile
    <2>2. QED
      BY <1>3, <2>1 DEF PageInv, PagesTrue
  <1>4. CASE UNCHANGED vars
    BY <1>2, <1>3, <1>4 DEF vars, client, file
  <1>5. CASE Begin \/ Build \/ Compare \/ EmbedUnusable \/ Finish \/ Repeat
    BY <1>2, <1>5 DEF Begin, Build, Compare, Succeed, EmbedUnusable, FailWith, Finish, Repeat
  <1>6. CASE EmbedSucceeds \/ EmbedFails
    BY <1>3, <1>6 DEF EmbedSucceeds, EmbedFails, FailWith, client, file
  <1>7. CASE Find
    <2>1. File.name \in Names /\ pc' \in {"cleanup", "compare"}
      BY <1>1, <1>7, FileFacts DEF Find, FailWith, Typed, Handling, Accepted
    <2>2. store' = store \/ store' = [store EXCEPT ![File.name] = <<>>]
      BY <1>7 DEF Find
    <2>3. QED
      BY <1>2, <2>1, <2>2, PagesKept DEF PageInv
  <1>8. CASE Extract
    <2>1. request' = request /\ pos' = pos /\ store' = store /\ pos <= Len(Files)
      BY <1>8 DEF Extract, client, Typed, Handling, Accepted
    <2>2. CASE pc' = "cleanup"
      BY <1>2, <2>1, <2>2
    <2>3. CASE ~Blank /\ chunks' = IF Pages = Unset THEN Unpaged(Content.pages) ELSE PagesOfChunks(Pages)
      <3>1. PageTrue([content |-> Content, type |-> ContentType, chunks |-> chunks'])
        BY <1>1, <2>1, <2>3, ExtractedTrue
      <3>2. Content' = Content /\ ContentType' = ContentType
        BY <2>1, SameFile
      <3>3. QED
        BY <2>1, <3>1, <3>2 DEF PageInv, PagesTrue
    <2>4. QED  BY <1>8, <2>2, <2>3 DEF Extract, FailWith
  <1>9. CASE Commit
    <2>1. pc = "commit" /\ pos <= Len(Files) /\ File.name \in Names /\ pc' \in {"cleanup", "file"}
      BY <1>1, <1>9, FileFacts DEF Commit, FailWith, Succeed, Typed, Handling, Accepted
    <2>2. CASE store' = store
      BY <1>2, <2>1, <2>2
    <2>3. CASE /\ Versions # Unset
               /\ store' = [store EXCEPT ![File.name] =
                     Append(@, [content |-> Content, type |-> ContentType, chunks |-> chunks])]
      <3> DEFINE v == [content |-> Content, type |-> ContentType, chunks |-> chunks]
      <3>1. v \in StoredVersions /\ PageTrue(v)
        BY <1>1, <2>1, FileFacts DEF StoredVersions, Typed, PageInv
      <3>2. PagesTrue'
        BY <2>1, <2>3, <3>1, PagesKept DEF PageInv, Versions
      <3>3. QED  BY <2>1, <3>2 DEF PageInv
    <2>4. QED  BY <1>9, <2>2, <2>3 DEF Commit
  <1>10. CASE CleanUp
    <2>1. File.name \in Names /\ pc' \in {"file", "answered"}
      BY <1>1, <1>10, FileFacts DEF CleanUp, Typed, Handling
    <2>2. store' = store \/ store' = [store EXCEPT ![File.name] = Unset]
      BY <1>10 DEF CleanUp, Removed
    <2>3. QED
      BY <1>2, <2>1, <2>2, PagesKept DEF PageInv
  <1>11. ASSUME NEW n \in Names, DeleteDocument(n) PROVE PageInv'
    <2>1. request' = request /\ pos' = pos /\ chunks' = chunks /\ pc' = pc
      BY <1>11 DEF DeleteDocument, file
    <2>2. Content' = Content /\ ContentType' = ContentType
      BY <2>1, SameFile
    <2>3. PagesTrue'
      BY <1>11, PagesKept DEF DeleteDocument, PageInv
    <2>4. QED
      BY <2>1, <2>2, <2>3 DEF PageInv
  <1>12. QED
    BY <1>4, <1>5, <1>6, <1>7, <1>8, <1>9, <1>10, <1>11 DEF Next

(* Whatever pages a file has, and wherever blank ones are among them, every *)
(* chunk of it is stored with the page it is from, or none has a page and   *)
(* the file is no PDF (prepare_paged, pages_from_bytes).                    *)
THEOREM PagesStayTrue == Spec => []PagesTrue
  <1>1. Init => PageInv
    BY DEF Init, PageInv, PagesTrue
  <1>2. PageInv => PagesTrue
    BY DEF PageInv
  <1>3. QED  BY <1>1, <1>2, AlwaysTyped, StepPages, PTL DEF Spec
-----------------------------------------------------------------------------
(* No content twice *)

(* RepeatsAppendNothing of the documents in s; if the names differ, the     *)
(* version of a document is that of the request's file of its name.         *)
Once(s) == \A n \in Names : s[n] # Unset =>
    /\ Distinct => Len(s[n]) <= 1
    /\ \A i \in 1..(Len(s[n]) - 1) : s[n][i].content # s[n][i + 1].content
    /\ Distinct /\ s[n] # <<>> =>
         \A i \in DOMAIN Files : Files[i].name = n => s[n][1].content = Files[i].content

(* Whoever has compared the content with the latest version may append it:  *)
(* only a deletion can come between.                                        *)
OnceInv ==
    /\ Once(store)
    /\ pc \in {"extract", "embed", "commit"} => ~IsLatest(Versions)

LEMMA OnceLess ==
    ASSUME Typed, Once(store), NEW n \in Names, NEW v \in {Unset, <<>>}
    PROVE  Once([store EXCEPT ![n] = v])
  <1> DEFINE t == [store EXCEPT ![n] = v]
  <1>1. t[n] = v /\ \A m \in Names \ {n} : t[m] = store[m]
    BY DEF Typed
  <1>2. v # Unset => v = <<>> /\ Len(v) = 0
    BY EmptySeq
  <1> HIDE DEF t
  <1>3. ASSUME NEW m \in Names, t[m] # Unset
        PROVE  /\ Distinct => Len(t[m]) <= 1
               /\ \A i \in 1..(Len(t[m]) - 1) : t[m][i].content # t[m][i + 1].content
               /\ Distinct /\ t[m] # <<>> =>
                    \A i \in DOMAIN Files : Files[i].name = m => t[m][1].content = Files[i].content
    <2>1. CASE m = n
      BY <1>1, <1>2, <1>3, <2>1
    <2>2. CASE m # n
      <3>1. t[m] = store[m]
        BY <1>1, <2>2
      <3>2. /\ Distinct => Len(store[m]) <= 1
            /\ \A i \in 1..(Len(store[m]) - 1) : store[m][i].content # store[m][i + 1].content
            /\ Distinct /\ store[m] # <<>> =>
                 \A i \in DOMAIN Files : Files[i].name = m => store[m][1].content = Files[i].content
        BY <1>3, <3>1, Zenon DEF Once
      <3>3. QED  BY <3>1, <3>2, Zenon
    <2>3. QED  BY <2>1, <2>2
  <1>4. Once(t)
    BY <1>3, Zenon DEF Once
  <1>5. QED  BY <1>4 DEF t

LEMMA OnceMore ==
    ASSUME Typed, Once(store), pos <= Len(Files), Versions # Unset, ~IsLatest(Versions),
           NEW v \in StoredVersions, v.content = Content
    PROVE  Once([store EXCEPT ![File.name] = Append(@, v)])
  <1> DEFINE n == File.name
             t == [store EXCEPT ![n] = Append(@, v)]
  <1>1. n \in Names /\ pos \in DOMAIN Files
    <2>1. Files \in Seq(Range(Files)) /\ request \in Requests /\ pos \in Nat \ {0}
      BY RequestsAssumption DEF Typed, TypeOK, Files
    <2>2. n \in Names
      BY <2>1, FileFacts
    <2>3. QED  BY <2>1, <2>2, LenProperties
  <1>2. store[n] \in Seq(StoredVersions) /\ store[n] = Versions
    BY <1>1 DEF Typed, Stored, Versions
  <1>3. PICK k \in Nat : k = Len(store[n])
    BY <1>2, LenProperties
  <1>4. /\ Append(store[n], v) # Unset /\ Len(Append(store[n], v)) = k + 1
        /\ Append(store[n], v)[k + 1] = v /\ \A i \in 1..k : Append(store[n], v)[i] = store[n][i]
    BY <1>2, <1>3, AppendVersion
  <1>5. t[n] = Append(store[n], v) /\ \A m \in Names \ {n} : t[m] = store[m]
    BY <1>1 DEF Typed
  <1>6. k # 0 => store[n][k].content # Content
    <2>1. k # 0 => store[n] # <<>>
      BY <1>3, EmptySeq
    <2>2. QED  BY <1>2, <1>3, <2>1 DEF IsLatest
  <1>7. Distinct => k = 0
    <2>1. SUFFICES ASSUME Distinct, k # 0 PROVE FALSE
      OBVIOUS
    <2>2. k = 1 /\ store[n] # <<>>
      BY <1>1, <1>2, <1>3, <2>1, EmptySeq DEF Once
    <2>3. Files[pos].name = n /\ Files[pos].content = Content
      BY DEF File, Content
    <2>4. store[n][1].content = Content
      BY <1>1, <1>2, <2>1, <2>2, <2>3 DEF Once
    <2>5. QED  BY <1>6, <2>2, <2>4
  <1>8. ASSUME NEW i \in DOMAIN Files, Distinct, Files[i].name = n PROVE Files[i].content = Content
    <2>1. i = pos
      BY <1>1, <1>8 DEF Distinct, File
    <2>2. QED  BY <2>1 DEF File, Content
  <1> HIDE DEF t
  <1>9. ASSUME NEW m \in Names, t[m] # Unset
        PROVE  /\ Distinct => Len(t[m]) <= 1
               /\ \A i \in 1..(Len(t[m]) - 1) : t[m][i].content # t[m][i + 1].content
               /\ Distinct /\ t[m] # <<>> =>
                    \A i \in DOMAIN Files : Files[i].name = m => t[m][1].content = Files[i].content
    <2>1. CASE m = n
      <3>1. Distinct => Len(t[m]) <= 1
        BY <1>4, <1>5, <1>7, <2>1
      <3>2. ASSUME NEW i \in 1..k PROVE t[m][i].content # t[m][i + 1].content
        <4>1. CASE i = k
          <5>1. t[m][i] = store[n][k] /\ t[m][i + 1] = v
            BY <1>4, <1>5, <2>1, <4>1
          <5>2. QED  BY <1>6, <4>1, <5>1
        <4>2. CASE i # k
          <5>1. i \in 1..(k - 1) /\ i + 1 \in 1..k
            BY <4>2
          <5>2. t[m][i] = store[n][i] /\ t[m][i + 1] = store[n][i + 1]
            BY <1>4, <1>5, <2>1, <5>1
          <5>3. store[n][i].content # store[n][i + 1].content
            BY <1>1, <1>2, <1>3, <5>1 DEF Once
          <5>4. QED  BY <5>2, <5>3
        <4>3. QED  BY <4>1, <4>2
      <3>3. \A i \in 1..(Len(t[m]) - 1) : t[m][i].content # t[m][i + 1].content
        BY <1>4, <1>5, <2>1, <3>2
      <3>4. Distinct => t[m][1] = v
        BY <1>4, <1>5, <1>7, <2>1
      <3>5. QED  BY <1>8, <2>1, <3>1, <3>3, <3>4
    <2>2. CASE m # n
      <3>1. t[m] = store[m]
        BY <1>5, <2>2
      <3>2. /\ Distinct => Len(store[m]) <= 1
            /\ \A i \in 1..(Len(store[m]) - 1) : store[m][i].content # store[m][i + 1].content
            /\ Distinct /\ store[m] # <<>> =>
                 \A i \in DOMAIN Files : Files[i].name = m => store[m][1].content = Files[i].content
        BY <1>9, <3>1, Zenon DEF Once
      <3>3. QED  BY <3>1, <3>2, Zenon
    <2>3. QED  BY <2>1, <2>2
  <1>10. Once(t)
    BY <1>9, Zenon DEF Once
  <1>11. QED  BY <1>10 DEF t

LEMMA StepOnce == Typed /\ OnceInv /\ [Next]_vars => OnceInv'
  <1> SUFFICES ASSUME Typed, OnceInv, [Next]_vars PROVE OnceInv'
    OBVIOUS
  <1>1. request \in Requests /\ pos \in Nat \ {0}
    BY DEF Typed, TypeOK
  <1>2. request' = request
    BY DEF Next, Begin, Build, Find, Compare, Extract, EmbedSucceeds, EmbedUnusable, EmbedFails,
           Commit, CleanUp, Finish, Repeat, DeleteDocument, vars, client
  <1>3. Files' = Files /\ (Distinct' <=> Distinct)
    BY <1>2 DEF Files, Distinct
  <1>4. ASSUME Once(store') PROVE Once(store)'
    BY <1>3, <1>4, Zenon DEF Once
  <1>5. CASE store' = store /\ pc' \notin {"extract", "embed", "commit"}
    BY <1>4, <1>5 DEF OnceInv
  <1>6. CASE store' = store /\ pos' = pos /\ ~IsLatest(Versions)
    <2>1. File' = File /\ Content' = Content
      BY <1>2, <1>6, SameFile
    <2>2. ~IsLatest(Versions)'
      BY <1>6, <2>1 DEF Versions, IsLatest
    <2>3. QED  BY <1>4, <1>6, <2>2 DEF OnceInv
  <1>7. CASE UNCHANGED vars
    BY <1>5, <1>6, <1>7 DEF vars, OnceInv
  <1>8. CASE Begin \/ Build \/ EmbedUnusable \/ Finish \/ Repeat
    BY <1>5, <1>8 DEF Begin, Build, EmbedUnusable, FailWith, Finish, Repeat
  <1>9. CASE Compare
    BY <1>5, <1>6, <1>9 DEF Compare, Succeed, Known
  <1>10. CASE Extract \/ EmbedSucceeds \/ EmbedFails
    BY <1>6, <1>10 DEF Extract, EmbedSucceeds, EmbedFails, FailWith, OnceInv
  <1>11. CASE Find
    <2>1. File.name \in Names /\ pc' \in {"cleanup", "compare"}
      BY <1>1, <1>11, FileFacts DEF Find, FailWith, Typed, Handling, Accepted
    <2>2. store' = store \/ store' = [store EXCEPT ![File.name] = <<>>]
      BY <1>11 DEF Find
    <2>3. Once(store')
      BY <2>1, <2>2, OnceLess DEF OnceInv
    <2>4. QED
      BY <1>4, <2>1, <2>3 DEF OnceInv
  <1>12. CASE Commit
    <2>1. pc = "commit" /\ pos <= Len(Files) /\ pc' \in {"cleanup", "file"}
      BY <1>12 DEF Commit, FailWith, Succeed, Typed, Handling, Accepted
    <2>2. CASE store' = store
      BY <1>5, <2>1, <2>2
    <2>3. CASE /\ Versions # Unset
               /\ store' = [store EXCEPT ![File.name] =
                     Append(@, [content |-> Content, type |-> ContentType, chunks |-> chunks])]
      <3> DEFINE v == [content |-> Content, type |-> ContentType, chunks |-> chunks]
      <3>1. v \in StoredVersions /\ v.content = Content
        BY <1>1, <2>1, FileFacts DEF StoredVersions, Typed
      <3>2. Once(store')
        BY <2>1, <2>3, <3>1, OnceMore DEF OnceInv
      <3>3. QED  BY <1>4, <2>1, <3>2 DEF OnceInv
    <2>4. QED  BY <1>12, <2>2, <2>3 DEF Commit
  <1>13. CASE CleanUp
    <2>1. File.name \in Names /\ pc' \in {"file", "answered"}
      BY <1>1, <1>13, FileFacts DEF CleanUp, Typed, Handling
    <2>2. store' = store \/ store' = [store EXCEPT ![File.name] = Unset]
      BY <1>13 DEF CleanUp, Removed
    <2>3. Once(store')
      BY <2>1, <2>2, OnceLess DEF OnceInv
    <2>4. QED
      BY <1>4, <2>1, <2>3 DEF OnceInv
  <1>14. ASSUME NEW n \in Names, DeleteDocument(n) PROVE OnceInv'
    <2>1. pos' = pos /\ pc' = pc /\ store' = [store EXCEPT ![n] = Unset]
      BY <1>14 DEF DeleteDocument
    <2>2. File' = File /\ Content' = Content
      BY <1>2, <2>1, SameFile
    <2>3. Once(store')
      BY <2>1, OnceLess DEF OnceInv
    <2>4. ASSUME pc \in {"extract", "embed", "commit"} PROVE ~IsLatest(Versions)'
      <3>1. File.name \in Names /\ ~IsLatest(Versions)
        BY <1>1, <2>4, FileFacts DEF OnceInv, Typed, Handling, Accepted
      <3>2. store'[File.name] \in {Unset, store[File.name]}
        BY <2>1, <3>1 DEF Typed
      <3>3. QED
        BY <2>2, <3>1, <3>2 DEF Versions, IsLatest
    <2>5. QED
      BY <1>4, <2>1, <2>3, <2>4 DEF OnceInv
  <1>15. QED
    BY <1>7, <1>8, <1>9, <1>10, <1>11, <1>12, <1>13, <1>14 DEF Next

(* However often a request is sent again and whatever part of it failed, no *)
(* version repeats the one before it, and if the names of its files differ  *)
(* no document gets a second version (add_version).                         *)
THEOREM RepeatsAreIdempotent == Spec => []RepeatsAppendNothing
  <1>1. Init => OnceInv
    BY DEF Init, OnceInv, Once
  <1>2. OnceInv => RepeatsAppendNothing
    BY Zenon DEF OnceInv, Once, RepeatsAppendNothing
  <1>3. QED  BY <1>1, <1>2, AlwaysTyped, StepOnce, PTL DEF Spec

-----------------------------------------------------------------------------
(* What a failed file leaves *)

(* While a file is handled, nothing but the document it created without     *)
(* versions differs from what was there before it.                          *)
BeforeInv == pc \in Handling =>
    /\ pc = "find" => ~created
    /\ created => before[File.name] = Unset
    /\ store = before \/ (created /\ store = [before EXCEPT ![File.name] = <<>>])

LEMMA StepBefore == Typed /\ BeforeInv /\ [Next]_vars => BeforeInv'
  <1> SUFFICES ASSUME Typed, BeforeInv, [Next]_vars PROVE BeforeInv'
    OBVIOUS
  <1>1. request \in Requests /\ pos \in Nat \ {0}
    BY DEF Typed, TypeOK
  <1>2. CASE pc' \notin Handling
    BY <1>2 DEF BeforeInv
  <1>3. CASE /\ pc \in Handling /\ request' = request /\ pos' = pos /\ created' = created
             /\ store' = store /\ before' = before /\ (pc' = "find" => pc = "find")
    <2>1. File' = File
      BY <1>3, SameFile
    <2>2. QED  BY <1>3, <2>1 DEF BeforeInv
  <1>4. CASE UNCHANGED vars
    BY <1>2, <1>3, <1>4 DEF vars, client, file
  <1>5. CASE Begin \/ Finish \/ Repeat \/ CleanUp
    BY <1>2, <1>5 DEF Begin, Finish, Repeat, CleanUp, Handling, Accepted
  <1>6. CASE Build
    <2>1. created' = FALSE /\ store' = before'
      BY <1>6 DEF Build
    <2>2. QED  BY <2>1 DEF BeforeInv
  <1>7. CASE Find
    <2>1. /\ request' = request /\ pos' = pos /\ before' = before /\ pc = "find"
          /\ pc' \in {"compare", "cleanup"}
      BY <1>7 DEF Find, FailWith, client
    <2>2. File' = File
      BY <2>1, SameFile
    <2>3. ~created /\ store = before
      BY <2>1 DEF BeforeInv, Handling, Accepted
    <2>4. CASE store' = store /\ (created' <=> FALSE)
      BY <2>1, <2>3, <2>4 DEF BeforeInv
    <2>5. CASE Versions = Unset /\ store' = [store EXCEPT ![File.name] = <<>>] /\ (created' <=> TRUE)
      <3>1. before'[File.name] = Unset /\ store' = [before' EXCEPT ![File.name] = <<>>]
        BY <2>1, <2>3, <2>5 DEF Versions
      <3>2. QED  BY <2>1, <2>2, <2>5, <3>1, Zenon DEF BeforeInv
    <2>6. CASE FailWith("domain") /\ UNCHANGED <<store, created>>
      BY <2>3, <2>4, <2>6
    <2>7. CASE /\ created' = (Versions = Unset)
               /\ store' = IF Versions = Unset THEN [store EXCEPT ![File.name] = <<>>] ELSE store
      <3>1. CASE Versions = Unset
        <4>1. created' <=> TRUE
          BY <2>7, <3>1, Zenon
        <4>2. QED  BY <2>5, <2>7, <3>1, <4>1
      <3>2. CASE Versions # Unset
        <4>1. created' <=> FALSE
          BY <2>7, <3>2, Zenon
        <4>2. QED  BY <2>4, <2>7, <3>2, <4>1
      <3>3. QED  BY <3>1, <3>2
    <2>8. QED  BY <1>7, <2>6, <2>7 DEF Find
  <1>8. CASE Compare
    BY <1>2, <1>3, <1>8 DEF Compare, Succeed, client, file, Handling, Accepted
  <1>9. CASE Extract \/ EmbedSucceeds \/ EmbedUnusable \/ EmbedFails
    BY <1>3, <1>9 
    DEF Extract, EmbedSucceeds, EmbedUnusable, EmbedFails, FailWith, client, file, Handling, Accepted
  <1>10. CASE Commit
    BY <1>2, <1>3, <1>10 DEF Commit, Succeed, FailWith, client, Handling, Accepted
  <1>11. ASSUME NEW n \in Names, DeleteDocument(n) PROVE BeforeInv'
    <2>1. /\ File' = File /\ created' = created /\ pc' = pc
          /\ store' = [store EXCEPT ![n] = Unset] /\ before' = [before EXCEPT ![n] = Unset]
      BY <1>11, SameFile DEF DeleteDocument, file
    <2>2. SUFFICES ASSUME pc \in Handling
                   PROVE  /\ pc = "find" => ~created
                          /\ created => before'[File.name] = Unset
                          /\ \/ store' = before'
                             \/ created /\ store' = [before' EXCEPT ![File.name] = <<>>]
      BY <2>1, Zenon DEF BeforeInv
    <2>3. File.name \in Names
      BY <1>1, <2>2, FileFacts DEF Typed, Handling
    <2>4. before'[File.name] \in {Unset, before[File.name]}
      BY <2>1, <2>3 DEF Typed
    <2>5. CASE store = before
      BY <2>1, <2>2, <2>4, <2>5 DEF BeforeInv
    <2>6. CASE created /\ store = [before EXCEPT ![File.name] = <<>>]
      <3>1. CASE n = File.name
        <4>1. store' = before'
          BY <2>1, <2>3, <2>6, <3>1 DEF Typed
        <4>2. QED  BY <2>2, <2>4, <4>1 DEF BeforeInv
      <3>2. CASE n # File.name
        <4>1. store' = [before' EXCEPT ![File.name] = <<>>]
          BY <2>1, <2>3, <2>6, <3>2 DEF Typed
        <4>2. QED  BY <2>2, <2>4, <2>6, <4>1 DEF BeforeInv
      <3>3. QED  BY <3>1, <3>2
    <2>7. QED  BY <2>2, <2>5, <2>6 DEF BeforeInv
  <1>12. QED
    BY <1>4, <1>5, <1>6, <1>7, <1>8, <1>9, <1>10, <1>11 DEF Next
(* What ItemsTruthful says of a step *)
Truthful ==
    Len(items') > Len(items) =>
      /\ items'[Len(items')].file = pos /\ Len(items') = pos
      /\ items'[Len(items')].ok => IsLatest(store'[File.name])
      /\ ~items'[Len(items')].ok =>
           \/ store' = before
           \/ before[File.name] = Unset /\ store' = [before EXCEPT ![File.name] = <<>>]

LEMMA StepTruthful == Typed /\ BeforeInv /\ [Next]_vars => Truthful
  <1> SUFFICES ASSUME Typed, BeforeInv, [Next]_vars PROVE Truthful
    OBVIOUS
  <1>1. request \in Requests /\ pos \in Nat \ {0} /\ Len(items) \in Nat
    BY LenProperties DEF Typed, TypeOK
  <1>2. CASE items' = items
    BY <1>1, <1>2 DEF Truthful
  <1>3. CASE Compare
    <2>1. CASE ~Known(Versions)
      BY <1>2, <1>3, <2>1 DEF Compare
    <2>2. CASE Known(Versions)
      <3>1. pos <= Len(Files) /\ request' = request
        BY <1>3 DEF Compare, client, Typed, Handling, Accepted
      <3>2. /\ Len(items') = pos /\ items'[Len(items')] = [file |-> pos, ok |-> TRUE]
        BY <1>3, <2>2, <3>1, NextItem DEF Compare, Succeed
      <3>3. IsLatest(store'[File.name])
        BY <1>3, <2>2 DEF Compare, Known, Versions
      <3>4. QED  BY <3>2, <3>3 DEF Truthful
    <2>3. QED  BY <2>1, <2>2
  <1>4. CASE Commit
    <2>1. pos <= Len(Files) /\ request' = request
      BY <1>4 DEF Commit, client, Typed, Handling, Accepted
    <2>2. CASE /\ Versions # Unset /\ Succeed
               /\ store' = [store EXCEPT ![File.name] =
                     Append(@, [content |-> Content, type |-> ContentType, chunks |-> chunks])]
      <3> DEFINE v == [content |-> Content, type |-> ContentType, chunks |-> chunks]
      <3>1. /\ Len(items') = pos /\ items'[Len(items')] = [file |-> pos, ok |-> TRUE]
        BY <2>1, <2>2, NextItem DEF Succeed
      <3>2. File.name \in Names /\ v \in StoredVersions
        BY <1>1, <2>1, FileFacts DEF StoredVersions, Typed
      <3>3. Versions \in Seq(StoredVersions) /\ store'[File.name] = Append(Versions, v)
        BY <2>2, <3>2 DEF Versions, Typed, Stored
      <3>4. IsLatest(Append(Versions, v))
        <4>1. v.content = Content
          OBVIOUS
        <4> HIDE DEF v
        <4>2. /\ Append(Versions, v) \notin {Unset, <<>>}
              /\ Append(Versions, v)[Len(Append(Versions, v))] = v
          BY <3>2, <3>3, AppendVersion
        <4>3. QED  BY <4>1, <4>2 DEF IsLatest
      <3>5. QED  BY <3>1, <3>3, <3>4 DEF Truthful
    <2>3. QED  BY <1>2, <1>4, <2>2 DEF Commit
  <1>5. CASE CleanUp
    <2>1. pos <= Len(Files) /\ request' = request /\ pc \in Handling /\ File.name \in Names
      BY <1>1, <1>5, FileFacts DEF CleanUp, client, Typed, Handling
    <2>2. CASE request.kind = "batch" /\ error \in Reported
      <3>1. /\ Len(items') = pos /\ items'[Len(items')] = [file |-> pos, ok |-> FALSE]
        BY <1>5, <2>1, <2>2, NextItem DEF CleanUp
      <3>2. store' = store \/ (created /\ store' = [store EXCEPT ![File.name] = Unset])
        <4>1. store' \in Removed
          BY <1>5 DEF CleanUp
        <4>2. CASE created
          BY <4>1, <4>2 DEF Removed
        <4>3. CASE ~created
          BY <4>1, <4>3 DEF Removed
        <4>4. QED  BY <4>2, <4>3
      <3>3. /\ created => before[File.name] = Unset
            /\ store = before \/ (created /\ store = [before EXCEPT ![File.name] = <<>>])
        BY <2>1 DEF BeforeInv
      <3>4. created /\ store' = [store EXCEPT ![File.name] = Unset] => store' = before
        BY <2>1, <3>3 DEF Typed
      <3>5. \/ store' = before
            \/ before[File.name] = Unset /\ store' = [before EXCEPT ![File.name] = <<>>]
        BY <3>2, <3>3, <3>4
      <3>6. QED  BY <3>1, <3>5 DEF Truthful
    <2>3. QED  BY <1>2, <1>5, <2>2 DEF CleanUp
  <1>6. CASE Repeat
    <2>1. Len(items') = 0
      BY <1>6 DEF Repeat
    <2>2. QED  BY <1>1, <2>1 DEF Truthful
  <1>7. QED
    BY <1>2, <1>3, <1>4, <1>5, <1>6
    DEF Next, Begin, Build, Find, Extract, EmbedSucceeds, EmbedUnusable, EmbedFails, Finish,
        DeleteDocument, vars

(* An entry of a batch's answer says what happened to its file: it is ok    *)
(* only if the file is the latest version of its document, and a file that  *)
(* failed, at whatever step, left nothing but perhaps its empty document    *)
(* (upload_documents_batch, upload_new_document).                           *)
THEOREM ItemsStayTruthful == Spec => ItemsTruthful
  <1>1. Init => BeforeInv
    BY DEF Init, BeforeInv, Handling, Accepted
  <1>2. Truthful =>
          (Len(items') > Len(items) =>
            LET item == items'[Len(items')]
            IN /\ item.file = pos /\ Len(items') = pos
               /\ item.ok => IsLatest(store'[File.name])
               /\ ~item.ok =>
                    \/ store' = before
                    \/ before[File.name] = Unset /\ store' = [before EXCEPT ![File.name] = <<>>])
    BY Zenon DEF Truthful
  <1>3. QED  BY <1>1, <1>2, AlwaysTyped, StepBefore, StepTruthful, PTL DEF Spec, ItemsTruthful
=============================================================================
