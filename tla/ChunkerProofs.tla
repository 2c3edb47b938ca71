----------------------------- MODULE ChunkerProofs -----------------------------
(***************************************************************************)
(* Proofs about Chunker for every text, wherever its blanks are, and every *)
(* max_chars, overlap and minimum.                                         *)
(***************************************************************************)
EXTENDS Chunker, SequenceTheorems, WellFoundedInduction, TLAPS

Strings == Seq(Characters)
Blocks == Strings \ {<<>>}

-----------------------------------------------------------------------------
(* What the helpers return *)

LEMMA CharsConcat ==
    ASSUME NEW S, NEW s \in Seq(S), NEW t \in Seq(S)
    PROVE  Chars(s \o t) = Chars(s) \union Chars(t)
  <1>1. /\ s \o t \in Seq(S) /\ Len(s \o t) = Len(s) + Len(t)
        /\ \A i \in 1..(Len(s) + Len(t)) :
             (s \o t)[i] = IF i <= Len(s) THEN s[i] ELSE t[i - Len(s)]
    BY ConcatProperties
  <1>2. DOMAIN (s \o t) = 1..(Len(s) + Len(t)) /\ DOMAIN s = 1..Len(s)
        /\ DOMAIN t = 1..Len(t) /\ Len(s) \in Nat /\ Len(t) \in Nat
    BY <1>1, LenProperties
  <1>3. \A x \in Chars(s \o t) : x \in Chars(s) \union Chars(t)
    BY <1>1, <1>2 DEF Chars
  <1>4. \A i \in 1..Len(s) : (s \o t)[i] = s[i] /\ i \in DOMAIN (s \o t)
    BY <1>1, <1>2
  <1>5. \A i \in 1..Len(t) : (s \o t)[i + Len(s)] = t[i] /\ i + Len(s) \in DOMAIN (s \o t)
    BY <1>1, <1>2
  <1>6. \A x \in Chars(s) : x \in Chars(s \o t)
    BY <1>2, <1>4, Zenon DEF Chars
  <1>7. \A x \in Chars(t) : x \in Chars(s \o t)
    BY <1>2, <1>5, Zenon DEF Chars
  <1>8. QED
    BY <1>3, <1>6, <1>7

(* The characters of several strings are those of the one and of the other. *)
LEMMA AllCharsConcat ==
    ASSUME NEW S, NEW ss \in Seq(S), NEW tt \in Seq(S)
    PROVE  AllChars(ss \o tt) = AllChars(ss) \union AllChars(tt)
  <1>1. \A uu : AllChars(uu) = UNION {Chars(u) : u \in Chars(uu)}
    BY DEF AllChars, Chars
  <1>2. Chars(ss \o tt) = Chars(ss) \union Chars(tt)
    BY CharsConcat
  <1>3. QED
    BY <1>1, <1>2

LEMMA AllCharsOne ==
    ASSUME NEW s
    PROVE  AllChars(<<s>>) = Chars(s)
  BY DEF AllChars

LEMMA CharsTwo ==
    ASSUME NEW S, NEW s \in S, NEW t \in S
    PROVE  <<s, t>> \in Seq(S) /\ Chars(<<s, t>>) = {s, t}
  <1> DEFINE two == <<s, t>>
  <1>1. two \in Seq(S) /\ Len(two) = 2 /\ two[1] = s /\ two[2] = t
    OBVIOUS
  <1> HIDE DEF two
  <1>2. DOMAIN two = {1, 2}
    BY <1>1, LenProperties
  <1>3. Chars(two) = {s, t}
    BY <1>1, <1>2 DEF Chars
  <1>4. QED  BY <1>1, <1>3 DEF two

LEMMA AllCharsNone == AllChars(<<>>) = {} /\ Chars(<<>>) = {}
  BY DEF AllChars, Chars

(* From position k on: Len(s) - k characters, and with the k first ones all. *)
LEMMA FromFacts ==
    ASSUME NEW s \in Strings, NEW k \in Int
    PROVE  /\ From(s, k) \in Strings
           /\ k \in 0..Len(s) => Len(From(s, k)) = Len(s) - k
           /\ k < 0 /\ Len(s) + k >= 0 => Len(From(s, k)) = 0 - k
           /\ k < 0 => Len(From(s, k)) <= 0 - k
           /\ k >= Len(s) => Len(From(s, k)) = 0
  <1> DEFINE start == IF k >= 0 THEN k ELSE IF Len(s) + k >= 0 THEN Len(s) + k ELSE 0
  <1>1. start \in Nat /\ Len(s) \in Nat
    BY LenProperties DEF Strings
  <1>0. From(s, k) = SubSeq(s, start + 1, Len(s))
    BY DEF From
  <1>6. /\ k \in 0..Len(s) => start = k
        /\ k < 0 /\ Len(s) + k >= 0 => start = Len(s) + k
        /\ k < 0 /\ Len(s) + k < 0 => start = 0
        /\ k >= Len(s) => start = k
    BY <1>1
  <1> HIDE DEF start
  <1>2. \A i \in (start + 1)..Len(s) : s[i] \in Characters
    BY <1>1, ElementOfSeq DEF Strings
  <1>3. /\ SubSeq(s, start + 1, Len(s)) \in Strings
        /\ Len(SubSeq(s, start + 1, Len(s)))
             = IF start + 1 <= Len(s) THEN Len(s) - (start + 1) + 1 ELSE 0
    BY <1>1, <1>2, SubSeqProperties DEF Strings
  <1>4. From(s, k) \in Strings /\ Len(From(s, k)) = IF start < Len(s) THEN Len(s) - start ELSE 0
    BY <1>0, <1>1, <1>3
  <1>5. QED
    BY <1>1, <1>4, <1>6

(* The first m characters of a string. *)
LEMMA PrefixFacts ==
    ASSUME NEW s \in Strings, NEW m \in Nat, m <= Len(s)
    PROVE  SubSeq(s, 1, m) \in Strings /\ Len(SubSeq(s, 1, m)) = m
  <1>1. \A i \in 1..m : s[i] \in Characters
    BY ElementOfSeq DEF Strings
  <1>2. QED
    BY <1>1, SubSeqProperties DEF Strings

(* A cut that keeps an overlap loses nothing. *)
LEMMA CutCovers ==
    ASSUME NEW s \in Strings, NEW m \in Nat, NEW o \in 1..m, m <= Len(s)
    PROVE  Chars(s) \subseteq Chars(SubSeq(s, 1, m)) \union Chars(From(s, m - o))
  <1> SUFFICES ASSUME NEW i \in 1..Len(s)
               PROVE  s[i] \in Chars(SubSeq(s, 1, m)) \union Chars(From(s, m - o))
    BY LenProperties DEF Chars, Strings
  <1>1. Len(s) \in Nat /\ m - o \in Nat /\ \A j \in 1..Len(s) : s[j] \in Characters
    BY LenProperties, ElementOfSeq DEF Strings
  <1>2. CASE i <= m
    <2>1. /\ SubSeq(s, 1, m) \in Strings /\ Len(SubSeq(s, 1, m)) = m
          /\ SubSeq(s, 1, m)[i] = s[i]
      BY <1>1, <1>2, SubSeqProperties DEF Strings
    <2>2. i \in DOMAIN SubSeq(s, 1, m)
      BY <2>1, <1>2, LenProperties DEF Strings
    <2>3. QED  BY <2>1, <2>2 DEF Chars
  <1>3. CASE i > m
    <2> DEFINE j == i - (m - o)
               f == SubSeq(s, (m - o) + 1, Len(s))
    <2>1. From(s, m - o) = f
      BY <1>1 DEF From
    <2>2. \A q \in ((m - o) + 1)..Len(s) : s[q] \in Characters
      BY <1>1
    <2>3. /\ f \in Strings
          /\ Len(f) = IF (m - o) + 1 <= Len(s) THEN Len(s) - ((m - o) + 1) + 1 ELSE 0
          /\ \A q \in 1..(Len(s) - ((m - o) + 1) + 1) : f[q] = s[(m - o) + 1 + q - 1]
      BY <1>1, <2>2, SubSeqProperties DEF Strings
    <2> HIDE DEF f
    <2>4. j \in 1..Len(f) /\ f[j] = s[i]
      BY <1>1, <1>3, <2>3
    <2>5. j \in DOMAIN f
      BY <2>3, <2>4, LenProperties DEF Strings
    <2>6. QED  BY <2>1, <2>4, <2>5 DEF Chars
  <1>4. QED  BY <1>1, <1>2, <1>3

(* A set of naturals has a least element. *)
Below == {p \in Nat \X Nat : p[1] < p[2]}
LEMMA BelowWellFounded == IsWellFoundedOn(Below, Nat)
  BY NatLessThanWellFounded, Zenon DEF OpToRel, Below

LEMMA LeastOf ==
    ASSUME NEW S, S \subseteq Nat, S # {}
    PROVE  \E j \in S : \A k \in S : j <= k
  <1>1. PICK j \in S : \A k \in S : ~(<<k, j>> \in Below)
    BY BelowWellFounded, WFMin
  <1>2. \A k \in S : ~(k < j)
    BY <1>1 DEF Below
  <1>3. QED  BY <1>2

(* The tail kept of a string is at most n characters, or the whole string   *)
(* if that is no longer or n is 0.                                          *)
LEMMA TailFacts ==
    ASSUME NEW s \in Strings, NEW n \in Nat
    PROVE  /\ TailOverlap(s, n) \in Strings
           /\ n # 0 => Len(TailOverlap(s, n)) <= n
           /\ Len(s) <= n => TailOverlap(s, n) = s
  <1>1. CASE n = 0 \/ Len(s) <= n
    BY <1>1 DEF TailOverlap
  <1>2. CASE ~(n = 0 \/ Len(s) <= n)
    <2> DEFINE snippet == From(s, -n)
    <2>1. Len(s) \in Nat /\ n > 0 /\ n < Len(s)
      BY <1>2, LenProperties DEF Strings
    <2>2. snippet \in Strings /\ Len(snippet) = n
      BY <2>1, FromFacts
    <2> HIDE DEF snippet
    <2>3. CASE SpacesOf(snippet) = {}
      <3>1. TailOverlap(s, n) = snippet
        BY <1>2, <2>3 DEF TailOverlap, snippet
      <3>2. QED  BY <2>1, <2>2, <3>1
    <2>4. CASE SpacesOf(snippet) # {}
      <3> DEFINE j == CHOOSE j \in SpacesOf(snippet) : \A k \in SpacesOf(snippet) : j <= k
      <3>1. SpacesOf(snippet) \subseteq 1..n
        BY <2>2, LenProperties DEF SpacesOf, Strings
      <3>2. \E i \in SpacesOf(snippet) : \A k \in SpacesOf(snippet) : i <= k
        BY <2>4, <3>1, LeastOf
      <3>3. j \in 1..n
        BY <3>1, <3>2
      <3> HIDE DEF j
      <3>4. TailOverlap(s, n) = SubSeq(snippet, j + 1, n)
        BY <1>2, <2>4 DEF TailOverlap, snippet, j
      <3>5. \A i \in (j + 1)..n : snippet[i] \in Characters
        BY <2>2, <3>3, ElementOfSeq DEF Strings
      <3>6. /\ SubSeq(snippet, j + 1, n) \in Strings
            /\ Len(SubSeq(snippet, j + 1, n)) = IF j + 1 <= n THEN n - (j + 1) + 1 ELSE 0
        BY <2>1, <3>3, <3>5, SubSeqProperties DEF Strings
      <3>7. QED  BY <2>1, <3>3, <3>4, <3>6
    <2>5. QED  BY <2>3, <2>4
  <1>3. QED  BY <1>1, <1>2

LEMMA ConcatFacts ==
    ASSUME NEW s \in Strings, NEW t \in Strings
    PROVE  /\ s \o t \in Strings /\ Len(s \o t) = Len(s) + Len(t)
           /\ Chars(s \o t) = Chars(s) \union Chars(t)
  BY ConcatProperties, CharsConcat DEF Strings

LEMMA JoinedFacts ==
    ASSUME NEW s \in Strings, NEW joint \in Strings, NEW t \in Strings
    PROVE  /\ Joined(s, joint, t) \in Strings
           /\ Len(Joined(s, joint, t)) <= Len(s) + Len(joint) + Len(t)
           /\ Len(Joined(s, joint, t)) >= Len(t)
           /\ t # <<>> => Joined(s, joint, t) # <<>>
           /\ Chars(s) \union Chars(t) \subseteq Chars(Joined(s, joint, t))
  <1>1. Len(s) \in Nat /\ Len(joint) \in Nat /\ Len(t) \in Nat
    BY LenProperties DEF Strings
  <1>2. CASE s = <<>>
    BY <1>1, <1>2, AllCharsNone DEF Joined
  <1>3. CASE s # <<>>
    <2>1. Joined(s, joint, t) = s \o joint \o t
      BY <1>3 DEF Joined
    <2>2. /\ s \o joint \in Strings /\ Len(s \o joint) = Len(s) + Len(joint)
          /\ Chars(s \o joint) = Chars(s) \union Chars(joint)
      BY ConcatProperties, CharsConcat DEF Strings
    <2> DEFINE u == s \o joint
    <2> HIDE DEF u
    <2>7. u \in Strings  BY <2>2 DEF u
    <2>8. /\ u \o t \in Strings /\ Len(u \o t) = Len(u) + Len(t)
          /\ Chars(u \o t) = Chars(u) \union Chars(t)
      BY <2>7, ConcatProperties, CharsConcat DEF Strings
    <2>3. /\ (s \o joint) \o t \in Strings
          /\ Len((s \o joint) \o t) = Len(s \o joint) + Len(t)
          /\ Chars((s \o joint) \o t) = Chars(s \o joint) \union Chars(t)
      BY <2>8 DEF u
    <2>4. Len(s) # 0
      BY <1>3, EmptySeq DEF Strings
    <2>5. (s \o joint) \o t # <<>>
      BY <1>1, <2>2, <2>3, <2>4
    <2>6. QED  BY <1>1, <2>1, <2>2, <2>3, <2>5
  <1>4. QED  BY <1>2, <1>3

LEMMA FlushedFacts ==
    ASSUME NEW S, NEW ss \in Seq(S), NEW s, s # <<>> => s \in S
    PROVE  /\ Flushed(ss, s) \in Seq(S)
           /\ AllChars(Flushed(ss, s)) = AllChars(ss) \union Chars(s)
           /\ Chars(Flushed(ss, s)) = Chars(ss) \union (IF s = <<>> THEN {} ELSE {s})
  <1>1. CASE s = <<>>
    BY <1>1, AllCharsNone DEF Flushed
  <1>2. CASE s # <<>>
    <2>1. Flushed(ss, s) = ss \o <<s>> /\ <<s>> \in Seq(S)
      BY <1>2, AppendIsConcat DEF Flushed
    <2>2. Chars(<<s>>) = {s}
      BY DEF Chars
    <2> DEFINE one == <<s>>
    <2>3. one \in Seq(S) /\ Flushed(ss, s) = ss \o one /\ Chars(one) = {s}
      BY <2>1, <2>2
    <2>4. AllChars(one) = Chars(s)
      BY AllCharsOne
    <2> HIDE DEF one
    <2>5. ss \o one \in Seq(S)
      BY <2>3, ConcatProperties
    <2>6. AllChars(ss \o one) = AllChars(ss) \union Chars(s)
      BY <2>3, <2>4, AllCharsConcat
    <2>7. Chars(ss \o one) = Chars(ss) \union {s}
      BY <2>3, CharsConcat
    <2>8. QED  BY <1>2, <2>3, <2>5, <2>6, <2>7
  <1>3. QED  BY <1>1, <1>2

(* The pieces of a sentence are blocks within n characters, and all of it. *)
LEMMA CutsFacts ==
    ASSUME NEW s \in Strings, s # <<>>, NEW n \in Nat \ {0}
    PROVE  /\ Cuts(s, n) \in Seq(Blocks)
           /\ \A i \in DOMAIN Cuts(s, n) : Len(Cuts(s, n)[i]) <= n
           /\ Chars(s) \subseteq AllChars(Cuts(s, n))
  <1> DEFINE L == Len(s)
             m == (L - 1) \div n + 1
             lo(i) == (i - 1) * n + 1
             hi(i) == IF i * n <= L THEN i * n ELSE L
  <1>1. L \in Nat \ {0} /\ DOMAIN s = 1..L
    BY EmptySeq, LenProperties DEF Strings
  <1> HIDE DEF L
  <1>2. m \in Nat /\ (L - 1) \div n \in Nat
    BY <1>1
  <1>3. n * ((L - 1) \div n) <= L - 1 /\ L - 1 < n * ((L - 1) \div n) + n
    BY <1>1
  <1>4. Cuts(s, n) = [i \in 1..m |-> SubSeq(s, lo(i), hi(i))]
    BY DEF Cuts, L
  <1> HIDE DEF m
  <1>5. ASSUME NEW i \in 1..m
        PROVE  /\ lo(i) \in Nat /\ hi(i) \in Nat /\ 1 <= lo(i)
               /\ lo(i) <= hi(i) /\ hi(i) <= L /\ hi(i) - lo(i) + 1 <= n
    <2>1. i \in Nat /\ i - 1 \in Nat /\ i - 1 <= (L - 1) \div n
      BY <1>2, <1>5 DEF m
    <2>2. (i - 1) * n <= ((L - 1) \div n) * n
      BY <1>2, <2>1
    <2>3. (i - 1) * n \in Nat /\ (i - 1) * n <= L - 1 /\ i * n = (i - 1) * n + n
      BY <1>1, <1>2, <1>3, <2>1, <2>2
    <2>4. QED  BY <1>1, <2>3
  <1> HIDE DEF lo, hi
  <1>6. ASSUME NEW i \in 1..m
        PROVE  /\ SubSeq(s, lo(i), hi(i)) \in Blocks
               /\ Len(SubSeq(s, lo(i), hi(i))) <= n
               /\ \A q \in lo(i)..hi(i) : s[q] \in Chars(SubSeq(s, lo(i), hi(i)))
    <2> DEFINE c == SubSeq(s, lo(i), hi(i))
    <2>1. \A q \in lo(i)..hi(i) : s[q] \in Characters
      BY <1>1, <1>5, <1>6, ElementOfSeq DEF Strings, L
    <2>2. /\ c \in Strings /\ Len(c) = hi(i) - lo(i) + 1
          /\ \A q \in 1..(hi(i) - lo(i) + 1) : c[q] = s[lo(i) + q - 1]
      BY <1>5, <1>6, <2>1, SubSeqProperties DEF Strings
    <2> HIDE DEF c
    <2>3. c # <<>>
      BY <1>5, <1>6, <2>2
    <2>4. DOMAIN c = 1..(hi(i) - lo(i) + 1)
      BY <2>2, LenProperties DEF Strings
    <2>5. ASSUME NEW q \in lo(i)..hi(i) PROVE s[q] \in Chars(c)
      <3>1. q - lo(i) + 1 \in 1..(hi(i) - lo(i) + 1)
        BY <1>5, <1>6, <2>5
      <3>2. c[q - lo(i) + 1] = s[q]
        BY <1>5, <1>6, <2>2, <3>1
      <3>3. QED  BY <2>4, <3>1, <3>2 DEF Chars
    <2>6. QED  BY <1>5, <1>6, <2>2, <2>3, <2>5 DEF Blocks, c
  <1>7. Cuts(s, n) \in Seq(Blocks) /\ DOMAIN Cuts(s, n) = 1..m
    BY <1>2, <1>4, <1>6, IsASeq
  <1>8. ASSUME NEW q \in 1..L PROVE s[q] \in AllChars(Cuts(s, n))
    <2> DEFINE i == (q - 1) \div n + 1
    <2>1. /\ (q - 1) \div n \in Nat
          /\ n * ((q - 1) \div n) <= q - 1 /\ q - 1 < n * ((q - 1) \div n) + n
      BY <1>1, <1>8
    <2>2. (q - 1) \div n <= (L - 1) \div n
      <3>1. n * ((q - 1) \div n) <= q - 1 /\ q - 1 <= L - 1
        BY <1>1, <1>8, <2>1
      <3>2. n * ((q - 1) \div n) < n * ((L - 1) \div n + 1)
        BY <1>1, <1>2, <1>3, <2>1, <3>1
      <3>3. QED  BY <1>2, <2>1, <3>2
    <2>3. i \in 1..m
      BY <1>2, <2>1, <2>2 DEF m
    <2>4. i * n = n * ((q - 1) \div n) + n /\ (i - 1) * n = n * ((q - 1) \div n)
      BY <2>1
    <2>5. q \in lo(i)..hi(i)
      BY <1>1, <1>8, <2>1, <2>4 DEF lo, hi
    <2> HIDE DEF i
    <2>6. s[q] \in Chars(Cuts(s, n)[i])
      BY <1>4, <1>6, <2>3, <2>5
    <2>7. QED  BY <1>7, <2>3, <2>6 DEF AllChars
  <1>9. QED
    BY <1>1, <1>4, <1>6, <1>7, <1>8 DEF Chars

(* The separators and the sentences are strings. *)
LEMMA StringFacts ==
    /\ <<Space>> \in Strings /\ Breaks \in Strings
    /\ Len(<<Space>>) = 1 /\ Len(Breaks) = 2
    /\ \A s \in Seq(Nat) : s \in Strings
    /\ <<>> \in Strings /\ Len(<<>>) = 0
  BY DEF Strings, Breaks, Characters

LEMMA SentenceFacts ==
    ASSUME TypeOK, para # 0, sent # 0, para <= Len(text), sent <= Len(text[para])
    PROVE  /\ para \in DOMAIN text /\ sent \in DOMAIN text[para]
           /\ Sentence \in Blocks
  <1>1. text \in Seq(Seq(Sentences) \ {<<>>}) /\ para \in 1..Len(text)
    BY DEF TypeOK
  <1>2. text[para] \in Seq(Sentences) \ {<<>>} /\ para \in DOMAIN text
    BY <1>1, ElementOfSeq, LenProperties
  <1>3. sent \in 1..Len(text[para]) /\ sent \in DOMAIN text[para]
    BY <1>2, LenProperties DEF TypeOK
  <1>4. Sentence \in Sentences
    BY <1>2, <1>3, ElementOfSeq DEF Sentence
  <1>5. QED
    BY <1>2, <1>3, <1>4, StringFacts DEF Sentences, Blocks

LEMMA BlockFacts ==
    ASSUME TypeOK, next <= Len(blocks)
    PROVE  Block \in Blocks /\ next \in DOMAIN blocks /\ Block \in Chars(blocks)
  <1>1. blocks \in Seq(Blocks) /\ next \in 1..Len(blocks)
    BY DEF TypeOK, Blocks, Strings
  <1>2. next \in DOMAIN blocks
    BY <1>1, LenProperties
  <1>3. QED
    BY <1>1, <1>2, ElementOfSeq DEF Block, Chars

-----------------------------------------------------------------------------
(* Types *)

(* Where reading stands: sentences and paragraphs are counted from 1. *)
Counted == TypeOK /\ para # 0 /\ sent # 0

LEMMA InitCounted == Init => Counted
  <1> SUFFICES ASSUME Init PROVE Counted
    OBVIOUS
  <1>1. text \in Seq(Seq(Sentences) \ {<<>>}) /\ blanks \subseteq Nat
    BY TextsAssumption, BlanksAssumption DEF Init
  <1>2. max \in Nat \ {0} /\ overlap \in Nat
    BY LimitsAssumption DEF Init
  <1>3. QED
    BY <1>1, <1>2 DEF Init, Counted, TypeOK

LEMMA StepCounted == Counted /\ [Next]_vars => Counted'
  <1> SUFFICES ASSUME Counted, [Next]_vars PROVE Counted'
    OBVIOUS
  <1> USE DEF Counted
  <1>0. /\ TypeOK /\ current \in Strings /\ blocks \in Seq(Blocks)
        /\ chunks \in Seq(Strings)
    BY DEF TypeOK, Strings, Blocks
  <1>1. CASE Gather
    <2>1. Joined(current, <<Space>>, Sentence) \in Strings
      BY <1>0, <1>1, SentenceFacts, StringFacts, JoinedFacts DEF Gather, Reading, Blocks
    <2>2. QED  BY <1>0, <1>1, <2>1 DEF Gather, Reading, TypeOK, call, Strings
  <1>2. CASE BeginBlock
    <2>1. Sentence \in Blocks
      BY <1>0, <1>2, SentenceFacts DEF BeginBlock, Reading
    <2>2. blocks' \in Seq(Blocks)
      BY <1>0, <1>2, FlushedFacts DEF BeginBlock, Blocks
    <2>3. QED  BY <1>0, <1>2, <2>1, <2>2 DEF BeginBlock, TypeOK, call, Strings, Blocks
  <1>3. CASE CutSentence
    <2>1. Sentence \in Blocks
      BY <1>0, <1>3, SentenceFacts DEF CutSentence, Reading
    <2>2. Flushed(blocks, current) \in Seq(Blocks)
      BY <1>0, FlushedFacts DEF Blocks
    <2>3. Cuts(Sentence, max) \in Seq(Blocks)
      BY <2>1, CutsFacts DEF TypeOK, Blocks
    <2>4. blocks' \in Seq(Blocks)
      BY <1>3, <2>2, <2>3, ConcatProperties DEF CutSentence
    <2>5. QED  BY <1>0, <1>3, <2>4, StringFacts DEF CutSentence, TypeOK, call, Strings, Blocks
  <1>4. CASE EndParagraph
    <2>1. blocks' \in Seq(Blocks)
      BY <1>0, <1>4, FlushedFacts DEF EndParagraph, Blocks
    <2>2. QED
      BY <1>0, <1>4, <2>1, StringFacts DEF EndParagraph, TypeOK, call, Strings, Blocks
  <1>5. CASE EndText
    BY <1>0, <1>5 DEF EndText, TypeOK, call
  <1>6. CASE StartChunk
    <2>1. Block \in Strings
      BY <1>6, BlockFacts DEF StartChunk, Merging, Blocks
    <2>2. QED  BY <1>0, <1>6, <2>1 DEF StartChunk, TypeOK, call, Strings
  <1>7. CASE Merge
    <2>1. Block \in Strings
      BY <1>7, BlockFacts DEF Merge, Merging, Blocks
    <2>2. current \o Breaks \in Strings
      BY <1>0, StringFacts, ConcatProperties DEF Strings
    <2>3. (current \o Breaks) \o Block \in Strings
      BY <2>1, <2>2, ConcatProperties DEF Strings
    <2>4. QED  BY <1>0, <1>7, <2>3 DEF Merge, TypeOK, call, Strings
  <1>8. CASE Overflow
    <2> DEFINE begun == Joined(TailOverlap(current, overlap), Breaks, Block)
    <2>1. Block \in Strings
      BY <1>8, BlockFacts DEF Overflow, Merging, Blocks
    <2>2. begun \in Strings
      BY <1>0, <2>1, StringFacts, TailFacts, JoinedFacts DEF TypeOK
    <2>3. /\ \/ chunks' = Append(chunks, current) /\ current' = begun
             \/ /\ Len(begun) > max /\ chunks' = chunks \o <<current, SubSeq(begun, 1, max)>>
                /\ current' = IF overlap = 0 THEN <<>> ELSE From(begun, max - overlap)
          /\ next' = next + 1 /\ UNCHANGED <<call, pc, para, sent, blocks>>
      BY <1>8 DEF Overflow
    <2> HIDE DEF begun
    <2>4. From(begun, max - overlap) \in Strings
      BY <2>2, FromFacts DEF TypeOK
    <2>5. current' \in Strings
      BY <2>2, <2>3, <2>4, StringFacts
    <2>6. Len(begun) > max => SubSeq(begun, 1, max) \in Strings
      BY <2>2, PrefixFacts, LenProperties DEF TypeOK, Strings
    <2>7. chunks' \in Seq(Strings)
      <3>1. CASE chunks' = Append(chunks, current)
        BY <1>0, <3>1, AppendProperties
      <3>2. CASE Len(begun) > max /\ chunks' = chunks \o <<current, SubSeq(begun, 1, max)>>
        <4>1. <<current, SubSeq(begun, 1, max)>> \in Seq(Strings)
          BY <1>0, <2>6, <3>2
        <4>2. QED  BY <1>0, <3>2, <4>1, ConcatProperties
      <3>3. QED  BY <2>3, <3>1, <3>2
    <2>8. QED  BY <1>0, <2>3, <2>5, <2>7 DEF TypeOK, call, Strings
  <1>9. CASE EndBlocks
    <2>1. chunks' \in Seq(Strings)
      BY <1>0, <1>9, FlushedFacts DEF EndBlocks
    <2>2. QED  BY <1>0, <1>9, <2>1 DEF EndBlocks, TypeOK, call, Strings
  <1>10. CASE UNCHANGED vars
    BY <1>10 DEF vars, call, TypeOK
  <1>11. QED
    BY <1>1, <1>2, <1>3, <1>4, <1>5, <1>6, <1>7, <1>8, <1>9, <1>10 DEF Next

(* Blocks and chunks are texts and no block is empty, for every text.  *)
(* (chunk, _split_long_block)                                           *)
THEOREM TypeCorrect == Spec => []TypeOK
  <1>1. Counted => TypeOK
    BY DEF Counted
  <1>2. QED
    BY <1>1, InitCounted, StepCounted, PTL DEF Spec

-----------------------------------------------------------------------------
(* Sizes *)

SizeInv ==
    /\ \A b \in Chars(blocks) : Len(b) <= max
    /\ pc = "split" => Len(current) <= max
    /\ Len(current) <= max \/ Len(current) <= 2 * overlap + 2
    /\ \A c \in Chars(chunks) : Len(c) <= max \/ Len(c) <= 2 * overlap + 2

LEMMA StepSize == Counted /\ SizeInv /\ [Next]_vars => SizeInv'
  <1> SUFFICES ASSUME Counted, SizeInv, [Next]_vars PROVE SizeInv'
    OBVIOUS
  <1>0. /\ TypeOK /\ current \in Strings /\ blocks \in Seq(Blocks)
        /\ chunks \in Seq(Strings) /\ max \in Nat \ {0} /\ overlap \in Nat
        /\ Len(current) \in Nat /\ para # 0 /\ sent # 0
    BY LenProperties DEF Counted, TypeOK, Strings, Blocks
  <1>e. Len(<<>>) = 0 /\ Chars(<<>>) = {}
    BY StringFacts, AllCharsNone
  <1>f. /\ Chars(Flushed(blocks, current)) = Chars(blocks) \union (IF current = <<>> THEN {} ELSE {current})
        /\ Chars(Flushed(chunks, current)) = Chars(chunks) \union (IF current = <<>> THEN {} ELSE {current})
        /\ Flushed(blocks, current) \in Seq(Blocks)
    BY <1>0, FlushedFacts DEF Blocks
  <1>1. CASE Gather
    BY <1>0, <1>1 DEF Gather, SizeInv, call
  <1>2. CASE BeginBlock
    <2>1. \A b \in Chars(blocks') : Len(b) <= max
      BY <1>f, <1>2 DEF BeginBlock, Reading, SizeInv
    <2>2. QED  BY <1>0, <1>2, <2>1 DEF BeginBlock, SizeInv, call
  <1>3. CASE CutSentence
    <2>1. Sentence \in Blocks
      BY <1>0, <1>3, SentenceFacts DEF CutSentence, Reading
    <2>2. /\ Cuts(Sentence, max) \in Seq(Blocks)
          /\ \A b \in Chars(Cuts(Sentence, max)) : Len(b) <= max
      BY <1>0, <2>1, CutsFacts DEF Blocks, Chars
    <2>3. Chars(blocks') = Chars(Flushed(blocks, current)) \union Chars(Cuts(Sentence, max))
      BY <1>3, <1>f, <2>2, CharsConcat DEF CutSentence
    <2>4. \A b \in Chars(blocks') : Len(b) <= max
      BY <1>f, <1>3, <2>2, <2>3 DEF CutSentence, Reading, SizeInv
    <2>5. QED  BY <1>0, <1>e, <1>3, <2>4 DEF CutSentence, SizeInv, call
  <1>4. CASE EndParagraph
    <2>1. \A b \in Chars(blocks') : Len(b) <= max
      BY <1>f, <1>4 DEF EndParagraph, SizeInv
    <2>2. QED  BY <1>0, <1>e, <1>4, <2>1 DEF EndParagraph, SizeInv, call
  <1>5. CASE EndText
    BY <1>0, <1>5 DEF EndText, SizeInv, call
  <1>6. CASE StartChunk
    <2>1. Len(Block) <= max
      BY <1>0, <1>6, BlockFacts DEF StartChunk, Merging, SizeInv
    <2>2. QED  BY <1>0, <1>6, <2>1 DEF StartChunk, Merging, SizeInv, call
  <1>7. CASE Merge
    <2>1. Block \in Strings /\ Len(Block) \in Nat
      BY <1>0, <1>7, BlockFacts, LenProperties DEF Merge, Merging, Blocks, Strings
    <2>2. current \o Breaks \in Strings /\ Len(current \o Breaks) = Len(current) + 2
      BY <1>0, StringFacts, ConcatFacts
    <2>3. Len((current \o Breaks) \o Block) = Len(current \o Breaks) + Len(Block)
      BY <2>1, <2>2, ConcatProperties DEF Strings
    <2>4. Len(current') <= max
      BY <1>7, <2>2, <2>3 DEF Merge, Fits
    <2>5. QED  BY <1>0, <1>7, <2>4 DEF Merge, Merging, SizeInv, call
  <1>8. CASE Overflow
    <2> DEFINE tail == TailOverlap(current, overlap)
               begun == Joined(tail, Breaks, Block)
    <2>1. Block \in Strings /\ Len(Block) \in Nat /\ Len(Block) <= max
      BY <1>0, <1>8, BlockFacts, LenProperties
      DEF Overflow, Merging, Blocks, Strings, SizeInv
    <2>2. tail \in Strings /\ Len(tail) \in Nat /\ (overlap # 0 => Len(tail) <= overlap)
      BY <1>0, TailFacts, LenProperties DEF Strings
    <2> HIDE DEF tail
    <2>3. /\ begun \in Strings /\ Len(begun) \in Nat
          /\ Len(begun) <= Len(tail) + 2 + Len(Block)
      BY <2>1, <2>2, StringFacts, JoinedFacts, LenProperties DEF Strings
    <2>4. /\ \/ /\ Len(begun) <= max
                /\ chunks' = Append(chunks, current) /\ current' = begun
             \/ /\ Len(begun) > max /\ chunks' = chunks \o <<current, SubSeq(begun, 1, max)>>
                /\ current' = IF overlap = 0 THEN <<>> ELSE From(begun, max - overlap)
          /\ next' = next + 1 /\ UNCHANGED <<call, pc, para, sent, blocks>>
      BY <1>8 DEF Overflow, tail
    <2> HIDE DEF begun
    <2>5. overlap # 0 /\ Len(begun) > max =>
            Len(From(begun, max - overlap)) <= 2 * overlap + 2
      <3> SUFFICES ASSUME overlap # 0, Len(begun) > max
                   PROVE  Len(From(begun, max - overlap)) <= 2 * overlap + 2
        OBVIOUS
      <3>1. max - overlap \in Int /\ Len(begun) <= overlap + 2 + max
        BY <1>0, <2>1, <2>2, <2>3
      <3>2. CASE max - overlap < 0
        <4>1. Len(From(begun, max - overlap)) <= 0 - (max - overlap)
          BY <2>3, <3>1, <3>2, FromFacts
        <4>2. From(begun, max - overlap) \in Strings
          BY <2>3, <3>1, FromFacts
        <4>3. QED  BY <1>0, <4>1, <4>2, LenProperties DEF Strings
      <3>3. CASE ~(max - overlap < 0)
        <4>1. max - overlap \in 0..Len(begun)
          BY <1>0, <2>3, <3>3
        <4>2. Len(From(begun, max - overlap)) = Len(begun) - (max - overlap)
          BY <2>3, <3>1, <4>1, FromFacts
        <4>3. QED  BY <1>0, <2>3, <3>1, <4>2
      <3>4. QED  BY <3>2, <3>3
    <2>6. Len(current') <= max \/ Len(current') <= 2 * overlap + 2
      BY <1>0, <1>e, <2>4, <2>5
    <2>7. \A c \in Chars(chunks') : Len(c) <= max \/ Len(c) <= 2 * overlap + 2
      <3>1. CASE chunks' = Append(chunks, current)
        <4>1. chunks' = Flushed(chunks, current)
          BY <1>8, <3>1 DEF Flushed, Overflow
        <4>2. QED  BY <1>f, <4>1 DEF SizeInv
      <3>2. CASE Len(begun) > max /\ chunks' = chunks \o <<current, SubSeq(begun, 1, max)>>
        <4> DEFINE two == <<current, SubSeq(begun, 1, max)>>
        <4>1. SubSeq(begun, 1, max) \in Strings /\ Len(SubSeq(begun, 1, max)) = max
          BY <1>0, <2>3, <3>2, PrefixFacts
        <4>2. two \in Seq(Strings) /\ Chars(two) = {current, SubSeq(begun, 1, max)}
          BY <1>0, <4>1, CharsTwo
        <4> HIDE DEF two
        <4>3. Chars(chunks \o two) = Chars(chunks) \union Chars(two)
          BY <1>0, <4>2, CharsConcat
        <4>4. chunks' = chunks \o two
          BY <3>2 DEF two
        <4>5. \A c \in Chars(chunks') :
                 c \in Chars(chunks) \/ c = current \/ c = SubSeq(begun, 1, max)
          BY <4>2, <4>3, <4>4
        <4>6. Len(SubSeq(begun, 1, max)) <= max
          BY <1>0, <4>1
        <4>7. /\ Len(current) <= max \/ Len(current) <= 2 * overlap + 2
              /\ \A c \in Chars(chunks) : Len(c) <= max \/ Len(c) <= 2 * overlap + 2
          BY DEF SizeInv
        <4>8. QED  BY <4>5, <4>6, <4>7
      <3>3. QED  BY <2>4, <3>1, <3>2
    <2>8. pc' # "split"
      BY <1>8, <2>4 DEF Overflow, Merging
    <2>9. QED  BY <2>4, <2>6, <2>7, <2>8 DEF SizeInv, call
  <1>9. CASE EndBlocks
    <2>1. \A c \in Chars(chunks') : Len(c) <= max \/ Len(c) <= 2 * overlap + 2
      BY <1>f, <1>9 DEF EndBlocks, SizeInv
    <2>2. QED  BY <1>0, <1>9, <2>1 DEF EndBlocks, SizeInv, call
  <1>10. CASE UNCHANGED vars
    BY <1>10 DEF vars, call, SizeInv
  <1>11. QED
    BY <1>1, <1>2, <1>3, <1>4, <1>5, <1>6, <1>7, <1>8, <1>9, <1>10 DEF Next

(* No chunk is longer than max, or than twice the overlap and a break, for *)
(* every text and every limits. (chunk)                                     *)
THEOREM BoundedSize == Spec => []SizeBounded
  <1>1. Init => SizeInv
    BY InitCounted, AllCharsNone, StringFacts DEF Init, SizeInv, Counted, TypeOK
  <1>2. Counted /\ SizeInv => SizeBounded
    BY DEF SizeInv, SizeBounded, Chars
  <1>3. QED
    BY <1>1, <1>2, InitCounted, StepCounted, StepSize, PTL DEF Spec

-----------------------------------------------------------------------------
(* Nothing is lost *)

LongChars(ss) == UNION {Chars(c) : c \in {c \in Chars(ss) : Long(c)}}

(* The limits under which every character comes back. *)
Overlapping == overlap \in 1..max /\ MinChunk <= max /\ MinChunk <= overlap + 1

(* A sentence that was read is in the blocks or in what is gathered. *)
Read(p, s) == p < para \/ (p = para /\ s < sent)
SplitInv ==
    pc = "split" =>
        /\ para <= Len(text) + 1
        /\ para > Len(text) => sent = 1
        /\ sent = 1 => current = <<>>
        /\ next = 1
        /\ \A p \in DOMAIN text : \A s \in DOMAIN text[p] :
             Read(p, s) => Chars(text[p][s]) \subseteq AllChars(blocks) \union Chars(current)

(* A block that was merged is in a chunk long enough to be kept, or in what *)
(* is gathered.                                                             *)
MergeInv ==
    /\ pc # "split" =>
        \A p \in DOMAIN text : \A s \in DOMAIN text[p] :
            Chars(text[p][s]) \subseteq AllChars(blocks)
    /\ pc = "merge" =>
        /\ next <= Len(blocks) + 1
        /\ Overlapping => \A j \in 1..(next - 1) :
             Chars(blocks[j]) \subseteq LongChars(chunks) \union Chars(current)
    /\ pc \in {"split", "merge", "done"}

KeptInv == SplitInv /\ MergeInv /\ NothingLost

LEMMA InitKept == Init => KeptInv
  <1> SUFFICES ASSUME Init PROVE KeptInv
    OBVIOUS
  <1>1. text \in Seq(Seq(Sentences) \ {<<>>})
    BY TextsAssumption DEF Init
  <1>2. Len(text) \in Nat /\ DOMAIN text = 1..Len(text)
    BY <1>1, LenProperties
  <1>3. \A p \in DOMAIN text : DOMAIN text[p] = 1..Len(text[p]) /\ Len(text[p]) \in Nat
    BY <1>1, <1>2, ElementOfSeq, LenProperties
  <1>4. \A p \in DOMAIN text : \A s \in DOMAIN text[p] : ~Read(p, s)
    BY <1>2, <1>3 DEF Init, Read
  <1>5. QED
    BY <1>2, <1>4 DEF Init, KeptInv, SplitInv, MergeInv, NothingLost

(* Reading on keeps what was read, when the sentence and what was gathered  *)
(* are in the blocks or gathered after the step.                            *)
LEMMA ReadOn ==
    ASSUME Counted, KeptInv, Reading,
           UNCHANGED <<call, pc, para, next>>, sent' = sent + 1,
           Chars(Sentence) \union Chars(current) \union AllChars(blocks)
             \subseteq AllChars(blocks') \union Chars(current')
    PROVE  KeptInv'
  <1>1. /\ pc = "split" /\ para <= Len(text) /\ sent \in Nat \ {0} /\ para \in Nat
        /\ Len(text) \in Nat
    BY LenProperties DEF Reading, Counted, TypeOK
  <1>2. /\ text' = text /\ pc' = pc /\ para' = para /\ next' = next /\ sent' # 1
    BY <1>1 DEF call
  <1>3. ASSUME NEW p \in DOMAIN text, NEW s \in DOMAIN text[p],
               p < para \/ (p = para /\ s < sent + 1)
        PROVE  Chars(text[p][s]) \subseteq AllChars(blocks') \union Chars(current')
    <2>1. CASE Read(p, s)
      BY <1>1, <1>3, <2>1 DEF KeptInv, SplitInv
    <2>2. CASE ~Read(p, s)
      <3>1. text \in Seq(Seq(Sentences) \ {<<>>})
        BY DEF Counted, TypeOK
      <3>2. text[p] \in Seq(Sentences)
        BY <1>3, <3>1, ElementOfSeq, LenProperties
      <3>3. s \in Nat
        BY <1>3, <3>2, LenProperties
      <3>4. p = para /\ s = sent
        BY <1>1, <1>3, <2>2, <3>3 DEF Read
      <3>5. QED  BY <3>4 DEF Sentence
    <2>3. QED  BY <2>1, <2>2
  <1>4. SplitInv'
    BY <1>1, <1>2, <1>3 DEF KeptInv, SplitInv, Read
  <1>5. QED
    BY <1>1, <1>2, <1>4 DEF KeptInv, MergeInv, NothingLost

(* A step of merging keeps what was merged, when the block and what was     *)
(* gathered are in long chunks or gathered after it.                        *)
LEMMA MergedOn ==
    ASSUME Counted, KeptInv, Merging,
           UNCHANGED <<call, pc, para, sent, blocks>>, next' = next + 1,
           Overlapping =>
             Chars(Block) \union Chars(current) \union LongChars(chunks)
               \subseteq LongChars(chunks') \union Chars(current')
    PROVE  KeptInv'
  <1>1. /\ pc = "merge" /\ next <= Len(blocks) /\ next \in Nat \ {0}
        /\ Len(blocks) \in Nat
    BY LenProperties DEF Merging, Counted, TypeOK
  <1>2. /\ text' = text /\ pc' = pc /\ blocks' = blocks
        /\ Overlapping' = Overlapping
    BY DEF call, Overlapping
  <1>3. ASSUME Overlapping, NEW j \in 1..next
        PROVE  Chars(blocks[j]) \subseteq LongChars(chunks') \union Chars(current')
    <2>1. CASE j = next
      BY <1>3, <2>1 DEF Block
    <2>2. CASE j # next
      <3>1. j \in 1..(next - 1)
        BY <1>1, <1>3, <2>2
      <3>2. Chars(blocks[j]) \subseteq LongChars(chunks) \union Chars(current)
        BY <1>1, <1>3, <3>1 DEF KeptInv, MergeInv
      <3>3. QED  BY <1>3, <3>2
    <2>3. QED  BY <2>1, <2>2
  <1>4. next' - 1 = next /\ next' <= Len(blocks) + 1
    BY <1>1
  <1>5. MergeInv'
    BY <1>1, <1>2, <1>3, <1>4 DEF KeptInv, MergeInv
  <1>6. QED
    BY <1>1, <1>2, <1>5 DEF KeptInv, SplitInv, NothingLost

LEMMA StepKept == Counted /\ KeptInv /\ [Next]_vars => KeptInv'
  <1> SUFFICES ASSUME Counted, KeptInv, [Next]_vars PROVE KeptInv'
    OBVIOUS
  <1>0. /\ TypeOK /\ current \in Strings /\ blocks \in Seq(Blocks)
        /\ chunks \in Seq(Strings) /\ max \in Nat \ {0} /\ overlap \in Nat
        /\ Len(current) \in Nat /\ para # 0 /\ sent # 0 /\ MinChunk \in Nat
    BY LenProperties, MinChunkAssumption DEF Counted, TypeOK, Strings, Blocks
  <1>f. /\ AllChars(Flushed(blocks, current)) = AllChars(blocks) \union Chars(current)
        /\ Flushed(blocks, current) \in Seq(Blocks)
    BY <1>0, FlushedFacts DEF Blocks
  <1>1. CASE Gather
    <2>1. Sentence \in Strings
      BY <1>0, <1>1, SentenceFacts DEF Gather, Reading, Blocks
    <2>2. Chars(current) \union Chars(Sentence)
            \subseteq Chars(Joined(current, <<Space>>, Sentence))
      BY <1>0, <2>1, StringFacts, JoinedFacts
    <2>3. QED  BY <1>1, <2>2, ReadOn DEF Gather
  <1>2. CASE BeginBlock
    <2>1. /\ Chars(Sentence) \union Chars(current) \union AllChars(blocks)
               \subseteq AllChars(blocks') \union Chars(current')
      BY <1>f, <1>2 DEF BeginBlock
    <2>2. QED  BY <1>2, <2>1, ReadOn DEF BeginBlock
  <1>3. CASE CutSentence
    <2>1. Sentence \in Strings /\ Sentence # <<>>
      BY <1>0, <1>3, SentenceFacts DEF CutSentence, Reading, Blocks
    <2>2. Cuts(Sentence, max) \in Seq(Blocks) /\ Chars(Sentence) \subseteq AllChars(Cuts(Sentence, max))
      BY <1>0, <2>1, CutsFacts
    <2>3. AllChars(blocks') = AllChars(Flushed(blocks, current)) \union AllChars(Cuts(Sentence, max))
      BY <1>f, <1>3, <2>2, AllCharsConcat DEF CutSentence
    <2>4. /\ Chars(Sentence) \union Chars(current) \union AllChars(blocks)
               \subseteq AllChars(blocks') \union Chars(current')
      BY <1>f, <2>2, <2>3
    <2>5. QED  BY <1>3, <2>4, ReadOn DEF CutSentence
  <1>4. CASE EndParagraph
    <2>1. /\ pc = "split" /\ para \in Nat \ {0} /\ sent \in Nat \ {0} /\ para <= Len(text)
          /\ sent > Len(text[para]) /\ Len(text) \in Nat
          /\ text \in Seq(Seq(Sentences) \ {<<>>})
      BY <1>0, <1>4, LenProperties DEF EndParagraph, TypeOK
    <2>2. /\ text' = text /\ pc' = pc /\ para' = para + 1 /\ sent' = 1 /\ next' = next
          /\ current' = <<>> /\ AllChars(blocks') = AllChars(blocks) \union Chars(current)
      BY <1>f, <1>4 DEF EndParagraph, call
    <2>3. ASSUME NEW p \in DOMAIN text, NEW s \in DOMAIN text[p],
                 p < para + 1 \/ (p = para + 1 /\ s < 1)
          PROVE  Chars(text[p][s]) \subseteq AllChars(blocks')
      <3>1. p \in Nat /\ text[p] \in Seq(Sentences)
        BY <2>1, <2>3, ElementOfSeq, LenProperties
      <3>2. s \in 1..Len(text[p]) /\ Len(text[p]) \in Nat
        BY <2>3, <3>1, LenProperties
      <3>3. Read(p, s)
        BY <2>1, <2>3, <3>1, <3>2 DEF Read
      <3>4. QED  BY <2>1, <2>2, <2>3, <3>3 DEF KeptInv, SplitInv
    <2>4. SplitInv'
      BY <2>1, <2>2, <2>3 DEF KeptInv, SplitInv, Read
    <2>5. QED  BY <2>1, <2>2, <2>4 DEF KeptInv, MergeInv, NothingLost
  <1>5. CASE EndText
    <2>1. /\ pc = "split" /\ para \in Nat \ {0} /\ para > Len(text) /\ Len(text) \in Nat
          /\ pc' = "merge" /\ text' = text /\ blocks' = blocks /\ next' = next
          /\ text \in Seq(Seq(Sentences) \ {<<>>})
      BY <1>0, <1>5, LenProperties DEF EndText, TypeOK, call
    <2>2. current = <<>> /\ next = 1 /\ Chars(current) = {}
      BY <2>1, AllCharsNone DEF KeptInv, SplitInv
    <2>3. ASSUME NEW p \in DOMAIN text, NEW s \in DOMAIN text[p]
          PROVE  Chars(text[p][s]) \subseteq AllChars(blocks)
      <3>1. p \in 1..Len(text)
        BY <2>1, <2>3, LenProperties
      <3>2. Read(p, s)
        BY <2>1, <3>1 DEF Read
      <3>3. QED  BY <2>1, <2>2, <2>3, <3>2 DEF KeptInv, SplitInv
    <2>4. Len(blocks) \in Nat
      BY <1>0, LenProperties
    <2>5. MergeInv'
      BY <2>1, <2>2, <2>3, <2>4 DEF MergeInv
    <2>6. QED  BY <2>1, <2>5 DEF KeptInv, SplitInv, NothingLost
  <1>6. CASE StartChunk
    <2>1. /\ Chars(current) = {} /\ chunks' = chunks /\ current' = Block
      BY <1>6, AllCharsNone DEF StartChunk
    <2>2. QED  BY <1>6, <2>1, MergedOn DEF StartChunk
  <1>7. CASE Merge
    <2>1. Block \in Strings
      BY <1>0, <1>7, BlockFacts DEF Merge, Merging, Blocks
    <2>2. current \o Breaks \in Strings /\ Chars(current) \subseteq Chars(current \o Breaks)
      BY <1>0, StringFacts, ConcatFacts
    <2>3. Chars((current \o Breaks) \o Block) = Chars(current \o Breaks) \union Chars(Block)
      BY <2>1, <2>2, ConcatFacts
    <2>4. Chars(Block) \union Chars(current) \subseteq Chars(current') /\ chunks' = chunks
      BY <1>7, <2>2, <2>3 DEF Merge
    <2>5. QED  BY <1>7, <2>4, MergedOn DEF Merge
  <1>8. CASE Overflow
    <2> DEFINE tail == TailOverlap(current, overlap)
               begun == Joined(tail, Breaks, Block)
               cut == SubSeq(begun, 1, max)
    <2>1. Block \in Strings
      BY <1>0, <1>8, BlockFacts DEF Overflow, Merging, Blocks
    <2>2. tail \in Strings /\ (Len(current) <= overlap => tail = current)
      BY <1>0, TailFacts
    <2> HIDE DEF tail
    <2>3. begun \in Strings /\ Len(begun) \in Nat /\ Chars(tail) \union Chars(Block) \subseteq Chars(begun)
      BY <2>1, <2>2, StringFacts, JoinedFacts, LenProperties DEF Strings
    <2>4. /\ \/ /\ chunks' = Append(chunks, current) /\ current' = begun
             \/ /\ Len(begun) > max /\ chunks' = chunks \o <<current, cut>>
                /\ current' = IF overlap = 0 THEN <<>> ELSE From(begun, max - overlap)
          /\ next' = next + 1 /\ UNCHANGED <<call, pc, para, sent, blocks>>
          /\ current # <<>> /\ Merging
      BY <1>8 DEF Overflow, tail
    <2> HIDE DEF begun
    <2>5. ASSUME Overlapping
          PROVE  Long(current) \/ Chars(current) \subseteq Chars(begun)
      <3>1. CASE Len(current) <= overlap
        BY <2>2, <2>3, <3>1
      <3>2. CASE ~(Len(current) <= overlap)
        BY <1>0, <2>5, <3>2 DEF Overlapping, Long
      <3>3. QED  BY <3>1, <3>2
    <2>6. ASSUME Overlapping
          PROVE  Chars(Block) \union Chars(current) \union LongChars(chunks)
                   \subseteq LongChars(chunks') \union Chars(current')
      <3>1. CASE chunks' = Append(chunks, current) /\ current' = begun
        <4>1. Chars(chunks') = Chars(chunks) \union {current}
          <5>1. chunks' = Flushed(chunks, current)
            BY <2>4, <3>1 DEF Flushed
          <5>2. Chars(Flushed(chunks, current))
                  = Chars(chunks) \union (IF current = <<>> THEN {} ELSE {current})
            BY <1>0, FlushedFacts
          <5>3. QED  BY <2>4, <5>1, <5>2
        <4>2. LongChars(chunks) \subseteq LongChars(chunks')
          BY <4>1 DEF LongChars
        <4>3. Long(current) => Chars(current) \subseteq LongChars(chunks')
          BY <4>1 DEF LongChars
        <4>4. QED  BY <2>3, <2>5, <2>6, <3>1, <4>2, <4>3
      <3>2. CASE /\ Len(begun) > max /\ chunks' = chunks \o <<current, cut>>
                 /\ current' = IF overlap = 0 THEN <<>> ELSE From(begun, max - overlap)
        <4>1. cut \in Strings /\ Len(cut) = max
          BY <1>0, <2>3, <3>2, PrefixFacts
        <4>2. Chars(begun) \subseteq Chars(cut) \union Chars(From(begun, max - overlap))
          <5>1. overlap \in 1..max /\ max \in Nat /\ max <= Len(begun)
            BY <1>0, <2>3, <2>6, <3>2 DEF Overlapping
          <5>2. QED  BY <2>3, <5>1, CutCovers
        <4>3. current' = From(begun, max - overlap)
          BY <2>6, <3>2 DEF Overlapping
        <4> HIDE DEF cut
        <4> DEFINE two == <<current, cut>>
        <4>4. two \in Seq(Strings) /\ Chars(two) = {current, cut}
          BY <1>0, <4>1, CharsTwo
        <4> HIDE DEF two
        <4>5. Chars(chunks \o two) = Chars(chunks) \union Chars(two)
          BY <1>0, <4>4, CharsConcat
        <4>6. chunks' = chunks \o two
          BY <3>2 DEF two
        <4>7. Chars(chunks') = Chars(chunks) \union {current, cut}
          BY <4>4, <4>5, <4>6
        <4>8. Long(cut)
          BY <1>0, <2>6, <4>1 DEF Overlapping, Long
        <4>9. /\ LongChars(chunks) \subseteq LongChars(chunks')
              /\ Long(current) => Chars(current) \subseteq LongChars(chunks')
              /\ Chars(cut) \subseteq LongChars(chunks')
          BY <4>7, <4>8 DEF LongChars
        <4>10. QED  BY <2>3, <2>5, <2>6, <4>2, <4>3, <4>9
      <3>3. QED  BY <2>4, <3>1, <3>2
    <2>7. QED  BY <2>4, <2>6, MergedOn
  <1>9. CASE EndBlocks
    <2>1. /\ pc = "merge" /\ next > Len(blocks) /\ next \in Nat /\ Len(blocks) \in Nat
          /\ pc' = "done" /\ chunks' = Flushed(chunks, current)
          /\ text' = text /\ blocks' = blocks /\ max' = max /\ overlap' = overlap
          /\ DOMAIN blocks = 1..Len(blocks)
      BY <1>0, <1>9, LenProperties DEF EndBlocks, TypeOK, call
    <2>2. chunks' \in Seq(Strings) /\ DOMAIN (chunks') = 1..Len(chunks')
      BY <1>0, <2>1, FlushedFacts, LenProperties
    <2> DEFINE Out == UNION {Chars(chunks'[i]) : i \in {i \in DOMAIN (chunks') : i = Len(chunks') \/ Long(chunks'[i])}}
    <2>3. ASSUME Overlapping PROVE LongChars(chunks) \subseteq Out
      <3>1. Chars(chunks) \subseteq Chars(chunks')
        BY <1>0, <2>1, FlushedFacts
      <3>2. QED  BY <3>1 DEF LongChars, Chars
    <2>4. Chars(current) \subseteq Out
      <3>1. CASE current = <<>>
        BY <3>1, AllCharsNone
      <3>2. CASE current # <<>>
        <4>1. chunks' = Append(chunks, current)
          BY <2>1, <3>2 DEF Flushed
        <4>2. chunks'[Len(chunks')] = current /\ Len(chunks') \in DOMAIN (chunks')
          BY <1>0, <2>2, <4>1, AppendProperties
        <4>3. QED  BY <4>2
      <3>3. QED  BY <3>1, <3>2
    <2>5. ASSUME Overlapping, NEW j \in DOMAIN blocks
          PROVE  Chars(blocks[j]) \subseteq LongChars(chunks) \union Chars(current)
      <3>1. j \in 1..(next - 1)
        BY <2>1, <2>5
      <3>2. QED  BY <2>1, <2>5, <3>1 DEF KeptInv, MergeInv
    <2>6. Overlapping => AllChars(blocks) \subseteq Out
      BY <2>3, <2>4, <2>5 DEF AllChars
    <2>7. Overlapping => \A p \in DOMAIN text : \A s \in DOMAIN text[p] : Chars(text[p][s]) \subseteq Out
      BY <2>1, <2>6 DEF KeptInv, MergeInv
    <2>8. Out \subseteq UNION {Chars(chunks'[i]) : i \in Result' \union {Len(chunks')}}
      BY DEF Result
    <2> HIDE DEF Out
    <2>9. NothingLost'
      BY <2>1, <2>7, <2>8 DEF NothingLost, Overlapping
    <2>10. QED
      BY <2>1, <2>9 DEF KeptInv, SplitInv, MergeInv
  <1>10. CASE UNCHANGED vars
    BY <1>10 DEF vars, call, KeptInv, SplitInv, MergeInv, NothingLost, Result, Read, Overlapping
  <1>11. QED
    BY <1>1, <1>2, <1>3, <1>4, <1>5, <1>6, <1>7, <1>8, <1>9, <1>10 DEF Next

(* With an overlap and a minimum as the code has them, no character of any  *)
(* text is lost between the chunks. (chunk)                                 *)
THEOREM AllKept == Spec => []NothingLost
  <1>1. KeptInv => NothingLost
    BY DEF KeptInv
  <1>2. QED
    BY <1>1, InitCounted, InitKept, StepCounted, StepKept, PTL DEF Spec

-----------------------------------------------------------------------------
(* Chunks are passages *)

(* The characters of s that come from the text go up, and none is left out  *)
(* between one of them and b, where s stops.                                *)
At(s) == {i \in DOMAIN s : s[i] \in Nat}
Upto(s, b) ==
    /\ \A i, j \in At(s) : i < j => s[i] < s[j]
    /\ \A i \in At(s) : s[i] <= b /\ \A q \in s[i]..b : q \in Chars(s)

(* A passage that begins and ends with characters of the text. *)
Solid(s) == s # <<>> /\ s[1] \in Nat /\ EndOf(s) \in Nat /\ Upto(s, EndOf(s))

LEMMA SubFacts ==
    ASSUME NEW s \in Strings, NEW lo \in Nat \ {0}, NEW hi \in 0..Len(s)
    PROVE  /\ SubSeq(s, lo, hi) \in Strings
           /\ Len(SubSeq(s, lo, hi)) = IF lo <= hi THEN hi - lo + 1 ELSE 0
           /\ DOMAIN SubSeq(s, lo, hi) = 1..Len(SubSeq(s, lo, hi))
           /\ \A q \in DOMAIN SubSeq(s, lo, hi) : SubSeq(s, lo, hi)[q] = s[lo + q - 1]
  <1>1. Len(s) \in Nat /\ hi \in Nat
    BY LenProperties DEF Strings
  <1>2. \A i \in lo..hi : s[i] \in Characters
    BY <1>1, ElementOfSeq DEF Strings
  <1> DEFINE c == SubSeq(s, lo, hi)
  <1>3. /\ c \in Strings /\ Len(c) = IF lo <= hi THEN hi - lo + 1 ELSE 0
        /\ \A i \in 1..(hi - lo + 1) : c[i] = s[lo + i - 1]
    BY <1>1, <1>2, SubSeqProperties DEF Strings
  <1>4. DOMAIN c = 1..Len(c)
    BY <1>3, LenProperties DEF Strings
  <1> HIDE DEF c
  <1>5. \A i \in DOMAIN c : c[i] = s[lo + i - 1]
    BY <1>1, <1>3, <1>4
  <1>6. QED
    BY <1>3, <1>4, <1>5 DEF c

(* The beginning of such a string is a passage. *)
LEMMA UptoPassage ==
    ASSUME NEW s \in Strings, NEW b \in Nat, Upto(s, b), NEW m \in 0..Len(s)
    PROVE  Passage(SubSeq(s, 1, m))
  <1> DEFINE c == SubSeq(s, 1, m)
  <1>1. Len(s) \in Nat /\ DOMAIN s = 1..Len(s) /\ m \in Nat /\ m <= Len(s)
    BY LenProperties DEF Strings
  <1>2. c \in Strings /\ Len(c) = m /\ DOMAIN c = 1..m
    BY <1>1, SubFacts
  <1>3. \A i \in 1..m : c[i] = s[i]
    BY <1>1, <1>2, SubFacts
  <1> HIDE DEF c
  <1>4. \A i \in DOMAIN c : c[i] \in Nat => i \in At(s)
    BY <1>1, <1>2, <1>3 DEF At
  <1>5. ASSUME NEW i \in DOMAIN c, NEW j \in DOMAIN c, c[i] \in Nat, c[j] \in Nat, i < j
        PROVE  c[i] < c[j]
    BY <1>2, <1>3, <1>4, <1>5 DEF Upto
  <1>6. ASSUME NEW i \in DOMAIN c, NEW j \in DOMAIN c, c[i] \in Nat, c[j] \in Nat,
               NEW q \in c[i]..c[j]
        PROVE  q \in Chars(c)
    <2>1. i \in At(s) /\ j \in At(s) /\ c[i] = s[i] /\ c[j] = s[j]
      BY <1>2, <1>3, <1>4, <1>6
    <2>2. s[j] <= b /\ \A x \in s[i]..b : x \in Chars(s)
      BY <2>1 DEF Upto
    <2>3. q \in Chars(s) /\ q \in Nat
      BY <1>6, <2>1, <2>2
    <2>4. PICK k \in DOMAIN s : s[k] = q
      BY <2>3 DEF Chars
    <2>5. k \in At(s)
      BY <2>3, <2>4 DEF At
    <2>6. ~(j < k)
      BY <1>6, <2>1, <2>4, <2>5 DEF Upto
    <2>7. k \in 1..m
      BY <1>1, <1>2, <2>4, <2>6
    <2>8. QED  BY <1>2, <1>3, <2>4, <2>7 DEF Chars
  <1>7. QED
    BY <1>5, <1>6 DEF Passage, c

(* So is its end, and it stops where the string does. *)
LEMMA UptoSuffix ==
    ASSUME NEW s \in Strings, NEW b \in Nat, Upto(s, b), NEW k \in Nat
    PROVE  Upto(SubSeq(s, k + 1, Len(s)), b)
  <1> DEFINE c == SubSeq(s, k + 1, Len(s))
  <1>1. Len(s) \in Nat /\ DOMAIN s = 1..Len(s)
    BY LenProperties DEF Strings
  <1>2. k + 1 \in Nat \ {0} /\ Len(s) \in 0..Len(s)
    BY <1>1
  <1>a. /\ c \in Strings /\ DOMAIN c = 1..Len(c)
        /\ Len(c) = IF k + 1 <= Len(s) THEN Len(s) - (k + 1) + 1 ELSE 0
    BY <1>2, SubFacts
  <1>q. \A i \in DOMAIN c : c[i] = s[(k + 1) + i - 1]
    BY <1>2, SubFacts
  <1> HIDE DEF c
  <1>n. PICK n \in Nat : n = Len(s)
    BY <1>1
  <1>b. PICK l \in Nat : l = Len(c) /\ (l = 0 \/ k + l = n) /\ (k + 1 <= n => k + l = n)
    <2>1. Len(c) = IF k + 1 <= n THEN n - (k + 1) + 1 ELSE 0
      BY <1>a, <1>n
    <2>2. CASE k + 1 <= n
      <3>1. n - (k + 1) + 1 \in Nat /\ k + (n - (k + 1) + 1) = n
        BY <2>2
      <3>2. QED  BY <2>1, <2>2, <3>1
    <2>3. CASE ~(k + 1 <= n)
      BY <2>1, <2>3
    <2>4. QED  BY <2>2, <2>3
  <1>3. ASSUME NEW i \in DOMAIN c PROVE c[i] = s[k + i] /\ k + i \in DOMAIN s /\ i \in Nat
    <2>1. i \in 1..l
      BY <1>a, <1>b
    <2>2. (k + 1) + i - 1 = k + i /\ k + i \in 1..n /\ i \in Nat
      BY <1>b, <2>1
    <2>3. QED  BY <1>1, <1>n, <1>q, <2>2
  <1>4. \A i \in At(c) : k + i \in At(s) /\ c[i] = s[k + i] /\ i \in Nat
    BY <1>3 DEF At
  <1>5. \A i, j \in At(c) : i < j => c[i] < c[j]
    BY <1>4 DEF Upto
  <1>6. ASSUME NEW i \in At(c), NEW q \in c[i]..b PROVE q \in Chars(c)
    <2>1. k + i \in At(s) /\ c[i] = s[k + i] /\ c[i] \in Nat /\ i \in Nat
      BY <1>4, <1>6 DEF At
    <2>2. q \in Chars(s) /\ q \in Nat
      BY <1>6, <2>1 DEF Upto
    <2>3. PICK j \in DOMAIN s : s[j] = q
      BY <2>2 DEF Chars
    <2>4. j \in At(s)
      BY <2>2, <2>3 DEF At
    <2>5. ~(j < k + i)
      <3>1. s[j] >= s[k + i] /\ s[j] \in Nat /\ s[k + i] \in Nat
        BY <1>6, <2>1, <2>2, <2>3
      <3>2. k + i \in At(s) /\ j \in At(s)
        BY <2>1, <2>4
      <3>3. j < k + i => s[j] < s[k + i]
        BY <3>2 DEF Upto
      <3>4. QED  BY <3>1, <3>3
    <2>6. j - k \in DOMAIN c /\ k + (j - k) = j
      <3>1. i \in 1..l /\ j \in 1..n
        BY <1>1, <1>a, <1>b, <1>n, <1>6 DEF At
      <3>2. j - k \in 1..l /\ k + (j - k) = j
        BY <1>b, <2>1, <2>5, <3>1
      <3>3. QED  BY <1>a, <1>b, <3>2
    <2>7. c[j - k] = q
      BY <1>3, <2>3, <2>6
    <2>8. QED  BY <2>6, <2>7 DEF Chars
  <1>7. \A i \in At(c) : c[i] <= b
    BY <1>4 DEF Upto
  <1>8. QED
    BY <1>5, <1>6, <1>7 DEF Upto, c

LEMMA ConcatAt ==
    ASSUME NEW s \in Strings, NEW t \in Strings
    PROVE  /\ s \o t \in Strings /\ Len(s \o t) = Len(s) + Len(t)
           /\ Len(s) \in Nat /\ Len(t) \in Nat
           /\ DOMAIN s = 1..Len(s) /\ DOMAIN t = 1..Len(t)
           /\ DOMAIN (s \o t) = 1..(Len(s) + Len(t))
           /\ \A i \in 1..Len(s) : (s \o t)[i] = s[i]
           /\ \A i \in (Len(s) + 1)..(Len(s) + Len(t)) :
                (s \o t)[i] = t[i - Len(s)] /\ i - Len(s) \in 1..Len(t)
           /\ Chars(s \o t) = Chars(s) \union Chars(t)
  <1>1. s \in Seq(Characters) /\ t \in Seq(Characters)
    BY DEF Strings
  <1>2. /\ s \o t \in Seq(Characters) /\ Len(s \o t) = Len(s) + Len(t)
        /\ \A i \in 1..(Len(s) + Len(t)) :
             (s \o t)[i] = IF i <= Len(s) THEN s[i] ELSE t[i - Len(s)]
    BY <1>1, ConcatProperties
  <1>3. /\ Len(s) \in Nat /\ Len(t) \in Nat /\ DOMAIN s = 1..Len(s) /\ DOMAIN t = 1..Len(t)
        /\ DOMAIN (s \o t) = 1..(Len(s) + Len(t))
    BY <1>1, <1>2, LenProperties
  <1>4. Chars(s \o t) = Chars(s) \union Chars(t)
    BY <1>1, CharsConcat
  <1>5. /\ \A i \in 1..Len(s) : (s \o t)[i] = s[i]
        /\ \A i \in (Len(s) + 1)..(Len(s) + Len(t)) :
             (s \o t)[i] = t[i - Len(s)] /\ i - Len(s) \in 1..Len(t)
    BY <1>2, <1>3
  <1>6. QED
    BY <1>2, <1>3, <1>4, <1>5 DEF Strings

(* A separator behind a string changes nothing of it. *)
LEMMA UptoJoint ==
    ASSUME NEW s \in Strings, NEW b \in Nat, Upto(s, b), NEW t \in Strings, Chars(t) \intersect Nat = {}
    PROVE  Upto(s \o t, b)
  <1> DEFINE u == s \o t
  <1>1. /\ u \in Strings /\ Len(s) \in Nat /\ Len(t) \in Nat
        /\ DOMAIN s = 1..Len(s) /\ DOMAIN t = 1..Len(t) /\ DOMAIN u = 1..(Len(s) + Len(t))
        /\ \A i \in 1..Len(s) : u[i] = s[i]
        /\ \A i \in (Len(s) + 1)..(Len(s) + Len(t)) : u[i] = t[i - Len(s)] /\ i - Len(s) \in 1..Len(t)
        /\ Chars(u) = Chars(s) \union Chars(t)
    BY ConcatAt
  <1> HIDE DEF u
  <1>2. \A i \in At(u) : i \in At(s) /\ u[i] = s[i]
    BY <1>1 DEF At, Chars
  <1>3. QED
    BY <1>1, <1>2 DEF Upto, u

(* A string that stops at b goes on with a passage that begins at b + 1. *)
LEMMA UptoConcat ==
    ASSUME NEW s \in Strings, NEW b \in Nat, Upto(s, b),
           NEW t \in Strings, Solid(t), t[1] = b + 1
    PROVE  Upto(s \o t, EndOf(t))
  <1> DEFINE u == s \o t
             m == EndOf(t)
  <1>1. /\ u \in Strings /\ Len(s) \in Nat /\ Len(t) \in Nat
        /\ DOMAIN s = 1..Len(s) /\ DOMAIN t = 1..Len(t) /\ DOMAIN u = 1..(Len(s) + Len(t))
        /\ \A i \in 1..Len(s) : u[i] = s[i]
        /\ \A i \in (Len(s) + 1)..(Len(s) + Len(t)) : u[i] = t[i - Len(s)] /\ i - Len(s) \in 1..Len(t)
        /\ Chars(u) = Chars(s) \union Chars(t)
    BY ConcatAt
  <1>2. /\ m \in Nat /\ Upto(t, m) /\ 1 \in DOMAIN t /\ 1 \in At(t)
    <2>1. Len(t) # 0
      BY EmptySeq DEF Solid, Strings
    <2>2. QED  BY <1>1, <2>1 DEF Solid, At
  <1> HIDE DEF u, m
  <1>3. /\ \A i \in At(t) : b + 1 <= t[i] /\ t[i] <= m
        /\ (b + 1)..m \subseteq Chars(t) /\ b + 1 <= m
    <2>1. \A i \in At(t) : i = 1 \/ t[1] < t[i]
      BY <1>1, <1>2 DEF Upto, At
    <2>2. QED  BY <1>2, <2>1 DEF Upto, At
  <1>4. ASSUME NEW i \in At(u)
        PROVE  \/ i \in At(s) /\ u[i] = s[i] /\ i <= Len(s)
               \/ i > Len(s) /\ i - Len(s) \in At(t) /\ u[i] = t[i - Len(s)]
    BY <1>1, <1>4 DEF At
  <1>5. ASSUME NEW i \in At(u), NEW j \in At(u), i < j PROVE u[i] < u[j]
    <2>1. i \in 1..(Len(s) + Len(t)) /\ j \in 1..(Len(s) + Len(t))
      BY <1>1, <1>5 DEF At
    <2>2. CASE j <= Len(s)
      <3>1. i \in At(s) /\ u[i] = s[i] /\ j \in At(s) /\ u[j] = s[j]
        BY <1>1, <1>4, <1>5, <2>1, <2>2
      <3>2. QED  BY <1>5, <3>1 DEF Upto
    <2>3. CASE i <= Len(s) /\ j > Len(s)
      <3>1. i \in At(s) /\ u[i] = s[i] /\ j - Len(s) \in At(t) /\ u[j] = t[j - Len(s)]
        BY <1>1, <1>4, <1>5, <2>1, <2>3
      <3>2. s[i] \in Nat /\ t[j - Len(s)] \in Nat /\ s[i] <= b
        BY <3>1 DEF At, Upto
      <3>3. QED  BY <1>3, <3>1, <3>2
    <2>4. CASE i > Len(s)
      <3>1. /\ i - Len(s) \in At(t) /\ u[i] = t[i - Len(s)]
            /\ j - Len(s) \in At(t) /\ u[j] = t[j - Len(s)]
        BY <1>1, <1>4, <1>5, <2>1, <2>4
      <3>2. i - Len(s) < j - Len(s)
        BY <1>1, <1>5, <2>1
      <3>3. QED  BY <1>2, <3>1, <3>2 DEF Upto
    <2>5. QED  BY <1>1, <2>1, <2>2, <2>3, <2>4
  <1>6. ASSUME NEW i \in At(u) PROVE u[i] <= m /\ \A q \in u[i]..m : q \in Chars(u)
    <2>1. CASE i \in At(s) /\ u[i] = s[i]
      <3>1. s[i] \in Nat /\ s[i] <= b /\ \A q \in s[i]..b : q \in Chars(s)
        BY <2>1 DEF At, Upto
      <3>2. \A q \in s[i]..m : q \in s[i]..b \/ q \in (b + 1)..m
        BY <1>2, <3>1
      <3>3. QED  BY <1>1, <1>2, <1>3, <2>1, <3>1, <3>2
    <2>2. CASE i - Len(s) \in At(t) /\ u[i] = t[i - Len(s)]
      BY <1>1, <1>2, <2>2 DEF Upto
    <2>3. QED  BY <1>4, <1>6, <2>1, <2>2
  <1>7. QED
    BY <1>5, <1>6 DEF Upto, u, m

LEMMA JoinedUpto ==
    ASSUME NEW s \in Strings, NEW b \in Nat, Upto(s, b),
           NEW joint \in Strings, Chars(joint) \intersect Nat = {},
           NEW t \in Strings, Solid(t), t[1] = b + 1
    PROVE  Upto(Joined(s, joint, t), EndOf(t))
  <1>1. CASE s = <<>>
    BY <1>1 DEF Joined, Solid
  <1>2. CASE s # <<>>
    <2> DEFINE u == s \o joint
    <2>1. Joined(s, joint, t) = u \o t
      BY <1>2 DEF Joined
    <2>2. u \in Strings /\ Upto(u, b)
      BY ConcatAt, UptoJoint
    <2> HIDE DEF u
    <2>3. QED  BY <2>1, <2>2, UptoConcat
  <1>3. QED  BY <1>1, <1>2

(* Two passages that follow each other are one. *)
LEMMA JoinedSolid ==
    ASSUME NEW s \in Strings, NEW joint \in Strings, Chars(joint) \intersect Nat = {},
           NEW t \in Strings, Solid(t),
           s # <<>> => Solid(s) /\ t[1] = EndOf(s) + 1
    PROVE  /\ Solid(Joined(s, joint, t)) /\ EndOf(Joined(s, joint, t)) = EndOf(t)
           /\ Joined(s, joint, t)[1] = IF s = <<>> THEN t[1] ELSE s[1]
  <1>1. CASE s = <<>>
    BY <1>1 DEF Joined
  <1>2. CASE s # <<>>
    <2> DEFINE u == s \o joint
               v == u \o t
    <2>1. Joined(s, joint, t) = v
      BY <1>2 DEF Joined
    <2>2. /\ u \in Strings /\ Len(u) = Len(s) + Len(joint) /\ Len(s) \in Nat /\ Len(joint) \in Nat
          /\ \A i \in 1..Len(s) : u[i] = s[i]
      BY ConcatAt
    <2>3. Len(s) # 0 /\ Len(t) # 0
      BY <1>2, EmptySeq DEF Solid, Strings
    <2> HIDE DEF u
    <2>4. /\ v \in Strings /\ Len(v) = Len(u) + Len(t) /\ Len(t) \in Nat /\ Len(u) \in Nat
          /\ \A i \in 1..Len(u) : v[i] = u[i]
          /\ \A i \in (Len(u) + 1)..(Len(u) + Len(t)) : v[i] = t[i - Len(u)] /\ i - Len(u) \in 1..Len(t)
      BY <2>2, ConcatAt
    <2> HIDE DEF v
    <2>5. v # <<>> /\ v[1] = s[1]
      BY <2>2, <2>3, <2>4
    <2>6. EndOf(v) = EndOf(t)
      <3>1. Len(u) + Len(t) \in (Len(u) + 1)..(Len(u) + Len(t)) /\ Len(u) + Len(t) - Len(u) = Len(t)
        BY <2>3, <2>4
      <3>2. v[Len(u) + Len(t)] = t[Len(u) + Len(t) - Len(u)]
        BY <2>4, <3>1
      <3>3. QED  BY <2>4, <3>1, <3>2 DEF EndOf
    <2>7. Upto(v, EndOf(t))
      BY <1>2, <2>1, JoinedUpto DEF Solid
    <2>8. QED  BY <1>2, <2>1, <2>5, <2>6, <2>7 DEF Solid
  <1>3. QED  BY <1>1, <1>2

(* Positions that go up by one are a passage, and so is any part of them. *)
Consecutive(s) == \A i \in DOMAIN s : s[i] = s[1] + i - 1

LEMMA ConsecutiveSolid ==
    ASSUME NEW s \in Seq(Nat), s # <<>>, Consecutive(s)
    PROVE  Solid(s)
  <1>1. /\ Len(s) \in Nat \ {0} /\ DOMAIN s = 1..Len(s) /\ \A i \in 1..Len(s) : s[i] \in Nat
    BY EmptySeq, LenProperties, ElementOfSeq
  <1>2. PICK n \in Nat \ {0} : n = Len(s)
    BY <1>1
  <1>3. PICK a \in Nat : a = s[1]
    BY <1>1
  <1>4. \A i \in 1..n : s[i] = a + i - 1
    BY <1>1, <1>2, <1>3 DEF Consecutive
  <1>5. At(s) = 1..n
    BY <1>1, <1>2 DEF At
  <1>6. EndOf(s) = a + n - 1
    BY <1>2, <1>4 DEF EndOf
  <1>7. ASSUME NEW i \in 1..n, NEW q \in s[i]..(a + n - 1) PROVE q \in Chars(s)
    <2>1. s[i] = a + i - 1 /\ q \in Nat /\ q - a + 1 \in 1..n
      BY <1>4, <1>7
    <2>2. s[q - a + 1] = a + (q - a + 1) - 1
      BY <1>4, <2>1
    <2>3. s[q - a + 1] = q
      BY <2>1, <2>2
    <2>4. QED  BY <1>1, <1>2, <2>1, <2>3 DEF Chars
  <1>8. \A i \in 1..n : s[i] <= a + n - 1
    BY <1>4
  <1>9. \A i, j \in 1..n : i < j => s[i] < s[j]
    BY <1>4
  <1>10. Upto(s, EndOf(s))
    BY <1>5, <1>6, <1>7, <1>8, <1>9 DEF Upto
  <1>11. QED
    BY <1>3, <1>6, <1>10 DEF Solid

LEMMA PieceSolid ==
    ASSUME NEW s \in Seq(Nat), Consecutive(s),
           NEW lo \in Nat \ {0}, NEW hi \in Nat, lo <= hi, hi <= Len(s)
    PROVE  /\ Solid(SubSeq(s, lo, hi)) /\ SubSeq(s, lo, hi)[1] = s[lo]
           /\ EndOf(SubSeq(s, lo, hi)) = s[hi]
  <1> DEFINE c == SubSeq(s, lo, hi)
  <1>1. /\ Len(s) \in Nat /\ DOMAIN s = 1..Len(s) /\ \A i \in 1..Len(s) : s[i] \in Nat
    BY LenProperties, ElementOfSeq
  <1>2. \A i \in lo..hi : s[i] \in Nat
    BY <1>1
  <1>3. c \in Seq(Nat) /\ Len(c) = hi - lo + 1
    BY <1>2, SubSeqProperties
  <1>4. \A i \in 1..(hi - lo + 1) : c[i] = s[lo + i - 1]
    BY <1>2, SubSeqProperties
  <1> HIDE DEF c
  <1>5. PICK n \in Nat \ {0} : n = hi - lo + 1
    OBVIOUS
  <1>6. c # <<>> /\ DOMAIN c = 1..n
    BY <1>3, <1>5, LenProperties
  <1>7. PICK a \in Nat : a = s[1]
    BY <1>1
  <1>8. \A i \in 1..n : c[i] = a + (lo + i - 1) - 1 /\ c[i] = s[lo + i - 1]
    <2> SUFFICES ASSUME NEW i \in 1..n PROVE c[i] = a + (lo + i - 1) - 1 /\ c[i] = s[lo + i - 1]
      OBVIOUS
    <2>1. lo + i - 1 \in 1..Len(s)
      BY <1>1, <1>5
    <2>2. s[lo + i - 1] = a + (lo + i - 1) - 1
      BY <1>1, <1>7, <2>1 DEF Consecutive
    <2>3. QED  BY <1>4, <1>5, <2>2
  <1>9. c[1] = s[lo] /\ c[n] = s[hi]
    BY <1>5, <1>8
  <1>10. Consecutive(c)
    <2>1. \A i \in 1..n : c[i] = c[1] + i - 1
      BY <1>8
    <2>2. QED  BY <1>6, <2>1 DEF Consecutive
  <1>11. Solid(c)
    BY <1>3, <1>6, <1>10, ConsecutiveSolid
  <1>12. EndOf(c) = s[hi]
    BY <1>3, <1>5, <1>9 DEF EndOf
  <1>13. QED
    BY <1>9, <1>11, <1>12 DEF c

(* Passages that follow each other *)
Chained(ss) == \A i \in DOMAIN ss :
    Solid(ss[i]) /\ (i > 1 => ss[i][1] = EndOf(ss[i - 1]) + 1)

LEMMA ChainedConcat ==
    ASSUME NEW ss \in Seq(Blocks), Chained(ss), NEW tt \in Seq(Blocks), Chained(tt),
           ss # <<>> /\ tt # <<>> => tt[1][1] = EndOf(EndOf(ss)) + 1
    PROVE  Chained(ss \o tt) /\ (tt # <<>> => EndOf(ss \o tt) = EndOf(tt))
  <1> DEFINE uu == ss \o tt
  <1>1. PICK n \in Nat : n = Len(ss) /\ DOMAIN ss = 1..n
    BY LenProperties
  <1>2. PICK m \in Nat : m = Len(tt) /\ DOMAIN tt = 1..m
    BY LenProperties
  <1>3. /\ uu \in Seq(Blocks) /\ Len(uu) = n + m
        /\ \A i \in 1..(n + m) : uu[i] = IF i <= n THEN ss[i] ELSE tt[i - n]
    BY <1>1, <1>2, ConcatProperties
  <1>4. DOMAIN uu = 1..(n + m)
    BY <1>3, LenProperties
  <1> HIDE DEF uu
  <1>5. ASSUME NEW i \in 1..(n + m)
        PROVE  Solid(uu[i]) /\ (i > 1 => uu[i][1] = EndOf(uu[i - 1]) + 1)
    <2>1. CASE i <= n
      <3>1. i \in 1..n /\ uu[i] = ss[i] /\ (i > 1 => uu[i - 1] = ss[i - 1])
        BY <1>3, <1>5, <2>1
      <3>2. QED  BY <1>1, <3>1 DEF Chained
    <2>2. CASE i = n + 1
      <3>1. uu[i] = tt[1] /\ 1 \in 1..m /\ tt # <<>>
        BY <1>2, <1>3, <1>5, <2>2, EmptySeq
      <3>2. Solid(uu[i])
        BY <1>2, <3>1 DEF Chained
      <3>3. ASSUME i > 1 PROVE uu[i][1] = EndOf(uu[i - 1]) + 1
        <4>1. n \in 1..n /\ uu[i - 1] = ss[n] /\ ss # <<>>
          BY <1>1, <1>3, <1>5, <2>2, <3>3, EmptySeq
        <4>2. EndOf(ss) = ss[n]
          BY <1>1 DEF EndOf
        <4>3. QED  BY <3>1, <4>1, <4>2
      <3>4. QED  BY <3>2, <3>3
    <2>3. CASE i > n + 1
      <3>1. PICK j \in Nat : j = i - n /\ j \in 1..m /\ j > 1 /\ i - 1 = (j - 1) + n
        BY <1>5, <2>3
      <3>2. uu[i] = tt[j]
        BY <1>3, <1>5, <2>3, <3>1
      <3>3. i - 1 \in 1..(n + m) /\ ~(i - 1 <= n) /\ (i - 1) - n = j - 1
        BY <1>5, <2>3, <3>1
      <3>4. uu[i - 1] = tt[j - 1]
        BY <1>3, <3>3
      <3>5. QED  BY <1>2, <3>1, <3>2, <3>4 DEF Chained
    <2>4. QED  BY <1>5, <2>1, <2>2, <2>3
  <1>6. ASSUME tt # <<>> PROVE EndOf(uu) = EndOf(tt)
    <2>1. m # 0 /\ n + m \in 1..(n + m) /\ n + m > n /\ (n + m) - n = m
      BY <1>2, <1>6, EmptySeq
    <2>2. uu[n + m] = tt[m]
      BY <1>3, <2>1
    <2>3. QED  BY <1>2, <1>3, <2>2 DEF EndOf
  <1>7. QED
    BY <1>4, <1>5, <1>6 DEF Chained, uu

LEMMA FlushedChained ==
    ASSUME NEW ss \in Seq(Blocks), Chained(ss), NEW s \in Strings,
           s # <<>> => Solid(s) /\ (ss # <<>> => s[1] = EndOf(EndOf(ss)) + 1)
    PROVE  /\ Flushed(ss, s) \in Seq(Blocks) /\ Chained(Flushed(ss, s))
           /\ s # <<>> => Flushed(ss, s) # <<>> /\ EndOf(Flushed(ss, s)) = s
  <1>1. CASE s = <<>>
    BY <1>1 DEF Flushed
  <1>2. CASE s # <<>>
    <2> DEFINE one == <<s>>
    <2>1. /\ s \in Blocks /\ one \in Seq(Blocks) /\ one # <<>> /\ DOMAIN one = {1}
          /\ one[1] = s /\ EndOf(one) = s
      BY <1>2 DEF Blocks, EndOf
    <2>2. Flushed(ss, s) = ss \o one
      BY <1>2, <2>1, AppendIsConcat DEF Flushed
    <2> HIDE DEF one
    <2>3. Chained(one)
      BY <1>2, <2>1 DEF Chained
    <2>4. Chained(ss \o one) /\ EndOf(ss \o one) = s
      BY <1>2, <2>1, <2>3, ChainedConcat
    <2>5. ss \o one \in Seq(Blocks) /\ Len(ss \o one) = Len(ss) + Len(one)
          /\ Len(ss) \in Nat /\ Len(one) \in Nat /\ Len(one) # 0
      BY <2>1, ConcatProperties, LenProperties, EmptySeq
    <2>6. ss \o one # <<>>
      BY <2>5
    <2>7. QED  BY <1>2, <2>2, <2>4, <2>5, <2>6
  <1>3. QED  BY <1>1, <1>2

(* The pieces of a sentence follow each other, from its start to its end. *)
LEMMA CutsChained ==
    ASSUME NEW s \in Seq(Nat), s # <<>>, Consecutive(s), NEW n \in Nat \ {0}
    PROVE  /\ Chained(Cuts(s, n)) /\ Cuts(s, n) # <<>>
           /\ Cuts(s, n)[1][1] = s[1] /\ EndOf(EndOf(Cuts(s, n))) = EndOf(s)
  <1>1. PICK L \in Nat \ {0} : L = Len(s) /\ DOMAIN s = 1..L
    BY EmptySeq, LenProperties
  <1>2. PICK d \in Nat : d = (L - 1) \div n
    <2>1. L - 1 \in Nat /\ (L - 1) \div n \in Nat
      OBVIOUS
    <2>2. QED  BY <2>1
  <1>3. n * d <= L - 1 /\ L - 1 < n * d + n
    BY <1>2
  <1> DEFINE m == d + 1
             lo(i) == (i - 1) * n + 1
             hi(i) == IF i * n <= L THEN i * n ELSE L
             C == [i \in 1..m |-> SubSeq(s, lo(i), hi(i))]
  <1>4. Cuts(s, n) = C
    BY <1>1, <1>2 DEF Cuts
  <1>5. ASSUME NEW i \in 1..m
        PROVE  /\ lo(i) \in Nat \ {0} /\ hi(i) \in Nat /\ lo(i) <= hi(i) /\ hi(i) <= L
               /\ i > 1 => lo(i) = hi(i - 1) + 1
    <2>1. i - 1 \in Nat /\ i - 1 <= d
      BY <1>5
    <2>2. (i - 1) * n \in Nat /\ i * n = (i - 1) * n + n /\ (i - 1) * n <= d * n
      BY <2>1
    <2>3. (i - 1) * n <= L - 1
      BY <1>3, <2>2
    <2>4. QED  BY <2>2, <2>3
  <1>6. lo(1) = 1 /\ hi(m) = L
    <2>1. m * n = n * d + n
      OBVIOUS
    <2>2. QED  BY <1>3, <2>1
  <1> HIDE DEF lo, hi
  <1>7. \A i \in 1..m : C[i] = SubSeq(s, lo(i), hi(i))
    OBVIOUS
  <1>8. C \in Seq(Seq(Characters)) /\ Len(C) = m /\ DOMAIN C = 1..m
    <2>1. Cuts(s, n) \in Seq(Blocks)
      BY StringFacts, CutsFacts
    <2>2. Cuts(s, n) \in Seq(Seq(Characters))
      BY <2>1 DEF Blocks, Strings
    <2>3. DOMAIN C = 1..m
      OBVIOUS
    <2>4. QED  BY <1>4, <2>2, <2>3, LenProperties
  <1> HIDE DEF C, m
  <1>9. m \in Nat \ {0} /\ 1 \in 1..m /\ m \in 1..m
    BY DEF m
  <1>10. ASSUME NEW i \in 1..m
         PROVE  Solid(C[i]) /\ C[i][1] = s[lo(i)] /\ EndOf(C[i]) = s[hi(i)]
    <2>1. /\ lo(i) \in Nat \ {0} /\ hi(i) \in Nat /\ lo(i) <= hi(i) /\ hi(i) <= Len(s)
          /\ C[i] = SubSeq(s, lo(i), hi(i))
      BY <1>1, <1>5, <1>7, <1>10
    <2>2. QED  BY <2>1, PieceSolid
  <1>11. ASSUME NEW i \in 1..m, i > 1 PROVE C[i][1] = EndOf(C[i - 1]) + 1
    <2>1. i - 1 \in 1..m
      BY <1>9, <1>11
    <2>2. C[i][1] = s[lo(i)] /\ EndOf(C[i - 1]) = s[hi(i - 1)]
      BY <1>10, <1>11, <2>1
    <2>3. lo(i) \in 1..L /\ hi(i - 1) \in 1..L /\ lo(i) = hi(i - 1) + 1
      BY <1>5, <1>11, <2>1
    <2>4. PICK x \in 1..L, y \in 1..L : x = lo(i) /\ y = hi(i - 1) /\ x = y + 1
      BY <2>3
    <2>5. \A j \in 1..L : s[j] = s[1] + j - 1
      BY <1>1 DEF Consecutive
    <2>6. s[1] \in Nat
      BY <1>1, ElementOfSeq
    <2>7. s[x] = s[1] + x - 1 /\ s[y] = s[1] + y - 1
      BY <2>5
    <2>8. s[x] = s[y] + 1
      BY <2>4, <2>6, <2>7
    <2>9. QED  BY <2>2, <2>4, <2>8
  <1>12. Chained(C)
    BY <1>8, <1>10, <1>11 DEF Chained
  <1>13. C # <<>>
    BY <1>8, <1>9
  <1>14. EndOf(C) = C[m] /\ EndOf(s) = s[L]
    BY <1>1, <1>8 DEF EndOf
  <1>15. QED
    BY <1>4, <1>6, <1>9, <1>10, <1>12, <1>13, <1>14

(* The sentence that is read follows what was read before it. *)
After(p, s) ==
    IF s > 1 THEN EndOf(text[p][s - 1]) ELSE EndOf(EndOf(text[p - 1]))

LEMMA ReadsOn ==
    ASSUME Counted, text \in Texts, Reading
    PROVE  /\ Sentence \in Seq(Nat) \ {<<>>} /\ Consecutive(Sentence) /\ Solid(Sentence)
           /\ Sentence \in Strings
           /\ sent > 1 \/ para > 1 => Sentence[1] = After(para, sent) + 1
  <1>1. /\ text \in Seq(Seq(Sentences) \ {<<>>}) /\ para \in 1..Len(text)
    BY DEF Counted, TypeOK, Reading
  <1>2. para \in DOMAIN text /\ text[para] \in Seq(Sentences)
    BY <1>1, ElementOfSeq, LenProperties
  <1>3. sent \in 1..Len(text[para]) /\ sent \in DOMAIN text[para]
    BY <1>2, LenProperties DEF Counted, TypeOK, Reading
  <1>4. Sentence \in Seq(Nat) \ {<<>>}
    BY <1>2, <1>3, ElementOfSeq DEF Sentence, Sentences
  <1>5. Numbered(text)
    BY NumberedAssumption
  <1>6. Consecutive(Sentence)
    BY <1>2, <1>3, <1>5 DEF Numbered, Sentence, Consecutive
  <1>7. ASSUME sent > 1 \/ para > 1 PROVE Sentence[1] = After(para, sent) + 1
    <2>1. CASE sent > 1
      BY <1>2, <1>3, <1>5, <2>1 DEF Numbered, Sentence, After
    <2>2. CASE sent = 1 /\ para > 1
      BY <1>2, <1>3, <1>5, <2>2 DEF Numbered, Sentence, After
    <2>3. QED  BY <1>3, <1>7, <2>1, <2>2
  <1>8. QED
    BY <1>4, <1>6, <1>7, ConsecutiveSolid, StringFacts

(* The blocks and what is gathered are passages, each where the one before  *)
(* it ends, up to the last sentence read; what is merged stops where the    *)
(* last block merged does.                                                  *)
ReadInv ==
    pc = "split" =>
        /\ Chained(blocks)
        /\ current # <<>> => Solid(current) /\ (blocks # <<>> => current[1] = EndOf(EndOf(blocks)) + 1)
        /\ para <= Len(text) => sent <= Len(text[para]) + 1
        /\ current # <<>> => (sent > 1 \/ para > 1) /\ EndOf(current) = After(para, sent)
        /\ current = <<>> /\ blocks # <<>> =>
             (sent > 1 \/ para > 1) /\ EndOf(EndOf(blocks)) = After(para, sent)
GatherInv ==
    pc = "merge" =>
        /\ Chained(blocks)
        /\ next = 1 => current = <<>>
        /\ next > 1 => Upto(current, EndOf(blocks[next - 1]))
PassageInv ==
    text \in Texts /\ ReadInv /\ GatherInv /\ \A c \in Chars(chunks) : Passage(c)

LEMMA InitPassage == Init => PassageInv
  BY DEF Init, PassageInv, ReadInv, GatherInv, Chained, Chars

LEMMA StringPassage ==
    ASSUME NEW s \in Strings, NEW b \in Nat, Upto(s, b)
    PROVE  Passage(s)
  BY DEF Upto, Passage, At

LEMMA UptoFrom ==
    ASSUME NEW s \in Strings, NEW b \in Nat, Upto(s, b), NEW k \in Int
    PROVE  Upto(From(s, k), b)
  <1> DEFINE start == IF k >= 0 THEN k ELSE IF Len(s) + k >= 0 THEN Len(s) + k ELSE 0
  <1>1. start \in Nat
    BY LenProperties DEF Strings
  <1>2. From(s, k) = SubSeq(s, start + 1, Len(s))
    BY DEF From
  <1> HIDE DEF start
  <1>3. QED
    BY <1>1, <1>2, UptoSuffix

LEMMA UptoTail ==
    ASSUME NEW s \in Strings, NEW b \in Nat, Upto(s, b), NEW n \in Nat
    PROVE  Upto(TailOverlap(s, n), b)
  <1>1. CASE n = 0 \/ Len(s) <= n
    BY <1>1 DEF TailOverlap
  <1>2. CASE ~(n = 0 \/ Len(s) <= n)
    <2> DEFINE snippet == From(s, -n)
    <2>1. Len(s) \in Nat /\ n > 0 /\ n < Len(s)
      BY <1>2, LenProperties DEF Strings
    <2>2. snippet \in Strings /\ Len(snippet) = n /\ Upto(snippet, b)
      BY <2>1, FromFacts, UptoFrom
    <2> HIDE DEF snippet
    <2>3. CASE SpacesOf(snippet) = {}
      <3>1. TailOverlap(s, n) = snippet
        BY <1>2, <2>3 DEF TailOverlap, snippet
      <3>2. QED  BY <2>2, <3>1
    <2>4. CASE SpacesOf(snippet) # {}
      <3> DEFINE j == CHOOSE j \in SpacesOf(snippet) : \A k \in SpacesOf(snippet) : j <= k
      <3>1. SpacesOf(snippet) \subseteq 1..n
        BY <2>2, LenProperties DEF SpacesOf, Strings
      <3>2. \E i \in SpacesOf(snippet) : \A k \in SpacesOf(snippet) : i <= k
        BY <2>4, <3>1, LeastOf
      <3>3. j \in 1..n
        BY <3>1, <3>2
      <3> HIDE DEF j
      <3>4. TailOverlap(s, n) = SubSeq(snippet, j + 1, n)
        BY <1>2, <2>4 DEF TailOverlap, snippet, j
      <3>5. QED  BY <2>2, <3>3, <3>4, UptoSuffix
    <2>5. QED  BY <2>3, <2>4
  <1>3. QED  BY <1>1, <1>2

LEMMA NoText == Chars(<<Space>>) \intersect Nat = {} /\ Chars(Breaks) \intersect Nat = {}
  <1>1. Chars(<<Space>>) = {Space}
    BY DEF Chars
  <1>2. Chars(Breaks) = {Newline, Newline}
    BY CharsTwo DEF Breaks
  <1>3. QED
    BY <1>1, <1>2, JointsAssumption

(* One more sentence is read. *)
LEMMA ReadStep ==
    ASSUME Counted, PassageInv, Reading, pc' = pc, para' = para, sent' = sent + 1,
           UNCHANGED <<call, next, chunks>>,
           Chained(blocks'),
           current' # <<>> =>
             /\ Solid(current') /\ EndOf(current') = EndOf(Sentence)
             /\ blocks' # <<>> => current'[1] = EndOf(EndOf(blocks')) + 1,
           current' = <<>> => EndOf(EndOf(blocks')) = EndOf(Sentence)
    PROVE  PassageInv'
  <1>1. /\ text' = text /\ pc' = "split" /\ pc = "split" /\ text \in Texts
        /\ para \in Nat /\ sent \in Nat /\ Len(text[para]) \in Nat /\ sent <= Len(text[para])
    <2>1. text \in Seq(Seq(Sentences) \ {<<>>}) /\ para \in 1..Len(text)
      BY DEF Counted, TypeOK, Reading
    <2>2. Len(text[para]) \in Nat
      BY <2>1, ElementOfSeq, LenProperties
    <2>3. QED  BY <2>2 DEF call, Reading, PassageInv, Counted, TypeOK
  <1>2. sent' > 1 /\ sent' - 1 = sent /\ sent' <= Len(text'[para']) + 1
    BY <1>1 DEF Counted
  <1>3. After(para, sent)' = EndOf(Sentence)
    BY <1>1, <1>2 DEF After, Sentence
  <1>4. ReadInv'
    BY <1>1, <1>2, <1>3 DEF ReadInv, After
  <1>5. GatherInv'
    BY <1>1 DEF GatherInv
  <1>6. QED
    BY <1>1, <1>4, <1>5 DEF PassageInv

(* One more block is merged. *)
LEMMA MergeStep ==
    ASSUME Counted, PassageInv, Merging, UNCHANGED <<call, pc, para, sent, blocks>>,
           next' = next + 1, Upto(current', EndOf(Block)),
           \A c \in Chars(chunks') : Passage(c)
    PROVE  PassageInv'
  <1>1. /\ text' = text /\ pc' = "merge" /\ pc = "merge" /\ blocks' = blocks
        /\ next \in Nat \ {0} /\ next' - 1 = next /\ next' # 1
    BY DEF call, Merging, Counted, TypeOK
  <1>2. ReadInv'
    BY <1>1 DEF ReadInv
  <1>3. GatherInv'
    BY <1>1 DEF GatherInv, PassageInv, Block
  <1>4. QED
    BY <1>1, <1>2, <1>3 DEF PassageInv

(* The block to be merged is a passage behind the ones merged. *)
LEMMA BlockSolid ==
    ASSUME Counted, PassageInv, Merging
    PROVE  /\ Block \in Strings /\ Solid(Block) /\ EndOf(Block) \in Nat
           /\ next > 1 => /\ EndOf(blocks[next - 1]) \in Nat
                          /\ Block[1] = EndOf(blocks[next - 1]) + 1
                          /\ Upto(current, EndOf(blocks[next - 1]))
           /\ current # <<>> => next > 1
  <1>1. blocks \in Seq(Blocks) /\ next \in 1..Len(blocks) /\ pc = "merge" /\ next \in Nat
    BY DEF Counted, TypeOK, Merging, Blocks, Strings
  <1>2. DOMAIN blocks = 1..Len(blocks) /\ Chained(blocks) /\ Len(blocks) \in Nat
    BY <1>1, LenProperties DEF PassageInv, GatherInv
  <1>3. Block \in Strings /\ Solid(Block)
    BY <1>1, <1>2, ElementOfSeq DEF Block, Blocks, Chained
  <1>4. ASSUME next > 1
        PROVE  /\ EndOf(blocks[next - 1]) \in Nat
               /\ Block[1] = EndOf(blocks[next - 1]) + 1
               /\ Upto(current, EndOf(blocks[next - 1]))
    <2>1. next - 1 \in DOMAIN blocks
      BY <1>1, <1>2, <1>4
    <2>2. Solid(blocks[next - 1])
      BY <1>2, <2>1 DEF Chained
    <2>3. Block[1] = EndOf(blocks[next - 1]) + 1
      BY <1>1, <1>2, <1>4 DEF Chained, Block
    <2>4. QED  BY <1>1, <1>4, <2>2, <2>3 DEF Solid, PassageInv, GatherInv
  <1>5. QED
    BY <1>1, <1>3, <1>4 DEF PassageInv, GatherInv, Solid

LEMMA StepPassage == Counted /\ KeptInv /\ PassageInv /\ [Next]_vars => PassageInv'
  <1> SUFFICES ASSUME Counted, KeptInv, PassageInv, [Next]_vars PROVE PassageInv'
    OBVIOUS
  <1>0. /\ TypeOK /\ current \in Strings /\ blocks \in Seq(Blocks)
        /\ chunks \in Seq(Strings) /\ max \in Nat \ {0} /\ overlap \in Nat
        /\ para \in Nat \ {0} /\ sent \in Nat \ {0}
    BY DEF Counted, TypeOK, Strings, Blocks
  <1>s. ASSUME Reading
        PROVE  /\ Sentence \in Seq(Nat) \ {<<>>} /\ Consecutive(Sentence) /\ Solid(Sentence)
               /\ Sentence \in Strings
               /\ current # <<>> => Solid(current) /\ Sentence[1] = EndOf(current) + 1
               /\ current = <<>> /\ blocks # <<>> => Sentence[1] = EndOf(EndOf(blocks)) + 1
               /\ Chained(blocks)
    <2>1. pc = "split" /\ ReadInv
      BY <1>s DEF Reading, PassageInv
    <2>2. QED  BY <1>s, <2>1, ReadsOn DEF ReadInv, PassageInv
  <1>w. ASSUME pc = "split"
        PROVE  /\ Flushed(blocks, current) \in Seq(Blocks) /\ Chained(Flushed(blocks, current))
               /\ current # <<>> => Flushed(blocks, current) # <<>>
                                    /\ EndOf(Flushed(blocks, current)) = current
               /\ current = <<>> => Flushed(blocks, current) = blocks
    BY <1>0, <1>w, FlushedChained DEF PassageInv, ReadInv, Flushed
  <1>1. CASE Gather
    <2>1. Reading /\ current' = Joined(current, <<Space>>, Sentence)
      BY <1>1 DEF Gather
    <2>2. /\ Solid(current') /\ EndOf(current') = EndOf(Sentence)
          /\ current'[1] = IF current = <<>> THEN Sentence[1] ELSE current[1]
      <3> DEFINE gap == <<Space>>
      <3>1. gap \in Strings /\ Chars(gap) \intersect Nat = {}
        BY NoText, StringFacts
      <3>2. /\ Sentence \in Strings /\ Solid(Sentence) /\ current \in Strings
            /\ current # <<>> => Solid(current) /\ Sentence[1] = EndOf(current) + 1
        BY <1>0, <1>s, <2>1
      <3>3. current' = Joined(current, gap, Sentence)
        BY <2>1
      <3> HIDE DEF gap
      <3>4. QED  BY <3>1, <3>2, <3>3, JoinedSolid
    <2>3. blocks' = blocks /\ (blocks # <<>> => current'[1] = EndOf(EndOf(blocks)) + 1)
      BY <1>1, <1>s, <2>1, <2>2 DEF Gather, Reading, PassageInv, ReadInv
    <2>4. current' # <<>> /\ pc' = pc /\ para' = para /\ sent' = sent + 1
          /\ UNCHANGED <<call, next, chunks>>
      BY <1>1, <2>2 DEF Gather, Solid
    <2>5. QED  BY <1>s, <2>1, <2>2, <2>3, <2>4, ReadStep
  <1>2. CASE BeginBlock
    <2>1. /\ Reading /\ current' = Sentence /\ blocks' = Flushed(blocks, current)
          /\ pc' = pc /\ para' = para /\ sent' = sent + 1 /\ UNCHANGED <<call, next, chunks>>
          /\ pc = "split"
      BY <1>2 DEF BeginBlock, Reading
    <2>2. Chained(blocks') /\ (blocks' # <<>> => Sentence[1] = EndOf(EndOf(blocks')) + 1)
      BY <1>s, <1>w, <2>1
    <2>3. QED  BY <1>s, <2>1, <2>2, ReadStep DEF Solid
  <1>3. CASE CutSentence
    <2> DEFINE w == Flushed(blocks, current)
               cuts == Cuts(Sentence, max)
    <2>1. /\ Reading /\ current' = <<>> /\ blocks' = w \o cuts
          /\ pc' = pc /\ para' = para /\ sent' = sent + 1 /\ UNCHANGED <<call, next, chunks>>
          /\ pc = "split"
      BY <1>3 DEF CutSentence, Reading
    <2>2. w \in Seq(Blocks) /\ Chained(w) /\ (w # <<>> => Sentence[1] = EndOf(EndOf(w)) + 1)
      BY <1>s, <1>w, <2>1
    <2>3. /\ cuts \in Seq(Blocks) /\ Chained(cuts) /\ cuts # <<>>
          /\ cuts[1][1] = Sentence[1] /\ EndOf(EndOf(cuts)) = EndOf(Sentence)
      BY <1>0, <1>s, <2>1, CutsFacts, CutsChained DEF Solid
    <2> HIDE DEF w, cuts
    <2>4. Chained(blocks') /\ EndOf(blocks') = EndOf(cuts)
      BY <2>1, <2>2, <2>3, ChainedConcat
    <2>5. QED  BY <2>1, <2>3, <2>4, ReadStep
  <1>4. CASE EndParagraph
    <2>1. /\ pc = "split" /\ pc' = pc /\ para <= Len(text) /\ sent > Len(text[para])
          /\ blocks' = Flushed(blocks, current) /\ current' = <<>>
          /\ para' = para + 1 /\ sent' = 1 /\ text' = text /\ chunks' = chunks
      BY <1>4 DEF EndParagraph, call
    <2>2. sent = Len(text[para]) + 1 /\ Len(text[para]) \in Nat \ {0}
      <3>1. text \in Seq(Seq(Sentences) \ {<<>>}) /\ para \in 1..Len(text)
        BY <1>0, <2>1 DEF TypeOK
      <3>2. text[para] \in Seq(Sentences) \ {<<>>}
        BY <3>1, ElementOfSeq
      <3>3. Len(text[para]) \in Nat \ {0}
        BY <3>2, EmptySeq, LenProperties
      <3>4. QED  BY <1>0, <2>1, <3>3 DEF PassageInv, ReadInv
    <2>3. After(para, sent) = EndOf(EndOf(text[para]))
      BY <1>0, <2>2 DEF After, EndOf
    <2>4. After(para, sent)' = EndOf(EndOf(text'[para' - 1])) /\ para' > 1
      BY <1>0, <2>1 DEF After
    <2>5. After(para, sent)' = EndOf(EndOf(text[para]))
      BY <1>0, <2>1, <2>4
    <2>6. Chained(blocks') /\ (blocks' # <<>> => EndOf(EndOf(blocks')) = After(para, sent))
      BY <1>w, <2>1 DEF PassageInv, ReadInv
    <2>7. para' <= Len(text') => sent' <= Len(text'[para']) + 1
      <3> SUFFICES ASSUME para + 1 <= Len(text) PROVE 1 <= Len(text[para + 1]) + 1
        BY <2>1
      <3>1. text \in Seq(Seq(Sentences) \ {<<>>}) /\ para + 1 \in 1..Len(text)
        BY <1>0 DEF TypeOK
      <3>2. text[para + 1] \in Seq(Sentences)
        BY <3>1, ElementOfSeq
      <3>3. Len(text[para + 1]) \in Nat
        BY <3>2, LenProperties
      <3>4. QED  BY <3>3
    <2>8. ReadInv'
      BY <2>1, <2>3, <2>4, <2>5, <2>6, <2>7 DEF ReadInv
    <2>9. QED  BY <2>1, <2>8 DEF PassageInv, GatherInv
  <1>5. CASE EndText
    <2>1. /\ pc = "split" /\ pc' = "merge" /\ text' = text /\ chunks' = chunks
          /\ blocks' = blocks /\ current' = current /\ next' = next /\ para > Len(text)
      BY <1>5 DEF EndText, call
    <2>2. current = <<>> /\ next = 1
      BY <2>1 DEF KeptInv, SplitInv
    <2>3. QED  BY <2>1, <2>2 DEF PassageInv, ReadInv, GatherInv
  <1>6. CASE StartChunk
    <2>1. /\ Merging /\ current' = Block /\ next' = next + 1 /\ chunks' = chunks
          /\ UNCHANGED <<call, pc, para, sent, blocks>>
      BY <1>6 DEF StartChunk
    <2>2. Upto(current', EndOf(Block))
      BY <2>1, BlockSolid DEF Solid
    <2>3. QED  BY <2>1, <2>2, MergeStep DEF PassageInv
  <1>7. CASE Merge
    <2>1. /\ Merging /\ current # <<>> /\ current' = Joined(current, Breaks, Block)
          /\ next' = next + 1 /\ chunks' = chunks /\ UNCHANGED <<call, pc, para, sent, blocks>>
      BY <1>7 DEF Merge, Joined
    <2>2. Upto(current', EndOf(Block))
      BY <1>0, <2>1, BlockSolid, NoText, StringFacts, JoinedUpto
    <2>3. QED  BY <2>1, <2>2, MergeStep DEF PassageInv
  <1>8. CASE Overflow
    <2> DEFINE begun == Joined(TailOverlap(current, overlap), Breaks, Block)
    <2>1. /\ Merging /\ current # <<>> /\ next' = next + 1
          /\ UNCHANGED <<call, pc, para, sent, blocks>>
          /\ \/ chunks' = Append(chunks, current) /\ current' = begun
             \/ /\ Len(begun) > max /\ chunks' = chunks \o <<current, SubSeq(begun, 1, max)>>
                /\ current' = IF overlap = 0 THEN <<>> ELSE From(begun, max - overlap)
      BY <1>8 DEF Overflow
    <2> DEFINE b == EndOf(blocks[next - 1])
               tail == TailOverlap(current, overlap)
    <2>2. b \in Nat /\ Upto(current, b) /\ Block \in Strings /\ Solid(Block) /\ Block[1] = b + 1
          /\ EndOf(Block) \in Nat
      BY <2>1, BlockSolid
    <2> HIDE DEF b
    <2>3. tail \in Strings /\ Upto(tail, b)
      BY <1>0, <2>2, TailFacts, UptoTail
    <2> HIDE DEF tail
    <2>4. Joined(tail, Breaks, Block) \in Strings /\ Upto(Joined(tail, Breaks, Block), EndOf(Block))
      BY <2>2, <2>3, NoText, StringFacts, JoinedFacts, JoinedUpto
    <2>5. begun \in Strings /\ Upto(begun, EndOf(Block))
      BY <2>4 DEF tail
    <2> HIDE DEF begun
    <2>6. max - overlap \in Int /\ Upto(From(begun, max - overlap), EndOf(Block))
      BY <1>0, <2>2, <2>5, UptoFrom
    <2>7. Upto(<<>>, EndOf(Block))
      BY DEF Upto, At
    <2>8. Upto(current', EndOf(Block))
      BY <2>1, <2>5, <2>6, <2>7
    <2>9. Passage(current)
      BY <1>0, <2>2, StringPassage
    <2>10. \A c \in Chars(chunks') : Passage(c)
      <3>1. CASE chunks' = Append(chunks, current)
        <4>1. chunks' = Flushed(chunks, current)
          BY <2>1, <3>1 DEF Flushed
        <4>2. Chars(chunks') \subseteq Chars(chunks) \union {current}
          BY <1>0, <4>1, FlushedFacts
        <4>3. QED  BY <2>9, <4>2 DEF PassageInv
      <3>2. CASE Len(begun) > max /\ chunks' = chunks \o <<current, SubSeq(begun, 1, max)>>
        <4>1. max \in 0..Len(begun)
          BY <1>0, <2>5, <3>2, LenProperties DEF Strings
        <4>2. Passage(SubSeq(begun, 1, max)) /\ SubSeq(begun, 1, max) \in Strings
          BY <1>0, <2>2, <2>5, <4>1, UptoPassage, SubFacts
        <4> DEFINE two == <<current, SubSeq(begun, 1, max)>>
        <4>3. two \in Seq(Strings) /\ Chars(two) = {current, SubSeq(begun, 1, max)}
          BY <1>0, <4>2, CharsTwo
        <4> HIDE DEF two
        <4>4. chunks' = chunks \o two
          BY <3>2 DEF two
        <4>5. Chars(chunks') = Chars(chunks) \union Chars(two)
          BY <1>0, <4>3, <4>4, CharsConcat
        <4>6. QED  BY <2>9, <4>2, <4>3, <4>5 DEF PassageInv
      <3>3. QED  BY <2>1, <3>1, <3>2
    <2>11. QED  BY <2>1, <2>8, <2>10, MergeStep
  <1>9. CASE EndBlocks
    <2>1. /\ pc = "merge" /\ pc' = "done" /\ text' = text /\ chunks' = Flushed(chunks, current)
      BY <1>9 DEF EndBlocks, call
    <2>2. ASSUME current # <<>> PROVE Passage(current)
      <3>1. next > 1 /\ next \in Nat /\ next > Len(blocks)
        BY <1>0, <1>9, <2>1, <2>2 DEF PassageInv, GatherInv, EndBlocks, TypeOK
      <3>2. next - 1 \in DOMAIN blocks
        BY <1>0, <2>1, <3>1, LenProperties DEF KeptInv, MergeInv
      <3>3. EndOf(blocks[next - 1]) \in Nat /\ Upto(current, EndOf(blocks[next - 1]))
        BY <2>1, <3>1, <3>2 DEF PassageInv, GatherInv, Chained, Solid
      <3>4. QED  BY <1>0, <3>3, StringPassage
    <2>3. Chars(chunks') = Chars(chunks) \union (IF current = <<>> THEN {} ELSE {current})
      BY <1>0, <2>1, FlushedFacts
    <2>4. \A c \in Chars(chunks') : Passage(c)
      BY <2>2, <2>3 DEF PassageInv
    <2>5. QED  BY <2>1, <2>4 DEF PassageInv, ReadInv, GatherInv
  <1>10. CASE UNCHANGED vars
    <2>1. /\ text' = text /\ pc' = pc /\ para' = para /\ sent' = sent /\ next' = next
          /\ current' = current /\ blocks' = blocks /\ chunks' = chunks
      BY <1>10 DEF vars, call
    <2>2. ReadInv' /\ GatherInv'
      BY <2>1 DEF PassageInv, ReadInv, GatherInv, After
    <2>3. QED  BY <2>1, <2>2 DEF PassageInv
  <1>11. QED
    BY <1>1, <1>2, <1>3, <1>4, <1>5, <1>6, <1>7, <1>8, <1>9, <1>10 DEF Next

(* A chunk's characters are in the text's order and none between them is    *)
(* left out, whatever the text, the limits and where it is cut (chunk,      *)
(* _tail_overlap, _split_long_block).                                       *)
THEOREM AllPassages == Spec => []Passages
  <1>1. PassageInv => Passages
    BY DEF PassageInv, Passages, Chars
  <1>2. QED
    BY <1>1, InitCounted, StepCounted, InitKept, StepKept, InitPassage, StepPassage, PTL DEF Spec
=============================================================================
