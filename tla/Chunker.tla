------------------------------- MODULE Chunker -------------------------------
(***************************************************************************)
(* How a text is cut into the passages that are embedded, searched and     *)
(* cited (src/services/text_chunker.py).  One step is one turn of a loop   *)
(* of chunk: sentences are gathered into blocks no longer than max         *)
(* (_split_long_block), then blocks into chunks that overlap.              *)
(*                                                                         *)
(* A text is a sequence of paragraphs, a paragraph one of sentences, as    *)
(* the two regular expressions cut them.  A character is its position in   *)
(* the text; some positions are blank.  The blank that joins sentences     *)
(* and the line breaks that join blocks are Space and Newline.  The early  *)
(* returns for a text or a paragraph that fits into max are what the loops *)
(* do with it.                                                             *)
(***************************************************************************)
EXTENDS Integers, Sequences

CONSTANTS
    Texts,        \* the texts: sequences of paragraphs, of sentences, of positions
    Blanks,       \* sets of positions that may be blank
    Limits,       \* pairs (max_chars, overlap) of a call
    MinChunk,     \* MIN_CHUNK_CHARS
    Space, Newline

Sentences == Seq(Nat) \ {<<>>}

EndOf(s) == s[Len(s)]

(* The positions go up by one, through a sentence and on to the next one.   *)
Numbered(t) ==
    \A p \in DOMAIN t :
        /\ p > 1 => t[p][1][1] = EndOf(EndOf(t[p - 1])) + 1
        /\ \A s \in DOMAIN t[p] :
             /\ s > 1 => t[p][s][1] = EndOf(t[p][s - 1]) + 1
             /\ \A i \in DOMAIN t[p][s] : t[p][s][i] = t[p][s][1] + i - 1

ASSUME TextsAssumption == Texts \subseteq Seq(Seq(Sentences) \ {<<>>})
ASSUME NumberedAssumption == \A t \in Texts : Numbered(t)
ASSUME BlanksAssumption == Blanks \subseteq SUBSET Nat
ASSUME LimitsAssumption == Limits \subseteq (Nat \ {0}) \X Nat
ASSUME MinChunkAssumption == MinChunk \in Nat
ASSUME JointsAssumption == Space \notin Nat /\ Newline \notin Nat

Characters == Nat \union {Space, Newline}

VARIABLES
    text, blanks, max, overlap,   \* the call
    pc,
    para, sent,   \* the sentence to read next
    next,         \* the block to read next
    current,      \* the block, later the chunk, being gathered
    blocks, chunks

call == <<text, blanks, max, overlap>>
vars == <<call, pc, para, sent, next, current, blocks, chunks>>

Init ==
    /\ text \in Texts
    /\ blanks \in Blanks
    /\ \E limit \in Limits : max = limit[1] /\ overlap = limit[2]
    /\ pc = "split"
    /\ para = 1 /\ sent = 1 /\ next = 1
    /\ current = <<>>
    /\ blocks = <<>>
    /\ chunks = <<>>

-----------------------------------------------------------------------------
(* Helpers *)

Chars(s) == {s[i] : i \in DOMAIN s}
AllChars(ss) == UNION {Chars(ss[i]) : i \in DOMAIN ss}

(* s and then t, with the separator joint between them if s is not empty *)
Joined(s, joint, t) == IF s = <<>> THEN t ELSE s \o joint \o t

(* if current: pieces.append(current) *)
Flushed(ss, s) == IF s = <<>> THEN ss ELSE Append(ss, s)

(* s[k:], where a negative k counts from the end *)
From(s, k) ==
    LET start == IF k >= 0 THEN k ELSE IF Len(s) + k >= 0 THEN Len(s) + k ELSE 0
    IN SubSeq(s, start + 1, Len(s))

(* A sentence longer than n, cut into pieces of n characters. *)
Cuts(s, n) ==
    [i \in 1..((Len(s) - 1) \div n + 1) |->
        SubSeq(s, (i - 1) * n + 1, IF i * n <= Len(s) THEN i * n ELSE Len(s))]

(* the positions of s at which find(" ") may stop *)
SpacesOf(s) == {j \in DOMAIN s : s[j] \in blanks \union {Space}}

(* variant of TailOverlap: no test for a text within the overlap *)
TailOverlapAlways(s, n) ==
    IF n = 0 THEN s
    ELSE LET snippet == From(s, -n)
         IN IF SpacesOf(snippet) = {} THEN snippet
            ELSE SubSeq(snippet,
                        (CHOOSE j \in SpacesOf(snippet) :
                            \A k \in SpacesOf(snippet) : j <= k) + 1,
                        Len(snippet))

(* _tail_overlap: the last n characters, after the first space in them; the *)
(* whole of a text that is not longer, or when no overlap is wanted.        *)
TailOverlap(s, n) ==
    IF n = 0 \/ Len(s) <= n THEN s
    ELSE LET snippet == From(s, -n)
         IN IF SpacesOf(snippet) = {} THEN snippet
            ELSE SubSeq(snippet,
                        (CHOOSE j \in SpacesOf(snippet) :
                            \A k \in SpacesOf(snippet) : j <= k) + 1,
                        n)

(* The chunks that are returned: short ones are dropped unless all are short. *)
Long(s) == Len(s) >= MinChunk
Result ==
    IF \E i \in DOMAIN chunks : Long(chunks[i])
    THEN {i \in DOMAIN chunks : Long(chunks[i])}
    ELSE DOMAIN chunks

-----------------------------------------------------------------------------
(* Sentences to blocks *)

Reading == pc = "split" /\ para <= Len(text) /\ sent <= Len(text[para])
Sentence == text[para][sent]

(* The sentence fits behind what is gathered. *)
Gather ==
    /\ Reading
    /\ LET candidate == Joined(current, <<Space>>, Sentence)
       IN Len(candidate) <= max /\ current' = candidate
    /\ sent' = sent + 1
    /\ UNCHANGED <<call, pc, para, next, blocks, chunks>>

(* It does not, and begins a block of its own. *)
BeginBlock ==
    /\ Reading
    /\ Len(Joined(current, <<Space>>, Sentence)) > max
    /\ Len(Sentence) <= max
    /\ blocks' = Flushed(blocks, current)
    /\ current' = Sentence
    /\ sent' = sent + 1
    /\ UNCHANGED <<call, pc, para, next, chunks>>

(* variant of CutSentence: what was gathered is kept *)
CutSentenceKeeps ==
    /\ Reading
    /\ Len(Sentence) > max
    /\ blocks' = Flushed(blocks, current) \o Cuts(Sentence, max)
    /\ sent' = sent + 1
    /\ UNCHANGED <<call, pc, para, next, current, chunks>>

(* It is longer than a block, and is cut. *)
CutSentence ==
    /\ Reading
    /\ Len(Sentence) > max
    /\ blocks' = Flushed(blocks, current) \o Cuts(Sentence, max)
    /\ current' = <<>>
    /\ sent' = sent + 1
    /\ UNCHANGED <<call, pc, para, next, chunks>>

(* The paragraph is over. *)
EndParagraph ==
    /\ pc = "split" /\ para <= Len(text) /\ sent > Len(text[para])
    /\ blocks' = Flushed(blocks, current)
    /\ current' = <<>>
    /\ para' = para + 1
    /\ sent' = 1
    /\ UNCHANGED <<call, pc, next, chunks>>

EndText ==
    /\ pc = "split" /\ para > Len(text)
    /\ pc' = "merge"
    /\ UNCHANGED <<call, para, sent, next, current, blocks, chunks>>

-----------------------------------------------------------------------------
(* Blocks to chunks *)

Merging == pc = "merge" /\ next <= Len(blocks)
Block == blocks[next]
Breaks == <<Newline, Newline>>

(* variant of Fits: the break counted as one character *)
FitsOffByOne(s) == Len(s) + 1 + Len(Block) <= max

Fits(s) == Len(s) + 2 + Len(Block) <= max

StartChunk ==
    /\ Merging
    /\ current = <<>>
    /\ current' = Block
    /\ next' = next + 1
    /\ UNCHANGED <<call, pc, para, sent, blocks, chunks>>

Merge ==
    /\ Merging
    /\ current # <<>>
    /\ Fits(current)
    /\ current' = current \o Breaks \o Block
    /\ next' = next + 1
    /\ UNCHANGED <<call, pc, para, sent, blocks, chunks>>

(* The chunk is full: the next one begins with the end of it; when that and *)
(* the block are too long, max characters of them make a chunk at once.     *)
Overflow ==
    /\ Merging
    /\ current # <<>>
    /\ ~Fits(current)
    /\ LET begun == Joined(TailOverlap(current, overlap), Breaks, Block)
       IN \/ /\ Len(begun) <= max
             /\ chunks' = Append(chunks, current)
             /\ current' = begun
          \/ /\ Len(begun) > max
             /\ chunks' = chunks \o <<current, SubSeq(begun, 1, max)>>
             /\ current' = IF overlap = 0 THEN <<>> ELSE From(begun, max - overlap)
    /\ next' = next + 1
    /\ UNCHANGED <<call, pc, para, sent, blocks>>

EndBlocks ==
    /\ pc = "merge" /\ next > Len(blocks)
    /\ chunks' = Flushed(chunks, current)
    /\ pc' = "done"
    /\ UNCHANGED <<call, para, sent, next, current, blocks>>

Next ==
    \/ Gather \/ BeginBlock \/ CutSentence \/ EndParagraph \/ EndText
    \/ StartChunk \/ Merge \/ Overflow \/ EndBlocks

Spec == Init /\ [][Next]_vars

-----------------------------------------------------------------------------
(* Properties *)

(* Every variable has its type; blocks and what is gathered are texts, and  *)
(* no block is empty.                                                       *)
TypeOK ==
    /\ text \in Seq(Seq(Sentences) \ {<<>>})
    /\ blanks \subseteq Nat /\ max \in Nat \ {0} /\ overlap \in Nat
    /\ pc \in {"split", "merge", "done"}
    /\ para \in Nat /\ sent \in Nat /\ next \in Nat \ {0}
    /\ current \in Seq(Characters)
    /\ blocks \in Seq(Seq(Characters) \ {<<>>})
    /\ chunks \in Seq(Seq(Characters))

(* With an overlap of 1 to max characters, and short chunks no longer than  *)
(* the overlap plus one (the defaults are 1500, 200 and 50), every          *)
(* character of the text comes back in a chunk that is returned, or is in   *)
(* the last one, which may be too short, wherever blocks are cut and        *)
(* whatever chunks are dropped on the way (chunk).                          *)
NothingLost ==
    pc = "done" /\ overlap \in 1..max /\ MinChunk <= max /\ MinChunk <= overlap + 1
        => \A p \in DOMAIN text : \A s \in DOMAIN text[p] :
             Chars(text[p][s]) \subseteq UNION {Chars(chunks[i]) : i \in Result \union {Len(chunks)}}

(* No chunk is longer than max, or than twice the overlap and a break: a    *)
(* large overlap is the only way past max_chars (chunk).                    *)
SizeBounded ==
    \A i \in DOMAIN chunks :
        Len(chunks[i]) <= max \/ Len(chunks[i]) <= 2 * overlap + 2

(* A chunk is a passage of the text: its characters are in the text's order *)
(* and none between them is left out, so that what is cited as a snippet    *)
(* was written so (chunk, _tail_overlap).                                   *)
Passage(s) ==
    LET at == {i \in DOMAIN s : s[i] \in Nat}
    IN /\ \A i, j \in at : i < j => s[i] < s[j]
       /\ \A i, j \in at : \A q \in s[i]..s[j] : q \in Chars(s)
Passages == \A i \in DOMAIN chunks : Passage(chunks[i])
=============================================================================
