------------------------------ MODULE ChatStream ------------------------------
(***************************************************************************)
(* A question asked in a chat and the stream of events that answers it     *)
(* (chat_service.py, chat_controller.py), beside other streams, deletions, *)
(* clients that leave and restarts.                                        *)
(*                                                                         *)
(* A stream is a generator on the only event loop.  It gives way at every  *)
(* event it yields and every await, so an action is the code between two   *)
(* of these.  Embedding and search run on worker threads, as do the        *)
(* deletion and the move of a chat; the deletion of a document or a folder *)
(* runs on the loop, and waits there, with everything else, when it needs  *)
(* a row that an open transaction has locked; so does that of a category.  *)
(*                                                                         *)
(* The cache is abstracted to its answers in L1, all in one scope (module  *)
(* QaCache has its layers and scopes), an answer to the documents it       *)
(* cites, and a text to the number of its deltas.                          *)
(***************************************************************************)
EXTENDS Naturals, SequencesExt

CONSTANTS
    Streams,      \* requests, each asking one question
    Docs,         \* documents, all of one scope
    Shared,       \* those of no category; the others are of the chats' category
    Chats,        \* chat ids
    MaxTokens,    \* bound: the deltas of one answer
    ErrorText,    \* "Error generating response ...": the text of a failed turn
    None          \* no chat, no turn

ASSUME TokensAssumption == MaxTokens \in Nat \ {0}
ASSUME NoneAssumption == None \notin Chats
ASSUME ErrorTextAssumption == ErrorText \notin Nat

(* A turn: a row of queries with its row of responses. *)
Turns == [status : {"success", "error", "insufficient"},
          text   : (0..MaxTokens) \union {ErrorText}]

ASSUME NoTurnAssumption == None \notin Turns

Events == {"meta", "citations", "no_citations", "token",
           "success", "insufficient", "error"}

VARIABLES
    docs, chats,      \* the documents and chats that exist
    known,            \* chat ids ever used
    filed,            \* the chats in the folder
    category,         \* whether the chats' category exists
    turn,             \* turn[s]: the committed turn of stream s, or None
    cache,            \* the cached answers
    frozen,           \* the event loop waits for a lock for ever
    pc,
    chat,             \* of each stream: the chat, None until a new one is made
    sources,          \* the documents retrieved, or cited by the cached answer
    cites,            \* the documents it has cited
    tokens,           \* the deltas it has yielded
    stale,            \* the cache was invalidated since generation()
    events            \* the events it has yielded

tables == <<docs, chats, known, filed, category, turn>>
local == <<pc, chat, sources, cites, tokens, stale, events>>
vars == <<tables, cache, frozen, local>>

Places == {"idle", "lookup", "embed", "serve", "serving", "served", "answered",
           "search", "found", "nothing", "llm", "cited", "refusing", "put",
           "closed"}

Init ==
    /\ docs = Docs
    /\ chats = {} /\ known = {} /\ filed = {}
    /\ category = TRUE
    /\ turn = [s \in Streams |-> None]
    /\ cache = {}
    /\ frozen = FALSE
    /\ pc = [s \in Streams |-> "idle"]
    /\ chat = [s \in Streams |-> None]
    /\ sources = [s \in Streams |-> {}]
    /\ cites = [s \in Streams |-> {}]
    /\ tokens = [s \in Streams |-> 0]
    /\ stale = [s \in Streams |-> FALSE]
    /\ events = [s \in Streams |-> <<>>]

-----------------------------------------------------------------------------
(* Helpers *)

Told(s, event) == Contains(events[s], event)
Go(s, place) == pc' = [pc EXCEPT ![s] = place]
Yield(s, event) == events' = [events EXCEPT ![s] = Append(@, event)]

(* the chat the question was asked in has been deleted *)
ChatGone(s) == chat[s] # None /\ chat[s] \notin chats

(* The open transactions of cached answers: their foreign keys lock the chat *)
(* and the documents cited against deletion.                                *)
Serving == {s \in Streams : pc[s] \in {"serving", "served", "answered"}}
ChatLocked(c) == \E s \in Serving : chat[s] = c
DocLocked(d) == \E s \in Serving : d \in cites[s]

(* There is no chat for the turn: it, or the category of a new one, is gone. *)
NoChat(s) == ChatGone(s) \/ (chat[s] = None /\ ~category)

(* _resolve_or_create_chat: the chat of stream s is made if it has none *)
ResolveChat(s, c) ==
    /\ IF chat[s] = None THEN c \in Chats \ known ELSE c = chat[s]
    /\ chat' = [chat EXCEPT ![s] = c]
    /\ known' = known \union {c}

(* Chats go with their turns. *)
RemoveChats(C) ==
    /\ chats' = chats \ C
    /\ filed' = filed \ C
    /\ turn' = [s \in Streams |-> IF chat[s] \in C THEN None ELSE turn[s]]

(* invalidate_category, of the only scope *)
Invalidate ==
    /\ cache' = {}
    /\ stale' = [s \in Streams |-> TRUE]

-----------------------------------------------------------------------------
(* ask_stream: the cached path *)

(* A question in an existing chat, or in a new one of a category that exists *)
Ask(s) ==
    /\ ~frozen
    /\ pc[s] = "idle"
    /\ \E c \in chats \union (IF category THEN {None} ELSE {}) :
         chat' = [chat EXCEPT ![s] = c]
    /\ Go(s, "lookup")
    /\ UNCHANGED <<tables, cache, frozen, sources, cites, tokens, stale, events>>

(* _serve_cached_stream up to meta, in a transaction left open.  The request *)
(* fails when the database raises, as it does by the foreign keys of the    *)
(* chat and the query when what they need is gone.                          *)
BeginServe(s, answer) ==
    \/ /\ Go(s, "closed")
       /\ UNCHANGED <<tables, chat, sources, events>>
    \/ /\ ~NoChat(s)
       /\ \E c \in Chats : ResolveChat(s, c)
       /\ sources' = [sources EXCEPT ![s] = answer]
       /\ Yield(s, "meta")
       /\ Go(s, "serving")
       /\ UNCHANGED <<docs, chats, filed, category, turn>>

(* lookup_exact: a hit is served at once *)
Lookup(s) ==
    /\ ~frozen
    /\ pc[s] = "lookup"
    /\ \/ \E answer \in cache : BeginServe(s, answer)
       \/ Go(s, "embed") /\ UNCHANGED <<tables, chat, sources, events>>
    /\ UNCHANGED <<cache, frozen, cites, tokens, stale>>

(* embed and lookup_semantic, on a worker thread: a hit is served when the  *)
(* stream resumes.                                                          *)
SemanticHit(s) ==
    /\ pc[s] = "embed"
    /\ \E answer \in cache : sources' = [sources EXCEPT ![s] = answer]
    /\ Go(s, "serve")
    /\ UNCHANGED <<tables, cache, frozen, chat, cites, tokens, stale, events>>

Serve(s) ==
    /\ ~frozen
    /\ pc[s] = "serve"
    /\ BeginServe(s, sources[s])
    /\ UNCHANGED <<cache, frozen, cites, tokens, stale>>

(* The citations whose document still exists.  (Each has a confidence, as   *)
(* all that put stores have; the code also skips one without, which only a  *)
(* row of an older schema could hold.)                                      *)
ServeCitations(s) ==
    /\ ~frozen
    /\ pc[s] = "serving"
    /\ cites' = [cites EXCEPT ![s] = sources[s] \intersect docs]
    /\ Yield(s, IF cites'[s] = {} THEN "no_citations" ELSE "citations")
    /\ Go(s, "served")
    /\ UNCHANGED <<tables, cache, frozen, chat, sources, tokens, stale>>

(* The whole text is one token. *)
ServeToken(s) ==
    /\ ~frozen
    /\ pc[s] = "served"
    /\ tokens' = [tokens EXCEPT ![s] = 1]
    /\ Yield(s, "token")
    /\ Go(s, "answered")
    /\ UNCHANGED <<tables, cache, frozen, chat, sources, cites, stale>>

(* The commit, then done *)
ServeCommit(s) ==
    /\ ~frozen
    /\ pc[s] = "answered"
    /\ turn' = [turn EXCEPT ![s] = [status |-> "success", text |-> 1]]
    /\ chats' = chats \union {chat[s]}
    /\ Yield(s, "success")
    /\ Go(s, "closed")
    /\ UNCHANGED <<docs, known, filed, category, cache, frozen, chat, sources, cites,
                   tokens, stale>>

-----------------------------------------------------------------------------
(* ask_stream: the retrieval path *)

(* A semantic miss; then generation() is read and the search begins. *)
SemanticMiss(s) ==
    /\ ~frozen
    /\ pc[s] = "embed"
    /\ stale' = [stale EXCEPT ![s] = FALSE]
    /\ Go(s, "search")
    /\ UNCHANGED <<tables, cache, frozen, chat, sources, cites, tokens, events>>

(* embed or search raises: the request fails before its first event. *)
RetrievalFails(s) ==
    /\ ~frozen
    /\ pc[s] \in {"embed", "search"}
    /\ Go(s, "closed")
    /\ UNCHANGED <<tables, cache, frozen, chat, sources, cites, tokens, stale, events>>

(* The search runs on a worker thread. *)
Search(s) ==
    /\ pc[s] = "search"
    /\ \E D \in SUBSET docs : sources' = [sources EXCEPT ![s] = D]
    /\ Go(s, "found")
    /\ UNCHANGED <<tables, cache, frozen, chat, cites, tokens, stale, events>>

(* The turn is committed as an error without text; then meta.  The request  *)
(* fails if the database raises, as it does when the chat, or a new chat's  *)
(* category, is gone by now.                                                *)
Placeholder(s) ==
    /\ ~frozen
    /\ pc[s] = "found"
    /\ \/ /\ Go(s, "closed")
          /\ UNCHANGED <<tables, chat, events>>
       \/ /\ ~NoChat(s)
          /\ \E c \in Chats :
               /\ ResolveChat(s, c)
               /\ chats' = chats \union {c}
          /\ turn' = [turn EXCEPT ![s] = [status |-> "error", text |-> 0]]
          /\ Yield(s, "meta")
          /\ Go(s, IF sources[s] = {} THEN "nothing" ELSE "llm")
          /\ UNCHANGED <<docs, filed, category>>
    /\ UNCHANGED <<cache, frozen, sources, cites, tokens, stale>>

(* _build_and_persist_citations: of the documents the model cites with      *)
(* confidence, those that still exist                                       *)
PersistCitations(s) ==
    \E D \in SUBSET sources[s] : cites' = [cites EXCEPT ![s] = D \intersect docs]

(* variant of Cite: no citation left does not cut the stream *)
CiteUngated(s) ==
    /\ ~frozen
    /\ pc[s] = "llm" /\ ~ChatGone(s)
    /\ PersistCitations(s)
    /\ Yield(s, IF cites'[s] = {} THEN "no_citations" ELSE "citations")
    /\ Go(s, "cited")
    /\ UNCHANGED <<tables, cache, frozen, chat, sources, tokens, stale>>

(* The model's citations are whole: they are persisted and sent. *)
Cite(s) ==
    /\ ~frozen
    /\ pc[s] = "llm" /\ ~ChatGone(s)
    /\ PersistCitations(s)
    /\ cites'[s] # {}
    /\ Yield(s, "citations")
    /\ Go(s, "cited")
    /\ UNCHANGED <<tables, cache, frozen, chat, sources, tokens, stale>>

(* A delta of the answer *)
Token(s) ==
    /\ ~frozen
    /\ pc[s] = "cited"
    /\ tokens[s] < MaxTokens
    /\ tokens' = [tokens EXCEPT ![s] = @ + 1]
    /\ Yield(s, "token")
    /\ UNCHANGED <<tables, cache, frozen, pc, chat, sources, cites, stale>>

(* variant of Refuse: the citations event is always sent *)
RefuseRepeatsCitations(s) ==
    /\ ~frozen
    /\ ~ChatGone(s)
    /\ \/ pc[s] = "nothing" /\ UNCHANGED cites
       \/ pc[s] = "llm" /\ PersistCitations(s)
       \/ pc[s] = "cited" /\ (tokens[s] = 0 \/ cites[s] = {}) /\ UNCHANGED cites
    /\ turn' = [turn EXCEPT ![s] = [status |-> "insufficient", text |-> 0]]
    /\ Yield(s, "no_citations")
    /\ Go(s, "refusing")
    /\ UNCHANGED <<docs, chats, known, filed, category, cache, frozen, chat, sources,
                   tokens, stale>>

(* _finalize_insufficient: nothing was found, or the model cites nothing    *)
(* that counts, or it gives no answer, having cited (citations sent or not) *)
(* or not.  The citations event is left out if it was sent before.          *)
Refuse(s) ==
    /\ ~frozen
    /\ ~ChatGone(s)
    /\ \/ pc[s] = "nothing" /\ UNCHANGED cites
       \/ pc[s] = "llm" /\ PersistCitations(s)
       \/ pc[s] = "cited" /\ (tokens[s] = 0 \/ cites[s] = {}) /\ UNCHANGED cites
    /\ turn' = [turn EXCEPT ![s] = [status |-> "insufficient", text |-> 0]]
    /\ IF pc[s] = "cited"
         THEN Yield(s, "insufficient") /\ Go(s, "closed")
         ELSE Yield(s, "no_citations") /\ Go(s, "refusing")
    /\ UNCHANGED <<docs, chats, known, filed, category, cache, frozen, chat, sources,
                   tokens, stale>>

RefuseDone(s) ==
    /\ ~frozen
    /\ pc[s] = "refusing"
    /\ Yield(s, "insufficient")
    /\ Go(s, "closed")
    /\ UNCHANGED <<tables, cache, frozen, chat, sources, cites, tokens, stale>>

(* The answer is whole: it is committed, then done. *)
Success(s) ==
    /\ ~frozen
    /\ pc[s] = "cited" /\ ~ChatGone(s)
    /\ tokens[s] > 0 /\ cites[s] # {}
    /\ turn' = [turn EXCEPT ![s] = [status |-> "success", text |-> tokens[s]]]
    /\ Yield(s, "success")
    /\ Go(s, "put")
    /\ UNCHANGED <<docs, chats, known, filed, category, cache, frozen, chat, sources,
                   cites, tokens, stale>>

(* The client has taken done: the answer is cached unless the generation    *)
(* has moved.                                                               *)
Put(s) ==
    /\ ~frozen
    /\ pc[s] = "put"
    /\ cache' = IF stale[s] THEN cache ELSE cache \union {cites[s]}
    /\ Go(s, "closed")
    /\ UNCHANGED <<tables, frozen, chat, sources, cites, tokens, stale, events>>

(* variant of LlmFails: a status of its own *)
LlmFailsNewStatus(s) ==
    /\ ~frozen
    /\ pc[s] \in {"llm", "cited"} /\ ~ChatGone(s)
    /\ turn' = [turn EXCEPT ![s] = [status |-> "failed", text |-> ErrorText]]
    /\ Yield(s, "error")
    /\ Go(s, "closed")
    /\ UNCHANGED <<docs, chats, known, filed, category, cache, frozen, chat, sources,
                   cites, tokens, stale>>

(* The model fails: the message is stored as the text of the turn. *)
LlmFails(s) ==
    /\ ~frozen
    /\ pc[s] \in {"llm", "cited"} /\ ~ChatGone(s)
    /\ turn' = [turn EXCEPT ![s] = [status |-> "error", text |-> ErrorText]]
    /\ Yield(s, "error")
    /\ Go(s, "closed")
    /\ UNCHANGED <<docs, chats, known, filed, category, cache, frozen, chat, sources,
                   cites, tokens, stale>>

(* variant of StreamFails: a turn that is gone is not noticed *)
StreamFailsIfKept(s) ==
    /\ ~frozen
    /\ pc[s] \in {"nothing", "llm", "cited", "serving", "answered"}
    /\ ~ChatGone(s)
    /\ Yield(s, "error")
    /\ Go(s, "closed")
    /\ UNCHANGED <<tables, cache, frozen, chat, sources, cites, tokens, stale>>

(* Any other exception: before the first token, or when the database raises *)
(* at a write, as it does when the turn is gone.  The controller sends      *)
(* error; the turn stays as it was committed before, and a cached answer is *)
(* rolled back.                                                             *)
StreamFails(s) ==
    /\ ~frozen
    /\ pc[s] \in {"nothing", "llm", "cited", "serving", "answered"}
    /\ Yield(s, "error")
    /\ Go(s, "closed")
    /\ UNCHANGED <<tables, cache, frozen, chat, sources, cites, tokens, stale>>

(* variant of Leave: an interrupted answer is a success even if nothing was *)
(* sent of it                                                               *)
LeaveAlwaysSuccess(s) ==
    /\ ~frozen
    /\ pc[s] \in {"nothing", "llm", "cited", "refusing", "put",
                  "serving", "served", "answered"}
    /\ \/ UNCHANGED turn
       \/ /\ pc[s] \in {"llm", "cited"} /\ ~ChatGone(s)
          /\ turn' = [turn EXCEPT ![s] = [status |-> "success", text |-> tokens[s]]]
    /\ Go(s, "closed")
    /\ UNCHANGED <<docs, chats, known, filed, category, cache, frozen, chat, sources,
                   cites, tokens, stale, events>>

(* The client leaves and the generator is closed at its last yield, or      *)
(* cancelled at an await.  _persist_interrupted keeps what was yielded if   *)
(* the session is still open; a cached answer is rolled back.               *)
Leave(s) ==
    /\ ~frozen
    /\ pc[s] \in {"nothing", "llm", "cited", "refusing", "put",
                  "serving", "served", "answered"}
    /\ \/ UNCHANGED turn
       \/ /\ pc[s] \in {"llm", "cited"} /\ ~ChatGone(s)
          /\ turn' = [turn EXCEPT ![s] =
               [status |-> IF tokens[s] > 0 THEN "success" ELSE "error",
                text   |-> tokens[s]]]
    /\ Go(s, "closed")
    /\ UNCHANGED <<docs, chats, known, filed, category, cache, frozen, chat, sources,
                   cites, tokens, stale, events>>

-----------------------------------------------------------------------------
(* Beside the streams *)

(* ChatService.update, on a worker thread, moves a chat into the folder. *)
FileChat(c) ==
    /\ c \in chats \ filed
    /\ filed' = filed \union {c}
    /\ UNCHANGED <<docs, chats, known, category, turn, cache, frozen, local>>

(* ChatService.delete, on a worker thread: it waits for an open transaction *)
(* that holds the chat, which goes on meanwhile.                            *)
DeleteChat(c) ==
    /\ c \in chats
    /\ ~ChatLocked(c)
    /\ RemoveChats({c})
    /\ UNCHANGED <<docs, known, category, cache, frozen, local>>

(* FolderService.delete, on the event loop, deletes the folder's chats: if  *)
(* a cached answer holds one, the loop waits for a stream it should run.    *)
DeleteFolder ==
    /\ ~frozen
    /\ filed # {}
    /\ \/ /\ \E c \in filed : ChatLocked(c)
          /\ frozen' = TRUE
          /\ UNCHANGED tables
       \/ /\ \A c \in filed : ~ChatLocked(c)
          /\ RemoveChats(filed)
          /\ UNCHANGED <<docs, known, category, frozen>>
    /\ UNCHANGED <<cache, local>>

(* DocumentService.delete_document, on the event loop, likewise *)
DeleteDocument(d) ==
    /\ ~frozen
    /\ d \in docs
    /\ \/ /\ DocLocked(d)
          /\ frozen' = TRUE
          /\ UNCHANGED <<docs, cache, stale>>
       \/ /\ ~DocLocked(d)
          /\ docs' = docs \ {d}
          /\ Invalidate
          /\ UNCHANGED frozen
    /\ UNCHANGED <<chats, known, filed, category, turn, pc, chat, sources, cites, tokens, events>>

(* AdminService.delete_category, on the event loop: it counts the chats and  *)
(* documents of the category.  An open transaction that makes a chat of it   *)
(* is not counted and holds it.                                              *)
DeleteCategory ==
    /\ ~frozen
    /\ category /\ chats = {} /\ docs \subseteq Shared
    /\ IF Serving # {}
       THEN frozen' = TRUE /\ UNCHANGED category
       ELSE category' = FALSE /\ UNCHANGED frozen
    /\ UNCHANGED <<docs, chats, known, filed, turn, cache, local>>

(* A new version of a document was committed on a worker thread. *)
NewVersion ==
    /\ docs # {}
    /\ Invalidate
    /\ UNCHANGED <<tables, frozen, pc, chat, sources, cites, tokens, events>>

(* The process restarts: streams end, open transactions are rolled back and *)
(* L1 is empty, but L2 may bring its answers back.                          *)
Crash ==
    /\ frozen' = FALSE
    /\ pc' = [s \in Streams |-> IF pc[s] = "idle" THEN "idle" ELSE "closed"]
    /\ UNCHANGED <<tables, cache, chat, sources, cites, tokens, stale, events>>

Step(s) ==
    \/ Lookup(s) \/ SemanticHit(s) \/ Serve(s)
    \/ ServeCitations(s) \/ ServeToken(s) \/ ServeCommit(s)
    \/ SemanticMiss(s) \/ RetrievalFails(s) \/ Search(s) \/ Placeholder(s)
    \/ Cite(s) \/ Token(s) \/ Refuse(s) \/ RefuseDone(s) \/ Success(s) \/ Put(s)
    \/ LlmFails(s) \/ StreamFails(s)

Next ==
    \/ \E s \in Streams : Ask(s) \/ Step(s) \/ Leave(s)
    \/ \E c \in Chats : FileChat(c) \/ DeleteChat(c)
    \/ \E d \in Docs : DeleteDocument(d)
    \/ DeleteFolder \/ DeleteCategory \/ NewVersion \/ Crash

Spec == Init /\ [][Next]_vars

(* A stream goes on: the loop schedules it, and the database, the model and *)
(* the search answer or raise.  Clients and users need not do anything.     *)
FairSpec == Spec /\ \A s \in Streams : WF_vars(Step(s))

-----------------------------------------------------------------------------
(* Properties *)

(* Every variable has its type, and the cache holds grounded answers only. *)
TypeOK ==
    /\ docs \subseteq Docs
    /\ chats \subseteq known /\ known \subseteq Chats /\ filed \subseteq chats
    /\ turn \in [Streams -> Turns \union {None}]
    /\ cache \subseteq (SUBSET Docs) \ {{}}
    /\ category \in BOOLEAN /\ frozen \in BOOLEAN
    /\ pc \in [Streams -> Places]
    /\ chat \in [Streams -> known \union {None}]
    /\ sources \in [Streams -> SUBSET Docs]
    /\ cites \in [Streams -> SUBSET Docs]
    /\ tokens \in [Streams -> 0..MaxTokens]
    /\ stale \in [Streams -> BOOLEAN]
    /\ events \in [Streams -> Seq(Events)]

(* The events of every stream come in the order StreamContract promises. *)
Contract == INSTANCE StreamContract WITH told <- events
ImplementsStreamContract == Contract!Spec

(* What is stored of an answer is what the client was sent of it, whether   *)
(* it was answered, interrupted or served from the cache                    *)
(* (_persist_interrupted, _serve_cached_stream); and an answer the client   *)
(* was told is done is stored as such until its chat is deleted.            *)
StoredAsSent == \A s \in Streams :
    /\ turn[s] # None /\ turn[s].status = "success" =>
         turn[s].text = tokens[s] /\ tokens[s] > 0
    /\ Told(s, "success") /\ ~ChatGone(s) =>
         turn[s] # None /\ turn[s].status = "success"

(* No answer without a source, unless a document it was drawn from has been *)
(* deleted since (the grounding gate of ask_stream, _serve_cached_stream).  *)
SourcedUnlessDeleted == \A s \in Streams :
    Told(s, "token") => Told(s, "citations") \/ ~(sources[s] \subseteq docs)

(* A stream that was started ends, unless the event loop itself is stopped. *)
StreamsEndOrFreeze == \A s \in Streams :
    pc[s] # "idle" ~> pc[s] = "closed" \/ frozen

(* "done: sempre" as a liveness property: every stream that began ends,     *)
(* whatever else the system is asked to do.                                 *)
StreamsEnd == \A s \in Streams : events[s] # <<>> ~> pc[s] = "closed"
=============================================================================
