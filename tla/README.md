# A TLA+ model of SpotData

SpotData answers questions about a company's documents: it indexes uploaded
files, searches them, lets a language model answer with citations, and streams
the answer. This directory models the parts of it that keep state and run
concurrently, checks the models with TLC and proves what is checked, but for
liveness, with TLAPS. Every definition is translated from the code under `src/`;
`PROJECT.json` (`map`) names the lines.

## How the program runs

One uvicorn process, one asyncio event loop, one PostgreSQL database at READ
COMMITTED. Most handlers are `async def` and call synchronous SQLAlchemy
directly, so they run on the event loop without giving way: authentication,
administration, folders, `delete_document`, and creating, pausing and aborting
an upload session. Others go through `asyncio.to_thread` and run on worker
threads beside the loop and beside each other: uploads, chunks and completions
of upload sessions, searches, embeddings, `lookup_semantic`, and reading,
moving and deleting chats. `ask_stream` is a generator on the loop and gives way
at each event it yields and each `await`.

This decides what one step of a model is: a stretch of code between two points
where another thread, request or transaction can act.

## Inventory

| Part | State | Operations | What is hard | What makes it correct |
|---|---|---|---|---|
| Answer cache (`qa_cache.py`) | L1 dictionary, L2 table, generation counter | lookup (exact, semantic), put, invalidate (category, all) | put, promotion and invalidation on different threads; L2 survives restarts; failures are swallowed | an answer stays in its scope; nothing older than the last invalidation is served; L1 is bounded |
| Documents and versions (`document_service.py`, `vector_index_service.py`) | documents, versions, chunks with `is_latest` | upload (find or create, add version, clean up), delete, search | find-or-create and numbering race; embedding between check and commit; failures after commits; restarts | versions are numbered without gaps; a search finds the latest and only it; an answered upload is not lost |
| Resumable uploads (`upload_session_service.py`) | a row with status, byte count, blob | create, chunk, pause, complete, abort | retries overlap the request they repeat; no row lock; ingestion in the middle of `complete` | only the client's file is ingested; a completed session stays so |
| Chats and streams (`chat_service.py`, `chat_controller.py`) | chats, turns (query and response), citations, the events sent | ask, move, rename, delete | documents and chats deleted while a stream is suspended; clients leave; open transactions across yields | events in order; stored text is the text sent; no answer without a source; every stream ends |
| Chat folders (`folder_service.py`) | a forest of folders, chats filed in it | create, move, rename, delete recursively | sequences of moves; a chat moved meanwhile | no cycle; no dangling row; a user's rows come below another's only by way of ownerless folders |
| Accounts (`auth_service.py`, `admin_service.py`, `auth.py`) | users, reset codes | register, log in, reset, change roles and activity | an admin is checked on a worker thread and acts later; sequences of codes; attempts whose count fails | one active admin remains; only the last code works, once, after few guesses |
| Categories (`admin_service.py`) | categories that documents, chats and sessions refer to | create, rename, delete | counts that cannot see open transactions; cascades | a deletion never takes a chat or document with it, and does not wait for ever |
| Text chunker (`text_chunker.py`) | none | chunk | cuts, overlaps and minimum lengths | no text is lost, chunks are passages of the text and bounded |
| Vector search and citations (`vector_index_service.py`, `chat_service.py`) | citations | hybrid search, cite | three statements that may see three states; ranks with ties; citations made long after the search | one version of a document, in scope, in the order of the ranks; a citation is of what was read |
| Upload endpoints, strategies, extractors (`document_controller.py`, `upload_strategies/`, `extractors/`, `text_extractor.py`) | the entries of a batch's answer | upload, upload a batch | each file may fail at any step and be sent again; pages are counted across blank ones | the answer says what is stored; a repeat appends nothing; pages are true |
| LLM client (`llm.py`) | none | stream, embed with retry | the provider fails or stops; errors are told apart by words | as many attempts as promised, and the last error comes out |
| MCP server (`mcp/`) | none | ask | collects a stream | same as streams |
| Prompts, email, schemas, configuration, migrations, evaluations | none | conversions and I/O | - | - |

Interactions: uploads and deletions change documents and then invalidate the
cache; a question looks into the cache, searches documents, writes turns and
citations (which refer to documents and versions) and puts its answer in the
cache; completing an upload session runs an upload; an upload extracts, chunks,
embeds and stores; deleting a folder deletes its chats; citations and turns lock the rows they refer to until they commit.

`PROJECT.json` lists every part under `components` and every hazard, with its
line, under `hazards`.

## Modules

| Module | Models | With |
|---|---|---|
| `QaCache` | the cache and its two kinds of caller | `MCQaCache`, `QaCacheProofs` |
| `VersionStore` | abstract: append-only histories of documents, each upload one step | |
| `KnowledgeBase` | uploads, deletions, failures, restarts; implements `VersionStore` | `MCKnowledgeBase`, `KnowledgeBaseProofs` |
| `UploadSessions` | one resumable session and overlapping requests | `MCUploadSessions`, `UploadSessionsProofs` |
| `StreamContract` | abstract: the order of the events of a stream | |
| `ChatStream` | questions, turns, cached answers and what happens beside them; implements `StreamContract` | `MCChatStream`, `ChatStreamProofs` |
| `Retrieval` | a hybrid search and the citations made of it, beside new versions and deletions | `MCRetrieval`, `RetrievalProofs` |
| `Ingestion` | what becomes of the files of an upload request | `MCIngestion`, `IngestionProofs` |
| `Chunker` | the cutting of a text into chunks | `MCChunker`, `ChunkerProofs` |
| `Accounts` | registration, roles, password resets | `MCAccounts`, `UsersProofs` |
| `FolderTree` | folders and the chats filed in them | `MCFolderTree`, `UsersProofs` |

The modules meet at atomic steps. `Retrieval` and `ChatStream` take a new version
and a deletion as one step each, which is what `KnowledgeBase` is shown to
implement (`VersionStore`); `KnowledgeBase` takes extraction, chunking and
embedding as one step that may fail, whose inside is `Ingestion` and `Chunker`;
`UploadSessions` takes an upload as one step.

The MC modules add symmetry sets and constant definitions only. A definition
whose comment begins with "variant of" is not part of a specification: it is
the definition it names with a plausible bug, used as a mutant to show that a
property notices it.

### QaCache

`l1` and `l2` map keys (question, scope) to answers; the vectors of L2 are
abstracted to the relation `Similar`. An ask is `ask_stream` reduced to what
touches the cache: `LookupExactMiss`, `SemanticHit`/`SemanticMiss`, `Promote`
(the copy to L1 in `lookup_semantic`), `CaptureGeneration`, `Search`,
`PutSkipped`/`PutAccepted` (the check in `put`), `PutL1`, `PutL2`. A change is
`add_version` or `delete_document`: `CommitChange`, `ClearL1` (with the
generation), `ClearL2`. `CleanUpDocument` is the one change of documents that
invalidates nothing: the deletion in the handler of `upload_new_document`, which
takes versions that others added with it. Database failures that the code swallows are
`InvalidationFails` and the second branch of `PutL2`. A document's content is
the number of changes committed in its category; an answer remembers the
numbers its search saw, so "stale" is "less than". The history variables
`announced` (what was committed when a change that invalidates last was),
`l1Cleared`, `l2Cleared` and `overlapped` only serve the properties. `Contents`
bounds the changes an instance goes through.

### KnowledgeBase

An upload goes through `Find`, `Create`, `ReadLatest`, `ReadNumber`, `Insert`,
`Respond`, each one statement or one transaction's effect; `Fail` may happen
anywhere, `Cleanup` is the deletion in the handler of `upload_new_document`.
`Insert` waits for rival inserts in PostgreSQL and fails if the number is taken
or the document gone, which is its guard together with `Fail`. Chunks are the
pairs in `searchable`. The history variable `met` has the names of which two
uploads were ever under way at once: `OneDocumentPerName` and
`NoRepeatedVersion` say that nothing else than such a meeting breaks the
find-or-create and the "no duplicate on retry" of `add_version`'s docstring.

### UploadSessions

Bytes are their positions in the client's file, so that a blob can be compared
with the file. A request loads the row (`...Load`) and commits later
(`...Commit`), writing what the ORM writes: the attributes it changed, from the
values it had loaded. `Ingest` is `upload_new_document`.

### ChatStream

Actions follow the yields and awaits of `ask_stream`. The cached path
(`BeginServe`, `ServeCitations`, `ServeToken`, `ServeCommit`) runs in one open
transaction: its turn is not in `turn` until `ServeCommit`, and its foreign keys
lock the chat and the cited documents. `DeleteDocument` and `DeleteFolder` run
on the event loop: if they need a locked row the loop is `frozen`, and the
actions of the loop are disabled. `Leave` is the client going away at any
yield, with and without the chance to persist. `Put` comes after `done` has
been taken. `StreamFails` is any other exception, the database's among them,
which may raise at each write. A cached citation without a confidence, which the
code skips (`chat_service.py:396`), is left out: only a row written by an older
schema could hold one. One category is modelled: every question is of it, `Shared` are the
documents of none, and `DeleteCategory` is `delete_category` with its two
counts, which do not see the chat of an open transaction but wait for it. L1 and
L2 may keep answers of a deleted category, which nobody can ask for: a new chat
of it is refused (`NoChat`).

### Retrieval

The three statements of `_search_hybrid` are three actions, between which
`AddVersion` and `DeleteDocument` may happen; `SearchSemantic` is the search on
other databases. A ranking is any order of any rows the statement sees. `Score`
is the reciprocal rank fusion as a fraction, `Ahead` the stable sort, `TopIds`
the cut at `n_results`. `Cite` is one turn of the loop of
`_build_and_persist_citations`: what the code passes over (an index out of
range, a second citation of a context, no confidence or too low a one, a document that is gone) is a
turn without effect. `touched` only serves a property.

### Ingestion

A file is a record of what the code finds out about it: its extension, its size,
the type libmagic sees, the magic bytes, whether its parser can read it and how
many chunks each page gives. `Invalid...` are the three strategies,
`Unsupported`, `Unreadable` and `Blank` the ways an extraction fails, with
errors of the domain or of the parser. `EmbedFails` is one turn of
`_embed_with_retry`; `Classify` takes the first rule whose marker occurs in the
message, as the code does. `CleanUp` is the handler of `upload_new_document` and
what the endpoint makes of the error. A client may send its request again, and
a document may be deleted beside it.

### Chunker

One step is one turn of a loop. A character is its position in the text, so a
chunk shows which part of the text it is, in which order; which positions are
blank is given, because `_tail_overlap` looks for the first one. Sentences and
paragraphs, which the two regular expressions find, are the shape of the input,
whose characters are numbered through (`Numbered`).

### FolderTree

Each folder handler is one step, because it never gives way on the event loop. Moving
a chat is two, on a worker thread. The walk of `_is_descendant` is stated as
reachability by closed sets, which is what the loop computes on a finite forest
and needs no recursion. The specification is `TreeSpec`, because `UsersProofs`
has it beside that of `Accounts`.

`owner_id` and `user_id` are nullable and the services' parameter is None by
default, so a request may have no user and a row no owner (`NoOwner`). `Permits`
is the test the code makes everywhere: it refuses only a user a row of another
user. `rearranged` notes that a request without a user moved something, after
which rows may lie anywhere; the controllers and the MCP tools always give a
user.

### Accounts

`Authorize` is `require_admin`, which runs on a worker thread; `SetUserRole` and
`SetUserActive` are the handlers on the event loop. Between the two any other
request may act: a request whose admin was demoted or deactivated meanwhile
still does what it was allowed to (the code checks once), and
`_ensure_not_last_admin` has to hold nevertheless. Logging in changes no state
and is left out. Codes are rows in the order of their issue; whether a guess is
right is a free choice (`RightCode`, `WrongCode`), and the second branch of
`WrongCode` is the suppressed failure of the transaction that counts it.
`missed`, `uncounted` and `resets` only serve the properties.

## Runs

All bounds are in the `.cfg` files.

| Run | Question | Bounds and why they are enough |
|---|---|---|
| `QaCache_answers` | type, L1's bound, answers under their key and scope, generation protocol, freshness | two similar questions, one ask at a time, a category and the global scope, L1 of one entry, two changes, of one category, or of it and then the global scope, overlapping, after one another, or cleanups: eviction, promotion of another question's answer, an ask overtaken by a change of its own scope, of the other, or of both |
| `KnowledgeBase_versions` | numbering, search, answered versions, second documents, repeated versions, implements `VersionStore` | three uploads, two documents, two names, two contents: two racing for a number and one that creates or re-creates |
| `UploadSessions_bytes` | blob, first ingestion, sequential clients | three requests, three bytes: two overlapping appends and a completion |
| `ChatStream_answers` | stored answers, sources, implements `StreamContract`, streams end | two streams, a document, two chats, two deltas: one fills the cache for the other, which serves it while the document, chat, folder or category goes; no symmetry, which is unsound for liveness |
| `Accounts_admins` | one admin remains, the last code, bounded guesses | three users, two requests of admins, two codes, one attempt, one uncounted guess: two admins demote each other with a third registered; a code is replaced |
| `FolderTree_tree` | forest, dangling rows, whose rows lie below whose | two users and requests without one, three folders, one chat: a folder of one user below an ownerless one below another user's; a chat that arrives late |
| `Chunker_passages` | nothing lost, size, passages | up to three paragraphs of up to two sentences of 1, 4 or 9 characters, `max_chars` scaled to 4..8, overlaps of none, small, more than half and beyond it, four patterns of blanks: sentences that fit together, alone, or not at all; two overlaps in a row |
| `Retrieval_search` | coherent contexts, ranks, nothing missing, true citations | two documents of up to two versions of two chunks, two results of three candidates: ties, ids of one ranking only, a full ranking, a replaced version between any two statements |
| `Ingestion_files` | true answers, repeats, pages, retries | every shape of file the code tells apart, alone and beside a sound file of the same or another name, none and one file too many, three attempts, one repeat, one deletion |

The two refinements are checked in runs with symmetry: both abstract
specifications are safety properties that treat all documents and all streams
alike. Deadlock is checked except where the system stops: in `KnowledgeBase`
each request is served once, in `Retrieval` one question, in `Chunker` one call,
and in `Ingestion` a client stops repeating.

The other runs have `expect` "violation": each checks one sentence of the
repository's docs that the code does not keep, and TLC finds the trace.
`PROJECT.json` (`findings`) quotes each sentence and says what the trace shows:

- `QaCache_put_race`: `put` compares the generation, releases the lock and then
  writes; an invalidation in between is overtaken and a stale answer comes back.
- `ChatStream_freeze`: a deletion on the event loop (of a document, a folder or a
  category) waits for a row lock that only a stream on the same loop can release.
- `Ingestion_batch`: a file whose parser raises an error of its own ends its
  whole batch, whose earlier files are stored, with an internal error.

### Other disagreements

Reading the code for the models showed these as well. No run is kept for them;
where a passing property has to make an exception for one, it is named.

- `lookup_semantic` copies a row to L1 after its session is closed
  (`qa_cache.py:125`); an invalidation in between is undone, as with `put`.
  `FreshUnlessOverlapped` excepts both.
- The cleanup of a failed creator (`document_service.py:226-231`) never calls
  `invalidate_category`, as `add_version` and `delete_document` do: answers built
  from versions that others had added to the document stay cached until another
  change of their category. `FreshUnlessOverlapped` counts on invalidating
  changes only (`announced`).
- Rows without an owner are everyone's (`folder_service.py:42,51,110,122`,
  `chat_service.py:71,80`), and a request without a user is refused nothing:
  "treats folders owned by other users as if they did not exist"
  (`folder_service.py:47-48`) is so between users only. Two users' folders may lie
  below one ownerless folder, and the refusals of `_delete_recursive` are needed
  there, whose deletion by a user then has no effect at all:
  `UsersMeetBelowOwnerless` says that it is only there, unless a request without a
  user moved something.
- "A retried upload never appends a duplicate" (`document_service.py:108-110`)
  is so unless the retry overlaps the request it repeats: the exception of
  `NoRepeatedVersion`. Two files of one name in a batch are two versions of a
  document, and a repeat of the batch appends both again:
  `RepeatsAppendNothing` asks for different names.
- Two first uploads of one name make two documents: there is no unique
  constraint behind the find-or-create (`document_service.py:210`): the exception
  of `OneDocumentPerName`.
- The cleanup of a failed creator (`document_service.py:231`) deletes versions
  that others added meanwhile and were told of: the exception of
  `AckedLostToCreatorOnly`.
- The category given with a re-upload is ignored: the document keeps its own.
- A completed session is rewritten by a chunk or pause that loaded it before,
  after which something else than the client's file may be ingested
  (`upload_session_controller.py:93`);
  two overlapping chunks are both accepted at one offset, and one is lost;
  a session aborted during its completion is ingested all the same. The safe
  part is in `FirstIngestionWhole`, `BytesKept` and `SequentialClientSafe`.
- A stream whose model fails ends with `error`, without the `done` that
  `README.md:165` promises "sempre, último evento". `StreamContract` has both
  endings.
- A cached answer whose documents were deleted is served without sources
  (`README.md:19`: "Não existe resposta sem fonte"): the exception of
  `SourcedUnlessDeleted`.
- A refusal may come after citations were sent, where `mcp/tools.py:112-113`
  says a refusal has none: `StreamContract!Refusal`.
- The chunker loses text when the overlap is zero (`text_chunker.py:95`; the
  default is 200) and drops a last chunk under 50 characters (`:99`):
  `NothingLost` names both. A page break inside a table of a .docx is not seen
  (`extractors/word.py`), so the pages after it are numbered too low.
- A cached answer whose client leaves before `done` is not stored
  (`chat_service.py:500-503` is about the other path only).
- The error text of a failed turn enters the history given to the model
  (`chat_service.py:314`), though `README.md:73` says that turns without a valid
  answer are skipped.

### Properties that hold and say the most

- `FreshUnlessOverlapped`: the races of `put` and of the promotion with an
  invalidation, failures and restarts are the only ways to serve an answer older
  than a finished `add_version` or `delete_document`; what it may miss otherwise
  are cleanups of failed uploads since the last of these.
- `UsersMeetBelowOwnerless`: among users, no sequence of creations, moves, deletions and
  late arrivals of chats brings one user's rows below another's folder but by way
  of an ownerless folder in between.
- `AckedLostToCreatorOnly`: the cleanup of a failed creator is the only way to
  lose an answered version.
- `FirstIngestionWhole`, `BytesKept`: overlapping chunks cannot corrupt the
  file until a completion has cleared the blob.
- `SourcedUnlessDeleted`: an answer without sources needs a deleted document.
- `ImplementsStreamContract`: whatever fails, leaves or is deleted meanwhile, a
  client sees meta, one citations event, tokens, one end.
- `ActiveAdminRemains`: no interleaving of admins who demote one another, checked
  before and acting later, leaves none.
- `UnchangedFound`, `FusionRespectsRanks`, `ContextsCoherent`: the three
  statements of a search may see three states, and still no document is found in
  two versions, none that stayed as it was is missed, and a chunk both rankings
  prefer comes first.
- `CitedAsFound`: a citation names the version its excerpt is from, even if it
  is no longer the latest when the model has answered.
- `NothingLost`: whatever is cut, overlapped and dropped, no character of a text
  is lost between its chunks.
- `OneDocumentPerName`, `NoRepeatedVersion`: only uploads of one name that
  overlap make a second document or repeat a version; failures, restarts and
  deletions do not.
- `StreamsEndOrFreeze`: nothing but the frozen loop keeps a stream from ending.

### Fairness

`ChatStream!FairSpec` assumes weak fairness of `Step(s)` for each stream: the
event loop resumes a generator whose await is over, and the database, the
search and the model answer or raise. It assumes nothing of users: `Ask`,
`Leave`, deletions and moves need never happen. A stream whose client stops
reading is suspended at a yield; servers resume or close it (`Leave`), which is
within the assumption. When the loop is frozen `Step` is disabled, so fairness does not
ask for the impossible. No strong fairness is used.

## Proofs

All for any values of the constants, under the named assumptions of the
modules (limits are positive naturals, a "no value" is not a value).

- `QaCacheProofs`: `TypeCorrect`; `InvalidationMatchesRetrieval` (the scopes
  invalidated for a category are exactly those whose searches read it);
  `GenerationGuard`, whose invariant relates the generation captured by each ask
  to what was invalidated since; `Freshness`, which adds that every layer is as
  new as its last invalidation while no write overlapped one, and that a category
  with no invalidation under way was last invalidated at or after its last change
  that invalidates (cleanups may have changed it since);
  `ScopeIsolation`; `SizeBounded`, by cardinalities of finite sets (the keys
  in use are finite because L1 starts empty and grows one by one).
- `KnowledgeBaseProofs`: the invariant `Inv` strengthens `VersionsNumbered`
  with what each upload under way has read (a number to be inserted is at most
  one more than the number of rows, because rows of an existing document are never
  removed one at a time). From it `Numbering`, `SearchLatest`, `AckedLoss` and
  `Refinement`, the last with a mapping that orders the rows of a document.
  `OnePerName` and `NoRepetition` add, for names not in `met` (`Apart`): an upload
  about to create a document finds none of its name, and one past its comparison
  has other bytes than the latest version.
- `UploadSessionsProofs`: `Kept` and `FirstWhole` from an invariant on the row
  each request has loaded: until an ingestion it is a prefix of the file too.
  `SequentialSafe` from `AloneInv`, which holds while no two requests met: at most
  one is under way, the row it has loaded is still the row (`SeenIsRow`), which is
  what makes its commit safe, and an open session is a prefix of the file.
- `UsersProofs`, of `FolderTree`: `Forest`, `UsersMeet` and `TreeTypeCorrect`
  from an invariant that parents exist and, until a request without a user moves
  something, that a folder and its parent, and a chat and its folder, are of one user
  unless one of them is ownerless (`OwnTree`). That this local invariant decides whole
  subtrees is `OwnerlessBetween`: without an ownerless folder in between, the folders
  on the way up from `g` would all be of its owner, and never `f`. Acyclicity is stated without paths ("every set
  of folders has one whose parent is outside"), which is what makes `Move`
  provable without induction.
- `UsersProofs`, of `Accounts`: `AdminRemains`, by cardinality (a step removes at
  most one admin, and only if another is left); `LastCodeOnly` and `Guesses`, from
  the attempts and the uncounted guesses of each code.
- `ChatStreamProofs`: `Inv` ties the place of a stream in `ask_stream` to its
  last event, its turn and its sources (`Own`), keeps the chat of an open
  transaction from coming back to a stream that lost it (`ChatsKept`, which
  rests on ids never being used again) and finished answers stored
  (`DoneStored`). From it `Stored`, `Sourced` and `EventOrder`, the refinement
  of `StreamContract`: each event is one the contract allows after the last.
  Deletions, that of the category among them, only take away what no stream
  under way relies on.
- `RetrievalProofs`: all that `Retrieval_search` checks, from an invariant that
  what is ranked is in scope and ranked once, that a context is a version its
  document has or had, and that a chunk nobody touched is missing from the
  ranking by meaning only if that is full. `Found` counts the candidates ahead
  of one. `Fused` compares scores as fractions: a chunk with better ranks has
  the better score (`RankedAboveBetter`), and whatever is better than one of the
  top is of the top (`BetterOnTop`).
- `ChunkerProofs`: `AllKept` and `BoundedSize` for every text, every pattern of
  blanks and all limits. The invariant accounts for each character read: it is
  in a block, in a chunk long enough to be returned, or in what is being
  gathered; a chunk too short to be returned lives on in the overlap of the next.
  `AllPassages` needs to know of each block and chunk that it is a passage
  (`Solid`), and of neighbours that the next begins where the one before ended
  (`Chained`): joining two, cutting one and taking its tail then give passages
  again. It rests on `NumberedAssumption`: the characters of a text are numbered
  from paragraph to paragraph and sentence to sentence without gaps.
- `IngestionProofs`: everything `Ingestion_files` checks, for every set of requests,
  their files and contents, any numbers of attempts, repeats and deletions.
  `ItemsStayTruthful` from `BeforeInv`: while a file is handled the store is as it was
  before it, but for the empty document the file created; so the cleanup, or its
  failure, leaves what the entry says. `RepeatsAreIdempotent` from `OnceInv`: once
  the bytes were compared with the latest version only a deletion can come before
  the commit, and if the names differ the one version of a document is the
  request's file of that name. `RetriesKept` from `RetryInv` (the calls are the
  attempts so far, all but the last with errors that may pass). `PagesStayTrue` from
  `ExtractedTrue`: the concatenation of the pages' chunks has, of every page, as
  many as the page is cut into, blank pages included, and the blank pages that
  `_extract_docx_pages` trims have none. `FlattenSeq` is defined by recursion: that
  its function exists, and the count of each page, are shown by taking the least
  length for which they fail (`LeastOf`, from the well-foundedness of <), in place of
  an induction theorem. `RequestsAssumption` gives the files their types,
  `LimitsAssumption` that there is at least one attempt, `UnsetAssumption` that
  `Unset` is none of the values it stands beside.

Every invariant and action property that a passing run checks is also proved. Only
model-checked: `StreamsEndOrFreeze`, the liveness property (fairness and ENABLED are
out of the prover's reach), and the violations, which are counterexamples. The type
invariants of `Accounts` and `Chunker` are proved and not run.

## Not modelled

- Several worker processes (each would have its own L1): the deployment has one.
- Hit counts of L1: which entry is evicted is a free choice in `StoreL1`.
- The connection pool (`postgres_client.py:23`). Streams that each hold a
  connection and ask for a second may wait for one another until the pool's
  timeout fails some of them, which the models allow as a failure at that point;
  how long that takes is outside of them.
- Distances, text ranks, embeddings and what the model answers: free choices, or
  failures.
- The rewriting of follow-up questions, which changes the question looked up
  and nothing else; prompts; titles.
- The structured stream of `llm.py`, which normalises the partial answers of a
  provider: `ChatStream` takes the deltas it yields. `ask_stream` makes them by
  the length of the snapshot before, which is right for snapshots that grow.
- Creation and renaming of categories: one insert or update each, whose slug is
  unique by a constraint. Deleting a category also deletes its upload sessions
  and cached answers (ON DELETE CASCADE), the effect of `Abort` in
  `UploadSessions`.
- The MCP tool: a fold without state over the events of a stream, whose order
  `StreamContract` has.
- Users' names, passwords and tokens; rate limits; email; logging;
  configuration; schemas; migrations; the evaluations, which are clients.

## Plan

Done: the cache, the knowledge base, upload sessions, streams with the deletion
of their category, searches and citations, ingestion, the chunker, folders and
accounts, with their proofs, two of them refinements. What could follow, in this order:

1. `RagSystem`: `QaCache` above `Retrieval`, a cached answer against the chunks
   it was built from, end to end.
2. `LfuCache`: the hit counts of L1, as a refinement of `StoreL1`'s choice.
3. The connection pool, as a resource of `ChatStream`'s steps with a timeout.
4. Proofs: that the versions and deletions `Retrieval` and `ChatStream` take as one
   step are those of `VersionStore`; what `RagSystem` will check.
