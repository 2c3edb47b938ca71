------------------------------ MODULE Ingestion ------------------------------
(***************************************************************************)
(* What becomes of the files of an upload request: the endpoints           *)
(* (document_controller.upload_document, upload_documents_batch), the      *)
(* checks of a file (upload_strategies), the extraction of its text        *)
(* (text_extractor, extractors), its chunks and their embeddings           *)
(* (vector_index_service.prepare, llm.embed) and what document_service     *)
(* stores of it.  A request handles its files one after the other; the     *)
(* client may send it again.  Uploads that race are in KnowledgeBase.      *)
(*                                                                         *)
(* The content of a file is a record of what the code finds out about it.  *)
(***************************************************************************)
EXTENDS Naturals, Sequences, FiniteSets, SequencesExt

CONSTANTS
    Requests,     \* records [kind |-> Kinds or "batch", files |-> files]
    MaxBatch,     \* _MAX_BATCH_FILES
    MaxAttempts,  \* _EMBED_MAX_ATTEMPTS
    Messages,     \* sets of markers: what an error of the provider mentions
    Antiword,     \* whether antiword is installed
    MaxRepeats,   \* bound: times the client sends the request again
    MaxDeletions, \* bound: deletions of documents beside the request
    Unset         \* no document, no page, no pages, no error

Extensions == {"pdf", "word", "text", "image", "other"}
Kinds == {"file", "image", "text"}
Contents == [size : {"some", "empty", "large"}, mime : {"its own", "another", "unknown"},
             magic : {"docx", "doc", "neither"}, readable : BOOLEAN,
             pages : Seq(Nat)]    \* of every page the number of its chunks

(* Rows of document_versions with their vector_chunks *)
StoredVersions == [content : Contents, type : Extensions, chunks : Seq(Nat \union {Unset})]

(* Errors of a model: what _classify tells apart, and what is not classified *)
Rules == <<"rate_limit", "auth", "timeout", "model_not_found",
           "content_filter", "bad_request">>
LlmErrors == Range(Rules) \union {"provider", "empty", "config"}

ASSUME RequestsAssumption == \A r \in Requests :
    /\ r.kind \in Kinds \union {"batch"}
    /\ r.files \in Seq(Range(r.files))
    /\ \A f \in Range(r.files) : f.extension \in Extensions /\ f.content \in Contents
ASSUME LimitsAssumption ==
    MaxAttempts \in Nat \ {0} /\ MaxRepeats \in Nat /\ MaxDeletions \in Nat
ASSUME UnsetAssumption == Unset \notin Nat \union Seq(StoredVersions) \union Seq(Nat) \union LlmErrors

VARIABLES
    request, repeats, deletions,
    pos,          \* the file being handled
    pc,
    store,        \* store[name]: the versions of the document, or Unset
    created,      \* whether this file's document is new
    chunks,       \* of this file: the page of each chunk, or Unset
    attempt, lastError,
    error,        \* what this file failed with
    items,        \* the entries of the answer
    answer,       \* "items", "ok", or the error the request ends with
    calls,        \* history: the errors of this file's embedding calls
    before        \* history: the store before this file, but for deletions

client == <<request, repeats, deletions>>
file == <<created, chunks, attempt, lastError, error, calls>>
vars == <<client, pos, pc, store, file, items, answer, before>>

Names == {f.name : f \in UNION {Range(r.files) : r \in Requests}}

FileInit ==
    /\ created = FALSE /\ chunks = <<>> /\ attempt = 0
    /\ lastError = Unset /\ error = Unset /\ calls = <<>>

Init ==
    /\ request \in Requests
    /\ repeats = 0 /\ deletions = 0
    /\ pos = 1
    /\ pc = "start"
    /\ store = [n \in Names |-> Unset] /\ before = store
    /\ FileInit
    /\ items = <<>>
    /\ answer = Unset

-----------------------------------------------------------------------------
(* The file *)

Files == request.files
File == Files[pos]
Content == File.content

(* _infer_kind, of a file in a batch *)
Kind ==
    IF request.kind # "batch" THEN request.kind
    ELSE IF File.extension = "image" THEN "image" ELSE "file"

(* read_upload and validate_mime_for_ext raise ValidationError: libmagic may *)
(* see another type in the content than its extension says, or none.        *)
Unreceivable == Content.size \in {"empty", "large"}
Mismatched == Content.mime = "another"

(* build_payload of the three kinds raises ValidationError. *)
InvalidFile ==
    File.extension \notin {"pdf", "word", "text"} \/ Unreceivable \/ Mismatched
InvalidImage == File.extension # "image" \/ Unreceivable \/ Mismatched
InvalidText == Unreceivable
Invalid ==
    CASE Kind = "file"  -> InvalidFile
      [] Kind = "image" -> InvalidImage
      [] Kind = "text"  -> InvalidText

ContentType == IF Kind = "text" THEN "text" ELSE File.extension

(* _extract_doc raises ValidationError. *)
NoDocText == ~Antiword \/ ~Content.readable

(* The extractor raises ValidationError. *)
Unsupported ==
    /\ ContentType = "word"
    /\ Content.magic = "neither" \/ (Content.magic = "doc" /\ NoDocText)

(* Parsers raise errors of their own; text is always decoded. *)
Parsed == {"pdf", "docx", "image"}
Format == IF ContentType = "word" THEN Content.magic ELSE ContentType

(* variant of Unreadable: the parser of images raises none *)
UnreadableButImages == ~Content.readable /\ Format \in Parsed \ {"image"}

Unreadable == ~Content.readable /\ Format \in Parsed

Blank == \A p \in DOMAIN Content.pages : Content.pages[p] = 0

(* _extract_docx_pages: the pages without the blank ones at the end *)
Trimmed(pages) ==
    LET used == {p \in DOMAIN pages : pages[p] > 0}
    IN SubSeq(pages, 1, IF used = {} THEN 0 ELSE Max(used))

WordPages ==
    LET pages == Trimmed(Content.pages)
    IN IF Content.magic = "docx" /\ Len(pages) > 1 THEN pages ELSE Unset

(* pages_from_bytes: of every page the number of its chunks, or Unset *)
Pages ==
    CASE ContentType = "pdf"  -> Content.pages
      [] ContentType = "word" -> WordPages
      [] OTHER                -> Unset

(* variant of PagesOfChunks: blank pages are not counted *)
PagesOfChunksNotBlank(pages) ==
    LET used == SelectSeq(pages, LAMBDA n : n > 0)
    IN FlattenSeq([p \in DOMAIN used |-> [i \in 1..used[p] |-> p]])

(* prepare_paged: the page of each chunk *)
PagesOfChunks(pages) ==
    FlattenSeq([p \in DOMAIN pages |-> [i \in 1..pages[p] |-> p]])

(* prepare: the chunks of a text without pages *)
Unpaged(pages) == [i \in DOMAIN PagesOfChunks(pages) |-> Unset]

(* _classify: the kind of the first rule one of whose markers is mentioned *)
Classify(message) ==
    LET matching == {i \in DOMAIN Rules : Rules[i] \in message}
    IN IF matching = {} THEN "provider" ELSE Rules[Min(matching)]
Retryable == {"rate_limit", "timeout", "provider"}

(* Errors of the batch's items: DomainError and LlmError *)
Reported == {"domain"} \union LlmErrors

-----------------------------------------------------------------------------
(* One file *)

Versions == store[File.name]

FailWith(e) ==
    /\ error' = e
    /\ pc' = "cleanup"

(* The file is stored, or was. *)
Succeed ==
    /\ items' = Append(items, [file |-> pos, ok |-> TRUE])
    /\ pos' = pos + 1
    /\ pc' = "file"

(* build_payload *)
Build ==
    /\ pc = "file" /\ pos <= Len(Files)
    /\ IF Invalid
       THEN /\ error' = "domain"
            /\ pc' = "cleanup"
       ELSE /\ error' = Unset
            /\ pc' = "find"
    /\ created' = FALSE /\ chunks' = <<>> /\ attempt' = 0
    /\ lastError' = Unset /\ calls' = <<>>
    /\ before' = store
    /\ UNCHANGED <<client, pos, store, items, answer>>

(* upload_new_document: the category may be gone; a document of this name   *)
(* is used, or one is created.                                              *)
Find ==
    /\ pc = "find"
    /\ \/ /\ FailWith("domain")
          /\ UNCHANGED <<store, created>>
       \/ /\ created' = (Versions = Unset)
          /\ store' = IF Versions = Unset THEN [store EXCEPT ![File.name] = <<>>] ELSE store
          /\ pc' = "compare"
          /\ UNCHANGED error
    /\ UNCHANGED <<client, pos, chunks, attempt, lastError, items, answer, calls, before>>

IsLatest(versions) ==
    versions \notin {Unset, <<>>} /\ versions[Len(versions)].content = Content

(* variant of Known: any version will do *)
KnownAtAll(versions) == versions # Unset /\ versions # <<>>

(* variant of Known: the first version is read *)
KnownFirst(versions) ==
    versions \notin {Unset, <<>>} /\ versions[1].content = Content

(* The bytes are those of the latest version. *)
Known(versions) == IsLatest(versions)

(* add_version up to the extraction *)
Compare ==
    /\ pc = "compare"
    /\ IF Known(Versions)
       THEN Succeed
       ELSE pc' = "extract" /\ UNCHANGED <<pos, items>>
    /\ UNCHANGED <<client, store, file, answer, before>>

Extract ==
    /\ pc = "extract"
    /\ \/ /\ Unsupported \/ (~Unreadable /\ Blank)
          /\ FailWith("domain")
          /\ UNCHANGED <<chunks, attempt>>
       \/ /\ ~Unsupported /\ Unreadable
          /\ FailWith("other")
          /\ UNCHANGED <<chunks, attempt>>
       \/ /\ ~Unsupported /\ ~Unreadable /\ ~Blank
          /\ chunks' = IF Pages = Unset THEN Unpaged(Content.pages)
                       ELSE PagesOfChunks(Pages)
          /\ attempt' = 1
          /\ pc' = "embed"
          /\ UNCHANGED error
    /\ UNCHANGED <<client, pos, store, created, lastError, items, answer, calls, before>>

EmbedSucceeds ==
    /\ pc = "embed"
    /\ pc' = "commit"
    /\ UNCHANGED <<client, pos, store, file, items, answer, before>>

(* The model is not configured, cannot be set up, or answers with another   *)
(* number of embeddings; this is not tried again.                           *)
EmbedUnusable ==
    /\ pc = "embed"
    /\ \/ attempt = 1 /\ (FailWith("config") \/ FailWith("other"))
       \/ FailWith("empty")
    /\ UNCHANGED <<client, pos, store, created, chunks, attempt, lastError, items, answer, calls, before>>

(* variant of LastAttempt: one attempt more *)
LastAttemptPlusOne == attempt > MaxAttempts

LastAttempt == attempt = MaxAttempts

(* _embed_with_retry: the provider fails. *)
EmbedFails ==
    /\ pc = "embed"
    /\ \E message \in Messages :
         LET kind == Classify(message)
         IN /\ lastError' = kind
            /\ calls' = Append(calls, kind)
            /\ IF kind \notin Retryable \/ LastAttempt
               THEN FailWith(lastError') /\ UNCHANGED attempt
               ELSE attempt' = attempt + 1 /\ UNCHANGED <<pc, error>>
    /\ UNCHANGED <<client, pos, store, created, chunks, items, answer, before>>

(* The transaction of add_version: the document may be gone by now, or a    *)
(* statement fails.                                                         *)
Commit ==
    /\ pc = "commit"
    /\ \/ /\ Versions = Unset
          /\ FailWith("domain")
          /\ UNCHANGED <<pos, store, items>>
       \/ /\ Versions # Unset
          /\ store' = [store EXCEPT ![File.name] =
                        Append(@, [content |-> Content, type |-> ContentType, chunks |-> chunks])]
          /\ Succeed
          /\ UNCHANGED error
       \/ /\ FailWith("other")
          /\ UNCHANGED <<pos, store, items>>
    /\ UNCHANGED <<client, created, chunks, attempt, lastError, answer, calls, before>>

(* The document the file created is removed, unless that fails. *)
Removed ==
    IF created THEN {store, [store EXCEPT ![File.name] = Unset]} ELSE {store}

(* The file failed.  A batch goes on after a DomainError or an LlmError;    *)
(* any other request ends with the error.                                   *)
CleanUp ==
    /\ pc = "cleanup"
    /\ store' \in Removed
    /\ IF request.kind = "batch" /\ error \in Reported
       THEN /\ items' = Append(items, [file |-> pos, ok |-> FALSE])
            /\ pos' = pos + 1
            /\ pc' = "file"
            /\ UNCHANGED answer
       ELSE /\ answer' = error
            /\ pc' = "answered"
            /\ UNCHANGED <<pos, items>>
    /\ UNCHANGED <<client, file, before>>

-----------------------------------------------------------------------------
(* The request *)

Begin ==
    /\ pc = "start"
    /\ IF request.kind = "batch" /\ Len(Files) \notin 1..MaxBatch
       THEN pc' = "answered" /\ answer' = "domain"
       ELSE pc' = "file" /\ UNCHANGED answer
    /\ UNCHANGED <<client, pos, store, file, items, before>>

Finish ==
    /\ pc = "file" /\ pos > Len(Files)
    /\ answer' = IF request.kind = "batch" THEN "items" ELSE "ok"
    /\ pc' = "answered"
    /\ UNCHANGED <<client, pos, store, file, items, before>>

(* The client sends the request again. *)
Repeat ==
    /\ pc = "answered" /\ repeats < MaxRepeats
    /\ repeats' = repeats + 1
    /\ pos' = 1 /\ pc' = "start" /\ items' = <<>> /\ answer' = Unset
    /\ UNCHANGED <<request, deletions, store, file, before>>

(* Someone deletes a document. *)
DeleteDocument(n) ==
    /\ store[n] # Unset /\ deletions < MaxDeletions
    /\ deletions' = deletions + 1
    /\ store' = [store EXCEPT ![n] = Unset]
    /\ before' = [before EXCEPT ![n] = Unset]
    /\ UNCHANGED <<request, repeats, pos, pc, file, items, answer>>

Next ==
    \/ Begin \/ Build \/ Find \/ Compare \/ Extract
    \/ EmbedSucceeds \/ EmbedUnusable \/ EmbedFails
    \/ Commit \/ CleanUp \/ Finish \/ Repeat
    \/ \E n \in Names : DeleteDocument(n)

Spec == Init /\ [][Next]_vars

-----------------------------------------------------------------------------
(* Properties *)

(* Every variable has its type, an answer has an entry for every file the   *)
(* request is through with, and no version is stored of what its parser     *)
(* cannot read (extract_from_bytes).                                        *)
TypeOK ==
    /\ request \in Requests
    /\ repeats \in 0..MaxRepeats /\ deletions \in 0..MaxDeletions
    /\ pos \in 1..(Len(Files) + 1)
    /\ pc \in {"start", "file", "find", "compare", "extract", "embed", "commit",
               "cleanup", "answered"}
    /\ \A n \in Names : store[n] = Unset \/ \A i \in DOMAIN store[n] :
         store[n][i].content.readable \/ store[n][i].type = "text"
    /\ created \in BOOLEAN /\ attempt \in 0..MaxAttempts
    /\ lastError \in LlmErrors \union {Unset}
    /\ error \in Reported \union {"other", Unset}
    /\ answer \in Reported \union {"other", "items", "ok", Unset}
    /\ Len(items) = pos - 1

(* An entry of a batch's answer says what happened to its file: the entries *)
(* come in the files' order, one is ok only if the file's content is now    *)
(* the latest version of its document, and a file that failed at any of its *)
(* steps left nothing, but for a document without versions if the cleanup   *)
(* failed as well (upload_documents_batch, upload_new_document).            *)
ItemsTruthful ==
    [][Len(items') > Len(items) =>
        LET item == items'[Len(items')]
        IN /\ item.file = pos /\ Len(items') = pos
           /\ item.ok => IsLatest(store'[File.name])
           /\ ~item.ok =>
                \/ store' = before
                \/ before[File.name] = Unset /\ store' = [before EXCEPT ![File.name] = <<>>]]_vars

(* However often the client repeats a request, whatever part of it failed   *)
(* before, and although its files are handled again from the first: if      *)
(* their names differ, no document gets a second version; if they do not,   *)
(* still no version repeats the one before it (add_version).                *)
Distinct == \A i, j \in DOMAIN Files : Files[i].name = Files[j].name => i = j
RepeatsAppendNothing ==
    \A n \in Names : store[n] # Unset =>
        /\ Distinct => Len(store[n]) <= 1
        /\ \A i \in 1..(Len(store[n]) - 1) : store[n][i].content # store[n][i + 1].content

(* Every chunk of a stored version is said to be on the page it is from,    *)
(* blank pages before it or not, and a PDF always has its pages             *)
(* (prepare_paged, pages_from_bytes).                                       *)
PageTrue(v) ==
    LET pages == v.content.pages
        on(p) == {i \in DOMAIN v.chunks : v.chunks[i] = p}
    IN IF on(Unset) # {}
       THEN v.type # "pdf" /\ on(Unset) = DOMAIN v.chunks
       ELSE \A p \in DOMAIN pages : Cardinality(on(p)) = pages[p]
PagesTrue ==
    \A n \in Names : store[n] # Unset => \A i \in DOMAIN store[n] : PageTrue(store[n][i])

(* An embedding is tried three times at most, again only after an error     *)
(* that may pass, and the last of the errors is the one that comes out      *)
(* (_embed_with_retry, _classify).                                          *)
RetriesAsPromised ==
    /\ Len(calls) <= MaxAttempts
    /\ \A i \in 1..(Len(calls) - 1) : calls[i] \in Retryable
    /\ error \in LlmErrors \ {"empty", "config"} =>
         calls # <<>> /\ error = calls[Len(calls)]
         /\ (error \in Retryable => Len(calls) = MaxAttempts)

(* "One invalid file doesn't fail the batch - its error is reported in the  *)
(* matching items entry" (document_controller.py:132-134): a batch of an    *)
(* accepted length is answered with its items if its last file is one that  *)
(* cannot be parsed.                                                        *)
InvalidFileReported ==
    request.kind = "batch" /\ Len(Files) \in 1..MaxBatch /\ answer = "other" => ~Unreadable
=============================================================================
