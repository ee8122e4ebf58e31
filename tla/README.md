# A TLA+ model of Lumina, the Enterprise RAG Knowledge Assistant

TLA+ specifications of the program in `src/`, TLC configurations that check
them on small instances, and TLAPS proofs of their main theorems. Paths such as
`main.py:589` are under `src/backend/runtime/` unless another directory is
named.

## 1. The system

The repository holds two back ends and a front end.

* The **supported runtime** is `src/backend/runtime`: one process, one event
  loop, SQLite and a directory of uploaded files. It is what
  `docker-compose.yml` starts and what the README and `docs/engineering`
  describe as implemented.
* The **microservices** (`src/backend/*_service`, `api_gateway`, `shared`) are
  "preserved microservice reference implementations". They talk over HTTP,
  RabbitMQ and Redis.
* The **front end** is a Next.js application that reads server-sent events.

### Inventory

| component | state it keeps | operations | hard behaviours |
|---|---|---|---|
| document store (`main.py`, `database.py`) | tables `documents`, `chunks`, `audit`; files in `DATA/uploads` | upload, remove, reindex, download, preview, list | handlers interleave at every `await`; a file and a row cannot change in one transaction; stale ORM rows |
| ingestion worker (`ingestion.py`) | its task, the document in its hands; statuses in `documents` | recovery at start-up, poll, extract in a thread, replace chunks, fail | crash while a status is in progress; removal under its hands; an exception that ends the only worker |
| chat (`main.py:421-623`) | tables `conversations`, `messages`, `queries`; one async generator per answer | ask, stream, store the end, show, rename, remove | disconnects at a yield or at an await, a timeout around yields, a shielded store, removal while streaming |
| sessions and members (`main.py:123-262, 655-724`) | tables `organizations`, `users`, `sessions`; a cookie per browser | register, log in, log out, authenticate, add and change members | the check of a password runs in a thread between read and commit; two administrators act at once |
| rate limiter (`main.py:76-104`) | `attempts`: a deque of instants per host and kind | admit or refuse a request, evict old instants | boundaries of a sliding window, clean-up of keys |
| chunker (`ingestion.py:122-137`) | none (pure) | `split_text` | progress: overlap against a word boundary found early |
| retrieval (`retrieval.py`) | none (reads) | BM25 search over the chunks of indexed documents of one organization | reads rows that others change |
| providers (`providers.py`) | none | token streams of Ollama and of OpenAI-compatible servers | streams that end early, missing end markers, refusals and citations cut over tokens |
| front end (`Workspace.tsx`, `runtime.ts`) | per page: turns, `busy`, an `AbortController`, the active conversation; the list of documents; the rows of members | ask, stop, read events, select, delete; poll, upload, re-index, delete; change members | answers that arrive in any order, a page that is left, an abort that races the end, a row shown after it has changed |
| document service and processing worker | rows, S3 objects, chunks; a RabbitMQ queue | upload, delete, status, extract, chunk, save | publishing before the commit, a worker that is lost, a message delivered again, updates that wait for a row |
| text pipeline of the processing worker | none (pure) | PDF, Office, HTML, text and image extraction with fall-backs, OCR, cleaning, four chunkers | loops with overlaps, offsets, errors of one extractor of two |
| audit service | an `asyncio.Queue`, a batch, rows; export jobs | consume, flush by size or interval, export | redelivery after a lost connection, a kill between acknowledgement and insertion, a shutdown |
| API gateway | a sorted set per host in Redis | limit, check the caller, forward with retries, relay a stream, probe | a clock read before it is used, answers lost after the work was done, an end marker cut in two |
| auth service | Keycloak, `users`, refresh tokens in Redis | register, log in, refresh, log out | three stores without a transaction, a token read before it is deleted |
| user service | `users`, `organizations` with `deleted_at` | create, change, delete | a check that is apart from its insertion, a row deleted after it was read |
| vector service | chunks with embeddings and a text index | search by similarity, words or both, similar chunks | two connections that see different chunks, ranks fused over lists of different length |
| shared RabbitMQ client | pools, a queue with its deliveries, retry counters | publish, consume, acknowledge, reject | a channel that goes away between a message's work and its acknowledgement; pools that are closed under a consumer |
| shared cache | entries in Redis with an expiry | `get`, `set`, `delete`, `cached` | a value stored after its row has changed |
| shared rate limiter | sorted sets per user and address | a script per check | clocks read before the script runs, answers lost after it ran |
| embedding, chat and notification services, storage and security helpers | | | see "What is not modelled" |

### How components interact

The browser calls the runtime over HTTP. Handlers and the worker share the
SQLite tables and the upload directory and nothing else; the queue *is* the
column `documents.status`. An answer reads chunks when it starts and stores
sources when it ends, so chat and the document store meet in
`messages.sources`. Removing a conversation removes its messages by a foreign
key, under the hands of a generator that is still streaming. The pages of the
browser know of all this only what answers told them.

In the microservices the gateway forwards to the services over HTTP. The
document service publishes `doc.uploaded`, which the processing worker takes;
it writes statuses and chunks into the database of the document service.
`doc.processed` and `doc.deleted` are published and have no queue bound to
them. The audit service takes audit events from a queue of its own. The auth
and the user service keep a table `users` each, of different columns; no code
joins the two. The vector service reads the table of chunks.

### What makes each component correct

* *Document store and worker*: a listed document has its file; an indexed one
  has its chunks; a removed one has neither chunks nor a way back; nothing is
  stranded between states; every queued document is served; the audit table
  agrees with the documents table.
* *Chat*: what the client was told is what is stored, and nobody is told that a
  cut answer is completed; an end is stored once, audited once and never
  rewritten; every started answer ends; a removed document is not shown as a
  source.
* *Sessions*: a session is of the account that its token was given to, with the
  rights that the account had then; an organization keeps an administrator; a
  deactivated account has no session.
* *Rate limiter*: no more than the limit in any window; *chunker*: every
  character lands in a chunk, and the loop ends.
* *Answering*: an answer that a client is told is completed was finished by its
  provider and cites no number without a source, and no source comes from
  another organization or a document that is not indexed.
* *Front end*: what is shown belongs to what was chosen, an answer shown as
  completed is the stored one, an early end is told, every question ends, the
  list of documents catches up, and the form for uploads does not stay busy.
* *Document service and worker*: a document that can be downloaded has its file;
  once its message is settled, its status tells how it ended, unless that could
  not reach the row; every message is settled; the text is in the chunks, and
  every chunking ends.
* *Audit service*: an acknowledged event is not lost but on the ways the code
  has; what is queued leaves the process; a completed export is whole.
* *Gateway*: no window, less the delay of a clock reading, holds more than the
  limit of counted and admitted requests; what the client is told is what the
  service answered in one of the attempts; and every request is answered.
* *Auth and user service*: a refresh token that was exchanged, or ended by a
  logout, is not valid again; a linked row has its account; an email has one
  row, and success is answered for rows that are there.
* *Vector service*: answers hold chunks that the filters permit, in the order
  that the two rankings give.
* *Shared client of RabbitMQ*: a message that left its queue was processed or put
  back as often as it may be, and is processed again only after its channel was
  lost. *Cache*: an answer is no older than the expiry and the longest load
  admit. *Limiter*: the sorted set of a key never has more members of a window,
  less the delay of a clock, than its limit.

## 2. Modules

| module | models | relation |
|---|---|---|
| `DocumentLifecycle` | what the library promises about one document | abstract specification |
| `Ingestion` | handlers, files, worker, crash and restart | implements `DocumentLifecycle` (`LibrarySpec`) |
| `IngestionProofs` | theorems about `Ingestion` | extends it |
| `MCIngestion` | instances for TLC | extends `Ingestion` |
| `Chat` | `send_message`, `events()`, `persist()`, `messages`, removals | stands on its own; documents appear as the set of listed ones |
| `ChatProofs` | theorems about `Chat` | extends it |
| `MCChat` | instances for TLC | extends `Chat` |
| `Sessions` | registration, login, logout, the two reads of `current_user`, changes of members | stands on its own |
| `SessionsProofs` | theorems about `Sessions` | extends it |
| `MCSessions` | an instance for TLC | extends `Sessions` |
| `RateLimit` | what the request limiter promises | abstract specification |
| `RateWindow` | the deque of instants, its eviction loop and the clean-up of keys | implements `RateLimit` (`LimiterSpec`) |
| `RateWindowProofs` | theorems about `RateWindow` | extends it |
| `MCRateWindow` | an instance for TLC | extends `RateWindow` |
| `SplitText` | the chunker, turn by turn of its loop | stands on its own |
| `Answering` | retrieval, the providers' streams, the check of citations | stands on its own |
| `VectorSearch` | the searches of the vector service | stands on its own |
| `TextAndSearch` | `SplitText`, `Answering` and `VectorSearch` side by side | extends the three |
| `TextAndSearchProofs` | theorems about `TextAndSearch` | extends it |
| `MCSplitText` | an instance for TLC | extends `TextAndSearch` |
| `ChatPage` | the page Chat, its requests, and the API as far as it answers them | stands on its own; the API's side is an abstraction of `Chat` |
| `LibraryPage` | the shell with the pages Documents and Dashboard | stands on its own |
| `MembersPage` | the page Admin, open for several administrators | stands on its own |
| `Workspace` | the three pages, one of which is open | extends the three |
| `WorkspaceProofs` | theorems about `Workspace` | extends it |
| `MCWorkspace` | an instance for TLC | extends `Workspace` |
| `LegacyDocuments` | document service, its queue and the processing worker | stands on its own |
| `DocumentText` | extraction, OCR, cleaning and chunking in the worker | stands on its own |
| `AuditLog` | the audit worker, its flusher and the exports | stands on its own |
| `Messaging` | the shared client of RabbitMQ and a consumer | stands on its own |
| `SharedCache` | the shared cache and its decorator | stands on its own |
| `LegacyServices` | the five above | extends the five |
| `LegacyServicesProofs` | theorems about `LegacyServices` | extends it |
| `MCLegacyServices` | an instance for TLC | extends `LegacyServices` |
| `Gateway` | rate limit, checks of the routes, retries, streams, probes | stands on its own |
| `Accounts` | the auth service with Keycloak, its table and Redis | stands on its own |
| `Directory` | users and organizations of the user service | stands on its own |
| `SharedWindow` | the shared rate limiter | stands on its own |
| `LegacyAccess` | the four above | extends the four |
| `LegacyAccessProofs` | theorems about `LegacyAccess` | extends it |
| `MCLegacyAccess` | an instance for TLC | extends `LegacyAccess` |

`TextAndSearch`, `Workspace`, `LegacyServices` and `LegacyAccess` put parts
next to each other that share no state: a variable says whose behaviour it is,
and the others stand still. So one run checks several parts without their
product, and the theorems are about the specifications that the runs check: an
inductive invariant is a conjunction with a part for each, and a lemma says that
a step of one is a stutter of the others.

### Ingestion and the code

A step is what runs between two `await`s that let another coroutine run: one
SQL read, one commit, one file operation. `status`, `error`, `chunks` and
`audit` are the committed tables, `files` the directory; `req[r]` is a handler
in flight with the identifier and the row it read (`seen`), `wpc`, `cur`,
`batch` and `recovering` are the local variables of `worker()` and
`process_document()`. `status[d] = "absent"` means no row.

| action | code |
|---|---|
| `UploadCheck`, `UploadWrite`, `UploadWriteFails`, `UploadCommit`, `UploadCommitFails` | `upload`, main.py:309-350 |
| `DeleteLoad`, `DeleteCommit`, `DeleteUnlink` | `remove_document`, main.py:383-391 |
| `ReindexLoad`, `ReindexCommit` | `reindex`, main.py:394-403 |
| `DownloadLoad`, `DownloadCommit`, `DownloadServe` | `download`, main.py:372-380 |
| `RecoverLoad`, `RecoverCommit`, `Poll` | `worker`, ingestion.py:186-203 |
| `Load`, `Claim`, `Extract`, `Refresh`, `Mark`, `Replace`, `ReplaceFails`, `Rollback`, `Fail` | `process_document`, ingestion.py:140-183 |
| `Die` | an exception that leaves `worker()` |
| `Crash`, `Restart` | end and start of `lifespan`, main.py:63-72 |

A commit of a row that was removed raises `StaleDataError`: inside the try of
`process_document` that is a failure path, outside it the exception ends the
worker. ORM rows commit their *net* change only, so a stale reindex of a row
whose column did not change writes nothing: `ReindexCommit` models that from
`seen`.

`write_bytes` (main.py:342) stands before the try that unlinks the file of a
failed commit. When it raises after it has made the file (the disk is full), a
file stays that no row names: `UploadWriteFails` puts it into `torn`, and
`OrphanIsExplained` lists that case next to the crash. `RowHasFile` says that
no such file ever gets a row.

### Chat and the code

`stream[s]` is the generator of one question. Its `pc` is the suspension point:
`yield` (an event is on its way to the client) or `await` (the provider
works), then `finally` and `store`, the two halves of `persist()`. `answer` is
the number of tokens collected, `whole` is a history variable: the provider
ended the answer. `client[s]` is what the browser has received (`there`: it has
not closed its connection), `outcome[s]` the audit records `chat.<status>`.

| action | code |
|---|---|
| `Ask`, `Begin`, `Open` | `send_message` up to the first event, main.py:510-549 |
| `Resume`, `Token`, `Finish`, `ProviderFails` | the body of the try, main.py:549-586 |
| `Notice` | `is_disconnected`, main.py:563-565 |
| `Cancel` | `CancelledError` at an await, main.py:577-579 |
| `Drop` | the client has gone while the generator is at a yield, main.py:567 |
| `SlowClient` | the 120 seconds of main.py:561 are over at a yield |
| `Shield` | a cancellation during `await asyncio.shield(persist())` |
| `PersistLoad`, `PersistCommit`, `AfterFinally` | main.py:589-617 |
| `RemoveConversation`, `RemoveDocument` | main.py:469-476, 383-389 |
| `ViewRows`, `ViewReply` | `messages`, main.py:479-503 |
| `Disconnect` | the browser (external) |
| `Crash` | the process stops: generators end without their finally |

`status` is `completed` from main.py:546 on, and only the exceptions that the
generator sees itself change it. A generator that is closed at a yield gets
`GeneratorExit`, which no handler of main.py:577-586 catches, so that its
finally stores what there is, before the citations are checked (main.py:568),
as completed. That happens when the client has gone, and also to a client that
is there and slow: the timeout of main.py:561 then cancels the task that sends
the token, outside the generator, and the response ends without "done".
`ShortIsNotTold` is what remains: such a row exists only of a generator that
was closed, and no client is told that the answer is completed. That the stored
status itself is wrong is what the run `chat_whole` shows.

### Sessions and the code

`account[u]` is a row of `users`, `session[t]` a row of `sessions`, `expired`
the sessions whose eight hours are over. `req[r]` is a handler in flight: `seen`
is the account that `current_user` or `login` has read, `found` the row of the
member that an administrator changes, `patch` the change. A request is *raced*
once an administrator has changed the account it acts for; `staleOrgs` and
`staleSessions` remember what raced requests did, `granted` the account that the
issuer of a session had seen. They are history, and let the properties say
exactly which guarantee a race takes away, and nothing more. `SessionIsOfAccount`
is the guarantee that `update_member` gives by deleting the sessions of the
member in the transaction that changes it: whoever has a session still has the
account that it was given for, but for a login overtaken by the change. That
`current_user` refuses the sessions of an inactive account at each request is
its guard, and is no property.

| action | code |
|---|---|
| `Register`, with `Issue` | `register`, `issue_session`, main.py:203-226, 161-179 |
| `LoginRead`, `LoginCommit`, `LoginRefuse` | `login`, main.py:229-247: the password is checked in a thread in between |
| `Logout`, `Expire` | main.py:250-262 and the comparison with `expires` |
| `AuthSession`, `AuthUser` | `current_user` and `admin`, main.py:123-138 |
| `AddMember` | `add_member`, main.py:668-685 |
| `UpdateRead`, `UpdateRefuse`, `UpdateCommit` | `update_member`, main.py:693-707; `Written` is the net change of the row |

Two outcomes of races are reachable, and the properties are stated around them.
Two administrators who demote or deactivate each other at the same time leave
an organization without one, although main.py:701 keeps each from doing it to
the own account. And a login that read the account before it was deactivated
issues a session afterwards; `current_user` refuses it while the account is
inactive, and accepts it again if the account is reactivated in time.

### RateWindow and the code

There is no `await` between main.py:86 and main.py:105, so a request is limited
in one go; `Arrive`, the turns of the loop (`PopLeft`) and `Refuse` or `Admit`
follow one another without anything in between. A key is a host with `auth` or
`api`. `log` and `reply` are history variables: they are the state of
`RateLimit`, which counts in the log of everything and forgets nothing.

### SplitText and the code

A character is a space, another blank or visible; a chunk is the set of its
positions. `Cut` is one turn of the loop of ingestion.py:126-137: `Limit` is
`min(start + size, len(text))`, `Spaces` the places `rfind` may return,
`Boundary` the choice between them, `Stripped` the result of `strip()`.

### Answering and the code

`question` is what is asked, `sources` what `Retrieve` found (retrieval.py:44-82:
the words without the stop words, the candidates of the full-text index, the
scores above 0, the cut at `top_k`). A token is a sequence of marks (a citation
by its number, the words that tell a refusal, other text), and `OllamaLine`,
`OpenAILine`, `StreamFails` and `StreamEnds` are the lines of a provider
(providers.py:64-86) with `[DONE]`, errors, and an end without either.
`Citations` is the check of main.py:568-570. `CloseEarly` is the generator
closed at a yield (main.py:546, 567, 587), which stores a cut and unchecked
answer as completed, `Cancelled` its end at an await. `told` is the status that
the event "done" carries, which only an answer that went through the check is
given: `ToldIsGrounded` is about it, and would be false of `status`.

### VectorSearch and the code

`Search`, `ReadSimilar`, `ReadWorded`, `Found` (with `Fused`, `Score`,
`Ranked`) and `Reply` are `semantic_search`, `keyword_search` and
`hybrid_search` with their routes; `FindSimilar` and `ReplySimilar` are the
route of similar chunks. The two reads of a hybrid search use two connections,
between which `Change` may happen; `seen` is history. Vector distance, text rank
and cross-encoder give any order. A score is a whole number of the fraction
1/`Unit`, where `Unit` is a multiple of every `rrf_k + rank`, so that sums of
reciprocals compare as they do without rounding; the code rounds to 53 bits,
which may put two chunks the other way round whose exact scores are closer than
that.

### The pages and the code

A step of a page is an event handler up to its first `await`, or what runs
between two. `ChatPage` has a record per question (`answers`: its state on the
server and the events on the wire) and sets of requests in flight (loads,
removals); `Submit`, `Created`, `Read`, `Settle`, `Stop`, `Leave` are
Workspace.tsx:986-1102, `Refused`, `ConnectionLost`, `StreamEnds` the ways out
of `streamMessage` (runtime.ts:94-140), `Serve...`, `Generate`, `Finish`,
`Break` what the API does. `LibraryPage` keeps what is shown (`documents`,
`figures`), the answers on their way (`lists`, `reports`) and the calls of
`upload`. The zone refuses a drop while files are uploaded, and the button that
opens the picker is disabled then (`Browse`); the file input itself is not
(Workspace.tsx:790), so that `Choose` confirms a picker that was open since
before and starts a second call: `overlap` remembers it, and `FormIsFreed` says
what holds then. `MembersPage` keeps the rows that each administrator sees against
the accounts. An answer replaces what is shown whichever request it belongs to.

### LegacyDocuments, DocumentText and the code

`row` is the committed row, `upload[d]` and `deletion[d]` are the handlers of a
document, `queue` has the messages and `job` is the delivery in hand. `Store`, `Publish`, `Commit` are `upload_document` (the
transaction commits when the response is sent, dependencies.py:38-54), `Mark`,
`RemoveObject`, `EndDeletion` the removal, `Begin` to `HandOver`, `Fail` and
`Settle` one delivery (worker.py:131-237). An `UPDATE` waits while a
removal holds the row (`Locked`). `WorkerLost` is the broker taking a message
back (external).

`DocumentText` follows one file through `Extraction`, `Reread`, `Recognition`,
`Cleaning` and `Chunking`. A page is what is written on it; extractors fall
back (PyMuPDF to pdfplumber, Azure to Tesseract). Each turn of a loop of
chunker.py is a step: `FixedTurn`, `ParentTurn`, `ChildTurn`, `SplitTurn`,
`GroupTurn`.

### AuditLog and the code

`Deliver`, `Put`, `Ack` are `_on_message` (worker.py) up to its `queue.put`, the
end of that, and the acknowledgement; `Round`, `Leave`, `Flush` the flusher;
`LoseConnection`, `Signal`, `Kill`, `Start` are the broker and the container.
`late` are handlers whose connection is gone. `Ask`, `Run`, `Write`,
`EndExport` are the exports of audit_service.py.

### Gateway, Accounts, Directory and the code

`Gateway`: `Arrive` is the reading of the clock, `Count` the pipeline in Redis
(`FailOpen` without Redis), `Authorize` the dependencies of a route, `Attempt`
a turn of the retry loop of proxy.py, `Open` and `Relay` a stream, `Probe` the
health routes. `Routes` has every route with what it asks of the caller and
which refusals of its service it passes on; the handlers of `Bodiless` do not
read the body of an answer. What a service has *done* is not in the model, as
the gateway cannot know it: registration answers 409 after Keycloak has the
account (auth_service.py:203-214, user_repository.py:71), and logout answers
success after Keycloak failed (keycloak_service.py:96-102). So `ToldIsHeard` is
about what was answered, and that a repeated POST may be carried out twice is a
hazard without a property.

`Accounts`: registration is `CreateIdentity`, `AssignRole` (Keycloak),
`CheckUnique`, `Insert`, `CommitRow` (the table); a login `LookUp`,
`AskKeycloak`, `Link` or `LoginLocal`; a refresh `RefreshKeycloak`, or
`ReadToken`, `Revoke`, `Replace`; and `Logout`. `parent`, `ended` and
`overlapped` are history. Two refreshes that both read a token (jwt_service.py:115)
before either deletes it each get a new one, and a refresh that has read a token
before a logout deletes it gets its new one after; `SpentStaysSpent` says that
these are the only ways: the token itself is not valid again, and who comes
later gets nothing for it.

`Directory`: a change is `Ask` (rights), `Look` (read), `Write` (flush, which
waits for a transaction that holds the key) and `Finish` (commit). All users are
of one organization: the table of the service has a unique email
(user_repository.py:55), while scripts/migrations/versions/001_initial_schema.py:87
has it unique within an organization only, so that with that schema two
organizations may have a user of one email. Within one the two say the same,
and the model says nothing of the rest.

### The shared libraries and the code

`Messaging`: `letter` is where each message is, `reader` what each consumer
does, and `channel` whether a consumer still has the channel that delivered the
message in its `hand`. Publishing, `start_consuming`, `_handle_message` and
`stop_consuming` of shared/messaging.py are its actions; a lost connection, a
closed pool and `x-delivery-count` (kept by quorum queues only) are the broker's
(external). `SharedCache`: one key; a value is the version of the row it was
made from, `LongestLoad` bounds the time between the read of the row and `SET`.
`SharedWindow`: `Dispatch` reads the clock, `CheckUser` and `CheckIp` run the
script, whose answer may be lost.

## 3. What the runs check

| run | properties | shows |
|---|---|---|
| `ingestion_safety` | `IInv`, `NoStrandedWork`, `AuditTellsLife`, `RemovalIsFinal`, `LibrarySpec` | Two uploads of the same bytes, two concurrent requests, the worker and one crash: rows, files, chunks and audit records stay consistent, no document is stranded, and the store implements DocumentLifecycle. |
| `ingestion_live` | `QueueDrains`, `RemovalErases` | Three documents, two of the same bytes, under upload, re-indexing and removal, with two crashes, while a poll returns one row: once no more documents come to the queue those in it are ingested, fail or are removed unless the worker task died, and the file of a removed document goes. |
| `ingestion_served` (*violation*) | `QueueIsServed` | A document deleted between the worker's read and its commit kills the worker task, and the queue is not served again. |
| `chat_safety` | `DoneMeansStored`, `ShortIsNotTold`, `OutcomeIsAudited`, `DeletedIsNotShown` | Two answers streamed at once in one conversation, with disconnects, provider failures, slow clients, removals, a concurrent view and a crash: what a client was told, the stored row and the audit log agree. |
| `chat_ends` | `OpenedEnds` | A stream that has sent its first event stores an end of its answer, whenever its client leaves. |
| `chat_whole` (*violation*) | `CompletedIsWhole` | A client that leaves while an event is on its way to it leaves a cut answer stored as completed. |
| `text_and_search` | `SearchInv`, `NoTextLost`, `ToldIsGrounded`, `Progress` | All texts of up to 8 characters cut into chunks of 5 that overlap by 1: nothing visible is lost and the loop ends; questions over five passages of two organizations, answered by every provider in up to three lines; searches of the vector service over five chunks with a change meanwhile. |
| `sessions_safety` | `SessionIsOfAccount`, `AdminLostOnlyByRace`, `InactiveHasNoSession` | Three accounts of two organizations, two requests at once: which sessions outlive a change of their account, who can take the last administrator away, and which sessions outlive a deactivation. |
| `window_safety` | `NeverOverLimit`, `LimiterSpec` | Requests of three keys at five instants, two of them further apart than the window, with a clean-up from the second key on: the deque with its evictions and clean-ups answers like a limiter that remembers everything. |
| `workspace_pages` | `PagesInv`, `ShowsSelected`, `CompletedIsSaved`, `ChoicesHold`, `EarlyEndIsTold`, `QuestionsEnd`, `ShowsLibrary` | One visit of a page of the browser: Chat with two conversations and two questions, Documents and Dashboard with overlapping uploads and late answers, Admin open for two administrators. |
| `legacy_services` | `ServicesInv`, `EndIsRecorded`, `TextIsChunked`, `AckedIsKept`, `WorkIsDone` | Upload, processing and deletion of one document with two lost workers, the text of four files of up to four pages extracted and chunked by every strategy, two audit events through queue, batches and an export with one lost connection, kill or stop, a message for two shared consumers or two for one with two lost channels or closed pools, and two lookups of a row that changes twice. |
| `legacy_access` | `AccessInv`, `AdmittedInWindow`, `ToldIsHeard`, `SpentStaysSpent`, `ChangedWhileThere`, `EveryRequestIsAnswered` | One request by any caller for any route of the gateway with three attempts, or three that share a window of two; three requests of the auth service with Keycloak or without; three of the user service; three visits of one address, two of them of a user, under the shared limiter. |

Runs marked *violation* are disagreements between the code and what the
repository says of it; PROJECT.json quotes the lines under `findings`.

### Bounds

* Ingestion: two documents are enough for one to be removed or re-indexed while
  the other is in the worker's hands, and for a batch to hold a document that
  changed since the poll; they have the same contents, so that the check for
  duplicates refuses the second and two uploads can race past it. Two requests
  are enough for every pair of handlers to interleave. One crash reaches every
  suspension point; the liveness run has two, so that a crash can hit the
  recovery itself, one request and three documents.
  `BatchLimit` stands for the `limit(5)` of the poll: it is one, below the number
  of documents, so that a poll leaves some of them waiting. The poll takes rows in no stated order, so a queue to
  which documents keep coming may keep one waiting for ever: `QueueDrains` is
  about a queue to which none come any more. `Logged` leaves out the
  audit actions that a run does not need.
* Chat: two streams in one conversation share the removal of that conversation
  and the listed documents; two tokens give a first, a last and a cut answer.
* Sessions: two accounts of one organization and one of another, two requests
  at once, two tokens: enough for two administrators to change each other, for
  a login to be overtaken, and for a session to be replaced by the next one.
* RateWindow: limits of two and of one in a window of two, five instants, so
  that instants fall inside, on the edge and outside of a window; the clean-up
  starts with the second of three keys.
* SplitText: all texts of up to eight characters of the three kinds against
  chunks of five that overlap by one: up to three chunks, with every placement
  of spaces and blanks. The defaults of the code are 1400 and 180.
* Answering (in `text_and_search`): a library of two organizations with an
  indexed, a queued and a foreign document, two sources at most, three lines of
  a provider: a citation, a wrong citation and an early end, in any order.
  VectorSearch: five chunks, of which one has no embedding, one is of another
  organization and one points away from the query, weights 0, 0.5 and 1, one
  change: two lists that overlap in part, also when a chunk comes or goes
  between the two reads.
* Workspace: two conversations and two questions, a stream of one token and
  three events; one document, two calls of upload, two actions of the user, one change by others and
  one failure; two administrators, one member, two clicks. The hazards are
  about the second answer that overtakes the first, which these suffice for.
* LegacyServices: one document (documents meet in no state) with two chunks and
  two lost workers, so that a redelivery is itself lost; files of none, two and
  four pages of which three are read, chunks of three that overlap by one,
  parents of five; two audit events with a queue of one, batches of two, and one
  loss, kill or stop; two messages and two consumers that share a client, one
  retry and two troubles, so that a message is lost again after it was put
  back; two lookups of a row that changes twice, in five seconds of an expiry of
  two.
* LegacyAccess: one request by any caller for any route with three attempts, or
  three requests in a window of two; three concurrent requests of the auth
  service with three tokens (two exchanges of one token, or one and a logout,
  overlap); two users and one organization with three changes. `MaxStall` bounds how long a
  request may take from reading its clock to Redis, as `LongestWay` does for the
  shared limiter, which gets three requests of two users and one address in
  windows of two seconds.
* Symmetry is used on requests and on streams in runs without liveness
  properties only.

### Fairness

`Ingestion` assumes weak fairness of the worker, of each request once it has
begun (`Resume`), and of `Restart`: the event loop is fair to ready coroutines
and `docker-compose.yml:18` has `restart: unless-stopped`. Nothing obliges a
client to send a request, and nothing obliges the process to crash. `Chat`
assumes weak fairness of each stream: providers have timeouts, and a client
that takes no more events is found gone by the server, or the 120 seconds end
its response. `SplitText`, `Sessions`,
`RateWindow`, `Answering` and `VectorSearch` state no liveness: that the loop of
`SplitText` ends is `Progress`, an action property.

`Workspace` assumes that the browser goes on with what has arrived, that the
API answers what it was sent (or the request fails), and that the interval of
the poll fires. `LegacyServices` assumes that workers run while they are up and
are started again, and strong fairness of a delivery's steps, because an
`UPDATE` that waits for a row is granted it when the transaction before ends;
that the flusher runs and its interval elapses; and that loops turn.
`LegacyAccess` assumes that each request of the gateway goes on: its calls have
timeouts, and retries are bounded. The timeout of httpx is one per read: a
service that sends its answer byte by byte for ever is assumed not to be there. No user is obliged to do anything.

## 4. What is proved

TLAPS proves these theorems for every value of the constants: any number of
documents, requests, streams, accounts, keys, tokens, events and crashes,
answers and texts of any length, any limits, sizes and any window.

| theorem | establishes |
|---|---|
| `IngestionProofs!Invariance` | The inductive invariant holds for any documents, requests and crashes. |
| `IngestionProofs!TypeCorrect` | Type correctness of the document store. |
| `IngestionProofs!RowsHaveFiles` | Every listed document has its original file, written to its end, whatever interleaves and wherever the process stops. |
| `IngestionProofs!NoneStranded` | A document in extracting or chunking is in the hands of the worker or of its recovery. |
| `IngestionProofs!SearchIsSound` | A searchable document has its chunks and no error; a removed one has no chunks. |
| `IngestionProofs!FilesAreOwned` | A file without a row belongs to a request being served, or was left by a crash, or by a write that raised for a document that never came to the library. |
| `IngestionProofs!AuditAgrees` | The audit table and the documents table agree on what exists. |
| `IngestionProofs!Final` | No step brings back the row of a removed document. |
| `IngestionProofs!Implements` | Ingestion implements DocumentLifecycle under the refinement mapping LifeOf. |
| `ChatProofs!Invariance` | The inductive invariant of rows, generators, clients and audit records holds for any streams, answers and crashes. |
| `ChatProofs!TypeCorrect` | Type correctness of the chat model. |
| `ChatProofs!ToldIsStored` | Status and tokens announced by the done event are the stored ones. |
| `ChatProofs!ShortAnswers` | No client, gone or only slow, is told that a short answer is completed, and a short answer that is stored as completed is one whose generator was closed. |
| `ChatProofs!AuditAgrees` | A stored end has exactly its one audit record. |
| `ChatProofs!SourcesExist` | A shown answer cites no document deleted before the request. |
| `ChatProofs!EndsAreFinal` | No step rewrites the end of an answer. |
| `TextAndSearchProofs!Invariance` | The inductive invariants of split_text, of the answering and of the vector service, for every text, size and overlap, every library, token and length of a stream, and all passages, filters, weights and limits. |
| `TextAndSearchProofs!SearchesAreSound` | An answer of the vector service has nothing twice and nothing that the search may not read, whatever changes while it is made; the reciprocal ranks put above what both lists put above, and keep the order of a list that has all the weight. |
| `TextAndSearchProofs!ToldAnswersAreGrounded` | An answer of which a client is told that it is completed was finished by its provider, says something and cites only sources that exist. |
| `TextAndSearchProofs!NothingLost` | Every visible character lands in a chunk. |
| `TextAndSearchProofs!AllFit` | Chunks are stripped and no longer than size. |
| `TextAndSearchProofs!GetsOn` | With an overlap below half of the size each turn of the loop gets on. |
| `SessionsProofs!Invariance` | The inductive invariant of accounts, sessions and what requests have read. |
| `SessionsProofs!SessionsEndWithChange` | A session ends with every change of its account, but that of a login which had read the account before. |
| `SessionsProofs!AdminsStay` | Only an administrator demoted meanwhile can take the last administrator away. |
| `SessionsProofs!DeactivationHolds` | Deactivation leaves no session but that of a login which had read the account before. |
| `SessionsProofs!OwnAdmins` | Accounts change by another administrator of their organization only. |
| `RateWindowProofs!Invariance` | The inductive invariant of buckets, keys and logs, for any limits, window and instants. |
| `RateWindowProofs!LimitHolds` | No window of any position holds more requests of a key than its limit. |
| `RateWindowProofs!MemoryIsLive` | With more than MaxKeys keys, none of those kept is dead. |
| `RateWindowProofs!Implements` | RateWindow implements RateLimit: forgotten instants and keys never count again. |
| `WorkspaceProofs!WorkspaceInvariance` | The inductive invariant of the pages Chat, Documents, Dashboard and Members with the requests that they have sent, for any conversations, questions, documents, calls of upload, members and pages. |
| `WorkspaceProofs!PagesAreSafe` | The form for uploads is never left busy without a call that uploads, and it is busy for the one call that does, unless an old picker let in a second. |
| `WorkspaceProofs!SelectionIsShown` | The turns that Chat shows are those of the conversation that is selected, unless its messages are still to come or did not arrive where they belong. |
| `WorkspaceProofs!CompletedAnswersAreSaved` | An answer that Chat shows as completed is saved with the same content, as long as its conversation exists, wherever its stream broke and whatever was selected meanwhile. |
| `WorkspaceProofs!EarlyEndsAreTold` | A question comes to its end with its done event handled, stopped by the user, or with an error shown. |
| `WorkspaceProofs!ChosenIsKept` | A member has the role and access that were chosen last, in whatever order requests and lists arrive, unless a click was made on a list that was out of date. |
| `LegacyServicesProofs!ServicesInvariance` | The inductive invariant of the document service and its worker, the text that the worker makes of a file, the audit service, the shared RabbitMQ client and the shared cache, for any numbers of documents, events, messages and consumers and any bounds. |
| `LegacyServicesProofs!ServicesAreSafe` | A document that can be downloaded has its file, chunks are saved once per delivery at most, a completed export is whole, messages of a shared queue are kept and handled again only after trouble, and cached answers are recent. |
| `LegacyServicesProofs!TextIsKept` | However a file is read, cleaned and divided, every visible character of its text is in a chunk that search can find, and the page of a chunk is never after its text; for any files, sizes and overlaps below the sizes. |
| `LegacyServicesProofs!EndsAreRecorded` | What the worker finished with or gave up is in the row of its document. |
| `LegacyServicesProofs!NothingIsLost` | An acknowledged event is stored, on its way, or on a way out the code has, whatever is lost or killed. |
| `LegacyAccessProofs!AccessInvariance` | The inductive invariant of the gateway, the auth and user services and both rate limiters, for any numbers of requests, tokens, users, organizations and any bounds. |
| `LegacyAccessProofs!AccessIsSafe` | The services are asked about other users and about organizations on behalf of administrators only, streams tell their end, rows that are linked have their account in Keycloak, no email or slug is in two rows, and no key of the shared limiter has more members in its set than its limit. |
| `LegacyAccessProofs!GatewayAdmits` | No more requests than the limit are counted and passed in any window less the longest delay of a clock, in whatever order they reach Redis. |
| `LegacyAccessProofs!GatewayTellsAnswers` | A success or a refusal told to a client is an answer that its service has given in one of the attempts, and a success of the service is told as one. |
| `LegacyAccessProofs!SpentTokensStaySpent` | An own refresh token that was exchanged, or ended by a logout, is not valid again; another is given for it only to requests that had read it before. |
| `LegacyAccessProofs!ChangesAreReal` | A change answered with success was made while its row was there. |

*Ingestion.* The properties are not inductive by themselves: that no document
is stranded depends on nobody but the worker ending the work on the document in
its hands, and that a row has its file depends on an upload owning its
identifier alone. `IInv` adds `RequestInv` (what each kind of request may
assume about the identifier it holds), `TornInv` (a file whose write raised has
never had a row, and is there still) and `WorkerInv` (what the worker
may assume of `cur` and `recovering`). TLC checks `IInv` in `ingestion_safety`; the
proof goes action by action. `Implements` shows initial states and steps map
under `LifeOf`, which reads the row and, without one, the audit table: the audit
table tells a document that was removed from one that never was.

*Chat.* `ChatInv` says, per stream, how row, generator, client and audit
records are related (`RowInv`, `HeardInv`, `ShortInv`) besides the properties
themselves. Since a step of one stream changes nothing of another
(`OthersStay`, `Untouched`), the proof is about one stream at a time. For views
it adds that a document gone when the view began stays gone.

*Sessions.* `SessionsInv` adds to the properties what a handler may rely on
wherever it is (`Sound`): its account exists, what it has seen of it is the row
unless it was raced (so that a session which is granted is of that account), and
a member it is about to change is another account of
its organization. `UpdateCommit` is the heart: an administrator who was not
raced is an administrator still, is not the one being changed, and so stays.

*RateWindow.* A bucket is the end of the log of its key, and what it lacks is
older than the window (`EndOf`); the log is in order. From this `AppendEnd` gets
the spacing of the log, `DropEnd` that a clean-up loses nothing that counts, and
`CountEnd` that the length of the evicted bucket is the number that `RateLimit`
counts: with it `Implements` maps every step.

*SplitText.* The invariant is that everything visible before `end` is in a
chunk and `start` is not beyond it. `GetsOn` is what makes the loop end: a space
is only looked for in the second half of a chunk, so an overlap *below* half of
the size never takes back what the chunk gained. The guard of ingestion.py:124
admits larger overlaps, up to the size; with one of at least half the size a
space in the middle of a chunk can lead back to the same start, and the loop
would not end. The one caller uses the defaults, 1400 and 180.

*Answering.* `GroundedInv` says what a stream may rely on before it ends: the
sources are hits of the question, a stream that `generate` takes for complete
has sent its last line, content that came is in the answer, and nobody has been
told anything of an answer that is being generated. That fewer hits
than asked for are *all* passages with a score is the pigeonhole principle
(`HitsAre`): a list without repetition as long as a finite set has it all.

*VectorSearch.* `VectorInv` says that no list has a chunk twice and each holds
only what the search may read, which is what was in the database since it began
(`held` is a part of `seen` while a search is at work). The fusion is a matter of
orders: `Before` is a total order (`BeforeOrders`), the number of chunks before
a chunk grows along it (`AheadGrows`), so that each place of the ranking is
taken exactly once (`RankedIs`, again by counting, without induction). What both
lists put above is before (`AboveIsBefore`), and a list with all the weight leads
the ranking (`ListLeads`), because reciprocals of ranks fall (`ReciprocalFalls`).

*Workspace.* `ChatInv` relates what the page shows to what the API has sent and
saved: a turn that the page has asked for shows as many parts as it has read of
its stream (`MineInv`), a loaded turn that is completed shows the answer
(`LoadedInv`), the last event of a stream tells the status that was saved if it
could be (`AnswerInv`), and a request for the messages of a conversation is
thrown away by its version when another was chosen meanwhile (`LoadsInv`). `UploadsInv` is that the calls of
`upload` of an open page keep its form busy, and that they are one unless a
picker was confirmed under a call that ran; `ChangesInv` that an update carries nothing but its own column.

*LegacyDocuments.* `DocInv` relates, per document, the row, the object, the
message and the delivery in hand (`DocOf`): before its chunks are saved a
delivery finds at most as many as the lost workers before it have left, and once
a message is settled the row tells how it ended, or it was deleted, or the
update could not reach it.

*AuditLog.* That an acknowledged event is kept is inductive once it is said of
an event that was put and not yet acknowledged too, and once the flusher is
known to have nothing in its hands when it closes the connection (`HandsInv`).
An export has what it was asked for because the log only grows and a part leaves
the stream into the file (`ExportInv`). How often an event is stored needs a
count (`CopiesInv`): what is stored, queued, taken, still being handled by a lost
connection or to be delivered again is one copy, and one more for each loss.

*Messaging.* A message is in one pair of hands (`LetterInv`), and a count again
(`CountInv`): how often it was processed, with the consumers that still process
it on a channel that is gone and the delivery that may yet come, is 1 at most
plus the number of troubles. A reading of the source alone shows the two ends,
the acknowledgement after the work and the rejection after the retries; the
invariant shows that nothing else takes a message out of its queue.

*SharedCache.* An entry ends `ExpireSeconds` after a load that began at most
`LongestLoad` before (`EntryInv`); a lookup remembers what it read (`LookupInv`).

*Gateway, SharedWindow.* Both limiters count in a set that they clear by the
clock of the request at hand, which others may have overtaken. `SetInv` and
`LetInv` say which members are sure to be there still: those younger than the
window *less* the time that a clock may be old. That is why the properties are
about the shorter window, and why no more is true. For the retries of the
gateway `CallInv` says that a request which is not answered yet has heard of
nothing but lost connections and 503, and `AnswerInv` what the client is told:
so a success can only be that of the last attempt.

*Accounts.* `Spent` is the strengthening: a request that is about to replace a
token has deleted it, and a token that a logout ended while nobody was
exchanging it is in nobody's hands. `IssuesOne` is the heart: a new token takes the place of none, or of one that its
own request has deleted. Keycloak may keep an exchanged token valid, so the
theorem is about the own tokens, as the property is. `LinkInv` says what a
request knows of the account where it stands: in Keycloak before its row is
made, and linked before a login relies on it.

*Directory.* `DInv` says what a request may rely on where it is (`Holds`): one
that has written holds the key until it commits, so the row that it read before
it wrote has not gone. `OneRowPerKey` follows from the unique index alone.

*DocumentText.* `TextInv` says where every visible character is while the
loops turn: in a piece, after `offset`, or in a span that is still to be divided
and, of the first span, after `offset` (`FixedInv`, `FamilyInv`,
`RecursiveInv`). One step each then shows that no overlap, no blank piece that
is left out and no change from one span to the next drops a character. For the
page of a chunk, `MergedFits` compares what `_merge_pages` has put together after
each page with what `_find_page_for_offset` has counted by then: it counts the
empty pages too, so it is never behind, and names no page after the text.
That the loops end rests on the overlaps being below the sizes and on fairness,
and stays with TLC: it is the part `ChunkingEnds` of `WorkIsDone`.

This is about what recursive functions make of any file. The library's rules of
induction have an operator for a parameter, which the provers cannot fill in, so
the proof has its own: numbers are well founded (`LeastNatural`), hence a *set* of
numbers that has 0 and every successor has them all (`SetInduction`); a function
that is given step by step exists (`RecursionExists`), and stays in the set that
its steps stay in (`RecursionType`). `InOrderSteps`, `SumsSteps` and `MergedSteps`
are the three recursive functions of the module in that form, `FlattenType` that
of the community module's `FlattenSeq`, and `KeptMeans`, `SumsGrow`, `CleanType`,
`ExtractedType`, `SentencesType` and `GroupsType` say what the operators built
from them return.

The assumptions are those named in the modules: on the kinds and finiteness of
constants, nothing on their size but that overlaps are below the sizes
(`Overlap` at most half of `Size`, `StepsAssumption` for the chunkers of the
worker, whose config.py:66-69 admits settings outside it, with which the loops do
not end), that sizes of queues, batches, windows, parts
and groups are not 0, and that `Unit` is a multiple of every `rrf_k + rank`.

Only model-checked: the liveness properties `QueueDrains`, `RemovalErases`,
`OpenedEnds`, `QuestionsEnd`, `ShowsLibrary`, `WorkIsDone` and
`EveryRequestIsAnswered`, which rest on fairness and are out of the prover's
reach. Every invariant and action property that a passing run checks is a theorem.

## 5. What is not modelled

See the components in PROJECT.json. Left out of the parts that are modelled:

* what parsers of PDF, Office and HTML files, OCR and LangChain's splitter
  extract: an outcome, characters of a few kinds, or an exception;
* BM25 scores, vector distances and cross-encoders: arithmetic on
  floating-point numbers, any order here;
* HTTP headers, attributes of cookies, validation of bodies (422), logging, and
  the layout of pages and of JSON;
* lists, statistics and exports that only read, but where they show what a
  property is about;
* of chat: creating, listing and renaming conversations, ratings;
* of the auth service: single sign-on, access tokens, wrong passwords, and
  functions that no route calls (deactivation, revoking all, removal);
* of the gateway: filters of lists; all requests come from one host, as the
  sorted sets of two hosts have nothing in common;
* of the front end: sign-in, previews, and the store and hooks that no page
  imports.

Whole components that are not modelled, because the code does not run as it is:

* the embedding worker: nothing binds its queue to the events that the
  processing worker publishes, and `message.process(requeue_on_fail=...)` does
  not exist in aio-pika;
* the chat service: `RAGPipeline` calls `LLMService.stream`, which does not
  exist; the notification service imports a worker and a configuration that the
  repository does not have;
* `shared/storage.py` and `shared/security.py`: no service imports them, and they
  hand each call on. `shared/messaging.py`, `shared/cache.py` and
  `shared/middleware/rate_limit.py` are not imported either, but have protocols
  of their own, which are modelled.

The audit service's `main.py` starts its worker with arguments that the class
does not take; `AuditLog` is about the class. The vector service's queries need
columns (`fts_vector`, `tags`) that the migrations do not make; `VectorSearch`
takes the table that the queries need.

### What the models show besides the properties

Behaviours that are reachable, seen while the models were written. No document
of the repository says otherwise unless it is quoted.

* Two uploads of equal contents at the same time are both accepted
  (main.py:327 looks before either has committed).
* A crash between the commit of a removal and the `unlink` leaves the file, and
  so does an upload whose `write_bytes` raises.
* A response that never starts, or a crash, leaves its message in `generating`
  for good: start-up recovers documents (ingestion.py:186-195), nothing recovers
  messages.
* An answer that the provider cuts at its token limit is stored as completed,
  and so is one whose client left, or was too slow, between two tokens.
* A picker that was opened before a drop and confirmed after it starts a second
  upload beside the first.
* An audit event that is delivered again is parsed into a new id, and stored
  twice; audit_repository.py:84 calls the insertion idempotent, which holds for
  one id. Export jobs live in memory and end with the process.
* proxy.py:7, 41 and 98 say that connection errors are retried. `_attempt` turns
  `httpx.ConnectError` into `ServiceUnavailableException` (proxy.py:122-126),
  which `_is_retryable` does not accept: a service that cannot be reached is
  asked once. `Retried` follows the code.
* A POST that is repeated after its answer was lost may be carried out twice:
  nothing in it lets a service tell.
* `create_user` of the user service does not check the limit of users that its
  docstring mentions.
* The worker's chunker gives the first character of a page to the page before
  and counts blank pages; with settings that its configuration admits
  (`chunk_overlap` 512 and `chunk_size` 64, or `child_chunk_size` 32) its loops
  do not end; the semantic strategy drops groups below 100 characters; the
  cleaner removes lines that are a number.
* The vector service answers 500 when a chunk with a negative cosine is found
  (its schema wants scores of 0 at least), raises for a chunk without embedding,
  adds results found by words only when the weight is all on similarity, and
  does not ask whether a document was deleted.
* `doc.processed` and `doc.deleted` have no consumer.
* A registration whose later steps fail leaves an account in Keycloak; the
  first login makes its row.
* Two refreshes at the same time turn one refresh token into two; a logout does
  not stop a refresh that is under way.

## 6. State of the plan

The supported runtime, its front end and the microservices that run are
modelled. What could still be added, in this order:

1. an abstract specification of a document of the document service, and the
   refinement, as `DocumentLifecycle` is for `Ingestion`;
2. the whole of a question, with `ChatPage` over `Chat` in place of its own
   abstraction of the API;
3. ratings, renaming and listing of conversations, for the hazards that have no
   property yet.

