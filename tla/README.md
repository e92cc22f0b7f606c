# VyasoAI: a TLA+ model of the local-first memory pipeline

VyasoAI captures what a user selects or saves (browser extension, VS Code
connector), posts it as an *envelope* to a daemon on the same machine, stores
envelopes and blobs there, and has a Python subprocess chunk and index them.
This directory models that pipeline in TLA+, checks it with TLC on small
instances and proves its main invariants for all instances with TLAPS.

    content.ts / editor          browser extension, VS Code connector
            |  selection, save       (post; buffer and retry if not accepted)
            v
    POST /v1/events  ---- 202 -->  mpsc channel -> buffer -> batch   (daemon)
                                          |
                               blobs/ + SQLite (events, blob_index, chunks)
                                          |  one subprocess per envelope
                                          v
                               vyaso_intel process -> chunks, vector index
    POST /v1/purge   ------------> one transaction, blob files removed
    desktop app: pages <-> Tauri shell ---> search, chat, purge, pause
    (another base URL, whose service is not in the repository)

## 1. Inventory

**Daemon: ingest queue and worker** (`daemon/src/handlers.rs`, `queue.rs`).
State: a bounded channel, the worker's buffer and batch. Operations: POST
sends and answers 202; the worker receives, flushes a full buffer or, by a
timer, a partial one; per envelope it saves the blob, upserts `blob_index`,
inserts the row, looks the path up, runs the intelligence job up to three
times and stores its chunks. Hard: the mutex of the one SQLite connection is
taken for some of these steps only; each step may fail; clients retry. Correct
when accepted envelopes are stored in order and once, memory stays bounded, and
one bad envelope harms no other.

**Daemon: SQLite storage and purge** (`storage/db.rs`). State: three tables
with foreign keys. Hard: insert_event is two statements without a transaction;
a purge removes files before it commits; its two branches (with and without
`event_ids`) decide differently. Correct when rows are indexed, counts cover
rows, files go only with their last event, and a purge deletes and reports what
it was asked to.

**Daemon: blob files** (`storage/blobs.rs`). State: files by date and hash,
shared by events with equal content. Hard: outside the mutex, truncate then
write, the date read twice.

**Daemon: start and shutdown** (`main.rs`). State: who holds a `Sender`. Hard:
the worker ends only when all are dropped.

**Daemon: read endpoints, encryption, hashing.** No state of their own.

**Browser extension** (`background.ts`, `db.ts`). State: an IndexedDB object
store of envelopes not accepted yet, the cached health. Operations: capture,
retry loop, force-drain. Hard: coroutines interleave at every await, loops
overlap, answers get lost, and the browser stops the worker whenever it is idle,
its retry interval included, until a message from a page wakes it. Correct when a
captured envelope is delivered or kept, removed only when delivered, and the
buffer drains.

**VS Code connector** (`extension.ts`, `buffer.ts`, `diff.ts`). The same logic
on a JSON file that every operation rewrites. Hard: the file is shared by all
windows and a rewrite may break off.

**Intelligence: jobs and vector index** (`vyaso_intel.py`, `vector_index.py`,
`encryption.py`, `idmap.py`, `keyring/`). State: three files (index, key,
metadata) and a key in the environment or the keyring. Hard: each job replaces
the index and numbers its chunks from 1; save and load rewrite files in place;
rotation changes the key between a load and a save. Correct when the files on
disk belong together and can be opened with the key they name.

**Intelligence: chunkers** (`chunking/*.py`). Pure span arithmetic. Correct when
spans lie in the text, are ordered, and cover what they should.

**Intelligence: embeddings, RAG context, evaluation.** Floating point and string
assembly; the context's token budget is the one property of interest.

**Desktop app** (`app/src/`, `src-tauri/src/main.rs`). One page of four is mounted
at a time under a shell with the navigation, the capture pill and a banner; a
page's state lives while it is mounted.

- *Search*: criteria, a 150 ms timer that every change starts anew, requests
  under way, the results, the highlighted index. Hard: the timer's closure keeps
  the criteria of an earlier render, answers come out of order or not at all,
  results change under the index. Correct when requests ask what is shown, old
  results are replaced, and Enter opens what is drawn as highlighted.
- *Copilot*: messages, the field, whether an answer is awaited. Hard: the answer
  arrives after other steps, or the request fails. Correct when questions and
  answers alternate and the field opens again.
- *Settings*: preferences, exclusions, the purge form. Correct when a purge names
  what its selects say.
- *Timeline*: the memories loaded once, which of them are expanded.
- *Capture toggle*: a flag of the window and another of the tray; each flips at
  once and posts `pause` or `resume` without awaiting the answer. Hard: requests
  overtake each other or are lost, and each surface is blind to the other.
  Correct when the service follows the last toggle.
- Keys are heard on the whole window: Ctrl+Shift+C toggles, "." opens the
  copilot, arrows and Enter move in the results.

The memory viewer is reached by no route.

**Mock daemon** (`mock/`). A test double.

Every component, with its status and reasons, is in `PROJECT.json`; so is the
list of hazards, each at the line where it bites, with the properties that
would catch it.

## 2. Modules

| Module | Role |
|---|---|
| `Tables` | pure operators: what a purge request selects, deletes, recounts, reports |
| `Daemon` | worker, storage, blob files and purge handlers interleaving; EXTENDS Tables |
| `Timeline` | abstract: a bounded FIFO inbox and the set of stored events |
| `MCDaemon` | instances of Daemon for TLC |
| `DaemonProofs` | type correctness, mutex, storage and memory invariants, action properties |
| `TimelineProofs` | Daemon implements Timeline |
| `Pipeline` | the browser extension posting to the daemon's timeline; EXTENDS BrowserBuffer, instantiates Timeline |
| `PipelineProofs` | the extension's type correctness, at-least-once and removal theorems; Pipeline implements extension and timeline, and nothing captured vanishes |
| `Shutdown` | lifetime of Senders from signal to exit |
| `BrowserBuffer` | the browser extension's capture handlers and retry loops on a transactional store |
| `VSCodeBuffer`, `MCVSCodeBuffer` | the same on a rewritten file shared by windows; refines BrowserBuffer in one window |
| `VSCodeProofs` | its type correctness; the refinement, and what one window keeps |
| `VectorIndex` | the three index files and the key under jobs, rotations, loads and kills |
| `IndexProofs` | its type correctness and that what was saved can be loaded |
| `Chunks` | how one text is cut: sentences with overlap, sliding windows |
| `Blocks` | the blocks of HTML and Markdown and how they are looked up in the content |
| `ChunkText` | composes the two: the branches of chunk_text |
| `ChunksProofs` | type correctness of Chunks, and what the chunks cover, share and bound |
| `BlocksProofs` | the blocks keep the order of the content, and none is lost |
| `Tauri` | what the pages share: requests that settle in any order, what a search finds |
| `Search`, `Chat`, `Settings`, `Capture` | one page each, and the capture toggle |
| `Desktop`, `MCDesktop` | composes them: one mounted page, navigation, keys, reload; its instance |
| `DesktopProofs` | the window's type correctness, the conversation, the toggle, what the search page asks and opens, what a purge names |

### How state and actions correspond to the code

*Daemon.* `queue` is the mpsc channel, `buf` and `batch` the worker's two
vectors. `pc` names the step of `process_event` that comes next; each step that
another actor can see is an action: `SaveCreate`/`SaveWrite` (create-truncate and
write of the blob), `UpsertIndex`/`InsertRow` (the two statements of
`insert_event`, under the mutex `lock = "worker"`), `ResolveBlob` (the path
lookup and the intelligence precondition), `JobSucceeds`/`JobFails` (one attempt
of the subprocess), `InsertChunks` (the rows of all its chunks, inserted one by
one under one hold of the mutex: an event has some chunks or none, which is all
the model tells apart). A purge is `PurgeBegin`, one `PurgeHash` per impacted
hash, `PurgeCommit`, all under `lock = "purge"`; `PurgeNothing` and
`PurgeRefused` are its early ends. `ProcessFails`, `PurgeFails` and `Crash` are
the error paths, each counted in `faults`: a failed statement ends the envelope
or rolls the purge back but does not bring removed files back; a crash clears
everything that is in memory only. `NextDay` moves the date, which dates blob
paths. `unlinked` is no state of the program: it names the hashes whose files the
purge in progress has removed. Hashes, ids and days are model values or small
numbers; a blob file is absent, torn or whole. Sets stand for tables, since their
keys are primary keys.

*Shutdown.* `mainTx` and `arcs` are the holders of Senders; `Closed` needs all of
them gone.

*BrowserBuffer.* `capture[e]` is where `handleSelection` is for selection e,
`pc[l]`, `todo[l]`, `cur[l]` are the locals of one `retryBuffer` call. An action
reaches to the next await. `due` and `stale` abstract the clock: an item's
backoff, or the health cooldown, ends at some later moment. A loop may start at
any time while the worker is `awake`, which covers the interval timer and
force-drain alike. The worker's life is the platform's: `Select` and any other
message (`Wake`) start it; `StopIdle` ends one without coroutines, as often as
the browser likes, and costs no fault; `StopWorker` ends one at an await, or
reloads the extension, and is counted. Either way `Forget` is what is left: the
object store. No step but a message sets `awake` again (a reload may), as the
extension has no alarm. `NotAnswered` is any outcome but a 202 that arrives; with
`AnswersLost` the daemon may have accepted.

*VSCodeBuffer.* `items` is what `buffer.json` holds (before a rewrite, until it
ends), `torn` that it does not parse; `ReadFile`, `TruncateFile`, `WriteFile` are
the steps of `putEvent` and `deleteEvent` that another window can see. A window's
thread does nothing else meanwhile (`Free`).

*VectorIndex.* `index`, `keyFile` and `meta` are the three files: which key the
index is encrypted with and what it holds, what `index.enc_key` names (a key, or
`Source` for "env:" and "keyring"), and the metadata's key_version. `pc` is the
next file step of the running program: `WritePlain`, `Encrypt`, `WriteKeyFile`,
`WriteMeta` are `save`; `Decrypt` and `Parse` are `load`, which rewrites the file
it reads; `SetKey`, `SetKeyFails`, `Wrap`, `WrapKey`, `BumpVersion` are the
branches of `key rotate`. `env` says whether the program's environment has
VYASOAI_INDEX_KEY. `Killed` ends it before the next step, or in the middle of its
write. A job stands for the vectors it saves, since each job writes an index of
its own.

*Chunks.* The text is read as it is chosen, so that every text within the bounds
occurs: `AddSentence` and `EndParagraph` are one turn of the loops of
`chunk_prose`, `EmitFull` its cut when `acc_tokens` has reached the target,
`NextUnit` the next definition of a code chunker, `NextWindow` one turn of the
loop that cuts a long one. A prose chunk is the pair of its first and last
sentence; `acc` is the sentences `lo .. n`, and `upto[k]` the tokens of the first
k. `breaks` holds the last sentence of each paragraph. A code chunk is a
half-open span of offsets. The Go and Rust chunkers cut as the JavaScript one
does and share its `content_type`; Python's spans come in any order, may nest,
and end where their last line starts, so a one-line definition is empty: that is
why `WindowsCover` does not speak of Python.

*Blocks.* A content is a sequence of symbols (words, tags, other markup, blank
lines, fences), chosen while the parser reads it: one action per callback of
`BlockHTMLParser`, and one per construct that the regular expressions of
`parse_markdown_to_blocks` tell apart. `OpenFence` is a fence that a later one
closes (the content may not end before it), `LoneFence` one that none closes.
Then `FindBlock` and `SkipBlock` are the turns of the loop over the blocks, with
`content.find` as the first occurrence at or after the cursor. Offsets count
symbols, so a block that occurs inside a longer word or a tag's name is
represented by an equal word elsewhere. `ChunkText` gives a content to one of
the two modules: what `chunk_prose` does with a block is what `Chunks` shows of
a text.

*Pipeline*. `Exchange(A)` is a step A of the extension together with what the
daemon receives in it: nothing, or the envelope that was accepted (`Receive`, the
send to the channel in `post_event`, which waits while the channel is full). The
rest of the daemon is the abstract `Timeline`, whose actions `Store`, `Purge` and
`DaemonFails` wrap; the `daemon` run and `TimelineProofs` show that the detailed
daemon implements it. `gone` is no state of the program: it names the events that
a fault destroyed or a purge removed since they were last accepted.

*Desktop*. `search`, `chat`, `settings`, `timeline` are records of the React state
of the page of that name, its initial value when the page is not mounted; `route`
and `hash` are the location; `alive` becomes FALSE when a render throws and React
removes the tree. A request is the criteria or question it was made with, and
`pending` holds those under way; a step of `SearchSettles` or `ChatSettles` lets
any of them settle: with an answer, with a rejection, or with an error that the
shell passes on as if it were an answer (`SearchBroken`, `ChatBroken`). Leaving a
page drops its state and with it the effect of its requests. A result list is
known by the criteria it answers (`Buckets`, translated from `mockSearch`), so
that it can be compared with the criteria on screen. `search.alone` and
`witness` are no state of the program: they remember that the last request had no
other beside it and that none failed, and which surface was toggled last with
nothing lost, overtaken or reloaded since. In `Capture`, `posts` are the requests
in the air; `Receive(i)` for i > 1 is one that overtook others; `recording` is
the service's, external to the repository.

## 3. Runs

| Run | Shows |
|---|---|
| `daemon` | three envelopes (two share content), three accepted posts, two purges of the key shapes, a change of day, up to two crashes or I/O failures anywhere: TypeOK, RowsAreIndexed, RefsCoverRows, ChunksOfStored, BoundedInFlight, UnlinkSafe, FilterPurgeIsExact, and that the daemon implements Timeline |
| `daemon_liveness` | under fairness each accepted envelope is stored |
| `pipeline` | two selections, two overlapping loops, two faults of the extension, one of the daemon, any purges, any number of idle stops: of the extension TypeOK, DeliveredOrKept, RemovedWhenDelivered, DrainsWhileUsed; of both NothingVanishes, StoredInTheEnd |
| `vscode` | one window, two events, two loops, two failed requests, one closed window or failed write: TypeOK, KeptUnlessTorn, TransactionalSpec, BufferDrains |
| `vector_index` | two jobs, rotations (with a keyring that works or refuses, forced or not) and loads, four generated keys, two kills: TypeOK, SavedIsLoadable |
| `chunks` | every text within the bounds: TypeOK, SentencesCovered, OneParagraph, SmallEnough, ContextShared, WindowsCover, WindowsAdvance; every HTML and Markdown content within the bounds: BlocksTypeOK, SpansInOrder, MarkdownComplete, HtmlComplete |
| `desktop` | every order of edits, timers, keys, questions, purges, toggles, reloads, page changes and settling requests within the bounds: TypeOK, Conversation, LastToggleHolds, AsksWhatIsShown, OpensHighlighted, StaleIsReplaced, QuestionSettles, PurgesWhatSearchLists |

`MarkdownComplete` and `SpansInOrder` together say that the second search of the
Markdown branch (from the start of the content) never finds anything the first
one missed. `HtmlComplete` needs its hypothesis: a block with markup inside it,
or around another block, is joined from pieces, occurs nowhere in the content,
and has no chunks (`SkipBlock`).

Disagreements between the code and what the repository says of it, each a run
that TLC refutes:

| Run | Claim | What happens |
|---|---|---|
| `blob_race` | the path in the database is "authoritative" | a purge between saving the file and inserting the row removes the file |
| `purge_refused` | "Purge completed" | chunks reference the event and no purge deletes them: the foreign key refuses |
| `shutdown` | "server stopped; worker drained" | the worker holds the Sender whose drop it waits for |
| `vscode_lost` | "nothing is lost" | a lost update between two windows |
| `browser_idle` | "buffers when daemon down then drains when up" | the interval stops with the idle worker and nothing but a page's message starts it again |

More disagreements are in the models, without a run of their own:

- `insert_event` is said to ensure that "blob_index ref_count is maintained"
  (`storage/db.rs:94`), and an envelope that a client retries fails on the
  primary key after its reference was counted, so the count stays one too high.
  RefsCoverRows says what does hold: the count is never too low, and the purge's
  branch with ids counts rows instead.
- "Purge matching events" (`storage/db.rs:295`): with `event_ids`, the other
  criteria select which hashes are recounted but not which rows are deleted.
  FilterPurgeIsExact leaves purges with ids out for that reason.
- "Failure Simulation & Recovery (no duplicates)"
  (`tests/playwright/specs/failure.spec.ts:5`): two overlapping loops read the
  same due item and post it twice (`ReadDue`, `PostItem`), with every answer
  arriving. The daemon's primary key absorbs the copy, unless the event was
  purged in between: then the copy stores it again.
- "No new memories are being recorded" (`AppShell.tsx:197`) while the flag is
  set, whatever became of the request; the daemon in the repository has no such
  routes and answers with an error nobody looks at (`Lose`).
- "." opens the copilot also while it is typed into a field (`App.tsx:21`), so
  the exclusion `*.log`, the placeholder of `Settings.tsx:93`, cannot be typed
  (`PressDot`).
- "Save Changes" saves nothing, and "Apply Purge" with both selects at "all"
  sends the same filters as the button above it, which asks for the text PURGE
  (`ApplyPurge`, `PurgeAll`). The shell sends them under "filters", a key that
  the daemon's `PurgeRequest` does not have, so this daemon would purge nothing.
- An answer of an earlier request that comes last stays under the newer criteria
  (`SearchAnswered`); StaleIsReplaced says when it does not.
- `src-tauri/src/main.rs` serialises filters that derive only `Deserialize`, so
  the shell does not compile as committed; the model takes it as it is meant.

### Bounds

Every bound is a constant named `Max...` or a small set, and stands in a guard.
The daemon needs two envelopes with one hash (sharing a blob) and one with
another, two purges (one while the other's effects are visible), a batch of two
(so that a failure has an envelope after it), a third post (so that one of two
envelopes is retried while the third kind is still to come), and one change of
day. Two faults let a crash meet the debris of an earlier failure. Liveness is
checked on two events. The connectors need two loops to overlap and two items so
that one stays while the other is settled; two plus one faults in VS Code allow a
lost answer, a refused post and a closed window in one behaviour. In the pipeline
two faults of the extension (a lost answer, then a stopped worker or an aborted
transaction) meet one of the daemon, and two envelopes are enough for a crash
to destroy more than the oldest. Two windows are enough for a lost update. The
index needs two jobs (to tell whose vectors are there), a key per rotation and
one for each job that finds none, and two kills, so that a program meets the
debris of one that met debris. Six sentences of up to three tokens, with a target
of four and an overlap of two, fill three chunks and meet sentences shorter than,
equal to and longer than the overlap; two definitions in six offsets, with
windows of three that overlap by two, meet a definition of several windows beside
one that needs none. Six symbols make two elements with equal text, or a
paragraph and a code block with a blank line inside. In the desktop app two
changes of the criteria already make two requests overlap; three memories in two
buckets, found by one query together and by the other in part, let results shrink
under the highlighted index; two questions follow each other; two toggles in the
air overtake each other. The theorems have no such bounds: they hold for every
value of the constants.

### Fairness

*Daemon*: weak fairness of the worker (one tokio task whose timer always fires)
and of a purge that has begun (it runs to its commit without awaiting). Nothing
is assumed of clients. The mutex itself is not assumed fair: purges are finite in
number, so the worker gets it in the end. *Browser*: weak fairness of each
coroutine and of time, strong fairness of the interval that starts loops: an idle
worker is kept for about thirty seconds after its last event and the interval is
one second, so a worker that is awake again and again starts loops again and
again. No fairness is assumed of messages: `DrainsWhileUsed` and `StoredInTheEnd`
say what follows if they keep coming ([]<>awake), `browser_idle` what may happen
if they do not. Failed requests and workers stopped at an await are finite
(`MaxFaults`), which is the hypothesis of "once failures stop"; idle stops are
not. The code sets no timeouts; that a post ends at all is the browser's doing,
which fails a fetch or stops a worker that waits too long for one. *VS Code*:
operations and time are weakly fair; the tasks of one window share its thread,
which is busy again and again, so they are strongly fair: the event loop takes
tasks in order and passes none over for ever. *Pipeline*: the browser's, each
step joined with the daemon's part of it, and weak fairness of the worker; users
purge, and the daemon fails, as they like, the latter finitely often
(`MaxDaemonFaults`). *Desktop*: the browser's timers fire, and nothing else is
assumed: the shell's HTTP client has no timeout (`src-tauri/src/main.rs:63`), so
a request may hang. `StaleIsReplaced` and `QuestionSettles` therefore have their
hypotheses in their statements: no request of the mounted page hangs
(`RequestsSettle`), and no reply breaks the window ([]alive), for then the
question and its field are gone and not settled. *Shutdown*: its run is refuted
under weak fairness of every step of the program.

## 4. Proofs

All theorems hold for every value of the constants that satisfies the named
assumptions (`TablesAssumption`, `DaemonAssumption`, `BrowserAssumption`,
`VSCodeAssumption`, `IndexAssumption`, `ChunksAssumption`, `BlocksAssumption` and
those of the desktop's pages): finite sets of events, positive capacities,
distinct model values, an overlap smaller than its window, a bound on symbols
that is a number. The prover cannot use induction theorems that take an operator;
where a proof needs induction over numbers it takes the least counterexample
(`LeastNumber`, from the well-foundedness of < on naturals).

*Daemon.* `TypeCorrect` and `MutexCorrect` come first: their conjunction is
inductive. `RowsAreIndexed`, `RefsCoverRows` and `ChunksOfStored` are inductive
only together, as `StoreInv`: a row about to be inserted must be counted and
indexed already (`Pending`, the second part of `RowsAreIndexed`), a purge's test
of the former `ref_count` keeps no dead row and drops no live one only because
counts are positive and cover rows, and chunks stay those of stored events only
because the events a purge in progress deletes have none (`PurgeClean`): it was
not refused when it began and has held the mutex since. `StoreInvStep` has one
case per action; `UpsertCovers`, `InsertCovers` and `PurgeCovers` are its three
substantial ones and rest on cardinality lemmas about `Count`. `BoundInv`
separates the three parts of memory (the channel is bounded; buffer and batch are
never both non-empty), from which `InFlightIsBounded` follows. `UnlinkIsSafe`
needs `UnlinkInv`: while a purge holds the mutex, every hash whose file it has
removed is still one that its commit will unindex (`Unlinks`), since nobody else
writes the tables meanwhile. `UnlinkStep` says that only `PurgeHash` removes an
indexed file, `CommitEnds` that without a fault the purge ends by its commit.
`FilterPurgesAreExact` is an action property proved from the same invariants as
the tables'.

*Timeline.* The refinement maps channel, buffer and the undecided part of the
batch to one inbox. Associativity of concatenation and head/tail lemmas show
that each action appends, removes the head, empties, or leaves the inbox alone
(`StepIsTimeline`).

*BrowserBuffer* (in `PipelineProofs`). `ForgetTyped` covers the worker's stops. A
loop that has been answered 202 is about to delete an item, so `DeliveredOrKept`
needs `AcceptedIsDelivered` (a loop in "accepted" holds a delivered item), which
is inductive with `TypeOK` since `delivered` only grows.

*Pipeline.* Every step of the composition is a step of the extension or leaves it
alone, and the same of the timeline, so the theorems about BrowserBuffer hold
here (`ImplementsExtension`). `AcceptedAccounted`, that an accepted envelope
waits, is stored or is in `gone`, is inductive by itself; with at-least-once
delivery it gives `NothingVanishes`.

*VSCodeBuffer.* Types are proved for any number of windows (`TypeInv` adds which
loops hold an item). The other two theorems assume that there is one window,
which is what makes them true: `vscode_lost` refutes them for two. `OperationInv`
says that, while the window's thread is in a file operation, its task is still
where it started it and the contents to be written are those of the file with the
task's change; a torn file counts as empty once its operation is over. Then
reading and truncating change nothing that BrowserBuffer sees, and the write is
its transaction (`WriteRefines`). `Kept` restates `Safe` with the contents before
the rewrite, which is what the steps preserve.

*VectorIndex.* `SavedIsLoadable` speaks of the moment a program has ended; what
makes it true is spread over the steps before. `SaveInv` follows the program: at
each `pc` it says which of the three files already belong to what the program
holds in memory, and that the key it encrypted with is the one a later
`StoredKey` will return, or is the one written down. `KeysLeft` keeps the bound
on generated keys from blocking a save midway, so that types are preserved. Kills
need no more: a killed program has saved nothing, and the invariant asks nothing
of its files.

*Chunks.* The prose properties are inductive together, as `ProseInv`. `AccInv`
says that `acc` starts after the last paragraph that has ended and, while
sentences are short, holds less than a target's worth before its last sentence;
`LastInv` relates the last chunk to `acc`, which is what `ContextShared` needs
before the next chunk is cut. `CutKeeps` treats the two places where a chunk is
cut, and `TokensKept` says that reading on does not change the tokens of what
was read. For code, `StartInv` keeps the next window inside its definition and
no later than the end of the last chunk, and `WindowsCover` and `WindowsAdvance`
follow.

*Blocks.* A block is looked up by its text, and the same text may occur earlier,
later, or inside other markup, so nothing about the search follows from the
blocks alone. For Markdown and flat html, `Blocked` gives each block the place it
was taken from: there are increasing places in the content at which the blocks
stand (`Placed`), and the cursor has not passed the place of a block that is
still to be looked up (`LookedUp`). The search finds the first occurrence at or
after the cursor, hence one no later than the block's own place (`FoundInTime`),
so the cursor then stands no later than that place's end, which is no later than
the next place (`FindAhead`). Each block is found, and no Markdown search starts
again from the beginning of the content, which is what could break the order of
the spans (`InOrderStep`). While Markdown is read the places are those where
paragraphs and fences began; for html, as long as the content has been flat, the
stack and the data are those of the one element that is open (`HtmlRead`), so
that its text stands in the content as it will be looked up. `ImplementsChunks`
shows that looking blocks up leaves the chunkers alone, so the theorems about
Chunks hold of the whole of chunk_text.

*Desktop.* A page's state changes by its own handlers or is dropped as a whole
(`ChatSteps`, `SearchSteps`, `CaptureSteps`), so what holds of a page is proved
from the page's module. `ChatInv` joins `Conversation` with the types of the
messages: no question is sent while one is awaited, because the field and the
button are locked exactly then, so `pending` never holds two. `CaptureInv` says
what the toggle's property needs before requests have landed: the last one in the
air says what the surface toggled last shows, and removing an earlier one does
not change which is last. `SearchInv` says that a running timer knows the
criteria on screen, from which `AsksWhatIsShown` follows: only a timer asks
(`OnlyTimerAsks`).

`WindowInv` adds the types of the other pages, that what was opened exists, and
that only the mounted page has a state; with the two invariants above it gives
`TypeOK`. Its step lemmas need the index of the search page to be a number and
what `Enter` opens to have an id, so it rests on what a search shows: `PickedAre`
says that filtering keeps exactly the memories asked for, `JoinedAt` that the
joined list holds the k-th option of the b-th bucket at the place `Ahead(bs, b) +
k` and nothing else, and `Summed` that the offset the page draws with is `Ahead`.
`OpensHighlighted` is then the equality of two lists' elements (`EnterOpens`),
whatever answer came since the index was moved. `PurgesWhatSearchLists` follows
from `ListedAre` (the list shows the memories found, whichever bucket each is in)
and `SameFilters`; its theorem assumes that every memory is found by some text
that may be typed, since a search without words lists nothing.

*Only model-checked*: the liveness properties with their fairness, which are
beyond the prover (`EveryAcceptedIsStored`, `DrainsWhileUsed`, VSCodeBuffer's
`BufferDrains`, `StoredInTheEnd`, `StaleIsReplaced`, `QuestionSettles`), and
everything a run refutes. Every other property of a passing run is stated by a
theorem.

## 5. Not modelled

How a connector reaches the daemon: both post to 127.0.0.1:8765, where the daemon
listens unless it is built with the feature `uds`, which is off by default and
binds a socket file instead (`daemon/src/main.rs:42`); the models take the build
that listens where they post.

Encryption, compression, hashing and date formatting (inverse or injective
library calls; the models keep what depends on them: torn files, equal hashes,
days). Validation of envelopes (`Event` is the set of valid ones). Read-only
endpoints. The DOM listener `content.ts`, the test hooks that dump the buffer or
change the daemon's address, and the text of diffs. Embeddings and scoring, the
token budget of the RAG context. Two programs that write the index at once, and
the numbering of ids within a job. How sentences, paragraphs and definitions are
recognised (regular expressions and Python's `ast`), the conversion of prose
chunks to offsets.

Of the desktop app: layout, animation and the collapsed sidebar; the focus
shortcut; the browser's Back (a page change like any other link); the tray's
"Open App"; that React's StrictMode runs effects twice while developing; that an
input of the settings loses the focus at every letter, since its card is a
component defined inside another. `MemoryViewer` is on no route, and React would
refuse its second render, which calls two hooks more than its first. The service
behind the shell is not in the repository: what it answers is chosen freely, and
result lists are read off the mocks that `tauri.ts` keeps for running without a
shell.

## 6. Plan

1. *Done*: `Tables`, `Daemon`, `Timeline`, their proofs; `Shutdown`.
2. *Done*: `BrowserBuffer` and `VSCodeBuffer` with proofs, the refinement
   included.
3. *Done*: `VectorIndex` with proofs. Left: a rotation beside a running job.
4. *Done*: `Chunks`, `Blocks` and `ChunkText` with proofs. Left: the token budget
   of the RAG context.
5. *Done*: the desktop app's pages and capture toggle, with proofs.
6. *Done*: `Pipeline` with proofs. Left: the intelligence job composed with the
   vector index, so that a stored event can be searched in the end (today each
   job's index replaces the one before).
