# Verification of codeument

TLA+ modules that model codeument from the command a shell hook reports to the
page on the docs platform, the TLC instances that check them, and TLAPS proofs
about the parts that batch commands, write drafts, publish them, keep passwords
and admit machines to the relay.

- `tlc -config X.cfg M` for each run below; `tlapm M.tla` for the proof modules.
- `PROJECT.json` maps every definition to the lines it translates, and lists
  the hazards, the mutants each property is tested with and the findings.

## The system

codeument is one Go binary. Nothing is a server by default: a shell hook, a
timer and the user start short processes, and **all they share is one SQLite
file, a few small files and an advisory lock**. A statement is atomic; a
handler is several statements with the row in memory between them. Most of what
is hard here follows from that. What is published goes to a docs platform,
directly or through a relay, request by request, and any request may fail or
lose its answer.

```
 hook --> ingest --+                        +--> review screen --> engine --> docs provider
 exit --> ingest --session-end --+          |                         |
 timer -> tick ------------------+--> journal (SQLite)                +--> LLM
 user --> now / forget / undo ---+          |                         +--> relay --> the same
 ingest --(spawns)--> work -----------------+                         +--> password manager
 user --> snapshot, credentials, enroll
```

| Component (`src/internal/`) | State | Operations | Module |
|---|---|---|---|
| classification, `classify/` | none | what a command line is worth | Classification |
| batch policy, `batch/batch.go` | none: decides on a row | Observe, Close, CloseAll, CloseStale | BatchPolicy |
| journal, `journal/store.go` | tables events, sessions, batches, drafts, kv, doc_pages, publish_queue, snapshots, dir_cache | one method per statement; DeleteEvents, DeleteLastEvents, Purge are transactions | Journal; Publishing, ServerPage |
| ingest, `cli/ingest.go` | none kept | ingest a command, end a session, spawn `work` | Ingest |
| worker, `worker/` | work.lock, notify file | ProcessPending, SummarizeBatch, notification; Regenerate, Accept, Dismiss, Publish, QueuePublish, RetryQueue | Worker; Publishing |
| tick, now, daemon, `scheduler/`, `cli/phase2.go` | none kept | close, summarize, retry, snapshot, prune | Pipeline; Publishing, ServerPage |
| review screen, `tui/review.go`, and `codeument drafts` | draft records in memory | edit, accept, dismiss, regenerate, merge, publish | Publishing |
| docs providers, `docs/` | Markdown files and their index; Confluence pages, their properties, a cache of page ids | Find, Get, Upsert | Provider, ConfluencePages, MarkdownPages; PageStore |
| engine, `engine/engine.go` | none | Summarize, Explain, Publish, FindDoc, GetDoc, StoreCredential | steps of the modules that call it |
| summarizing, `summarize/`, `llm/` | none | prompt, cut out the object, validate, one retry | Drafting |
| snapshots, `snapshot/`, `explain/`, `cli/phase5.go` | snapshots, dir_cache, last_snapshot | collect, explain, compare, store, publish | ServerPage, Explaining |
| credentials, `credcache/`, `secrets/`, `cli/phase6.go` | encrypted rows, pushed marks, the policy's cached value | put, push, mark, forget | Credentials |
| relay, `relay/server`, `relay/client`, `cli/phase3.go` | clients, codes, attempts, buckets; token and configuration files of the machines | enrol, authenticate, limit, forward, revoke | Relay |
| collectors, `snapshot/collect/`; text, `capture/`, `redact/` | none | read /proc, parse and scrub a line | not modelled |

### What makes each part correct, and what is hard about it

- **Ingest and closing.** Commands are detached processes: a session may end (and
  `codeument now` or a tick may close) between any two statements of an ingest,
  and a ten second timer may end it. Correct: one open batch per session,
  counters that are those of the stored events while a batch is open, no batch
  outgrows its limit, what is handed over holds enough work.
- **Worker.** Spawned workers and ticks race for a lock; each works through a
  list it read once; the engine may fail, refuse or be away; a process may die
  anywhere. Correct: one draft per batch, bounded attempts, every handed-over
  batch ends drafted, empty or given up, and the notification counts what
  waits.
- **Composition.** A batch is pending before the command that made it so is
  stored; a spawned worker leaves silently if the lock is taken; a tick closes,
  summarizes and prunes; `now` does it all without the lock; `forget` deletes
  events under everyone. Correct: what was handed over is
  settled in the end, and a draft is written from its batch's commands without a
  hole.
- **Summarizing.** A model's reply is text with an object in it somewhere;
  braces and quotes inside strings, prose around it, a retry after a bad reply.
  Correct: the draft is what the model wrote, complete and usable; every
  directory is explained once, with its own explanation.
- **Publishing.** A publish reads a page, decides between appending and
  replacing, and writes it whole; answers are lost, items are retried by the
  timer while the user edits, two drafts aim at one page, and three kinds of
  processes save whole records they read earlier. Correct: nothing is on a
  page twice, nothing counts as published before its page is written, a queued
  draft is settled in the end. That no other section disappears does not hold.
- **Docs providers.** A page needs several requests, readers move and delete
  pages, caches and the index are stale. Correct: Find sees one page per
  document, Get returns what was published, nobody else's page is written, and only
  a failure leaves a restricted page open.
- **Snapshots.** Stored before published; runs of a command overlap the
  timer's; explanations are cached by content; what moved too little is no change.
  Correct: the history has every move of the machine as material, and the page
  catches up.
- **Credentials.** A password is stored by one request and its row marked by
  another statement, while the company changes its policy and rows are replaced.
  Correct: no reference leads nowhere.
- **Relay.** Codes are single use and attempts and rates limited under concurrent
  requests; enrolling writes two files in steps. Correct: one client per code,
  the limits hold, an enrolment that was granted can be used, and an error means
  the same through the relay as without it.

## Modules

```
Classification <- MCCommands --+
                               v
BatchPolicy <- Journal <- Ingest <---- MCIngest, IngestProofs
                   ^         ^
                   |         +-------- Pipeline <- MCPipeline, PipelineProofs
                   +------ Worker <----+
                             ^
                             +-------- Summaries <- MCSummaries, SummariesProofs
                                           | implements
                                       DraftLedger

Publishing <- MCPublishing, PublishingProofs

Provider <- ConfluencePages <--+
        <-- MarkdownPages   <--+-- Pages <- MCPages, PagesProofs
                                     | implements
                                 PageStore

Credentials <- ServerPage <- MCServerPage, ServerPageProofs
Drafting, Explaining <- MCAnswers, AnswersProofs
Relay <- MCRelay, RelayProofs
```

Modules that meet in the code meet here at an interface. A draft `Worker` saves
is one of the `Drafts` `Publishing` starts with. The page by document id that
`Publishing` reads and writes whole is `PageStore`, which both providers are
shown to implement; ServerPage's page is another document of it. `Drafting` is
one `Reply` of the engine to `Worker`.

- **BatchPolicy** - `batch.go` as operators on one row: opening, rotation by
  idleness or size, closing, counting, the five triggers, the cooldown. Time is
  counted in ticks; commands are records of what the classifier tells the
  triggers (meaningful, weight, family, milestone).
- **Classification** - rules in their order with the user's weights before them,
  noise, redirections, editors on configuration files, sudo, and the combination
  of a line's segments; the tables are excerpts with one entry of each sort.
  **MCCommands** assumes the commands of the runs to be what it gives.
- **Journal** - the tables `batches`, `events`, `drafts` and the
  `last_summary` keys as variables, and the statements as operators:
  `UpdateBatch` (writes the *whole* row and does nothing if it is gone),
  `NewestOpen` (ORDER BY ... LIMIT 1), `DeleteEvents` and `DeleteLastEvents`
  (`forget`), `PruneEvents`.
- **Ingest** - `hook[h]` is an ingest process: where it is in `Observe` and
  `ingest`, and the row it holds. One action per statement that writes:
  `ReadOpen`, `Rotate`, `Create`, `Decide`, `Mark` (last_summary), `Write`,
  `Insert` (store the event, spawn a worker). `closer[c]` is a process that
  closes batches from a list it read at its start: `EndSession`, `StartNow`
  with its `FallBack` to every open batch, `StartStale` (the tick), then
  `CloseNext` per row and `CloserMark`. `Forget`, `KillIngest`,
  `KillCloser` happen between any two of them.
- **Worker** - `worker[p]` is a `work`, tick or `now` process with the list
  it read. `Acquire`/`Release` are the lock, `List` reads, `PassOver`,
  `Read` (the SELECT of the events), then `SkipEmpty` or `Claim` (the UPDATE) are
  the first half of `SummarizeBatch`, `Reply` and `ReplyError` the engine, `Save` and `Finish` its second half, `Leave` the
  notification. `Abort` is a death or a deadline at any of these points.
- **Summaries** - Worker with `Arrive` in place of batching: any batch may
  become pending at any time. `DraftLedger` is what it promises for each
  batch (waiting, drafting, drafted, dropped, lost), and `Ledger` the
  refinement mapping.
- **Pipeline** - Ingest and Worker over one journal. A tick is a closer and
  then a worker in one process under the lock (`StartTick`, `Closing`,
  `Step`, `PruneTick`), and ingests go on between any two of its statements, also
  between `Read` and `Claim`; `now` is the same without the lock and without
  pruning; `RunSpawned` and `Bounce` are what becomes of a spawned worker.
- **Drafting** - the text of a reply as a sequence of characters, of which
  only braces, quotes and escapes differ; `Scan` is ExtractJSON's loop with its
  state, `Decode` decoding, `Valid` and `Normalized` what is made of it, `Retry` the second
  attempt, `AskInVain` each client's errors. The braces are written `open` and
  `close`. What the scan is held to is a definition without a loop: `Reads` says
  which quotes are escaped, which characters are inside a string and how the
  braces outside of them count; `PresentedBy` is the first valid object in a
  text, found by looking at every stretch of it, whatever is before; `BraceBefore` says
  whether a brace is. **Explaining** - the chunks of ten, and answers matched to directories by
  their cleaned path.
- **Publishing** - `proc[p]` is the operation a screen, a command or the tick
  is in, with the record it holds and the page as it read it. `Press` and
  `Command` begin one; `Save`, `Ask`, `AcceptFirst`, `Look`, `Put`,
  `RecordPublished`, `MapPage` are its statements and requests. `Look` reads the page, or
  nothing if that fails, or, as Get returns it when its property does not come, the
  page without the marks of its sections (`Unmarked`). `QueuePublish`,
  `DueQueue`, `TakeItem`, `Requeue`, `Dequeue` are the retry queue. `Forget` and
  `Kill` happen in between.
- **Provider**, **ConfluencePages**, **MarkdownPages** - a publish is a `job`
  (`task`) of a process: find the page by the remembered id or by search, read
  its version, update or create it (with the next title if one is taken), read and
  set its property, restrict it; or look in the index, walk the folder, choose a free
  file name, rename the file into place, load and save the index. Readers edit,
  move and remove. **Pages** has both next to each other and maps them to
  **PageStore**, which is what both promise.
- **Credentials** - rows by user and kind, the manager, `push[p]` a push of all,
  the policy and its cached value. **ServerPage** - `run[p]` is a snapshot run
  of the timer or a command, from `Collect` through `Latest`, `Explain`,
  `StoreSnapshot`, `MarkRun`, the accounts table (`ReadPolicy`, `Credential`,
  `MarkCredential`) to `Publish` and `RecordPublished`, interleaved with
  everything in Credentials.
- **Relay** - `call[m]` is the command a machine is in: an enrolment
  (`ReadAttempts`, `CountAttempt`, `EnrollClient` at the relay; `SaveToken`,
  `ReadConfig`, `WriteConfig` on the machine) or a request (`Authenticate`,
  `Admit`, `Handle`, `Answer`). `RelayRestart` empties the limiter and cuts off
  who waits.
- **IngestProofs**, **SummariesProofs**, **PipelineProofs**, **PublishingProofs**,
  **PagesProofs**, **ServerPageProofs**, **RelayProofs**, **AnswersProofs** - see Proofs.

Each module defines, right before an operator, the mutants of it that a
plausible slip would give (named so in a comment). They are used by no
specification; every property was seen to fail under one of them.

## Runs

All bounds are constants of the modules. Thresholds are scaled down with
them: the code's defaults (idle gap 20 minutes, timer 45, interval 10, MaxEvents
200) become a few ticks and 2 events, so that three commands are enough for a batch
that rotates, one that is full, one that a trigger hands over and one that is
skipped.

| Run | Instance | Checks |
|---|---|---|
| ingest_closers | one session's hook, 3 commands, against a process that ends the session, runs `now` or ticks, again and again; MaxEvents 2; a death or a `forget` at any statement | IngestTypeOK, OpenCountersExact, PendingHoldsWork, SizeBound, OneOpenBatch |
| summaries_locked | two workers, two batches, two attempts, every answer of the engine, two deaths | WorkerTypeOK, CopiesFresh, OneDraftPerBatch, SummarizedIsDrafted, ImplementsLedger, ResolvedUnlessOrphaned |
| summaries_now | a `now` next to a worker | OneDraftPerBatch: violated |
| pipeline_live | hook with 3 commands, worker, tick with pruning; a failing engine and one death, or one `forget` (not both in one behaviour: `unlucky`) | DraftsHaveNoHole, AllSettled, NoticeRight |
| pipeline_now | two overlapping ingests, tick, `now` and an ending session; of ingests, `now` and session ends no three at a time (`Unlocked`) | AllSettled |
| publishing | a screen, a command and the tick; two drafts, two documents; 2 keys or commands, one edit, 2 faults (failed request, lost answer, death, `forget`), pages read with and without their marks | PublishingTypeOK, SectionOnce, PublishedIsOut, QueuedIsSettled |
| publishing_again | commands and the tick, 3 commands, no faults | NoSectionLost: violated |
| pages | either provider; two publishers, two documents (one restricted; of one title in Confluence, of two file names in the folder), 3 publishes, one fault, one act of a reader | PagesTypeOK, OnePagePerDocument, RoundTrips, ExposedByFailures, OnlyOwnPages, OnlyOwnFiles, ImplementsPageStore |
| server_page | the timer's runs, published or not, and a command's, a push. A machine of three states that changes twice, 3 snapshots, one failure; or passwords: two, one change of policy, one run, one failure | ServerPageTypeOK, ManagerReferencesLead, HistoryHasEveryChange, PageCatchesUp |
| relay | two machines behind one address, in three cases: trying used codes (5 attempts), enrolling, using the relay (3 requests, one revocation); one restart or death | RelayTypeOK, OneClientPerCode, RateKept, AttemptsKept, SameError, GrantedIsEnrolled |
| answers | every reply of an object nested once, with strings of at most 2 characters, and prose or braces around it, and replies without one; lists of 1 to 4 directories in chunks of 2, with every answer of at most 2 entries | DraftIsWhatTheModelWrote, PlainObjectIsFound, EveryDirectoryOnce |
| answers_prose | replies with an object and a brace in the prose before it | ObjectIsFound: violated |

What the passing runs show:

- *Batching.* A closer of any kind between the statements of an ingest leaves the
  counters of *open* batches right, although rows are written back whole: the
  writes that could go wrong close the row, or are repaired by the ingest's own.
  What is handed over on an old row holds enough work all the same. With a
  death or a `forget` added, a session still has one open batch.
- *Summarizing.* Workers that take the lock implement the ledger. The row a
  worker writes back, read before everything else in its run, is still the row
  of the table: because of the lock, and because only workers write rows in this
  run. Every pending batch is resolved, except one a worker died on. What happens
  when an ingest writes the row as well is the composition's.
- *The composition.* A draft has no hole: it holds commands of its own batch only,
  and every command of the batch that it lacks came after those it holds, also when
  ingests write between a worker's reading the events and its claiming the batch.
  It may lack any number of those (see below). When the shells go quiet every
  batch settles although spawned workers bounce off the lock, also next to
  a `now` that takes none and to overlapping ingests.
- *Publishing.* A draft is on a page once, whatever is retried, as long as the
  page is read with its marks. Nothing counts as published, or is taken off the queue
  for it, before a page of its document was written, however old the records that are
  saved whole. A queued draft is settled, unless an edit took its document id.
  What a publish does to other sections is under "What else does not hold".
- *Providers.* Both keep one text per document, as Find and Get see it, and answer
  when it is written. Confluence: a publish writes no page but its document's,
  even with titles shared, and a page for some groups that everyone may read is
  that of a publish under way or was left by a failed request, one page per
  failure. Folder: no file but the document's own is written over, if documents
  have different file names. One page per document, and the implementation of
  PageStore, further assume that no two publishes of a document overlap (`Apart`),
  that the search finds what exists (`SearchFails` FALSE) and that readers move no
  file while it is published (`MovesApart`). The code ensures none of the
  four; see below what happens otherwise.
- *Server page.* While runs do not overlap, the history has the first snapshot and
  every move from one snapshot to the next as material, also if the machine moves
  back; and the page catches up with what was stored, unless it drifted in steps
  too small to count, or the publish failed or was not wanted. Once two runs have
  overlapped both properties say nothing. References to the password manager
  lead to a password, of that account, if not always the newest.
- *Relay.* One client per code under concurrent enrolments; in no period of a
  window's length are as many as twice the limit of attempts let in (not the limit:
  the window is fixed), unless two were counted as one; the token bucket keeps its
  promise over every period of one life of the relay.
- *Answers.* The brace counting finds the object whatever quotes and closing braces
  are before it and whatever strings, escapes and braces are in and after it. Every
  directory gets the explanation from its own chunk's answer.

What the violated ones show (the quoted statements are in PROJECT.json):

- `now` takes no lock. It and a worker draft the same batch.
- A draft that is published again, after an edit or by another process, on a
  page it shares, replaces the page: the other drafts' sections are gone.
- A reply with an opening brace in its prose, `Set {name}: {...}`, counts as one
  without JSON, although a valid object follows: ExtractJSON tries the first brace
  only (provider.go:126; 87 has "finds the first JSON object in text").

### What else does not hold

Seen while modelling, as counterexamples of properties that are weaker here
for that reason:

Batching and summarizing:

- Two overlapping ingests of a session each find no open batch (batch.go:58)
  and its commands alternate between two batches, though model/types.go:80 has "a
  contiguous run of events ... that will be summarized together".
- An ingest that stalls between reading its row and writing it (batch.go:126)
  writes a batch back as open that was closed, listed or claimed meanwhile.
  Further commands go into it. A worker reads the events of a batch in one
  statement (worker.go:88) and claims it in the next (99), so any number of commands
  may come between the two, or after the claim: they are in the batch, and not
  in its draft. Once the worker's last word has made the row summarized, no
  later run looks at them.
- Such an ingest may also open again a batch that was skipped or summarized; the latter
  may then get a second draft.
- A session end or a tick writes back the row it read (ingest.go:79, batch.go:134).
  Commands counted meanwhile are not in it; a batch with enough work is skipped.
- Two summaries of a session may be triggered closer than MinInterval to each other:
  a tick closes for its timer without asking for the cooldown, and a trigger that
  read the mark before (batch.go:116) does not know.
- `summarizing` is a state nothing lists (worker.go:97): a worker killed, or out
  of its ten minutes, during the call loses the batch.
- For a batch whose events are gone SummarizeBatch returns neither a draft nor an
  error (worker.go:96), and `now` prints the title of that draft (phase2.go:134): it
  panics. In the model `now` is over then.
- `forget` while the engine answers: the draft is saved as fresh, from deleted
  commands (worker.go:120; SECURITY.md:105).

Publishing:

- A publish whose read failed (worker.go:205), or that read the page before another
  publish wrote it (218), replaces the page, and sections are gone. The second needs
  two processes at once.
- Confluence's Get with a failed property request, or for a page without one, returns
  the page's storage text (confluence.go:484), which has no draft markers: a draft
  that is there is appended once more. SectionOnce does not count sections that
  lost their mark.
- The timer publishes a queued draft nobody accepted: it accepts what it
  retries, also after the draft was edited or regenerated (README.md:8).
- An accepted draft without a document id is retried for ever; a draft queued
  again after an edit is dropped from the queue as already published.

Docs providers:

- Every page codeument makes in Confluence ends in "Edits made here are kept when
  codeument appends to this page." (docs/render/confluence.go:138). They are not: what
  a publish appends to is the Markdown in the page's property, the text of the publish
  before, so a reader's edit is written over. OnlyOwnPages is about pages of others.
- Confluence: a page whose property request failed, or that a failed search
  did not find, is made a second time (confluence.go:549); the first stays where it
  is. If it is for some groups only, it was never restricted and everyone may
  read it for good. A page that had to be named "T (2)" is not updated under title T.
- Documents may share a title (markdown_test.go:65), and then a file name.
  Markdown's Find believes an index entry if any file is at its path
  (markdown.go:114; 108 has "missing or stale"). After a reader moved a
  document's file and another with the same title took its path, a publish of
  the first writes over the second. Two processes that publish documents with
  one title may choose the same free path. A file that is moved while it is being
  published is there twice.

Server page, credentials, relay, replies:

- A snapshot that is taken but not published (not asked to be, or the publish failed)
  is absorbed: the next one has no material change and leaves the page old. So is a
  machine that drifts below the thresholds of diff.go:60 and 72, since each snapshot
  is compared with the one before it. Of two runs that overlap, one may miss a
  change and the change back.
- MarkPushed marks a password that replaced the pushed one, and a row for which
  the relay's policy stored nothing.
- "unknown" explanations are cached like others.
- EnrollAttempt counts in a fixed window that its comment calls a sliding
  minute, in two statements that lose counts (store.go:299).
- An enrolment killed half-way, or next to a `config set`, leaves an incomplete
  configuration.

### Why the bounds are enough

The conflicts are between two processes on one row, page or file, or on one
lock; a third would add no new pair. Sessions share nothing but the worker, which
takes batches of any session alike, and `forget`; the runs have one, the proofs any
number. Two commands make a batch worth
summarizing (MinMeaningful is 2 in the code), the third overflows or follows it. Two attempts tell "retry" from
"exhausted". Two deaths let both the first holder of the lock and its successor
die. In the liveness runs `QuietAfter < MaxTime` leaves the ticks time after
the last command, with IdleGap 1, for a batch to become idle. In pipeline_live
three commands are one that is stored before a worker reads the batch, one on its
way then, and one after it. Two drafts are
what a page can lose one of, and one published draft, which Init has, leaves two
operations for what follows; the third in publishing_again is the publish again. Three
publishes are one to make a page, one that fails, one that repairs or repeats
it. Three pages are one per document and one too many. Two passwords are one
and its replacement. Three requests with a bucket of one are one that empties
it, one refused, one after the refill. Behaviours in which two runs overlap are
followed for two runs (`FewOverlap`): HistoryHasEveryChange and PageCatchesUp say
nothing of them, and what the other two properties could meet takes no third. States 1, 2
and 3 of the machine with Far 2, Near 1 and Full 3 are a small change, a large one, and
a small one that counts because something is full; two changes are there and back,
or two small ones that add up to a large. In relay, five attempts with a limit of two
and a window of two are one period that starts at the first attempt of a count, goes
over its end and holds one less than twice the limit. Two
characters in a string put every escape before every quote and brace, and one
object in another is all the depth counter needs to go up and down twice. One to four
directories in chunks of two are a started chunk, a full one, a full and a started one,
and two full ones.

Where a run would need a row, page or document id beyond its bound, that
process stops there, which is a death like any other.

CHECK_DEADLOCK is off where what comes from outside - commands, keys, publishes,
time, requests - is bounded and nothing ticks on: such a run ends.

### Fairness

A started process goes on (weak fairness of its steps): the operating system
schedules it, and every call it makes has a timeout - 90 seconds or five
minutes in the LLM clients, ten minutes for a worker, twenty for a tick - so
the engine answers with something. The timer starts a worker, a retry and a
snapshot whenever it is due and none is running (weak fairness): systemd or
launchd does, every five minutes by default. Time passes. Nothing is assumed
of the user, of the hook starting, of a spawned worker running, or of a request
ever succeeding; what does not hold when a request fails says so in the
property (`faults > 0` in GrantedIsEnrolled; in PageCatchesUp that the publish
of just that snapshot did not happen),
while QueuedIsSettled holds with the bounded number of faults at any point. In
pipeline_live a batch whose worker died may stay summarizing.

## Proofs

| Module | Theorem | Property | For any |
|---|---|---|---|
| IngestProofs | SingleOpenBatch, CountersExact, PendingIsWork, BatchesBounded, IngestTyped | OneOpenBatch, OpenCountersExact, PendingHoldsWork, SizeBound, IngestTypeOK | sessions, ingests, closing processes, commands, policies, deaths, forgets; see below for what each assumes |
| SummariesProofs | LockedInvariant, TypeCorrect, MutualExclusion, NoLostUpdate, SingleDraft, AttemptLimit, EventInvariant, DraftedFromAll, GivenUpForGood, LedgerImplemented | `IInv`, WorkerTypeOK, OneInstance, CopiesFresh, OneDraftPerBatch, AttemptsBounded, `SInv`, SummarizedIsDrafted, GivenUpStays, ImplementsLedger | batches, workers, attempts, deaths, answers |
| PipelineProofs | PipelineInvariant, NoHoleInDrafts | `PInv`, DraftsHaveNoHole | sessions, ingests, workers, `now`, ticks, ending sessions, commands, policies, engine's answers, deaths, forgets; no overlapping ingests of a session |
| PublishingProofs | PublishingInvariant, PublishedOnce, PublishedAreOut, PublishingBounds, PublishingTyped | `PInv`, SectionOnce, PublishedIsOut, `BoundsInv`, PublishingTypeOK | drafts, documents, screens, commands, edits, faults |
| PagesProofs | PagesTyped, PagesRoundTrip, OwnPagesWritten, OwnFilesWritten, OnePageKept, PagesImplementPageStore | PagesTypeOK, RoundTrips, OnlyOwnPages, OnlyOwnFiles, OnePagePerDocument, ImplementsPageStore | publishers, documents, texts, pages, file names, failed or lost requests, readers' edits, moves and removals |
| ServerPageProofs | CredentialsInvariant, ReferencesLead, HistoryComplete, ServerPageTyped | `CInv`, ManagerReferencesLead, HistoryHasEveryChange, ServerPageTypeOK | accounts, passwords, pushes, runs, states, thresholds, policies, failures, kills |
| RelayProofs | EnrollInvariant, CodesAreSingleUse, ErrorsKeepTheirMeaning, RateIsKept, AttemptsAreKept, RelayTyped | `EInv`, OneClientPerCode, SameError, RateKept, AttemptsKept, RelayTypeOK | machines, codes, rates, bursts, limits, windows, restarts |
| AnswersProofs | DraftsAreRead, ObjectsAreFound, DirectoriesExplained | DraftIsWhatTheModelWrote, PlainObjectIsFound, EveryDirectoryOnce | replies, objects, strings, escapes; lists, answers, chunk sizes |

**Ingest.** Assumed is that ingests of one session do not overlap (`~Overlap`;
only IngestTyped does without): otherwise the first theorem is false (see "What
else does not hold"). Most proofs need of rows and processes only the shape
(`Shape`); IngestTyped adds the types (`TypedInv`), with the scores, which are
sums over sets that a fold computes: that such a sum is a number follows from
looking at a smallest set of which it is not. SingleOpenBatch is inductive with what an ingest knows
(`OInv`): about to create a batch, that its session has none open; holding one,
that no other is. Closing processes, `forget` and deaths open nothing, and a row
they wrote over is opened again only by the ingest whose batch it is. The
counters (`NInv`) are promised until the first fault. They are those of the
stored events plus the one counted and about to be stored (`Attributed`): a
row in the memory of an ingest counts exactly those, an open row of the table
does too, and a row in the list of a closing process counts no more than those,
as events are only added. A command is stored once (`CmdInv`), so that adding
it adds one. SizeBound follows since `Rotates` is asked about a row that is exact,
by the only ingest that stores in that batch.

**Summaries.** `OneDraftPerBatch` is not inductive: `Save` would add a second
draft if its batch already had one. `IInv` adds what forbids that:

1. `TypeInv`: WorkerTypeOK, and that drafts are finitely many, so that the
   next one's number is a number.
2. `LockInv`: a process that runs holds the lock, so no two do, and a process
   that does not run has nothing in its list.
3. `CopiesFresh`: what a worker holds is what the table says. Needs 2, since
   another process's write would break it.
4. `DraftInv`: a batch with a draft is summarizing or summarized, and the batch
   a worker is calling about or about to save has none. A listed batch is
   pending or failed (by 3) and so has no draft; `Claim` takes one of those, and
   `Save` adds its first.
5. `AttemptInv`: a pending batch has attempts left; `PassOver`'s test keeps the
   failed ones in bounds. Needs 3 for the row in memory to carry the table's
   count.

One lemma per action shows that it keeps all five.

**Ledger.** (In SummariesProofs too.) For each action an `...Effect` lemma says what it does to one row and
one process; everything else follows from those. The refinement maps a batch to
`drafted` from `Save` on, before its row says so: `Finish` is a stutter, and a
process that dies between the two has lost nothing. That `Finish` finds a
draft needs `SInv`; that `Begin` finds nobody drafting needs the lock (2); that
its attempts are not used up, 5.

**Pipeline.** DraftsHaveNoHole relates the events a worker read to those of the
batch at any later time, with ingests, closing processes, `now`, `forget` and pruning
in between. What a worker has in memory, or has stored as a draft, is `Built`. It
is `Pure`: none of its commands is, or ever can be, of another batch. And it is
`Gapless`: what else the batch has came later, and so does whatever an ingest is
still to add. For the moment of the SELECT (`ReadBuilt`) three things are
needed. Rows keep their session, in the table and in everybody's memory (`OwnInv`:
`Owns` says it of every event, ingest, list and worker). Whoever has a batch in hand is
therefore an ingest of its session (`Agree`), and there is one of those; and an
ingest's command came after all its session has stored (`NumberInv`). Nothing
is needed of the claim, the lock or the row's status: the steps of ingests are
`Gentle`, they bring only later commands into a batch whatever became of it
meanwhile (`BuiltStays`), and all other steps bring none. So the proof covers
`now` and the write-backs of stalled ingests. Overlapping ingests refute it:
the later command may be stored and read first.

**Publishing.** That a page has a section once is inductive only with what
processes have read: `Put` writes what it read before, so `OnceInv` says it of
every `seen` too, and `PageWith` keeps it because it appends only to a page
that has no marked section of the draft; a page read without its marks has none,
and gets one. PublishedIsOut is proved with the records in memory (`OutInv`): a record that says published, in
the table, on a screen or in a process, names a page that was written; a publish
gets such a record from the step that writes the page (`PutWrites`). Pages are never
emptied again, so a record that is saved late is still right. That no more items were ever queued than keys pressed needs
`BoundsInv`: the items given out and the screens with an operation under way
together are no more than the operations begun, as each of them queues one item at most.

**Pages.** For Confluence little is assumed: `CInv` says that a job's page carries its
document or nothing yet, and that a property written for the version a page still has
says what the page shows. OwnPagesWritten follows for any titles, overlapping
publishes and searches that miss pages. The first half of RoundTrips is about
publishes of a document one after the other, as it says itself: `CShows` holds a
publish's text on the page from its update to its answer, or an edit of a reader over
it. OwnFilesWritten assumes that no two documents have one slug
(`SlugsDiffer`), which the code does not see to and markdown_test.go:65 shows not to
be so; then every path a document may be written at is its own
(`OwnPathsApart`), and what the index and every publish hold is a path with that
document or with no file (`MInv`). OnePageKept and PagesImplementPageStore assume also
that publishes of a document do not overlap, that the search finds what exists and that
no file moves while its document is published (`Apart`, `~SearchFails`,
`MovesApart`); without any one of the four they are false. They are about the page Find
returns: one that never got its property is not counted, and ExposedByFailures, which
is only model-checked, bounds those. With the assumptions, a job that found no page
knows that there is none until it made one (`JobAlone`), and a publish with a path
knows of no other file (`TaskAlone`). With that invariant (`COne`, `MOne`) every step
of either provider is one of PageStore or none: showing the new text, saying so in
the property and restricting the page are three requests of Confluence and three
steps of PageStore, while in the folder the rename alone writes.

**Credentials and snapshots.** A push or a run stores a password, and later marks
a row by its id, although the row was replaced or forgotten meanwhile and the
policy changed. `CInv` says that such an id is in use for one key only
(`Owned`), and that whoever is about to mark it as stored in the manager knows
that its key has a password there (`Kept`). Both survive every step, because ids
are never given out again (AUTOINCREMENT) and the manager forgets nothing
(`Grown`): one lemma says so for all. HistoryHasEveryChange is inductive with the
run (`HInv`): while none overlapped there is one at most, it was taken last, and it
is compared with the newest row. So what it says of itself (`Told`) relates it to the
row that will be before it; and a run that saves its row a second time replaces a
row like it (`ToldKept`). The types (`FitInv`) need `CInv` for one thing: a row that
is not there has the id 0 and is marked by nobody.

**Relay.** A code with a client is used (`CodeInv`), and a used code makes
no other; a call that was answered carries the error it was answered with. For
the rate, RateKept alone is not inductive, since it does not know the bucket:
`WithinRate(j)` says that the requests of a client since the j-th, plus the
tokens that are left, are at most the burst and the rate times the time until
the bucket was last looked at. A refill adds rate times the time that passed, or
less; a request moves one token to the count; a restart of the relay makes a
full bucket, but also forgets what was admitted before it. AttemptsKept counts
attempts in any period of the limiter's window against twice the limit, and says
fewer: `RowHolds` says of the attempts let in that those of the row's window are no
more than it counts, that at the window's first moment there is one of them, that those
in the length of a window before it are fewer than the limit, since the first of
that count was earlier still, and that nothing came later. A period that reaches into
the row's window starts after some count's first attempt, or has the limit and one
less. It is promised until two machines read the row at once
(`raced`), and what the one machine holds that is counting is the row still, or
a new one where the row's window is over (`ReadHolds`). RelayTyped needs, besides `EInv`,
that clients are no more than enrolments begun (`HeldInv`), and that no bucket
was last looked at in the future.

**Answers.** DirectoriesExplained is inductive with where the run is (`ExplainedInv`):
the first directories have their explanations, each from the answer to its chunk,
and the next chunk starts right after them. For the extraction of the object the
scanner has to be held to what an object is, where no brace is before it. `Follows` does that at each character of
an object that some reading (`Reads`) makes sense of: the scanner is in a
string, and after an escape, exactly where the reading is, and its depth is the opening
braces outside strings minus the closing ones. So the depth is 0 at the last
character of the object and not before (`ObjectEnds`). What the scanner looks at is
the candidate from the first brace on (`ScanHolds`): it meets the end of the object the
reply presents, or the end of something that is none, and both theorems follow.

The assumptions are those named in the modules: MinMeaningful and MaxEvents
positive, as policyFrom has them; MaxAttempts positive, a worker
is not the value meaning nobody, sessions not empty, batches numbered; there is
a draft and a document id, and a screen is not a tick; titles are texts, publishes
and readers' acts are bounded; rate, burst and the bounds are numbers; the policy
has at least one mode, and "os" is a kind of account; chunks are not empty; a
reply's object is the first valid one in its text, and what json.Valid accepts is
balanced, strings and escapes considered (`DraftingAssumption`, which TLC evaluates on
every reply of the run). What single theorems assume beyond that stands in their
ASSUME and above.

Every invariant and action property the passing runs check has its theorem, but
ExposedByFailures. Only model-checked besides is liveness (ResolvedUnlessOrphaned, AllSettled, NoticeRight,
QueuedIsSettled, PageCatchesUp, GrantedIsEnrolled), which is out of the prover's
reach, as are ENABLED and definitions that are RECURSIVE. Classification,
which assumes nothing and has no state, is compared with the runs' commands by TLC.
Where a proof needs induction over data, it takes a smallest counterexample instead:
the library's induction theorems cannot be instantiated.

## What is left out of the modelled parts

- `pause`: ingest drops the command before anything else happens.
- The sessions table: written by ingest, read by nothing modelled. Sequence
  numbers of events: only shown to the engine.
- A statement on the journal that fails while its process lives (disk full, busy
  beyond the timeout): most callers return the error, which then looks like a
  death at that point; `SummarizeBatch` drops the error of some and goes on.
- Spawning `work` is taken to succeed: a tick does its work otherwise.
- Relay mode changes nothing in the other modules: the engine is behind its
  interface, and Relay shows that errors keep their meaning through it.
- `Ingest` takes the redacted, classified command as given; a paused, ignored
  or malformed one never gets there.
- What a machine's state consists of: in ServerPage it is a number, and how far it
  moved since the last snapshot, and whether something is full, makes a change
  material (diff.go:60, 72).
- The relay's check of the client's version (server.go:162), before a request is
  counted; more than one process of a relay.
- Rendering to Markdown and XHTML, prompts, labels, the audit table, TLS,
  encryption of a cached password.

## Not modelled

- The snapshot collectors and the snapshot's rendering read `/proc`, unit files
  and command output and format them: I/O and text, without a state of their own.
- Capture and redaction are regular expressions over one command line;
  character by character they are out of TLC's reach.
- The password managers' clients are one or two requests each to a service;
  Credentials has them as one store whose answer may be lost.
- Loading, merging and validating configuration files: the limits it enforces
  are assumptions of BatchPolicy; writing one key is in Relay.

## Plan

1. What the liveness properties rest on as safety: that a process that runs has an
   enabled step, and that a measure of its work goes down.
2. The version comparison of the relay and the diff of two snapshots as
   operators against reference definitions, with the lemmas about them.
