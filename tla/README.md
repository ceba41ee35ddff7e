# InkMarshal: a verification project

InkMarshal is a local-first novel-writing studio: a Tauri shell around a Next.js
server over one SQLite file, Markdown projections of the story's knowledge in a
"Vault" directory, and language models behind local or user-owned endpoints.
This directory holds TLA+ models of its concurrent core, the configurations that
check them with TLC, and theorems about them proved with TLAPS.  All paths below
are relative to `src/novelcraft-ai/`.

## 1. Inventory

| Component | State it keeps | Operations | Talks to | What is hard | What makes it correct |
|---|---|---|---|---|---|
| Writing run (`start-writing/route.ts`, `lib/writing/*`, `lib/writing-orchestrator.ts`) | `novels.writing_lock_*`, `novels.stage`, `writing_jobs`, locals of the request | start, outline, draft, revise, complete, repair, settle, disconnect | chapter store, model, the author, regeneration | minutes of model time between reading and writing; a lock that lapses; crashes | only the lock's owner writes; one running job; a finished book is whole |
| Chapter store (`lib/db/queries-chapter.ts`) | `chapters`, `chapter_snapshots` | fenced upsert, metadata, versioned save | every writer | version compare-and-swap against concurrent writers | no writer replaces prose it did not read; a stale summary says so |
| Regeneration (`blueprint/regenerate/route.ts`) | the blueprint, the tail of the chapters | plan, commit, fail | the lock, chapter store | deletes chapters after a model call | only under its lock |
| Chapter edits, rewrite, continue, revert, unify | chapter versions, snapshots, proposals | edit, preview, apply, revert | chapter store | proposals for a version that is gone | compare-and-swap, a snapshot before every overwrite |
| Writing client (`lib/writing/durable-writing-run.ts` and its reducer) | the run shown in the UI | attach, pause, resume, events | the run's stream, `writing_jobs` | stale events of an earlier run | shows the current run only |
| Knowledge and Vault outbox (`lib/db/queries-knowledge*.ts`, `lib/knowledge/*`, `lib/vault/server-sync.ts`, `app/actions/vault.ts`) | `knowledge_entries`, `knowledge_index`, `knowledge_vault_outbox`, Markdown files | create, update, delete, attempt, drain, reconcile | files, external editors, the watcher | file I/O outside the transaction; external edits; deletes | no lost intent, no resurrection, external bytes survive |
| Vault root (`lib/vault/root-bootstrap.ts`, `runtime-coordinator.ts`) | `vault_path`, `vault_version`, the watched root | bind, clear, import, project, promote | outbox, reconcile | a rebind, even back to the same path, during a bootstrap | a stale generation never writes or promotes; a pending root deletes nothing |
| Anchored writes (`lib/vault/anchored-fs.ts`) | file, temporary, recovery sidecar | displace, install, restore | external editors | a crash or an edit between two renames | no external version is lost |
| Chat turns (`lib/db/queries-chat-turns.ts`, `lib/chat-turn-lease.ts`) | `chat_turns`, messages | claim, renew, finish, reclaim | the client, the model | a lapsed claim whose stream still runs | one answer per turn |
| Brainstorm receipts (`lib/brainstorm-*.ts`) | receipts, profile, entries | apply, consume, undo | knowledge, chat turns | an undo after later edits | undo restores or refuses |
| Import (`lib/import/*`) | sessions, confirmations, extraction slots | open, confirm, extract | novels, knowledge | confirm twice, resume after a crash | one novel per session, each slot once |
| Library reset, migrations, backup, restore (`lib/db/local-library-reset*.ts`, `lib/db/migrations.ts`, `lib/backup/*`) | database files, intents, archives | quarantine, recreate, commit, recover | the file system | a crash between two renames | the old library or the new one |
| Manuscript session (`lib/use-manuscript-session.ts`, `lib/manuscript-draft-store.ts`) | unsaved drafts | edit, autosave, flush | chapter PATCH | a save that answers late | no keystroke lost |
| Engine, models, watcher, secrets (`src-tauri/src/*`) | processes, downloads, watches | spawn, restart, watch | the server | crash loops | bounded restarts |
| Providers, prompts, exporters, search, UI | none shared | pure | | | |

`PROJECT.json` lists the same components with their files and status, and under
`hazards` the thirty-nine places that are hardest to test, each at its line and related
ones joined.

## 2. Modules and plan

| Module | Models | Abstract specification | Proofs |
|---|---|---|---|
| `WritingRun` (section 3) | the server side of a writing run, the author's save, regeneration | `ChapterLedger`, implemented (TLC and proved) | `WritingRunProofs` |
| `VaultMirror` (4) | knowledge rows, outbox, Markdown mirror, reconcile | | `VaultMirrorProofs` |
| `AnchoredWrite` (5) | the helper process that writes or deletes one Markdown file, call by call | | `AnchoredWriteProofs` |
| `ChatTurn` (6) | a brainstorm turn: claim, tool ledger, receipt, undo | | `ChatTurnProofs` |
| `ManuscriptDraft` (7) | the editor's buffer, its saves, the draft store | | `ManuscriptDraftProofs` |
| `ImportSession` (8) | staging, review, confirm of an import | `KbExtraction`, implemented (TLC and proved) | `ImportSessionProofs` |
| `KbExtraction` (8) | attempts at knowledge extraction | | `KbExtractionProofs` |
| `LibraryReset` (9) | clear, reset, deletion, crash recovery of the library's files | `LibraryShelf`, implemented (TLC and proved) | `LibraryResetProofs` |

An `MC<Module>` gives each its symmetry sets and small data.  Every module takes
its sets as CONSTANTS with named assumptions, has one action per operation, and
no RECURSIVE operator, so that it can be proved about.  Each `X_Fault` operator
(`UpsertFence_Open`, `Look_Trusted`, ...) is the definition after it with a
plausible bug; `PROJECT.json` says which property finds it.

Each module keeps one `TypeOK`, proved for every value of the constants and
listed in no run.

What the plan has left, in order:

1. **VaultRoot**: transition generations, fenced bootstrap, promotion; composes
   with VaultMirror's attempts.  Theorem: a stale generation never promotes.
2. **ChapterEdits**: edit, rewrite, continue, revert, unify as further clients of
   a chapter's version.
3. **WritingClient**: run identity and event numbers against WritingRun.
4. **EngineSupervisor**: the native engine's restarts with backoff.
5. Proofs come with each of these.  Of the modules there are, every safety property
   and refinement a run checks is proved; what is left to them is liveness.

## 3. WritingRun

### Correspondence

The server is one JavaScript thread and SQLite is synchronous (`better-sqlite3`),
so the code between two waits for a model call is atomic.  `run[r].pc` names the
wait a request is in; the two places `opening` and `loop` are not waits: there
the run keeps the turn (`At`, `NoTurn`), and only the clock (`LockExpires`) or a
crash comes between.  `lockOwner`/`lockLive` are `writing_lock_token` and whether
`writing_lock_expires_at` is still ahead; a lapsed token stays in the row.
`run[r].view` is `existingByNumber`, the snapshot the run took when it started
and patches with its own writes; `by`, `summaryOf` and `stale` in a chapter row
say who wrote the prose, which version the summary is of, and
`generation_meta.summaryStale`.

| Code | Model |
|---|---|
| `acquireWritingLock`, `renewWritingLock`, `releaseWritingLock` | `AcquireLock`, `OwnsLock`, `ReleaseLock` |
| the route: gate, snapshot, `createWritingJob`; its exits before the stream | `Start`, `ReadChapters`, `OpenJob`; `GateRefuses`, `DeckRefuses`, `SessionRefuses`, `ContextFails`, `JobFails` |
| `loadOrGenerateBlueprint` | `ReuseOutline`, `AskForOutline`, `GenerateOutline` |
| the batch loop | `BookDone`, `BatchDone`, `BoundaryRenewalFails`, `BeginChapter`, `VolumeDone` |
| `writeChapter` | `DraftSaved`, `DraftRefused`, `DraftUsageFails`, `BeginRevision`, `RevisionSaved`, `ChapterCompleted`, `CompletionUsageFails`, `RefusedAfterSave` |
| `completeSavedChapterPostProcessing` | `Repaired`, `RepairRefused` |
| `finalizeJob`, `pausedNovelUpdate`, `failedNovelUpdate` | `Settle`, `SettledStage` |
| the stream's `cancel()`, the renewal timer | `ClientLeaves`, `TimerFindsLockLost` |
| PATCH chapter, regeneration | `AuthorSaves`, `Replan*` |

Abstracted: progress percentages, word counts and the job's progress counter (no
decision reads them), prompts, quality reports (a revision is a choice), usage
accounting (its refusals are the `UsageFails` actions), volume summaries, an
outline that covers other chapter numbers than the stored ones.  The route leaves
between lock and stream in nine places, each releasing the lock by a line of its
own.  They are five actions, one per block of the code: a block that forgets its
release is found by `NoLeakedLock` (its fault is in one of the five), while the two
or three exits within a block are not told apart.  A release that the database
refuses equals the lock a crash leaves and is modelled there only.

`ChapterLedger` is what all this promises about the chapters: one holder; the
holder drafts what is absent, revises only its own prose, completes what is
saved; a planner deletes a tail; the author edits only while nobody holds the
novel.  `KeepsLedger` checks that WritingRun implements it, with the holder read
as the owner of an unexpired lock.

### Runs

| Run | Shows | Bounds |
|---|---|---|
| `author` | one running job, terminal jobs stay, summaries match or say they are stale, no run replaces another's prose, batch bound | 2 runs, 2 chapters, quota 2, author versions to 2 |
| `replan` | the owner's snapshot is the table, no leaked lock, an owned finish is a whole book, `KeepsLedger` | 2 runs, 1 regeneration, 2 chapters, version 1 |
| `liveness` | every started run ends | 2 runs, 2 chapters |
| `finished_book` | a statement of the code's comments that the code does not keep, with its counterexample | 1 run, 1 regeneration |

Two runs are enough for a takeover and a run that comes back after it; two
chapters for a boundary, a resume and a tail; a third party (author or
regeneration) for changes by someone who is no run.  A run starts once, so a
resume is the second run.  `CHECK_DEADLOCK FALSE`: when all requests are used up
and the author reached `MaxVersion` the system stops.

Fairness: `WF(Progress(r))`, that is, every wait of a started run ends.  The
model call has a timeout, and the event loop runs its continuation.  A failure
is not counted on to end a run: only a run already cancelled may be ended by
its exception.  Nothing is assumed of clients, the timer, the clock, or that
a run is ever started.

### What the code does not keep

* `finished_book`: the promotion to whole-book unification is fenced by the job
  only; a regeneration takes a lapsed lock, cuts the tail and opens no job, so a
  run without the lock promotes a book with missing chapters.
* Visible in `GenerateOutline`, without a run: the outline is stored
  (`start-writing-steps.ts:365`) without asking for the lock or the job, against
  `spec/ENGINEERING_RULES.md:29`; so is the stage on a failure path
  (`start-writing-batch-executor.ts:433`).
* Visible in `OpenJob`: `createWritingJob` is called long after the lock was taken
  and not renewed; it then pauses the job of whoever owns the lock now.
* Visible in `TimerFindsLockLost`: a pause releases the lock at once; a renewal tick
  before the run has unwound takes it for a lost lock, and the run ends as failed.

### Proved

`WritingRunProofs` proves, for any numbers of runs, regenerations and chapters:

* `TypeCorrect`: `Spec => []TypeOK`.
* `OwnerSnapshotIsCurrent`: `Spec => []OwnerViewIsCurrent`.  Inductive together
  with `TypeOK`: every chapter write is by the owner, into table and snapshot
  alike, or in a step that leaves nobody else owning a live lock (the author's
  save and the regeneration's commit take and release it in the same step).  A
  lapsed lock is never renewed, only taken over, so a run whose snapshot went
  stale does not own the lock again.
* `OneJobRuns`, `JobsAreHistory`: `OneRunningJob` and `TerminalJobsStay`, from
  `JobsInv`: a run that has not come to `OpenJob` has no job, and `OpenJob` pauses
  every job that runs.
* `FinishIsWhole`: `OwnedFinishIsWhole`.  A run completes its job only where its
  snapshot has every chapter, and an owner's snapshot is the table.
* `NoLockIsLeaked`, `SummariesMatch`: `NoLeakedLock` and `SummaryMatchesProse` are
  inductive with `TypeOK`.
* `BatchStaysInQuota`, `OwnProseOnly`, `ImplementsLedger`: `BatchQuota`, `ProseIsOwn`
  and the refinement `KeepsLedger`.  They need where a run is in its batch
  (`PlaceInv`): at each wait it works on the first chapter its snapshot does not
  have complete, absent or its own saved prose, and its quota is not used up.  With
  the snapshot current, each fenced write of `WritingRun` is then a step of the
  ledger's holder.

The assumptions are the named `ASSUME`s of `WritingRun`.  Only `RunsEnd`, which is
liveness, and the statement `finished_book` refutes are left to TLC.

## 4. VaultMirror

### Correspondence

The row and its index row change in transactions; the Markdown file follows by
attempts at an intent, one intent per entry in `knowledge_vault_outbox`.  `row[e]`
is `knowledge_entries` as the Markdown it renders to, known by its `updatedAt`
and, if it was imported, by the external edit it came from; `index[e].hash` is
`content_hash` where that is the hash of a file's bytes (a save of the author
hashes the fields instead, which no file has), `index[e].mirror` is
`mirror_content_hash`, the baseline.  A request (`job[j]`) is suspended where the
code waits for something that is not settled yet: the digest of an index row or
of a file, the lock of the entry, the lock of the root, the child process, the
client that reads files.  Everything between two waits is one step.

| Code | Model |
|---|---|
| `createKnowledgeEntry`, `updateKnowledgeEntry` | `Create`, `Update`, `UpdateCommits` |
| `deleteKnowledgeEntry` with the cleaning of referring entries | `Delete`, `DeleteCommits`, `EnqueueCleaned` |
| `enqueueKnowledgeVault*`, `completeKnowledgeVault*` | `Enqueued`, `IntentFor`, `Completed` |
| `withVaultEntryWriteLock`, `withNovelVaultRootLock` | `EntryFree`, `RootFree` |
| `attemptKnowledgeVault*`, `syncKnowledgeEntryToVault` | `Check`, `Spawn`, `Finish` |
| the helper process, its classification, its timeout | `HelperAnswers`, `Replaceable`, `HelperFails` |
| `drainKnowledgeVaultOutbox` | `Drain`, `NextAttempt` |
| `reconcileVaultChangedFiles`, one file per call | `ReadFile`, `ReplayIntent`, `MissingFile`, `RemovalCommits`, `HashFile`, `ObserveBaseline`, `RejectStaleFile`, `Import` |
| an editor, a sync client, the death of the server | `EditFile`, `RemoveFile`, `Crash` |

Who can be concurrent: one window's server actions go one after the other, but
route handlers (`summarize`, chat turns), the drain on start and other windows do
not wait for them; the model lets any two requests interleave.

Abstracted: dates are distinct; the waiters of a lock and the intents of a drain
are served in any order; the helper's own steps are one (AnchoredWrite
splits them); a cleaned or updated row is a new content, whatever it was derived
from.  Left out: relations and the writes they cause, renames and other changes
of a path, an id that moves to another file, pending roots and generations, the
knowledge writes of imports, series and brainstorms, embeddings.

### Runs

| Run | Shows | Bounds |
|---|---|---|
| `vault_mirror` | `SettledIsMirrored`: without an intent, the row is the baseline and the file; `DeletesLand` | 1 entry, 2 requests, 3 dates, 1 external edit, 2 faults, no reconcile |
| `vault_siblings` | `NoOrphanFile` and `ExternalEditsKept` with an entry that refers to the other, under reconcile | 2 entries, 2 requests, 3 dates, 1 external edit, 1 fault, reconcile up to revision 1 |

Three dates give a create and two later writes of one entry (`vault_mirror`), so
that an attempt can be superseded twice, and two creates and a deletion that
cleans the sibling (`vault_siblings`); two requests give a holder and a waiter of
each lock.  Two larger instances of reconcile, one entry with three dates and two
external edits, and the two siblings with two external edits, were explored once
and hold too; they take longer than a run here may.  `MaxRevision` bounds only on
what revision a reconcile may still start, since a reconcile of a tombstone makes
a new intent every time.  `SettledIsMirrored` is not checked with reconcile or
references: what the next section lists breaks it there.  `CHECK_DEADLOCK FALSE`:
at its bounds the system stops.

Fairness of `DeletesLand`: a request that was started is carried on (the locks
and the helper's 15 s timeout see to that), and a drain is started again and
again while something is pending (on start, focus, coming online and after a
reconcile).  Faults are finitely many.  An upsert in conflict with an external
edit stays pending by design; no liveness is claimed for it.

### Proved

`VaultMirrorProofs` proves, for any entries, references, requests and bounds:

* `TypeCorrect`: `Spec => []TypeOK`, inductive together with `Carried`: a request
  that waits for a hash has the Markdown it will write.
* `ExternalEditsAreKept`: `Spec => ExternalEditsKept`.  The child replaces only
  the baseline or the bytes it would write, so a baseline must never be an edit
  the database has not held.  `HeldInv` says where baselines come from: rows,
  both columns of an index row, and all a request carries to an attempt are
  absorbed or the application's own.  What the client read of a file
  (`job[j].seen`) is not; it gets into the database only by an import, which
  absorbs it, or by an observation of bytes whose hash the index row had.

* `NoFileIsOrphaned`: `Spec => []NoOrphanFile`.  `OrphanInv` adds that the lock of
  the root is held once, that an attempt at an upsert of an entry deleted
  meanwhile leaves a pending delete intent behind it, and that a delete attempt
  that was answered left no file.
* `SettledMirror`: `Spec => []SettledIsMirrored` where `Reconciling = FALSE` and
  `Refers = {}`.  The two hypotheses are those of the run that checks it, and the
  code needs them: the deletion of an entry rewrites the rows that refer to it
  without intents, and a reconcile overwrites rows by what it read before it
  waited (next section).  `SettledInv` says that each lock is held once, and that
  an attempt whose intent is still the current one writes the row as it is.

The assumptions are the named `ASSUME`s of `VaultMirror`.  Only `DeletesLand`, which
needs fairness, is left to TLC.

### What the code does not keep

Visible in the model, without a run:

* `Import`: `app/actions/vault.ts` looks for an intent before it awaits the
  digest; a save committed in between is overwritten, its intent still pending.
* `Crash`, `HelperAnswers`: the baseline is recorded after the file is installed; a
  crash in between and one more save make the application's own bytes a conflict.
* `DeletedInDb`: `lib/db/queries-knowledge.ts:389`
  rewrites referring rows and their index without intents, against
  `spec/ENGINEERING_RULES.md:28` (a reconcile never enqueues them, a crash loses
  the author's); and it upserts the index row even of an entry that another
  request deleted while the digests were awaited.

## 5. AnchoredWrite

### Correspondence

`VaultMirror` treats a helper process as one step.  Here it is the sequence of
file-system calls of `ANCHORED_HELPER_SOURCE` (`lib/vault/anchored-fs.ts`): names
are links to inodes (`canon`, `side[h]`), `bytes` is what an inode holds, and an
editor may hold an inode open (`handle`).  A link never replaces a name; a rename
of the canonical name takes whatever it finds.

| Code | Model |
|---|---|
| input on stdin, cut off by the death of the server | `Fed`, `ServerDies`, `Torn` |
| recovery of sidecars that earlier helpers left | `List`, `Recover`, `Compare`, `Discard`, `Relink`, `Release` |
| `classifyExisting`, displacement, second look | `Classify`, `Displace`, `Look`, `Restore` |
| installation by `linkSync`, third look, removal of the sidecar | `Install`, `InstallRefused`, `Check`, `Drop` |
| delete | `RemoveFile` |
| the server's side: intent, spawn, result, 15 s kill | `Save`, `Delete`, `Begin`, `Close`, `Killed`, `Absorb` |
| the author's editor (external) | `EditorOpens`, `EditorWrites`, `EditorCloses`, `EditorReplaces`, `EditorRemoves` |

Left out: the listing of directories, the checks of directory identity and of
file names, the helper's temporary file and what a killed helper leaves of it.

### Run

`anchored_write`: two helpers (one may be the orphan of a dead server), one save
after the first content, two edits, one fault (a kill, a death of the server or a
refused link), and inodes enough that no call waits for one.  It checks

* `ExternalBytesKept`: an editor's bytes lose their last name only to a helper
  that looked at the file before they were written there;
* `SettledStays`: an orphan's older projection does not replace one that is
  recorded and on the disk;
* `Settles`: an intent is settled unless an external version is in its way.

Two saves with two faults and the same two helpers were explored once without
liveness and hold.  With three helpers and two faults `SettledStays` fails: one
orphan installs its older projection in the gap that another orphan's
displacement opened (see below), so the property is one of a single failure.
`CHECK_DEADLOCK FALSE`: with nothing pending and the edits used up the system
rests.  Fairness: a process that runs makes its next call, the server takes the
exit of a child, and a pending intent is drained again (on start, on focus, on
coming online).  Nothing is assumed of the editor.

### Proved

`TypeCorrect`, and `ExternalBytesAreKept` for any number of helpers, faults and
edits.  The difficulty is that several helpers may each remove a name of one
inode because they saw it under another.  `DoomInv` says that while a helper is
about to remove a name whose bytes it has seen, the inode has another name that
nobody is about to remove and nobody looked at before the bytes were written.

`OlderIsNeverInstalledAlone` proves `OlderNeedsAGap`, what holds for any number of
orphans: where a helper installs a projection although a newer one is still on
the disk, another helper had put the newer one aside.
`OrderInv` says that the database never asks for a projection older than its
baseline; `GapInv`, that what a helper about to install has displaced is the
baseline it was given or an editor's.

`OneOrphanIsHarmless` proves `SettledStays` under `MaxFaults <= 1`, for any helpers,
saves and edits: the other helper that put the newer projection aside is not the
child the server waits for, since nothing is pending, so it has ended.
`LoneInv` says that while nothing has failed, or the one orphan may still install,
no helper that ended left a projection aside: the child displaces none but its
baseline, and puts that back or drops it.  The hypothesis is the run's bound, and
with two failures the property is false.  The liveness `Settles` stays with TLC.

### What the code does not keep

What is written between a helper's last look at a sidecar and its removal is
lost; `ExternalBytesKept` excludes it by naming the helper that had looked.
`ServerDies` with `Torn`: the child takes the end of the pipe for the end of its
input and installs a truncated file.  `Install`: an orphan may install in the gap
a newer helper opened by its displacement; the newer projection is then a
conflict.

## 6. ChatTurn

### Correspondence

One client turn: the row of `chat_turns`, its claim (`turn.claim`, lapsed or
not), the tool ledger in it, the row of `brainstorm_receipts`, and of the story
the profile and one Story Deck entry.  A worker is a request that serves the
turn; SQLite transactions and the code between two awaits are one step.

| Code | Model |
|---|---|
| `beginChatTurn`, takeover after the stale lease | `Begin`, `ClaimLapses` |
| prompt building and its failure | `BuildFails` |
| `ensureBrainstormReceipt`, binding | `Bind`, `Ensured` |
| the lease's heartbeat and abort | `Heartbeat`, `Abort` |
| terminal write with the assistant message; the stopped answer | `Finish`, `FinishStopped`, `Persist` |
| `runDurableBrainstormTool`: read, prepare, validate, mutate and complete | `ReadStory`, `Call`, `Admitted`, `Intent`, `Fits`, `Recorded` |
| a crash after the intent is recorded | `DiesPrepared` |
| offer, undo, its second check, sweep of expired receipts | `Offer`, `UndoBegins`, `UndoEnds`, `UndoExpires`, `Sweep` |
| the author's edits and relations, the start of writing, a crash | `AuthorWrites`, `AuthorLinks`, `WritingStarts`, `Crash` |

Left out: the client's own polling after a lost answer, wording, the approval and
repair modes, usage sessions, the validation of stored receipts, and the
finalization of a blueprint.

### Run

`chat_turn`: two requests (a takeover and its victim), one tool call on the
profile and one on the entry, two claims, one edit of the author, one undo;
symmetry over the requests.  It checks `OneAnswer` (an answer is written by the
claim in force and never replaced), `AppliedOnce`, `EditsRespected` (a change
replaces nothing the author did after its intent was recorded), `ReceiptInverts`
(what an undo would restore stood before the turn) and `UndoSparesAuthor`.
`CHECK_DEADLOCK FALSE`: the claims and edits run out.  Safety only: whether a
turn ends is up to the provider and to the author who retries.

### Proved

All of the above for any requests, tool calls and bounds: `TypeCorrect`,
`TurnHasOneAnswer`, `ChangesAppliedOnce`, `ReceiptsInvert`, `EditsAreRespected`,
`UndoSparesTheAuthor`.  `ChangesAppliedOnce` rests on the link between ledger and
history: an absent or prepared ledger entry means that the call has not changed
the story, and a change and the entry's completion are one transaction.
`ReceiptsInvert` adds that the receipt a worker writes to is the one bound to its
claim, and that a receipt kept from an earlier attempt already holds what stood
before the turn's first change.

## 7. ManuscriptDraft

### Correspondence

The page is one JavaScript thread: a handler with the effects it causes is one
step.  A text is a number in the order of writing; what matters is which texts it
was written on top of (`seen`, history).

| Code | Model |
|---|---|
| `useChapterDraftController`: change, timer, save loop, chapter switch, unmount | `Type`, `ApplyThroughEditor`, `TimerFires`, `SaveNow`, `Answered`, `Failed`, `Open`, `Leave`, `Stay`, `Unmount` |
| its refresh from a refetched list | `Refreshed`, `FetchArrives` |
| PATCH of the chapter, with its version check | `PatchSaves`, `PatchRefused` |
| `fetchChapters` | `Fetch`, `FetchArrives` |
| `ManuscriptShell`: report, persisted copy, restore | `Reports`, `Persist`, `Payload`, `Restore`, `Restorable` |
| crash, quit with the flush on `pagehide` | `Crash`, `Quit`, `PageEnds` |
| writing runs, restores, other windows | `OthersWrite` |

Left out: which of several novels is open, the reading view, the flush before an
export or a desktop update, and undo inside the editor (tagged `historic`, which
the emitter skips).

### Run

`manuscript_draft`: one editor that is opened and left again and again, three
texts (typed by the author or written by others), one chapter list on its way,
one end of the page.  It checks `CleanIsAVersion` (a buffer that calls itself
clean shows the version it names), `TypedIsKept` (text typed in this life of the
page is in an editor, a draft or the chapter's history; it may have left the
screen), `LastTypedIsShown` (until a save stored it, the text typed last is the
shell's draft and on every screen that shows the chapter), `NoLostUpdate` (a save
replaces only what its text was written over) and `DirtyIsSettled`.  Three texts
give one that is in flight, one typed meanwhile and one of somebody else.

Fairness: a timer that is set fires and a request that is sent is answered or
fails (`WF(Saving(i))`); nothing is assumed of the author, of the other writers
or of the page.  `CHECK_DEADLOCK FALSE`: the texts run out.

Two history flags exclude what the code really breaks, and only that: `rebound`
is set when an editor opens over a restored draft that is bound to the version
shown now instead of the one it was written over; `crowded` when an editor opens
while one that was left is still saving the chapter.  `rebound` weakens
`NoLostUpdate`, which therefore says nothing of recovered drafts.  `crowded` takes
two editors, so it never arises in the run; the safety properties were also
explored once with two editors and two texts, without an end of the page (0.6
million states), where it does, and the proofs are for any number of editors.

### Proved

`TypeCorrect`, `CleanShowsAVersion`, `TypedTextIsKept`, `LastTextStaysOnScreen`,
`NoUpdateIsLost`, for any editors and bounds.  `LastTextStaysOnScreen` needs that
an unsaved buffer is the shell's draft, and that the draft is let go of only by an
answer to a request that carried this very text.  The invariants say that only
texts written so far are anywhere (so that a new one is nobody's), that only a
listed chapter is open, and what a request in flight shares with its editor: its
text is the buffer's or an ancestor of it, and its version is one the editor has
shown.  `DirtyIsSettled` is liveness and stays with TLC.

### What the code does not keep

* `Rebinds`: a recovered draft is saved over a chapter rewritten since, against
  the comment at `components/ManuscriptShell.tsx:468`.
* `FetchArrives`: a list read before a save, arriving after it at a clean buffer,
  shows the older version again (`useChapterDraftController.ts:200` asks only
  whether the buffer is dirty).  The newer text is in the chapter, and what is
  typed over the older one is refused when it is saved.
* `Quit`: a page that ends before the restore has run writes its empty map over
  the stored drafts.
* `Payload`: text typed while a save is in flight is reported with the version
  before that save, and a restart drops it as stale.

## 8. ImportSession and KbExtraction

### Correspondence

`KbExtraction` is extraction alone, over `settings.importMeta` of a novel
(`meta`), with an import reduced to handing out a new generation.
`ImportSession` extends it with the imports themselves.

| Code | Model |
|---|---|
| staging by the native process, parsing, expiry | `Stage`, `Parse`, `SessionExpires` |
| the wizard: mode, target, plan, report, decisions | `Chooses`, `Reviews`, `Decisions`, `Dismisses` |
| `dedupeImportSession` | `Report`, `Match`, `Consent` |
| the confirm: sent, answer lost, receipt replayed, lock, transaction, release | `Confirms`, `LosesAnswer`, `Receives`, `Replays`, `Locks`, `Merges`, `Unlocks` |
| inside the transaction: receipt, lock, consents | `Unreceipted`, `StillOwned`, `Consents`, `Lands` |
| the author's save, a run, a regeneration, the lock's expiry, a crash | `Rewrites`, `Continues`, `Cuts`, `RunTurns`, `LockExpires`, `Dies` |
| POST extract-knowledge: claim, chapters, model, race, outcome | `Post`, `Reads`, `Binds`, `Raced`, `Concludes`, `Records`, `Throws` |
| `extractKnowledgeFromManuscript`: a model's answer, one entry per slot | `Answers`, `MovesOn`, `Puts` |
| deadline, client gone, lost lease | `Aborts`, `LeaseExpires` |

Left out: detection and limits of the parsers, the wizard's loading states,
several target novels, the deletion of a novel, titles of entries (two attempts
may write one title into two slots), and what a failed release of the lock leaves
(the lock lapses within 60 s, `LockExpires`).  `LockExpires` may come between
`Locks` and `Merges`, where the code only resumes from one await and then runs the
transaction: the model allows there what takes a machine that sleeps at that
moment, and `ImportExcludesRun` holds even then.

### Run

`import_session` explores the two halves side by side (`instance` in
`MCImportSession`): imports of one session confirmed by two requests while an
attempt at extraction is claimed but rests; and two attempts at two generations
with two slots while imports are those of `KbExtraction`.  That is enough because
extraction reaches imports through `importMeta` alone, imports reach extraction
through new generations alone, and `ImportsImplementExtraction` proves for the
full interleaving that every step is one of `KbExtraction` or leaves it alone.
Bounds: chapter numbers to 4 (two of the book, two appended), one change by
somebody else, one fault; `OneSession` and `BookOnly` say what else is held still.
`KbExtraction` alone was also explored with liveness for two generations, two
attempts, two slots and a fault.

It checks `ImportedOnce`, `OverwriteSparesNewer` (a merge replaces only prose that
was in the report its author decided on), `ImportExcludesRun`, `SlotOnce` (one
entry per slot of a generation), `ToldIsFinal` (what a request left running
writes nothing once the request was told how its attempt ended),
`ImplementsExtraction` and `AttemptsEnd`.  `CHECK_DEADLOCK FALSE`: at the bounds
the system stops.  Fairness, for `AttemptsEnd` only: a request that is not
answered goes on, and its deadline passes.  Nothing is assumed of the model.

### Proved

For any novels, sessions, requests, manuscripts, attempts and slots:

* of `KbExtraction`: types, `SlotIsWrittenOnce`, `ToldStaysFinal`, `DoneIsFinal` (a
  generation that is done stays done; proved only, no run repeats it).  Behind
  the first: an entry's generation was handed out, and while it is its novel's,
  its slot is recorded.  Behind the second: a claim that is lost never comes back;
* of `ImportSession`: `ImportTypeCorrect`, `ImportsImplementExtraction`,
  `ExtractionBesideImports` (the three above carry over), `ImportsOnce`,
  `OverwritesSpareNewer`, `ImportsExcludeRuns`.  The invariant `ImportInv` has four
  parts: what the wizard and what a request may hold (`WizardInv`, `RequestInv`),
  that the book's prose is numbered by when it was written (`BookInv`), and that a
  session has landed as often as it has a receipt (`LedgerInv`).

The code does let an extraction write within its lease after the database failed
to record its outcome (`Throws`); the request was then told nothing.

## 9. LibraryReset

### Correspondence

All of it runs in the one thread of the server, synchronously, so there is one
program counter; every call of the file system is a step, the process may die
between any two, a call may fail, and the native process makes folders any time.
`live` and `aside` are the SQLite files under their own names and under the names
a reset gave them, `phase` and `listed` the reset intents on the disk, `vaults`,
`shelf` and `cleanup` the app-owned Vault folders, their quarantines and intents.

| Code | Model |
|---|---|
| `resetLocalLibrary` | `AsksForReset`, `Lists`, `Moves`, `Unmoves`, `Commits`, `Undoes`, `DiscardsOld` |
| `clearLocalLibraryContent`, permanent deletion of a book | `Asks`, `Empties`, `AsksToDelete`, `DeletesRow` |
| quarantine, restore, discard of Vault folders | `ShelvesRoot`, `ShelvesFolder`, `Shelves`, `Unshelves`, `Drops` |
| `getDb`, `reconcileInterruptedLocalLibraryResets` | `Reads`, `Opens`, `OpenFails`, `Reconciles` |
| the queued `reconcileAppOwnedVaultCleanupIntents` | `BeginSweep`, `Restores`, `Sweeps`, `EndSweep` |
| the process dies, is started | `Crash`, `Start` |

`LibraryShelf` is what all this promises the author: the books change once per
request, as the request says, or not at all.  `KeepsShelf` checks that
LibraryReset implements it, the books being those of the library that a start
would open.

Left out: the schema and its inspection, fingerprints, the trash, series, shared
and external Vault folders.

### Runs

`library_reset`: one sidecar, four libraries, two reset and two cleanup intents,
one book, one crash, one failing call (1.6 million states).  Besides `KeepsShelf`
it checks `OpenIsCurrent` (no file of another library beside the open one),
`PreparedKeepsOld`, `StartTidies`, `KeptFolders` and `Reopens`.  Larger instances
explored once: three cleanup intents; two books without liveness; three crashes
without a failing call; two crashes and one failing call, and one crash and two,
without sidecars and with three cleanup intents.

A quarantined folder that goes with `vaults/` into the next quarantine sets
`buried`: its own intent no longer finds it there, the folder shares the fate of
the other intent, and no line of the sources promises otherwise.  `KeptFolders`
and `StartTidies` speak of histories without that; it takes two quarantines that
stay behind, hence two crashes or failing calls.

`retried_reset`: a reset that is the first request after an interrupted one does
not reconcile it; the `getDb` inside rolls the earlier one back over the new
quarantine and the reset reports success with the old books still there
(`ResetClears`).  Two intents for the same files set `entangled`, by which the
other properties exclude it.

`CHECK_DEADLOCK FALSE`: the identities run out.  Fairness: a request runs to its
end, a dead server is started again, and a started one is read from.

### Proved

For any sidecars, libraries, intents, books, crashes and failing calls:

* `TypeCorrect`: `Spec => []TypeOK`.
* `OpenLibraryIsCurrent`, `PreparedIsKept`: `OpenIsCurrent` and `PreparedKeepsOld`.
  `FilesInv` follows the prepared intent.  Either the reset that wrote it still
  holds it (`Owned`) or it was left to the next `getDb` (`Interrupted`), which
  opens no library before the files are back; there is never more than one, and
  each file on its list is in place or aside (`OldWhole`).  Without one, the live
  files are of a single library (`Coherent`).
* `ImplementsShelf`: `KeepsShelf`.  `ShelfInv` adds that a library created by a reset
  is empty until that reset commits, so that rolling back and committing each are
  one change of the books or none.
* `FoldersAreKept`: `KeptFolders`, from `QuarantineInv` (a folder in quarantine has
  its intent) and `DropInv` (what is about to be removed is of books without a
  row).
* `StartsTidy`: `StartTidies`.  While no call has failed since the start, what is
  in quarantine is what the request in progress holds or what the start has yet
  to see (`CalmIntents`, `CalmFolders`).

All but the types are stated outside `entangled`, the last two outside `buried` as
well; both are states the code reaches and the properties are not kept in.
`Reopens` is liveness and stays with TLC, as does the refuted `ResetClears`.

## 10. Not modelled

* **Vault root transition**, **chapter edits**, **writing client**, **engine**:
  stateful and worth modelling; see the plan.
* **Backup and restore**: one transaction over a verified archive; the checks are
  pure computation.
* **AI runs and usage**: accounting rows; their refusals appear in WritingRun.
* **Native watcher, secrets, health, desktop updates**: platform I/O; the watcher
  reaches the models as the source of file events.
* **Providers, prompts, exporters, search, interface**: pure rendering, text
  processing and model calls without shared state.
* Within the modelled parts, what each section above lists as left out.
