----------------------------- MODULE WritingRun -----------------------------
(***************************************************************************)
(* The autonomous writing run of one novel (POST /api/novels/[id]/         *)
(* start-writing): the writing lock kept in the novels row, the run        *)
(* history in writing_jobs, the chapters written under the lock, and the   *)
(* two other clients of the lock that change chapters: the author's save   *)
(* (PATCH chapters/[n]) and the regeneration of the outline.               *)
(*                                                                         *)
(* The server is one JavaScript thread over synchronous SQLite, so the     *)
(* code between two waits for the model is one atomic step here.  A run    *)
(* waits in "preflight" and "context" (model session, prompt context),     *)
(* "planning" (outline), "draft" (prose), "post", "post2" and "repair"     *)
(* (summary and validation), "revise" (Ralph revision) and "volume"        *)
(* (volume summary).  In "opening" and at the head of the batch "loop" it  *)
(* does not wait: there the run has the turn, and only the clock or the    *)
(* death of the process comes between.                                     *)
(***************************************************************************)
EXTENDS Integers, FiniteSets

CONSTANTS
  Runs,          \* start-writing requests; a run doubles as its lock token
  Replans,       \* blueprint/regenerate requests, likewise
  NoOne,         \* writing_lock_token IS NULL, or no stored outline
  Author,        \* the human writer
  N,             \* chapters in the outline
  MaxQuota,      \* MAX_START_WRITING_CHAPTERS_PER_REQUEST
  MaxVersion     \* bound on the chapter version the author may reach

ASSUME HoldersAssumption ==
  /\ NoOne \notin Runs \cup Replans
  /\ Author \notin Runs \cup Replans
  /\ Author # NoOne
  /\ Runs \cap Replans = {}
ASSUME NAssumption == N \in Nat \ {0}
ASSUME QuotaAssumption == MaxQuota \in Nat \ {0}
ASSUME VersionAssumption == MaxVersion \in Nat

VARIABLES
  lockOwner,     \* novels.writing_lock_token
  lockLive,      \* novels.writing_lock_expires_at >= now
  stage,         \* novels.stage
  outline,       \* who stored the blueprint
  chapter,       \* the chapters table
  job,           \* writing_jobs.status, one row per run that opened one
  run,           \* the local state of each request
  replan         \* the local state of each regeneration

vars == <<lockOwner, lockLive, stage, outline, chapter, job, run, replan>>
lockVars == <<lockOwner, lockLive>>

-----------------------------------------------------------------------------
Chapters == 1..N
Holders == Runs \cup Replans
None == -1                       \* no version

Stages == {"ready_for_greenlight", "autonomous_writing", "whole_book_unification"}

(***************************************************************************)
(* A chapters row.  by is who wrote the current prose, summaryOf the       *)
(* version of the prose the stored summary was computed from, stale the    *)
(* flag generation_meta.summaryStale.                                      *)
(***************************************************************************)
ChapterRow ==
  [status: {"none", "content_saved", "complete"}, version: Nat,
   by: Runs \cup {Author}, summaryOf: Nat \cup {None}, stale: BOOLEAN]

Absent ==
  [status |-> "none", version |-> 0, by |-> Author, summaryOf |-> None,
   stale |-> FALSE]

Terminal == {"paused", "completed", "failed"}
JobStatus == {"none", "running"} \cup Terminal

Waiting ==
  {"preflight", "context", "planning", "draft", "post", "revise", "post2",
   "repair", "volume"}
InTurn == {"opening", "loop"}
Active == Waiting \cup InTurn
Streaming == Active \ {"preflight", "context"}     \* the stream and the job exist
Batch == Streaming \ {"opening", "planning"}       \* inside the chapter batch

(***************************************************************************)
(* The locals of executeStartWriting: view is existingByNumber, written is *)
(* writtenThisBatch, origin and hadChapters what the run found when it     *)
(* started, plan the outline it writes from.  The request bounds the batch *)
(* by until (untilChapter) or, when until is None, by quota                *)
(* (chaptersLimit).  cancelled is lifecycle.isCancelled(), lost            *)
(* lease.hasLost().                                                        *)
(***************************************************************************)
RunState ==
  [pc: {"idle", "done", "crashed"} \cup Active,
   view: [Chapters -> ChapterRow], written: Nat, cancelled: BOOLEAN,
   lost: BOOLEAN, origin: Stages, hadChapters: BOOLEAN, quota: 1..MaxQuota,
   until: Chapters \cup {None}, plan: Holders \cup {NoOne, Author}]

IdleRun ==
  [pc |-> "idle", view |-> [c \in Chapters |-> Absent], written |-> 0,
   cancelled |-> FALSE, lost |-> FALSE, origin |-> "ready_for_greenlight",
   hadChapters |-> FALSE, quota |-> 1, until |-> None, plan |-> NoOne]

EndedRun(pc) == [IdleRun EXCEPT !.pc = pc]

\* A regeneration replaces the outline from one chapter on.
ReplanState == [pc: {"idle", "planning", "done", "crashed"}, from: Chapters]

TypeOK ==
  /\ lockOwner \in Holders \cup {NoOne}
  /\ lockLive \in BOOLEAN
  /\ stage \in Stages
  /\ outline \in Holders \cup {NoOne, Author}
  /\ chapter \in [Chapters -> ChapterRow]
  /\ job \in [Runs -> JobStatus]
  /\ run \in [Runs -> RunState]
  /\ replan \in [Replans -> ReplanState]

Init ==
  /\ lockOwner = NoOne
  /\ lockLive = FALSE
  /\ stage = "ready_for_greenlight"
  /\ outline \in {NoOne, Author}
  /\ chapter = [c \in Chapters |-> Absent]
  /\ job = [r \in Runs |-> "none"]
  /\ run = [r \in Runs |-> IdleRun]
  /\ replan = [g \in Replans |-> [pc |-> "idle", from |-> 1]]

-----------------------------------------------------------------------------
\* One thread: while a run has the turn, no other request moves.
NoTurn == \A q \in Runs : run[q].pc \notin InTurn
At(r, pcs) ==
  /\ run[r].pc \in pcs
  /\ \A q \in Runs \ {r} : run[q].pc \notin InTurn

-----------------------------------------------------------------------------
(***************************************************************************)
(* The writing lock.  A lapsed lock stays in the row until someone takes   *)
(* it over or its owner releases it; only its expiry, not its token, tells *)
(* that it lapsed.                                                         *)
(***************************************************************************)
LockFree == lockOwner = NoOne \/ ~lockLive
OwnsLock(h) == lockOwner = h /\ lockLive

AcquireLock(h) ==
  /\ LockFree
  /\ lockOwner' = h
  /\ lockLive' = TRUE

\* The release matches the token alone, so it also clears a lapsed lock.
ReleaseLock(h) ==
  IF lockOwner = h THEN lockOwner' = NoOne /\ lockLive' = FALSE
                   ELSE UNCHANGED lockVars

\* Wall-clock time passes the expiry before anyone renewed (a suspended
\* laptop, a stalled process, a failed renewal query).
LockExpires ==
  /\ lockOwner # NoOne
  /\ lockLive
  /\ lockLive' = FALSE
  /\ UNCHANGED <<lockOwner, stage, outline, chapter, job, run, replan>>

-----------------------------------------------------------------------------
(***************************************************************************)
(* Writing jobs and their terminal settlement.                             *)
(***************************************************************************)

\* Faults: the crashed run's job is left running; a finished one is reclaimed.
OpenedJobs_NoReclaim(r) == [job EXCEPT ![r] = "running"]
OpenedJobs_ReclaimsAll(r) ==
  [q \in Runs |->
     IF q = r THEN "running" ELSE IF job[q] # "none" THEN "paused" ELSE "none"]

\* createWritingJob: reclaim every running job, then insert this one.
OpenedJobs(r) ==
  [q \in Runs |->
     IF q = r THEN "running"
     ELSE IF job[q] = "running" THEN "paused" ELSE job[q]]

JobStatusFor(reason) ==
  IF reason = "complete" THEN "completed"
  ELSE IF reason \in {"error", "lock_failed"} THEN "failed"
  ELSE "paused"

IsComplete(row) == row.status = "complete"
CompleteIn(view) == {c \in Chapters : IsComplete(view[c])}

\* completedChapters > 0; it is counted only once the outline is there.
MadeProgress(rec) == rec.pc \in Batch /\ CompleteIn(rec.view) # {}

\* The stage an ended run leaves the novel in.
SettledStage(reason, rec) ==
  IF reason = "complete" THEN "whole_book_unification"
  ELSE IF reason = "batch_complete" \/ MadeProgress(rec) \/ ~rec.hadChapters
  THEN "autonomous_writing"
  ELSE rec.origin

\* UPDATE writing_jobs ... WHERE id = ? AND status = 'running' matches one row.
CanSettle(r) == job[r] = "running"

(***************************************************************************)
(* The end of a run: one transaction writes the novel and the job or, when *)
(* it fails, neither (a superseded job, or the database refuses it); it is *)
(* never tried again.  Then the stream releases the lock.  stage0 is the   *)
(* stage as the same step has already left it.                             *)
(***************************************************************************)
Settle(r, reason, rec, stage0) ==
  /\ \/ /\ CanSettle(r)
        /\ stage' = SettledStage(reason, rec)
        /\ job' = [job EXCEPT ![r] = JobStatusFor(reason)]
     \/ /\ stage' = stage0
        /\ job' = job
  /\ ReleaseLock(r)
  /\ run' = [run EXCEPT ![r] = EndedRun("done")]

\* Why a cancelled run ended: its client left, or its lock did.
CancelReason(rec) == IF rec.lost THEN "lock_failed" ELSE "aborted"

-----------------------------------------------------------------------------
(***************************************************************************)
(* The route: lock, stage gate, snapshot of the chapters, job.             *)
(***************************************************************************)
Start(r) ==
  /\ At(r, {"idle"})
  /\ AcquireLock(r)
  /\ \E q \in 1..MaxQuota, u \in Chapters \cup {None} :
       /\ u # None => q = 1
       /\ run' = [run EXCEPT ![r] =
                    [IdleRun EXCEPT !.pc = "preflight", !.origin = stage,
                                    !.quota = q, !.until = u]]
  /\ UNCHANGED <<stage, outline, chapter, job, replan>>

\* An exit of the route between the lock and the stream; each one releases
\* the lock in its own line.
Exits(r, wait) ==
  /\ At(r, {wait})
  /\ ReleaseLock(r)
  /\ run' = [run EXCEPT ![r] = EndedRun("done")]
  /\ UNCHANGED <<stage, outline, chapter, job, replan>>

\* The novel cannot be read, is gone, or is at another stage.
GateRefuses(r) == Exits(r, "preflight")

\* The Story Deck cannot be read or is incomplete.
DeckRefuses(r) == Exits(r, "preflight")

\* There is no model to write with.
SessionRefuses(r) == Exits(r, "preflight")

\* Fault: one of the exits, and no other, forgets to release the lock.
ContextFails_KeepsLock(r) ==
  /\ At(r, {"context"})
  /\ run' = [run EXCEPT ![r] = EndedRun("done")]
  /\ UNCHANGED <<lockOwner, lockLive, stage, outline, chapter, job, replan>>

\* The prompt's context cannot be built, or finds no novel any more.
ContextFails(r) == Exits(r, "context")

\* The database refuses the job.
JobFails(r) == Exits(r, "context")

PreflightFails(r) ==
  GateRefuses(r) \/ DeckRefuses(r) \/ SessionRefuses(r) \/ ContextFails(r) \/ JobFails(r)

ReadChapters(r) ==
  /\ At(r, {"preflight"})
  /\ run' = [run EXCEPT ![r].pc = "context", ![r].view = chapter,
                        ![r].hadChapters =
                          \E c \in Chapters : chapter[c].status # "none"]
  /\ UNCHANGED <<lockOwner, lockLive, stage, outline, chapter, job, replan>>

\* The job is opened and the run body starts; neither looks at the lock.
OpenJob(r) ==
  /\ At(r, {"context"})
  /\ job' = OpenedJobs(r)
  /\ stage' = "autonomous_writing"
  /\ run' = [run EXCEPT ![r].pc = "opening"]
  /\ UNCHANGED <<lockOwner, lockLive, outline, chapter, replan>>

-----------------------------------------------------------------------------
(***************************************************************************)
(* The outline.                                                            *)
(***************************************************************************)
Planned(r, p) == run' = [run EXCEPT ![r].pc = "loop", ![r].plan = p]

\* A stored outline is used as it is.
ReuseOutline(r) ==
  /\ At(r, {"opening"})
  /\ outline # NoOne
  /\ Planned(r, outline)
  /\ UNCHANGED <<lockOwner, lockLive, stage, outline, chapter, job, replan>>

AskForOutline(r) ==
  /\ At(r, {"opening"})
  /\ outline = NoOne
  /\ run' = [run EXCEPT ![r].pc = "planning"]
  /\ UNCHANGED <<lockOwner, lockLive, stage, outline, chapter, job, replan>>

\* The model's outline is stored unless the run was cancelled meanwhile.
GenerateOutline(r) ==
  /\ At(r, {"planning"})
  /\ ~run[r].cancelled
  /\ outline' = r
  /\ Planned(r, r)
  /\ UNCHANGED <<lockOwner, lockLive, stage, chapter, job, replan>>

(***************************************************************************)
(* Any wait may end in an exception (the model call, the database), which  *)
(* settles the run; a cancelled run settles as cancelled instead.          *)
(***************************************************************************)
RunFails(r) ==
  LET rec == run[r] IN
  /\ At(r, Streaming)
  /\ Settle(r, IF rec.cancelled THEN CancelReason(rec) ELSE "error", rec, stage)
  /\ UNCHANGED <<outline, chapter, replan>>

\* Every wait is followed by a test of the cancellation flag.
RunAborts(r) ==
  LET rec == run[r] IN
  /\ At(r, Batch)
  /\ rec.cancelled
  /\ Settle(r, CancelReason(rec), rec, stage)
  /\ UNCHANGED <<outline, chapter, replan>>

-----------------------------------------------------------------------------
(***************************************************************************)
(* The head of the batch loop: the next unfinished chapter of the outline, *)
(* the batch bound, the renewal at the chapter boundary.                   *)
(***************************************************************************)
Open(view) == Chapters \ CompleteIn(view)
Next1(view) == CHOOSE c \in Open(view) : \A d \in Open(view) : c <= d

\* Fault: one chapter too many.
ShouldStop_OffByOne(rec) ==
  \/ rec.written > MaxQuota
  \/ rec.until # None /\ Next1(rec.view) > rec.until
  \/ rec.until = None /\ rec.written > rec.quota

ShouldStop(rec) ==
  \/ rec.written >= MaxQuota
  \/ rec.until # None /\ Next1(rec.view) > rec.until
  \/ rec.until = None /\ rec.written >= rec.quota

\* The run goes on with the chapter its view says comes next.
AtLoop(r) ==
  /\ At(r, {"loop"})
  /\ ~run[r].cancelled
  /\ Open(run[r].view) # {}
  /\ ~ShouldStop(run[r])

BookDone(r) ==
  /\ At(r, {"loop"})
  /\ ~run[r].cancelled
  /\ Open(run[r].view) = {}
  /\ Settle(r, "complete", run[r], stage)
  /\ UNCHANGED <<outline, chapter, replan>>

BatchDone(r) ==
  /\ At(r, {"loop"})
  /\ ~run[r].cancelled
  /\ Open(run[r].view) # {}
  /\ ShouldStop(run[r])
  /\ Settle(r, "batch_complete", run[r], stage)
  /\ UNCHANGED <<outline, chapter, replan>>

\* Fault: a run that lost its lock at a chapter boundary just waits.
BoundaryRenewalFails_Waits(r) == FALSE

BoundaryRenewalFails(r) ==
  /\ AtLoop(r)
  /\ ~OwnsLock(r)
  /\ Settle(r, "lock_failed", run[r], stage)
  /\ UNCHANGED <<outline, chapter, replan>>

\* Saved prose without its metadata is repaired, never generated again.
BeginChapter(r) ==
  /\ AtLoop(r)
  /\ OwnsLock(r)
  /\ run' = [run EXCEPT ![r].pc =
               IF run[r].view[Next1(run[r].view)].status = "content_saved"
               THEN "repair" ELSE "draft"]
  /\ UNCHANGED <<lockOwner, lockLive, stage, outline, chapter, job, replan>>

-----------------------------------------------------------------------------
(***************************************************************************)
(* The fences of the chapter writes.  Each is part of the SQL statement    *)
(* that writes: the token still owns an unexpired lock and the row still   *)
(* has the version the run knows (None when the run knows of no row).      *)
(***************************************************************************)
KnownVersion(row) == IF row.status = "none" THEN None ELSE row.version

\* Faults: the statement does not look at the lock, or at nothing at all.
UpsertFence_NoLock(r, c) ==
  chapter[c].status # "none" =>
    chapter[c].version = KnownVersion(run[r].view[c])
UpsertFence_Open(r, c) == TRUE

UpsertFence(r, c) ==
  /\ OwnsLock(r)
  /\ chapter[c].status # "none" =>
       chapter[c].version = KnownVersion(run[r].view[c])

MetaFence(r, c) ==
  /\ OwnsLock(r)
  /\ chapter[c].status # "none"
  /\ chapter[c].version = KnownVersion(run[r].view[c])

\* The row upsertChapter leaves: new at version 0, or the next version.
SavedRow(r, c) ==
  IF chapter[c].status = "none"
  THEN [Absent EXCEPT !.status = "content_saved", !.by = r]
  ELSE [chapter[c] EXCEPT !.status = "content_saved", !.by = r,
                          !.version = run[r].view[c].version + 1]

\* The row updateChapterMeta leaves: its summary is of the prose in view.
CompletedRow(r, c) ==
  [chapter[c] EXCEPT !.status = "complete", !.stale = FALSE,
                     !.summaryOf = run[r].view[c].version]

\* registerSavedOutcome and the tail of the loop body count a completion.
Counted(rec, row) ==
  [rec EXCEPT !.written = @ + 1, !.view[Next1(rec.view)] = row]

\* "Persist progress bookmark without claiming chapter completion."
Bookmark == "autonomous_writing"

-----------------------------------------------------------------------------
(***************************************************************************)
(* writeChapter.  Prose, then content_saved, then usage and a renewal.     *)
(***************************************************************************)
DraftSaved(r) ==
  LET rec == run[r]
      c == Next1(rec.view)
      row == SavedRow(r, c)
  IN
  /\ At(r, {"draft"})
  /\ ~rec.cancelled
  /\ UpsertFence(r, c)
  /\ chapter' = [chapter EXCEPT ![c] = row]
  /\ run' = [run EXCEPT ![r].pc = "post", ![r].view[c] = row]
  /\ UNCHANGED <<lockOwner, lockLive, stage, outline, job, replan>>

\* The upsert is refused: nothing was saved.
DraftRefused(r) ==
  /\ At(r, {"draft"})
  /\ ~run[r].cancelled
  /\ ~UpsertFence(r, Next1(run[r].view))
  /\ Settle(r, "lock_failed", run[r], stage)
  /\ UNCHANGED <<outline, chapter, replan>>

\* The prose is saved but its usage record is refused.
DraftUsageFails(r) ==
  LET rec == run[r]
      c == Next1(rec.view)
      saved == [rec EXCEPT !.view[c] = SavedRow(r, c)]
  IN
  /\ At(r, {"draft"})
  /\ ~rec.cancelled
  /\ UpsertFence(r, c)
  /\ chapter' = [chapter EXCEPT ![c] = SavedRow(r, c)]
  /\ Settle(r, "error", saved, Bookmark)
  /\ UNCHANGED <<outline, replan>>

\* Before a revision and before completing, the lock is renewed, and both
\* writes are fenced; refused, the saved prose is bookmarked and the run fails.
RefusedAfterSave(r) ==
  /\ At(r, {"post", "post2", "revise"})
  /\ ~run[r].cancelled
  /\ ~MetaFence(r, Next1(run[r].view))
  /\ Settle(r, "lock_failed", run[r], Bookmark)
  /\ UNCHANGED <<outline, chapter, replan>>

BeginRevision(r) ==
  /\ At(r, {"post"})
  /\ ~run[r].cancelled
  /\ OwnsLock(r)
  /\ run' = [run EXCEPT ![r].pc = "revise"]
  /\ UNCHANGED <<lockOwner, lockLive, stage, outline, chapter, job, replan>>

RevisionSaved(r) ==
  LET rec == run[r]
      c == Next1(rec.view)
      row == SavedRow(r, c)
  IN
  /\ At(r, {"revise"})
  /\ ~rec.cancelled
  /\ UpsertFence(r, c)
  /\ chapter' = [chapter EXCEPT ![c] = row]
  /\ run' = [run EXCEPT ![r].pc = "post2", ![r].view[c] = row]
  /\ UNCHANGED <<lockOwner, lockLive, stage, outline, job, replan>>

\* The only step to complete: from the first pass, a revision that failed or
\* came back too short, or the second pass.
ChapterCompleted(r) ==
  LET rec == run[r]
      c == Next1(rec.view)
      row == CompletedRow(r, c)
  IN
  /\ At(r, {"post", "post2", "revise"})
  /\ ~rec.cancelled
  /\ MetaFence(r, c)
  /\ chapter' = [chapter EXCEPT ![c] = row]
  /\ run' = [run EXCEPT ![r] = [Counted(rec, row) EXCEPT !.pc = "volume"]]
  /\ UNCHANGED <<lockOwner, lockLive, stage, outline, job, replan>>

\* Complete, but the usage of its summary is refused: counted, then failed.
CompletionUsageFails(r) ==
  LET rec == run[r]
      c == Next1(rec.view)
      counted == Counted(rec, CompletedRow(r, c))
  IN
  /\ At(r, {"post", "post2", "revise", "repair"})
  /\ ~rec.cancelled
  /\ MetaFence(r, c)
  /\ chapter' = [chapter EXCEPT ![c] = CompletedRow(r, c)]
  /\ Settle(r, "error", counted, Bookmark)
  /\ UNCHANGED <<outline, replan>>

\* After the volume summary and its cancellation test, the next chapter.
VolumeDone(r) ==
  /\ At(r, {"volume"})
  /\ ~run[r].cancelled
  /\ run' = [run EXCEPT ![r].pc = "loop"]
  /\ UNCHANGED <<lockOwner, lockLive, stage, outline, chapter, job, replan>>

-----------------------------------------------------------------------------
(***************************************************************************)
(* completeSavedChapterPostProcessing: the repair of saved prose.          *)
(***************************************************************************)
RepairRefused(r) ==
  /\ At(r, {"repair"})
  /\ ~run[r].cancelled
  /\ ~MetaFence(r, Next1(run[r].view))
  /\ Settle(r, "lock_failed", run[r], stage)
  /\ UNCHANGED <<outline, chapter, replan>>

Repaired(r) ==
  LET rec == run[r]
      c == Next1(rec.view)
      counted == Counted(rec, CompletedRow(r, c))
  IN
  /\ At(r, {"repair"})
  /\ ~rec.cancelled
  /\ MetaFence(r, c)
  /\ chapter' = [chapter EXCEPT ![c] = CompletedRow(r, c)]
  /\ run' = [run EXCEPT ![r] = [counted EXCEPT !.pc = "loop"]]
  /\ UNCHANGED <<lockOwner, lockLive, stage, outline, job, replan>>

-----------------------------------------------------------------------------
(***************************************************************************)
(* The transport: a client that leaves, the renewal timer, a crash.        *)
(***************************************************************************)

\* The fetch is aborted.  Once the stream exists this also releases the lock,
\* while the run body still has to unwind.
ClientLeaves(r) ==
  /\ At(r, Waiting)
  /\ ~run[r].cancelled \/ (run[r].pc \in Streaming /\ lockOwner = r)
  /\ run' = [run EXCEPT ![r].cancelled = TRUE]
  /\ IF run[r].pc \in Streaming THEN ReleaseLock(r) ELSE UNCHANGED lockVars
  /\ UNCHANGED <<stage, outline, chapter, job, replan>>

\* The timer renews an owned lock in place; it cancels the run otherwise.
TimerFindsLockLost(r) ==
  /\ At(r, Waiting \cap Streaming)
  /\ ~run[r].lost
  /\ ~OwnsLock(r)
  /\ run' = [run EXCEPT ![r].lost = TRUE, ![r].cancelled = TRUE]
  /\ UNCHANGED <<lockOwner, lockLive, stage, outline, chapter, job, replan>>

\* The process dies: every request is gone, the database stays.
Crash ==
  /\ \/ \E r \in Runs : run[r].pc \in Active
     \/ \E g \in Replans : replan[g].pc = "planning"
  /\ run' = [r \in Runs |->
               IF run[r].pc \in Active THEN EndedRun("crashed") ELSE run[r]]
  /\ replan' = [g \in Replans |->
                  IF replan[g].pc = "planning"
                  THEN [replan[g] EXCEPT !.pc = "crashed"] ELSE replan[g]]
  /\ UNCHANGED <<lockOwner, lockLive, stage, outline, chapter, job>>

-----------------------------------------------------------------------------
(***************************************************************************)
(* The author's save takes the lock, compares the version, writes and      *)
(* releases in one step; without a match it writes nothing.                *)
(***************************************************************************)
AuthorMaySave == LockFree

\* Fault: the edit does not mark the summary stale.
EditedRow_KeepsSummaryFresh(c) ==
  [chapter[c] EXCEPT !.version = @ + 1, !.by = Author]

EditedRow(c) ==
  [chapter[c] EXCEPT !.version = @ + 1, !.by = Author,
                     !.stale = @ \/ chapter[c].summaryOf # None]

AuthorSaves(c) ==
  /\ NoTurn
  /\ AuthorMaySave
  /\ chapter[c].status # "none"
  /\ lockOwner' = NoOne
  /\ lockLive' = FALSE
  /\ \/ /\ chapter[c].version < MaxVersion
        /\ chapter' = [chapter EXCEPT ![c] = EditedRow(c)]
     \/ UNCHANGED chapter
  /\ UNCHANGED <<stage, outline, job, run, replan>>

(***************************************************************************)
(* Outline regeneration, of the whole book (from 1) or of its tail.        *)
(***************************************************************************)
ReplanStarts(g) ==
  /\ NoTurn
  /\ replan[g].pc = "idle"
  /\ stage \in {"ready_for_greenlight", "autonomous_writing"}
  /\ \E from \in Chapters :
       /\ IF from = 1 THEN \A c \in Chapters : chapter[c].status = "none"
                      ELSE outline # NoOne
       /\ replan' = [replan EXCEPT ![g] = [pc |-> "planning", from |-> from]]
  /\ AcquireLock(g)
  /\ UNCHANGED <<stage, outline, chapter, job, run>>

\* Fault: the regeneration commits without asking for its lock again.
ReplanStillOwns_Unasked(g) == TRUE

\* renewWritingLock just before the commit.
ReplanStillOwns(g) == OwnsLock(g)

ReplanCommits(g) ==
  /\ NoTurn
  /\ replan[g].pc = "planning"
  /\ ReplanStillOwns(g)
  /\ chapter' = [c \in Chapters |-> IF c >= replan[g].from THEN Absent ELSE chapter[c]]
  /\ outline' = g
  /\ replan' = [replan EXCEPT ![g].pc = "done"]
  /\ ReleaseLock(g)
  /\ UNCHANGED <<stage, job, run>>

ReplanFails(g) ==
  /\ NoTurn
  /\ replan[g].pc = "planning"
  /\ replan' = [replan EXCEPT ![g].pc = "done"]
  /\ ReleaseLock(g)
  /\ UNCHANGED <<stage, outline, chapter, job, run>>

-----------------------------------------------------------------------------
RouteStep(r) == Start(r) \/ PreflightFails(r) \/ ReadChapters(r) \/ OpenJob(r)

PlanStep(r) == ReuseOutline(r) \/ AskForOutline(r) \/ GenerateOutline(r)

EndStep(r) == RunFails(r) \/ RunAborts(r)

LoopStep(r) ==
  BookDone(r) \/ BatchDone(r) \/ BoundaryRenewalFails(r) \/ BeginChapter(r)

WriteStep(r) ==
  \/ DraftSaved(r) \/ DraftRefused(r) \/ DraftUsageFails(r)
  \/ RefusedAfterSave(r) \/ BeginRevision(r) \/ RevisionSaved(r)
  \/ ChapterCompleted(r) \/ CompletionUsageFails(r) \/ VolumeDone(r)

RepairStep(r) == RepairRefused(r) \/ Repaired(r)

\* What the server does for a started run without anyone's help: a failure is
\* not counted on, except where a cancelled run unwinds by one.
Progress(r) ==
  \/ ReadChapters(r) \/ OpenJob(r) \/ PlanStep(r) \/ LoopStep(r)
  \/ WriteStep(r) \/ RepairStep(r)
  \/ run[r].cancelled /\ EndStep(r)

RunStep(r) ==
  \/ RouteStep(r) \/ PlanStep(r) \/ EndStep(r) \/ LoopStep(r) \/ WriteStep(r)
  \/ RepairStep(r) \/ ClientLeaves(r) \/ TimerFindsLockLost(r)

ReplanStep(g) == ReplanStarts(g) \/ ReplanCommits(g) \/ ReplanFails(g)

Next ==
  \/ \E r \in Runs : RunStep(r)
  \/ \E g \in Replans : ReplanStep(g)
  \/ \E c \in Chapters : AuthorSaves(c)
  \/ LockExpires
  \/ Crash

Spec == Init /\ [][Next]_vars

(***************************************************************************)
(* Every model call ends: the provider answers, fails, or times out, and   *)
(* its continuation is scheduled.  Nothing is assumed of clients, timers   *)
(* or clocks.                                                              *)
(***************************************************************************)
FairSpec == Spec /\ \A r \in Runs : WF_vars(Progress(r))

-----------------------------------------------------------------------------
(***************************************************************************)
(* "We hold the lock; existingChapters is authoritative for the duration": *)
(* while a run owns the live lock its snapshot is the chapters table.      *)
(***************************************************************************)
OwnerViewIsCurrent ==
  \A r \in Runs :
    OwnsLock(r) /\ run[r].pc \in Active \ {"preflight"} => run[r].view = chapter

\* A novel never shows two running jobs, however many runs crashed or lapsed.
OneRunningJob ==
  \A q, r \in Runs :
    job[q] = "running" /\ job[r] = "running" => q = r

\* A request that ended normally leaves no lock behind to block the next one;
\* only a crash does, until the lock lapses.
NoLeakedLock ==
  /\ lockOwner \in Runs => run[lockOwner].pc \in Active \cup {"crashed"}
  /\ lockOwner \in Replans => replan[lockOwner].pc \in {"planning", "crashed"}

\* The stored summary of a complete chapter is of the prose stored with it,
\* or the row says that it is stale.
SummaryMatchesProse ==
  \A c \in Chapters :
    chapter[c].status = "complete" =>
      chapter[c].stale \/ chapter[c].summaryOf = chapter[c].version

\* A run replaces no prose but its own: not the author's, not another run's,
\* not what an earlier run saved and a resume has only to repair.
ProseIsOwn ==
  [][\A r \in Runs, c \in Chapters :
       /\ run'[r] # run[r]
       /\ chapter[c].status # "none"
       /\ <<chapter'[c].by, chapter'[c].version>>
            # <<chapter[c].by, chapter[c].version>>
       => chapter[c].by = r]_vars

\* A terminal job is history: no later run, retry or reclaim rewrites it.
TerminalJobsStay ==
  [][\A r \in Runs :
       job[r] \in Terminal
         => job'[r] = job[r]]_vars

\* A run that finishes the book while it owns the lock finishes a whole book.
OwnedFinishIsWhole ==
  [][\A r \in Runs :
       OwnsLock(r) /\ job[r] = "running" /\ job'[r] = "completed"
         => \A c \in Chapters : chapter[c].status = "complete"]_vars

\* A run completes no chapter beyond what its request asked for.
BatchQuota ==
  [][\A r \in Runs, c \in Chapters :
       /\ run'[r] # run[r]
       /\ chapter[c].status # "complete"
       /\ chapter'[c].status = "complete"
       => IF run[r].until = None THEN run[r].written < run[r].quota
                                 ELSE c <= run[r].until]_vars

\* A started run ends, whatever happened to its lock, unless the process dies.
RunsEnd ==
  \A r \in Runs : run[r].pc \in Active ~> run[r].pc \in {"done", "crashed"}

(***************************************************************************)
(* The chapters as the abstract specification sees them.                   *)
(***************************************************************************)
LedgerRow(c) ==
  [status |-> chapter[c].status, version |-> chapter[c].version, by |-> chapter[c].by]

Ledger ==
  INSTANCE ChapterLedger WITH
    Writers <- Runs, Planners <- Replans,
    holder <- IF lockLive THEN lockOwner ELSE NoOne,
    row <- [c \in Chapters |-> LedgerRow(c)]

\* Runs, regenerations and the author, through all lapses and takeovers of
\* the lock, do to the chapters only what ChapterLedger allows.
KeepsLedger == Ledger!Spec

-----------------------------------------------------------------------------
(***************************************************************************)
(* What comments and documents say and the code does not do.               *)
(***************************************************************************)

\* "Real full-book completion": the step into whole_book_unification finds
\* every chapter complete.
FinishedBookIsWhole ==
  [][\A r \in Runs :
       job[r] = "running" /\ job'[r] = "completed"
         => \A c \in Chapters : chapter[c].status = "complete"]_vars
=============================================================================
