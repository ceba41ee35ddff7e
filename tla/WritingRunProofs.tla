-------------------------- MODULE WritingRunProofs --------------------------
(***************************************************************************)
(* Proofs about WritingRun, for every number of requests, regenerations,   *)
(* chapters and every batch bound.                                         *)
(***************************************************************************)
EXTENDS WritingRun, WellFoundedInduction, TLAPS

-----------------------------------------------------------------------------
(***************************************************************************)
(* The values the steps build have their types.                            *)
(***************************************************************************)

\* A row that is not there is a row.
LEMMA AbsentType == Absent \in ChapterRow
  BY DEF Absent, ChapterRow, None

\* A run that has not started is a run state; so is one that ended.
LEMMA IdleRunType ==
  /\ IdleRun \in RunState
  /\ \A pc \in {"done", "crashed"} : EndedRun(pc) \in RunState
<1>1. [c \in Chapters |-> Absent] \in [Chapters -> ChapterRow]
  BY AbsentType
<1>2. 1 \in 1..MaxQuota
  BY QuotaAssumption
<1>3. IdleRun \in RunState
  BY <1>1, <1>2 DEF IdleRun, RunState, Stages
<1>4. ASSUME NEW pc \in {"done", "crashed"}
      PROVE  EndedRun(pc) \in RunState
  BY <1>3 DEF EndedRun, RunState
<1> QED BY <1>3, <1>4

\* A saved or completed chapter is a row.
LEMMA RowTypes ==
  ASSUME TypeOK, NEW r \in Runs, NEW c \in Chapters
  PROVE  /\ SavedRow(r, c) \in ChapterRow
         /\ CompletedRow(r, c) \in ChapterRow
         /\ EditedRow(c) \in ChapterRow
<1>1. chapter[c] \in ChapterRow /\ run[r].view[c] \in ChapterRow
  BY DEF TypeOK, RunState
<1>2. SavedRow(r, c) \in ChapterRow
  <2>1. CASE chapter[c].status = "none"
    BY <2>1, AbsentType DEF SavedRow, ChapterRow
  <2>2. CASE chapter[c].status # "none"
    <3>1. run[r].view[c].version + 1 \in Nat
      BY <1>1 DEF ChapterRow
    <3> QED BY <1>1, <2>2, <3>1 DEF SavedRow, ChapterRow
  <2> QED BY <2>1, <2>2
<1>3. CompletedRow(r, c) \in ChapterRow
  BY <1>1 DEF CompletedRow, ChapterRow
<1>4. EditedRow(c) \in ChapterRow
  <2>1. (chapter[c].stale \/ chapter[c].summaryOf # None) \in BOOLEAN
    OBVIOUS
  <2>2. chapter[c].version + 1 \in Nat
    BY <1>1 DEF ChapterRow
  <2> QED BY <1>1, <2>1, <2>2 DEF EditedRow, ChapterRow
<1> QED BY <1>2, <1>3, <1>4

\* Releasing the lock keeps it a lock.
LEMMA ReleaseType ==
  ASSUME TypeOK, NEW h, ReleaseLock(h)
  PROVE  lockOwner' \in Holders \cup {NoOne} /\ lockLive' \in BOOLEAN
  BY DEF TypeOK, ReleaseLock, lockVars

\* The settlement of a run keeps all the types it touches.
LEMMA SettleType ==
  ASSUME TypeOK, NEW r \in Runs, NEW reason, NEW rec, rec.origin \in Stages,
         NEW stage0 \in Stages, Settle(r, reason, rec, stage0)
  PROVE  /\ lockOwner' \in Holders \cup {NoOne}
         /\ lockLive' \in BOOLEAN
         /\ stage' \in Stages
         /\ job' \in [Runs -> JobStatus]
         /\ run' \in [Runs -> RunState]
<1>1. ReleaseLock(r) /\ run' = [run EXCEPT ![r] = EndedRun("done")]
  BY DEF Settle
<1>2. run' \in [Runs -> RunState]
  BY <1>1, IdleRunType DEF TypeOK
<1>3. SettledStage(reason, rec) \in Stages
  BY DEF SettledStage, Stages
<1>4. JobStatusFor(reason) \in JobStatus
  BY DEF JobStatusFor, JobStatus, Terminal
<1>5. stage' \in Stages /\ job' \in [Runs -> JobStatus]
  BY <1>3, <1>4 DEF Settle, TypeOK
<1> QED BY <1>1, <1>2, <1>5, ReleaseType

-----------------------------------------------------------------------------
(***************************************************************************)
(* Type correctness.                                                       *)
(***************************************************************************)

\* The initial state is well typed.
LEMMA InitTypeOK == Init => TypeOK
<1> SUFFICES ASSUME Init PROVE TypeOK
  OBVIOUS
<1>1. chapter \in [Chapters -> ChapterRow]
  BY AbsentType DEF Init
<1>2. run \in [Runs -> RunState]
  BY IdleRunType DEF Init
<1>3. replan \in [Replans -> ReplanState]
  BY NAssumption DEF Init, ReplanState, Chapters
<1> QED BY <1>1, <1>2, <1>3 DEF Init, TypeOK, Stages, JobStatus, Holders

\* Where a run can be.
LEMMA ActiveNames ==
  {"preflight", "context", "opening", "planning", "loop", "draft", "post",
   "revise", "post2", "repair", "volume"} = Active
  BY DEF Active, Waiting, InTurn

\* A run that moves on is a run state, and so are all runs then.
LEMMA MoveType ==
  ASSUME TypeOK, NEW r \in Runs, NEW pc \in Active
  PROVE  /\ [run[r] EXCEPT !.pc = pc] \in RunState
         /\ [run EXCEPT ![r].pc = pc] \in [Runs -> RunState]
<1>1. run[r] \in RunState
  BY DEF TypeOK
<1>2. [run[r] EXCEPT !.pc = pc] \in RunState
  BY <1>1 DEF RunState
<1> QED BY <1>2 DEF TypeOK

\* The route keeps the types.
LEMMA RouteTypes ==
  ASSUME TypeOK, NEW r \in Runs, RouteStep(r)
  PROVE  TypeOK'
<1>1. CASE Start(r)
  <2>1. PICK q \in 1..MaxQuota, u \in Chapters \cup {None} :
          run' = [run EXCEPT ![r] =
                    [IdleRun EXCEPT !.pc = "preflight", !.origin = stage,
                                    !.quota = q, !.until = u]]
    BY <1>1 DEF Start
  <2>2. [IdleRun EXCEPT !.pc = "preflight", !.origin = stage,
                        !.quota = q, !.until = u] \in RunState
    BY IdleRunType, ActiveNames DEF RunState, TypeOK
  <2>3. run' \in [Runs -> RunState]
    BY <2>1, <2>2 DEF TypeOK
  <2> QED BY <1>1, <2>3 DEF Start, AcquireLock, TypeOK, Holders
<1>2. CASE PreflightFails(r)
  BY <1>2, IdleRunType, ReleaseType DEF PreflightFails, GateRefuses, DeckRefuses,
       SessionRefuses, ContextFails, JobFails, Exits, TypeOK
<1>3. CASE ReadChapters(r)
  <2>1. run[r] \in RunState /\ chapter \in [Chapters -> ChapterRow]
    BY DEF TypeOK
  <2>2. [run[r] EXCEPT !.pc = "context", !.view = chapter,
                       !.hadChapters = \E c \in Chapters : chapter[c].status # "none"]
          \in RunState
    BY <2>1, ActiveNames DEF RunState
  <2>3. run' \in [Runs -> RunState]
    BY <1>3, <2>2 DEF ReadChapters, TypeOK
  <2> QED BY <1>3, <2>3 DEF ReadChapters, TypeOK
<1>4. CASE OpenJob(r)
  <2>1. run' \in [Runs -> RunState]
    BY <1>4, MoveType, ActiveNames DEF OpenJob
  <2>2. OpenedJobs(r) \in [Runs -> JobStatus]
    BY DEF OpenedJobs, TypeOK, JobStatus, Terminal
  <2> QED BY <1>4, <2>1, <2>2 DEF OpenJob, TypeOK, Stages
<1> QED BY <1>1, <1>2, <1>3, <1>4 DEF RouteStep

\* Planning keeps the types.
LEMMA PlanTypes ==
  ASSUME TypeOK, NEW r \in Runs, PlanStep(r)
  PROVE  TypeOK'
<1>1. ASSUME NEW p \in Holders \cup {NoOne, Author}, Planned(r, p)
      PROVE  run' \in [Runs -> RunState]
  <2>1. run[r] \in RunState
    BY DEF TypeOK
  <2>2. [run[r] EXCEPT !.pc = "loop", !.plan = p] \in RunState
    BY <2>1, ActiveNames DEF RunState
  <2> QED BY <1>1, <2>2 DEF Planned, TypeOK
<1>2. CASE ReuseOutline(r)
  BY <1>1, <1>2 DEF ReuseOutline, TypeOK
<1>3. CASE AskForOutline(r)
  <2>1. run' \in [Runs -> RunState]
    BY <1>3, MoveType, ActiveNames DEF AskForOutline
  <2> QED BY <1>3, <2>1 DEF AskForOutline, TypeOK
<1>4. CASE GenerateOutline(r)
  BY <1>1, <1>4 DEF GenerateOutline, TypeOK, Holders
<1> QED BY <1>2, <1>3, <1>4 DEF PlanStep

\* What a run found when it started is a stage.
LEMMA OriginType ==
  ASSUME TypeOK, NEW r \in Runs
  PROVE  run[r].origin \in Stages
  BY DEF TypeOK, RunState

\* Steps that only settle a run keep the types.
LEMMA SettlingTypes ==
  ASSUME TypeOK, NEW r \in Runs,
         \/ RunFails(r) \/ RunAborts(r) \/ BookDone(r) \/ BatchDone(r)
         \/ BoundaryRenewalFails(r) \/ DraftRefused(r) \/ RefusedAfterSave(r)
         \/ RepairRefused(r)
  PROVE  TypeOK'
<1>1. PICK reason : Settle(r, reason, run[r], stage) \/ Settle(r, reason, run[r], Bookmark)
  BY DEF RunFails, RunAborts, BookDone, BatchDone, BoundaryRenewalFails,
         DraftRefused, RefusedAfterSave, RepairRefused
<1>2. UNCHANGED <<outline, chapter, replan>>
  BY DEF RunFails, RunAborts, BookDone, BatchDone, BoundaryRenewalFails,
         DraftRefused, RefusedAfterSave, RepairRefused
<1>3. stage \in Stages /\ Bookmark \in Stages
  BY DEF TypeOK, Bookmark, Stages
<1> QED BY <1>1, <1>2, <1>3, OriginType, SettleType DEF TypeOK

\* A run whose view of one chapter changed is a run state.
LEMMA ViewType ==
  ASSUME TypeOK, NEW r \in Runs, NEW c, NEW row,
         c \in Chapters => row \in ChapterRow
  PROVE  /\ [run[r] EXCEPT !.view[c] = row] \in RunState
         /\ [chapter EXCEPT ![c] = row] \in [Chapters -> ChapterRow]
<1>1. run[r] \in RunState /\ run[r].view \in [Chapters -> ChapterRow]
  BY DEF TypeOK, RunState
<1>2. [run[r].view EXCEPT ![c] = row] \in [Chapters -> ChapterRow]
  BY <1>1
<1>3. [run[r] EXCEPT !.view[c] = row] \in RunState
  BY <1>1, <1>2 DEF RunState
<1> QED BY <1>3 DEF TypeOK

\* So is one that also moved on, or counted the chapter.
LEMMA SavedType ==
  ASSUME TypeOK, NEW r \in Runs, NEW c, NEW row, NEW pc \in Active,
         c \in Chapters => row \in ChapterRow
  PROVE  [run EXCEPT ![r].pc = pc, ![r].view[c] = row] \in [Runs -> RunState]
<1>1. run[r] \in RunState /\ run[r].view \in [Chapters -> ChapterRow]
  BY DEF TypeOK, RunState
<1>2. [run[r].view EXCEPT ![c] = row] \in [Chapters -> ChapterRow]
  BY <1>1
<1>3. [run[r] EXCEPT !.pc = pc, !.view[c] = row] \in RunState
  BY <1>1, <1>2 DEF RunState
<1> QED BY <1>3 DEF TypeOK

LEMMA CountedType ==
  ASSUME TypeOK, NEW r \in Runs, NEW row, NEW pc \in Active,
         Next1(run[r].view) \in Chapters => row \in ChapterRow
  PROVE  /\ Counted(run[r], row).origin \in Stages
         /\ [run EXCEPT ![r] = [Counted(run[r], row) EXCEPT !.pc = pc]]
              \in [Runs -> RunState]
<1> DEFINE c == Next1(run[r].view)
<1>1. /\ run[r] \in RunState
      /\ run[r].view \in [Chapters -> ChapterRow]
      /\ run[r].written + 1 \in Nat
  BY DEF TypeOK, RunState
<1>2. [run[r].view EXCEPT ![c] = row] \in [Chapters -> ChapterRow]
  BY <1>1
<1> HIDE DEF c
<1>3. [run[r] EXCEPT !.written = @ + 1, !.view[c] = row] \in RunState
  BY <1>1, <1>2 DEF RunState
<1>4. Counted(run[r], row) \in RunState
  BY <1>3 DEF Counted, c
<1>5. [Counted(run[r], row) EXCEPT !.pc = pc] \in RunState
  BY <1>4 DEF RunState
<1>6. Counted(run[r], row).origin \in Stages
  BY <1>4 DEF RunState
<1> QED BY <1>5, <1>6 DEF TypeOK

\* Writing and repairing keep the types.
LEMMA WriteTypes ==
  ASSUME TypeOK, NEW r \in Runs, WriteStep(r) \/ RepairStep(r)
  PROVE  TypeOK'
<1> DEFINE c == Next1(run[r].view)
<1>1. /\ c \in Chapters => SavedRow(r, c) \in ChapterRow
      /\ c \in Chapters => CompletedRow(r, c) \in ChapterRow
  BY RowTypes
<1>2. Bookmark \in Stages
  BY DEF Bookmark, Stages
<1>3. CASE DraftSaved(r) \/ RevisionSaved(r)
  <2>1. PICK pc \in {"post", "post2"} :
          /\ chapter' = [chapter EXCEPT ![c] = SavedRow(r, c)]
          /\ run' = [run EXCEPT ![r].pc = pc, ![r].view[c] = SavedRow(r, c)]
    BY <1>3 DEF DraftSaved, RevisionSaved
  <2>2. pc \in Active
    BY ActiveNames
  <2> HIDE DEF c
  <2>3. chapter' \in [Chapters -> ChapterRow]
    BY <1>1, <2>1, ViewType
  <2>4. run' \in [Runs -> RunState]
    BY <1>1, <2>1, <2>2, SavedType
  <2> QED BY <1>3, <2>3, <2>4 DEF DraftSaved, RevisionSaved, TypeOK
<1>4. CASE DraftUsageFails(r)
  <2>1. [run[r] EXCEPT !.view[c] = SavedRow(r, c)] \in RunState
    BY <1>1, ViewType
  <2>2. [run[r] EXCEPT !.view[c] = SavedRow(r, c)].origin \in Stages
    BY <2>1 DEF RunState
  <2>3. chapter' \in [Chapters -> ChapterRow]
    BY <1>1, <1>4, ViewType DEF DraftUsageFails
  <2> QED BY <1>2, <1>4, <2>2, <2>3, SettleType DEF DraftUsageFails, TypeOK
<1>5. CASE DraftRefused(r) \/ RefusedAfterSave(r) \/ RepairRefused(r)
  BY <1>5, SettlingTypes
<1>6. CASE BeginRevision(r) \/ VolumeDone(r)
  <2>1. PICK pc \in {"revise", "loop"} : run' = [run EXCEPT ![r].pc = pc]
    BY <1>6 DEF BeginRevision, VolumeDone
  <2>2. pc \in Active
    BY ActiveNames
  <2>3. run' \in [Runs -> RunState]
    BY <2>1, <2>2, MoveType
  <2> QED BY <1>6, <2>3 DEF BeginRevision, VolumeDone, TypeOK
<1>7. CASE ChapterCompleted(r) \/ Repaired(r)
  <2>1. PICK pc \in {"volume", "loop"} :
          /\ chapter' = [chapter EXCEPT ![c] = CompletedRow(r, c)]
          /\ run' = [run EXCEPT ![r] =
                       [Counted(run[r], CompletedRow(r, c)) EXCEPT !.pc = pc]]
    BY <1>7 DEF ChapterCompleted, Repaired
  <2>2. pc \in Active
    BY ActiveNames
  <2>3. run' \in [Runs -> RunState]
    BY <1>1, <2>1, <2>2, CountedType
  <2> HIDE DEF c
  <2>4. chapter' \in [Chapters -> ChapterRow]
    BY <1>1, <2>1, ViewType
  <2> QED BY <1>7, <2>3, <2>4 DEF ChapterCompleted, Repaired, TypeOK
<1>8. CASE CompletionUsageFails(r)
  <2>1. chapter' \in [Chapters -> ChapterRow]
    <3>1. chapter' = [chapter EXCEPT ![c] = CompletedRow(r, c)]
      BY <1>8 DEF CompletionUsageFails
    <3> HIDE DEF c
    <3> QED BY <1>1, <3>1, ViewType
  <2>2. Counted(run[r], CompletedRow(r, c)).origin \in Stages
    BY <1>1, CountedType, ActiveNames
  <2> QED BY <1>2, <1>8, <2>1, <2>2, SettleType DEF CompletionUsageFails, TypeOK
<1> QED BY <1>3, <1>4, <1>5, <1>6, <1>7, <1>8 DEF WriteStep, RepairStep

\* So do the ends of runs, the loop and the transport.
LEMMA OtherRunTypes ==
  ASSUME TypeOK, NEW r \in Runs,
         EndStep(r) \/ LoopStep(r) \/ ClientLeaves(r) \/ TimerFindsLockLost(r)
  PROVE  TypeOK'
<1>1. CASE EndStep(r)
  BY <1>1, SettlingTypes DEF EndStep
<1>2. CASE LoopStep(r)
  <2>1. CASE BeginChapter(r)
    <3>1. run' \in [Runs -> RunState]
      BY <2>1, MoveType, ActiveNames DEF BeginChapter
    <3> QED BY <2>1, <3>1 DEF BeginChapter, TypeOK
  <2> QED BY <1>2, <2>1, SettlingTypes DEF LoopStep
<1>3. CASE ClientLeaves(r)
  <2>1. [run[r] EXCEPT !.cancelled = TRUE] \in RunState
    BY DEF TypeOK, RunState
  <2>2. run' \in [Runs -> RunState]
    BY <1>3, <2>1 DEF ClientLeaves, TypeOK
  <2>3. lockOwner' \in Holders \cup {NoOne} /\ lockLive' \in BOOLEAN
    BY <1>3, ReleaseType DEF ClientLeaves, TypeOK, lockVars
  <2> QED BY <1>3, <2>2, <2>3 DEF ClientLeaves, TypeOK
<1>4. CASE TimerFindsLockLost(r)
  <2>1. [run[r] EXCEPT !.lost = TRUE, !.cancelled = TRUE] \in RunState
    BY DEF TypeOK, RunState
  <2>2. run' \in [Runs -> RunState]
    BY <1>4, <2>1 DEF TimerFindsLockLost, TypeOK
  <2> QED BY <1>4, <2>2 DEF TimerFindsLockLost, TypeOK
<1> QED BY <1>1, <1>2, <1>3, <1>4

\* The other clients of the lock keep the types.
LEMMA ClientTypes ==
  ASSUME TypeOK, (\E g \in Replans : ReplanStep(g)) \/ (\E c \in Chapters : AuthorSaves(c))
  PROVE  TypeOK'
<1>1. ASSUME NEW g \in Replans, ReplanStarts(g)
      PROVE  TypeOK'
  <2>1. PICK from \in Chapters :
          replan' = [replan EXCEPT ![g] = [pc |-> "planning", from |-> from]]
    BY <1>1 DEF ReplanStarts
  <2>2. replan' \in [Replans -> ReplanState]
    BY <2>1 DEF TypeOK, ReplanState
  <2> QED BY <1>1, <2>2 DEF ReplanStarts, AcquireLock, TypeOK, Holders
<1>2. ASSUME NEW g \in Replans
      PROVE  [replan EXCEPT ![g].pc = "done"] \in [Replans -> ReplanState]
  BY DEF TypeOK, ReplanState
<1>3. ASSUME NEW g \in Replans, ReplanCommits(g)
      PROVE  TypeOK'
  <2>1. chapter' \in [Chapters -> ChapterRow]
    BY <1>3, AbsentType DEF ReplanCommits, TypeOK
  <2>2. outline' \in Holders \cup {NoOne, Author}
    BY <1>3 DEF ReplanCommits, Holders
  <2> QED BY <1>2, <1>3, <2>1, <2>2, ReleaseType DEF ReplanCommits, TypeOK
<1>4. ASSUME NEW g \in Replans, ReplanFails(g)
      PROVE  TypeOK'
  BY <1>2, <1>4, ReleaseType DEF ReplanFails, TypeOK
<1>5. ASSUME NEW c \in Chapters, AuthorSaves(c)
      PROVE  TypeOK'
  <2>1. EditedRow(c) \in ChapterRow
    <3>1. chapter[c] \in ChapterRow
      BY DEF TypeOK
    <3>2. (chapter[c].stale \/ chapter[c].summaryOf # None) \in BOOLEAN
      OBVIOUS
    <3>3. chapter[c].version + 1 \in Nat
      BY <3>1 DEF ChapterRow
    <3> QED BY <3>1, <3>2, <3>3 DEF EditedRow, ChapterRow
  <2>2. chapter' \in [Chapters -> ChapterRow]
    BY <1>5, <2>1 DEF AuthorSaves, TypeOK
  <2> QED BY <1>5, <2>2 DEF AuthorSaves, TypeOK
<1> QED BY <1>1, <1>3, <1>4, <1>5 DEF ReplanStep

\* Every step keeps the types.
LEMMA TypeStep == TypeOK /\ [Next]_vars => TypeOK'
<1> SUFFICES ASSUME TypeOK, [Next]_vars PROVE TypeOK'
  OBVIOUS
<1>1. ASSUME NEW r \in Runs, RunStep(r) PROVE TypeOK'
  BY <1>1, RouteTypes, PlanTypes, WriteTypes, OtherRunTypes DEF RunStep
<1>2. CASE (\E g \in Replans : ReplanStep(g)) \/ (\E c \in Chapters : AuthorSaves(c))
  BY <1>2, ClientTypes
<1>3. CASE LockExpires
  BY <1>3 DEF LockExpires, TypeOK
<1>4. CASE Crash
  <2>1. run' \in [Runs -> RunState]
    BY <1>4, IdleRunType DEF Crash, TypeOK
  <2>2. \A g \in Replans : [replan[g] EXCEPT !.pc = "crashed"] \in ReplanState
    BY DEF TypeOK, ReplanState
  <2>3. replan' \in [Replans -> ReplanState]
    BY <1>4, <2>2 DEF Crash, TypeOK
  <2> QED BY <1>4, <2>1, <2>3 DEF Crash, TypeOK
<1>5. CASE UNCHANGED vars
  BY <1>5 DEF vars, TypeOK
<1> QED BY <1>1, <1>2, <1>3, <1>4, <1>5 DEF Next

\* Every state of the system is well typed: every lock is one that was taken,
\* every version a natural number, every run in a place the code knows.
THEOREM TypeCorrect == Spec => []TypeOK
<1>1. Init => TypeOK
  BY InitTypeOK
<1>2. TypeOK /\ [Next]_vars => TypeOK'
  BY TypeStep
<1> QED BY <1>1, <1>2, PTL DEF Spec

-----------------------------------------------------------------------------
(***************************************************************************)
(* The snapshot of the owner.  A step that changes the chapters is of the  *)
(* run that owns the lock, which changes its snapshot alike, or leaves the *)
(* lock with nobody; and a lock that lapsed never comes back to a run that *)
(* has a snapshot.                                                         *)
(***************************************************************************)
Snapshot == Active \ {"preflight"}

\* The snapshots stay current when no chapter changes and whoever then owns
\* the lock with a snapshot did so before, with the same one.
LEMMA SameView ==
  ASSUME OwnerViewIsCurrent, UNCHANGED chapter,
         \A q \in Runs :
           OwnsLock(q)' /\ run'[q].pc \in Snapshot
             => OwnsLock(q) /\ run[q].pc \in Snapshot /\ run'[q].view = run[q].view
  PROVE  OwnerViewIsCurrent'
  BY DEF OwnerViewIsCurrent, Snapshot

\* Giving up a lock gives it to nobody.
LEMMA ReleaseGivesNothing ==
  ASSUME NEW h \in Holders, ReleaseLock(h), NEW q \in Runs, OwnsLock(q)'
  PROVE  OwnsLock(q) /\ lockOwner # h
  BY HoldersAssumption DEF ReleaseLock, OwnsLock, lockVars, Holders

\* A settled run has no snapshot, and the others are as they were.
LEMMA SettledView ==
  ASSUME TypeOK, OwnerViewIsCurrent, NEW r \in Runs, NEW reason, NEW rec, NEW stage0,
         Settle(r, reason, rec, stage0), OwnsLock(r) \/ UNCHANGED chapter
  PROVE  OwnerViewIsCurrent'
<1> SUFFICES ASSUME NEW q \in Runs, OwnsLock(q)', run'[q].pc \in Snapshot
             PROVE  run'[q].view = chapter'
  BY DEF OwnerViewIsCurrent, Snapshot
<1>1. run' = [run EXCEPT ![r] = EndedRun("done")] /\ ReleaseLock(r)
  BY DEF Settle
<1>2. run'[r].pc = "done"
  BY <1>1 DEF TypeOK, EndedRun, IdleRun
<1>3. q # r
  BY <1>2, ActiveNames DEF Snapshot
<1>4. OwnsLock(q) /\ lockOwner # r
  BY <1>1, ReleaseGivesNothing DEF Holders
<1>5. run'[q] = run[q]
  BY <1>1, <1>3 DEF TypeOK
<1>6. UNCHANGED chapter
  BY <1>3, <1>4 DEF OwnsLock
<1> QED BY <1>4, <1>5, <1>6 DEF OwnerViewIsCurrent, Snapshot

\* A run that writes a chapter under the lock writes it in its snapshot too.
LEMMA WrittenView ==
  ASSUME TypeOK, OwnerViewIsCurrent, NEW r \in Runs, NEW c, NEW row, NEW rec,
         OwnsLock(r), run[r].pc \in Snapshot, UNCHANGED lockVars,
         chapter' = [chapter EXCEPT ![c] = row],
         run' = [run EXCEPT ![r] = rec],
         rec.view = [run[r].view EXCEPT ![c] = row]
  PROVE  OwnerViewIsCurrent'
<1> SUFFICES ASSUME NEW q \in Runs, OwnsLock(q)', run'[q].pc \in Snapshot
             PROVE  run'[q].view = chapter'
  BY DEF OwnerViewIsCurrent, Snapshot
<1>1. q = r
  BY DEF OwnsLock, lockVars
<1>2. run[r].view = chapter
  BY DEF OwnerViewIsCurrent, Snapshot
<1>3. run'[q].view = rec.view
  BY <1>1 DEF TypeOK
<1> QED BY <1>2, <1>3

\* The route: a run that takes the lock has no snapshot yet; it takes one of
\* the chapters as they are.
LEMMA RouteView ==
  ASSUME TypeOK, OwnerViewIsCurrent, NEW r \in Runs, RouteStep(r)
  PROVE  OwnerViewIsCurrent'
<1>1. CASE Start(r)
  <2>1. PICK u, v : run' = [run EXCEPT ![r] =
                       [IdleRun EXCEPT !.pc = "preflight", !.origin = stage,
                                       !.quota = u, !.until = v]]
    BY <1>1 DEF Start
  <2>2. run'[r].pc \notin Snapshot
    BY <2>1 DEF TypeOK, IdleRun, Snapshot
  <2>3. \A q \in Runs : OwnsLock(q)' => q = r
    BY <1>1 DEF Start, AcquireLock, OwnsLock
  <2>4. UNCHANGED chapter
    BY <1>1 DEF Start
  <2> QED BY <2>2, <2>3, <2>4, SameView
<1>2. CASE PreflightFails(r)
  <2>1. ReleaseLock(r) /\ UNCHANGED chapter /\ run' = [run EXCEPT ![r] = EndedRun("done")]
    BY <1>2 DEF PreflightFails, GateRefuses, DeckRefuses, SessionRefuses, ContextFails,
         JobFails, Exits
  <2>2. run'[r].pc \notin Snapshot
    BY <2>1, ActiveNames DEF TypeOK, EndedRun, IdleRun, Snapshot
  <2>3. \A q \in Runs \ {r} : run'[q] = run[q]
    BY <2>1 DEF TypeOK
  <2>4. \A q \in Runs : OwnsLock(q)' => OwnsLock(q)
    BY <2>1, ReleaseGivesNothing DEF Holders
  <2> QED BY <2>1, <2>2, <2>3, <2>4, SameView
<1>3. CASE ReadChapters(r)
  <2>1. /\ UNCHANGED lockVars
        /\ chapter' = chapter
        /\ run'[r].view = chapter
        /\ \A q \in Runs \ {r} : run'[q] = run[q]
    BY <1>3 DEF ReadChapters, lockVars, TypeOK, RunState
  <2> QED BY <2>1 DEF OwnerViewIsCurrent, OwnsLock, lockVars
<1>4. CASE OpenJob(r)
  <2>1. /\ UNCHANGED lockVars
        /\ chapter' = chapter
        /\ run[r].pc = "context"
        /\ run'[r].view = run[r].view
        /\ \A q \in Runs \ {r} : run'[q] = run[q]
    BY <1>4 DEF OpenJob, At, lockVars, TypeOK, RunState
  <2>2. "context" \in Snapshot
    BY ActiveNames DEF Snapshot
  <2> QED BY <2>1, <2>2, SameView DEF OwnsLock, lockVars
<1> QED BY <1>1, <1>2, <1>3, <1>4 DEF RouteStep

\* Steps of a run that touch neither the chapters nor its snapshot, and at
\* most give up its lock.
LEMMA QuietView ==
  ASSUME TypeOK, OwnerViewIsCurrent, NEW r \in Runs,
         \/ PlanStep(r) \/ BeginChapter(r) \/ BeginRevision(r) \/ VolumeDone(r)
         \/ ClientLeaves(r) \/ TimerFindsLockLost(r)
  PROVE  OwnerViewIsCurrent'
<1>1. UNCHANGED chapter
  BY DEF PlanStep, ReuseOutline, AskForOutline, GenerateOutline, BeginChapter,
         BeginRevision, VolumeDone, ClientLeaves, TimerFindsLockLost
<1>2. \A q \in Runs : OwnsLock(q)' => OwnsLock(q)
  <2>1. UNCHANGED lockVars \/ ReleaseLock(r)
    BY DEF PlanStep, ReuseOutline, AskForOutline, GenerateOutline, BeginChapter,
           BeginRevision, VolumeDone, ClientLeaves, TimerFindsLockLost, lockVars
  <2> QED BY <2>1, ReleaseGivesNothing DEF OwnsLock, lockVars, Holders
<1>3. \A q \in Runs \ {r} : run'[q] = run[q]
  BY DEF PlanStep, ReuseOutline, AskForOutline, GenerateOutline, Planned,
         BeginChapter, BeginRevision, VolumeDone, ClientLeaves,
         TimerFindsLockLost, TypeOK
<1>4. run'[r].view = run[r].view
  <2>1. run[r] \in RunState
    BY DEF TypeOK
  <2> QED BY <2>1 DEF PlanStep, ReuseOutline, AskForOutline, GenerateOutline,
              Planned, BeginChapter, BeginRevision, VolumeDone, ClientLeaves,
              TimerFindsLockLost, TypeOK, RunState
<1>5. run'[r].pc \in Snapshot => run[r].pc \in Snapshot
  <2>1. CASE ClientLeaves(r) \/ TimerFindsLockLost(r)
    <3>1. run[r] \in RunState
      BY DEF TypeOK
    <3> QED BY <2>1, <3>1 DEF ClientLeaves, TimerFindsLockLost, TypeOK, RunState
  <2>2. CASE PlanStep(r) \/ BeginChapter(r) \/ BeginRevision(r) \/ VolumeDone(r)
    <3>1. run[r].pc \in {"opening", "planning", "loop", "post", "volume"}
      BY <2>2 DEF PlanStep, ReuseOutline, AskForOutline, GenerateOutline,
         BeginChapter, BeginRevision, VolumeDone, At, AtLoop
    <3> QED BY <3>1, ActiveNames DEF Snapshot
  <2> QED BY <2>1, <2>2
<1> QED BY <1>1, <1>2, <1>3, <1>4, <1>5, SameView

\* Steps that only settle a run, and those that write and settle at once.
LEMMA SettlingView ==
  ASSUME TypeOK, OwnerViewIsCurrent, NEW r \in Runs,
         \/ EndStep(r) \/ BookDone(r) \/ BatchDone(r) \/ BoundaryRenewalFails(r)
         \/ DraftRefused(r) \/ DraftUsageFails(r) \/ RefusedAfterSave(r)
         \/ CompletionUsageFails(r) \/ RepairRefused(r)
  PROVE  OwnerViewIsCurrent'
<1>1. PICK reason, rec, stage0 : Settle(r, reason, rec, stage0)
  BY DEF EndStep, RunFails, RunAborts, BookDone, BatchDone, BoundaryRenewalFails,
         DraftRefused, DraftUsageFails, RefusedAfterSave, CompletionUsageFails,
         RepairRefused
<1>2. OwnsLock(r) \/ UNCHANGED chapter
  BY DEF EndStep, RunFails, RunAborts, BookDone, BatchDone, BoundaryRenewalFails,
         DraftRefused, DraftUsageFails, RefusedAfterSave, CompletionUsageFails,
         RepairRefused, UpsertFence, MetaFence
<1> QED BY <1>1, <1>2, SettledView

\* Drafts, revisions, completions and repairs.
LEMMA WritingView ==
  ASSUME TypeOK, OwnerViewIsCurrent, NEW r \in Runs,
         DraftSaved(r) \/ RevisionSaved(r) \/ ChapterCompleted(r) \/ Repaired(r)
  PROVE  OwnerViewIsCurrent'
<1> DEFINE c == Next1(run[r].view)
<1>1. OwnsLock(r) /\ UNCHANGED lockVars
  BY DEF DraftSaved, RevisionSaved, ChapterCompleted, Repaired, UpsertFence,
         MetaFence, lockVars
<1>2. run[r].pc \in Snapshot
  BY ActiveNames DEF DraftSaved, RevisionSaved, ChapterCompleted, Repaired, At,
     Snapshot
<1>3. run[r] \in RunState
  BY DEF TypeOK
<1>4. CASE DraftSaved(r) \/ RevisionSaved(r)
  <2>1. PICK pc :
          /\ chapter' = [chapter EXCEPT ![c] = SavedRow(r, c)]
          /\ run' = [run EXCEPT ![r] =
                       [run[r] EXCEPT !.pc = pc, !.view[c] = SavedRow(r, c)]]
    BY <1>4 DEF DraftSaved, RevisionSaved
  <2>2. [run[r] EXCEPT !.pc = pc, !.view[c] = SavedRow(r, c)].view
          = [run[r].view EXCEPT ![c] = SavedRow(r, c)]
    BY <1>3 DEF RunState
  <2> QED BY <1>1, <1>2, <2>1, <2>2, WrittenView
<1>5. CASE ChapterCompleted(r) \/ Repaired(r)
  <2>1. PICK pc :
          /\ chapter' = [chapter EXCEPT ![c] = CompletedRow(r, c)]
          /\ run' = [run EXCEPT ![r] =
                       [Counted(run[r], CompletedRow(r, c)) EXCEPT !.pc = pc]]
    BY <1>5 DEF ChapterCompleted, Repaired
  <2>2. [Counted(run[r], CompletedRow(r, c)) EXCEPT !.pc = pc].view
          = [run[r].view EXCEPT ![c] = CompletedRow(r, c)]
    BY <1>3 DEF RunState, Counted
  <2> QED BY <1>1, <1>2, <2>1, <2>2, WrittenView
<1> QED BY <1>4, <1>5

\* The author and the regenerations leave the lock with nobody when they
\* change a chapter.
LEMMA ClientView ==
  ASSUME TypeOK, OwnerViewIsCurrent,
         (\E g \in Replans : ReplanStep(g)) \/ (\E c \in Chapters : AuthorSaves(c))
  PROVE  OwnerViewIsCurrent'
<1>1. UNCHANGED run
  BY DEF ReplanStep, ReplanStarts, ReplanCommits, ReplanFails, AuthorSaves
<1>2. ASSUME NEW g \in Replans, ReplanStarts(g) \/ ReplanCommits(g)
      PROVE  \A q \in Runs : ~OwnsLock(q)'
  BY <1>2, HoldersAssumption DEF ReplanStarts, AcquireLock, ReplanCommits,
     ReplanStillOwns, ReleaseLock, OwnsLock
<1>3. ASSUME NEW g \in Replans, ReplanFails(g)
      PROVE  UNCHANGED chapter /\ \A q \in Runs : OwnsLock(q)' => OwnsLock(q)
  BY <1>3, ReleaseGivesNothing DEF ReplanFails, Holders
<1>4. ASSUME NEW c \in Chapters, AuthorSaves(c)
      PROVE  \A q \in Runs : ~OwnsLock(q)'
  BY <1>4 DEF AuthorSaves, OwnsLock
<1> QED BY <1>1, <1>2, <1>3, <1>4, SameView DEF ReplanStep, OwnerViewIsCurrent

\* Every step keeps the owner's snapshot current.
LEMMA ViewStep == TypeOK /\ OwnerViewIsCurrent /\ [Next]_vars => OwnerViewIsCurrent'
<1> SUFFICES ASSUME TypeOK, OwnerViewIsCurrent, [Next]_vars PROVE OwnerViewIsCurrent'
  OBVIOUS
<1>1. ASSUME NEW r \in Runs, RunStep(r) PROVE OwnerViewIsCurrent'
  BY <1>1, RouteView, QuietView, SettlingView, WritingView
     DEF RunStep, LoopStep, WriteStep, RepairStep
<1>2. CASE (\E g \in Replans : ReplanStep(g)) \/ (\E c \in Chapters : AuthorSaves(c))
  BY <1>2, ClientView
<1>3. CASE LockExpires
  BY <1>3 DEF LockExpires, OwnerViewIsCurrent, OwnsLock
<1>4. CASE Crash
  <2>1. \A q \in Runs :
          run'[q].pc \in Snapshot => run[q].pc \in Snapshot /\ run'[q] = run[q]
    BY <1>4, ActiveNames DEF Crash, Snapshot, EndedRun, IdleRun
  <2>2. UNCHANGED <<chapter, lockOwner, lockLive>>
    BY <1>4 DEF Crash
  <2> QED BY <2>1, <2>2, SameView DEF OwnsLock
<1>5. CASE UNCHANGED vars
  BY <1>5 DEF vars, OwnerViewIsCurrent, OwnsLock
<1> QED BY <1>1, <1>2, <1>3, <1>4, <1>5 DEF Next

\* "We hold the lock; existingChapters is authoritative": in every state, the
\* snapshot of a run that owns the live lock is the chapters table.
THEOREM OwnerSnapshotIsCurrent == Spec => []OwnerViewIsCurrent
<1>1. Init => TypeOK /\ OwnerViewIsCurrent
  BY InitTypeOK DEF Init, OwnerViewIsCurrent, OwnsLock
<1>2. TypeOK /\ OwnerViewIsCurrent /\ [Next]_vars => TypeOK' /\ OwnerViewIsCurrent'
  BY TypeStep, ViewStep
<1> QED BY <1>1, <1>2, PTL DEF Spec

-----------------------------------------------------------------------------
(***************************************************************************)
(* The place of a run.  Between the head of the loop and the end of a      *)
(* chapter the run's snapshot keeps the chapter open and inside the batch, *)
(* and says whose prose there is.                                          *)
(***************************************************************************)
Writing == {"draft", "post", "revise", "post2", "repair"}

PlaceInv(r) ==
  LET rec == run[r]
      row == rec.view[Next1(rec.view)] IN
  /\ rec.pc \in Writing => Open(rec.view) # {} /\ ~ShouldStop(rec)
  /\ rec.pc = "draft" => row.status = "none"
  /\ rec.pc \in {"post", "revise", "post2"} => row.status = "content_saved" /\ row.by = r
  /\ rec.pc = "repair" => row.status = "content_saved"

\* A run has no job before it opens one.
JobInv(r) == run[r].pc \in {"idle", "preflight", "context"} => job[r] = "none"

\* A set of natural numbers has a least element.
LEMMA Least ==
  ASSUME NEW T \in SUBSET Nat, T # {}
  PROVE  \E x \in T : \A y \in T : x <= y
<1>1. IsWellFoundedOn(OpToRel(<, Nat), Nat)
  BY NatLessThanWellFounded
<1>2. PICK x \in T : \A y \in T : ~ (<<y, x>> \in OpToRel(<, Nat))
  BY <1>1, WFMin
<1>3. \A k, l \in Nat : <<l, k>> \in OpToRel(<, Nat) <=> l < k
  BY DEF OpToRel
<1>4. \A y \in T : ~(y < x)
  <2> TAKE y \in T
  <2>1. <<y, x>> \notin OpToRel(<, Nat) /\ x \in Nat /\ y \in Nat
    BY <1>2
  <2> QED BY <1>3, <2>1
<1> QED BY <1>4

\* While a chapter is open there is a next one, and it is open.
LEMMA NextIsOpen ==
  ASSUME NEW view, Open(view) # {}
  PROVE  Next1(view) \in Open(view)
<1>1. Open(view) \in SUBSET Nat
  BY NAssumption DEF Open, Chapters
<1>2. \E c \in Open(view) : \A d \in Open(view) : c <= d
  BY <1>1, Least
<1> QED BY <1>2 DEF Next1

\* A run's step leaves the other runs alone.
LEMMA OthersRest ==
  ASSUME TypeOK, NEW r \in Runs, RunStep(r), NEW q \in Runs \ {r}
  PROVE  run'[q] = run[q]
<1>1. CASE RouteStep(r) \/ PlanStep(r)
  BY <1>1 DEF TypeOK, RouteStep, PlanStep, Start, PreflightFails, GateRefuses,
       DeckRefuses, SessionRefuses, ContextFails, JobFails, Exits, ReadChapters,
       OpenJob, ReuseOutline, AskForOutline, GenerateOutline, Planned
<1>2. CASE EndStep(r) \/ LoopStep(r) \/ RepairStep(r)
  BY <1>2 DEF TypeOK, EndStep, LoopStep, RepairStep, RunFails, RunAborts, BookDone,
     BatchDone, BoundaryRenewalFails, BeginChapter, RepairRefused, Repaired, Settle
<1>3. CASE WriteStep(r)
  BY <1>3 DEF TypeOK, WriteStep, DraftSaved, DraftRefused, DraftUsageFails,
     RefusedAfterSave, BeginRevision, RevisionSaved, ChapterCompleted,
     CompletionUsageFails, VolumeDone, Settle
<1>4. CASE ClientLeaves(r) \/ TimerFindsLockLost(r)
  BY <1>4 DEF TypeOK, ClientLeaves, TimerFindsLockLost
<1> QED BY <1>1, <1>2, <1>3, <1>4 DEF RunStep

\* A step of a run ends it as Settle does, opens its job, or leaves the jobs
\* alone; and only a book without an open chapter is settled as complete.
LEMMA StepKinds ==
  ASSUME NEW r \in Runs, RunStep(r)
  PROVE  \/ OpenJob(r)
         \/ UNCHANGED job
         \/ /\ run[r].pc \in Streaming
            /\ \E reason, rec, stage0 :
                 Settle(r, reason, rec, stage0) /\ (reason = "complete" => BookDone(r))
<1>1. CASE RouteStep(r) \/ PlanStep(r)
  BY <1>1 DEF RouteStep, PlanStep, Start, PreflightFails, GateRefuses, DeckRefuses,
       SessionRefuses, ContextFails, JobFails, Exits, ReadChapters, ReuseOutline,
       AskForOutline, GenerateOutline
<1>2. CASE EndStep(r)
  <2>1. run[r].pc \in Streaming
    BY <1>2 DEF EndStep, RunFails, RunAborts, At, Batch
  <2>2. PICK reason \in {"error", "lock_failed", "aborted"} :
          \E rec, stage0 : Settle(r, reason, rec, stage0)
    BY <1>2 DEF EndStep, RunFails, RunAborts, CancelReason
  <2> QED BY <2>1, <2>2
<1>3. CASE BookDone(r)
  BY <1>3, ActiveNames DEF BookDone, At, Streaming
<1>4. CASE BatchDone(r) \/ BoundaryRenewalFails(r) \/ BeginChapter(r)
  <2>1. run[r].pc \in Streaming
    BY <1>4, ActiveNames DEF BatchDone, BoundaryRenewalFails, BeginChapter, AtLoop, At, Streaming
  <2> QED BY <1>4, <2>1 DEF BatchDone, BoundaryRenewalFails, BeginChapter
<1>5. CASE RepairStep(r) \/ WriteStep(r)
  <2>1. run[r].pc \in Streaming
    BY <1>5, ActiveNames DEF RepairStep, WriteStep, RepairRefused, Repaired, DraftSaved, DraftRefused, DraftUsageFails,
     RefusedAfterSave, BeginRevision, RevisionSaved, ChapterCompleted,
     CompletionUsageFails, VolumeDone, At, Streaming
  <2> QED BY <1>5, <2>1 DEF RepairStep, WriteStep, RepairRefused, Repaired, DraftSaved, DraftRefused, DraftUsageFails,
     RefusedAfterSave, BeginRevision, RevisionSaved, ChapterCompleted,
     CompletionUsageFails, VolumeDone
<1>6. CASE ClientLeaves(r) \/ TimerFindsLockLost(r)
  BY <1>6 DEF ClientLeaves, TimerFindsLockLost
<1> QED BY <1>1, <1>2, <1>3, <1>4, <1>5, <1>6 DEF RunStep, LoopStep

\* The lock in a step of a run: it is taken, released, or kept by a run that
\* goes on.
LEMMA LockKinds ==
  ASSUME TypeOK, NEW r \in Runs, RunStep(r)
  PROVE  \/ Start(r)
         \/ ReleaseLock(r)
         \/ UNCHANGED lockVars /\ run'[r].pc \in Active
<1> USE ActiveNames
<1>0. run[r] \in RunState
  BY DEF TypeOK
<1>1. CASE RouteStep(r) \/ PlanStep(r)
  BY <1>0, <1>1 DEF RouteStep, PlanStep, PreflightFails, GateRefuses, DeckRefuses,
       SessionRefuses, ContextFails, JobFails, Exits, ReadChapters, OpenJob,
       ReuseOutline, AskForOutline, GenerateOutline, Planned, TypeOK, RunState, lockVars
<1>2. CASE EndStep(r) \/ BookDone(r) \/ BatchDone(r) \/ BoundaryRenewalFails(r) \/ RepairRefused(r)
           \/ DraftRefused(r) \/ DraftUsageFails(r) \/ RefusedAfterSave(r) \/ CompletionUsageFails(r)
  BY <1>2 DEF EndStep, RunFails, RunAborts, BookDone, BatchDone, BoundaryRenewalFails,
     RepairRefused, DraftRefused, DraftUsageFails, RefusedAfterSave, CompletionUsageFails, Settle
<1>3. CASE BeginChapter(r) \/ BeginRevision(r) \/ VolumeDone(r)
  BY <1>0, <1>3 DEF BeginChapter, BeginRevision, VolumeDone, TypeOK, RunState, lockVars
<1>4. CASE DraftSaved(r) \/ RevisionSaved(r)
  <2> DEFINE c == Next1(run[r].view)
  <2>1. PICK pc :
          /\ pc \in Active
          /\ run' = [run EXCEPT ![r] =
                       [run[r] EXCEPT !.pc = pc, !.view[c] = SavedRow(r, c)]]
    BY <1>4 DEF DraftSaved, RevisionSaved
  <2>2. UNCHANGED lockVars
    BY <1>4 DEF DraftSaved, RevisionSaved, lockVars
  <2> QED BY <1>0, <2>1, <2>2 DEF TypeOK, RunState
<1>5. CASE ChapterCompleted(r) \/ Repaired(r)
  <2>1. PICK pc, row :
          /\ pc \in Active
          /\ run' = [run EXCEPT ![r] = [Counted(run[r], row) EXCEPT !.pc = pc]]
    BY <1>5 DEF ChapterCompleted, Repaired
  <2>2. UNCHANGED lockVars
    BY <1>5 DEF ChapterCompleted, Repaired, lockVars
  <2>3. [Counted(run[r], row) EXCEPT !.pc = pc].pc = pc
    BY <1>0 DEF Counted, RunState
  <2> QED BY <2>1, <2>2, <2>3 DEF TypeOK
<1>6. CASE ClientLeaves(r) \/ TimerFindsLockLost(r)
  BY <1>0, <1>6 DEF ClientLeaves, TimerFindsLockLost, At, Waiting, TypeOK, RunState, lockVars
<1> QED BY <1>1, <1>2, <1>3, <1>4, <1>5, <1>6 DEF RunStep, LoopStep, WriteStep, RepairStep

\* The chapters in a step of a run: a fenced save of the next chapter, a
\* fenced completion of it, or nothing.
LEMMA ChapterKinds ==
  ASSUME NEW r \in Runs, RunStep(r)
  PROVE  \E c : c = Next1(run[r].view) /\
         \/ UNCHANGED chapter
         \/ /\ run[r].pc \in {"draft", "revise"}
            /\ UpsertFence(r, c)
            /\ chapter' = [chapter EXCEPT ![c] = SavedRow(r, c)]
         \/ /\ run[r].pc \in {"post", "post2", "revise", "repair"}
            /\ MetaFence(r, c)
            /\ chapter' = [chapter EXCEPT ![c] = CompletedRow(r, c)]
<1>1. CASE RouteStep(r) \/ PlanStep(r) \/ EndStep(r) \/ LoopStep(r) \/ ClientLeaves(r)
           \/ TimerFindsLockLost(r)
  BY <1>1 DEF RouteStep, PlanStep, EndStep, LoopStep, Start, PreflightFails,
       GateRefuses, DeckRefuses, SessionRefuses, ContextFails, JobFails, Exits,
       ReadChapters, OpenJob, ReuseOutline, AskForOutline, GenerateOutline, RunFails,
       RunAborts, BookDone, BatchDone, BoundaryRenewalFails, BeginChapter, ClientLeaves,
       TimerFindsLockLost
<1>2. CASE DraftRefused(r) \/ RefusedAfterSave(r) \/ BeginRevision(r) \/ VolumeDone(r)
           \/ RepairRefused(r)
  BY <1>2 DEF DraftRefused, RefusedAfterSave, BeginRevision, VolumeDone, RepairRefused
<1>3. CASE DraftSaved(r) \/ DraftUsageFails(r) \/ RevisionSaved(r)
  BY <1>3 DEF DraftSaved, DraftUsageFails, RevisionSaved, At
<1>4. CASE ChapterCompleted(r) \/ CompletionUsageFails(r) \/ Repaired(r)
  BY <1>4 DEF ChapterCompleted, CompletionUsageFails, Repaired, At
<1> QED BY <1>1, <1>2, <1>3, <1>4 DEF RunStep, WriteStep, RepairStep

-----------------------------------------------------------------------------
(***************************************************************************)
(* The jobs.                                                               *)
(***************************************************************************)
JobsInv == \A r \in Runs : JobInv(r)

\* The jobs in any step: one is opened, which pauses what still ran, one that
\* ran becomes history, completed only with the book, or nothing.
LEMMA JobKinds ==
  ASSUME TypeOK, [Next]_vars
  PROVE  \/ UNCHANGED job
         \/ \E r \in Runs : OpenJob(r)
         \/ \E r \in Runs, s \in Terminal :
              /\ CanSettle(r)
              /\ job' = [job EXCEPT ![r] = s]
              /\ s = "completed" => BookDone(r)
<1>1. ASSUME NEW r \in Runs, NEW reason, NEW rec, NEW stage0,
             Settle(r, reason, rec, stage0), reason = "complete" => BookDone(r)
      PROVE  \/ UNCHANGED job
             \/ \E s \in Terminal : /\ CanSettle(r)
                                    /\ job' = [job EXCEPT ![r] = s]
                                    /\ s = "completed" => BookDone(r)
  BY <1>1 DEF Settle, JobStatusFor, Terminal
<1>2. ASSUME NEW r \in Runs, RunStep(r)
      PROVE  \/ UNCHANGED job
             \/ OpenJob(r)
             \/ \E s \in Terminal : /\ CanSettle(r)
                                    /\ job' = [job EXCEPT ![r] = s]
                                    /\ s = "completed" => BookDone(r)
  BY <1>1, <1>2, StepKinds
<1>3. ASSUME ~ \E r \in Runs : RunStep(r)
      PROVE  UNCHANGED job
  BY <1>3 DEF Next, ReplanStep, ReplanStarts, ReplanCommits, ReplanFails, AuthorSaves,
     LockExpires, Crash, vars
<1> QED BY <1>2, <1>3

\* A run comes to the first places of the route only from there.
LEMMA RouteOrder ==
  ASSUME TypeOK, [Next]_vars, NEW r \in Runs,
         run'[r].pc \in {"idle", "preflight", "context"}
  PROVE  run[r].pc \in {"idle", "preflight", "context"}
<1>1. ASSUME NEW q \in Runs, RunStep(q), q # r
      PROVE  run'[r] = run[r]
  BY <1>1, OthersRest
<1>0. run[r] \in RunState
  BY DEF TypeOK
<1>2. CASE RouteStep(r)
  BY <1>2 DEF RouteStep, Start, PreflightFails, GateRefuses, DeckRefuses,
       SessionRefuses, ContextFails, JobFails, Exits, ReadChapters, OpenJob, At, TypeOK
<1>3. CASE PlanStep(r) \/ BeginChapter(r) \/ BeginRevision(r) \/ VolumeDone(r)
  BY <1>0, <1>3 DEF PlanStep, ReuseOutline, AskForOutline, GenerateOutline, Planned, BeginChapter,
     BeginRevision, VolumeDone, TypeOK, RunState
<1>4. CASE EndStep(r) \/ BookDone(r) \/ BatchDone(r) \/ BoundaryRenewalFails(r) \/ RepairRefused(r)
           \/ DraftRefused(r) \/ DraftUsageFails(r) \/ RefusedAfterSave(r) \/ CompletionUsageFails(r)
  <2>1. run' = [run EXCEPT ![r] = EndedRun("done")]
    BY <1>4 DEF EndStep, RunFails, RunAborts, BookDone, BatchDone, BoundaryRenewalFails,
     RepairRefused, DraftRefused, DraftUsageFails, RefusedAfterSave, CompletionUsageFails, Settle
  <2> QED BY <2>1 DEF TypeOK, EndedRun, IdleRun
<1>5. CASE DraftSaved(r) \/ RevisionSaved(r)
  <2> DEFINE c == Next1(run[r].view)
  <2>1. PICK pc :
          /\ pc \in {"post", "post2"}
          /\ run' = [run EXCEPT ![r] =
                       [run[r] EXCEPT !.pc = pc, !.view[c] = SavedRow(r, c)]]
    BY <1>5 DEF DraftSaved, RevisionSaved
  <2> QED BY <1>0, <2>1 DEF TypeOK, RunState
<1>6. CASE ChapterCompleted(r) \/ Repaired(r)
  <2>1. PICK pc, row :
          /\ pc \in {"volume", "loop"}
          /\ run' = [run EXCEPT ![r] = [Counted(run[r], row) EXCEPT !.pc = pc]]
    BY <1>6 DEF ChapterCompleted, Repaired
  <2> QED BY <1>0, <2>1 DEF Counted, TypeOK, RunState
<1>7. CASE ClientLeaves(r) \/ TimerFindsLockLost(r)
  BY <1>0, <1>7 DEF ClientLeaves, TimerFindsLockLost, TypeOK, RunState
<1>8. CASE Crash
  BY <1>8 DEF Crash, EndedRun, IdleRun
<1>9. CASE (\E g \in Replans : ReplanStep(g)) \/ (\E c \in Chapters : AuthorSaves(c))
           \/ LockExpires \/ UNCHANGED vars
  BY <1>9 DEF ReplanStep, ReplanStarts, ReplanCommits, ReplanFails, AuthorSaves, LockExpires, vars
<1> QED BY <1>1, <1>2, <1>3, <1>4, <1>5, <1>6, <1>7, <1>8, <1>9
        DEF Next, RunStep, LoopStep, WriteStep, RepairStep

\* A run still on its way to open a job has none; and at most one job runs.
LEMMA JobStep ==
  TypeOK /\ JobsInv /\ OneRunningJob /\ [Next]_vars => JobsInv' /\ OneRunningJob'
<1> SUFFICES ASSUME TypeOK, JobsInv, OneRunningJob, [Next]_vars
             PROVE  JobsInv' /\ OneRunningJob'
  OBVIOUS
<1>1. CASE UNCHANGED job
  BY <1>1, RouteOrder DEF JobsInv, JobInv, OneRunningJob
<1>2. ASSUME NEW r \in Runs, OpenJob(r)
      PROVE  JobsInv' /\ OneRunningJob'
  <2>1. job' = OpenedJobs(r) /\ run'[r].pc = "opening"
    BY <1>2 DEF OpenJob, TypeOK, RunState
  <2>2. JobsInv'
    BY <2>1, RouteOrder DEF JobsInv, JobInv, OpenedJobs
  <2>3. OneRunningJob'
    BY <2>1 DEF OneRunningJob, OpenedJobs
  <2> QED BY <2>2, <2>3
<1>3. ASSUME NEW r \in Runs, NEW s \in Terminal, CanSettle(r), job' = [job EXCEPT ![r] = s]
      PROVE  JobsInv' /\ OneRunningJob'
  BY <1>3, RouteOrder DEF JobsInv, JobInv, OneRunningJob, CanSettle, Terminal, TypeOK
<1> QED BY <1>1, <1>2, <1>3, JobKinds

\* The jobs' invariant holds always.
LEMMA JobsAlways == Spec => [](TypeOK /\ JobsInv /\ OneRunningJob)
<1>1. Init => TypeOK /\ JobsInv /\ OneRunningJob
  BY InitTypeOK DEF Init, JobsInv, JobInv, OneRunningJob
<1>2. TypeOK /\ JobsInv /\ OneRunningJob /\ [Next]_vars => (TypeOK /\ JobsInv /\ OneRunningJob)'
  BY TypeStep, JobStep
<1> QED BY <1>1, <1>2, PTL DEF Spec

\* A novel never shows two running jobs: createWritingJob pauses whatever a
\* crashed or lapsed run left running in the transaction that opens its own.
THEOREM OneJobRuns == Spec => []OneRunningJob
  BY JobsAlways, PTL

\* No later run, retry or reclaim rewrites a job that ended.
THEOREM JobsAreHistory == Spec => TerminalJobsStay
<1>1. ASSUME TypeOK, JobsInv, [Next]_vars, NEW r \in Runs, job[r] \in Terminal
      PROVE  job'[r] = job[r]
  <2>1. job[r] # "running" /\ job[r] # "none"
    BY <1>1 DEF Terminal
  <2>2. ASSUME NEW q \in Runs, OpenJob(q)
        PROVE  job'[r] = job[r]
    <3>1. q # r
      BY <1>1, <2>1, <2>2 DEF OpenJob, At, JobsInv, JobInv
    <3> QED BY <2>1, <2>2, <3>1 DEF OpenJob, OpenedJobs
  <2>3. ASSUME NEW q \in Runs, NEW s \in Terminal, CanSettle(q), job' = [job EXCEPT ![q] = s]
        PROVE  job'[r] = job[r]
    BY <2>1, <2>3, <1>1 DEF CanSettle, TypeOK
  <2> QED BY <1>1, <2>2, <2>3, JobKinds
<1>2. TypeOK /\ JobsInv /\ [Next]_vars =>
        [\A r \in Runs : job[r] \in Terminal => job'[r] = job[r]]_vars
  BY <1>1
<1> QED BY <1>2, JobsAlways, PTL DEF TerminalJobsStay, Spec

\* A run that settles its job as completed while it owns the lock leaves every
\* chapter complete: the snapshot it judged the book by was current.
THEOREM FinishIsWhole == Spec => OwnedFinishIsWhole
<1>1. ASSUME TypeOK, OwnerViewIsCurrent, [Next]_vars, NEW r \in Runs,
             OwnsLock(r), job[r] = "running", job'[r] = "completed",
             NEW c \in Chapters
      PROVE  chapter[c].status = "complete"
  <2>1. BookDone(r)
    <3>1. ASSUME NEW q \in Runs, OpenJob(q)
          PROVE  FALSE
      BY <1>1, <3>1 DEF OpenJob, OpenedJobs
    <3>2. PICK q \in Runs, s \in Terminal :
             job' = [job EXCEPT ![q] = s] /\ (s = "completed" => BookDone(q))
      BY <1>1, <3>1, JobKinds
    <3> QED BY <1>1, <3>2 DEF TypeOK
  <2>2. run[r].pc = "loop" /\ Open(run[r].view) = {}
    BY <2>1 DEF BookDone, At
  <2>3. run[r].view = chapter
    BY <1>1, <2>2, ActiveNames DEF OwnerViewIsCurrent
  <2> QED BY <2>2, <2>3 DEF Open, CompleteIn, IsComplete
<1>2. TypeOK /\ OwnerViewIsCurrent /\ [Next]_vars =>
        [\A r \in Runs : OwnsLock(r) /\ job[r] = "running" /\ job'[r] = "completed"
           => \A c \in Chapters : chapter[c].status = "complete"]_vars
  BY <1>1
<1> QED BY <1>2, TypeCorrect, OwnerSnapshotIsCurrent, PTL DEF OwnedFinishIsWhole, Spec

-----------------------------------------------------------------------------
(***************************************************************************)
(* The lock and who ended.                                                 *)
(***************************************************************************)

\* Every step leaves the lock with someone who is under way, or crashed.
LEMMA LeakStep == TypeOK /\ NoLeakedLock /\ [Next]_vars => NoLeakedLock'
<1> SUFFICES ASSUME TypeOK, NoLeakedLock, [Next]_vars PROVE NoLeakedLock'
  OBVIOUS
<1>1. ASSUME NEW r \in Runs, RunStep(r)
      PROVE  NoLeakedLock'
  <2>1. UNCHANGED replan
    BY <1>1, OthersRest DEF RunStep, RouteStep, PlanStep, EndStep, LoopStep, WriteStep,
         RepairStep, Start, PreflightFails, GateRefuses, DeckRefuses, SessionRefuses,
         ContextFails, JobFails, Exits, ReadChapters, OpenJob, ReuseOutline,
         AskForOutline, GenerateOutline, RunFails, RunAborts, BookDone, BatchDone,
         BoundaryRenewalFails, BeginChapter, RepairRefused, Repaired, DraftSaved,
         DraftRefused, DraftUsageFails, RefusedAfterSave, BeginRevision, RevisionSaved,
         ChapterCompleted, CompletionUsageFails, VolumeDone, ClientLeaves,
         TimerFindsLockLost
  <2>2. \A q \in Runs \ {r} : run'[q] = run[q]
    BY <1>1, OthersRest
  <2>3. CASE Start(r)
    <3>1. lockOwner' = r
      BY <2>3 DEF Start, AcquireLock
    <3>2. run'[r].pc = "preflight"
      BY <2>3, IdleRunType DEF Start, TypeOK, IdleRun
    <3> QED BY <3>1, <3>2, ActiveNames, HoldersAssumption DEF NoLeakedLock
  <2>4. CASE ReleaseLock(r)
    <3>1. lockOwner' = NoOne \/ (lockOwner' = lockOwner /\ lockOwner # r)
      BY <2>4 DEF ReleaseLock, lockVars
    <3> QED BY <2>1, <2>2, <3>1, HoldersAssumption DEF NoLeakedLock
  <2>5. CASE UNCHANGED lockVars /\ run'[r].pc \in Active
    <3>1. lockOwner' = lockOwner
      BY <2>5 DEF lockVars
    <3> QED BY <2>1, <2>2, <2>5, <3>1 DEF NoLeakedLock
  <2> QED BY <1>1, <2>3, <2>4, <2>5, LockKinds
<1>2. ASSUME NEW g \in Replans, ReplanStep(g)
      PROVE  NoLeakedLock'
  <2>1. UNCHANGED run /\ \A h \in Replans \ {g} : replan'[h] = replan[h]
    BY <1>2 DEF ReplanStep, ReplanStarts, ReplanCommits, ReplanFails, TypeOK
  <2>2. \/ lockOwner' = g /\ replan'[g].pc = "planning"
        \/ lockOwner' = NoOne
        \/ lockOwner' = lockOwner /\ lockOwner # g
    BY <1>2 DEF ReplanStep, ReplanStarts, ReplanCommits, ReplanFails, AcquireLock,
       ReleaseLock, lockVars, TypeOK
  <2> QED BY <2>1, <2>2, HoldersAssumption DEF NoLeakedLock
<1>3. ASSUME NEW c \in Chapters, AuthorSaves(c)
      PROVE  NoLeakedLock'
  BY <1>3, HoldersAssumption DEF AuthorSaves, NoLeakedLock
<1>4. CASE LockExpires \/ UNCHANGED vars
  BY <1>4 DEF LockExpires, vars, NoLeakedLock
<1>5. CASE Crash
  <2>1. lockOwner' = lockOwner
    BY <1>5 DEF Crash
  <2>2. \A r \in Runs : run[r].pc \in Active \cup {"crashed"} => run'[r].pc \in {"crashed"}
    BY <1>5, ActiveNames DEF Crash, EndedRun, IdleRun
  <2>3. \A g \in Replans :
          replan[g].pc \in {"planning", "crashed"} => replan'[g].pc = "crashed"
    BY <1>5 DEF Crash, TypeOK, ReplanState
  <2> QED BY <2>1, <2>2, <2>3 DEF NoLeakedLock
<1> QED BY <1>1, <1>2, <1>3, <1>4, <1>5 DEF Next

\* A request that ended left no lock behind: whoever is in the lock row is
\* under way or died with the process.
THEOREM NoLockIsLeaked == Spec => []NoLeakedLock
<1>1. Init => TypeOK /\ NoLeakedLock
  BY InitTypeOK, HoldersAssumption DEF Init, NoLeakedLock
<1>2. TypeOK /\ NoLeakedLock /\ [Next]_vars => (TypeOK /\ NoLeakedLock)'
  BY TypeStep, LeakStep
<1> QED BY <1>1, <1>2, PTL DEF Spec

-----------------------------------------------------------------------------
(***************************************************************************)
(* Summaries.                                                              *)
(***************************************************************************)

\* A completion under its fence stores the version its summary is of.
LEMMA CompletedRowIs ==
  ASSUME TypeOK, NEW r \in Runs, NEW c \in Chapters, MetaFence(r, c)
  PROVE  /\ CompletedRow(r, c).status = "complete"
         /\ CompletedRow(r, c).version = chapter[c].version
         /\ CompletedRow(r, c).by = chapter[c].by
         /\ CompletedRow(r, c).summaryOf = chapter[c].version
<1>1. chapter[c] \in ChapterRow /\ run[r].view[c] \in ChapterRow
  BY DEF TypeOK, RunState
<1>2. run[r].view[c].version = chapter[c].version
  BY <1>1 DEF MetaFence, KnownVersion, ChapterRow, None
<1> QED BY <1>1, <1>2 DEF CompletedRow, ChapterRow

\* A save leaves a chapter that is not complete, of the run that saves.
LEMMA SavedRowIs ==
  ASSUME TypeOK, NEW r \in Runs, NEW c \in Chapters
  PROVE  /\ SavedRow(r, c).status = "content_saved"
         /\ SavedRow(r, c).by = r
         /\ SavedRow(r, c).version =
              IF chapter[c].status = "none" THEN 0 ELSE run[r].view[c].version + 1
<1>1. chapter[c] \in ChapterRow
  BY DEF TypeOK
<1> QED BY <1>1 DEF SavedRow, Absent, ChapterRow

\* The author's edit keeps the status and makes the prose the author's.
LEMMA EditedRowIs ==
  ASSUME TypeOK, NEW c \in Chapters
  PROVE  /\ EditedRow(c).status = chapter[c].status
         /\ EditedRow(c).version = chapter[c].version + 1
         /\ EditedRow(c).by = Author
         /\ EditedRow(c).summaryOf = chapter[c].summaryOf
         /\ EditedRow(c).stale = (chapter[c].stale \/ chapter[c].summaryOf # None)
<1>1. chapter[c] \in ChapterRow
  BY DEF TypeOK
<1> QED BY <1>1 DEF EditedRow, ChapterRow

\* The chapters in any step: a run's, the author's edit, a truncated tail, or
\* nothing.
LEMMA StepChapters ==
  ASSUME TypeOK, [Next]_vars
  PROVE  \/ UNCHANGED chapter
         \/ \E r \in Runs : RunStep(r)
         \/ /\ UNCHANGED run
            /\ \E c \in Chapters : chapter' = [chapter EXCEPT ![c] = EditedRow(c)]
         \/ /\ UNCHANGED run
            /\ \E from \in Nat :
                 chapter' = [c \in Chapters |-> IF c >= from THEN Absent ELSE chapter[c]]
<1>1. ASSUME NEW g \in Replans, ReplanCommits(g)
      PROVE  /\ UNCHANGED run
             /\ \E from \in Nat :
                  chapter' = [c \in Chapters |-> IF c >= from THEN Absent ELSE chapter[c]]
  <2>1. replan[g].from \in Nat
    BY NAssumption DEF TypeOK, ReplanState, Chapters
  <2> QED BY <1>1, <2>1 DEF ReplanCommits
<1>2. ASSUME NEW c \in Chapters, AuthorSaves(c)
      PROVE  /\ UNCHANGED run
             /\ UNCHANGED chapter \/ chapter' = [chapter EXCEPT ![c] = EditedRow(c)]
  BY <1>2 DEF AuthorSaves
<1>3. ASSUME NEW g \in Replans, ReplanStarts(g) \/ ReplanFails(g)
      PROVE  UNCHANGED chapter
  BY <1>3 DEF ReplanStarts, ReplanFails
<1>4. CASE LockExpires \/ Crash \/ UNCHANGED vars
  BY <1>4 DEF LockExpires, Crash, vars
<1> QED BY <1>1, <1>2, <1>3, <1>4 DEF Next, ReplanStep

\* Every step keeps every summary of a complete chapter honest.
LEMMA SummaryStep == TypeOK /\ SummaryMatchesProse /\ [Next]_vars => SummaryMatchesProse'
<1> SUFFICES ASSUME TypeOK, SummaryMatchesProse, [Next]_vars,
                    NEW c \in Chapters, chapter'[c].status = "complete"
             PROVE  chapter'[c].stale \/ chapter'[c].summaryOf = chapter'[c].version
  BY DEF SummaryMatchesProse
<1>0. chapter[c] \in ChapterRow
  BY DEF TypeOK
<1>1. CASE UNCHANGED chapter
  BY <1>1 DEF SummaryMatchesProse
<1>2. ASSUME NEW r \in Runs, RunStep(r), NEW d,
             chapter' = [chapter EXCEPT ![d] = SavedRow(r, d)]
      PROVE  chapter'[c].stale \/ chapter'[c].summaryOf = chapter'[c].version
  <2>1. c # d
    BY <1>2, SavedRowIs DEF TypeOK
  <2> QED BY <1>2, <2>1 DEF SummaryMatchesProse, TypeOK
<1>3. ASSUME NEW r \in Runs, RunStep(r), NEW d, MetaFence(r, d),
             chapter' = [chapter EXCEPT ![d] = CompletedRow(r, d)]
      PROVE  chapter'[c].stale \/ chapter'[c].summaryOf = chapter'[c].version
  <2>1. CASE c = d
    BY <1>3, <2>1, CompletedRowIs DEF TypeOK
  <2>2. CASE c # d
    BY <1>3, <2>2 DEF SummaryMatchesProse, TypeOK
  <2> QED BY <2>1, <2>2
<1>4. ASSUME NEW d \in Chapters, chapter' = [chapter EXCEPT ![d] = EditedRow(d)]
      PROVE  chapter'[c].stale \/ chapter'[c].summaryOf = chapter'[c].version
  <2>1. CASE c = d
    <3>1. chapter'[c] = EditedRow(c)
      BY <1>4, <2>1 DEF TypeOK
    <3>2. chapter[c].version # None
      BY <1>0 DEF ChapterRow, None
    <3>3. chapter[c].stale \/ chapter[c].summaryOf = chapter[c].version
      BY <3>1, EditedRowIs DEF SummaryMatchesProse
    <3>4. chapter[c].stale \/ chapter[c].summaryOf # None
      BY <3>2, <3>3
    <3> QED BY <3>1, <3>4, EditedRowIs
  <2>2. CASE c # d
    BY <1>4, <2>2 DEF SummaryMatchesProse, TypeOK
  <2> QED BY <2>1, <2>2
<1>5. ASSUME NEW from \in Nat,
             chapter' = [d \in Chapters |-> IF d >= from THEN Absent ELSE chapter[d]]
      PROVE  chapter'[c].stale \/ chapter'[c].summaryOf = chapter'[c].version
  <2>1. chapter'[c] = Absent \/ chapter'[c] = chapter[c]
    BY <1>5
  <2>2. Absent.status = "none"
    BY DEF Absent
  <2> QED BY <2>1, <2>2 DEF SummaryMatchesProse
<1> QED BY <1>1, <1>2, <1>3, <1>4, <1>5, StepChapters, ChapterKinds

\* The summary stored with a complete chapter is of the prose stored with it,
\* or is marked stale: a completion is fenced by the version it summarised and
\* an edit marks what it outdates.
THEOREM SummariesMatch == Spec => []SummaryMatchesProse
<1>1. Init => TypeOK /\ SummaryMatchesProse
  BY InitTypeOK DEF Init, SummaryMatchesProse, Absent
<1>2. TypeOK /\ SummaryMatchesProse /\ [Next]_vars => (TypeOK /\ SummaryMatchesProse)'
  BY TypeStep, SummaryStep
<1> QED BY <1>1, <1>2, PTL DEF Spec

-----------------------------------------------------------------------------
(***************************************************************************)
(* The place of a run in its batch.                                        *)
(***************************************************************************)
PlacesInv == \A r \in Runs : PlaceInv(r)

\* A run is in the middle of a chapter after this step because it began one,
\* went on with it, or stayed where it was.
LEMMA WritingKinds ==
  ASSUME TypeOK, NEW r \in Runs, RunStep(r), run'[r].pc \in Writing
  PROVE  \/ BeginChapter(r) \/ DraftSaved(r) \/ BeginRevision(r) \/ RevisionSaved(r)
         \/ ClientLeaves(r) \/ TimerFindsLockLost(r)
<1>0. run[r] \in RunState
  BY DEF TypeOK
<1>1. CASE RouteStep(r)
  <2>1. CASE Start(r)
    <3>1. PICK u, v : run' = [run EXCEPT ![r] =
                        [IdleRun EXCEPT !.pc = "preflight", !.origin = stage,
                                        !.quota = u, !.until = v]]
      BY <2>1 DEF Start
    <3> QED BY <3>1 DEF TypeOK, IdleRun, Writing
  <2>2. CASE PreflightFails(r)
    BY <2>2 DEF PreflightFails, GateRefuses, DeckRefuses, SessionRefuses, ContextFails,
         JobFails, Exits, TypeOK, EndedRun, IdleRun, Writing
  <2>3. CASE ReadChapters(r) \/ OpenJob(r)
    BY <1>0, <2>3 DEF ReadChapters, OpenJob, TypeOK, RunState, Writing
  <2> QED BY <1>1, <2>1, <2>2, <2>3 DEF RouteStep
<1>2. CASE PlanStep(r) \/ VolumeDone(r)
  BY <1>0, <1>2 DEF PlanStep, ReuseOutline, AskForOutline, GenerateOutline, Planned,
     VolumeDone, TypeOK, RunState, Writing
<1>3. CASE EndStep(r) \/ BookDone(r) \/ BatchDone(r) \/ BoundaryRenewalFails(r)
           \/ RepairRefused(r) \/ DraftRefused(r) \/ DraftUsageFails(r)
           \/ RefusedAfterSave(r) \/ CompletionUsageFails(r)
  <2>1. run' = [run EXCEPT ![r] = EndedRun("done")]
    BY <1>3 DEF EndStep, RunFails, RunAborts, BookDone, BatchDone, BoundaryRenewalFails,
     RepairRefused, DraftRefused, DraftUsageFails, RefusedAfterSave, CompletionUsageFails, Settle
  <2> QED BY <2>1 DEF TypeOK, EndedRun, IdleRun, Writing
<1>4. CASE ChapterCompleted(r) \/ Repaired(r)
  <2>1. PICK pc, row :
          /\ pc \in {"volume", "loop"}
          /\ run' = [run EXCEPT ![r] = [Counted(run[r], row) EXCEPT !.pc = pc]]
    BY <1>4 DEF ChapterCompleted, Repaired
  <2> QED BY <1>0, <2>1 DEF Counted, TypeOK, RunState, Writing
<1> QED BY <1>1, <1>2, <1>3, <1>4 DEF RunStep, LoopStep, WriteStep, RepairStep

\* Saving the next chapter of a snapshot in it leaves the same chapter next.
LEMMA NextStays ==
  ASSUME NEW view \in [Chapters -> ChapterRow], Open(view) # {}, NEW row,
         row.status = "content_saved"
  PROVE  /\ Open([view EXCEPT ![Next1(view)] = row]) = Open(view)
         /\ Next1([view EXCEPT ![Next1(view)] = row]) = Next1(view)
         /\ [view EXCEPT ![Next1(view)] = row][Next1(view)] = row
<1> DEFINE c == Next1(view)
<1>1. c \in Open(view)
  BY NextIsOpen
<1> HIDE DEF c
<1>2. c \in Chapters
  BY <1>1 DEF Open
<1>3. \A d \in Chapters : IsComplete([view EXCEPT ![c] = row][d]) <=> IsComplete(view[d])
  BY <1>1, <1>2 DEF IsComplete, Open, CompleteIn
<1>4. Open([view EXCEPT ![c] = row]) = Open(view)
  BY <1>3 DEF Open, CompleteIn
<1>5. Next1([view EXCEPT ![c] = row]) = Next1(view)
  BY <1>4 DEF Next1
<1> QED BY <1>2, <1>4, <1>5 DEF c

\* A run that goes on from the middle of its chapter with the same snapshot
\* and bounds is still in place.
LEMMA SamePlace ==
  ASSUME NEW r \in Runs, PlaceInv(r), run[r].pc \in Writing,
         \/ run'[r].pc = run[r].pc
         \/ run[r].pc = "post" /\ run'[r].pc = "revise",
         run'[r].view = run[r].view, run'[r].written = run[r].written,
         run'[r].quota = run[r].quota, run'[r].until = run[r].until
  PROVE  PlaceInv(r)'
  BY DEF PlaceInv, Writing, ShouldStop

\* Every step keeps the runs in place.
LEMMA PlaceStep == TypeOK /\ PlacesInv /\ [Next]_vars => PlacesInv'
<1> SUFFICES ASSUME TypeOK, PlacesInv, [Next]_vars, NEW q \in Runs
             PROVE  PlaceInv(q)'
  BY DEF PlacesInv
<1>1. CASE run'[q] = run[q]
  BY <1>1 DEF PlacesInv, PlaceInv
<1>2. CASE run'[q].pc \notin Writing
  BY <1>2 DEF PlaceInv, Writing
<1>3. ASSUME RunStep(q), run'[q].pc \in Writing
      PROVE  PlaceInv(q)'
  <2> DEFINE c == Next1(run[q].view)
  <2>0. run[q] \in RunState /\ run[q].view \in [Chapters -> ChapterRow] /\ PlaceInv(q)
    BY DEF TypeOK, RunState, PlacesInv
  <2>1. CASE BeginChapter(q)
    <3>1. AtLoop(q) /\ Open(run[q].view) # {} /\ ~ShouldStop(run[q])
      BY <2>1 DEF BeginChapter, AtLoop
    <3>2. c \in Open(run[q].view)
      BY <3>1, NextIsOpen
    <3>3. c \in Chapters /\ run[q].view[c].status \in {"none", "content_saved"}
      BY <2>0, <3>2 DEF Open, CompleteIn, IsComplete, ChapterRow
    <3>4. run' = [run EXCEPT ![q].pc =
                    IF run[q].view[c].status = "content_saved" THEN "repair" ELSE "draft"]
      BY <2>1 DEF BeginChapter
    <3>5. /\ run'[q].pc = IF run[q].view[c].status = "content_saved" THEN "repair" ELSE "draft"
          /\ run'[q].view = run[q].view
          /\ run'[q].written = run[q].written
          /\ run'[q].quota = run[q].quota
          /\ run'[q].until = run[q].until
      BY <2>0, <3>4 DEF TypeOK, RunState
    <3> QED BY <3>1, <3>3, <3>5 DEF PlaceInv, ShouldStop
  <2>2. CASE DraftSaved(q) \/ RevisionSaved(q)
    <3>1. PICK pc :
            /\ pc \in {"post", "post2"}
            /\ run' = [run EXCEPT ![q] =
                         [run[q] EXCEPT !.pc = pc, !.view[c] = SavedRow(q, c)]]
      BY <2>2 DEF DraftSaved, RevisionSaved
    <3>2. run[q].pc \in Writing
      BY <2>2 DEF DraftSaved, RevisionSaved, At, Writing
    <3>3. Open(run[q].view) # {} /\ ~ShouldStop(run[q])
      BY <2>0, <3>2 DEF PlaceInv
    <3>4. c \in Chapters
      BY <3>3, NextIsOpen DEF Open
    <3>5. SavedRow(q, c).status = "content_saved" /\ SavedRow(q, c).by = q
      BY <3>4, SavedRowIs
    <3> HIDE DEF c
    <3>6. /\ run'[q].pc = pc
          /\ run'[q].view = [run[q].view EXCEPT ![c] = SavedRow(q, c)]
          /\ run'[q].written = run[q].written
          /\ run'[q].quota = run[q].quota
          /\ run'[q].until = run[q].until
      BY <2>0, <3>1 DEF TypeOK, RunState
    <3>7. /\ Open(run'[q].view) = Open(run[q].view)
          /\ Next1(run'[q].view) = c
          /\ run'[q].view[c] = SavedRow(q, c)
      BY <2>0, <3>3, <3>5, <3>6, NextStays DEF c
    <3>8. ~ShouldStop(run'[q])
      BY <3>3, <3>6, <3>7 DEF ShouldStop, c
    <3> QED BY <3>1, <3>3, <3>5, <3>6, <3>7, <3>8 DEF PlaceInv
  <2>3. CASE BeginRevision(q)
    <3>1. run[q].pc = "post" /\ run' = [run EXCEPT ![q].pc = "revise"]
      BY <2>3 DEF BeginRevision, At
    <3> QED BY <2>0, <3>1, SamePlace DEF TypeOK, RunState, Writing
  <2>4. CASE ClientLeaves(q) \/ TimerFindsLockLost(q)
    <3>1. \/ run' = [run EXCEPT ![q].cancelled = TRUE]
          \/ run' = [run EXCEPT ![q].lost = TRUE, ![q].cancelled = TRUE]
      BY <2>4 DEF ClientLeaves, TimerFindsLockLost
    <3>2. /\ run'[q].pc = run[q].pc
          /\ run'[q].view = run[q].view
          /\ run'[q].written = run[q].written
          /\ run'[q].quota = run[q].quota
          /\ run'[q].until = run[q].until
      BY <2>0, <3>1 DEF TypeOK, RunState
    <3> QED BY <1>3, <2>0, <3>2, SamePlace
  <2> QED BY <1>3, <2>1, <2>2, <2>3, <2>4, WritingKinds
<1>4. ASSUME NEW r \in Runs, RunStep(r), r # q
      PROVE  run'[q] = run[q]
  BY <1>4, OthersRest
<1>5. CASE Crash
  BY <1>2, <1>1, <1>5 DEF Crash, EndedRun, IdleRun, Writing
<1>6. CASE (\E g \in Replans : ReplanStep(g)) \/ (\E c \in Chapters : AuthorSaves(c))
           \/ LockExpires \/ UNCHANGED vars
  BY <1>1, <1>6 DEF ReplanStep, ReplanStarts, ReplanCommits, ReplanFails, AuthorSaves,
     LockExpires, vars
<1> QED BY <1>1, <1>2, <1>3, <1>4, <1>5, <1>6 DEF Next

\* What holds of every run at every moment: types, current snapshot, place.
RunInv == TypeOK /\ OwnerViewIsCurrent /\ PlacesInv

LEMMA RunInvAlways == Spec => []RunInv
<1>1. Init => RunInv
  BY InitTypeOK DEF Init, RunInv, OwnerViewIsCurrent, OwnsLock, PlacesInv, PlaceInv,
     IdleRun, Writing
<1>2. RunInv /\ [Next]_vars => RunInv'
  BY TypeStep, ViewStep, PlaceStep DEF RunInv
<1> QED BY <1>1, <1>2, PTL DEF Spec

\* The chapter a run writes is one of the outline, and as its place says in
\* the table too.
LEMMA WritesItsChapter ==
  ASSUME RunInv, NEW r \in Runs, NEW c, c = Next1(run[r].view), OwnsLock(r),
         run[r].pc \in Writing
  PROVE  /\ c \in Chapters
         /\ run[r].view = chapter
         /\ run[r].pc = "draft" => chapter[c].status = "none"
         /\ run[r].pc # "draft" => chapter[c].status = "content_saved"
         /\ run[r].pc \in {"post", "revise", "post2"} => chapter[c].by = r
         /\ ~ShouldStop(run[r])
<1>1. PlaceInv(r)
  BY DEF RunInv, PlacesInv
<1>2. c \in Chapters
  BY <1>1, NextIsOpen DEF PlaceInv, Open
<1>3. run[r].view = chapter
  BY ActiveNames DEF RunInv, OwnerViewIsCurrent, Writing
<1> QED BY <1>1, <1>2, <1>3 DEF PlaceInv, Writing

\* The chapters in a step of a run, in terms of the table alone: it drafts a
\* chapter that is not there, revises its own prose, completes saved prose.
LEMMA RunWrites ==
  ASSUME RunInv, NEW r \in Runs, RunStep(r)
  PROVE  \/ UNCHANGED chapter
         \/ \E c \in Chapters :
              /\ c = Next1(run[r].view)
              /\ OwnsLock(r)
              /\ run[r].pc \in Writing
              /\ ~ShouldStop(run[r])
              /\ \/ /\ chapter[c].status = "none"
                    /\ chapter' = [chapter EXCEPT ![c] = SavedRow(r, c)]
                 \/ /\ chapter[c].status = "content_saved"
                    /\ chapter[c].by = r
                    /\ run[r].view = chapter
                    /\ chapter' = [chapter EXCEPT ![c] = SavedRow(r, c)]
                 \/ /\ chapter[c].status = "content_saved"
                    /\ MetaFence(r, c)
                    /\ chapter' = [chapter EXCEPT ![c] = CompletedRow(r, c)]
<1>1. PICK c : c = Next1(run[r].view) /\
         \/ UNCHANGED chapter
         \/ /\ run[r].pc \in {"draft", "revise"}
            /\ UpsertFence(r, c)
            /\ chapter' = [chapter EXCEPT ![c] = SavedRow(r, c)]
         \/ /\ run[r].pc \in {"post", "post2", "revise", "repair"}
            /\ MetaFence(r, c)
            /\ chapter' = [chapter EXCEPT ![c] = CompletedRow(r, c)]
  BY ChapterKinds
<1>2. CASE UNCHANGED chapter
  BY <1>2
<1>3. ASSUME run[r].pc \in {"draft", "revise"}, UpsertFence(r, c),
             chapter' = [chapter EXCEPT ![c] = SavedRow(r, c)]
      PROVE  /\ c \in Chapters /\ OwnsLock(r) /\ run[r].pc \in Writing
             /\ ~ShouldStop(run[r])
             /\ \/ chapter[c].status = "none"
                \/ chapter[c].status = "content_saved" /\ chapter[c].by = r
                     /\ run[r].view = chapter
  BY <1>1, <1>3, WritesItsChapter DEF UpsertFence, Writing
<1>4. ASSUME run[r].pc \in {"post", "post2", "revise", "repair"}, MetaFence(r, c),
             chapter' = [chapter EXCEPT ![c] = CompletedRow(r, c)]
      PROVE  /\ c \in Chapters /\ OwnsLock(r) /\ run[r].pc \in Writing
             /\ ~ShouldStop(run[r])
             /\ chapter[c].status = "content_saved"
  BY <1>1, <1>4, WritesItsChapter DEF MetaFence, Writing
<1> QED BY <1>1, <1>2, <1>3, <1>4

\* A run completes no chapter beyond what its request asked for: between the
\* test at the head of the loop and the completion nothing it counts moved.
THEOREM BatchStaysInQuota == Spec => BatchQuota
<1>1. ASSUME RunInv, [Next]_vars, NEW r \in Runs, NEW c \in Chapters,
             run'[r] # run[r], chapter[c].status # "complete",
             chapter'[c].status = "complete"
      PROVE  IF run[r].until = None THEN run[r].written < run[r].quota
                                    ELSE c <= run[r].until
  <2>0. TypeOK /\ chapter \in [Chapters -> ChapterRow]
    BY <1>1 DEF RunInv, TypeOK
  <2>1. PICK q \in Runs : RunStep(q)
    <3>1. ASSUME NEW d \in Chapters, chapter' = [chapter EXCEPT ![d] = EditedRow(d)]
          PROVE  FALSE
      BY <1>1, <2>0, <3>1, EditedRowIs
    <3>2. ASSUME NEW from \in Nat,
                 chapter' = [d \in Chapters |-> IF d >= from THEN Absent ELSE chapter[d]]
          PROVE  FALSE
      BY <1>1, <3>2 DEF Absent
    <3> QED BY <1>1, <2>0, <3>1, <3>2, StepChapters
  <2>2. q = r
    BY <1>1, <2>0, <2>1, OthersRest
  <2>3. PICK d \in Chapters :
          /\ d = Next1(run[r].view)
          /\ ~ShouldStop(run[r])
          /\ \/ chapter' = [chapter EXCEPT ![d] = SavedRow(r, d)]
             \/ chapter' = [chapter EXCEPT ![d] = CompletedRow(r, d)]
    BY <1>1, <2>1, <2>2, RunWrites
  <2>4. c = d
    BY <1>1, <2>0, <2>3
  <2>5. run[r] \in RunState
    BY <2>0 DEF TypeOK
  <2>6. run[r].written \in Nat /\ run[r].quota \in Nat /\ run[r].until \in Int /\ c \in Int
    BY <2>5, QuotaAssumption, NAssumption DEF RunState, Chapters, None
  <2> QED BY <2>3, <2>4, <2>6 DEF ShouldStop
<1>2. RunInv /\ [Next]_vars =>
        [\A r \in Runs, c \in Chapters :
           /\ run'[r] # run[r]
           /\ chapter[c].status # "complete"
           /\ chapter'[c].status = "complete"
           => IF run[r].until = None THEN run[r].written < run[r].quota
                                     ELSE c <= run[r].until]_vars
  BY <1>1
<1> QED BY <1>2, RunInvAlways, PTL DEF BatchQuota, Spec

\* A run replaces no prose but its own, whoever else held the lock since it
\* started: what it finds saved by others it only completes.
THEOREM OwnProseOnly == Spec => ProseIsOwn
<1>1. ASSUME RunInv, [Next]_vars, NEW r \in Runs, NEW c \in Chapters,
             run'[r] # run[r], chapter[c].status # "none",
             <<chapter'[c].by, chapter'[c].version>> # <<chapter[c].by, chapter[c].version>>
      PROVE  chapter[c].by = r
  <2>0. TypeOK /\ chapter \in [Chapters -> ChapterRow]
    BY <1>1 DEF RunInv, TypeOK
  <2>1. PICK q \in Runs : RunStep(q)
    <3>1. CASE Crash
      BY <1>1, <3>1 DEF Crash
    <3>2. CASE ~Crash /\ ~ \E q \in Runs : RunStep(q)
      <4>1. UNCHANGED run
        BY <1>1, <3>2 DEF Next, ReplanStep, ReplanStarts, ReplanCommits, ReplanFails,
           AuthorSaves, LockExpires, vars
      <4> QED BY <1>1, <4>1
    <3> QED BY <3>1, <3>2
  <2>2. q = r
    BY <1>1, <2>0, <2>1, OthersRest
  <2>3. PICK d \in Chapters :
              \/ /\ chapter[d].status = "none"
                 /\ chapter' = [chapter EXCEPT ![d] = SavedRow(r, d)]
              \/ /\ chapter[d].by = r
                 /\ chapter' = [chapter EXCEPT ![d] = SavedRow(r, d)]
              \/ /\ MetaFence(r, d)
                 /\ chapter' = [chapter EXCEPT ![d] = CompletedRow(r, d)]
    BY <1>1, <2>1, <2>2, RunWrites
  <2>4. c = d
    BY <1>1, <2>0, <2>3
  <2> QED BY <1>1, <2>0, <2>3, <2>4, CompletedRowIs
<1>2. RunInv /\ [Next]_vars =>
        [\A r \in Runs, c \in Chapters :
           /\ run'[r] # run[r]
           /\ chapter[c].status # "none"
           /\ <<chapter'[c].by, chapter'[c].version>>
                # <<chapter[c].by, chapter[c].version>>
           => chapter[c].by = r]_vars
  BY <1>1
<1> QED BY <1>2, RunInvAlways, PTL DEF ProseIsOwn, Spec

-----------------------------------------------------------------------------
(***************************************************************************)
(* The refinement of ChapterLedger.                                        *)
(***************************************************************************)
Holder == IF lockLive THEN lockOwner ELSE NoOne
Rows == [c \in Chapters |-> LedgerRow(c)]

\* A step on one chapter is a step on its row of the ledger.
LEMMA RowsExcept ==
  ASSUME TypeOK, NEW c \in Chapters, NEW r, chapter' = [chapter EXCEPT ![c] = r]
  PROVE  Rows' = [Rows EXCEPT ![c] =
                    [status |-> r.status, version |-> r.version, by |-> r.by]]
<1> DEFINE new == [status |-> r.status, version |-> r.version, by |-> r.by]
<1>1. Rows'[c] = new
  BY DEF TypeOK, Rows, LedgerRow
<1>2. \A d \in Chapters \ {c} : Rows'[d] = Rows[d]
  BY DEF TypeOK, Rows, LedgerRow
<1> HIDE DEF new
<1>3. Rows' = [Rows EXCEPT ![c] = new]
  BY <1>1, <1>2 DEF Rows
<1> QED BY <1>3 DEF new

\* A lock that is released is left, or nobody's as before.
LEMMA LedgerRelease ==
  ASSUME NEW h \in Holders, ReleaseLock(h), UNCHANGED chapter
  PROVE  Ledger!Leave \/ UNCHANGED <<Holder, Rows>>
<1>1. UNCHANGED Rows
  BY DEF Rows, LedgerRow
<1> QED BY <1>1 DEF ReleaseLock, lockVars, Ledger!Leave, Holder, Rows

\* Who holds the novel after a run's write: the run, or nobody.
LEMMA WriterHolds ==
  ASSUME TypeOK, NEW r \in Runs, RunStep(r), OwnsLock(r), run[r].pc \in Writing
  PROVE  Holder = r /\ Holder' \in {r, NoOne}
<1>1. ~Start(r)
  BY DEF Start, At, Writing
<1> QED BY <1>1, LockKinds DEF ReleaseLock, lockVars, OwnsLock, Holder

\* A run takes the novel, leaves it, or writes to it as a writer may.
LEMMA RunLedger ==
  ASSUME RunInv, NEW r \in Runs, RunStep(r)
  PROVE  Ledger!Next \/ UNCHANGED <<Holder, Rows>>
<1>0. TypeOK /\ chapter \in [Chapters -> ChapterRow]
  BY DEF RunInv, TypeOK
<1>1. CASE UNCHANGED chapter
  <2>0. UNCHANGED Rows
    BY <1>1 DEF Rows, LedgerRow
  <2>1. CASE Start(r)
    <3>1. Ledger!Take(r)
      BY <2>0, <2>1 DEF Start, AcquireLock, LockFree, Ledger!Take, Rows
    <3> QED BY <3>1 DEF Ledger!Next
  <2>2. CASE ReleaseLock(r)
    BY <1>1, <2>2, LedgerRelease DEF Holders, Ledger!Next
  <2>3. CASE UNCHANGED lockVars
    BY <2>0, <2>3 DEF lockVars, Holder
  <2> QED BY <1>0, <2>1, <2>2, <2>3, LockKinds
<1>2. ASSUME NEW c \in Chapters, OwnsLock(r), run[r].pc \in Writing,
             chapter[c].status = "none", chapter' = [chapter EXCEPT ![c] = SavedRow(r, c)]
      PROVE  Ledger!Draft(r, c)
  <2>1. Ledger!Writing(r)
    BY <1>0, <1>2, WriterHolds DEF Holder, Ledger!Writing
  <2> DEFINE new == SavedRow(r, c)
  <2>2. new.status = "content_saved" /\ new.version = 0 /\ new.by = r
    BY <1>0, <1>2, SavedRowIs
  <2> HIDE DEF new
  <2>3. Rows' = [Rows EXCEPT ![c] = [status |-> "content_saved", version |-> 0, by |-> r]]
    BY <1>0, <1>2, <2>2, RowsExcept DEF new
  <2>4. Rows[c].status = "none"
    BY <1>2 DEF Rows, LedgerRow
  <2> QED BY <2>1, <2>3, <2>4 DEF Ledger!Draft, Rows
<1>3. ASSUME NEW c \in Chapters, OwnsLock(r), run[r].pc \in Writing,
             chapter[c].status = "content_saved", chapter[c].by = r,
             run[r].view = chapter, chapter' = [chapter EXCEPT ![c] = SavedRow(r, c)]
      PROVE  Ledger!Revise(r, c)
  <2>1. Ledger!Writing(r)
    BY <1>0, <1>3, WriterHolds DEF Holder, Ledger!Writing
  <2>2. Rows[c] = [status |-> "content_saved", version |-> chapter[c].version, by |-> r]
    BY <1>3 DEF Rows, LedgerRow
  <2> DEFINE new == SavedRow(r, c)
  <2>3. new.status = "content_saved" /\ new.version = chapter[c].version + 1 /\ new.by = r
    BY <1>0, <1>3, SavedRowIs
  <2> HIDE DEF new
  <2>4. [Rows[c] EXCEPT !.version = @ + 1]
          = [status |-> new.status, version |-> new.version, by |-> new.by]
    BY <2>2, <2>3
  <2>5. Rows' = [Rows EXCEPT ![c].version = @ + 1]
    BY <1>0, <1>3, <2>4, RowsExcept DEF new
  <2> QED BY <2>1, <2>2, <2>5 DEF Ledger!Revise, Rows
<1>4. ASSUME NEW c \in Chapters, OwnsLock(r), run[r].pc \in Writing,
             chapter[c].status = "content_saved", MetaFence(r, c),
             chapter' = [chapter EXCEPT ![c] = CompletedRow(r, c)]
      PROVE  Ledger!Complete(r, c)
  <2>1. Ledger!Writing(r)
    BY <1>0, <1>4, WriterHolds DEF Holder, Ledger!Writing
  <2>2. Rows[c] = [status |-> "content_saved", version |-> chapter[c].version, by |-> chapter[c].by]
    BY <1>4 DEF Rows, LedgerRow
  <2> DEFINE new == CompletedRow(r, c)
  <2>3. new.status = "complete" /\ new.version = chapter[c].version /\ new.by = chapter[c].by
    BY <1>0, <1>4, CompletedRowIs
  <2> HIDE DEF new
  <2>4. [Rows[c] EXCEPT !.status = "complete"]
          = [status |-> new.status, version |-> new.version, by |-> new.by]
    BY <2>2, <2>3
  <2>5. Rows' = [Rows EXCEPT ![c].status = "complete"]
    BY <1>0, <1>4, <2>4, RowsExcept DEF new
  <2> QED BY <2>1, <2>2, <2>5 DEF Ledger!Complete, Rows
<1> QED BY <1>1, <1>2, <1>3, <1>4, RunWrites DEF Ledger!Next, Ledger!Chapters, Chapters

\* A regeneration takes the novel, leaves it, or truncates it and leaves.
LEMMA ReplanLedger ==
  ASSUME TypeOK, NEW g \in Replans, ReplanStep(g)
  PROVE  Ledger!Next \/ UNCHANGED <<Holder, Rows>>
<1>1. CASE ReplanStarts(g)
  <2>1. UNCHANGED Rows
    BY <1>1 DEF ReplanStarts, Rows, LedgerRow
  <2>2. Ledger!Take(g)
    BY <1>1, <2>1 DEF ReplanStarts, AcquireLock, LockFree, Ledger!Take, Rows
  <2> QED BY <2>2 DEF Ledger!Next
<1>2. CASE ReplanCommits(g)
  <2> DEFINE from == replan[g].from
  <2>1. from \in Chapters
    BY DEF TypeOK, ReplanState
  <2>2. Ledger!Writing(g)
    BY <1>2 DEF ReplanCommits, ReplanStillOwns, OwnsLock, ReleaseLock, Ledger!Writing
  <2>3. Rows' = [c \in Chapters |-> IF c >= from THEN Ledger!Nothing ELSE Rows[c]]
    BY <1>2 DEF ReplanCommits, Rows, LedgerRow, Ledger!Nothing, Absent
  <2>4. Ledger!Truncate(g, from)
    BY <2>2, <2>3 DEF Ledger!Truncate, Ledger!Chapters, Chapters, Rows
  <2> QED BY <2>1, <2>4 DEF Ledger!Next, Ledger!Chapters, Chapters
<1>3. CASE ReplanFails(g)
  BY <1>3, LedgerRelease DEF ReplanFails, Holders, Ledger!Next
<1> QED BY <1>1, <1>2, <1>3 DEF ReplanStep

\* The author edits while nobody holds the novel.
LEMMA AuthorLedger ==
  ASSUME TypeOK, NEW c \in Chapters, AuthorSaves(c)
  PROVE  Ledger!Next \/ UNCHANGED <<Holder, Rows>>
<1>1. Holder = NoOne /\ Holder' = NoOne
  BY DEF AuthorSaves, AuthorMaySave, LockFree, Holder
<1>2. CASE UNCHANGED chapter
  BY <1>1, <1>2 DEF Rows, LedgerRow
<1>3. CASE chapter' = [chapter EXCEPT ![c] = EditedRow(c)]
  <2>1. Rows[c] = [status |-> chapter[c].status, version |-> chapter[c].version, by |-> chapter[c].by]
    BY DEF Rows, LedgerRow
  <2> DEFINE new == EditedRow(c)
  <2>2. /\ new.status = chapter[c].status
        /\ new.version = chapter[c].version + 1
        /\ new.by = Author
    BY <1>3, EditedRowIs
  <2> HIDE DEF new
  <2> DEFINE edited == [status |-> new.status, version |-> new.version, by |-> new.by]
  <2> DEFINE newer == [Rows[c] EXCEPT !.version = @ + 1]
  <2>3. newer = [status |-> chapter[c].status, version |-> chapter[c].version + 1,
                   by |-> chapter[c].by]
    BY <2>1
  <2> HIDE DEF newer
  <2>4. [newer EXCEPT !.by = Author] = edited
    BY <2>2, <2>3
  <2>5. Rows' = [Rows EXCEPT ![c] = edited]
    BY <1>3, RowsExcept DEF new
  <2>6. [Rows EXCEPT ![c].version = @ + 1, ![c].by = Author]
          = [Rows EXCEPT ![c] = [newer EXCEPT !.by = Author]]
    <3>1. [Rows EXCEPT ![c].version = @ + 1]
            = [Rows EXCEPT ![c] = newer]
      BY DEF newer
    <3>2. [Rows EXCEPT ![c].version = @ + 1, ![c].by = Author]
            = [[Rows EXCEPT ![c].version = @ + 1] EXCEPT ![c].by = Author]
      OBVIOUS
    <3> QED BY <3>1, <3>2 DEF Rows
  <2>7. Rows' = [Rows EXCEPT ![c].version = @ + 1, ![c].by = Author]
    BY <2>4, <2>5, <2>6
  <2>8. Ledger!Edit(c)
    BY <1>1, <2>1, <2>7 DEF AuthorSaves, Ledger!Edit, Holder, Rows
  <2> QED BY <2>8 DEF Ledger!Next, Ledger!Chapters, Chapters
<1> QED BY <1>2, <1>3 DEF AuthorSaves

\* Every step is a step of the ledger, or no step of it.
LEMMA LedgerStep == RunInv /\ [Next]_vars => [Ledger!Next]_<<Holder, Rows>>
<1> SUFFICES ASSUME RunInv, [Next]_vars
             PROVE  Ledger!Next \/ UNCHANGED <<Holder, Rows>>
  OBVIOUS
<1>0. TypeOK
  BY DEF RunInv
<1>1. CASE LockExpires
  <2>1. UNCHANGED Rows
    BY <1>1 DEF LockExpires, Rows, LedgerRow
  <2>2. Ledger!Leave
    BY <1>1, <2>1 DEF LockExpires, Ledger!Leave, Rows
  <2> QED BY <2>2 DEF Ledger!Next
<1>2. CASE Crash \/ UNCHANGED vars
  BY <1>2 DEF Crash, vars, Holder, Rows, LedgerRow
<1> QED BY <1>0, <1>1, <1>2, RunLedger, ReplanLedger, AuthorLedger DEF Next

\* Runs, regenerations and the author, through every lapse and takeover of
\* the lock, do to the chapters only what the ledger allows: the writing run
\* implements ChapterLedger.
THEOREM ImplementsLedger == Spec => KeepsLedger
<1>1. Init => Ledger!Init
  BY DEF Init, Ledger!Init, Ledger!Chapters, Chapters, Ledger!Nothing, LedgerRow, Absent
<1>2. RunInv /\ [Next]_vars =>
        [Ledger!Next]_<<IF lockLive THEN lockOwner ELSE NoOne, [c \in Chapters |-> LedgerRow(c)]>>
  BY LedgerStep DEF Holder, Rows
<1> QED BY <1>1, <1>2, RunInvAlways, PTL DEF KeepsLedger, Ledger!Spec, Spec
=============================================================================
