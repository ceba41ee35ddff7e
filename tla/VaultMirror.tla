---------------------------- MODULE VaultMirror ----------------------------
(***************************************************************************)
(* The Markdown mirror of a novel's knowledge entries: the canonical row   *)
(* and its index row in SQLite, the durable outbox of mirror intents       *)
(* (knowledge_vault_outbox), the file in the Vault, and the requests that  *)
(* move them: the author's create, update and delete, the drain of the     *)
(* outbox, and the reconcile of files edited outside the application.      *)
(*                                                                         *)
(* One novel, bound to one established and reachable root; an entry keeps  *)
(* its path and its id.  Transactions and code that only awaits settled    *)
(* promises are one step; a request is suspended while it waits for a      *)
(* lock, for the child process that touches the file, for a hash, or for   *)
(* the client that reads the files.                                        *)
(***************************************************************************)
EXTENDS Integers, FiniteSets

CONSTANTS
  Entries,       \* ids of knowledge entries
  Jobs,          \* requests the server can be serving at once
  Refers,        \* <<f, e>>: the data of f holds a reference to e
  Reconciling,   \* whether files are watched and reconciled
  None,          \* no row, no file, no baseline
  MaxStamp,      \* bound on the clock
  MaxExternal,   \* bound on the edits made outside the application
  MaxRevision,   \* bound on the revision a reconcile may build on
  MaxFaults      \* bound on crashes and failures of the child process

ASSUME EntriesAssumption == Entries # {}
ASSUME RefersAssumption ==
  Refers \subseteq Entries \X Entries /\ \A e \in Entries : <<e, e>> \notin Refers
ASSUME ReconcilingAssumption == Reconciling \in BOOLEAN
ASSUME BoundsAssumption ==
  /\ MaxStamp \in Nat /\ MaxExternal \in Nat
  /\ MaxRevision \in Nat /\ MaxFaults \in Nat

VARIABLES
  row,           \* knowledge_entries, as the Markdown it renders to
  index,         \* knowledge_index
  outbox,        \* knowledge_vault_outbox
  file,          \* the Markdown file of each entry
  job,           \* the requests in progress
  clock,         \* the last timestamp given out
  edits,         \* external edits so far
  absorbed,      \* external edits the database has held (history)
  faults         \* crashes and failures so far

vars == <<row, index, outbox, file, job, clock, edits, absorbed, faults>>
dbVars == <<row, index, outbox>>
worldVars == <<clock, edits, absorbed, faults>>

-----------------------------------------------------------------------------
(***************************************************************************)
(* Markdown is known by its updatedAt and by the external edit that made   *)
(* it, 0 for bytes the application rendered.  An editor does not touch     *)
(* the updatedAt of the front matter.  A row imported from a file renders  *)
(* to the same Markdown.                                                   *)
(***************************************************************************)
Content == [stamp: Nat, edit: Nat]
Rendered(t) == [stamp |-> t, edit |-> 0]

\* content_hash, None when it was taken of the fields and not of a file's
\* bytes, which no file has; mirror_content_hash, the baseline.
IndexRow == [hash: Content \cup {None}, mirror: Content \cup {None}]

\* What is not there is no Markdown and no row.
ASSUME NoneAssumption == None \notin Content \cup IndexRow

\* An upsert intent is deleted when it is done, a delete intent stays as the
\* completed tombstone of its entry.
NoIntent == [op |-> "none", status |-> "none", rev |-> 0]
Intent ==
  {NoIntent} \cup
  [op: {"upsert"}, status: {"pending"}, rev: Nat \ {0}] \cup
  [op: {"delete"}, status: {"pending", "completed"}, rev: Nat \ {0}]

\* An attempt still to be made; rev 0 when its intent is not enqueued yet.
Item == [entry: Entries, op: {"upsert", "delete"}, rev: Nat]

(***************************************************************************)
(* An update or a deletion first waits for the hashes of the index rows it *)
(* writes ("saving", "deleting", "removing" for a reconcile), then writes. *)
(* A request waits for the lock of its entry ("waiting"), then, its intent *)
(* found current, for the lock of the root ("checked"), for the child      *)
(* process ("helper") and for its answer to be handled ("answered"); in    *)
(* "loop" it turns to its next attempt.  A reconcile carries what the      *)
(* client read ("read"), and what it found in the database while it waits  *)
(* for the hash ("hashing").                                               *)
(***************************************************************************)
JobState ==
  [pc: {"idle", "saving", "deleting", "removing", "loop", "waiting", "checked",
        "helper", "answered", "read", "hashing"},
   at: Item, todo: SUBSET Item,
   put: Content \cup {None}, base: Content \cup {None},
   result: {"none", "written", "conflict", "failed"},
   seen: Content \cup {None}, seenRow: Content \cup {None},
   seenHash: Content \cup {None}]

AnItem == [entry |-> CHOOSE e \in Entries : TRUE, op |-> "upsert", rev |-> 0]

IdleJob ==
  [pc |-> "idle", at |-> AnItem, todo |-> {}, put |-> None, base |-> None,
   result |-> "none", seen |-> None, seenRow |-> None, seenHash |-> None]

TypeOK ==
  /\ row \in [Entries -> Content \cup {None}]
  /\ index \in [Entries -> IndexRow \cup {None}]
  /\ outbox \in [Entries -> Intent]
  /\ file \in [Entries -> Content \cup {None}]
  /\ job \in [Jobs -> JobState]
  /\ clock \in Nat
  /\ edits \in Nat
  /\ absorbed \in SUBSET Nat
  /\ faults \in Nat

Init ==
  /\ row = [e \in Entries |-> None]
  /\ index = [e \in Entries |-> None]
  /\ outbox = [e \in Entries |-> NoIntent]
  /\ file = [e \in Entries |-> None]
  /\ job = [j \in Jobs |-> IdleJob]
  /\ clock = 0
  /\ edits = 0
  /\ absorbed = {}
  /\ faults = 0

-----------------------------------------------------------------------------
(***************************************************************************)
(* Intents.                                                                *)
(***************************************************************************)

\* enqueueKnowledgeVaultUpsert and -Delete supersede whatever is there.
Enqueued(e, op) == [op |-> op, status |-> "pending", rev |-> outbox[e].rev + 1]

\* A pending intent of the same kind is used again; a completed one is not.
IntentFor(e, op) ==
  IF outbox[e].op = op /\ outbox[e].status = "pending" THEN outbox[e]
                                                       ELSE Enqueued(e, op)

IsCurrent(i) ==
  outbox[i.entry] = [op |-> i.op, status |-> "pending", rev |-> i.rev]

\* completeKnowledgeVaultUpsert, completeKnowledgeVaultDelete.
Completed(i) ==
  IF ~IsCurrent(i) THEN outbox
  ELSE IF i.op = "upsert" THEN [outbox EXCEPT ![i.entry] = NoIntent]
  ELSE [outbox EXCEPT ![i.entry].status = "completed"]

-----------------------------------------------------------------------------
(***************************************************************************)
(* Requests.                                                               *)
(***************************************************************************)
Attempting(i, todo) ==
  [IdleJob EXCEPT !.pc = "waiting", !.at = i, !.todo = todo]

\* The request goes on with its next attempt or ends.
Continued(todo) ==
  IF todo = {} THEN IdleJob ELSE [IdleJob EXCEPT !.pc = "loop", !.todo = todo]

ItemOf(e) == [entry |-> e, op |-> outbox'[e].op, rev |-> outbox'[e].rev]

Known(e) == row[e] # None /\ index[e] # None

\* trySyncKnowledgeEntryToVault and tryDeleteKnowledgeEntryFromVault: enqueue
\* unless enqueued, then attempt; no upsert without a row.
Try(j, e, op) ==
  IF op = "upsert" /\ ~Known(e)
  THEN /\ outbox' = outbox
       /\ job' = [job EXCEPT ![j] = IdleJob]
  ELSE /\ outbox' = [outbox EXCEPT ![e] = IntentFor(e, op)]
       /\ job' = [job EXCEPT ![j] = Attempting(ItemOf(e), {})]

-----------------------------------------------------------------------------
(***************************************************************************)
(* The author.                                                             *)
(***************************************************************************)
Now == clock + 1

Tick ==
  /\ clock < MaxStamp
  /\ clock' = Now

Mirror(e) == IF index[e] = None THEN None ELSE index[e].mirror

\* upsertKnowledgeIndex leaves mirror_content_hash alone.
Indexed(e, hash) == [hash |-> hash, mirror |-> Mirror(e)]

\* Row, index and intent of one transaction.
SavedInDb(e, content) ==
  /\ row' = [row EXCEPT ![e] = content]
  /\ index' = [index EXCEPT ![e] = Indexed(e, None)]
  /\ outbox' = [outbox EXCEPT ![e] = Enqueued(e, "upsert")]

\* Nobody has heard of the id: it was just made up.
Unheard(e) ==
  /\ row[e] = None /\ index[e] = None /\ outbox[e] = NoIntent /\ file[e] = None
  /\ \A k \in Jobs : job[k].pc # "idle" => /\ job[k].at.entry # e
                                           /\ \A i \in job[k].todo : i.entry # e

\* createKnowledgeEntry; until its transaction the entry is known to nobody.
Create(j, e) ==
  /\ job[j].pc = "idle"
  /\ Unheard(e)
  /\ Tick
  /\ SavedInDb(e, Rendered(Now))
  /\ job' = [job EXCEPT ![j] = Attempting(ItemOf(e), {})]
  /\ UNCHANGED <<file, edits, absorbed, faults>>

\* updateKnowledgeEntry finds the entry and dates the change, ...
Update(j, e) ==
  /\ job[j].pc = "idle"
  /\ row[e] # None
  /\ Tick
  /\ job' = [job EXCEPT ![j] = [IdleJob EXCEPT !.pc = "saving",
                                              !.at = [AnItem EXCEPT !.entry = e],
                                              !.put = Rendered(Now)]]
  /\ UNCHANGED <<dbVars, file, edits, absorbed, faults>>

\* ... and writes it, if the entry is still there.
UpdateCommits(j) ==
  LET e == job[j].at.entry IN
  /\ job[j].pc = "saving"
  /\ IF row[e] # None
     THEN /\ SavedInDb(e, job[j].put)
          /\ job' = [job EXCEPT ![j] = Attempting(ItemOf(e), {})]
     ELSE /\ UNCHANGED dbVars
          /\ job' = [job EXCEPT ![j] = IdleJob]
  /\ UNCHANGED <<file, worldVars>>

Referring(e) == {f \in Entries : <<f, e>> \in Refers /\ row[f] # None}

\* The rows to clean, dated, before the hashes of their index rows are there.
Deleting(pc, e) ==
  [IdleJob EXCEPT !.pc = pc,
                  !.at = [entry |-> e, op |-> "delete", rev |-> 0],
                  !.todo = {[entry |-> f, op |-> "upsert", rev |-> 0] :
                              f \in Referring(e)},
                  !.put = Rendered(Now)]

(***************************************************************************)
(* The transaction of deleteKnowledgeEntry: the row and its index row go;  *)
(* the entries found to refer to it are cleaned, row and index, without an *)
(* intent of theirs; a delete intent comes if the row was there.           *)
(***************************************************************************)
DeletedInDb(e, refs, content) ==
  /\ row' = [f \in Entries |->
               IF f = e THEN None
               ELSE IF f \in refs /\ row[f] # None THEN content ELSE row[f]]
  /\ index' = [f \in Entries |->
                 IF f = e THEN None
                 ELSE IF f \in refs THEN Indexed(f, None) ELSE index[f]]

DeleteIntent(e) ==
  IF row[e] # None THEN [outbox EXCEPT ![e] = Enqueued(e, "delete")] ELSE outbox

\* Nothing to clean is nothing to wait for.
Delete(j, e) ==
  /\ job[j].pc = "idle"
  /\ row[e] # None
  /\ IF Referring(e) = {}
     THEN /\ DeletedInDb(e, {}, None)
          /\ outbox' = DeleteIntent(e)
          /\ job' = [job EXCEPT ![j] = Attempting(ItemOf(e), {})]
          /\ UNCHANGED clock
     ELSE /\ Tick
          /\ job' = [job EXCEPT ![j] = Deleting("deleting", e)]
          /\ UNCHANGED dbVars
  /\ UNCHANGED <<file, edits, absorbed, faults>>

\* The file is deleted next, then the cleaned entries are written.  Somebody
\* else may have deleted the entry: its intent is then made pending again.
DeleteCommits(j) ==
  LET e == job[j].at.entry
      refs == {i.entry : i \in job[j].todo}
  IN
  /\ job[j].pc = "deleting"
  /\ DeletedInDb(e, refs, job[j].put)
  /\ outbox' = IF row[e] # None THEN DeleteIntent(e)
               ELSE [outbox EXCEPT ![e] = IntentFor(e, "delete")]
  /\ job' = [job EXCEPT ![j] = Attempting(ItemOf(e), @.todo)]
  /\ UNCHANGED <<file, worldVars>>

\* The cleaned entries are all enqueued at once; those that are gone are not.
EnqueueCleaned(j) ==
  LET refs == {i.entry : i \in job[j].todo} \cap {f \in Entries : Known(f)} IN
  /\ job[j].pc = "loop"
  /\ \E i \in job[j].todo : i.rev = 0
  /\ outbox' = [f \in Entries |-> IF f \in refs THEN IntentFor(f, "upsert") ELSE outbox[f]]
  /\ job' = [job EXCEPT ![j] = Continued({ItemOf(f) : f \in refs})]
  /\ UNCHANGED <<row, index, file, worldVars>>

-----------------------------------------------------------------------------
(***************************************************************************)
(* drainKnowledgeVaultOutbox: one attempt for each intent pending when it  *)
(* starts, one after the other (their order is left open).                 *)
(***************************************************************************)
PendingItems ==
  {[entry |-> e, op |-> outbox[e].op, rev |-> outbox[e].rev] :
     e \in {f \in Entries : outbox[f].status = "pending"}}

\* Fault: only upserts are retried.
Drainable_Upserts == {i \in PendingItems : i.op = "upsert"}

Drainable == PendingItems

Drain(j) ==
  /\ job[j].pc = "idle"
  /\ Drainable # {}
  /\ job' = [job EXCEPT ![j] = Continued(Drainable)]
  /\ UNCHANGED <<dbVars, file, worldVars>>

\* The upsert of an entry that is gone is dropped, if it is still current.
NextAttempt(j) ==
  /\ job[j].pc = "loop"
  /\ \E i \in job[j].todo :
       LET rest == job[j].todo \ {i} IN
       /\ i.rev # 0
       /\ IF i.op = "upsert" /\ row[i.entry] = None
          THEN /\ outbox' = Completed(i)
               /\ job' = [job EXCEPT ![j] = Continued(rest)]
          ELSE /\ outbox' = outbox
               /\ job' = [job EXCEPT ![j] = Attempting(i, rest)]
  /\ UNCHANGED <<row, index, file, worldVars>>

-----------------------------------------------------------------------------
(***************************************************************************)
(* One attempt.  The lock of the entry is held from "checked" on, the lock *)
(* of the root from "helper" on, both to the end of the attempt.           *)
(***************************************************************************)

\* Fault: attempts for one entry are not serialized.
EntryFree_Always(e) == TRUE

EntryFree(e) ==
  \A k \in Jobs : job[k].pc \in {"checked", "helper", "answered"} => job[k].at.entry # e

RootFree == \A k \in Jobs : job[k].pc \notin {"helper", "answered"}

Check(j) ==
  LET i == job[j].at IN
  /\ job[j].pc = "waiting"
  /\ EntryFree(i.entry)
  /\ job' = [job EXCEPT ![j] = IF IsCurrent(i) THEN [@ EXCEPT !.pc = "checked"]
                               ELSE Continued(@.todo)]
  /\ UNCHANGED <<dbVars, file, worldVars>>

\* The row and the baseline are read here, not when the intent was enqueued.
Spawn(j) ==
  LET i == job[j].at IN
  /\ job[j].pc = "checked"
  /\ RootFree
  /\ IF i.op = "upsert" /\ ~Known(i.entry)
     THEN /\ outbox' = Completed(i)
          /\ job' = [job EXCEPT ![j] = Continued(@.todo)]
     ELSE /\ outbox' = outbox
          /\ job' = [job EXCEPT ![j] =
                       [@ EXCEPT !.pc = "helper",
                                 !.put = IF i.op = "upsert" THEN row[i.entry] ELSE None,
                                 !.base = Mirror(i.entry)]]
  /\ UNCHANGED <<row, index, file, worldVars>>

\* Fault: without a baseline, whatever is there is replaced.
Replaceable_Unknown(current, put, base) ==
  current = None \/ current = put \/ base = None \/ current = base

\* classifyExisting: missing, unchanged, or the bytes last observed.
Replaceable(current, put, base) ==
  current = None \/ current = put \/ (base # None /\ current = base)

\* What the child does to the file; a deletion takes whatever is there.
Conflicts(j) ==
  /\ job[j].at.op = "upsert"
  /\ ~Replaceable(file[job[j].at.entry], job[j].put, job[j].base)

Acted(j) ==
  IF Conflicts(j) THEN file ELSE [file EXCEPT ![job[j].at.entry] = job[j].put]

HelperAnswers(j) ==
  /\ job[j].pc = "helper"
  /\ file' = Acted(j)
  /\ job' = [job EXCEPT ![j].pc = "answered",
                        ![j].result = IF Conflicts(j) THEN "conflict" ELSE "written"]
  /\ UNCHANGED <<dbVars, worldVars>>

\* Killed by its timeout or failing, before or after it touched the file.
HelperFails(j) ==
  /\ job[j].pc = "helper"
  /\ faults < MaxFaults
  /\ faults' = faults + 1
  /\ file' \in {file, Acted(j)}
  /\ job' = [job EXCEPT ![j].pc = "answered", ![j].result = "failed"]
  /\ UNCHANGED <<dbVars, clock, edits, absorbed>>

\* setKnowledgeIndexMirrorContentHash.
Observed(e, content) ==
  IF index[e] # None THEN [index EXCEPT ![e].mirror = content] ELSE index

\* Fault: an attempt that threw completes its intent as well.
Succeeded_UnlessConflict(j) == job[j].result # "conflict"

Succeeded(j) == job[j].result = "written"

\* Written bytes become the baseline and complete the intent attempted; a
\* conflict or a failure is only noted in it.
Finish(j) ==
  LET i == job[j].at IN
  /\ job[j].pc = "answered"
  /\ IF Succeeded(j)
     THEN /\ outbox' = Completed(i)
          /\ index' = IF i.op = "upsert" THEN Observed(i.entry, job[j].put) ELSE index
     ELSE UNCHANGED <<outbox, index>>
  /\ job' = [job EXCEPT ![j] = Continued(@.todo)]
  /\ UNCHANGED <<row, file, worldVars>>

-----------------------------------------------------------------------------
(***************************************************************************)
(* reconcileVaultChangedFiles, for one file.  The client reads it, or      *)
(* finds it missing, and calls the server.                                 *)
(***************************************************************************)
ReadFile(j, e) ==
  /\ Reconciling
  /\ job[j].pc = "idle"
  /\ outbox[e].rev < MaxRevision
  /\ index[e] # None \/ outbox[e] # NoIntent
  /\ job' = [job EXCEPT ![j] =
               [IdleJob EXCEPT !.pc = "read", !.seen = file[e],
                               !.at = [entry |-> e, op |-> "upsert", rev |-> 0]]]
  /\ UNCHANGED <<dbVars, file, worldVars>>

\* An intent decides whatever the file holds: the mirror is written or
\* removed again, and a completed tombstone is made pending again.
ReplayIntent(j) ==
  LET e == job[j].at.entry IN
  /\ job[j].pc = "read"
  /\ outbox[e] # NoIntent
  /\ Try(j, e, outbox[e].op)
  /\ UNCHANGED <<row, index, file, worldVars>>

\* A missing file deletes its entry, if one is indexed; the intent is left to
\* the drain.
MissingFile(j) ==
  LET e == job[j].at.entry IN
  /\ job[j].pc = "read"
  /\ outbox[e] = NoIntent
  /\ job[j].seen = None
  /\ IF index[e] = None
     THEN /\ UNCHANGED <<dbVars, clock>>
          /\ job' = [job EXCEPT ![j] = IdleJob]
     ELSE IF Referring(e) = {}
     THEN /\ DeletedInDb(e, {}, None)
          /\ outbox' = DeleteIntent(e)
          /\ job' = [job EXCEPT ![j] = IdleJob]
          /\ UNCHANGED clock
     ELSE /\ Tick
          /\ job' = [job EXCEPT ![j] = Deleting("removing", e)]
          /\ UNCHANGED dbVars
  /\ UNCHANGED <<file, edits, absorbed, faults>>

RemovalCommits(j) ==
  LET e == job[j].at.entry IN
  /\ job[j].pc = "removing"
  /\ DeletedInDb(e, {i.entry : i \in job[j].todo}, job[j].put)
  /\ outbox' = DeleteIntent(e)
  /\ job' = [job EXCEPT ![j] = IdleJob]
  /\ UNCHANGED <<file, worldVars>>

\* The row and the index row are read, then the content is hashed.
HashFile(j) ==
  LET e == job[j].at.entry IN
  /\ job[j].pc = "read"
  /\ outbox[e] = NoIntent
  /\ job[j].seen # None
  /\ job' = [job EXCEPT ![j] = [@ EXCEPT !.pc = "hashing", !.seenRow = row[e],
                                         !.seenHash = IF index[e] = None THEN None
                                                       ELSE index[e].hash]]
  /\ UNCHANGED <<dbVars, file, worldVars>>

AlreadyImported(j) == job[j].seenHash = job[j].seen

OlderThanRow(j) ==
  job[j].seenRow # None /\ job[j].seen.stamp < job[j].seenRow.stamp

ObserveBaseline(j) ==
  LET e == job[j].at.entry IN
  /\ job[j].pc = "hashing"
  /\ AlreadyImported(j)
  /\ index' = Observed(e, job[j].seen)
  /\ job' = [job EXCEPT ![j] = IdleJob]
  /\ UNCHANGED <<row, outbox, file, worldVars>>

RejectStaleFile(j) ==
  /\ job[j].pc = "hashing"
  /\ ~AlreadyImported(j)
  /\ OlderThanRow(j)
  /\ Try(j, job[j].at.entry, "upsert")
  /\ UNCHANGED <<row, index, file, worldVars>>

\* replaceVaultKnowledgeProjection, decided on what was read before the hash.
Import(j) ==
  LET e == job[j].at.entry
      c == job[j].seen
  IN
  /\ job[j].pc = "hashing"
  /\ ~AlreadyImported(j)
  /\ ~OlderThanRow(j)
  /\ row' = [row EXCEPT ![e] = c]
  /\ index' = [index EXCEPT ![e] = [hash |-> c, mirror |-> c]]
  /\ absorbed' = absorbed \cup {c.edit}
  /\ job' = [job EXCEPT ![j] = IdleJob]
  /\ UNCHANGED <<outbox, file, clock, edits, faults>>

-----------------------------------------------------------------------------
(***************************************************************************)
(* Outside the application: an editor changes or removes the file, a copy  *)
(* comes back from elsewhere; and the process dies, with its requests and  *)
(* their locks (a child it leaves behind ends before the next start).      *)
(***************************************************************************)
EditFile(e) ==
  /\ edits < MaxExternal
  /\ edits' = edits + 1
  /\ row[e] # None \/ outbox[e] # NoIntent
  /\ \E t \in IF file[e] = None THEN 1..clock ELSE {file[e].stamp} :
       file' = [file EXCEPT ![e] = [stamp |-> t, edit |-> edits']]
  /\ UNCHANGED <<dbVars, job, clock, absorbed, faults>>

RemoveFile(e) ==
  /\ edits < MaxExternal
  /\ edits' = edits + 1
  /\ file[e] # None
  /\ file' = [file EXCEPT ![e] = None]
  /\ UNCHANGED <<dbVars, job, clock, absorbed, faults>>

Crash ==
  /\ faults < MaxFaults
  /\ faults' = faults + 1
  /\ \E j \in Jobs : job[j].pc # "idle"
  /\ job' = [j \in Jobs |-> IdleJob]
  /\ UNCHANGED <<dbVars, file, clock, edits, absorbed>>

-----------------------------------------------------------------------------
WriteStep(j) ==
  \/ UpdateCommits(j) \/ DeleteCommits(j) \/ EnqueueCleaned(j)
  \/ NextAttempt(j) \/ Check(j) \/ Spawn(j) \/ HelperAnswers(j) \/ Finish(j)

ReconcileStep(j) ==
  \/ ReplayIntent(j) \/ MissingFile(j) \/ RemovalCommits(j) \/ HashFile(j)
  \/ ObserveBaseline(j) \/ RejectStaleFile(j) \/ Import(j)

Next ==
  \/ \E j \in Jobs, e \in Entries :
       Create(j, e) \/ Update(j, e) \/ Delete(j, e) \/ ReadFile(j, e)
  \/ \E j \in Jobs : Drain(j) \/ WriteStep(j) \/ HelperFails(j) \/ ReconcileStep(j)
  \/ \E e \in Entries : EditFile(e) \/ RemoveFile(e)
  \/ Crash

Spec == Init /\ [][Next]_vars

(***************************************************************************)
(* A request that was started is carried on, and the outbox is drained     *)
(* again and again (on start, on focus, on coming online, after a          *)
(* reconcile).                                                             *)
(***************************************************************************)
FairSpec ==
  /\ Spec
  /\ \A j \in Jobs : WF_vars(WriteStep(j)) /\ WF_vars(ReconcileStep(j))
  /\ WF_vars(\E j \in Jobs : Drain(j))

-----------------------------------------------------------------------------
(***************************************************************************)
(* The mirror is never given up silently: an entry without a pending       *)
(* intent has its row as the baseline, and in its file, unless somebody    *)
(* else changed or removed that.                                           *)
(***************************************************************************)
SettledIsMirrored ==
  \A e \in Entries :
    row[e] # None /\ outbox[e] = NoIntent =>
      /\ Mirror(e) = row[e]
      /\ file[e] = row[e] \/ file[e] = None \/ file[e].edit # 0

\* A deleted entry leaves no Markdown of the application behind for which no
\* delete intent is pending: no late write, no tombstone completed too early.
NoOrphanFile ==
  \A e \in Entries :
    row[e] = None /\ file[e] # None /\ file[e].edit = 0
      => outbox[e].op = "delete" /\ outbox[e].status = "pending"

\* Writing an entry replaces an external edit only after the database has
\* absorbed it.
ExternalEditsKept ==
  [][\A j \in Jobs, e \in Entries :
       /\ job[j].pc = "helper" /\ job'[j].pc = "answered"
       /\ job[j].at.entry = e /\ job[j].at.op = "upsert"
       /\ file[e] # None /\ file'[e] # file[e]
       => file[e].edit \in absorbed \cup {0}]_vars

\* A delete intent ends as a tombstone or is superseded, whatever crashed.
DeletesLand ==
  \A e \in Entries :
    outbox[e].op = "delete" /\ outbox[e].status = "pending"
      ~> outbox[e].op # "delete" \/ outbox[e].status = "completed"
=============================================================================
