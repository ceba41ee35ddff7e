---------------------------- MODULE ImportSession ----------------------------
(***************************************************************************)
(* Importing a manuscript: the native process stages a file in a session   *)
(* directory, the server parses it, the wizard shows its chapters and,     *)
(* when they are to be merged into a book, a report of the chapters they   *)
(* match, and a confirm writes the chapters, the importMeta of the novel   *)
(* and the receipt of the session in one transaction.  The extraction that *)
(* may follow is KbExtraction, whose steps are interleaved with these.     *)
(*                                                                         *)
(* The server is one thread: a confirm is cut at its awaits, before and    *)
(* after it takes the writing lock.  A connection that breaks leaves the   *)
(* confirm running and lets the author press the button again.             *)
(*                                                                         *)
(* The wizard numbers its questions for a report and drops the answer to   *)
(* any but the last, so a report is asked for and shown in one step.       *)
(***************************************************************************)
EXTENDS KbExtraction, Sequences, FiniteSetsExt

CONSTANTS
  Sessions,     \* import tokens; an import's generation is named for its session
  Requests,     \* confirm requests being served
  Book,         \* the novel that exists from the start
  Manuscript,   \* plan -> its chapters [title, text]; 1 is the plan as parsed
  Options,      \* what the author considers doing with a chapter of the manuscript
  MaxNumber,    \* bound on chapter numbers
  MaxStamp      \* bound on the changes made by others than imports

ASSUME SessionsAssumption ==
  Gens = Sessions /\ None \notin Requests /\ "run" \notin Requests \cup {None}
ASSUME BookAssumption == Book \in Novels
ASSUME BoundsAssumption == MaxNumber \in Nat /\ MaxStamp \in Nat
ASSUME ManuscriptAssumption ==
  /\ 1 \in DOMAIN Manuscript /\ 0 \notin DOMAIN Manuscript
  /\ \A p \in DOMAIN Manuscript :
       Manuscript[p] \in Seq([title : Nat, text : [by : {"ms"}, n : Nat]])
ASSUME OptionsAssumption == Options \subseteq {"skip", "overwrite", "append"}

VARIABLES
  dir,        \* session -> its directory
  issued,     \* sessions that were ever staged
  receipt,    \* session -> its import_confirmations row, or None
  chapters,   \* novel -> number -> chapter, or None
  novels,     \* novels that exist
  lock,       \* novel -> who holds its unexpired writing lock
  wizard,     \* the import wizard
  req,        \* request -> the confirm it serves, or None
  stamp,      \* date of the last change by the author or a writing run
  born,       \* number of chapters ever inserted, their ids
  landed      \* session -> number of transactions that imported it

files      == <<dir, issued>>
book       == <<chapters, novels, stamp, born>>
ledger     == <<receipt, landed>>
importVars == <<files, ledger, book, lock, wizard, req>>
vars       == <<importVars, kbVars>>

Numbers == 1 .. MaxNumber
Plans   == DOMAIN Manuscript
Modes   == {"new", "merge"}
Own(d)  == [by |-> "own", n |-> d]      \* what the author or a run wrote at d


\* Chapters, what a report and its author say of them, and requests.
Text     == [by : {"own", "ms"}, n : Nat]
Chapter  == [id : Nat, version : Nat, title : Nat, text : Text]
Agreed   == [id : Nat, version : Nat, text : Text]
Found    == [num : Nat, consent : Agreed \cup {None}]
Decided  == [act : {"skip", "overwrite", "append"}, num : Nat, consent : Agreed \cup {None}]
Hash     == [mode : Modes, plan : Plans, kb : BOOLEAN, decisions : Seq(Decided) \cup {None}]
Receipt  == [hash : Hash, novel : Novels, gen : Gens \cup {None}]

ASSUME RecordsAssumption == None \notin Agreed \cup Receipt

Wizard   == [session : Sessions \cup {None}, mode : Modes, plan : Plans \cup {0},
             report : Seq(Found) \cup {None}, asOf : Nat, busy : BOOLEAN]
Confirm  == [session : Sessions, hash : Hash, asOf : Nat, heard : BOOLEAN, ok : BOOLEAN,
             at : {"sent", "checked", "locked", "leaving"}]

-----------------------------------------------------------------------------
(* The report: lib/import/dedupe.ts. *)

Present(n) == {k \in Numbers : chapters[n][k] # None}
Last(n) == Max(Present(n) \cup {0})

\* By title, else by the opening of the text; the lowest number wins.
Match(n, c) ==
  LET title == {k \in Present(n) : chapters[n][k].title = c.title}
      text  == {k \in Present(n) : chapters[n][k].text = c.text}
  IN  IF title # {} THEN Min(title) ELSE IF text # {} THEN Min(text) ELSE 0

Consent(n, k) ==
  IF k = 0 THEN None
  ELSE [id |-> chapters[n][k].id, version |-> chapters[n][k].version,
        text |-> chapters[n][k].text]

Report(n, p) ==
  [i \in DOMAIN Manuscript[p] |->
     LET k == Match(n, Manuscript[p][i]) IN [num |-> k, consent |-> Consent(n, k)]]

-----------------------------------------------------------------------------
(* The wizard. *)

Closed == [session |-> None, mode |-> "new", plan |-> 0, report |-> None,
           asOf |-> 0, busy |-> FALSE]

\* stage_manuscript_import, and openImportSession with the plan it detects.
Stage(s) ==
  /\ wizard.session = None /\ s \notin issued
  /\ dir' = [dir EXCEPT ![s] = "staged"] /\ issued' = issued \cup {s}
  /\ wizard' = [Closed EXCEPT !.session = s]
  /\ UNCHANGED <<ledger, book, lock, req, kbVars>>

Parse(s) ==
  /\ wizard.session = s /\ wizard.plan = 0 /\ dir[s] = "staged"
  /\ dir' = [dir EXCEPT ![s] = "open"]
  /\ wizard' = [wizard EXCEPT !.plan = 1]
  /\ UNCHANGED <<issued, ledger, book, lock, req, kbVars>>

Idles == wizard.session # None /\ wizard.plan # 0 /\ ~wizard.busy

\* Another mode, or another title, split or join of chapters: the report goes.
Chooses(m, p) ==
  /\ Idles /\ <<m, p>> # <<wizard.mode, wizard.plan>>
  /\ wizard' = [wizard EXCEPT !.mode = m, !.plan = p, !.report = None, !.asOf = 0]
  /\ UNCHANGED <<files, ledger, book, lock, req, kbVars>>

\* dedupeImportSession
Reviews ==
  /\ Idles /\ wizard.mode = "merge" /\ dir[wizard.session] = "open"
  /\ wizard' = [wizard EXCEPT !.report = Report(Book, wizard.plan), !.asOf = stamp]
  /\ UNCHANGED <<files, ledger, book, lock, req, kbVars>>

\* What the author may decide about a report: what matches nothing replaces nothing,
\* and a chapter of the book is replaced by one chapter of the manuscript.
Actions(rep) ==
  {acts \in [DOMAIN rep -> Options] :
     \A i \in DOMAIN rep : acts[i] = "overwrite" =>
       /\ rep[i].num # 0
       /\ \A j \in DOMAIN rep \ {i} : acts[j] = "overwrite" => rep[j].num # rep[i].num}

Decisions(rep, acts) ==
  [i \in DOMAIN rep |-> [act |-> acts[i], num |-> rep[i].num, consent |-> rep[i].consent]]

\* The request's hash stands for all of it.
Asked(kb, decisions) ==
  [mode |-> wizard.mode, plan |-> wizard.plan, kb |-> kb, decisions |-> decisions]

Sends(r, hash) ==
  /\ req' = [req EXCEPT ![r] =
               [session |-> wizard.session, hash |-> hash, asOf |-> wizard.asOf,
                at |-> "sent", heard |-> TRUE, ok |-> FALSE]]
  /\ wizard' = [wizard EXCEPT !.busy = TRUE]
  /\ UNCHANGED <<files, ledger, book, lock, kbVars>>

Idler == CHOOSE r \in Requests : req[r] = None

Confirms ==
  /\ Idles /\ \E r \in Requests : req[r] = None
  /\ \E kb \in BOOLEAN :
       \/ wizard.mode = "new" /\ Sends(Idler, Asked(kb, None))
       \/ /\ wizard.mode = "merge" /\ wizard.report # None
          /\ \E acts \in Actions(wizard.report) :
               Sends(Idler, Asked(kb, Decisions(wizard.report, acts)))

\* The connection breaks: the wizard shows a failure, the confirm runs on.
LosesAnswer(r) ==
  /\ req[r] # None /\ req[r].heard
  /\ req' = [req EXCEPT ![r].heard = FALSE]
  /\ wizard' = [wizard EXCEPT !.busy = FALSE]
  /\ UNCHANGED <<files, ledger, book, lock, kbVars>>

Dismisses ==
  /\ wizard.session # None /\ ~wizard.busy
  /\ wizard' = Closed
  /\ UNCHANGED <<files, ledger, book, lock, req, kbVars>>

-----------------------------------------------------------------------------
(* The confirm on the server. *)

\* The request is over; the wizard, if it still listens, closes on success.
Ends(r, ok) ==
  /\ req' = [req EXCEPT ![r] = None]
  /\ wizard' = IF ~req[r].heard THEN wizard
               ELSE IF ok THEN Closed ELSE [wizard EXCEPT !.busy = FALSE]

\* The transaction of a merge did or did not commit; its lock is yet to go.
Leaves(r, ok) ==
  /\ req' = [req EXCEPT ![r].at = "leaving", ![r].ok = ok]
  /\ UNCHANGED wizard

\* bestEffortRemoveSession
Removed(s) == [dir EXCEPT ![s] = "none"]

Replays(s, hash) == receipt[s] # None /\ receipt[s].hash = hash

Generation(s, hash) == IF hash.kb THEN s ELSE None

\* Everything a confirm of session s writes: acts[i] is what becomes of chapter i,
\* nums[i] the chapter it replaces.
Lands(s, hash, n, acts, nums) ==
  LET plan == Manuscript[hash.plan]
      Rank(i) == Cardinality({j \in 1 .. i : acts[j] = "append"})
      added == Cardinality({i \in DOMAIN plan : acts[i] = "append"})
      Written(k) ==
        IF \E i \in DOMAIN plan : acts[i] = "overwrite" /\ nums[i] = k
        THEN LET i == CHOOSE i \in DOMAIN plan : acts[i] = "overwrite" /\ nums[i] = k
             IN  [chapters[n][k] EXCEPT !.version = @ + 1, !.title = plan[i].title,
                                        !.text = plan[i].text]
        ELSE IF \E i \in DOMAIN plan : acts[i] = "append" /\ Last(n) + Rank(i) = k
        THEN LET i == CHOOSE i \in DOMAIN plan : acts[i] = "append" /\ Last(n) + Rank(i) = k
             IN  [id |-> born + Rank(i), version |-> 0, title |-> plan[i].title,
                  text |-> plan[i].text]
        ELSE chapters[n][k]
  IN  /\ Last(n) + added \in Numbers \cup {0}
      /\ chapters' = [chapters EXCEPT ![n] = [k \in Numbers |-> Written(k)]]
      /\ novels' = novels \cup {n} /\ born' = born + added
      /\ meta' = Regenerated(n, Generation(s, hash))
      /\ used' = used \cup ({Generation(s, hash)} \ {None})
      /\ receipt' = [receipt EXCEPT ![s] =
                       [hash |-> hash, novel |-> n, gen |-> Generation(s, hash)]]
      /\ landed' = [landed EXCEPT ![s] = @ + 1]
      /\ dir' = Removed(s)
      /\ UNCHANGED <<issued, stamp, lock, attemptVars, written, faults>>

\* A receipt answers for its session, before the session directory is needed.  A
\* new book is written at once; a merge waits for the lock.
Receives(r) ==
  /\ req[r] # None /\ req[r].at = "sent"
  /\ LET s == req[r].session
         hash == req[r].hash
     IN  \/ /\ receipt[s] # None
            /\ dir' = IF Replays(s, hash) THEN Removed(s) ELSE dir
            /\ Ends(r, Replays(s, hash))
            /\ UNCHANGED <<issued, ledger, book, lock, kbVars>>
         \/ /\ receipt[s] = None /\ dir[s] # "open"
            /\ Ends(r, FALSE)
            /\ UNCHANGED <<files, ledger, book, lock, kbVars>>
         \/ /\ receipt[s] = None /\ dir[s] = "open" /\ hash.mode = "new"
            /\ LET all == [i \in DOMAIN Manuscript[hash.plan] |-> "append"]
               IN  \E n \in Novels \ novels : Lands(s, hash, n, all, all)
            /\ Ends(r, TRUE)
         \/ /\ receipt[s] = None /\ dir[s] = "open" /\ hash.mode = "merge"
            /\ req' = [req EXCEPT ![r].at = "checked"]
            /\ UNCHANGED <<files, ledger, book, lock, wizard, kbVars>>

\* acquireWritingLock
Locks(r) ==
  /\ req[r] # None /\ req[r].at = "checked"
  /\ IF lock[Book] = None
     THEN /\ lock' = [lock EXCEPT ![Book] = r]
          /\ req' = [req EXCEPT ![r].at = "locked"]
          /\ UNCHANGED wizard
     ELSE Ends(r, FALSE) /\ UNCHANGED lock
  /\ UNCHANGED <<files, ledger, book, kbVars>>

\* Mutant: only a first merge looks for the receipt.
Unreceipted_Always(s) == TRUE

Unreceipted(s) == receipt[s] = None

\* Mutant: the lock is not asked for again.
StillOwned_Unasked(r) == TRUE

StillOwned(r) == lock[Book] = r

\* Mutant: the chapter is known by its number only.
Consents_ByNumber(hash) ==
  \A i \in DOMAIN hash.decisions :
    LET d == hash.decisions[i]
    IN  d.num = Match(Book, Manuscript[hash.plan][i])

\* Each decision is about the chapter it matches now, in the version reviewed.
Consents(hash) ==
  \A i \in DOMAIN hash.decisions :
    LET d == hash.decisions[i]
    IN  /\ d.num = Match(Book, Manuscript[hash.plan][i])
        /\ d.consent = Consent(Book, d.num)

\* The transaction of a merge: it commits, is told what an earlier one committed, or
\* throws for another request's receipt, the lost lock or a stale decision.
Merges(r) ==
  /\ req[r] # None /\ req[r].at = "locked"
  /\ LET s == req[r].session
         hash == req[r].hash
         acts == [i \in DOMAIN hash.decisions |-> hash.decisions[i].act]
         nums == [i \in DOMAIN hash.decisions |-> hash.decisions[i].num]
     IN  \/ /\ ~Unreceipted(s)
            /\ dir' = IF Replays(s, hash) THEN Removed(s) ELSE dir
            /\ Leaves(r, Replays(s, hash))
            /\ UNCHANGED <<issued, ledger, book, lock, kbVars>>
         \/ /\ Unreceipted(s) /\ ~(StillOwned(r) /\ Consents(hash))
            /\ Leaves(r, FALSE)
            /\ UNCHANGED <<files, ledger, book, lock, kbVars>>
         \/ /\ Unreceipted(s) /\ StillOwned(r) /\ Consents(hash)
            /\ Lands(s, hash, Book, acts, nums)
            /\ Leaves(r, TRUE)

\* releaseWritingLock
Unlocks(r) ==
  /\ req[r] # None /\ req[r].at = "leaving"
  /\ lock' = IF lock[Book] = r THEN [lock EXCEPT ![Book] = None] ELSE lock
  /\ Ends(r, req[r].ok)
  /\ UNCHANGED <<files, ledger, book, kbVars>>

-----------------------------------------------------------------------------
(* The others who write chapters, and time. *)

\* The author saves a chapter when no lock is in the way, a writing run under its
\* own lock: another version, and another text.
Rewrites(k) ==
  /\ lock[Book] \in {None, "run"} /\ k \in Present(Book) /\ stamp < MaxStamp
  /\ stamp' = stamp + 1
  /\ chapters' = [chapters EXCEPT ![Book][k].version = @ + 1,
                                 ![Book][k].text = Own(stamp + 1)]
  /\ UNCHANGED <<files, ledger, novels, born, lock, wizard, req, kbVars>>

\* A run writes the next chapter.
Continues ==
  LET k == Last(Book) + 1
  IN  /\ lock[Book] = "run" /\ k \in Numbers /\ stamp < MaxStamp
      /\ stamp' = stamp + 1 /\ born' = born + 1
      /\ chapters' = [chapters EXCEPT ![Book][k] =
                        [id |-> born + 1, version |-> 0, title |-> k,
                         text |-> Own(stamp + 1)]]
      /\ UNCHANGED <<files, ledger, novels, lock, wizard, req, kbVars>>

\* A regeneration of the outline cuts the chapters from k on.
Cuts(k) ==
  /\ lock[Book] = "run" /\ k \in Present(Book) /\ stamp < MaxStamp
  /\ stamp' = stamp + 1
  /\ chapters' = [chapters EXCEPT ![Book] =
                    [j \in Numbers |-> IF j >= k THEN None ELSE chapters[Book][j]]]
  /\ UNCHANGED <<files, ledger, novels, born, lock, wizard, req, kbVars>>

RunTurns ==
  /\ \/ lock[Book] = None /\ lock' = [lock EXCEPT ![Book] = "run"]
     \/ lock[Book] = "run" /\ lock' = [lock EXCEPT ![Book] = None]
  /\ UNCHANGED <<files, ledger, book, wizard, req, kbVars>>

\* The lock of a confirm outlives its 60 seconds (or the process that held it).
\* Between taking it and the transaction the code only resumes from an await, so
\* there it lapses on a machine that sleeps at that moment and not otherwise; the
\* model allows it at any time.
LockExpires ==
  /\ lock[Book] \in Requests /\ lock' = [lock EXCEPT ![Book] = None]
  /\ UNCHANGED <<files, ledger, book, wizard, req, kbVars>>

\* A day later a sweep removes the directory.
SessionExpires(s) ==
  /\ dir[s] # "none" /\ dir' = Removed(s)
  /\ UNCHANGED <<issued, ledger, book, lock, wizard, req, kbVars>>

\* The application dies.  A parsed session is bound to the desktop session that
\* parsed it, so it is as good as unparsed for the next.
Dies ==
  /\ faults < MaxFaults /\ faults' = faults + 1 /\ Forgotten
  /\ dir' = [s \in Sessions |-> IF dir[s] = "open" THEN "staged" ELSE dir[s]]
  /\ wizard' = Closed /\ req' = [r \in Requests |-> None]
  /\ UNCHANGED <<issued, ledger, book, lock>>

-----------------------------------------------------------------------------
FirstBook == [k \in Numbers |->
                IF k = 1 THEN [id |-> k, version |-> 0, title |-> k, text |-> Own(0)]
                ELSE None]

Init ==
  /\ KbInit
  /\ dir = [s \in Sessions |-> "none"] /\ issued = {}
  /\ receipt = [s \in Sessions |-> None]
  /\ chapters = [n \in Novels |->
                   IF n = Book THEN FirstBook ELSE [k \in Numbers |-> None]]
  /\ novels = {Book} /\ lock = [n \in Novels |-> None]
  /\ wizard = Closed /\ req = [r \in Requests |-> None]
  /\ stamp = 0 /\ born = 1 /\ landed = [s \in Sessions |-> 0]

Imported ==
  \/ \E s \in Sessions : Stage(s) \/ Parse(s) \/ SessionExpires(s)
  \/ \E m \in Modes, p \in Plans : Chooses(m, p)
  \/ Reviews \/ Confirms \/ Dismisses
  \/ \E r \in Requests :
       LosesAnswer(r) \/ Receives(r) \/ Locks(r) \/ Merges(r) \/ Unlocks(r)
  \/ \E k \in Numbers : Rewrites(k) \/ Cuts(k)
  \/ Continues \/ RunTurns \/ LockExpires \/ Dies

\* The steps of requests for an extraction and of their work.
Extracted ==
  /\ \/ \E a \in Attempts :
          \/ \E n \in Novels, g \in Gens : Post(a, n, g)
          \/ Request(a) \/ Extraction(a) \/ Aborts(a)
     \/ \E n \in Novels : LeaseExpires(n)
  /\ UNCHANGED importVars

Next == Imported \/ Extracted

Spec == Init /\ [][Next]_vars

-----------------------------------------------------------------------------
(* Properties. *)

ImportTypeOK ==
  /\ dir \in [Sessions -> {"none", "staged", "open"}] /\ issued \subseteq Sessions
  /\ receipt \in [Sessions -> Receipt \cup {None}] /\ landed \in [Sessions -> Nat]
  /\ chapters \in [Novels -> [Numbers -> Chapter \cup {None}]]
  /\ novels \subseteq Novels /\ stamp \in 0 .. MaxStamp /\ born \in Nat
  /\ lock \in [Novels -> Requests \cup {None, "run"}]
  /\ wizard \in Wizard
  /\ req \in [Requests -> Confirm \cup {None}]

TypeOK == KbTypeOK /\ ImportTypeOK

\* A session is imported at most once, however often its confirm is sent, answered
\* late or not at all, and crossed by another (session-confirm.ts 311-332, 377-402).
ImportedOnce == \A s \in Sessions : landed[s] <= 1

\* A merge never replaces prose that was written after the report its author
\* decided on (session-confirm.ts 492-569).
OverwriteSparesNewer ==
  [][\A k \in Numbers :
       /\ chapters[Book][k] # None /\ chapters'[Book][k] # None
       /\ chapters[Book][k].text.by = "own" /\ chapters'[Book][k].text.by = "ms"
       => \E r \in Requests :
            /\ req[r] # None /\ req[r].at = "locked"
            /\ chapters[Book][k].text.n <= req[r].asOf]_vars

\* No import lands in the book while a writing run or a regeneration holds its lock
\* (session-confirm.ts 404-418).
ImportExcludesRun ==
  [][landed' # landed /\ lock[Book] = "run" => chapters'[Book] = chapters[Book]]_vars

\* What imports and crashes do to extractions is what KbExtraction allows them: each
\* import that wants one hands out a generation nobody has heard of.
ImplementsExtraction == KbSpec
=============================================================================
