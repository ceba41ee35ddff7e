--------------------------- MODULE ManuscriptDraft ---------------------------
(***************************************************************************)
(* The text of one chapter on its way from the author's fingers to SQLite: *)
(* the editor's buffer and its single saving loop, the shell's map of      *)
(* unsaved drafts, the recovery store that survives a crash, the list of   *)
(* chapters that the window refetches, and whoever else writes the chapter *)
(* (another window, a writing run, a restore, a unification).              *)
(*                                                                         *)
(* The page is one JavaScript thread: an event handler with the effects it *)
(* causes is one step, and what comes between two steps are the answers of *)
(* the server.  A text is a number in the order of writing; what matters   *)
(* of it is which texts it was written on top of.                          *)
(***************************************************************************)
EXTENDS Integers, Sequences, FiniteSets

CONSTANTS
  Editors,     \* mounted instances of the editing view, one after another
  None,
  MaxTexts,    \* bound on the texts written
  MaxReads,    \* bound on the chapter lists on their way
  MaxExits     \* bound on the ends of the page

ASSUME BoundsAssumption == MaxTexts \in Nat /\ MaxReads \in Nat /\ MaxExits \in Nat

VARIABLES
  written,     \* the text of each version of the chapter, the last is current
  shown,       \* the version the window shows of it, 0 before any list came
  reads,       \* versions carried by chapter lists on their way
  draft,       \* draftContentByChapter: the unsaved text the shell knows
  reported,    \* draftVersions: the version it was reported with
  store,       \* the recovery store, in SQLite
  editor,
  texts,       \* number of the latest text
  seen,        \* the texts each text was written on top of (history)
  authored,    \* the texts of this window's author (history)
  typed,       \* those of this session of the page (history)
  recovered,   \* texts restored from the store (history)
  rebound,     \* an editor opened over a draft that ignores what is shown (history)
  crowded,     \* an editor opened while a closed one was still saving (history)
  exits        \* ends of the page so far

chapterVars == <<written, texts, seen, authored>>
shellVars == <<shown, reads, draft, reported, store>>
sessionVars == <<typed, recovered, exits>>
flags == <<rebound, crowded>>
vars == <<written, shown, reads, draft, reported, store, editor, texts, seen, authored,
          typed, recovered, rebound, crowded, exits>>

-----------------------------------------------------------------------------
Version == Nat
Text == Nat

\* A PATCH of the chapter with what it captured, and its answer.
Request ==
  [content: Text, version: Version, revision: Nat,
   answer: {"awaited", "ok", "refused"}, saved: Version]

Editor ==
  [pc: {"closed", "open", "leaving", "detached"},
   pending: Text, version: Version, dirty: BOOLEAN, revision: Nat, timer: BOOLEAN,
   status: {"clean", "saving", "failed"},
   request: Request \cup {None}]

Draft == [text: Text, version: Version]

ASSUME NoneAssumption == None \notin Nat \cup Request \cup Draft

Closed ==
  [pc |-> "closed", pending |-> 0, version |-> 0, dirty |-> FALSE, revision |-> 0,
   timer |-> FALSE, status |-> "clean", request |-> None]

TypeOK ==
  /\ written \in Seq(Text) /\ written # <<>>
  /\ shown \in Version /\ shown <= Len(written)
  /\ reads \subseteq 1 .. Len(written)
  /\ draft \in Text \cup {None}
  /\ reported \in Version \cup {None}
  /\ store \in Draft \cup {None}
  /\ editor \in [Editors -> Editor]
  /\ texts \in Text
  /\ seen \in [0 .. MaxTexts -> SUBSET Text]
  /\ authored \subseteq Text /\ typed \subseteq Text
  /\ recovered \subseteq Text
  /\ rebound \in BOOLEAN /\ crowded \in BOOLEAN
  /\ exits \in Nat

Init ==
  /\ written = <<0>>
  /\ shown = 0 /\ reads = {}
  /\ draft = None /\ reported = None /\ store = None
  /\ editor = [i \in Editors |-> Closed]
  /\ texts = 0
  /\ seen = [t \in 0 .. MaxTexts |-> {}]
  /\ authored = {} /\ typed = {} /\ recovered = {}
  /\ rebound = FALSE /\ crowded = FALSE
  /\ exits = 0

Current == Len(written)
Stored == written[Current]

\* t is in u: u was written on top of it.
In(t, u) == t = u \/ t \in seen[u]

\* The editing view on the screen; a detached one is only a saving loop.
Mounted(i) == editor[i].pc \in {"open", "leaving"}
Busy(i) == editor[i].request # None

-----------------------------------------------------------------------------
(* Lists of chapters.                                                      *)

\* fetchChapters, after a save and on many other occasions.
Fetch ==
  /\ Current \notin reads /\ Cardinality(reads) < MaxReads
  /\ reads' = reads \cup {Current}
  /\ UNCHANGED <<chapterVars, shown, draft, reported, store, editor, sessionVars, flags>>

\* reconcilePersistedDrafts: the stored draft is of this version and differs.
Restorable(v) == store # None /\ store.version = v /\ store.text # written[v]

Restore(v) ==
  IF Restorable(v)
  THEN /\ draft' = store.text
       /\ recovered' = recovered \cup {store.text}
       /\ UNCHANGED store
  ELSE store' = None /\ UNCHANGED <<draft, recovered>>

\* Mutant: a refresh replaces a buffer with unsaved text.
Refreshed_Dirty(e, v) ==
  IF e.pc = "open" THEN [e EXCEPT !.version = v, !.pending = written[v]] ELSE e

\* Mutant: a buffer with unsaved text takes the new version for its base.
Refreshed_VersionOnly(e, v) ==
  IF e.pc # "open" THEN e
  ELSE IF e.dirty THEN [e EXCEPT !.version = v]
  ELSE [e EXCEPT !.version = v, !.pending = written[v]]

\* The controller takes a new version of its chapter unless text is unsaved.
Refreshed(e, v) ==
  IF e.pc = "open" /\ ~e.dirty THEN [e EXCEPT !.version = v, !.pending = written[v]] ELSE e

\* A list arrives, in whatever order; the first one restores the draft.
FetchArrives(v) ==
  /\ v \in reads
  /\ reads' = reads \ {v}
  /\ shown' = v
  /\ IF shown = 0 THEN Restore(v) ELSE UNCHANGED <<draft, recovered, store>>
  /\ editor' = IF v = shown THEN editor ELSE [i \in Editors |-> Refreshed(editor[i], v)]
  /\ UNCHANGED <<chapterVars, reported, typed, exits, flags>>

-----------------------------------------------------------------------------
(* The editor.                                                             *)

\* Mutant: a switch of chapters forgets the unsaved text the shell knows.
Seeded_FromList(e) ==
  [e EXCEPT !.pc = "open", !.pending = written[shown], !.version = shown,
            !.dirty = FALSE, !.status = "clean"]

\* The buffer and version applyChapterSwitch seeds from draft and list.
Seeded(e) ==
  [e EXCEPT !.pc = "open",
            !.pending = IF draft = None THEN written[shown] ELSE draft,
            !.version = shown,
            !.dirty = draft # None,
            !.status = IF draft = None THEN "clean" ELSE "failed"]

Rebinds == draft # None /\ ~In(written[shown], draft)

\* The author turns to the chapter, or from reading it to editing it.
Open(i) ==
  /\ shown # 0
  /\ \A j \in Editors : ~Mounted(j)
  /\ editor[i].pc = "closed"
  /\ editor' = [editor EXCEPT ![i] = Seeded(Closed)]
  /\ rebound' = (rebound \/ Rebinds)
  /\ crowded' = (crowded \/ \E j \in Editors : editor[j].pc = "detached")
  /\ UNCHANGED <<chapterVars, shellVars, sessionVars>>

Sent(e) ==
  [e EXCEPT !.timer = FALSE, !.status = "saving",
            !.request = [content |-> e.pending, version |-> e.version,
                         revision |-> e.revision, answer |-> "awaited", saved |-> 0]]

\* flushSave: a running loop is shared, and a clean buffer needs none.
Flushed(e) == IF e.dirty /\ e.request = None THEN Sent(e) ELSE [e EXCEPT !.timer = FALSE]

\* The buffer takes a text: handleContentChange.
Changed(e, t) ==
  [e EXCEPT !.pending = t, !.dirty = TRUE, !.revision = @ + 1, !.timer = TRUE]

New == texts + 1

\* A new text, written on top of another one.
Writes(base) ==
  /\ texts < MaxTexts
  /\ texts' = New
  /\ seen' = [seen EXCEPT ![New] = seen[base] \cup {base}]

\* handleDraftContentChange: the shell learns of it in the same event.
Reports(i) ==
  /\ draft' = New
  /\ reported' = editor[i].version
  /\ authored' = authored \cup {New}
  /\ typed' = typed \cup {New}
  /\ UNCHANGED <<written, shown, reads, store, recovered, exits, flags>>

Type(i) ==
  /\ Mounted(i)
  /\ Writes(editor[i].pending)
  /\ editor' = [editor EXCEPT ![i] = Changed(@, New)]
  /\ Reports(i)

\* An accepted proposal is saved at once; the editor's own event with the
\* same text comes only after the request was sent.
ApplyThroughEditor(i) ==
  /\ editor[i].pc = "open"
  /\ Writes(editor[i].pending)
  /\ LET applied == [editor[i] EXCEPT !.pending = New, !.dirty = TRUE] IN
     editor' = [editor EXCEPT ![i] = Changed(Flushed(applied), New)]
  /\ Reports(i)

\* The autosave timer.
TimerFires(i) ==
  /\ editor[i].timer
  /\ editor' = [editor EXCEPT ![i] = Flushed(@)]
  /\ UNCHANGED <<chapterVars, shellVars, sessionVars, flags>>

\* Cmd+S, a retry, a flush before an export.
SaveNow(i) ==
  /\ Mounted(i) /\ editor[i].dirty /\ ~Busy(i)
  /\ editor' = [editor EXCEPT ![i] = Sent(@)]
  /\ UNCHANGED <<chapterVars, shellVars, sessionVars, flags>>

\* PATCH lands: a compare-and-swap of the version that leaves an equal text
\* alone.  The answer may be lost on its way.
PatchSaves(i) ==
  /\ Busy(i) /\ editor[i].request.answer = "awaited"
  /\ editor[i].request.version = Current
  /\ written' = IF editor[i].request.content = Stored THEN written
                ELSE Append(written, editor[i].request.content)
  /\ \/ editor' = [editor EXCEPT ![i].request.answer = "ok",
                                  ![i].request.saved = Len(written')]
     \/ editor' = [editor EXCEPT ![i].request.answer = "refused"]
  /\ UNCHANGED <<texts, seen, authored, shellVars, sessionVars, flags>>

\* The version is another one, a writing run holds the lock, or it fails.
PatchRefused(i) ==
  /\ Busy(i) /\ editor[i].request.answer = "awaited"
  /\ editor' = [editor EXCEPT ![i].request.answer = "refused"]
  /\ UNCHANGED <<chapterVars, shellVars, sessionVars, flags>>

\* Where the loop ends: a switch of chapters goes on, a detached loop is over.
Done(e) ==
  IF e.pc = "open" THEN [e EXCEPT !.request = None] ELSE Closed

\* Mutant: what was typed while the request was on its way counts as saved.
Answered_AnyRevision(i) ==
  LET e == editor[i] IN
  /\ Busy(i) /\ e.request.answer = "ok"
  /\ editor' = [editor EXCEPT ![i] =
       Done([e EXCEPT !.version = e.request.saved, !.dirty = FALSE, !.status = "clean"])]
  /\ draft' = None /\ reported' = None
  /\ UNCHANGED <<chapterVars, shown, reads, store, sessionVars, flags>>

\* Mutant: a newer edit is left to its own timer, which may have fired already.
Answered_Once(i) ==
  LET e == editor[i] IN
  /\ Busy(i) /\ e.request.answer = "ok"
  /\ editor' = [editor EXCEPT ![i] =
       Done([e EXCEPT !.version = e.request.saved, !.dirty = e.revision # e.request.revision,
                      !.status = "clean"])]
  /\ UNCHANGED <<chapterVars, shellVars, sessionVars, flags>>

\* The loop has its answer: the version moves on, and the buffer is clean
\* unless it was edited meanwhile.
Answered(i) ==
  LET e == editor[i]
      advanced == [e EXCEPT !.version = e.request.saved]
  IN
  /\ Busy(i) /\ e.request.answer = "ok"
  /\ IF e.revision # e.request.revision
     THEN IF e.dirty
          THEN editor' = [editor EXCEPT ![i] = Sent(advanced)] /\ UNCHANGED <<draft, reported>>
          ELSE editor' = [editor EXCEPT ![i] = Done(advanced)] /\ UNCHANGED <<draft, reported>>
     ELSE /\ editor' = [editor EXCEPT ![i] =
               Done([advanced EXCEPT !.dirty = FALSE, !.status = "clean"])]
          /\ draft' = None /\ reported' = None
  /\ UNCHANGED <<chapterVars, shown, reads, store, sessionVars, flags>>

Failed(i) ==
  /\ Busy(i) /\ editor[i].request.answer = "refused"
  /\ editor' = [editor EXCEPT ![i] = Done([@ EXCEPT !.status = "failed"])]
  /\ UNCHANGED <<chapterVars, shellVars, sessionVars, flags>>

\* What is left of a closed view: its saving loop.
Gone(e) == IF e.request = None THEN Closed ELSE [e EXCEPT !.pc = "detached", !.timer = FALSE]

\* The author turns to another chapter: what is unsaved is saved first.
Leave(i) ==
  /\ editor[i].pc = "open"
  /\ editor' = [editor EXCEPT ![i] =
       IF @.dirty THEN [Flushed(@) EXCEPT !.pc = "leaving"] ELSE Gone(@)]
  /\ UNCHANGED <<chapterVars, shellVars, sessionVars, flags>>

\* ... and comes back before that is done.
Stay(i) ==
  /\ editor[i].pc = "leaving"
  /\ editor' = [editor EXCEPT ![i] = Seeded(@)]
  /\ rebound' = (rebound \/ Rebinds)
  /\ UNCHANGED <<chapterVars, shellVars, sessionVars, crowded>>

\* The author turns to reading: the view is gone, its saving loop is not.
Unmount(i) ==
  /\ Mounted(i)
  /\ editor' = [editor EXCEPT ![i] = Gone(@)]
  /\ UNCHANGED <<chapterVars, shellVars, sessionVars, flags>>

-----------------------------------------------------------------------------
(* The recovery store and the ends of the page.                            *)

\* buildPersistPayload
Payload ==
  IF draft = None THEN None
  ELSE [text |-> draft, version |-> IF reported = None THEN shown ELSE reported]

\* The debounced mirror of the drafts, once restoring is over.
Persist ==
  /\ shown # 0
  /\ store' = Payload
  /\ UNCHANGED <<chapterVars, shown, reads, draft, reported, editor, sessionVars, flags>>

PageEnds ==
  /\ exits < MaxExits
  /\ exits' = exits + 1
  /\ shown' = 0 /\ reads' = {}
  /\ draft' = None /\ reported' = None
  /\ editor' = [i \in Editors |-> Closed]
  /\ typed' = {}
  /\ UNCHANGED <<chapterVars, recovered, flags>>

Crash == PageEnds /\ UNCHANGED store

\* beforeunload and pagehide mirror the drafts, whether or not they were
\* restored already.
Quit == PageEnds /\ store' = Payload

\* Somebody else writes the chapter.
OthersWrite ==
  /\ Writes(Stored)
  /\ written' = Append(written, New)
  /\ UNCHANGED <<authored, shellVars, editor, sessionVars, flags>>

Next ==
  \/ Fetch \/ \E v \in reads : FetchArrives(v)
  \/ \E i \in Editors :
       \/ Open(i) \/ Type(i) \/ ApplyThroughEditor(i) \/ TimerFires(i) \/ SaveNow(i)
       \/ PatchSaves(i) \/ PatchRefused(i) \/ Answered(i) \/ Failed(i)
       \/ Leave(i) \/ Stay(i) \/ Unmount(i)
  \/ Persist \/ Crash \/ Quit \/ OthersWrite

Spec == Init /\ [][Next]_vars

\* Timers fire and requests are answered; nothing is assumed of the author,
\* of other writers or of the page's life.
Saving(i) == TimerFires(i) \/ PatchSaves(i) \/ PatchRefused(i) \/ Answered(i) \/ Failed(i)
FairSpec == Spec /\ \A i \in Editors : WF_vars(Saving(i))

-----------------------------------------------------------------------------
(***************************************************************************)
(* An editor that does not say it has unsaved text shows a version of the  *)
(* chapter, the one its next save will claim to be based on.               *)
(***************************************************************************)
CleanIsAVersion ==
  \A i \in Editors :
    Mounted(i) /\ ~editor[i].dirty /\ ~crowded => editor[i].pending = written[editor[i].version]

\* A text is kept if something written on top of it is in an open editor, a
\* running save, the shell's drafts or the chapter's history.
Kept(t) ==
  \/ \E i \in Editors : editor[i].pc # "closed" /\ In(t, editor[i].pending)
  \/ draft # None /\ In(t, draft)
  \/ \E v \in DOMAIN written : In(t, written[v])

\* While the page lives, no text the author wrote disappears, unless a save
\* was left running behind a closed view.
TypedIsKept == ~crowded => \A t \in typed : Kept(t)

\* What the author typed last, of what was typed while this page lives.
Last(t) == t \in typed /\ \A u \in typed : u <= t

Saved(t) == \E v \in DOMAIN written : written[v] = t

\* The text typed last is on every screen that shows the chapter, and known to
\* the shell, until a save stored it: no list, refusal, switch or return takes
\* it from the author before, unless a save was left running behind a closed
\* view.
LastTypedIsShown ==
  ~crowded => \A t \in typed :
    Last(t) /\ ~Saved(t) =>
      draft = t /\ \A i \in Editors : Mounted(i) => editor[i].pending = t

Replaces(i) == PatchSaves(i) /\ written' # written

\* A save replaces only what its text was written on top of, unless an editor
\* was opened over a draft that ignores what the window showed, or over a save
\* that was still running.
NoLostUpdate ==
  [][\A i \in Editors :
       Replaces(i) /\ ~rebound /\ ~crowded => In(Stored, editor[i].request.content)]_vars

\* Unsaved text is saved or reported as not saved, or the author has left.
DirtyIsSettled ==
  \A i \in Editors :
    editor[i].pc = "open" /\ editor[i].dirty
      ~> ~editor[i].dirty \/ editor[i].status = "failed" \/ editor[i].pc # "open"
=============================================================================
