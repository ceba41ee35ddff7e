---------------------------- MODULE AnchoredWrite ----------------------------
(***************************************************************************)
(* One Markdown file of the Vault under the child processes that write and *)
(* delete it, call by call of the file system: the file is displaced to a  *)
(* sidecar, looked at, and its replacement linked into the free place, so  *)
(* that nothing an editor wrote meanwhile is overwritten.  A helper can be *)
(* killed between any two calls; one that a dead server left behind runs   *)
(* on next to the one of its successor.  The author's editor writes        *)
(* through a handle it holds open, replaces the file, or removes it.       *)
(*                                                                         *)
(* Names are links to inodes: the canonical name, and one sidecar a helper *)
(* makes.  A link never replaces a name that exists; a rename of the       *)
(* canonical name takes whatever it finds.                                 *)
(***************************************************************************)
EXTENDS Integers, FiniteSets

CONSTANTS
  Helpers,     \* child processes, each used again when it is gone
  Inodes,
  None,
  MaxSaves,    \* bound on the contents the application projects
  MaxEdits,    \* bound on the contents an editor writes
  MaxFaults    \* bound on killed helpers, deaths of the server, refused links

ASSUME BoundsAssumption == MaxSaves \in Nat /\ MaxEdits \in Nat /\ MaxFaults \in Nat
VARIABLES
  canon,       \* the inode the canonical name links to, or None
  side,        \* the inode of the sidecar a helper made, or None
  bytes,       \* the content of the inodes that are linked or open
  handle,      \* the inode an editor holds open, or None
  helper,
  server,
  owed,        \* an editor's contents that nobody took back or absorbed (history)
  edits,
  faults

diskVars == <<canon, side, bytes>>
editorVars == <<handle, edits>>
vars == <<canon, side, bytes, handle, helper, server, owed, edits, faults>>

-----------------------------------------------------------------------------
Content == [by: {"app", "editor", "torn"}, n: Nat]
App(n) == [by |-> "app", n |-> n]
Edit(n) == [by |-> "editor", n |-> n]
\* What a child takes for the whole input when its server dies while feeding it.
Torn == [by |-> "torn", n |-> 0]

ASSUME NoneAssumption == None \notin Helpers /\ None \notin Inodes /\ None \notin Content

Helper ==
  [pc: {"idle", "input", "list", "recover", "compare", "discard", "relink", "release",
        "classify", "displace", "look", "restore", "install", "check", "drop", "remove",
        "exit"},
   content: Content \cup {None}, base: Content \cup {None}, old: Helpers \cup {None},
   seen: Content \cup {None}, inode: Inodes \cup {None}, held: BOOLEAN,
   result: {"none", "written", "unchanged", "conflict", "failed"}]

Idle == [pc |-> "idle", content |-> None, base |-> None, old |-> None, seen |-> None,
         inode |-> None, held |-> FALSE, result |-> "none"]

\* The projection the database wants (None: none, the entry is deleted), the
\* recorded baseline, whether an intent is pending, and the child waited for.
Server ==
  [want: Content \cup {None}, base: Content \cup {None}, pending: BOOLEAN,
   child: Helpers \cup {None}, saves: Nat]

Linked == ({canon, handle} \cup {side[h] : h \in Helpers}) \ {None}
BytesOf(i) == IF i = None THEN None ELSE bytes[i]

\* What a person can still find on the disk.
Shelf == {bytes[i] : i \in ({canon} \cup {side[h] : h \in Helpers}) \ {None}}

TypeOK ==
  /\ canon \in Inodes \cup {None} /\ handle \in Inodes \cup {None}
  /\ side \in [Helpers -> Inodes \cup {None}]
  /\ bytes \in [Inodes -> Content \cup {None}]
  /\ \A i \in Inodes : bytes[i] # None <=> i \in Linked
  /\ helper \in [Helpers -> Helper] /\ server \in Server
  /\ owed \subseteq Content /\ \A c \in owed : c.by = "editor"
  /\ edits \in 0 .. MaxEdits /\ faults \in 0 .. MaxFaults

\* A file of the application or one that was there before, with or without a
\* recorded baseline, or none.
Init ==
  /\ side = [h \in Helpers |-> None] /\ handle = None
  /\ helper = [h \in Helpers |-> Idle]
  /\ edits = 0 /\ faults = 0 /\ owed = {}
  /\ \E i \in Inodes, there \in BOOLEAN, known \in BOOLEAN :
       /\ i = CHOOSE j \in Inodes : TRUE
       /\ canon = IF there THEN i ELSE None
       /\ bytes = [j \in Inodes |-> IF there /\ j = i THEN App(0) ELSE None]
       /\ server = [want |-> App(0), base |-> IF known THEN App(0) ELSE None,
                    pending |-> ~there, child |-> None, saves |-> 0]

-----------------------------------------------------------------------------
(* The disk.                                                               *)

\* The bytes b of the inodes that keep a link or a handle after this step.
Stored(b) == bytes' = [i \in Inodes |-> IF i \in Linked' THEN b[i] ELSE None]

Unchanged == UNCHANGED <<diskVars, owed>>

\* The canonical name is free: it becomes a link to inode i.
Link(i, b) ==
  /\ canon = None
  /\ canon' = i /\ UNCHANGED side /\ Stored(b)

Unlink(s) ==
  /\ side' = [side EXCEPT ![s] = None] /\ UNCHANGED canon /\ Stored(bytes)

Fresh(i) == i \in Inodes \ Linked /\ i = CHOOSE j \in Inodes \ Linked : TRUE

-----------------------------------------------------------------------------
(* The helper.                                                             *)

Goto(h, pc) == helper' = [helper EXCEPT ![h].pc = pc]

Exit(h, result) ==
  helper' = [helper EXCEPT ![h] =
    [Idle EXCEPT !.pc = "exit", !.content = helper[h].content, !.result = result]]

\* Nothing is left of an earlier helper.
Proceed(h) ==
  helper' = [helper EXCEPT ![h].pc = "classify", ![h].old = None, ![h].seen = None,
                           ![h].inode = None]

\* unlinkSync of the own sidecar, then the answer.
DropThen(h, result) ==
  helper' = [helper EXCEPT ![h].pc = "drop", ![h].result = result]

\* What a helper makes of bytes it found, missing ones included.
Class(h, b) ==
  CASE b = None -> "missing"
    [] b # None /\ b = helper[h].content -> "unchanged"
    [] b # None /\ b # helper[h].content /\ b # helper[h].base -> "conflict"
    [] OTHER -> "replaceable"

\* The whole input has arrived.
Fed(h) ==
  /\ helper[h].pc = "input"
  /\ Goto(h, "list") /\ Unchanged

Sidecars == {s \in Helpers : side[s] # None}

List(h) ==
  /\ helper[h].pc = "list" /\ Unchanged
  /\ \/ Cardinality(Sidecars) > 1 /\ Exit(h, "conflict")
     \/ Sidecars = {} /\ Goto(h, "classify")
     \/ \E s \in Sidecars :
          /\ Sidecars = {s}
          /\ helper' = [helper EXCEPT ![h].pc = "recover", ![h].old = s]

\* Reads the sidecar a killed helper left.
Recover(h) ==
  /\ helper[h].pc = "recover" /\ Unchanged
  /\ LET found == side[helper[h].old] IN
     \/ found = None /\ Exit(h, "failed")
     \/ /\ found # None
        /\ helper' = [helper EXCEPT ![h].pc = "compare", ![h].seen = bytes[found],
                                    ![h].inode = found]

\* Mutant: a sidecar with the baseline is not recognised.
Compare_NothingKnown(h) ==
  /\ helper[h].pc = "compare" /\ Unchanged
  /\ LET twin == canon # None /\ canon = helper[h].inode
     IN \/ twin /\ Goto(h, "discard")
        \/ ~twin /\ canon = None /\ Goto(h, "relink")
        \/ ~twin /\ canon # None /\ Exit(h, "conflict")

\* Reads the canonical file and decides: two names of one inode, or a sidecar
\* with the baseline, carry nothing unknown.
Compare(h) ==
  /\ helper[h].pc = "compare" /\ Unchanged
  /\ LET me == helper[h]
         twin == canon # None /\ canon = me.inode
         known == me.base # None /\ me.seen = me.base
     IN \/ (twin \/ known) /\ Goto(h, "discard")
        \/ ~twin /\ ~known /\ canon = None /\ Goto(h, "relink")
        \/ ~twin /\ ~known /\ canon # None /\ Exit(h, "conflict")

\* unlinkSync throws when the sidecar is gone.
Discard(h) ==
  /\ helper[h].pc = "discard" /\ UNCHANGED owed
  /\ LET s == helper[h].old IN
     \/ side[s] = None /\ UNCHANGED diskVars /\ Exit(h, "failed")
     \/ /\ side[s] # None /\ Unlink(s)
        /\ Proceed(h)

Relink(h) ==
  /\ helper[h].pc = "relink" /\ UNCHANGED owed
  /\ LET found == side[helper[h].old] IN
     \/ found = None /\ UNCHANGED diskVars /\ Exit(h, "failed")
     \/ found # None /\ canon # None /\ UNCHANGED diskVars /\ Exit(h, "conflict")
     \/ found # None /\ Link(found, bytes) /\ Goto(h, "release")

Release(h) ==
  /\ helper[h].pc = "release" /\ UNCHANGED owed
  /\ Unlink(helper[h].old)
  /\ Proceed(h)

\* The last look at the canonical file before a replacement is prepared.
Classify(h) ==
  /\ helper[h].pc = "classify" /\ Unchanged
  /\ LET class == Class(h, BytesOf(canon)) IN
     \/ class = "unchanged" /\ Exit(h, "unchanged")
     \/ class = "conflict" /\ Exit(h, "conflict")
     \/ class \in {"missing", "replaceable"} /\ Goto(h, "displace")

\* renameSync of whatever has the canonical name by now.
Displace(h) ==
  /\ helper[h].pc = "displace" /\ UNCHANGED owed
  /\ \/ canon = None /\ UNCHANGED diskVars /\ Goto(h, "install")
     \/ /\ canon # None
        /\ canon' = None /\ side' = [side EXCEPT ![h] = canon] /\ Stored(bytes)
        /\ helper' = [helper EXCEPT ![h].pc = "look", ![h].held = TRUE]

\* Mutant: what was classified before the displacement is trusted.
Look_Trusted(h) ==
  /\ helper[h].pc = "look" /\ Unchanged
  /\ helper' = [helper EXCEPT ![h].pc = "install", ![h].seen = BytesOf(side[h])]

Look(h) ==
  /\ helper[h].pc = "look" /\ Unchanged
  /\ LET b == BytesOf(side[h])
         class == Class(h, b)
     IN \/ class = "missing" /\ Exit(h, "failed")
        \/ /\ class \in {"unchanged", "conflict"}
           /\ helper' = [helper EXCEPT ![h].pc = "restore", ![h].seen = b,
                                       ![h].result = class]
        \/ /\ class = "replaceable"
           /\ helper' = [helper EXCEPT ![h].pc = "install", ![h].seen = b]

\* restoreRegularFileWithoutOverwrite.  A name taken again is a conflict; the
\* bytes of the application may then go, those of an editor stay aside.
Restore(h) ==
  /\ helper[h].pc = "restore" /\ UNCHANGED owed
  /\ \/ side[h] = None /\ UNCHANGED diskVars /\ Exit(h, "failed")
     \/ side[h] # None /\ Link(side[h], bytes) /\ DropThen(h, helper[h].result)
     \/ /\ side[h] # None /\ canon # None /\ UNCHANGED diskVars
        /\ \/ helper[h].result = "unchanged" /\ DropThen(h, "conflict")
           \/ helper[h].result = "conflict" /\ Exit(h, "conflict")

\* linkSync of the prepared file: an existing name is never replaced.
Install(h) ==
  /\ helper[h].pc = "install" /\ UNCHANGED owed
  /\ \/ \E i \in Inodes :
          /\ Fresh(i) /\ Link(i, [bytes EXCEPT ![i] = helper[h].content])
          /\ IF helper[h].held THEN Goto(h, "check") ELSE Exit(h, "written")
     \/ /\ canon # None /\ UNCHANGED diskVars
        /\ IF helper[h].held THEN DropThen(h, "conflict") ELSE Exit(h, "conflict")

\* The file system refuses the link, and perhaps the one that restores as well.
InstallRefused(h) ==
  /\ helper[h].pc = "install" /\ faults < MaxFaults /\ faults' = faults + 1
  /\ UNCHANGED owed
  /\ \/ /\ helper[h].held /\ side[h] # None /\ Link(side[h], bytes)
        /\ DropThen(h, "failed")
     \/ UNCHANGED diskVars /\ Exit(h, "failed")

\* Mutant: the displaced file is not compared again.
Check_Unasked(h) ==
  /\ helper[h].pc = "check" /\ Unchanged
  /\ helper' = [helper EXCEPT ![h].pc = "drop", ![h].result = "written",
                              ![h].seen = BytesOf(side[h])]

\* A write through a handle that was open at the displacement shows here.
Check(h) ==
  /\ helper[h].pc = "check" /\ Unchanged
  /\ LET b == BytesOf(side[h]) IN
     \/ b = None /\ Exit(h, "failed")
     \/ b # None /\ b # helper[h].base /\ Exit(h, "conflict")
     \/ /\ b # None /\ b = helper[h].base
        /\ helper' = [helper EXCEPT ![h].pc = "drop", ![h].result = "written",
                                    ![h].seen = b]

\* A sidecar that is gone already is no error here.
Drop(h) ==
  /\ helper[h].pc = "drop" /\ UNCHANGED owed
  /\ Unlink(h) /\ Exit(h, helper[h].result)

\* The deletion asks for no baseline: an editor's bytes go with the entry.
RemoveFile(h) ==
  /\ helper[h].pc = "remove"
  /\ canon' = None /\ UNCHANGED side /\ Stored(bytes)
  /\ owed' = owed \ {BytesOf(canon)}
  /\ Exit(h, "written")

WriteStep(h) ==
  \/ Fed(h) \/ List(h) \/ Recover(h) \/ Compare(h) \/ Discard(h) \/ Relink(h)
  \/ Release(h) \/ Classify(h) \/ Displace(h) \/ Look(h) \/ Restore(h)
  \/ Install(h) \/ Check(h) \/ Drop(h)

HelperStep(h) ==
  /\ UNCHANGED <<handle, server, edits, faults>>
  /\ WriteStep(h) \/ RemoveFile(h)

RefusedStep(h) == UNCHANGED <<handle, server, edits>> /\ InstallRefused(h)

-----------------------------------------------------------------------------
(* The server: one child at a time for an entry, behind the entry's lock.  *)

\* A name is used again only when nobody has listed its sidecar.
Unused ==
  {h \in Helpers :
     helper[h].pc = "idle" /\ side[h] = None /\ \A g \in Helpers : helper[g].old # h}

Begin(h) ==
  /\ server.pending /\ server.child = None
  /\ h \in Unused /\ h = CHOOSE g \in Unused : TRUE
  /\ server' = [server EXCEPT !.child = h]
  /\ helper' = [helper EXCEPT ![h] =
       [Idle EXCEPT !.pc = IF server.want = None THEN "remove" ELSE "input",
                    !.content = server.want, !.base = server.base]]
  /\ UNCHANGED <<diskVars, editorVars, owed, faults>>

\* The child has ended.  Only a success records a baseline, and completes the
\* intent if the entry was not saved or deleted meanwhile.
Answered(h) ==
  LET me == helper[h] IN
  IF server.child # h THEN server
  ELSE IF me.result \in {"conflict", "failed"} THEN [server EXCEPT !.child = None]
  ELSE [server EXCEPT !.child = None, !.base = me.content,
                      !.pending = server.want # me.content]

Close(h) ==
  /\ helper[h].pc = "exit"
  /\ server' = Answered(h)
  /\ helper' = [helper EXCEPT ![h] = Idle]
  /\ UNCHANGED <<diskVars, editorVars, owed, faults>>

\* SIGKILL after 15 s.
Killed(h) ==
  /\ server.child = h /\ helper[h].pc # "exit" /\ faults < MaxFaults
  /\ helper' = [helper EXCEPT ![h] = Idle]
  /\ server' = [server EXCEPT !.child = None]
  /\ faults' = faults + 1
  /\ UNCHANGED <<diskVars, editorVars, owed>>

\* The children run on.  One that is being fed takes the end of the pipe for
\* the end of its input.
ServerDies ==
  /\ server.child # None /\ faults < MaxFaults
  /\ server' = [server EXCEPT !.child = None]
  /\ helper' = [h \in Helpers |->
       IF h = server.child /\ helper[h].pc = "input"
       THEN [helper[h] EXCEPT !.content = Torn, !.pc = "list"] ELSE helper[h]]
  /\ faults' = faults + 1
  /\ UNCHANGED <<diskVars, editorVars, owed>>

\* The row is created or changes.
Save ==
  /\ server.saves < MaxSaves
  /\ server.want = None => ~server.pending
  /\ server' = [server EXCEPT !.want = App(server.saves + 1), !.pending = TRUE,
                              !.saves = server.saves + 1]
  /\ UNCHANGED <<diskVars, editorVars, helper, owed, faults>>

Delete ==
  /\ server.want # None
  /\ server' = [server EXCEPT !.want = None, !.pending = TRUE]
  /\ UNCHANGED <<diskVars, editorVars, helper, owed, faults>>

\* The reconcile imports what it finds, unless an intent is pending.
Absorb ==
  /\ ~server.pending /\ server.want # None
  /\ canon # None /\ bytes[canon] # server.base
  /\ server' = [server EXCEPT !.want = bytes[canon], !.base = bytes[canon]]
  /\ owed' = owed \ {bytes[canon]}
  /\ UNCHANGED <<diskVars, editorVars, helper, faults>>

-----------------------------------------------------------------------------
(* The author's editor.                                                    *)

EditorOpens ==
  /\ handle = None /\ canon # None /\ edits < MaxEdits
  /\ handle' = canon
  /\ UNCHANGED <<diskVars, helper, server, owed, edits, faults>>

\* Bytes written into a file that has no name left are nobody's to keep.
EditorWrites ==
  /\ handle # None /\ edits < MaxEdits
  /\ edits' = edits + 1
  /\ bytes' = [bytes EXCEPT ![handle] = Edit(edits + 1)]
  /\ owed' = IF handle = canon \/ (\E h \in Helpers : side[h] = handle)
             THEN (owed \ {bytes[handle]}) \cup {Edit(edits + 1)} ELSE owed
  /\ UNCHANGED <<canon, side, handle, helper, server, faults>>

EditorCloses ==
  /\ handle # None
  /\ handle' = None /\ UNCHANGED <<canon, side>> /\ Stored(bytes)
  /\ UNCHANGED <<helper, server, owed, edits, faults>>

\* A new file, or one renamed over the old one.
EditorReplaces ==
  /\ edits < MaxEdits
  /\ edits' = edits + 1
  /\ \E i \in Inodes :
       /\ Fresh(i) /\ canon' = i
       /\ UNCHANGED <<side, handle>> /\ Stored([bytes EXCEPT ![i] = Edit(edits + 1)])
  /\ owed' = (owed \ {BytesOf(canon)}) \cup {Edit(edits + 1)}
  /\ UNCHANGED <<helper, server, faults>>

EditorRemoves ==
  /\ canon # None /\ edits < MaxEdits
  /\ edits' = edits + 1
  /\ canon' = None /\ UNCHANGED <<side, handle>> /\ Stored(bytes)
  /\ owed' = owed \ {BytesOf(canon)}
  /\ UNCHANGED <<helper, server, faults>>

Editor == EditorOpens \/ EditorWrites \/ EditorCloses \/ EditorReplaces \/ EditorRemoves

Next ==
  \/ \E h \in Helpers :
       HelperStep(h) \/ RefusedStep(h) \/ Begin(h) \/ Close(h) \/ Killed(h)
  \/ ServerDies \/ Save \/ Delete \/ Absorb
  \/ Editor

Spec == Init /\ [][Next]_vars

\* Processes run, and what is pending is drained again and again.
Fairness ==
  /\ \A h \in Helpers : WF_vars(HelperStep(h) \/ Close(h))
  /\ WF_vars(\E h \in Helpers : Begin(h))

FairSpec == Spec /\ Fairness

-----------------------------------------------------------------------------
\* An editor's bytes stay on the disk until it takes them back, the entry is
\* deleted, or the database has them: under the canonical name or a sidecar.
\* The one thing a helper loses is what is written through an open handle after
\* its last look at that file.
ExternalBytesKept ==
  [][\A c \in owed \cap owed' :
       c \in Shelf /\ c \notin Shelf'
         => \E h \in Helpers : helper'[h] # helper[h] /\ helper[h].seen \notin {None, c}]_vars

\* A child that a dead server left behind does not put its older projection in
\* the place of a newer one that is recorded, settled and still on the disk.
\* Of a single failure only: of two orphans one can install while the other has
\* the newer file displaced.
SettledStays ==
  [][\A h \in Helpers :
       Install(h) /\ canon' # canon /\ helper[h].content.by = "app"
       /\ ~server.pending /\ server.base \in Shelf /\ server.base.by = "app"
         => helper[h].content.n >= server.base.n]_vars

\* When faults and edits are over, no projection stays pending, unless there is
\* something on the disk that is neither it nor the baseline, for a person to
\* resolve: no sidecar a killed helper left is in the way for ever.
Settles ==
  <>[](server.pending => \E c \in Shelf : c # server.base /\ c # server.want)
=============================================================================
