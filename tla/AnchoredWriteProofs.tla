------------------------- MODULE AnchoredWriteProofs -------------------------
(***************************************************************************)
(* Proofs about AnchoredWrite: its types, that an editor's bytes are kept, *)
(* and that a helper alone never replaces a projection by an older one,    *)
(* for any helpers, inodes and bounds; the last for one failure also as    *)
(* SettledStays.                                                           *)
(*                                                                         *)
(* The difficulty of the second is that several helpers may each remove a  *)
(* name of one inode because they saw it under another.  DoomInv says that *)
(* as long as some helper is about to remove a name having seen the bytes  *)
(* that are there, the inode has a name that nobody is about to remove and *)
(* nobody looked at before these bytes were written.                       *)
(***************************************************************************)
EXTENDS AnchoredWrite, TLAPS

-----------------------------------------------------------------------------
(* The inductive invariant.                                                *)

BeforeDisplacing ==
  {"input", "list", "recover", "compare", "discard", "relink", "release", "classify",
   "displace"}
Recovering == {"compare", "discard", "relink", "release"}

\* What a helper has and knows at each of its calls.
HelperInv(h) ==
  LET me == helper[h] IN
  /\ me.pc \in BeforeDisplacing => side[h] = None /\ \A g \in Helpers : helper[g].old # h
  /\ me.pc \in BeforeDisplacing => ~me.held
  /\ me.pc \notin {"idle", "remove", "exit"} => me.content # None
  /\ me.old # None <=> me.pc \in Recovering \cup {"recover"}
  /\ me.pc \in Recovering => me.seen # None /\ side[me.old] \in {None, me.inode}
  /\ me.pc \in {"restore", "check", "drop"} => me.seen # None
  /\ me.pc = "restore" => me.result \in {"unchanged", "conflict"}
  /\ me.pc = "restore" /\ me.result = "unchanged" => me.seen = me.content
  /\ me.pc = "install" /\ me.held => me.seen # None /\ me.seen = me.base

\* An editor's content that has been written already.
Past(c) == c = None \/ c.by # "editor" \/ c.n <= edits

\* A content the database has had, or nobody's.
Held(c) == Past(c) /\ c \notin owed

PastInv ==
  /\ \A i \in Inodes : Past(bytes[i])
  /\ \A c \in owed : Past(c)
  /\ Held(server.want) /\ Held(server.base)
  /\ \A h \in Helpers :
       Held(helper[h].content) /\ Held(helper[h].base) /\ Past(helper[h].seen)

\* Helper h has read sidecar s and not ended with it.
LookedAt(h, s) ==
  \/ helper[h].pc \in Recovering /\ helper[h].old = s
  \/ h = s /\ helper[h].pc \in {"restore", "check", "drop"}
  \/ h = s /\ helper[h].pc = "install" /\ helper[h].held

\* Its next step removes the name s.
Removes(h, s) ==
  \/ helper[h].pc \in {"discard", "release"} /\ helper[h].old = s
  \/ helper[h].pc = "drop" /\ h = s

Doomed(s) == \E h \in Helpers : Removes(h, s) /\ helper[h].seen = bytes[side[s]]

Marked(s) ==
  \E h \in Helpers : LookedAt(h, s) /\ (helper[h].seen # bytes[side[s]] \/ Removes(h, s))

DoomInv ==
  \A t \in Helpers :
    side[t] # None /\ bytes[side[t]] \in owed /\ Doomed(t)
      => canon = side[t] \/ \E s \in Helpers : side[s] = side[t] /\ ~Marked(s)

IInv == TypeOK /\ (\A h \in Helpers : HelperInv(h)) /\ PastInv /\ DoomInv

-----------------------------------------------------------------------------
(* Types.                                                                  *)

\* A step that leaves every linked inode with bytes keeps the type of bytes.
LEMMA StoredType ==
  ASSUME NEW b \in [Inodes -> Content \cup {None}], Stored(b),
         \A i \in Inodes : i \in Linked' => b[i] # None
  PROVE  /\ bytes' \in [Inodes -> Content \cup {None}]
         /\ \A i \in Inodes : bytes'[i] # None <=> i \in Linked'
BY DEF Stored

\* The fields of a helper that reads, decides and goes on are typed.
LEMMA ContentTypes == /\ \A n \in Nat : App(n) \in Content /\ Edit(n) \in Content
                      /\ Torn \in Content
BY DEF App, Edit, Torn, Content

LEMMA UnlinkType ==
  ASSUME TypeOK, NEW s \in Helpers, Unlink(s), handle' = handle
  PROVE  /\ canon' \in Inodes \cup {None} /\ side' \in [Helpers -> Inodes \cup {None}]
         /\ bytes' \in [Inodes -> Content \cup {None}]
         /\ \A i \in Inodes : bytes'[i] # None <=> i \in Linked'
<1>1. \A i \in Inodes : i \in Linked' => i \in Linked
  BY DEF Linked, Unlink, TypeOK
<1>2. \A i \in Inodes : i \in Linked' => bytes[i] # None
  BY <1>1 DEF TypeOK
<1> QED BY <1>2, StoredType DEF Unlink, TypeOK

LEMMA LinkType ==
  ASSUME TypeOK, NEW i \in Inodes, NEW b \in [Inodes -> Content \cup {None}], Link(i, b),
         handle' = handle, b[i] # None, \A j \in Inodes : j # i => b[j] = bytes[j]
  PROVE  /\ canon' \in Inodes \cup {None} /\ side' \in [Helpers -> Inodes \cup {None}]
         /\ bytes' \in [Inodes -> Content \cup {None}]
         /\ \A j \in Inodes : bytes'[j] # None <=> j \in Linked'
<1>1. \A j \in Inodes : j \in Linked' => j \in Linked \/ j = i
  BY DEF Linked, Link, TypeOK
<1>2. \A j \in Inodes : j \in Linked' => b[j] # None
  BY <1>1 DEF TypeOK
<1> QED BY <1>2, StoredType DEF Link, TypeOK

\* Exit keeps the type of the helpers.
LEMMA ExitType ==
  ASSUME helper \in [Helpers -> Helper], NEW h \in Helpers,
         NEW r \in {"none", "written", "unchanged", "conflict", "failed"}, Exit(h, r)
  PROVE  helper' \in [Helpers -> Helper]
BY DEF Exit, Idle, Helper

\* So do the other ways to go on.
LEMMA GotoType ==
  ASSUME helper \in [Helpers -> Helper], NEW h \in Helpers,
         Goto(h, "check") \/ Proceed(h) \/ DropThen(h, "conflict")
  PROVE  helper' \in [Helpers -> Helper]
<1>1. CASE Goto(h, "check")
  <2>1. PICK r : r = [helper[h] EXCEPT !.pc = "check"]
    OBVIOUS
  <2>2. r \in Helper
    BY <2>1 DEF Helper
  <2> QED BY <1>1, <2>1, <2>2 DEF Goto
<1>2. CASE Proceed(h)
  <2>1. PICK r : r = [helper[h] EXCEPT !.pc = "classify", !.old = None, !.seen = None,
                                       !.inode = None]
    OBVIOUS
  <2>2. r \in Helper
    BY <2>1 DEF Helper
  <2> QED BY <1>2, <2>1, <2>2 DEF Proceed
<1>3. CASE DropThen(h, "conflict")
  <2>1. PICK r : r = [helper[h] EXCEPT !.pc = "drop", !.result = "conflict"]
    OBVIOUS
  <2>2. r \in Helper
    BY <2>1 DEF Helper
  <2> QED BY <1>3, <2>1, <2>2 DEF DropThen
<1> QED BY <1>1, <1>2, <1>3

\* The steps of a helper that change nothing on the disk.
LEMMA ReadingType ==
  ASSUME TypeOK, NEW h \in Helpers, HelperInv(h), Unchanged,
         UNCHANGED <<handle, server, edits, faults>>,
         Fed(h) \/ List(h) \/ Recover(h) \/ Compare(h) \/ Classify(h) \/ Look(h) \/ Check(h)
  PROVE  TypeOK'
<1>1. helper' \in [Helpers -> Helper]
  <2>0. helper \in [Helpers -> Helper]
    BY DEF TypeOK
  <2>1. CASE Fed(h)
    BY <2>0, <2>1 DEF Fed, Goto, Helper
  <2>2. CASE List(h)
    BY <2>0, <2>2, ExitType DEF List, Goto, Sidecars, Helper
  <2>3. CASE Recover(h)
    <3>1. PICK i : i = side[helper[h].old]
      OBVIOUS
    <3>2. i = None \/ (i \in Inodes /\ bytes[i] \in Content \cup {None})
      <4>1. helper[h].old \in Helpers
        BY <2>0, <2>3 DEF Recover, HelperInv, Helper
      <4> QED BY <3>1, <4>1 DEF TypeOK
    <3> QED BY <2>0, <2>3, <3>1, <3>2, ExitType DEF Recover, Helper
  <2>4. CASE Compare(h)
    BY <2>0, <2>4, ExitType DEF Compare, Goto, Helper
  <2>5. CASE Classify(h)
    BY <2>0, <2>5, ExitType DEF Classify, Goto, Helper
  <2>6. CASE Look(h)
    <3>1. PICK b \in Content \cup {None} : b = BytesOf(side[h])
      BY DEF BytesOf, TypeOK
    <3> QED BY <2>0, <2>6, <3>1, ExitType DEF Look, Helper
  <2>7. CASE Check(h)
    <3>1. PICK b \in Content \cup {None} : b = BytesOf(side[h])
      BY DEF BytesOf, TypeOK
    <3> QED BY <2>0, <2>7, <3>1, ExitType DEF Check, Helper
  <2> QED BY <2>1, <2>2, <2>3, <2>4, <2>5, <2>6, <2>7
<1> QED BY <1>1 DEF TypeOK, Unchanged, diskVars, Linked

\* The steps that remove a sidecar's name.
LEMMA UnlinkingType ==
  ASSUME TypeOK, NEW h \in Helpers, HelperInv(h), UNCHANGED <<handle, server, edits, faults>>,
         Discard(h) \/ Release(h) \/ Drop(h)
  PROVE  TypeOK'
<1>1. helper' \in [Helpers -> Helper] /\ owed' = owed
  <2>0. helper \in [Helpers -> Helper]
    BY DEF TypeOK
  <2>1. CASE Discard(h)
    BY <2>0, <2>1, ExitType DEF Discard, Proceed, Helper
  <2>2. CASE Release(h)
    <3>1. Proceed(h) /\ owed' = owed
      BY <2>2 DEF Release
    <3> QED BY <2>0, <3>1, GotoType
  <2>3. CASE Drop(h)
    <3>1. helper[h].result \in {"none", "written", "unchanged", "conflict", "failed"}
      BY <2>0 DEF Helper
    <3> QED BY <2>0, <2>3, <3>1, ExitType DEF Drop
  <2> QED BY <2>1, <2>2, <2>3
<1>2. UNCHANGED diskVars \/ \E s \in Helpers : Unlink(s)
  BY DEF Discard, Release, Drop, TypeOK, Helper, HelperInv, Recovering
<1>3. CASE UNCHANGED diskVars
  BY <1>1, <1>3 DEF TypeOK, diskVars, Linked
<1>4. CASE \E s \in Helpers : Unlink(s)
  BY <1>1, <1>4, UnlinkType DEF TypeOK
<1> QED BY <1>2, <1>3, <1>4

\* The steps that give the canonical name back to an inode that has another.
LEMMA RelinkingType ==
  ASSUME TypeOK, NEW h \in Helpers, HelperInv(h), UNCHANGED <<handle, server, edits>>,
         \/ (Relink(h) \/ Restore(h)) /\ faults' = faults
         \/ InstallRefused(h)
  PROVE  TypeOK'
<1>1. helper' \in [Helpers -> Helper] /\ owed' = owed /\ faults' \in 0 .. MaxFaults
  <2>0. helper \in [Helpers -> Helper] /\ faults \in 0 .. MaxFaults
    BY DEF TypeOK
  <2>1. CASE Relink(h) /\ faults' = faults
    BY <2>0, <2>1, ExitType DEF Relink, Goto, Helper
  <2>2. CASE Restore(h) /\ faults' = faults
    <3>1. helper[h].result \in {"none", "written", "unchanged", "conflict", "failed"}
      BY <2>0 DEF Helper
    <3> QED BY <2>0, <2>2, <3>1, ExitType DEF Restore, DropThen, Helper
  <2>3. CASE InstallRefused(h)
    BY <2>0, <2>3, ExitType, BoundsAssumption DEF InstallRefused, DropThen, Helper
  <2> QED BY <2>1, <2>2, <2>3
<1>2. UNCHANGED diskVars \/ \E s \in Helpers : side[s] # None /\ Link(side[s], bytes)
  BY DEF Relink, Restore, InstallRefused, TypeOK, Helper, HelperInv, Recovering
<1>3. CASE UNCHANGED diskVars
  BY <1>1, <1>3 DEF TypeOK, diskVars, Linked
<1>4. CASE \E s \in Helpers : side[s] # None /\ Link(side[s], bytes)
  <2>1. PICK s \in Helpers : side[s] # None /\ Link(side[s], bytes)
    BY <1>4
  <2>2. PICK i \in Inodes : i = side[s]
    BY <2>1 DEF TypeOK
  <2>3. bytes[i] # None
    BY <2>1, <2>2, NoneAssumption DEF TypeOK, Linked
  <2> QED BY <1>1, <2>1, <2>2, <2>3, LinkType DEF TypeOK
<1> QED BY <1>2, <1>3, <1>4

LEMMA DisplaceType ==
  ASSUME TypeOK, NEW h \in Helpers, Displace(h), UNCHANGED <<handle, server, edits, faults>>
  PROVE  TypeOK'
<1>1. helper' \in [Helpers -> Helper]
  <2>0. helper \in [Helpers -> Helper]
    BY DEF TypeOK
  <2> QED BY <2>0 DEF Displace, Helper, Goto
<1>2. CASE canon = None
  BY <1>1, <1>2 DEF Displace, TypeOK, diskVars, Linked
<1>3. CASE canon # None
  <2>1. canon' = None /\ side' = [side EXCEPT ![h] = canon] /\ Stored(bytes) /\ owed' = owed
    BY <1>3 DEF Displace
  <2>2. \A i \in Inodes : i \in Linked' => bytes[i] # None
    BY <2>1 DEF TypeOK, Linked
  <2> QED BY <1>1, <2>1, <2>2, StoredType DEF TypeOK
<1> QED BY <1>2, <1>3

LEMMA InstallType ==
  ASSUME TypeOK, NEW h \in Helpers, HelperInv(h), Install(h),
         UNCHANGED <<handle, server, edits, faults>>
  PROVE  TypeOK'
<1>1. helper' \in [Helpers -> Helper]
  <2>0. helper \in [Helpers -> Helper]
    BY DEF TypeOK
  <2>1. \/ Goto(h, "check") \/ DropThen(h, "conflict")
        \/ Exit(h, "written") \/ Exit(h, "conflict")
    BY DEF Install
  <2> QED BY <2>0, <2>1, GotoType, ExitType
<1>2. CASE UNCHANGED diskVars
  BY <1>1, <1>2 DEF Install, TypeOK, diskVars, Linked
<1>3. CASE \E i \in Inodes : Fresh(i) /\ Link(i, [bytes EXCEPT ![i] = helper[h].content])
  <2>1. PICK i \in Inodes : Link(i, [bytes EXCEPT ![i] = helper[h].content])
    BY <1>3
  <2>2. PICK b : b = [bytes EXCEPT ![i] = helper[h].content]
    OBVIOUS
  <2>3. helper[h].content \in Content /\ helper[h].content # None
    BY DEF Install, HelperInv, TypeOK, Helper
  <2>4. /\ b \in [Inodes -> Content \cup {None}] /\ b[i] # None
        /\ \A j \in Inodes : j # i => b[j] = bytes[j]
    BY <2>2, <2>3 DEF TypeOK
  <2> QED BY <1>1, <2>1, <2>2, <2>4, LinkType DEF TypeOK, Install
<1> QED BY <1>2, <1>3 DEF Install

LEMMA HelperStepType ==
  ASSUME TypeOK, NEW h \in Helpers, HelperInv(h), HelperStep(h) \/ RefusedStep(h)
  PROVE  TypeOK'
<1>1. CASE RefusedStep(h)
  BY <1>1, RelinkingType DEF RefusedStep
<1>2. CASE HelperStep(h)
  <2>0. UNCHANGED <<handle, server, edits, faults>>
    BY <1>2 DEF HelperStep
  <2>1. CASE Discard(h) \/ Release(h) \/ Drop(h)
    BY <2>0, <2>1, UnlinkingType
  <2>2. CASE Relink(h) \/ Restore(h)
    BY <2>0, <2>2, RelinkingType
  <2>3. CASE Displace(h)
    BY <2>0, <2>3, DisplaceType
  <2>4. CASE Install(h)
    BY <2>0, <2>4, InstallType
  <2>5. CASE RemoveFile(h)
    <3>1. helper' \in [Helpers -> Helper]
      BY <2>5, ExitType DEF RemoveFile, TypeOK
    <3>2. canon' = None /\ side' = side /\ Stored(bytes) /\ owed' \subseteq owed
      BY <2>5 DEF RemoveFile
    <3>3. \A i \in Inodes : i \in Linked' => bytes[i] # None
      BY <2>0, <3>2 DEF TypeOK, Linked
    <3> QED BY <2>0, <3>1, <3>2, <3>3, StoredType DEF TypeOK
  <2>6. CASE Fed(h) \/ List(h) \/ Recover(h) \/ Compare(h) \/ Classify(h) \/ Look(h) \/ Check(h)
    <3>1. Unchanged
      BY <2>6 DEF Fed, List, Recover, Compare, Classify, Look, Check
    <3> QED BY <2>0, <2>6, <3>1, ReadingType
  <2> QED BY <1>2, <2>1, <2>2, <2>3, <2>4, <2>5, <2>6 DEF HelperStep, WriteStep
<1> QED BY <1>1, <1>2

\* The server's steps leave the disk alone.
ServerStep ==
  \/ \E h \in Helpers : Begin(h) \/ Close(h) \/ Killed(h)
  \/ ServerDies \/ Save \/ Delete \/ Absorb

LEMMA ServerStepType ==
  ASSUME TypeOK, ServerStep
  PROVE  TypeOK'
<1>0. /\ helper \in [Helpers -> Helper] /\ server \in Server /\ owed \subseteq Content
      /\ faults \in 0 .. MaxFaults /\ Idle \in Helper
  BY DEF TypeOK, Idle, Helper
<1>1. UNCHANGED <<diskVars, editorVars>> /\ owed' \subseteq owed
  BY DEF ServerStep, Begin, Close, Killed, ServerDies, Save, Delete, Absorb
<1>2. helper' \in [Helpers -> Helper] /\ server' \in Server /\ faults' \in 0 .. MaxFaults
  <2>1. ASSUME NEW h \in Helpers, Begin(h)
        PROVE  helper' \in [Helpers -> Helper] /\ server' \in Server /\ faults' = faults
    <3>1. [Idle EXCEPT !.pc = IF server.want = None THEN "remove" ELSE "input",
                       !.content = server.want, !.base = server.base] \in Helper
      BY <1>0 DEF Server, Helper, Idle
    <3> QED BY <1>0, <2>1, <3>1 DEF Begin, Server
  <2>2. ASSUME NEW h \in Helpers, Close(h)
        PROVE  helper' \in [Helpers -> Helper] /\ server' \in Server /\ faults' = faults
    <3>1. helper[h].content \in Content \cup {None}
      BY <1>0 DEF Helper
    <3>2. Answered(h) \in Server
      BY <1>0, <3>1 DEF Answered, Server
    <3> QED BY <1>0, <2>2, <3>2 DEF Close
  <2>3. ASSUME NEW h \in Helpers, Killed(h)
        PROVE  helper' \in [Helpers -> Helper] /\ server' \in Server
               /\ faults' \in 0 .. MaxFaults
    BY <1>0, <2>3, BoundsAssumption DEF Killed, Server
  <2>4. CASE ServerDies
    <3>1. ASSUME NEW h \in Helpers
          PROVE  [helper[h] EXCEPT !.content = Torn, !.pc = "list"] \in Helper
      BY <1>0, ContentTypes DEF Helper
    <3>2. helper' \in [Helpers -> Helper]
      BY <1>0, <2>4, <3>1 DEF ServerDies
    <3>3. server' = [server EXCEPT !.child = None] /\ faults' = faults + 1 /\ faults < MaxFaults
      BY <2>4 DEF ServerDies
    <3> QED BY <1>0, <3>2, <3>3, BoundsAssumption DEF Server
  <2>5. CASE Save
    <3>1. server.saves \in Nat /\ server.saves + 1 \in Nat
      BY <1>0 DEF Server
    <3>2. PICK c \in Content : c = App(server.saves + 1)
      BY <3>1, ContentTypes
    <3>3. PICK n \in Nat : n = server.saves + 1
      BY <3>1
    <3>4. server' = [server EXCEPT !.want = c, !.pending = TRUE, !.saves = n]
      BY <2>5, <3>2, <3>3 DEF Save
    <3>5. server' \in Server
      BY <1>0, <3>4 DEF Server
    <3> QED BY <1>0, <2>5, <3>5 DEF Save
  <2>7. CASE Delete
    BY <1>0, <2>7 DEF Delete, Server
  <2>6. CASE Absorb
    <3>1. PICK b \in Content \cup {None} : b = bytes[canon]
      BY <2>6 DEF Absorb, TypeOK
    <3> QED BY <1>0, <2>6, <3>1 DEF Absorb, Server
  <2> QED BY <1>0, <2>1, <2>2, <2>3, <2>4, <2>5, <2>6, <2>7 DEF ServerStep
<1> QED BY <1>1, <1>2 DEF TypeOK, diskVars, editorVars, Linked

LEMMA EditorType ==
  ASSUME TypeOK, Editor
  PROVE  TypeOK'
<1>0. Edit(edits + 1) \in Content /\ edits + 1 \in Nat /\ Edit(edits + 1).by = "editor"
  BY ContentTypes DEF TypeOK, Edit
<1>1. CASE EditorOpens
  BY <1>1 DEF EditorOpens, TypeOK, diskVars, Linked
<1>2. CASE EditorWrites
  <2>1. bytes' = [bytes EXCEPT ![handle] = Edit(edits + 1)] /\ handle \in Inodes
    BY <1>2 DEF EditorWrites, TypeOK
  <2>2. Linked' = Linked /\ handle \in Linked
    BY <1>2 DEF EditorWrites, Linked
  <2>3. bytes' \in [Inodes -> Content \cup {None}]
    BY <1>0, <2>1 DEF TypeOK
  <2>4. \A i \in Inodes : bytes'[i] # None <=> i \in Linked'
    BY <1>0, <2>1, <2>2, NoneAssumption DEF TypeOK
  <2>5. owed' \subseteq Content /\ \A c \in owed' : c.by = "editor"
    BY <1>0, <1>2 DEF EditorWrites, TypeOK
  <2> QED BY <1>2, <2>3, <2>4, <2>5, BoundsAssumption DEF EditorWrites, TypeOK
<1>3. CASE EditorCloses
  <2>1. \A i \in Inodes : i \in Linked' => bytes[i] # None
    BY <1>3 DEF EditorCloses, TypeOK, Linked
  <2> QED BY <1>3, <2>1, StoredType DEF EditorCloses, TypeOK
<1>4. CASE EditorReplaces
  <2>1. PICK i \in Inodes : /\ canon' = i /\ UNCHANGED <<side, handle>>
                            /\ Stored([bytes EXCEPT ![i] = Edit(edits + 1)])
    BY <1>4 DEF EditorReplaces
  <2>2. PICK b : b = [bytes EXCEPT ![i] = Edit(edits + 1)]
    OBVIOUS
  <2>3. b \in [Inodes -> Content \cup {None}]
    BY <1>0, <2>2 DEF TypeOK
  <2>4. \A j \in Inodes : j \in Linked' => j \in Linked \/ j = i
    BY <2>1 DEF Linked
  <2>5. \A j \in Inodes : j \in Linked' => b[j] # None
    BY <1>0, <2>2, <2>4, NoneAssumption DEF TypeOK
  <2>6. /\ bytes' \in [Inodes -> Content \cup {None}]
        /\ \A j \in Inodes : bytes'[j] # None <=> j \in Linked'
    BY <2>1, <2>2, <2>3, <2>5, StoredType
  <2>7. owed' \subseteq Content /\ \A c \in owed' : c.by = "editor"
    BY <1>0, <1>4 DEF EditorReplaces, TypeOK
  <2> QED BY <1>4, <2>1, <2>6, <2>7, BoundsAssumption DEF EditorReplaces, TypeOK
<1>5. CASE EditorRemoves
  <2>1. \A i \in Inodes : i \in Linked' => bytes[i] # None
    BY <1>5 DEF EditorRemoves, TypeOK, Linked
  <2>2. owed' \subseteq owed
    BY <1>5 DEF EditorRemoves
  <2> QED BY <1>5, <2>1, <2>2, StoredType, BoundsAssumption DEF EditorRemoves, TypeOK
<1> QED BY <1>1, <1>2, <1>3, <1>4, <1>5 DEF Editor

-----------------------------------------------------------------------------
(* What a helper knows.                                                    *)

\* A step of helper h leaves what the others know alone.
LEMMA OthersInv ==
  ASSUME TypeOK, \A k \in Helpers : HelperInv(k), NEW h \in Helpers, NEW g \in Helpers \ {h},
         \A k \in Helpers \ {h} : helper'[k] = helper[k],
         \/ helper'[h].old \in {None, helper[h].old}
         \/ helper'[h].old \in Helpers /\ side[helper'[h].old] # None,
         \A s \in Helpers :
           \/ side'[s] \in {side[s], None}
           \/ s = h /\ helper[h].pc \in BeforeDisplacing
  PROVE  HelperInv(g)'
<1>1. HelperInv(g) /\ helper'[g] = helper[g]
  OBVIOUS
<1>2. ASSUME helper[g].pc \in BeforeDisplacing
      PROVE  side'[g] = None /\ \A k \in Helpers : helper'[k].old # g
  <2>1. side[g] = None /\ \A k \in Helpers : helper[k].old # g
    BY <1>1, <1>2 DEF HelperInv
  <2>2. side'[g] = None
    BY <2>1
  <2>3. helper'[h].old # g
    BY <2>1, NoneAssumption
  <2> QED BY <2>1, <2>2, <2>3
<1>3. ASSUME helper[g].pc \in Recovering
      PROVE  side'[helper[g].old] \in {None, helper[g].inode}
  <2>1. helper[g].old \in Helpers /\ side[helper[g].old] \in {None, helper[g].inode}
    BY <1>1, <1>3 DEF HelperInv, TypeOK, Helper
  <2>2. helper[g].old = h => helper[h].pc \notin BeforeDisplacing
    BY DEF HelperInv
  <2> QED BY <2>1, <2>2
<1> QED BY <1>1, <1>2, <1>3 DEF HelperInv

\* A helper that is about to exit knows nothing any more.
LEMMA ExitInv ==
  ASSUME helper \in [Helpers -> Helper], NEW h \in Helpers, NEW r, Exit(h, r)
  PROVE  /\ HelperInv(h)' /\ helper'[h].old = None /\ helper'[h].pc = "exit"
         /\ helper'[h].content = helper[h].content /\ helper'[h].base = None
         /\ \A k \in Helpers \ {h} : helper'[k] = helper[k]
<1>1. /\ helper'[h].pc = "exit" /\ helper'[h].old = None /\ helper'[h].base = None
      /\ helper'[h].content = helper[h].content
      /\ \A k \in Helpers \ {h} : helper'[k] = helper[k]
  BY DEF Exit, Idle
<1> QED BY <1>1 DEF HelperInv, BeforeDisplacing, Recovering

\* The steps that change nothing on the disk.
LEMMA ReadingInv ==
  ASSUME TypeOK, \A k \in Helpers : HelperInv(k), NEW h \in Helpers, Unchanged,
         Fed(h) \/ List(h) \/ Recover(h) \/ Compare(h) \/ Classify(h) \/ Look(h) \/ Check(h)
  PROVE  \A g \in Helpers : HelperInv(g)'
<1>0. /\ HelperInv(h) /\ helper \in [Helpers -> Helper] /\ side' = side /\ bytes' = bytes
      /\ side \in [Helpers -> Inodes \cup {None}] /\ bytes \in [Inodes -> Content \cup {None}]
      /\ \A i \in Inodes : bytes[i] # None <=> i \in Linked
  BY DEF TypeOK, Unchanged, diskVars
<1>1. \A k \in Helpers \ {h} : helper'[k] = helper[k]
  BY <1>0 DEF Fed, List, Recover, Compare, Classify, Look, Check, Goto, Exit
<1>2. HelperInv(h)' /\ (\/ helper'[h].old \in {None, helper[h].old}
                        \/ helper'[h].old \in Helpers /\ side[helper'[h].old] # None)
  <2>1. CASE \E r \in {"unchanged", "conflict", "failed", "written"} : Exit(h, r)
    BY <1>0, <2>1, ExitInv
  <2>2. CASE Fed(h)
    BY <1>0, <1>1, <2>2 DEF Fed, Goto, HelperInv, BeforeDisplacing, Recovering, Helper
  <2>3. CASE List(h) /\ ~\E r \in {"conflict"} : Exit(h, r)
    <3>1. CASE Goto(h, "classify")
      <4>1. helper[h].pc = "list"
        BY <2>3 DEF List
      <4>2. /\ helper'[h].pc = "classify" /\ helper'[h].old = helper[h].old
            /\ helper'[h].content = helper[h].content /\ helper'[h].held = helper[h].held
        BY <1>0, <3>1 DEF Goto, Helper
      <4>3. \A k \in Helpers : helper'[k].old = helper[k].old
        BY <1>1, <4>2
      <4> QED BY <1>0, <4>1, <4>2, <4>3 DEF HelperInv, BeforeDisplacing, Recovering
    <3>2. ASSUME NEW s \in Sidecars,
                 helper' = [helper EXCEPT ![h].pc = "recover", ![h].old = s]
          PROVE  HelperInv(h)' /\ helper'[h].old \in Helpers /\ side[helper'[h].old] # None
      <4>1. s # h /\ s \in Helpers /\ side[s] # None /\ s # None
        BY <1>0, <2>3, NoneAssumption DEF List, Sidecars, HelperInv, BeforeDisplacing
      <4>2. \A k \in Helpers : helper[k].old # h
        BY <1>0, <2>3 DEF List, HelperInv, BeforeDisplacing
      <4>3. /\ helper'[h].pc = "recover" /\ helper'[h].old = s
            /\ helper'[h].content = helper[h].content /\ helper'[h].held = helper[h].held
        BY <1>0, <3>2 DEF Helper
      <4>4. \A k \in Helpers : helper'[k].old # h
        BY <1>1, <4>1, <4>2, <4>3
      <4> QED BY <1>0, <2>3, <4>1, <4>3, <4>4 DEF List, HelperInv, BeforeDisplacing, Recovering
    <3> QED BY <2>3, <3>1, <3>2 DEF List
  <2>4. CASE Recover(h) /\ ~Exit(h, "failed")
    <3>1. helper[h].old \in Helpers
      BY <1>0, <2>4 DEF Recover, HelperInv, Helper
    <3>2. PICK i \in Inodes : i = side[helper[h].old]
      BY <1>0, <2>4, <3>1 DEF Recover
    <3>3. bytes[i] # None
      BY <1>0, <3>1, <3>2, NoneAssumption DEF Linked
    <3>4. /\ helper'[h].pc = "compare" /\ helper'[h].seen = bytes[i] /\ helper'[h].inode = i
          /\ helper'[h].old = helper[h].old /\ helper'[h].content = helper[h].content
          /\ helper'[h].held = helper[h].held
      BY <1>0, <2>4, <3>2 DEF Recover, Helper
    <3>5. \A k \in Helpers : helper'[k].old = helper[k].old
      BY <1>1, <3>4
    <3> QED BY <1>0, <2>4, <3>1, <3>2, <3>3, <3>4, <3>5
            DEF Recover, HelperInv, BeforeDisplacing, Recovering
  <2>5. CASE Compare(h) /\ ~Exit(h, "conflict")
    BY <1>0, <1>1, <2>5 DEF Compare, Goto, HelperInv, BeforeDisplacing, Recovering, Helper
  <2>6. CASE Classify(h) /\ Goto(h, "displace")
    BY <1>0, <1>1, <2>6 DEF Classify, Goto, HelperInv, BeforeDisplacing, Recovering, Helper
  <2>7. CASE Look(h) /\ ~Exit(h, "failed")
    <3>1. PICK b : b = BytesOf(side[h])
      OBVIOUS
    <3>2. /\ helper'[h].pc \in {"restore", "install"} /\ helper'[h].seen = b /\ b # None
          /\ helper'[h].pc = "restore" => helper'[h].result \in {"unchanged", "conflict"}
          /\ helper'[h].pc = "restore" /\ helper'[h].result = "unchanged" => b = helper[h].content
          /\ helper'[h].pc = "install" => b = helper[h].base
          /\ helper'[h].content = helper[h].content /\ helper'[h].base = helper[h].base
          /\ helper'[h].old = helper[h].old
      BY <1>0, <2>7, <3>1 DEF Look, Class, Helper
    <3> QED BY <1>0, <2>7, <3>2 DEF Look, HelperInv, BeforeDisplacing, Recovering
  <2>8. CASE Check(h) /\ ~\E r \in {"conflict", "failed"} : Exit(h, r)
    <3>1. PICK b : b = BytesOf(side[h])
      OBVIOUS
    <3>2. /\ helper'[h].pc = "drop" /\ helper'[h].seen = b /\ b # None
          /\ helper'[h].content = helper[h].content /\ helper'[h].old = helper[h].old
      BY <1>0, <2>8, <3>1 DEF Check, Helper
    <3> QED BY <1>0, <2>8, <3>2 DEF Check, HelperInv, BeforeDisplacing, Recovering
  <2> QED BY <2>1, <2>2, <2>3, <2>4, <2>5, <2>6, <2>7, <2>8 DEF Classify
<1> QED BY <1>0, <1>1, <1>2, OthersInv
\* The steps that remove or give names.
LEMMA NamingInv ==
  ASSUME TypeOK, \A k \in Helpers : HelperInv(k), NEW h \in Helpers,
         \/ Discard(h) \/ Relink(h) \/ Release(h) \/ Displace(h) \/ Restore(h) \/ Install(h)
         \/ InstallRefused(h) \/ Drop(h) \/ RemoveFile(h)
  PROVE  \A g \in Helpers : HelperInv(g)'
<1>0. /\ HelperInv(h) /\ helper \in [Helpers -> Helper]
      /\ side \in [Helpers -> Inodes \cup {None}]
  BY DEF TypeOK
<1>1. \A k \in Helpers \ {h} : helper'[k] = helper[k]
  BY <1>0 DEF Discard, Relink, Release, Displace, Restore, Install, InstallRefused, Drop,
     RemoveFile, Goto, Exit, Proceed, DropThen
<1>2. \A s \in Helpers :
        \/ side'[s] \in {side[s], None}
        \/ s = h /\ helper[h].pc \in BeforeDisplacing
  BY <1>0 DEF Discard, Relink, Release, Displace, Restore, Install, InstallRefused, Drop,
     RemoveFile, Unlink, Link, diskVars, BeforeDisplacing
<1>3. HelperInv(h)' /\ helper'[h].old \in {None, helper[h].old}
  <2>1. CASE \E r \in {"unchanged", "conflict", "failed", "written", helper[h].result} :
               Exit(h, r)
    BY <1>0, <2>1, ExitInv
  <2>2. CASE (Discard(h) \/ Release(h)) /\ Proceed(h)
    <3>1. /\ helper'[h].pc = "classify" /\ helper'[h].old = None
          /\ helper'[h].content = helper[h].content /\ helper'[h].held = helper[h].held
      BY <1>0, <2>2 DEF Proceed, Helper
    <3>2. helper[h].pc \in {"discard", "release"}
      BY <2>2 DEF Discard, Release
    <3>3. side'[h] = None
      <4>1. side[h] = None
        BY <1>0, <3>2 DEF HelperInv, BeforeDisplacing
      <4>2. side' = side \/ \E s : side' = [side EXCEPT ![s] = None]
        BY <2>2 DEF Discard, Release, Unlink, diskVars
      <4> QED BY <1>0, <4>1, <4>2
    <3> QED BY <1>0, <1>1, <3>1, <3>2, <3>3, NoneAssumption
            DEF HelperInv, BeforeDisplacing, Recovering
  <2>3. CASE Relink(h) /\ Goto(h, "release")
    <3>1. /\ helper'[h].pc = "release" /\ helper'[h].old = helper[h].old
          /\ helper'[h].content = helper[h].content /\ helper'[h].held = helper[h].held
          /\ helper'[h].seen = helper[h].seen /\ helper'[h].inode = helper[h].inode
      BY <1>0, <2>3 DEF Goto, Helper
    <3>2. helper[h].pc = "relink" /\ helper[h].old \in Helpers /\ side' = side
      BY <1>0, <2>3 DEF Relink, Link, diskVars, HelperInv, Recovering, Helper
    <3>3. \A k \in Helpers : helper'[k].old = helper[k].old
      BY <1>1, <3>1
    <3> QED BY <1>0, <3>1, <3>2, <3>3 DEF HelperInv, BeforeDisplacing, Recovering
  <2>4. CASE Displace(h)
    <3>1. /\ helper'[h].pc \in {"look", "install"} /\ helper'[h].old = helper[h].old
          /\ helper'[h].content = helper[h].content
          /\ helper'[h].pc = "install" => helper'[h].held = helper[h].held
      BY <1>0, <2>4 DEF Displace, Goto, Helper
    <3>2. helper[h].pc = "displace"
      BY <2>4 DEF Displace
    <3> QED BY <1>0, <3>1, <3>2 DEF HelperInv, BeforeDisplacing, Recovering
  <2>5. CASE helper[h].pc = "install" /\ helper[h].held /\ Goto(h, "check")
    <3>1. /\ helper'[h].pc = "check" /\ helper'[h].old = helper[h].old
          /\ helper'[h].content = helper[h].content /\ helper'[h].seen = helper[h].seen
      BY <1>0, <2>5 DEF Goto, Helper
    <3> QED BY <1>0, <2>5, <3>1 DEF HelperInv, BeforeDisplacing, Recovering
  <2>6. CASE /\ helper[h].pc = "restore" \/ (helper[h].pc = "install" /\ helper[h].held)
             /\ \E r \in {"conflict", "failed", helper[h].result} : DropThen(h, r)
    <3>1. /\ helper'[h].pc = "drop" /\ helper'[h].old = helper[h].old
          /\ helper'[h].content = helper[h].content /\ helper'[h].seen = helper[h].seen
      BY <1>0, <2>6 DEF DropThen, Helper
    <3> QED BY <1>0, <2>6, <3>1 DEF HelperInv, BeforeDisplacing, Recovering
  <2> QED BY <2>1, <2>2, <2>3, <2>4, <2>5, <2>6
          DEF Discard, Relink, Release, Restore, Install, InstallRefused, Drop, RemoveFile
<1> QED BY <1>0, <1>1, <1>2, <1>3, OthersInv

LEMMA HelperStepInv ==
  ASSUME TypeOK, \A k \in Helpers : HelperInv(k), NEW h \in Helpers,
         HelperStep(h) \/ RefusedStep(h)
  PROVE  \A g \in Helpers : HelperInv(g)'
<1>1. CASE Fed(h) \/ List(h) \/ Recover(h) \/ Compare(h) \/ Classify(h) \/ Look(h) \/ Check(h)
  <2>1. Unchanged
    BY <1>1 DEF Fed, List, Recover, Compare, Classify, Look, Check
  <2> QED BY <1>1, <2>1, ReadingInv
<1>2. CASE \/ Discard(h) \/ Relink(h) \/ Release(h) \/ Displace(h) \/ Restore(h) \/ Install(h)
           \/ InstallRefused(h) \/ Drop(h) \/ RemoveFile(h)
  BY <1>2, NamingInv
<1> QED BY <1>1, <1>2 DEF HelperStep, WriteStep, RefusedStep
LEMMA ServerStepInv ==
  ASSUME TypeOK, \A k \in Helpers : HelperInv(k), ServerStep
  PROVE  \A g \in Helpers : HelperInv(g)'
<1>0. /\ helper \in [Helpers -> Helper] /\ side' = side /\ server \in Server
  BY DEF TypeOK, ServerStep, Begin, Close, Killed, ServerDies, Save, Delete, Absorb, diskVars
<1>1. ASSUME NEW h \in Helpers, Begin(h)
      PROVE  \A g \in Helpers : HelperInv(g)'
  <2>1. /\ side[h] = None /\ \A g \in Helpers : helper[g].old # h
        /\ \A k \in Helpers \ {h} : helper'[k] = helper[k]
    BY <1>0, <1>1 DEF Begin, Unused
  <2>2. /\ helper'[h].pc \in {"input", "remove"}
        /\ helper'[h].pc = "input" => helper'[h].content # None
        /\ helper'[h].old = None /\ helper'[h].held = FALSE
    BY <1>0, <1>1 DEF Begin, Idle
  <2>3. \A k \in Helpers : helper'[k].old # h
    BY <2>1, <2>2, NoneAssumption
  <2>4. HelperInv(h)'
    BY <1>0, <2>1, <2>2, <2>3 DEF HelperInv, BeforeDisplacing, Recovering
  <2> QED BY <1>0, <2>1, <2>2, <2>4, OthersInv
<1>2. ASSUME NEW h \in Helpers, Close(h) \/ Killed(h)
      PROVE  \A g \in Helpers : HelperInv(g)'
  <2>1. /\ helper'[h].pc = "idle" /\ helper'[h].old = None
        /\ \A k \in Helpers \ {h} : helper'[k] = helper[k]
    BY <1>0, <1>2 DEF Close, Killed, Idle
  <2>2. HelperInv(h)'
    BY <2>1 DEF HelperInv, BeforeDisplacing, Recovering
  <2> QED BY <1>0, <2>1, <2>2, OthersInv
<1>3. CASE ServerDies
  <2>1. PICK h \in Helpers : h = server.child
    BY <1>0, <1>3 DEF ServerDies, Server
  <2>2. \A k \in Helpers \ {h} : helper'[k] = helper[k]
    BY <1>3, <2>1 DEF ServerDies
  <2>3. CASE helper[h].pc = "input"
    <3>1. helper'[h] = [helper[h] EXCEPT !.content = Torn, !.pc = "list"]
      BY <1>3, <2>1, <2>3 DEF ServerDies
    <3>2. /\ helper'[h].pc = "list" /\ helper'[h].old = helper[h].old
          /\ helper'[h].content = Torn /\ helper'[h].held = helper[h].held
      BY <1>0, <3>1 DEF Helper
    <3>3. Torn # None
      BY ContentTypes, NoneAssumption
    <3>4. \A k \in Helpers : helper'[k].old = helper[k].old
      BY <2>2, <3>2
    <3>5. HelperInv(h)'
      BY <1>0, <2>3, <3>2, <3>3, <3>4 DEF HelperInv, BeforeDisplacing, Recovering
    <3> QED BY <1>0, <2>2, <3>2, <3>5, OthersInv
  <2>4. CASE helper[h].pc # "input"
    <3>1. helper'[h] = helper[h]
      BY <1>3, <2>4 DEF ServerDies
    <3>2. \A k \in Helpers : helper'[k] = helper[k]
      BY <2>2, <3>1
    <3> QED BY <1>0, <3>2 DEF HelperInv
  <2> QED BY <2>3, <2>4
<1>4. CASE Save \/ Delete \/ Absorb
  <2>1. helper' = helper
    BY <1>4 DEF Save, Delete, Absorb
  <2> QED BY <1>0, <2>1 DEF HelperInv
<1> QED BY <1>1, <1>2, <1>3, <1>4 DEF ServerStep

\* An editor knows nothing of helpers and sidecars.
LEMMA EditorInv ==
  ASSUME \A k \in Helpers : HelperInv(k), Editor
  PROVE  \A g \in Helpers : HelperInv(g)'
<1>1. helper' = helper /\ side' = side
  BY DEF Editor, EditorOpens, EditorWrites, EditorCloses, EditorReplaces, EditorRemoves, diskVars
<1> QED BY <1>1 DEF HelperInv
-----------------------------------------------------------------------------
(* What is written and owed.                                               *)

\* No step brings back a content that is past, nor makes the database or a
\* helper know one that is still owed.
LEMMA PastStep ==
  ASSUME TypeOK, PastInv,
         edits' \in {edits, edits + 1}, owed' \subseteq owed \cup {Edit(edits + 1)},
         edits' = edits => owed' \subseteq owed,
         \A i \in Inodes :
           \/ bytes'[i] \in {bytes[i], None} \/ \E h \in Helpers : bytes'[i] = helper[h].content
           \/ edits' = edits + 1 /\ bytes'[i] = Edit(edits + 1),
         \/ server'.want \in {server.want, None} \/ server'.want = App(server.saves + 1)
         \/ \E i \in Inodes : server'.want = bytes[i] /\ bytes[i] \notin owed',
         \/ server'.base = server.base \/ \E h \in Helpers : server'.base = helper[h].content
         \/ \E i \in Inodes : server'.base = bytes[i] /\ bytes[i] \notin owed',
         \A h \in Helpers :
           /\ helper'[h].content \in {helper[h].content, None, server.want, Torn}
           /\ helper'[h].base \in {helper[h].base, None, server.base}
           /\ \/ helper'[h].seen \in {helper[h].seen, None}
              \/ \E i \in Inodes : helper'[h].seen = bytes[i]
  PROVE  PastInv'
<1> DEFINE PastNow(c) == c = None \/ c.by # "editor" \/ c.n <= edits'
           New == Edit(edits + 1)
<1>0. /\ New.by = "editor" /\ New.n = edits + 1 /\ edits \in Nat /\ edits' \in Nat
      /\ helper \in [Helpers -> Helper] /\ server \in Server
      /\ bytes \in [Inodes -> Content \cup {None}] /\ owed \subseteq Content
      /\ \A c \in owed : c.by = "editor"
  BY DEF Edit, TypeOK
<1>1. \A c \in Content \cup {None} : Past(c) => PastNow(c) /\ c # New
  <2>1. SUFFICES ASSUME NEW c \in Content \cup {None}, Past(c)
                 PROVE  PastNow(c) /\ c # New
    OBVIOUS
  <2>2. CASE c = None
    BY <2>2, NoneAssumption, ContentTypes, <1>0
  <2>3. CASE c \in Content
    <3>1. c.n \in Nat
      BY <2>3 DEF Content
    <3>2. c # None
      BY <2>3, NoneAssumption
    <3> QED BY <1>0, <2>1, <3>1, <3>2 DEF Past
  <2> QED BY <2>2, <2>3
<1>2. \A c \in Content \cup {None} : Held(c) => PastNow(c) /\ c \notin owed'
  BY <1>1 DEF Held
<1>3. /\ \A h \in Helpers : helper[h].content \in Content \cup {None}
                            /\ helper[h].base \in Content \cup {None}
                            /\ helper[h].seen \in Content \cup {None}
      /\ server.want \in Content \cup {None} /\ server.base \in Content \cup {None}
  BY <1>0 DEF Helper, Server
<1>4. Held(Torn) /\ Held(None) /\ Torn \in Content
  BY <1>0, ContentTypes, NoneAssumption DEF Held, Past, Torn
<1>5. Held(App(server.saves + 1)) /\ App(server.saves + 1) \in Content
  <2>1. server.saves + 1 \in Nat
    BY <1>0 DEF Server
  <2>2. App(server.saves + 1).by = "app"
    BY DEF App
  <2> QED BY <1>0, <2>1, <2>2, ContentTypes DEF Held, Past
<1>6. ASSUME NEW i \in Inodes
      PROVE  PastNow(bytes'[i])
  <2>1. CASE bytes'[i] \in {bytes[i], None} \/ \E h \in Helpers : bytes'[i] = helper[h].content
    BY <1>0, <1>1, <1>2, <1>3, <1>4, <2>1 DEF PastInv
  <2>2. CASE edits' = edits + 1 /\ bytes'[i] = New
    BY <1>0, <2>2
  <2> QED BY <2>1, <2>2
<1>7. ASSUME NEW c \in owed'
      PROVE  PastNow(c)
  <2>1. CASE c \in owed
    BY <1>0, <1>1, <2>1 DEF PastInv
  <2>2. CASE c = New /\ edits' = edits + 1
    BY <1>0, <2>2
  <2> QED BY <2>1, <2>2
<1>8. /\ PastNow(server'.want) /\ server'.want \notin owed'
      /\ PastNow(server'.base) /\ server'.base \notin owed'
  BY <1>0, <1>1, <1>2, <1>3, <1>4, <1>5 DEF PastInv
<1>9. ASSUME NEW h \in Helpers
      PROVE  /\ PastNow(helper'[h].content) /\ helper'[h].content \notin owed'
             /\ PastNow(helper'[h].base) /\ helper'[h].base \notin owed'
             /\ PastNow(helper'[h].seen)
  BY <1>0, <1>1, <1>2, <1>3, <1>4 DEF PastInv
<1> QED BY <1>6, <1>7, <1>8, <1>9 DEF PastInv, Past, Held
-----------------------------------------------------------------------------
(* What a helper's step does to the names.                                 *)

NamesStep(h) ==
  \/ canon' = canon /\ side' = side
  \/ canon = None /\ side' = side
  \/ /\ canon' = canon
     /\ \E s \in Helpers : Removes(h, s) /\ side' = [side EXCEPT ![s] = None]
  \/ /\ helper[h].pc = "displace" /\ helper'[h].pc = "look" /\ helper'[h].old = None
     /\ canon # None /\ side' = [side EXCEPT ![h] = canon]
  \/ side' = side /\ BytesOf(canon) \notin owed'

\* A helper goes on after each call, lets alone what it does not name, and
\* adds nothing to what is owed.
LEMMA HelperStepDisk ==
  ASSUME TypeOK, NEW h \in Helpers, HelperInv(h), HelperStep(h) \/ RefusedStep(h)
  PROVE  /\ NamesStep(h) /\ helper'[h] # helper[h]
         /\ owed' \subseteq owed /\ edits' = edits /\ handle' = handle /\ server' = server
         /\ \A k \in Helpers \ {h} : helper'[k] = helper[k]
         /\ \A i \in Inodes : i \in Linked /\ i \in Linked' => bytes'[i] = bytes[i]
         /\ \A i \in Inodes : bytes'[i] \in {bytes[i], None, helper[h].content}
<1>0. /\ helper \in [Helpers -> Helper] /\ side \in [Helpers -> Inodes \cup {None}]
      /\ bytes \in [Inodes -> Content \cup {None}]
      /\ \A i \in Inodes : bytes[i] # None <=> i \in Linked
  BY DEF TypeOK
<1>1. /\ owed' \subseteq owed /\ edits' = edits /\ handle' = handle /\ server' = server
  BY DEF HelperStep, RefusedStep, WriteStep, Fed, List, Recover, Compare, Discard, Relink,
     Release, Classify, Displace, Look, Restore, Install, InstallRefused, Check, Drop,
     RemoveFile, Unchanged
<1>2. \A k \in Helpers \ {h} : helper'[k] = helper[k]
  BY <1>0 DEF HelperStep, RefusedStep, WriteStep, Fed, List, Recover, Compare, Discard, Relink,
     Release, Classify, Displace, Look, Restore, Install, InstallRefused, Check, Drop,
     RemoveFile, Goto, Exit, Proceed, DropThen
<1>3. ASSUME NEW pc, Goto(h, pc)
      PROVE  helper'[h].pc = pc
  BY <1>0, <1>3 DEF Goto, Helper
<1>4. ASSUME NEW r, Exit(h, r)
      PROVE  helper'[h].pc = "exit"
  BY <1>0, <1>4, ExitInv
<1>5. ASSUME NEW r, DropThen(h, r)
      PROVE  helper'[h].pc = "drop"
  BY <1>0, <1>5 DEF DropThen, Helper
<1>6. ASSUME Proceed(h)
      PROVE  helper'[h].pc = "classify"
  BY <1>0, <1>6 DEF Proceed, Helper
<1>7. CASE Fed(h) \/ List(h) \/ Recover(h) \/ Compare(h) \/ Classify(h) \/ Look(h) \/ Check(h)
  <2>1. Unchanged
    BY <1>7 DEF Fed, List, Recover, Compare, Classify, Look, Check
  <2>2. helper'[h].pc # helper[h].pc
    <3>1. CASE Fed(h)
      BY <1>3, <3>1 DEF Fed
    <3>2. CASE List(h)
      BY <1>0, <1>3, <1>4, <3>2 DEF List, Helper
    <3>3. CASE Recover(h)
      BY <1>0, <1>4, <3>3 DEF Recover, Helper
    <3>4. CASE Compare(h)
      BY <1>3, <1>4, <3>4 DEF Compare
    <3>5. CASE Classify(h)
      BY <1>3, <1>4, <3>5 DEF Classify
    <3>6. CASE Look(h)
      BY <1>0, <1>4, <3>6 DEF Look, Helper
    <3>7. CASE Check(h)
      BY <1>0, <1>4, <3>7 DEF Check, Helper
    <3> QED BY <1>7, <3>1, <3>2, <3>3, <3>4, <3>5, <3>6, <3>7
  <2> QED BY <1>1, <1>2, <2>1, <2>2 DEF NamesStep, Unchanged, diskVars
<1>8. CASE Discard(h) \/ Release(h) \/ Drop(h)
  <2>1. helper'[h].pc # helper[h].pc
    BY <1>4, <1>6, <1>8 DEF Discard, Release, Drop
  <2>2. UNCHANGED diskVars \/ \E s \in Helpers : Removes(h, s) /\ Unlink(s)
    BY <1>0, <1>8 DEF Discard, Release, Drop, Removes, HelperInv, Recovering, Helper
  <2>3. NamesStep(h)
    BY <2>2 DEF NamesStep, Unlink, diskVars
  <2> QED BY <1>0, <1>1, <1>2, <2>1, <2>2, <2>3 DEF Unlink, Stored, diskVars
<1>9. CASE Relink(h) \/ Restore(h) \/ InstallRefused(h)
  <2>1. helper'[h].pc # helper[h].pc
    BY <1>3, <1>4, <1>5, <1>9 DEF Relink, Restore, InstallRefused
  <2>2. UNCHANGED diskVars \/ \E i : Link(i, bytes)
    BY <1>9 DEF Relink, Restore, InstallRefused
  <2>3. NamesStep(h)
    BY <2>2 DEF NamesStep, Link, diskVars
  <2> QED BY <1>0, <1>1, <1>2, <2>1, <2>2, <2>3 DEF Link, Stored, diskVars
<1>10. CASE Displace(h)
  <2>1. helper'[h].pc # helper[h].pc
    BY <1>0, <1>3, <1>10 DEF Displace, Helper
  <2>2. helper[h].pc = "displace" /\ helper[h].old = None
    BY <1>0, <1>10 DEF Displace, HelperInv, Recovering
  <2>3. NamesStep(h)
    <3>1. CASE canon = None
      BY <1>10, <3>1 DEF Displace, NamesStep, diskVars
    <3>2. CASE canon # None
      BY <1>0, <1>10, <2>2, <3>2 DEF Displace, NamesStep, Helper
    <3> QED BY <3>1, <3>2
  <2>4. UNCHANGED diskVars \/ Stored(bytes)
    BY <1>10 DEF Displace
  <2> QED BY <1>0, <1>1, <1>2, <2>1, <2>3, <2>4 DEF Stored, diskVars
<1>11. CASE Install(h)
  <2>1. helper'[h].pc # helper[h].pc
    BY <1>3, <1>4, <1>5, <1>11 DEF Install
  <2>2. \/ UNCHANGED diskVars
        \/ \E i \in Inodes : i \notin Linked /\ Link(i, [bytes EXCEPT ![i] = helper[h].content])
    BY <1>11 DEF Install, Fresh
  <2>3. NamesStep(h)
    BY <2>2 DEF NamesStep, Link, diskVars
  <2> QED BY <1>0, <1>1, <1>2, <2>1, <2>2, <2>3 DEF Link, Stored, diskVars
<1>12. CASE RemoveFile(h)
  <2>1. helper'[h].pc # helper[h].pc
    BY <1>4, <1>12 DEF RemoveFile
  <2>2. Stored(bytes) /\ NamesStep(h)
    BY <1>12 DEF RemoveFile, NamesStep
  <2> QED BY <1>0, <1>1, <1>2, <2>1, <2>2 DEF Stored
<1> QED BY <1>7, <1>8, <1>9, <1>10, <1>11, <1>12 DEF HelperStep, RefusedStep, WriteStep
\* A helper looks at what is there, and removes only a name of the canonical
\* file or one with bytes that nobody is owed.
LEMMA HelperStepKnows ==
  ASSUME TypeOK, PastInv, NEW h \in Helpers, HelperInv(h), HelperStep(h) \/ RefusedStep(h),
         NEW s \in Helpers
  PROVE  /\ LookedAt(h, s)' => \/ LookedAt(h, s) /\ helper'[h].seen = helper[h].seen
                               \/ helper'[h].seen = bytes'[side'[s]]
         /\ Removes(h, s)' => side'[s] \in {None, canon'} \/ helper'[h].seen \notin owed
<1>0. /\ helper \in [Helpers -> Helper] /\ side \in [Helpers -> Inodes \cup {None}]
      /\ helper[h].base \notin owed /\ helper[h].content \notin owed
  BY DEF TypeOK, PastInv, Held
<1>1. CASE /\ helper'[h].pc \notin Recovering \cup {"restore", "check", "drop"}
           /\ helper'[h].pc = "install" => ~helper'[h].held
  BY <1>1 DEF LookedAt, Removes, Recovering
<1>2. CASE \/ Fed(h) \/ List(h) \/ Classify(h) \/ Displace(h) \/ Discard(h) \/ Release(h)
           \/ Drop(h) \/ RemoveFile(h) \/ \E r : Exit(h, r)
  <2>1. CASE \E r : Exit(h, r)
    <3>1. helper'[h].pc = "exit"
      BY <1>0, <2>1, ExitInv
    <3> QED BY <1>1, <3>1 DEF Recovering
  <2>2. CASE Fed(h) \/ List(h) \/ Classify(h)
    <3>1. helper'[h].pc \in {"list", "classify", "recover", "displace"} \/ \E r : Exit(h, r)
      BY <1>0, <2>2 DEF Fed, List, Classify, Goto, Helper
    <3> QED BY <1>1, <2>1, <3>1 DEF Recovering
  <2>3. CASE Discard(h) \/ Release(h)
    <3>1. helper'[h].pc = "classify" \/ \E r : Exit(h, r)
      BY <1>0, <2>3 DEF Discard, Release, Proceed, Helper
    <3> QED BY <1>1, <2>1, <3>1 DEF Recovering
  <2>4. CASE Displace(h)
    <3>1. /\ helper'[h].pc \in {"look", "install"}
          /\ helper'[h].pc = "install" => helper'[h].held = helper[h].held
      BY <1>0, <2>4 DEF Displace, Goto, Helper
    <3>2. ~helper[h].held
      BY <2>4 DEF Displace, HelperInv, BeforeDisplacing
    <3> QED BY <1>1, <3>1, <3>2 DEF Recovering
  <2>5. CASE Drop(h) \/ RemoveFile(h)
    BY <2>1, <2>5 DEF Drop, RemoveFile
  <2> QED BY <1>2, <2>1, <2>2, <2>3, <2>4, <2>5
<1>3. CASE Recover(h) /\ ~\E r : Exit(h, r)
  <2>1. /\ helper'[h].pc = "compare" /\ helper'[h].old = helper[h].old
        /\ helper'[h].seen = bytes[side[helper[h].old]]
    BY <1>0, <1>3 DEF Recover, Helper
  <2>2. side' = side /\ bytes' = bytes
    BY <1>3 DEF Recover, Unchanged, diskVars
  <2> QED BY <2>1, <2>2 DEF LookedAt, Removes, Recovering
<1>4. CASE Compare(h) /\ ~\E r : Exit(h, r)
  <2>1. /\ helper'[h].pc \in {"discard", "relink"} /\ helper'[h].old = helper[h].old
        /\ helper'[h].seen = helper[h].seen
        /\ helper'[h].pc = "discard" => \/ canon = helper[h].inode
                                        \/ helper[h].seen = helper[h].base
    BY <1>0, <1>4 DEF Compare, Goto, Helper
  <2>2. helper[h].pc = "compare" /\ side' = side /\ canon' = canon
    BY <1>4 DEF Compare, Unchanged, diskVars
  <2>3. side[helper[h].old] \in {None, helper[h].inode}
    BY <2>2 DEF HelperInv, Recovering
  <2> QED BY <1>0, <2>1, <2>2, <2>3 DEF LookedAt, Removes, Recovering
<1>5. CASE Relink(h) /\ ~\E r : Exit(h, r)
  <2>1. /\ helper'[h].pc = "release" /\ helper'[h].old = helper[h].old
        /\ helper'[h].seen = helper[h].seen
    BY <1>0, <1>5 DEF Relink, Goto, Helper
  <2>2. helper[h].pc = "relink" /\ side' = side /\ canon' = side[helper[h].old]
    BY <1>5 DEF Relink, Link
  <2> QED BY <2>1, <2>2 DEF LookedAt, Removes, Recovering
<1>6. CASE Look(h) /\ ~\E r : Exit(h, r)
  <2>1. /\ helper'[h].pc \in {"restore", "install"} /\ helper'[h].old = helper[h].old
        /\ helper'[h].seen = BytesOf(side[h]) /\ BytesOf(side[h]) # None
    BY <1>0, <1>6 DEF Look, Class, Helper
  <2>2. side' = side /\ bytes' = bytes /\ BytesOf(side[h]) = bytes[side[h]]
    BY <1>6, <2>1 DEF Look, Unchanged, diskVars, BytesOf
  <2> QED BY <2>1, <2>2 DEF LookedAt, Removes, Recovering
<1>7. CASE (Restore(h) \/ InstallRefused(h)) /\ ~\E r : Exit(h, r)
  <2>1. /\ \E r : DropThen(h, r)
        /\ \/ helper[h].pc = "restore" \/ (helper[h].pc = "install" /\ helper[h].held)
        /\ \/ canon' = side[h] \/ helper[h].seen = helper[h].content
        /\ side' = side
    BY <1>7 DEF Restore, InstallRefused, Link, diskVars, HelperInv
  <2>2. helper'[h].pc = "drop" /\ helper'[h].seen = helper[h].seen
    BY <1>0, <2>1 DEF DropThen, Helper
  <2> QED BY <1>0, <2>1, <2>2 DEF LookedAt, Removes, Recovering
<1>8. CASE Install(h) /\ ~\E r : Exit(h, r)
  <2>1. helper[h].pc = "install" /\ helper[h].held /\ helper[h].seen = helper[h].base
    BY <1>8 DEF Install, HelperInv
  <2>2. helper'[h].pc \in {"check", "drop"} /\ helper'[h].seen = helper[h].seen
    <3>1. Goto(h, "check") \/ DropThen(h, "conflict")
      BY <1>8 DEF Install
    <3> QED BY <1>0, <3>1 DEF Goto, DropThen, Helper
  <2> QED BY <1>0, <2>1, <2>2 DEF LookedAt, Removes, Recovering
<1>9. CASE Check(h) /\ ~\E r : Exit(h, r)
  <2>1. /\ helper'[h].pc = "drop" /\ helper'[h].seen = BytesOf(side[h])
        /\ BytesOf(side[h]) # None /\ BytesOf(side[h]) = helper[h].base
    BY <1>0, <1>9 DEF Check, Helper
  <2>2. side' = side /\ bytes' = bytes /\ BytesOf(side[h]) = bytes[side[h]]
    BY <1>9, <2>1 DEF Check, Unchanged, diskVars, BytesOf
  <2> QED BY <1>0, <2>1, <2>2 DEF LookedAt, Removes, Recovering
<1> QED BY <1>2, <1>3, <1>4, <1>5, <1>6, <1>7, <1>8, <1>9
        DEF HelperStep, RefusedStep, WriteStep
-----------------------------------------------------------------------------
(* A name that stays.                                                      *)

\* Who is about to remove a name has looked at it.
LEMMA RemovesLooked ==
  ASSUME NEW h \in Helpers, NEW s \in Helpers, Removes(h, s)
  PROVE  LookedAt(h, s) /\ Marked(s)
BY DEF Removes, LookedAt, Marked, Recovering

\* A sidecar nobody marked is still unmarked after the step of h, or its inode
\* is the canonical file now.
LEMMA HelperStepMarks ==
  ASSUME TypeOK, PastInv, NEW h \in Helpers, HelperInv(h), HelperStep(h) \/ RefusedStep(h),
         NEW s \in Helpers, side[s] # None, side'[s] = side[s], ~Marked(s),
         bytes[side[s]] \in owed, bytes'[side[s]] = bytes[side[s]]
  PROVE  ~Marked(s)' \/ canon' = side[s]
<1>1. SUFFICES ASSUME NEW k \in Helpers, LookedAt(k, s)',
                      helper'[k].seen # bytes'[side'[s]] \/ Removes(k, s)'
               PROVE  canon' = side[s]
  BY DEF Marked
<1>2. CASE k # h
  <2>1. helper'[k] = helper[k]
    BY <1>2, HelperStepDisk
  <2>2. /\ LookedAt(k, s)
        /\ helper[k].seen # bytes[side[s]] \/ Removes(k, s)
    BY <1>1, <2>1 DEF LookedAt, Removes
  <2> QED BY <2>2 DEF Marked
<1>3. CASE k = h
  <2>1. helper'[h].seen = bytes[side[s]]
    BY <1>1, <1>3, HelperStepKnows DEF Marked
  <2>2. Removes(h, s)'
    BY <1>1, <1>3, <2>1
  <2> QED BY <2>1, <2>2, HelperStepKnows
<1> QED BY <1>2, <1>3

LEMMA HelperStepDoom ==
  ASSUME TypeOK, PastInv, DoomInv, NEW h \in Helpers, \A k \in Helpers : HelperInv(k),
         HelperStep(h) \/ RefusedStep(h)
  PROVE  DoomInv'
<1>0. /\ HelperInv(h) /\ side \in [Helpers -> Inodes \cup {None}] /\ owed' \subseteq owed
      /\ NamesStep(h) /\ \A k \in Helpers \ {h} : helper'[k] = helper[k]
      /\ \A i \in Inodes : i \in Linked /\ i \in Linked' => bytes'[i] = bytes[i]
  BY HelperStepDisk DEF TypeOK
<1>1. SUFFICES ASSUME NEW t \in Helpers, side'[t] # None, bytes'[side'[t]] \in owed',
                      NEW k \in Helpers, Removes(k, t)', helper'[k].seen = bytes'[side'[t]],
                      canon' # side'[t]
               PROVE  \E s \in Helpers : side'[s] = side'[t] /\ ~Marked(s)'
  BY DEF DoomInv, Doomed
<1>2. k # h
  BY <1>0, <1>1, HelperStepKnows
<1>3. helper'[k] = helper[k] /\ Removes(k, t)
  BY <1>0, <1>1, <1>2 DEF Removes
<1>4. side'[t] = side[t]
  <2>1. CASE helper[h].pc = "displace" /\ side' = [side EXCEPT ![h] = canon]
    <3>1. \A g \in Helpers : helper[g].old # h
      BY <1>0, <2>1 DEF HelperInv, BeforeDisplacing
    <3>2. t # h
      BY <1>2, <1>3, <3>1 DEF Removes
    <3> QED BY <1>0, <2>1, <3>2
  <2>2. CASE \E s \in Helpers : side' = [side EXCEPT ![s] = None]
    BY <1>0, <1>1, <2>2
  <2>3. CASE side' = side
    BY <2>3
  <2> QED BY <1>0, <2>1, <2>2, <2>3 DEF NamesStep
<1>5. PICK i \in Inodes : i = side[t]
  BY <1>0, <1>1, <1>4
<1>6. i \in Linked /\ i \in Linked' /\ bytes'[i] = bytes[i] /\ bytes[i] \in owed
  <2>1. i \in Linked /\ i \in Linked'
    BY <1>4, <1>5, NoneAssumption DEF Linked
  <2> QED BY <1>0, <1>1, <1>4, <1>5, <2>1
<1>7. canon = i \/ \E s \in Helpers : side[s] = i /\ ~Marked(s)
  BY <1>1, <1>3, <1>4, <1>5, <1>6 DEF DoomInv, Doomed
<1>8. CASE canon = i
  <2>1. helper[h].pc = "displace" /\ helper'[h].pc = "look" /\ side' = [side EXCEPT ![h] = canon]
    BY <1>0, <1>1, <1>4, <1>5, <1>6, <1>8, NoneAssumption DEF NamesStep, BytesOf
  <2>2. side'[h] = i
    BY <1>0, <1>8, <2>1
  <2>3. \A g \in Helpers : helper[g].old # h
    BY <1>0, <2>1 DEF HelperInv, BeforeDisplacing
  <2>4. ~Marked(h)'
    <3>1. SUFFICES ASSUME NEW g \in Helpers, LookedAt(g, h)'
                   PROVE  FALSE
      BY DEF Marked
    <3>2. g # h
      BY <2>1, <3>1 DEF LookedAt, Recovering
    <3> QED BY <1>0, <2>3, <3>1, <3>2 DEF LookedAt
  <2> QED BY <1>4, <1>5, <2>2, <2>4
<1>9. CASE \E s \in Helpers : side[s] = i /\ ~Marked(s)
  <2>1. PICK s \in Helpers : side[s] = i /\ ~Marked(s)
    BY <1>9
  <2>2. side'[s] = side[s]
    <3>1. CASE helper[h].pc = "displace" /\ side' = [side EXCEPT ![h] = canon]
      <4>1. side[h] = None
        BY <1>0, <3>1 DEF HelperInv, BeforeDisplacing
      <4> QED BY <1>0, <2>1, <3>1, <4>1, NoneAssumption
    <3>2. CASE \E r \in Helpers : Removes(h, r) /\ side' = [side EXCEPT ![r] = None]
      BY <1>0, <2>1, <3>2, RemovesLooked
    <3>3. CASE side' = side
      BY <3>3
    <3> QED BY <1>0, <3>1, <3>2, <3>3 DEF NamesStep
  <2>3. ~Marked(s)'
    <3>1. i # None
      BY <1>1, <1>4, <1>5
    <3> QED BY <1>0, <1>1, <1>4, <1>5, <1>6, <2>1, <2>2, <3>1, HelperStepMarks
  <2> QED BY <1>4, <1>5, <2>1, <2>2, <2>3
<1> QED BY <1>7, <1>8, <1>9
\* The server starts, ends and forgets helpers: none has looked at more.
LEMMA ServerStepDoom ==
  ASSUME TypeOK, DoomInv, ServerStep
  PROVE  DoomInv'
<1>0. helper \in [Helpers -> Helper]
  BY DEF TypeOK
<1>1. canon' = canon /\ side' = side /\ bytes' = bytes /\ owed' \subseteq owed
  BY DEF ServerStep, Begin, Close, Killed, ServerDies, Save, Delete, Absorb, diskVars
<1>2. ASSUME NEW k \in Helpers, NEW s \in Helpers, LookedAt(k, s)' \/ Removes(k, s)'
      PROVE  helper'[k] = helper[k]
  <2>0. LookedAt(k, s)'
    BY <1>2 DEF LookedAt, Removes, Recovering
  <2>1. ASSUME NEW h \in Helpers, Begin(h) \/ Close(h) \/ Killed(h)
        PROVE  helper'[k] = helper[k]
    <3>1. helper'[k] = helper[k] \/ helper'[k].pc \in {"input", "remove", "idle"}
      <4>1. CASE Begin(h)
        BY <1>0, <4>1 DEF Begin, Idle
      <4>2. CASE Close(h) \/ Killed(h)
        BY <1>0, <4>2 DEF Close, Killed, Idle
      <4> QED BY <2>1, <4>1, <4>2
    <3> QED BY <2>0, <3>1 DEF LookedAt, Recovering
  <2>2. CASE ServerDies
    <3>1. helper'[k] = helper[k] \/ helper'[k] = [helper[k] EXCEPT !.content = Torn, !.pc = "list"]
      BY <2>2 DEF ServerDies
    <3>2. CASE helper'[k] = [helper[k] EXCEPT !.content = Torn, !.pc = "list"]
      <4>1. helper'[k].pc = "list"
        BY <1>0, <3>2 DEF Helper
      <4> QED BY <2>0, <4>1 DEF LookedAt, Recovering
    <3> QED BY <3>1, <3>2
  <2>3. CASE Save \/ Delete \/ Absorb
    BY <2>3 DEF Save, Delete, Absorb
  <2> QED BY <2>1, <2>2, <2>3 DEF ServerStep
<1>3. SUFFICES ASSUME NEW t \in Helpers, side[t] # None, bytes[side[t]] \in owed, Doomed(t)'
               PROVE  canon = side[t] \/ \E s \in Helpers : side[s] = side[t] /\ ~Marked(s)'
  BY <1>1 DEF DoomInv
<1>4. Doomed(t)
  BY <1>1, <1>2, <1>3 DEF Doomed, Removes
<1>5. ASSUME NEW s \in Helpers, ~Marked(s)
      PROVE  ~Marked(s)'
  BY <1>1, <1>2, <1>5 DEF Marked, LookedAt, Removes
<1> QED BY <1>3, <1>4, <1>5 DEF DoomInv

\* What an editor writes, nobody has seen; what it takes back is owed no more.
LEMMA EditorDoom ==
  ASSUME TypeOK, PastInv, DoomInv, Editor
  PROVE  DoomInv'
<1> DEFINE New == Edit(edits + 1)
<1>0. /\ helper' = helper /\ side' = side /\ side \in [Helpers -> Inodes \cup {None}]
      /\ bytes \in [Inodes -> Content \cup {None}]
      /\ helper \in [Helpers -> Helper]
      /\ New.by = "editor" /\ New.n = edits + 1 /\ edits \in Nat /\ New \in Content
      /\ owed' \subseteq owed \cup {New}
  <2>1. helper' = helper /\ side' = side /\ owed' \subseteq owed \cup {New}
    BY DEF Editor, EditorOpens, EditorWrites, EditorCloses, EditorReplaces, EditorRemoves,
       diskVars
  <2>2. edits \in Nat /\ edits + 1 \in Nat
    BY DEF TypeOK
  <2>3. New.by = "editor" /\ New.n = edits + 1
    BY DEF Edit
  <2> QED BY <2>1, <2>2, <2>3, ContentTypes DEF TypeOK
<1>1. \A c \in Content \cup {None} : Past(c) => c # New
  BY <1>0, NoneAssumption DEF Past, Content
<1>2. ASSUME NEW t \in Helpers, side[t] # None
      PROVE  \/ bytes'[side[t]] = bytes[side[t]]
                /\ (bytes'[side[t]] \in owed' => bytes[side[t]] \in owed)
                /\ (canon = side[t] /\ bytes'[side[t]] \in owed' => canon' = side[t])
             \/ bytes'[side[t]] = New
  <2>1. PICK i \in Inodes : i = side[t]
    BY <1>0, <1>2
  <2>2. bytes[i] # New /\ i \in Linked /\ i \in Linked'
    BY <1>0, <1>1, <1>2, <2>1, NoneAssumption DEF PastInv, Linked
  <2>3. CASE EditorOpens
    BY <2>1, <2>3 DEF EditorOpens, diskVars
  <2>4. CASE EditorWrites
    <3>1. handle \in Inodes /\ bytes' = [bytes EXCEPT ![handle] = New] /\ canon' = canon
      BY <2>4 DEF EditorWrites, TypeOK
    <3>2. CASE handle = i
      BY <1>0, <2>1, <3>1, <3>2
    <3>3. CASE handle # i
      BY <1>0, <2>1, <2>2, <3>1, <3>3
    <3> QED BY <3>2, <3>3
  <2>5. CASE EditorCloses
    BY <2>1, <2>2, <2>5 DEF EditorCloses, Stored
  <2>6. CASE EditorReplaces
    <3>1. PICK j \in Inodes : /\ j \notin Linked /\ canon' = j
                              /\ Stored([bytes EXCEPT ![j] = New])
      BY <2>6 DEF EditorReplaces, Fresh
    <3>2. bytes'[i] = bytes[i]
      BY <1>0, <2>1, <2>2, <3>1 DEF Stored
    <3>3. owed' = (owed \ {BytesOf(canon)}) \cup {New}
      BY <2>6 DEF EditorReplaces
    <3> QED BY <1>0, <2>1, <2>2, <3>2, <3>3, NoneAssumption DEF BytesOf
  <2>7. CASE EditorRemoves
    <3>1. bytes'[i] = bytes[i] /\ owed' = owed \ {BytesOf(canon)}
      BY <1>0, <2>1, <2>2, <2>7 DEF EditorRemoves, Stored
    <3> QED BY <1>0, <2>1, <2>2, <3>1, NoneAssumption DEF BytesOf
  <2> QED BY <2>3, <2>4, <2>5, <2>6, <2>7 DEF Editor
<1>3. SUFFICES ASSUME NEW t \in Helpers, side[t] # None, bytes'[side[t]] \in owed',
                      NEW k \in Helpers, Removes(k, t), helper[k].seen = bytes'[side[t]]
               PROVE  canon' = side[t] \/ \E s \in Helpers : side[s] = side[t] /\ ~Marked(s)'
  BY <1>0 DEF DoomInv, Doomed, Removes
<1>4. helper[k].seen # New
  BY <1>0, <1>1 DEF PastInv, Helper
<1>5. bytes'[side[t]] = bytes[side[t]] /\ bytes[side[t]] \in owed
      /\ (canon = side[t] => canon' = side[t])
  BY <1>2, <1>3, <1>4
<1>6. canon = side[t] \/ \E s \in Helpers : side[s] = side[t] /\ ~Marked(s)
  BY <1>3, <1>5 DEF DoomInv, Doomed
<1>7. ASSUME NEW s \in Helpers, side[s] = side[t], ~Marked(s)
      PROVE  ~Marked(s)'
  BY <1>0, <1>5, <1>7 DEF Marked, LookedAt, Removes
<1> QED BY <1>5, <1>6, <1>7
-----------------------------------------------------------------------------
(* What is past stays past.                                                *)

\* What a helper has read is what some inode holds.
LEMMA HelperStepReads ==
  ASSUME TypeOK, NEW h \in Helpers, HelperInv(h), HelperStep(h) \/ RefusedStep(h)
  PROVE  /\ helper'[h].content \in {helper[h].content, None}
         /\ helper'[h].base \in {helper[h].base, None}
         /\ \/ helper'[h].seen \in {helper[h].seen, None}
            \/ \E i \in Inodes : helper'[h].seen = bytes[i]
<1>0. /\ helper \in [Helpers -> Helper] /\ side \in [Helpers -> Inodes \cup {None}]
  BY DEF TypeOK
<1>1. CASE \E r : Exit(h, r)
  BY <1>0, <1>1 DEF Exit, Idle
<1>2. CASE (\E pc : Goto(h, pc)) \/ Proceed(h) \/ \E r : DropThen(h, r)
  BY <1>0, <1>2 DEF Goto, Proceed, DropThen, Helper
<1>3. CASE List(h)
  BY <1>0, <1>1, <1>2, <1>3 DEF List, Helper
<1>4. CASE Recover(h)
  <2>1. helper[h].old \in Helpers
    BY <1>0, <1>4 DEF Recover, HelperInv, Helper
  <2> QED BY <1>0, <1>1, <1>4, <2>1 DEF Recover, Helper
<1>5. CASE Displace(h)
  BY <1>0, <1>2, <1>5 DEF Displace, Helper
<1>6. CASE Look(h) \/ Check(h)
  <2>1. \/ \E r : Exit(h, r)
        \/ /\ BytesOf(side[h]) # None
           /\ helper'[h].content = helper[h].content /\ helper'[h].base = helper[h].base
           /\ helper'[h].seen = BytesOf(side[h])
    BY <1>0, <1>6 DEF Look, Check, Class, Helper
  <2> QED BY <1>0, <1>1, <2>1 DEF BytesOf
<1>7. CASE \/ Fed(h) \/ Compare(h) \/ Discard(h) \/ Relink(h) \/ Release(h) \/ Classify(h)
           \/ Restore(h) \/ Install(h) \/ InstallRefused(h) \/ Drop(h) \/ RemoveFile(h)
  <2>1. (\E r : Exit(h, r)) \/ (\E pc : Goto(h, pc)) \/ Proceed(h) \/ \E r : DropThen(h, r)
    BY <1>7 DEF Fed, Compare, Discard, Relink, Release, Classify, Restore, Install,
       InstallRefused, Drop, RemoveFile
  <2> QED BY <1>1, <1>2, <2>1
<1> QED BY <1>3, <1>4, <1>5, <1>6, <1>7 DEF HelperStep, RefusedStep, WriteStep

LEMMA HelperStepPast ==
  ASSUME TypeOK, PastInv, NEW h \in Helpers, HelperInv(h), HelperStep(h) \/ RefusedStep(h)
  PROVE  PastInv'
<1>1. /\ owed' \subseteq owed /\ edits' = edits /\ server' = server
      /\ \A k \in Helpers \ {h} : helper'[k] = helper[k]
      /\ \A i \in Inodes : bytes'[i] \in {bytes[i], None, helper[h].content}
  BY HelperStepDisk
<1>2. \A k \in Helpers :
        /\ helper'[k].content \in {helper[k].content, None, server.want, Torn}
        /\ helper'[k].base \in {helper[k].base, None, server.base}
        /\ \/ helper'[k].seen \in {helper[k].seen, None}
           \/ \E i \in Inodes : helper'[k].seen = bytes[i]
  BY <1>1, HelperStepReads
<1> QED BY <1>1, <1>2, PastStep

LEMMA ServerStepPast ==
  ASSUME TypeOK, PastInv, ServerStep
  PROVE  PastInv'
<1>0. helper \in [Helpers -> Helper] /\ server \in Server
  BY DEF TypeOK
<1>1. bytes' = bytes /\ edits' = edits /\ owed' \subseteq owed
  BY DEF ServerStep, Begin, Close, Killed, ServerDies, Save, Delete, Absorb, diskVars, editorVars
<1>2. /\ \/ server'.want \in {server.want, None} \/ server'.want = App(server.saves + 1)
         \/ \E i \in Inodes : server'.want = bytes[i] /\ bytes[i] \notin owed'
      /\ \/ server'.base = server.base \/ \E h \in Helpers : server'.base = helper[h].content
         \/ \E i \in Inodes : server'.base = bytes[i] /\ bytes[i] \notin owed'
  <2>1. CASE \E h \in Helpers : Begin(h) \/ Killed(h)
    BY <1>0, <2>1 DEF Begin, Killed, Server
  <2>2. ASSUME NEW h \in Helpers, Close(h)
        PROVE  /\ server'.want = server.want
               /\ server'.base = server.base \/ server'.base = helper[h].content
    <3>1. server' = Answered(h)
      BY <2>2 DEF Close
    <3> QED BY <1>0, <3>1 DEF Answered, Server
  <2>3. CASE ServerDies \/ Delete
    BY <1>0, <2>3 DEF ServerDies, Delete, Server
  <2>4. CASE Save
    <3>1. PICK c, n : c = App(server.saves + 1) /\ n = server.saves + 1
      OBVIOUS
    <3>2. server' = [server EXCEPT !.want = c, !.pending = TRUE, !.saves = n]
      BY <2>4, <3>1 DEF Save
    <3>3. server'.want = c /\ server'.base = server.base
      BY <1>0, <3>2 DEF Server
    <3> QED BY <3>1, <3>3
  <2>5. CASE Absorb
    <3>1. PICK i \in Inodes : i = canon
      BY <2>5 DEF Absorb, TypeOK
    <3>2. server'.want = bytes[i] /\ server'.base = bytes[i] /\ bytes[i] \notin owed'
      BY <1>0, <2>5, <3>1 DEF Absorb, Server
    <3> QED BY <3>2
  <2> QED BY <2>1, <2>2, <2>3, <2>4, <2>5 DEF ServerStep
<1>3. ASSUME NEW k \in Helpers
      PROVE  /\ helper'[k].content \in {helper[k].content, None, server.want, Torn}
             /\ helper'[k].base \in {helper[k].base, None, server.base}
             /\ helper'[k].seen \in {helper[k].seen, None}
  <2>1. ASSUME NEW h \in Helpers, Begin(h)
        PROVE  \/ helper'[k] = helper[k]
               \/ /\ helper'[k].content = server.want /\ helper'[k].base = server.base
                  /\ helper'[k].seen = None
    BY <1>0, <2>1 DEF Begin, Idle
  <2>2. ASSUME NEW h \in Helpers, Close(h) \/ Killed(h)
        PROVE  helper'[k] = helper[k] \/ helper'[k] = Idle
    BY <1>0, <2>2 DEF Close, Killed
  <2>3. CASE ServerDies
    <3>1. helper'[k] = helper[k] \/ helper'[k] = [helper[k] EXCEPT !.content = Torn, !.pc = "list"]
      BY <2>3 DEF ServerDies
    <3> QED BY <1>0, <3>1 DEF Helper
  <2>4. CASE Save \/ Delete \/ Absorb
    BY <2>4 DEF Save, Delete, Absorb
  <2>5. Idle.content = None /\ Idle.base = None /\ Idle.seen = None
    BY DEF Idle
  <2> QED BY <2>1, <2>2, <2>3, <2>4, <2>5 DEF ServerStep
<1> QED BY <1>1, <1>2, <1>3, PastStep

LEMMA EditorPast ==
  ASSUME TypeOK, PastInv, Editor
  PROVE  PastInv'
<1> DEFINE New == Edit(edits + 1)
<1>0. bytes \in [Inodes -> Content \cup {None}] /\ New \in Content
  <2>1. edits + 1 \in Nat
    BY DEF TypeOK
  <2> QED BY <2>1, ContentTypes DEF TypeOK
<1>1. helper' = helper /\ server' = server
  BY DEF Editor, EditorOpens, EditorWrites, EditorCloses, EditorReplaces, EditorRemoves
<1>2. /\ edits' \in {edits, edits + 1} /\ owed' \subseteq owed \cup {New}
      /\ edits' = edits => owed' \subseteq owed
      /\ \A i \in Inodes : \/ bytes'[i] \in {bytes[i], None}
                           \/ edits' = edits + 1 /\ bytes'[i] = New
  <2>1. CASE EditorOpens
    BY <2>1 DEF EditorOpens, diskVars
  <2>2. CASE EditorCloses
    BY <2>2 DEF EditorCloses, Stored
  <2>3. CASE EditorWrites
    <3>1. edits' = edits + 1 /\ edits' # edits
      BY <2>3 DEF EditorWrites, TypeOK
    <3>2. bytes' = [bytes EXCEPT ![handle] = New] /\ owed' \subseteq owed \cup {New}
      BY <2>3 DEF EditorWrites
    <3> QED BY <1>0, <3>1, <3>2
  <2>4. CASE EditorReplaces
    <3>1. edits' = edits + 1 /\ edits' # edits
      BY <2>4 DEF EditorReplaces, TypeOK
    <3>2. PICK j \in Inodes : Stored([bytes EXCEPT ![j] = New])
      BY <2>4 DEF EditorReplaces
    <3>3. owed' \subseteq owed \cup {New}
      BY <2>4 DEF EditorReplaces
    <3> QED BY <1>0, <3>1, <3>2, <3>3 DEF Stored
  <2>5. CASE EditorRemoves
    <3>1. edits' = edits + 1 /\ edits' # edits
      BY <2>5 DEF EditorRemoves, TypeOK
    <3> QED BY <2>5, <3>1 DEF EditorRemoves, Stored
  <2> QED BY <2>1, <2>2, <2>3, <2>4, <2>5 DEF Editor
<1> QED BY <1>1, <1>2, PastStep
-----------------------------------------------------------------------------
(* The theorems.                                                           *)

LEMMA InitIInv == Init => IInv
<1> SUFFICES ASSUME Init
             PROVE  IInv
  OBVIOUS
<1>0. PICK i \in Inodes, there \in BOOLEAN, known \in BOOLEAN :
        /\ canon = IF there THEN i ELSE None
        /\ bytes = [j \in Inodes |-> IF there /\ j = i THEN App(0) ELSE None]
        /\ server = [want |-> App(0), base |-> IF known THEN App(0) ELSE None,
                     pending |-> ~there, child |-> None, saves |-> 0]
  BY DEF Init
<1>1. /\ side = [h \in Helpers |-> None] /\ handle = None /\ helper = [h \in Helpers |-> Idle]
      /\ edits = 0 /\ faults = 0 /\ owed = {}
  BY DEF Init
<1>2. App(0) \in Content /\ App(0) # None /\ App(0).by = "app" /\ Idle \in Helper
  BY ContentTypes, NoneAssumption DEF App, Idle, Helper
<1>3. TypeOK
  <2>1. \A j \in Inodes : bytes[j] # None <=> j \in Linked
    BY <1>0, <1>1, <1>2, NoneAssumption DEF Linked
  <2>2. server \in Server
    BY <1>0, <1>2 DEF Server
  <2> QED BY <1>0, <1>1, <1>2, <2>1, <2>2, BoundsAssumption DEF TypeOK
<1>4. \A h \in Helpers : helper[h] = Idle
  BY <1>1
<1>5. \A h \in Helpers : HelperInv(h)
  BY <1>1, <1>4 DEF HelperInv, BeforeDisplacing, Recovering, Idle
<1>6. PastInv
  <2>1. \A c \in {None, App(0)} : Held(c) /\ Past(c)
    BY <1>1, <1>2 DEF Held, Past
  <2> QED BY <1>0, <1>1, <1>4, <2>1 DEF PastInv, Idle
<1>7. DoomInv
  BY <1>1 DEF DoomInv
<1> QED BY <1>3, <1>5, <1>6, <1>7 DEF IInv

LEMMA NextIInv == IInv /\ [Next]_vars => IInv'
<1> SUFFICES ASSUME IInv, [Next]_vars
             PROVE  IInv'
  OBVIOUS
<1>0. TypeOK /\ (\A h \in Helpers : HelperInv(h)) /\ PastInv /\ DoomInv
  BY DEF IInv
<1>1. ASSUME NEW h \in Helpers, HelperStep(h) \/ RefusedStep(h)
      PROVE  IInv'
  BY <1>0, <1>1, HelperStepType, HelperStepInv, HelperStepPast, HelperStepDoom DEF IInv
<1>2. CASE ServerStep
  BY <1>0, <1>2, ServerStepType, ServerStepInv, ServerStepPast, ServerStepDoom DEF IInv
<1>3. CASE Editor
  BY <1>0, <1>3, EditorType, EditorInv, EditorPast, EditorDoom DEF IInv
<1>4. CASE UNCHANGED vars
  <2>0. /\ canon' = canon /\ side' = side /\ bytes' = bytes /\ handle' = handle
        /\ helper' = helper /\ server' = server /\ owed' = owed /\ edits' = edits
        /\ faults' = faults
    BY <1>4 DEF vars
  <2>1. TypeOK'
    BY <1>0, <2>0 DEF TypeOK, Linked
  <2>2. \A h \in Helpers : HelperInv(h)'
    BY <1>0, <2>0 DEF HelperInv
  <2>3. PastInv'
    BY <1>0, <2>0 DEF PastInv, Past, Held
  <2>4. DoomInv'
    BY <1>0, <2>0 DEF DoomInv, Doomed, Marked, LookedAt, Removes
  <2> QED BY <2>1, <2>2, <2>3, <2>4 DEF IInv
<1> QED BY <1>1, <1>2, <1>3, <1>4 DEF Next, ServerStep

\* The invariant holds in every reachable state.
THEOREM Invariance == Spec => []IInv
BY InitIInv, NextIInv, PTL DEF Spec

\* Every variable keeps its type; an inode has bytes exactly while it has a name
\* or is open.
THEOREM TypeCorrect == Spec => []TypeOK
<1>1. IInv => TypeOK
  BY DEF IInv
<1> QED BY <1>1, Invariance, PTL

\* What is on the shelf, name by name.
LEMMA OnShelf ==
  ASSUME TypeOK, NEW c
  PROVE  c \in Shelf <=> \/ canon # None /\ c = bytes[canon]
                         \/ \E s \in Helpers : side[s] # None /\ c = bytes[side[s]]
BY DEF Shelf

\* A helper that removes the last name of bytes an editor is owed has seen
\* others under that name.
LEMMA HelperStepKeeps ==
  ASSUME IInv, TypeOK', NEW h \in Helpers, HelperStep(h) \/ RefusedStep(h),
         NEW c \in owed, c \in owed', c \in Shelf, c \notin Shelf'
  PROVE  helper'[h] # helper[h] /\ helper[h].seen \notin {None, c}
<1>0. /\ TypeOK /\ (\A k \in Helpers : HelperInv(k)) /\ HelperInv(h) /\ DoomInv
      /\ side \in [Helpers -> Inodes \cup {None}] /\ NamesStep(h) /\ helper'[h] # helper[h]
      /\ helper \in [Helpers -> Helper] /\ canon \in Inodes \cup {None}
      /\ \A i \in Inodes : i \in Linked /\ i \in Linked' => bytes'[i] = bytes[i]
  BY HelperStepDisk DEF IInv, TypeOK
<1>1. /\ ~(canon' # None /\ c = bytes'[canon'])
      /\ \A s \in Helpers : ~(side'[s] # None /\ c = bytes'[side'[s]])
  <2>1. Shelf' = {bytes'[i] : i \in ({canon'} \cup {side'[k] : k \in Helpers}) \ {None}}
    BY DEF Shelf
  <2> QED BY <2>1
<1>2. ASSUME NEW s \in Helpers, side'[s] = side[s], side[s] # None
      PROVE  c # bytes[side[s]]
  <2>1. PICK i \in Inodes : i = side[s]
    BY <1>0, <1>2
  <2>2. i \in Linked /\ i \in Linked'
    BY <1>2, <2>1, NoneAssumption DEF Linked
  <2> QED BY <1>0, <1>1, <1>2, <2>1, <2>2
<1>3. ASSUME canon' = canon, canon # None
      PROVE  c # bytes[canon]
  <2>1. canon \in Linked /\ canon \in Linked'
    BY <1>3 DEF Linked
  <2> QED BY <1>0, <1>1, <1>3, <2>1
<1>4. \/ canon # None /\ c = bytes[canon]
      \/ \E s \in Helpers : side[s] # None /\ c = bytes[side[s]]
  BY <1>0, OnShelf
<1>5. CASE side' = side /\ (canon' = canon \/ canon = None \/ BytesOf(canon) \notin owed')
  <2>1. c = bytes[canon] /\ canon # None
    BY <1>2, <1>4, <1>5
  <2> QED BY <1>3, <1>5, <2>1 DEF BytesOf
<1>6. CASE helper[h].pc = "displace" /\ canon # None /\ side' = [side EXCEPT ![h] = canon]
  <2>1. side[h] = None
    BY <1>0, <1>6 DEF HelperInv, BeforeDisplacing
  <2>2. \A s \in Helpers : side[s] # None => side'[s] = side[s]
    BY <1>0, <1>6, <2>1
  <2>3. c = bytes[canon]
    BY <1>2, <1>4, <2>2
  <2>4. side'[h] = canon /\ canon \in Linked /\ canon \in Linked'
    BY <1>0, <1>6 DEF Linked
  <2> QED BY <1>0, <1>1, <1>6, <2>3, <2>4
<1>7. ASSUME NEW r \in Helpers, Removes(h, r), canon' = canon, side' = [side EXCEPT ![r] = None]
      PROVE  helper[h].seen \notin {None, c}
  <2>1. side[r] # None /\ c = bytes[side[r]]
    BY <1>0, <1>2, <1>3, <1>4, <1>7
  <2>2. helper[h].seen # None
    BY <1>0, <1>7 DEF Removes, HelperInv, Recovering
  <2>3. ASSUME helper[h].seen = c
        PROVE  FALSE
    <3>1. Doomed(r)
      BY <1>7, <2>1, <2>3 DEF Doomed
    <3>2. canon = side[r] \/ \E s \in Helpers : side[s] = side[r] /\ ~Marked(s)
      BY <1>0, <2>1, <3>1 DEF DoomInv
    <3>3. CASE canon = side[r]
      BY <1>3, <1>7, <2>1, <3>3
    <3>4. ASSUME NEW s \in Helpers, side[s] = side[r], ~Marked(s)
          PROVE  FALSE
      <4>1. s # r
        BY <1>7, <3>4, RemovesLooked
      <4> QED BY <1>0, <1>2, <1>7, <2>1, <3>4, <4>1
    <3> QED BY <3>2, <3>3, <3>4
  <2> QED BY <2>2, <2>3
<1> QED BY <1>0, <1>5, <1>6, <1>7 DEF NamesStep
\* An editor takes back what it overwrites, replaces or removes.
LEMMA EditorKeeps ==
  ASSUME IInv, Editor, NEW c \in owed, c \in owed', c \in Shelf
  PROVE  c \in Shelf'
<1> DEFINE New == Edit(edits + 1)
<1>0. /\ TypeOK /\ side' = side /\ side \in [Helpers -> Inodes \cup {None}]
      /\ canon \in Inodes \cup {None} /\ bytes \in [Inodes -> Content \cup {None}]
  BY DEF IInv, TypeOK, Editor, EditorOpens, EditorWrites, EditorCloses, EditorReplaces,
     EditorRemoves, diskVars
<1>1. c # New
  <2>1. c \in Content /\ Past(c) /\ c.by = "editor" /\ edits \in Nat
    BY DEF IInv, TypeOK, PastInv
  <2>2. c # None /\ c.n \in Nat /\ New.n = edits + 1
    BY <2>1, NoneAssumption DEF Edit, Content
  <2> QED BY <2>1, <2>2 DEF Past
<1>2. PICK i \in Inodes : /\ c = bytes[i]
                          /\ i = canon \/ \E s \in Helpers : side[s] = i
  BY <1>0, OnShelf
<1>3. i \in Linked /\ i # None
  BY <1>2, NoneAssumption DEF Linked
<1>4. SUFFICES bytes'[i] = c /\ (i = canon => canon' = canon)
  BY <1>0, <1>2, <1>3 DEF Shelf
<1>5. CASE EditorOpens
  BY <1>2, <1>5 DEF EditorOpens, diskVars
<1>6. CASE EditorWrites
  <2>1. handle \in Inodes /\ bytes' = [bytes EXCEPT ![handle] = New] /\ canon' = canon
    BY <1>0, <1>6 DEF EditorWrites, TypeOK
  <2>2. i # handle
    BY <1>1, <1>2, <1>6 DEF EditorWrites
  <2> QED BY <1>0, <1>2, <2>1, <2>2
<1>7. CASE EditorCloses
  <2>1. i \in Linked' /\ Stored(bytes) /\ canon' = canon
    BY <1>0, <1>2, <1>3, <1>7 DEF EditorCloses, Linked
  <2> QED BY <1>2, <2>1 DEF Stored
<1>8. CASE EditorReplaces
  <2>1. i # canon
    BY <1>1, <1>2, <1>3, <1>8 DEF EditorReplaces, BytesOf
  <2>2. PICK j \in Inodes : j \notin Linked /\ Stored([bytes EXCEPT ![j] = New])
    BY <1>8 DEF EditorReplaces, Fresh
  <2>3. i \in Linked'
    BY <1>0, <1>2, <1>3, <2>1 DEF Linked
  <2> QED BY <1>0, <1>2, <1>3, <2>1, <2>2, <2>3 DEF Stored
<1>9. CASE EditorRemoves
  <2>1. i # canon /\ Stored(bytes)
    BY <1>2, <1>3, <1>9 DEF EditorRemoves, BytesOf
  <2>2. i \in Linked'
    BY <1>0, <1>2, <1>3, <2>1 DEF Linked
  <2> QED BY <1>2, <2>1, <2>2 DEF Stored
<1> QED BY <1>5, <1>6, <1>7, <1>8, <1>9 DEF Editor

\* An editor's bytes stay on the disk, whatever helpers run, are killed or are
\* left behind, except those written through an open handle after a helper's
\* last look at that file.
THEOREM ExternalBytesAreKept == Spec => ExternalBytesKept
<1> DEFINE Keeps ==
      \A c \in owed \cap owed' :
        c \in Shelf /\ c \notin Shelf'
          => \E h \in Helpers : helper'[h] # helper[h] /\ helper[h].seen \notin {None, c}
<1>1. IInv /\ IInv' /\ [Next]_vars => [Keeps]_vars
  <2> SUFFICES ASSUME IInv, IInv', Next,
                      NEW c \in owed, c \in owed', c \in Shelf, c \notin Shelf'
               PROVE  \E h \in Helpers : helper'[h] # helper[h] /\ helper[h].seen \notin {None, c}
    OBVIOUS
  <2>1. ASSUME NEW h \in Helpers, HelperStep(h) \/ RefusedStep(h)
        PROVE  helper'[h] # helper[h] /\ helper[h].seen \notin {None, c}
    <3>1. TypeOK'
      BY DEF IInv
    <3> QED BY <2>1, <3>1, HelperStepKeeps
  <2>2. CASE ServerStep
    <3>1. canon' = canon /\ side' = side /\ bytes' = bytes
      BY <2>2 DEF ServerStep, Begin, Close, Killed, ServerDies, Save, Delete, Absorb, diskVars
    <3> QED BY <3>1 DEF Shelf
  <2>3. CASE Editor
    BY <2>3, EditorKeeps
  <2> QED BY <2>1, <2>2, <2>3 DEF Next, ServerStep
<1> QED BY <1>1, Invariance, PTL DEF Spec, ExternalBytesKept
-----------------------------------------------------------------------------
(* Older projections.                                                      *)

\* Projections are numbered as they are made.
Issued(c) == c # None /\ c.by = "app" => c.n <= server.saves
UpTo(c, d) == c # None /\ d # None /\ c.by = "app" /\ d.by = "app" => c.n <= d.n

\* The database never asks for a projection older than its baseline, and so no
\* helper is given one.
OrderInv ==
  /\ \A i \in Inodes : Issued(bytes[i])
  /\ Issued(server.want) /\ Issued(server.base) /\ UpTo(server.base, server.want)
  /\ ~server.pending => server.child = None
  /\ server.child # None => UpTo(helper[server.child].content, server.want)
  /\ \A h \in Helpers :
       Issued(helper[h].content) /\ UpTo(helper[h].base, helper[h].content)

\* What a helper that goes on to install has displaced is its baseline, or an
\* editor has written to it since.
GapInv ==
  \A h \in Helpers :
    helper[h].pc = "install" /\ side[h] # None
      => bytes[side[h]] = helper[h].base \/ bytes[side[h]].by = "editor"

\* When a helper installs a projection although a newer one is still on the
\* disk, it is another helper that had put the newer one aside: two that a dead
\* server left behind can do that to the file, one alone cannot.
OlderNeedsAGap ==
  [][\A h \in Helpers :
       Install(h) /\ canon' # canon /\ helper[h].content.by = "app"
         => \A c \in Shelf :
              c.by = "app" /\ c.n > helper[h].content.n
                => \E g \in Helpers \ {h} : BytesOf(side[g]) = c]_vars

\* What the order compares are numbers.
LEMMA OrderTypes ==
  ASSUME TypeOK
  PROVE  /\ \A c \in Content : c.n \in Nat
         /\ server.saves \in Nat /\ server.want \in Content \cup {None}
         /\ server.base \in Content \cup {None} /\ server.child \in Helpers \cup {None}
         /\ \A h \in Helpers : /\ helper[h].content \in Content \cup {None}
                               /\ helper[h].base \in Content \cup {None}
         /\ \A i \in Inodes : bytes[i] \in Content \cup {None}
         /\ None \notin Helpers
BY NoneAssumption DEF TypeOK, Content, Server, Helper

\* A helper's step makes no projection.
LEMMA HelperStepOrder ==
  ASSUME TypeOK, OrderInv, NEW h \in Helpers, HelperInv(h), HelperStep(h) \/ RefusedStep(h)
  PROVE  OrderInv'
<1>1. /\ server' = server /\ \A k \in Helpers \ {h} : helper'[k] = helper[k]
      /\ \A i \in Inodes : bytes'[i] \in {bytes[i], None, helper[h].content}
      /\ helper'[h].content \in {helper[h].content, None}
      /\ helper'[h].base \in {helper[h].base, None}
  BY HelperStepDisk, HelperStepReads
<1>2. \A i \in Inodes : Issued(bytes[i])' 
  BY <1>1 DEF OrderInv, Issued
<1>3. \A k \in Helpers : Issued(helper[k].content)' /\ UpTo(helper[k].base, helper[k].content)'
  BY <1>1 DEF OrderInv, Issued, UpTo
<1>4. server.child # None => UpTo(helper[server.child].content, server.want)'
  BY <1>1, OrderTypes DEF OrderInv, UpTo
<1> QED BY <1>1, <1>2, <1>3, <1>4 DEF OrderInv, Issued, UpTo

\* A step of the server gives a child what it wants and what it has recorded,
\* and wants only what is newer than both.
LEMMA ServerStepOrder ==
  ASSUME TypeOK, OrderInv, ServerStep
  PROVE  OrderInv'
<1>0. /\ helper \in [Helpers -> Helper] /\ server \in Server /\ bytes' = bytes
      /\ Idle.content = None /\ Idle.base = None
  BY DEF TypeOK, ServerStep, Begin, Close, Killed, ServerDies, Save, Delete, Absorb, diskVars,
     Idle
<1>1. ASSUME NEW h \in Helpers, Begin(h)
      PROVE  OrderInv'
  <2>1. /\ server.pending /\ server'.pending /\ server'.want = server.want
        /\ server'.base = server.base /\ server'.saves = server.saves /\ server'.child = h
        /\ helper'[h].content = server.want /\ helper'[h].base = server.base
        /\ \A k \in Helpers \ {h} : helper'[k] = helper[k]
    BY <1>0, <1>1 DEF Begin, Server, Idle
  <2>2. UpTo(helper[h].content, server.want)'
    BY <2>1, OrderTypes DEF UpTo
  <2> QED BY <1>0, <2>1, <2>2 DEF OrderInv, Issued, UpTo
<1>2. ASSUME NEW h \in Helpers, Close(h)
      PROVE  OrderInv'
  <2>1. helper' = [helper EXCEPT ![h] = Idle] /\ server' = Answered(h)
    BY <1>2 DEF Close
  <2>2. /\ helper'[h] = Idle /\ \A k \in Helpers \ {h} : helper'[k] = helper[k]
        /\ server'.saves = server.saves /\ server'.want = server.want
    BY <1>0, <2>1 DEF Answered, Server
  <2>3. /\ \A k \in Helpers : Issued(helper[k].content)' /\ UpTo(helper[k].base, helper[k].content)'
        /\ \A i \in Inodes : Issued(bytes[i])'
        /\ Issued(server.want)'
    BY <1>0, <2>2 DEF OrderInv, Issued, UpTo
  <2>4. CASE server.child # h
    <3>1. server' = server
      BY <2>1, <2>4 DEF Answered
    <3>2. server.child # None => helper'[server.child] = helper[server.child]
      BY <2>2, <2>4, OrderTypes
    <3> QED BY <2>3, <3>1, <3>2 DEF OrderInv, Issued, UpTo
  <2>5. CASE server.child = h
    <3>1. /\ server'.child = None
          /\ server'.base = server.base \/ server'.base = helper[h].content
      BY <1>0, <2>1, <2>5 DEF Answered, Server
    <3>2. server.child # None
      BY <2>5, OrderTypes
    <3>3. Issued(server.base)' /\ UpTo(server.base, server.want)'
      BY <2>2, <2>5, <3>1, <3>2 DEF OrderInv, Issued, UpTo
    <3> QED BY <2>3, <3>1, <3>3 DEF OrderInv
  <2> QED BY <2>4, <2>5
<1>3. ASSUME NEW h \in Helpers, Killed(h)
      PROVE  OrderInv'
  <2>1. /\ helper'[h] = Idle /\ \A k \in Helpers \ {h} : helper'[k] = helper[k]
        /\ server'.saves = server.saves /\ server'.want = server.want
        /\ server'.base = server.base /\ server'.child = None
    BY <1>0, <1>3 DEF Killed, Server
  <2> QED BY <1>0, <2>1 DEF OrderInv, Issued, UpTo
<1>4. CASE ServerDies
  <2>1. /\ server'.saves = server.saves /\ server'.want = server.want
        /\ server'.base = server.base /\ server'.child = None
    BY <1>0, <1>4 DEF ServerDies, Server
  <2>2. ASSUME NEW k \in Helpers
        PROVE  /\ helper'[k].content \in {helper[k].content, Torn}
               /\ helper'[k].base = helper[k].base
    <3>1. helper'[k] = helper[k] \/ helper'[k] = [helper[k] EXCEPT !.content = Torn, !.pc = "list"]
      BY <1>4 DEF ServerDies
    <3> QED BY <1>0, <3>1 DEF Helper
  <2>3. Torn.by # "app"
    BY DEF Torn
  <2> QED BY <1>0, <2>1, <2>2, <2>3 DEF OrderInv, Issued, UpTo
<1>5. CASE Save
  <2>1. PICK c, n : c = App(server.saves + 1) /\ n = server.saves + 1
    OBVIOUS
  <2>2. server' = [server EXCEPT !.want = c, !.pending = TRUE, !.saves = n] /\ helper' = helper
    BY <1>5, <2>1 DEF Save
  <2>3. /\ server'.want = c /\ server'.base = server.base /\ server'.saves = n
        /\ server'.pending /\ server'.child = server.child
    BY <1>0, <2>2 DEF Server
  <2>4. c.n = n /\ n \in Nat /\ n > server.saves
    BY <2>1, OrderTypes DEF App
  <2>5. \A d \in Content \cup {None} : Issued(d) => Issued(d)' /\ UpTo(d, c)
    <3>1. SUFFICES ASSUME NEW d \in Content, Issued(d), d # None, d.by = "app"
                   PROVE  d.n <= server'.saves /\ d.n <= c.n
      BY DEF Issued, UpTo
    <3>2. d.n \in Nat /\ d.n <= server.saves /\ server.saves \in Nat
      BY <3>1, OrderTypes DEF Issued
    <3> QED BY <2>3, <2>4, <3>2
  <2>6. Issued(server.want)'
    BY <2>3, <2>4 DEF Issued
  <2>7. \A i \in Inodes : Issued(bytes[i])'
    BY <1>0, <2>5, OrderTypes DEF OrderInv, Issued
  <2>8. Issued(server.base)' /\ UpTo(server.base, server.want)'
    BY <2>3, <2>5, OrderTypes DEF OrderInv, Issued, UpTo
  <2>9. \A k \in Helpers : /\ Issued(helper[k].content)' /\ UpTo(helper[k].content, c)
                           /\ UpTo(helper[k].base, helper[k].content)'
    BY <2>2, <2>5, OrderTypes DEF OrderInv, Issued, UpTo
  <2>10. server'.child # None => UpTo(helper[server.child].content, server.want)'
    BY <2>2, <2>3, <2>9, OrderTypes DEF UpTo
  <2> QED BY <2>3, <2>6, <2>7, <2>8, <2>9, <2>10 DEF OrderInv
<1>6. CASE Delete
  <2>1. /\ server'.want = None /\ server'.base = server.base /\ server'.pending
        /\ server'.saves = server.saves /\ server'.child = server.child /\ helper' = helper
    BY <1>0, <1>6 DEF Delete, Server
  <2> QED BY <1>0, <2>1 DEF OrderInv, Issued, UpTo
<1>7. CASE Absorb
  <2>1. PICK i \in Inodes : i = canon
    BY <1>7 DEF Absorb, TypeOK
  <2>2. /\ server'.want = bytes[i] /\ server'.base = bytes[i] /\ server.child = None
        /\ server'.saves = server.saves /\ server'.child = server.child /\ helper' = helper
    BY <1>0, <1>7, <2>1 DEF Absorb, Server, OrderInv
  <2>3. UpTo(server.base, server.want)'
    BY <2>2, OrderTypes DEF UpTo
  <2> QED BY <1>0, <2>2, <2>3 DEF OrderInv, Issued, UpTo
<1> QED BY <1>1, <1>2, <1>3, <1>4, <1>5, <1>6, <1>7 DEF ServerStep

\* An editor's step makes no projection, and only writes over what is set aside.
LEMMA EditorOrder ==
  ASSUME TypeOK, OrderInv, Editor
  PROVE  /\ OrderInv' /\ helper' = helper /\ side' = side
         /\ \A i \in Inodes : bytes'[i] \in {bytes[i], None} \/ bytes'[i].by = "editor"
<1>1. helper' = helper /\ server' = server /\ side' = side
  BY DEF Editor, EditorOpens, EditorWrites, EditorCloses, EditorReplaces, EditorRemoves, diskVars
<1>2. \A i \in Inodes : bytes'[i] \in {bytes[i], None, Edit(edits + 1)}
  BY DEF TypeOK, Editor, EditorOpens, EditorWrites, EditorCloses, EditorReplaces, EditorRemoves,
     diskVars, Stored
<1>3. Edit(edits + 1).by = "editor"
  BY DEF Edit
<1> QED BY <1>1, <1>2, <1>3 DEF OrderInv, Issued, UpTo

\* A helper decides to install over what it displaced only after a look at it.
LEMMA HelperStepGap ==
  ASSUME TypeOK, GapInv, NEW h \in Helpers, HelperInv(h), HelperStep(h) \/ RefusedStep(h)
  PROVE  GapInv'
<1>0. /\ helper \in [Helpers -> Helper] /\ side \in [Helpers -> Inodes \cup {None}]
      /\ bytes \in [Inodes -> Content \cup {None}]
  BY DEF TypeOK
<1>1. /\ NamesStep(h) /\ helper'[h] # helper[h]
      /\ \A k \in Helpers \ {h} : helper'[k] = helper[k]
      /\ \A i \in Inodes : i \in Linked /\ i \in Linked' => bytes'[i] = bytes[i]
  BY HelperStepDisk
<1>2. ASSUME NEW k \in Helpers \ {h}, helper'[k].pc = "install", side'[k] # None
      PROVE  bytes'[side'[k]] = helper'[k].base \/ bytes'[side'[k]].by = "editor"
  <2>1. side'[k] = side[k]
    BY <1>0, <1>1, <1>2 DEF NamesStep
  <2>2. side[k] \in Linked /\ side[k] \in Linked' /\ side[k] \in Inodes
    BY <1>0, <1>2, <2>1 DEF Linked
  <2> QED BY <1>1, <1>2, <2>1, <2>2 DEF GapInv
<1>3. ASSUME helper'[h].pc = "install", side'[h] # None
      PROVE  bytes'[side'[h]] = helper'[h].base
  <2>1. Displace(h) \/ Look(h)
    <3>1. ASSUME NEW r, Exit(h, r)
          PROVE  helper'[h].pc = "exit"
      BY <1>0, <3>1, ExitInv
    <3>2. ASSUME NEW pc, Goto(h, pc)
          PROVE  helper'[h].pc = pc
      BY <1>0, <3>2 DEF Goto, Helper
    <3>3. ASSUME NEW r, DropThen(h, r)
          PROVE  helper'[h].pc = "drop"
      BY <1>0, <3>3 DEF DropThen, Helper
    <3>4. ASSUME Proceed(h)
          PROVE  helper'[h].pc = "classify"
      BY <1>0, <3>4 DEF Proceed, Helper
    <3>5. ~Fed(h) /\ ~Compare(h) /\ ~Discard(h) /\ ~Relink(h) /\ ~Release(h) /\ ~Classify(h)
      BY <1>3, <3>1, <3>2, <3>4
         DEF Fed, Compare, Discard, Relink, Release, Classify
    <3>6. ~Restore(h) /\ ~Install(h) /\ ~InstallRefused(h) /\ ~Drop(h) /\ ~RemoveFile(h)
      BY <1>3, <3>1, <3>2, <3>3 DEF Restore, Install, InstallRefused, Drop, RemoveFile
    <3>7. ~List(h)
      BY <1>0, <1>3, <3>1, <3>2 DEF List, Helper
    <3>8. ~Recover(h)
      BY <1>0, <1>3, <3>1 DEF Recover, Helper
    <3>9. ~Check(h)
      BY <1>0, <1>3, <3>1 DEF Check, Helper
    <3> QED BY <3>5, <3>6, <3>7, <3>8, <3>9 DEF HelperStep, RefusedStep, WriteStep
  <2>2. CASE Displace(h)
    <3>1. side[h] = None
      BY <2>2 DEF Displace, HelperInv, BeforeDisplacing
    <3>2. canon = None
      BY <1>0, <1>3, <2>2 DEF Displace, Helper
    <3> QED BY <1>3, <2>2, <3>1, <3>2 DEF Displace, diskVars
  <2>3. CASE Look(h)
    <3>1. side' = side /\ bytes' = bytes
      BY <2>3 DEF Look, Unchanged, diskVars
    <3>2. Class(h, BytesOf(side[h])) = "replaceable" /\ helper'[h].base = helper[h].base
      BY <1>0, <1>3, <2>3, ExitInv DEF Look, Helper
    <3>3. BytesOf(side[h]) = helper[h].base
      BY <3>2 DEF Class
    <3> QED BY <1>3, <3>1, <3>2, <3>3 DEF BytesOf
  <2> QED BY <2>1, <2>2, <2>3
<1> QED BY <1>2, <1>3 DEF GapInv

\* The server's steps and the editor's leave what was displaced, or an editor
\* writes it.
LEMMA OtherStepGap ==
  ASSUME TypeOK, OrderInv, GapInv, ServerStep \/ Editor
  PROVE  GapInv'
<1>0. helper \in [Helpers -> Helper] /\ side \in [Helpers -> Inodes \cup {None}]
  BY DEF TypeOK
<1>1. CASE ServerStep
  <2>1. side' = side /\ bytes' = bytes
    BY <1>1 DEF ServerStep, Begin, Close, Killed, ServerDies, Save, Delete, Absorb, diskVars
  <2>2. ASSUME NEW k \in Helpers
        PROVE  helper'[k] = helper[k] \/ helper'[k].pc # "install"
    <3>1. CASE \E h \in Helpers : Begin(h) \/ Close(h) \/ Killed(h)
      <4>1. PICK h \in Helpers : Begin(h) \/ Close(h) \/ Killed(h)
        BY <3>1
      <4>2. CASE Close(h) \/ Killed(h)
        <5>1. helper' = [helper EXCEPT ![h] = Idle]
          BY <4>2 DEF Close, Killed
        <5> QED BY <1>0, <5>1 DEF Idle
      <4>3. CASE Begin(h)
        <5>1. PICK pc : pc = IF server.want = None THEN "remove" ELSE "input"
          OBVIOUS
        <5>2. helper' = [helper EXCEPT ![h] =
                [Idle EXCEPT !.pc = pc, !.content = server.want, !.base = server.base]]
          BY <4>3, <5>1 DEF Begin
        <5>3. helper'[k] = helper[k] \/ helper'[k].pc = pc
          BY <1>0, <5>2 DEF Idle
        <5>4. pc # "install"
          BY <5>1
        <5> QED BY <5>3, <5>4
      <4> QED BY <4>1, <4>2, <4>3
    <3>2. CASE ServerDies
      <4>1. helper'[k] = helper[k] \/ helper'[k] = [helper[k] EXCEPT !.content = Torn, !.pc = "list"]
        BY <3>2 DEF ServerDies
      <4> QED BY <1>0, <4>1 DEF Helper
    <3>3. CASE Save \/ Delete \/ Absorb
      BY <3>3 DEF Save, Delete, Absorb
    <3> QED BY <1>1, <3>1, <3>2, <3>3 DEF ServerStep
  <2> QED BY <2>1, <2>2 DEF GapInv
<1>2. CASE Editor
  <2>1. /\ helper' = helper /\ side' = side
        /\ \A i \in Inodes : bytes'[i] \in {bytes[i], None} \/ bytes'[i].by = "editor"
    BY <1>2, EditorOrder
  <2>2. \A k \in Helpers : side[k] # None => bytes'[side[k]] # None
    <3>1. TypeOK'
      BY <1>2, EditorType
    <3> QED BY <1>0, <2>1, <3>1 DEF TypeOK, Linked
  <2> QED BY <1>0, <2>1, <2>2 DEF GapInv
<1> QED BY <1>1, <1>2

AgeInv == IInv /\ OrderInv /\ GapInv

\* No step gives up the order, or installs over what it has not seen.
LEMMA OrderAlways == Spec => []AgeInv
<1>1. Init => AgeInv
  <2> SUFFICES ASSUME Init
               PROVE  AgeInv
    OBVIOUS
  <2>1. PICK i \in Inodes, there \in BOOLEAN, known \in BOOLEAN :
          /\ bytes = [j \in Inodes |-> IF there /\ j = i THEN App(0) ELSE None]
          /\ server = [want |-> App(0), base |-> IF known THEN App(0) ELSE None,
                       pending |-> ~there, child |-> None, saves |-> 0]
    BY DEF Init
  <2>2. \A h \in Helpers : helper[h].content = None /\ helper[h].base = None /\ side[h] = None
    BY DEF Init, Idle
  <2>3. App(0).n = 0 /\ App(0) # None
    BY NoneAssumption, ContentTypes DEF App
  <2>4. OrderInv
    BY <2>1, <2>2, <2>3 DEF OrderInv, Issued, UpTo
  <2> QED BY <2>2, <2>4, InitIInv DEF GapInv, AgeInv
<1>2. AgeInv /\ [Next]_vars => AgeInv'
  <2> SUFFICES ASSUME AgeInv, [Next]_vars
               PROVE  AgeInv'
    OBVIOUS
  <2>0. IInv /\ OrderInv /\ GapInv
    BY DEF AgeInv
  <2>1. IInv' /\ TypeOK /\ \A h \in Helpers : HelperInv(h)
    BY <2>0, NextIInv DEF IInv
  <2>2. ASSUME NEW h \in Helpers, HelperStep(h) \/ RefusedStep(h)
        PROVE  AgeInv'
    BY <2>0, <2>1, <2>2, HelperStepOrder, HelperStepGap DEF AgeInv
  <2>3. CASE ServerStep
    BY <2>0, <2>1, <2>3, ServerStepOrder, OtherStepGap DEF AgeInv
  <2>4. CASE Editor
    BY <2>0, <2>1, <2>4, EditorOrder, OtherStepGap DEF AgeInv
  <2>5. CASE UNCHANGED vars
    BY <2>0, <2>1, <2>5 DEF vars, OrderInv, GapInv, Issued, UpTo, AgeInv
  <2> QED BY <2>2, <2>3, <2>4, <2>5 DEF Next, ServerStep
<1> QED BY <1>1, <1>2, PTL DEF Spec

\* What a helper installs is as new as what it put aside itself.
LEMMA NewerIsAside ==
  ASSUME AgeInv, NEW h \in Helpers, Install(h), canon' # canon,
         NEW c \in Shelf, c.by = "app", c.n > helper[h].content.n,
         helper[h].content.by = "app"
  PROVE  \E g \in Helpers \ {h} : BytesOf(side[g]) = c
<1>0. IInv /\ OrderInv /\ GapInv
  BY DEF AgeInv
<1>1. TypeOK /\ HelperInv(h) /\ helper[h].pc = "install" /\ canon = None
  BY <1>0 DEF IInv, Install, Link, diskVars
<1>2. PICK s \in Helpers : side[s] # None /\ c = bytes[side[s]]
  BY <1>1, OnShelf
<1>3. side[s] \in Inodes /\ bytes[side[s]] \in Content \cup {None} /\ c # None
  BY <1>1, <1>2, NoneAssumption DEF TypeOK, Linked
<1>4. CASE s = h
  <2>1. c = helper[h].base
    BY <1>0, <1>1, <1>2, <1>4 DEF GapInv
  <2>2. helper[h].content \in Content /\ helper[h].content # None
    BY <1>1 DEF HelperInv, TypeOK, Helper
  <2>3. c.n <= helper[h].content.n
    BY <1>0, <1>3, <2>1, <2>2 DEF OrderInv, UpTo
  <2>4. c.n \in Nat /\ helper[h].content.n \in Nat
    BY <1>1, <1>2, <1>3, <2>2, OrderTypes
  <2> QED BY <2>3, <2>4
<1> QED BY <1>2, <1>3, <1>4 DEF BytesOf

\* A helper alone never replaces a projection by an older one, whatever it
\* classified before, and whoever it has been left behind by.
THEOREM OlderIsNeverInstalledAlone == Spec => OlderNeedsAGap
<1>1. AgeInv /\ [Next]_vars =>
        [\A h \in Helpers :
           Install(h) /\ canon' # canon /\ helper[h].content.by = "app"
             => \A c \in Shelf :
                  c.by = "app" /\ c.n > helper[h].content.n
                    => \E g \in Helpers \ {h} : BytesOf(side[g]) = c]_vars
  BY NewerIsAside
<1> QED BY <1>1, OrderAlways, PTL DEF Spec, OlderNeedsAGap

-----------------------------------------------------------------------------
(* One orphan.                                                             *)

\* A helper nobody waits for: a dead server left it behind.
Orphan(h) == helper[h].pc # "idle" /\ server.child # h

MayInstall(h) == helper[h].pc \in BeforeDisplacing \cup {"look", "install"}

\* Nothing has failed so far, or an orphan is about that has yet to install.
Guarded == faults = 0 \/ \E h \in Helpers : Orphan(h) /\ MayInstall(h)

Projection(i) == i # None /\ bytes[i].by = "app"

\* The child has its baseline aside, and will put it back or drop it.
HasBaseAside(g) ==
  /\ server.child = g /\ bytes[side[g]] = helper[g].base /\ helper[g].pc # "exit"
  /\ ~(helper[g].pc = "restore" /\ helper[g].result = "conflict")

\* While an orphan may install, no helper that has ended left a projection
\* aside, and the child is about to displace none but its baseline.
AsideInv ==
  \A g \in Helpers :
    /\ Projection(side[g]) => Orphan(g) \/ HasBaseAside(g)
    /\ server.child = g /\ helper[g].pc = "displace" /\ Projection(canon)
         => bytes[canon] = helper[g].base

LoneInv ==
  /\ server.child # None => helper[server.child].pc # "idle"
  /\ \A h \in Helpers : Orphan(h) => faults = 1
  /\ \A g, h \in Helpers : Orphan(g) /\ Orphan(h) => g = h
  /\ \A h \in Helpers :
       helper[h].pc = "remove" \/ (helper[h].pc = "install" /\ ~helper[h].held)
         => side[h] = None
  /\ \A h \in Helpers : helper[h].pc = "look" => helper[h].held
  /\ Guarded => AsideInv

\* After the link there is no other.
LEMMA InstallCall ==
  ASSUME helper \in [Helpers -> Helper], NEW h \in Helpers, Install(h)
  PROVE  IF helper[h].held
         THEN helper'[h].pc \in {"check", "drop"} /\ helper'[h].base = helper[h].base
         ELSE helper'[h].pc = "exit"
<1>1. CASE \E r : Exit(h, r) /\ ~helper[h].held
  BY <1>1, ExitInv
<1>2. CASE Goto(h, "check") /\ helper[h].held
  BY <1>2 DEF Goto, Helper
<1>3. CASE DropThen(h, "conflict") /\ helper[h].held
  BY <1>3 DEF DropThen, Helper
<1> QED BY <1>1, <1>2, <1>3 DEF Install

\* The calls of a helper, in their order.
LEMMA CallOrder ==
  ASSUME TypeOK, NEW h \in Helpers, HelperStep(h) \/ RefusedStep(h)
  PROVE  /\ helper[h].pc # "idle" /\ helper'[h].pc \notin {"idle", "remove"}
         /\ MayInstall(h)' => MayInstall(h)
         /\ helper'[h].pc = "exit" \/ helper'[h].base = helper[h].base
         /\ helper'[h].pc = "displace" => Classify(h)
         /\ helper'[h].pc = "install" => Displace(h) \/ Look(h)
         /\ helper'[h].pc = "restore" => Look(h)
         /\ helper'[h].pc = "look" => helper'[h].held
<1>0. helper \in [Helpers -> Helper]
  BY DEF TypeOK
<1>1. ASSUME NEW r, Exit(h, r)
      PROVE  helper'[h].pc = "exit"
  BY <1>0, <1>1, ExitInv
<1>2. ASSUME NEW pc, Goto(h, pc)
      PROVE  helper'[h].pc = pc /\ helper'[h].base = helper[h].base
  BY <1>0, <1>2 DEF Goto, Helper
<1>3. ASSUME NEW r, DropThen(h, r)
      PROVE  helper'[h].pc = "drop" /\ helper'[h].base = helper[h].base
  BY <1>0, <1>3 DEF DropThen, Helper
<1>4. ASSUME Proceed(h)
      PROVE  helper'[h].pc = "classify" /\ helper'[h].base = helper[h].base
  BY <1>0, <1>4 DEF Proceed, Helper
<1>5. CASE Fed(h) \/ Compare(h) \/ Discard(h) \/ Relink(h) \/ Release(h) \/ Classify(h)
  BY <1>1, <1>2, <1>4, <1>5
     DEF Fed, Compare, Discard, Relink, Release, Classify, MayInstall, BeforeDisplacing
<1>6. CASE Restore(h) \/ InstallRefused(h) \/ Drop(h) \/ RemoveFile(h)
  <2>1. helper[h].pc \in {"restore", "install", "drop", "remove"}
    BY <1>6 DEF Restore, InstallRefused, Drop, RemoveFile
  <2>2. \/ helper'[h].pc = "exit"
        \/ helper'[h].pc = "drop" /\ helper'[h].base = helper[h].base
    <3>1. CASE Restore(h)
      BY <1>1, <1>3, <3>1 DEF Restore
    <3>2. CASE InstallRefused(h)
      BY <1>1, <1>3, <3>2 DEF InstallRefused
    <3>3. CASE Drop(h) \/ RemoveFile(h)
      BY <1>1, <3>3 DEF Drop, RemoveFile
    <3> QED BY <1>6, <3>1, <3>2, <3>3
  <2> QED BY <2>1, <2>2 DEF MayInstall, BeforeDisplacing
<1>12. CASE Install(h)
  <2>1. \/ helper'[h].pc = "exit"
        \/ helper'[h].pc \in {"check", "drop"} /\ helper'[h].base = helper[h].base
    BY <1>12, InstallCall DEF TypeOK
  <2> QED BY <1>12, <2>1 DEF Install, MayInstall, BeforeDisplacing
<1>7. CASE List(h)
  BY <1>0, <1>1, <1>2, <1>7 DEF List, Helper, MayInstall, BeforeDisplacing
<1>8. CASE Recover(h)
  BY <1>0, <1>1, <1>8 DEF Recover, Helper, MayInstall, BeforeDisplacing
<1>9. CASE Check(h)
  BY <1>0, <1>1, <1>9 DEF Check, Helper, MayInstall, BeforeDisplacing
<1>10. CASE Displace(h)
  BY <1>0, <1>2, <1>10 DEF Displace, Helper, MayInstall, BeforeDisplacing
<1>11. CASE Look(h)
  BY <1>0, <1>1, <1>11 DEF Look, Helper, MayInstall, BeforeDisplacing
<1> QED BY <1>5, <1>6, <1>7, <1>8, <1>9, <1>10, <1>11, <1>12 DEF HelperStep, RefusedStep, WriteStep

\* A sidecar that has a name after a helper's step had it before with the same
\* bytes, unless the helper has just displaced the file.
LEMMA AsideStep ==
  ASSUME TypeOK, TypeOK', NEW h \in Helpers, HelperInv(h), HelperStep(h) \/ RefusedStep(h),
         NEW g \in Helpers, side'[g] # None
  PROVE  \/ side'[g] = side[g] /\ bytes'[side'[g]] = bytes[side[g]]
         \/ g = h /\ Displace(h) /\ side'[g] = canon /\ bytes'[side'[g]] = bytes[canon]
<1>0. /\ helper \in [Helpers -> Helper] /\ side \in [Helpers -> Inodes \cup {None}]
      /\ canon \in Inodes \cup {None} /\ side'[g] \in Linked'
  BY DEF TypeOK, Linked
<1>1. NamesStep(h) /\ \A i \in Inodes : i \in Linked /\ i \in Linked' => bytes'[i] = bytes[i]
  BY HelperStepDisk
<1>2. CASE side'[g] = side[g]
  BY <1>0, <1>1, <1>2 DEF Linked
<1>3. CASE side'[g] # side[g]
  <2>1. /\ helper[h].pc = "displace" /\ canon # None
        /\ side' = [side EXCEPT ![h] = canon]
    BY <1>0, <1>1, <1>3 DEF NamesStep
  <2>2. g = h /\ side'[g] = canon
    BY <1>0, <1>3, <2>1
  <2>3. Displace(h)
    BY <2>1 DEF HelperStep, RefusedStep, WriteStep, Fed, List, Recover, Compare, Discard,
       Relink, Release, Classify, Look, Restore, Install, InstallRefused, Check, Drop, RemoveFile
  <2>4. canon \in Linked /\ canon \in Linked'
    BY <1>0, <2>1, <2>2 DEF Linked
  <2> QED BY <1>0, <1>1, <2>1, <2>2, <2>3, <2>4
<1> QED BY <1>2, <1>3

\* The child keeps aside no projection but its baseline, and ends without one.
LEMMA ChildAside ==
  ASSUME TypeOK, TypeOK', LoneInv, AsideInv, NEW h \in Helpers, HelperInv(h), HelperStep(h),
         server.child = h, Projection(side[h])'
  PROVE  HasBaseAside(h)'
<1>0. /\ helper \in [Helpers -> Helper] /\ side \in [Helpers -> Inodes \cup {None}]
      /\ bytes \in [Inodes -> Content \cup {None}] /\ server' = server
      /\ \A i \in Inodes : bytes[i] # None <=> i \in Linked
  BY DEF TypeOK, HelperStep
<1>1. /\ helper'[h].pc = "exit" \/ helper'[h].base = helper[h].base
      /\ helper'[h].pc = "restore" => Look(h)
  BY CallOrder
<1>2. CASE Displace(h) /\ side'[h] = canon /\ bytes'[side'[h]] = bytes[canon]
  <2>1. helper[h].pc = "displace" /\ canon # None
    BY <1>2 DEF Displace, Projection
  <2>2. helper'[h].pc = "look"
    BY <1>0, <1>2, <2>1 DEF Displace, Helper
  <2>3. bytes[canon] = helper[h].base
    BY <1>2, <2>1 DEF AsideInv, Projection
  <2> QED BY <1>0, <1>1, <1>2, <2>2, <2>3 DEF HasBaseAside
<1>3. CASE side'[h] = side[h] /\ bytes'[side'[h]] = bytes[side[h]]
  <2>1. Projection(side[h]) /\ side[h] # None /\ BytesOf(side[h]) # None
    BY <1>0, <1>3 DEF Projection, Linked, BytesOf
  <2>2. HasBaseAside(h) /\ BytesOf(side[h]) = helper[h].base
    BY <2>1 DEF AsideInv, Orphan, HasBaseAside, BytesOf
  <2>3. ASSUME helper'[h].pc = "exit"
        PROVE  FALSE
    <3>1. helper[h].pc \notin BeforeDisplacing
      BY <2>1 DEF HelperInv
    <3>2. helper[h].pc \notin {"remove", "exit"}
      BY <2>1, <2>2 DEF LoneInv, HasBaseAside
    <3>3. ~Look(h)
      <4>1. ASSUME Look(h) PROVE FALSE
        <5>1. Class(h, BytesOf(side[h])) = "missing"
          BY <1>0, <2>3, <4>1 DEF Look, Helper
        <5> QED BY <2>1, <5>1 DEF Class
      <4> QED BY <4>1
    <3>4. ~Restore(h)
      <4>1. ASSUME Restore(h) PROVE FALSE
        <5>1. helper[h].pc = "restore" /\ helper[h].result # "conflict"
          BY <2>2, <4>1 DEF Restore, HasBaseAside
        <5> QED BY <1>0, <2>1, <2>3, <4>1, <5>1 DEF Restore, DropThen, Helper
      <4> QED BY <4>1
    <3>5. ~Install(h)
      <4>1. ASSUME Install(h) PROVE FALSE
        <5>1. helper[h].held
          BY <2>1, <4>1 DEF Install, LoneInv
        <5> QED BY <1>0, <2>3, <4>1, <5>1, InstallCall
      <4> QED BY <4>1
    <3>6. ~Check(h)
      BY <1>0, <2>1, <2>2, <2>3 DEF Check, Helper
    <3>7. ~Drop(h)
      BY <1>0, <1>3, <2>1 DEF Drop, Unlink
    <3> QED BY <3>1, <3>2, <3>3, <3>4, <3>5, <3>6, <3>7
         DEF HelperStep, WriteStep, Fed, List, Recover, Compare, Discard, Relink, Release,
             Classify, Displace, RemoveFile, BeforeDisplacing
  <2>4. ASSUME helper'[h].pc = "restore"
        PROVE  helper'[h].result # "conflict"
    <3>1. Look(h)
      BY <1>1, <2>4
    <3>2. Class(h, BytesOf(side[h])) # "conflict"
      BY <2>1, <2>2 DEF Class
    <3> QED BY <1>0, <2>4, <3>1, <3>2, ExitInv DEF Look, Helper
  <2> QED BY <1>0, <1>1, <1>3, <2>2, <2>3, <2>4 DEF HasBaseAside
<1> QED BY <1>2, <1>3, AsideStep DEF Projection

\* What the child classified as its baseline stays that, or an editor's.
LEMMA ChildTarget ==
  ASSUME TypeOK, TypeOK', LoneInv, AsideInv, Guarded', NEW h \in Helpers,
         \A k \in Helpers : HelperInv(k), HelperStep(h),
         NEW g \in Helpers, server'.child = g, helper'[g].pc = "displace", Projection(canon)'
  PROVE  bytes'[canon'] = helper'[g].base
<1>0. /\ helper \in [Helpers -> Helper] /\ side \in [Helpers -> Inodes \cup {None}]
      /\ bytes \in [Inodes -> Content \cup {None}] /\ server' = server /\ faults' = faults
      /\ \A i \in Inodes : bytes[i] # None <=> i \in Linked
      /\ canon \in Inodes \cup {None} /\ canon' \in Linked'
      /\ \A k \in Helpers \ {h} : helper'[k] = helper[k]
      /\ \A i \in Inodes : i \in Linked /\ i \in Linked' => bytes'[i] = bytes[i]
  BY HelperStepDisk DEF TypeOK, HelperStep, Linked, Projection
<1>1. CASE canon' = canon /\ g # h
  <2>1. bytes'[canon'] = bytes[canon] /\ canon # None
    BY <1>0, <1>1 DEF Linked, Projection
  <2> QED BY <1>0, <1>1, <2>1 DEF AsideInv, Projection
<1>2. CASE g = h
  <2>1. Classify(h) /\ helper'[h].base = helper[h].base
    BY <1>2, CallOrder
  <2>2. canon' = canon /\ bytes' = bytes
    BY <2>1 DEF Classify, Unchanged, diskVars
  <2>3. BytesOf(canon) = bytes[canon] /\ bytes[canon] # None
    BY <1>0, <2>2 DEF BytesOf, Projection, Linked
  <2>4. Class(h, bytes[canon]) \in {"missing", "replaceable"}
    BY <1>0, <1>2, <2>1, <2>3, ExitInv DEF Classify
  <2>5. bytes[canon] = helper[h].base
    BY <2>3, <2>4 DEF Class
  <2> QED BY <1>2, <2>1, <2>2, <2>5
<1>3. CASE canon' # canon /\ g # h
  <2>1. Orphan(h)
    BY <1>0, <1>3, CallOrder DEF Orphan
  <2>2. MayInstall(h)'
    <3>1. faults' # 0
      BY <1>0, <2>1 DEF LoneInv
    <3>2. PICK k \in Helpers : Orphan(k)' /\ MayInstall(k)'
      BY <3>1 DEF Guarded
    <3>3. CASE k # h
      BY <1>0, <2>1, <3>2, <3>3 DEF Orphan, LoneInv
    <3> QED BY <3>2, <3>3
  <2>3. MayInstall(h) /\ helper'[h].pc \notin {"exit", "drop", "check"}
    BY <2>2, CallOrder DEF MayInstall, BeforeDisplacing
  <2>4. Relink(h)
    <3>1. ~Restore(h) /\ ~RemoveFile(h)
      BY <2>3 DEF Restore, RemoveFile, MayInstall, BeforeDisplacing
    <3>2. ~Install(h)
      BY <1>0, <2>3, InstallCall
    <3>3. ~Displace(h)
      BY <1>3 DEF Displace, diskVars, Projection
    <3> QED BY <1>3, <3>1, <3>2, <3>3
         DEF HelperStep, WriteStep, Fed, List, Recover, Compare, Discard, Release, Classify,
             Look, Check, Drop, Unchanged, Unlink, diskVars
  <2>5. PICK s : s = helper[h].old /\ helper[h].pc = "relink" /\ canon' = side[s] /\ side[s] # None
    BY <1>0, <1>3, <2>4 DEF Relink, Link, diskVars
  <2>6. s \in Helpers
    BY <1>0, <2>5, NoneAssumption DEF HelperInv, Recovering, Helper
  <2>7. side[h] = None /\ side[g] = None
    BY <1>0, <1>3, <2>5 DEF HelperInv, BeforeDisplacing
  <2>8. bytes'[canon'] = bytes[side[s]]
    BY <1>0, <2>5, <2>6 DEF Linked
  <2>9. Projection(side[s])
    BY <2>5, <2>8 DEF Projection
  <2>10. Guarded
    BY <2>1, <2>3 DEF Guarded
  <2>11. Orphan(s) \/ server.child = s
    BY <2>6, <2>9 DEF AsideInv, HasBaseAside
  <2> QED BY <1>0, <2>1, <2>5, <2>6, <2>7, <2>11 DEF LoneInv
<1> QED BY <1>1, <1>2, <1>3

\* The order of the calls keeps both.
LEMMA HelperStepLone ==
  ASSUME TypeOK, TypeOK', LoneInv, \A k \in Helpers : HelperInv(k), NEW h \in Helpers,
         HelperStep(h)
  PROVE  LoneInv'
<1>0. /\ server' = server /\ faults' = faults
      /\ \A k \in Helpers \ {h} : helper'[k] = helper[k]
      /\ helper[h].pc # "idle" /\ helper'[h].pc \notin {"idle", "remove"}
      /\ MayInstall(h)' => MayInstall(h)
  BY HelperStepDisk, CallOrder DEF HelperStep
<1>1. \A k \in Helpers : Orphan(k)' <=> Orphan(k)
  BY <1>0 DEF Orphan
<1>2. \A k \in Helpers : MayInstall(k)' => MayInstall(k)
  BY <1>0 DEF MayInstall
<1>3. Guarded' => Guarded
  BY <1>0, <1>1, <1>2 DEF Guarded
<1>4. /\ server'.child # None => helper'[server'.child].pc # "idle"
      /\ \A k \in Helpers : Orphan(k)' => faults' = 1
      /\ \A g, k \in Helpers : Orphan(g)' /\ Orphan(k)' => g = k
  <2>1. server.child \in Helpers \cup {None}
    BY OrderTypes
  <2> QED BY <1>0, <1>1, <2>1 DEF LoneInv
<1>5. ASSUME NEW k \in Helpers,
             helper'[k].pc = "remove" \/ (helper'[k].pc = "install" /\ ~helper'[k].held)
      PROVE  side'[k] = None
  <2>1. CASE k # h
    <3>1. side[k] = None
      BY <1>0, <1>5, <2>1 DEF LoneInv
    <3> QED BY <2>1, <3>1, AsideStep DEF Projection
  <2>2. CASE k = h
    <3>1. helper'[h].pc = "install" /\ ~helper'[h].held
      BY <1>0, <1>5, <2>2
    <3>2. CASE Displace(h)
      <4>1. helper[h].pc = "displace" /\ side[h] = None
        BY <3>2 DEF Displace, HelperInv, BeforeDisplacing
      <4>2. canon = None
        BY <3>1, <3>2 DEF Displace, TypeOK, Helper
      <4> QED BY <2>2, <3>2, <4>1, <4>2 DEF Displace, diskVars
    <3>3. CASE Look(h)
      <4>1. helper[h].pc = "look" /\ ~helper[h].held
        BY <3>1, <3>3, ExitInv DEF Look, TypeOK, Helper
      <4> QED BY <4>1 DEF LoneInv
    <3> QED BY <3>1, <3>2, <3>3, CallOrder
  <2> QED BY <2>1, <2>2
<1>6. ASSUME Guarded'
      PROVE  AsideInv'
  <2>0. AsideInv
    BY <1>3, <1>6 DEF LoneInv
  <2>1. ASSUME NEW g \in Helpers, Projection(side[g])'
        PROVE  Orphan(g)' \/ HasBaseAside(g)'
    <3>1. CASE g = h /\ server.child = h
      BY <2>0, <2>1, <3>1, ChildAside
    <3>2. CASE g = h /\ server.child # h
      BY <1>0, <3>2 DEF Orphan
    <3>3. CASE g # h
      <4>1. side'[g] = side[g] /\ bytes'[side'[g]] = bytes[side[g]]
        BY <2>1, <3>3, AsideStep DEF Projection
      <4>2. Orphan(g) \/ HasBaseAside(g)
        BY <2>0, <2>1, <4>1 DEF AsideInv, Projection
      <4> QED BY <1>0, <1>1, <3>3, <4>1, <4>2 DEF HasBaseAside
    <3> QED BY <3>1, <3>2, <3>3
  <2>2. ASSUME NEW g \in Helpers, server'.child = g, helper'[g].pc = "displace", Projection(canon)'
        PROVE  bytes'[canon'] = helper'[g].base
    BY <1>6, <2>0, <2>2, ChildTarget
  <2> QED BY <2>1, <2>2 DEF AsideInv
<1>7. \A k \in Helpers : helper'[k].pc = "look" => helper'[k].held
  BY <1>0, CallOrder DEF LoneInv
<1> QED BY <1>4, <1>5, <1>6, <1>7 DEF LoneInv

\* A failure while a child is waited for: the first one, so no orphan was about.
LEMMA FirstFault ==
  ASSUME TypeOK, TypeOK', MaxFaults <= 1, LoneInv, faults < MaxFaults, faults' = faults + 1
  PROVE  faults = 0 /\ faults' = 1 /\ \A k \in Helpers : ~Orphan(k)
<1>1. faults = 0
  BY BoundsAssumption DEF TypeOK
<1> QED BY <1>1 DEF LoneInv

\* A refused link leaves nobody to install.
LEMMA RefusedLone ==
  ASSUME TypeOK, TypeOK', MaxFaults <= 1, LoneInv, \A k \in Helpers : HelperInv(k),
         NEW h \in Helpers, RefusedStep(h)
  PROVE  LoneInv'
<1>0. /\ server' = server
      /\ \A k \in Helpers \ {h} : helper'[k] = helper[k]
      /\ helper[h].pc = "install" /\ helper'[h].pc \notin {"idle", "remove", "install"}
  <2>1. helper[h].pc = "install"
    BY DEF RefusedStep, InstallRefused
  <2>2. ~Displace(h) /\ ~Look(h)
    BY <2>1 DEF Displace, Look
  <2> QED BY <2>1, <2>2, HelperStepDisk, CallOrder
<1>1. faults = 0 /\ faults' = 1 /\ \A k \in Helpers : ~Orphan(k)
  BY FirstFault DEF RefusedStep, InstallRefused
<1>2. \A k \in Helpers : ~Orphan(k)'
  BY <1>0, <1>1 DEF Orphan
<1>3. server.child \in Helpers \cup {None}
  BY OrderTypes
<1>4. \A k \in Helpers \ {h} : side[k] = None => side'[k] = None
  BY AsideStep
<1>5. \A k \in Helpers : helper'[k].pc = "look" => helper'[k].held
  BY <1>0, CallOrder DEF LoneInv
<1>6. \A k \in Helpers :
        helper'[k].pc = "remove" \/ (helper'[k].pc = "install" /\ ~helper'[k].held)
          => side'[k] = None
  BY <1>0, <1>4 DEF LoneInv
<1>7. ~Guarded'
  BY <1>1, <1>2 DEF Guarded
<1> QED BY <1>0, <1>1, <1>2, <1>3, <1>5, <1>6, <1>7 DEF LoneInv

\* A new child has nothing aside; an orphan is what the first fault makes.
LEMMA ServerStepLone ==
  ASSUME TypeOK, TypeOK', MaxFaults <= 1, LoneInv, ServerStep
  PROVE  LoneInv'
<1>0. /\ helper \in [Helpers -> Helper] /\ server \in Server
      /\ side' = side /\ bytes' = bytes /\ canon' = canon
      /\ \A i : Projection(i)' <=> Projection(i)
      /\ server.child \in Helpers \cup {None} /\ None \notin Helpers
  BY OrderTypes
     DEF TypeOK, ServerStep, Begin, Close, Killed, ServerDies, Save, Delete, Absorb, diskVars,
         Projection
<1>1. ASSUME NEW h \in Helpers, Begin(h)
      PROVE  LoneInv'
  <2>1. PICK pc \in {"remove", "input"} : helper' = [helper EXCEPT ![h] =
          [Idle EXCEPT !.pc = pc, !.content = server.want, !.base = server.base]]
    BY <1>1 DEF Begin
  <2>2. /\ server.child = None /\ server'.child = h /\ faults' = faults
        /\ helper[h].pc = "idle" /\ side[h] = None
        /\ \A k \in Helpers \ {h} : helper'[k] = helper[k]
    BY <1>0, <1>1, <2>1 DEF Begin, Unused, Server
  <2>3. helper'[h].pc = pc
    BY <1>0, <2>1 DEF Idle
  <2>4. /\ \A k \in Helpers : Orphan(k)' <=> Orphan(k)
        /\ ~Orphan(h)
    BY <1>0, <2>2 DEF Orphan
  <2>5. ASSUME Guarded'
        PROVE  AsideInv'
    <3>1. AsideInv
      BY <2>2, <2>4, <2>5 DEF Guarded, LoneInv, MayInstall
    <3>2. \A g \in Helpers : ~HasBaseAside(g)
      BY <1>0, <2>2 DEF HasBaseAside
    <3> QED BY <1>0, <2>2, <2>3, <2>4, <3>1, <3>2 DEF AsideInv
  <2> QED BY <1>0, <2>2, <2>3, <2>4, <2>5 DEF LoneInv
<1>2. ASSUME NEW h \in Helpers, Close(h)
      PROVE  LoneInv'
  <2>1. /\ helper[h].pc = "exit" /\ faults' = faults
        /\ helper'[h].pc = "idle" /\ \A k \in Helpers \ {h} : helper'[k] = helper[k]
        /\ server.child # h => server' = server
        /\ server.child = h => server'.child = None
    BY <1>0, <1>2 DEF Close, Answered, Idle, Server
  <2>2. \A k \in Helpers : Orphan(k)' => k # h /\ Orphan(k)
    BY <1>0, <2>1 DEF Orphan
  <2>3. \A k \in Helpers \ {h} : Orphan(k) => Orphan(k)'
    BY <1>0, <2>1 DEF Orphan
  <2>4. ASSUME Guarded'
        PROVE  AsideInv'
    <3>1. Guarded /\ ~Orphan(h)
      BY <2>1, <2>2, <2>4 DEF Guarded, LoneInv, MayInstall
    <3>2. ~HasBaseAside(h)
      BY <2>1 DEF HasBaseAside
    <3>3. \A k \in Helpers \ {h} : HasBaseAside(k) => HasBaseAside(k)'
      BY <1>0, <2>1 DEF HasBaseAside
    <3>4. ASSUME NEW g \in Helpers, server'.child = g
          PROVE  server.child = g /\ helper'[g] = helper[g]
      BY <1>0, <2>1, <3>4
    <3> QED BY <1>0, <2>3, <3>1, <3>2, <3>3, <3>4 DEF AsideInv, LoneInv
  <2> QED BY <1>0, <2>1, <2>2, <2>4 DEF LoneInv
<1>3. ASSUME NEW h \in Helpers, Killed(h)
      PROVE  LoneInv'
  <2>1. faults = 0 /\ faults' = 1 /\ \A k \in Helpers : ~Orphan(k)
    BY <1>3, FirstFault DEF Killed
  <2>2. /\ server.child = h /\ server'.child = None
        /\ helper'[h].pc = "idle" /\ \A k \in Helpers \ {h} : helper'[k] = helper[k]
    BY <1>0, <1>3 DEF Killed, Idle, Server
  <2>3. \A k \in Helpers : ~Orphan(k)'
    BY <2>1, <2>2 DEF Orphan
  <2>4. ~Guarded'
    BY <2>1, <2>3 DEF Guarded
  <2> QED BY <1>0, <2>1, <2>2, <2>3, <2>4 DEF LoneInv
<1>4. CASE ServerDies
  <2>1. faults = 0 /\ faults' = 1 /\ (\A k \in Helpers : ~Orphan(k)) /\ AsideInv
    BY <1>4, FirstFault DEF ServerDies, LoneInv, Guarded
  <2>2. /\ server.child # None /\ server'.child = None
        /\ \A k \in Helpers :
             \/ helper'[k] = helper[k]
             \/ helper[k].pc = "input" /\ helper'[k].pc = "list"
    <3>1. /\ server.child # None /\ server' = [server EXCEPT !.child = None]
          /\ \A k \in Helpers :
               \/ helper'[k] = helper[k]
               \/ /\ helper[k].pc = "input"
                  /\ helper'[k] = [helper[k] EXCEPT !.content = Torn, !.pc = "list"]
      BY <1>4 DEF ServerDies
    <3>2. server'.child = None
      BY <1>0, <3>1 DEF Server
    <3>3. ASSUME NEW k \in Helpers,
                 helper'[k] = [helper[k] EXCEPT !.content = Torn, !.pc = "list"]
          PROVE  helper'[k].pc = "list"
      BY <1>0, <3>3 DEF Helper
    <3> QED BY <3>1, <3>2, <3>3
  <2>3. \A k \in Helpers : helper[k].pc # "idle" <=> k = server.child
    BY <1>0, <2>1, <2>2 DEF Orphan, LoneInv
  <2>4. \A k \in Helpers : Orphan(k)' <=> k = server.child
    BY <1>0, <2>2, <2>3 DEF Orphan
  <2>5. AsideInv'
    BY <1>0, <2>1, <2>2, <2>4 DEF AsideInv, HasBaseAside
  <2> QED BY <1>0, <2>1, <2>2, <2>4, <2>5 DEF LoneInv
<1>5. CASE Save \/ Delete \/ Absorb
  <2>1. helper' = helper /\ faults' = faults /\ server'.child = server.child
    BY <1>0, <1>5 DEF Save, Delete, Absorb, Server
  <2> QED BY <1>0, <2>1
          DEF LoneInv, Guarded, AsideInv, Orphan, MayInstall, HasBaseAside
<1> QED BY <1>1, <1>2, <1>3, <1>4, <1>5 DEF ServerStep

\* An editor makes no projection.
LEMMA EditorLone ==
  ASSUME TypeOK, TypeOK', LoneInv, Editor
  PROVE  LoneInv'
<1>0. /\ helper' = helper /\ side' = side /\ server' = server /\ faults' = faults
  BY DEF Editor, EditorOpens, EditorWrites, EditorCloses, EditorReplaces, EditorRemoves, diskVars
<1>1. canon' = canon \/ ~Projection(canon)'
  BY DEF TypeOK, Editor, EditorOpens, EditorWrites, EditorCloses, EditorReplaces, EditorRemoves,
     diskVars, Stored, Projection, Edit, Linked
<1>2. ASSUME NEW i \in Inodes, i \in Linked', Projection(i)'
      PROVE  bytes'[i] = bytes[i]
  <2>1. bytes'[i] \in {bytes[i], None, Edit(edits + 1)}
    BY DEF TypeOK, Editor, EditorOpens, EditorWrites, EditorCloses, EditorReplaces,
       EditorRemoves, diskVars, Stored
  <2>2. bytes'[i] # None
    BY <1>2 DEF TypeOK
  <2> QED BY <1>2, <2>1, <2>2 DEF Projection, Edit
<1>3. ASSUME Guarded'
      PROVE  AsideInv'
  <2>1. AsideInv
    BY <1>0, <1>3 DEF Guarded, LoneInv, Orphan, MayInstall
  <2>2. ASSUME NEW g \in Helpers, Projection(side[g])'
        PROVE  Orphan(g)' \/ HasBaseAside(g)'
    <3>1. side'[g] = side[g] /\ side[g] \in Inodes /\ side'[g] \in Linked'
      BY <1>0, <2>2 DEF TypeOK, Linked, Projection
    <3>2. bytes'[side'[g]] = bytes[side[g]]
      BY <1>2, <2>2, <3>1
    <3>3. Orphan(g) \/ HasBaseAside(g)
      BY <2>1, <2>2, <3>1, <3>2 DEF AsideInv, Projection
    <3> QED BY <1>0, <3>2, <3>3 DEF Orphan, HasBaseAside
  <2>3. ASSUME NEW g \in Helpers, server'.child = g, helper'[g].pc = "displace",
               Projection(canon)'
        PROVE  bytes'[canon'] = helper'[g].base
    <3>1. canon' = canon /\ canon \in Inodes /\ canon' \in Linked'
      BY <1>1, <2>3 DEF TypeOK, Linked, Projection
    <3>2. bytes'[canon'] = bytes[canon]
      BY <1>2, <2>3, <3>1
    <3> QED BY <1>0, <2>1, <2>3, <3>1, <3>2 DEF AsideInv, Projection
  <2> QED BY <2>2, <2>3 DEF AsideInv
<1> QED BY <1>0, <1>3 DEF LoneInv, Orphan

\* One failure leaves one orphan behind, and that one does not bring an older
\* projection back: SettledStays, for any helpers, saves and edits.
THEOREM OneOrphanIsHarmless ==
  ASSUME MaxFaults <= 1
  PROVE  Spec => SettledStays
<1>1. Init => LoneInv
  <2>1. ASSUME Init
        PROVE  /\ server.child = None
               /\ \A h \in Helpers : helper[h].pc = "idle" /\ side[h] = None
    BY <2>1 DEF Init, Idle
  <2> QED BY <2>1 DEF LoneInv, Orphan, AsideInv, Projection
<1>2. AgeInv /\ AgeInv' /\ LoneInv /\ [Next]_vars => LoneInv'
  <2> SUFFICES ASSUME AgeInv, AgeInv', LoneInv, [Next]_vars
               PROVE  LoneInv'
    OBVIOUS
  <2>1. TypeOK /\ TypeOK' /\ \A k \in Helpers : HelperInv(k)
    BY DEF AgeInv, IInv
  <2>2. ASSUME NEW h \in Helpers, HelperStep(h) \/ RefusedStep(h)
        PROVE  LoneInv'
    BY <2>1, <2>2, HelperStepLone, RefusedLone
  <2>3. CASE ServerStep
    BY <2>1, <2>3, ServerStepLone
  <2>4. CASE Editor
    BY <2>1, <2>4, EditorLone
  <2>5. CASE UNCHANGED vars
    BY <2>5 DEF vars, LoneInv, Guarded, AsideInv, Orphan, MayInstall, HasBaseAside, Projection
  <2> QED BY <2>2, <2>3, <2>4, <2>5 DEF Next, ServerStep
<1>3. AgeInv /\ LoneInv /\ [Next]_vars =>
        [\A h \in Helpers :
           Install(h) /\ canon' # canon /\ helper[h].content.by = "app"
           /\ ~server.pending /\ server.base \in Shelf /\ server.base.by = "app"
             => helper[h].content.n >= server.base.n]_vars
  <2> SUFFICES ASSUME AgeInv, LoneInv, NEW h \in Helpers, Install(h), canon' # canon,
                      helper[h].content.by = "app", ~server.pending,
                      server.base \in Shelf, server.base.by = "app",
                      ~(helper[h].content.n >= server.base.n)
               PROVE  FALSE
    OBVIOUS
  <2>1. TypeOK /\ HelperInv(h) /\ helper[h].pc = "install" /\ server.child = None
    BY DEF AgeInv, IInv, OrderInv, Install
  <2>2. Orphan(h) /\ MayInstall(h)
    BY <2>1, NoneAssumption DEF Orphan, MayInstall
  <2>3. AsideInv
    BY <2>2 DEF Guarded, LoneInv
  <2>4. helper[h].content \in Content /\ server.base \in Content
    <3>1. helper[h].content # None
      BY <2>1 DEF HelperInv
    <3>2. server.base # None
      BY <2>1, OnShelf, NoneAssumption DEF TypeOK, Linked
    <3> QED BY <2>1, <3>1, <3>2, OrderTypes
  <2>5. server.base.n > helper[h].content.n
    BY <2>1, <2>4, OrderTypes
  <2>6. PICK g \in Helpers \ {h} : BytesOf(side[g]) = server.base
    BY <2>5, NewerIsAside
  <2>7. Projection(side[g])
    BY <2>4, <2>6, NoneAssumption DEF BytesOf, Projection
  <2>8. Orphan(g) \/ HasBaseAside(g)
    BY <2>3, <2>7 DEF AsideInv
  <2> QED BY <2>1, <2>2, <2>8, NoneAssumption DEF LoneInv, HasBaseAside
<1> QED BY <1>1, <1>2, <1>3, OrderAlways, PTL DEF Spec, SettledStays
=============================================================================
