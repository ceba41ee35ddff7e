------------------------ MODULE ManuscriptDraftProofs ------------------------
(***************************************************************************)
(* Proofs about ManuscriptDraft, for any editors and bounds.               *)
(***************************************************************************)
EXTENDS ManuscriptDraft, TLAPS

\* An editor holds only texts written so far.
Holds(e) == e.pending <= texts /\ (e.request # None => e.request.content <= texts)

\* Only texts written so far are anywhere, so a new one is nobody's yet.
TextsKnown ==
  /\ texts <= MaxTexts
  /\ \A v \in 1 .. Len(written) : written[v] <= texts
  /\ draft # None => draft <= texts
  /\ store # None => store.text <= texts
  /\ \A i \in Editors : Holds(editor[i])

\* Only a listed chapter is open.
OpenIsListed == \A i \in Editors : editor[i].pc # "closed" => shown # 0

\* What a running save holds of its editor and of the chapter.
RequestInv(e) ==
  /\ e.request.version \in 1 .. Len(written)
  /\ e.request.revision <= e.revision
  /\ e.request.revision = e.revision => e.pending = e.request.content
  /\ In(e.request.content, e.pending)
  /\ e.request.answer = "ok" =>
       e.request.saved \in 1 .. Len(written) /\ written[e.request.saved] = e.request.content

EditorInv(e) ==
  /\ e.version \in 1 .. Len(written)
  /\ e.pc \in {"leaving", "detached"} => e.request # None
  /\ e.dirty => draft = e.pending
  /\ ~e.dirty => draft = None /\ e.request = None /\ e.pending = written[e.version]
  /\ e.request # None => RequestInv(e)

\* No text is in two editors, and unsaved text is in the shell as well.
SessionInv ==
  /\ shown = 0 => draft = None
  /\ \A i, j \in Editors : editor[i].pc # "closed" /\ editor[j].pc # "closed" => i = j
  /\ \A i \in Editors : IF editor[i].pc = "closed" THEN editor[i] = Closed
                        ELSE EditorInv(editor[i])

\* What an editor is based on is in its text, and so in what it saves.
BasedOn(e) ==
  /\ In(written[e.version], e.pending)
  /\ e.request # None => In(written[e.request.version], e.request.content)

BaseInv == \A i \in Editors : editor[i].pc # "closed" => BasedOn(editor[i])

IInv ==
  /\ TypeOK
  /\ TextsKnown
  /\ OpenIsListed
  /\ ~crowded => SessionInv
  /\ ~crowded /\ ~rebound => BaseInv

-----------------------------------------------------------------------------
(* Types.                                                                  *)

\* A closed editor is an editor.
LEMMA ClosedType == Closed \in Editor
BY DEF Closed, Editor, Text, Version

\* The fields of an editor have their types.
LEMMA EditorParts ==
  ASSUME NEW e \in Editor
  PROVE  /\ e.pending \in Nat /\ e.version \in Nat /\ e.revision \in Nat
         /\ e.dirty \in BOOLEAN
         /\ e.request # None =>
              /\ e.request \in Request
              /\ e.request.content \in Nat /\ e.request.version \in Nat
              /\ e.request.revision \in Nat /\ e.request.saved \in Nat
BY DEF Editor, Request, Text, Version

\* A buffer that takes a text is an editor, and so is one without its request.
LEMMA ChangedType ==
  ASSUME NEW e \in Editor, NEW t \in Nat
  PROVE  /\ Changed(e, t) \in Editor
         /\ [e EXCEPT !.pending = t, !.dirty = TRUE] \in Editor
         /\ \A v \in Nat : [e EXCEPT !.version = v, !.pending = t] \in Editor
<1>1. e.revision + 1 \in Nat
  BY EditorParts
<1> QED BY <1>1 DEF Changed, Editor, Text, Version

\* Starting a request keeps the type.
LEMMA SentType ==
  ASSUME NEW e \in Editor
  PROVE  Sent(e) \in Editor
<1> DEFINE r == [content |-> e.pending, version |-> e.version,
                 revision |-> e.revision, answer |-> "awaited", saved |-> 0]
<1>1. r \in Request
  BY EditorParts DEF Request, Text, Version
<1> HIDE DEF r
<1>2. [e EXCEPT !.timer = FALSE, !.status = "saving", !.request = r] \in Editor
  BY <1>1 DEF Editor
<1> QED BY <1>2 DEF Sent, r

\* So do a flush, the end of a loop and the end of a view.
LEMMA EndedType ==
  ASSUME NEW e \in Editor
  PROVE  Flushed(e) \in Editor /\ Done(e) \in Editor /\ Gone(e) \in Editor
<1>1. [e EXCEPT !.timer = FALSE] \in Editor /\ [e EXCEPT !.request = None] \in Editor
  BY DEF Editor
<1>2. [e EXCEPT !.pc = "detached", !.timer = FALSE] \in Editor
  BY DEF Editor
<1> QED BY <1>1, <1>2, SentType, ClosedType DEF Flushed, Done, Gone

\* A seeded editor is an editor.
LEMMA SeededType ==
  ASSUME TypeOK, shown # 0, NEW e \in Editor
  PROVE  Seeded(e) \in Editor
<1> DEFINE p == IF draft = None THEN written[shown] ELSE draft
           q == IF draft = None THEN "clean" ELSE "failed"
<1>1. p \in Nat /\ q \in {"clean", "failed"} /\ shown \in Nat
  BY DEF TypeOK, Text, Version
<1>2. (draft # None) \in BOOLEAN
  OBVIOUS
<1> HIDE DEF p, q
<1>3. [e EXCEPT !.pc = "open", !.pending = p, !.version = shown,
                !.dirty = draft # None, !.status = q] \in Editor
  BY <1>1, <1>2 DEF Editor, Text, Version
<1> QED BY <1>3 DEF Seeded, p, q

\* A clean editor that takes a version is an editor.
LEMMA RefreshedType ==
  ASSUME TypeOK, NEW e \in Editor, NEW v \in 1 .. Len(written)
  PROVE  Refreshed(e, v) \in Editor
<1>1. v \in Nat /\ written[v] \in Nat
  BY DEF TypeOK, Text
<1> QED BY <1>1, ChangedType DEF Refreshed

\* An answered request is a request, and what it moves on is an editor.
LEMMA AnswerType ==
  ASSUME NEW e \in Editor, e.request # None, NEW n \in Nat
  PROVE  /\ [e EXCEPT !.request.answer = "ok", !.request.saved = n] \in Editor
         /\ [e EXCEPT !.request.answer = "refused"] \in Editor
         /\ [e EXCEPT !.version = n] \in Editor
         /\ [e EXCEPT !.version = n, !.dirty = FALSE, !.status = "clean"] \in Editor
         /\ [e EXCEPT !.status = "failed"] \in Editor
<1>1. e.request \in Request
  BY EditorParts
<1>2. /\ [e.request EXCEPT !.answer = "ok", !.saved = n] \in Request
      /\ [e.request EXCEPT !.answer = "refused"] \in Request
  BY <1>1 DEF Request, Version
<1>3. \A r \in Request : [e EXCEPT !.request = r] \in Editor
  BY DEF Editor
<1>4. /\ [e EXCEPT !.request.answer = "ok", !.request.saved = n]
           = [e EXCEPT !.request = [e.request EXCEPT !.answer = "ok", !.saved = n]]
      /\ [e EXCEPT !.request.answer = "refused"]
           = [e EXCEPT !.request = [e.request EXCEPT !.answer = "refused"]]
  BY <1>1 DEF Editor, Request
<1>5. /\ [e EXCEPT !.version = n] \in Editor
      /\ [e EXCEPT !.version = n, !.dirty = FALSE, !.status = "clean"] \in Editor
      /\ [e EXCEPT !.status = "failed"] \in Editor
  BY DEF Editor, Version
<1> QED BY <1>2, <1>3, <1>4, <1>5

\* The versions after another one is written.
LEMMA Appended ==
  ASSUME TypeOK, NEW x \in Nat, written' = Append(written, x)
  PROVE  /\ written' \in Seq(Text) /\ written' # <<>>
         /\ Len(written') = Current + 1 /\ Current \in Nat \ {0}
         /\ \A v \in 1 .. Current : written'[v] = written[v]
         /\ written'[Current + 1] = x
BY DEF TypeOK, Text, Current

\* A new text keeps the types of the texts.
LEMMA WritesType ==
  ASSUME TypeOK, NEW base \in 0 .. MaxTexts, Writes(base)
  PROVE  /\ texts' \in Nat /\ texts' = New /\ New \in Nat /\ New = texts + 1
         /\ texts < MaxTexts
         /\ seen' \in [0 .. MaxTexts -> SUBSET Text]
         /\ seen'[New] = seen[base] \cup {base}
         /\ \A u \in 0 .. MaxTexts : u # New => seen'[u] = seen[u]
<1>1. New \in 0 .. MaxTexts /\ New \in Nat /\ base \in Nat
  BY BoundsAssumption DEF TypeOK, Writes, New, Text
<1>2. seen[base] \cup {base} \in SUBSET Text
  BY <1>1 DEF TypeOK, Text
<1> QED BY <1>1, <1>2 DEF TypeOK, Writes, New

\* The types hold in the initial states.
LEMMA TypeInit == Init => TypeOK
<1> SUFFICES ASSUME Init PROVE TypeOK
  OBVIOUS
<1>1. written \in Seq(Text) /\ written # <<>> /\ Len(written) = 1
  BY DEF Init, Text
<1>4. reads \subseteq 1 .. Len(written) /\ shown \in Version /\ shown <= Len(written)
  BY <1>1 DEF Init, Version
<1>2. editor \in [Editors -> Editor]
  BY ClosedType DEF Init
<1>3. seen \in [0 .. MaxTexts -> SUBSET Text]
  BY DEF Init, Text
<1> QED BY <1>1, <1>2, <1>3, <1>4 DEF Init, TypeOK, Text

\* A step of an editor that writes no text and no version keeps the types.
LEMMA EditorStepType ==
  ASSUME TypeOK, editor' \in [Editors -> Editor],
         UNCHANGED <<chapterVars, shown, reads, sessionVars>>,
         draft' \in {draft, None}, reported' \in {reported, None}, store' = store,
         rebound' \in BOOLEAN, crowded' \in BOOLEAN
  PROVE  TypeOK'
BY DEF TypeOK, chapterVars, sessionVars

\* A report of an editor keeps the types.
LEMMA ReportsType ==
  ASSUME TypeOK, NEW i \in Editors, Writes(editor[i].pending), Reports(i),
         editor[i].pending \in 0 .. MaxTexts, editor' \in [Editors -> Editor]
  PROVE  TypeOK'
<1>1. texts' \in Nat /\ New \in Nat /\ seen' \in [0 .. MaxTexts -> SUBSET Text]
  BY WritesType
<1>2. editor[i].version \in Nat
  BY EditorParts DEF TypeOK
<1> QED BY <1>1, <1>2 DEF TypeOK, Reports, flags, Text, Version

\* A text in the chapter or in an editor is one written so far.
LEMMA BasesKnown ==
  ASSUME TypeOK, TextsKnown
  PROVE  /\ Stored \in 0 .. MaxTexts
         /\ \A i \in Editors : editor[i].pending \in 0 .. MaxTexts
<1>1. Current \in 1 .. Len(written) /\ written[Current] \in Nat
  BY DEF TypeOK, Current, Text
<1>2. \A i \in Editors : editor[i].pending \in Nat
  BY EditorParts DEF TypeOK
<1>3. texts \in Nat
  BY DEF TypeOK, Text
<1> QED BY <1>1, <1>2, <1>3, BoundsAssumption DEF TextsKnown, Holds, Stored

\* A version that was there still is when another one is written.
LEMMA VersionsGrow ==
  ASSUME TypeOK, Len(written') \in Nat, Len(written') >= Len(written),
         shown' = shown, reads' = reads
  PROVE  /\ shown' \in Version /\ shown' <= Len(written')
         /\ reads' \subseteq 1 .. Len(written')
<1>1. shown \in Nat /\ shown <= Len(written) /\ Len(written) \in Nat
  BY DEF TypeOK, Version
<1>2. 1 .. Len(written) \subseteq 1 .. Len(written')
  BY <1>1
<1> QED BY <1>1, <1>2 DEF TypeOK, Version

\* Every step keeps the types.
LEMMA TypeNext == TypeOK /\ TextsKnown /\ OpenIsListed /\ [Next]_vars => TypeOK'
<1> SUFFICES ASSUME TypeOK, TextsKnown, OpenIsListed, [Next]_vars PROVE TypeOK'
  OBVIOUS
<1> USE DEF Mounted, Busy
<1>0. \A i \in Editors : editor[i] \in Editor
  BY DEF TypeOK
<1>1. CASE Fetch
  <2>1. Current \in 1 .. Len(written)
    BY DEF TypeOK, Current
  <2> QED BY <1>1, <2>1 DEF Fetch, TypeOK, chapterVars, sessionVars, flags
<1>2. ASSUME NEW v \in reads, FetchArrives(v) PROVE TypeOK'
  <2>1. v \in 1 .. Len(written) /\ v \in Nat
    BY DEF TypeOK
  <2>2. editor' \in [Editors -> Editor]
    <3>1. \A i \in Editors : Refreshed(editor[i], v) \in Editor
      BY <1>0, <2>1, RefreshedType
    <3> QED BY <1>2, <3>1 DEF FetchArrives, TypeOK
  <2>3. /\ draft' \in Text \cup {None} /\ recovered' \subseteq Text
        /\ store' \in Draft \cup {None}
    BY <1>2 DEF FetchArrives, Restore, Restorable, TypeOK, Draft
  <2> QED BY <1>2, <2>1, <2>2, <2>3 DEF FetchArrives, TypeOK, chapterVars, flags, Version
<1>3. ASSUME NEW i \in Editors, Open(i) \/ Stay(i) PROVE TypeOK'
  <2>0. shown # 0
    BY <1>3 DEF Open, Stay, OpenIsListed
  <2>1. Seeded(Closed) \in Editor /\ Seeded(editor[i]) \in Editor
    BY <1>0, <2>0, ClosedType, SeededType
  <2>2. editor' \in [Editors -> Editor] /\ rebound' \in BOOLEAN /\ crowded' \in BOOLEAN
    BY <1>3, <2>1 DEF Open, Stay, Rebinds, TypeOK
  <2> QED BY <1>3, <2>2, EditorStepType DEF Open, Stay, shellVars
<1>4. ASSUME NEW i \in Editors, Type(i) PROVE TypeOK'
  <2>1. editor[i].pending \in 0 .. MaxTexts
    BY BasesKnown
  <2>2. New \in Nat
    BY <1>4, <2>1, WritesType DEF Type
  <2>3. editor' \in [Editors -> Editor]
    BY <1>0, <1>4, <2>2, ChangedType DEF Type, TypeOK
  <2> QED BY <1>4, <2>1, <2>3, ReportsType DEF Type
<1>5. ASSUME NEW i \in Editors, ApplyThroughEditor(i) PROVE TypeOK'
  <2> DEFINE applied == [editor[i] EXCEPT !.pending = New, !.dirty = TRUE]
  <2>1. editor[i].pending \in 0 .. MaxTexts
    BY BasesKnown
  <2>2. New \in Nat
    BY <1>5, <2>1, WritesType DEF ApplyThroughEditor
  <2>3. applied \in Editor
    BY <1>0, <2>2, ChangedType
  <2>4. editor' = [editor EXCEPT ![i] = Changed(Flushed(applied), New)]
    BY <1>5 DEF ApplyThroughEditor
  <2> HIDE DEF applied
  <2>5. Changed(Flushed(applied), New) \in Editor
    BY <2>2, <2>3, EndedType, ChangedType
  <2>6. editor' \in [Editors -> Editor]
    BY <2>4, <2>5 DEF TypeOK
  <2> QED BY <1>5, <2>1, <2>6, ReportsType DEF ApplyThroughEditor
<1>6. ASSUME NEW i \in Editors, TimerFires(i) \/ SaveNow(i) \/ Leave(i) \/ Unmount(i)
      PROVE  TypeOK'
  <2>1. /\ Flushed(editor[i]) \in Editor /\ Sent(editor[i]) \in Editor
        /\ Gone(editor[i]) \in Editor
    BY <1>0, EndedType, SentType
  <2>2. [Flushed(editor[i]) EXCEPT !.pc = "leaving"] \in Editor
    BY <2>1 DEF Editor
  <2>3. editor' \in [Editors -> Editor]
    BY <1>6, <2>1, <2>2 DEF TimerFires, SaveNow, Leave, Unmount, TypeOK
  <2>4. rebound' \in BOOLEAN /\ crowded' \in BOOLEAN
    BY <1>6 DEF TimerFires, SaveNow, Leave, Unmount, TypeOK, flags
  <2> QED BY <1>6, <2>3, <2>4, EditorStepType
        DEF TimerFires, SaveNow, Leave, Unmount, shellVars
<1>7. ASSUME NEW i \in Editors, PatchSaves(i) PROVE TypeOK'
  <2>1. editor[i].request.content \in Nat
    BY <1>0, <1>7, EditorParts DEF PatchSaves
  <2>2. /\ written' \in Seq(Text) /\ written' # <<>>
        /\ Len(written') \in Nat /\ Len(written') >= Len(written)
    <3>1. CASE written' = written
      BY <3>1 DEF TypeOK
    <3>2. CASE written' = Append(written, editor[i].request.content)
      BY <2>1, <3>2, Appended DEF Current
    <3> QED BY <1>7, <3>1, <3>2 DEF PatchSaves
  <2>3. editor' \in [Editors -> Editor]
    <3>1. \/ editor' = [editor EXCEPT ![i] = [editor[i] EXCEPT
                          !.request.answer = "ok", !.request.saved = Len(written')]]
          \/ editor' = [editor EXCEPT ![i] = [editor[i] EXCEPT !.request.answer = "refused"]]
      BY <1>0, <1>7 DEF PatchSaves, TypeOK
    <3>2. editor[i].request # None
      BY <1>7 DEF PatchSaves
    <3>3. /\ [editor[i] EXCEPT !.request.answer = "ok",
                               !.request.saved = Len(written')] \in Editor
          /\ [editor[i] EXCEPT !.request.answer = "refused"] \in Editor
      BY <1>0, <2>2, <3>2, AnswerType
    <3> QED BY <3>1, <3>3 DEF TypeOK
  <2>4. shown' \in Version /\ shown' <= Len(written') /\ reads' \subseteq 1 .. Len(written')
    BY <1>7, <2>2, VersionsGrow DEF PatchSaves, shellVars
  <2> QED BY <1>7, <2>2, <2>3, <2>4 DEF PatchSaves, TypeOK, shellVars, sessionVars, flags
<1>8. ASSUME NEW i \in Editors, PatchRefused(i) \/ Failed(i) PROVE TypeOK'
  <2>0. editor[i].request # None
    BY <1>8 DEF PatchRefused, Failed
  <2>1. /\ [editor[i] EXCEPT !.request.answer = "refused"] \in Editor
        /\ Done([editor[i] EXCEPT !.status = "failed"]) \in Editor
    BY <1>0, <2>0, AnswerType, EndedType
  <2>2. \/ editor' = [editor EXCEPT ![i] = [editor[i] EXCEPT !.request.answer = "refused"]]
        \/ editor' = [editor EXCEPT ![i] = Done([editor[i] EXCEPT !.status = "failed"])]
    BY <1>0, <1>8 DEF PatchRefused, Failed, TypeOK
  <2>3. editor' \in [Editors -> Editor] /\ rebound' \in BOOLEAN /\ crowded' \in BOOLEAN
    BY <1>8, <2>1, <2>2 DEF TypeOK, PatchRefused, Failed, flags
  <2> QED BY <1>8, <2>3, EditorStepType DEF PatchRefused, Failed, shellVars
<1>9. ASSUME NEW i \in Editors, Answered(i) PROVE TypeOK'
  <2> DEFINE e == editor[i]
             advanced == [e EXCEPT !.version = e.request.saved]
             clean == [advanced EXCEPT !.dirty = FALSE, !.status = "clean"]
  <2>1. e.request # None /\ e.request.saved \in Nat /\ e \in Editor
    BY <1>0, <1>9, EditorParts DEF Answered
  <2>2. clean = [e EXCEPT !.version = e.request.saved, !.dirty = FALSE, !.status = "clean"]
    BY <2>1 DEF Editor
  <2>3. advanced \in Editor /\ clean \in Editor
    BY <2>1, <2>2, AnswerType
  <2>4. \/ editor' = [editor EXCEPT ![i] = Sent(advanced)]
        \/ editor' = [editor EXCEPT ![i] = Done(advanced)]
        \/ editor' = [editor EXCEPT ![i] = Done(clean)]
    BY <1>9 DEF Answered
  <2>5. draft' \in {draft, None} /\ reported' \in {reported, None}
    BY <1>9 DEF Answered
  <2> HIDE DEF advanced, clean
  <2>6. editor' \in [Editors -> Editor]
    BY <2>3, <2>4, SentType, EndedType DEF TypeOK
  <2>7. /\ UNCHANGED <<chapterVars, shown, reads, sessionVars>> /\ store' = store
        /\ rebound' \in BOOLEAN /\ crowded' \in BOOLEAN
    BY <1>9 DEF Answered, TypeOK, flags
  <2> QED BY <2>5, <2>6, <2>7, EditorStepType
<1>10. CASE Persist
  <2>1. store' \in Draft \cup {None}
    BY <1>10 DEF Persist, Payload, TypeOK, Draft
  <2> QED BY <1>10, <2>1 DEF Persist, TypeOK, chapterVars, sessionVars, flags
<1>11. CASE Crash \/ Quit
  <2>1. store' \in Draft \cup {None}
    BY <1>11 DEF Crash, Quit, Payload, TypeOK, Draft
  <2>2. editor' \in [Editors -> Editor]
    BY <1>11, ClosedType DEF Crash, Quit, PageEnds
  <2> QED BY <1>11, <2>1, <2>2 DEF Crash, Quit, PageEnds, TypeOK, chapterVars, flags,
        Version
<1>12. CASE OthersWrite
  <2>1. Stored \in 0 .. MaxTexts
    BY BasesKnown
  <2>2. New \in Nat /\ texts' \in Nat /\ seen' \in [0 .. MaxTexts -> SUBSET Text]
    BY <1>12, <2>1, WritesType DEF OthersWrite
  <2>3. /\ written' \in Seq(Text) /\ written' # <<>>
        /\ Len(written') >= Len(written) /\ Len(written') \in Nat
    BY <1>12, <2>2, Appended DEF OthersWrite, Current
  <2>4. shown' \in Version /\ shown' <= Len(written') /\ reads' \subseteq 1 .. Len(written')
    BY <1>12, <2>3, VersionsGrow DEF OthersWrite, shellVars
  <2> QED BY <1>12, <2>2, <2>3, <2>4
        DEF OthersWrite, TypeOK, shellVars, sessionVars, flags, Text
<1>13. CASE UNCHANGED vars
  BY <1>13 DEF TypeOK, vars
<1> QED BY <1>1, <1>2, <1>3, <1>4, <1>5, <1>6, <1>7, <1>8, <1>9, <1>10, <1>11, <1>12, <1>13
      DEF Next

-----------------------------------------------------------------------------
(* What is known and what is open.                                         *)

\* What an editor holds after a text was written into it.
LEMMA ChangedHolds ==
  ASSUME NEW e \in Editor, NEW t \in Nat, NEW n \in Nat, n <= t,
         e.pending <= n, e.request # None => e.request.content <= n
  PROVE  LET applied == [e EXCEPT !.pending = t, !.dirty = TRUE] IN
         \A c \in {Changed(e, t), Changed(Flushed(applied), t)} :
           c.pending <= t /\ (c.request # None => c.request.content <= t)
<1> DEFINE applied == [e EXCEPT !.pending = t, !.dirty = TRUE]
<1>1. e.request # None => e.request.content <= t /\ e.request.content \in Nat
  BY EditorParts
<1>2. applied \in Editor /\ applied.pending = t /\ applied.request = e.request
  BY ChangedType DEF Editor
<1> HIDE DEF applied
<1>3. Flushed(applied) \in Editor
  BY <1>2, EndedType
<1>4. \A k \in Editor : Changed(k, t).pending = t /\ Changed(k, t).request = k.request
  BY DEF Changed, Editor
<1>5. Flushed(applied).request = applied.request
        \/ (Flushed(applied).request # None => Flushed(applied).request.content = t)
  BY <1>2 DEF Flushed, Sent, Editor
<1> QED BY <1>1, <1>2, <1>3, <1>4, <1>5 DEF applied

\* An editor that takes a step without a new text holds no new one.
LEMMA StepHolds ==
  ASSUME NEW e \in Editor, Holds(e), NEW n \in Nat
  PROVE  /\ Holds(Sent(e)) /\ Holds(Flushed(e)) /\ Holds([Flushed(e) EXCEPT !.pc = "leaving"])
         /\ 0 <= texts => Holds(Gone(e)) /\ Holds(Done(e))
         /\ Holds([e EXCEPT !.version = n]) /\ Holds([e EXCEPT !.status = "failed"])
         /\ Holds([e EXCEPT !.version = n, !.dirty = FALSE, !.status = "clean"])
<1>1. Holds(Sent(e))
  BY DEF Holds, Sent, Editor
<1>2. Holds(Flushed(e)) /\ Holds([Flushed(e) EXCEPT !.pc = "leaving"])
  BY DEF Holds, Flushed, Sent, Editor
<1>3. 0 <= texts => Holds(Gone(e)) /\ Holds(Done(e))
  BY DEF Holds, Gone, Done, Closed, Editor
<1>4. /\ Holds([e EXCEPT !.version = n]) /\ Holds([e EXCEPT !.status = "failed"])
      /\ Holds([e EXCEPT !.version = n, !.dirty = FALSE, !.status = "clean"])
  BY DEF Holds, Editor
<1> QED BY <1>1, <1>2, <1>3, <1>4

\* Editors hold no new texts after a step of one of them.
LEMMA EditorStepHolds ==
  ASSUME TypeOK, TextsKnown, NEW i \in Editors, NEW e,
         e.pending <= texts, e.request # None => e.request.content <= texts,
         editor' = [editor EXCEPT ![i] = e],
         UNCHANGED <<written, texts, store>>, draft' \in {draft, None}
  PROVE  TextsKnown'
BY DEF TypeOK, TextsKnown, Holds

\* A report leaves no text unknown.
LEMMA ReportsKnown ==
  ASSUME TypeOK, TextsKnown, NEW i \in Editors, NEW e,
         Writes(editor[i].pending), Reports(i),
         e.pending <= New, e.request # None => e.request.content <= New,
         editor' = [editor EXCEPT ![i] = e]
  PROVE  TextsKnown'
<1>1. editor[i].pending \in 0 .. MaxTexts
  BY BasesKnown
<1>2. texts' = New /\ texts \in Nat /\ New = texts + 1 /\ New <= MaxTexts
  BY <1>1, WritesType, BoundsAssumption DEF TypeOK, Text
<1>3. \A j \in Editors : j # i => Holds(editor[j]) /\ editor[j] \in Editor
  BY DEF TextsKnown, TypeOK
<1>4. \A j \in Editors : Holds(editor[j])'
  <2> SUFFICES ASSUME NEW j \in Editors PROVE Holds(editor[j])'
    OBVIOUS
  <2>1. CASE j = i
    BY <1>2, <2>1 DEF Holds, TypeOK
  <2>2. CASE j # i
    <3>1. editor'[j] = editor[j]
      BY <2>2 DEF TypeOK
    <3> QED BY <1>2, <1>3, <2>2, <3>1, EditorParts DEF Holds
  <2> QED BY <2>1, <2>2
<1>5. \A v \in 1 .. Len(written) : written[v] <= texts /\ written[v] \in Nat
  BY DEF TextsKnown, TypeOK, Text
<1>6. store # None => store.text <= texts /\ store.text \in Nat
  BY DEF TextsKnown, TypeOK, Draft, Text
<1> QED BY <1>2, <1>4, <1>5, <1>6 DEF TextsKnown, Reports

\* Only texts written so far are anywhere after a step.
LEMMA KnownNext ==
  TypeOK /\ TextsKnown /\ OpenIsListed /\ [Next]_vars => TextsKnown'
<1> SUFFICES ASSUME TypeOK, TextsKnown, OpenIsListed, [Next]_vars PROVE TextsKnown'
  OBVIOUS
<1> USE DEF Mounted, Busy
<1>0. /\ texts \in Nat
      /\ \A i \in Editors : editor[i] \in Editor /\ Holds(editor[i])
  BY DEF TypeOK, TextsKnown, Text
<1>1. CASE Fetch \/ Persist \/ UNCHANGED vars
  BY <1>1 DEF Fetch, Persist, Payload, TextsKnown, Holds, vars, chapterVars, sessionVars, flags
<1>2. ASSUME NEW v \in reads, FetchArrives(v) PROVE TextsKnown'
  <2>1. v \in 1 .. Len(written)
    BY DEF TypeOK
  <2>2. written[v] <= texts
    BY <2>1 DEF TextsKnown
  <2>3. \A i \in Editors :
          /\ Refreshed(editor[i], v).pending <= texts
          /\ Refreshed(editor[i], v).request = editor[i].request
    BY <1>0, <2>2 DEF Refreshed, Holds, Editor
  <2>4. /\ texts' = texts /\ written' = written
        /\ draft' # None => draft' <= texts
        /\ store' # None => store'.text <= texts
    BY <1>2 DEF FetchArrives, Restore, Restorable, TextsKnown, chapterVars
  <2>5. \A i \in Editors : Holds(editor[i])'
    BY <1>0, <1>2, <2>3, <2>4 DEF FetchArrives, Holds
  <2> QED BY <2>4, <2>5 DEF TextsKnown
<1>3. ASSUME NEW i \in Editors, Open(i) \/ Stay(i) PROVE TextsKnown'
  <2>1. shown \in 1 .. Len(written)
    BY <1>3 DEF Open, Stay, OpenIsListed, TypeOK, Version
  <2>2. /\ Seeded(Closed).pending <= texts /\ Seeded(editor[i]).pending <= texts
        /\ Seeded(Closed).request = None /\ Seeded(editor[i]).request = editor[i].request
    BY <1>0, <2>1, ClosedType DEF Seeded, TextsKnown, Editor, Closed
  <2>3. PICK e \in {Seeded(Closed), Seeded(editor[i])} : editor' = [editor EXCEPT ![i] = e]
    BY <1>3 DEF Open, Stay, TypeOK
  <2>5. e.pending <= texts /\ (e.request # None => e.request.content <= texts)
    BY <1>0, <2>2, <2>3 DEF Holds
  <2>4. UNCHANGED <<written, texts, store>> /\ draft' \in {draft, None}
    BY <1>3 DEF Open, Stay, chapterVars, shellVars
  <2> QED BY <2>3, <2>4, <2>5, EditorStepHolds
<1>4. ASSUME NEW i \in Editors, Type(i) \/ ApplyThroughEditor(i) PROVE TextsKnown'
  <2> DEFINE applied == [editor[i] EXCEPT !.pending = New, !.dirty = TRUE]
  <2>1. editor[i].pending \in 0 .. MaxTexts
    BY BasesKnown
  <2>2. New \in Nat /\ texts <= New
    BY <1>0, <1>4, <2>1, WritesType DEF Type, ApplyThroughEditor
  <2>3. \A c \in {Changed(editor[i], New), Changed(Flushed(applied), New)} :
          c.pending <= New /\ (c.request # None => c.request.content <= New)
    BY <1>0, <2>2, ChangedHolds DEF Holds
  <2>4. \/ editor' = [editor EXCEPT ![i] = Changed(editor[i], New)]
        \/ editor' = [editor EXCEPT ![i] = Changed(Flushed(applied), New)]
    BY <1>4 DEF Type, ApplyThroughEditor, TypeOK
  <2>5. Writes(editor[i].pending) /\ Reports(i)
    BY <1>4 DEF Type, ApplyThroughEditor
  <2> HIDE DEF applied
  <2> QED BY <2>3, <2>4, <2>5, ReportsKnown
<1>5. ASSUME NEW i \in Editors, TimerFires(i) \/ SaveNow(i) \/ Leave(i) \/ Unmount(i)
      PROVE  TextsKnown'
  <2>1. UNCHANGED <<written, texts, store, draft>>
    BY <1>5 DEF TimerFires, SaveNow, Leave, Unmount, chapterVars, shellVars
  <2>2. PICK e \in {Flushed(editor[i]), Sent(editor[i]), Gone(editor[i]),
                    [Flushed(editor[i]) EXCEPT !.pc = "leaving"]} :
          editor' = [editor EXCEPT ![i] = e]
    BY <1>5 DEF TimerFires, SaveNow, Leave, Unmount, TypeOK
  <2>3. Holds(e)
    <3>1. editor[i] \in Editor /\ Holds(editor[i]) /\ 0 \in Nat /\ 0 <= texts
      BY <1>0
    <3>2. /\ Holds(Flushed(editor[i])) /\ Holds(Sent(editor[i])) /\ Holds(Gone(editor[i]))
          /\ Holds([Flushed(editor[i]) EXCEPT !.pc = "leaving"])
      BY <3>1, StepHolds
    <3> QED BY <2>2, <3>2
  <2> QED BY <2>1, <2>2, <2>3, EditorStepHolds DEF Holds
<1>6. ASSUME NEW i \in Editors, PatchSaves(i) PROVE TextsKnown'
  <2>1. editor[i].request # None /\ editor[i].request.content \in Nat
    BY <1>0, <1>6, EditorParts DEF PatchSaves
  <2>2. /\ editor'[i].pending = editor[i].pending
        /\ editor'[i].request.content = editor[i].request.content
        /\ \A j \in Editors : j # i => editor'[j] = editor[j]
    BY <1>0, <1>6, <2>1 DEF PatchSaves, TypeOK, Editor, Request
  <2>3. \A j \in Editors : Holds(editor[j])'
    BY <1>0, <1>6, <2>1, <2>2 DEF PatchSaves, Holds
  <2>4. \A v \in 1 .. Len(written') : written'[v] <= texts
    <3>1. CASE written' = written
      BY <3>1 DEF TextsKnown
    <3>2. CASE written' = Append(written, editor[i].request.content)
      <4>1. editor[i].request.content <= texts
        BY <1>0, <2>1 DEF Holds
      <4>2. /\ Len(written') = Current + 1 /\ Current \in Nat
            /\ \A v \in 1 .. Current : written'[v] = written[v]
            /\ written'[Current + 1] = editor[i].request.content
        BY <2>1, <3>2, Appended
      <4> QED BY <4>1, <4>2 DEF TextsKnown, Current
    <3> QED BY <1>6, <3>1, <3>2 DEF PatchSaves
  <2> QED BY <1>6, <2>3, <2>4 DEF PatchSaves, TextsKnown, shellVars
<1>7. ASSUME NEW i \in Editors, PatchRefused(i) \/ Failed(i) PROVE TextsKnown'
  <2>1. UNCHANGED <<written, texts, store, draft>>
    BY <1>7 DEF PatchRefused, Failed, chapterVars, shellVars
  <2>2. PICK e \in {[editor[i] EXCEPT !.request.answer = "refused"],
                    Done([editor[i] EXCEPT !.status = "failed"])} :
          editor' = [editor EXCEPT ![i] = e]
    BY <1>7 DEF PatchRefused, Failed, TypeOK
  <2>3. editor[i].request \in Request
    BY <1>0, <1>7, EditorParts DEF PatchRefused, Failed
  <2>4. e.pending <= texts /\ (e.request # None => e.request.content <= texts)
    <3>1. CASE e = [editor[i] EXCEPT !.request.answer = "refused"]
      BY <1>0, <1>7, <2>3, <3>1 DEF Holds, Editor, Request, PatchRefused, Failed
    <3>2. CASE e = Done([editor[i] EXCEPT !.status = "failed"])
      <4>1. /\ [editor[i] EXCEPT !.status = "failed"] \in Editor /\ 0 \in Nat /\ 0 <= texts
            /\ Holds([editor[i] EXCEPT !.status = "failed"])
        BY <1>0 DEF Holds, Editor
      <4>2. Holds(Done([editor[i] EXCEPT !.status = "failed"]))
        BY <4>1, StepHolds
      <4> QED BY <3>2, <4>2 DEF Holds
    <3> QED BY <2>2, <3>1, <3>2
  <2> QED BY <2>1, <2>2, <2>4, EditorStepHolds
<1>8. ASSUME NEW i \in Editors, Answered(i) PROVE TextsKnown'
  <2> DEFINE advanced == [editor[i] EXCEPT !.version = editor[i].request.saved]
             clean == [advanced EXCEPT !.dirty = FALSE, !.status = "clean"]
  <2>1. UNCHANGED <<written, texts, store>> /\ draft' \in {draft, None}
    BY <1>8 DEF Answered, chapterVars
  <2>2. PICK e \in {Sent(advanced), Done(advanced), Done(clean)} :
          editor' = [editor EXCEPT ![i] = e]
    BY <1>8 DEF Answered
  <2>3. editor[i].request.saved \in Nat /\ editor[i].request # None
    BY <1>0, <1>8, EditorParts DEF Answered
  <2>4. advanced \in Editor /\ Holds(advanced)
    BY <1>0, <2>3, StepHolds, AnswerType
  <2>5. clean \in Editor /\ Holds(clean)
    BY <2>4 DEF Holds, Editor
  <2> HIDE DEF advanced, clean
  <2>6. Holds(e)
    <3>1. 0 \in Nat /\ 0 <= texts
      BY <1>0
    <3>2. Holds(Sent(advanced)) /\ Holds(Done(advanced)) /\ Holds(Done(clean))
      BY <2>4, <2>5, <3>1, StepHolds
    <3> QED BY <2>2, <3>2
  <2> QED BY <2>1, <2>2, <2>6, EditorStepHolds DEF Holds
<1>9. CASE Crash \/ Quit
  <2>1. written' = written /\ texts' = texts /\ draft' = None
    BY <1>9 DEF Crash, Quit, PageEnds, chapterVars
  <2>2. \A i \in Editors : Holds(editor[i])'
    BY <1>0, <1>9, <2>1 DEF Crash, Quit, PageEnds, Holds, Closed
  <2>3. store' # None => store'.text <= texts
    BY <1>9 DEF Crash, Quit, Payload, TextsKnown
  <2> QED BY <2>1, <2>2, <2>3 DEF TextsKnown
<1>10. CASE OthersWrite
  <2>1. Stored \in 0 .. MaxTexts
    BY BasesKnown
  <2>2. New = texts + 1 /\ texts' = New /\ New <= MaxTexts
    BY <1>0, <1>10, <2>1, WritesType, BoundsAssumption DEF OthersWrite
  <2>3. /\ Len(written') = Current + 1 /\ Current \in Nat
        /\ \A v \in 1 .. Current : written'[v] = written[v]
        /\ written'[Current + 1] = New
    BY <1>0, <1>10, <2>2, Appended DEF OthersWrite
  <2>4. \A v \in 1 .. Len(written') : written'[v] <= texts'
    <3>1. \A v \in 1 .. Current : written[v] <= texts /\ written[v] \in Nat
      BY DEF TextsKnown, TypeOK, Text, Current
    <3> QED BY <1>0, <2>2, <2>3, <3>1
  <2>5. /\ draft' = draft /\ store' = store /\ editor' = editor
        /\ draft # None => draft <= texts /\ draft \in Nat
        /\ store # None => store.text <= texts /\ store.text \in Nat
    BY <1>10 DEF OthersWrite, shellVars, TextsKnown, TypeOK, Text, Draft
  <2>6. \A i \in Editors : Holds(editor[i])'
    BY <1>0, <2>2, <2>5, EditorParts DEF Holds
  <2> QED BY <1>0, <2>2, <2>4, <2>5, <2>6 DEF TextsKnown
<1> QED BY <1>1, <1>2, <1>3, <1>4, <1>5, <1>6, <1>7, <1>8, <1>9, <1>10 DEF Next

\* Only a listed chapter is open after a step.
LEMMA ListedNext == TypeOK /\ OpenIsListed /\ [Next]_vars => OpenIsListed'
<1> SUFFICES ASSUME TypeOK, OpenIsListed, [Next]_vars,
                    NEW i \in Editors, shown' = 0
             PROVE  editor'[i].pc = "closed"
  BY DEF OpenIsListed
<1>1. CASE Crash \/ Quit
  BY <1>1 DEF Crash, Quit, PageEnds, Closed
<1>2. CASE \E v \in reads : FetchArrives(v)
  BY <1>2 DEF FetchArrives, TypeOK
<1>3. CASE editor' = editor /\ shown' = shown
  BY <1>3 DEF OpenIsListed
<1>4. ASSUME NEW j \in Editors, Open(j) \/ Type(j) \/ ApplyThroughEditor(j) \/ SaveNow(j)
                                \/ Leave(j) \/ Stay(j) \/ Unmount(j)
      PROVE  FALSE
  BY <1>4 DEF Open, Type, ApplyThroughEditor, SaveNow, Leave, Stay, Unmount, Mounted,
              Reports, OpenIsListed, shellVars
<1>5. ASSUME NEW j \in Editors, TimerFires(j) \/ PatchSaves(j) \/ PatchRefused(j)
                                \/ Answered(j) \/ Failed(j)
      PROVE  editor'[i].pc = "closed"
  <2>1. shown' = shown
    BY <1>5 DEF TimerFires, PatchSaves, PatchRefused, Answered, Failed, shellVars
  <2>2. editor[i].pc = "closed" /\ editor[i] \in Editor
    BY <2>1 DEF OpenIsListed, TypeOK
  <2>3. CASE i # j
    <3>1. editor'[i] = editor[i]
      BY <1>5, <2>3 DEF TimerFires, PatchSaves, PatchRefused, Answered, Failed, TypeOK
    <3> QED BY <2>2, <3>1
  <2>4. CASE i = j
    <3>1. CASE TimerFires(i)
      BY <2>2, <3>1 DEF TimerFires, Flushed, Sent, TypeOK, Editor
    <3>2. CASE PatchSaves(i) \/ PatchRefused(i)
      <4>1. editor[i].request \in Request
        BY <2>2, <3>2, EditorParts DEF PatchSaves, PatchRefused, Busy
      <4>2. \/ editor'[i] = [editor[i] EXCEPT
                               !.request.answer = "ok", !.request.saved = Len(written')]
            \/ editor'[i] = [editor[i] EXCEPT !.request.answer = "refused"]
        BY <3>2 DEF PatchSaves, PatchRefused, TypeOK
      <4> QED BY <2>2, <4>1, <4>2 DEF Editor, Request
    <3>3. CASE Failed(i)
      BY <2>2, <3>3 DEF Failed, Done, Closed, TypeOK, Editor
    <3>4. CASE Answered(i)
      <4> DEFINE advanced == [editor[i] EXCEPT !.version = editor[i].request.saved]
                 clean == [advanced EXCEPT !.dirty = FALSE, !.status = "clean"]
      <4>1. editor'[i] \in {Sent(advanced), Done(advanced), Done(clean)}
        BY <3>4 DEF Answered, TypeOK
      <4>2. advanced.pc = "closed" /\ clean.pc = "closed" /\ Sent(advanced).pc = "closed"
        BY <2>2 DEF Sent, Editor
      <4> HIDE DEF advanced, clean
      <4> QED BY <4>1, <4>2 DEF Done, Closed
    <3> QED BY <1>5, <2>4, <3>1, <3>2, <3>3, <3>4
  <2> QED BY <2>3, <2>4
<1>6. CASE Fetch \/ Persist \/ OthersWrite \/ UNCHANGED vars
  BY <1>3, <1>6 DEF Fetch, Persist, OthersWrite, vars, shellVars
<1> QED BY <1>1, <1>2, <1>4, <1>5, <1>6 DEF Next

-----------------------------------------------------------------------------
(* The session.                                                            *)

\* An editor that sends its unsaved text knows what it sent.
LEMMA SentInv ==
  ASSUME NEW e \in Editor, EditorInv(e), e.dirty
  PROVE  EditorInv(Sent(e)) /\ Sent(e).request # None
<1> DEFINE r == [content |-> e.pending, version |-> e.version,
                 revision |-> e.revision, answer |-> "awaited", saved |-> 0]
<1>1. r \in Request
  BY EditorParts DEF Request, Text, Version
<1>2. r # None
  BY <1>1, NoneAssumption
<1>3. /\ Sent(e).request = r /\ Sent(e).pending = e.pending /\ Sent(e).version = e.version
      /\ Sent(e).dirty = e.dirty /\ Sent(e).revision = e.revision /\ Sent(e).pc = e.pc
  BY DEF Sent, Editor
<1> QED BY <1>2, <1>3, EditorParts DEF EditorInv, RequestInv, In

\* So does one that flushes: it has a request if it has unsaved text.
LEMMA FlushedInv ==
  ASSUME NEW e \in Editor, EditorInv(e)
  PROVE  /\ EditorInv(Flushed(e)) /\ Flushed(e).pc = e.pc
         /\ e.dirty => Flushed(e).request # None
<1>1. CASE e.dirty /\ e.request = None
  BY <1>1, SentInv DEF Flushed, Sent, Editor
<1>2. CASE ~(e.dirty /\ e.request = None)
  <2>1. Flushed(e) = [e EXCEPT !.timer = FALSE]
    BY <1>2 DEF Flushed
  <2> QED BY <1>2, <2>1 DEF EditorInv, RequestInv, Editor
<1> QED BY <1>1, <1>2

\* A view that is left is closed, or it is the loop of its save.
LEMMA GoneInv ==
  ASSUME NEW e \in Editor, EditorInv(e)
  PROVE  Gone(e) = Closed \/ (Gone(e).pc # "closed" /\ EditorInv(Gone(e)))
<1>1. CASE e.request = None
  BY <1>1 DEF Gone
<1>2. CASE e.request # None
  <2>1. Gone(e) = [e EXCEPT !.pc = "detached", !.timer = FALSE]
    BY <1>2 DEF Gone
  <2> QED BY <1>2, <2>1 DEF EditorInv, RequestInv, Editor
<1> QED BY <1>1, <1>2

\* Where a save ends, only an open editor stays.
LEMMA DoneInv ==
  ASSUME NEW e \in Editor, EditorInv(e)
  PROVE  Done(e) = Closed \/ (Done(e).pc = "open" /\ EditorInv(Done(e)))
<1>1. CASE e.pc = "open"
  BY <1>1 DEF Done, EditorInv, Editor
<1>2. CASE e.pc # "open"
  BY <1>2 DEF Done
<1> QED BY <1>1, <1>2

\* An editor is seeded with the draft, or with the version shown.
LEMMA SeededInv ==
  ASSUME TypeOK, NEW e \in Editor, shown # 0,
         e.request # None => e.dirty /\ EditorInv(e)
  PROVE  Seeded(e).pc = "open" /\ EditorInv(Seeded(e))
<1>1. shown \in 1 .. Len(written)
  BY DEF TypeOK, Version
<1>2. /\ Seeded(e).pc = "open" /\ Seeded(e).version = shown
      /\ Seeded(e).pending = IF draft = None THEN written[shown] ELSE draft
      /\ Seeded(e).dirty = (draft # None)
      /\ Seeded(e).request = e.request /\ Seeded(e).revision = e.revision
  BY DEF Seeded, Editor
<1>3. CASE e.request = None
  BY <1>1, <1>2, <1>3 DEF EditorInv
<1>4. CASE e.request # None
  <2>1. draft = e.pending /\ e.pending \in Nat
    BY <1>4, EditorParts DEF EditorInv
  <2>2. draft # None
    BY <2>1, NoneAssumption
  <2> QED BY <1>1, <1>2, <1>4, <2>1, <2>2 DEF EditorInv, RequestInv
<1> QED BY <1>3, <1>4

\* One editor takes a step and the others are closed.
LEMMA OneActs ==
  ASSUME TypeOK, SessionInv, NEW i \in Editors, NEW e,
         editor[i].pc # "closed" \/ \A j \in Editors : editor[j].pc = "closed",
         editor' = [editor EXCEPT ![i] = e],
         shown' = 0 => draft' = None,
         e = Closed \/ (e.pc # "closed" /\ EditorInv(editor[i])')
  PROVE  SessionInv'
<1>1. editor'[i] = e /\ \A j \in Editors : j # i => editor'[j] = editor[j]
  BY DEF TypeOK
<1>2. \A j \in Editors : j # i => editor[j].pc = "closed" /\ editor[j] = Closed
  BY DEF SessionInv
<1>3. Closed.pc = "closed"
  BY DEF Closed
<1>4. \A j, k \in Editors : editor'[j].pc # "closed" /\ editor'[k].pc # "closed" => j = k
  BY <1>1, <1>2, <1>3
<1>5. ASSUME NEW j \in Editors
      PROVE  (IF editor[j].pc = "closed" THEN editor[j] = Closed ELSE EditorInv(editor[j]))'
  <2>1. CASE j = i
    BY <1>1, <1>3, <2>1
  <2>2. CASE j # i
    BY <1>1, <1>2, <2>2
  <2> QED BY <2>1, <2>2
<1> QED BY <1>4, <1>5 DEF SessionInv

\* ... a step that leaves the chapter and the shell's draft alone.
LEMMA QuietStep ==
  ASSUME TypeOK, SessionInv, NEW i \in Editors, NEW e,
         editor[i].pc # "closed" \/ \A j \in Editors : editor[j].pc = "closed",
         editor' = [editor EXCEPT ![i] = e],
         UNCHANGED <<written, seen, shown, draft>>,
         e = Closed \/ (e.pc # "closed" /\ EditorInv(e))
  PROVE  SessionInv'
<1>1. editor'[i] = e
  BY DEF TypeOK
<1>2. e = Closed \/ (e.pc # "closed" /\ EditorInv(editor[i])')
  BY <1>1 DEF EditorInv, RequestInv, In
<1>3. shown' = 0 => draft' = None
  BY DEF SessionInv
<1> QED BY <1>2, <1>3, OneActs

\* What holds of an editor still holds when texts and versions are added.
LEMMA EditorGrows ==
  ASSUME TypeOK, TextsKnown, NEW i \in Editors, EditorInv(editor[i]),
         editor' = editor, draft' = draft,
         Len(written') \in Nat, Len(written') >= Len(written),
         \A v \in 1 .. Len(written) : written'[v] = written[v],
         \A u \in 0 .. MaxTexts : u <= texts => seen'[u] = seen[u]
  PROVE  EditorInv(editor[i])'
<1>0. editor[i] \in Editor /\ Holds(editor[i]) /\ editor[i].pending \in 0 .. MaxTexts
  BY BasesKnown DEF TypeOK, TextsKnown
<1>1. seen'[editor[i].pending] = seen[editor[i].pending]
  BY <1>0 DEF Holds
<1>2. 1 .. Len(written) \subseteq 1 .. Len(written')
  BY DEF TypeOK
<1> QED BY <1>0, <1>1, <1>2 DEF EditorInv, RequestInv, In

\* What a report needs of the text an editor wrote.
LEMMA ReportedInv ==
  ASSUME TypeOK, TextsKnown, NEW i \in Editors, EditorInv(editor[i]),
         Writes(editor[i].pending), Reports(i), NEW e \in Editor, editor'[i] = e,
         e.pending = New, e.dirty, e.version = editor[i].version, e.pc = editor[i].pc,
         e.revision = editor[i].revision + 1,
         \/ e.request = editor[i].request
         \/ /\ editor[i].request = None /\ e.request # None
            /\ e.request.content = New /\ e.request.version = e.version
            /\ e.request.revision = editor[i].revision /\ e.request.answer = "awaited"
  PROVE  EditorInv(editor[i])'
<1>1. /\ editor[i].pending \in 0 .. MaxTexts /\ editor[i] \in Editor
      /\ editor[i].revision \in Nat
  BY BasesKnown, EditorParts DEF TypeOK
<1>2. seen'[New] = seen[editor[i].pending] \cup {editor[i].pending} /\ New \in Nat
  BY <1>1, WritesType
<1>3. written' = written /\ draft' = New /\ shown' = shown
  BY DEF Reports
<1>4. e.request # None => RequestInv(e)'
  <2>1. CASE e.request = editor[i].request
    <3>1. e.request # None => RequestInv(editor[i]) /\ e.request.revision \in Nat
      BY <1>1, <2>1, EditorParts DEF EditorInv
    <3> QED BY <1>1, <1>2, <1>3, <2>1, <3>1 DEF RequestInv, In
  <2>2. CASE e.request # editor[i].request
    BY <1>1, <1>2, <1>3, <2>2 DEF RequestInv, EditorInv, In
  <2> QED BY <2>1, <2>2
<1>5. e.pc \in {"leaving", "detached"} => e.request # None
  BY DEF EditorInv
<1>6. EditorInv(editor[i])'
  BY <1>3, <1>4, <1>5 DEF EditorInv, RequestInv, In
<1> QED BY <1>6

\* The session's invariant holds after every step.
LEMMA SessionNext ==
  TypeOK /\ TextsKnown /\ OpenIsListed /\ SessionInv /\ ~crowded' /\ [Next]_vars => SessionInv'
<1> SUFFICES ASSUME TypeOK, TextsKnown, OpenIsListed, SessionInv, ~crowded', [Next]_vars
             PROVE  SessionInv'
  OBVIOUS
<1> USE DEF Mounted, Busy
<1>0. /\ \A i \in Editors : editor[i] \in Editor
      /\ \A i \in Editors : editor[i].pc # "closed" => EditorInv(editor[i])
      /\ \A i \in Editors : editor[i].pc = "closed" => editor[i] = Closed
      /\ Closed.pc = "closed" /\ Closed.request = None /\ ~Closed.timer
  BY DEF TypeOK, SessionInv, Closed
<1>1. CASE Fetch \/ Persist \/ UNCHANGED vars
  BY <1>1 DEF Fetch, Persist, SessionInv, EditorInv, RequestInv, In, vars, chapterVars
<1>2. ASSUME NEW v \in reads, FetchArrives(v) PROVE SessionInv'
  <2>1. v \in 1 .. Len(written) /\ shown' = v /\ v # 0 /\ written' = written /\ seen' = seen
    BY <1>2 DEF FetchArrives, TypeOK, chapterVars
  <2>2. CASE shown = 0
    <3>1. \A i \in Editors : editor[i] = Closed
      BY <1>0, <2>2 DEF OpenIsListed
    <3>2. \A i \in Editors : editor'[i] = Closed
      BY <1>0, <1>2, <3>1 DEF FetchArrives, Refreshed, TypeOK
    <3> QED BY <1>0, <2>1, <3>2 DEF SessionInv
  <2>3. CASE shown # 0
    <3>1. draft' = draft
      BY <1>2, <2>3 DEF FetchArrives
    <3>2. ASSUME NEW i \in Editors
          PROVE  /\ editor'[i].pc = editor[i].pc
                 /\ IF editor'[i].pc = "closed" THEN editor'[i] = Closed
                    ELSE EditorInv(editor[i])'
      <4>1. CASE editor'[i] = editor[i]
        BY <1>0, <2>1, <3>1, <4>1 DEF EditorInv, RequestInv, In
      <4>2. CASE editor'[i] # editor[i]
        <5>1. /\ editor'[i] = [editor[i] EXCEPT !.version = v, !.pending = written[v]]
              /\ editor[i].pc = "open" /\ ~editor[i].dirty
          BY <1>2, <4>2 DEF FetchArrives, Refreshed, TypeOK
        <5>2. EditorInv(editor[i])
          BY <1>0, <5>1
        <5>3. /\ editor'[i].pc = "open" /\ editor'[i].version = v /\ ~editor'[i].dirty
              /\ editor'[i].pending = written[v] /\ editor'[i].request = editor[i].request
          BY <1>0, <5>1 DEF Editor
        <5> QED BY <2>1, <3>1, <5>1, <5>2, <5>3 DEF EditorInv
      <4> QED BY <4>1, <4>2
    <3> QED BY <2>1, <3>1, <3>2 DEF SessionInv
  <2> QED BY <2>2, <2>3
<1>3. ASSUME NEW i \in Editors, Open(i) PROVE SessionInv'
  <2>1. \A j \in Editors : editor[j].pc = "closed"
    BY <1>0, <1>3 DEF Open, TypeOK, Editor
  <2>2. Seeded(Closed).pc = "open" /\ EditorInv(Seeded(Closed))
    BY <1>0, <1>3, ClosedType, SeededInv DEF Open
  <2>3. UNCHANGED <<written, seen, shown, draft>>
    BY <1>3 DEF Open, chapterVars, shellVars
  <2>4. PICK e : e = Seeded(Closed)
    OBVIOUS
  <2>5. editor' = [editor EXCEPT ![i] = e] /\ e.pc # "closed" /\ EditorInv(e)
    BY <1>3, <2>2, <2>4 DEF Open
  <2> QED BY <2>1, <2>3, <2>5, QuietStep
<1>4. ASSUME NEW i \in Editors, Stay(i) PROVE SessionInv'
  <2>1. editor[i].pc = "leaving" /\ EditorInv(editor[i]) /\ shown # 0
    BY <1>0, <1>4 DEF Stay, OpenIsListed
  <2>2. editor[i].request # None /\ editor[i].dirty
    BY <1>0, <2>1 DEF EditorInv, Editor
  <2>3. Seeded(editor[i]).pc = "open" /\ EditorInv(Seeded(editor[i]))
    BY <1>0, <2>1, <2>2, SeededInv
  <2>4. UNCHANGED <<written, seen, shown, draft>>
    BY <1>4 DEF Stay, chapterVars, shellVars
  <2>5. PICK e : e = Seeded(editor[i])
    OBVIOUS
  <2>6. editor' = [editor EXCEPT ![i] = e] /\ e.pc # "closed" /\ EditorInv(e)
    BY <1>4, <2>3, <2>5 DEF Stay, TypeOK
  <2> QED BY <2>1, <2>4, <2>6, QuietStep
<1>5. ASSUME NEW i \in Editors, Type(i) \/ ApplyThroughEditor(i) PROVE SessionInv'
  <2> DEFINE applied == [editor[i] EXCEPT !.pending = New, !.dirty = TRUE]
  <2>1. editor[i].pc # "closed" /\ EditorInv(editor[i]) /\ shown # 0
    BY <1>0, <1>5 DEF Type, ApplyThroughEditor, OpenIsListed
  <2>2. New \in Nat
    BY <1>5, BasesKnown, WritesType DEF Type, ApplyThroughEditor
  <2>3. Writes(editor[i].pending) /\ Reports(i)
    BY <1>5 DEF Type, ApplyThroughEditor
  <2>4. PICK e \in {Changed(editor[i], New), Changed(Flushed(applied), New)} :
          editor' = [editor EXCEPT ![i] = e]
    BY <1>5 DEF Type, ApplyThroughEditor, TypeOK
  <2>5. editor'[i] = e
    BY <2>4 DEF TypeOK
  <2>6. applied \in Editor /\ Flushed(applied) \in Editor
    BY <1>0, <2>2, ChangedType, EndedType
  <2>7. e \in Editor
    BY <1>0, <2>2, <2>4, <2>6, ChangedType
  <2>8. /\ e.pending = New /\ e.dirty /\ e.version = editor[i].version
        /\ e.pc = editor[i].pc /\ e.revision = editor[i].revision + 1
        /\ \/ e.request = editor[i].request
           \/ /\ editor[i].request = None /\ e.request # None
              /\ e.request.content = New /\ e.request.version = e.version
              /\ e.request.revision = editor[i].revision /\ e.request.answer = "awaited"
    <3>1. CASE e = Changed(editor[i], New)
      BY <1>0, <2>4, <3>1 DEF Changed, Editor
    <3>2. CASE e = Changed(Flushed(applied), New)
      <4> DEFINE f == Flushed(applied)
                 r == [content |-> New, version |-> editor[i].version,
                       revision |-> editor[i].revision, answer |-> "awaited", saved |-> 0]
      <4>1. /\ applied.dirty /\ applied.pending = New /\ applied.version = editor[i].version
            /\ applied.pc = editor[i].pc /\ applied.revision = editor[i].revision
            /\ applied.request = editor[i].request
        BY <1>0 DEF Editor
      <4>2. r \in Request /\ r # None
        <5>1. r \in Request
          BY <1>0, <2>2, EditorParts DEF Request, Text, Version
        <5> QED BY <5>1, NoneAssumption
      <4> HIDE DEF applied
      <4>3. /\ f.version = editor[i].version /\ f.pc = editor[i].pc
            /\ f.revision = editor[i].revision
            /\ f.request = IF editor[i].request = None THEN r ELSE editor[i].request
        BY <2>6, <4>1 DEF Flushed, Sent, Editor
      <4>4. /\ e.pending = New /\ e.dirty /\ e.version = f.version /\ e.pc = f.pc
            /\ e.revision = f.revision + 1 /\ e.request = f.request
        BY <2>6, <3>2 DEF Changed, Editor
      <4> QED BY <4>2, <4>3, <4>4
    <3> QED BY <2>4, <3>1, <3>2
  <2>9. EditorInv(editor[i])' /\ shown' # 0
    <3>1. shown' = shown
      BY <2>3 DEF Reports
    <3> HIDE DEF applied
    <3> QED BY <2>1, <2>3, <2>5, <2>7, <2>8, <3>1, ReportedInv
  <2> QED BY <2>1, <2>4, <2>8, <2>9, OneActs
<1>6. ASSUME NEW i \in Editors, TimerFires(i) \/ SaveNow(i) \/ Leave(i) \/ Unmount(i)
      PROVE  SessionInv'
  <2>1. editor[i].pc # "closed" /\ EditorInv(editor[i]) /\ editor[i] \in Editor
    BY <1>0, <1>6 DEF TimerFires, SaveNow, Leave, Unmount
  <2>2. UNCHANGED <<written, seen, shown, draft>>
    BY <1>6 DEF TimerFires, SaveNow, Leave, Unmount, chapterVars, shellVars
  <2>3. /\ EditorInv(Flushed(editor[i])) /\ Flushed(editor[i]).pc = editor[i].pc
        /\ editor[i].dirty => Flushed(editor[i]).request # None
        /\ Gone(editor[i]) = Closed
             \/ (Gone(editor[i]).pc # "closed" /\ EditorInv(Gone(editor[i])))
        /\ Flushed(editor[i]) \in Editor
    BY <2>1, FlushedInv, GoneInv, EndedType
  <2>4. editor[i].dirty => EditorInv(Sent(editor[i])) /\ Sent(editor[i]).pc = editor[i].pc
    BY <2>1, SentInv DEF Sent, Editor
  <2>5. editor[i].dirty =>
          LET f == [Flushed(editor[i]) EXCEPT !.pc = "leaving"]
          IN  EditorInv(f) /\ f.pc = "leaving"
    BY <2>3 DEF EditorInv, RequestInv, Editor
  <2>6. \E e : /\ editor' = [editor EXCEPT ![i] = e]
               /\ e = Closed \/ (e.pc # "closed" /\ EditorInv(e))
    <3>1. CASE TimerFires(i)
      BY <2>1, <2>3, <3>1 DEF TimerFires
    <3>2. CASE SaveNow(i)
      BY <2>1, <2>4, <3>2 DEF SaveNow
    <3>3. CASE Leave(i)
      BY <2>3, <2>5, <3>3 DEF Leave, TypeOK
    <3>4. CASE Unmount(i)
      BY <2>3, <3>4 DEF Unmount
    <3> QED BY <1>6, <3>1, <3>2, <3>3, <3>4
  <2> QED BY <2>1, <2>2, <2>6, QuietStep
<1>7. ASSUME NEW i \in Editors, PatchRefused(i) \/ Failed(i) PROVE SessionInv'
  <2>1. /\ editor[i].pc # "closed" /\ EditorInv(editor[i]) /\ editor[i] \in Editor
        /\ editor[i].request # None /\ editor[i].request \in Request
    BY <1>0, <1>7, EditorParts DEF PatchRefused, Failed
  <2>2. UNCHANGED <<written, seen, shown, draft>>
    BY <1>7 DEF PatchRefused, Failed, chapterVars, shellVars
  <2>3. \E e : /\ editor' = [editor EXCEPT ![i] = e]
               /\ e = Closed \/ (e.pc # "closed" /\ EditorInv(e))
    <3>1. CASE PatchRefused(i)
      <4> DEFINE e == [editor[i] EXCEPT !.request.answer = "refused"]
      <4>1. editor' = [editor EXCEPT ![i] = e]
        BY <3>1 DEF PatchRefused, TypeOK
      <4>2. /\ e.pc = editor[i].pc /\ e.pending = editor[i].pending /\ e.dirty = editor[i].dirty
            /\ e.version = editor[i].version /\ e.revision = editor[i].revision
            /\ e.request.content = editor[i].request.content
            /\ e.request.version = editor[i].request.version
            /\ e.request.revision = editor[i].request.revision
            /\ e.request.answer = "refused"
        BY <2>1 DEF Editor, Request
      <4>3. e \in Editor /\ e.request \in Request
        BY <2>1 DEF Editor, Request
      <4> HIDE DEF e
      <4>4. e.request # None
        BY <4>3, NoneAssumption
      <4>5. EditorInv(e)
        BY <2>1, <4>2, <4>4 DEF EditorInv, RequestInv, In
      <4> QED BY <2>1, <4>1, <4>2, <4>5
    <3>2. CASE Failed(i)
      <4> DEFINE e == [editor[i] EXCEPT !.status = "failed"]
      <4>1. e \in Editor /\ EditorInv(e)
        BY <2>1 DEF EditorInv, RequestInv, Editor
      <4>2. editor' = [editor EXCEPT ![i] = Done(e)]
        BY <3>2 DEF Failed, TypeOK
      <4> HIDE DEF e
      <4> QED BY <4>1, <4>2, DoneInv
    <3> QED BY <1>7, <3>1, <3>2
  <2> QED BY <2>1, <2>2, <2>3, QuietStep
<1>8. ASSUME NEW i \in Editors, PatchSaves(i) PROVE SessionInv'
  <2>1. /\ editor[i].pc # "closed" /\ EditorInv(editor[i]) /\ editor[i] \in Editor
        /\ editor[i].request # None /\ editor[i].request \in Request
        /\ editor[i].request.content \in Nat
    BY <1>0, <1>8, EditorParts DEF PatchSaves
  <2>2. UNCHANGED <<seen, shown, draft>>
    BY <1>8 DEF PatchSaves, shellVars
  <2>3. /\ Len(written') \in Nat \ {0} /\ Len(written) \in Nat /\ Len(written') >= Len(written)
        /\ \A v \in 1 .. Len(written) : written'[v] = written[v]
        /\ written'[Len(written')] = editor[i].request.content
    <3>1. CASE written' = written /\ editor[i].request.content = Stored
      BY <3>1 DEF TypeOK, Stored, Current
    <3>2. CASE written' = Append(written, editor[i].request.content)
      BY <2>1, <3>2, Appended DEF Current
    <3> QED BY <1>8, <3>1, <3>2 DEF PatchSaves
  <2>4. PICK e \in {[editor[i] EXCEPT !.request.answer = "ok",
                                      !.request.saved = Len(written')],
                    [editor[i] EXCEPT !.request.answer = "refused"]} :
          editor' = [editor EXCEPT ![i] = e]
    BY <1>8 DEF PatchSaves, TypeOK
  <2>5. /\ e.pc = editor[i].pc /\ e.pending = editor[i].pending /\ e.dirty = editor[i].dirty
        /\ e.version = editor[i].version /\ e.revision = editor[i].revision
        /\ e.request.content = editor[i].request.content
        /\ e.request.version = editor[i].request.version
        /\ e.request.revision = editor[i].request.revision
        /\ e.request.answer = "ok" => e.request.saved = Len(written')
        /\ e.request # None
    <3>1. CASE e = [editor[i] EXCEPT !.request.answer = "ok", !.request.saved = Len(written')]
      <4>1. e.request = [editor[i].request EXCEPT !.answer = "ok", !.saved = Len(written')]
        BY <2>1, <3>1 DEF Editor
      <4>2. e.request \in Request
        BY <2>1, <2>3, <4>1 DEF Request, Version
      <4> QED BY <2>1, <3>1, <4>1, <4>2, NoneAssumption DEF Editor, Request
    <3>2. CASE e = [editor[i] EXCEPT !.request.answer = "refused"]
      <4>1. e.request = [editor[i].request EXCEPT !.answer = "refused"]
        BY <2>1, <3>2 DEF Editor
      <4>2. e.request \in Request
        BY <2>1, <4>1 DEF Request
      <4> QED BY <2>1, <3>2, <4>1, <4>2, NoneAssumption DEF Editor, Request
    <3> QED BY <2>4, <3>1, <3>2
  <2>6. editor'[i] = e
    BY <2>4 DEF TypeOK
  <2>7. RequestInv(editor[i]) /\ e.version \in 1 .. Len(written)
    BY <2>1, <2>5 DEF EditorInv
  <2>8. /\ e.version \in 1 .. Len(written') /\ e.request.version \in 1 .. Len(written')
        /\ e.request.answer = "ok" => e.request.saved \in 1 .. Len(written')
        /\ written'[e.version] = written[e.version]
    BY <2>3, <2>5, <2>7 DEF RequestInv
  <2>9. RequestInv(editor[i])'
    BY <2>2, <2>3, <2>5, <2>6, <2>7, <2>8 DEF RequestInv, In
  <2>10. editor[i].dirty
    BY <2>1 DEF EditorInv
  <2>11. EditorInv(editor[i])'
    BY <2>1, <2>2, <2>5, <2>6, <2>8, <2>9, <2>10 DEF EditorInv
  <2>12. shown' = 0 => draft' = None
    BY <2>2 DEF SessionInv
  <2> QED BY <2>1, <2>4, <2>5, <2>11, <2>12, OneActs
<1>9. ASSUME NEW i \in Editors, Answered(i) PROVE SessionInv'
  <2> DEFINE advanced == [editor[i] EXCEPT !.version = editor[i].request.saved]
             clean == [advanced EXCEPT !.dirty = FALSE, !.status = "clean"]
  <2>1. /\ editor[i].pc # "closed" /\ EditorInv(editor[i]) /\ editor[i] \in Editor
        /\ editor[i].request # None /\ editor[i].request.answer = "ok"
    BY <1>0, <1>9 DEF Answered
  <2>2. /\ RequestInv(editor[i]) /\ editor[i].dirty
        /\ editor[i].request.saved \in 1 .. Len(written)
        /\ written[editor[i].request.saved] = editor[i].request.content
    BY <2>1 DEF EditorInv, RequestInv
  <2>3. UNCHANGED <<written, seen, shown>>
    BY <1>9 DEF Answered, chapterVars
  <2>4. CASE editor[i].revision # editor[i].request.revision
    <3>1. editor' = [editor EXCEPT ![i] = Sent(advanced)] /\ draft' = draft
      BY <1>9, <2>2, <2>4 DEF Answered
    <3>2. /\ advanced.pc = editor[i].pc /\ advanced.dirty = editor[i].dirty
          /\ advanced.pending = editor[i].pending /\ advanced.request = editor[i].request
          /\ advanced.revision = editor[i].revision
          /\ advanced.version = editor[i].request.saved
      BY <2>1 DEF Editor
    <3>3. advanced \in Editor
      BY <2>1, EditorParts, AnswerType
    <3> HIDE DEF advanced
    <3>4. EditorInv(advanced)
      BY <2>1, <2>2, <3>2 DEF EditorInv, RequestInv
    <3>5. EditorInv(Sent(advanced)) /\ Sent(advanced).pc = editor[i].pc
      BY <2>2, <3>2, <3>3, <3>4, SentInv DEF Sent, Editor
    <3>6. PICK e : e = Sent(advanced)
      OBVIOUS
    <3> QED BY <2>1, <2>3, <3>1, <3>5, <3>6, QuietStep
  <2>5. CASE editor[i].revision = editor[i].request.revision
    <3>1. editor' = [editor EXCEPT ![i] = Done(clean)] /\ draft' = None
      BY <1>9, <2>5 DEF Answered
    <3>2. PICK e : e = Done(clean)
      OBVIOUS
    <3>3. editor'[i] = e
      BY <3>1, <3>2 DEF TypeOK
    <3>4. /\ clean.pc = editor[i].pc /\ ~clean.dirty /\ clean.pending = editor[i].pending
          /\ clean.version = editor[i].request.saved /\ clean.request = editor[i].request
      BY <2>1 DEF Editor
    <3>5. e = Closed \/ (e.pc # "closed" /\ EditorInv(editor[i])')
      <4>1. CASE editor[i].pc = "open"
        <5>1. /\ e.pc = "open" /\ ~e.dirty /\ e.pending = editor[i].pending
              /\ e.version = editor[i].request.saved /\ e.request = None
          <6>0. clean = [editor[i] EXCEPT !.version = editor[i].request.saved,
                                          !.dirty = FALSE, !.status = "clean"]
            BY <2>1 DEF Editor
          <6>1. clean \in Editor
            BY <2>1, <6>0, EditorParts, AnswerType
          <6> HIDE DEF clean
          <6> QED BY <3>2, <3>4, <4>1, <6>1 DEF Done, Editor
        <5> QED BY <2>2, <2>3, <2>5, <3>1, <3>3, <5>1 DEF EditorInv, RequestInv
      <4>2. CASE editor[i].pc # "open"
        BY <3>2, <3>4, <4>2 DEF Done
      <4> QED BY <4>1, <4>2
    <3> HIDE DEF clean
    <3> QED BY <2>1, <3>1, <3>2, <3>5, OneActs
  <2> QED BY <2>4, <2>5
<1>10. CASE Crash \/ Quit
  <2>1. draft' = None /\ \A i \in Editors : editor'[i] = Closed
    BY <1>10 DEF Crash, Quit, PageEnds
  <2> QED BY <1>0, <2>1 DEF SessionInv
<1>11. CASE OthersWrite
  <2>1. Stored \in 0 .. MaxTexts
    BY BasesKnown
  <2>2. /\ New \in Nat /\ New = texts + 1
        /\ \A u \in 0 .. MaxTexts : u <= texts => seen'[u] = seen[u]
    BY <1>11, <2>1, WritesType DEF OthersWrite, TypeOK, Text
  <2>3. /\ Len(written') = Current + 1 /\ Current \in Nat
        /\ \A v \in 1 .. Len(written) : written'[v] = written[v]
    BY <1>11, <2>2, Appended DEF OthersWrite, Current
  <2>4. editor' = editor /\ draft' = draft /\ shown' = shown
    BY <1>11 DEF OthersWrite, shellVars
  <2>5. \A i \in Editors : editor[i].pc # "closed" => EditorInv(editor[i])'
    BY <1>0, <2>2, <2>3, <2>4, EditorGrows DEF Current
  <2> QED BY <2>4, <2>5 DEF SessionInv
<1> QED BY <1>1, <1>2, <1>3, <1>4, <1>5, <1>6, <1>7, <1>8, <1>9, <1>10, <1>11 DEF Next

-----------------------------------------------------------------------------
(* What texts are based on.                                                *)

\* A step of an editor that leaves the chapter alone keeps what it is based on.
LEMMA BaseStep ==
  ASSUME TypeOK, BaseInv, NEW i \in Editors, NEW e,
         editor' = [editor EXCEPT ![i] = e], UNCHANGED <<written, seen>>,
         e.pc = "closed" \/ BasedOn(e)
  PROVE  BaseInv'
<1>1. editor'[i] = e /\ \A j \in Editors : j # i => editor'[j] = editor[j]
  BY DEF TypeOK
<1> QED BY <1>1 DEF BaseInv, BasedOn, In

\* The steps of the editor's helpers keep it.
LEMMA BasedHelpers ==
  ASSUME NEW e \in Editor, BasedOn(e)
  PROVE  /\ BasedOn(Sent(e)) /\ BasedOn(Flushed(e))
         /\ BasedOn([Flushed(e) EXCEPT !.pc = "leaving"])
         /\ Gone(e).pc = "closed" \/ BasedOn(Gone(e))
         /\ Done(e).pc = "closed" \/ BasedOn(Done(e))
<1>1. BasedOn(Sent(e))
  BY DEF BasedOn, Sent, Editor, In
<1>2. BasedOn(Flushed(e)) /\ BasedOn([Flushed(e) EXCEPT !.pc = "leaving"])
  BY DEF BasedOn, Flushed, Sent, Editor, In
<1>3. Gone(e).pc = "closed" \/ BasedOn(Gone(e))
  BY DEF BasedOn, Gone, Closed, Editor, In
<1>4. Done(e).pc = "closed" \/ BasedOn(Done(e))
  BY DEF BasedOn, Done, Closed, Editor, In
<1> QED BY <1>1, <1>2, <1>3, <1>4

\* A seeded editor is based on what the window shows, or it is rebound.
LEMMA BasedSeeded ==
  ASSUME TypeOK, NEW e \in Editor, ~Rebinds,
         e.request # None => In(written[e.request.version], e.request.content)
  PROVE  BasedOn(Seeded(e))
<1>1. /\ Seeded(e).version = shown /\ Seeded(e).request = e.request
      /\ Seeded(e).pending = IF draft = None THEN written[shown] ELSE draft
  BY DEF Seeded, Editor
<1> QED BY <1>1 DEF BasedOn, Rebinds, In

\* What is in a text still is when texts and versions are added.
LEMMA BasedGrows ==
  ASSUME TypeOK, TextsKnown, NEW e \in Editor, EditorInv(e), Holds(e), BasedOn(e),
         Len(written') \in Nat, Len(written') >= Len(written),
         \A v \in 1 .. Len(written) : written'[v] = written[v],
         \A u \in 0 .. MaxTexts : u <= texts => seen'[u] = seen[u]
  PROVE  BasedOn(e)'
<1>1. /\ e.pending \in 0 .. MaxTexts /\ seen'[e.pending] = seen[e.pending]
      /\ written'[e.version] = written[e.version]
  <2>1. e.pending \in Nat /\ texts \in Nat /\ texts <= MaxTexts /\ e.pending <= texts
    BY EditorParts DEF TypeOK, TextsKnown, Holds, Text
  <2> QED BY <2>1, BoundsAssumption DEF EditorInv
<1>2. ASSUME e.request # None
      PROVE  /\ seen'[e.request.content] = seen[e.request.content]
             /\ written'[e.request.version] = written[e.request.version]
  <2>1. /\ e.request.content \in Nat /\ texts \in Nat /\ texts <= MaxTexts
        /\ e.request.content <= texts
    BY <1>2, EditorParts DEF TypeOK, TextsKnown, Holds, Text
  <2> QED BY <1>2, <2>1, BoundsAssumption DEF EditorInv, RequestInv
<1> QED BY <1>1, <1>2 DEF BasedOn, In

\* What the editors are based on after every step.
LEMMA BaseNext ==
  /\ TypeOK /\ TextsKnown /\ OpenIsListed /\ SessionInv /\ BaseInv
  /\ ~crowded' /\ ~rebound' /\ [Next]_vars
  => BaseInv'
<1> SUFFICES ASSUME TypeOK, TextsKnown, OpenIsListed, SessionInv, BaseInv,
                    ~crowded', ~rebound', [Next]_vars
             PROVE  BaseInv'
  OBVIOUS
<1> USE DEF Mounted, Busy
<1>0. /\ \A i \in Editors : editor[i] \in Editor /\ Holds(editor[i])
      /\ \A i \in Editors : editor[i].pc # "closed" => EditorInv(editor[i]) /\ BasedOn(editor[i])
      /\ \A i \in Editors : editor[i].pc = "closed" => editor[i] = Closed
      /\ Closed.pc = "closed" /\ Closed.request = None /\ ~Closed.timer
  BY DEF TypeOK, SessionInv, Closed, TextsKnown, BaseInv
<1>1. CASE Fetch \/ Persist \/ UNCHANGED vars
  BY <1>1 DEF Fetch, Persist, BaseInv, BasedOn, In, vars, chapterVars
<1>2. ASSUME NEW v \in reads, FetchArrives(v) PROVE BaseInv'
  <2>1. UNCHANGED <<written, seen>>
    BY <1>2 DEF FetchArrives, chapterVars
  <2>2. ASSUME NEW i \in Editors, editor'[i].pc # "closed" PROVE BasedOn(editor[i])'
    <3>1. CASE editor'[i] = editor[i]
      BY <1>0, <2>1, <2>2, <3>1 DEF BasedOn, In
    <3>2. CASE editor'[i] # editor[i]
      <4>1. /\ editor'[i] = [editor[i] EXCEPT !.version = v, !.pending = written[v]]
            /\ editor[i].pc = "open"
        BY <1>2, <3>2 DEF FetchArrives, Refreshed, TypeOK
      <4>2. /\ editor'[i].version = v /\ editor'[i].pending = written[v]
            /\ editor'[i].request = editor[i].request
        BY <1>0, <4>1 DEF Editor
      <4> QED BY <1>0, <2>1, <4>1, <4>2 DEF BasedOn, In
    <3> QED BY <3>1, <3>2
  <2> QED BY <2>2 DEF BaseInv
<1>3. ASSUME NEW i \in Editors, Open(i) \/ Stay(i) PROVE BaseInv'
  <2>1. UNCHANGED <<written, seen>> /\ ~Rebinds
    BY <1>3 DEF Open, Stay, chapterVars
  <2>2. PICK k \in {Closed, editor[i]} : /\ editor' = [editor EXCEPT ![i] = Seeded(k)]
                                         /\ k.request # None => k.pc # "closed"
    BY <1>0, <1>3 DEF Open, Stay, TypeOK
  <2>3. k \in Editor /\ (k.request # None => In(written[k.request.version], k.request.content))
    BY <1>0, <2>2, ClosedType DEF BasedOn
  <2>4. BasedOn(Seeded(k))
    BY <2>1, <2>3, BasedSeeded
  <2>5. PICK e : e = Seeded(k)
    OBVIOUS
  <2> QED BY <2>1, <2>2, <2>4, <2>5, BaseStep
<1>4. ASSUME NEW i \in Editors, Type(i) \/ ApplyThroughEditor(i) PROVE BaseInv'
  <2> DEFINE applied == [editor[i] EXCEPT !.pending = New, !.dirty = TRUE]
  <2>1. editor[i].pc # "closed" /\ EditorInv(editor[i]) /\ BasedOn(editor[i])
    BY <1>0, <1>4 DEF Type, ApplyThroughEditor
  <2>2. editor[i].pending \in 0 .. MaxTexts /\ Writes(editor[i].pending) /\ Reports(i)
    BY <1>4, BasesKnown DEF Type, ApplyThroughEditor
  <2>3. /\ New \in Nat /\ New = texts + 1 /\ texts \in Nat
        /\ seen'[New] = seen[editor[i].pending] \cup {editor[i].pending}
        /\ \A u \in 0 .. MaxTexts : u <= texts => seen'[u] = seen[u]
    BY <2>2, WritesType DEF TypeOK, Text
  <2>4. PICK e \in {Changed(editor[i], New), Changed(Flushed(applied), New)} :
          editor' = [editor EXCEPT ![i] = e]
    BY <1>4 DEF Type, ApplyThroughEditor, TypeOK
  <2>5. applied \in Editor /\ Flushed(applied) \in Editor
    BY <1>0, <2>3, ChangedType, EndedType
  <2>6. /\ e.pending = New /\ e.version = editor[i].version
        /\ \/ e.request = editor[i].request
           \/ e.request.content = New /\ e.request.version = editor[i].version
    <3>1. CASE e = Changed(editor[i], New)
      BY <1>0, <3>1 DEF Changed, Editor
    <3>2. CASE e = Changed(Flushed(applied), New)
      <4>1. /\ applied.pending = New /\ applied.version = editor[i].version
            /\ applied.request = editor[i].request
        BY <1>0 DEF Editor
      <4> HIDE DEF applied
      <4>2. \/ Flushed(applied).request = editor[i].request
            \/ /\ Flushed(applied).request.content = New
               /\ Flushed(applied).request.version = editor[i].version
        BY <2>5, <4>1 DEF Flushed, Sent, Editor
      <4>3. Flushed(applied).version = editor[i].version
        BY <2>5, <4>1 DEF Flushed, Sent, Editor
      <4>4. /\ e.pending = New /\ e.version = Flushed(applied).version
            /\ e.request = Flushed(applied).request
        BY <2>5, <3>2 DEF Changed, Editor
      <4> QED BY <4>2, <4>3, <4>4
    <3> QED BY <2>4, <3>1, <3>2
  <2>7. /\ written' = written /\ editor'[i] = e
        /\ \A j \in Editors : j # i => editor'[j] = editor[j] /\ editor[j].pc = "closed"
    BY <2>1, <2>2, <2>4 DEF Reports, TypeOK, SessionInv
  <2>8. In(written[e.version], e.pending)'
    BY <2>1, <2>3, <2>6, <2>7 DEF BasedOn, In
  <2>9. e.request # None => In(written[e.request.version], e.request.content)'
    <3>1. CASE e.request = editor[i].request
      <4>1. ASSUME e.request # None
            PROVE  seen'[e.request.content] = seen[e.request.content]
        <5>1. /\ e.request.content \in Nat /\ e.request.content <= texts
              /\ texts <= MaxTexts
          BY <1>0, <3>1, <4>1, EditorParts DEF Holds, TextsKnown
        <5> QED BY <2>3, <5>1, BoundsAssumption
      <4> QED BY <2>1, <2>7, <3>1, <4>1 DEF BasedOn, In
    <3>2. CASE e.request.content = New /\ e.request.version = editor[i].version
      BY <2>6, <2>8, <3>2
    <3> QED BY <2>6, <3>1, <3>2
  <2>10. BasedOn(editor[i])'
    BY <2>6, <2>7, <2>8, <2>9 DEF BasedOn, In
  <2> QED BY <2>7, <2>10 DEF BaseInv
<1>5. ASSUME NEW i \in Editors, TimerFires(i) \/ SaveNow(i) \/ Leave(i) \/ Unmount(i)
      PROVE  BaseInv'
  <2>1. BasedOn(editor[i]) /\ editor[i] \in Editor
    BY <1>0, <1>5 DEF TimerFires, SaveNow, Leave, Unmount
  <2>2. UNCHANGED <<written, seen>>
    BY <1>5 DEF TimerFires, SaveNow, Leave, Unmount, chapterVars
  <2>3. PICK e \in {Flushed(editor[i]), Sent(editor[i]), Gone(editor[i]),
                    [Flushed(editor[i]) EXCEPT !.pc = "leaving"]} :
          editor' = [editor EXCEPT ![i] = e]
    BY <1>5 DEF TimerFires, SaveNow, Leave, Unmount, TypeOK
  <2>4. e.pc = "closed" \/ BasedOn(e)
    BY <2>1, <2>3, BasedHelpers
  <2> QED BY <2>2, <2>3, <2>4, BaseStep
<1>6. ASSUME NEW i \in Editors, Failed(i) PROVE BaseInv'
  <2> DEFINE e == [editor[i] EXCEPT !.status = "failed"]
  <2>1. e \in Editor /\ BasedOn(e)
    BY <1>0, <1>6 DEF Failed, BasedOn, Editor, In
  <2>2. editor' = [editor EXCEPT ![i] = Done(e)] /\ UNCHANGED <<written, seen>>
    BY <1>6 DEF Failed, TypeOK, chapterVars
  <2> HIDE DEF e
  <2>3. PICK d : d = Done(e)
    OBVIOUS
  <2> QED BY <2>1, <2>2, <2>3, BasedHelpers, BaseStep
<1>7. ASSUME NEW i \in Editors, PatchSaves(i) \/ PatchRefused(i) PROVE BaseInv'
  <2>1. /\ editor[i] \in Editor /\ EditorInv(editor[i]) /\ BasedOn(editor[i])
        /\ Holds(editor[i]) /\ editor[i].pc # "closed"
        /\ editor[i].request \in Request /\ editor[i].request # None
        /\ editor[i].request.content \in Nat
    BY <1>0, <1>7, EditorParts DEF PatchSaves, PatchRefused
  <2>2. /\ Len(written') \in Nat /\ Len(written') >= Len(written)
        /\ \A v \in 1 .. Len(written) : written'[v] = written[v]
        /\ seen' = seen
    <3>1. CASE UNCHANGED <<written, seen>>
      BY <3>1 DEF TypeOK
    <3>2. CASE written' = Append(written, editor[i].request.content) /\ seen' = seen
      BY <2>1, <3>2, Appended DEF Current
    <3> QED BY <1>7, <3>1, <3>2 DEF PatchSaves, PatchRefused, chapterVars
  <2>3. PICK e \in {[editor[i] EXCEPT !.request.answer = "ok",
                                      !.request.saved = Len(written')],
                    [editor[i] EXCEPT !.request.answer = "refused"]} :
          editor' = [editor EXCEPT ![i] = e]
    BY <1>7 DEF PatchSaves, PatchRefused, TypeOK
  <2>4. /\ e.pending = editor[i].pending /\ e.version = editor[i].version
        /\ e.request.content = editor[i].request.content
        /\ e.request.version = editor[i].request.version
    <3>1. CASE e = [editor[i] EXCEPT !.request.answer = "ok", !.request.saved = Len(written')]
      BY <2>1, <3>1 DEF Editor, Request
    <3>2. CASE e = [editor[i] EXCEPT !.request.answer = "refused"]
      BY <2>1, <3>2 DEF Editor, Request
    <3> QED BY <2>3, <3>1, <3>2
  <2>5. /\ editor'[i] = e
        /\ \A j \in Editors : j # i => editor'[j] = editor[j] /\ editor[j].pc = "closed"
    BY <2>1, <2>3 DEF TypeOK, SessionInv
  <2>6. PICK k : k = editor[i]
    OBVIOUS
  <2>7. BasedOn(k)'
    BY <2>1, <2>2, <2>6, BasedGrows
  <2>8. BasedOn(editor[i])'
    BY <2>1, <2>4, <2>5, <2>6, <2>7 DEF BasedOn, In
  <2> QED BY <2>5, <2>8 DEF BaseInv
<1>8. ASSUME NEW i \in Editors, Answered(i) PROVE BaseInv'
  <2> DEFINE advanced == [editor[i] EXCEPT !.version = editor[i].request.saved]
             clean == [advanced EXCEPT !.dirty = FALSE, !.status = "clean"]
  <2>1. /\ editor[i] \in Editor /\ EditorInv(editor[i]) /\ BasedOn(editor[i])
        /\ editor[i].request # None
        /\ In(editor[i].request.content, editor[i].pending)
        /\ written[editor[i].request.saved] = editor[i].request.content
    BY <1>0, <1>8 DEF Answered, EditorInv, RequestInv
  <2>2. UNCHANGED <<written, seen>>
    BY <1>8 DEF Answered, chapterVars
  <2>3. PICK e \in {Sent(advanced), Done(advanced), Done(clean)} :
          editor' = [editor EXCEPT ![i] = e]
    BY <1>8 DEF Answered
  <2>4. advanced \in Editor
    BY <2>1, EditorParts, AnswerType
  <2>5. BasedOn(advanced)
    BY <2>1 DEF BasedOn, Editor, In
  <2> HIDE DEF advanced
  <2>6. clean \in Editor /\ BasedOn(clean)
    BY <2>4, <2>5 DEF BasedOn, Editor, In
  <2> HIDE DEF clean
  <2>7. e.pc = "closed" \/ BasedOn(e)
    BY <2>3, <2>4, <2>5, <2>6, BasedHelpers
  <2> QED BY <2>2, <2>3, <2>7, BaseStep
<1>9. CASE Crash \/ Quit
  BY <1>9 DEF Crash, Quit, PageEnds, BaseInv, Closed
<1>10. CASE OthersWrite
  <2>1. Stored \in 0 .. MaxTexts
    BY BasesKnown
  <2>2. /\ New \in Nat /\ New = texts + 1
        /\ \A u \in 0 .. MaxTexts : u <= texts => seen'[u] = seen[u]
    BY <1>10, <2>1, WritesType DEF OthersWrite, TypeOK, Text
  <2>3. /\ Len(written') \in Nat /\ Len(written') >= Len(written)
        /\ \A v \in 1 .. Len(written) : written'[v] = written[v]
    BY <1>10, <2>2, Appended DEF OthersWrite, Current
  <2>4. ASSUME NEW i \in Editors, editor'[i].pc # "closed" PROVE BasedOn(editor[i])'
    <3>1. editor'[i] = editor[i]
      BY <1>10 DEF OthersWrite
    <3>2. PICK k : k = editor[i]
      OBVIOUS
    <3>3. BasedOn(k)'
      BY <1>0, <2>2, <2>3, <2>4, <3>1, <3>2, BasedGrows
    <3> QED BY <3>1, <3>2, <3>3 DEF BasedOn, In
  <2> QED BY <2>4 DEF BaseInv
<1> QED BY <1>1, <1>2, <1>3, <1>4, <1>5, <1>6, <1>7, <1>8, <1>9, <1>10 DEF Next

-----------------------------------------------------------------------------
(* The theorems.                                                           *)

\* The flags never fall.
LEMMA FlagsStay ==
  TypeOK /\ [Next]_vars => (crowded => crowded') /\ (rebound => rebound')
BY DEF TypeOK, Next, vars, flags, Fetch, FetchArrives, Open, Type, ApplyThroughEditor, Reports,
       TimerFires, SaveNow, PatchSaves, PatchRefused, Answered, Failed, Leave, Stay, Unmount,
       Persist, Crash, Quit, PageEnds, OthersWrite

\* The invariant holds in the initial states.
LEMMA InitInv == Init => IInv
<1> SUFFICES ASSUME Init PROVE IInv
  OBVIOUS
<1>1. TypeOK
  BY TypeInit
<1>2. \A i \in Editors : editor[i] = Closed
  BY DEF Init
<1>3. /\ Closed.pc = "closed" /\ Closed.pending = 0 /\ Closed.request = None
  BY DEF Closed
<1>4. TextsKnown
  BY <1>2, <1>3, BoundsAssumption DEF Init, TextsKnown, Holds
<1>5. OpenIsListed /\ SessionInv /\ BaseInv
  BY <1>2, <1>3 DEF Init, OpenIsListed, SessionInv, BaseInv
<1> QED BY <1>1, <1>4, <1>5 DEF IInv

\* The invariant is inductive.
LEMMA NextInv == IInv /\ [Next]_vars => IInv'
<1> SUFFICES ASSUME IInv, [Next]_vars PROVE IInv'
  OBVIOUS
<1>1. TypeOK /\ TextsKnown /\ OpenIsListed
  BY DEF IInv
<1>2. TypeOK' /\ TextsKnown' /\ OpenIsListed'
  BY <1>1, TypeNext, KnownNext, ListedNext
<1>3. ~crowded' => SessionInv'
  BY <1>1, FlagsStay, SessionNext DEF IInv
<1>4. ~crowded' /\ ~rebound' => BaseInv'
  BY <1>1, FlagsStay, BaseNext DEF IInv
<1> QED BY <1>2, <1>3, <1>4 DEF IInv

\* The invariant always holds.
LEMMA Invariant == Spec => []IInv
BY InitInv, NextInv, PTL DEF Spec

\* Every variable has its type in every reachable state.
THEOREM TypeCorrect == Spec => []TypeOK
<1>1. IInv => TypeOK
  BY DEF IInv
<1> QED BY <1>1, Invariant, PTL

(***************************************************************************)
(* An editor that does not say it has unsaved text shows a version of the  *)
(* chapter, the one its next save will claim to be based on.               *)
(***************************************************************************)
THEOREM CleanShowsAVersion == Spec => []CleanIsAVersion
<1>1. IInv => CleanIsAVersion
  BY DEF IInv, SessionInv, EditorInv, CleanIsAVersion, Mounted
<1> QED BY <1>1, Invariant, PTL

\* What is kept is kept by the shell's draft or by the chapter.
LEMMA KeptByShell ==
  ASSUME TypeOK, OpenIsListed, SessionInv, NEW t, Kept(t)
  PROVE  (draft # None /\ In(t, draft)) \/ \E v \in DOMAIN written : In(t, written[v])
<1>1. ASSUME NEW i \in Editors, editor[i].pc # "closed", In(t, editor[i].pending)
      PROVE  (draft # None /\ In(t, draft)) \/ \E v \in DOMAIN written : In(t, written[v])
  <2>1. EditorInv(editor[i]) /\ editor[i].pending \in Nat
    BY <1>1, EditorParts DEF SessionInv, TypeOK
  <2>2. CASE editor[i].dirty
    BY <1>1, <2>1, <2>2, NoneAssumption DEF EditorInv
  <2>3. CASE ~editor[i].dirty
    <3>1. editor[i].version \in DOMAIN written
      BY <2>1 DEF EditorInv, TypeOK
    <3> QED BY <1>1, <2>1, <2>3, <3>1 DEF EditorInv
  <2> QED BY <2>2, <2>3
<1> QED BY <1>1 DEF Kept

\* A text of the chapter or the draft is one written so far.
LEMMA ShellKnown ==
  ASSUME TypeOK, TextsKnown
  PROVE  /\ \A v \in DOMAIN written : written[v] \in 0 .. MaxTexts /\ written[v] <= texts
         /\ draft # None => draft \in 0 .. MaxTexts /\ draft <= texts
BY BoundsAssumption DEF TypeOK, TextsKnown, Text

\* What is kept stays kept, unless the page ends.
LEMMA KeptStays ==
  ASSUME IInv, ~crowded, ~crowded', [Next]_vars, ~PageEnds, NEW t, Kept(t)
  PROVE  Kept(t)'
<1> DEFINE Shell == (draft # None /\ In(t, draft)) \/ \E v \in DOMAIN written : In(t, written[v])
<1> USE DEF Mounted, Busy
<1>0. TypeOK /\ TextsKnown /\ OpenIsListed /\ SessionInv
  BY DEF IInv
<1>1. Shell
  BY <1>0, KeptByShell
<1>2. Shell' => Kept(t)'
  BY DEF Kept
<1>3. CASE UNCHANGED <<written, draft, seen>>
  <2>1. Shell'
    BY <1>1, <1>3 DEF In
  <2> QED BY <1>2, <2>1
<1>4. ASSUME NEW v \in reads, FetchArrives(v) PROVE Kept(t)'
  <2>1. UNCHANGED <<written, seen>>
    BY <1>4 DEF FetchArrives, chapterVars
  <2>2. draft' = draft \/ draft = None
    BY <1>0, <1>4 DEF FetchArrives, SessionInv
  <2>3. Shell'
    BY <1>1, <2>1, <2>2 DEF In
  <2> QED BY <1>2, <2>3
<1>5. ASSUME NEW i \in Editors, Type(i) \/ ApplyThroughEditor(i) PROVE Kept(t)'
  <2>1. editor[i].pc # "closed" /\ Writes(editor[i].pending) /\ Reports(i)
    BY <1>5 DEF Type, ApplyThroughEditor
  <2>2. EditorInv(editor[i]) /\ editor[i].pending \in 0 .. MaxTexts
    BY <1>0, <2>1, BasesKnown DEF SessionInv
  <2>3. /\ New \in Nat /\ New = texts + 1 /\ texts \in Nat
        /\ seen'[New] = seen[editor[i].pending] \cup {editor[i].pending}
        /\ \A u \in 0 .. MaxTexts : u # New => seen'[u] = seen[u]
    BY <1>0, <2>1, <2>2, WritesType DEF TypeOK, Text
  <2>4. draft' = New /\ written' = written /\ New # None
    BY <2>1, <2>3, NoneAssumption DEF Reports
  <2>5. CASE draft # None /\ In(t, draft)
    <3>1. draft = editor[i].pending
      BY <2>2, <2>5 DEF EditorInv
    <3>2. In(t, draft)'
      BY <2>3, <2>4, <2>5, <3>1 DEF In
    <3> QED BY <1>2, <2>4, <3>2
  <2>6. CASE \E v \in DOMAIN written : In(t, written[v])
    <3>1. PICK v \in DOMAIN written : In(t, written[v])
      BY <2>6
    <3>2. seen'[written[v]] = seen[written[v]]
      BY <1>0, <2>3, <3>1, ShellKnown
    <3>3. In(t, written[v])'
      BY <2>4, <3>1, <3>2 DEF In
    <3>4. v \in DOMAIN written'
      BY <2>4, <3>1
    <3> QED BY <1>2, <3>3, <3>4
  <2> QED BY <1>1, <2>5, <2>6
<1>6. ASSUME NEW i \in Editors, PatchSaves(i) PROVE Kept(t)'
  <2>1. seen' = seen /\ draft' = draft
    BY <1>6 DEF PatchSaves, shellVars
  <2>2. CASE written' = written
    BY <1>3, <2>1, <2>2
  <2>3. CASE written' = Append(written, editor[i].request.content)
    <3>1. editor[i].request.content \in Nat
      BY <1>0, <1>6, EditorParts DEF PatchSaves, TypeOK
    <3>2. /\ \A v \in DOMAIN written : v \in DOMAIN written' /\ written'[v] = written[v]
      BY <1>0, <2>3, <3>1, Appended DEF Current, TypeOK
    <3>3. Shell'
      BY <1>1, <2>1, <3>2 DEF In
    <3> QED BY <1>2, <3>3
  <2> QED BY <1>6, <2>2, <2>3 DEF PatchSaves
<1>7. ASSUME NEW i \in Editors, Answered(i) PROVE Kept(t)'
  <2>1. UNCHANGED <<written, seen>>
    BY <1>7 DEF Answered, chapterVars
  <2>2. CASE draft' = draft
    BY <1>3, <2>1, <2>2
  <2>3. CASE draft' # draft
    <3>1. editor[i].revision = editor[i].request.revision
      BY <1>7, <2>3 DEF Answered
    <3>2. EditorInv(editor[i]) /\ editor[i].request # None
      BY <1>0, <1>7 DEF Answered, SessionInv, Closed
    <3>3. /\ draft = editor[i].request.content
          /\ editor[i].request.saved \in DOMAIN written
          /\ written[editor[i].request.saved] = editor[i].request.content
      BY <1>0, <1>7, <3>1, <3>2 DEF Answered, EditorInv, RequestInv, TypeOK, Editor
    <3>4. \E v \in DOMAIN written : In(t, written[v])
      BY <1>1, <3>3
    <3>5. Shell'
      BY <2>1, <3>4 DEF In
    <3> QED BY <1>2, <3>5
  <2> QED BY <2>2, <2>3
<1>8. CASE OthersWrite
  <2>1. Stored \in 0 .. MaxTexts
    BY <1>0, BasesKnown
  <2>2. /\ New \in Nat /\ New = texts + 1 /\ texts \in Nat
        /\ \A u \in 0 .. MaxTexts : u # New => seen'[u] = seen[u]
    BY <1>0, <1>8, <2>1, WritesType DEF OthersWrite, TypeOK, Text
  <2>3. \A v \in DOMAIN written : v \in DOMAIN written' /\ written'[v] = written[v]
    BY <1>0, <1>8, <2>2, Appended DEF OthersWrite, Current, TypeOK
  <2>4. draft' = draft
    BY <1>8 DEF OthersWrite, shellVars
  <2>5. /\ \A v \in DOMAIN written : seen'[written[v]] = seen[written[v]]
        /\ draft # None => seen'[draft] = seen[draft]
    BY <1>0, <2>2, ShellKnown
  <2>6. Shell'
    BY <1>1, <2>3, <2>4, <2>5 DEF In
  <2> QED BY <1>2, <2>6
<1>9. CASE Fetch \/ Persist \/ UNCHANGED vars
  BY <1>3, <1>9 DEF Fetch, Persist, vars, chapterVars
<1>10. ASSUME NEW i \in Editors, Open(i) \/ TimerFires(i) \/ SaveNow(i) \/ PatchRefused(i)
                                 \/ Failed(i) \/ Leave(i) \/ Stay(i) \/ Unmount(i)
       PROVE  Kept(t)'
  BY <1>3, <1>10 DEF Open, TimerFires, SaveNow, PatchRefused, Failed, Leave, Stay, Unmount,
                     chapterVars, shellVars
<1> QED BY <1>4, <1>5, <1>6, <1>7, <1>8, <1>9, <1>10 DEF Next, Crash, Quit

(***************************************************************************)
(* While the page lives, no text the author wrote disappears, unless a     *)
(* save was left running behind a closed view.                             *)
(***************************************************************************)
THEOREM TypedTextIsKept == Spec => []TypedIsKept
<1>1. Init => TypedIsKept
  BY DEF Init, TypedIsKept
<1>2. IInv /\ TypedIsKept /\ [Next]_vars => TypedIsKept'
  <2> SUFFICES ASSUME IInv, TypedIsKept, [Next]_vars, ~crowded', NEW t \in typed'
               PROVE  Kept(t)'
    BY DEF TypedIsKept
  <2>0. TypeOK /\ TextsKnown /\ ~crowded
    BY FlagsStay DEF IInv
  <2>1. CASE PageEnds
    BY <2>1 DEF PageEnds
  <2>2. CASE t \in typed /\ ~PageEnds
    BY <2>0, <2>2, KeptStays DEF TypedIsKept
  <2>3. CASE t \notin typed /\ ~PageEnds
    <3>1. PICK i \in Editors : Type(i) \/ ApplyThroughEditor(i)
      BY <2>3 DEF Next, vars, sessionVars, Fetch, FetchArrives, Open, TimerFires, SaveNow,
                  PatchSaves, PatchRefused, Answered, Failed, Leave, Stay, Unmount, Persist,
                  Crash, Quit, OthersWrite
    <3>2. Writes(editor[i].pending) /\ Reports(i)
      BY <3>1 DEF Type, ApplyThroughEditor
    <3>3. New \in Nat
      BY <2>0, <3>2, BasesKnown, WritesType
    <3>4. t = New /\ draft' = t /\ t # None
      BY <2>3, <3>2, <3>3, NoneAssumption DEF Reports
    <3> QED BY <3>4 DEF Kept, In
  <2> QED BY <2>1, <2>2, <2>3
<1> QED BY <1>1, <1>2, Invariant, PTL DEF Spec

\* The text typed last is the shell's draft until a save stored it.
LastKept ==
  /\ \A t \in typed : t <= texts
  /\ ~crowded => \A t \in typed : Last(t) /\ ~Saved(t) => draft = t

\* A text that was saved stays in the history of the chapter.
LEMMA SavedStays ==
  ASSUME IInv, [Next]_vars, NEW t, Saved(t)
  PROVE  Saved(t)'
<1>1. TypeOK /\ TextsKnown
  BY DEF IInv
<1>2. CASE written' = written
  BY <1>2 DEF Saved
<1>3. ASSUME NEW x \in Nat, written' = Append(written, x) PROVE Saved(t)'
  <2>1. \A v \in DOMAIN written : v \in DOMAIN written' /\ written'[v] = written[v]
    BY <1>1, <1>3, Appended DEF Current, TypeOK
  <2> QED BY <2>1 DEF Saved
<1>4. ASSUME NEW i \in Editors, PatchSaves(i) PROVE Saved(t)'
  <2>1. editor[i].request.content \in Nat
    BY <1>1, <1>4, EditorParts DEF PatchSaves, Busy, TypeOK
  <2> QED BY <1>2, <1>3, <1>4, <2>1 DEF PatchSaves
<1>5. CASE OthersWrite
  <2>1. New \in Nat
    BY <1>1 DEF New, TypeOK, Text
  <2> QED BY <1>3, <1>5, <2>1 DEF OthersWrite
<1>6. CASE ~OthersWrite /\ ~\E i \in Editors : PatchSaves(i)
  <2>1. written' = written
    BY <1>6 DEF Next, vars, chapterVars, Fetch, FetchArrives, Open, Type, ApplyThroughEditor,
                Reports, TimerFires, SaveNow, PatchRefused, Answered, Failed, Leave, Stay,
                Unmount, Persist, Crash, Quit, PageEnds
  <2> QED BY <1>2, <2>1
<1> QED BY <1>4, <1>5, <1>6

\* A save that takes the draft from the shell has stored it.
LEMMA AnsweredSaved ==
  ASSUME IInv, ~crowded, NEW i \in Editors, Answered(i), draft' # draft
  PROVE  Saved(draft)
<1>0. TypeOK /\ SessionInv
  BY DEF IInv
<1>1. /\ editor[i].revision = editor[i].request.revision /\ editor[i].request.answer = "ok"
      /\ editor[i].request # None /\ draft # None
  BY DEF Answered, Busy
<1>2. EditorInv(editor[i])
  BY <1>0, <1>1 DEF SessionInv, Closed
<1>3. /\ draft = editor[i].request.content
      /\ editor[i].request.saved \in DOMAIN written
      /\ written[editor[i].request.saved] = editor[i].request.content
  BY <1>0, <1>1, <1>2 DEF EditorInv, RequestInv, TypeOK, Editor
<1> QED BY <1>3 DEF Saved

\* The shell keeps the text typed last.
LEMMA LastNext == IInv /\ LastKept /\ [Next]_vars => LastKept'
<1> SUFFICES ASSUME IInv, LastKept, [Next]_vars PROVE LastKept'
  OBVIOUS
<1>0. TypeOK /\ TextsKnown /\ texts \in Nat /\ typed \subseteq Nat
  BY DEF IInv, TypeOK, Text
<1>1. \A t \in typed : Saved(t) => Saved(t)'
  BY SavedStays
<1>2. ~crowded' => ~crowded
  BY <1>0, FlagsStay
<1>3. ASSUME NEW i \in Editors, Type(i) \/ ApplyThroughEditor(i) PROVE LastKept'
  <2>1. texts' = texts + 1 /\ typed' = typed \cup {texts + 1} /\ draft' = texts + 1
    BY <1>3 DEF Type, ApplyThroughEditor, Writes, Reports, New
  <2>2. \A t \in typed' : t <= texts'
    BY <1>0, <2>1 DEF LastKept
  <2>3. ASSUME NEW t \in typed', Last(t)' PROVE draft' = t
    <3>1. texts + 1 <= t
      BY <2>1, <2>3 DEF Last
    <3> QED BY <1>0, <2>1, <2>2, <3>1
  <2> QED BY <2>2, <2>3 DEF LastKept
<1>4. CASE PageEnds
  BY <1>4 DEF PageEnds, LastKept
<1>5. ASSUME typed' = typed, texts' \in {texts, texts + 1},
             ~crowded' => draft' = draft \/ draft = None \/ Saved(draft)
      PROVE  LastKept'
  <2>1. \A t \in typed' : t <= texts'
    BY <1>0, <1>5 DEF LastKept
  <2>2. ASSUME ~crowded', NEW t \in typed', Last(t)', ~Saved(t)' PROVE draft' = t
    <3>1. t \in typed /\ Last(t) /\ ~Saved(t)
      BY <1>1, <1>5, <2>2 DEF Last
    <3>2. draft = t /\ t # None
      BY <1>0, <1>2, <2>2, <3>1, NoneAssumption DEF LastKept
    <3> QED BY <1>5, <2>2, <3>1, <3>2
  <2> QED BY <2>1, <2>2 DEF LastKept
<1>6. ASSUME NEW i \in Editors, Answered(i) PROVE LastKept'
  <2>1. typed' = typed /\ texts' = texts
    BY <1>6 DEF Answered, sessionVars, chapterVars
  <2> QED BY <1>2, <1>5, <1>6, <2>1, AnsweredSaved
<1>7. ASSUME NEW v \in reads, FetchArrives(v) PROVE LastKept'
  <2>1. typed' = typed /\ texts' = texts
    BY <1>7 DEF FetchArrives, chapterVars
  <2>2. ~crowded => draft' = draft \/ draft = None
    BY <1>7 DEF FetchArrives, IInv, SessionInv
  <2> QED BY <1>2, <1>5, <2>1, <2>2
<1>8. CASE OthersWrite
  BY <1>5, <1>8 DEF OthersWrite, Writes, New, shellVars, sessionVars
<1>9. CASE UNCHANGED <<typed, texts, draft>>
  BY <1>5, <1>9
<1>10. CASE Fetch \/ Persist \/ UNCHANGED vars
  BY <1>9, <1>10 DEF Fetch, Persist, vars, chapterVars, sessionVars
<1>11. ASSUME NEW i \in Editors,
              \/ Open(i) \/ TimerFires(i) \/ SaveNow(i) \/ PatchSaves(i) \/ PatchRefused(i)
              \/ Failed(i) \/ Leave(i) \/ Stay(i) \/ Unmount(i)
       PROVE  LastKept'
  BY <1>9, <1>11 DEF Open, TimerFires, SaveNow, PatchSaves, PatchRefused, Failed, Leave, Stay,
                     Unmount, chapterVars, shellVars, sessionVars
<1> QED BY <1>3, <1>4, <1>6, <1>7, <1>8, <1>10, <1>11 DEF Next, Crash, Quit

(***************************************************************************)
(* The text typed last is on every screen that shows the chapter, and      *)
(* known to the shell, until a save stored it: no list, refusal, switch or *)
(* return takes it from the author before, unless a save was left running  *)
(* behind a closed view.                                                   *)
(***************************************************************************)
THEOREM LastTextStaysOnScreen == Spec => []LastTypedIsShown
<1>1. Init => LastKept
  BY DEF Init, LastKept
<1>2. IInv /\ LastKept => LastTypedIsShown
  <2> SUFFICES ASSUME IInv, LastKept, ~crowded, NEW t \in typed, Last(t), ~Saved(t)
               PROVE  draft = t /\ \A i \in Editors : Mounted(i) => editor[i].pending = t
    BY DEF LastTypedIsShown
  <2>1. draft = t /\ t # None
    BY NoneAssumption DEF LastKept, IInv, TypeOK, Text
  <2>2. ASSUME NEW i \in Editors, Mounted(i) PROVE editor[i].pending = t
    <3>1. EditorInv(editor[i])
      BY <2>2 DEF IInv, SessionInv, Mounted
    <3> QED BY <2>1, <3>1 DEF EditorInv
  <2> QED BY <2>1, <2>2
<1> QED BY <1>1, <1>2, Invariant, LastNext, PTL DEF Spec

(***************************************************************************)
(* A save replaces only what its text was written on top of, unless an     *)
(* editor was opened over a draft that ignores what the window showed, or  *)
(* over a save that was still running.                                     *)
(***************************************************************************)
THEOREM NoUpdateIsLost == Spec => NoLostUpdate
<1> DEFINE Step == \A i \in Editors :
                     Replaces(i) /\ ~rebound /\ ~crowded => In(Stored, editor[i].request.content)
<1>1. IInv => Step
  <2> SUFFICES ASSUME IInv, NEW i \in Editors, Replaces(i), ~rebound, ~crowded
               PROVE  In(Stored, editor[i].request.content)
    OBVIOUS
  <2>1. editor[i].request # None /\ editor[i].request.version = Current
    BY DEF Replaces, PatchSaves, Busy
  <2>2. editor[i].pc # "closed"
    BY <2>1 DEF IInv, SessionInv, Closed
  <2> QED BY <2>1, <2>2 DEF IInv, BaseInv, BasedOn, Stored
<1>2. IInv => [Step]_vars
  BY <1>1
<1> QED BY <1>2, Invariant, PTL DEF NoLostUpdate
=============================================================================
