-------------------------- MODULE KbExtractionProofs --------------------------
(***************************************************************************)
(* Proofs about KbExtraction, for any novels, generations, attempts, slots *)
(* and bound on failures.                                                  *)
(*                                                                         *)
(* The invariant behind SlotOnce: an entry's generation was handed out,    *)
(* and while it is its novel's generation, its slot is among the recorded  *)
(* ones.  A write adds a slot that is not recorded, in the generation the  *)
(* novel has; an import replaces the generation by one never handed out,   *)
(* so no recorded slot is ever forgotten while entries of it may appear.   *)
(*                                                                         *)
(* The invariant behind ToldIsFinal: an attempt that lost its claim never  *)
(* has it back, for a claim is only ever given to an attempt without one.  *)
(***************************************************************************)
EXTENDS KbExtraction, TLAPS

-----------------------------------------------------------------------------
(* The inductive invariant.                                                *)

EntriesRecorded ==
  \A e \in written : e[2] \in used /\ (meta[e[1]].gen = e[2] => e[3] \in meta[e[1]].slots)

MetaInv ==
  \A n \in Novels : /\ meta[n].gen \in used \cup {None}
                    /\ meta[n].gen = None => meta[n].state = "none"

\* Attempt a was claimed and its claim is lost.
Lapsed(a) == claim[a] # None /\ ~Current(a)

\* Whoever was told how its attempt ended, or will be that it is superseded, holds
\* no claim.
LapsedInv == \A a \in Attempts : route[a] = "told" \/ race[a] = "superseded" => Lapsed(a)

ClaimInv ==
  \A a \in Attempts : /\ claim[a] = None => route[a] = "free" /\ work[a].at = "idle"
                      /\ work[a].at \in {"asking", "putting"} => work[a].slot \in Slots

IInv == KbTypeOK /\ EntriesRecorded /\ MetaInv /\ LapsedInv /\ ClaimInv /\ SlotOnce

-----------------------------------------------------------------------------
(* Changes of importMeta.                                                  *)

\* No generation changes, no slot is recorded or forgotten, nobody is given a claim and
\* what is done stays done.
Keeps(m) ==
  /\ m \in [Novels -> Metas]
  /\ \A n \in Novels : /\ m[n].gen = meta[n].gen /\ m[n].slots = meta[n].slots
                       /\ m[n] = meta[n] \/ m[n].state # "running" \/ ~m[n].live
                       /\ meta[n].state = "done" => m[n].state = "done"
                       /\ meta[n].gen = None => m[n].state = meta[n].state

\* No import, or no change of it, keeps everything.
LEMMA SameKeeps ==
  ASSUME KbTypeOK
  PROVE  Keeps(meta)
BY DEF KbTypeOK, Keeps

\* An attempt's claim is a record.
LEMMA ClaimType ==
  ASSUME KbTypeOK, NEW a \in Attempts, claim[a] # None
  PROVE  /\ claim[a] \in Claims
         /\ claim[a].novel \in Novels /\ claim[a].gen \in Gens
         /\ meta[claim[a].novel] \in Metas
BY DEF KbTypeOK, Claims

\* An attempt that settles changes no other novel, and its own only from running.
LEMMA SettledKeeps ==
  ASSUME KbTypeOK, NEW a \in Attempts, claim[a] # None, NEW state \in {"done", "failed"}
  PROVE  Keeps(Settled(a, state)) /\ (Settled(a, state) = meta \/ Current(a))
<1>1. CASE ~Current(a)
  BY <1>1, SameKeeps DEF Settled
<1>2. CASE Current(a)
  <2> DEFINE n == claim[a].novel
             m == [meta[n] EXCEPT !.state = state, !.holder = None, !.live = FALSE]
  <2>1. n \in Novels /\ meta[n] \in Metas /\ claim[a].gen \in Gens
    BY ClaimType
  <2>2. m \in Metas /\ m.gen = meta[n].gen /\ m.slots = meta[n].slots
        /\ m.state = state /\ ~m.live
    BY <2>1 DEF Metas
  <2>3. meta[n].state = "running" /\ meta[n].gen # None
    BY <1>2, <2>1, NoneAssumption DEF Current
  <2>4. Settled(a, state) = [meta EXCEPT ![n] = m]
    BY <1>2 DEF Settled
  <2>5. meta \in [Novels -> Metas]
    BY DEF KbTypeOK
  <2> HIDE DEF n, m
  <2> QED BY <1>2, <2>1, <2>2, <2>3, <2>4, <2>5 DEF Keeps
<1> QED BY <1>1, <1>2

\* After an attempt settled it holds no claim.
LEMMA SettledLapses ==
  ASSUME KbTypeOK, NEW a \in Attempts, claim[a] # None, NEW state \in {"done", "failed"},
         meta' = Settled(a, state), claim' = claim
  PROVE  Lapsed(a)'
<1>1. claim[a].novel \in Novels /\ meta[claim[a].novel] \in Metas
  BY ClaimType
<1>2. CASE ~Current(a)
  BY <1>2 DEF Settled, Lapsed, Current
<1>3. CASE Current(a)
  <2>1. meta' = [meta EXCEPT ![claim[a].novel] =
                   [@ EXCEPT !.state = state, !.holder = None, !.live = FALSE]]
    BY <1>3 DEF Settled
  <2>2. meta'[claim[a].novel].state = state
    BY <1>1, <2>1 DEF KbTypeOK, Metas
  <2> QED BY <2>2 DEF Lapsed, Current
<1> QED BY <1>2, <1>3

\* A change that gives nobody a claim leaves every lost claim lost.
LEMMA KeepsLapsed ==
  ASSUME KbTypeOK, Keeps(meta'), claim' = claim, NEW a \in Attempts, Lapsed(a)
  PROVE  Lapsed(a)'
<1>1. claim[a] # None /\ claim[a].novel \in Novels
  BY ClaimType DEF Lapsed
<1> QED BY <1>1 DEF Lapsed, Current, Keeps

\* Such a change keeps what the invariant says of entries and generations.
LEMMA KeepsParts ==
  ASSUME IInv, Keeps(meta'), UNCHANGED <<used, written>>
  PROVE  EntriesRecorded' /\ MetaInv' /\ SlotOnce'
<1>1. \A e \in written : e[1] \in Novels
  BY DEF IInv, KbTypeOK
<1>2. EntriesRecorded'
  BY <1>1 DEF IInv, EntriesRecorded, Keeps
<1>3. MetaInv'
  BY DEF IInv, MetaInv, Keeps
<1> QED BY <1>2, <1>3 DEF IInv, SlotOnce

-----------------------------------------------------------------------------
(* The work of an extraction.                                              *)

\* The race ends with an outcome or has its winner.
LEMMA RacedType ==
  ASSUME KbTypeOK, NEW a \in Attempts, NEW o \in Outcomes, Raced(a, o)
  PROVE  /\ race' \in [Attempts -> Outcomes \cup {None}]
         /\ \A b \in Attempts : race'[b] = "superseded" =>
              race[b] = "superseded" \/ (b = a /\ o = "superseded")
BY DEF KbTypeOK, Raced

\* What the invariant says of the work of attempts, after a step of a's.
WorkStep(a) ==
  /\ work' \in [Attempts -> Works]
  /\ race' \in [Attempts -> Outcomes \cup {None}]
  /\ \A b \in Attempts \ {a} : work'[b] = work[b]
  /\ work'[a].at \in {"asking", "putting"} => work'[a].slot \in Slots
  /\ \A b \in Attempts : race'[b] = "superseded" => race[b] = "superseded"

\* The work is over, and how was not that the claim is lost.
LEMMA OverStep ==
  ASSUME KbTypeOK, NEW a \in Attempts, NEW o \in {"done", "failed", "cancelled"}, Over(a, o)
  PROVE  WorkStep(a)
<1>1. o \in Outcomes
  BY DEF Outcomes
<1>2. Raced(a, o)
  BY DEF Over
<1>3. work' = [work EXCEPT ![a] = [@ EXCEPT !.at = "over"]]
  BY DEF Over
<1>4. [work[a] EXCEPT !.at = "over"] \in Works
  BY DEF KbTypeOK, Works
<1> QED BY <1>1, <1>2, <1>3, <1>4, RacedType DEF KbTypeOK, WorkStep

\* The work goes on to a later slot or ends.
LEMMA MovesOnStep ==
  ASSUME KbTypeOK, NEW a \in Attempts, NEW i \in 0 .. NumSlots,
         NEW made \in BOOLEAN, NEW lost \in BOOLEAN, MovesOn(a, i, made, lost)
  PROVE  WorkStep(a)
<1> DEFINE w(at, j) == [at |-> at, slot |-> j, made |-> made, lost |-> lost]
<1>1. \A j \in 0 .. NumSlots : w("over", j) \in Works /\ w("asking", j) \in Works
  BY DEF Works
<1>2. \A o \in {"done", "failed", "cancelled"} : o \in Outcomes
  BY DEF Outcomes
<1>3. ASSUME NEW o \in {"done", "failed", "cancelled"}, Raced(a, o),
             work' = [work EXCEPT ![a] = w("over", i)]
      PROVE  WorkStep(a)
  BY <1>1, <1>2, <1>3, RacedType DEF KbTypeOK, WorkStep
<1>4. ASSUME NEW j \in (i + 1) .. NumSlots, UNCHANGED race,
             work' = [work EXCEPT ![a] = w("asking", j)]
      PROVE  WorkStep(a)
  <2>1. j \in 0 .. NumSlots /\ j \in Slots
    BY SlotsAssumption DEF Slots
  <2> QED BY <1>1, <1>4, <2>1 DEF KbTypeOK, WorkStep
<1> QED BY <1>3, <1>4 DEF MovesOn

-----------------------------------------------------------------------------
(* Steps keep the invariant.                                               *)

\* A step that claims and writes nothing keeps the invariant when it keeps the types of
\* what it does change and tells only who has lost its claim.
LEMMA QuietStep ==
  ASSUME IInv, Keeps(meta'), UNCHANGED <<used, claim, written>>,
         route' \in [Attempts -> Open \cup {"free", "told", "error"}],
         aborted' \subseteq Attempts, faults' \in 0 .. MaxFaults,
         work' \in [Attempts -> Works], race' \in [Attempts -> Outcomes \cup {None}],
         ClaimInv',
         \A a \in Attempts : route'[a] = "told" => route[a] = "told" \/ Lapsed(a)',
         \A a \in Attempts : race'[a] = "superseded" => race[a] = "superseded" \/ Lapsed(a)'
  PROVE  IInv'
<1>1. KbTypeOK'
  BY DEF IInv, KbTypeOK, Keeps
<1>2. EntriesRecorded' /\ MetaInv' /\ SlotOnce'
  BY KeepsParts
<1>3. LapsedInv'
  BY KeepsLapsed DEF IInv, LapsedInv
<1> QED BY <1>1, <1>2, <1>3 DEF IInv

\* A step of the request keeps what the invariant says of work.
LEMMA RequestKeepsWork ==
  ASSUME IInv, NEW a \in Attempts, claim[a] # None, UNCHANGED <<claim, work>>,
         \A b \in Attempts \ {a} : route'[b] = route[b]
  PROVE  ClaimInv'
BY DEF IInv, ClaimInv

\* Recording an outcome.
LEMMA RecordsStep ==
  ASSUME IInv, NEW a \in Attempts, route[a] # "free", NEW state \in {"done", "failed"},
         Records(a, state)
  PROVE  IInv'
<1> USE DEF Records
<1>1. KbTypeOK /\ claim[a] # None
  BY DEF IInv, ClaimInv
<1>2. Keeps(meta') /\ Lapsed(a)'
  BY <1>1, SettledKeeps, SettledLapses
<1>3. ClaimInv'
  BY <1>1, RequestKeepsWork DEF KbTypeOK
<1> QED BY <1>1, <1>2, <1>3, QuietStep DEF KbTypeOK

\* A failure of the database.
LEMMA FaultCounted ==
  ASSUME KbTypeOK, faults < MaxFaults, faults' = faults + 1
  PROVE  faults' \in 0 .. MaxFaults
BY SlotsAssumption DEF KbTypeOK

\* A request that throws.
LEMMA ThrowsStep ==
  ASSUME IInv, NEW a \in Attempts, route[a] # "free", Throws(a)
  PROVE  IInv'
<1> USE DEF Throws
<1>1. KbTypeOK /\ claim[a] # None
  BY DEF IInv, ClaimInv
<1>2. Keeps(meta')
  BY <1>1, SameKeeps, SettledKeeps
<1>3. ClaimInv'
  BY <1>1, RequestKeepsWork DEF KbTypeOK
<1>4. faults' \in 0 .. MaxFaults
  BY <1>1, FaultCounted
<1> QED BY <1>1, <1>2, <1>3, <1>4, QuietStep DEF KbTypeOK

\* The request reads the chapters.
LEMMA ReadsStep ==
  ASSUME IInv, NEW a \in Attempts, Reads(a)
  PROVE  IInv'
<1>1. route[a] # "free" /\ KbTypeOK /\ claim[a] # None
  BY DEF Reads, IInv, ClaimInv
<1>2. CASE route' = [route EXCEPT ![a] = "binding"]
           /\ UNCHANGED <<meta, used, claim, work, race, aborted, written, faults>>
  <2>1. Keeps(meta')
    BY <1>1, <1>2, SameKeeps
  <2>2. ClaimInv'
    BY <1>1, <1>2, RequestKeepsWork DEF KbTypeOK
  <2> QED BY <1>1, <1>2, <2>1, <2>2, QuietStep DEF KbTypeOK, Open
<1>3. CASE Records(a, "failed")
  BY <1>1, <1>3, RecordsStep
<1>4. CASE Throws(a)
  BY <1>1, <1>4, ThrowsStep
<1> QED BY <1>2, <1>3, <1>4 DEF Reads

\* The work of an attempt that has a claim is in order after a step of it.
LEMMA WorkKeeps ==
  ASSUME IInv, NEW a \in Attempts, claim[a] # None, WorkStep(a), UNCHANGED claim,
         \A b \in Attempts \ {a} : route'[b] = route[b]
  PROVE  ClaimInv'
BY DEF IInv, ClaimInv, WorkStep

\* A model is bound.
LEMMA BindsStep ==
  ASSUME IInv, NEW a \in Attempts, Binds(a)
  PROVE  IInv'
<1>1. route[a] # "free" /\ KbTypeOK /\ claim[a] # None
  BY DEF Binds, IInv, ClaimInv
<1>2. CASE /\ route' = [route EXCEPT ![a] = "racing"]
           /\ MovesOn(a, 0, FALSE, FALSE)
           /\ UNCHANGED <<meta, used, claim, aborted, written, faults>>
  <2>1. Keeps(meta')
    BY <1>1, <1>2, SameKeeps
  <2>2. 0 \in 0 .. NumSlots
    BY SlotsAssumption
  <2>3. WorkStep(a)
    BY <1>1, <1>2, <2>2, MovesOnStep
  <2>4. ClaimInv'
    BY <1>1, <1>2, <2>3, WorkKeeps DEF KbTypeOK
  <2> QED BY <1>1, <1>2, <2>1, <2>3, <2>4, QuietStep DEF KbTypeOK, Open, WorkStep
<1>3. CASE Records(a, "failed")
  BY <1>1, <1>3, RecordsStep
<1>4. CASE Throws(a)
  BY <1>1, <1>4, ThrowsStep
<1> QED BY <1>2, <1>3, <1>4 DEF Binds

\* The request goes on after the race.
LEMMA ConcludesStep ==
  ASSUME IInv, NEW a \in Attempts, Concludes(a)
  PROVE  IInv'
<1>1. route[a] # "free" /\ KbTypeOK /\ claim[a] # None
  BY DEF Concludes, IInv, ClaimInv
<1>2. CASE race[a] = "superseded" /\ route' = [route EXCEPT ![a] = "told"]
           /\ UNCHANGED <<meta, used, claim, work, race, aborted, written, faults>>
  <2>1. Keeps(meta')
    BY <1>1, <1>2, SameKeeps
  <2>2. ClaimInv'
    BY <1>1, <1>2, RequestKeepsWork DEF KbTypeOK
  <2>3. Lapsed(a)'
    BY <1>1, <1>2, <2>1, KeepsLapsed DEF IInv, LapsedInv
  <2> QED BY <1>1, <1>2, <2>1, <2>2, <2>3, QuietStep DEF KbTypeOK
<1>3. CASE Records(a, "done") \/ Records(a, "failed")
  BY <1>1, <1>3, RecordsStep
<1>4. CASE Throws(a)
  BY <1>1, <1>4, ThrowsStep
<1> QED BY <1>2, <1>3, <1>4 DEF Concludes

\* A step of the work that writes nothing.
LEMMA WorksOn ==
  ASSUME IInv, NEW a \in Attempts, claim[a] # None, WorkStep(a),
         UNCHANGED <<meta, used, claim, route, aborted, written>>, faults' \in 0 .. MaxFaults
  PROVE  IInv'
<1>1. KbTypeOK /\ Keeps(meta')
  BY SameKeeps DEF IInv
<1>2. ClaimInv'
  BY WorkKeeps
<1> QED BY <1>1, <1>2, QuietStep DEF KbTypeOK, WorkStep

\* The model answers.
LEMMA AnswersStep ==
  ASSUME IInv, NEW a \in Attempts, Answers(a)
  PROVE  IInv'
<1>1. KbTypeOK /\ claim[a] # None /\ work[a] \in Works /\ work[a].slot \in Slots
  BY DEF Answers, IInv, ClaimInv, KbTypeOK
<1>2. work[a].slot \in 0 .. NumSlots /\ work[a].made \in BOOLEAN /\ work[a].lost \in BOOLEAN
  BY <1>1 DEF Works
<1>3. CASE Over(a, "cancelled") \/ Over(a, "failed")
  BY <1>1, <1>3, OverStep, WorksOn DEF Answers, KbTypeOK
<1>4. CASE MovesOn(a, work[a].slot, work[a].made, work[a].lost)
  <2>1. WorkStep(a)
    BY <1>1, <1>2, <1>4, MovesOnStep
  <2> QED BY <1>1, <2>1, WorksOn DEF Answers, KbTypeOK
<1>5. CASE work' = [work EXCEPT ![a] = [@ EXCEPT !.at = "putting"]] /\ UNCHANGED race
  <2>1. [work[a] EXCEPT !.at = "putting"] \in Works
    BY <1>1 DEF Works
  <2>2. WorkStep(a)
    BY <1>1, <1>5, <2>1 DEF WorkStep, KbTypeOK, Works
  <2> QED BY <1>1, <2>2, WorksOn DEF Answers, KbTypeOK
<1> QED BY <1>3, <1>4, <1>5 DEF Answers

\* An attempt whose claim is in force, in the middle of a write.
LEMMA PutsContext ==
  ASSUME IInv, NEW a \in Attempts, work[a].at = "putting"
  PROVE  /\ KbTypeOK /\ claim[a] # None /\ work[a].slot \in Slots
         /\ claim[a].novel \in Novels /\ claim[a].gen \in Gens
         /\ work[a].slot \in 0 .. NumSlots
         /\ work[a].made \in BOOLEAN /\ work[a].lost \in BOOLEAN
<1>1. KbTypeOK /\ claim[a] # None /\ work[a] \in Works /\ work[a].slot \in Slots
  BY DEF IInv, ClaimInv, KbTypeOK
<1> QED BY <1>1, ClaimType DEF Works

\* A write finds the claim lost.
LEMMA SupersededStep ==
  ASSUME IInv, NEW a \in Attempts, work[a].at = "putting", ~Current(a),
         Over(a, "superseded"),
         UNCHANGED <<meta, used, claim, route, aborted, written, faults>>
  PROVE  IInv'
<1>1. KbTypeOK /\ claim[a] # None /\ Keeps(meta')
  BY PutsContext, SameKeeps
<1>2. "superseded" \in Outcomes
  BY DEF Outcomes
<1>3. /\ race' \in [Attempts -> Outcomes \cup {None}]
      /\ \A b \in Attempts : race'[b] = "superseded" => race[b] = "superseded" \/ b = a
  BY <1>1, <1>2, RacedType DEF Over
<1>4. work' = [work EXCEPT ![a] = [@ EXCEPT !.at = "over"]]
  BY DEF Over
<1>5. [work[a] EXCEPT !.at = "over"] \in Works
  BY <1>1 DEF KbTypeOK, Works
<1>6. work' \in [Attempts -> Works]
  BY <1>1, <1>4, <1>5 DEF KbTypeOK
<1>7. ClaimInv'
  BY <1>1, <1>4 DEF IInv, ClaimInv, KbTypeOK
<1>8. Lapsed(a)'
  BY <1>1 DEF Lapsed, Current
<1> QED BY <1>1, <1>3, <1>6, <1>7, <1>8, QuietStep DEF KbTypeOK

\* An entry is created and its slot recorded.
LEMMA WrittenStep ==
  ASSUME IInv, NEW a \in Attempts, work[a].at = "putting", Current(a),
         work[a].slot \notin meta[claim[a].novel].slots,
         meta' = Recorded(claim[a].novel, work[a].slot),
         written' = written \cup {<<claim[a].novel, claim[a].gen, work[a].slot, a>>},
         MovesOn(a, work[a].slot, TRUE, work[a].lost),
         UNCHANGED <<used, claim, route, aborted, faults>>
  PROVE  IInv'
<1> DEFINE n == claim[a].novel
           s == work[a].slot
           m == [meta[n] EXCEPT !.slots = @ \cup {s}]
           e == <<n, claim[a].gen, s, a>>
<1>1. KbTypeOK /\ claim[a] # None /\ s \in Slots /\ n \in Novels /\ claim[a].gen \in Gens
  BY PutsContext
<1>2. WorkStep(a)
  BY <1>1, PutsContext, MovesOnStep
<1>3. meta[n] \in Metas /\ meta \in [Novels -> Metas]
  BY <1>1 DEF KbTypeOK
<1>4. m \in Metas /\ m.slots = meta[n].slots \cup {s} /\ m.gen = meta[n].gen
      /\ m.state = meta[n].state /\ m.holder = meta[n].holder /\ m.live = meta[n].live
  BY <1>1, <1>3 DEF Metas
<1>5. meta' = [meta EXCEPT ![n] = m]
  BY DEF Recorded
<1>6. meta[n].gen = claim[a].gen /\ claim[a].gen # None
  BY <1>1, NoneAssumption DEF Current
<1>7. e \in Novels \X Gens \X Slots \X Attempts /\ written' = written \cup {e}
  BY <1>1
<1>8. e[1] = n /\ e[2] = claim[a].gen /\ e[3] = s
  OBVIOUS
<1> HIDE DEF m, e
<1>9. KbTypeOK'
  BY <1>1, <1>2, <1>3, <1>4, <1>5, <1>7 DEF KbTypeOK, WorkStep
<1>10. \A k \in Novels : /\ meta'[k].gen = meta[k].gen /\ meta'[k].state = meta[k].state
                         /\ meta'[k].holder = meta[k].holder /\ meta'[k].live = meta[k].live
                         /\ meta[k].slots \subseteq meta'[k].slots
  BY <1>1, <1>3, <1>4, <1>5
<1>11. s \in meta'[n].slots
  BY <1>1, <1>3, <1>4, <1>5
<1>12. claim[a].gen \in used
  BY <1>1, <1>6 DEF IInv, MetaInv
<1>13. \A f \in written : f[1] \in Novels
  BY <1>1 DEF KbTypeOK
<1>14. EntriesRecorded'
  BY <1>7, <1>8, <1>10, <1>11, <1>12, <1>13 DEF IInv, EntriesRecorded
<1>15. MetaInv'
  BY <1>10 DEF IInv, MetaInv
<1>16. \A f \in written : ~(f[1] = n /\ f[2] = claim[a].gen /\ f[3] = s)
  BY <1>6, <1>8 DEF IInv, EntriesRecorded
<1>17. SlotOnce'
  BY <1>7, <1>8, <1>16 DEF IInv, SlotOnce
<1>18. \A b \in Attempts : Lapsed(b) => Lapsed(b)'
  <2> TAKE b \in Attempts
  <2> HAVE Lapsed(b)
  <2>1. claim[b] # None /\ claim[b].novel \in Novels
    BY <1>1, ClaimType DEF Lapsed
  <2> QED BY <1>10, <2>1 DEF Lapsed, Current
<1>19. LapsedInv'
  BY <1>2, <1>18 DEF IInv, LapsedInv, WorkStep
<1>20. ClaimInv'
  BY <1>1, <1>2, WorkKeeps
<1> QED BY <1>9, <1>14, <1>15, <1>17, <1>19, <1>20 DEF IInv

\* createKnowledgeEntryWithIndexForImportGeneration.
LEMMA PutsStep ==
  ASSUME IInv, NEW a \in Attempts, Puts(a)
  PROVE  IInv'
<1>1. work[a].at = "putting" /\ UNCHANGED <<used, claim, route, aborted>>
  BY DEF Puts
<1>2. KbTypeOK /\ claim[a] # None /\ faults \in 0 .. MaxFaults
  BY <1>1, PutsContext DEF KbTypeOK
<1>3. CASE ~Current(a) /\ Over(a, "superseded") /\ UNCHANGED <<meta, written, faults>>
  BY <1>1, <1>3, SupersededStep
<1>4. CASE /\ MovesOn(a, work[a].slot, work[a].made, work[a].lost)
           /\ UNCHANGED <<meta, written, faults>>
  <2>1. WorkStep(a)
    BY <1>1, <1>4, PutsContext, MovesOnStep
  <2> QED BY <1>1, <1>2, <1>4, <2>1, WorksOn
<1>5. CASE /\ Current(a) /\ work[a].slot \notin meta[claim[a].novel].slots
           /\ meta' = Recorded(claim[a].novel, work[a].slot)
           /\ written' = written \cup {<<claim[a].novel, claim[a].gen, work[a].slot, a>>}
           /\ MovesOn(a, work[a].slot, TRUE, work[a].lost)
           /\ UNCHANGED faults
  BY <1>1, <1>5, WrittenStep
<1>6. CASE /\ faults < MaxFaults /\ faults' = faults + 1
           /\ MovesOn(a, work[a].slot, work[a].made, TRUE)
           /\ UNCHANGED <<meta, written>>
  <2>1. WorkStep(a)
    BY <1>1, <1>6, PutsContext, MovesOnStep
  <2>2. faults' \in 0 .. MaxFaults
    BY <1>2, <1>6, FaultCounted
  <2> QED BY <1>1, <1>2, <1>6, <2>1, <2>2, WorksOn
<1> QED BY <1>3, <1>4, <1>5, <1>6 DEF Puts

\* An attempt is claimed: nobody else's claim comes back.
LEMMA PostStep ==
  ASSUME IInv, NEW a \in Attempts, NEW n \in Novels, NEW g \in Gens, Post(a, n, g)
  PROVE  IInv'
<1> DEFINE m == [meta[n] EXCEPT !.state = "running", !.holder = a, !.live = TRUE]
           c == [novel |-> n, gen |-> g, slots |-> meta[n].slots]
<1>1. KbTypeOK /\ meta[n] \in Metas /\ meta \in [Novels -> Metas] /\ meta[n].gen = g
      /\ claim[a] = None /\ g # None
  BY NoneAssumption DEF IInv, KbTypeOK, Post, Claimable
<1>2. meta[n].slots \in SUBSET Slots
  BY <1>1 DEF Metas
<1>3. m \in Metas /\ m.gen = meta[n].gen /\ m.slots = meta[n].slots /\ m.holder = a
  BY <1>1 DEF Metas
<1>4. c \in Claims
  BY <1>2 DEF Claims
<1>5. meta' = [meta EXCEPT ![n] = m] /\ claim' = [claim EXCEPT ![a] = c]
      /\ route' = [route EXCEPT ![a] = "reading"]
      /\ UNCHANGED <<used, work, race, aborted, written, faults>>
  BY DEF Post
<1>6. c # None
  BY <1>4, NoneAssumption
<1> HIDE DEF m, c
<1>7. KbTypeOK'
  BY <1>1, <1>3, <1>4, <1>5 DEF KbTypeOK, Open
<1>8. \A k \in Novels : meta'[k].gen = meta[k].gen /\ meta'[k].slots = meta[k].slots
  BY <1>1, <1>3, <1>5
<1>9. \A f \in written : f[1] \in Novels
  BY <1>1 DEF KbTypeOK
<1>10. EntriesRecorded' /\ SlotOnce'
  BY <1>5, <1>8, <1>9 DEF IInv, EntriesRecorded, SlotOnce
<1>11. MetaInv'
  BY <1>1, <1>3, <1>5 DEF IInv, MetaInv
<1>12. \A b \in Attempts : Lapsed(b) => b # a /\ Lapsed(b)'
  <2> TAKE b \in Attempts
  <2> HAVE Lapsed(b)
  <2>1. b # a /\ claim[b] # None /\ claim[b].novel \in Novels
    BY <1>1, ClaimType DEF Lapsed
  <2>2. claim'[b] = claim[b]
    BY <1>1, <1>5, <2>1 DEF KbTypeOK
  <2>3. CASE claim[b].novel = n
    <3>1. meta'[claim[b].novel].holder = a
      BY <1>1, <1>3, <1>5, <2>3
    <3> QED BY <2>1, <2>2, <3>1 DEF Lapsed, Current
  <2>4. CASE claim[b].novel # n
    <3>1. meta'[claim[b].novel] = meta[claim[b].novel]
      BY <1>1, <1>5, <2>1, <2>4
    <3> QED BY <2>1, <2>2, <3>1 DEF Lapsed, Current
  <2> QED BY <2>1, <2>3, <2>4
<1>13. LapsedInv'
  BY <1>1, <1>5, <1>12 DEF IInv, LapsedInv, KbTypeOK
<1>14. ClaimInv'
  BY <1>1, <1>5, <1>6 DEF IInv, ClaimInv, KbTypeOK
<1> QED BY <1>7, <1>10, <1>11, <1>13, <1>14 DEF IInv

\* The signal of an attempt is aborted.
LEMMA AbortsStep ==
  ASSUME IInv, NEW a \in Attempts, Aborts(a)
  PROVE  IInv'
<1>1. KbTypeOK /\ Keeps(meta')
  BY SameKeeps DEF IInv, Aborts
<1>2. ClaimInv'
  BY DEF IInv, ClaimInv, Aborts
<1>3. "cancelled" \in Outcomes /\ "cancelled" # "superseded"
  BY DEF Outcomes
<1>4. /\ race' \in [Attempts -> Outcomes \cup {None}]
      /\ \A b \in Attempts : race'[b] = "superseded" => race[b] = "superseded"
  <2>1. CASE Raced(a, "cancelled")
    BY <1>1, <1>3, <2>1, RacedType
  <2>2. CASE UNCHANGED race
    BY <1>1, <2>2 DEF KbTypeOK
  <2> QED BY <2>1, <2>2 DEF Aborts
<1>5. UNCHANGED <<used, claim, route, work, written, faults>> /\ aborted' = aborted \cup {a}
  BY DEF Aborts
<1> QED BY <1>1, <1>2, <1>4, <1>5, QuietStep DEF KbTypeOK

\* A lease runs out.
LEMMA LeaseExpiresStep ==
  ASSUME IInv, NEW n \in Novels, LeaseExpires(n)
  PROVE  IInv'
<1> DEFINE m == [meta[n] EXCEPT !.live = FALSE]
<1>1. KbTypeOK /\ meta[n] \in Metas /\ meta \in [Novels -> Metas]
  BY DEF IInv, KbTypeOK
<1>2. m \in Metas /\ m.gen = meta[n].gen /\ m.slots = meta[n].slots
      /\ m.state = meta[n].state /\ ~m.live
  BY <1>1 DEF Metas
<1>3. meta' = [meta EXCEPT ![n] = m]
  BY DEF LeaseExpires
<1> HIDE DEF m
<1>4. Keeps(meta')
  BY <1>1, <1>2, <1>3 DEF Keeps
<1>5. UNCHANGED <<used, claim, route, work, race, aborted, written, faults>>
  BY DEF LeaseExpires, attemptVars
<1>6. ClaimInv'
  BY <1>5 DEF IInv, ClaimInv
<1> QED BY <1>1, <1>4, <1>5, <1>6, QuietStep DEF KbTypeOK

\* The process dies.
LEMMA CrashesStep ==
  ASSUME IInv, Crashes
  PROVE  IInv'
<1>1. KbTypeOK /\ Keeps(meta')
  BY SameKeeps DEF IInv, Crashes, Forgotten
<1>2. faults' \in 0 .. MaxFaults
  BY <1>1, FaultCounted DEF Crashes
<1>3. route' = [a \in Attempts |-> IF route[a] \in Open THEN "error" ELSE route[a]]
      /\ work' = [a \in Attempts |->
                    IF claim[a] = None THEN work[a] ELSE [work[a] EXCEPT !.at = "over"]]
      /\ UNCHANGED <<meta, used, claim, race, aborted, written>>
  BY DEF Crashes, Forgotten
<1>4. \A a \in Attempts : [work[a] EXCEPT !.at = "over"] \in Works
                          /\ [work[a] EXCEPT !.at = "over"].at = "over"
  BY <1>1 DEF KbTypeOK, Works
<1>5. work' \in [Attempts -> Works]
  BY <1>1, <1>3, <1>4 DEF KbTypeOK
<1>6. route' \in [Attempts -> Open \cup {"free", "told", "error"}]
  BY <1>1, <1>3 DEF KbTypeOK
<1>7. ClaimInv'
  BY <1>3, <1>4 DEF IInv, ClaimInv, Open
<1>8. \A a \in Attempts : route'[a] = "told" => route[a] = "told"
  BY <1>3
<1> QED BY <1>1, <1>2, <1>3, <1>5, <1>6, <1>7, <1>8, QuietStep DEF KbTypeOK

\* A new generation is handed out, or none.
LEMMA ImportsStep ==
  ASSUME IInv, NEW n \in Novels, NEW g \in Gens \cup {None}, Imports(n, g)
  PROVE  IInv'
<1> DEFINE m == IF g = None THEN NoMeta ELSE Pending(g)
<1>1. KbTypeOK /\ meta \in [Novels -> Metas] /\ None \notin Gens
  BY NoneAssumption DEF IInv, KbTypeOK
<1>2. /\ m \in Metas /\ m.gen = g /\ m.state \in {"none", "pending"}
      /\ g = None => m.state = "none"
  BY DEF NoMeta, Pending, Metas
<1>3. meta' = [meta EXCEPT ![n] = m] /\ used' = used \cup ({g} \ {None}) /\ g \notin used
      /\ UNCHANGED <<claim, route, work, race, aborted, written, faults>>
  BY DEF Imports, Regenerated, attemptVars
<1> HIDE DEF m
<1>4. KbTypeOK'
  BY <1>1, <1>2, <1>3 DEF KbTypeOK
<1>5. \A f \in written : f[1] \in Novels /\ f[2] \in used
  BY <1>1 DEF KbTypeOK, IInv, EntriesRecorded
<1>6. EntriesRecorded' /\ SlotOnce'
  BY <1>1, <1>2, <1>3, <1>5 DEF IInv, EntriesRecorded, SlotOnce
<1>7. MetaInv'
  BY <1>1, <1>2, <1>3 DEF IInv, MetaInv
<1>8. \A b \in Attempts : Lapsed(b) => Lapsed(b)'
  <2> TAKE b \in Attempts
  <2> HAVE Lapsed(b)
  <2>1. claim[b] # None /\ claim[b].novel \in Novels
    BY <1>1, ClaimType DEF Lapsed
  <2> QED BY <1>1, <1>2, <1>3, <2>1 DEF Lapsed, Current
<1>9. LapsedInv' /\ ClaimInv'
  BY <1>3, <1>8 DEF IInv, LapsedInv, ClaimInv
<1> QED BY <1>4, <1>6, <1>7, <1>9 DEF IInv

\* The invariant holds at the start.
LEMMA InitIInv == KbInit => IInv
<1> SUFFICES ASSUME KbInit PROVE IInv
  OBVIOUS
<1> USE DEF KbInit
<1>1. NoMeta \in Metas /\ NoMeta.gen = None /\ NoMeta.state = "none"
  BY DEF NoMeta, Metas
<1>2. Idle \in Works /\ Idle.at = "idle"
  BY SlotsAssumption DEF Idle, Works
<1>3. 0 \in 0 .. MaxFaults
  BY SlotsAssumption
<1>4. KbTypeOK
  BY <1>1, <1>2, <1>3 DEF KbTypeOK
<1>5. "superseded" # None
  BY NoneAssumption DEF Outcomes
<1>6. EntriesRecorded /\ MetaInv /\ SlotOnce
  BY <1>1 DEF EntriesRecorded, MetaInv, SlotOnce
<1>7. ClaimInv
  BY <1>2 DEF ClaimInv
<1>8. LapsedInv
  BY <1>5 DEF LapsedInv
<1> QED BY <1>4, <1>6, <1>7, <1>8 DEF IInv

\* Every step keeps the invariant.
LEMMA NextIInv == IInv /\ [KbNext]_kbVars => IInv'
<1> SUFFICES ASSUME IInv, [KbNext]_kbVars PROVE IInv'
  OBVIOUS
<1>1. CASE UNCHANGED kbVars
  BY <1>1 DEF kbVars, IInv, KbTypeOK, EntriesRecorded, MetaInv, LapsedInv, Lapsed, Current,
     ClaimInv, SlotOnce
<1>2. ASSUME NEW a \in Attempts, Request(a) PROVE IInv'
  BY <1>2, ReadsStep, BindsStep, ConcludesStep DEF Request
<1>3. ASSUME NEW a \in Attempts, Extraction(a) PROVE IInv'
  BY <1>3, AnswersStep, PutsStep DEF Extraction
<1> QED BY <1>1, <1>2, <1>3, PostStep, AbortsStep, LeaseExpiresStep, ImportsStep, CrashesStep
        DEF KbNext

\* The invariant holds always.
LEMMA AlwaysIInv == KbSpec => []IInv
<1>1. KbInit => IInv
  BY InitIInv
<1>2. IInv /\ [KbNext]_kbVars => IInv'
  BY NextIInv
<1> QED BY <1>1, <1>2, PTL DEF KbSpec

-----------------------------------------------------------------------------
(* Theorems.                                                               *)

\* Every variable keeps its type, for any novels, generations, attempts and slots.
THEOREM TypeCorrect == KbSpec => []KbTypeOK
<1>1. IInv => KbTypeOK
  BY DEF IInv
<1> QED BY <1>1, AlwaysIInv, PTL

\* A slot of a generation yields at most one entry, for any number of attempts, take-overs
\* and crashes (queries-knowledge.ts 210-215).
THEOREM SlotIsWrittenOnce == KbSpec => []SlotOnce
<1>1. IInv => SlotOnce
  BY DEF IInv
<1> QED BY <1>1, AlwaysIInv, PTL

\* Only a write in force adds an entry.
LEMMA WritesInForce ==
  ASSUME IInv, [KbNext]_kbVars, NEW e \in written' \ written
  PROVE  \E a \in Attempts : /\ claim[a] # None /\ Current(a) /\ e[4] = a
                             /\ e[1] = claim[a].novel /\ e[2] = claim[a].gen
<1>1. \A a \in Attempts : ~Request(a)
  BY DEF Request, Reads, Binds, Concludes, Records, Throws
<1>2. ASSUME NEW a \in Attempts, Extraction(a)
      PROVE  \E b \in Attempts : /\ claim[b] # None /\ Current(b) /\ e[4] = b
                                 /\ e[1] = claim[b].novel /\ e[2] = claim[b].gen
  <2>1. Puts(a)
    BY <1>2 DEF Extraction, Answers
  <2>2. work[a].at = "putting" /\ claim[a] # None
    BY <2>1, PutsContext DEF Puts
  <2>3. Current(a) /\ e = <<claim[a].novel, claim[a].gen, work[a].slot, a>>
    BY <2>1 DEF Puts
  <2> QED BY <2>2, <2>3
<1>3. \A a \in Attempts : ~Aborts(a) /\ \A n \in Novels, g \in Gens : ~Post(a, n, g)
  BY DEF Aborts, Post
<1>4. \A n \in Novels : ~LeaseExpires(n) /\ \A g \in Gens \cup {None} : ~Imports(n, g)
  BY DEF LeaseExpires, Imports
<1>5. ~Crashes /\ ~UNCHANGED kbVars
  BY DEF Crashes, Forgotten, kbVars
<1> QED BY <1>1, <1>2, <1>3, <1>4, <1>5 DEF KbNext

\* An extraction left behind by a request that was told, or by a generation that was
\* replaced, writes nothing (route.ts 168-205).
THEOREM ToldStaysFinal == KbSpec => ToldIsFinal
<1> DEFINE Step == \A e \in written' \ written :
                     route[e[4]] # "told" /\ meta[e[1]].gen = e[2]
<1>1. IInv /\ [KbNext]_kbVars => Step
  <2> SUFFICES ASSUME IInv, [KbNext]_kbVars, NEW e \in written' \ written
               PROVE  route[e[4]] # "told" /\ meta[e[1]].gen = e[2]
    OBVIOUS
  <2>1. PICK a \in Attempts : /\ claim[a] # None /\ Current(a) /\ e[4] = a
                              /\ e[1] = claim[a].novel /\ e[2] = claim[a].gen
    BY WritesInForce
  <2> QED BY <2>1 DEF IInv, LapsedInv, Lapsed, Current
<1>2. IInv /\ [KbNext]_kbVars => [Step]_kbVars
  BY <1>1
<1> QED BY <1>2, AlwaysIInv, PTL DEF KbSpec, ToldIsFinal

\* A request gives nobody a claim.
LEMMA RequestKeeps ==
  ASSUME IInv, NEW a \in Attempts, Request(a)
  PROVE  Keeps(meta')
<1>1. KbTypeOK /\ claim[a] # None
  BY DEF IInv, ClaimInv, Request, Reads, Binds, Concludes
<1>2. ASSUME NEW state \in {"done", "failed"}, Records(a, state)
      PROVE  Keeps(meta')
  BY <1>1, <1>2, SettledKeeps DEF Records
<1>3. CASE Throws(a)
  BY <1>1, <1>3, SameKeeps, SettledKeeps DEF Throws
<1>4. CASE UNCHANGED meta
  BY <1>1, <1>4, SameKeeps
<1>5. Reads(a) => Records(a, "failed") \/ Throws(a) \/ UNCHANGED meta
  BY DEF Reads
<1>6. Binds(a) => Records(a, "failed") \/ Throws(a) \/ UNCHANGED meta
  BY DEF Binds
<1>7. Concludes(a) => \/ Records(a, "done") \/ Records(a, "failed")
                      \/ Throws(a) \/ UNCHANGED meta
  BY DEF Concludes
<1> QED BY <1>2, <1>3, <1>4, <1>5, <1>6, <1>7 DEF Request

\* A generation that is done stays done until the next import, whoever claims, settles or
\* writes late (queries-novel.ts 379, 462-470).
THEOREM DoneIsFinal == KbSpec => DoneStays
<1> DEFINE Step == \A n \in Novels :
      meta[n].state = "done" /\ meta'[n].gen = meta[n].gen => meta'[n].state = "done"
<1>1. IInv /\ [KbNext]_kbVars => Step
  <2> SUFFICES ASSUME IInv, [KbNext]_kbVars PROVE Step
    OBVIOUS
  <2>1. KbTypeOK /\ meta \in [Novels -> Metas]
    BY DEF IInv, KbTypeOK
  <2>2. Keeps(meta') => Step
    BY DEF Keeps
  <2>3. UNCHANGED meta => Step
    OBVIOUS
  <2>4. ASSUME NEW a \in Attempts, NEW n \in Novels, NEW g \in Gens, Post(a, n, g)
        PROVE  Step
    <3>1. meta[n].state # "done" /\ \A k \in Novels \ {n} : meta'[k] = meta[k]
      BY <2>1, <2>4 DEF Post, Claimable
    <3> QED BY <3>1
  <2>5. ASSUME NEW a \in Attempts, Extraction(a)
        PROVE  Step
    <3>1. CASE meta' = Recorded(claim[a].novel, work[a].slot)
      <4>1. \A n \in Novels : meta[n] \in Metas
        BY <2>1
      <4>2. \A n \in Novels : meta'[n].state = meta[n].state
        BY <2>1, <3>1, <4>1 DEF Recorded, Metas
      <4> QED BY <4>2
    <3>2. UNCHANGED meta \/ meta' = Recorded(claim[a].novel, work[a].slot)
      BY <2>5 DEF Extraction, Answers, Puts
    <3> QED BY <2>3, <3>1, <3>2
  <2>6. ASSUME NEW n \in Novels, NEW g \in Gens \cup {None}, Imports(n, g)
        PROVE  Step
    <3>1. \A k \in Novels \ {n} : meta'[k] = meta[k]
      BY <2>1, <2>6 DEF Imports, Regenerated
    <3>2. meta'[n].gen = g /\ g \notin used
      BY <2>1, <2>6 DEF Imports, Regenerated, NoMeta, Pending
    <3>3. meta'[n].gen = meta[n].gen => meta[n].state = "none"
      BY <3>2 DEF IInv, MetaInv
    <3> QED BY <3>1, <3>3
  <2>7. ASSUME NEW n \in Novels, LeaseExpires(n)
        PROVE  Step
    <3>1. \A k \in Novels : meta'[k].state = meta[k].state
      BY <2>1, <2>7 DEF LeaseExpires, Metas
    <3> QED BY <3>1
  <2>8. ASSUME NEW a \in Attempts, Request(a)
        PROVE  Step
    BY <2>2, <2>8, RequestKeeps
  <2>9. (\E a \in Attempts : Aborts(a)) \/ Crashes \/ UNCHANGED kbVars => UNCHANGED meta
    BY DEF Aborts, Crashes, Forgotten, kbVars
  <2> HIDE DEF Step
  <2> QED BY <2>3, <2>4, <2>5, <2>6, <2>7, <2>8, <2>9 DEF KbNext
<1>2. IInv /\ [KbNext]_kbVars => [Step]_kbVars
  BY <1>1
<1> QED BY <1>2, AlwaysIInv, PTL DEF KbSpec, DoneStays
=============================================================================
