----------------------------- MODULE KbExtraction -----------------------------
(***************************************************************************)
(* Knowledge extraction after an import.  An import may leave its novel a  *)
(* new extraction generation (settings.importMeta).  A POST claims one     *)
(* attempt at it under a lease; the attempt asks a model about the         *)
(* manuscript slot by slot and writes one knowledge entry per slot, each   *)
(* write in one transaction with the record of the slot.  The request that *)
(* started the attempt races the extraction against an abort (deadline,    *)
(* client gone, lease lost) and may answer while the extraction runs on.   *)
(*                                                                         *)
(* Every transaction is one step; what is awaited lies between two steps.  *)
(* The author may delete an entry at any time: nothing here reads entries, *)
(* so written keeps those that were ever created.                          *)
(***************************************************************************)
EXTENDS Integers, FiniteSets

CONSTANTS
  Novels,
  Gens,        \* generations (kbExtractionId)
  Attempts,    \* attempts (kbExtractionAttemptId)
  NumSlots,    \* "style" and "chunk:0" .. "chunk:5" in the order of the code
  None,
  MaxFaults    \* bound on failures of the database

ASSUME SlotsAssumption == NumSlots \in Nat /\ MaxFaults \in Nat

Slots == 1 .. NumSlots

\* What a claim returns.
Claims == [novel : Novels, gen : Gens, slots : SUBSET Slots]

Outcomes == {"done", "failed", "superseded", "cancelled"}

ASSUME NoneAssumption == None \notin Gens \cup Attempts \cup Claims \cup Outcomes

VARIABLES
  meta,       \* novel -> its importMeta
  used,       \* generations that were handed out
  claim,      \* attempt -> what its claim returned, or None
  route,      \* attempt -> where its request is
  work,       \* attempt -> where its extraction is
  race,       \* attempt -> the first of the extraction's outcome and the abort
  aborted,    \* attempts whose signal is aborted
  written,    \* <<novel, generation, slot, attempt>> of the entries created
  faults

attemptVars == <<claim, route, work, race, aborted>>
kbVars      == <<meta, used, claim, route, work, race, aborted, written, faults>>

Open == {"reading", "binding", "racing"}   \* the request was not answered

-----------------------------------------------------------------------------
(* importMeta. *)

NoMeta == [gen |-> None, state |-> "none", holder |-> None, live |-> FALSE,
           slots |-> {}]

Pending(g) == [NoMeta EXCEPT !.gen = g, !.state = "pending"]

Metas == [gen    : Gens \cup {None},
          state  : {"none", "pending", "running", "done", "failed"},
          holder : Attempts \cup {None},
          live   : BOOLEAN,     \* kbExtractionLeaseExpiresAt is in the future
          slots  : SUBSET Slots]

\* An import replaces importMeta; without extraction it carries no generation.
Regenerated(n, g) == [meta EXCEPT ![n] = IF g = None THEN NoMeta ELSE Pending(g)]

\* Mutant: an attempt is current as long as its generation is.
Current_ByGeneration(a) == meta[claim[a].novel].gen = claim[a].gen

\* The generation, its state, its attempt and the lease in one SELECT.
Current(a) ==
  LET m == meta[claim[a].novel]
  IN  /\ m.gen = claim[a].gen /\ m.state = "running"
      /\ m.holder = a /\ m.live

Claimable(n, g) ==
  /\ meta[n].gen = g /\ meta[n].state # "done"
  /\ ~(meta[n].state = "running" /\ meta[n].holder # None /\ meta[n].live)

\* updateNovelKbExtractionState
Settled(a, state) ==
  IF Current(a)
  THEN [meta EXCEPT ![claim[a].novel] =
          [@ EXCEPT !.state = state, !.holder = None, !.live = FALSE]]
  ELSE meta

-----------------------------------------------------------------------------
(* The request. *)

\* A POST that claims nothing (superseded, in_progress, already_done) answers
\* at once and leaves no trace.
Post(a, n, g) ==
  /\ claim[a] = None /\ Claimable(n, g)
  /\ meta' = [meta EXCEPT ![n] =
                [@ EXCEPT !.state = "running", !.holder = a, !.live = TRUE]]
  /\ claim' = [claim EXCEPT ![a] = [novel |-> n, gen |-> g, slots |-> meta[n].slots]]
  /\ route' = [route EXCEPT ![a] = "reading"]
  /\ UNCHANGED <<used, work, race, aborted, written, faults>>

\* The request records an outcome and is answered.
Records(a, state) ==
  /\ meta' = Settled(a, state)
  /\ route' = [route EXCEPT ![a] = "told"]
  /\ UNCHANGED <<used, claim, work, race, aborted, written, faults>>

\* Something throws: the catch tries to record a failure, which may fail too.
Throws(a) ==
  /\ faults < MaxFaults /\ faults' = faults + 1
  /\ meta' \in {meta, Settled(a, "failed")}
  /\ route' = [route EXCEPT ![a] = "error"]
  /\ UNCHANGED <<used, claim, work, race, aborted, written>>

Reads(a) ==
  /\ route[a] = "reading"
  /\ \/ /\ route' = [route EXCEPT ![a] = "binding"]
        /\ UNCHANGED <<meta, used, claim, work, race, aborted, written, faults>>
     \/ Records(a, "failed")       \* the novel has no chapters
     \/ Throws(a)

\* Mutant: the abort does not end the race.
Raced_Unaborted(a, outcome) ==
  race' = [race EXCEPT ![a] = IF race[a] = None /\ outcome # "cancelled"
                              THEN outcome ELSE race[a]]

\* The first outcome wins.
Raced(a, outcome) ==
  race' = [race EXCEPT ![a] = IF race[a] = None THEN outcome ELSE race[a]]

-----------------------------------------------------------------------------
(* The extraction. *)

Idle == [at |-> "idle", slot |-> 0, made |-> FALSE, lost |-> FALSE]

Works == [at : {"idle", "asking", "putting", "over"}, slot : 0 .. NumSlots,
          made : BOOLEAN,       \* it created an entry
          lost : BOOLEAN]       \* a write failed in the database

Over(a, outcome) ==
  /\ work' = [work EXCEPT ![a] = [@ EXCEPT !.at = "over"]]
  /\ Raced(a, outcome)

\* From slot i on: slots that were complete at the claim are passed over, the
\* next one is asked about unless the signal is aborted.
MovesOn(a, i, made, lost) ==
  LET w(at, j) == [at |-> at, slot |-> j, made |-> made, lost |-> lost]
  IN  \/ /\ (i + 1) .. NumSlots \subseteq claim[a].slots
         /\ work' = [work EXCEPT ![a] = w("over", i)]
         /\ Raced(a, IF lost /\ ~made THEN "failed" ELSE "done")
      \/ \E j \in (i + 1) .. NumSlots :
           /\ (i + 1) .. (j - 1) \subseteq claim[a].slots /\ j \notin claim[a].slots
           /\ IF a \in aborted
              THEN work' = [work EXCEPT ![a] = w("over", i)] /\ Raced(a, "cancelled")
              ELSE work' = [work EXCEPT ![a] = w("asking", j)] /\ UNCHANGED race

\* A model is bound and the race begins; the extraction runs to its first await.
Binds(a) ==
  /\ route[a] = "binding"
  /\ \/ /\ route' = [route EXCEPT ![a] = "racing"]
        /\ MovesOn(a, 0, FALSE, FALSE)
        /\ UNCHANGED <<meta, used, claim, aborted, written, faults>>
     \/ Records(a, "failed")       \* no model
     \/ Throws(a)

\* The model's answer.  One that is no use, or repeats a title this attempt has
\* seen, is passed over.
Answers(a) ==
  /\ work[a].at = "asking"
  /\ \/ a \in aborted /\ Over(a, "cancelled")
     \/ a \notin aborted /\ Over(a, "failed")      \* the model call threw
     \/ a \notin aborted /\ MovesOn(a, work[a].slot, work[a].made, work[a].lost)
     \/ /\ a \notin aborted
        /\ work' = [work EXCEPT ![a] = [@ EXCEPT !.at = "putting"]]
        /\ UNCHANGED race
  /\ UNCHANGED <<meta, used, claim, route, aborted, written, faults>>

\* Mutant: the slot is not recorded with the entry.
Recorded_Nothing(n, s) == meta

Recorded(n, s) == [meta EXCEPT ![n].slots = @ \cup {s}]

\* createKnowledgeEntryWithIndexForImportGeneration
Puts(a) ==
  LET n == claim[a].novel
      w == work[a]
  IN  /\ w.at = "putting"
      /\ \/ /\ ~Current(a) /\ Over(a, "superseded")
            /\ UNCHANGED <<meta, written, faults>>
         \/ /\ Current(a) /\ w.slot \in meta[n].slots
            /\ MovesOn(a, w.slot, w.made, w.lost)
            /\ UNCHANGED <<meta, written, faults>>
         \/ /\ Current(a) /\ w.slot \notin meta[n].slots
            /\ meta' = Recorded(n, w.slot)
            /\ written' = written \cup {<<n, claim[a].gen, w.slot, a>>}
            /\ MovesOn(a, w.slot, TRUE, w.lost)
            /\ UNCHANGED faults
         \/ /\ faults < MaxFaults /\ faults' = faults + 1
            /\ MovesOn(a, w.slot, w.made, TRUE)
            /\ UNCHANGED <<meta, written>>
      /\ UNCHANGED <<used, claim, route, aborted>>

\* After the race (and the await that closes the usage record).
Concludes(a) ==
  /\ route[a] = "racing" /\ race[a] # None
  /\ \/ race[a] = "superseded" /\ route' = [route EXCEPT ![a] = "told"]
        /\ UNCHANGED <<meta, used, claim, work, race, aborted, written, faults>>
     \/ race[a] = "done" /\ Records(a, "done")
     \/ race[a] \in {"failed", "cancelled"} /\ Records(a, "failed")
     \/ Throws(a)

-----------------------------------------------------------------------------
(* Time, crashes, and imports. *)

\* The deadline passes, the client goes away, or a heartbeat finds the claim
\* lost or the database unavailable.
Aborts(a) ==
  /\ route[a] \in Open /\ a \notin aborted
  /\ aborted' = aborted \cup {a}
  /\ IF route[a] = "racing" THEN Raced(a, "cancelled") ELSE UNCHANGED race
  /\ UNCHANGED <<meta, used, claim, route, work, written, faults>>

\* No heartbeat for the length of the lease (the machine slept, the loop was
\* blocked).  A heartbeat does not revive it.
LeaseExpires(n) ==
  /\ meta[n].live
  /\ meta' = [meta EXCEPT ![n] = [@ EXCEPT !.live = FALSE]]
  /\ UNCHANGED <<used, attemptVars, written, faults>>

\* What a crash leaves of the requests and the extractions.
Forgotten ==
  /\ route' = [a \in Attempts |-> IF route[a] \in Open THEN "error" ELSE route[a]]
  /\ work' = [a \in Attempts |->
                IF claim[a] = None THEN work[a] ELSE [work[a] EXCEPT !.at = "over"]]
  /\ UNCHANGED <<meta, used, claim, race, aborted, written>>

Crashes == faults < MaxFaults /\ faults' = faults + 1 /\ Forgotten

\* An import of the novel commits, with a generation nobody has heard of.
Imports(n, g) ==
  /\ g \notin used /\ meta' = Regenerated(n, g) /\ used' = used \cup ({g} \ {None})
  /\ UNCHANGED <<attemptVars, written, faults>>

-----------------------------------------------------------------------------
KbTypeOK ==
  /\ meta \in [Novels -> Metas]
  /\ used \subseteq Gens
  /\ claim \in [Attempts -> Claims \cup {None}]
  /\ route \in [Attempts -> Open \cup {"free", "told", "error"}]
  /\ work \in [Attempts -> Works]
  /\ race \in [Attempts -> Outcomes \cup {None}]
  /\ aborted \subseteq Attempts
  /\ written \subseteq Novels \X Gens \X Slots \X Attempts
  /\ faults \in 0 .. MaxFaults

KbInit ==
  /\ meta = [n \in Novels |-> NoMeta] /\ used = {}
  /\ claim = [a \in Attempts |-> None]
  /\ route = [a \in Attempts |-> "free"]
  /\ work = [a \in Attempts |-> Idle]
  /\ race = [a \in Attempts |-> None]
  /\ aborted = {} /\ written = {} /\ faults = 0

Request(a)    == Reads(a) \/ Binds(a) \/ Concludes(a)
Extraction(a) == Answers(a) \/ Puts(a)

KbNext ==
  \/ \E a \in Attempts :
       \/ \E n \in Novels, g \in Gens : Post(a, n, g)
       \/ Request(a) \/ Extraction(a) \/ Aborts(a)
  \/ \E n \in Novels : LeaseExpires(n) \/ \E g \in Gens \cup {None} : Imports(n, g)
  \/ Crashes

KbSpec == KbInit /\ [][KbNext]_kbVars

\* A request that was not answered goes on, and its deadline passes.  Nothing
\* is assumed of the model.
KbFairness == \A a \in Attempts : WF_kbVars(Request(a)) /\ WF_kbVars(Aborts(a))

-----------------------------------------------------------------------------
(* Properties. *)

\* A slot of a generation yields at most one entry, whichever attempts ran, were
\* taken over or crashed (queries-knowledge.ts 210-215).
SlotOnce ==
  \A e, f \in written : e[1] = f[1] /\ e[2] = f[2] /\ e[3] = f[3] => e = f

\* Once a request was told how its attempt ended, the extraction it may have left
\* behind writes nothing, and neither does one of a generation that was replaced.
ToldIsFinal ==
  [][\A e \in written' \ written : route[e[4]] # "told" /\ meta[e[1]].gen = e[2]]_kbVars

\* A generation that is done stays done until the novel is imported into again.
DoneStays ==
  [][\A n \in Novels :
       meta[n].state = "done" /\ meta'[n].gen = meta[n].gen => meta'[n].state = "done"]_kbVars

\* A request that claimed an attempt is answered, even if the model never is heard.
AttemptsEnd ==
  \A a \in Attempts : route[a] = "reading" ~> route[a] \in {"told", "error"}
=============================================================================
