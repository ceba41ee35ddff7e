------------------------- MODULE VaultMirrorProofs -------------------------
(***************************************************************************)
(* Proofs about VaultMirror, for every set of entries and requests, every  *)
(* relation of references and all bounds.                                  *)
(***************************************************************************)
EXTENDS VaultMirror, TLAPS

-----------------------------------------------------------------------------
(***************************************************************************)
(* The values the steps build have their types.                            *)
(***************************************************************************)
Markdown == Content \cup {None}

\* What the application renders is Markdown.
LEMMA RenderedType == \A t \in Nat : Rendered(t) \in Content
  BY DEF Rendered, Content

\* No request is a request.
LEMMA IdleJobType == AnItem \in Item /\ IdleJob \in JobState
<1>1. (CHOOSE e \in Entries : TRUE) \in Entries
  BY EntriesAssumption
<1>2. AnItem \in Item
  BY <1>1 DEF AnItem, Item
<1> QED BY <1>2 DEF IdleJob, JobState

\* The parts of a request have their types.
LEMMA PartTypes ==
  ASSUME TypeOK, NEW j \in Jobs
  PROVE  /\ job[j] \in JobState
         /\ job[j].at \in Item
         /\ job[j].at.entry \in Entries
         /\ job[j].at.op \in {"upsert", "delete"}
         /\ job[j].at.rev \in Nat
         /\ job[j].todo \subseteq Item
         /\ job[j].put \in Markdown
         /\ job[j].base \in Markdown
         /\ job[j].seen \in Markdown
         /\ job[j].seenRow \in Markdown
         /\ job[j].seenHash \in Markdown
<1>1. job[j] \in JobState
  BY DEF TypeOK
<1>2. job[j].at \in Item
  BY <1>1 DEF JobState
<1>3. /\ job[j].at.entry \in Entries /\ job[j].at.rev \in Nat
      /\ job[j].at.op \in {"upsert", "delete"}
  BY <1>2 DEF Item
<1> QED BY <1>1, <1>2, <1>3 DEF JobState, Markdown

\* A request that turns to an attempt, or goes on with the rest, is one.
LEMMA NextJobTypes ==
  ASSUME NEW todo \in SUBSET Item
  PROVE  /\ \A i \in Item : Attempting(i, todo) \in JobState
         /\ Continued(todo) \in JobState
  BY IdleJobType DEF Attempting, Continued, JobState

\* The columns of an index row are Markdown.
LEMMA IndexTypes ==
  ASSUME TypeOK, NEW e \in Entries
  PROVE  /\ Mirror(e) \in Markdown
         /\ \A h \in Markdown : Indexed(e, h) \in IndexRow
         /\ \A c \in Markdown : Observed(e, c) \in [Entries -> IndexRow \cup {None}]
<1>1. index[e] # None => index[e] \in IndexRow
  BY DEF TypeOK
<1>2. Mirror(e) \in Markdown
  BY <1>1 DEF Mirror, IndexRow, Markdown
<1>3. ASSUME NEW c \in Markdown, index[e] # None
      PROVE  [index[e] EXCEPT !.mirror = c] \in IndexRow
  BY <1>1, <1>3 DEF IndexRow, Markdown
<1>4. ASSUME NEW c \in Markdown
      PROVE  Observed(e, c) \in [Entries -> IndexRow \cup {None}]
  BY <1>3 DEF Observed, TypeOK
<1>5. ASSUME NEW h \in Markdown
      PROVE  Indexed(e, h) \in IndexRow
  BY <1>2 DEF Indexed, IndexRow, Markdown
<1> QED BY <1>2, <1>4, <1>5

\* Intents that are made, used again or completed are intents.
LEMMA IntentTypes ==
  ASSUME TypeOK, NEW e \in Entries, NEW op \in {"upsert", "delete"}
  PROVE  /\ Enqueued(e, op) \in Intent
         /\ IntentFor(e, op) \in Intent
         /\ IntentFor(e, op).op = op
         /\ IntentFor(e, op).rev \in Nat
         /\ Enqueued(e, op).op = op
         /\ Enqueued(e, op).rev \in Nat
<1>1. outbox[e] \in Intent
  BY DEF TypeOK
<1>2. outbox[e].rev \in Nat
  BY <1>1 DEF Intent, NoIntent
<1>3. Enqueued(e, op) \in Intent
  BY <1>2 DEF Enqueued, Intent
<1>4. Enqueued(e, op).op = op /\ Enqueued(e, op).rev \in Nat
  BY <1>2 DEF Enqueued
<1> QED BY <1>1, <1>2, <1>3, <1>4 DEF IntentFor

\* The outbox after an attempt that completed its intent, or found another.
LEMMA CompletedType ==
  ASSUME TypeOK, NEW i \in Item
  PROVE  Completed(i) \in [Entries -> Intent]
<1>1. i.entry \in Entries /\ i.rev \in Nat
  BY DEF Item
<1>2. CASE ~IsCurrent(i)
  BY <1>2 DEF Completed, TypeOK
<1>3. CASE IsCurrent(i) /\ i.op = "upsert"
  BY <1>1, <1>3 DEF Completed, TypeOK, Intent
<1>4. CASE IsCurrent(i) /\ i.op # "upsert"
  <2>1. outbox[i.entry] \in Intent
    BY <1>1 DEF TypeOK
  <2>2. /\ outbox[i.entry].op = i.op /\ outbox[i.entry].status = "pending"
        /\ outbox[i.entry].op # "upsert"
    BY <1>4 DEF IsCurrent
  <2>3. outbox[i.entry] \in [op: {"delete"}, status: {"pending", "completed"}, rev: Nat \ {0}]
    BY <2>1, <2>2 DEF Intent, NoIntent
  <2>4. [outbox[i.entry] EXCEPT !.status = "completed"] \in Intent
    BY <2>3 DEF Intent
  <2> QED BY <1>1, <1>4, <2>4 DEF Completed, TypeOK
<1> QED BY <1>2, <1>3, <1>4

\* The attempt at an intent just enqueued.
LEMMA ItemTypes ==
  ASSUME NEW e \in Entries, outbox'[e].op \in {"upsert", "delete"},
         outbox'[e].rev \in Nat
  PROVE  ItemOf(e) \in Item
  BY DEF ItemOf, Item

\* Enqueue unless enqueued, and attempt.
LEMMA TryTypes ==
  ASSUME TypeOK, NEW j \in Jobs, NEW e \in Entries,
         NEW op \in {"upsert", "delete"}, Try(j, e, op)
  PROVE  /\ outbox' \in [Entries -> Intent]
         /\ job' \in [Jobs -> JobState]
<1>1. CASE op = "upsert" /\ ~Known(e)
  BY <1>1, IdleJobType DEF Try, TypeOK
<1>2. CASE ~(op = "upsert" /\ ~Known(e))
  <2>1. outbox' = [outbox EXCEPT ![e] = IntentFor(e, op)]
    BY <1>2 DEF Try
  <2>2. outbox'[e] = IntentFor(e, op)
    BY <2>1 DEF TypeOK
  <2>3. ItemOf(e) \in Item
    BY <2>2, IntentTypes, ItemTypes
  <2>4. Attempting(ItemOf(e), {}) \in JobState
    BY <2>3, NextJobTypes
  <2>5. job' = [job EXCEPT ![j] = Attempting(ItemOf(e), {})]
    BY <1>2 DEF Try
  <2> QED BY <2>1, <2>4, <2>5, IntentTypes DEF TypeOK
<1> QED BY <1>1, <1>2

\* The transaction that saves an entry.
LEMMA SavedTypes ==
  ASSUME TypeOK, NEW e \in Entries, NEW c \in Content, SavedInDb(e, c)
  PROVE  /\ row' \in [Entries -> Markdown]
         /\ index' \in [Entries -> IndexRow \cup {None}]
         /\ outbox' \in [Entries -> Intent]
         /\ ItemOf(e) \in Item
<1>1. Indexed(e, None) \in IndexRow
  BY IndexTypes DEF Markdown
<1>2. outbox' = [outbox EXCEPT ![e] = Enqueued(e, "upsert")]
  BY DEF SavedInDb
<1>3. outbox'[e] = Enqueued(e, "upsert")
  BY <1>2 DEF TypeOK
<1>4. ItemOf(e) \in Item
  BY <1>3, IntentTypes, ItemTypes
<1>5. outbox' \in [Entries -> Intent]
  BY <1>2, IntentTypes DEF TypeOK
<1>6. row' \in [Entries -> Markdown]
  BY DEF SavedInDb, TypeOK, Markdown
<1>7. index' \in [Entries -> IndexRow \cup {None}]
  BY <1>1 DEF SavedInDb, TypeOK
<1> QED BY <1>4, <1>5, <1>6, <1>7

\* The transaction that deletes one, and its intent.
LEMMA DeletedTypes ==
  ASSUME TypeOK, NEW e \in Entries, NEW refs \in SUBSET Entries,
         NEW c \in Markdown, DeletedInDb(e, refs, c)
  PROVE  /\ row' \in [Entries -> Markdown]
         /\ index' \in [Entries -> IndexRow \cup {None}]
<1>1. \A f \in Entries : Indexed(f, None) \in IndexRow
  BY IndexTypes DEF Markdown
<1>2. row' \in [Entries -> Markdown]
  BY DEF DeletedInDb, TypeOK, Markdown
<1>3. index' \in [Entries -> IndexRow \cup {None}]
  BY <1>1 DEF DeletedInDb, TypeOK
<1> QED BY <1>2, <1>3

\* The outbox after a deletion: a delete intent if the row was there.
LEMMA DeleteIntentTypes ==
  ASSUME TypeOK, NEW e \in Entries
  PROVE  /\ DeleteIntent(e) \in [Entries -> Intent]
         /\ row[e] # None => /\ DeleteIntent(e)[e].op = "delete"
                             /\ DeleteIntent(e)[e].rev \in Nat
<1>1. /\ Enqueued(e, "delete") \in Intent
      /\ Enqueued(e, "delete").op = "delete"
      /\ Enqueued(e, "delete").rev \in Nat
  BY IntentTypes
<1> QED BY <1>1 DEF DeleteIntent, TypeOK

\* A deletion that waits for hashes.
LEMMA DeletingTypes ==
  ASSUME TypeOK, NEW e \in Entries, NEW pc \in {"deleting", "removing"}
  PROVE  Deleting(pc, e) \in JobState
<1>1. {[entry |-> f, op |-> "upsert", rev |-> 0] : f \in Referring(e)} \subseteq Item
  <2>1. ASSUME NEW f \in Referring(e)
        PROVE  [entry |-> f, op |-> "upsert", rev |-> 0] \in Item
    BY DEF Referring, Item
  <2> QED BY <2>1
<1>2. Rendered(Now) \in Content
  BY RenderedType DEF Now, TypeOK
<1>3. [entry |-> e, op |-> "delete", rev |-> 0] \in Item
  BY DEF Item
<1> QED BY <1>1, <1>2, <1>3, IdleJobType DEF Deleting, JobState

-----------------------------------------------------------------------------
(***************************************************************************)
(* Type correctness.                                                       *)
(***************************************************************************)

\* The initial state is well typed.
LEMMA InitTypeOK == Init => TypeOK
  BY IdleJobType DEF Init, TypeOK, Intent

\* The author's steps keep the types.
LEMMA AuthorTypes ==
  ASSUME TypeOK, NEW j \in Jobs, NEW e \in Entries,
         Create(j, e) \/ Update(j, e) \/ Delete(j, e)
  PROVE  TypeOK'
<1> USE DEF Markdown
<1>0. Now \in Nat /\ Rendered(Now) \in Content
  BY RenderedType DEF Now, TypeOK
<1>1. CASE Create(j, e)
  <2>1. SavedInDb(e, Rendered(Now))
    BY <1>1 DEF Create
  <2>2. /\ row' \in [Entries -> Content \cup {None}]
        /\ index' \in [Entries -> IndexRow \cup {None}]
        /\ outbox' \in [Entries -> Intent]
        /\ ItemOf(e) \in Item
    BY <1>0, <2>1, SavedTypes
  <2>3. Attempting(ItemOf(e), {}) \in JobState
    BY <2>2, NextJobTypes
  <2>4. job' = [job EXCEPT ![j] = Attempting(ItemOf(e), {})]
    BY <1>1 DEF Create
  <2>5. job' \in [Jobs -> JobState]
    BY <2>3, <2>4 DEF TypeOK
  <2> QED BY <1>0, <1>1, <2>2, <2>5 DEF Create, Tick, TypeOK
<1>2. CASE Update(j, e)
  <2>1. [AnItem EXCEPT !.entry = e] \in Item
    BY IdleJobType DEF Item
  <2>2. [IdleJob EXCEPT !.pc = "saving", !.at = [AnItem EXCEPT !.entry = e],
                        !.put = Rendered(Now)] \in JobState
    BY <1>0, <2>1, IdleJobType DEF JobState
  <2>3. job' \in [Jobs -> JobState]
    BY <1>2, <2>2 DEF Update, TypeOK
  <2> QED BY <1>0, <1>2, <2>3 DEF Update, Tick, TypeOK, dbVars
<1>3. CASE Delete(j, e) /\ Referring(e) = {}
  <2>1. DeletedInDb(e, {}, None) /\ outbox' = DeleteIntent(e) /\ row[e] # None
    BY <1>3 DEF Delete
  <2>2. /\ row' \in [Entries -> Content \cup {None}]
        /\ index' \in [Entries -> IndexRow \cup {None}]
    BY <2>1, DeletedTypes
  <2>3. outbox' \in [Entries -> Intent] /\ ItemOf(e) \in Item
    BY <2>1, DeleteIntentTypes, ItemTypes
  <2>4. Attempting(ItemOf(e), {}) \in JobState
    BY <2>3, NextJobTypes
  <2>5. job' = [job EXCEPT ![j] = Attempting(ItemOf(e), {})]
    BY <1>3 DEF Delete
  <2>6. job' \in [Jobs -> JobState]
    BY <2>4, <2>5 DEF TypeOK
  <2> QED BY <1>3, <2>2, <2>3, <2>6 DEF Delete, TypeOK
<1>4. CASE Delete(j, e) /\ Referring(e) # {}
  <2>1. job' = [job EXCEPT ![j] = Deleting("deleting", e)]
    BY <1>4 DEF Delete
  <2>2. job' \in [Jobs -> JobState]
    BY <2>1, DeletingTypes DEF TypeOK
  <2> QED BY <1>0, <1>4, <2>2 DEF Delete, Tick, TypeOK, dbVars
<1> QED BY <1>1, <1>2, <1>3, <1>4

\* The steps of a request that writes keep the types.
LEMMA CommitTypes ==
  ASSUME TypeOK, NEW j \in Jobs,
         UpdateCommits(j) \/ DeleteCommits(j) \/ RemovalCommits(j) \/ EnqueueCleaned(j),
         \* what such a request carries is what it renders
         job[j].pc = "saving" => job[j].put \in Content
  PROVE  TypeOK'
<1> USE DEF Markdown
<1>0. /\ job[j].at.entry \in Entries /\ job[j].todo \subseteq Item
      /\ job[j].put \in Content \cup {None}
  BY PartTypes
<1> DEFINE e == job[j].at.entry
           refs == {i.entry : i \in job[j].todo}
<1>r. refs \in SUBSET Entries
  BY <1>0 DEF Item
<1>1. CASE UpdateCommits(j) /\ row[e] # None
  <2>1. SavedInDb(e, job[j].put) /\ job[j].put \in Content
    BY <1>0, <1>1 DEF UpdateCommits
  <2>2. /\ row' \in [Entries -> Content \cup {None}]
        /\ index' \in [Entries -> IndexRow \cup {None}]
        /\ outbox' \in [Entries -> Intent]
        /\ ItemOf(e) \in Item
    BY <1>0, <2>1, SavedTypes
  <2>3. job' = [job EXCEPT ![j] = Attempting(ItemOf(e), {})]
    BY <1>1 DEF UpdateCommits
  <2>4. job' \in [Jobs -> JobState]
    BY <2>2, <2>3, NextJobTypes DEF TypeOK
  <2> QED BY <1>1, <2>2, <2>4 DEF UpdateCommits, TypeOK, worldVars
<1>2. CASE UpdateCommits(j) /\ row[e] = None
  <2>1. job' \in [Jobs -> JobState]
    BY <1>2, IdleJobType DEF UpdateCommits, TypeOK
  <2> QED BY <1>2, <2>1 DEF UpdateCommits, TypeOK, worldVars, dbVars
<1>3. CASE DeleteCommits(j)
  <2>1. DeletedInDb(e, refs, job[j].put)
    BY <1>3 DEF DeleteCommits
  <2>2. /\ row' \in [Entries -> Content \cup {None}]
        /\ index' \in [Entries -> IndexRow \cup {None}]
    BY <1>0, <1>r, <2>1, DeletedTypes
  <2>3. outbox' = IF row[e] # None THEN DeleteIntent(e)
                  ELSE [outbox EXCEPT ![e] = IntentFor(e, "delete")]
    BY <1>3 DEF DeleteCommits
  <2>4. /\ outbox' \in [Entries -> Intent]
        /\ outbox'[e].op = "delete" /\ outbox'[e].rev \in Nat
    <3>1. CASE row[e] # None
      BY <1>0, <2>3, <3>1, DeleteIntentTypes
    <3>2. CASE row[e] = None
      BY <1>0, <2>3, <3>2, IntentTypes DEF TypeOK
    <3> QED BY <3>1, <3>2
  <2>5. Attempting(ItemOf(e), job[j].todo) \in JobState
    BY <1>0, <2>4, ItemTypes, NextJobTypes
  <2>6. job' = [job EXCEPT ![j] = Attempting(ItemOf(e), job[j].todo)]
    BY <1>3 DEF DeleteCommits, TypeOK
  <2>7. job' \in [Jobs -> JobState]
    BY <2>5, <2>6 DEF TypeOK
  <2> QED BY <1>3, <2>2, <2>4, <2>7 DEF DeleteCommits, TypeOK, worldVars
<1>4. CASE RemovalCommits(j)
  <2>1. DeletedInDb(e, refs, job[j].put) /\ outbox' = DeleteIntent(e)
    BY <1>4 DEF RemovalCommits
  <2>2. /\ row' \in [Entries -> Content \cup {None}]
        /\ index' \in [Entries -> IndexRow \cup {None}]
    BY <1>0, <1>r, <2>1, DeletedTypes
  <2>3. outbox' \in [Entries -> Intent]
    BY <1>0, <2>1, DeleteIntentTypes
  <2>4. job' \in [Jobs -> JobState]
    BY <1>4, IdleJobType DEF RemovalCommits, TypeOK
  <2> QED BY <1>4, <2>2, <2>3, <2>4 DEF RemovalCommits, TypeOK, worldVars
<1>5. CASE EnqueueCleaned(j)
  <2> DEFINE known == refs \cap {f \in Entries : Known(f)}
  <2>1. outbox' = [f \in Entries |-> IF f \in known THEN IntentFor(f, "upsert")
                                                    ELSE outbox[f]]
    BY <1>5 DEF EnqueueCleaned
  <2>2. \A f \in Entries : /\ IntentFor(f, "upsert") \in Intent
                           /\ IntentFor(f, "upsert").op = "upsert"
                           /\ IntentFor(f, "upsert").rev \in Nat
    BY IntentTypes
  <2>3. outbox' \in [Entries -> Intent]
    BY <2>1, <2>2 DEF TypeOK
  <2>4. ASSUME NEW f \in known PROVE ItemOf(f) \in Item
    BY <2>1, <2>2, ItemTypes
  <2>5. Continued({ItemOf(f) : f \in known}) \in JobState
    BY <2>4, NextJobTypes
  <2>6. job' = [job EXCEPT ![j] = Continued({ItemOf(f) : f \in known})]
    BY <1>5 DEF EnqueueCleaned
  <2>7. job' \in [Jobs -> JobState]
    BY <2>5, <2>6 DEF TypeOK
  <2> QED BY <1>5, <2>3, <2>7 DEF EnqueueCleaned, TypeOK, worldVars
<1> QED BY <1>1, <1>2, <1>3, <1>4, <1>5

\* The drain and the attempts keep the types.
LEMMA AttemptTypes ==
  ASSUME TypeOK, NEW j \in Jobs,
         \/ Drain(j) \/ NextAttempt(j) \/ Check(j) \/ Spawn(j)
         \/ HelperAnswers(j) \/ HelperFails(j) \/ Finish(j)
  PROVE  TypeOK'
<1> USE DEF Markdown
<1> DEFINE i == job[j].at
<1>0. /\ job[j] \in JobState
      /\ i \in Item /\ i.entry \in Entries /\ job[j].todo \subseteq Item
      /\ job[j].put \in Content \cup {None}
  BY PartTypes
<1>1. CASE Drain(j)
  <2>1. Drainable \subseteq Item
    <3>1. ASSUME NEW e \in Entries, outbox[e].status = "pending"
          PROVE  [entry |-> e, op |-> outbox[e].op, rev |-> outbox[e].rev] \in Item
      <4>1. outbox[e] \in Intent
        BY DEF TypeOK
      <4>2. outbox[e].op \in {"upsert", "delete"} /\ outbox[e].rev \in Nat
        BY <3>1, <4>1 DEF Intent, NoIntent
      <4> QED BY <4>2 DEF Item
    <3> QED BY <3>1 DEF Drainable, PendingItems
  <2>2. job' \in [Jobs -> JobState]
    BY <1>1, <2>1, NextJobTypes DEF Drain, TypeOK
  <2> QED BY <1>1, <2>2 DEF Drain, TypeOK, dbVars, worldVars
<1>2. CASE NextAttempt(j)
  <2>1. PICK k \in job[j].todo :
          IF k.op = "upsert" /\ row[k.entry] = None
          THEN /\ outbox' = Completed(k)
               /\ job' = [job EXCEPT ![j] = Continued(job[j].todo \ {k})]
          ELSE /\ outbox' = outbox
               /\ job' = [job EXCEPT ![j] = Attempting(k, job[j].todo \ {k})]
    BY <1>2 DEF NextAttempt
  <2>2. k \in Item /\ job[j].todo \ {k} \in SUBSET Item
    BY <1>0
  <2>3. /\ Continued(job[j].todo \ {k}) \in JobState
        /\ Attempting(k, job[j].todo \ {k}) \in JobState
    BY <2>2, NextJobTypes
  <2>4. outbox' \in [Entries -> Intent] /\ job' \in [Jobs -> JobState]
    BY <2>1, <2>2, <2>3, CompletedType DEF TypeOK
  <2> QED BY <1>2, <2>4 DEF NextAttempt, TypeOK, worldVars
<1>3. CASE Check(j)
  <2>1. [job[j] EXCEPT !.pc = "checked"] \in JobState
    BY <1>0 DEF JobState
  <2>2. Continued(job[j].todo) \in JobState
    BY <1>0, NextJobTypes
  <2>3. job' = [job EXCEPT ![j] = IF IsCurrent(i) THEN [job[j] EXCEPT !.pc = "checked"]
                                  ELSE Continued(job[j].todo)]
    BY <1>3 DEF Check, TypeOK
  <2>4. job' \in [Jobs -> JobState]
    BY <2>1, <2>2, <2>3 DEF TypeOK
  <2> QED BY <1>3, <2>4 DEF Check, TypeOK, dbVars, worldVars
<1>4. CASE Spawn(j)
  <2> DEFINE put == IF i.op = "upsert" THEN row[i.entry] ELSE None
  <2>1. put \in Content \cup {None} /\ Mirror(i.entry) \in Content \cup {None}
    BY <1>0, IndexTypes DEF TypeOK
  <2>2. [job[j] EXCEPT !.pc = "helper", !.put = put, !.base = Mirror(i.entry)] \in JobState
    BY <1>0, <2>1 DEF JobState
  <2>3. Continued(job[j].todo) \in JobState
    BY <1>0, NextJobTypes
  <2>4. \/ /\ outbox' = Completed(i)
           /\ job' = [job EXCEPT ![j] = Continued(job[j].todo)]
        \/ /\ outbox' = outbox
           /\ job' = [job EXCEPT ![j] = [job[j] EXCEPT !.pc = "helper", !.put = put,
                                                       !.base = Mirror(i.entry)]]
    BY <1>4 DEF Spawn, TypeOK
  <2>5. outbox' \in [Entries -> Intent] /\ job' \in [Jobs -> JobState]
    BY <1>0, <2>2, <2>3, <2>4, CompletedType DEF TypeOK
  <2> QED BY <1>4, <2>5 DEF Spawn, TypeOK, worldVars
<1>5. CASE HelperAnswers(j) \/ HelperFails(j)
  <2>1. Acted(j) \in [Entries -> Content \cup {None}]
    BY <1>0 DEF Acted, TypeOK
  <2>2. PICK result \in {"conflict", "written", "failed"} :
          job' = [job EXCEPT ![j].pc = "answered", ![j].result = result]
    BY <1>5 DEF HelperAnswers, HelperFails
  <2>3. [job[j] EXCEPT !.pc = "answered", !.result = result] \in JobState
    BY <1>0 DEF JobState
  <2>4. job' = [job EXCEPT ![j] = [job[j] EXCEPT !.pc = "answered", !.result = result]]
    BY <2>2 DEF TypeOK
  <2>5. job' \in [Jobs -> JobState]
    BY <2>3, <2>4 DEF TypeOK
  <2> QED BY <1>5, <2>1, <2>5 DEF HelperAnswers, HelperFails, TypeOK, dbVars, worldVars
<1>6. CASE Finish(j)
  <2>1. outbox' \in [Entries -> Intent]
    BY <1>0, <1>6, CompletedType DEF Finish, TypeOK
  <2>2. index' \in [Entries -> IndexRow \cup {None}]
    BY <1>0, <1>6, IndexTypes DEF Finish, TypeOK
  <2>3. job' = [job EXCEPT ![j] = Continued(job[j].todo)]
    BY <1>6 DEF Finish, TypeOK
  <2>4. job' \in [Jobs -> JobState]
    BY <1>0, <2>3, NextJobTypes DEF TypeOK
  <2> QED BY <1>6, <2>1, <2>2, <2>4 DEF Finish, TypeOK, worldVars
<1> QED BY <1>1, <1>2, <1>3, <1>4, <1>5, <1>6

\* The reconcile keeps the types.
LEMMA ReconcileTypes ==
  ASSUME TypeOK, NEW j \in Jobs, NEW f \in Entries,
         job[j].pc = "hashing" => job[j].seen \in Content,
         \/ ReadFile(j, f) \/ ReplayIntent(j) \/ MissingFile(j) \/ HashFile(j)
         \/ ObserveBaseline(j) \/ RejectStaleFile(j) \/ Import(j)
  PROVE  TypeOK'
<1> USE DEF Markdown
<1> DEFINE e == job[j].at.entry
<1>0. /\ job[j] \in JobState
      /\ e \in Entries /\ job[j].seen \in Content \cup {None}
  BY PartTypes
<1>1. CASE ReadFile(j, f)
  <2>1. [IdleJob EXCEPT !.pc = "read", !.seen = file[f],
           !.at = [entry |-> f, op |-> "upsert", rev |-> 0]] \in JobState
    BY IdleJobType DEF TypeOK, JobState, Item
  <2>2. job' \in [Jobs -> JobState]
    BY <1>1, <2>1 DEF ReadFile, TypeOK
  <2> QED BY <1>1, <2>2 DEF ReadFile, TypeOK, dbVars, worldVars
<1>2. CASE ReplayIntent(j)
  <2>1. outbox[e].op \in {"upsert", "delete"}
    <3>1. outbox[e] \in Intent /\ outbox[e] # NoIntent
      BY <1>0, <1>2 DEF ReplayIntent, TypeOK
    <3> QED BY <3>1 DEF Intent
  <2>2. Try(j, e, outbox[e].op)
    BY <1>2 DEF ReplayIntent
  <2>3. outbox' \in [Entries -> Intent] /\ job' \in [Jobs -> JobState]
    BY <1>0, <2>1, <2>2, TryTypes
  <2> QED BY <1>2, <2>3 DEF ReplayIntent, TypeOK, worldVars
<1>3. CASE MissingFile(j) /\ index[e] = None
  <2>1. job' \in [Jobs -> JobState]
    BY <1>3, IdleJobType DEF MissingFile, TypeOK
  <2> QED BY <1>3, <2>1 DEF MissingFile, TypeOK, dbVars
<1>4. CASE MissingFile(j) /\ index[e] # None /\ Referring(e) = {}
  <2>1. DeletedInDb(e, {}, None) /\ outbox' = DeleteIntent(e)
    BY <1>4 DEF MissingFile
  <2>2. /\ row' \in [Entries -> Content \cup {None}]
        /\ index' \in [Entries -> IndexRow \cup {None}]
    BY <1>0, <2>1, DeletedTypes
  <2>3. outbox' \in [Entries -> Intent]
    BY <1>0, <2>1, DeleteIntentTypes
  <2>4. job' \in [Jobs -> JobState]
    BY <1>4, IdleJobType DEF MissingFile, TypeOK
  <2> QED BY <1>4, <2>2, <2>3, <2>4 DEF MissingFile, TypeOK
<1>5. CASE MissingFile(j) /\ index[e] # None /\ Referring(e) # {}
  <2>1. job' = [job EXCEPT ![j] = Deleting("removing", e)] /\ Tick
    BY <1>5 DEF MissingFile
  <2>2. job' \in [Jobs -> JobState]
    BY <1>0, <2>1, DeletingTypes DEF TypeOK
  <2>3. clock' \in Nat
    BY <2>1 DEF Tick, Now, TypeOK
  <2> QED BY <1>5, <2>2, <2>3 DEF MissingFile, TypeOK, dbVars
<1>6. CASE HashFile(j)
  <2>1. row[e] \in Content \cup {None}
    BY <1>0 DEF TypeOK
  <2>2. PICK hash \in Content \cup {None} :
          hash = IF index[e] = None THEN None ELSE index[e].hash
    <3>1. index[e] # None => index[e] \in IndexRow
      BY <1>0 DEF TypeOK
    <3> QED BY <3>1 DEF IndexRow
  <2>3. [job[j] EXCEPT !.pc = "hashing", !.seenRow = row[e], !.seenHash = hash]
          \in JobState
    BY <1>0, <2>1 DEF JobState
  <2>4. job' = [job EXCEPT ![j] = [job[j] EXCEPT !.pc = "hashing", !.seenRow = row[e],
                                                !.seenHash = hash]]
    BY <1>6, <2>2 DEF HashFile, TypeOK
  <2>5. job' \in [Jobs -> JobState]
    BY <2>3, <2>4 DEF TypeOK
  <2> QED BY <1>6, <2>5 DEF HashFile, TypeOK, dbVars, worldVars
<1>7. CASE ObserveBaseline(j)
  <2>1. index' \in [Entries -> IndexRow \cup {None}]
    BY <1>0, <1>7, IndexTypes DEF ObserveBaseline
  <2>2. job' \in [Jobs -> JobState]
    BY <1>7, IdleJobType DEF ObserveBaseline, TypeOK
  <2> QED BY <1>7, <2>1, <2>2 DEF ObserveBaseline, TypeOK, worldVars
<1>8. CASE RejectStaleFile(j)
  <2>1. outbox' \in [Entries -> Intent] /\ job' \in [Jobs -> JobState]
    BY <1>0, <1>8, TryTypes DEF RejectStaleFile
  <2> QED BY <1>8, <2>1 DEF RejectStaleFile, TypeOK, worldVars
<1>9. CASE Import(j)
  <2>1. job[j].seen \in Content
    BY <1>0, <1>9 DEF Import
  <2>2. [hash |-> job[j].seen, mirror |-> job[j].seen] \in IndexRow
    BY <2>1 DEF IndexRow
  <2>3. /\ row' \in [Entries -> Content \cup {None}]
        /\ index' \in [Entries -> IndexRow \cup {None}]
    BY <1>0, <1>9, <2>1, <2>2 DEF Import, TypeOK
  <2>4. absorbed' \in SUBSET Nat
    BY <1>9, <2>1 DEF Import, TypeOK, Content
  <2>5. job' \in [Jobs -> JobState]
    BY <1>9, IdleJobType DEF Import, TypeOK
  <2> QED BY <1>9, <2>3, <2>4, <2>5 DEF Import, TypeOK
<1> QED BY <1>1, <1>2, <1>3, <1>4, <1>5, <1>6, <1>7, <1>8, <1>9

\* What happens outside keeps the types.
LEMMA WorldTypes ==
  ASSUME TypeOK, \/ \E e \in Entries : EditFile(e) \/ RemoveFile(e)
                 \/ Crash
  PROVE  TypeOK'
<1>1. ASSUME NEW e \in Entries, EditFile(e)
      PROVE  TypeOK'
  <2>1. edits' = edits + 1
    BY <1>1 DEF EditFile
  <2>2. PICK t \in IF file[e] = None THEN 1..clock ELSE {file[e].stamp} :
          file' = [file EXCEPT ![e] = [stamp |-> t, edit |-> edits']]
    BY <1>1 DEF EditFile
  <2>3. t \in Nat
    BY <2>2 DEF TypeOK, Content
  <2>4. [stamp |-> t, edit |-> edits'] \in Content /\ edits' \in Nat
    BY <2>1, <2>3 DEF Content, TypeOK
  <2>5. file' \in [Entries -> Content \cup {None}]
    BY <2>2, <2>4 DEF TypeOK
  <2> QED BY <1>1, <2>4, <2>5 DEF EditFile, TypeOK, dbVars
<1>2. ASSUME NEW e \in Entries, RemoveFile(e)
      PROVE  TypeOK'
  BY <1>2 DEF RemoveFile, TypeOK, dbVars
<1>3. CASE Crash
  BY <1>3, IdleJobType DEF Crash, TypeOK, dbVars
<1> QED BY <1>1, <1>2, <1>3

-----------------------------------------------------------------------------
(***************************************************************************)
(* Types are kept because a request that waits for a hash has what it will *)
(* write, and because that does not change while it waits.                 *)
(***************************************************************************)
Carried(k) ==
  /\ job[k].pc = "saving" => job[k].put \in Content
  /\ job[k].pc = "hashing" => job[k].seen \in Content

TypeInv == TypeOK /\ \A k \in Jobs : Carried(k)

\* The pc a step leaves a request at.
LEMMA PlainPcs ==
  /\ IdleJob.pc = "idle"
  /\ \A i, todo : Attempting(i, todo).pc = "waiting"
  /\ \A todo : Continued(todo).pc \in {"idle", "loop"}
  /\ \A pc, e : Deleting(pc, e).pc = pc
  BY DEF IdleJob, Attempting, Continued, Deleting

\* Only Update and HashFile begin a wait for a hash that is written.
LEMMA WaitsBegin ==
  ASSUME TypeOK, Next, NEW k \in Jobs, job'[k] # job[k],
         job'[k].pc \in {"saving", "hashing"}
  PROVE  \/ \E e \in Entries : Update(k, e)
         \/ HashFile(k)
<1>1. CASE Crash
  BY <1>1, PlainPcs DEF Crash
<1>2. ASSUME NEW e \in Entries, EditFile(e) \/ RemoveFile(e)
      PROVE  FALSE
  BY <1>2 DEF EditFile, RemoveFile
<1>3. ASSUME NEW j \in Jobs, NEW e \in Entries, Create(j, e) \/ Delete(j, e) \/ ReadFile(j, e)
      PROVE  FALSE
  <2>1. PICK new : job' = [job EXCEPT ![j] = new] /\ new.pc \notin {"saving", "hashing"}
    <3>1. CASE Create(j, e)
      BY <3>1, PlainPcs DEF Create
    <3>2. CASE Delete(j, e)
      BY <3>2, PlainPcs DEF Delete
    <3>3. CASE ReadFile(j, e)
      <4>1. [IdleJob EXCEPT !.pc = "read", !.seen = file[e],
               !.at = [entry |-> e, op |-> "upsert", rev |-> 0]].pc = "read"
        BY DEF IdleJob
      <4> QED BY <3>3, <4>1 DEF ReadFile
    <3> QED BY <1>3, <3>1, <3>2, <3>3
  <2> QED BY <2>1 DEF TypeOK
<1>4. ASSUME NEW j \in Jobs,
             \/ Drain(j) \/ UpdateCommits(j) \/ DeleteCommits(j) \/ EnqueueCleaned(j)
             \/ MissingFile(j) \/ RemovalCommits(j)
             \/ ObserveBaseline(j) \/ Import(j)
      PROVE  FALSE
  <2>1. PICK new : job' = [job EXCEPT ![j] = new] /\ new.pc \notin {"saving", "hashing"}
    <3>1. CASE Drain(j) \/ UpdateCommits(j) \/ EnqueueCleaned(j)
      BY <3>1, PlainPcs DEF Drain, UpdateCommits, EnqueueCleaned
    <3>2. CASE DeleteCommits(j)
      BY <3>2, PlainPcs DEF DeleteCommits, TypeOK
    <3>3. CASE MissingFile(j)
      BY <3>3, PlainPcs DEF MissingFile
    <3>4. CASE RemovalCommits(j) \/ ObserveBaseline(j) \/ Import(j)
      BY <3>4, PlainPcs DEF RemovalCommits, ObserveBaseline, Import
    <3> QED BY <1>4, <3>1, <3>2, <3>3, <3>4
  <2> QED BY <2>1 DEF TypeOK
<1>5. ASSUME NEW j \in Jobs, ReplayIntent(j) \/ RejectStaleFile(j)
      PROVE  FALSE
  <2>1. PICK new : job' = [job EXCEPT ![j] = new] /\ new.pc \notin {"saving", "hashing"}
    BY <1>5, PlainPcs DEF ReplayIntent, RejectStaleFile, Try
  <2> QED BY <2>1 DEF TypeOK
<1>6. ASSUME NEW j \in Jobs, NextAttempt(j) \/ Check(j) \/ Spawn(j) \/ Finish(j)
      PROVE  FALSE
  <2>1. PICK new : job' = [job EXCEPT ![j] = new] /\ new.pc \notin {"saving", "hashing"}
    <3>0. job[j] \in JobState
      BY PartTypes
    <3>1. CASE NextAttempt(j)
      BY <3>1, PlainPcs DEF NextAttempt
    <3>2. CASE Check(j)
      <4>1. [job[j] EXCEPT !.pc = "checked"].pc = "checked"
        BY <3>0 DEF JobState
      <4>2. job' = [job EXCEPT ![j] = IF IsCurrent(job[j].at)
                                      THEN [job[j] EXCEPT !.pc = "checked"]
                                      ELSE Continued(job[j].todo)]
        BY <3>2 DEF Check, TypeOK
      <4> QED BY <4>1, <4>2, PlainPcs
    <3>3. CASE Spawn(j)
      <4>1. PICK put, base :
              \/ job' = [job EXCEPT ![j] = Continued(job[j].todo)]
              \/ job' = [job EXCEPT ![j] = [job[j] EXCEPT !.pc = "helper", !.put = put,
                                                          !.base = base]]
        BY <3>3 DEF Spawn, TypeOK
      <4>2. [job[j] EXCEPT !.pc = "helper", !.put = put, !.base = base].pc = "helper"
        BY <3>0 DEF JobState
      <4> QED BY <4>1, <4>2, PlainPcs
    <3>4. CASE Finish(j)
      BY <3>4, PlainPcs DEF Finish, TypeOK
    <3> QED BY <1>6, <3>1, <3>2, <3>3, <3>4
  <2> QED BY <2>1 DEF TypeOK
<1>7. ASSUME NEW j \in Jobs, HelperAnswers(j) \/ HelperFails(j)
      PROVE  FALSE
  <2>1. PICK result : job' = [job EXCEPT ![j].pc = "answered", ![j].result = result]
    BY <1>7 DEF HelperAnswers, HelperFails
  <2> QED BY <2>1, PartTypes DEF TypeOK, JobState
<1>8. ASSUME NEW j \in Jobs, NEW e \in Entries, Update(j, e)
      PROVE  j = k
  BY <1>8 DEF Update, TypeOK
<1>9. ASSUME NEW j \in Jobs, HashFile(j)
      PROVE  j = k
  BY <1>9 DEF HashFile, TypeOK
<1> QED BY <1>1, <1>2, <1>3, <1>4, <1>5, <1>6, <1>7, <1>8, <1>9
        DEF Next, WriteStep, ReconcileStep

\* Every step keeps the types.
LEMMA NextTypes == TypeInv /\ [Next]_vars => TypeInv'
<1> SUFFICES ASSUME TypeInv, [Next]_vars PROVE TypeInv'
  OBVIOUS
<1>0. TypeOK /\ \A k \in Jobs : Carried(k)
  BY DEF TypeInv
<1>1. CASE UNCHANGED vars
  BY <1>0, <1>1 DEF TypeInv, TypeOK, Carried, vars
<1>2. CASE Next
  <2>1. TypeOK'
    <3>1. ASSUME NEW j \in Jobs, NEW e \in Entries,
                 Create(j, e) \/ Update(j, e) \/ Delete(j, e)
          PROVE  TypeOK'
      BY <1>0, <3>1, AuthorTypes
    <3>2. ASSUME NEW j \in Jobs,
                 \/ UpdateCommits(j) \/ DeleteCommits(j) \/ RemovalCommits(j)
                 \/ EnqueueCleaned(j)
          PROVE  TypeOK'
      BY <1>0, <3>2, CommitTypes DEF Carried
    <3>3. ASSUME NEW j \in Jobs,
                 \/ Drain(j) \/ NextAttempt(j) \/ Check(j) \/ Spawn(j)
                 \/ HelperAnswers(j) \/ HelperFails(j) \/ Finish(j)
          PROVE  TypeOK'
      BY <1>0, <3>3, AttemptTypes
    <3>4. ASSUME NEW j \in Jobs, NEW e \in Entries, ReadFile(j, e)
          PROVE  TypeOK'
      BY <1>0, <3>4, ReconcileTypes DEF Carried
    <3>5. ASSUME NEW j \in Jobs,
                 \/ ReplayIntent(j) \/ MissingFile(j) \/ HashFile(j)
                 \/ ObserveBaseline(j) \/ RejectStaleFile(j) \/ Import(j)
          PROVE  TypeOK'
      <4>1. PICK e \in Entries : TRUE
        BY EntriesAssumption
      <4> QED BY <1>0, <3>5, ReconcileTypes DEF Carried
    <3> QED BY <1>0, <1>2, <3>1, <3>2, <3>3, <3>4, <3>5, WorldTypes
            DEF Next, WriteStep, ReconcileStep
  <2>2. ASSUME NEW k \in Jobs PROVE Carried(k)'
    <3>1. CASE job'[k] = job[k]
      BY <1>0, <3>1 DEF Carried
    <3>2. CASE job'[k].pc \notin {"saving", "hashing"}
      BY <3>2 DEF Carried
    <3>3. ASSUME NEW e \in Entries, Update(k, e) PROVE Carried(k)'
      <4>1. Rendered(Now) \in Content
        BY <1>0, RenderedType DEF Now, TypeOK
      <4>2. job'[k] = [IdleJob EXCEPT !.pc = "saving", !.at = [AnItem EXCEPT !.entry = e],
                                      !.put = Rendered(Now)]
        BY <1>0, <3>3 DEF Update, TypeOK
      <4>3. job'[k].pc = "saving" /\ job'[k].put = Rendered(Now)
        BY <4>2 DEF IdleJob
      <4> QED BY <4>1, <4>3 DEF Carried
    <3>4. CASE HashFile(k)
      <4>1. job[k].seen \in Content
        BY <1>0, <3>4, PartTypes DEF HashFile, Markdown
      <4>2. job'[k].pc = "hashing" /\ job'[k].seen = job[k].seen
        BY <1>0, <3>4, PartTypes DEF HashFile, TypeOK, JobState
      <4> QED BY <4>1, <4>2 DEF Carried
    <3> QED BY <1>0, <1>2, <3>1, <3>2, <3>3, <3>4, WaitsBegin
  <2> QED BY <2>1, <2>2 DEF TypeInv
<1> QED BY <1>1, <1>2

\* Every variable keeps its type: intents are pending or tombstones, and a
\* request never holds what is not Markdown.
THEOREM TypeCorrect == Spec => []TypeOK
<1>1. Init => TypeInv
  <2> SUFFICES ASSUME Init PROVE TypeInv
    OBVIOUS
  <2>1. \A k \in Jobs : job[k].pc = "idle"
    BY PlainPcs DEF Init
  <2> QED BY <2>1, InitTypeOK DEF TypeInv, Carried
<1>2. TypeInv => TypeOK
  BY DEF TypeInv
<1> QED BY <1>1, <1>2, NextTypes, PTL DEF Spec

-----------------------------------------------------------------------------
(***************************************************************************)
(* External edits are kept.  The bytes an attempt takes for its baseline   *)
(* come from the index, the index has them from rows that were written,    *)
(* from files that were imported, or from files found to have the hash of  *)
(* the last import.  So what is inductive is that everything the database  *)
(* and the requests hold that could become a baseline has been absorbed;   *)
(* what a request has merely seen in a file (seen) has not.                *)
(***************************************************************************)
HeldIn(c, a) == c # None => c.edit \in a \cup {0}

IndexHeld(x, a) == x # None => HeldIn(x.hash, a) /\ HeldIn(x.mirror, a)

JobHeld(x, a) == HeldIn(x.put, a) /\ HeldIn(x.base, a) /\ HeldIn(x.seenHash, a)

DbHeld(a) == \A e \in Entries : HeldIn(row[e], a) /\ IndexHeld(index[e], a)

JobsHeld(a) == \A k \in Jobs : JobHeld(job[k], a)

HeldInv == TypeInv /\ DbHeld(absorbed) /\ JobsHeld(absorbed)

\* What is rendered is nobody's edit; requests that begin hold nothing.
LEMMA HeldValues ==
  /\ \A a : HeldIn(None, a)
  /\ \A a, t : HeldIn(Rendered(t), a)
  /\ \A a : JobHeld(IdleJob, a)
  /\ \A a, i, todo : JobHeld(Attempting(i, todo), a)
  /\ \A a, todo : JobHeld(Continued(todo), a)
  /\ \A a, pc, e : JobHeld(Deleting(pc, e), a)
  BY DEF HeldIn, JobHeld, Rendered, IdleJob, Attempting, Continued, Deleting

\* The mirror of an index row that is held is held.
LEMMA HeldMirror ==
  ASSUME NEW a, DbHeld(a), NEW e \in Entries
  PROVE  /\ HeldIn(Mirror(e), a)
         /\ IndexHeld(Indexed(e, None), a)
  BY DEF DbHeld, IndexHeld, HeldIn, Mirror, Indexed

\* Observing bytes that are held keeps the index held.
LEMMA HeldObserved ==
  ASSUME TypeOK, NEW a, DbHeld(a), NEW e \in Entries, NEW c, HeldIn(c, a)
  PROVE  \A f \in Entries : IndexHeld(Observed(e, c)[f], a)
<1>1. CASE index[e] = None
  BY <1>1 DEF Observed, DbHeld
<1>2. CASE index[e] # None
  <2>1. index[e] \in IndexRow
    BY <1>2 DEF TypeOK
  <2>2. /\ [index[e] EXCEPT !.mirror = c].mirror = c
        /\ [index[e] EXCEPT !.mirror = c].hash = index[e].hash
    BY <2>1 DEF IndexRow
  <2>3. IndexHeld([index[e] EXCEPT !.mirror = c], a)
    BY <1>2, <2>2 DEF IndexHeld, DbHeld
  <2>4. Observed(e, c) = [index EXCEPT ![e] = [index[e] EXCEPT !.mirror = c]]
    BY <1>2 DEF Observed, TypeOK
  <2> QED BY <2>3, <2>4 DEF DbHeld, TypeOK
<1> QED BY <1>1, <1>2

\* A step that writes one request only keeps the requests held.
LEMMA OneJob ==
  ASSUME TypeOK, NEW a, JobsHeld(a), NEW j \in Jobs, NEW new, JobHeld(new, a),
         job' = [job EXCEPT ![j] = new]
  PROVE  \A k \in Jobs : JobHeld(job'[k], a)
  BY DEF JobsHeld, TypeOK

\* The author's steps.
LEMMA AuthorHolds ==
  ASSUME HeldInv, NEW j \in Jobs, NEW e \in Entries,
         Create(j, e) \/ Update(j, e) \/ Delete(j, e)
  PROVE  DbHeld(absorbed)' /\ JobsHeld(absorbed)'
<1>0. TypeOK /\ DbHeld(absorbed) /\ JobsHeld(absorbed)
  BY DEF HeldInv, TypeInv
<1>1. CASE Create(j, e)
  <2>1. absorbed' = absorbed /\ SavedInDb(e, Rendered(Now))
        /\ job' = [job EXCEPT ![j] = Attempting(ItemOf(e), {})]
    BY <1>1 DEF Create
  <2>2. JobsHeld(absorbed)'
    BY <1>0, <2>1, HeldValues, OneJob DEF JobsHeld
  <2>3. DbHeld(absorbed)'
    BY <1>0, <2>1, HeldValues, HeldMirror DEF SavedInDb, DbHeld, TypeOK
  <2> QED BY <2>2, <2>3
<1>2. CASE Update(j, e)
  <2> DEFINE new == [IdleJob EXCEPT !.pc = "saving", !.at = [AnItem EXCEPT !.entry = e],
                                    !.put = Rendered(Now)]
  <2>1. /\ absorbed' = absorbed /\ UNCHANGED dbVars
        /\ job' = [job EXCEPT ![j] = new]
    BY <1>2 DEF Update
  <2>2. new.put = Rendered(Now) /\ new.base = None /\ new.seenHash = None
    BY DEF IdleJob
  <2>3. JobHeld(new, absorbed)
    BY <2>2, HeldValues DEF JobHeld
  <2>4. JobsHeld(absorbed)'
    <3> HIDE DEF new
    <3> QED BY <1>0, <2>1, <2>3, OneJob DEF JobsHeld
  <2>5. DbHeld(absorbed)'
    BY <1>0, <2>1 DEF DbHeld, dbVars
  <2> QED BY <2>4, <2>5
<1>3. CASE Delete(j, e)
  <2>1. absorbed' = absorbed
    BY <1>3 DEF Delete
  <2>2. PICK new : job' = [job EXCEPT ![j] = new] /\ JobHeld(new, absorbed)
    BY <1>3, HeldValues DEF Delete
  <2>3. JobsHeld(absorbed)'
    BY <1>0, <2>1, <2>2, OneJob DEF JobsHeld
  <2>4. DeletedInDb(e, {}, None) \/ UNCHANGED dbVars
    BY <1>3 DEF Delete
  <2>5. DbHeld(absorbed)'
    BY <1>0, <2>1, <2>4, HeldValues DEF DeletedInDb, DbHeld, IndexHeld, dbVars
  <2> QED BY <2>3, <2>5
<1> QED BY <1>1, <1>2, <1>3

\* The transactions of the requests.
LEMMA CommitHolds ==
  ASSUME HeldInv, NEW j \in Jobs,
         UpdateCommits(j) \/ DeleteCommits(j) \/ RemovalCommits(j) \/ EnqueueCleaned(j)
  PROVE  DbHeld(absorbed)' /\ JobsHeld(absorbed)'
<1> DEFINE e == job[j].at.entry
           refs == {i.entry : i \in job[j].todo}
<1>0. TypeOK /\ DbHeld(absorbed) /\ JobsHeld(absorbed)
  BY DEF HeldInv, TypeInv
<1>1. absorbed' = absorbed
  BY DEF UpdateCommits, DeleteCommits, RemovalCommits, EnqueueCleaned, worldVars
<1>2. e \in Entries /\ HeldIn(job[j].put, absorbed)
  BY <1>0, PartTypes DEF JobsHeld, JobHeld
<1>3. PICK new : job' = [job EXCEPT ![j] = new] /\ JobHeld(new, absorbed)
  <2>1. CASE UpdateCommits(j) \/ RemovalCommits(j) \/ EnqueueCleaned(j)
    BY <2>1, HeldValues DEF UpdateCommits, RemovalCommits, EnqueueCleaned
  <2>2. CASE DeleteCommits(j)
    BY <1>0, <2>2, HeldValues DEF DeleteCommits, TypeOK
  <2> QED BY <2>1, <2>2
<1>4. JobsHeld(absorbed)'
  BY <1>0, <1>1, <1>3, OneJob DEF JobsHeld
<1>5. SavedInDb(e, job[j].put) \/ DeletedInDb(e, refs, job[j].put) \/ UNCHANGED <<row, index>>
  BY DEF UpdateCommits, DeleteCommits, RemovalCommits, EnqueueCleaned, dbVars
<1>6. DbHeld(absorbed)'
  <2>1. CASE SavedInDb(e, job[j].put)
    BY <1>0, <1>1, <1>2, <2>1, HeldMirror DEF SavedInDb, DbHeld, TypeOK
  <2>2. CASE DeletedInDb(e, refs, job[j].put)
    <3> HIDE DEF refs
    <3>1. \A f \in Entries : IndexHeld(Indexed(f, None), absorbed)
      BY <1>0, HeldMirror
    <3>2. HeldIn(None, absorbed) /\ IndexHeld(None, absorbed)
      BY HeldValues DEF IndexHeld
    <3>3. \A f \in Entries : row'[f] \in {None, job[j].put, row[f]}
      BY <2>2 DEF DeletedInDb
    <3>4. \A f \in Entries : index'[f] \in {None, Indexed(f, None), index[f]}
      BY <2>2 DEF DeletedInDb
    <3> QED BY <1>0, <1>1, <1>2, <3>1, <3>2, <3>3, <3>4 DEF DbHeld
  <2>3. CASE UNCHANGED <<row, index>>
    BY <1>0, <1>1, <2>3 DEF DbHeld
  <2> QED BY <1>5, <2>1, <2>2, <2>3
<1> QED BY <1>4, <1>6

\* The drain and the attempts.
LEMMA AttemptHolds ==
  ASSUME HeldInv, NEW j \in Jobs,
         \/ Drain(j) \/ NextAttempt(j) \/ Check(j) \/ Spawn(j)
         \/ HelperAnswers(j) \/ HelperFails(j) \/ Finish(j)
  PROVE  DbHeld(absorbed)' /\ JobsHeld(absorbed)'
<1>0. TypeOK /\ DbHeld(absorbed) /\ JobsHeld(absorbed)
  BY DEF HeldInv, TypeInv
<1>1. absorbed' = absorbed
  BY DEF Drain, NextAttempt, Check, Spawn, HelperAnswers, HelperFails, Finish, worldVars
<1>2. job[j] \in JobState /\ job[j].at.entry \in Entries /\ JobHeld(job[j], absorbed)
  BY <1>0, PartTypes DEF JobsHeld
<1>3. PICK new : job' = [job EXCEPT ![j] = new] /\ JobHeld(new, absorbed)
  <2>1. CASE Drain(j) \/ NextAttempt(j)
    BY <2>1, HeldValues DEF Drain, NextAttempt
  <2>2. CASE Check(j)
    <3>1. JobHeld([job[j] EXCEPT !.pc = "checked"], absorbed)
      BY <1>2 DEF JobHeld, JobState
    <3>2. job' = [job EXCEPT ![j] = IF IsCurrent(job[j].at)
                                    THEN [job[j] EXCEPT !.pc = "checked"]
                                    ELSE Continued(job[j].todo)]
      BY <1>0, <2>2 DEF Check, TypeOK
    <3> QED BY <3>1, <3>2, HeldValues
  <2>3. CASE Spawn(j)
    <3>1. PICK put \in {row[job[j].at.entry], None} :
            \/ job' = [job EXCEPT ![j] = Continued(job[j].todo)]
            \/ job' = [job EXCEPT ![j] = [job[j] EXCEPT !.pc = "helper", !.put = put,
                                              !.base = Mirror(job[j].at.entry)]]
      BY <1>0, <2>3 DEF Spawn, TypeOK
    <3>2. HeldIn(put, absorbed) /\ HeldIn(Mirror(job[j].at.entry), absorbed)
      BY <1>0, <1>2, HeldValues, HeldMirror DEF DbHeld
    <3>3. JobHeld([job[j] EXCEPT !.pc = "helper", !.put = put,
                                 !.base = Mirror(job[j].at.entry)], absorbed)
      BY <1>2, <3>2 DEF JobHeld, JobState
    <3> QED BY <3>1, <3>3, HeldValues
  <2>4. CASE HelperAnswers(j) \/ HelperFails(j)
    <3>1. PICK result : job' = [job EXCEPT ![j].pc = "answered", ![j].result = result]
      BY <2>4 DEF HelperAnswers, HelperFails
    <3>2. job' = [job EXCEPT ![j] = [job[j] EXCEPT !.pc = "answered", !.result = result]]
      BY <1>0, <3>1 DEF TypeOK
    <3>3. JobHeld([job[j] EXCEPT !.pc = "answered", !.result = result], absorbed)
      BY <1>2 DEF JobHeld, JobState
    <3> QED BY <3>2, <3>3
  <2>5. CASE Finish(j)
    BY <1>0, <2>5, HeldValues DEF Finish, TypeOK
  <2> QED BY <2>1, <2>2, <2>3, <2>4, <2>5
<1>4. JobsHeld(absorbed)'
  BY <1>0, <1>1, <1>3, OneJob DEF JobsHeld
<1>5. row' = row
  BY DEF Drain, NextAttempt, Check, Spawn, HelperAnswers, HelperFails, Finish, dbVars
<1>6. index' = index \/ index' = Observed(job[j].at.entry, job[j].put)
  BY DEF Drain, NextAttempt, Check, Spawn, HelperAnswers, HelperFails, Finish, dbVars
<1>7. DbHeld(absorbed)'
  <2>1. \A f \in Entries : IndexHeld(Observed(job[j].at.entry, job[j].put)[f], absorbed)
    BY <1>0, <1>2, HeldObserved DEF JobHeld
  <2> QED BY <1>0, <1>1, <1>5, <1>6, <2>1 DEF DbHeld
<1> QED BY <1>4, <1>7

\* The reconcile.  Only the import takes in something it has merely seen.
LEMMA ReconcileHolds ==
  ASSUME HeldInv, NEW j \in Jobs, NEW f \in Entries,
         \/ ReadFile(j, f) \/ ReplayIntent(j) \/ MissingFile(j) \/ HashFile(j)
         \/ ObserveBaseline(j) \/ RejectStaleFile(j) \/ Import(j)
  PROVE  DbHeld(absorbed)' /\ JobsHeld(absorbed)'
<1> DEFINE e == job[j].at.entry
<1>0. TypeOK /\ DbHeld(absorbed) /\ JobsHeld(absorbed)
  BY DEF HeldInv, TypeInv
<1>a. job[j] \in JobState /\ e \in Entries /\ JobHeld(job[j], absorbed)
  BY <1>0, PartTypes DEF JobsHeld
<1>1. CASE ReadFile(j, f)
  <2>1. JobHeld([IdleJob EXCEPT !.pc = "read", !.seen = file[f],
                   !.at = [entry |-> f, op |-> "upsert", rev |-> 0]], absorbed)
    BY DEF JobHeld, IdleJob, HeldIn
  <2>2. absorbed' = absorbed /\ UNCHANGED dbVars
    BY <1>1 DEF ReadFile, worldVars
  <2>3. JobsHeld(absorbed)'
    BY <1>0, <1>1, <2>1, <2>2, OneJob DEF ReadFile, JobsHeld
  <2> QED BY <1>0, <2>2, <2>3 DEF DbHeld, dbVars
<1>2. CASE ReplayIntent(j) \/ RejectStaleFile(j)
  <2>1. absorbed' = absorbed /\ UNCHANGED <<row, index>>
    BY <1>2 DEF ReplayIntent, RejectStaleFile, worldVars
  <2>2. PICK new : job' = [job EXCEPT ![j] = new] /\ JobHeld(new, absorbed)
    BY <1>2, HeldValues DEF ReplayIntent, RejectStaleFile, Try
  <2>3. JobsHeld(absorbed)'
    BY <1>0, <2>1, <2>2, OneJob DEF JobsHeld
  <2> QED BY <1>0, <2>1, <2>3 DEF DbHeld
<1>3. CASE MissingFile(j)
  <2>1. absorbed' = absorbed
    BY <1>3 DEF MissingFile
  <2>2. PICK new : job' = [job EXCEPT ![j] = new] /\ JobHeld(new, absorbed)
    BY <1>3, HeldValues DEF MissingFile
  <2>3. JobsHeld(absorbed)'
    BY <1>0, <2>1, <2>2, OneJob DEF JobsHeld
  <2>4. DeletedInDb(e, {}, None) \/ UNCHANGED dbVars
    BY <1>3 DEF MissingFile
  <2>5. DbHeld(absorbed)'
    BY <1>0, <2>1, <2>4, HeldValues DEF DeletedInDb, DbHeld, IndexHeld, dbVars
  <2> QED BY <2>3, <2>5
<1>4. CASE HashFile(j)
  <2>1. absorbed' = absorbed /\ UNCHANGED dbVars
    BY <1>4 DEF HashFile, worldVars
  <2>2. PICK hash : hash = IF index[e] = None THEN None ELSE index[e].hash
    OBVIOUS
  <2>3. HeldIn(hash, absorbed)
    BY <1>0, <1>a, <2>2, HeldValues DEF DbHeld, IndexHeld
  <2>4. job' = [job EXCEPT ![j] = [job[j] EXCEPT !.pc = "hashing", !.seenRow = row[e],
                                                !.seenHash = hash]]
    BY <1>0, <1>4, <2>2 DEF HashFile, TypeOK
  <2>5. JobHeld([job[j] EXCEPT !.pc = "hashing", !.seenRow = row[e],
                               !.seenHash = hash], absorbed)
    BY <1>a, <2>3 DEF JobHeld, JobState
  <2>6. JobsHeld(absorbed)'
    BY <1>0, <2>1, <2>4, <2>5, OneJob DEF JobsHeld
  <2> QED BY <1>0, <2>1, <2>6 DEF DbHeld, dbVars
<1>5. CASE ObserveBaseline(j)
  <2>1. /\ absorbed' = absorbed /\ row' = row
        /\ index' = Observed(e, job[j].seen)
        /\ job[j].seenHash = job[j].seen
        /\ job' = [job EXCEPT ![j] = IdleJob]
    BY <1>5 DEF ObserveBaseline, AlreadyImported, worldVars
  <2>2. HeldIn(job[j].seen, absorbed)
    BY <1>a, <2>1 DEF JobHeld
  <2>3. \A g \in Entries : IndexHeld(Observed(e, job[j].seen)[g], absorbed)
    BY <1>0, <1>a, <2>2, HeldObserved
  <2>4. JobsHeld(absorbed)'
    BY <1>0, <2>1, HeldValues, OneJob DEF JobsHeld
  <2> QED BY <1>0, <2>1, <2>3, <2>4 DEF DbHeld
<1>6. CASE Import(j)
  <2> DEFINE c == job[j].seen
  <2>1. /\ absorbed' = absorbed \cup {c.edit}
        /\ row' = [row EXCEPT ![e] = c]
        /\ index' = [index EXCEPT ![e] = [hash |-> c, mirror |-> c]]
        /\ job' = [job EXCEPT ![j] = IdleJob]
    BY <1>6 DEF Import
  <2>2. \A x : HeldIn(x, absorbed) => HeldIn(x, absorbed')
    BY <2>1 DEF HeldIn
  <2>3. HeldIn(c, absorbed')
    BY <2>1 DEF HeldIn
  <2>4. IndexHeld([hash |-> c, mirror |-> c], absorbed')
    BY <2>3 DEF IndexHeld
  <2>5. DbHeld(absorbed')
    BY <1>0, <2>2 DEF DbHeld, IndexHeld
  <2>6. JobsHeld(absorbed')
    BY <1>0, <2>2 DEF JobsHeld, JobHeld
  <2>7. JobsHeld(absorbed)'
    BY <1>0, <2>1, <2>6, HeldValues, OneJob DEF JobsHeld
  <2>8. DbHeld(absorbed)'
    <3> HIDE DEF c
    <3> QED BY <1>0, <2>1, <2>3, <2>4, <2>5 DEF DbHeld, TypeOK
  <2> QED BY <2>7, <2>8
<1> QED BY <1>1, <1>2, <1>3, <1>4, <1>5, <1>6

\* The invariant.
LEMMA HeldInvariant == Spec => []HeldInv
<1>1. Init => HeldInv
  <2> SUFFICES ASSUME Init PROVE HeldInv
    OBVIOUS
  <2>1. TypeInv
    <3>1. \A k \in Jobs : job[k].pc = "idle"
      BY PlainPcs DEF Init
    <3> QED BY <3>1, InitTypeOK DEF TypeInv, Carried
  <2>2. DbHeld(absorbed) /\ JobsHeld(absorbed)
    BY HeldValues DEF Init, DbHeld, JobsHeld, IndexHeld
  <2> QED BY <2>1, <2>2 DEF HeldInv
<1>2. HeldInv /\ [Next]_vars => HeldInv'
  <2> SUFFICES ASSUME HeldInv, [Next]_vars PROVE HeldInv'
    OBVIOUS
  <2>0. TypeInv /\ DbHeld(absorbed) /\ JobsHeld(absorbed)
    BY DEF HeldInv
  <2>1. TypeInv'
    BY <2>0, NextTypes
  <2>2. CASE UNCHANGED vars
    BY <2>0, <2>1, <2>2 DEF HeldInv, DbHeld, JobsHeld, vars
  <2>3. CASE Next
    <3>1. CASE Crash
      <4>1. absorbed' = absorbed /\ UNCHANGED dbVars /\ job' = [j \in Jobs |-> IdleJob]
        BY <3>1 DEF Crash
      <4> QED BY <2>0, <2>1, <4>1, HeldValues DEF HeldInv, DbHeld, JobsHeld, dbVars
    <3>2. ASSUME NEW e \in Entries, EditFile(e) \/ RemoveFile(e)
          PROVE  HeldInv'
      <4>1. absorbed' = absorbed /\ UNCHANGED dbVars /\ job' = job
        BY <3>2 DEF EditFile, RemoveFile
      <4> QED BY <2>0, <2>1, <4>1 DEF HeldInv, DbHeld, JobsHeld, dbVars
    <3>3. ASSUME NEW j \in Jobs, NEW e \in Entries,
                 Create(j, e) \/ Update(j, e) \/ Delete(j, e)
          PROVE  HeldInv'
      BY <2>1, <3>3, AuthorHolds DEF HeldInv
    <3>4. ASSUME NEW j \in Jobs,
                 \/ UpdateCommits(j) \/ DeleteCommits(j) \/ RemovalCommits(j)
                 \/ EnqueueCleaned(j)
          PROVE  HeldInv'
      BY <2>1, <3>4, CommitHolds DEF HeldInv
    <3>5. ASSUME NEW j \in Jobs,
                 \/ Drain(j) \/ NextAttempt(j) \/ Check(j) \/ Spawn(j)
                 \/ HelperAnswers(j) \/ HelperFails(j) \/ Finish(j)
          PROVE  HeldInv'
      BY <2>1, <3>5, AttemptHolds DEF HeldInv
    <3>6. ASSUME NEW j \in Jobs, NEW e \in Entries, ReadFile(j, e)
          PROVE  HeldInv'
      BY <2>1, <3>6, ReconcileHolds DEF HeldInv
    <3>7. ASSUME NEW j \in Jobs,
                 \/ ReplayIntent(j) \/ MissingFile(j) \/ HashFile(j)
                 \/ ObserveBaseline(j) \/ RejectStaleFile(j) \/ Import(j)
          PROVE  HeldInv'
      <4>1. PICK e \in Entries : TRUE
        BY EntriesAssumption
      <4> QED BY <2>1, <3>7, ReconcileHolds DEF HeldInv
    <3> QED BY <2>3, <3>1, <3>2, <3>3, <3>4, <3>5, <3>6, <3>7
            DEF Next, WriteStep, ReconcileStep
  <2> QED BY <2>2, <2>3
<1> QED BY <1>1, <1>2, PTL DEF Spec

\* An attempt that moves a request from the child to its answer is the one
\* of that request.
LEMMA AnswerSteps ==
  ASSUME TypeOK, Next, NEW k \in Jobs,
         job[k].pc = "helper", job'[k].pc = "answered"
  PROVE  file' \in {file, Acted(k)}
<1>1. ASSUME NEW j \in Jobs, NEW new, j # k, job' = [job EXCEPT ![j] = new]
      PROVE  FALSE
  BY <1>1 DEF TypeOK
<1>2. CASE HelperAnswers(k) \/ HelperFails(k)
  BY <1>2 DEF HelperAnswers, HelperFails
<1>3. ASSUME NEW j \in Jobs, HelperAnswers(j) \/ HelperFails(j)
      PROVE  j = k
  <2>1. PICK result : job' = [job EXCEPT ![j].pc = "answered", ![j].result = result]
    BY <1>3 DEF HelperAnswers, HelperFails
  <2> QED BY <2>1 DEF TypeOK
<1>4. CASE UNCHANGED file
  BY <1>4
<1>5. CASE Crash
  BY <1>5 DEF Crash
<1>6. ASSUME NEW e \in Entries, EditFile(e) \/ RemoveFile(e)
      PROVE  FALSE
  BY <1>6 DEF EditFile, RemoveFile
<1>7. UNCHANGED file \/ Crash \/ (\E e \in Entries : EditFile(e) \/ RemoveFile(e))
      \/ \E j \in Jobs : HelperAnswers(j) \/ HelperFails(j)
  BY DEF Next, WriteStep, ReconcileStep, Create, Update, Delete, ReadFile, Drain,
         UpdateCommits, DeleteCommits, EnqueueCleaned, NextAttempt, Check, Spawn,
         Finish, ReplayIntent, MissingFile, RemovalCommits, HashFile,
         ObserveBaseline, RejectStaleFile, Import
<1> QED BY <1>2, <1>3, <1>4, <1>5, <1>6, <1>7

\* Writing an entry replaces an external edit only after the database has
\* absorbed it: the helper replaces nothing but the baseline, and a baseline
\* is held.
THEOREM ExternalEditsAreKept == Spec => ExternalEditsKept
<1> DEFINE KeptBy(j, e) ==
             /\ job[j].pc = "helper" /\ job'[j].pc = "answered"
             /\ job[j].at.entry = e /\ job[j].at.op = "upsert"
             /\ file[e] # None /\ file'[e] # file[e]
             => file[e].edit \in absorbed \cup {0}
<1>1. HeldInv /\ [Next]_vars => \A j \in Jobs, e \in Entries : KeptBy(j, e)
  <2> SUFFICES ASSUME HeldInv, [Next]_vars, NEW j \in Jobs, NEW e \in Entries,
                      job[j].pc = "helper", job'[j].pc = "answered",
                      job[j].at.entry = e, job[j].at.op = "upsert",
                      file[e] # None, file'[e] # file[e]
               PROVE  file[e].edit \in absorbed \cup {0}
    OBVIOUS
  <2>0. TypeOK /\ JobsHeld(absorbed)
    BY DEF HeldInv, TypeInv
  <2>1. Next
    BY DEF vars
  <2>2. file' = Acted(j) /\ ~Conflicts(j)
    BY <2>0, <2>1, AnswerSteps DEF Acted
  <2>3. file'[e] = job[j].put
    BY <2>0, <2>2 DEF Acted, TypeOK
  <2>4. file[e] = job[j].base
    BY <2>2, <2>3 DEF Conflicts, Replaceable
  <2>5. HeldIn(job[j].base, absorbed)
    BY <2>0 DEF JobsHeld, JobHeld
  <2> QED BY <2>4, <2>5 DEF HeldIn
<1>2. HeldInv /\ [Next]_vars
        => [\A j \in Jobs, e \in Entries : KeptBy(j, e)]_vars
  BY <1>1
<1> QED BY <1>2, HeldInvariant, PTL DEF Spec, ExternalEditsKept

-----------------------------------------------------------------------------
(***************************************************************************)
(* The steps again, by what they do to one request and to one entry.       *)
(***************************************************************************)
Locked == {"checked", "helper", "answered"}
Rooted == {"helper", "answered"}
Cleaning == {"deleting", "removing"}
Reading == {"read", "hashing"}

\* What a request can become: one without locks or dates to write, one that
\* dated a deletion, one that reconciles, or one that goes through its attempt.
Unlocked(new) == new.pc \notin Locked \cup Cleaning \cup Reading

Moves(k) ==
  \/ Unlocked(job'[k])
  \/ job'[k].pc \in Cleaning /\ job'[k].put = Rendered(Now) /\ Refers # {}
  \/ job'[k].pc \in Reading /\ (Reconciling \/ job[k].pc \in Reading)
  \/ /\ Check(k) /\ IsCurrent(job[k].at) /\ job[k].pc = "waiting"
     /\ job'[k].pc = "checked" /\ job'[k].at = job[k].at
  \/ /\ Spawn(k) /\ job[k].pc = "checked"
     /\ job[k].at.op = "upsert" => Known(job[k].at.entry)
     /\ job'[k].pc = "helper" /\ job'[k].at = job[k].at
     /\ job'[k].put = IF job[k].at.op = "upsert" THEN row[job[k].at.entry] ELSE None
  \/ /\ HelperAnswers(k) \/ HelperFails(k)
     /\ job[k].pc = "helper"
     /\ job'[k].pc = "answered" /\ job'[k].at = job[k].at /\ job'[k].put = job[k].put
     /\ job'[k].result = "written" => HelperAnswers(k) /\ ~Conflicts(k)

\* Requests without locks.
LEMMA UnlockedOnes ==
  /\ Unlocked(IdleJob)
  /\ \A i, todo : Unlocked(Attempting(i, todo))
  /\ \A todo : Unlocked(Continued(todo))
  BY PlainPcs DEF Unlocked, Locked, Cleaning, Reading

\* A step writes one request, or the process died.
LEMMA JobMoves ==
  ASSUME TypeOK, Next, NEW k \in Jobs, job'[k] # job[k]
  PROVE  Moves(k)
<1> USE UnlockedOnes
<1>0. job[k] \in JobState
  BY DEF TypeOK
<1>1. ASSUME NEW j \in Jobs, NEW new, job' = [job EXCEPT ![j] = new]
      PROVE  j = k /\ job'[k] = new
  BY <1>1 DEF TypeOK
<1>2. CASE Crash
  BY <1>2 DEF Crash, Moves
<1>3. ASSUME NEW e \in Entries, EditFile(e) \/ RemoveFile(e)
      PROVE  FALSE
  BY <1>3 DEF EditFile, RemoveFile
<1>4. ASSUME NEW j \in Jobs, NEW e \in Entries,
             Create(j, e) \/ Update(j, e) \/ ReadFile(j, e)
      PROVE  Moves(k)
  <2>1. CASE Create(j, e)
    BY <1>1, <2>1 DEF Create, Moves
  <2>2. CASE Update(j, e)
    <3>1. Unlocked([IdleJob EXCEPT !.pc = "saving", !.at = [AnItem EXCEPT !.entry = e],
                                   !.put = Rendered(Now)])
      BY DEF Unlocked, IdleJob, Locked, Cleaning, Reading
    <3> QED BY <1>1, <2>2, <3>1 DEF Update, Moves
  <2>3. CASE ReadFile(j, e)
    <3>1. [IdleJob EXCEPT !.pc = "read", !.seen = file[e],
             !.at = [entry |-> e, op |-> "upsert", rev |-> 0]].pc = "read"
      BY DEF IdleJob
    <3> QED BY <1>1, <2>3, <3>1 DEF ReadFile, Moves, Reading
  <2> QED BY <1>4, <2>1, <2>2, <2>3
<1>5. ASSUME NEW j \in Jobs, NEW e \in Entries, Delete(j, e) \/ MissingFile(j)
      PROVE  Moves(k)
  <2>1. ASSUME NEW f
        PROVE  Referring(f) # {} => Refers # {}
    BY DEF Referring
  <2>2. \A pc, f : Deleting(pc, f).pc = pc /\ Deleting(pc, f).put = Rendered(Now)
    BY DEF Deleting, IdleJob
  <2>3. CASE Delete(j, e)
    <3>1. \/ job' = [job EXCEPT ![j] = Attempting(ItemOf(e), {})]
          \/ Refers # {} /\ job' = [job EXCEPT ![j] = Deleting("deleting", e)]
      BY <2>1, <2>3 DEF Delete
    <3> QED BY <1>1, <2>2, <3>1 DEF Moves, Cleaning
  <2>4. CASE MissingFile(j)
    <3>1. \/ job' = [job EXCEPT ![j] = IdleJob]
          \/ Refers # {} /\ job' = [job EXCEPT ![j] = Deleting("removing", job[j].at.entry)]
      BY <2>1, <2>4 DEF MissingFile
    <3> QED BY <1>1, <2>2, <3>1 DEF Moves, Cleaning
  <2> QED BY <1>5, <2>3, <2>4
<1>6. ASSUME NEW j \in Jobs,
             \/ Drain(j) \/ UpdateCommits(j) \/ DeleteCommits(j) \/ EnqueueCleaned(j)
             \/ RemovalCommits(j) \/ ObserveBaseline(j) \/ Import(j)
             \/ ReplayIntent(j) \/ RejectStaleFile(j) \/ NextAttempt(j) \/ Finish(j)
      PROVE  Moves(k)
  <2>1. PICK new : job' = [job EXCEPT ![j] = new] /\ Unlocked(new)
    <3>1. CASE Drain(j) \/ UpdateCommits(j) \/ EnqueueCleaned(j)
      BY <3>1 DEF Drain, UpdateCommits, EnqueueCleaned
    <3>2. CASE DeleteCommits(j) \/ Finish(j)
      BY <3>2 DEF DeleteCommits, Finish, TypeOK
    <3>3. CASE RemovalCommits(j) \/ ObserveBaseline(j) \/ Import(j)
      BY <3>3 DEF RemovalCommits, ObserveBaseline, Import
    <3>4. CASE ReplayIntent(j) \/ RejectStaleFile(j)
      BY <3>4 DEF ReplayIntent, RejectStaleFile, Try
    <3>5. CASE NextAttempt(j)
      BY <3>5 DEF NextAttempt
    <3> QED BY <1>6, <3>1, <3>2, <3>3, <3>4, <3>5
  <2> QED BY <1>1, <2>1 DEF Moves
<1>7. ASSUME NEW j \in Jobs, HashFile(j)
      PROVE  Moves(k)
  <2>1. j = k
    BY <1>1, <1>7 DEF HashFile
  <2>2. job[k].pc = "read" /\ job'[k].pc = "hashing"
    BY <1>0, <1>7, <2>1 DEF HashFile, TypeOK, JobState
  <2> QED BY <2>2 DEF Moves, Reading
<1>8. ASSUME NEW j \in Jobs, Check(j)
      PROVE  Moves(k)
  <2>1. job' = [job EXCEPT ![j] = IF IsCurrent(job[j].at)
                                  THEN [job[j] EXCEPT !.pc = "checked"]
                                  ELSE Continued(job[j].todo)]
    BY <1>8 DEF Check, TypeOK
  <2>2. j = k
    BY <1>1, <2>1
  <2>3. CASE IsCurrent(job[k].at)
    <3>1. job'[k] = [job[k] EXCEPT !.pc = "checked"]
      BY <1>1, <2>1, <2>2, <2>3
    <3>2. job'[k].pc = "checked" /\ job'[k].at = job[k].at
      BY <1>0, <3>1 DEF JobState
    <3> QED BY <1>8, <2>2, <2>3, <3>2 DEF Moves, Check
  <2>4. CASE ~IsCurrent(job[k].at)
    BY <1>1, <2>1, <2>2, <2>4 DEF Moves
  <2> QED BY <2>3, <2>4
<1>9. ASSUME NEW j \in Jobs, Spawn(j)
      PROVE  Moves(k)
  <2> DEFINE i == job[j].at
             put == IF i.op = "upsert" THEN row[i.entry] ELSE None
             next == [job[j] EXCEPT !.pc = "helper", !.put = put, !.base = Mirror(i.entry)]
  <2>1. IF i.op = "upsert" /\ ~Known(i.entry)
        THEN job' = [job EXCEPT ![j] = Continued(job[j].todo)]
        ELSE job' = [job EXCEPT ![j] = next]
    BY <1>9 DEF Spawn, TypeOK
  <2>2. next.pc = "helper" /\ next.at = job[j].at /\ next.put = put
    BY DEF TypeOK, JobState
  <2> HIDE DEF next
  <2>3. j = k
    BY <1>1, <2>1
  <2>4. CASE i.op = "upsert" /\ ~Known(i.entry)
    BY <1>1, <2>1, <2>4 DEF Moves
  <2>5. CASE ~(i.op = "upsert" /\ ~Known(i.entry))
    <3>1. job'[k] = next
      BY <1>1, <2>1, <2>5
    <3> QED BY <1>9, <2>2, <2>3, <2>5, <3>1 DEF Moves, Spawn
  <2> QED BY <2>4, <2>5
<1>10. ASSUME NEW j \in Jobs, HelperAnswers(j) \/ HelperFails(j)
      PROVE  Moves(k)
  <2>1. PICK result :
          /\ job' = [job EXCEPT ![j] = [job[j] EXCEPT !.pc = "answered", !.result = result]]
          /\ result = "written" => HelperAnswers(j) /\ ~Conflicts(j)
    <3> DEFINE Answered(x) == [job EXCEPT ![j].pc = "answered", ![j].result = x]
    <3>1. \/ HelperAnswers(j) /\ job' = Answered(IF Conflicts(j) THEN "conflict" ELSE "written")
          \/ job' = Answered("failed")
      BY <1>10 DEF HelperAnswers, HelperFails
    <3>2. \A x : Answered(x) = [job EXCEPT ![j] = [job[j] EXCEPT !.pc = "answered", !.result = x]]
      BY DEF TypeOK
    <3> HIDE DEF Answered
    <3>3. PICK x : job' = Answered(x) /\ (x = "written" => HelperAnswers(j) /\ ~Conflicts(j))
      BY <3>1
    <3> QED BY <3>2, <3>3
  <2>2. j = k /\ job'[k] = [job[k] EXCEPT !.pc = "answered", !.result = result]
    BY <1>1, <2>1
  <2>3. /\ job'[k].pc = "answered" /\ job'[k].at = job[k].at /\ job'[k].put = job[k].put
        /\ job'[k].result = result
    BY <1>0, <2>2 DEF JobState
  <2>4. job[k].pc = "helper"
    BY <1>10, <2>2 DEF HelperAnswers, HelperFails
  <2> QED BY <1>10, <2>1, <2>2, <2>3, <2>4 DEF Moves
<1> QED BY <1>2, <1>3, <1>4, <1>5, <1>6, <1>7, <1>8, <1>9, <1>10, EntriesAssumption
        DEF Next, WriteStep, ReconcileStep

\* What a step does to the row and the intent of one entry.
Rested(e) == row'[e] = row[e] /\ outbox'[e] = outbox[e]

Saved(e) == row'[e] # None /\ outbox'[e] = Enqueued(e, "upsert")

Dropped(e) == row[e] # None /\ row'[e] = None /\ outbox'[e] = Enqueued(e, "delete")

Asked(e) ==
  /\ row'[e] = row[e]
  /\ \/ outbox'[e] = IntentFor(e, "delete")
     \/ Known(e) /\ outbox'[e] = IntentFor(e, "upsert")

Done(e) ==
  /\ row'[e] = row[e]
  /\ \E j \in Jobs : /\ Finish(j) /\ Succeeded(j)
                     /\ job[j].at.entry = e /\ IsCurrent(job[j].at)
                     /\ outbox'[e] = Completed(job[j].at)[e]

GivenUp(e) ==
  /\ row'[e] = row[e]
  /\ ~Known(e) /\ outbox[e].op = "upsert" /\ outbox'[e] = NoIntent

Rewritten(e) ==
  /\ row'[e] # None /\ outbox'[e] = outbox[e]
  /\ \E j \in Jobs : job[j].pc \in Cleaning \cup {"hashing"}

EntryMoves(e) ==
  \/ Rested(e) \/ Saved(e) \/ Dropped(e) \/ Asked(e) \/ Done(e) \/ GivenUp(e)
  \/ Rewritten(e)

\* A dated deletion has a row to write.
CleaningDated == \A k \in Jobs : job[k].pc \in Cleaning => job[k].put \in Content

\* Completing an attempt writes the intent of its entry, if it is still the one
\* attempted, and no other.
LEMMA CompletedAt ==
  ASSUME TypeOK, NEW j \in Jobs, NEW e \in Entries
  PROVE  \/ Completed(job[j].at)[e] = outbox[e]
         \/ /\ e = job[j].at.entry /\ IsCurrent(job[j].at)
            /\ \/ job[j].at.op = "upsert" /\ Completed(job[j].at)[e] = NoIntent
               \/ /\ job[j].at.op = "delete"
                  /\ Completed(job[j].at)[e] = [outbox[e] EXCEPT !.status = "completed"]
  BY PartTypes DEF Completed, TypeOK

\* The transaction of a deletion, for the entry that goes and the others.
LEMMA DeletionMoves ==
  ASSUME TypeOK, NEW e \in Entries, NEW refs, NEW content, NEW f \in Entries,
         DeletedInDb(e, refs, content)
  PROVE  /\ f = e => row'[f] = None
         /\ f # e /\ (f \notin refs \/ row[f] = None) => row'[f] = row[f]
         /\ f # e /\ f \in refs /\ row[f] # None => row'[f] = content
  BY DEF DeletedInDb

\* Every step does one of these to every entry.
LEMMA EntrySteps ==
  ASSUME TypeInv, CleaningDated, Next, NEW e \in Entries
  PROVE  EntryMoves(e)
<1> USE DEF EntryMoves
<1>0. TypeOK /\ \A k \in Jobs : Carried(k)
  BY DEF TypeInv
<1>a. outbox \in [Entries -> Intent] /\ row \in [Entries -> Content \cup {None}]
  BY <1>0 DEF TypeOK
<1>1. ASSUME NEW f \in Entries, NEW content \in Content, SavedInDb(f, content)
      PROVE  Rested(e) \/ Saved(e)
  BY <1>a, <1>1, NoneAssumption DEF SavedInDb, Rested, Saved
<1>2. ASSUME NEW f \in Entries, DeletedInDb(f, {}, None), outbox' = DeleteIntent(f)
      PROVE  Rested(e) \/ Dropped(e)
  <2>1. CASE e = f
    BY <1>0, <1>a, <1>2, <2>1, DeletionMoves DEF DeleteIntent, Rested, Dropped
  <2>2. CASE e # f
    BY <1>0, <1>a, <1>2, <2>2, DeletionMoves DEF DeleteIntent, Rested
  <2> QED BY <2>1, <2>2
<1>3. ASSUME NEW j \in Jobs, NEW f \in Entries, Create(j, f) \/ Update(j, f) \/ ReadFile(j, f)
      PROVE  EntryMoves(e)
  <2>1. CASE Create(j, f)
    <3>1. Rendered(Now) \in Content
      BY <1>0, RenderedType DEF Now, TypeOK
    <3> QED BY <1>1, <2>1, <3>1 DEF Create
  <2>2. CASE Update(j, f) \/ ReadFile(j, f)
    BY <2>2 DEF Update, ReadFile, dbVars, Rested
  <2> QED BY <1>3, <2>1, <2>2
<1>4. ASSUME NEW j \in Jobs, NEW f \in Entries, Delete(j, f)
      PROVE  EntryMoves(e)
  <2>1. \/ DeletedInDb(f, {}, None) /\ outbox' = DeleteIntent(f)
        \/ UNCHANGED dbVars
    BY <1>4 DEF Delete
  <2> QED BY <1>2, <2>1 DEF dbVars, Rested
<1>5. ASSUME NEW j \in Jobs, MissingFile(j)
      PROVE  EntryMoves(e)
  <2>1. \/ DeletedInDb(job[j].at.entry, {}, None) /\ outbox' = DeleteIntent(job[j].at.entry)
        \/ UNCHANGED dbVars
    BY <1>5 DEF MissingFile
  <2> QED BY <1>0, <1>2, <2>1, PartTypes DEF dbVars, Rested
<1>6. ASSUME NEW j \in Jobs, UpdateCommits(j)
      PROVE  EntryMoves(e)
  <2>1. job[j].put \in Content
    BY <1>0, <1>6 DEF UpdateCommits, Carried
  <2>2. SavedInDb(job[j].at.entry, job[j].put) \/ UNCHANGED dbVars
    BY <1>6 DEF UpdateCommits
  <2> QED BY <1>0, <1>1, <2>1, <2>2, PartTypes DEF dbVars, Rested
<1>7. ASSUME NEW j \in Jobs, DeleteCommits(j) \/ RemovalCommits(j)
      PROVE  EntryMoves(e)
  <2> DEFINE f == job[j].at.entry
             refs == {i.entry : i \in job[j].todo}
  <2>1. /\ DeletedInDb(f, refs, job[j].put)
        /\ job[j].pc \in Cleaning
    BY <1>7 DEF DeleteCommits, RemovalCommits, Cleaning
  <2>2. job[j].put # None /\ f \in Entries
    BY <1>0, <2>1, NoneAssumption, PartTypes DEF CleaningDated
  <2>3. \/ outbox' = DeleteIntent(f)
        \/ row[f] = None /\ outbox' = [outbox EXCEPT ![f] = IntentFor(f, "delete")]
    BY <1>7 DEF DeleteCommits, RemovalCommits
  <2> HIDE DEF f, refs
  <2>4. CASE e = f
    <3>1. row'[e] = None
      BY <2>1, <2>4 DEF DeletedInDb
    <3>2. CASE row[e] # None
      <4>1. outbox'[e] = Enqueued(e, "delete")
        BY <1>a, <2>3, <2>4, <3>2 DEF DeleteIntent
      <4> QED BY <3>1, <3>2, <4>1 DEF Dropped
    <3>3. CASE row[e] = None
      <4>1. outbox'[e] = outbox[e] \/ outbox'[e] = IntentFor(e, "delete")
        BY <1>a, <2>3, <2>4, <3>3 DEF DeleteIntent
      <4> QED BY <3>1, <3>3, <4>1 DEF Rested, Asked
    <3> QED BY <3>2, <3>3
  <2>5. CASE e # f
    <3>1. outbox'[e] = outbox[e]
      BY <1>a, <2>3, <2>5 DEF DeleteIntent
    <3>2. row'[e] = row[e] \/ row'[e] = job[j].put
      BY <2>1, <2>5 DEF DeletedInDb
    <3> QED BY <2>1, <2>2, <3>1, <3>2 DEF Rested, Rewritten
  <2> QED BY <2>4, <2>5
<1>8. ASSUME NEW j \in Jobs, EnqueueCleaned(j)
      PROVE  EntryMoves(e)
  <2>1. row' = row /\ (outbox'[e] = outbox[e] \/ (Known(e) /\ outbox'[e] = IntentFor(e, "upsert")))
    BY <1>8 DEF EnqueueCleaned
  <2> QED BY <2>1 DEF Rested, Asked
<1>9. ASSUME NEW j \in Jobs, Drain(j) \/ Check(j) \/ HelperAnswers(j) \/ HelperFails(j)
                             \/ HashFile(j) \/ ObserveBaseline(j)
      PROVE  EntryMoves(e)
  BY <1>9 DEF Drain, Check, HelperAnswers, HelperFails, HashFile, ObserveBaseline, dbVars, Rested
<1>10. ASSUME NEW j \in Jobs, NextAttempt(j)
       PROVE  EntryMoves(e)
  <2>1. row' = row
    BY <1>10 DEF NextAttempt
  <2>2. \/ outbox' = outbox
        \/ \E i \in job[j].todo : i.op = "upsert" /\ row[i.entry] = None /\ outbox' = Completed(i)
    BY <1>10 DEF NextAttempt
  <2>3. ASSUME NEW i, i.op = "upsert", row[i.entry] = None, outbox' = Completed(i)
        PROVE  Rested(e) \/ GivenUp(e)
    BY <1>a, <2>1, <2>3 DEF Completed, IsCurrent, Rested, GivenUp, Known
  <2> QED BY <2>1, <2>2, <2>3 DEF Rested
<1>11. ASSUME NEW j \in Jobs, Spawn(j)
       PROVE  EntryMoves(e)
  <2>1. row' = row
    BY <1>11 DEF Spawn
  <2>2. \/ outbox' = outbox
        \/ job[j].at.op = "upsert" /\ ~Known(job[j].at.entry) /\ outbox' = Completed(job[j].at)
    BY <1>11 DEF Spawn
  <2>3. CASE job[j].at.op = "upsert" /\ ~Known(job[j].at.entry) /\ outbox' = Completed(job[j].at)
    <3>1. outbox'[e] = Completed(job[j].at)[e]
      BY <2>3
    <3>2. CASE outbox'[e] = outbox[e]
      BY <2>1, <3>2 DEF Rested
    <3>3. CASE outbox'[e] # outbox[e]
      <4>1. e = job[j].at.entry /\ IsCurrent(job[j].at) /\ outbox'[e] = NoIntent
        BY <1>0, <2>3, <3>1, <3>3, CompletedAt
      <4>2. outbox[e].op = "upsert"
        BY <2>3, <4>1 DEF IsCurrent
      <4> QED BY <2>1, <2>3, <4>1, <4>2 DEF GivenUp
    <3> QED BY <3>2, <3>3
  <2> QED BY <2>1, <2>2, <2>3 DEF Rested
<1>12. ASSUME NEW j \in Jobs, Finish(j)
       PROVE  EntryMoves(e)
  <2>1. row' = row
    BY <1>12 DEF Finish
  <2>2. \/ outbox' = outbox
        \/ Succeeded(j) /\ outbox' = Completed(job[j].at)
    BY <1>12 DEF Finish
  <2>3. CASE Succeeded(j) /\ outbox' = Completed(job[j].at)
    BY <1>0, <1>12, <2>1, <2>3, CompletedAt DEF Rested, Done
  <2> QED BY <2>1, <2>2, <2>3 DEF Rested
<1>13. ASSUME NEW j \in Jobs, ReplayIntent(j) \/ RejectStaleFile(j)
       PROVE  EntryMoves(e)
  <2>1. row' = row
    BY <1>13 DEF ReplayIntent, RejectStaleFile
  <2>2. PICK op : Try(j, job[j].at.entry, op) /\ (op = "upsert" \/ op = outbox[job[j].at.entry].op)
                    /\ (op # "upsert" => outbox[job[j].at.entry] # NoIntent)
    BY <1>13 DEF ReplayIntent, RejectStaleFile
  <2>3. op \in {"upsert", "delete"}
    BY <1>0, <1>a, <2>2, PartTypes DEF Intent
  <2>4. \/ outbox' = outbox
        \/ /\ op = "upsert" => Known(job[j].at.entry)
           /\ outbox' = [outbox EXCEPT ![job[j].at.entry] = IntentFor(job[j].at.entry, op)]
    BY <2>2 DEF Try
  <2> QED BY <1>a, <2>1, <2>3, <2>4 DEF Rested, Asked
<1>14. ASSUME NEW j \in Jobs, Import(j)
       PROVE  EntryMoves(e)
  <2>1. /\ job[j].pc = "hashing" /\ outbox' = outbox
        /\ row' = [row EXCEPT ![job[j].at.entry] = job[j].seen]
    BY <1>14 DEF Import
  <2>2. job[j].seen # None
    BY <1>0, <2>1, NoneAssumption DEF Carried
  <2> QED BY <1>a, <2>1, <2>2 DEF Rested, Rewritten
<1>15. CASE Crash \/ \E f \in Entries : EditFile(f) \/ RemoveFile(f)
  BY <1>15 DEF Crash, EditFile, RemoveFile, dbVars, Rested
<1> QED BY <1>3, <1>4, <1>5, <1>6, <1>7, <1>8, <1>9, <1>10, <1>11, <1>12, <1>13, <1>14, <1>15
        DEF Next, WriteStep, ReconcileStep

\* What a step does to one file: nothing, it is removed, it is an external
\* edit, or a child writes it.
LEMMA FileSteps ==
  ASSUME TypeOK, Next, NEW e \in Entries
  PROVE  \/ file'[e] = file[e]
         \/ file'[e] = None
         \/ file'[e].edit # 0
         \/ \E j \in Jobs : /\ HelperAnswers(j) \/ HelperFails(j)
                            /\ job[j].at.entry = e /\ ~Conflicts(j)
                            /\ file'[e] = job[j].put
<1>0. file \in [Entries -> Content \cup {None}] /\ edits \in Nat
  BY DEF TypeOK
<1>1. UNCHANGED file \/ (\E f \in Entries : EditFile(f) \/ RemoveFile(f))
      \/ \E j \in Jobs : HelperAnswers(j) \/ HelperFails(j)
  BY DEF Next, WriteStep, ReconcileStep, Create, Update, Delete, ReadFile, Drain,
         UpdateCommits, DeleteCommits, EnqueueCleaned, NextAttempt, Check, Spawn,
         Finish, ReplayIntent, MissingFile, RemovalCommits, HashFile,
         ObserveBaseline, RejectStaleFile, Import, Crash
<1>2. ASSUME NEW f \in Entries, EditFile(f)
      PROVE  file'[e] = file[e] \/ file'[e].edit # 0
  BY <1>0, <1>2 DEF EditFile
<1>3. ASSUME NEW f \in Entries, RemoveFile(f)
      PROVE  file'[e] = file[e] \/ file'[e] = None
  BY <1>0, <1>3 DEF RemoveFile
<1>4. ASSUME NEW j \in Jobs, HelperAnswers(j) \/ HelperFails(j)
      PROVE  \/ file'[e] = file[e]
             \/ job[j].at.entry = e /\ ~Conflicts(j) /\ file'[e] = job[j].put
  BY <1>0, <1>4 DEF HelperAnswers, HelperFails, Acted
<1> QED BY <1>1, <1>2, <1>3, <1>4

-----------------------------------------------------------------------------
(***************************************************************************)
(* No orphan file.  A child that writes an entry was started when the      *)
(* entry was there; a deletion that commits meanwhile leaves its intent    *)
(* pending, and that intent cannot be completed before the child has       *)
(* answered, because the lock of the root is taken once.                   *)
(***************************************************************************)
PendingDelete(e) == outbox[e].op = "delete" /\ outbox[e].status = "pending"

RootHeldOnce ==
  \A j, k \in Jobs : job[j].pc \in Rooted /\ job[k].pc \in Rooted => j = k

Gone(c) == c = None \/ c.edit # 0

OrphanJob(k) ==
  LET e == job[k].at.entry IN
  /\ job[k].pc = "helper" /\ job[k].at.op = "delete" => job[k].put = None
  /\ job[k].pc = "helper" /\ job[k].at.op = "upsert" /\ row[e] = None => PendingDelete(e)
  /\ job[k].pc = "answered" /\ job[k].at.op = "delete" /\ job[k].result = "written"
       => Gone(file[e])

OrphanInv ==
  /\ TypeInv
  /\ CleaningDated
  /\ RootHeldOnce
  /\ \A k \in Jobs : OrphanJob(k)
  /\ NoOrphanFile

\* The steps of an attempt leave the other requests alone.
LEMMA AttemptRest ==
  ASSUME TypeOK, NEW k \in Jobs, NEW j \in Jobs \ {k},
         Check(k) \/ Spawn(k) \/ HelperAnswers(k) \/ HelperFails(k) \/ Finish(k)
  PROVE  job'[j] = job[j]
  BY DEF Check, Spawn, HelperAnswers, HelperFails, Finish, TypeOK

\* A deletion under way goes on with the date it began with.
LEMMA DatedStep == TypeInv /\ CleaningDated /\ Next => CleaningDated'
<1> SUFFICES ASSUME TypeInv, CleaningDated, Next, NEW k \in Jobs, job'[k].pc \in Cleaning
             PROVE  job'[k].put \in Content
  BY DEF CleaningDated
<1>1. CASE job'[k] = job[k]
  BY <1>1 DEF CleaningDated
<1>2. CASE job'[k] # job[k]
  <2>1. Moves(k)
    BY <1>2, JobMoves DEF TypeInv
  <2>2. job'[k].put = Rendered(Now)
    BY <2>1 DEF Moves, Unlocked, Cleaning, Reading
  <2> QED BY <2>2, RenderedType DEF TypeInv, TypeOK, Now
<1> QED BY <1>1, <1>2

\* The root is locked once.
LEMMA RootStep == TypeOK /\ RootHeldOnce /\ Next => RootHeldOnce'
<1> SUFFICES ASSUME TypeOK, RootHeldOnce, Next, NEW j \in Jobs, NEW k \in Jobs,
                    job'[j].pc \in Rooted, job'[k].pc \in Rooted, j # k
             PROVE  FALSE
  BY DEF RootHeldOnce
<1>1. ASSUME NEW h \in Jobs, job'[h].pc \in Rooted
      PROVE  job[h].pc \in Rooted \/ (Spawn(h) /\ RootFree)
  <2>1. CASE job'[h] = job[h]
    BY <1>1, <2>1
  <2>2. CASE job'[h] # job[h]
    <3>1. Moves(h)
      BY <2>2, JobMoves
    <3> QED BY <1>1, <3>1 DEF Moves, Unlocked, Locked, Rooted, Cleaning, Reading, Spawn
  <2> QED BY <2>1, <2>2
<1>2. ASSUME NEW g \in Jobs, NEW h \in Jobs, g # h, job'[g].pc \in Rooted, Spawn(h), RootFree
      PROVE  FALSE
  <2>1. job'[g] = job[g]
    BY <1>2, AttemptRest
  <2> QED BY <1>2, <2>1 DEF RootFree, Rooted
<1> QED BY <1>1, <1>2 DEF RootHeldOnce

\* A deletion that is pending stays so while its row is gone, until an attempt
\* completes it; and one is pending for every row that goes.
LEMMA PendingStays ==
  ASSUME TypeInv, CleaningDated, Next, NEW e \in Entries, row'[e] = None,
         row[e] = None => PendingDelete(e)
  PROVE  \/ PendingDelete(e)'
         \/ /\ row[e] = None
            /\ \E j \in Jobs : /\ Finish(j) /\ Succeeded(j)
                               /\ job[j].at.entry = e /\ job[j].at.op = "delete"
<1>0. EntryMoves(e)
  BY EntrySteps
<1>a. outbox[e] \in Intent
  BY DEF TypeInv, TypeOK
<1>1. CASE Rested(e)
  BY <1>1 DEF Rested, PendingDelete
<1>2. CASE Saved(e) \/ Rewritten(e)
  BY <1>2 DEF Saved, Rewritten
<1>3. CASE Dropped(e)
  BY <1>3 DEF Dropped, Enqueued, PendingDelete
<1>4. CASE Asked(e)
  BY <1>4 DEF Asked, IntentFor, Enqueued, PendingDelete, Known
<1>5. CASE Done(e)
  <2>1. row[e] = None /\ PendingDelete(e)
    BY <1>5 DEF Done
  <2>2. PICK j \in Jobs : /\ Finish(j) /\ Succeeded(j)
                          /\ job[j].at.entry = e /\ IsCurrent(job[j].at)
    BY <1>5 DEF Done
  <2>3. job[j].at.op = "delete"
    BY <2>1, <2>2 DEF IsCurrent, PendingDelete
  <2> QED BY <2>1, <2>2, <2>3
<1>6. CASE GivenUp(e)
  BY <1>6 DEF GivenUp, PendingDelete
<1> QED BY <1>0, <1>1, <1>2, <1>3, <1>4, <1>5, <1>6 DEF EntryMoves

\* The requests keep their part of the invariant.
LEMMA OrphanJobStep ==
  ASSUME OrphanInv, Next, NEW k \in Jobs
  PROVE  OrphanJob(k)'
<1>0. TypeInv /\ TypeOK /\ CleaningDated /\ RootHeldOnce /\ OrphanJob(k)
  BY DEF OrphanInv, TypeInv
<1>t. job'[k].at.entry \in Entries
  <2>1. TypeOK'
    BY <1>0, NextTypes DEF TypeInv
  <2> QED BY <2>1 DEF TypeOK, JobState, Item
<1>1. job'[k] = job[k] \/ Moves(k)
  BY <1>0, JobMoves
<1>2. ASSUME job'[k].pc = "helper", job'[k].at.op = "delete"
      PROVE  job'[k].put = None
  <2>1. CASE job'[k] = job[k]
    BY <1>0, <1>2, <2>1 DEF OrphanJob
  <2>2. CASE Moves(k)
    BY <1>2, <2>2 DEF Moves, Unlocked, Locked, Cleaning, Reading
  <2> QED BY <1>1, <2>1, <2>2
<1>3. ASSUME NEW e \in Entries, e = job'[k].at.entry,
             job'[k].pc = "helper", job'[k].at.op = "upsert", row'[e] = None
      PROVE  PendingDelete(e)'
  <2>1. CASE job'[k] = job[k]
    <3>1. e \in Entries /\ (row[e] = None => PendingDelete(e))
      BY <1>0, <1>3, <2>1, PartTypes DEF OrphanJob
    <3>2. ASSUME NEW j \in Jobs, Finish(j)
          PROVE  FALSE
      <4>1. job[j].pc = "answered"
        BY <3>2 DEF Finish
      <4>2. j = k
        BY <1>0, <1>3, <2>1, <4>1 DEF RootHeldOnce, Rooted
      <4> QED BY <1>3, <2>1, <4>1, <4>2
    <3> QED BY <1>0, <1>3, <3>1, <3>2, PendingStays
  <2>2. CASE job'[k] # job[k]
    <3>1. Spawn(k) /\ Known(job[k].at.entry) /\ job'[k].at = job[k].at
      BY <1>1, <1>3, <2>2 DEF Moves, Unlocked, Locked, Cleaning, Reading
    <3>2. row'[e] = row[e] /\ row[e] # None
      BY <1>3, <3>1 DEF Spawn, Known
    <3> QED BY <1>3, <3>2
  <2> QED BY <2>1, <2>2
<1>4. ASSUME NEW e \in Entries, e = job'[k].at.entry,
             job'[k].pc = "answered", job'[k].at.op = "delete", job'[k].result = "written"
      PROVE  Gone(file'[e])
  <2>1. CASE job'[k] = job[k]
    <3>1. e \in Entries /\ Gone(file[e])
      BY <1>0, <1>4, <2>1, PartTypes DEF OrphanJob
    <3>2. ASSUME NEW j \in Jobs, HelperAnswers(j) \/ HelperFails(j)
          PROVE  FALSE
      <4>1. job[j].pc = "helper"
        BY <3>2 DEF HelperAnswers, HelperFails
      <4>2. j = k
        BY <1>0, <1>4, <2>1, <4>1 DEF RootHeldOnce, Rooted
      <4> QED BY <1>4, <2>1, <4>1, <4>2
    <3> QED BY <1>0, <3>1, <3>2, FileSteps DEF Gone
  <2>2. CASE job'[k] # job[k]
    <3>1. HelperAnswers(k) /\ ~Conflicts(k) /\ job[k].pc = "helper" /\ job'[k].at = job[k].at
      BY <1>1, <1>4, <2>2 DEF Moves, Unlocked, Locked, Cleaning, Reading
    <3>2. job[k].put = None
      BY <1>0, <1>4, <3>1 DEF OrphanJob
    <3>3. file'[e] = None
      BY <1>0, <1>4, <3>1, <3>2 DEF HelperAnswers, Acted, TypeOK
    <3> QED BY <3>3 DEF Gone
  <2> QED BY <2>1, <2>2
<1> QED BY <1>t, <1>2, <1>3, <1>4 DEF OrphanJob, PendingDelete, Gone

\* The files keep theirs.
LEMMA OrphanStep ==
  ASSUME OrphanInv, Next
  PROVE  NoOrphanFile'
<1> SUFFICES ASSUME NEW e \in Entries, row'[e] = None, file'[e] # None, file'[e].edit = 0
             PROVE  PendingDelete(e)'
  BY DEF NoOrphanFile, PendingDelete
<1>0. TypeInv /\ TypeOK /\ CleaningDated /\ RootHeldOnce
  BY DEF OrphanInv, TypeInv
<1>1. CASE row[e] # None
  BY <1>0, <1>1, PendingStays
<1>2. CASE row[e] = None /\ file'[e] = file[e]
  <2>1. PendingDelete(e)
    BY <1>2 DEF OrphanInv, NoOrphanFile, PendingDelete
  <2>2. ASSUME NEW j \in Jobs, Finish(j), Succeeded(j), job[j].at.entry = e,
               job[j].at.op = "delete"
        PROVE  FALSE
    <3>1. Gone(file[e])
      BY <2>2 DEF OrphanInv, OrphanJob, Finish, Succeeded
    <3> QED BY <1>2, <3>1 DEF Gone
  <2> QED BY <1>0, <2>1, <2>2, PendingStays
<1>3. ASSUME row[e] = None, NEW k \in Jobs, HelperAnswers(k) \/ HelperFails(k),
             job[k].at.entry = e, file'[e] = job[k].put
      PROVE  PendingDelete(e)'
  <2>1. job[k].pc = "helper" /\ OrphanJob(k)
    BY <1>3 DEF HelperAnswers, HelperFails, OrphanInv
  <2>2. job[k].at.op = "upsert"
    BY <1>0, <1>3, <2>1, PartTypes DEF OrphanJob
  <2>3. PendingDelete(e)
    BY <1>3, <2>1, <2>2 DEF OrphanJob
  <2>4. ASSUME NEW j \in Jobs, Finish(j)
        PROVE  FALSE
    <3>1. job[j].pc = "answered"
      BY <2>4 DEF Finish
    <3> QED BY <1>0, <2>1, <3>1 DEF RootHeldOnce, Rooted
  <2> QED BY <1>0, <2>3, <2>4, PendingStays
<1> QED BY <1>0, <1>1, <1>2, <1>3, FileSteps

\* A deleted entry leaves no Markdown of the application behind for which no
\* delete intent is pending: a late write of its mirror is followed by the
\* deletion it crossed, and a tombstone is completed over no file.
THEOREM NoFileIsOrphaned == Spec => []NoOrphanFile
<1>1. Init => OrphanInv
  <2> SUFFICES ASSUME Init PROVE OrphanInv
    OBVIOUS
  <2>1. \A k \in Jobs : job[k].pc = "idle"
    BY PlainPcs DEF Init
  <2>2. TypeInv
    BY <2>1, InitTypeOK DEF TypeInv, Carried
  <2> QED BY <2>1, <2>2 DEF OrphanInv, CleaningDated, Cleaning, RootHeldOnce, Rooted, OrphanJob,
             NoOrphanFile, Init
<1>2. OrphanInv /\ [Next]_vars => OrphanInv'
  <2>1. CASE UNCHANGED vars
    BY <2>1, NextTypes DEF vars, OrphanInv, CleaningDated, RootHeldOnce, OrphanJob, PendingDelete,
       NoOrphanFile
  <2>2. CASE Next
    BY <2>2, NextTypes, DatedStep, RootStep, OrphanJobStep, OrphanStep DEF OrphanInv, TypeInv
  <2> QED BY <2>1, <2>2
<1> QED BY <1>1, <1>2, PTL DEF Spec, OrphanInv

-----------------------------------------------------------------------------
(***************************************************************************)
(* Settled is mirrored, where no entry refers to another and no file is    *)
(* reconciled.  An intent disappears only when its own attempt wrote the   *)
(* file, and an attempt whose intent is still current wrote the row as it  *)
(* is: a later save would have raised the revision.                        *)
(***************************************************************************)
Quiet == \A k \in Jobs : job[k].pc \notin Cleaning \cup Reading

Paired == \A e \in Entries : row[e] = None <=> index[e] = None

UpsertsHaveRows == \A e \in Entries : outbox[e].op = "upsert" => row[e] # None

EntryHeldOnce ==
  \A j, k \in Jobs : /\ job[j].pc \in Locked /\ job[k].pc \in Locked
                     /\ job[j].at.entry = job[k].at.entry
                     => j = k

Fits(c, put) == c = put \/ c = None \/ c.edit # 0

\* What is true of an attempt that holds the lock of its entry.
MirrorJob(k) ==
  LET i == job[k].at IN
  job[k].pc \in Locked =>
    /\ outbox[i.entry] # NoIntent
    /\ i.rev <= outbox[i.entry].rev
    /\ job[k].pc \in Rooted /\ i.op = "upsert" /\ IsCurrent(i) => job[k].put = row[i.entry]
    /\ job[k].pc = "answered" /\ i.op = "upsert" /\ job[k].result = "written"
         => Fits(file[i.entry], job[k].put)

SettledInv ==
  /\ TypeInv
  /\ Quiet
  /\ RootHeldOnce
  /\ EntryHeldOnce
  /\ Paired
  /\ UpsertsHaveRows
  /\ \A k \in Jobs : MirrorJob(k)
  /\ SettledIsMirrored

\* Nothing is cleaned and nothing is reconciled.
LEMMA QuietStep ==
  ASSUME Reconciling = FALSE, Refers = {}, TypeOK, Quiet, Next
  PROVE  Quiet'
<1> SUFFICES ASSUME NEW k \in Jobs, job'[k].pc \in Cleaning \cup Reading
             PROVE  FALSE
  BY DEF Quiet
<1>1. job'[k] # job[k]
  BY DEF Quiet
<1>2. Moves(k)
  BY <1>1, JobMoves
<1> QED BY <1>2 DEF Moves, Unlocked, Locked, Cleaning, Reading, Quiet

\* The lock of an entry is held by one request.
LEMMA EntryLockStep == TypeOK /\ EntryHeldOnce /\ Next => EntryHeldOnce'
<1> SUFFICES ASSUME TypeOK, EntryHeldOnce, Next, NEW j \in Jobs, NEW k \in Jobs,
                    job'[j].pc \in Locked, job'[k].pc \in Locked,
                    job'[j].at.entry = job'[k].at.entry, j # k
             PROVE  FALSE
  BY DEF EntryHeldOnce
<1>1. ASSUME NEW h \in Jobs, job'[h].pc \in Locked
      PROVE  /\ job'[h].at = job[h].at
             /\ job[h].pc \in Locked \/ (Check(h) /\ EntryFree(job[h].at.entry))
  <2>1. CASE job'[h] = job[h]
    BY <1>1, <2>1
  <2>2. CASE job'[h] # job[h]
    <3>1. Moves(h)
      BY <2>2, JobMoves
    <3> QED BY <1>1, <3>1 DEF Moves, Unlocked, Locked, Cleaning, Reading, Check
  <2> QED BY <2>1, <2>2
<1>2. ASSUME NEW g \in Jobs, NEW h \in Jobs, g # h, job'[g].pc \in Locked, Check(h),
             EntryFree(job[h].at.entry), job[g].at.entry = job[h].at.entry
      PROVE  FALSE
  <2>1. job'[g] = job[g]
    BY <1>2, AttemptRest
  <2> QED BY <1>2, <2>1 DEF EntryFree, Locked
<1>3. job[j].at.entry = job[k].at.entry
  BY <1>1
<1> QED BY <1>1, <1>2, <1>3 DEF EntryHeldOnce

\* No upsert is pending without a row.
LEMMA UpsertsStep == TypeInv /\ Quiet /\ UpsertsHaveRows /\ Next => UpsertsHaveRows'
<1> SUFFICES ASSUME TypeInv, Quiet, UpsertsHaveRows, Next, NEW e \in Entries,
                    outbox'[e].op = "upsert"
             PROVE  row'[e] # None
  BY DEF UpsertsHaveRows
<1>0. CleaningDated
  BY DEF CleaningDated, Quiet
<1>1. EntryMoves(e)
  BY <1>0, EntrySteps
<1>2. CASE Rested(e) \/ Saved(e) \/ GivenUp(e) \/ Rewritten(e)
  BY <1>2 DEF Rested, Saved, GivenUp, Rewritten, NoIntent, UpsertsHaveRows
<1>3. CASE Dropped(e)
  BY <1>3 DEF Dropped, Enqueued
<1>4. CASE Asked(e)
  BY <1>4 DEF Asked, IntentFor, Enqueued, Known
<1>5. CASE Done(e)
  <2>1. PICK j \in Jobs : outbox'[e] = Completed(job[j].at)[e] /\ IsCurrent(job[j].at)
                          /\ job[j].at.entry = e
    BY <1>5 DEF Done
  <2>2. outbox'[e] = outbox[e] \/ outbox'[e] = NoIntent
        \/ (outbox[e].op = "delete" /\ outbox'[e] = [outbox[e] EXCEPT !.status = "completed"])
    BY <2>1, CompletedAt DEF TypeInv, IsCurrent
  <2>3. outbox[e] \in Intent
    BY DEF TypeInv, TypeOK
  <2> QED BY <1>5, <2>2, <2>3 DEF Done, NoIntent, Intent, UpsertsHaveRows
<1> QED BY <1>1, <1>2, <1>3, <1>4, <1>5 DEF EntryMoves

\* An intent rests with its row, rises, or is completed.
LEMMA IntentMoves ==
  ASSUME TypeInv, Quiet, Paired, UpsertsHaveRows, Next, NEW e \in Entries
  PROVE  \/ Rested(e)
         \/ outbox'[e] # NoIntent /\ outbox[e].rev < outbox'[e].rev
         \/ Done(e)
<1>0. CleaningDated
  BY DEF CleaningDated, Quiet
<1>1. EntryMoves(e)
  BY <1>0, EntrySteps
<1>2. outbox[e] \in Intent /\ outbox[e].rev \in Nat
  BY DEF TypeInv, TypeOK, Intent, NoIntent
<1>3. \A op \in {"upsert", "delete"} :
        Enqueued(e, op) # NoIntent /\ outbox[e].rev < Enqueued(e, op).rev
  BY <1>2 DEF Enqueued, NoIntent
<1>4. CASE Saved(e) \/ Dropped(e)
  BY <1>3, <1>4 DEF Saved, Dropped
<1>5. CASE Asked(e)
  BY <1>3, <1>5 DEF Asked, IntentFor, Rested
<1>6. ~GivenUp(e)
  BY DEF GivenUp, Known, Paired, UpsertsHaveRows
<1>7. ~Rewritten(e)
  BY DEF Rewritten, Quiet, Reading
<1> QED BY <1>1, <1>4, <1>5, <1>6, <1>7 DEF EntryMoves

\* What a step does to the index row of an entry.
IndexMoves(e) ==
  \/ index'[e] = index[e] /\ row'[e] = row[e]
  \/ index'[e] = [hash |-> None, mirror |-> Mirror(e)] /\ row'[e] # None
  \/ index'[e] = None /\ row'[e] = None
  \/ \E j \in Jobs :
       /\ Finish(j) /\ job[j].pc = "answered" /\ job[j].at.entry = e /\ job[j].at.op = "upsert"
       /\ row'[e] = row[e] /\ index'[e] = Observed(e, job[j].put)[e]

\* Every step does one of these to every entry.
LEMMA IndexSteps ==
  ASSUME Refers = {}, TypeInv, Quiet, Next, NEW e \in Entries
  PROVE  IndexMoves(e)
<1> USE DEF IndexMoves
<1>0. TypeOK /\ \A k \in Jobs : Carried(k)
  BY DEF TypeInv
<1>a. index \in [Entries -> IndexRow \cup {None}] /\ row \in [Entries -> Content \cup {None}]
  BY <1>0 DEF TypeOK
<1>b. \A f : Referring(f) = {}
  BY DEF Referring
<1>1. ASSUME NEW f \in Entries, NEW content \in Content, SavedInDb(f, content)
      PROVE  IndexMoves(e)
  BY <1>a, <1>1, NoneAssumption DEF SavedInDb, Indexed
<1>2. ASSUME NEW f \in Entries, DeletedInDb(f, {}, None)
      PROVE  IndexMoves(e)
  BY <1>a, <1>2 DEF DeletedInDb
<1>3. ASSUME UNCHANGED <<row, index>>
      PROVE  IndexMoves(e)
  BY <1>3
<1>4. ASSUME NEW j \in Jobs, NEW f \in Entries, Create(j, f)
      PROVE  IndexMoves(e)
  <2>1. Rendered(Now) \in Content
    BY <1>0, RenderedType DEF Now, TypeOK
  <2> QED BY <1>1, <1>4, <2>1 DEF Create
<1>5. ASSUME NEW j \in Jobs, NEW f \in Entries, Delete(j, f)
      PROVE  IndexMoves(e)
  BY <1>b, <1>2, <1>5 DEF Delete
<1>6. ASSUME NEW j \in Jobs, UpdateCommits(j)
      PROVE  IndexMoves(e)
  <2>1. job[j].put \in Content
    BY <1>0, <1>6 DEF UpdateCommits, Carried
  <2>2. SavedInDb(job[j].at.entry, job[j].put) \/ UNCHANGED dbVars
    BY <1>6 DEF UpdateCommits
  <2> QED BY <1>0, <1>1, <1>3, <2>1, <2>2, PartTypes DEF dbVars
<1>7. ASSUME NEW j \in Jobs, Finish(j)
      PROVE  IndexMoves(e)
  <2>1. row' = row /\ job[j].pc = "answered"
    BY <1>7 DEF Finish
  <2>2. CASE index' = index
    BY <1>3, <2>1, <2>2
  <2>3. CASE job[j].at.op = "upsert" /\ index' = Observed(job[j].at.entry, job[j].put)
    <3>1. CASE e = job[j].at.entry
      BY <1>7, <2>1, <2>3, <3>1
    <3>2. CASE e # job[j].at.entry
      <4>1. index'[e] = index[e]
        BY <1>a, <2>3, <3>2 DEF Observed
      <4> QED BY <2>1, <4>1
    <3> QED BY <3>1, <3>2
  <2> QED BY <1>7, <2>2, <2>3 DEF Finish
<1>8. ASSUME NEW j \in Jobs, NEW f \in Entries, Update(j, f) \/ ReadFile(j, f)
      PROVE  IndexMoves(e)
  BY <1>3, <1>8 DEF Update, ReadFile, dbVars
<1>9. ASSUME NEW j \in Jobs, \/ EnqueueCleaned(j) \/ NextAttempt(j) \/ Spawn(j)
                              \/ Drain(j) \/ Check(j) \/ HelperAnswers(j) \/ HelperFails(j)
      PROVE  IndexMoves(e)
  BY <1>3, <1>9 DEF EnqueueCleaned, NextAttempt, Spawn, Drain, Check, HelperAnswers, HelperFails, dbVars
<1>10. ASSUME NEW j \in Jobs, ReconcileStep(j) \/ DeleteCommits(j)
       PROVE  FALSE
  BY <1>10 DEF ReconcileStep, ReplayIntent, MissingFile, RemovalCommits, HashFile, ObserveBaseline,
     RejectStaleFile, Import, DeleteCommits, Quiet, Cleaning, Reading
<1>11. CASE Crash
  BY <1>3, <1>11 DEF Crash, dbVars
<1>12. ASSUME NEW f \in Entries, EditFile(f) \/ RemoveFile(f)
       PROVE  IndexMoves(e)
  BY <1>3, <1>12 DEF EditFile, RemoveFile, dbVars
<1> QED BY <1>4, <1>5, <1>6, <1>7, <1>8, <1>9, <1>10, <1>11, <1>12 DEF Next, WriteStep

\* A row and its index row come and go together.
LEMMA PairedStep ==
  ASSUME Refers = {}, TypeInv, Quiet, Paired, Next
  PROVE  Paired'
<1> SUFFICES ASSUME NEW e \in Entries
             PROVE  row'[e] = None <=> index'[e] = None
  BY DEF Paired
<1>1. IndexMoves(e)
  BY IndexSteps
<1>2. row[e] = None <=> index[e] = None
  BY DEF Paired
<1>3. \A h, m \in Content \cup {None} : [hash |-> h, mirror |-> m] # None
  BY NoneAssumption DEF IndexRow
<1>4. index[e] \in IndexRow \cup {None} /\ Mirror(e) \in Content \cup {None}
  BY DEF TypeInv, TypeOK, Mirror, IndexRow
<1>5. ASSUME NEW j \in Jobs, index'[e] = Observed(e, job[j].put)[e]
      PROVE  index'[e] = None <=> index[e] = None
  <2>1. CASE index[e] = None
    BY <1>5, <2>1 DEF Observed
  <2>2. CASE index[e] # None
    <3>1. index'[e] = [index[e] EXCEPT !.mirror = job[j].put]
      BY <1>5, <2>2 DEF Observed, TypeInv, TypeOK
    <3>2. index'[e] \in IndexRow
      BY <1>4, <2>2, <3>1, PartTypes DEF IndexRow, Markdown, TypeInv
    <3> QED BY <2>2, <3>2, NoneAssumption
  <2> QED BY <2>1, <2>2
<1> QED BY <1>1, <1>2, <1>3, <1>4, <1>5 DEF IndexMoves

\* An attempt keeps what is true of it: until it has finished, the intent of
\* its entry rises or rests, and its file is written by nobody else.
LEMMA MirrorJobStep ==
  ASSUME SettledInv, Next, NEW k \in Jobs
  PROVE  MirrorJob(k)'
<1>0. /\ TypeInv /\ TypeOK /\ Quiet /\ RootHeldOnce /\ EntryHeldOnce /\ Paired
      /\ UpsertsHaveRows /\ MirrorJob(k)
  BY DEF SettledInv, TypeInv
<1>t. /\ job'[k].at.entry \in Entries /\ job'[k].at.rev \in Nat
      /\ job[k].at.entry \in Entries /\ job[k].at.rev \in Nat
  <2>1. TypeOK'
    BY <1>0, NextTypes DEF TypeInv
  <2> QED BY <1>0, <2>1 DEF TypeOK, JobState, Item
<1>r. \A f \in Entries : outbox[f].rev \in Nat /\ outbox'[f].rev \in Nat
  <2>1. TypeOK'
    BY <1>0, NextTypes DEF TypeInv
  <2> QED BY <1>0, <2>1 DEF TypeOK, Intent, NoIntent
<1> SUFFICES ASSUME job'[k].pc \in Locked
             PROVE  MirrorJob(k)'
  BY DEF MirrorJob
<1>1. CASE job'[k] = job[k]
  <2> DEFINE i == job[k].at
             e == i.entry
  <2>1. /\ outbox[e] # NoIntent /\ i.rev <= outbox[e].rev
        /\ job[k].pc \in Rooted /\ i.op = "upsert" /\ IsCurrent(i) => job[k].put = row[e]
        /\ job[k].pc = "answered" /\ i.op = "upsert" /\ job[k].result = "written"
             => Fits(file[e], job[k].put)
    BY <1>0, <1>1 DEF MirrorJob
  <2>2. ~Done(e)
    <3> SUFFICES ASSUME NEW j \in Jobs, Finish(j), job[j].at.entry = e
                 PROVE  FALSE
      BY DEF Done
    <3>1. job[j].pc = "answered"
      BY DEF Finish
    <3>2. j = k
      BY <1>0, <1>1, <3>1 DEF EntryHeldOnce, Locked
    <3>3. job'[k].pc \in {"idle", "loop"}
      BY <1>0, <3>2, PlainPcs DEF Finish, TypeOK
    <3> QED BY <3>3 DEF Locked
  <2>3. \/ outbox'[e] = outbox[e] /\ row'[e] = row[e]
        \/ outbox'[e] # NoIntent /\ outbox[e].rev < outbox'[e].rev
    BY <1>0, <1>t, <2>2, IntentMoves DEF Rested
  <2>4. outbox'[e] # NoIntent /\ i.rev <= outbox'[e].rev
    BY <1>t, <1>r, <2>1, <2>3
  <2>5. ASSUME job[k].pc \in Rooted, i.op = "upsert",
               outbox'[e] = [op |-> i.op, status |-> "pending", rev |-> i.rev]
        PROVE  job[k].put = row'[e]
    <3>1. outbox'[e].rev = i.rev
      BY <2>5
    <3>2. outbox'[e] = outbox[e] /\ row'[e] = row[e]
      BY <1>t, <1>r, <2>1, <2>3, <3>1
    <3> QED BY <2>1, <2>5, <3>2 DEF IsCurrent
  <2>6. ASSUME job[k].pc = "answered", i.op = "upsert", job[k].result = "written"
        PROVE  Fits(file'[e], job[k].put)
    <3>1. ASSUME NEW j \in Jobs, HelperAnswers(j) \/ HelperFails(j)
          PROVE  FALSE
      <4>1. job[j].pc = "helper"
        BY <3>1 DEF HelperAnswers, HelperFails
      <4>2. j = k
        BY <1>0, <2>6, <4>1 DEF RootHeldOnce, Rooted
      <4> QED BY <2>6, <4>1, <4>2
    <3> QED BY <1>0, <1>t, <2>1, <2>6, <3>1, FileSteps DEF Fits
  <2> QED BY <1>1, <2>4, <2>5, <2>6 DEF MirrorJob, IsCurrent
<1>2. CASE job'[k] # job[k]
  <2>1. Moves(k)
    BY <1>0, <1>2, JobMoves
  <2>2. CASE Check(k) /\ IsCurrent(job[k].at) /\ job'[k].pc = "checked" /\ job'[k].at = job[k].at
    <3>1. outbox' = outbox
      BY <2>2 DEF Check, dbVars
    <3>2. /\ outbox[job[k].at.entry] # NoIntent
          /\ outbox[job[k].at.entry].rev = job[k].at.rev
      BY <2>2 DEF IsCurrent, NoIntent
    <3> QED BY <1>t, <2>2, <3>1, <3>2 DEF MirrorJob, Rooted
  <2>3. CASE /\ Spawn(k) /\ job[k].pc = "checked"
             /\ job[k].at.op = "upsert" => Known(job[k].at.entry)
             /\ job'[k].pc = "helper" /\ job'[k].at = job[k].at
             /\ job'[k].put = IF job[k].at.op = "upsert" THEN row[job[k].at.entry] ELSE None
    <3>1. outbox' = outbox /\ row' = row
      BY <2>3 DEF Spawn
    <3>2. outbox[job[k].at.entry] # NoIntent /\ job[k].at.rev <= outbox[job[k].at.entry].rev
      BY <1>0, <2>3 DEF MirrorJob, Locked
    <3> QED BY <2>3, <3>1, <3>2 DEF MirrorJob
  <2>4. CASE /\ HelperAnswers(k) \/ HelperFails(k)
             /\ job[k].pc = "helper"
             /\ job'[k].pc = "answered" /\ job'[k].at = job[k].at /\ job'[k].put = job[k].put
             /\ job'[k].result = "written" => HelperAnswers(k) /\ ~Conflicts(k)
    <3>1. outbox' = outbox /\ row' = row
      BY <2>4 DEF HelperAnswers, HelperFails, dbVars
    <3>2. /\ outbox[job[k].at.entry] # NoIntent /\ job[k].at.rev <= outbox[job[k].at.entry].rev
          /\ job[k].at.op = "upsert" /\ IsCurrent(job[k].at) => job[k].put = row[job[k].at.entry]
      BY <1>0, <2>4 DEF MirrorJob, Locked, Rooted
    <3>3. ASSUME job'[k].result = "written"
          PROVE  file'[job[k].at.entry] = job[k].put
      BY <1>0, <1>t, <2>4, <3>3 DEF HelperAnswers, Acted, TypeOK
    <3> QED BY <2>4, <3>1, <3>2, <3>3 DEF MirrorJob, IsCurrent, Fits
  <2> QED BY <2>1, <2>2, <2>3, <2>4 DEF Moves, Unlocked, Locked, Cleaning, Reading, Quiet, SettledInv
<1> QED BY <1>1, <1>2

\* Once settled, an entry stays mirrored; and it settles when the attempt for
\* its latest intent has written its row.
LEMMA SettledStep ==
  ASSUME Refers = {}, SettledInv, Next
  PROVE  SettledIsMirrored'
<1>0. /\ TypeInv /\ TypeOK /\ Quiet /\ RootHeldOnce /\ EntryHeldOnce /\ Paired
      /\ UpsertsHaveRows /\ SettledIsMirrored /\ \A k \in Jobs : MirrorJob(k)
  BY DEF SettledInv, TypeInv
<1> SUFFICES ASSUME NEW e \in Entries, row'[e] # None, outbox'[e] = NoIntent
             PROVE  /\ Mirror(e)' = row'[e]
                    /\ Fits(file'[e], row'[e])
  BY DEF SettledIsMirrored, Fits
<1>1. IndexMoves(e)
  BY <1>0, IndexSteps
<1>2. Rested(e) \/ Done(e)
  BY <1>0, IntentMoves
<1>3. CASE Rested(e)
  <2>1. /\ row[e] # None /\ outbox[e] = NoIntent /\ row'[e] = row[e]
        /\ Mirror(e) = row[e] /\ Fits(file[e], row[e])
    BY <1>0, <1>3 DEF Rested, SettledIsMirrored, Fits
  <2>2. ASSUME NEW j \in Jobs, job[j].pc \in Locked, job[j].at.entry = e
        PROVE  FALSE
    BY <1>0, <2>1, <2>2 DEF MirrorJob
  <2>3. index'[e] = index[e] \/ index'[e] = [hash |-> None, mirror |-> Mirror(e)]
    BY <1>1, <2>1, <2>2 DEF IndexMoves, Locked
  <2>4. index'[e] # None
    <3>1. Paired'
      BY <1>0, PairedStep
    <3> QED BY <3>1 DEF Paired
  <2>5. Mirror(e)' = Mirror(e)
    BY <2>3, <2>4 DEF Mirror
  <2>6. ASSUME NEW j \in Jobs, HelperAnswers(j) \/ HelperFails(j), job[j].at.entry = e
        PROVE  FALSE
    BY <2>2, <2>6 DEF HelperAnswers, HelperFails, Locked
  <2>7. Fits(file'[e], row[e])
    BY <1>0, <2>1, <2>6, FileSteps DEF Fits
  <2> QED BY <2>1, <2>5, <2>7
<1>4. CASE Done(e)
  <2>1. PICK j \in Jobs : /\ Finish(j) /\ Succeeded(j)
                          /\ job[j].at.entry = e /\ IsCurrent(job[j].at)
                          /\ outbox'[e] = Completed(job[j].at)[e]
    BY <1>4 DEF Done
  <2>2. job[j].at.op = "upsert"
    <3> SUFFICES ASSUME job[j].at.op # "upsert" PROVE FALSE
      OBVIOUS
    <3>1. outbox'[e].op = outbox[e].op
      BY <1>0, <2>1 DEF Completed, TypeOK, Intent, NoIntent
    <3>2. outbox[e].op = job[j].at.op /\ job[j].at.op \in {"upsert", "delete"}
      BY <1>0, <2>1, PartTypes DEF IsCurrent
    <3> QED BY <3>1, <3>2 DEF NoIntent
  <2>3. job[j].put = row[e] /\ Fits(file[e], job[j].put)
    BY <1>0, <2>1, <2>2 DEF MirrorJob, Finish, Succeeded, Locked, Rooted
  <2>4. row' = row /\ file' = file /\ index' = Observed(e, job[j].put)
    BY <2>1, <2>2 DEF Finish
  <2>5. index[e] # None
    BY <1>0, <2>4 DEF Paired
  <2>6. index[e] \in IndexRow /\ index \in [Entries -> IndexRow \cup {None}]
    BY <1>0, <2>5 DEF TypeOK
  <2>7. index'[e].mirror = job[j].put
    BY <2>4, <2>5, <2>6 DEF Observed, IndexRow
  <2>8. index'[e] # None
    <3>1. Paired'
      BY <1>0, PairedStep
    <3> QED BY <3>1 DEF Paired
  <2> QED BY <2>3, <2>4, <2>7, <2>8 DEF Mirror
<1> QED BY <1>2, <1>3, <1>4

\* The mirror is never given up silently: where no entry refers to another
\* and no file is reconciled, an entry without an intent has its row as its
\* baseline, and in its file unless somebody else changed or removed that.
THEOREM SettledMirror ==
  ASSUME Reconciling = FALSE, Refers = {}
  PROVE  Spec => []SettledIsMirrored
<1>1. Init => SettledInv
  <2> SUFFICES ASSUME Init PROVE SettledInv
    OBVIOUS
  <2>1. \A k \in Jobs : job[k].pc = "idle"
    BY PlainPcs DEF Init
  <2>2. TypeInv
    BY <2>1, InitTypeOK DEF TypeInv, Carried
  <2>3. \A k \in Jobs : MirrorJob(k)
    BY <2>1 DEF MirrorJob, Locked
  <2>4. Paired /\ UpsertsHaveRows /\ SettledIsMirrored
    BY DEF Init, Paired, UpsertsHaveRows, SettledIsMirrored, NoIntent
  <2> QED BY <2>1, <2>2, <2>3, <2>4
          DEF SettledInv, Quiet, Cleaning, Reading, RootHeldOnce, Rooted, EntryHeldOnce, Locked
<1>2. SettledInv /\ [Next]_vars => SettledInv'
  <2>1. CASE UNCHANGED vars
    BY <2>1, NextTypes DEF vars, SettledInv, Quiet, RootHeldOnce, EntryHeldOnce, Paired,
       UpsertsHaveRows, MirrorJob, IsCurrent, SettledIsMirrored, Mirror
  <2>2. ASSUME SettledInv, Next
        PROVE  SettledInv'
    <3>1. TypeInv' /\ RootHeldOnce' /\ EntryHeldOnce'
      BY <2>2, NextTypes, RootStep, EntryLockStep DEF SettledInv, TypeInv
    <3>2. Quiet' /\ Paired' /\ UpsertsHaveRows'
      BY <2>2, QuietStep, PairedStep, UpsertsStep DEF SettledInv, TypeInv
    <3>3. \A k \in Jobs : MirrorJob(k)'
      BY <2>2, MirrorJobStep
    <3>4. SettledIsMirrored'
      BY <2>2, SettledStep
    <3> QED BY <3>1, <3>2, <3>3, <3>4 DEF SettledInv
  <2> QED BY <2>1, <2>2
<1>3. SettledInv => SettledIsMirrored
  BY DEF SettledInv
<1> QED BY <1>1, <1>2, <1>3, PTL DEF Spec
=============================================================================
