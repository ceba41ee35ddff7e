------------------------------ MODULE ChatTurn ------------------------------
(***************************************************************************)
(* One turn of the brainstorm chat: the durable row chat_turns that the    *)
(* same client message claims however often it is sent, the workers that   *)
(* answer it under an expiring claim, the ledger that makes each tool call *)
(* of the model a change made once, and the receipt with which the author  *)
(* undoes the turn's changes of the story.                                 *)
(*                                                                         *)
(* SQLite transactions and code between two awaits are one step.  A worker *)
(* waits while it builds the prompt, while the provider streams and, in a  *)
(* tool call, for the digests of what it will write; an abort of the       *)
(* stream does not stop a tool call under way.                             *)
(***************************************************************************)
EXTENDS Integers, FiniteSets

CONSTANTS
  Workers,     \* requests the server can be serving for the turn
  Tools,       \* semantic tool calls: a tool's name with its input
  Target,      \* what each tool call writes
  None,
  MaxClaims,   \* bound on the claims of the turn
  MaxEdits     \* bound on what the author does meanwhile

Story == {"profile", "entry"}

ASSUME ToolsAssumption == Target \in [Tools -> Story]
ASSUME NamesAssumption ==
  /\ None \notin Tools \cup Nat
  /\ Tools \cap {"start", "author"} = {}
ASSUME BoundsAssumption == MaxClaims \in Nat /\ MaxEdits \in Nat

VARIABLES
  turn,        \* the row of chat_turns
  answer,      \* the assistant message of the turn, under its fixed id
  asked,       \* whether the user's message is stored
  ledger,      \* the tool ledger kept in the row
  receipt,     \* the row of brainstorm_receipts
  story,       \* the profile of the novel and one Story Deck entry
  rev,         \* novels.updated_at
  linked,      \* whether a relation of the author names the entry
  editable,    \* whether the stage admits brainstorm changes
  worker,
  undo,        \* the undo request
  edits,       \* what the author has done so far
  applied,     \* times each tool call changed the story (history)
  origin,      \* what the receipt's changes started from (history)
  edited       \* revision of the author's last edit of each part (history)

turnVars == <<turn, answer, ledger>>
storyVars == <<story, rev, linked, editable>>
history == <<applied, origin, edited>>
vars == <<turn, answer, asked, ledger, receipt, story, rev, linked, editable,
          worker, undo, edits, applied, origin, edited>>

-----------------------------------------------------------------------------
(***************************************************************************)
(* A part of the story is known by who wrote it and when.  The profile is  *)
(* compared together with updated_at of the novel, an entry by its row.    *)
(***************************************************************************)
Content == [by: Tools \cup {"start", "author"}, at: Nat]
State(x) == [is |-> story[x], rev |-> IF x = "profile" THEN rev ELSE 0]
States == [is: Content \cup {None}, rev: Nat]

\* What a tool call sees and must find again, the stage included.
Seen(x) == [state |-> State(x), editable |-> editable]
Sight == [state: States, editable: BOOLEAN]

Answer == [claim: Nat, stopped: BOOLEAN]

Turn ==
  [status: {"none", "running", "succeeded", "failed", "cancelled"},
   claim: Nat, stale: BOOLEAN, text: Answer \cup {None}, bound: BOOLEAN]

Ledger == [status: {"none", "prepared", "completed"}, before: Sight \cup {None}]
NoCall == [status |-> "none", before |-> None]

\* The inverse of the changes of one part: its state before and after them.
Change == [before: Content \cup {None}, after: States]
Receipt ==
  [kept: BOOLEAN, undone: BOOLEAN, offered: BOOLEAN,
   change: [Story -> Change \cup {None}]]
EmptyReceipt ==
  [kept |-> TRUE, undone |-> FALSE, offered |-> FALSE, change |-> [x \in Story |-> None]]
NoReceipt == [EmptyReceipt EXCEPT !.kept = FALSE]

\* None stands for what is not there.
ASSUME NoneAssumption ==
  None \notin Answer \cup Content \cup Sight \cup Change \cup [is: Content \cup {None}]

Worker ==
  [pc: {"idle", "building", "streaming", "aborted", "ended"}, claim: Nat, lost: BOOLEAN,
   tool: Tools \cup {None}, seen: Sight \cup {None}]
IdleWorker == [pc |-> "idle", claim |-> 0, lost |-> FALSE, tool |-> None, seen |-> None]

Undo == [pc: {"idle", "hashing"}, hashed: BOOLEAN]

TypeOK ==
  /\ turn \in Turn
  /\ answer \in Answer \cup {None}
  /\ asked \in BOOLEAN
  /\ ledger \in [Tools -> Ledger]
  /\ receipt \in Receipt
  /\ story \in [Story -> Content \cup {None}]
  /\ rev \in Nat
  /\ linked \in BOOLEAN /\ editable \in BOOLEAN
  /\ worker \in [Workers -> Worker]
  /\ undo \in Undo
  /\ edits \in Nat
  /\ applied \in [Tools -> Nat]
  /\ origin \in [Story -> [is: Content \cup {None}] \cup {None}]
  /\ edited \in [Story -> Nat]

Init ==
  /\ turn = [status |-> "none", claim |-> 0, stale |-> FALSE, text |-> None, bound |-> FALSE]
  /\ answer = None
  /\ asked = FALSE
  /\ ledger = [t \in Tools |-> NoCall]
  /\ receipt = NoReceipt
  /\ story \in {[profile |-> [by |-> "start", at |-> 0], entry |-> e] :
                  e \in {None} \cup {[by |-> t, at |-> 0] :
                                      t \in {u \in Tools : Target[u] = "entry"}}}
  /\ rev = 0
  /\ linked = FALSE /\ editable = TRUE
  /\ worker = [w \in Workers |-> IdleWorker]
  /\ undo = [pc |-> "idle", hashed |-> FALSE]
  /\ edits = 0
  /\ applied = [t \in Tools |-> 0]
  /\ origin = [x \in Story |-> None]
  /\ edited = [x \in Story |-> 0]

-----------------------------------------------------------------------------
(* The claim.                                                              *)

Owns(w) == turn.status = "running" /\ turn.claim = worker[w].claim

Claimable ==
  \/ turn.status \in {"none", "failed", "cancelled"}
  \/ turn.status = "running" /\ turn.stale

\* A tool call under way outlives the response.
Over(w) ==
  worker' = [worker EXCEPT ![w] =
    IF @.tool = None THEN IdleWorker ELSE [@ EXCEPT !.pc = "ended"]]

(***************************************************************************)
(* Every branch of acquireChatTurnOrRespond that does not claim the turn   *)
(* leaves it as it is.  A claimed turn whose answer is already stored is   *)
(* completed with that answer at once.                                     *)
(***************************************************************************)
Begin(w) ==
  /\ worker[w].pc = "idle"
  /\ Claimable
  /\ turn.claim < MaxClaims
  /\ IF answer = None
     THEN /\ turn' = [turn EXCEPT !.status = "running", !.claim = @ + 1, !.stale = FALSE]
          /\ worker' = [worker EXCEPT ![w] =
               [IdleWorker EXCEPT !.pc = "building", !.claim = turn.claim + 1]]
     ELSE /\ turn' = [turn EXCEPT !.status = "succeeded", !.claim = @ + 1,
                                  !.stale = FALSE, !.text = answer]
          /\ UNCHANGED worker
  /\ UNCHANGED <<answer, asked, ledger, receipt, storyVars, undo, edits, history>>

\* updated_at passed CHAT_TURN_STALE_LEASE_MS: nobody renewed the claim, or
\* the machine slept.
ClaimLapses ==
  /\ turn.status = "running" /\ ~turn.stale
  /\ turn' = [turn EXCEPT !.stale = TRUE]
  /\ UNCHANGED <<answer, asked, ledger, receipt, storyVars, worker, undo, edits, history>>

Failed(w) == IF Owns(w) THEN [turn EXCEPT !.status = "failed"] ELSE turn
Cancelled(w) == IF Owns(w) THEN [turn EXCEPT !.status = "cancelled"] ELSE turn

\* The usage session, the history or the context cannot be had.
BuildFails(w) ==
  /\ worker[w].pc = "building"
  /\ turn' = Failed(w)
  /\ Over(w)
  /\ UNCHANGED <<answer, asked, ledger, receipt, storyVars, undo, edits, history>>

\* cleanupExpiredReceipts finds the receipt past its life, or used up.  Every
\* request that handles a receipt of any novel does this first.
Sweep ==
  /\ receipt.kept
  /\ ~(turn.bound /\ turn.status = "running")
  /\ receipt' = NoReceipt
  /\ origin' = [x \in Story |-> None]
  /\ UNCHANGED <<turnVars, asked, storyVars, worker, undo, edits, applied, edited>>

\* Mutant: a retried turn starts an empty receipt.
Ensured_Empty == EmptyReceipt

\* ensureBrainstormReceipt: the turn's receipt, emptied when it is gone or undone.
Ensured == IF receipt.kept /\ ~receipt.undone THEN receipt ELSE EmptyReceipt

\* The user's message is stored and the receipt bound; then the stream
\* starts, and with it the renewal of the claim.
Bind(w) ==
  /\ worker[w].pc = "building"
  /\ receipt' = Ensured
  /\ origin' = IF receipt.kept /\ ~receipt.undone THEN origin ELSE [x \in Story |-> None]
  /\ IF Owns(w)
     THEN /\ turn' = [turn EXCEPT !.bound = TRUE, !.stale = FALSE]
          /\ asked' = TRUE
          /\ rev' = IF asked THEN rev ELSE rev + 1
          /\ worker' = [worker EXCEPT ![w].pc = "streaming"]
     ELSE Over(w) /\ UNCHANGED <<turn, asked, rev>>
  /\ UNCHANGED <<answer, ledger, story, linked, editable, undo, edits, applied, edited>>

Heartbeat(w) ==
  /\ worker[w].pc = "streaming"
  /\ IF Owns(w)
     THEN turn.stale /\ turn' = [turn EXCEPT !.stale = FALSE] /\ UNCHANGED worker
     ELSE /\ worker' = [worker EXCEPT ![w].lost = TRUE, ![w].pc = "aborted"]
          /\ UNCHANGED turn
  /\ UNCHANGED <<answer, asked, ledger, receipt, storyVars, undo, edits, history>>

\* Stop, or the execution deadline.
Abort(w) ==
  /\ worker[w].pc = "streaming"
  /\ worker' = [worker EXCEPT ![w].pc = "aborted"]
  /\ UNCHANGED <<turnVars, asked, receipt, storyVars, undo, edits, history>>

(***************************************************************************)
(* persistTerminalChatTurnAssistantMessage: message, terminal status and   *)
(* the end of the ledger in one transaction.  The new message moves the    *)
(* novel's revision on, in the receipt as well when it was up to date.     *)
(***************************************************************************)
Refreshed(r, from, to) ==
  IF turn.bound /\ r.kept /\ r.change["profile"] # None
     /\ r.change["profile"].after.rev = from
  THEN [r EXCEPT !.change["profile"].after.rev = to] ELSE r

Persist(text, status) ==
  /\ answer \in {None, text}
  /\ answer' = text
  /\ turn' = [turn EXCEPT !.status = status, !.text = text]
  /\ ledger' = [t \in Tools |-> NoCall]
  /\ IF answer = None
     THEN rev' = rev + 1 /\ receipt' = Refreshed(receipt, rev, rev + 1)
     ELSE UNCHANGED <<rev, receipt>>

\* Mutant: a worker whose claim is gone stores its answer all the same.
Finish_Unfenced(w) ==
  /\ worker[w].pc = "streaming"
  /\ Persist([claim |-> worker[w].claim, stopped |-> FALSE], "succeeded")
  /\ Over(w)
  /\ UNCHANGED <<asked, story, linked, editable, undo, edits, history>>

\* The provider ended: with text the answer is stored, unless the claim is
\* gone; without it, or with an error amid a call, the turn failed.
Finish(w) ==
  /\ worker[w].pc = "streaming"
  /\ \/ /\ Owns(w) /\ worker[w].tool = None
        /\ Persist([claim |-> worker[w].claim, stopped |-> FALSE], "succeeded")
     \/ /\ turn' = Failed(w)
        /\ UNCHANGED <<answer, ledger, receipt, rev>>
  /\ Over(w)
  /\ UNCHANGED <<asked, story, linked, editable, undo, edits, history>>

\* The UI stream of an aborted response ended, with visible text or without.
FinishStopped(w) ==
  /\ worker[w].pc = "aborted"
  /\ \/ /\ Owns(w) /\ ~worker[w].lost
        /\ Persist([claim |-> worker[w].claim, stopped |-> TRUE], "cancelled")
     \/ /\ turn' = IF worker[w].lost THEN turn ELSE Cancelled(w)
        /\ UNCHANGED <<answer, ledger, receipt, rev>>
  /\ Over(w)
  /\ UNCHANGED <<asked, story, linked, editable, undo, edits, history>>

-----------------------------------------------------------------------------
(* A tool call of the model: prepare, recover, execute.                    *)

\* The calls of a turn run one after the other.  prepare() reads the story.
ReadStory(w, t) ==
  /\ worker[w].pc \in {"streaming", "aborted"} /\ worker[w].tool = None
  /\ worker' = [worker EXCEPT ![w].tool = t, ![w].seen = Seen(Target[t])]
  /\ UNCHANGED <<turnVars, asked, receipt, storyVars, undo, edits, history>>

ToolEnds(w) ==
  worker' = [worker EXCEPT ![w] =
    IF @.pc = "ended" THEN IdleWorker ELSE [@ EXCEPT !.tool = None, !.seen = None]]

\* Mutant: a completed call is prepared again.
Admitted_Again(w, t) ==
  /\ Owns(w)
  /\ \A u \in Tools \ {t} : ledger[u].status # "prepared"

\* prepareChatTurnToolCall admits the call: it is not done, and no earlier
\* intent is pending.
Admitted(w, t) ==
  /\ Owns(w)
  /\ ledger[t].status # "completed"
  /\ \A u \in Tools \ {t} : ledger[u].status # "prepared"

\* A call that is in the ledger goes by what was recorded then.
Intent(w, t) ==
  IF ledger[t].status = "none" THEN [status |-> "prepared", before |-> worker[w].seen]
  ELSE ledger[t]

\* The receipt takes the change only as the continuation of what it holds.
Continues(x, before) ==
  IF receipt.change[x] = None THEN TRUE ELSE receipt.change[x].after = before

\* An entry's change also moves the revision recorded with a profile change.
KeepsRevision(x) ==
  x = "entry" /\ receipt.change["profile"] # None
    => receipt.change["profile"].after.rev = rev

Recorded(x, before, after) ==
  LET first == IF receipt.change[x] = None THEN before ELSE receipt.change[x].before
      r == [receipt EXCEPT !.change[x] = [before |-> first, after |-> after]]
  IN IF x = "entry" /\ r.change["profile"] # None
     THEN [r EXCEPT !.change["profile"].after.rev = rev + 1] ELSE r

\* Writes x as c, a change the receipt takes.
Write(x, c) ==
  /\ story' = [story EXCEPT ![x] = c]
  /\ rev' = rev + 1
  /\ receipt' = Recorded(x, story[x],
                         [is |-> c, rev |-> IF x = "profile" THEN rev + 1 ELSE 0])
  /\ origin' = [origin EXCEPT ![x] = IF @ = None THEN [is |-> story[x]] ELSE @]

\* The call changes nothing: what it would write is there already.
Same(t) == story[Target[t]] # None /\ story[Target[t]].by = t

(***************************************************************************)
(* A call whose digests are there: its intent is recorded; what it would   *)
(* change must be what the intent recorded; then the change, the receipt   *)
(* and the completion of the ledger entry are one transaction, rolled back *)
(* when the receipt does not fit.  Once writing has begun the call         *)
(* completes with the answer that nothing is editable.                     *)
(***************************************************************************)
\* Mutant: the recorded state is compared no more.
Unchanged_Trusted(w, t) == TRUE

Unchanged(w, t) == Seen(Target[t]) = Intent(w, t).before

Fits(w, t) ==
  /\ Unchanged(w, t)
  /\ receipt.kept
  /\ Continues(Target[t], State(Target[t]))
  /\ KeepsRevision(Target[t])

Idles(w, t) == Unchanged(w, t) /\ (~editable \/ Same(t))

Call(w, t) ==
  /\ worker[w].tool = t
  /\ IF Admitted(w, t)
     THEN LET done == Idles(w, t) \/ Fits(w, t) IN
          /\ ledger' = [ledger EXCEPT ![t] =
               [Intent(w, t) EXCEPT !.status = IF done THEN "completed" ELSE @]]
          /\ turn' = [turn EXCEPT !.stale = IF done \/ ledger[t].status = "none" THEN FALSE ELSE @]
          /\ IF done /\ ~Idles(w, t)
             THEN /\ Write(Target[t], [by |-> t, at |-> rev + 1])
                  /\ applied' = [applied EXCEPT ![t] = @ + 1]
             ELSE UNCHANGED <<story, rev, receipt, origin, applied>>
     ELSE UNCHANGED <<turn, ledger, story, rev, receipt, origin, applied>>
  /\ ToolEnds(w)
  /\ UNCHANGED <<answer, asked, linked, editable, undo, edits, edited>>

AllDie ==
  /\ worker' = [w \in Workers |-> IdleWorker]
  /\ undo' = [pc |-> "idle", hashed |-> FALSE]

\* The process dies between the intent and the change.
DiesPrepared(w, t) ==
  /\ worker[w].tool = t /\ Admitted(w, t)
  /\ ledger' = [ledger EXCEPT ![t] = Intent(w, t)]
  /\ turn' = [turn EXCEPT !.stale = FALSE]
  /\ AllDie
  /\ UNCHANGED <<answer, asked, receipt, storyVars, edits, history>>

-----------------------------------------------------------------------------
(* The offer to undo, and the undo.                                        *)

\* consumeLatestBrainstormReceipt, when the client asks for it.
Offer ==
  /\ receipt.kept /\ ~receipt.offered /\ ~receipt.undone
  /\ \E x \in Story : receipt.change[x] # None
  /\ receipt' = [receipt EXCEPT !.offered = TRUE]
  /\ UNCHANGED <<turnVars, asked, storyVars, worker, undo, edits, history>>

\* The receipt may still be undone and the story is what it left.
Undoable(r) ==
  /\ r.kept /\ ~r.undone /\ r.offered
  /\ \A x \in Story : r.change[x] # None => r.change[x].after = State(x)

\* The first check; then the hashes of the rows to restore are awaited.
UndoBegins ==
  /\ undo.pc = "idle"
  /\ Undoable(receipt)
  /\ undo' = [pc |-> "hashing",
              hashed |-> /\ receipt.change["entry"] # None
                         /\ receipt.change["entry"].before # None]
  /\ UNCHANGED <<turnVars, asked, receipt, storyVars, worker, edits, history>>

\* Mutant: what was checked before the digests is not checked again.
Invertible_Trusted == ~receipt.undone

Invertible ==
  /\ Undoable(receipt)
  /\ receipt.change["entry"] # None =>
       IF receipt.change["entry"].before = None THEN ~linked ELSE undo.hashed

Answered == undo' = [pc |-> "idle", hashed |-> FALSE]

\* Everything is checked again and inverted in one transaction.
UndoEnds ==
  /\ undo.pc = "hashing"
  /\ IF Invertible
     THEN /\ story' = [x \in Story |-> IF receipt.change[x] = None THEN story[x]
                                       ELSE receipt.change[x].before]
          /\ rev' = IF receipt.change["profile"] = None THEN rev ELSE rev + 1
          /\ receipt' = [receipt EXCEPT !.undone = TRUE]
     ELSE UNCHANGED <<story, rev, receipt>>
  /\ Answered
  /\ UNCHANGED <<turnVars, asked, linked, editable, worker, edits, history>>

\* The undo window is over.
UndoExpires ==
  /\ undo.pc = "hashing"
  /\ Answered
  /\ UNCHANGED <<turnVars, asked, receipt, storyVars, worker, edits, history>>

-----------------------------------------------------------------------------
(* The author, and the server's end.                                       *)

AuthorWrites(x) ==
  /\ edits < MaxEdits
  /\ story' = [story EXCEPT ![x] = [by |-> "author", at |-> rev + 1]]
  /\ rev' = rev + 1
  /\ edits' = edits + 1
  /\ edited' = [edited EXCEPT ![x] = rev + 1]
  /\ UNCHANGED <<turnVars, asked, receipt, linked, editable, worker, undo, applied, origin>>

AuthorLinks ==
  /\ edits < MaxEdits /\ ~linked /\ story["entry"] # None
  /\ linked' = TRUE
  /\ rev' = rev + 1
  /\ edits' = edits + 1
  /\ UNCHANGED <<turnVars, asked, receipt, story, editable, worker, undo, history>>

WritingStarts ==
  /\ edits < MaxEdits /\ editable
  /\ editable' = FALSE
  /\ rev' = rev + 1
  /\ edits' = edits + 1
  /\ UNCHANGED <<turnVars, asked, receipt, story, linked, worker, undo, history>>

Crash ==
  /\ \E w \in Workers : worker[w].pc # "idle"
  /\ AllDie
  /\ UNCHANGED <<turnVars, asked, receipt, storyVars, edits, history>>

Next ==
  \/ \E w \in Workers :
       \/ Begin(w) \/ BuildFails(w) \/ Bind(w) \/ Heartbeat(w) \/ Abort(w)
       \/ Finish(w) \/ FinishStopped(w)
       \/ \E t \in Tools : ReadStory(w, t) \/ Call(w, t) \/ DiesPrepared(w, t)
  \/ ClaimLapses
  \/ Sweep \/ Offer \/ UndoBegins \/ UndoEnds \/ UndoExpires
  \/ \E x \in Story : AuthorWrites(x)
  \/ AuthorLinks \/ WritingStarts \/ Crash

Spec == Init /\ [][Next]_vars

-----------------------------------------------------------------------------
(***************************************************************************)
(* A turn has one answer: it is that of the claim in force when it was     *)
(* stored, never replaced, and what a succeeded turn replays.              *)
(***************************************************************************)
OneAnswer ==
  [][/\ answer # None => answer' = answer
     /\ answer' # answer => answer'.claim = turn.claim
     /\ turn'.status = "succeeded" => turn'.text = answer' /\ answer' # None]_vars

\* However often a turn is retried, taken over or cut off, a tool call of it
\* changes the story at most once.
AppliedOnce == \A t \in Tools : applied[t] <= 1

(***************************************************************************)
(* A tool call replaces nothing the author did after the call's intent was *)
(* recorded, and nothing at all once writing has begun.                    *)
(***************************************************************************)
EditsRespected ==
  [][\A t \in Tools : applied'[t] # applied[t] =>
       /\ editable
       /\ edited[Target[t]] <= IF ledger'[t].before.state.is = None THEN 0
                               ELSE ledger'[t].before.state.is.at]_vars

\* A receipt that can still be undone holds, for each part its turn changed,
\* what that part was before the turn's first change.
ReceiptInverts ==
  receipt.kept /\ ~receipt.undone =>
    \A x \in Story : origin[x] # None =>
      receipt.change[x] # None /\ receipt.change[x].before = origin[x].is

\* An undo takes back only the turn's own changes: no edit of the author made
\* since, and no entry the author has linked.
UndoSparesAuthor ==
  [][receipt'.undone /\ ~receipt.undone =>
       /\ \A x \in Story : story'[x] # story[x] =>
            edited[x] <= IF story'[x] = None THEN 0 ELSE story'[x].at
       /\ story'["entry"] = None => ~linked]_vars
=============================================================================
