--------------------------- MODULE ChatTurnProofs ---------------------------
(***************************************************************************)
(* Theorems about ChatTurn, for any requests, tool calls and bounds.       *)
(***************************************************************************)
EXTENDS ChatTurn, TLAPS

-----------------------------------------------------------------------------
(* Types of the operators.                                                 *)

\* What a tool call reads of the story has its type.
LEMMA SeenType ==
  ASSUME TypeOK, NEW x \in Story
  PROVE  State(x) \in States /\ Seen(x) \in Sight
BY DEF TypeOK, State, States, Seen, Sight, Story

\* The empty receipt and the missing one are receipts.
LEMMA NoReceiptType == EmptyReceipt \in Receipt /\ NoReceipt \in Receipt
<1>1. EmptyReceipt \in Receipt
  BY DEF EmptyReceipt, Receipt
<1>2. NoReceipt \in Receipt
  BY <1>1 DEF NoReceipt, EmptyReceipt, Receipt
<1> QED BY <1>1, <1>2

\* The parts of a worker have their types.
LEMMA WorkerParts ==
  ASSUME TypeOK, NEW w \in Workers
  PROVE  /\ worker[w] \in Worker
         /\ worker[w].claim \in Nat
         /\ worker[w].tool \in Tools \cup {None}
         /\ worker[w].seen \in Sight \cup {None}
BY DEF TypeOK, Worker

\* A worker with one of its fields replaced is a worker, and so is an idle one.
LEMMA WorkerType ==
  ASSUME NEW k \in Worker
  PROVE  /\ \A p \in {"idle", "building", "streaming", "aborted", "ended"} :
              [k EXCEPT !.pc = p] \in Worker
         /\ [k EXCEPT !.tool = None, !.seen = None] \in Worker
         /\ [k EXCEPT !.lost = TRUE, !.pc = "aborted"] \in Worker
         /\ IdleWorker \in Worker
BY DEF Worker, IdleWorker

\* The response of a worker ends.
LEMMA OverType ==
  ASSUME TypeOK, NEW w \in Workers, Over(w)
  PROVE  worker' \in [Workers -> Worker]
<1> DEFINE k == IF worker[w].tool = None THEN IdleWorker
                ELSE [worker[w] EXCEPT !.pc = "ended"]
<1>1. k \in Worker
  BY WorkerParts, WorkerType
<1>2. worker' = [worker EXCEPT ![w] = k]
  BY DEF Over
<1> QED BY <1>1, <1>2 DEF TypeOK

\* The tool call of a worker ends.
LEMMA ToolEndsType ==
  ASSUME TypeOK, NEW w \in Workers, ToolEnds(w)
  PROVE  worker' \in [Workers -> Worker]
<1> DEFINE k == IF worker[w].pc = "ended" THEN IdleWorker
                ELSE [worker[w] EXCEPT !.tool = None, !.seen = None]
<1>1. k \in Worker
  BY WorkerParts, WorkerType
<1>2. worker' = [worker EXCEPT ![w] = k]
  BY DEF ToolEnds
<1> QED BY <1>1, <1>2 DEF TypeOK

\* Whatever runs in the process is gone.
LEMMA AllDieType ==
  ASSUME AllDie
  PROVE  worker' \in [Workers -> Worker] /\ undo' \in Undo
BY DEF AllDie, Worker, IdleWorker, Undo

\* A receipt with a newer revision of the novel is a receipt.
LEMMA RefreshedType ==
  ASSUME NEW r \in Receipt, NEW from \in Nat, NEW to \in Nat
  PROVE  Refreshed(r, from, to) \in Receipt
<1> DEFINE c == [r.change["profile"] EXCEPT !.after.rev = to]
<1>1. CASE r.change["profile"] = None
  BY <1>1 DEF Refreshed
<1>2. CASE r.change["profile"] # None
  <2>1. "profile" \in Story BY DEF Story
  <2>2. r.change["profile"] \in Change
    BY <1>2, <2>1 DEF Receipt
  <2>3. c \in Change
    BY <2>2 DEF Change, States
  <2>4. [r EXCEPT !.change["profile"].after.rev = to] \in Receipt
    BY <2>1, <2>3 DEF Receipt
  <2> QED BY <2>4 DEF Refreshed
<1> QED BY <1>1, <1>2

\* A ledger entry is one, prepared or completed.
LEMMA IntentType ==
  ASSUME TypeOK, NEW w \in Workers, NEW t \in Tools
  PROVE  /\ Intent(w, t) \in Ledger
         /\ [Intent(w, t) EXCEPT !.status = "completed"] \in Ledger
<1>1. ledger[t] \in Ledger
  BY DEF TypeOK
<1>2. Intent(w, t) \in Ledger
  BY <1>1, WorkerParts DEF Intent, Ledger
<1> QED BY <1>2 DEF Ledger

\* The receipt with one more change is a receipt.
LEMMA RecordedType ==
  ASSUME TypeOK, NEW x \in Story, NEW before \in Content \cup {None},
         NEW after \in States
  PROVE  Recorded(x, before, after) \in Receipt
<1> DEFINE first == IF receipt.change[x] = None THEN before ELSE receipt.change[x].before
           c == [before |-> first, after |-> after]
           r == [receipt EXCEPT !.change[x] = c]
<1>0. receipt \in Receipt /\ rev + 1 \in Nat
  BY DEF TypeOK
<1>1. receipt.change[x] \in Change \cup {None}
  BY <1>0 DEF Receipt
<1>2. c \in Change
  BY <1>1 DEF Change
<1>3. r \in Receipt
  BY <1>0, <1>2 DEF Receipt
<1>4. CASE x = "entry" /\ r.change["profile"] # None
  <2> DEFINE p == [r.change["profile"] EXCEPT !.after.rev = rev + 1]
  <2>1. "profile" \in Story
    BY DEF Story
  <2>2. r.change["profile"] \in Change
    BY <1>3, <1>4, <2>1 DEF Receipt
  <2>3. p \in Change
    BY <1>0, <2>2 DEF Change, States
  <2>4. [r EXCEPT !.change["profile"].after.rev = rev + 1] \in Receipt
    BY <1>3, <2>1, <2>3 DEF Receipt
  <2>5. Recorded(x, before, after) = [r EXCEPT !.change["profile"].after.rev = rev + 1]
    BY <1>4 DEF Recorded
  <2> QED BY <2>4, <2>5
<1>5. CASE ~(x = "entry" /\ r.change["profile"] # None)
  <2>1. Recorded(x, before, after) = r
    BY <1>5 DEF Recorded
  <2> QED BY <1>3, <2>1
<1> QED BY <1>4, <1>5

-----------------------------------------------------------------------------
\* The types hold in the initial states.
LEMMA TypeInit == Init => TypeOK
<1> SUFFICES ASSUME Init PROVE TypeOK
  OBVIOUS
<1>1. turn \in Turn
  BY DEF Init, Turn
<1>2. ledger \in [Tools -> Ledger]
  BY DEF Init, Ledger, NoCall
<1>3. receipt \in Receipt
  BY NoReceiptType DEF Init
<1>4. story \in [Story -> Content \cup {None}]
  <2>1. PICK e \in {None} \cup {[by |-> t, at |-> 0] : t \in {u \in Tools : Target[u] = "entry"}} :
          story = [profile |-> [by |-> "start", at |-> 0], entry |-> e]
    BY DEF Init
  <2>2. e \in Content \cup {None}
    BY DEF Content
  <2>3. [by |-> "start", at |-> 0] \in Content
    BY DEF Content
  <2> QED BY <2>1, <2>2, <2>3 DEF Story
<1>5. worker \in [Workers -> Worker]
  BY DEF Init, Worker, IdleWorker
<1>6. undo \in Undo
  BY DEF Init, Undo
<1> QED BY <1>1, <1>2, <1>3, <1>4, <1>5, <1>6 DEF Init, TypeOK

\* A claimed, renewed, failed or cancelled turn is a turn.
LEMMA TurnType ==
  ASSUME TypeOK
  PROVE  /\ \A s \in {"running", "failed", "cancelled"} : [turn EXCEPT !.status = s] \in Turn
         /\ \A b \in BOOLEAN : [turn EXCEPT !.stale = b] \in Turn
         /\ [turn EXCEPT !.bound = TRUE, !.stale = FALSE] \in Turn
         /\ [turn EXCEPT !.status = "running", !.claim = @ + 1, !.stale = FALSE] \in Turn
         /\ [turn EXCEPT !.status = "succeeded", !.claim = @ + 1,
                         !.stale = FALSE, !.text = answer] \in Turn
         /\ \A a \in Answer, s \in {"succeeded", "cancelled"} :
              [turn EXCEPT !.status = s, !.text = a] \in Turn
         /\ \A w \in Workers : Failed(w) \in Turn /\ Cancelled(w) \in Turn
<1>1. turn \in Turn /\ answer \in Answer \cup {None}
  BY DEF TypeOK
<1>0. turn.claim + 1 \in Nat
  BY <1>1 DEF Turn
<1>2. \A s \in {"running", "failed", "cancelled"} : [turn EXCEPT !.status = s] \in Turn
  BY <1>1 DEF Turn
<1>3. \A b \in BOOLEAN : [turn EXCEPT !.stale = b] \in Turn
  BY <1>1 DEF Turn
<1>4. [turn EXCEPT !.bound = TRUE, !.stale = FALSE] \in Turn
  BY <1>1 DEF Turn
<1>5. [turn EXCEPT !.status = "running", !.claim = @ + 1, !.stale = FALSE] \in Turn
  BY <1>0, <1>1 DEF Turn
<1>6. [turn EXCEPT !.status = "succeeded", !.claim = @ + 1,
                   !.stale = FALSE, !.text = answer] \in Turn
  BY <1>0, <1>1 DEF Turn
<1>7. \A a \in Answer, s \in {"succeeded", "cancelled"} :
        [turn EXCEPT !.status = s, !.text = a] \in Turn
  BY <1>1 DEF Turn
<1>8. \A w \in Workers : Failed(w) \in Turn /\ Cancelled(w) \in Turn
  BY <1>1, <1>2 DEF Failed, Cancelled
<1> QED BY <1>2, <1>3, <1>4, <1>5, <1>6, <1>7, <1>8

\* The terminal write keeps the types, for an answer of a claim.
LEMMA PersistType ==
  ASSUME TypeOK, NEW text \in Answer, NEW status \in {"succeeded", "cancelled"},
         Persist(text, status)
  PROVE  /\ turn' \in Turn /\ answer' \in Answer \cup {None}
         /\ ledger' \in [Tools -> Ledger] /\ receipt' \in Receipt /\ rev' \in Nat
<1>1. turn' \in Turn
  BY TurnType DEF Persist
<1>2. ledger' \in [Tools -> Ledger]
  BY DEF Persist, Ledger, NoCall
<1>3. rev \in Nat /\ rev + 1 \in Nat /\ receipt \in Receipt
  BY DEF TypeOK
<1>4. receipt' \in Receipt /\ rev' \in Nat
  BY <1>3, RefreshedType DEF Persist
<1> QED BY <1>1, <1>2, <1>4 DEF Persist

-----------------------------------------------------------------------------
(* Every step keeps the types: the steps of the claim first.               *)

\* Steps that write the turn and the worker only.
LEMMA TypeClaim ==
  ASSUME TypeOK, NEW w \in Workers,
         \/ Begin(w) \/ BuildFails(w) \/ Heartbeat(w) \/ Abort(w)
  PROVE  TypeOK'
<1>1. CASE Begin(w)
  <2>1. [IdleWorker EXCEPT !.pc = "building", !.claim = turn.claim + 1] \in Worker
    <3>1. turn.claim + 1 \in Nat
      BY DEF TypeOK, Turn
    <3> QED BY <3>1, WorkerType DEF IdleWorker, Worker
  <2>2. worker' \in [Workers -> Worker] /\ turn' \in Turn
    BY <1>1, <2>1, TurnType DEF Begin, TypeOK
  <2> QED BY <1>1, <2>2 DEF Begin, TypeOK, storyVars, history
<1>3. CASE BuildFails(w)
  BY <1>3, TurnType, OverType DEF BuildFails, TypeOK, storyVars, history
<1>4. CASE Heartbeat(w)
  <2>1. [worker[w] EXCEPT !.lost = TRUE, !.pc = "aborted"] \in Worker
    BY WorkerParts, WorkerType
  <2>2. worker' \in [Workers -> Worker] /\ turn' \in Turn
    <3>1. CASE Owns(w)
      BY <1>4, <3>1, TurnType DEF Heartbeat, TypeOK
    <3>2. CASE ~Owns(w)
      BY <1>4, <3>2, <2>1 DEF Heartbeat, TypeOK
    <3> QED BY <3>1, <3>2
  <2> QED BY <1>4, <2>2 DEF Heartbeat, TypeOK, storyVars, history
<1>5. CASE Abort(w)
  <2>1. [worker[w] EXCEPT !.pc = "aborted"] \in Worker
    BY WorkerParts, WorkerType
  <2> QED BY <1>5, <2>1 DEF Abort, TypeOK, turnVars, storyVars, history
<1> QED BY <1>1, <1>3, <1>4, <1>5

\* Steps that bind the receipt, or end the turn.
LEMMA TypeTurn ==
  ASSUME TypeOK, NEW w \in Workers,
         Bind(w) \/ Finish(w) \/ FinishStopped(w)
  PROVE  TypeOK'
<1>0. receipt \in Receipt /\ rev \in Nat /\ turn \in Turn /\ worker[w].claim \in Nat
  BY WorkerParts DEF TypeOK
<1>1. CASE Bind(w)
  <2>1. receipt' \in Receipt
    BY <1>0, <1>1, NoReceiptType DEF Bind, Ensured
  <2>2. worker' \in [Workers -> Worker]
    <3>1. [worker[w] EXCEPT !.pc = "streaming"] \in Worker
      BY WorkerParts, WorkerType
    <3>2. CASE Owns(w)
      BY <1>1, <3>1, <3>2 DEF Bind, TypeOK
    <3>3. CASE ~Owns(w)
      BY <1>1, <3>3, OverType DEF Bind
    <3> QED BY <3>2, <3>3
  <2>3. turn' \in Turn /\ rev' \in Nat /\ asked' \in BOOLEAN
    <3>1. CASE Owns(w)
      <4>1. /\ turn' = [turn EXCEPT !.bound = TRUE, !.stale = FALSE]
            /\ asked' = TRUE
            /\ rev' = IF asked THEN rev ELSE rev + 1
        BY <1>1, <3>1 DEF Bind
      <4>2. turn' \in Turn
        BY <4>1, TurnType
      <4>3. rev' \in Nat
        BY <4>1, <1>0
      <4>4. asked' \in BOOLEAN
        BY <4>1, Zenon
      <4> QED BY <4>2, <4>3, <4>4
    <3>2. CASE ~Owns(w)
      BY <1>0, <1>1, <3>2 DEF Bind, TypeOK
    <3> QED BY <3>1, <3>2
  <2>4. origin' \in [Story -> [is : Content \cup {None}] \cup {None}]
    BY <1>1 DEF Bind, TypeOK
  <2> QED BY <1>1, <2>1, <2>2, <2>3, <2>4 DEF Bind, TypeOK
<1>3. CASE Finish(w)
  <2> DEFINE text == [claim |-> worker[w].claim, stopped |-> FALSE]
  <2>1. text \in Answer
    BY <1>0 DEF Answer
  <2>2. worker' \in [Workers -> Worker]
    BY <1>3, OverType DEF Finish
  <2>3. CASE Persist(text, "succeeded")
    BY <1>3, <2>1, <2>2, <2>3, PersistType DEF Finish, TypeOK, history
  <2>4. CASE turn' = Failed(w) /\ UNCHANGED <<answer, ledger, receipt, rev>>
    BY <1>3, <2>2, <2>4, TurnType DEF Finish, TypeOK, history
  <2> QED BY <1>3, <2>3, <2>4 DEF Finish
<1>4. CASE FinishStopped(w)
  <2> DEFINE text == [claim |-> worker[w].claim, stopped |-> TRUE]
  <2>1. text \in Answer
    BY <1>0 DEF Answer
  <2>2. worker' \in [Workers -> Worker]
    BY <1>4, OverType DEF FinishStopped
  <2>3. CASE Persist(text, "cancelled")
    BY <1>4, <2>1, <2>2, <2>3, PersistType DEF FinishStopped, TypeOK, history
  <2>4. CASE /\ turn' = IF worker[w].lost THEN turn ELSE Cancelled(w)
             /\ UNCHANGED <<answer, ledger, receipt, rev>>
    BY <1>4, <2>2, <2>4, <1>0, TurnType DEF FinishStopped, TypeOK, history
  <2> QED BY <1>4, <2>3, <2>4 DEF FinishStopped
<1> QED BY <1>1, <1>3, <1>4

\* Steps of a tool call.
LEMMA TypeTool ==
  ASSUME TypeOK, NEW w \in Workers, NEW t \in Tools,
         ReadStory(w, t) \/ Call(w, t) \/ DiesPrepared(w, t)
  PROVE  TypeOK'
<1>0. /\ Target[t] \in Story /\ ledger[t] \in Ledger
      /\ receipt \in Receipt /\ rev \in Nat /\ rev + 1 \in Nat
  BY ToolsAssumption DEF TypeOK
<1>1. CASE ReadStory(w, t)
  <2>1. Seen(Target[t]) \in Sight
    BY <1>0, SeenType
  <2>2. [worker[w] EXCEPT !.tool = t, !.seen = Seen(Target[t])] \in Worker
    BY <2>1, WorkerParts DEF Worker
  <2>3. worker' = [worker EXCEPT ![w] = [worker[w] EXCEPT !.tool = t, !.seen = Seen(Target[t])]]
    BY <1>1 DEF ReadStory, TypeOK
  <2>4. worker' \in [Workers -> Worker]
    BY <2>2, <2>3 DEF TypeOK
  <2> QED BY <1>1, <2>4 DEF ReadStory, TypeOK, turnVars, storyVars, history
<1>2. CASE Call(w, t)
  <2>1. worker' \in [Workers -> Worker]
    BY <1>2, ToolEndsType DEF Call
  <2>2. CASE Admitted(w, t)
    <3> DEFINE done == Idles(w, t) \/ Fits(w, t)
               i == Intent(w, t)
               c == [by |-> t, at |-> rev + 1]
               after == [is |-> c, rev |-> IF Target[t] = "profile" THEN rev + 1 ELSE 0]
    <3>1. /\ ledger' = [ledger EXCEPT ![t] =
               [i EXCEPT !.status = IF done THEN "completed" ELSE @]]
          /\ turn' = [turn EXCEPT !.stale = IF done \/ ledger[t].status = "none" THEN FALSE ELSE @]
      BY <1>2, <2>2 DEF Call
    <3>2. i \in Ledger
      BY IntentType
    <3>3. [i EXCEPT !.status = IF done THEN "completed" ELSE @] \in Ledger
      <4>1. CASE done
        BY <4>1, IntentType
      <4>2. CASE ~done
        BY <4>2, <3>2 DEF Ledger
      <4> QED BY <4>1, <4>2
    <3>4. ledger' \in [Tools -> Ledger]
      BY <3>1, <3>3 DEF TypeOK
    <3>5. turn' \in Turn
      <4>1. turn \in Turn
        BY DEF TypeOK
      <4> QED BY <3>1, <4>1 DEF Turn
    <3>6. CASE done /\ ~Idles(w, t)
      <4>1. Write(Target[t], c) /\ applied' = [applied EXCEPT ![t] = @ + 1]
        BY <1>2, <2>2, <3>6 DEF Call
      <4>2. c \in Content /\ after \in States
        BY <1>0 DEF Content, States
      <4>3. story[Target[t]] \in Content \cup {None}
        BY <1>0 DEF TypeOK
      <4>4. receipt' \in Receipt
        BY <1>0, <4>1, <4>2, <4>3, RecordedType DEF Write
      <4>5. story' \in [Story -> Content \cup {None}]
        BY <4>1, <4>2 DEF Write, TypeOK
      <4>6. origin' \in [Story -> [is : Content \cup {None}] \cup {None}]
        <5>1. origin' = [origin EXCEPT ![Target[t]] =
                           IF @ = None THEN [is |-> story[Target[t]]] ELSE @]
          BY <4>1 DEF Write
        <5>2. [is |-> story[Target[t]]] \in [is : Content \cup {None}]
          BY <4>3
        <5> QED BY <5>1, <5>2 DEF TypeOK
      <4>7. rev' \in Nat /\ applied' \in [Tools -> Nat]
        BY <1>0, <4>1 DEF Write, TypeOK
      <4> QED BY <1>2, <2>1, <3>4, <3>5, <4>4, <4>5, <4>6, <4>7 DEF Call, TypeOK
    <3>7. CASE ~(done /\ ~Idles(w, t))
      <4>1. UNCHANGED <<story, rev, receipt, origin, applied>>
        BY <1>2, <2>2, <3>7 DEF Call
      <4> QED BY <1>2, <2>1, <3>4, <3>5, <4>1 DEF Call, TypeOK
    <3> QED BY <3>6, <3>7
  <2>3. CASE ~Admitted(w, t)
    BY <1>2, <2>1, <2>3 DEF Call, TypeOK
  <2> QED BY <2>2, <2>3
<1>3. CASE DiesPrepared(w, t)
  BY <1>3, IntentType, TurnType, AllDieType DEF DiesPrepared, TypeOK, storyVars, history
<1> QED BY <1>1, <1>2, <1>3

\* The claim lapses, and the steps of the receipt's life and of the undo.
LEMMA TypeUndo ==
  ASSUME TypeOK, ClaimLapses \/ Sweep \/ Offer \/ UndoBegins \/ UndoEnds \/ UndoExpires
  PROVE  TypeOK'
<1>0. receipt \in Receipt /\ rev \in Nat
  BY DEF TypeOK
<1>1. CASE Offer
  BY <1>0, <1>1 DEF Offer, Receipt, TypeOK, turnVars, storyVars, history
<1>2. CASE UndoBegins
  BY <1>2 DEF UndoBegins, Undo, TypeOK, turnVars, storyVars, history
<1>3. CASE UndoEnds
  <2>1. undo' \in Undo
    BY <1>3 DEF UndoEnds, Answered, Undo
  <2>2. CASE Invertible
    <3>1. \A x \in Story : receipt.change[x] # None =>
            receipt.change[x].before \in Content \cup {None}
      BY <1>0 DEF Receipt, Change
    <3>2. story' \in [Story -> Content \cup {None}]
      BY <1>3, <2>2, <3>1 DEF UndoEnds, TypeOK
    <3>3. receipt' \in Receipt /\ rev' \in Nat
      <4>1. /\ rev' = IF receipt.change["profile"] = None THEN rev ELSE rev + 1
            /\ receipt' = [receipt EXCEPT !.undone = TRUE]
        BY <1>3, <2>2 DEF UndoEnds
      <4>2. receipt' \in Receipt
        BY <1>0, <4>1 DEF Receipt
      <4> QED BY <1>0, <4>1, <4>2
    <3> QED BY <1>3, <2>1, <3>2, <3>3 DEF UndoEnds, TypeOK, turnVars, history
  <2>3. CASE ~Invertible
    BY <1>3, <2>1, <2>3 DEF UndoEnds, TypeOK, turnVars, history
  <2> QED BY <2>2, <2>3
<1>4. CASE UndoExpires
  BY <1>4 DEF UndoExpires, Answered, Undo, TypeOK, turnVars, storyVars, history
<1>5. CASE ClaimLapses
  BY <1>5, TurnType DEF ClaimLapses, TypeOK, storyVars, history
<1>6. CASE Sweep
  BY <1>6, NoReceiptType DEF Sweep, TypeOK, turnVars, storyVars
<1> QED BY <1>1, <1>2, <1>3, <1>4, <1>5, <1>6

\* Steps of the author, and the crash.
LEMMA TypeAuthor ==
  ASSUME TypeOK, (\E x \in Story : AuthorWrites(x)) \/ AuthorLinks \/ WritingStarts \/ Crash
  PROVE  TypeOK'
<1>0. rev + 1 \in Nat /\ edits + 1 \in Nat
  BY DEF TypeOK
<1>1. ASSUME NEW x \in Story, AuthorWrites(x) PROVE TypeOK'
  <2>1. [by |-> "author", at |-> rev + 1] \in Content
    BY <1>0 DEF Content
  <2> QED BY <1>0, <1>1, <2>1 DEF AuthorWrites, TypeOK, turnVars
<1>2. CASE AuthorLinks
  BY <1>0, <1>2 DEF AuthorLinks, TypeOK, turnVars, history
<1>3. CASE WritingStarts
  BY <1>0, <1>3 DEF WritingStarts, TypeOK, turnVars, history
<1>4. CASE Crash
  BY <1>4, AllDieType DEF Crash, TypeOK, turnVars, storyVars, history
<1> QED BY <1>1, <1>2, <1>3, <1>4

\* Every step keeps the types.
LEMMA TypeStep == TypeOK /\ [Next]_vars => TypeOK'
<1> SUFFICES ASSUME TypeOK, [Next]_vars PROVE TypeOK'
  OBVIOUS
<1>1. CASE UNCHANGED vars
  BY <1>1 DEF vars, TypeOK
<1>2. CASE Next
  BY <1>2, TypeClaim, TypeTurn, TypeTool, TypeUndo, TypeAuthor DEF Next
<1> QED BY <1>1, <1>2

(***************************************************************************)
(* Every variable keeps its type, for any requests and tool calls.         *)
(***************************************************************************)
THEOREM TypeCorrect == Spec => []TypeOK
<1>1. Init => TypeOK
  BY TypeInit
<1>2. TypeOK /\ [Next]_vars => TypeOK'
  BY TypeStep
<1> QED BY <1>1, <1>2, PTL DEF Spec

-----------------------------------------------------------------------------
(***************************************************************************)
(* What the safety properties rest on.  A running turn has no answer yet   *)
(* and a succeeded one replays its answer; a call that changed the story   *)
(* is completed in the ledger for as long as the turn can run; no part of  *)
(* the story is older than the author's last edit of it, nor is what a     *)
(* change would restore as long as the change stands; a receipt remembers  *)
(* where each of its changes began.                                        *)
(***************************************************************************)
At(c) == IF c = None THEN 0 ELSE c.at

AnswerInv ==
  /\ turn.status = "running" => answer = None
  /\ turn.status = "succeeded" => answer # None /\ turn.text = answer

AppliedInv ==
  \A t \in Tools : applied[t] # 0 =>
    applied[t] = 1 /\ (ledger[t].status = "completed" \/ answer # None)

StoryInv ==
  /\ linked => story["entry"] # None
  /\ \A x \in Story :
       /\ edited[x] <= At(story[x]) /\ edited[x] <= rev
       /\ receipt.change[x] # None =>
            /\ receipt.change[x].after.is # None
            /\ receipt.change[x].after.is.by \in Tools
            /\ receipt.change[x].after.is = story[x]
                 => edited[x] <= At(receipt.change[x].before)

OriginInv ==
  receipt.kept /\ ~receipt.undone =>
    \A x \in Story :
      /\ receipt.change[x] # None => origin[x] # None
      /\ origin[x] # None =>
           receipt.change[x] # None /\ receipt.change[x].before = origin[x].is

IInv == AnswerInv /\ AppliedInv /\ StoryInv /\ OriginInv

\* What every step leaves of the turn, its answer and its ledger, but for the
\* claim, the terminal writes and the tool calls.
LEMMA TurnKept ==
  ASSUME TypeOK, [Next]_vars
  PROVE  \/ UNCHANGED <<turn.status, turn.text, answer, ledger, applied>>
         \/ /\ turn'.status \in {"failed", "cancelled"}
            /\ UNCHANGED <<answer, ledger, applied>>
         \/ \E w \in Workers :
              \/ Begin(w)
              \/ Owns(w) /\ Persist([claim |-> worker[w].claim, stopped |-> FALSE], "succeeded")
                 /\ UNCHANGED applied
              \/ Owns(w) /\ Persist([claim |-> worker[w].claim, stopped |-> TRUE], "cancelled")
                 /\ UNCHANGED applied
              \/ \E t \in Tools : Call(w, t) \/ DiesPrepared(w, t)
<1>0. turn \in Turn
  BY DEF TypeOK
<1>1. CASE UNCHANGED vars
  BY <1>1 DEF vars
<1>2. ASSUME NEW w \in Workers,
             \/ BuildFails(w) \/ Bind(w) \/ Heartbeat(w) \/ Abort(w)
             \/ Finish(w) \/ FinishStopped(w) \/ \E t \in Tools : ReadStory(w, t)
      PROVE  \/ UNCHANGED <<turn.status, turn.text, answer, ledger, applied>>
             \/ /\ turn'.status \in {"failed", "cancelled"}
                /\ UNCHANGED <<answer, ledger, applied>>
             \/ Owns(w) /\ Persist([claim |-> worker[w].claim, stopped |-> FALSE], "succeeded")
                /\ UNCHANGED applied
             \/ Owns(w) /\ Persist([claim |-> worker[w].claim, stopped |-> TRUE], "cancelled")
                /\ UNCHANGED applied
  <2>1. CASE BuildFails(w)
    BY <1>0, <2>1 DEF BuildFails, Failed, Turn, history
  <2>2. CASE Bind(w)
    BY <1>0, <2>2 DEF Bind, Turn
  <2>3. CASE Heartbeat(w)
    BY <1>0, <2>3 DEF Heartbeat, Turn, history
  <2>4. CASE Abort(w) \/ \E t \in Tools : ReadStory(w, t)
    BY <2>4 DEF Abort, ReadStory, turnVars, history
  <2>5. CASE Finish(w)
    BY <1>0, <2>5 DEF Finish, Failed, Turn, history
  <2>6. CASE FinishStopped(w)
    BY <1>0, <2>6 DEF FinishStopped, Cancelled, Turn, history
  <2> QED BY <1>2, <2>1, <2>2, <2>3, <2>4, <2>5, <2>6
<1>3. CASE ClaimLapses
  BY <1>0, <1>3 DEF ClaimLapses, Turn, history
<1>4. CASE \/ Sweep \/ Offer \/ UndoBegins \/ UndoEnds \/ UndoExpires
  BY <1>4 DEF Sweep, Offer, UndoBegins, UndoEnds, UndoExpires, turnVars, history
<1>5. CASE (\E x \in Story : AuthorWrites(x)) \/ AuthorLinks \/ WritingStarts \/ Crash
  BY <1>5 DEF AuthorWrites, AuthorLinks, WritingStarts, Crash, turnVars, history
<1> QED BY <1>1, <1>2, <1>3, <1>4, <1>5 DEF Next

\* A running turn stays without an answer, and a change is made once.
LEMMA AnswerStep ==
  ASSUME TypeOK, AnswerInv, AppliedInv, [Next]_vars
  PROVE  AnswerInv' /\ AppliedInv'
<1>0. turn \in Turn /\ ledger \in [Tools -> Ledger] /\ applied \in [Tools -> Nat]
  BY DEF TypeOK
<1>1. CASE UNCHANGED <<turn.status, turn.text, answer, ledger, applied>>
  BY <1>1 DEF AnswerInv, AppliedInv
<1>2. CASE turn'.status \in {"failed", "cancelled"} /\ UNCHANGED <<answer, ledger, applied>>
  BY <1>2 DEF AnswerInv, AppliedInv
<1>3. ASSUME NEW w \in Workers, Begin(w) PROVE AnswerInv' /\ AppliedInv'
  BY <1>0, <1>3 DEF Begin, AnswerInv, AppliedInv, Turn, history
<1>4. ASSUME NEW w \in Workers, NEW b \in BOOLEAN, NEW s \in {"succeeded", "cancelled"},
             Persist([claim |-> worker[w].claim, stopped |-> b], s), UNCHANGED applied
      PROVE  AnswerInv' /\ AppliedInv'
  <2> DEFINE text == [claim |-> worker[w].claim, stopped |-> b]
  <2>1. text # None
    BY WorkerParts, NoneAssumption DEF Answer
  <2>2. answer' = text /\ turn'.status = s /\ turn'.text = text
    BY <1>0, <1>4 DEF Persist, Turn
  <2> QED BY <1>4, <2>1, <2>2 DEF AnswerInv, AppliedInv
<1>5. ASSUME NEW w \in Workers, NEW t \in Tools, Call(w, t) PROVE AnswerInv' /\ AppliedInv'
  <2>1. UNCHANGED <<turn.status, turn.text, answer>>
    BY <1>0, <1>5 DEF Call, Turn
  <2>2. AnswerInv'
    BY <2>1 DEF AnswerInv
  <2>3. CASE Admitted(w, t)
    <3> DEFINE done == Idles(w, t) \/ Fits(w, t)
    <3>1. Intent(w, t) \in Ledger
      BY IntentType
    <3>2. ledger' = [ledger EXCEPT ![t] = [Intent(w, t) EXCEPT !.status = IF done THEN "completed" ELSE @]]
      BY <1>5, <2>3 DEF Call
    <3>3. answer = None /\ ledger[t].status # "completed"
      BY <2>3 DEF Admitted, Owns, AnswerInv
    <3>4. applied[t] = 0
      BY <1>0, <3>3 DEF AppliedInv
    <3>5. CASE done /\ ~Idles(w, t)
      <4>1. applied' = [applied EXCEPT ![t] = @ + 1]
        BY <1>5, <2>3, <3>5 DEF Call
      <4>2. ledger'[t].status = "completed"
        BY <1>0, <3>1, <3>2, <3>5 DEF Ledger
      <4>3. ASSUME NEW u \in Tools, applied'[u] # 0
            PROVE  applied'[u] = 1 /\ (ledger'[u].status = "completed" \/ answer' # None)
        <5>1. CASE u = t
          BY <1>0, <3>4, <4>1, <4>2, <5>1
        <5>2. CASE u # t
          BY <1>0, <2>1, <3>2, <4>1, <4>3, <5>2 DEF AppliedInv
        <5> QED BY <5>1, <5>2
      <4> QED BY <2>2, <4>3 DEF AppliedInv
    <3>6. CASE ~(done /\ ~Idles(w, t))
      <4>1. applied' = applied
        BY <1>5, <2>3, <3>6 DEF Call
      <4>2. ASSUME NEW u \in Tools, applied'[u] # 0
            PROVE  applied'[u] = 1 /\ (ledger'[u].status = "completed" \/ answer' # None)
        <5>1. u # t
          BY <3>4, <4>1, <4>2
        <5> QED BY <1>0, <2>1, <3>2, <4>1, <4>2, <5>1 DEF AppliedInv
      <4> QED BY <2>2, <4>2 DEF AppliedInv
    <3> QED BY <3>5, <3>6
  <2>4. CASE ~Admitted(w, t)
    BY <1>5, <2>1, <2>2, <2>4 DEF Call, AppliedInv
  <2> QED BY <2>3, <2>4
<1>6. ASSUME NEW w \in Workers, NEW t \in Tools, DiesPrepared(w, t)
      PROVE  AnswerInv' /\ AppliedInv'
  <2>1. UNCHANGED <<turn.status, turn.text, answer, applied>>
    BY <1>0, <1>6 DEF DiesPrepared, Turn, history
  <2>2. ledger' = [ledger EXCEPT ![t] = Intent(w, t)]
    BY <1>6 DEF DiesPrepared
  <2>3. applied[t] = 0
    BY <1>0, <1>6 DEF DiesPrepared, Admitted, Owns, AnswerInv, AppliedInv
  <2>4. ASSUME NEW u \in Tools, applied'[u] # 0
        PROVE  applied'[u] = 1 /\ (ledger'[u].status = "completed" \/ answer' # None)
    <3>1. u # t
      BY <2>1, <2>3, <2>4
    <3> QED BY <1>0, <2>1, <2>2, <2>4, <3>1 DEF AppliedInv
  <2> QED BY <2>1, <2>4 DEF AnswerInv, AppliedInv
<1> QED BY TurnKept, <1>1, <1>2, <1>3, <1>4, <1>5, <1>6

\* The invariant of the answer holds in the initial states.
LEMMA AnswerInit == Init => AnswerInv /\ AppliedInv
BY DEF Init, AnswerInv, AppliedInv

\* The types and the invariants of the answer hold throughout.
LEMMA AnswerInvariant == Spec => [](TypeOK /\ AnswerInv /\ AppliedInv)
<1>1. Init => TypeOK /\ AnswerInv /\ AppliedInv
  BY TypeInit, AnswerInit
<1>2. TypeOK /\ AnswerInv /\ AppliedInv /\ [Next]_vars => (TypeOK /\ AnswerInv /\ AppliedInv)'
  BY TypeStep, AnswerStep
<1> QED BY <1>1, <1>2, PTL DEF Spec

(***************************************************************************)
(* However often the turn is claimed, retried or cut off, a tool call of   *)
(* it changes the story at most once.                                      *)
(***************************************************************************)
THEOREM ChangesAppliedOnce == Spec => []AppliedOnce
<1>1. TypeOK /\ AppliedInv => AppliedOnce
  BY DEF TypeOK, AppliedInv, AppliedOnce
<1> QED BY <1>1, AnswerInvariant, PTL

(***************************************************************************)
(* The answer of a turn is stored by the claim in force, once, and is what *)
(* a succeeded turn replays.                                               *)
(***************************************************************************)
THEOREM TurnHasOneAnswer == Spec => OneAnswer
<1> DEFINE Step == /\ answer # None => answer' = answer
                   /\ answer' # answer => answer'.claim = turn.claim
                   /\ turn'.status = "succeeded" => turn'.text = answer' /\ answer' # None
<1>3. ASSUME TypeOK, AnswerInv, AppliedInv, [Next]_vars PROVE Step
  <2>0. turn'.status = "succeeded" => turn'.text = answer' /\ answer' # None
    BY <1>3, AnswerStep DEF AnswerInv
  <2>1. CASE UNCHANGED answer
    BY <2>0, <2>1
  <2>2. ASSUME NEW w \in Workers, NEW b \in BOOLEAN, NEW s \in {"succeeded", "cancelled"},
               Owns(w), Persist([claim |-> worker[w].claim, stopped |-> b], s)
        PROVE  Step
    <3>1. answer = None /\ worker[w].claim = turn.claim
      BY <1>3, <2>2 DEF Owns, AnswerInv
    <3>2. answer' = [claim |-> turn.claim, stopped |-> b]
      BY <2>2, <3>1 DEF Persist
    <3> QED BY <2>0, <3>1, <3>2
  <2>3. ASSUME NEW w \in Workers, Begin(w) \/ \E t \in Tools : Call(w, t) \/ DiesPrepared(w, t)
        PROVE  UNCHANGED answer
    BY <2>3 DEF Begin, Call, DiesPrepared
  <2> QED BY <1>3, TurnKept, <2>1, <2>2, <2>3
<1>4. TypeOK /\ AnswerInv /\ AppliedInv /\ [Next]_vars => [Step]_vars
  BY <1>3
<1> QED BY <1>4, AnswerInvariant, PTL DEF Spec, OneAnswer

-----------------------------------------------------------------------------
(* The receipt and the author.                                             *)

\* Two receipts with the same changes, but for the revisions after them.
SameChanges(r, q) ==
  /\ q.kept = r.kept /\ q.undone = r.undone
  /\ \A x \in Story :
       /\ q.change[x] = None <=> r.change[x] = None
       /\ r.change[x] # None => /\ q.change[x].before = r.change[x].before
                                /\ q.change[x].after.is = r.change[x].after.is

\* The newer revision of the novel is all that a refreshed receipt changes.
LEMMA RefreshedKeeps ==
  ASSUME NEW r \in Receipt, NEW from \in Nat, NEW to \in Nat
  PROVE  SameChanges(r, Refreshed(r, from, to))
<1> DEFINE c == [r.change["profile"] EXCEPT !.after.rev = to]
           q == [r EXCEPT !.change["profile"].after.rev = to]
<1>1. CASE Refreshed(r, from, to) = r
  BY <1>1 DEF SameChanges
<1>2. CASE Refreshed(r, from, to) # r
  <2>1. r.change["profile"] # None /\ Refreshed(r, from, to) = q
    BY <1>2 DEF Refreshed
  <2>2. "profile" \in Story
    BY DEF Story
  <2>3. r.change["profile"] \in Change
    BY <2>1, <2>2 DEF Receipt
  <2>4. /\ c \in Change /\ c.before = r.change["profile"].before
        /\ c.after.is = r.change["profile"].after.is
    BY <2>3 DEF Change, States
  <2>5. /\ q.kept = r.kept /\ q.undone = r.undone
        /\ q.change["profile"] = c
        /\ \A x \in Story \ {"profile"} : q.change[x] = r.change[x]
    BY <2>2 DEF Receipt
  <2>6. c # None
    BY <2>4, NoneAssumption
  <2> QED BY <2>1, <2>4, <2>5, <2>6 DEF SameChanges
<1> QED BY <1>1, <1>2

\* What a step does to the story, its receipt and its history.
LEMMA StoryKept ==
  ASSUME TypeOK, [Next]_vars
  PROVE  \/ /\ UNCHANGED <<story, linked, edited, origin, applied>>
            /\ receipt' = receipt
         \/ /\ UNCHANGED <<story, linked, edited, origin, applied>>
            /\ SameChanges(receipt, receipt')
         \/ /\ UNCHANGED <<story, linked, edited, applied>>
            /\ receipt' \in {EmptyReceipt, NoReceipt}
            /\ origin' = [x \in Story |-> None]
         \/ \E w \in Workers, t \in Tools : Call(w, t)
         \/ UndoEnds \/ AuthorLinks
         \/ \E x \in Story : AuthorWrites(x)
<1>0. receipt \in Receipt /\ rev \in Nat /\ rev + 1 \in Nat
  BY DEF TypeOK
<1>1. CASE UNCHANGED vars
  BY <1>1 DEF vars
<1>2. ASSUME NEW w \in Workers,
             Begin(w) \/ BuildFails(w) \/ Heartbeat(w) \/ Abort(w)
             \/ \E t \in Tools : ReadStory(w, t) \/ DiesPrepared(w, t)
      PROVE  UNCHANGED <<story, linked, edited, origin, receipt, applied>>
  BY <1>2 DEF Begin, BuildFails, Heartbeat, Abort, ReadStory, DiesPrepared, storyVars, history
<1>3. CASE \/ ClaimLapses \/ UndoBegins \/ UndoExpires \/ WritingStarts \/ Crash
  BY <1>3 DEF ClaimLapses, UndoBegins, UndoExpires, WritingStarts, Crash, storyVars, history
<1>4. CASE Offer
  <2>1. receipt' = [receipt EXCEPT !.offered = TRUE]
    BY <1>4 DEF Offer
  <2>2. SameChanges(receipt, receipt')
    BY <1>0, <2>1 DEF SameChanges, Receipt
  <2> QED BY <1>4, <2>2 DEF Offer, storyVars, history
<1>5. ASSUME NEW w \in Workers, Bind(w)
      PROVE  /\ UNCHANGED <<story, linked, edited, applied>>
             /\ \/ receipt' = receipt /\ origin' = origin
                \/ receipt' = EmptyReceipt /\ origin' = [x \in Story |-> None]
  BY <1>5 DEF Bind, Ensured
<1>6. CASE Sweep
  BY <1>6 DEF Sweep, storyVars
<1>7. ASSUME NEW w \in Workers, Finish(w) \/ FinishStopped(w)
      PROVE  /\ UNCHANGED <<story, linked, edited, origin, applied>>
             /\ receipt' = receipt \/ SameChanges(receipt, receipt')
  <2>1. UNCHANGED <<story, linked, edited, origin, applied>>
    BY <1>7 DEF Finish, FinishStopped, history
  <2>2. receipt' \in {receipt, Refreshed(receipt, rev, rev + 1)}
    BY <1>7 DEF Finish, FinishStopped, Persist
  <2> QED BY <1>0, <2>1, <2>2, RefreshedKeeps
<1> QED BY <1>1, <1>2, <1>3, <1>4, <1>5, <1>6, <1>7 DEF Next

\* What a tool call that writes does, part by part of the story.
LEMMA WrittenReceipt ==
  ASSUME TypeOK, NEW t \in Tools, NEW w \in Workers, Fits(w, t),
         Write(Target[t], [by |-> t, at |-> rev + 1])
  PROVE  LET x == Target[t] c == [by |-> t, at |-> rev + 1] IN
         /\ x \in Story /\ receipt.kept
         /\ story' = [story EXCEPT ![x] = c]
         /\ receipt'.kept = receipt.kept /\ receipt'.undone = receipt.undone
         /\ receipt.change[x] # None => receipt.change[x].after.is = story[x]
         /\ receipt'.change[x] # None
         /\ receipt'.change[x].after.is = c
         /\ receipt'.change[x].before =
              IF receipt.change[x] = None THEN story[x] ELSE receipt.change[x].before
         /\ \A y \in Story \ {x} :
              /\ receipt'.change[y] = None <=> receipt.change[y] = None
              /\ receipt.change[y] # None =>
                   /\ receipt'.change[y].before = receipt.change[y].before
                   /\ receipt'.change[y].after.is = receipt.change[y].after.is
<1> DEFINE x == Target[t]
           c == [by |-> t, at |-> rev + 1]
           after == [is |-> c, rev |-> IF x = "profile" THEN rev + 1 ELSE 0]
           first == IF receipt.change[x] = None THEN story[x] ELSE receipt.change[x].before
           d == [before |-> first, after |-> after]
           r == [receipt EXCEPT !.change[x] = d]
<1>0. /\ receipt \in Receipt /\ rev \in Nat /\ rev + 1 \in Nat /\ x \in Story
      /\ story[x] \in Content \cup {None} /\ c \in Content
  BY ToolsAssumption DEF TypeOK, Content
<1>1. after \in States
  BY <1>0 DEF States
<1>2. d \in Change
  <2>1. first \in Content \cup {None}
    BY <1>0 DEF Receipt, Change
  <2> QED BY <1>1, <2>1 DEF Change
<1>3. r \in Receipt /\ r.kept = receipt.kept /\ r.undone = receipt.undone
  BY <1>0, <1>2 DEF Receipt
<1>4. r.change[x] = d /\ \A y \in Story \ {x} : r.change[y] = receipt.change[y]
  BY <1>0 DEF Receipt
<1>5. SameChanges(r, receipt')
  <2>1. receipt' = Recorded(x, story[x], after)
    BY DEF Write
  <2>2. CASE x = "entry" /\ r.change["profile"] # None
    <3> DEFINE p == [r.change["profile"] EXCEPT !.after.rev = rev + 1]
               q == [r EXCEPT !.change["profile"].after.rev = rev + 1]
    <3>1. receipt' = q
      BY <2>1, <2>2 DEF Recorded
    <3>2. "profile" \in Story
      BY DEF Story
    <3>3. r.change["profile"] \in Change
      BY <1>3, <2>2, <3>2 DEF Receipt
    <3>4. /\ p \in Change /\ p.before = r.change["profile"].before
          /\ p.after.is = r.change["profile"].after.is
      BY <1>0, <3>3 DEF Change, States
    <3>5. /\ q.kept = r.kept /\ q.undone = r.undone /\ q.change["profile"] = p
          /\ \A y \in Story \ {"profile"} : q.change[y] = r.change[y]
      BY <1>3, <3>2 DEF Receipt
    <3>6. p # None
      BY <3>4, NoneAssumption
    <3> QED BY <2>2, <3>1, <3>4, <3>5, <3>6 DEF SameChanges
  <2>3. CASE ~(x = "entry" /\ r.change["profile"] # None)
    <3>1. receipt' = r
      BY <2>1, <2>3 DEF Recorded
    <3> QED BY <3>1 DEF SameChanges
  <2> QED BY <2>2, <2>3
<1>6. d # None
  BY <1>2, NoneAssumption
<1>7. receipt.change[x] # None => receipt.change[x].after.is = story[x]
  BY DEF Fits, Continues, State
<1>8. receipt.kept /\ story' = [story EXCEPT ![x] = c]
  BY DEF Fits, Write
<1>9. receipt'.kept = receipt.kept /\ receipt'.undone = receipt.undone
  BY <1>3, <1>5 DEF SameChanges
<1>10. receipt'.change[x] # None /\ receipt'.change[x].after.is = c
       /\ receipt'.change[x].before = first
  BY <1>0, <1>4, <1>5, <1>6 DEF SameChanges
<1>11. \A y \in Story \ {x} :
              /\ receipt'.change[y] = None <=> receipt.change[y] = None
              /\ receipt.change[y] # None =>
                   /\ receipt'.change[y].before = receipt.change[y].before
                   /\ receipt'.change[y].after.is = receipt.change[y].after.is
  BY <1>4, <1>5 DEF SameChanges
<1> QED BY <1>0, <1>7, <1>8, <1>9, <1>10, <1>11

\* The revision of the novel never goes back.
LEMMA RevisionGrows ==
  ASSUME TypeOK, [Next]_vars
  PROVE  rev' \in {rev, rev + 1}
<1>1. CASE UNCHANGED vars
  BY <1>1 DEF vars
<1>2. ASSUME NEW w \in Workers,
             \/ Begin(w) \/ BuildFails(w) \/ Heartbeat(w) \/ Abort(w)
             \/ \E t \in Tools : ReadStory(w, t) \/ DiesPrepared(w, t)
      PROVE  rev' = rev
  BY <1>2 DEF Begin, BuildFails, Heartbeat, Abort, ReadStory, DiesPrepared, storyVars
<1>3. ASSUME NEW w \in Workers, Bind(w) PROVE rev' \in {rev, rev + 1}
  BY <1>3 DEF Bind
<1>4. ASSUME NEW w \in Workers, Finish(w) \/ FinishStopped(w) PROVE rev' \in {rev, rev + 1}
  BY <1>4 DEF Finish, FinishStopped, Persist
<1>5. ASSUME NEW w \in Workers, NEW t \in Tools, Call(w, t) PROVE rev' \in {rev, rev + 1}
  BY <1>5 DEF Call, Write
<1>6. CASE \/ ClaimLapses \/ Sweep \/ Offer \/ UndoBegins \/ UndoExpires \/ Crash
  BY <1>6 DEF ClaimLapses, Sweep, Offer, UndoBegins, UndoExpires, Crash, storyVars
<1>7. CASE UndoEnds
  BY <1>7 DEF UndoEnds
<1>8. CASE (\E x \in Story : AuthorWrites(x)) \/ AuthorLinks \/ WritingStarts
  BY <1>8 DEF AuthorWrites, AuthorLinks, WritingStarts
<1> QED BY <1>1, <1>2, <1>3, <1>4, <1>5, <1>6, <1>7, <1>8 DEF Next

\* A tool call writes, or leaves story, receipt and history alone.
LEMMA CallCases ==
  ASSUME TypeOK, NEW w \in Workers, NEW t \in Tools, Call(w, t)
  PROVE  /\ UNCHANGED <<linked, editable, edited>>
         /\ \/ UNCHANGED <<story, receipt, origin, applied>>
            \/ /\ Admitted(w, t) /\ Fits(w, t) /\ ~Idles(w, t)
               /\ Write(Target[t], [by |-> t, at |-> rev + 1])
BY DEF Call

\* What is older than the author's edits is never put in their place.
LEMMA StoryStep ==
  ASSUME TypeOK, StoryInv, [Next]_vars
  PROVE  StoryInv'
<1>0. /\ receipt \in Receipt /\ rev \in Nat /\ rev' \in {rev, rev + 1} /\ rev' \in Nat
      /\ story \in [Story -> Content \cup {None}] /\ edited \in [Story -> Nat]
  BY RevisionGrows DEF TypeOK
<1>1. CASE UNCHANGED <<story, linked, edited, origin, applied>> /\ receipt' = receipt
  BY <1>0, <1>1 DEF StoryInv, At
<1>2. CASE UNCHANGED <<story, linked, edited, origin, applied>> /\ SameChanges(receipt, receipt')
  BY <1>0, <1>2 DEF StoryInv, SameChanges, At
<1>3. CASE /\ UNCHANGED <<story, linked, edited, applied>>
           /\ receipt' \in {EmptyReceipt, NoReceipt}
           /\ origin' = [x \in Story |-> None]
  <2>1. \A x \in Story : receipt'.change[x] = None
    BY <1>3 DEF EmptyReceipt, NoReceipt
  <2> QED BY <1>0, <1>3, <2>1 DEF StoryInv, At
<1>4. ASSUME NEW w \in Workers, NEW t \in Tools, Call(w, t)
      PROVE  StoryInv'
  <2>1. CASE UNCHANGED <<story, receipt, origin, applied>>
    BY <1>0, <1>4, <2>1, CallCases DEF StoryInv, At
  <2>2. CASE Fits(w, t) /\ Write(Target[t], [by |-> t, at |-> rev + 1])
    <3> DEFINE x == Target[t]
               c == [by |-> t, at |-> rev + 1]
    <3>1. UNCHANGED <<linked, edited>>
      BY <1>4, CallCases
    <3>2. c # None /\ c.by \in Tools
      BY <1>0, NoneAssumption DEF Content
    <3>3. /\ x \in Story /\ story' = [story EXCEPT ![x] = c]
          /\ receipt.change[x] # None => receipt.change[x].after.is = story[x]
          /\ receipt'.change[x] # None /\ receipt'.change[x].after.is = c
          /\ receipt'.change[x].before =
               IF receipt.change[x] = None THEN story[x] ELSE receipt.change[x].before
          /\ \A y \in Story \ {x} :
              /\ receipt'.change[y] = None <=> receipt.change[y] = None
              /\ receipt.change[y] # None =>
                   /\ receipt'.change[y].before = receipt.change[y].before
                   /\ receipt'.change[y].after.is = receipt.change[y].after.is
      BY <2>2, WrittenReceipt
    <3>4. edited[x] <= At(receipt'.change[x].before)
      BY <3>3 DEF StoryInv
    <3>5. edited[x] <= rev + 1 /\ At(c) = rev + 1
      BY <1>0, <3>2, <3>3 DEF StoryInv, At
    <3>6. linked' => story'["entry"] # None
      BY <1>0, <3>1, <3>2, <3>3 DEF StoryInv
    <3>7. ASSUME NEW y \in Story
          PROVE  /\ edited'[y] <= At(story'[y]) /\ edited'[y] <= rev'
                 /\ receipt'.change[y] # None =>
                      /\ receipt'.change[y].after.is # None
                      /\ receipt'.change[y].after.is.by \in Tools
                      /\ receipt'.change[y].after.is = story'[y]
                           => edited'[y] <= At(receipt'.change[y].before)
      <4>1. edited[y] <= rev'
        BY <1>0 DEF StoryInv
      <4>2. CASE y = x
        <5>1. story'[x] = c
          BY <1>0, <3>3
        <5> QED BY <3>1, <3>2, <3>3, <3>4, <3>5, <4>1, <4>2, <5>1
      <4>3. CASE y # x
        <5>1. story'[y] = story[y]
          BY <1>0, <3>3, <4>3
        <5> QED BY <3>1, <3>3, <4>1, <4>3, <5>1 DEF StoryInv
      <4> QED BY <4>2, <4>3
    <3> QED BY <3>6, <3>7 DEF StoryInv, At
  <2> QED BY <1>4, <2>1, <2>2, CallCases
<1>5. CASE UndoEnds
  <2>1. CASE Invertible
    <3>1. /\ story' = [x \in Story |-> IF receipt.change[x] = None THEN story[x]
                                       ELSE receipt.change[x].before]
          /\ receipt' = [receipt EXCEPT !.undone = TRUE]
          /\ UNCHANGED <<linked, edited>>
      BY <1>5, <2>1 DEF UndoEnds, history
    <3>2. receipt'.change = receipt.change
      BY <1>0, <3>1 DEF Receipt
    <3>3. \A x \in Story : receipt.change[x] # None => receipt.change[x].after.is = story[x]
      <4>1. Undoable(receipt)
        BY <2>1 DEF Invertible
      <4>2. \A x \in Story : receipt.change[x] # None => receipt.change[x].after = State(x)
        BY <4>1 DEF Undoable
      <4>3. \A x \in Story : State(x).is = story[x]
        BY DEF State
      <4> QED BY <4>2, <4>3
    <3>4. linked' => story'["entry"] # None
      BY <2>1, <3>1 DEF StoryInv, Invertible, Story
    <3>5. \A x \in Story : edited[x] <= At(story'[x])
      BY <3>1, <3>3 DEF StoryInv
    <3> QED BY <1>0, <3>1, <3>2, <3>3, <3>4, <3>5 DEF StoryInv, At
  <2>2. CASE ~Invertible
    BY <1>0, <1>5, <2>2 DEF UndoEnds, history, StoryInv, At
  <2> QED BY <2>1, <2>2
<1>6. CASE AuthorLinks
  BY <1>0, <1>6 DEF AuthorLinks, history, StoryInv, At
<1>7. ASSUME NEW x \in Story, AuthorWrites(x)
      PROVE  StoryInv'
  <2> DEFINE c == [by |-> "author", at |-> rev + 1]
  <2>1. c # None /\ c.by \notin Tools /\ At(c) = rev + 1
    BY <1>0, NamesAssumption, NoneAssumption DEF Content, At
  <2>2. /\ story' = [story EXCEPT ![x] = c] /\ edited' = [edited EXCEPT ![x] = rev + 1]
        /\ UNCHANGED <<receipt, linked>> /\ rev' = rev + 1
    BY <1>7 DEF AuthorWrites
  <2>3. linked' => story'["entry"] # None
    BY <1>0, <2>1, <2>2 DEF StoryInv, Story
  <2>4. ASSUME NEW y \in Story
        PROVE  /\ edited'[y] <= At(story'[y]) /\ edited'[y] <= rev'
               /\ receipt'.change[y] # None =>
                    /\ receipt'.change[y].after.is # None
                    /\ receipt'.change[y].after.is.by \in Tools
                    /\ receipt'.change[y].after.is = story'[y]
                         => edited'[y] <= At(receipt'.change[y].before)
    <3>1. CASE y = x
      <4>1. story'[y] = c /\ edited'[y] = rev + 1
        BY <1>0, <2>2, <3>1
      <4>2. edited'[y] <= At(story'[y]) /\ edited'[y] <= rev'
        BY <1>0, <2>1, <2>2, <4>1
      <4>3. receipt'.change[y] # None => /\ receipt'.change[y].after.is # None
                                         /\ receipt'.change[y].after.is.by \in Tools
        BY <2>2 DEF StoryInv
      <4> QED BY <2>1, <4>1, <4>2, <4>3
    <3>2. CASE y # x
      <4>1. story'[y] = story[y] /\ edited'[y] = edited[y]
        BY <1>0, <2>2, <3>2
      <4>2. edited[y] <= rev'
        BY <1>0, <2>2 DEF StoryInv
      <4> QED BY <2>2, <4>1, <4>2 DEF StoryInv
    <3> QED BY <3>1, <3>2
  <2> QED BY <2>3, <2>4 DEF StoryInv, At
<1> QED BY StoryKept, <1>1, <1>2, <1>3, <1>4, <1>5, <1>6, <1>7

\* A receipt that can be undone remembers where its changes began.
LEMMA OriginStep ==
  ASSUME TypeOK, OriginInv, [Next]_vars
  PROVE  OriginInv'
<1>0. /\ receipt \in Receipt
      /\ origin \in [Story -> [is : Content \cup {None}] \cup {None}]
      /\ story \in [Story -> Content \cup {None}]
  BY DEF TypeOK
<1>1. CASE UNCHANGED <<story, linked, edited, origin, applied>> /\ receipt' = receipt
  BY <1>1 DEF OriginInv
<1>2. CASE UNCHANGED <<story, linked, edited, origin, applied>> /\ SameChanges(receipt, receipt')
  BY <1>2 DEF OriginInv, SameChanges
<1>3. CASE /\ UNCHANGED <<story, linked, edited, applied>>
           /\ receipt' \in {EmptyReceipt, NoReceipt}
           /\ origin' = [x \in Story |-> None]
  BY <1>3 DEF OriginInv, EmptyReceipt, NoReceipt
<1>4. ASSUME NEW w \in Workers, NEW t \in Tools, Call(w, t)
      PROVE  OriginInv'
  <2>1. CASE UNCHANGED <<story, receipt, origin, applied>>
    BY <2>1 DEF OriginInv
  <2>2. CASE Fits(w, t) /\ Write(Target[t], [by |-> t, at |-> rev + 1])
    <3> DEFINE x == Target[t]
    <3>1. /\ x \in Story /\ receipt.kept
          /\ receipt'.kept = receipt.kept /\ receipt'.undone = receipt.undone
          /\ receipt'.change[x] # None
          /\ receipt'.change[x].before =
               IF receipt.change[x] = None THEN story[x] ELSE receipt.change[x].before
          /\ \A y \in Story \ {x} :
              /\ receipt'.change[y] = None <=> receipt.change[y] = None
              /\ receipt.change[y] # None => receipt'.change[y].before = receipt.change[y].before
      BY <2>2, WrittenReceipt
    <3>2. origin' = [origin EXCEPT ![x] = IF @ = None THEN [is |-> story[x]] ELSE @]
      BY <2>2 DEF Write
    <3>3. [is |-> story[x]] # None /\ [is |-> story[x]].is = story[x]
      BY <1>0, <3>1, NoneAssumption
    <3>4. ASSUME receipt'.kept, ~receipt'.undone, NEW y \in Story
          PROVE  /\ receipt'.change[y] # None => origin'[y] # None
                 /\ origin'[y] # None => /\ receipt'.change[y] # None
                                         /\ receipt'.change[y].before = origin'[y].is
      <4>0. /\ receipt.change[y] # None => origin[y] # None
            /\ origin[y] # None => /\ receipt.change[y] # None
                                   /\ receipt.change[y].before = origin[y].is
        BY <3>1, <3>4 DEF OriginInv
      <4>1. CASE y = x
        BY <1>0, <3>1, <3>2, <3>3, <4>0, <4>1
      <4>2. CASE y # x
        BY <1>0, <3>1, <3>2, <4>0, <4>2
      <4> QED BY <4>1, <4>2
    <3> QED BY <3>4 DEF OriginInv
  <2> QED BY <1>4, <2>1, <2>2, CallCases
<1>5. CASE UndoEnds
  BY <1>0, <1>5 DEF UndoEnds, history, OriginInv, Receipt
<1>6. CASE AuthorLinks
  BY <1>6 DEF AuthorLinks, history, OriginInv
<1>7. ASSUME NEW x \in Story, AuthorWrites(x)
      PROVE  OriginInv'
  BY <1>7 DEF AuthorWrites, OriginInv
<1> QED BY StoryKept, <1>1, <1>2, <1>3, <1>4, <1>5, <1>6, <1>7

\* The types and the invariants of the story hold throughout.
LEMMA StoryInvariant == Spec => [](TypeOK /\ StoryInv /\ OriginInv)
<1>1. Init => TypeOK /\ StoryInv /\ OriginInv
  <2> SUFFICES ASSUME Init PROVE StoryInv /\ OriginInv
    BY TypeInit
  <2>1. \A x \in Story : receipt.change[x] = None
    BY DEF Init, NoReceipt, EmptyReceipt
  <2>2. TypeOK
    BY TypeInit
  <2>3. \A x \in Story : 0 <= At(story[x])
    BY <2>2 DEF TypeOK, Content, At
  <2> QED BY <2>1, <2>3 DEF Init, StoryInv, OriginInv
<1>2. TypeOK /\ StoryInv /\ OriginInv /\ [Next]_vars => (TypeOK /\ StoryInv /\ OriginInv)'
  BY TypeStep, StoryStep, OriginStep
<1> QED BY <1>1, <1>2, PTL DEF Spec

(***************************************************************************)
(* A receipt that can still be undone holds, for each part its turn        *)
(* changed, what that part was before the turn's first change.             *)
(***************************************************************************)
THEOREM ReceiptsInvert == Spec => []ReceiptInverts
<1>1. OriginInv => ReceiptInverts
  BY DEF OriginInv, ReceiptInverts
<1> QED BY <1>1, StoryInvariant, PTL

(***************************************************************************)
(* A tool call replaces nothing the author did after its intent was        *)
(* recorded, and nothing once writing has begun.                           *)
(***************************************************************************)
THEOREM EditsAreRespected == Spec => EditsRespected
<1> DEFINE Step == \A t \in Tools : applied'[t] # applied[t] =>
                     /\ editable
                     /\ edited[Target[t]] <= IF ledger'[t].before.state.is = None THEN 0
                                             ELSE ledger'[t].before.state.is.at
<1>1. ASSUME TypeOK, StoryInv, [Next]_vars PROVE Step
  <2>1. CASE UNCHANGED applied
    BY <2>1
  <2>2. ASSUME NEW w \in Workers, NEW t \in Tools, Call(w, t) PROVE Step
    <3>1. CASE UNCHANGED applied
      BY <3>1
    <3>2. CASE Admitted(w, t) /\ Fits(w, t) /\ ~Idles(w, t)
      <4>1. Intent(w, t).before = Seen(Target[t]) /\ editable
        BY <3>2 DEF Fits, Idles, Unchanged
      <4>2. Intent(w, t) \in Ledger /\ Target[t] \in Story
        BY <1>1, IntentType, ToolsAssumption
      <4>3. /\ ledger' = [ledger EXCEPT ![t] = [Intent(w, t) EXCEPT !.status = "completed"]]
            /\ applied' = [applied EXCEPT ![t] = @ + 1]
        BY <2>2, <3>2 DEF Call
      <4>4. ledger'[t].before.state.is = story[Target[t]]
        <5>1. ledger'[t].before = Seen(Target[t])
          BY <1>1, <4>1, <4>2, <4>3 DEF TypeOK, Ledger
        <5> QED BY <5>1 DEF Seen, State
      <4>5. edited[Target[t]] <= IF story[Target[t]] = None THEN 0 ELSE story[Target[t]].at
        BY <1>1, <4>2 DEF StoryInv, At
      <4>6. \A u \in Tools \ {t} : applied'[u] = applied[u]
        BY <1>1, <4>3 DEF TypeOK
      <4> QED BY <4>1, <4>4, <4>5, <4>6
    <3> QED BY <1>1, <2>2, <3>1, <3>2, CallCases
  <2>3. CASE UndoEnds \/ AuthorLinks \/ \E x \in Story : AuthorWrites(x)
    BY <2>3 DEF UndoEnds, AuthorLinks, AuthorWrites, history
  <2> QED BY <1>1, StoryKept, <2>1, <2>2, <2>3
<1>2. TypeOK /\ StoryInv /\ OriginInv /\ [Next]_vars => [Step]_vars
  BY <1>1
<1> QED BY <1>2, StoryInvariant, PTL DEF Spec, EditsRespected

(***************************************************************************)
(* An undo takes back no edit the author made since, and no entry the      *)
(* author has linked.                                                      *)
(***************************************************************************)
THEOREM UndoSparesTheAuthor == Spec => UndoSparesAuthor
<1> DEFINE Step == receipt'.undone /\ ~receipt.undone =>
                     /\ \A x \in Story : story'[x] # story[x] =>
                          edited[x] <= IF story'[x] = None THEN 0 ELSE story'[x].at
                     /\ story'["entry"] = None => ~linked
<1>1. ASSUME TypeOK, StoryInv, [Next]_vars PROVE Step
  <2>1. CASE receipt' = receipt \/ SameChanges(receipt, receipt')
             \/ receipt' \in {EmptyReceipt, NoReceipt}
    <3>1. CASE receipt' = receipt
      BY <3>1
    <3>2. CASE SameChanges(receipt, receipt')
      <4>1. receipt'.undone = receipt.undone
        BY <3>2 DEF SameChanges
      <4> QED BY <4>1
    <3>3. CASE receipt' \in {EmptyReceipt, NoReceipt}
      <4>1. receipt'.undone = FALSE
        BY <3>3 DEF EmptyReceipt, NoReceipt
      <4> QED BY <4>1
    <3> QED BY <2>1, <3>1, <3>2, <3>3
  <2>2. ASSUME NEW w \in Workers, NEW t \in Tools, Call(w, t) PROVE Step
    <3>1. CASE receipt' = receipt
      BY <3>1
    <3>2. CASE Fits(w, t) /\ Write(Target[t], [by |-> t, at |-> rev + 1])
      <4>1. receipt'.undone = receipt.undone
        BY <1>1, <3>2, WrittenReceipt
      <4> QED BY <4>1
    <3> QED BY <1>1, <2>2, <3>1, <3>2, CallCases
  <2>3. CASE UndoEnds
    <3>1. StoryInv' /\ edited' = edited /\ linked' = linked
      BY <1>1, <2>3, StoryStep DEF UndoEnds, history
    <3> QED BY <3>1 DEF StoryInv, At
  <2>4. CASE AuthorLinks \/ \E x \in Story : AuthorWrites(x)
    BY <2>4 DEF AuthorLinks, AuthorWrites
  <2> QED BY <1>1, StoryKept, <2>1, <2>2, <2>3, <2>4
<1>2. TypeOK /\ StoryInv /\ OriginInv /\ [Next]_vars => [Step]_vars
  BY <1>1
<1> QED BY <1>2, StoryInvariant, PTL DEF Spec, UndoSparesAuthor
=============================================================================
