---------------------------- MODULE ChapterLedger ----------------------------
(***************************************************************************)
(* What the chapters of a novel promise, whoever writes them: one holder   *)
(* at a time; the holder drafts a chapter that is not there, revises only  *)
(* what it drafted itself, completes what is saved, and may leave at any   *)
(* time, also with its last write; a planner deletes the tail; the author  *)
(* edits only while nobody holds the novel.  No prose is ever lost to      *)
(* another writer, whatever lapses, crashes or is taken over underneath.   *)
(***************************************************************************)
EXTENDS Naturals

CONSTANTS Writers, Planners, NoOne, Author, N

VARIABLES
  holder,   \* who may write, or NoOne
  row       \* per chapter: its status, the version and the writer of its prose

Chapters == 1..N
Nothing == [status |-> "none", version |-> 0, by |-> Author]

Init ==
  /\ holder = NoOne
  /\ row = [c \in Chapters |-> Nothing]

Take(h) == holder = NoOne /\ holder' = h /\ UNCHANGED row

Leave == holder # NoOne /\ holder' = NoOne /\ UNCHANGED row

\* A write of w, perhaps its last.
Writing(w) == holder = w /\ holder' \in {w, NoOne}

Draft(w, c) ==
  /\ Writing(w)
  /\ row[c].status = "none"
  /\ row' = [row EXCEPT ![c] = [status |-> "content_saved", version |-> 0, by |-> w]]

Revise(w, c) ==
  /\ Writing(w)
  /\ row[c].status = "content_saved"
  /\ row[c].by = w
  /\ row' = [row EXCEPT ![c].version = @ + 1]

Complete(w, c) ==
  /\ Writing(w)
  /\ row[c].status = "content_saved"
  /\ row' = [row EXCEPT ![c].status = "complete"]

Truncate(p, first) ==
  /\ Writing(p)
  /\ row' = [c \in Chapters |-> IF c >= first THEN Nothing ELSE row[c]]

Edit(c) ==
  /\ holder = NoOne
  /\ row[c].status # "none"
  /\ row' = [row EXCEPT ![c].version = @ + 1, ![c].by = Author]
  /\ UNCHANGED holder

Next ==
  \/ \E h \in Writers \cup Planners : Take(h)
  \/ Leave
  \/ \E w \in Writers, c \in Chapters : Draft(w, c) \/ Revise(w, c) \/ Complete(w, c)
  \/ \E p \in Planners, c \in Chapters : Truncate(p, c)
  \/ \E c \in Chapters : Edit(c)

Spec == Init /\ [][Next]_<<holder, row>>
=============================================================================
