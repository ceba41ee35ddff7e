--------------------------- MODULE MCImportSession ---------------------------
(***************************************************************************)
(* ImportSession and KbExtraction for TLC, side by side: a variable that   *)
(* never changes tells whether imports are confirmed, while an extraction  *)
(* is claimed but rests, or extractions run between imports of             *)
(* KbExtraction.                                                           *)
(***************************************************************************)
EXTENDS ImportSession, TLC

CONSTANTS n1, n2, s1, a1

VARIABLE instance

mcVars == <<vars, instance>>

\* A manuscript of two chapters, the first with the title of the book's first; in the
\* second plan they are joined.
TwoPlans ==
  <<<<[title |-> 1, text |-> [by |-> "ms", n |-> 1]],
      [title |-> 3, text |-> [by |-> "ms", n |-> 2]]>>,
    <<[title |-> 1, text |-> [by |-> "ms", n |-> 3]]>>>>

\* One session; a new book is made of the plan as parsed and without extraction, a
\* merge with it; the book rests once the session was imported or lost, and no run
\* begins then or after the book was changed.
OneSession ==
  /\ issued' \subseteq {s1} /\ (wizard'.mode = "new" => wizard'.plan <= 1)
  /\ \A r \in Requests : req'[r] # None =>
       (req'[r].hash.kb <=> req'[r].hash.mode = "merge")
  /\ landed[s1] > 0 \/ faults > 0 => stamp' = stamp
  /\ landed[s1] > 0 \/ faults > 0 \/ stamp > 0 =>
       (lock'[Book] = "run" => lock[Book] = "run")

\* Extraction of the book only, every import wants it, and the first attempt is a1.
BookOnly ==
  /\ claim[a1] = None => \A a \in Attempts : claim[a] = None
  /\ \A n \in Novels \ {Book} : meta[n] = NoMeta
  /\ meta[Book].gen = None => used = {}

MCInit == Init /\ instance \in {"confirm", "extract"}

MCNext ==
  /\ UNCHANGED instance
  /\ \/ instance = "confirm" /\ Imported /\ OneSession
     \/ /\ instance = "confirm" /\ faults = 0
        /\ Post(a1, Book, s1) /\ UNCHANGED importVars
     \/ instance = "extract" /\ KbNext /\ BookOnly' /\ UNCHANGED importVars

MCSpec == MCInit /\ [][MCNext]_mcVars /\ KbFairness
=============================================================================
