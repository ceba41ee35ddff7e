-------------------------- MODULE ImportSessionProofs --------------------------
(***************************************************************************)
(* Proofs about ImportSession, for any sessions, requests, manuscripts,    *)
(* chapter numbers and bounds: imports and extractions together, which TLC *)
(* explores one beside the other.                                          *)
(*                                                                         *)
(* The argument: a session lands only in a transaction that finds no       *)
(* receipt of it and leaves one, and its generation is handed out in the   *)
(* same transaction.  A merge replaces only chapters that are, in the      *)
(* transaction, what the author's report said of them, and everything the  *)
(* report said was written before it was made.                             *)
(***************************************************************************)
EXTENDS ImportSession, KbExtractionProofs, WellFoundedInduction,
        SequenceTheorems, FiniteSetTheorems

-----------------------------------------------------------------------------
(* Least and greatest numbers.                                             *)

\* A set of natural numbers has a least element.
LEMMA Least ==
  ASSUME NEW T \in SUBSET Nat, T # {}
  PROVE  \E x \in T : \A y \in T : x <= y
<1>1. IsWellFoundedOn(OpToRel(<, Nat), Nat)
  BY NatLessThanWellFounded
<1>2. PICK x \in T : \A y \in T : ~ (<<y, x>> \in OpToRel(<, Nat))
  BY <1>1, WFMin
<1>3. \A k, l \in Nat : <<l, k>> \in OpToRel(<, Nat) <=> l < k
  BY DEF OpToRel
<1>4. \A y \in T : ~(y < x)
  <2> TAKE y \in T
  <2>1. <<y, x>> \notin OpToRel(<, Nat)
    BY <1>2
  <2>2. x \in Nat /\ y \in Nat
    OBVIOUS
  <2> QED BY <1>3, <2>1, <2>2
<1>5. \A y \in T : x <= y
  BY <1>4
<1> QED BY <1>5

\* Min finds it.
LEMMA MinIs ==
  ASSUME NEW S \in SUBSET Nat, S # {}
  PROVE  Min(S) \in S
<1>1. \E x \in S : \A y \in S : x =< y
  BY Least
<1> QED BY <1>1 DEF Min

\* Max finds the greatest element of a bounded set.
LEMMA MaxIs ==
  ASSUME NEW S \in SUBSET Nat, S # {}, NEW b \in Nat, \A x \in S : x <= b
  PROVE  Max(S) \in S /\ \A y \in S : y <= Max(S)
<1> DEFINE T == {m \in Nat : \A x \in S : x <= m}
<1>1. b \in T
  OBVIOUS
<1>2. PICK m \in T : \A y \in T : m <= y
  BY <1>1, Least
<1>3. m \in S
  <2> SUFFICES ASSUME m \notin S PROVE FALSE
    OBVIOUS
  <2>1. PICK z \in S : TRUE
    OBVIOUS
  <2>2. \A x \in S : x <= m /\ x # m /\ x \in Nat
    OBVIOUS
  <2>3. m > 0 /\ m - 1 \in Nat
    BY <2>1, <2>2
  <2>4. \A x \in S : x <= m - 1
    BY <2>2, <2>3
  <2> QED BY <1>2, <2>3, <2>4
<1>4. \E x \in S : \A y \in S : x >= y
  BY <1>3
<1> QED BY <1>4 DEF Max

\* The number of the last chapter of a book.
LEMMA LastIs ==
  ASSUME NEW n
  PROVE  Last(n) \in Nat /\ \A k \in Present(n) : k <= Last(n)
<1> DEFINE S == Present(n) \cup {0}
<1>1. S \in SUBSET Nat /\ S # {} /\ \A x \in S : x <= MaxNumber
  BY BoundsAssumption DEF Present, Numbers
<1>2. MaxNumber \in Nat
  BY BoundsAssumption
<1> HIDE DEF S
<1>3. Max(S) \in S /\ \A y \in S : y <= Max(S)
  BY <1>1, <1>2, MaxIs
<1> QED BY <1>1, <1>3 DEF Last, S

-----------------------------------------------------------------------------
(* The inductive invariant.                                                *)

\* What a list of matches says of the author's own chapters was written by d.
Dated(list, d) ==
  \A i \in DOMAIN list :
    list[i].consent # None /\ list[i].consent.text.by = "own" => list[i].consent.text.n <= d

WizardInv ==
  wizard.report # None =>
    /\ wizard.mode = "merge" /\ wizard.plan \in Plans
    /\ DOMAIN wizard.report = DOMAIN Manuscript[wizard.plan]
    /\ Dated(wizard.report, wizard.asOf)

\* A request to merge decides about each chapter of its plan.
Decisive(hash, d) ==
  hash.mode = "merge" =>
    /\ hash.decisions \in Seq(Decided)
    /\ DOMAIN hash.decisions = DOMAIN Manuscript[hash.plan]
    /\ Dated(hash.decisions, d)
    /\ \A i \in DOMAIN hash.decisions :
         hash.decisions[i].act = "overwrite" => hash.decisions[i].num # 0

RequestInv ==
  \A r \in Requests : req[r] # None =>
    /\ Decisive(req[r].hash, req[r].asOf)
    /\ req[r].at # "sent" => req[r].hash.mode = "merge"

BookInv ==
  /\ Book \in novels
  /\ \A k \in Numbers : chapters[Book][k] # None /\ chapters[Book][k].text.by = "own"
                          => chapters[Book][k].text.n <= stamp

LedgerInv ==
  \A s \in Sessions : /\ landed[s] = IF receipt[s] = None THEN 0 ELSE 1
                      /\ receipt[s] = None => s \notin used

ImportInv == ImportTypeOK /\ WizardInv /\ RequestInv /\ BookInv /\ LedgerInv

-----------------------------------------------------------------------------
(* The refinement: an import is one of KbExtraction's, a crash its crash.  *)

\* A landing hands out a generation nobody has heard of.
LEMMA LandsImports ==
  ASSUME KbTypeOK, LedgerInv, NEW s \in Sessions, receipt[s] = None, NEW hash, NEW n \in Novels,
         NEW acts, NEW nums, Lands(s, hash, n, acts, nums)
  PROVE  /\ Generation(s, hash) \in Gens \cup {None}
         /\ Imports(n, Generation(s, hash))
<1> DEFINE g == Generation(s, hash)
<1>1. g = s \/ g = None
  BY DEF Generation
<1>2. None \notin used
  BY NoneAssumption DEF KbTypeOK
<1>3. s \notin used /\ s \in Gens
  BY SessionsAssumption DEF LedgerInv
<1>4. meta' = Regenerated(n, g) /\ used' = used \cup ({g} \ {None})
      /\ UNCHANGED <<attemptVars, written, faults>>
  BY DEF Lands
<1> QED BY <1>1, <1>2, <1>3, <1>4 DEF Imports

\* Every step but a landing and a crash leaves extraction alone or is one of its own.
LEMMA StepImplements ==
  ASSUME KbTypeOK, ImportInv, [Next]_vars
  PROVE  [KbNext]_kbVars
<1>1. CASE UNCHANGED vars
  BY <1>1 DEF vars
<1>2. CASE Extracted
  BY <1>2 DEF Extracted, KbNext
<1>3. ASSUME NEW s \in Sessions, Stage(s) \/ Parse(s) \/ SessionExpires(s)
      PROVE  UNCHANGED kbVars
  BY <1>3 DEF Stage, Parse, SessionExpires
<1>4. ASSUME NEW m \in Modes, NEW p \in Plans, Chooses(m, p)
      PROVE  UNCHANGED kbVars
  BY <1>4 DEF Chooses
<1>5. CASE Reviews \/ Confirms \/ Dismisses
  BY <1>5 DEF Reviews, Confirms, Sends, Dismisses
<1>6. ASSUME NEW r \in Requests, LosesAnswer(r) \/ Locks(r) \/ Unlocks(r)
      PROVE  UNCHANGED kbVars
  BY <1>6 DEF LosesAnswer, Locks, Unlocks
<1>7. ASSUME NEW r \in Requests, Receives(r) \/ Merges(r)
      PROVE  [KbNext]_kbVars
  <2> DEFINE s == req[r].session
  <2>1. s \in Sessions
    BY <1>7 DEF Receives, Merges, ImportInv, ImportTypeOK, Confirm
  <2>2. ASSUME NEW n \in Novels, receipt[s] = None,
               \E acts, nums : Lands(s, req[r].hash, n, acts, nums)
        PROVE  [KbNext]_kbVars
    BY <2>1, <2>2, LandsImports DEF ImportInv, KbNext
  <2>3. Receives(r) => \/ UNCHANGED kbVars
                       \/ /\ receipt[s] = None
                          /\ \E n \in Novels :
                               \E acts, nums : Lands(s, req[r].hash, n, acts, nums)
    BY DEF Receives
  <2>4. Merges(r) => \/ UNCHANGED kbVars
                     \/ /\ receipt[s] = None
                        /\ \E acts, nums : Lands(s, req[r].hash, Book, acts, nums)
    BY DEF Merges, Unreceipted
  <2> QED BY <1>7, <2>2, <2>3, <2>4, BookAssumption
<1>8. ASSUME NEW k \in Numbers, Rewrites(k) \/ Cuts(k)
      PROVE  UNCHANGED kbVars
  BY <1>8 DEF Rewrites, Cuts
<1>9. CASE Continues \/ RunTurns \/ LockExpires
  BY <1>9 DEF Continues, RunTurns, LockExpires
<1>10. CASE Dies
  BY <1>10 DEF Dies, Crashes, KbNext
<1> QED BY <1>1, <1>2, <1>3, <1>4, <1>5, <1>6, <1>7, <1>8, <1>9, <1>10 DEF Next, Imported

-----------------------------------------------------------------------------
(* Types of the operators.                                                 *)

\* A chapter's record in the book.
LEMMA PresentIs ==
  ASSUME ImportTypeOK, NEW n \in Novels, NEW k \in Present(n)
  PROVE  k \in Numbers /\ k \in Nat /\ k # 0 /\ chapters[n][k] \in Chapter
<1>1. k \in Numbers /\ chapters[n][k] # None
  BY DEF Present
<1>2. chapters[n] \in [Numbers -> Chapter \cup {None}]
  BY DEF ImportTypeOK
<1>3. k \in Nat /\ k # 0
  BY <1>1 DEF Numbers
<1> QED BY <1>1, <1>2, <1>3

\* A chapter of the manuscript matches a chapter of the book or none.
LEMMA MatchType ==
  ASSUME ImportTypeOK, NEW n \in Novels, NEW c
  PROVE  Match(n, c) \in Present(n) \cup {0}
<1> DEFINE title == {k \in Present(n) : chapters[n][k].title = c.title}
           text  == {k \in Present(n) : chapters[n][k].text = c.text}
<1>1. title \in SUBSET Nat /\ text \in SUBSET Nat
  BY PresentIs
<1>2. title # {} => Min(title) \in Present(n)
  <2>1. title \subseteq Present(n)
    OBVIOUS
  <2> HIDE DEF title
  <2> QED BY <1>1, <2>1, MinIs
<1>3. text # {} => Min(text) \in Present(n)
  <2>1. text \subseteq Present(n)
    OBVIOUS
  <2> HIDE DEF text
  <2> QED BY <1>1, <2>1, MinIs
<1>4. Match(n, c) = IF title # {} THEN Min(title) ELSE IF text # {} THEN Min(text) ELSE 0
  BY DEF Match
<1> HIDE DEF title, text
<1> QED BY <1>2, <1>3, <1>4

\* What a report says of a chapter that matches.
LEMMA ConsentType ==
  ASSUME ImportTypeOK, NEW n \in Novels, NEW k \in Present(n) \cup {0}
  PROVE  /\ Consent(n, k) \in Agreed \cup {None}
         /\ k # 0 => /\ Consent(n, k) # None
                     /\ Consent(n, k).text = chapters[n][k].text
<1>1. CASE k = 0
  BY <1>1 DEF Consent
<1>2. CASE k # 0
  <2> DEFINE c == [id |-> chapters[n][k].id, version |-> chapters[n][k].version,
                   text |-> chapters[n][k].text]
  <2>1. chapters[n][k] \in Chapter
    BY <1>2, PresentIs
  <2>2. c \in Agreed /\ c.text = chapters[n][k].text
    BY <2>1 DEF Chapter, Agreed
  <2>3. Consent(n, k) = c
    BY <1>2 DEF Consent
  <2> HIDE DEF c
  <2> QED BY <2>2, <2>3, RecordsAssumption
<1> QED BY <1>1, <1>2

\* A plan is a sequence.
LEMMA PlanType ==
  ASSUME NEW p \in Plans
  PROVE  /\ Len(Manuscript[p]) \in Nat
         /\ DOMAIN Manuscript[p] = 1 .. Len(Manuscript[p])
         /\ \A i \in DOMAIN Manuscript[p] :
              Manuscript[p][i].title \in Nat /\ Manuscript[p][i].text \in [by : {"ms"}, n : Nat]
<1>1. Manuscript[p] \in Seq([title : Nat, text : [by : {"ms"}, n : Nat]])
  BY ManuscriptAssumption DEF Plans
<1> DEFINE S == [title : Nat, text : [by : {"ms"}, n : Nat]]
<1>2. \A i \in 1 .. Len(Manuscript[p]) : Manuscript[p][i] \in S
  <2> HIDE DEF S
  <2>1. Manuscript[p] \in Seq(S)
    BY <1>1 DEF S
  <2> QED BY <2>1, ElementOfSeq
<1> QED BY <1>1, <1>2

\* A function of the chapters of a plan is a sequence.
LEMMA PlanSeq ==
  ASSUME NEW p \in Plans, NEW S, NEW f \in [DOMAIN Manuscript[p] -> S]
  PROVE  f \in Seq(S) /\ DOMAIN f = DOMAIN Manuscript[p]
BY PlanType, SeqDef

\* A report.
LEMMA ReportType ==
  ASSUME ImportTypeOK, BookInv, NEW p \in Plans
  PROVE  /\ Report(Book, p) \in Seq(Found)
         /\ DOMAIN Report(Book, p) = DOMAIN Manuscript[p]
         /\ Dated(Report(Book, p), stamp)
<1> DEFINE f(i) == [num |-> Match(Book, Manuscript[p][i]),
                    consent |-> Consent(Book, Match(Book, Manuscript[p][i]))]
<1>1. Report(Book, p) = [i \in DOMAIN Manuscript[p] |-> f(i)]
  BY DEF Report
<1>2. ASSUME NEW i \in DOMAIN Manuscript[p]
      PROVE  /\ f(i) \in Found
             /\ f(i).consent # None /\ f(i).consent.text.by = "own"
                  => f(i).consent.text.n <= stamp
  <2> DEFINE k == Match(Book, Manuscript[p][i])
  <2>1. k \in Present(Book) \cup {0}
    BY MatchType, BookAssumption
  <2>2. /\ Consent(Book, k) \in Agreed \cup {None}
        /\ k # 0 => Consent(Book, k).text = chapters[Book][k].text
        /\ k = 0 => Consent(Book, k) = None
    BY <2>1, ConsentType, BookAssumption DEF Consent
  <2>3. k \in Nat
    BY <2>1, PresentIs, BookAssumption
  <2>4. k # 0 => k \in Numbers /\ chapters[Book][k] # None
    BY <2>1 DEF Present
  <2>5. f(i).num = k /\ f(i).consent = Consent(Book, k)
    OBVIOUS
  <2>6. f(i) = [num |-> k, consent |-> Consent(Book, k)]
    OBVIOUS
  <2> HIDE DEF k, f
  <2>7. f(i) \in Found
    BY <2>2, <2>3, <2>6 DEF Found
  <2> QED BY <2>2, <2>4, <2>5, <2>7 DEF BookInv
<1> HIDE DEF f
<1>3. Report(Book, p) \in [DOMAIN Manuscript[p] -> Found]
  BY <1>1, <1>2
<1>4. Report(Book, p) \in Seq(Found) /\ DOMAIN Report(Book, p) = DOMAIN Manuscript[p]
  BY <1>3, PlanSeq
<1> QED BY <1>1, <1>2, <1>4 DEF Dated

\* What an author asks about a report, with its plan and date.
LEMMA DecisionsType ==
  ASSUME NEW p \in Plans, NEW rep \in Seq(Found), DOMAIN rep = DOMAIN Manuscript[p],
         NEW d, Dated(rep, d), NEW acts \in Actions(rep)
  PROVE  /\ Decisions(rep, acts) \in Seq(Decided)
         /\ DOMAIN Decisions(rep, acts) = DOMAIN Manuscript[p]
         /\ Dated(Decisions(rep, acts), d)
         /\ \A i \in DOMAIN Decisions(rep, acts) :
              Decisions(rep, acts)[i].act = "overwrite" => Decisions(rep, acts)[i].num # 0
<1> DEFINE e(i) == [act |-> acts[i], num |-> rep[i].num, consent |-> rep[i].consent]
<1>1. Decisions(rep, acts) = [i \in DOMAIN rep |-> e(i)]
  BY DEF Decisions
<1>2. ASSUME NEW i \in DOMAIN rep
      PROVE  /\ e(i) \in Decided
             /\ e(i).act = "overwrite" => e(i).num # 0
             /\ e(i).consent = rep[i].consent
  <2>1. rep[i] \in Found
    BY PlanType, ElementOfSeq, LenProperties
  <2>2. acts[i] \in {"skip", "overwrite", "append"} /\ (acts[i] = "overwrite" => rep[i].num # 0)
    BY OptionsAssumption DEF Actions
  <2> QED BY <2>1, <2>2 DEF Found, Decided
<1> HIDE DEF e
<1>3. Decisions(rep, acts) \in [DOMAIN Manuscript[p] -> Decided]
  BY <1>1, <1>2
<1>4. Decisions(rep, acts) \in Seq(Decided)
      /\ DOMAIN Decisions(rep, acts) = DOMAIN Manuscript[p]
  BY <1>3, PlanSeq
<1> QED BY <1>1, <1>2, <1>4 DEF Dated

-----------------------------------------------------------------------------
(* The wizard and its requests.                                            *)

WizardOK  == wizard \in Wizard /\ WizardInv
RequestOK == req \in [Requests -> Confirm \cup {None}] /\ RequestInv

\* A closed wizard.
LEMMA ClosedIs == Closed \in Wizard /\ Closed.report = None /\ Closed.session = None
BY DEF Closed, Wizard, Modes

\* A wizard that stops waiting shows what it showed.
LEMMA NotBusy ==
  ASSUME WizardOK, NEW b \in BOOLEAN, wizard' = [wizard EXCEPT !.busy = b]
  PROVE  WizardOK'
<1>1. wizard' \in Wizard /\ wizard'.report = wizard.report /\ wizard'.mode = wizard.mode
      /\ wizard'.plan = wizard.plan /\ wizard'.asOf = wizard.asOf
  BY DEF WizardOK, Wizard
<1> QED BY <1>1 DEF WizardOK, WizardInv

\* A wizard without a report.
LEMMA NoReport ==
  ASSUME wizard' \in Wizard, wizard'.report = None
  PROVE  WizardOK'
BY DEF WizardOK, WizardInv

\* A request in another place.
LEMMA RequestMoves ==
  ASSUME RequestOK, NEW r \in Requests,
         NEW c \in Confirm, req' = [req EXCEPT ![r] = c],
         Decisive(c.hash, c.asOf), c.at # "sent" => c.hash.mode = "merge"
  PROVE  RequestOK'
<1>1. req' \in [Requests -> Confirm \cup {None}]
  BY DEF RequestOK
<1>2. ASSUME NEW q \in Requests, req'[q] # None
      PROVE  /\ Decisive(req'[q].hash, req'[q].asOf)
             /\ req'[q].at # "sent" => req'[q].hash.mode = "merge"
  BY <1>2 DEF RequestOK, RequestInv
<1> QED BY <1>1, <1>2 DEF RequestOK, RequestInv

\* A request that is over.
LEMMA EndsStep ==
  ASSUME WizardOK, RequestOK, NEW r \in Requests, NEW ok, Ends(r, ok)
  PROVE  WizardOK' /\ RequestOK'
<1>1. WizardOK'
  <2>1. CASE wizard' = wizard
    BY <2>1 DEF WizardOK, WizardInv
  <2>2. CASE wizard' = Closed
    BY <2>2, ClosedIs, NoReport
  <2>3. CASE wizard' = [wizard EXCEPT !.busy = FALSE]
    BY <2>3, NotBusy
  <2> QED BY <2>1, <2>2, <2>3 DEF Ends
<1>2. req' = [req EXCEPT ![r] = None]
  BY DEF Ends
<1>3. req' \in [Requests -> Confirm \cup {None}]
  BY <1>2 DEF RequestOK
<1>4. \A q \in Requests : req'[q] # None => req'[q] = req[q]
  BY <1>2 DEF RequestOK
<1> QED BY <1>1, <1>3, <1>4 DEF RequestOK, RequestInv

\* A request that goes on.
LEMMA GoesOn ==
  ASSUME RequestOK, NEW r \in Requests, req[r] # None
  PROVE  /\ req[r] \in Confirm /\ req[r].hash \in Hash /\ req[r].session \in Sessions
         /\ Decisive(req[r].hash, req[r].asOf)
         /\ req[r].at # "sent" => req[r].hash.mode = "merge"
<1>1. req[r] \in Confirm
  BY DEF RequestOK
<1> QED BY <1>1 DEF RequestOK, RequestInv, Confirm

\* A merge whose transaction is over.
LEMMA LeavesStep ==
  ASSUME WizardOK, RequestOK, NEW r \in Requests, NEW ok \in BOOLEAN, Leaves(r, ok),
         req[r] # None, req[r].at # "sent"
  PROVE  WizardOK' /\ RequestOK'
<1> DEFINE c == [req[r] EXCEPT !.at = "leaving", !.ok = ok]
<1>1. c \in Confirm /\ c.hash = req[r].hash /\ c.asOf = req[r].asOf
  BY GoesOn DEF Confirm
<1>2. req' = [req EXCEPT ![r] = c]
  BY DEF Leaves
<1> HIDE DEF c
<1>3. RequestOK'
  BY <1>1, <1>2, GoesOn, RequestMoves
<1> QED BY <1>3 DEF Leaves, WizardOK, WizardInv

-----------------------------------------------------------------------------
(* The book.                                                               *)

BookOK   == /\ chapters \in [Novels -> [Numbers -> Chapter \cup {None}]]
            /\ novels \subseteq Novels /\ stamp \in 0 .. MaxStamp /\ born \in Nat
            /\ BookInv
LedgerOK == /\ receipt \in [Sessions -> Receipt \cup {None}] /\ landed \in [Sessions -> Nat]
            /\ LedgerInv
FilesOK  == /\ dir \in [Sessions -> {"none", "staged", "open"}] /\ issued \subseteq Sessions
            /\ lock \in [Novels -> Requests \cup {None, "run"}]

\* The invariant, by what the actions share.
LEMMA ImportInvIs ==
  /\ ImportInv <=> FilesOK /\ LedgerOK /\ BookOK /\ WizardOK /\ RequestOK
  /\ ImportInv' <=> FilesOK' /\ LedgerOK' /\ BookOK' /\ WizardOK' /\ RequestOK'
BY DEF ImportInv, ImportTypeOK, FilesOK, LedgerOK, BookOK, WizardOK, RequestOK

\* A part that an action leaves alone.
LEMMA Unmoved ==
  /\ FilesOK /\ UNCHANGED <<dir, issued, lock>> => FilesOK'
  /\ LedgerOK /\ UNCHANGED <<ledger, used>> => LedgerOK'
  /\ BookOK /\ UNCHANGED book => BookOK'
  /\ WizardOK /\ UNCHANGED wizard => WizardOK'
  /\ RequestOK /\ UNCHANGED req => RequestOK'
BY DEF FilesOK, LedgerOK, BookOK, WizardOK, RequestOK, LedgerInv, BookInv, WizardInv,
       RequestInv, ledger, book

\* How many of the first chapters of a manuscript are appended.
LEMMA CountIs ==
  ASSUME NEW acts, NEW m \in Nat
  PROVE  LET S == {j \in 1 .. m : acts[j] = "append"}
         IN  Cardinality(S) \in Nat /\ (S # {} => Cardinality(S) > 0)
<1> DEFINE S == {j \in 1 .. m : acts[j] = "append"}
<1>1. IsFiniteSet(1 .. m)
  BY FS_Interval
<1>2. IsFiniteSet(S)
  BY <1>1, FS_Subset
<1>3. Cardinality(S) \in Nat
  BY <1>2, FS_CardinalityType
<1>4. Cardinality(S) = 0 <=> S = {}
  BY <1>2, FS_EmptySet
<1> QED BY <1>3, <1>4

\* The chapters that decisions replace are in novel n.
Founded(n, hash, acts, nums) ==
  \A i \in DOMAIN Manuscript[hash.plan] :
    acts[i] = "overwrite" => nums[i] \in Present(n) \cup {0}

Landing(n, hash, acts, nums) ==
  /\ chapters' \in [Novels -> [Numbers -> Chapter \cup {None}]]
  /\ \A m \in Novels : m # n => chapters'[m] = chapters[m]
  /\ \A k \in Numbers :
       \/ chapters'[n][k] = chapters[n][k]
       \/ /\ chapters'[n][k].text.by = "ms"
          /\ chapters[n][k] = None
             \/ \E i \in DOMAIN Manuscript[hash.plan] : acts[i] = "overwrite" /\ nums[i] = k

\* What a landing makes of the chapters: a chapter of the book that is not what it was
\* is one a decision replaces, and is the manuscript's.
LEMMA LandsChapters ==
  ASSUME BookOK, NEW s, NEW hash \in Hash, NEW n \in Novels, NEW acts, NEW nums,
         Lands(s, hash, n, acts, nums), Founded(n, hash, acts, nums)
  PROVE  Landing(n, hash, acts, nums)
<1> DEFINE plan == Manuscript[hash.plan]
           Rank(i) == Cardinality({j \in 1 .. i : acts[j] = "append"})
           Replaced(k, i) == [chapters[n][k] EXCEPT !.version = @ + 1, !.title = plan[i].title,
                                                    !.text = plan[i].text]
           Added(i) == [id |-> born + Rank(i), version |-> 0, title |-> plan[i].title,
                        text |-> plan[i].text]
           replaces(i, k) == acts[i] = "overwrite" /\ nums[i] = k
           appends(i, k) == acts[i] = "append" /\ Last(n) + Rank(i) = k
           W(k) == IF \E i \in DOMAIN plan : replaces(i, k)
                   THEN Replaced(k, CHOOSE i \in DOMAIN plan : replaces(i, k))
                   ELSE IF \E i \in DOMAIN plan : appends(i, k)
                   THEN Added(CHOOSE i \in DOMAIN plan : appends(i, k))
                   ELSE chapters[n][k]
<1>1. chapters' = [chapters EXCEPT ![n] = [k \in Numbers |-> W(k)]]
  BY DEF Lands
<1>2. hash.plan \in Plans
  BY DEF Hash
<1>3. \A i \in DOMAIN plan : /\ i \in Nat /\ i \in 1 .. i
                             /\ plan[i].title \in Nat /\ plan[i].text \in [by : {"ms"}, n : Nat]
  BY <1>2, PlanType
<1>4. ASSUME NEW i \in DOMAIN plan
      PROVE  Rank(i) \in Nat /\ (acts[i] = "append" => Rank(i) > 0)
  <2>1. i \in Nat /\ i \in 1 .. i
    BY <1>3
  <2> QED BY <2>1, CountIs
<1>5. ASSUME NEW k \in Numbers, NEW i \in DOMAIN plan, replaces(i, k)
      PROVE  Replaced(k, i) \in Chapter /\ Replaced(k, i).text.by = "ms"
  <2>1. k # 0
    BY DEF Numbers
  <2>2. k \in Present(n)
    BY <1>5, <2>1 DEF Founded
  <2>3. chapters[n][k] \in Chapter
    <3>1. chapters[n] \in [Numbers -> Chapter \cup {None}]
      BY DEF BookOK
    <3> QED BY <2>2, <3>1 DEF Present
  <2>4. plan[i].title \in Nat /\ plan[i].text \in [by : {"ms"}, n : Nat]
    BY <1>3
  <2> DEFINE c == chapters[n][k]
             t == plan[i].title
             x == plan[i].text
             v == c.version + 1
  <2>5. c \in Chapter /\ t \in Nat /\ x \in [by : {"ms"}, n : Nat]
    BY <2>3, <2>4
  <2>6. Replaced(k, i) = [c EXCEPT !.version = v, !.title = t, !.text = x]
    OBVIOUS
  <2> HIDE DEF c, t, x, Replaced
  <2>7. v \in Nat
    <3>1. c.version \in Nat
      BY <2>5 DEF Chapter
    <3> QED BY <3>1
  <2> HIDE DEF v
  <2>8. x \in Text /\ x.by = "ms"
    BY <2>5 DEF Text
  <2> QED BY <2>5, <2>6, <2>7, <2>8 DEF Chapter
<1>6. ASSUME NEW k \in Numbers, NEW i \in DOMAIN plan, appends(i, k)
      PROVE  Added(i) \in Chapter /\ Added(i).text.by = "ms" /\ chapters[n][k] = None
  <2>1. plan[i].title \in Nat /\ plan[i].text \in [by : {"ms"}, n : Nat]
    BY <1>3
  <2>2. born + Rank(i) \in Nat
    <3>1. Rank(i) \in Nat /\ born \in Nat
      BY <1>4 DEF BookOK
    <3> HIDE DEF Rank
    <3> QED BY <3>1
  <2>3. k > Last(n)
    BY <1>4, <1>6, LastIs
  <2>4. k \notin Present(n)
    BY <2>3, LastIs DEF Numbers
  <2>5. Added(i) \in Chapter /\ Added(i).text.by = "ms"
    <3> HIDE DEF plan, Rank
    <3> QED BY <2>1, <2>2 DEF Chapter, Text
  <2> QED BY <2>4, <2>5 DEF Present
<1>7. \A k \in Numbers : chapters[n][k] \in Chapter \cup {None}
  BY DEF BookOK
<1>8. ASSUME NEW k \in Numbers
      PROVE  /\ W(k) \in Chapter \cup {None}
             /\ \/ W(k) = chapters[n][k]
                \/ /\ W(k).text.by = "ms"
                   /\ chapters[n][k] = None \/ \E i \in DOMAIN plan : replaces(i, k)
  <2>1. CASE \E i \in DOMAIN plan : replaces(i, k)
    <3> DEFINE i == CHOOSE i \in DOMAIN plan : replaces(i, k)
    <3>1. i \in DOMAIN plan /\ replaces(i, k)
      BY <2>1
    <3>2. W(k) = Replaced(k, i)
      BY <2>1
    <3> HIDE DEF i, W, Replaced, replaces, plan
    <3> QED BY <1>5, <2>1, <3>1, <3>2
  <2>2. CASE /\ ~\E i \in DOMAIN plan : replaces(i, k)
             /\ \E i \in DOMAIN plan : appends(i, k)
    <3> DEFINE i == CHOOSE i \in DOMAIN plan : appends(i, k)
    <3>1. i \in DOMAIN plan /\ appends(i, k)
      BY <2>2
    <3>2. W(k) = Added(i)
      BY <2>2
    <3> HIDE DEF i, W, Added, appends, plan
    <3> QED BY <1>6, <3>1, <3>2
  <2>3. CASE /\ ~\E i \in DOMAIN plan : replaces(i, k)
             /\ ~\E i \in DOMAIN plan : appends(i, k)
    <3>1. W(k) = chapters[n][k]
      BY <2>3
    <3> HIDE DEF W
    <3> QED BY <1>7, <3>1
  <2> QED BY <2>1, <2>2, <2>3
<1> HIDE DEF W
<1>9. chapters \in [Novels -> [Numbers -> Chapter \cup {None}]]
  BY DEF BookOK
<1> QED BY <1>1, <1>8, <1>9 DEF Landing

\* A landing leaves the receipt of its session.
LEMMA LandsLedger ==
  ASSUME LedgerOK, NEW s \in Sessions, receipt[s] = None, NEW hash \in Hash, NEW n \in Novels,
         NEW acts, NEW nums, Lands(s, hash, n, acts, nums)
  PROVE  LedgerOK'
<1> DEFINE g == Generation(s, hash)
           c == [hash |-> hash, novel |-> n, gen |-> g]
<1>1. g = s \/ g = None
  BY DEF Generation
<1>2. /\ receipt' = [receipt EXCEPT ![s] = c]
      /\ landed' = [landed EXCEPT ![s] = @ + 1]
      /\ used' = used \cup ({g} \ {None})
  BY DEF Lands
<1>3. g \in Gens \cup {None}
  BY <1>1, SessionsAssumption
<1> HIDE DEF g
<1>4. c \in Receipt
  BY <1>3 DEF Receipt
<1> HIDE DEF c
<1>5. c # None
  BY <1>4, RecordsAssumption
<1>6. landed[s] = 0
  BY DEF LedgerOK, LedgerInv
<1>7. receipt' \in [Sessions -> Receipt \cup {None}] /\ landed' \in [Sessions -> Nat]
  BY <1>2, <1>4, <1>6 DEF LedgerOK
<1>8. receipt'[s] # None /\ landed'[s] = 1
  BY <1>2, <1>5, <1>6 DEF LedgerOK
<1>9. ASSUME NEW t \in Sessions, t # s
      PROVE  /\ receipt'[t] = receipt[t] /\ landed'[t] = landed[t]
             /\ t \in used' => t \in used
  BY <1>1, <1>2, <1>9 DEF LedgerOK
<1> QED BY <1>7, <1>8, <1>9 DEF LedgerOK, LedgerInv

\* A landing keeps the book's invariant.
LEMMA LandsBook ==
  ASSUME BookOK, NEW s, NEW hash \in Hash, NEW n \in Novels, NEW acts, NEW nums,
         Lands(s, hash, n, acts, nums), Founded(n, hash, acts, nums)
  PROVE  BookOK'
<1> DEFINE added == Cardinality({i \in DOMAIN Manuscript[hash.plan] : acts[i] = "append"})
<1>1. added \in Nat
  <2>1. hash.plan \in Plans
    BY DEF Hash
  <2>2. PICK m \in Nat : DOMAIN Manuscript[hash.plan] = 1 .. m
    BY <2>1, PlanType
  <2> QED BY <2>2, CountIs
<1>2. born' = born + added /\ novels' = novels \cup {n} /\ UNCHANGED stamp
  BY DEF Lands
<1> HIDE DEF added
<1>3. born' \in Nat /\ novels' \subseteq Novels /\ stamp' \in 0 .. MaxStamp
  BY <1>1, <1>2 DEF BookOK
<1>4. /\ chapters' \in [Novels -> [Numbers -> Chapter \cup {None}]]
      /\ \A m \in Novels : m # n => chapters'[m] = chapters[m]
      /\ \A k \in Numbers : \/ chapters'[n][k] = chapters[n][k]
                            \/ chapters'[n][k].text.by = "ms"
  BY LandsChapters DEF Landing
<1>5. \A k \in Numbers : \/ chapters'[Book][k] = chapters[Book][k]
                         \/ chapters'[Book][k].text.by = "ms"
  BY <1>4, BookAssumption
<1>6. BookInv'
  BY <1>2, <1>5 DEF BookOK, BookInv
<1> QED BY <1>3, <1>4, <1>6 DEF BookOK

\* The directory of a session goes.
LEMMA RemovedType ==
  ASSUME FilesOK, NEW s
  PROVE  Removed(s) \in [Sessions -> {"none", "staged", "open"}]
BY DEF FilesOK, Removed

-----------------------------------------------------------------------------
(* The steps of the wizard.                                                *)

\* The file that is staged is of no session before.
LEMMA StageStep ==
  ASSUME ImportInv, NEW s \in Sessions, Stage(s)
  PROVE  ImportInv'
<1>1. FilesOK'
  BY ImportInvIs DEF Stage, FilesOK, ledger, book
<1> DEFINE w == [Closed EXCEPT !.session = s]
<1>2. w \in Wizard /\ w.report = None
  BY ClosedIs DEF Wizard
<1>3. wizard' = w /\ UNCHANGED <<ledger, book, req, used>>
  BY DEF Stage, kbVars
<1> QED BY <1>1, <1>2, <1>3, NoReport, ImportInvIs, Unmoved

\* A session without a plan shows no report, so the plan as parsed contradicts none.
LEMMA ParseStep ==
  ASSUME ImportInv, NEW s \in Sessions, Parse(s)
  PROVE  ImportInv'
<1>1. FilesOK'
  BY ImportInvIs DEF Parse, FilesOK
<1> DEFINE w == [wizard EXCEPT !.plan = 1]
<1>2. w \in Wizard /\ w.report = wizard.report
  <2>1. 1 \in Plans /\ wizard \in Wizard
    BY ManuscriptAssumption DEF Plans, ImportInv, ImportTypeOK
  <2> QED BY <2>1 DEF Wizard
<1>3. wizard' = w /\ UNCHANGED <<ledger, book, req, used>>
  BY DEF Parse, kbVars
<1>4. WizardOK'
  <2>1. CASE wizard.report = None
    <3>1. wizard' \in Wizard /\ wizard'.report = None
      BY <1>2, <1>3, <2>1
    <3> QED BY <3>1 DEF WizardOK, WizardInv
  <2>2. CASE wizard.report # None
    <3>1. wizard.plan = 0 /\ wizard.plan \in Plans
      BY <2>2 DEF Parse, ImportInv, WizardInv
    <3> QED BY <3>1, ManuscriptAssumption DEF Plans
  <2> QED BY <2>1, <2>2
<1> QED BY <1>1, <1>3, <1>4, ImportInvIs, Unmoved

\* A report goes with the plan it is about.
LEMMA ChoosesStep ==
  ASSUME ImportInv, NEW m \in Modes, NEW p \in Plans, Chooses(m, p)
  PROVE  ImportInv'
<1> DEFINE w == [wizard EXCEPT !.mode = m, !.plan = p, !.report = None, !.asOf = 0]
<1>1. w \in Wizard /\ w.report = None
  BY DEF ImportInv, ImportTypeOK, Wizard
<1>2. wizard' = w /\ UNCHANGED <<dir, issued, lock, ledger, book, req, used>>
  BY DEF Chooses, kbVars, files
<1> QED BY <1>1, <1>2, NoReport, ImportInvIs, Unmoved

\* The report is dated by the last change of the book.
LEMMA ReviewsStep ==
  ASSUME ImportInv, Reviews
  PROVE  ImportInv'
<1> DEFINE rep == Report(Book, wizard.plan)
           w == [wizard EXCEPT !.report = rep, !.asOf = stamp]
<1>1. wizard \in Wizard /\ wizard.plan \in Plans /\ wizard.mode = "merge"
  BY DEF Reviews, Idles, ImportInv, ImportTypeOK, Wizard
<1>2. rep \in Seq(Found) /\ DOMAIN rep = DOMAIN Manuscript[wizard.plan] /\ Dated(rep, stamp)
  BY <1>1, ReportType DEF ImportInv
<1>3. wizard' = w /\ UNCHANGED <<dir, issued, lock, ledger, book, req, used>>
  BY DEF Reviews, kbVars, files
<1>4. stamp \in Nat
  BY BoundsAssumption DEF ImportInv, ImportTypeOK
<1> HIDE DEF rep
<1>5. /\ w \in Wizard /\ w.mode = "merge" /\ w.plan = wizard.plan
      /\ w.report = rep /\ w.asOf = stamp
  BY <1>1, <1>2, <1>4 DEF Wizard
<1> HIDE DEF w
<1>6. WizardOK'
  BY <1>1, <1>2, <1>3, <1>5 DEF WizardOK, WizardInv
<1> QED BY <1>3, <1>6, ImportInvIs, Unmoved

\* A closed wizard shows nothing.
LEMMA DismissesStep ==
  ASSUME ImportInv, Dismisses
  PROVE  ImportInv'
<1>1. wizard' = Closed /\ UNCHANGED <<dir, issued, lock, ledger, book, req, used>>
  BY DEF Dismisses, kbVars, files
<1> QED BY <1>1, ClosedIs, NoReport, ImportInvIs, Unmoved

\* Sending a request that knows what it decides.
LEMMA SendsStep ==
  ASSUME ImportInv, NEW r \in Requests, NEW hash \in Hash, wizard.session \in Sessions,
         Decisive(hash, wizard.asOf), Sends(r, hash)
  PROVE  ImportInv'
<1> DEFINE c == [session |-> wizard.session, hash |-> hash, asOf |-> wizard.asOf,
                 at |-> "sent", heard |-> TRUE, ok |-> FALSE]
<1>1. wizard.asOf \in Nat
  BY DEF ImportInv, ImportTypeOK, Wizard
<1>2. c \in Confirm /\ c.hash = hash /\ c.asOf = wizard.asOf /\ c.at = "sent"
  BY <1>1 DEF Confirm
<1>3. /\ req' = [req EXCEPT ![r] = c] /\ wizard' = [wizard EXCEPT !.busy = TRUE]
      /\ UNCHANGED <<dir, issued, lock, ledger, book, used>>
  BY DEF Sends, kbVars, files
<1> HIDE DEF c
<1>4. RequestOK'
  BY <1>2, <1>3, RequestMoves, ImportInvIs
<1>5. WizardOK'
  BY <1>3, NotBusy, ImportInvIs
<1> QED BY <1>3, <1>4, <1>5, ImportInvIs, Unmoved

\* A request decides what its report asked.
LEMMA ConfirmsStep ==
  ASSUME ImportInv, Confirms
  PROVE  ImportInv'
<1>1. Idler \in Requests
  BY DEF Confirms, Idler
<1>2. wizard \in Wizard /\ wizard.session \in Sessions /\ wizard.plan \in Plans
  BY DEF Confirms, Idles, ImportInv, ImportTypeOK, Wizard
<1>3. ASSUME NEW kb \in BOOLEAN, wizard.mode = "new", Sends(Idler, Asked(kb, None))
      PROVE  ImportInv'
  <2>1. Asked(kb, None) \in Hash /\ Asked(kb, None).mode = "new"
    BY <1>2, <1>3 DEF Asked, Hash, Modes
  <2> QED BY <1>1, <1>2, <1>3, <2>1, SendsStep DEF Decisive
<1>4. ASSUME NEW kb \in BOOLEAN, wizard.mode = "merge", wizard.report # None,
             NEW acts \in Actions(wizard.report),
             Sends(Idler, Asked(kb, Decisions(wizard.report, acts)))
      PROVE  ImportInv'
  <2> DEFINE rep == wizard.report
             ds == Decisions(rep, acts)
             h == Asked(kb, ds)
  <2>1. rep \in Seq(Found)
    BY <1>2, <1>4 DEF Wizard
  <2>2. DOMAIN rep = DOMAIN Manuscript[wizard.plan] /\ Dated(rep, wizard.asOf)
    BY <1>4 DEF ImportInv, WizardInv
  <2>3. /\ ds \in Seq(Decided) /\ DOMAIN ds = DOMAIN Manuscript[wizard.plan]
        /\ Dated(ds, wizard.asOf)
        /\ \A i \in DOMAIN ds : ds[i].act = "overwrite" => ds[i].num # 0
    BY <1>2, <2>1, <2>2, DecisionsType
  <2> HIDE DEF ds
  <2>4. h \in Hash /\ h.plan = wizard.plan /\ h.decisions = ds
    BY <1>2, <1>4, <2>3 DEF Asked, Hash, Modes
  <2>5. Sends(Idler, h)
    BY <1>4 DEF ds
  <2> HIDE DEF h
  <2>6. Decisive(h, wizard.asOf)
    BY <2>3, <2>4 DEF Decisive
  <2> QED BY <1>1, <1>2, <2>4, <2>5, <2>6, SendsStep
<1> QED BY <1>3, <1>4 DEF Confirms

\* The request is the same, heard or not.
LEMMA LosesAnswerStep ==
  ASSUME ImportInv, NEW r \in Requests, LosesAnswer(r)
  PROVE  ImportInv'
<1> DEFINE c == [req[r] EXCEPT !.heard = FALSE]
<1>1. req[r] # None /\ RequestOK /\ WizardOK
  BY ImportInvIs DEF LosesAnswer
<1>2. c \in Confirm /\ c.hash = req[r].hash /\ c.asOf = req[r].asOf /\ c.at = req[r].at
  BY <1>1, GoesOn DEF Confirm
<1>3. /\ req' = [req EXCEPT ![r] = c] /\ wizard' = [wizard EXCEPT !.busy = FALSE]
      /\ UNCHANGED <<dir, issued, lock, ledger, book, used>>
  BY DEF LosesAnswer, kbVars, files
<1> HIDE DEF c
<1>4. RequestOK'
  BY <1>1, <1>2, <1>3, GoesOn, RequestMoves
<1>5. WizardOK'
  BY <1>1, <1>3, NotBusy
<1> QED BY <1>3, <1>4, <1>5, ImportInvIs, Unmoved

-----------------------------------------------------------------------------
(* The steps of the server.                                                *)

\* A landing and what it leaves alone.
LEMMA LandsStep ==
  ASSUME ImportInv, NEW s \in Sessions, receipt[s] = None, NEW hash \in Hash, NEW n \in Novels,
         NEW acts, NEW nums, Lands(s, hash, n, acts, nums), Founded(n, hash, acts, nums),
         WizardOK', RequestOK'
  PROVE  ImportInv'
<1>1. LedgerOK'
  BY LandsLedger, ImportInvIs
<1>2. BookOK'
  BY LandsBook, ImportInvIs
<1>3. FilesOK'
  <2>1. dir' = Removed(s) /\ UNCHANGED <<issued, lock>>
    BY DEF Lands
  <2> QED BY <2>1, RemovedType, ImportInvIs DEF FilesOK
<1> QED BY <1>1, <1>2, <1>3, ImportInvIs

\* A book that begins with the manuscript replaces nothing.
LEMMA NewIsFounded ==
  ASSUME NEW n, NEW hash
  PROVE  LET all == [i \in DOMAIN Manuscript[hash.plan] |-> "append"]
         IN  Founded(n, hash, all, all)
BY DEF Founded

\* A receipt, a missing directory, a new book, or a merge that waits.
LEMMA ReceivesStep ==
  ASSUME ImportInv, NEW r \in Requests, Receives(r)
  PROVE  ImportInv'
<1> DEFINE s == req[r].session
           hash == req[r].hash
           all == [i \in DOMAIN Manuscript[hash.plan] |-> "append"]
<1>1. FilesOK /\ LedgerOK /\ BookOK /\ WizardOK /\ RequestOK
  BY ImportInvIs
<1>2. /\ req[r] # None /\ req[r].at = "sent" /\ s \in Sessions /\ hash \in Hash
      /\ req[r] \in Confirm /\ Decisive(hash, req[r].asOf)
  BY <1>1, GoesOn DEF Receives
<1>3. ASSUME NEW ok, Ends(r, ok), dir' \in {Removed(s), dir},
             UNCHANGED <<issued, ledger, book, lock, kbVars>>
      PROVE  ImportInv'
  <2>1. WizardOK' /\ RequestOK'
    BY <1>1, <1>3, EndsStep
  <2>2. FilesOK'
    BY <1>1, <1>3, RemovedType DEF FilesOK
  <2>3. UNCHANGED <<ledger, book, used>>
    BY <1>3 DEF kbVars
  <2> QED BY <1>1, <2>1, <2>2, <2>3, ImportInvIs, Unmoved
<1>4. ASSUME receipt[s] = None, NEW n \in Novels, Lands(s, hash, n, all, all), Ends(r, TRUE)
      PROVE  ImportInv'
  <2>1. WizardOK' /\ RequestOK'
    BY <1>1, <1>4, EndsStep
  <2>2. Founded(n, hash, all, all)
    BY NewIsFounded
  <2> HIDE DEF s, hash, all
  <2> QED BY <1>2, <1>4, <2>1, <2>2, LandsStep
<1>5. ASSUME hash.mode = "merge", req' = [req EXCEPT ![r].at = "checked"],
             UNCHANGED <<files, ledger, book, lock, wizard, kbVars>>
      PROVE  ImportInv'
  <2> DEFINE c == [req[r] EXCEPT !.at = "checked"]
  <2>1. c \in Confirm /\ c.hash = hash /\ c.asOf = req[r].asOf
    BY <1>2 DEF Confirm
  <2>2. req' = [req EXCEPT ![r] = c]
    BY <1>5
  <2> HIDE DEF c, hash
  <2>3. RequestOK'
    BY <1>1, <1>2, <1>5, <2>1, <2>2, RequestMoves
  <2>4. UNCHANGED <<dir, issued, lock, ledger, book, wizard, used>>
    BY <1>5 DEF kbVars, files
  <2> QED BY <1>1, <2>3, <2>4, ImportInvIs, Unmoved
<1>6. \/ \E ok : /\ Ends(r, ok) /\ dir' \in {Removed(s), dir}
                 /\ UNCHANGED <<issued, ledger, book, lock, kbVars>>
      \/ receipt[s] = None /\ Ends(r, TRUE) /\ \E n \in Novels : Lands(s, hash, n, all, all)
      \/ /\ hash.mode = "merge" /\ req' = [req EXCEPT ![r].at = "checked"]
         /\ UNCHANGED <<files, ledger, book, lock, wizard, kbVars>>
  BY DEF Receives, files
<1> QED BY <1>3, <1>4, <1>5, <1>6

\* The lock is taken or refused.
LEMMA LocksStep ==
  ASSUME ImportInv, NEW r \in Requests, Locks(r)
  PROVE  ImportInv'
<1>1. FilesOK /\ LedgerOK /\ BookOK /\ WizardOK /\ RequestOK
  BY ImportInvIs
<1>2. UNCHANGED <<dir, issued, ledger, book, used>>
  BY DEF Locks, kbVars, files
<1>3. CASE Ends(r, FALSE) /\ UNCHANGED lock
  <2>1. WizardOK' /\ RequestOK'
    BY <1>1, <1>3, EndsStep
  <2> QED BY <1>1, <1>2, <1>3, <2>1, ImportInvIs, Unmoved
<1>4. CASE /\ lock' = [lock EXCEPT ![Book] = r]
           /\ req' = [req EXCEPT ![r].at = "locked"] /\ UNCHANGED wizard
  <2> DEFINE c == [req[r] EXCEPT !.at = "locked"]
  <2>1. /\ req[r] # None /\ req[r] \in Confirm /\ req[r].hash.mode = "merge"
        /\ Decisive(req[r].hash, req[r].asOf)
    BY <1>1, GoesOn DEF Locks
  <2>2. c \in Confirm /\ c.hash = req[r].hash /\ c.asOf = req[r].asOf
    BY <2>1 DEF Confirm
  <2>3. req' = [req EXCEPT ![r] = c]
    BY <1>4
  <2> HIDE DEF c
  <2>4. RequestOK'
    BY <1>1, <2>1, <2>2, <2>3, RequestMoves
  <2>5. FilesOK'
    BY <1>1, <1>2, <1>4 DEF FilesOK
  <2> QED BY <1>1, <1>2, <1>4, <2>4, <2>5, ImportInvIs, Unmoved
<1> QED BY <1>3, <1>4 DEF Locks

\* A decision in force replaces a chapter that is in the book and is as it was found.
LEMMA ConsentsFound ==
  ASSUME ImportInv, NEW hash, Consents(hash),
         NEW i \in DOMAIN hash.decisions
  PROVE  /\ hash.decisions[i].num \in Present(Book) \cup {0}
         /\ hash.decisions[i].num # 0 =>
              /\ hash.decisions[i].consent # None
              /\ hash.decisions[i].consent.text = chapters[Book][hash.decisions[i].num].text
<1> DEFINE d == hash.decisions[i]
<1>1. d.num = Match(Book, Manuscript[hash.plan][i]) /\ d.consent = Consent(Book, d.num)
  BY DEF Consents
<1>2. ImportTypeOK
  BY DEF ImportInv
<1>3. d.num \in Present(Book) \cup {0}
  BY <1>1, <1>2, MatchType, BookAssumption
<1> HIDE DEF d
<1>4. d.num # 0 => d.consent # None /\ d.consent.text = chapters[Book][d.num].text
  BY <1>1, <1>2, <1>3, ConsentType, BookAssumption
<1> QED BY <1>3, <1>4 DEF d

\* What a merge in its transaction does.
MergeActs(hash) == [i \in DOMAIN hash.decisions |-> hash.decisions[i].act]
MergeNums(hash) == [i \in DOMAIN hash.decisions |-> hash.decisions[i].num]

\* A transaction of a merge throws, replays or lands.
LEMMA MergesCases ==
  ASSUME ImportInv, NEW r \in Requests, Merges(r)
  PROVE  /\ req[r] # None /\ req[r].at = "locked"
         /\ \/ /\ Leaves(r, TRUE) \/ Leaves(r, FALSE)
               /\ dir' \in {Removed(req[r].session), dir}
               /\ UNCHANGED <<issued, ledger, book, lock, kbVars>>
            \/ /\ receipt[req[r].session] = None /\ lock[Book] = r /\ Consents(req[r].hash)
               /\ Lands(req[r].session, req[r].hash, Book,
                        MergeActs(req[r].hash), MergeNums(req[r].hash))
               /\ Leaves(r, TRUE)
<1> DEFINE s == req[r].session
           hash == req[r].hash
<1>1. req[r] # None /\ req[r].at = "locked"
  BY DEF Merges
<1>2. Replays(s, hash) \in BOOLEAN
  BY DEF Replays
<1>3. \/ /\ dir' = (IF Replays(s, hash) THEN Removed(s) ELSE dir)
         /\ Leaves(r, Replays(s, hash))
         /\ UNCHANGED <<issued, ledger, book, lock, kbVars>>
      \/ /\ Leaves(r, FALSE)
         /\ UNCHANGED <<files, ledger, book, lock, kbVars>>
      \/ /\ Unreceipted(s) /\ StillOwned(r) /\ Consents(hash)
         /\ Lands(s, hash, Book, MergeActs(hash), MergeNums(hash))
         /\ Leaves(r, TRUE)
  BY DEF Merges, MergeActs, MergeNums
<1> HIDE DEF s, hash
<1>4. \/ /\ Leaves(r, TRUE) \/ Leaves(r, FALSE)
         /\ dir' \in {Removed(s), dir}
         /\ UNCHANGED <<issued, ledger, book, lock, kbVars>>
      \/ /\ receipt[s] = None /\ lock[Book] = r /\ Consents(hash)
         /\ Lands(s, hash, Book, MergeActs(hash), MergeNums(hash))
         /\ Leaves(r, TRUE)
  BY <1>2, <1>3 DEF Unreceipted, StillOwned, files
<1> QED BY <1>1, <1>4 DEF s, hash

\* The decisions of a merge that lands.
LEMMA MergeIsFounded ==
  ASSUME ImportInv, NEW r \in Requests, req[r] # None, req[r].at = "locked",
         Consents(req[r].hash)
  PROVE  Founded(Book, req[r].hash, MergeActs(req[r].hash), MergeNums(req[r].hash))
<1> DEFINE hash == req[r].hash
<1>1. Decisive(hash, req[r].asOf) /\ hash.mode = "merge"
  BY ImportInvIs, GoesOn
<1>2. DOMAIN hash.decisions = DOMAIN Manuscript[hash.plan]
  BY <1>1 DEF Decisive
<1>3. Consents(hash)
  OBVIOUS
<1> HIDE DEF hash
<1>4. \A i \in DOMAIN hash.decisions : hash.decisions[i].num \in Present(Book) \cup {0}
  BY <1>3, ConsentsFound
<1>5. Founded(Book, hash, MergeActs(hash), MergeNums(hash))
  BY <1>2, <1>4 DEF Founded, MergeNums
<1> QED BY <1>5 DEF hash

\* What lands was agreed to in the same transaction.
LEMMA MergesStep ==
  ASSUME ImportInv, NEW r \in Requests, Merges(r)
  PROVE  ImportInv'
<1> DEFINE s == req[r].session
           hash == req[r].hash
<1>1. FilesOK /\ LedgerOK /\ BookOK /\ WizardOK /\ RequestOK
  BY ImportInvIs
<1>2. req[r] # None /\ req[r].at = "locked" /\ s \in Sessions /\ hash \in Hash
  BY <1>1, GoesOn, MergesCases
<1>3. CASE Leaves(r, TRUE) \/ Leaves(r, FALSE)
  <2>1. WizardOK' /\ RequestOK'
    BY <1>1, <1>2, <1>3, LeavesStep
  <2>2. CASE dir' \in {Removed(s), dir} /\ UNCHANGED <<issued, ledger, book, lock, kbVars>>
    <3>1. FilesOK'
      BY <1>1, <2>2, RemovedType DEF FilesOK
    <3>2. UNCHANGED <<ledger, book, used>>
      BY <2>2 DEF kbVars
    <3> QED BY <1>1, <2>1, <3>1, <3>2, ImportInvIs, Unmoved
  <2>3. CASE /\ receipt[s] = None /\ Consents(hash)
             /\ Lands(s, hash, Book, MergeActs(hash), MergeNums(hash))
    <3>1. Founded(Book, hash, MergeActs(hash), MergeNums(hash))
      BY <1>2, <2>3, MergeIsFounded
    <3> HIDE DEF s, hash
    <3> QED BY <1>2, <2>1, <2>3, <3>1, BookAssumption, LandsStep
  <2> QED BY <2>2, <2>3, MergesCases
<1> QED BY <1>3, MergesCases

\* The request is over.
LEMMA UnlocksStep ==
  ASSUME ImportInv, NEW r \in Requests, Unlocks(r)
  PROVE  ImportInv'
<1>1. FilesOK /\ LedgerOK /\ BookOK /\ WizardOK /\ RequestOK
  BY ImportInvIs
<1>2. UNCHANGED <<dir, issued, ledger, book, used>>
  BY DEF Unlocks, kbVars, files
<1>3. WizardOK' /\ RequestOK'
  BY <1>1, EndsStep DEF Unlocks
<1>4. lock' \in [Novels -> Requests \cup {None, "run"}]
  BY <1>1 DEF Unlocks, FilesOK
<1> QED BY <1>1, <1>2, <1>3, <1>4, ImportInvIs, Unmoved DEF FilesOK

-----------------------------------------------------------------------------
(* The steps of the others.                                                *)

\* Whoever writes chapters of the book dates them.
LEMMA DatedStep ==
  ASSUME ImportInv, NEW f, f \in [Numbers -> Chapter \cup {None}],
         chapters' = [chapters EXCEPT ![Book] = f],
         stamp' \in 0 .. MaxStamp, stamp' >= stamp, born' \in Nat,
         \A k \in Numbers : \/ f[k] = chapters[Book][k]
                            \/ f[k] # None => f[k].text = Own(stamp'),
         UNCHANGED <<dir, issued, lock, ledger, novels, wizard, req, used>>
  PROVE  ImportInv'
<1>1. FilesOK /\ LedgerOK /\ BookOK /\ WizardOK /\ RequestOK
  BY ImportInvIs
<1>2. chapters' \in [Novels -> [Numbers -> Chapter \cup {None}]] /\ chapters'[Book] = f
  BY <1>1, BookAssumption DEF BookOK
<1>3. ASSUME NEW k \in Numbers, chapters'[Book][k] # None, chapters'[Book][k].text.by = "own"
      PROVE  chapters'[Book][k].text.n <= stamp'
  <2>1. stamp \in Nat /\ stamp' \in Nat
    BY <1>1, BoundsAssumption DEF BookOK
  <2>2. CASE f[k] = chapters[Book][k]
    <3>1. chapters[Book][k].text.n <= stamp
      BY <1>1, <1>2, <1>3, <2>2 DEF BookOK, BookInv
    <3>2. chapters[Book][k] \in Chapter
      <4>1. chapters[Book] \in [Numbers -> Chapter \cup {None}]
        BY <1>1, BookAssumption DEF BookOK
      <4> QED BY <1>2, <1>3, <2>2, <4>1
    <3>3. chapters[Book][k].text.n \in Nat
      BY <3>2 DEF Chapter, Text
    <3> QED BY <1>2, <2>1, <2>2, <3>1, <3>3
  <2>3. CASE f[k].text = Own(stamp')
    BY <1>2, <2>1, <2>3 DEF Own
  <2> QED BY <1>2, <1>3, <2>2, <2>3
<1>4. BookOK'
  BY <1>1, <1>2, <1>3 DEF BookOK, BookInv
<1> QED BY <1>1, <1>4, ImportInvIs, Unmoved

\* A number's next stamp.
LEMMA NextStamp ==
  ASSUME ImportInv, stamp < MaxStamp
  PROVE  /\ stamp \in Nat /\ stamp + 1 \in 0 .. MaxStamp /\ stamp + 1 >= stamp
         /\ Own(stamp + 1) \in Text
<1>1. stamp \in Nat /\ MaxStamp \in Nat
  BY BoundsAssumption DEF ImportInv, ImportTypeOK
<1>2. stamp + 1 \in Nat /\ stamp + 1 \in 0 .. MaxStamp /\ stamp + 1 >= stamp
  BY <1>1
<1> QED BY <1>1, <1>2 DEF Own, Text

\* The book's chapters.
LEMMA BookType ==
  ASSUME ImportInv
  PROVE  /\ chapters \in [Novels -> [Numbers -> Chapter \cup {None}]]
         /\ chapters[Book] \in [Numbers -> Chapter \cup {None}]
BY BookAssumption DEF ImportInv, ImportTypeOK

\* Another text, dated by the change.
LEMMA RewritesStep ==
  ASSUME ImportInv, NEW k \in Numbers, Rewrites(k)
  PROVE  ImportInv'
<1> DEFINE c == chapters[Book][k]
           v == c.version + 1
           x == Own(stamp + 1)
           d == [c EXCEPT !.version = v, !.text = x]
           f == [chapters[Book] EXCEPT ![k] = d]
<1>1. /\ stamp' = stamp + 1 /\ stamp < MaxStamp /\ k \in Present(Book)
      /\ UNCHANGED <<dir, issued, lock, ledger, novels, born, wizard, req, used>>
  BY DEF Rewrites, kbVars, files
<1>2. chapters' = [chapters EXCEPT ![Book] = f]
  BY BookType, BookAssumption DEF Rewrites
<1>3. c \in Chapter
  BY <1>1, BookType DEF Present
<1>4. v \in Nat
  <2> HIDE DEF c
  <2>1. c.version \in Nat
    BY <1>3 DEF Chapter
  <2> QED BY <2>1
<1>5. x \in Text
  BY <1>1, NextStamp
<1> HIDE DEF c, v, x
<1>6. d \in Chapter /\ d.text = x
  BY <1>3, <1>4, <1>5 DEF Chapter
<1> HIDE DEF d
<1>7. f \in [Numbers -> Chapter \cup {None}]
  BY <1>6, BookType
<1>8. \A j \in Numbers : f[j] = chapters[Book][j] \/ f[j].text = Own(stamp')
  BY <1>1, <1>6, BookType DEF x
<1>9. stamp' \in 0 .. MaxStamp /\ stamp' >= stamp /\ born' \in Nat
  BY <1>1, NextStamp DEF ImportInv, ImportTypeOK
<1> HIDE DEF f
<1> QED BY <1>1, <1>2, <1>7, <1>8, <1>9, DatedStep

\* A chapter of the run, dated by the change.
LEMMA ContinuesStep ==
  ASSUME ImportInv, Continues
  PROVE  ImportInv'
<1> DEFINE k == Last(Book) + 1
           x == Own(stamp + 1)
           i == born + 1
           d == [id |-> i, version |-> 0, title |-> k, text |-> x]
           f == [chapters[Book] EXCEPT ![k] = d]
<1>1. /\ stamp' = stamp + 1 /\ stamp < MaxStamp /\ k \in Numbers /\ born' = i
      /\ UNCHANGED <<dir, issued, lock, ledger, novels, wizard, req, used>>
  BY DEF Continues, kbVars, files
<1>2. chapters' = [chapters EXCEPT ![Book] = f]
  BY BookType, BookAssumption DEF Continues
<1>3. k \in Nat
  BY <1>1 DEF Numbers
<1>4. i \in Nat
  <2>1. born \in Nat
    BY DEF ImportInv, ImportTypeOK
  <2> QED BY <2>1
<1>5. x \in Text
  BY <1>1, NextStamp
<1> HIDE DEF k, i, x
<1>6. d \in Chapter /\ d.text = x
  BY <1>3, <1>4, <1>5 DEF Chapter
<1> HIDE DEF d
<1>7. f \in [Numbers -> Chapter \cup {None}]
  BY <1>6, BookType
<1>8. \A j \in Numbers : f[j] = chapters[Book][j] \/ f[j].text = Own(stamp')
  BY <1>1, <1>6, BookType DEF x
<1>9. stamp' \in 0 .. MaxStamp /\ stamp' >= stamp /\ born' \in Nat
  BY <1>1, <1>4, NextStamp
<1> HIDE DEF f
<1> QED BY <1>1, <1>2, <1>7, <1>8, <1>9, DatedStep

\* What is left is as it was.
LEMMA CutsStep ==
  ASSUME ImportInv, NEW k \in Numbers, Cuts(k)
  PROVE  ImportInv'
<1> DEFINE f == [j \in Numbers |-> IF j >= k THEN None ELSE chapters[Book][j]]
<1>1. /\ stamp' = stamp + 1 /\ stamp < MaxStamp
      /\ chapters' = [chapters EXCEPT ![Book] = f]
      /\ UNCHANGED <<dir, issued, lock, ledger, novels, born, wizard, req, used>>
  BY DEF Cuts, kbVars, files
<1>2. f \in [Numbers -> Chapter \cup {None}]
  BY BookType
<1>3. \A j \in Numbers : f[j] = chapters[Book][j] \/ f[j] = None
  OBVIOUS
<1>4. stamp' \in 0 .. MaxStamp /\ stamp' >= stamp /\ born' \in Nat
  BY <1>1, NextStamp DEF ImportInv, ImportTypeOK
<1> HIDE DEF f
<1> QED BY <1>1, <1>2, <1>3, <1>4, DatedStep

\* The lock goes from hand to hand.
LEMMA LockStep ==
  ASSUME ImportInv, RunTurns \/ LockExpires
  PROVE  ImportInv'
<1>1. FilesOK'
  BY ImportInvIs DEF RunTurns, LockExpires, FilesOK, files
<1>2. UNCHANGED <<ledger, book, wizard, req, used>>
  BY DEF RunTurns, LockExpires, kbVars
<1> QED BY <1>1, <1>2, ImportInvIs, Unmoved

\* The directory goes.
LEMMA SessionExpiresStep ==
  ASSUME ImportInv, NEW s \in Sessions, SessionExpires(s)
  PROVE  ImportInv'
<1>1. FilesOK'
  BY ImportInvIs, RemovedType DEF SessionExpires, FilesOK
<1>2. UNCHANGED <<ledger, book, wizard, req, used>>
  BY DEF SessionExpires, kbVars
<1> QED BY <1>1, <1>2, ImportInvIs, Unmoved

\* A crash leaves no wizard and no request.
LEMMA DiesStep ==
  ASSUME ImportInv, Dies
  PROVE  ImportInv'
<1>1. dir' \in [Sessions -> {"none", "staged", "open"}]
  BY DEF Dies, ImportInv, ImportTypeOK
<1>2. UNCHANGED <<issued, lock, ledger, book, used>>
  BY DEF Dies, Forgotten
<1>3. WizardOK'
  BY ClosedIs DEF Dies, WizardOK, WizardInv
<1>4. RequestOK'
  BY DEF Dies, RequestOK, RequestInv
<1>5. FilesOK'
  BY <1>1, <1>2, ImportInvIs DEF FilesOK
<1> QED BY <1>2, <1>3, <1>4, <1>5, ImportInvIs, Unmoved

\* Extraction leaves imports and what generations were handed out alone.
LEMMA ExtractedStep ==
  ASSUME ImportInv, Extracted
  PROVE  ImportInv'
<1>1. ASSUME NEW a \in Attempts, Request(a) \/ Extraction(a) \/ Aborts(a)
      PROVE  UNCHANGED used
  BY <1>1 DEF Request, Reads, Binds, Concludes, Records, Throws, Extraction, Answers, Puts, Aborts
<1>2. ASSUME NEW a, NEW n, NEW g, Post(a, n, g)
      PROVE  UNCHANGED used
  BY <1>2 DEF Post
<1>3. ASSUME NEW n, LeaseExpires(n)
      PROVE  UNCHANGED used
  BY <1>3 DEF LeaseExpires
<1>4. UNCHANGED used
  BY <1>1, <1>2, <1>3 DEF Extracted
<1>5. UNCHANGED <<dir, issued, lock, ledger, book, wizard, req>>
  BY DEF Extracted, importVars, files
<1> QED BY <1>4, <1>5, ImportInvIs, Unmoved

-----------------------------------------------------------------------------
(* The theorems.                                                           *)

\* The invariants hold at the start.
LEMMA InitImportInv == Init => ImportInv /\ IInv
<1> SUFFICES ASSUME Init PROVE ImportInv /\ IInv
  OBVIOUS
<1>1. IInv /\ used = {}
  BY InitIInv DEF Init, KbInit
<1>2. 0 \in 0 .. MaxStamp
  BY BoundsAssumption
<1>3. ASSUME NEW k \in Numbers
      PROVE  /\ FirstBook[k] \in Chapter \cup {None}
             /\ FirstBook[k] # None => FirstBook[k].text = Own(0)
  <2>1. k \in Nat
    BY DEF Numbers
  <2>2. Own(0) \in Text
    BY DEF Own, Text
  <2> DEFINE c == [id |-> k, version |-> 0, title |-> k, text |-> Own(0)]
  <2>3. c \in Chapter /\ c.text = Own(0)
    BY <2>1, <2>2 DEF Chapter
  <2>4. FirstBook[k] = c \/ FirstBook[k] = None
    BY DEF FirstBook
  <2> HIDE DEF c
  <2> QED BY <2>3, <2>4
<1>4. FirstBook \in [Numbers -> Chapter \cup {None}]
  <2>1. DOMAIN FirstBook = Numbers /\ FirstBook = [k \in Numbers |-> FirstBook[k]]
    BY DEF FirstBook
  <2> QED BY <1>3, <2>1
<1>5. chapters \in [Novels -> [Numbers -> Chapter \cup {None}]] /\ chapters[Book] = FirstBook
  BY <1>4, BookAssumption DEF Init
<1>6. BookInv
  BY <1>3, <1>5 DEF Init, BookInv, Own
<1>7. BookOK
  BY <1>2, <1>5, <1>6, BookAssumption DEF Init, BookOK
<1>8. LedgerOK
  BY <1>1 DEF Init, LedgerOK, LedgerInv
<1>9. WizardOK
  BY ClosedIs DEF Init, WizardOK, WizardInv
<1>10. RequestOK
  BY DEF Init, RequestOK, RequestInv
<1>11. FilesOK
  BY DEF Init, FilesOK
<1> QED BY <1>1, <1>7, <1>8, <1>9, <1>10, <1>11, ImportInvIs

\* Every step keeps the invariant of imports.
LEMMA NextImportInv == ImportInv /\ [Next]_vars => ImportInv'
<1> SUFFICES ASSUME ImportInv, [Next]_vars PROVE ImportInv'
  OBVIOUS
<1>1. CASE UNCHANGED vars
  <2>1. UNCHANGED <<dir, issued, lock, ledger, book, wizard, req, used>>
    BY <1>1 DEF vars, importVars, kbVars, files
  <2> QED BY <2>1, ImportInvIs, Unmoved
<1>2. CASE Extracted
  BY <1>2, ExtractedStep
<1>3. CASE \E s \in Sessions : Stage(s) \/ Parse(s) \/ SessionExpires(s)
  BY <1>3, StageStep, ParseStep, SessionExpiresStep
<1>4. CASE \E m \in Modes, p \in Plans : Chooses(m, p)
  BY <1>4, ChoosesStep
<1>5. CASE Reviews \/ Confirms \/ Dismisses
  BY <1>5, ReviewsStep, ConfirmsStep, DismissesStep
<1>6. CASE \E r \in Requests :
             LosesAnswer(r) \/ Receives(r) \/ Locks(r) \/ Merges(r) \/ Unlocks(r)
  BY <1>6, LosesAnswerStep, ReceivesStep, LocksStep, MergesStep, UnlocksStep
<1>7. CASE \E k \in Numbers : Rewrites(k) \/ Cuts(k)
  BY <1>7, RewritesStep, CutsStep
<1>8. CASE Continues \/ RunTurns \/ LockExpires \/ Dies
  BY <1>8, ContinuesStep, LockStep, DiesStep
<1> QED BY <1>1, <1>2, <1>3, <1>4, <1>5, <1>6, <1>7, <1>8 DEF Next, Imported

\* Imports and extractions keep the invariants of both.
LEMMA NextBoth == ImportInv /\ IInv /\ [Next]_vars => ImportInv' /\ IInv' /\ [KbNext]_kbVars
<1> SUFFICES ASSUME ImportInv, IInv, [Next]_vars
             PROVE  ImportInv' /\ IInv' /\ [KbNext]_kbVars
  OBVIOUS
<1>1. KbTypeOK
  BY DEF IInv
<1>2. [KbNext]_kbVars
  BY <1>1, StepImplements
<1> QED BY <1>2, NextIInv, NextImportInv

\* Both invariants hold always.
LEMMA AlwaysBoth == Spec => [](ImportInv /\ IInv)
<1> QED BY InitImportInv, NextBoth, PTL DEF Spec

\* Type correctness of imports and extractions together.
THEOREM ImportTypeCorrect == Spec => []TypeOK
<1>1. ImportInv /\ IInv => TypeOK
  BY DEF ImportInv, IInv, TypeOK
<1> QED BY <1>1, AlwaysBoth, PTL

\* What imports and crashes do to extractions is what KbExtraction allows them: the
\* transaction of a confirm hands out a generation nobody has heard of
\* (session-confirm.ts 311-332, 377-402 and its importMeta).
THEOREM ImportsImplementExtraction == Spec => ImplementsExtraction
<1>1. Init => KbInit
  BY DEF Init
<1> QED BY <1>1, AlwaysBoth, NextBoth, PTL DEF Spec, ImplementsExtraction, KbSpec

\* So beside imports, too, a slot of a generation yields one entry and a request that
\* was told how its attempt ended is followed by no write.
THEOREM ExtractionBesideImports == Spec => []SlotOnce /\ ToldIsFinal /\ DoneStays
<1>1. KbSpec => []SlotOnce /\ ToldIsFinal /\ DoneStays
  BY SlotIsWrittenOnce, ToldStaysFinal, DoneIsFinal
<1>2. Spec => KbSpec
  BY ImportsImplementExtraction DEF ImplementsExtraction
<1> QED BY <1>1, <1>2

\* A session is imported at most once, by any number of requests.
THEOREM ImportsOnce == Spec => []ImportedOnce
<1>1. ImportInv => ImportedOnce
  BY DEF ImportInv, LedgerInv, ImportedOnce
<1> QED BY <1>1, AlwaysBoth, PTL

\* A request whose decisions are in force lands in the book under its lock.
LandsInBook(r) ==
  /\ req[r] # None /\ req[r].at = "locked" /\ lock[Book] = r /\ Consents(req[r].hash)
  /\ Landing(Book, req[r].hash, MergeActs(req[r].hash), MergeNums(req[r].hash))

\* How the chapters of the book change.
LEMMA BookChanges ==
  ASSUME ImportInv, [Next]_vars
  PROVE  \/ chapters'[Book] = chapters[Book]
         \/ /\ UNCHANGED landed
            /\ \A k \in Numbers : \/ chapters'[Book][k] = chapters[Book][k]
                                  \/ chapters'[Book][k] = None
                                  \/ chapters'[Book][k].text.by = "own"
         \/ \E r \in Requests : LandsInBook(r)
<1> DEFINE Kept == chapters'[Book] = chapters[Book]
           Authored == /\ UNCHANGED landed
                   /\ \A k \in Numbers : \/ chapters'[Book][k] = chapters[Book][k]
                                         \/ chapters'[Book][k] = None
                                         \/ chapters'[Book][k].text.by = "own"
<1>1. CASE UNCHANGED vars \/ Extracted
  BY <1>1 DEF vars, importVars, book, Extracted
<1>2. ASSUME NEW s \in Sessions, Stage(s) \/ Parse(s) \/ SessionExpires(s)
      PROVE  Kept
  BY <1>2 DEF Stage, Parse, SessionExpires, book
<1>3. ASSUME NEW m \in Modes, NEW p \in Plans, Chooses(m, p)
      PROVE  Kept
  BY <1>3 DEF Chooses, book
<1>4. CASE Reviews \/ Confirms \/ Dismisses
  BY <1>4 DEF Reviews, Confirms, Sends, Dismisses, book
<1>5. ASSUME NEW r \in Requests, LosesAnswer(r) \/ Locks(r) \/ Unlocks(r)
      PROVE  Kept
  BY <1>5 DEF LosesAnswer, Locks, Unlocks, book
<1>6. ASSUME NEW r \in Requests, Receives(r)
      PROVE  Kept
  <2> DEFINE s == req[r].session
             hash == req[r].hash
             all == [i \in DOMAIN Manuscript[hash.plan] |-> "append"]
  <2>1. \/ UNCHANGED chapters
        \/ \E n \in Novels \ novels : Lands(s, hash, n, all, all)
    BY <1>6 DEF Receives, book
  <2>2. ASSUME NEW n \in Novels \ novels, Lands(s, hash, n, all, all)
        PROVE  Kept
    <3>1. n # Book
      BY DEF ImportInv, BookInv
    <3>2. BookOK /\ hash \in Hash
      BY <1>6, ImportInvIs, GoesOn DEF Receives
    <3>3. Founded(n, hash, all, all)
      BY NewIsFounded
    <3> HIDE DEF s, hash, all
    <3>4. Landing(n, hash, all, all)
      BY <2>2, <3>2, <3>3, LandsChapters
    <3> QED BY <3>1, <3>4, BookAssumption DEF Landing
  <2> QED BY <2>1, <2>2
<1>7. ASSUME NEW r \in Requests, Merges(r)
      PROVE  Kept \/ LandsInBook(r)
  <2> DEFINE s == req[r].session
             hash == req[r].hash
  <2>1. CASE UNCHANGED chapters
    BY <2>1
  <2>2. CASE /\ lock[Book] = r /\ Consents(hash)
             /\ Lands(s, hash, Book, MergeActs(hash), MergeNums(hash))
    <3>1. req[r] # None /\ req[r].at = "locked" /\ BookOK /\ hash \in Hash
      BY <1>7, ImportInvIs, GoesOn, MergesCases
    <3>2. Founded(Book, hash, MergeActs(hash), MergeNums(hash))
      BY <2>2, <3>1, MergeIsFounded
    <3> HIDE DEF s, hash
    <3>3. Landing(Book, hash, MergeActs(hash), MergeNums(hash))
      BY <2>2, <3>1, <3>2, BookAssumption, LandsChapters
    <3> QED BY <2>2, <3>1, <3>3 DEF LandsInBook, hash
  <2> QED BY <1>7, <2>1, <2>2, MergesCases DEF book
<1>8. ASSUME NEW k \in Numbers, Rewrites(k)
      PROVE  Authored
  <2> DEFINE v == chapters[Book][k].version + 1
  <2>1. /\ chapters' = [chapters EXCEPT ![Book][k].version = v, ![Book][k].text = Own(stamp + 1)]
        /\ k \in Present(Book) /\ UNCHANGED landed
    BY <1>8 DEF Rewrites, ledger
  <2>2. chapters[Book][k] \in Chapter
    BY <2>1, BookType DEF Present
  <2> HIDE DEF v
  <2>3. chapters'[Book][k].text = Own(stamp + 1)
    BY <2>1, <2>2, BookType, BookAssumption DEF Chapter
  <2>4. \A j \in Numbers : j # k => chapters'[Book][j] = chapters[Book][j]
    BY <2>1, BookType, BookAssumption
  <2>5. Own(stamp + 1).by = "own"
    BY DEF Own
  <2>6. \A j \in Numbers : chapters'[Book][j] = chapters[Book][j]
                           \/ chapters'[Book][j].text.by = "own"
    BY <2>3, <2>4, <2>5
  <2> QED BY <2>1, <2>6
<1>9. CASE Continues
  <2> DEFINE i == Last(Book) + 1
             id == born + 1
  <2>1. /\ chapters' = [chapters EXCEPT ![Book][i] =
                          [id |-> id, version |-> 0, title |-> i, text |-> Own(stamp + 1)]]
        /\ UNCHANGED landed
    BY <1>9 DEF Continues, ledger
  <2> HIDE DEF i, id
  <2>2. \A j \in Numbers : chapters'[Book][j] = chapters[Book][j]
                           \/ chapters'[Book][j].text = Own(stamp + 1)
    BY <2>1, BookType, BookAssumption
  <2> QED BY <2>1, <2>2 DEF Own
<1>10. ASSUME NEW k \in Numbers, Cuts(k)
       PROVE  Authored
  BY <1>10, BookType, BookAssumption DEF Cuts, ledger
<1>11. CASE RunTurns \/ LockExpires \/ Dies
  BY <1>11 DEF RunTurns, LockExpires, Dies, book
<1> HIDE DEF Kept, Authored
<1>12. Kept \/ Authored \/ \E r \in Requests : LandsInBook(r)
  BY <1>1, <1>2, <1>3, <1>4, <1>5, <1>6, <1>7, <1>8, <1>9, <1>10, <1>11
     DEF Next, Imported, Kept, Authored
<1> QED BY <1>12 DEF Kept, Authored

\* Only a request that reviewed what it replaces makes the author's chapter the manuscript's.
LEMMA OverwriteStep ==
  ASSUME ImportInv, NEW r \in Requests, LandsInBook(r), NEW k \in Numbers,
         chapters[Book][k] # None, chapters[Book][k].text.by = "own",
         chapters'[Book][k].text.by = "ms"
  PROVE  chapters[Book][k].text.n <= req[r].asOf
<1> DEFINE hash == req[r].hash
<1>1. Decisive(hash, req[r].asOf) /\ hash.mode = "merge" /\ Consents(hash)
  BY ImportInvIs, GoesOn DEF LandsInBook
<1>2. DOMAIN hash.decisions = DOMAIN Manuscript[hash.plan]
      /\ Dated(hash.decisions, req[r].asOf)
  BY <1>1 DEF Decisive
<1>3. Landing(Book, hash, MergeActs(hash), MergeNums(hash))
  BY DEF LandsInBook
<1> HIDE DEF hash
<1>4. PICK i \in DOMAIN hash.decisions : hash.decisions[i].num = k
  BY <1>2, <1>3 DEF Landing, MergeNums
<1>5. k # 0
  BY DEF Numbers
<1>6. /\ hash.decisions[i].consent # None
      /\ hash.decisions[i].consent.text = chapters[Book][k].text
  BY <1>1, <1>4, <1>5, ConsentsFound
<1> QED BY <1>2, <1>6 DEF Dated

\* A merge never replaces prose that was written after the report its author decided on
\* (session-confirm.ts 492-569).
THEOREM OverwritesSpareNewer == Spec => OverwriteSparesNewer
<1> DEFINE Spares == \A k \in Numbers :
             /\ chapters[Book][k] # None /\ chapters'[Book][k] # None
             /\ chapters[Book][k].text.by = "own" /\ chapters'[Book][k].text.by = "ms"
             => \E r \in Requests :
                  /\ req[r] # None /\ req[r].at = "locked"
                  /\ chapters[Book][k].text.n <= req[r].asOf
<1>1. ImportInv /\ [Next]_vars => Spares
  <2> SUFFICES ASSUME ImportInv, [Next]_vars, NEW k \in Numbers,
                      chapters[Book][k] # None, chapters'[Book][k] # None,
                      chapters[Book][k].text.by = "own", chapters'[Book][k].text.by = "ms"
               PROVE  \E r \in Requests :
                        /\ req[r] # None /\ req[r].at = "locked"
                        /\ chapters[Book][k].text.n <= req[r].asOf
    OBVIOUS
  <2>1. PICK r \in Requests : LandsInBook(r)
    BY BookChanges
  <2>2. req[r] # None /\ req[r].at = "locked"
    BY <2>1 DEF LandsInBook
  <2>3. chapters[Book][k].text.n <= req[r].asOf
    BY <2>1, OverwriteStep
  <2> QED BY <2>2, <2>3
<1>2. ImportInv /\ [Next]_vars => [Spares]_vars
  BY <1>1
<1> QED BY <1>2, AlwaysBoth, PTL DEF Spec, OverwriteSparesNewer

\* No import lands in the book while a writing run or a regeneration holds its lock
\* (session-confirm.ts 404-418).
THEOREM ImportsExcludeRuns == Spec => ImportExcludesRun
<1> DEFINE Excludes == landed' # landed /\ lock[Book] = "run" => chapters'[Book] = chapters[Book]
<1>1. ImportInv /\ [Next]_vars => Excludes
  <2> SUFFICES ASSUME ImportInv, [Next]_vars, landed' # landed, lock[Book] = "run"
               PROVE  chapters'[Book] = chapters[Book]
    OBVIOUS
  <2>1. \A r \in Requests : ~LandsInBook(r)
    BY SessionsAssumption DEF LandsInBook
  <2> QED BY <2>1, BookChanges
<1>2. ImportInv /\ [Next]_vars => [Excludes]_vars
  BY <1>1
<1> QED BY <1>2, AlwaysBoth, PTL DEF Spec, ImportExcludesRun
=============================================================================
