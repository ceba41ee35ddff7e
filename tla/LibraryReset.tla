---------------------------- MODULE LibraryReset ----------------------------
(* Clearing the local library, starting a fresh one and deleting a book for  *)
(* good: the SQLite files and the app-owned Vault folders are renamed aside  *)
(* under an intent on the disk, the database is changed, and what was set    *)
(* aside is removed or put back.  A start of the server reconciles what an   *)
(* earlier one left.  Every call of the file system is a step, the server    *)
(* may die between any two, and a call may fail.  All of it runs in the one  *)
(* thread of the server, so there is one program counter.                    *)
EXTENDS Naturals, FiniteSets

CONSTANTS
  Main,        \* inkmarshal.db
  Sidecars,    \* -wal, -shm, -journal and pre-migration backups
  Libraries,   \* identities of databases
  Tokens,      \* identities of reset intents
  Cleanups,    \* identities of cleanup intents
  Books,
  None,
  NoRoot,      \* the directory vaults/ does not exist
  MaxCrashes,
  MaxFaults

Artifacts == {Main} \cup Sidecars

ASSUME NamesAssumption ==
  /\ Main \notin Sidecars
  /\ None \notin Libraries \cup Tokens \cup Cleanups \cup Books
  /\ \A r \in SUBSET (Books \cup Cleanups) : r # NoRoot
  /\ Books \cap Cleanups = {} /\ Tokens \cap Cleanups = {}
  /\ "root" \notin Books /\ None # "root" /\ Libraries # {}

ASSUME BoundsAssumption == MaxCrashes \in Nat /\ MaxFaults \in Nat

VARIABLES
  pc, job,      \* where the server is, and for which request
  hand,         \* the Vault quarantine the request holds (vaultQuarantine)
  book,         \* the book a deletion is about
  token,        \* the reset intent the request holds (resetIntentPath)
  left,         \* intents the running reconciliation has yet to see
  micro,        \* getDb queued the reconciliation of cleanup intents
  db,           \* the open library, if any
  live,         \* the SQLite files under their own names
  aside,        \* the files a reset renamed
  phase,        \* the reset intents on the disk
  listed,       \* the artifacts such an intent names
  active,       \* activeResetIntents
  rows,         \* the books a library file holds
  broken,       \* library files this build cannot open
  vaults,       \* what vaults/ holds: folders and quarantined folders
  shelf,        \* vaults/ directories that were renamed aside
  cleanup,      \* the cleanup intents on the disk: "root" or a book
  held,         \* activeCleanupIntents
  buried,       \* a folder in quarantine went into one of vaults/ (history)
  crashes, faults,
  calm,         \* no call has failed since the server started
  entangled     \* an unfinished reset stays while others run (see below)

server == <<pc, job, hand, book, token, left, micro>>
files == <<live, aside, phase, listed, active>>
data == <<rows, broken>>
folders == <<vaults, shelf, cleanup, held, buried>>
ghosts == <<crashes, faults, calm, entangled>>
vars == <<server, db, files, data, folders, ghosts>>

Roots == {NoRoot} \cup SUBSET (Books \cup Cleanups)

-----------------------------------------------------------------------------
(* Failures and returns. *)

\* A call of the file system fails.
Fault ==
  /\ faults < MaxFaults
  /\ faults' = faults + 1 /\ calm' = FALSE
  /\ UNCHANGED crashes

NoFault == UNCHANGED ghosts

\* The request ends; the microtask that getDb queued runs after it.
Finish ==
  /\ pc' = IF job = "sweep" THEN "sweep" ELSE IF micro THEN "micro" ELSE "idle"
  /\ job' = IF job = "sweep" THEN job ELSE "none"
  /\ hand' = None /\ token' = None /\ book' = None
  /\ UNCHANGED <<left, micro>>

GoTo(where) == pc' = where /\ UNCHANGED <<job, hand, book, token, left, micro>>

-----------------------------------------------------------------------------
(* Quarantines of Vault folders. *)

\* The folder a cleanup intent renamed aside is where its intent says.
Quarantined(c) ==
  IF cleanup[c] = "root" THEN shelf[c] # NoRoot
  ELSE vaults # NoRoot /\ c \in vaults

\* Something is at the path the folder came from.
Recreated(c) ==
  vaults # NoRoot /\ (cleanup[c] = "root" \/ cleanup[c] \in vaults)

\* The directory the quarantine was made in is gone.
ParentGone(c) == cleanup[c] # "root" /\ vaults = NoRoot

RemoveCleanupIntent(c) ==
  /\ cleanup' = [cleanup EXCEPT ![c] = None]
  /\ held' = held \ {c}

FreeCleanups ==
  {c \in Cleanups : /\ cleanup[c] = None /\ shelf[c] = NoRoot
                    /\ \A r \in {vaults} \cup {shelf[d] : d \in Cleanups} :
                         r # NoRoot => c \notin r}

\* Where a request goes on once its folders are aside.
Shelved == CASE job = "reset" -> "list"
             [] job = "clear" -> "empty"
             [] job = "delete" -> "row"

\* quarantineDirectChild up to its intent: `what` is "root" or a book.
Shelve(what) ==
  LET present == vaults # NoRoot /\ (what = "root" \/ what \in vaults)
      c == CHOOSE c \in FreeCleanups : TRUE
  IN \/ /\ ~present
        /\ pc' = Shelved /\ hand' = None
        /\ UNCHANGED <<job, book, token, left, micro, folders>> /\ NoFault
     \/ /\ present /\ FreeCleanups # {}
        /\ cleanup' = [cleanup EXCEPT ![c] = what] /\ held' = held \cup {c}
        /\ pc' = "shelve" /\ hand' = c
        /\ UNCHANGED <<job, book, token, left, micro, vaults, shelf, buried>> /\ NoFault
     \/ present /\ Fault /\ Finish /\ UNCHANGED <<folders, entangled>>

\* The anchored helper renames the folder of the intent in hand.
MoveAside ==
  IF cleanup[hand] = "root"
  THEN /\ shelf' = [shelf EXCEPT ![hand] = vaults] /\ vaults' = NoRoot
       /\ buried' = (buried \/ vaults \cap Cleanups # {})
  ELSE vaults' = (vaults \ {cleanup[hand]}) \cup {hand} /\ UNCHANGED <<shelf, buried>>

\* The rename, or its failure before or after the folder moved: moved, the
\* intent stays for the next start; not moved, it is removed.
Shelves ==
  /\ pc = "shelve"
  /\ UNCHANGED <<db, files, data>>
  /\ \/ MoveAside /\ GoTo(Shelved) /\ UNCHANGED <<cleanup, held>> /\ NoFault
     \/ /\ Fault /\ UNCHANGED entangled
        /\ \/ RemoveCleanupIntent(hand) /\ UNCHANGED <<vaults, shelf, buried>>
           \/ MoveAside /\ held' = held \ {hand} /\ UNCHANGED cleanup
        /\ Finish

\* Nothing is (left) in quarantine: the intent is removed, unless the parent
\* directory cannot be identified.
NothingAside ==
  /\ ~Quarantined(hand)
  /\ IF ParentGone(hand) THEN UNCHANGED <<cleanup, held>> ELSE RemoveCleanupIntent(hand)
  /\ UNCHANGED <<vaults, shelf, buried>> /\ Finish /\ NoFault

\* A call on the quarantine in hand fails; if it was the removal of the
\* intent, the intent is no longer in activeCleanupIntents.
CallFails ==
  /\ Fault /\ Finish
  /\ held' = IF Quarantined(hand) \/ ParentGone(hand) THEN held ELSE held \ {hand}
  /\ UNCHANGED <<vaults, shelf, cleanup, buried, entangled>>

\* restoreAppOwnedVaultQuarantine: it refuses when the path is taken, and
\* removes its intent once there is nothing (left) to restore.
Unshelves ==
  /\ pc = "unshelve"
  /\ UNCHANGED <<db, files, data>>
  /\ \/ NothingAside
     \/ /\ Quarantined(hand) /\ ~Recreated(hand)
        /\ IF cleanup[hand] = "root"
           THEN vaults' = shelf[hand] /\ shelf' = [shelf EXCEPT ![hand] = NoRoot]
           ELSE /\ vaults' = (vaults \ {hand}) \cup {cleanup[hand]}
                /\ UNCHANGED shelf
        /\ UNCHANGED <<cleanup, held, buried, server>> /\ NoFault
     \/ Quarantined(hand) /\ Recreated(hand) /\ Finish /\ UNCHANGED folders /\ NoFault
     \/ CallFails

\* discardAppOwnedVaultQuarantine; a deletion that fails may be half done.
Drops ==
  /\ pc = "drop"
  /\ UNCHANGED <<db, files, data>>
  /\ \/ NothingAside
     \/ /\ Quarantined(hand)
        /\ IF cleanup[hand] = "root"
           THEN shelf' = [shelf EXCEPT ![hand] = NoRoot] /\ UNCHANGED vaults
           ELSE vaults' = vaults \ {hand} /\ UNCHANGED shelf
        /\ UNCHANGED <<cleanup, held, buried, server>> /\ NoFault
     \/ CallFails
     \/ /\ Quarantined(hand) /\ cleanup[hand] = "root"
        /\ \E rest \in SUBSET shelf[hand] :
             shelf' = [shelf EXCEPT ![hand] = rest]
        /\ Fault /\ Finish /\ UNCHANGED <<vaults, cleanup, held, buried, entangled>>
-----------------------------------------------------------------------------
(* getDb: reconciling interrupted resets, then opening the library. *)

\* Mutant: the rollback of a start removes only names its intent lists.
Stale_Listed(t) == {a \in listed[t] : live[a] # None /\ aside[t][a] # None}

\* Mutant: it takes the originals that were not moved yet for new files.
Stale_All(t) == {a \in Artifacts : live[a] # None /\ \E b \in Artifacts : aside[t][b] # None}

\* A live artifact that is no original left in place by the reset t.
Stale(t) ==
  {a \in Artifacts : live[a] # None /\ ~(a \in listed[t] /\ aside[t][a] = None)}

\* Mutant: an artifact counts as missing unless it was moved.
Missing_Unmoved(t) == \E a \in listed[t] : aside[t][a] = None

\* An artifact that reset t names is in neither place.
Missing(t) == \E a \in listed[t] : live[a] = None /\ aside[t][a] = None

\* One call of a rollback: remove what was created since, rename back what
\* was moved.
PutsBack(t) ==
  \/ \E a \in Stale(t) : live' = [live EXCEPT ![a] = None] /\ UNCHANGED aside
  \/ /\ Stale(t) = {}
     /\ \E a \in listed[t] :
          /\ aside[t][a] # None
          /\ live' = [live EXCEPT ![a] = aside[t][a]]
          /\ aside' = [aside EXCEPT ![t][a] = None]

PutBack(t) == Stale(t) = {} /\ \A a \in listed[t] : aside[t][a] = None

Discards(t) ==
  \E a \in listed[t] : /\ aside[t][a] # None
                       /\ aside' = [aside EXCEPT ![t][a] = None]
                       /\ UNCHANGED live

RemoveResetIntent(t) ==
  /\ phase' = [phase EXCEPT ![t] = "none"]
  /\ listed' = [listed EXCEPT ![t] = {}]
  /\ active' = active \ {t}
  /\ UNCHANGED <<live, aside>>

BeginOpen ==
  /\ pc' = "reconcile"
  /\ left' = {t \in Tokens : phase'[t] # "none" /\ t \notin active'}
  /\ UNCHANGED <<hand, book, token, micro>>

\* Mutant: a committed intent is removed before the files it names.
Reconciles_IntentFirst(t) ==
  /\ pc = "reconcile" /\ t \in left
  /\ UNCHANGED <<db, data, folders, pc, job, hand, book, token, micro>>
  /\ \/ /\ phase[t] = "prepared" /\ ~Missing(t) /\ NoFault
        /\ \/ PutsBack(t) /\ UNCHANGED <<phase, listed, active, left>>
           \/ PutBack(t) /\ RemoveResetIntent(t) /\ left' = left \ {t}
     \/ /\ phase[t] = "committed" /\ NoFault
        /\ RemoveResetIntent(t) /\ left' = left \ {t}

\* Mutant: an interrupted reset is always carried through.
Reconciles_Forward(t) ==
  /\ pc = "reconcile" /\ t \in left /\ NoFault
  /\ UNCHANGED <<db, data, folders, pc, job, hand, book, token, micro>>
  /\ \/ Discards(t) /\ UNCHANGED <<phase, listed, active, left>>
     \/ /\ \A a \in listed[t] : aside[t][a] = None
        /\ RemoveResetIntent(t) /\ left' = left \ {t}

\* reconcileInterruptedLocalLibraryResets, for an intent of an earlier start.
Reconciles(t) ==
  /\ pc = "reconcile" /\ t \in left
  /\ UNCHANGED <<db, data, folders, pc, job, hand, book, token, micro>>
  /\ \/ /\ phase[t] = "prepared" /\ ~Missing(t) /\ NoFault
        /\ \/ PutsBack(t) /\ UNCHANGED <<phase, listed, active, left>>
           \/ PutBack(t) /\ RemoveResetIntent(t) /\ left' = left \ {t}
     \/ /\ phase[t] = "committed" /\ NoFault
        /\ \/ Discards(t) /\ UNCHANGED <<phase, listed, active, left>>
           \/ /\ \A a \in listed[t] : aside[t][a] = None
              /\ RemoveResetIntent(t) /\ left' = left \ {t}
     \/ /\ phase[t] = "committed" /\ Fault /\ left' = left \ {t}
        /\ UNCHANGED <<files, entangled>>

\* Where the request goes on with an open library.
Opened == IF job = "reset" THEN "commit" ELSE "work"

FreshLibraries ==
  {g \in Libraries : /\ \A a \in Artifacts : live[a] # g
                     /\ \A t \in Tokens, a \in Artifacts : aside[t][a] # g}

\* A new database, with whatever sidecars SQLite gives it.
Creates(g) ==
  /\ \E new \in SUBSET Sidecars :
       live' = [a \in Artifacts |-> IF a = Main \/ a \in new THEN g ELSE live[a]]
  /\ rows' = [rows EXCEPT ![g] = {}] /\ broken' = broken \ {g}
  /\ UNCHANGED <<aside, phase, listed, active>>

Opens ==
  /\ pc = "reconcile" /\ left = {}
  /\ \/ /\ live[Main] # None /\ live[Main] \notin broken
        /\ db' = live[Main]
        /\ \E new \in SUBSET Sidecars :
             live' = [a \in Artifacts |-> IF a \in new THEN db' ELSE live[a]]
        /\ UNCHANGED <<aside, phase, listed, active, data>>
     \/ /\ live[Main] = None /\ FreshLibraries # {}
        /\ db' = CHOOSE g \in FreshLibraries : TRUE
        /\ Creates(db')
  /\ pc' = Opened /\ micro' = TRUE
  /\ UNCHANGED <<job, hand, book, token, left, folders>> /\ NoFault

\* getDb throws: an intent that cannot be rolled back, a library of another
\* version, or a call that failed, perhaps after it created the file.
OpenFails ==
  /\ pc = "reconcile"
  /\ \/ /\ \E t \in left : phase[t] = "prepared" /\ Missing(t)
        /\ UNCHANGED <<files, data>> /\ NoFault
     \/ left = {} /\ live[Main] \in broken /\ UNCHANGED <<files, data>> /\ NoFault
     \/ /\ (\E t \in left : phase[t] = "prepared") \/ left = {}
        /\ UNCHANGED <<files, data, entangled>> /\ Fault
     \/ /\ left = {} /\ live[Main] = None /\ FreshLibraries # {}
        /\ Creates(CHOOSE g \in FreshLibraries : TRUE) /\ UNCHANGED entangled /\ Fault
  /\ IF job = "reset" THEN pc' = "undo" /\ UNCHANGED <<job, hand, token>>
     ELSE pc' = "idle" /\ job' = "none" /\ UNCHANGED <<hand, token>>
  /\ left' = {} /\ UNCHANGED <<book, micro, db, folders>>

-----------------------------------------------------------------------------
(* The requests.  FreeTokens and FreeCleanups bound how many unfinished *)
(* resets and cleanups pile up on the disk. *)

FreeTokens ==
  {t \in Tokens : phase[t] = "none" /\ \A a \in Artifacts : aside[t][a] = None}

\* SQLite checkpoints and removes its sidecars when the library is closed.
Closes ==
  /\ db' = None /\ micro' = FALSE
  /\ IF db = None THEN UNCHANGED files
     ELSE /\ \E gone \in SUBSET Sidecars :
               live' = [a \in Artifacts |-> IF a \in gone THEN None ELSE live[a]]
          /\ UNCHANGED <<aside, phase, listed, active>>

\* A request arrives; its first getDb opens the library.
Asks(j) ==
  /\ pc = "idle" /\ job' = j
  /\ (j = "read" => db = None) /\ (j = "clear" => FreeCleanups # {})
  /\ UNCHANGED <<db, files, data, folders>> /\ NoFault
  /\ IF db = None THEN BeginOpen ELSE pc' = "work" /\ UNCHANGED <<hand, book, token, left, micro>>

\* DELETE trash/[id]: the route has read the book from the open library.
AsksToDelete(b) ==
  /\ pc = "idle" /\ db # None /\ b \in rows[db] /\ FreeCleanups # {}
  /\ job' = "delete" /\ book' = b /\ pc' = "work"
  /\ UNCHANGED <<db, files, data, folders, hand, token, left, micro>> /\ NoFault

\* resetLocalLibrary closes the library first.  It does not look for an
\* interrupted reset before it moves anything.
AsksForReset ==
  /\ pc = "idle" /\ FreeTokens # {} /\ FreeCleanups # {}
  /\ job' = "reset" /\ pc' = "work"
  /\ Closes
  /\ entangled' = (entangled \/ \E t \in Tokens : phase[t] = "prepared")
  /\ UNCHANGED <<data, folders, hand, book, token, left, crashes, faults, calm>>

\* A request that needs no more than the open library.
Reads == /\ pc = "work" /\ job = "read" /\ Finish
         /\ UNCHANGED <<db, files, data, folders>> /\ NoFault

NewBooks ==
  {b \in Books : /\ \A g \in Libraries : b \notin rows[g]
                 /\ \A c \in Cleanups : cleanup[c] # b
                 /\ \A r \in {vaults} \cup {shelf[c] : c \in Cleanups} :
                      r # NoRoot => b \notin r}

CreatesBook ==
  /\ pc = "work" /\ job = "create" /\ Finish
  /\ \E b \in NewBooks : rows' = [rows EXCEPT ![db] = @ \cup {b}]
  /\ UNCHANGED <<db, files, broken, folders>> /\ NoFault

\* The settings page provisions the folder of a book, through the native
\* process, whatever the server is at.
MakesFolder(b) ==
  /\ db # None /\ b \in rows[db]
  /\ vaults' = (IF vaults = NoRoot THEN {} ELSE vaults) \cup {b}
  /\ UNCHANGED <<server, db, files, data, shelf, cleanup, held, buried>> /\ NoFault

ShelvesRoot == /\ pc = "work" /\ job \in {"clear", "reset"} /\ Shelve("root")
               /\ UNCHANGED <<db, files, data>>

ShelvesFolder == /\ pc = "work" /\ job = "delete" /\ Shelve(book)
                 /\ UNCHANGED <<db, files, data>>

\* What a request does with the folder in hand once the rows are gone, or kept.
Then(where) ==
  IF hand = None THEN Finish ELSE GoTo(where)

\* clearLocalLibraryContent's transaction.
Empties ==
  /\ pc = "empty"
  /\ UNCHANGED <<db, files, broken, folders>>
  /\ \/ rows' = [rows EXCEPT ![db] = {}] /\ Then("drop") /\ NoFault
     \/ UNCHANGED rows /\ Then("unshelve") /\ Fault /\ UNCHANGED entangled

\* deleteTrashedNovelPermanently; it refuses a book taken out of the trash.
DeletesRow ==
  /\ pc = "row"
  /\ UNCHANGED <<db, files, broken, folders>>
  /\ \/ rows' = [rows EXCEPT ![db] = @ \ {book}] /\ Then("drop") /\ NoFault
     \/ UNCHANGED rows /\ Then("unshelve") /\ NoFault
     \/ UNCHANGED rows /\ Then("unshelve") /\ Fault /\ UNCHANGED entangled
-----------------------------------------------------------------------------
(* resetLocalLibrary. *)

\* quarantineLocalLibraryArtifacts lists the artifacts and writes its intent.
Lists ==
  /\ pc = "list"
  /\ UNCHANGED <<job, hand, book, left, micro, db, live, aside, data, folders>>
  /\ \/ /\ FreeTokens # {}
        /\ token' = CHOOSE t \in FreeTokens : TRUE
        /\ phase' = [phase EXCEPT ![token'] = "prepared"]
        /\ listed' = [listed EXCEPT ![token'] = {a \in Artifacts : live[a] # None}]
        /\ active' = active \cup {token'}
        /\ pc' = "move" /\ NoFault
     \/ Fault /\ pc' = "undo" /\ UNCHANGED <<token, phase, listed, active, entangled>>

\* One artifact is renamed; after the last one getDb runs.
Moves ==
  /\ pc = "move"
  /\ UNCHANGED <<job, db, data, folders, phase, listed, active>>
  /\ \/ /\ \E a \in listed[token] :
             /\ aside[token][a] = None
             /\ aside' = [aside EXCEPT ![token][a] = live[a]]
             /\ live' = [live EXCEPT ![a] = None]
        /\ UNCHANGED <<pc, hand, book, token, left, micro>> /\ NoFault
     \/ /\ \A a \in listed[token] : aside[token][a] # None
        /\ UNCHANGED <<live, aside>> /\ BeginOpen /\ NoFault
     \/ /\ \E a \in listed[token] : aside[token][a] = None
        /\ pc' = "unmove" /\ UNCHANGED <<hand, book, token, left, micro, live, aside>>
        /\ Fault /\ UNCHANGED entangled

\* The rename of an artifact failed: those that were moved go back.
Unmoves ==
  /\ pc = "unmove"
  /\ UNCHANGED <<job, hand, book, left, micro, db, data, folders>>
  /\ \/ /\ \E a \in listed[token] :
             /\ aside[token][a] # None
             /\ live' = [live EXCEPT ![a] = aside[token][a]]
             /\ aside' = [aside EXCEPT ![token][a] = None]
        /\ UNCHANGED <<pc, token, phase, listed, active>> /\ NoFault
     \/ /\ \A a \in listed[token] : aside[token][a] = None
        /\ RemoveResetIntent(token)
        /\ pc' = "undo" /\ token' = None /\ NoFault
     \/ /\ Fault /\ pc' = "undo" /\ token' = None
        /\ UNCHANGED <<live, aside, phase, listed>>
        /\ IF \A a \in listed[token] : aside[token][a] = None
           THEN active' = active \ {token} /\ UNCHANGED entangled
           ELSE entangled' = TRUE /\ UNCHANGED active

\* markLibraryResetIntentCommitted.
Commits ==
  /\ pc = "commit"
  /\ UNCHANGED <<db, live, aside, listed, active, data, folders>>
  /\ \/ phase' = [phase EXCEPT ![token] = "committed"] /\ GoTo("discard") /\ NoFault
     \/ UNCHANGED phase /\ GoTo("undo") /\ Fault /\ UNCHANGED entangled

\* The catch block: the new library goes, the old one comes back.
Undoes ==
  /\ pc = "undo"
  /\ UNCHANGED <<data, folders>>
  /\ \/ /\ db # None /\ Closes /\ NoFault
        /\ UNCHANGED <<pc, job, hand, book, token, left>>
     \/ /\ db = None /\ token # None /\ UNCHANGED db /\ NoFault
        /\ \/ PutsBack(token) /\ UNCHANGED <<server, phase, listed, active>>
           \/ /\ PutBack(token) /\ RemoveResetIntent(token)
              /\ token' = None /\ UNCHANGED <<pc, job, hand, book, left, micro>>
     \/ /\ db = None /\ token = None
        /\ UNCHANGED <<db, files>> /\ Then("unshelve") /\ NoFault
     \/ /\ db = None /\ token # None /\ Fault /\ Finish
        /\ UNCHANGED <<db, live, aside, phase, listed>>
        /\ IF PutBack(token) THEN active' = active \ {token} /\ UNCHANGED entangled
           ELSE entangled' = TRUE /\ UNCHANGED active

\* The new library stands: what was moved is removed, then the intent.
DiscardsOld ==
  /\ pc = "discard"
  /\ UNCHANGED <<db, data, folders>>
  /\ \/ Discards(token) /\ UNCHANGED <<server, phase, listed, active>> /\ NoFault
     \/ /\ \A a \in listed[token] : aside[token][a] = None
        /\ RemoveResetIntent(token) /\ Then("drop") /\ NoFault
     \/ /\ Fault /\ Finish /\ UNCHANGED <<live, aside, phase, listed, entangled>>
        /\ active' = IF \A a \in listed[token] : aside[token][a] = None
                     THEN active \ {token} ELSE active

-----------------------------------------------------------------------------
(* reconcileAppOwnedVaultCleanupIntents, in the microtask after getDb. *)

BeginSweep ==
  /\ pc = "micro" /\ pc' = "sweep" /\ job' = "sweep" /\ micro' = FALSE
  /\ left' = {c \in Cleanups : cleanup[c] # None /\ c \notin held}
  /\ UNCHANGED <<hand, book, token, db, files, data, folders>> /\ NoFault

\* Mutant: a vaults/ directory in quarantine is always an interrupted clear.
Restores_Novel(c) == cleanup[c] # "root" /\ cleanup[c] \in rows[db]

\* The folder goes back if its book, or any book, still has a row.
Restores(c) ==
  IF cleanup[c] = "root" THEN rows[db] # {}
  ELSE cleanup[c] \in rows[db]

Sweeps(c) ==
  /\ pc = "sweep" /\ c \in left /\ left' = left \ {c}
  /\ UNCHANGED <<job, book, token, micro, db, files, data, folders>> /\ NoFault
  /\ IF ParentGone(c) THEN UNCHANGED <<pc, hand>>
     ELSE hand' = c /\ pc' = IF Restores(c) THEN "unshelve" ELSE "drop"

EndSweep ==
  /\ pc = "sweep" /\ left = {} /\ pc' = "idle" /\ job' = "none"
  /\ UNCHANGED <<hand, book, token, left, micro, db, files, data, folders>> /\ NoFault

-----------------------------------------------------------------------------
(* The process dies and is started again: the files stay, memory goes. *)

Crash ==
  /\ pc # "down" /\ crashes < MaxCrashes /\ crashes' = crashes + 1
  /\ pc' = "down" /\ job' = "none"
  /\ hand' = None /\ token' = None /\ book' = None /\ left' = {} /\ micro' = FALSE
  /\ db' = None /\ active' = {} /\ held' = {}
  /\ UNCHANGED <<live, aside, phase, listed, data, vaults, shelf, cleanup, buried,
                 faults, calm, entangled>>

Start ==
  /\ pc = "down" /\ pc' = "idle" /\ calm' = TRUE
  /\ UNCHANGED <<job, hand, book, token, left, micro, db, files, data, folders,
                 crashes, faults, entangled>>

-----------------------------------------------------------------------------
Init ==
  /\ pc = "down" /\ job = "none" /\ hand = None /\ book = None /\ token = None
  /\ left = {} /\ micro = FALSE /\ db = None
  /\ aside = [t \in Tokens |-> [a \in Artifacts |-> None]]
  /\ phase = [t \in Tokens |-> "none"] /\ listed = [t \in Tokens |-> {}]
  /\ active = {}
  /\ \E g \in Libraries, old \in SUBSET Artifacts :
       /\ old = {} \/ Main \in old
       /\ live = [a \in Artifacts |-> IF a \in old THEN g ELSE None]
       /\ \E bs \in SUBSET Books :
            /\ (old = {} => bs = {})
            /\ rows = [h \in Libraries |-> IF h = g THEN bs ELSE {}]
            /\ vaults \in {NoRoot} \cup SUBSET bs
       /\ broken \in {{}, {g}}
  /\ shelf = [c \in Cleanups |-> NoRoot]
  /\ cleanup = [c \in Cleanups |-> None] /\ held = {} /\ buried = FALSE
  /\ crashes = 0 /\ faults = 0 /\ calm = TRUE /\ entangled = FALSE

\* The calls of a request under way.
Works ==
  \/ \E t \in Tokens : Reconciles(t)
  \/ Opens \/ OpenFails
  \/ Reads \/ CreatesBook
  \/ ShelvesRoot \/ ShelvesFolder \/ Shelves \/ Unshelves \/ Drops
  \/ Empties \/ DeletesRow
  \/ Lists \/ Moves \/ Unmoves \/ Commits \/ Undoes \/ DiscardsOld
  \/ BeginSweep \/ (\E c \in Cleanups : Sweeps(c)) \/ EndSweep

Requests ==
  \/ \E j \in {"read", "create", "clear"} : Asks(j)
  \/ \E b \in Books : AsksToDelete(b)
  \/ AsksForReset
  \/ \E b \in Books : MakesFolder(b)

Next == Works \/ Requests \/ Crash \/ Start

Spec == Init /\ [][Next]_vars

\* A request runs to its end, the app is started again, and it opens the
\* library it finds closed.
Fairness == WF_vars(Works) /\ WF_vars(Start) /\ WF_vars(Asks("read"))

FairSpec == Spec /\ Fairness

-----------------------------------------------------------------------------
(* Properties. *)

\* Every variable keeps its type.
TypeOK ==
  /\ pc \in {"down", "idle", "reconcile", "work", "shelve", "unshelve", "drop",
             "empty", "row", "list", "move", "unmove", "commit", "undo",
             "discard", "micro", "sweep"}
  /\ job \in {"none", "read", "create", "clear", "delete", "reset", "sweep"}
  /\ hand \in Cleanups \cup {None} /\ book \in Books \cup {None}
  /\ token \in Tokens \cup {None}
  /\ left \in SUBSET (Tokens \cup Cleanups) /\ micro \in BOOLEAN
  /\ db \in Libraries \cup {None}
  /\ live \in [Artifacts -> Libraries \cup {None}]
  /\ aside \in [Tokens -> [Artifacts -> Libraries \cup {None}]]
  /\ phase \in [Tokens -> {"none", "prepared", "committed"}]
  /\ listed \in [Tokens -> SUBSET Artifacts] /\ active \in SUBSET Tokens
  /\ rows \in [Libraries -> SUBSET Books] /\ broken \in SUBSET Libraries
  /\ vaults \in Roots /\ shelf \in [Cleanups -> Roots]
  /\ cleanup \in [Cleanups -> {None, "root"} \cup Books]
  /\ held \in SUBSET Cleanups /\ buried \in BOOLEAN
  /\ crashes \in 0..MaxCrashes /\ faults \in 0..MaxFaults
  /\ calm \in BOOLEAN /\ entangled \in BOOLEAN

\* The library that a start of the server would open: the one a prepared
\* reset moved aside, else the one in place.
Current ==
  IF \E t \in Tokens : phase[t] = "prepared" /\ aside[t][Main] # None
  THEN LET t == CHOOSE t \in Tokens : phase[t] = "prepared" /\ aside[t][Main] # None
       IN aside[t][Main]
  ELSE live[Main]

Kept == IF Current = None THEN {} ELSE rows[Current]

\* The request the author is still to be served: until the row, the rows or
\* the intent is committed, or the request is being undone.
Asked ==
  IF job = "create" THEN "add"
  ELSE IF job = "delete" /\ pc \in {"work", "shelve", "row"} THEN book
  ELSE IF /\ job \in {"clear", "reset"}
          /\ pc \in {"reconcile", "work", "shelve", "empty", "list", "move", "commit"}
       THEN "empty"
  ELSE None

Shelf == INSTANCE LibraryShelf WITH books <- Kept, asked <- Asked

\* Until resets are entangled the author's books change only as LibraryShelf says, through every crash,
\* failed call, rollback and recovery: "Prepared resets preserve the old
\* library; committed resets preserve the new one."
KeepsShelf == Shelf!Init /\ [][~entangled' => [Shelf!Next]_<<Kept, Asked>>]_vars

\* A library the author works on is the one the next start opens, with no
\* file of another library beside it, unless resets are entangled.
OpenIsCurrent ==
  db # None /\ pc \in {"idle", "work", "micro", "sweep"} /\ ~entangled =>
    /\ db = Current
    /\ \A a \in Sidecars : live[a] \in {None, db}

\* Until a reset commits, every file of the old library is in its place or in
\* the one its intent names, so that the next start can put it back.
PreparedKeepsOld ==
  ~entangled =>
    \A t \in Tokens : phase[t] = "prepared" =>
      \E g \in Libraries : \A a \in listed[t] : g \in {live[a], aside[t][a]}

\* A folder of b, at its path or in a quarantine whose intent is on the disk.
HasFolder(b) ==
  \E r \in {vaults} \cup {shelf[c] : c \in {d \in Cleanups : cleanup[d] # None}} :
    r # NoRoot /\ (b \in r \/ \E c \in Cleanups : cleanup[c] = b /\ c \in r)

\* No cleanup removes or orphans the folder of a book that is kept.
KeptFolders ==
  [][~entangled /\ ~buried' => \A b \in Kept \cap Kept' : HasFolder(b) => HasFolder(b)']_vars

\* When the reconciliation of a start ends and no call failed since, nothing
\* of an interrupted reset is left, a vaults/ directory is in quarantine only
\* if its path was taken, and every folder in quarantine still has its intent.
StartTidies ==
  pc = "sweep" /\ left = {} /\ calm /\ ~entangled /\ ~buried =>
    /\ \A t \in Tokens : phase[t] = "none" /\ \A a \in Artifacts : aside[t][a] = None
    /\ \A c \in Cleanups :
         /\ shelf[c] # NoRoot => cleanup[c] = "root" /\ vaults # NoRoot
         /\ vaults # NoRoot /\ c \in vaults => cleanup[c] \in Books

\* An interrupted reset is rolled back or finished, and the library opens
\* again if this build can open it.
Reopens ==
  [](pc = "down" => <>(\/ db # None
                       \/ live[Main] \in broken
                       \/ entangled))

\* "Permanently clears the local writing library": a reset that reports success
\* leaves a library without the author's books.
ResetClears ==
  [][pc = "discard" /\ token' = None /\ faults' = faults => Kept' = {}]_vars
=============================================================================
