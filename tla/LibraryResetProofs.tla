-------------------------- MODULE LibraryResetProofs --------------------------
(* Proofs about LibraryReset, for any artifacts, libraries, intents, books   *)
(* and bounds.                                                               *)
(*                                                                           *)
(* The invariant follows a prepared intent.  Either the reset that wrote it  *)
(* still holds it (Owned), or it was left to the next getDb (Interrupted),   *)
(* which cannot open a library before it has put the files back.  There is   *)
(* never more than one, and each file its list names is either still in      *)
(* place or moved (OldWhole).  Without one, the live files are of a single   *)
(* library (Coherent).  With ShelfInv, that a library created since is empty *)
(* until a reset commits, the books kept are those LibraryShelf allows.      *)
(*                                                                           *)
(* The folders follow: every quarantine has its intent unless one was buried *)
(* in another (QuarantineInv), folders are removed of books without a row    *)
(* only (DropInv), and while no call has failed since the start, what is on  *)
(* the disk is what the request holds or what the start has yet to see       *)
(* (CalmIntents, CalmFolders).                                               *)
EXTENDS LibraryReset, TLAPS

Prepared(t) == phase[t] = "prepared"

OldWhole(t) ==
  /\ listed[t] = {} \/ Main \in listed[t]
  /\ \E g \in Libraries : \A a \in listed[t] :
       aside[t][a] = g \/ (aside[t][a] = None /\ live[a] = g)

Interrupted(t) ==
  /\ t \notin active /\ token = None /\ db = None
  /\ pc \in {"down", "idle", "reconcile", "undo", "unshelve"}
  /\ pc = "reconcile" => t \in left /\ job # "reset"
  /\ pc = "unshelve" => job = "reset"

AllMoved(t) == \A a \in listed[t] : aside[t][a] # None

Owned(t) ==
  /\ t \in active /\ token = t /\ job = "reset"
  /\ pc \in {"move", "unmove", "reconcile", "commit", "undo"}
  /\ pc \in {"move", "unmove"} => db = None /\ Stale(t) = {}
  /\ pc = "reconcile" => t \notin left /\ db = None /\ \A a \in Artifacts : live[a] = None
  /\ pc \in {"reconcile", "commit"} \/ db # None => AllMoved(t)

ControlInv ==
  /\ micro => db # None
  /\ pc \in {"commit", "discard"} => db # None
  /\ pc \in {"down", "list", "move", "unmove", "reconcile"} => db = None
  /\ job = "reset" /\ pc \in {"work", "shelve"} => db = None
  /\ pc \in {"list", "move", "unmove", "commit", "undo", "discard"} => job = "reset"
  /\ pc = "shelve" => job \in {"clear", "reset", "delete"}
  /\ pc \in {"down", "idle"} => job = "none"
  /\ job = "delete" => book \in Books
  /\ pc = "empty" => job = "clear"
  /\ pc = "row" => job = "delete"
  /\ pc \in {"move", "unmove", "commit", "discard"} => token # None
  /\ pc = "reconcile" /\ job = "reset" => token # None
  /\ token # None => pc \in {"move", "unmove", "reconcile", "commit", "undo",
                             "discard", "drop"}
  /\ token # None => job = "reset"
  /\ left \cap Tokens # {} => pc = "reconcile"

HandInv ==
  /\ pc \in {"shelve", "unshelve", "drop"} => hand # None
  /\ pc \in {"micro", "sweep"} => hand = None
  /\ hand # None => cleanup[hand] # None
  /\ pc = "shelve" => vaults # NoRoot /\ (cleanup[hand] = "root" \/ cleanup[hand] \in vaults)
  /\ \A c \in left \cap Cleanups : cleanup[c] # None /\ c # hand /\ job = "sweep"

Unprepared == \A t \in Tokens : ~Prepared(t)

Coherent == \A a \in Artifacts : live[a] \in {None, live[Main]}

FilesInv ==
  /\ token # None /\ pc \in {"move", "unmove", "reconcile", "commit", "undo"} =>
       Prepared(token)
  /\ pc = "discard" => phase[token] = "committed"
  /\ \A t, u \in Tokens : Prepared(t) /\ Prepared(u) => t = u
  /\ \A t \in Tokens : Prepared(t) => OldWhole(t) /\ (Interrupted(t) \/ Owned(t))
  /\ Unprepared => Coherent
  /\ db # None => live[Main] = db /\ Coherent

-----------------------------------------------------------------------------
(* Types. *)

ServerType ==
  /\ pc \in {"down", "idle", "reconcile", "work", "shelve", "unshelve", "drop",
             "empty", "row", "list", "move", "unmove", "commit", "undo",
             "discard", "micro", "sweep"}
  /\ job \in {"none", "read", "create", "clear", "delete", "reset", "sweep"}
  /\ hand \in Cleanups \cup {None} /\ book \in Books \cup {None}
  /\ token \in Tokens \cup {None}
  /\ left \in SUBSET (Tokens \cup Cleanups) /\ micro \in BOOLEAN

FilesType ==
  /\ live \in [Artifacts -> Libraries \cup {None}]
  /\ aside \in [Tokens -> [Artifacts -> Libraries \cup {None}]]
  /\ phase \in [Tokens -> {"none", "prepared", "committed"}]
  /\ listed \in [Tokens -> SUBSET Artifacts] /\ active \in SUBSET Tokens

DataType == rows \in [Libraries -> SUBSET Books] /\ broken \in SUBSET Libraries

FoldersType ==
  /\ vaults \in Roots /\ shelf \in [Cleanups -> Roots]
  /\ cleanup \in [Cleanups -> {None, "root"} \cup Books]
  /\ held \in SUBSET Cleanups /\ buried \in BOOLEAN

GhostsType ==
  /\ crashes \in 0..MaxCrashes /\ faults \in 0..MaxFaults
  /\ calm \in BOOLEAN /\ entangled \in BOOLEAN

DbType == db \in Libraries \cup {None}

\* The type invariant, by groups of variables.
LEMMA TypeParts ==
  /\ TypeOK => /\ ServerType /\ FilesType /\ DataType /\ FoldersType /\ GhostsType
               /\ DbType
  /\ ServerType' /\ FilesType' /\ DataType' /\ FoldersType' /\ GhostsType' /\ DbType'
       => TypeOK'
  BY DEF TypeOK, ServerType, FilesType, DataType, FoldersType, GhostsType, DbType

\* What is left unchanged keeps its type.
LEMMA SameServer == ServerType /\ UNCHANGED server => ServerType'
  BY DEF ServerType, server

LEMMA SameFiles == FilesType /\ UNCHANGED files => FilesType'
  BY DEF FilesType, files

LEMMA SameData == DataType /\ UNCHANGED data => DataType'
  BY DEF DataType, data

LEMMA SameFolders == FoldersType /\ UNCHANGED folders => FoldersType'
  BY DEF FoldersType, folders

\* The ghosts count at most the bounded failures.
LEMMA Ghosts ==
  ASSUME GhostsType, NoFault \/ (Fault /\ entangled' \in BOOLEAN)
  PROVE  GhostsType'
<1> USE BoundsAssumption
<1>1. CASE NoFault
  BY <1>1 DEF NoFault, ghosts, GhostsType
<1>2. CASE Fault /\ entangled' \in BOOLEAN
  <2>1. crashes' \in 0..MaxCrashes /\ faults' \in 0..MaxFaults
    BY <1>2 DEF Fault, GhostsType
  <2>2. calm' \in BOOLEAN
    BY <1>2 DEF Fault
  <2> QED BY <1>2, <2>1, <2>2 DEF GhostsType
<1> QED BY <1>1, <1>2

\* Where a request ends or goes on.
LEMMA Ends == ServerType /\ Finish => ServerType'
  BY DEF Finish, ServerType

LEMMA Goes ==
  ASSUME ServerType, NEW where, GoTo(where),
         where \in {"shelve", "unshelve", "drop", "empty", "row", "list", "discard", "undo"}
  PROVE  ServerType'
  BY DEF GoTo, ServerType

LEMMA ThenGoes ==
  ASSUME ServerType, NEW where, Then(where), where \in {"unshelve", "drop"}
  PROVE  ServerType'
  BY Ends, Goes DEF Then

LEMMA ShelvedType ==
  job \in {"clear", "reset", "delete"} => Shelved \in {"list", "empty", "row"}
  BY DEF Shelved

\* A fresh library, and a free intent, are libraries and intents.
LEMMA Chosen ==
  /\ FreshLibraries # {} => (CHOOSE g \in FreshLibraries : TRUE) \in FreshLibraries
  /\ FreeTokens # {} => (CHOOSE t \in FreeTokens : TRUE) \in FreeTokens
  /\ FreeCleanups # {} => (CHOOSE c \in FreeCleanups : TRUE) \in FreeCleanups
  /\ FreshLibraries \subseteq Libraries /\ FreeTokens \subseteq Tokens
  /\ FreeCleanups \subseteq Cleanups
  BY DEF FreshLibraries, FreeTokens, FreeCleanups

\* The calls on the SQLite files.
LEMMA FileCalls ==
  ASSUME FilesType, NEW t \in Tokens
  PROVE  /\ RemoveResetIntent(t) => FilesType'
         /\ PutsBack(t) /\ UNCHANGED <<phase, listed, active>> => FilesType'
         /\ Discards(t) /\ UNCHANGED <<phase, listed, active>> => FilesType'
<1>1. ASSUME RemoveResetIntent(t) PROVE FilesType'
  BY <1>1 DEF RemoveResetIntent, FilesType
<1>2. ASSUME NEW a \in Artifacts, NEW u \in Tokens, NEW v \in Libraries \cup {None},
             NEW w \in Libraries \cup {None}
      PROVE  /\ [live EXCEPT ![a] = v] \in [Artifacts -> Libraries \cup {None}]
             /\ [aside EXCEPT ![u][a] = w] \in [Tokens -> [Artifacts -> Libraries \cup {None}]]
  BY DEF FilesType
<1>3. ASSUME PutsBack(t), UNCHANGED <<phase, listed, active>> PROVE FilesType'
  <2>1. CASE \E a \in Stale(t) : live' = [live EXCEPT ![a] = None] /\ UNCHANGED aside
    BY <1>2, <1>3, <2>1 DEF Stale, FilesType
  <2>2. CASE \E a \in listed[t] : /\ live' = [live EXCEPT ![a] = aside[t][a]]
                                  /\ aside' = [aside EXCEPT ![t][a] = None]
    <3>1. PICK a \in listed[t] : /\ live' = [live EXCEPT ![a] = aside[t][a]]
                                 /\ aside' = [aside EXCEPT ![t][a] = None]
      BY <2>2
    <3>2. a \in Artifacts /\ aside[t][a] \in Libraries \cup {None}
      BY DEF FilesType
    <3>3. /\ live' \in [Artifacts -> Libraries \cup {None}]
          /\ aside' \in [Tokens -> [Artifacts -> Libraries \cup {None}]]
      BY <1>2, <3>1, <3>2
    <3> QED BY <1>3, <3>3 DEF FilesType
  <2> QED BY <1>3, <2>1, <2>2 DEF PutsBack
<1>4. ASSUME Discards(t), UNCHANGED <<phase, listed, active>> PROVE FilesType'
  <2>1. PICK a \in listed[t] : aside' = [aside EXCEPT ![t][a] = None] /\ UNCHANGED live
    BY <1>4 DEF Discards
  <2>2. a \in Artifacts
    BY DEF FilesType
  <2>3. aside' \in [Tokens -> [Artifacts -> Libraries \cup {None}]]
    BY <1>2, <2>1, <2>2
  <2> QED BY <1>4, <2>1, <2>3 DEF FilesType
<1> QED BY <1>1, <1>3, <1>4

LEMMA CreatesType ==
  ASSUME FilesType, DataType, NEW g \in Libraries, Creates(g)
  PROVE  FilesType' /\ DataType'
<1>1. PICK new \in SUBSET Sidecars :
        live' = [a \in Artifacts |-> IF a = Main \/ a \in new THEN g ELSE live[a]]
  BY DEF Creates
<1>2. live' \in [Artifacts -> Libraries \cup {None}]
  BY <1>1 DEF FilesType
<1>3. rows' = [rows EXCEPT ![g] = {}] /\ rows' \in [Libraries -> SUBSET Books]
  BY DEF Creates, DataType
<1> QED BY <1>2, <1>3 DEF Creates, FilesType, DataType

LEMMA ClosesType == FilesType /\ Closes => FilesType' /\ DbType'
<1> SUFFICES ASSUME FilesType, Closes PROVE FilesType' /\ DbType'
  OBVIOUS
<1>1. CASE UNCHANGED files
  BY <1>1, SameFiles DEF Closes, DbType
<1>2. CASE ~UNCHANGED files
  <2>1. PICK gone \in SUBSET Sidecars :
          live' = [a \in Artifacts |-> IF a \in gone THEN None ELSE live[a]]
    BY <1>2 DEF Closes
  <2>2. live' \in [Artifacts -> Libraries \cup {None}]
    BY <2>1 DEF FilesType
  <2> QED BY <1>2, <2>2 DEF Closes, FilesType, DbType
<1> QED BY <1>1, <1>2

\* The calls on the folders.
LEMMA CleanupCalls ==
  ASSUME FoldersType, NEW c \in Cleanups
  PROVE  /\ RemoveCleanupIntent(c) /\ UNCHANGED <<vaults, shelf, buried>> => FoldersType'
         /\ \A r \in Roots : [shelf EXCEPT ![c] = r] \in [Cleanups -> Roots]
         /\ \A what \in {None, "root"} \cup Books :
              [cleanup EXCEPT ![c] = what] \in [Cleanups -> {None, "root"} \cup Books]
         /\ NoRoot \in Roots
         /\ \A r \in Roots, add \in SUBSET (Books \cup Cleanups) : \A out :
              r # NoRoot => (r \ out) \cup add \in Roots
<1>1. \A what \in {None, "root"} \cup Books :
        [cleanup EXCEPT ![c] = what] \in [Cleanups -> {None, "root"} \cup Books]
  BY DEF FoldersType
<1>2. \A r \in Roots : [shelf EXCEPT ![c] = r] \in [Cleanups -> Roots]
  BY DEF FoldersType
<1>3. ASSUME NEW r \in Roots, NEW add \in SUBSET (Books \cup Cleanups), NEW out, r # NoRoot
      PROVE  (r \ out) \cup add \in Roots
  <2>1. r \in SUBSET (Books \cup Cleanups)
    BY <1>3 DEF Roots
  <2>2. (r \ out) \cup add \in SUBSET (Books \cup Cleanups)
    BY <2>1
  <2> QED BY <2>2 DEF Roots
<1>4. NoRoot \in Roots
  BY DEF Roots
<1>5. RemoveCleanupIntent(c) /\ UNCHANGED <<vaults, shelf, buried>> => FoldersType'
  BY <1>1 DEF FoldersType, RemoveCleanupIntent
<1> QED BY <1>1, <1>2, <1>3, <1>4, <1>5

LEMMA MovesAside ==
  ASSUME FoldersType, hand \in Cleanups, vaults # NoRoot, MoveAside
  PROVE  vaults' \in Roots /\ shelf' \in [Cleanups -> Roots] /\ buried' \in BOOLEAN
<1>1. CASE cleanup[hand] = "root"
  BY <1>1, CleanupCalls DEF MoveAside, FoldersType
<1>2. CASE cleanup[hand] # "root"
  <2>1. vaults' = (vaults \ {cleanup[hand]}) \cup {hand} /\ shelf' = shelf
    BY <1>2 DEF MoveAside
  <2>2. {hand} \in SUBSET (Books \cup Cleanups) /\ vaults \in Roots
    BY DEF FoldersType
  <2>3. buried' = buried
    BY <1>2 DEF MoveAside
  <2> QED BY <2>1, <2>2, <2>3, CleanupCalls DEF FoldersType
<1> QED BY <1>1, <1>2

\* A start's rollbacks and the opening of the library keep the types.
LEMMA OpenTypes ==
  ASSUME TypeOK, (\E t \in Tokens : Reconciles(t)) \/ Opens \/ OpenFails
  PROVE  TypeOK'
<1>0. ServerType /\ FilesType /\ DataType /\ FoldersType /\ GhostsType /\ DbType
  BY TypeParts
<1>1. ASSUME NEW t \in Tokens, Reconciles(t)
      PROVE  TypeOK'
  <2>1. ServerType'
    BY <1>0, <1>1 DEF Reconciles, ServerType
  <2>2. GhostsType'
    BY <1>0, <1>1, Ghosts DEF Reconciles, GhostsType
  <2>3. FilesType'
    BY <1>0, <1>1, FileCalls, SameFiles DEF Reconciles
  <2>4. DataType' /\ FoldersType' /\ DbType'
    BY <1>0, <1>1, SameData, SameFolders DEF Reconciles, DbType
  <2> QED BY <2>1, <2>2, <2>3, <2>4, TypeParts
<1>2. ASSUME Opens
      PROVE  TypeOK'
  <2>1. ServerType'
    BY <1>0, <1>2 DEF Opens, Opened, ServerType
  <2>2. GhostsType' /\ FoldersType'
    BY <1>0, <1>2, Ghosts, SameFolders DEF Opens
  <2>3. CASE /\ live[Main] # None
             /\ db' = live[Main]
             /\ \E new \in SUBSET Sidecars :
                  live' = [a \in Artifacts |-> IF a \in new THEN db' ELSE live[a]]
             /\ UNCHANGED <<aside, phase, listed, active, data>>
    <3>1. live[Main] \in Libraries
      BY <1>0, <2>3 DEF FilesType, Artifacts
    <3>2. live' \in [Artifacts -> Libraries \cup {None}]
      BY <1>0, <2>3, <3>1 DEF FilesType
    <3> QED BY <1>0, <2>1, <2>2, <2>3, <3>1, <3>2, TypeParts, SameData DEF FilesType, DbType
  <2>4. CASE FreshLibraries # {} /\ db' = (CHOOSE g \in FreshLibraries : TRUE) /\ Creates(db')
    <3>1. db' \in Libraries
      BY <2>4, Chosen
    <3>2. FilesType' /\ DataType'
      BY <1>0, <2>4, <3>1, CreatesType
    <3> QED BY <2>1, <2>2, <3>1, <3>2, TypeParts DEF DbType
  <2> QED BY <1>2, <2>3, <2>4 DEF Opens
<1>3. ASSUME OpenFails
      PROVE  TypeOK'
  <2>1. ServerType'
    BY <1>0, <1>3 DEF OpenFails, ServerType
  <2>2. GhostsType' /\ FoldersType' /\ DbType'
    BY <1>0, <1>3, Ghosts, SameFolders DEF OpenFails, DbType, GhostsType
  <2>3. \/ UNCHANGED <<files, data>>
        \/ FreshLibraries # {} /\ Creates(CHOOSE g \in FreshLibraries : TRUE)
    BY <1>3 DEF OpenFails
  <2>4. FilesType' /\ DataType'
    BY <1>0, <2>3, Chosen, CreatesType, SameFiles, SameData
  <2> QED BY <2>1, <2>2, <2>4, TypeParts
<1> QED BY <1>1, <1>2, <1>3

\* The calls of a reset keep them.
LEMMA ResetTypes ==
  ASSUME TypeOK, ControlInv, Lists \/ Moves \/ Unmoves \/ Commits \/ Undoes \/ DiscardsOld
  PROVE  TypeOK'
<1>0. ServerType /\ FilesType /\ DataType /\ FoldersType /\ GhostsType /\ DbType
  BY TypeParts
<1>a. token # None => token \in Tokens
  BY <1>0 DEF ServerType
<1>b. ASSUME NEW t \in Tokens, NEW a \in Artifacts, NEW v \in Libraries \cup {None},
             NEW w \in Libraries \cup {None}
      PROVE  /\ [live EXCEPT ![a] = v] \in [Artifacts -> Libraries \cup {None}]
             /\ [aside EXCEPT ![t][a] = w] \in [Tokens -> [Artifacts -> Libraries \cup {None}]]
  BY <1>0 DEF FilesType
<1>c. DataType' /\ FoldersType'
  BY <1>0, SameData, SameFolders DEF Lists, Moves, Unmoves, Commits, Undoes, DiscardsOld
<1>d. GhostsType'
  BY <1>0, Ghosts DEF Lists, Moves, Unmoves, Commits, Undoes, DiscardsOld, GhostsType
<1>1. ASSUME Lists
      PROVE  TypeOK'
  <2>1. CASE /\ FreeTokens # {}
             /\ token' = (CHOOSE t \in FreeTokens : TRUE)
             /\ phase' = [phase EXCEPT ![token'] = "prepared"]
             /\ listed' = [listed EXCEPT ![token'] = {a \in Artifacts : live[a] # None}]
             /\ active' = active \cup {token'}
             /\ pc' = "move"
    <3>1. token' \in Tokens
      BY <2>1, Chosen
    <3>2. ServerType'
      BY <1>0, <1>1, <2>1, <3>1 DEF Lists, ServerType
    <3>3. FilesType'
      BY <1>0, <1>1, <2>1, <3>1 DEF Lists, FilesType
    <3> QED BY <1>0, <1>1, <1>c, <1>d, <3>2, <3>3, TypeParts DEF Lists, DbType
  <2>2. CASE pc' = "undo" /\ UNCHANGED <<token, phase, listed, active>>
    BY <1>0, <1>1, <1>c, <1>d, <2>2, TypeParts DEF Lists, ServerType, FilesType, DbType
  <2> QED BY <1>1, <2>1, <2>2 DEF Lists
<1>2. ASSUME Moves
      PROVE  TypeOK'
  <2>1. token \in Tokens
    BY <1>2, <1>a DEF Moves, ControlInv
  <2>2. ServerType'
    BY <1>0, <1>2 DEF Moves, BeginOpen, ServerType
  <2>3. CASE \E a \in listed[token] :
               /\ aside' = [aside EXCEPT ![token][a] = live[a]]
               /\ live' = [live EXCEPT ![a] = None]
    <3>1. PICK a \in listed[token] :
               /\ aside' = [aside EXCEPT ![token][a] = live[a]]
               /\ live' = [live EXCEPT ![a] = None]
      BY <2>3
    <3>2. a \in Artifacts /\ live[a] \in Libraries \cup {None}
      BY <1>0, <2>1 DEF FilesType
    <3>3. /\ live' \in [Artifacts -> Libraries \cup {None}]
          /\ aside' \in [Tokens -> [Artifacts -> Libraries \cup {None}]]
      BY <1>b, <2>1, <3>1, <3>2
    <3> QED BY <1>0, <1>2, <3>3 , <2>2, <1>c, <1>d, TypeParts DEF Moves, FilesType, DbType
  <2>4. CASE UNCHANGED <<live, aside>>
    BY <1>0, <1>2, <2>4 , <2>2, <1>c, <1>d, TypeParts DEF Moves, FilesType, DbType
  <2> QED BY <1>2, <2>3, <2>4 DEF Moves
<1>3. ASSUME Unmoves
      PROVE  TypeOK'
  <2>1. token \in Tokens
    BY <1>3, <1>a DEF Unmoves, ControlInv
  <2>2. ServerType' /\ DbType'
    BY <1>0, <1>3 DEF Unmoves, ServerType, DbType
  <2>3. CASE \E a \in listed[token] :
               /\ live' = [live EXCEPT ![a] = aside[token][a]]
               /\ aside' = [aside EXCEPT ![token][a] = None]
             /\ UNCHANGED <<phase, listed, active>>
    <3>1. PICK a \in listed[token] :
               /\ live' = [live EXCEPT ![a] = aside[token][a]]
               /\ aside' = [aside EXCEPT ![token][a] = None]
               /\ UNCHANGED <<phase, listed, active>>
      BY <2>3
    <3>2. a \in Artifacts /\ aside[token][a] \in Libraries \cup {None}
      BY <1>0, <2>1 DEF FilesType
    <3>3. /\ live' \in [Artifacts -> Libraries \cup {None}]
          /\ aside' \in [Tokens -> [Artifacts -> Libraries \cup {None}]]
      BY <1>b, <2>1, <3>1, <3>2
    <3> QED BY <1>0, <1>c, <1>d, <2>2, <3>1, <3>3, TypeParts DEF FilesType
  <2>4. CASE RemoveResetIntent(token)
    BY <1>0, <1>c, <1>d, <2>1, <2>2, <2>4, FileCalls, TypeParts
  <2>5. CASE UNCHANGED <<live, aside, phase, listed>> /\ active' \subseteq active
    BY <1>0, <1>c, <1>d, <2>2, <2>5, TypeParts DEF FilesType
  <2> QED BY <1>3, <2>3, <2>4, <2>5 DEF Unmoves
<1>4. ASSUME Commits
      PROVE  TypeOK'
  <2>1. ServerType' /\ DbType'
    BY <1>0, <1>4, Goes DEF Commits, DbType
  <2>2. FilesType'
    BY <1>0, <1>4 DEF Commits, FilesType
  <2> QED BY <1>c, <1>d, <2>1, <2>2, TypeParts
<1>5. ASSUME Undoes
      PROVE  TypeOK'
  <2>1. CASE Closes /\ UNCHANGED <<pc, job, hand, book, token, left>>
    <3>1. ServerType'
      BY <1>0, <2>1 DEF Closes, ServerType
    <3> QED BY <1>0, <1>c, <1>d, <2>1, <3>1, ClosesType, TypeParts
  <2>2. CASE /\ token # None /\ UNCHANGED db
             /\ \/ PutsBack(token) /\ UNCHANGED <<server, phase, listed, active>>
                \/ /\ RemoveResetIntent(token)
                   /\ token' = None /\ UNCHANGED <<pc, job, hand, book, left, micro>>
    <3>1. ServerType' /\ DbType'
      BY <1>0, <2>2 DEF ServerType, server, DbType
    <3>2. FilesType'
      BY <1>0, <1>a, <2>2, FileCalls
    <3> QED BY <1>c, <1>d, <3>1, <3>2, TypeParts
  <2>3. CASE UNCHANGED <<db, files>> /\ Then("unshelve")
    BY <1>0, <1>c, <1>d, <2>3, ThenGoes, SameFiles, TypeParts DEF DbType
  <2>4. CASE /\ Finish /\ UNCHANGED <<db, live, aside, phase, listed>>
             /\ active' \subseteq active
    BY <1>0, <1>c, <1>d, <2>4, Ends, TypeParts DEF FilesType, DbType
  <2> QED BY <1>5, <2>1, <2>2, <2>3, <2>4 DEF Undoes
<1>6. ASSUME DiscardsOld
      PROVE  TypeOK'
  <2>1. token \in Tokens /\ DbType'
    BY <1>0, <1>6, <1>a DEF DiscardsOld, ControlInv, DbType
  <2>2. CASE Discards(token) /\ UNCHANGED <<server, phase, listed, active>>
    <3>1. ServerType'
      BY <1>0, <2>2, SameServer
    <3> QED BY <1>0, <1>c, <1>d, <2>1, <2>2, <3>1, FileCalls, TypeParts
  <2>3. CASE RemoveResetIntent(token) /\ Then("drop")
    BY <1>0, <1>c, <1>d, <2>1, <2>3, ThenGoes, FileCalls, TypeParts
  <2>4. CASE /\ Finish /\ UNCHANGED <<live, aside, phase, listed>>
             /\ active' \subseteq active
    BY <1>0, <1>c, <1>d, <2>1, <2>4, Ends, TypeParts DEF FilesType
  <2> QED BY <1>6, <2>2, <2>3, <2>4 DEF DiscardsOld
<1> QED BY <1>1, <1>2, <1>3, <1>4, <1>5, <1>6

\* The calls on the Vault folders keep them.
LEMMA FolderTypes ==
  ASSUME TypeOK, ControlInv, HandInv,
         ShelvesRoot \/ ShelvesFolder \/ Shelves \/ Unshelves \/ Drops
  PROVE  TypeOK'
<1>0. ServerType /\ FilesType /\ DataType /\ FoldersType /\ GhostsType /\ DbType
  BY TypeParts
<1>a. FilesType' /\ DataType' /\ DbType'
  BY <1>0, SameData, SameFiles
     DEF ShelvesRoot, ShelvesFolder, Shelves, Unshelves, Drops, DbType
<1>b. hand # None => hand \in Cleanups
  BY <1>0 DEF ServerType
<1>1. ASSUME NEW what \in {"root"} \cup Books, Shelve(what), pc = "work", job \in {"clear", "reset", "delete"}
      PROVE  TypeOK'
  <2> DEFINE c == CHOOSE c \in FreeCleanups : TRUE
  <2>1. CASE pc' = Shelved /\ hand' = None /\ UNCHANGED <<job, book, token, left, micro, folders>>
             /\ NoFault
    <3>1. ServerType'
      BY <1>0, <1>1, <2>1, ShelvedType DEF ServerType
    <3> QED BY <1>0, <1>a, <2>1, <3>1, Ghosts, SameFolders, TypeParts
  <2>2. CASE /\ FreeCleanups # {}
             /\ cleanup' = [cleanup EXCEPT ![c] = what] /\ held' = held \cup {c}
             /\ pc' = "shelve" /\ hand' = c
             /\ UNCHANGED <<job, book, token, left, micro, vaults, shelf, buried>> /\ NoFault
    <3>1. c \in Cleanups
      BY <2>2, Chosen
    <3> HIDE DEF c
    <3>2. ServerType'
      BY <1>0, <2>2, <3>1 DEF ServerType
    <3>3. FoldersType'
      BY <1>0, <2>2, <3>1, CleanupCalls DEF FoldersType
    <3> QED BY <1>0, <1>a, <2>2, <3>2, <3>3, Ghosts, TypeParts
  <2>3. CASE Fault /\ Finish /\ UNCHANGED <<folders, entangled>>
    <3>1. entangled' \in BOOLEAN
      BY <1>0, <2>3 DEF GhostsType
    <3> QED BY <1>0, <1>a, <2>3, <3>1, Ends, Ghosts, SameFolders, TypeParts
  <2> QED BY <1>1, <2>1, <2>2, <2>3 DEF Shelve
<1>2. CASE ShelvesRoot
  BY <1>1, <1>2 DEF ShelvesRoot
<1>3. CASE ShelvesFolder
  <2>1. book \in Books
    BY <1>3 DEF ShelvesFolder, ControlInv
  <2> QED BY <1>1, <1>3, <2>1 DEF ShelvesFolder
<1>4. CASE Shelves
  <2>1. hand \in Cleanups /\ vaults # NoRoot /\ job \in {"clear", "reset", "delete"}
    BY <1>4, <1>b DEF Shelves, HandInv, ControlInv
  <2>2. MoveAside => vaults' \in Roots /\ shelf' \in [Cleanups -> Roots] /\ buried' \in BOOLEAN
    BY <1>0, <2>1, MovesAside
  <2>3. CASE MoveAside /\ GoTo(Shelved) /\ UNCHANGED <<cleanup, held>> /\ NoFault
    <3>1. ServerType'
      BY <1>0, <2>1, <2>3, ShelvedType, Goes
    <3>2. FoldersType'
      BY <1>0, <2>2, <2>3 DEF FoldersType
    <3> QED BY <1>0, <1>a, <2>3, <3>1, <3>2, Ghosts, TypeParts
  <2>4. CASE /\ Fault /\ UNCHANGED entangled
             /\ \/ RemoveCleanupIntent(hand) /\ UNCHANGED <<vaults, shelf, buried>>
                \/ MoveAside /\ held' = held \ {hand} /\ UNCHANGED cleanup
             /\ Finish
    <3>1. FoldersType'
      BY <1>0, <2>1, <2>2, <2>4, CleanupCalls DEF FoldersType
    <3>2. entangled' \in BOOLEAN
      BY <1>0, <2>4 DEF GhostsType
    <3> QED BY <1>0, <1>a, <2>4, <3>1, <3>2, Ends, Ghosts, TypeParts
  <2> QED BY <1>4, <2>3, <2>4 DEF Shelves
<1>5. ASSUME NothingAside \/ CallFails, hand \in Cleanups
      PROVE  TypeOK'
  <2>1. CASE NothingAside
    <3>1. FoldersType'
      BY <1>0, <1>5, <2>1, CleanupCalls, SameFolders DEF NothingAside, folders
    <3>2. ServerType' /\ GhostsType'
      BY <1>0, <2>1, Ends, Ghosts DEF NothingAside
    <3> QED BY <1>a, <3>1, <3>2, TypeParts
  <2>2. CASE CallFails
    <3>1. FoldersType'
      BY <1>0, <2>2 DEF CallFails, FoldersType
    <3>2. entangled' \in BOOLEAN
      BY <1>0, <2>2 DEF CallFails, GhostsType
    <3>3. ServerType' /\ GhostsType'
      BY <1>0, <2>2, <3>2, Ends, Ghosts DEF CallFails
    <3> QED BY <1>a, <3>1, <3>3, TypeParts
  <2> QED BY <1>5, <2>1, <2>2
<1>6. ASSUME NoFault, UNCHANGED <<cleanup, held, buried, server>>, vaults' \in Roots,
             shelf' \in [Cleanups -> Roots]
      PROVE  TypeOK'
  <2>1. FoldersType'
    BY <1>0, <1>6 DEF FoldersType
  <2> QED BY <1>0, <1>6, <1>a, <2>1, SameServer, Ghosts, TypeParts
<1>7. CASE Unshelves
  <2>1. hand \in Cleanups /\ cleanup[hand] # None
    BY <1>7, <1>b DEF Unshelves, HandInv
  <2>2. CASE NothingAside \/ CallFails
    BY <1>5, <2>1, <2>2
  <2>3. CASE /\ Quarantined(hand) /\ UNCHANGED <<cleanup, held, buried, server>> /\ NoFault
             /\ IF cleanup[hand] = "root"
                THEN vaults' = shelf[hand] /\ shelf' = [shelf EXCEPT ![hand] = NoRoot]
                ELSE /\ vaults' = (vaults \ {hand}) \cup {cleanup[hand]}
                     /\ UNCHANGED shelf
    <3>1. CASE cleanup[hand] = "root"
      <4>1. vaults' \in Roots /\ shelf' \in [Cleanups -> Roots]
        BY <1>0, <2>1, <2>3, <3>1, CleanupCalls DEF FoldersType
      <4> QED BY <1>6, <2>3, <4>1
    <3>2. CASE cleanup[hand] # "root"
      <4>1. vaults # NoRoot /\ vaults \in Roots /\ {cleanup[hand]} \in SUBSET (Books \cup Cleanups)
        BY <1>0, <2>1, <2>3, <3>2 DEF Quarantined, FoldersType
      <4>2. vaults' \in Roots
        <5>1. vaults' = (vaults \ {hand}) \cup {cleanup[hand]}
          BY <2>3, <3>2
        <5> QED BY <1>0, <2>1, <4>1, <5>1, CleanupCalls
      <4>3. shelf' \in [Cleanups -> Roots]
        BY <1>0, <2>3, <3>2 DEF FoldersType
      <4> QED BY <1>6, <2>3, <4>2, <4>3
    <3> QED BY <3>1, <3>2
  <2>4. CASE Finish /\ UNCHANGED folders /\ NoFault
    BY <1>0, <1>a, <2>4, Ends, SameFolders, Ghosts, TypeParts
  <2> QED BY <1>7, <2>2, <2>3, <2>4 DEF Unshelves
<1>8. CASE Drops
  <2>1. hand \in Cleanups /\ cleanup[hand] # None
    BY <1>8, <1>b DEF Drops, HandInv
  <2>2. CASE NothingAside \/ CallFails
    BY <1>5, <2>1, <2>2
  <2>3. CASE /\ Quarantined(hand) /\ UNCHANGED <<cleanup, held, buried, server>> /\ NoFault
             /\ IF cleanup[hand] = "root"
                THEN shelf' = [shelf EXCEPT ![hand] = NoRoot] /\ UNCHANGED vaults
                ELSE vaults' = vaults \ {hand} /\ UNCHANGED shelf
    <3>1. CASE cleanup[hand] = "root"
      <4>1. vaults' \in Roots /\ shelf' \in [Cleanups -> Roots]
        BY <1>0, <2>1, <2>3, <3>1, CleanupCalls DEF FoldersType
      <4> QED BY <1>6, <2>3, <4>1
    <3>2. CASE cleanup[hand] # "root"
      <4>1. vaults # NoRoot /\ vaults \in Roots
        BY <1>0, <2>1, <2>3, <3>2 DEF Quarantined, FoldersType
      <4>2. vaults' \in Roots
        BY <2>3, <3>2, <4>1 DEF Roots
      <4>3. shelf' \in [Cleanups -> Roots]
        BY <1>0, <2>3, <3>2 DEF FoldersType
      <4> QED BY <1>6, <2>3, <4>2, <4>3
    <3> QED BY <3>1, <3>2
  <2>4. CASE /\ Quarantined(hand) /\ cleanup[hand] = "root"
             /\ \E rest \in SUBSET shelf[hand] : shelf' = [shelf EXCEPT ![hand] = rest]
             /\ Fault /\ Finish /\ UNCHANGED <<vaults, cleanup, held, buried, entangled>>
    <3>1. PICK rest \in SUBSET shelf[hand] : shelf' = [shelf EXCEPT ![hand] = rest]
      BY <2>4
    <3>2. shelf[hand] \in SUBSET (Books \cup Cleanups)
      BY <1>0, <2>1, <2>4 DEF Quarantined, FoldersType, Roots
    <3>3. rest \in Roots
      BY <3>2 DEF Roots
    <3>4. FoldersType'
      BY <1>0, <2>1, <2>4, <3>1, <3>3, CleanupCalls DEF FoldersType
    <3>5. entangled' \in BOOLEAN
      BY <1>0, <2>4 DEF GhostsType
    <3> QED BY <1>0, <1>a, <2>4, <3>4, <3>5, Ends, Ghosts, TypeParts
  <2> QED BY <1>8, <2>2, <2>3, <2>4 DEF Drops
<1> QED BY <1>2, <1>3, <1>4, <1>7, <1>8

\* Everything else keeps them.
LEMMA RequestTypes ==
  ASSUME TypeOK, ControlInv,
         \/ Reads \/ CreatesBook \/ Empties \/ DeletesRow
         \/ BeginSweep \/ (\E c \in Cleanups : Sweeps(c)) \/ EndSweep
         \/ Requests \/ Crash \/ Start
  PROVE  TypeOK'
<1>0. ServerType /\ FilesType /\ DataType /\ FoldersType /\ GhostsType /\ DbType
  BY TypeParts
<1>1. ASSUME GhostsType', ServerType', DataType', UNCHANGED <<db, files, folders>>
      PROVE  TypeOK'
  BY <1>0, <1>1, SameFiles, SameFolders, TypeParts DEF DbType
<1>2. CASE Reads
  <2>1. GhostsType' /\ ServerType' /\ DataType'
    BY <1>0, <1>2, Ends, Ghosts, SameData DEF Reads
  <2> QED BY <1>1, <1>2, <2>1 DEF Reads
<1>3. CASE CreatesBook
  <2>1. GhostsType' /\ ServerType'
    BY <1>0, <1>3, Ends, Ghosts DEF CreatesBook
  <2>2. PICK b \in NewBooks : rows' = [rows EXCEPT ![db] = @ \cup {b}]
    BY <1>3 DEF CreatesBook
  <2>3. b \in Books
    BY DEF NewBooks
  <2>4. rows' \in [Libraries -> SUBSET Books]
    BY <1>0, <2>2, <2>3 DEF DataType
  <2> QED BY <1>0, <1>1, <1>3, <2>1, <2>4 DEF CreatesBook, DataType
<1>4. CASE Empties \/ DeletesRow
  <2>1. ServerType'
    BY <1>0, <1>4, ThenGoes DEF Empties, DeletesRow
  <2>2. GhostsType'
    BY <1>0, <1>4, Ghosts DEF Empties, DeletesRow, GhostsType
  <2>3. UNCHANGED <<db, files, folders, broken>>
    BY <1>4 DEF Empties, DeletesRow
  <2>4. rows' = rows \/ (\E bs \in SUBSET Books : rows' = [rows EXCEPT ![db] = bs])
        \/ rows' = [rows EXCEPT ![db] = @ \ {book}]
    BY <1>4 DEF Empties, DeletesRow
  <2>5. rows' \in [Libraries -> SUBSET Books]
    BY <1>0, <2>4 DEF DataType
  <2> QED BY <1>0, <1>1, <2>1, <2>2, <2>3, <2>5 DEF DataType
<1>5. CASE BeginSweep \/ (\E c \in Cleanups : Sweeps(c)) \/ EndSweep
  <2>1. GhostsType' /\ DataType'
    BY <1>0, <1>5, Ghosts, SameData DEF BeginSweep, Sweeps, EndSweep
  <2>2. ServerType'
    BY <1>0, <1>5 DEF BeginSweep, Sweeps, EndSweep, ServerType
  <2> QED BY <1>1, <1>5, <2>1, <2>2 DEF BeginSweep, Sweeps, EndSweep
<1>6. ASSUME NEW j \in {"read", "create", "clear"}, Asks(j)
      PROVE  TypeOK'
  <2>1. GhostsType' /\ DataType'
    BY <1>0, <1>6, Ghosts, SameData DEF Asks
  <2>2. ServerType'
    BY <1>0, <1>6 DEF Asks, BeginOpen, ServerType
  <2> QED BY <1>1, <1>6, <2>1, <2>2 DEF Asks
<1>7. ASSUME NEW b \in Books, AsksToDelete(b)
      PROVE  TypeOK'
  <2>1. GhostsType' /\ DataType'
    BY <1>0, <1>7, Ghosts, SameData DEF AsksToDelete
  <2>2. ServerType'
    BY <1>0, <1>7 DEF AsksToDelete, ServerType
  <2> QED BY <1>1, <1>7, <2>1, <2>2 DEF AsksToDelete
<1>8. CASE AsksForReset
  <2>1. ServerType'
    BY <1>0, <1>8 DEF AsksForReset, Closes, ServerType
  <2>2. entangled' \in BOOLEAN
    BY <1>0, <1>8 DEF AsksForReset, GhostsType
  <2>3. GhostsType'
    BY <1>0, <1>8, <2>2 DEF AsksForReset, GhostsType
  <2> QED BY <1>0, <1>8, <2>1, <2>3, ClosesType, SameData, SameFolders, TypeParts DEF AsksForReset
<1>9. ASSUME NEW b \in Books, MakesFolder(b)
      PROVE  TypeOK'
  <2>1. vaults' \in Roots
    BY <1>0, <1>9 DEF MakesFolder, FoldersType, Roots
  <2>2. FoldersType'
    BY <1>0, <1>9, <2>1 DEF MakesFolder, FoldersType
  <2> QED BY <1>0, <1>9, <2>2, Ghosts, SameServer, SameFiles, SameData, TypeParts
          DEF MakesFolder, DbType
<1>10. CASE Crash
  <2>1. ServerType' /\ FilesType' /\ FoldersType'
    BY <1>0, <1>10 DEF Crash, ServerType, FilesType, FoldersType
  <2>2. crashes' \in 0..MaxCrashes
    BY <1>0, <1>10, BoundsAssumption DEF Crash, GhostsType
  <2>3. GhostsType'
    BY <1>0, <1>10, <2>2 DEF Crash, GhostsType
  <2> QED BY <1>0, <1>10, <2>1, <2>3, SameData, TypeParts DEF Crash, DbType
<1>11. CASE Start
  <2>1. ServerType' /\ GhostsType'
    BY <1>0, <1>11 DEF Start, ServerType, GhostsType
  <2> QED BY <1>0, <1>1, <1>11, <2>1, SameData DEF Start
<1> QED BY <1>2, <1>3, <1>4, <1>5, <1>6, <1>7, <1>8, <1>9, <1>10, <1>11 DEF Requests

-----------------------------------------------------------------------------
(* Control. *)

\* Where the server is, what it holds and whether the library is open agree.
LEMMA ControlStep ==
  ASSUME TypeOK, ControlInv, [Next]_vars
  PROVE  ControlInv'
<1> USE DEF ControlInv
<1>0. /\ pc \in {"down", "idle", "reconcile", "work", "shelve", "unshelve", "drop",
                 "empty", "row", "list", "move", "unmove", "commit", "undo",
                 "discard", "micro", "sweep"}
      /\ job \in {"none", "read", "create", "clear", "delete", "reset", "sweep"}
      /\ None \notin Libraries \cup Tokens \cup Books
      /\ left \subseteq Tokens \cup Cleanups
      /\ live \in [Artifacts -> Libraries \cup {None}]
      /\ Main \in Artifacts
      /\ micro \in BOOLEAN
      /\ Tokens \cap Cleanups = {}
  BY NamesAssumption DEF TypeOK, Artifacts
<1>1. CASE Reads
  BY <1>0, <1>1 DEF Reads, Finish, server
<1>2. CASE CreatesBook
  BY <1>0, <1>2 DEF CreatesBook, Finish, server
<1>3. CASE ShelvesRoot
  BY <1>0, <1>3 DEF ShelvesRoot, Shelve, Shelved, Finish, server
<1>4. CASE ShelvesFolder
  BY <1>0, <1>4 DEF ShelvesFolder, Shelve, Shelved, Finish, server
<1>5. CASE Shelves
  BY <1>0, <1>5 DEF Shelves, Shelved, GoTo, Finish, server
<1>6. CASE Unshelves
  BY <1>0, <1>6 DEF Unshelves, NothingAside, CallFails, Finish, server
<1>7. CASE Drops
  BY <1>0, <1>7 DEF Drops, NothingAside, CallFails, Finish, server
<1>8. CASE Empties
  BY <1>0, <1>8 DEF Empties, Then, GoTo, Finish, server
<1>9. CASE DeletesRow
  BY <1>0, <1>9 DEF DeletesRow, Then, GoTo, Finish, server
<1>10. CASE Opens
  BY <1>0, <1>10, Chosen DEF Opens, Opened, server
<1>11. CASE OpenFails
  BY <1>0, <1>11 DEF OpenFails, server
<1>12. CASE Moves
  BY <1>0, <1>12 DEF Moves, BeginOpen, server
<1>13. CASE Unmoves
  BY <1>0, <1>13 DEF Unmoves, server
<1>14. CASE Commits
  BY <1>0, <1>14 DEF Commits, GoTo, server
<1>15. CASE Undoes
  BY <1>0, <1>15 DEF Undoes, Closes, Then, GoTo, Finish, server
<1>16. CASE DiscardsOld
  BY <1>0, <1>16 DEF DiscardsOld, Then, GoTo, Finish, server
<1>17. CASE BeginSweep
  BY <1>0, <1>17 DEF BeginSweep, server
<1>18. CASE EndSweep
  BY <1>0, <1>18 DEF EndSweep, server
<1>19. CASE AsksForReset
  BY <1>0, <1>19 DEF AsksForReset, Closes, server
<1>20. CASE Crash
  <2>1. ~micro'
    BY <1>20 DEF Crash
  <2>2. pc' = "down" /\ job' = "none" /\ token' = None /\ left' = {} /\ db' = None
    BY <1>20 DEF Crash
  <2> QED BY <2>1, <2>2
<1>21. CASE Start
  BY <1>0, <1>21 DEF Start, server
<1>22. CASE Lists
  <2>1. /\ pc = "list" /\ UNCHANGED <<job, hand, book, left, micro, db>>
        /\ (pc' = "move" /\ token' = CHOOSE t \in FreeTokens : TRUE) \/ (pc' = "undo" /\ token' = token)
        /\ pc' = "move" => FreeTokens # {}
    BY <1>22 DEF Lists
  <2>2. pc' = "move" => token' \in Tokens
    BY <2>1, Chosen
  <2> QED BY <1>0, <2>1, <2>2
<1>23. ASSUME NEW t \in Tokens, Reconciles(t)
      PROVE  ControlInv'
  BY <1>0, <1>23 DEF Reconciles
<1>24. ASSUME NEW c \in Cleanups, Sweeps(c)
      PROVE  ControlInv'
  BY <1>0, <1>24 DEF Sweeps
<1>25. ASSUME NEW j \in {"read", "create", "clear"}, Asks(j)
      PROVE  ControlInv'
  BY <1>0, <1>25 DEF Asks, BeginOpen
<1>26. ASSUME NEW b \in Books, AsksToDelete(b)
      PROVE  ControlInv'
  BY <1>0, <1>26 DEF AsksToDelete
<1>27. ASSUME NEW b \in Books, MakesFolder(b)
      PROVE  ControlInv'
  BY <1>0, <1>27 DEF MakesFolder, server
<1>28. CASE UNCHANGED vars
  BY <1>28 DEF vars, server
<1> QED BY <1>1, <1>2, <1>3, <1>4, <1>5, <1>6, <1>7, <1>8, <1>9, <1>10, <1>11, <1>12, <1>13, <1>14, <1>15, <1>16, <1>17, <1>18, <1>19, <1>20, <1>21, <1>22, <1>23, <1>24, <1>25, <1>26, <1>27, <1>28
        DEF Next, Works, Requests

\* A quarantine in hand has its intent on the disk, and its folder until that
\* is moved; those a sweep has yet to see have theirs.
LEMMA HandStep ==
  ASSUME TypeOK, ControlInv, HandInv, [Next]_vars
  PROVE  HandInv'
<1> USE DEF HandInv
<1>0. /\ hand \in Cleanups \cup {None}
      /\ left \subseteq Tokens \cup Cleanups
      /\ cleanup \in [Cleanups -> {None, "root"} \cup Books]
      /\ None \notin Cleanups \cup Books /\ None # "root" /\ "root" \notin Books
      /\ Tokens \cap Cleanups = {}
      /\ pc \in {"reconcile", "idle", "down", "move", "work"} /\ job # "sweep" => left \cap Cleanups = {}
  BY NamesAssumption DEF TypeOK
<1>1. CASE Reads
  BY <1>0, <1>1 DEF Reads, Finish, ControlInv, server, folders
<1>2. CASE CreatesBook
  BY <1>0, <1>2 DEF CreatesBook, Finish, ControlInv, server, folders
<1>3. CASE Empties
  BY <1>0, <1>3 DEF Empties, Then, GoTo, Finish, ControlInv, server, folders
<1>4. CASE DeletesRow
  BY <1>0, <1>4 DEF DeletesRow, Then, GoTo, Finish, ControlInv, server, folders
<1>5. CASE Opens
  <2>1. /\ pc' \in {"commit", "work"} /\ left = {}
        /\ UNCHANGED <<job, hand, book, token, left, cleanup, vaults>>
    BY <1>5 DEF Opens, Opened, folders
  <2> QED BY <1>0, <2>1
<1>6. CASE OpenFails
  BY <1>0, <1>6 DEF OpenFails, ControlInv, server, folders
<1>7. CASE Lists
  BY <1>0, <1>7 DEF Lists, ControlInv, server, folders
<1>8. CASE Moves
  BY <1>0, <1>8 DEF Moves, BeginOpen, ControlInv, server, folders
<1>9. CASE Unmoves
  BY <1>0, <1>9 DEF Unmoves, ControlInv, server, folders
<1>10. CASE Commits
  BY <1>0, <1>10 DEF Commits, GoTo, ControlInv, server, folders
<1>11. CASE Undoes
  BY <1>0, <1>11 DEF Undoes, Closes, Then, GoTo, Finish, ControlInv, server, folders
<1>12. CASE DiscardsOld
  BY <1>0, <1>12 DEF DiscardsOld, Then, GoTo, Finish, ControlInv, server, folders
<1>13. CASE BeginSweep
  BY <1>0, <1>13 DEF BeginSweep, ControlInv, server, folders
<1>14. CASE EndSweep
  BY <1>0, <1>14 DEF EndSweep, ControlInv, server, folders
<1>15. CASE AsksForReset
  BY <1>0, <1>15 DEF AsksForReset, Closes, ControlInv, server, folders
<1>16. CASE Start
  BY <1>0, <1>16 DEF Start, ControlInv, server, folders
<1>17. ASSUME NEW what \in {"root"} \cup Books, Shelve(what), pc = "work",
             job \in {"clear", "reset", "delete"}
      PROVE  HandInv'
  <2> DEFINE c == CHOOSE c \in FreeCleanups : TRUE
  <2>1. CASE pc' = Shelved /\ hand' = None /\ UNCHANGED <<job, book, token, left, micro, folders>>
    BY <1>0, <1>17, <2>1, ShelvedType DEF folders
  <2>2. CASE /\ vaults # NoRoot /\ (what = "root" \/ what \in vaults) /\ FreeCleanups # {}
             /\ cleanup' = [cleanup EXCEPT ![c] = what] /\ held' = held \cup {c}
             /\ pc' = "shelve" /\ hand' = c
             /\ UNCHANGED <<job, book, token, left, micro, vaults, shelf>>
    <3>1. c \in Cleanups
      BY <2>2, Chosen
    <3> HIDE DEF c
    <3> QED BY <1>0, <1>17, <2>2, <3>1
  <2>3. CASE Finish /\ UNCHANGED folders
    BY <1>0, <1>17, <2>3 DEF Finish, folders
  <2> QED BY <1>17, <2>1, <2>2, <2>3 DEF Shelve
<1>18. CASE ShelvesRoot
  BY <1>17, <1>18 DEF ShelvesRoot
<1>19. CASE ShelvesFolder
  BY <1>17, <1>19 DEF ShelvesFolder, ControlInv
<1>20. CASE Shelves
  <2>1. pc = "shelve" /\ hand # None /\ hand \in Cleanups /\ left \cap Cleanups = {}
        /\ job \in {"clear", "reset", "delete"}
    BY <1>0, <1>20 DEF Shelves, ControlInv
  <2>2. UNCHANGED <<left, job>> \/ (left' = left /\ hand' = None /\ pc' # "shelve" /\ pc' # "unshelve" /\ pc' # "drop")
    BY <1>20 DEF Shelves, GoTo, Finish
  <2>3. CASE GoTo(Shelved) /\ UNCHANGED cleanup
    BY <1>0, <2>1, <2>3, ShelvedType DEF GoTo
  <2>4. CASE Finish
    BY <1>0, <2>1, <2>4 DEF Finish
  <2> QED BY <1>20, <2>3, <2>4 DEF Shelves
<1>21. ASSUME pc \in {"unshelve", "drop"}, NothingAside \/ CallFails
      PROVE  HandInv'
  BY <1>0, <1>21 DEF NothingAside, CallFails, RemoveCleanupIntent, Finish, ControlInv
<1>22. CASE Unshelves
  <2>1. CASE NothingAside \/ CallFails
    BY <1>21, <1>22, <2>1 DEF Unshelves
  <2>2. CASE UNCHANGED <<cleanup, held, server>>
    BY <1>22, <2>2 DEF Unshelves, server
  <2>3. CASE Finish /\ UNCHANGED folders
    BY <1>0, <1>22, <2>3 DEF Unshelves, Finish, folders
  <2> QED BY <1>22, <2>1, <2>2, <2>3 DEF Unshelves
<1>23. CASE Drops
  <2>1. CASE NothingAside \/ CallFails
    BY <1>21, <1>23, <2>1 DEF Drops
  <2>2. CASE UNCHANGED <<cleanup, held, server>>
    BY <1>23, <2>2 DEF Drops, server
  <2>3. CASE Finish /\ UNCHANGED <<vaults, cleanup>>
    BY <1>0, <1>23, <2>3 DEF Drops, Finish
  <2> QED BY <1>23, <2>1, <2>2, <2>3 DEF Drops
<1>24. ASSUME NEW t \in Tokens, Reconciles(t)
      PROVE  HandInv'
  BY <1>0, <1>24 DEF Reconciles, folders
<1>25. ASSUME NEW c \in Cleanups, Sweeps(c)
      PROVE  HandInv'
  BY <1>0, <1>25 DEF Sweeps, folders
<1>26. ASSUME NEW j \in {"read", "create", "clear"}, Asks(j)
      PROVE  HandInv'
  BY <1>0, <1>26 DEF Asks, BeginOpen, folders, ControlInv
<1>27. ASSUME NEW b \in Books, AsksToDelete(b)
      PROVE  HandInv'
  BY <1>0, <1>27 DEF AsksToDelete, folders, ControlInv
<1>28. ASSUME NEW b \in Books, MakesFolder(b)
      PROVE  HandInv'
  <2>1. vaults' # NoRoot
    BY <1>28, NamesAssumption DEF MakesFolder, TypeOK, Roots
  <2>2. vaults # NoRoot => vaults \subseteq vaults'
    BY <1>28 DEF MakesFolder
  <2> QED BY <1>28, <2>1, <2>2 DEF MakesFolder, server
<1>29. CASE Crash
  <2>1. pc' = "down" /\ hand' = None /\ left' = {}
    BY <1>29 DEF Crash
  <2> QED BY <2>1
<1>30. CASE UNCHANGED vars
  BY <1>30 DEF vars, server, folders
<1> QED BY <1>1, <1>2, <1>3, <1>4, <1>5, <1>6, <1>7, <1>8, <1>9, <1>10, <1>11, <1>12, <1>13, <1>14, <1>15, <1>16, <1>17, <1>18, <1>19, <1>20, <1>21, <1>22, <1>23, <1>24, <1>25, <1>26, <1>27, <1>28, <1>29, <1>30
        DEF Next, Works, Requests

\* The part of the invariant that holds whatever was entangled.
BaseInv == TypeOK /\ ControlInv /\ HandInv

LEMMA BaseStep == BaseInv /\ [Next]_vars => BaseInv'
<1> SUFFICES ASSUME BaseInv, [Next]_vars PROVE BaseInv'
  OBVIOUS
<1>0. TypeOK /\ ControlInv /\ HandInv
  BY DEF BaseInv
<1>1. CASE UNCHANGED vars
  <2>1. TypeOK'
    BY <1>0, <1>1 DEF TypeOK, vars, server, files, data, folders, ghosts
  <2> QED BY <1>0, <2>1, ControlStep, HandStep DEF BaseInv
<1>2. CASE Next
  <2>1. TypeOK'
    BY <1>0, <1>2, OpenTypes, ResetTypes, FolderTypes, RequestTypes DEF Next, Works
  <2> QED BY <1>0, <2>1, ControlStep, HandStep DEF BaseInv
<1> QED BY <1>1, <1>2

\* The server is down, and one library may be there.
LEMMA BaseInit == Init => BaseInv
<1> SUFFICES ASSUME Init PROVE BaseInv
  OBVIOUS
<1>1. /\ ServerType /\ DbType
      /\ aside \in [Tokens -> [Artifacts -> Libraries \cup {None}]]
      /\ phase \in [Tokens -> {"none", "prepared", "committed"}]
      /\ listed \in [Tokens -> SUBSET Artifacts] /\ active \in SUBSET Tokens
  BY DEF Init, ServerType, DbType
<1>2. PICK g \in Libraries, old \in SUBSET Artifacts :
        /\ live = [a \in Artifacts |-> IF a \in old THEN g ELSE None]
        /\ \E bs \in SUBSET Books :
             /\ rows = [h \in Libraries |-> IF h = g THEN bs ELSE {}]
             /\ vaults \in {NoRoot} \cup SUBSET bs
        /\ broken \in {{}, {g}}
  BY DEF Init
<1>3. live \in [Artifacts -> Libraries \cup {None}] /\ DataType
  BY <1>2 DEF DataType
<1>4. vaults \in Roots
  BY <1>2 DEF Roots
<1>5. FoldersType
  BY <1>4 DEF Init, FoldersType, Roots
<1>6. GhostsType
  <2>1. crashes = 0 /\ faults = 0
    BY DEF Init
  <2>2. calm \in BOOLEAN /\ entangled \in BOOLEAN
    BY DEF Init
  <2>3. crashes \in 0..MaxCrashes /\ faults \in 0..MaxFaults
    BY <2>1, BoundsAssumption
  <2> QED BY <2>2, <2>3 DEF GhostsType
<1>7. TypeOK
  BY <1>1, <1>3, <1>5, <1>6, TypeParts DEF TypeOK, ServerType, DataType, FoldersType, GhostsType, DbType
<1>8. ControlInv /\ HandInv
  BY DEF Init, ControlInv, HandInv
<1> QED BY <1>7, <1>8 DEF BaseInv

\* Every variable keeps its type.
THEOREM TypeCorrect == Spec => []TypeOK
<1>1. BaseInv => TypeOK
  BY DEF BaseInv
<1> QED BY <1>1, BaseInit, BaseStep, PTL DEF Spec

-----------------------------------------------------------------------------
(* The files of a library. *)

\* A rollback leaves every file it has to put back in one of its two places.
LEMMA OldKept ==
  ASSUME TypeOK, NEW t \in Tokens, OldWhole(t), PutsBack(t), UNCHANGED listed
  PROVE  OldWhole(t)'
<1>0. /\ live \in [Artifacts -> Libraries \cup {None}]
      /\ aside \in [Tokens -> [Artifacts -> Libraries \cup {None}]]
      /\ listed[t] \subseteq Artifacts
  BY DEF TypeOK
<1>1. PICK g \in Libraries : \A a \in listed[t] :
             aside[t][a] = g \/ (aside[t][a] = None /\ live[a] = g)
  BY DEF OldWhole
<1>2. ASSUME NEW b \in Stale(t), live' = [live EXCEPT ![b] = None], UNCHANGED aside
      PROVE  \A a \in listed[t] : aside'[t][a] = g \/ (aside'[t][a] = None /\ live'[a] = g)
  BY <1>0, <1>1, <1>2 DEF Stale
<1>3. ASSUME NEW b \in listed[t], aside[t][b] # None,
             live' = [live EXCEPT ![b] = aside[t][b]],
             aside' = [aside EXCEPT ![t][b] = None]
      PROVE  \A a \in listed[t] : aside'[t][a] = g \/ (aside'[t][a] = None /\ live'[a] = g)
  <2> SUFFICES ASSUME NEW a \in listed[t]
               PROVE  aside'[t][a] = g \/ (aside'[t][a] = None /\ live'[a] = g)
    OBVIOUS
  <2>1. CASE a = b
    BY <1>0, <1>1, <1>3, <2>1
  <2>2. CASE a # b
    <3>1. aside'[t][a] = aside[t][a] /\ live'[a] = live[a]
      BY <1>0, <1>3, <2>2
    <3> QED BY <1>1, <3>1
  <2> QED BY <2>1, <2>2
<1>4. \A a \in listed[t] : aside'[t][a] = g \/ (aside'[t][a] = None /\ live'[a] = g)
  BY <1>2, <1>3 DEF PutsBack
<1> QED BY <1>4 DEF OldWhole

\* Once they are put back, the files in place are of one library.
LEMMA PutBackIsCoherent ==
  ASSUME TypeOK, NEW t \in Tokens, OldWhole(t), PutBack(t)
  PROVE  Coherent
<1>1. PICK g \in Libraries : \A a \in listed[t] :
             aside[t][a] = g \/ (aside[t][a] = None /\ live[a] = g)
  BY DEF OldWhole
<1>2. \A a \in listed[t] : live[a] = g
  BY <1>1, NamesAssumption DEF PutBack
<1>3. \A a \in Artifacts : live[a] # None => a \in listed[t]
  BY DEF PutBack, Stale
<1> QED BY <1>2, <1>3 DEF Coherent, OldWhole

\* Where no prepared reset is on the disk.
LEMMA QuietPlaces ==
  ASSUME FilesInv,
         \/ pc \in {"work", "shelve", "drop", "empty", "row", "list", "discard", "micro", "sweep"}
         \/ pc = "unshelve" /\ job # "reset"
         \/ pc = "idle" /\ db # None
  PROVE  Unprepared
  BY DEF FilesInv, Unprepared, Interrupted, Owned

\* Then the files stay coherent where they are left alone.
LEMMA QuietFiles ==
  ASSUME FilesInv, Unprepared, UNCHANGED <<live, phase, db>>,
         pc' \notin {"move", "unmove", "reconcile", "commit", "undo"} \/ token' = None,
         pc' # "discard"
  PROVE  FilesInv'
  BY DEF FilesInv, Unprepared, Coherent, Prepared

\* A step of one reset touches no other.
LEMMA OtherTokens ==
  ASSUME TypeOK, NEW t \in Tokens, NEW u \in Tokens, u # t
  PROVE  /\ PutsBack(t) => aside'[u] = aside[u]
         /\ Discards(t) => aside'[u] = aside[u] /\ live' = live
<1>1. aside \in [Tokens -> [Artifacts -> Libraries \cup {None}]]
  BY DEF TypeOK
<1>2. PutsBack(t) => aside'[u] = aside[u]
  BY <1>1 DEF PutsBack
<1>3. Discards(t) => aside'[u] = aside[u] /\ live' = live
  BY <1>1 DEF Discards
<1> QED BY <1>2, <1>3

\* The intent a reset removes is prepared no more.
LEMMA RemovedIntent ==
  ASSUME TypeOK, NEW t \in Tokens, RemoveResetIntent(t)
  PROVE  /\ phase'[t] = "none" /\ t \notin active' /\ live' = live /\ aside' = aside
         /\ \A u \in Tokens : u # t => phase'[u] = phase[u] /\ listed'[u] = listed[u]
         /\ \A u \in Tokens : u # t => (u \in active' <=> u \in active)
  BY DEF RemoveResetIntent, TypeOK

-----------------------------------------------------------------------------
(* The steps of a start. *)

\* A start rolls a prepared reset back, or removes what a committed one left.
LEMMA ReconcilesFiles ==
  ASSUME BaseInv, FilesInv, NEW t \in Tokens, Reconciles(t)
  PROVE  FilesInv'
<1>0. TypeOK /\ pc = "reconcile" /\ t \in left /\ UNCHANGED <<db, pc, job, token>> /\ db = None
  BY DEF BaseInv, ControlInv, Reconciles
<1>1. CASE phase[t] = "prepared"
  <2>1. /\ Prepared(t) /\ OldWhole(t) /\ t \notin active /\ token = None /\ job # "reset"
        /\ \A u \in Tokens : Prepared(u) => u = t
    BY <1>0, <1>1 DEF Prepared, FilesInv, Interrupted, Owned
  <2>2. CASE PutsBack(t) /\ UNCHANGED <<phase, listed, active, left>>
    <3>1. OldWhole(t)'
      BY <1>0, <2>1, <2>2, OldKept
    <3>2. Interrupted(t)'
      BY <1>0, <2>1, <2>2 DEF Interrupted
    <3>3. \A u \in Tokens : Prepared(u)' <=> u = t
      BY <2>1, <2>2 DEF Prepared
    <3> QED BY <1>0, <2>1, <3>1, <3>2, <3>3 DEF FilesInv, Unprepared
  <2>3. CASE PutBack(t) /\ RemoveResetIntent(t)
    <3>1. Coherent
      BY <1>0, <2>1, <2>3, PutBackIsCoherent
    <3>2. Coherent'
      BY <2>3, <3>1 DEF RemoveResetIntent, Coherent
    <3>3. \A u \in Tokens : ~Prepared(u)'
      BY <1>0, <2>1, <2>3, RemovedIntent DEF Prepared
    <3> QED BY <1>0, <2>1, <3>2, <3>3 DEF FilesInv
  <2> QED BY <1>1, <2>2, <2>3 DEF Reconciles
<1>2. CASE phase[t] = "committed"
  <2>1. ~Prepared(t)
    BY <1>2 DEF Prepared
  <2>2. /\ live' = live
        /\ \A u \in Tokens : u # t => /\ phase'[u] = phase[u] /\ listed'[u] = listed[u]
                                      /\ aside'[u] = aside[u]
                                      /\ (u \in active' <=> u \in active)
                                      /\ (u \in left' <=> u \in left)
        /\ phase'[t] # "prepared"
    <3>1. CASE Discards(t) /\ UNCHANGED <<phase, listed, active, left>>
      BY <1>0, <1>2, <3>1, OtherTokens DEF Discards
    <3>2. CASE RemoveResetIntent(t) /\ left' = left \ {t}
      BY <1>0, <3>2, RemovedIntent
    <3>3. CASE left' = left \ {t} /\ UNCHANGED files
      BY <1>2, <3>3 DEF files
    <3> QED BY <1>2, <3>1, <3>2, <3>3 DEF Reconciles
  <2>3. \A u \in Tokens : Prepared(u)' <=> Prepared(u)
    BY <2>1, <2>2 DEF Prepared
  <2>4. ASSUME NEW u \in Tokens, Prepared(u)
        PROVE  OldWhole(u)' /\ (Interrupted(u)' \/ Owned(u)')
    <3>1. u # t /\ OldWhole(u) /\ (Interrupted(u) \/ Owned(u))
      BY <2>1, <2>4 DEF FilesInv
    <3>2. OldWhole(u)'
      BY <2>2, <3>1 DEF OldWhole
    <3>3. Interrupted(u) => Interrupted(u)'
      BY <1>0, <2>2, <3>1 DEF Interrupted
    <3>4. Owned(u) => Owned(u)'
      BY <1>0, <2>2, <3>1 DEF Owned, AllMoved
    <3> QED BY <3>1, <3>2, <3>3, <3>4
  <2>5. token # None => token \in Tokens
    BY <1>0 DEF TypeOK
  <2>6. Unprepared' => Coherent'
    BY <2>2, <2>3 DEF FilesInv, Unprepared, Coherent
  <2>7. token' # None => Prepared(token)'
    BY <1>0, <2>3, <2>5 DEF FilesInv, Prepared
  <2> QED BY <1>0, <2>3, <2>4, <2>6, <2>7 DEF FilesInv
<1> QED BY <1>1, <1>2 DEF Reconciles

\* Once every intent of an earlier start is dealt with, only a reset under way
\* has prepared one, and it has moved everything: no file is in place.
LEMMA Reconciled ==
  ASSUME BaseInv, FilesInv, pc = "reconcile", left = {} \/ job = "reset"
  PROVE  /\ db = None
         /\ \A t \in Tokens : Prepared(t) => Owned(t) /\ OldWhole(t) /\ AllMoved(t)
         /\ job = "reset" => token \in Tokens /\ Prepared(token)
         /\ job # "reset" => token = None
         /\ Unprepared \/ \A a \in Artifacts : live[a] = None
<1>1. db = None /\ (job = "reset" => token # None) /\ (token # None => job = "reset")
  BY DEF BaseInv, ControlInv
<1>2. token # None => token \in Tokens /\ Prepared(token)
  BY DEF BaseInv, TypeOK, FilesInv
<1>3. \A t \in Tokens : Prepared(t) => Owned(t) /\ OldWhole(t)
  BY DEF FilesInv, Interrupted
<1> QED BY <1>1, <1>2, <1>3 DEF Owned, Unprepared

\* A library that is created has only its own files beside it.
LEMMA CreatedFiles ==
  ASSUME BaseInv, FilesInv, pc = "reconcile", left = {} \/ job = "reset", live[Main] = None,
         NEW g \in Libraries, Creates(g)
  PROVE  /\ live'[Main] = g /\ Coherent'
         /\ \A t \in Tokens : Prepared(t)' <=> Prepared(t)
         /\ \A t \in Tokens : Prepared(t) => OldWhole(t)' /\ AllMoved(t)'
<1>1. \A a \in Artifacts : live[a] = None
  BY Reconciled DEF FilesInv, Coherent
<1>2. PICK new \in SUBSET Sidecars :
        live' = [a \in Artifacts |-> IF a = Main \/ a \in new THEN g ELSE live[a]]
  BY DEF Creates
<1>3. live'[Main] = g /\ Coherent'
  BY <1>1, <1>2 DEF Coherent, Artifacts
<1>4. UNCHANGED <<aside, phase, listed>>
  BY DEF Creates
<1>5. ASSUME NEW t \in Tokens, Prepared(t)
      PROVE  OldWhole(t)' /\ AllMoved(t)'
  <2>1. OldWhole(t) /\ AllMoved(t)
    BY <1>5, Reconciled
  <2> QED BY <1>4, <2>1 DEF OldWhole, AllMoved
<1> QED BY <1>3, <1>4, <1>5 DEF Prepared

\* The library is opened when no prepared reset of an earlier start is left.
LEMMA OpensFiles ==
  ASSUME BaseInv, FilesInv, Opens
  PROVE  FilesInv'
<1>0. /\ pc = "reconcile" /\ left = {} /\ UNCHANGED <<job, token, left>> /\ TypeOK
      /\ pc' = Opened
  BY DEF Opens, BaseInv
<1>1. /\ db = None
      /\ \A t \in Tokens : Prepared(t) => Owned(t) /\ OldWhole(t) /\ AllMoved(t)
      /\ job = "reset" => token \in Tokens /\ Prepared(token)
      /\ job # "reset" => token = None
      /\ Unprepared \/ \A a \in Artifacts : live[a] = None
  BY <1>0, Reconciled
<1>2. CASE /\ live[Main] # None /\ db' = live[Main]
           /\ \E new \in SUBSET Sidecars :
                live' = [a \in Artifacts |-> IF a \in new THEN db' ELSE live[a]]
           /\ UNCHANGED <<aside, phase, listed, active>>
  <2>1. Unprepared
    BY <1>1, <1>2 DEF Artifacts
  <2>2. Coherent
    BY <2>1 DEF FilesInv
  <2>3. live'[Main] = db' /\ Coherent'
    BY <1>2, <2>2, NamesAssumption DEF Coherent, Artifacts
  <2>4. Unprepared'
    BY <1>2, <2>1 DEF Unprepared, Prepared
  <2>5. job # "reset" /\ token' = None /\ pc' = "work"
    BY <1>0, <1>1, <2>1 DEF Unprepared, Opened
  <2> QED BY <2>3, <2>4, <2>5 DEF FilesInv, Unprepared
<1>3. CASE live[Main] = None /\ FreshLibraries # {} /\ db' = (CHOOSE g \in FreshLibraries : TRUE)
           /\ Creates(db')
  <2>1. db' \in Libraries
    BY <1>3, Chosen
  <2>2. /\ live'[Main] = db' /\ Coherent'
        /\ \A t \in Tokens : Prepared(t)' <=> Prepared(t)
        /\ \A t \in Tokens : Prepared(t) => OldWhole(t)' /\ AllMoved(t)'
    BY <1>0, <1>3, <2>1, CreatedFiles
  <2>3. UNCHANGED active
    BY <1>3 DEF Creates
  <2>4. ASSUME NEW t \in Tokens, Prepared(t)
        PROVE  Owned(t)'
    <3>1. Owned(t) /\ job = "reset" /\ token = t
      BY <1>1, <2>4 DEF Owned
    <3>2. pc' = "commit"
      BY <1>0, <3>1 DEF Opened
    <3> QED BY <1>0, <2>2, <2>3, <2>4, <3>1, <3>2 DEF Owned
  <2>5. pc' # "discard"
    BY <1>0 DEF Opened
  <2>6. \A t, u \in Tokens : Prepared(t)' /\ Prepared(u)' => t = u
    BY <2>2 DEF FilesInv
  <2>7. token' # None => Prepared(token)'
    BY <1>0, <1>1, <2>2
  <2> QED BY <2>2, <2>4, <2>5, <2>6, <2>7 DEF FilesInv
<1> QED BY <1>2, <1>3 DEF Opens

\* A getDb that throws leaves a reset to its catch block.
LEMMA OpenFailsFiles ==
  ASSUME BaseInv, FilesInv, OpenFails
  PROVE  FilesInv'
<1>0. /\ pc = "reconcile" /\ UNCHANGED <<token, db>> /\ left' = {} /\ TypeOK /\ db = None
      /\ pc' \in {"undo", "idle"}
      /\ job = "reset" => pc' = "undo" /\ job' = job
      /\ job # "reset" => pc' = "idle"
  BY DEF OpenFails, BaseInv, ControlInv
<1>1. CASE UNCHANGED files
  <2>1. \A t \in Tokens : Prepared(t)' <=> Prepared(t)
    BY <1>1 DEF files, Prepared
  <2>2. ASSUME NEW t \in Tokens, Prepared(t)
        PROVE  OldWhole(t)' /\ (Interrupted(t)' \/ Owned(t)')
    <3>1. OldWhole(t) /\ (Interrupted(t) \/ Owned(t))
      BY <2>2 DEF FilesInv
    <3>2. OldWhole(t)'
      BY <1>1, <3>1 DEF OldWhole, files
    <3>3. Interrupted(t) => Interrupted(t)'
      BY <1>0, <1>1 DEF Interrupted, files
    <3>4. Owned(t) => Owned(t)'
      BY <1>0, <1>1 DEF Owned, files
    <3> QED BY <3>1, <3>2, <3>3, <3>4
  <2>3. Unprepared' => Coherent'
    BY <1>1, <2>1 DEF FilesInv, Unprepared, Coherent, files
  <2>4. token' # None => Prepared(token)'
    BY <1>0, <1>1 DEF FilesInv, Prepared, files
  <2> QED BY <1>0, <2>1, <2>2, <2>3, <2>4 DEF FilesInv
<1>2. CASE left = {} /\ live[Main] = None /\ FreshLibraries # {}
           /\ Creates(CHOOSE g \in FreshLibraries : TRUE)
  <2>1. PICK g \in Libraries : Creates(g)
    BY <1>2, Chosen
  <2>2. /\ Coherent'
        /\ \A t \in Tokens : Prepared(t)' <=> Prepared(t)
        /\ \A t \in Tokens : Prepared(t) => OldWhole(t)' /\ AllMoved(t)'
    BY <1>0, <1>2, <2>1, CreatedFiles
  <2>3. UNCHANGED active
    BY <2>1 DEF Creates
  <2>4. /\ \A t \in Tokens : Prepared(t) => Owned(t)
        /\ job = "reset" => token \in Tokens /\ Prepared(token)
        /\ job # "reset" => token = None
    BY <1>0, <1>2, Reconciled
  <2>5. \A t \in Tokens : Prepared(t) => Owned(t)'
    BY <1>0, <2>3, <2>4 DEF Owned
  <2>6. token' # None => Prepared(token)'
    BY <1>0, <2>2, <2>4
  <2>7. \A t, u \in Tokens : Prepared(t)' /\ Prepared(u)' => t = u
    BY <2>2 DEF FilesInv
  <2> QED BY <1>0, <2>2, <2>5, <2>6, <2>7 DEF FilesInv
<1> QED BY <1>1, <1>2 DEF OpenFails

-----------------------------------------------------------------------------
(* The steps of a reset. *)

\* The reset that wrote the prepared intent owns it.
LEMMA OwnsIt ==
  ASSUME BaseInv, FilesInv, pc \in {"move", "unmove", "commit", "undo"}, token # None
  PROVE  /\ token \in Tokens /\ Prepared(token) /\ Owned(token) /\ OldWhole(token)
         /\ \A t \in Tokens : Prepared(t) <=> t = token
  BY DEF FilesInv, BaseInv, TypeOK, Interrupted

\* The intent lists what is in place, and nothing is aside yet.
LEMMA ListsFiles ==
  ASSUME BaseInv, FilesInv, Lists
  PROVE  FilesInv'
<1>0. /\ pc = "list" /\ TypeOK /\ Unprepared /\ Coherent /\ db = None /\ job = "reset"
      /\ token = None /\ UNCHANGED <<job, db, live, aside>>
  BY QuietPlaces DEF Lists, BaseInv, ControlInv, FilesInv
<1>1. CASE pc' = "undo" /\ UNCHANGED <<token, phase>>
  BY <1>0, <1>1, QuietFiles
<1>2. CASE /\ FreeTokens # {}
           /\ token' = (CHOOSE t \in FreeTokens : TRUE)
           /\ phase' = [phase EXCEPT ![token'] = "prepared"]
           /\ listed' = [listed EXCEPT ![token'] = {a \in Artifacts : live[a] # None}]
           /\ active' = active \cup {token'}
           /\ pc' = "move"
  <2>1. PICK t \in Tokens : t = token' /\ \A a \in Artifacts : aside[t][a] = None
    BY <1>2, Chosen DEF FreeTokens
  <2>2. \A u \in Tokens : Prepared(u)' <=> u = t
    BY <1>0, <1>2, <2>1 DEF Unprepared, Prepared, TypeOK
  <2>3. listed'[t] = {a \in Artifacts : live[a] # None} /\ active' = active \cup {t}
    BY <1>0, <1>2, <2>1 DEF TypeOK
  <2>4. OldWhole(t)'
    <3>1. PICK g \in Libraries : live[Main] = None \/ live[Main] = g
      BY <1>0, NamesAssumption DEF TypeOK, Artifacts
    <3>2. \A a \in listed'[t] : aside'[t][a] = None /\ live'[a] = g
      BY <1>0, <2>1, <2>3, <3>1 DEF Coherent
    <3>3. listed'[t] = {} \/ Main \in listed'[t]
      BY <1>0, <2>3 DEF Coherent, Artifacts
    <3> QED BY <3>2, <3>3 DEF OldWhole
  <2>5. Owned(t)'
    BY <1>0, <1>2, <2>1, <2>3 DEF Owned, Stale
  <2> QED BY <1>0, <1>2, <2>1, <2>2, <2>4, <2>5 DEF FilesInv, Unprepared
<1> QED BY <1>1, <1>2 DEF Lists

\* One file is moved at a time.
LEMMA MovesFiles ==
  ASSUME BaseInv, FilesInv, Moves
  PROVE  FilesInv'
<1>0. /\ pc = "move" /\ TypeOK /\ token # None
      /\ UNCHANGED <<job, db, phase, listed, active, token>>
  BY DEF Moves, BeginOpen, BaseInv, ControlInv
<1>1. /\ token \in Tokens /\ Prepared(token) /\ Owned(token) /\ OldWhole(token)
      /\ \A t \in Tokens : Prepared(t) <=> t = token
  BY <1>0, OwnsIt
<1>2. \A t \in Tokens : Prepared(t)' <=> t = token
  BY <1>0, <1>1 DEF Prepared
<1>3. db = None /\ Stale(token) = {} /\ token \in active /\ job = "reset"
  BY <1>0, <1>1 DEF Owned
<1>4. OldWhole(token)' /\ Owned(token)' /\ pc' # "discard"
  <2>1. OldWhole(token)'
    <3>1. CASE UNCHANGED <<live, aside>>
      BY <1>0, <1>1, <3>1 DEF OldWhole
    <3>2. CASE \E a \in listed[token] : /\ aside[token][a] = None
                                        /\ aside' = [aside EXCEPT ![token][a] = live[a]]
                                        /\ live' = [live EXCEPT ![a] = None]
      <4>1. PICK a \in listed[token] : /\ aside[token][a] = None
                                       /\ aside' = [aside EXCEPT ![token][a] = live[a]]
                                       /\ live' = [live EXCEPT ![a] = None]
        BY <3>2
      <4>2. PICK g \in Libraries : \A b \in listed[token] :
               aside[token][b] = g \/ (aside[token][b] = None /\ live[b] = g)
        BY <1>1 DEF OldWhole
      <4>3. live[a] = g
        BY <4>1, <4>2, NamesAssumption
      <4>4. aside'[token][a] = g
        BY <1>0, <1>1, <4>1, <4>3 DEF TypeOK
      <4>5. \A b \in listed[token] : b # a => aside'[token][b] = aside[token][b] /\ live'[b] = live[b]
        BY <1>0, <1>1, <4>1 DEF TypeOK
      <4>6. \A b \in listed'[token] : aside'[token][b] = g \/ (aside'[token][b] = None /\ live'[b] = g)
        BY <1>0, <4>2, <4>4, <4>5
      <4> QED BY <1>0, <1>1, <4>6 DEF OldWhole
    <3> QED BY <3>1, <3>2 DEF Moves
  <2>2. Owned(token)'
    <3>1. CASE \E a \in listed[token] : /\ aside[token][a] = None
                                        /\ aside' = [aside EXCEPT ![token][a] = live[a]]
                                        /\ live' = [live EXCEPT ![a] = None]
               /\ UNCHANGED pc
      <4>1. PICK a \in listed[token] : /\ aside[token][a] = None
                                       /\ aside' = [aside EXCEPT ![token][a] = live[a]]
                                       /\ live' = [live EXCEPT ![a] = None]
        BY <3>1
      <4>2. a \in Artifacts /\ live'[a] = None
        BY <1>0, <1>1, <4>1 DEF TypeOK
      <4>3. \A b \in Artifacts : b # a => aside'[token][b] = aside[token][b] /\ live'[b] = live[b]
        BY <1>0, <1>1, <4>1 DEF TypeOK
      <4>4. Stale(token)' = {}
        BY <1>0, <1>3, <4>2, <4>3 DEF Stale
      <4> QED BY <1>0, <1>1, <1>3, <3>1, <4>4 DEF Owned
    <3>2. CASE /\ \A a \in listed[token] : aside[token][a] # None
               /\ UNCHANGED <<live, aside>> /\ BeginOpen
      <4>1. token \notin left' /\ pc' = "reconcile"
        BY <1>0, <1>3, <3>2 DEF BeginOpen
      <4>2. \A a \in Artifacts : live'[a] = None
        BY <1>3, <3>2 DEF Stale
      <4>3. AllMoved(token)'
        BY <1>0, <3>2 DEF AllMoved
      <4> QED BY <1>0, <1>3, <4>1, <4>2, <4>3 DEF Owned
    <3>3. CASE pc' = "unmove" /\ UNCHANGED <<live, aside>>
      <4>1. Stale(token)' = {}
        BY <1>0, <1>3, <3>3 DEF Stale
      <4> QED BY <1>0, <1>3, <3>3, <4>1 DEF Owned
    <3> QED BY <3>1, <3>2, <3>3 DEF Moves
  <2>3. pc' # "discard"
    BY <1>0 DEF Moves, BeginOpen
  <2> QED BY <2>1, <2>2, <2>3
<1> QED BY <1>0, <1>1, <1>2, <1>3, <1>4 DEF FilesInv, Unprepared

\* After a failed rename those that were moved go back, or the intent is left
\* to the next getDb.
LEMMA UnmovesFiles ==
  ASSUME BaseInv, FilesInv, Unmoves, ~entangled'
  PROVE  FilesInv'
<1>0. /\ pc = "unmove" /\ TypeOK /\ token # None /\ UNCHANGED <<job, db>>
  BY DEF Unmoves, BaseInv, ControlInv
<1>1. /\ token \in Tokens /\ Prepared(token) /\ Owned(token) /\ OldWhole(token)
      /\ \A t \in Tokens : Prepared(t) <=> t = token
  BY <1>0, OwnsIt
<1>2. db = None /\ Stale(token) = {} /\ token \in active /\ job = "reset"
  BY <1>0, <1>1 DEF Owned
<1>3. CASE \E a \in listed[token] : /\ aside[token][a] # None
                                    /\ live' = [live EXCEPT ![a] = aside[token][a]]
                                    /\ aside' = [aside EXCEPT ![token][a] = None]
           /\ UNCHANGED <<pc, token, phase, listed, active>>
  <2>1. PutsBack(token)
    BY <1>2, <1>3 DEF PutsBack
  <2>2. OldWhole(token)'
    BY <1>0, <1>1, <1>3, <2>1, OldKept
  <2>3. PICK a \in listed[token] : /\ live' = [live EXCEPT ![a] = aside[token][a]]
                                   /\ aside' = [aside EXCEPT ![token][a] = None]
    BY <1>3
  <2>4. a \in Artifacts /\ aside'[token][a] = None
    BY <1>0, <1>1, <2>3 DEF TypeOK
  <2>5. \A b \in Artifacts : b # a => aside'[token][b] = aside[token][b] /\ live'[b] = live[b]
    BY <1>0, <1>1, <2>3 DEF TypeOK
  <2>6. Stale(token)' = {}
    BY <1>2, <1>3, <2>4, <2>5 DEF Stale
  <2>7. Owned(token)'
    BY <1>0, <1>1, <1>2, <1>3, <2>6 DEF Owned
  <2>8. \A t \in Tokens : Prepared(t)' <=> t = token
    BY <1>1, <1>3 DEF Prepared
  <2> QED BY <1>0, <1>1, <1>2, <1>3, <2>2, <2>7, <2>8 DEF FilesInv, Unprepared
<1>4. CASE /\ \A a \in listed[token] : aside[token][a] = None
           /\ RemoveResetIntent(token)
           /\ pc' = "undo" /\ token' = None
  <2>1. PutBack(token)
    BY <1>2, <1>4 DEF PutBack
  <2>2. Coherent
    BY <1>0, <1>1, <2>1, PutBackIsCoherent
  <2>3. Coherent' /\ \A t \in Tokens : ~Prepared(t)'
    BY <1>0, <1>1, <1>4, <2>2, RemovedIntent DEF Coherent, Prepared
  <2> QED BY <1>0, <1>2, <1>4, <2>3 DEF FilesInv
<1>5. CASE /\ pc' = "undo" /\ token' = None
           /\ UNCHANGED <<live, aside, phase, listed>>
           /\ active' = active \ {token}
  <2>1. PICK t \in Tokens : t = token
    BY <1>1
  <2>2. \A u \in Tokens : Prepared(u)' <=> u = t
    BY <1>1, <1>5, <2>1 DEF Prepared
  <2>3. OldWhole(t)'
    BY <1>1, <1>5, <2>1 DEF OldWhole
  <2>4. Interrupted(t)'
    BY <1>0, <1>2, <1>5, <2>1 DEF Interrupted
  <2> QED BY <1>0, <1>2, <1>5, <2>2, <2>3, <2>4 DEF FilesInv, Unprepared
<1> QED BY <1>3, <1>4, <1>5 DEF Unmoves

\* The commit turns the old library over to the new one.
LEMMA CommitsFiles ==
  ASSUME BaseInv, FilesInv, Commits
  PROVE  FilesInv'
<1>0. /\ pc = "commit" /\ TypeOK /\ token # None /\ db # None
      /\ UNCHANGED <<job, token, db, live, aside, listed, active>>
  BY DEF Commits, BaseInv, ControlInv, GoTo
<1>1. /\ token \in Tokens /\ Prepared(token) /\ Owned(token) /\ OldWhole(token)
      /\ \A t \in Tokens : Prepared(t) <=> t = token
  BY <1>0, OwnsIt
<1>2. live[Main] = db /\ Coherent
  BY <1>0 DEF FilesInv
<1>3. Coherent' /\ live'[Main] = db'
  BY <1>0, <1>2 DEF Coherent
<1>4. CASE phase' = [phase EXCEPT ![token] = "committed"] /\ GoTo("discard")
  <2>1. \A t \in Tokens : ~Prepared(t)'
    BY <1>0, <1>1, <1>4 DEF Prepared, TypeOK
  <2>2. phase'[token'] = "committed" /\ pc' = "discard"
    BY <1>0, <1>1, <1>4 DEF TypeOK, GoTo
  <2> QED BY <1>3, <2>1, <2>2 DEF FilesInv
<1>5. CASE UNCHANGED phase /\ GoTo("undo")
  <2>1. \A t \in Tokens : Prepared(t)' <=> t = token
    BY <1>1, <1>5 DEF Prepared
  <2>2. OldWhole(token)'
    BY <1>0, <1>1 DEF OldWhole
  <2>3. Owned(token)'
    BY <1>0, <1>1, <1>5 DEF Owned, AllMoved, GoTo
  <2> QED BY <1>0, <1>1, <1>3, <1>5, <2>1, <2>2, <2>3 DEF FilesInv, Unprepared, GoTo
<1> QED BY <1>4, <1>5 DEF Commits

\* The catch block closes the new library, puts the old one back, and only
\* then removes the intent; if it fails, the intent is left to the next getDb.
LEMMA UndoesFiles ==
  ASSUME BaseInv, FilesInv, Undoes, ~entangled'
  PROVE  FilesInv'
<1>0. pc = "undo" /\ TypeOK /\ job = "reset" /\ (micro => db # None)
  BY DEF Undoes, BaseInv, ControlInv
<1>1. ASSUME token # None
      PROVE  /\ token \in Tokens /\ Prepared(token) /\ Owned(token) /\ OldWhole(token)
             /\ \A t \in Tokens : Prepared(t) <=> t = token
  BY <1>0, <1>1, OwnsIt
<1>2. CASE db # None /\ Closes /\ UNCHANGED <<pc, job, hand, book, token, left>>
  <2>1. Coherent /\ \A t \in Tokens : Prepared(t) => Owned(t) /\ OldWhole(t) /\ AllMoved(t)
    BY <1>2 DEF FilesInv, Interrupted, Owned
  <2>2. PICK gone \in SUBSET Sidecars :
          live' = [a \in Artifacts |-> IF a \in gone THEN None ELSE live[a]]
    BY <1>2 DEF Closes
  <2>3. Coherent'
    BY <2>1, <2>2, NamesAssumption DEF Coherent, Artifacts
  <2>4. UNCHANGED <<aside, phase, listed, active>> /\ db' = None
    BY <1>2 DEF Closes
  <2>5. \A t \in Tokens : Prepared(t)' <=> Prepared(t)
    BY <2>4 DEF Prepared
  <2>6. ASSUME NEW t \in Tokens, Prepared(t)
        PROVE  OldWhole(t)' /\ Owned(t)'
    BY <1>0, <1>2, <2>1, <2>4, <2>6 DEF OldWhole, Owned, AllMoved
  <2>7. token' # None => Prepared(token)'
    BY <1>1, <1>2, <2>4 DEF Prepared
  <2> QED BY <1>0, <1>2, <2>3, <2>4, <2>5, <2>6, <2>7 DEF FilesInv
<1>3. CASE /\ db = None /\ token # None /\ UNCHANGED db
           /\ PutsBack(token) /\ UNCHANGED <<server, phase, listed, active>>
  <2>1. OldWhole(token)'
    BY <1>0, <1>1, <1>3, OldKept DEF server
  <2>2. Owned(token)'
    BY <1>0, <1>1, <1>3 DEF Owned, server
  <2>3. \A t \in Tokens : Prepared(t)' <=> t = token
    BY <1>1, <1>3 DEF Prepared
  <2> QED BY <1>0, <1>1, <1>3, <2>1, <2>2, <2>3 DEF FilesInv, Unprepared, server
<1>4. CASE /\ db = None /\ token # None /\ UNCHANGED db
           /\ PutBack(token) /\ RemoveResetIntent(token)
           /\ token' = None /\ UNCHANGED pc
  <2>1. Coherent
    BY <1>0, <1>1, <1>4, PutBackIsCoherent
  <2>2. Coherent' /\ \A t \in Tokens : ~Prepared(t)'
    BY <1>0, <1>1, <1>4, <2>1, RemovedIntent DEF Coherent, Prepared
  <2> QED BY <1>0, <1>4, <2>2 DEF FilesInv
<1>5. ASSUME db = None, UNCHANGED <<db, live, aside, phase, listed>>, token' = None,
             pc' \in {"idle", "unshelve"}, pc' = "unshelve" => job' = "reset",
             \A t \in Tokens : Prepared(t) => t \notin active'
      PROVE  FilesInv'
  <2>1. \A t \in Tokens : Prepared(t)' <=> Prepared(t)
    BY <1>5 DEF Prepared
  <2>2. ASSUME NEW t \in Tokens, Prepared(t)
        PROVE  OldWhole(t)' /\ Interrupted(t)'
    BY <1>5, <2>2 DEF FilesInv, OldWhole, Interrupted
  <2>3. Unprepared' => Coherent'
    BY <1>5, <2>1 DEF FilesInv, Unprepared, Coherent
  <2> QED BY <1>5, <2>1, <2>2, <2>3 DEF FilesInv
<1>6. CASE db = None /\ token = None /\ UNCHANGED <<db, files>> /\ Then("unshelve")
  <2>1. \A t \in Tokens : Prepared(t) => t \notin active
    BY <1>6, NamesAssumption DEF FilesInv, Interrupted, Owned
  <2>2. /\ token' = None /\ pc' \in {"idle", "unshelve"}
        /\ pc' = "unshelve" => job' = "reset"
    BY <1>0, <1>6 DEF Then, GoTo, Finish
  <2> QED BY <1>5, <1>6, <2>1, <2>2 DEF files
<1>7. CASE /\ db = None /\ token # None /\ Finish
           /\ UNCHANGED <<db, live, aside, phase, listed>>
           /\ active' = active \ {token}
  <2>1. token' = None /\ pc' = "idle"
    BY <1>0, <1>7 DEF Finish
  <2> QED BY <1>1, <1>5, <1>7, <2>1
<1> QED BY <1>2, <1>3, <1>4, <1>6, <1>7 DEF Undoes

\* A committed reset removes the files it moved and touches no other.
LEMMA DiscardsFiles ==
  ASSUME BaseInv, FilesInv, DiscardsOld
  PROVE  FilesInv'
<1>0. /\ pc = "discard" /\ TypeOK /\ Unprepared /\ token \in Tokens /\ db # None
      /\ phase[token] = "committed" /\ UNCHANGED db
  BY QuietPlaces DEF DiscardsOld, BaseInv, TypeOK, ControlInv, FilesInv
<1>1. CASE Discards(token) /\ UNCHANGED <<server, phase, listed, active>>
  BY <1>0, <1>1 DEF FilesInv, Unprepared, Coherent, Prepared, Discards, server
<1>2. CASE RemoveResetIntent(token) /\ Then("drop")
  <2>1. \A t \in Tokens : ~Prepared(t)'
    BY <1>0, <1>2, RemovedIntent DEF Unprepared, Prepared
  <2>2. live' = live /\ pc' \in {"drop", "idle", "micro", "sweep"}
    BY <1>0, <1>2, RemovedIntent DEF Then, GoTo, Finish
  <2> QED BY <1>0, <2>1, <2>2 DEF FilesInv, Coherent
<1>3. CASE Finish /\ UNCHANGED <<live, aside, phase, listed>>
  BY <1>0, <1>3, QuietFiles DEF Finish
<1> QED BY <1>1, <1>2, <1>3 DEF DiscardsOld

-----------------------------------------------------------------------------
(* Everything else leaves the files alone. *)

\* Requests that need the open library, and calls on the Vault folders.
LEMMA WorkFiles ==
  ASSUME BaseInv, FilesInv,
         \/ Reads \/ CreatesBook \/ ShelvesRoot \/ ShelvesFolder \/ Shelves \/ Drops
         \/ Empties \/ DeletesRow
         \/ BeginSweep \/ (\E c \in Cleanups : Sweeps(c)) \/ EndSweep
         \/ (Unshelves /\ job # "reset")
  PROVE  FilesInv'
<1>1. Unprepared
  BY QuietPlaces DEF Reads, CreatesBook, ShelvesRoot, ShelvesFolder, Shelves, Drops,
     Empties, DeletesRow, BeginSweep, Sweeps, EndSweep, Unshelves
<1>2. UNCHANGED <<live, phase, db>>
  BY DEF Reads, CreatesBook, ShelvesRoot, ShelvesFolder, Shelves, Drops, Unshelves,
     Empties, DeletesRow, BeginSweep, Sweeps, EndSweep, files
<1>a. job \in {"clear", "reset", "delete"} => Shelved \in {"list", "empty", "row"}
  BY ShelvedType
<1>b. pc = "shelve" => job \in {"clear", "reset", "delete"}
  BY DEF BaseInv, ControlInv
<1>3. pc' \in {"idle", "micro", "sweep", "list", "empty", "row", "shelve", "unshelve", "drop"}
  <2>1. Finish => pc' \in {"idle", "micro", "sweep"}
    BY DEF Finish
  <2>2. ASSUME NEW what, Shelve(what), job \in {"clear", "reset", "delete"}
        PROVE  pc' \in {"list", "empty", "row", "shelve", "idle", "micro", "sweep"}
    BY <1>a, <2>1, <2>2 DEF Shelve
  <2>3. CASE Reads \/ CreatesBook
    BY <2>1, <2>3 DEF Reads, CreatesBook
  <2>4. CASE ShelvesRoot \/ ShelvesFolder
    BY <2>2, <2>4 DEF ShelvesRoot, ShelvesFolder
  <2>5. CASE Shelves
    BY <1>a, <1>b, <2>1, <2>5 DEF Shelves, GoTo
  <2>6. CASE Drops \/ Unshelves
    BY <2>1, <2>6 DEF Drops, Unshelves, NothingAside, CallFails, server
  <2>7. CASE Empties \/ DeletesRow
    BY <2>1, <2>7 DEF Empties, DeletesRow, Then, GoTo
  <2>8. CASE BeginSweep \/ (\E c \in Cleanups : Sweeps(c)) \/ EndSweep
    BY <2>8 DEF BeginSweep, Sweeps, EndSweep
  <2> QED BY <2>3, <2>4, <2>5, <2>6, <2>7, <2>8
<1> QED BY <1>1, <1>2, <1>3, QuietFiles

\* Between requests, and while the server is down, an interrupted reset waits.
LEMMA RestFiles ==
  ASSUME BaseInv, FilesInv, UNCHANGED <<live, aside, phase, listed>>, token' = None, db' = None,
         pc' \in {"down", "idle", "unshelve", "reconcile"},
         pc' = "unshelve" => job' = "reset",
         \A t \in Tokens : Prepared(t) => /\ t \notin active'
                                          /\ pc' = "reconcile" => t \in left' /\ job' # "reset"
  PROVE  FilesInv'
<1>1. \A t \in Tokens : Prepared(t)' <=> Prepared(t)
  BY DEF Prepared
<1>2. ASSUME NEW t \in Tokens, Prepared(t)
      PROVE  OldWhole(t)' /\ Interrupted(t)'
  BY <1>2 DEF FilesInv, OldWhole, Interrupted
<1>3. Unprepared' => Coherent'
  BY <1>1 DEF FilesInv, Unprepared, Coherent
<1> QED BY <1>1, <1>2, <1>3 DEF FilesInv

\* Requests begin, the server dies and starts, and folders go back.
LEMMA RequestFiles ==
  ASSUME BaseInv, FilesInv, ~entangled',
         Requests \/ Crash \/ Start \/ (Unshelves /\ job = "reset")
  PROVE  FilesInv'
<1>0. TypeOK /\ ControlInv
  BY DEF BaseInv
<1>1. ASSUME NEW j \in {"read", "create", "clear"}, Asks(j)
      PROVE  FilesInv'
  <2>1. pc = "idle" /\ UNCHANGED <<db, files>> /\ job' = j
    BY <1>1 DEF Asks
  <2>2. CASE db = None
    <3>1. pc' = "reconcile" /\ left' = {t \in Tokens : phase'[t] # "none" /\ t \notin active'}
          /\ token' = token
      BY <1>1, <2>2 DEF Asks, BeginOpen
    <3>2. token = None
      BY <1>0, <2>1 DEF ControlInv
    <3>3. \A t \in Tokens : Prepared(t) => t \notin active
      BY <2>1 DEF FilesInv, Interrupted, Owned
    <3> QED BY <2>1, <2>2, <3>1, <3>2, <3>3, RestFiles DEF files, Prepared
  <2>3. CASE db # None
    <3>1. Unprepared
      BY <2>1, <2>3, QuietPlaces
    <3>2. pc' = "work"
      BY <1>1, <2>3 DEF Asks
    <3> QED BY <2>1, <3>1, <3>2, QuietFiles DEF files
  <2> QED BY <2>2, <2>3
<1>2. ASSUME NEW b \in Books, AsksToDelete(b)
      PROVE  FilesInv'
  <2>1. Unprepared
    BY <1>2, QuietPlaces DEF AsksToDelete
  <2> QED BY <1>2, <2>1, QuietFiles DEF AsksToDelete, files
<1>3. CASE AsksForReset
  <2>1. Unprepared /\ pc' = "work" /\ phase' = phase /\ Closes
    BY <1>3 DEF AsksForReset, Unprepared, Prepared, Closes, files
  <2>2. Coherent /\ db' = None
    BY <2>1 DEF FilesInv, Closes
  <2>3. Coherent'
    <3>1. CASE live' = live
      BY <2>2, <3>1 DEF Coherent
    <3>2. CASE \E gone \in SUBSET Sidecars :
                 live' = [a \in Artifacts |-> IF a \in gone THEN None ELSE live[a]]
      BY <2>2, <3>2, NamesAssumption DEF Coherent, Artifacts
    <3> QED BY <2>1, <3>1, <3>2 DEF Closes, files
  <2> QED BY <2>1, <2>2, <2>3 DEF FilesInv, Unprepared, Prepared
<1>4. ASSUME NEW b \in Books, MakesFolder(b)
      PROVE  FilesInv'
  BY <1>4 DEF MakesFolder, server, files, FilesInv, Unprepared, Coherent, Prepared, OldWhole,
     Interrupted, Owned, AllMoved, Stale
<1>5. CASE Crash
  <2>1. /\ UNCHANGED <<live, aside, phase, listed>> /\ token' = None /\ db' = None
        /\ pc' = "down" /\ active' = {}
    BY <1>5 DEF Crash
  <2> QED BY <2>1, RestFiles
<1>6. CASE Start
  <2>1. /\ UNCHANGED <<live, aside, phase, listed, active, token, db>>
        /\ pc = "down" /\ pc' = "idle"
    BY <1>6 DEF Start, files
  <2>2. token = None /\ db = None
    BY <1>0, <2>1 DEF ControlInv
  <2>3. \A t \in Tokens : Prepared(t) => t \notin active
    BY <2>1 DEF FilesInv, Interrupted, Owned
  <2> QED BY <2>1, <2>2, <2>3, RestFiles
<1>7. CASE Unshelves /\ job = "reset"
  <2>1. /\ UNCHANGED <<db, live, aside, phase, listed, active>> /\ pc = "unshelve"
        /\ UNCHANGED server \/ Finish
    BY <1>7 DEF Unshelves, files, NothingAside, CallFails
  <2>2. token = None
    BY <1>0, <2>1 DEF ControlInv
  <2>3. CASE db = None
    <3>1. \A t \in Tokens : Prepared(t) => t \notin active
      BY <2>1 DEF FilesInv, Interrupted, Owned
    <3>2. ~micro
      BY <1>0, <2>3 DEF ControlInv
    <3>3. token' = None /\ pc' \in {"unshelve", "idle"} /\ (pc' = "unshelve" => job' = "reset")
      BY <1>7, <2>1, <2>2, <3>2 DEF server, Finish
    <3> QED BY <2>1, <2>3, <3>1, <3>3, RestFiles
  <2>4. CASE db # None
    <3>1. Unprepared
      BY <2>1, <2>4 DEF FilesInv, Unprepared, Interrupted, Owned
    <3>2. pc' \in {"unshelve", "idle", "micro", "sweep"}
      BY <2>1 DEF server, Finish
    <3> QED BY <2>1, <3>1, <3>2, QuietFiles
  <2> QED BY <2>3, <2>4
<1> QED BY <1>1, <1>2, <1>3, <1>4, <1>5, <1>6, <1>7 DEF Requests

-----------------------------------------------------------------------------
(* The whole of it. *)

\* Nothing disentangles the resets: a failed undo and a reset that finds an
\* interrupted one leave that to the author for good.
LEMMA EntangledStays == [Next]_vars /\ ~entangled' => ~entangled
<1>1. NoFault \/ UNCHANGED entangled => (~entangled' => ~entangled)
  BY DEF NoFault, ghosts
<1>2. ASSUME Works, ~entangled' PROVE ~entangled
  <2>1. (\E t \in Tokens : Reconciles(t)) => NoFault \/ UNCHANGED entangled
    BY DEF Reconciles
  <2>2. Opens \/ OpenFails => NoFault \/ UNCHANGED entangled
    BY DEF Opens, OpenFails
  <2>3. Reads \/ CreatesBook \/ ShelvesRoot \/ ShelvesFolder => NoFault \/ UNCHANGED entangled
    BY DEF Reads, CreatesBook, ShelvesRoot, ShelvesFolder, Shelve
  <2>4. Shelves \/ Unshelves \/ Drops => NoFault \/ UNCHANGED entangled
    BY DEF Shelves, Unshelves, Drops, NothingAside, CallFails
  <2>5. Empties \/ DeletesRow => NoFault \/ UNCHANGED entangled
    BY DEF Empties, DeletesRow
  <2>6. Lists \/ Moves \/ Commits \/ DiscardsOld => NoFault \/ UNCHANGED entangled
    BY DEF Lists, Moves, Commits, DiscardsOld
  <2>7. Unmoves \/ Undoes => NoFault \/ UNCHANGED entangled \/ entangled' = TRUE
    BY DEF Unmoves, Undoes
  <2>8. BeginSweep \/ (\E c \in Cleanups : Sweeps(c)) \/ EndSweep => NoFault
    BY DEF BeginSweep, Sweeps, EndSweep
  <2> QED
    BY <1>1, <1>2, <2>1, <2>2, <2>3, <2>4, <2>5, <2>6, <2>7, <2>8 DEF Works
<1>3. ASSUME Requests, ~entangled' PROVE ~entangled
  <2>1. (\E j \in {"read", "create", "clear"} : Asks(j)) => NoFault
    BY DEF Asks
  <2>2. (\E b \in Books : AsksToDelete(b)) \/ (\E b \in Books : MakesFolder(b)) => NoFault
    BY DEF AsksToDelete, MakesFolder
  <2>3. AsksForReset => ~entangled
    BY <1>3 DEF AsksForReset
  <2> QED BY <1>1, <1>3, <2>1, <2>2, <2>3 DEF Requests
<1>4. Crash \/ Start \/ UNCHANGED vars => (~entangled' => ~entangled)
  BY DEF Crash, Start, vars, ghosts
<1> QED BY <1>2, <1>3, <1>4 DEF Next

IInv == BaseInv /\ (~entangled => FilesInv)

LEMMA IInvStep == IInv /\ [Next]_vars => IInv'
<1> SUFFICES ASSUME IInv, [Next]_vars, ~entangled' PROVE FilesInv'
  BY BaseStep DEF IInv
<1>1. BaseInv /\ FilesInv
  BY EntangledStays DEF IInv
<1>2. CASE UNCHANGED vars
  BY <1>1, <1>2 DEF vars, server, files, FilesInv, Unprepared, Coherent, Prepared, OldWhole,
     Interrupted, Owned, AllMoved, Stale
<1>3. CASE Works
  <2>1. CASE Unshelves
    BY <1>1, <2>1, WorkFiles, RequestFiles
  <2> QED
    BY <1>1, <1>3, <2>1, ReconcilesFiles, OpensFiles, OpenFailsFiles, ListsFiles, MovesFiles,
       UnmovesFiles, CommitsFiles, UndoesFiles, DiscardsFiles, WorkFiles DEF Works
<1>4. CASE Requests \/ Crash \/ Start
  BY <1>1, <1>4, RequestFiles
<1> QED BY <1>2, <1>3, <1>4 DEF Next

\* A first start finds no intent, and the files of one library or none.
LEMMA IInvInit == Init => IInv
<1> SUFFICES ASSUME Init PROVE FilesInv
  BY BaseInit DEF IInv
<1>1. Unprepared /\ token = None /\ db = None /\ pc = "down"
  BY DEF Init, Unprepared, Prepared
<1>2. PICK g \in Libraries, old \in SUBSET Artifacts :
        /\ old = {} \/ Main \in old
        /\ live = [a \in Artifacts |-> IF a \in old THEN g ELSE None]
  BY DEF Init
<1>3. Coherent
  BY <1>2 DEF Coherent, Artifacts
<1> QED BY <1>1, <1>3 DEF FilesInv, Unprepared

LEMMA IInvHolds == Spec => []IInv
<1> QED BY IInvInit, IInvStep, PTL DEF Spec

\* The author never works on a library that the next start would replace, or
\* beside a file of another one: where requests run no prepared intent is on
\* the disk, and then the files are those of the open library.
THEOREM OpenLibraryIsCurrent == Spec => []OpenIsCurrent
<1>1. IInv => OpenIsCurrent
  <2> SUFFICES ASSUME IInv, db # None, pc \in {"idle", "work", "micro", "sweep"}, ~entangled
               PROVE  db = Current /\ \A a \in Sidecars : live[a] \in {None, db}
    BY DEF OpenIsCurrent
  <2>1. FilesInv
    BY DEF IInv
  <2>2. Unprepared
    BY <2>1, QuietPlaces
  <2>3. live[Main] = db /\ Coherent
    BY <2>1 DEF FilesInv
  <2>4. Current = live[Main]
    BY <2>2 DEF Current, Unprepared, Prepared
  <2> QED BY <2>3, <2>4 DEF Coherent, Artifacts
<1> QED BY <1>1, IInvHolds, PTL

\* Whatever fails and whenever the server dies, a reset that has not committed
\* has lost no file of the old library.
THEOREM PreparedIsKept == Spec => []PreparedKeepsOld
<1>1. IInv => PreparedKeepsOld
  <2> SUFFICES ASSUME IInv, ~entangled, NEW t \in Tokens, phase[t] = "prepared"
               PROVE  \E g \in Libraries : \A a \in listed[t] : g \in {live[a], aside[t][a]}
    BY DEF PreparedKeepsOld
  <2>1. OldWhole(t)
    BY DEF IInv, FilesInv, Prepared
  <2>2. PICK g \in Libraries : \A a \in listed[t] :
               aside[t][a] = g \/ (aside[t][a] = None /\ live[a] = g)
    BY <2>1 DEF OldWhole
  <2> QED BY <2>2
<1> QED BY <1>1, IInvHolds, PTL

-----------------------------------------------------------------------------
(* The books the author keeps, for the refinement of LibraryShelf. *)

\* The old library of reset t is under the name the reset gave it.
Away(t) == Prepared(t) /\ aside[t][Main] # None

InPlace == IF live[Main] = None THEN {} ELSE rows[live[Main]]

\* Whose books are kept: those of the library that is away, else of the one
\* in place.
LEMMA KeptIs ==
  ASSUME TypeOK, FilesInv
  PROVE  /\ \A t \in Tokens : Away(t) => Kept = rows[aside[t][Main]]
         /\ (\A t \in Tokens : ~Away(t)) => Kept = InPlace
<1>1. ASSUME NEW t \in Tokens, Away(t)
      PROVE  Kept = rows[aside[t][Main]]
  <2>1. \A u \in Tokens : phase[u] = "prepared" /\ aside[u][Main] # None => u = t
    BY <1>1 DEF FilesInv, Away, Prepared
  <2>2. phase[t] = "prepared" /\ aside[t][Main] # None
    BY <1>1 DEF Away, Prepared
  <2>3. (CHOOSE u \in Tokens : phase[u] = "prepared" /\ aside[u][Main] # None) = t
    BY <2>1, <2>2
  <2>4. Current = aside[t][Main]
    BY <2>2, <2>3 DEF Current
  <2> QED BY <2>2, <2>4 DEF Kept
<1>2. (\A t \in Tokens : ~Away(t)) => Kept = InPlace
  BY DEF Away, Prepared, Current, Kept, InPlace
<1> QED BY <1>1, <1>2

\* The same after a step.
LEMMA KeptIsNext ==
  ASSUME FilesInv'
  PROVE  /\ \A t \in Tokens : Away(t)' => Kept' = rows'[aside'[t][Main]]
         /\ (\A t \in Tokens : ~Away(t)') => Kept' = InPlace'
<1>1. ASSUME NEW t \in Tokens, Away(t)'
      PROVE  Kept' = rows'[aside'[t][Main]]
  <2>1. \A u \in Tokens : phase'[u] = "prepared" /\ aside'[u][Main] # None => u = t
    BY <1>1 DEF FilesInv, Away, Prepared
  <2>2. phase'[t] = "prepared" /\ aside'[t][Main] # None
    BY <1>1 DEF Away, Prepared
  <2>3. (CHOOSE u \in Tokens : phase'[u] = "prepared" /\ aside'[u][Main] # None) = t
    BY <2>1, <2>2
  <2>4. Current' = aside'[t][Main]
    BY <2>2, <2>3 DEF Current
  <2> QED BY <2>2, <2>4 DEF Kept
<1>2. (\A t \in Tokens : ~Away(t)') => Kept' = InPlace'
  BY DEF Away, Prepared, Current, Kept, InPlace
<1> QED BY <1>1, <1>2

\* A step that moves no main file and writes no row keeps the books.
LEMMA KeptSame ==
  ASSUME TypeOK, FilesInv, FilesInv', UNCHANGED rows, live'[Main] = live[Main],
         \A t \in Tokens : (Away(t) <=> Away(t)') /\ (Away(t) => aside'[t][Main] = aside[t][Main])
  PROVE  Kept' = Kept
<1>1. CASE \E t \in Tokens : Away(t)
  BY <1>1, KeptIs, KeptIsNext
<1>2. CASE \A t \in Tokens : ~Away(t)
  <2>1. Kept = InPlace /\ Kept' = InPlace'
    BY <1>2, KeptIs, KeptIsNext
  <2> QED BY <2>1 DEF InPlace
<1> QED BY <1>1, <1>2

\* In particular one that moves nothing at all.
LEMMA KeptStill ==
  ASSUME TypeOK, FilesInv, FilesInv', UNCHANGED <<rows, aside, phase>>, live'[Main] = live[Main]
  PROVE  Kept' = Kept
<1>1. \A t \in Tokens : (Away(t) <=> Away(t)') /\ aside'[t][Main] = aside[t][Main]
  BY DEF Away, Prepared
<1> QED BY <1>1, KeptSame

\* The author's request is served or given up by the step that ends it, and a
\* new one is made only when there is none.
Resigns ==
  \/ Asked' = Asked
  \/ Asked' = None
  \/ Asked = None /\ Asked' \in {"add", "empty"} \cup Books

LEMMA AskedStays ==
  ASSUME TypeOK, ControlInv, [Next]_vars
  PROVE  Resigns
<1> USE DEF Resigns
<1>0. /\ pc \in {"down", "idle", "reconcile", "work", "shelve", "unshelve", "drop",
                 "empty", "row", "list", "move", "unmove", "commit", "undo",
                 "discard", "micro", "sweep"}
      /\ job \in {"none", "read", "create", "clear", "delete", "reset", "sweep"}
  BY DEF TypeOK
<1>a. Finish => Asked' = None
  BY DEF Finish, Asked
<1>b. UNCHANGED <<pc, job, book>> => Asked' = Asked
  BY DEF Asked
<1>c. UNCHANGED server => Asked' = Asked
  BY <1>b DEF server
<1>d. UNCHANGED <<job, book>> /\ pc' \in {"undo", "unmove", "discard"} /\ job = "reset" =>
        Asked' = None
  BY DEF Asked
<1>e. ASSUME NEW where \in {"drop", "unshelve"}, Then(where), job \in {"clear", "delete", "reset"}
      PROVE  Asked' = None
  BY <1>a, <1>e DEF Then, GoTo, Asked
<1>1. CASE Reads
  BY <1>1, <1>a DEF Reads
<1>2. CASE CreatesBook
  BY <1>2, <1>a DEF CreatesBook
<1>3. ASSUME NEW what, Shelve(what), pc = "work", job \in {"clear", "reset", "delete"}
      PROVE  Resigns
  <2>1. Finish \/ (UNCHANGED <<job, book>> /\ pc' \in {Shelved, "shelve"})
    BY <1>3 DEF Shelve
  <2> QED BY <1>3, <1>a, <2>1 DEF Shelved, Asked
<1>4. CASE ShelvesRoot \/ ShelvesFolder
  BY <1>3, <1>4 DEF ShelvesRoot, ShelvesFolder
<1>5. CASE Shelves
  <2>1. pc = "shelve" /\ job \in {"clear", "reset", "delete"}
    BY <1>5 DEF Shelves, ControlInv
  <2>2. Finish \/ GoTo(Shelved)
    BY <1>5 DEF Shelves
  <2> QED BY <1>a, <2>1, <2>2 DEF Shelved, Asked, GoTo
<1>6. CASE Unshelves
  BY <1>6, <1>a, <1>c DEF Unshelves, NothingAside, CallFails
<1>7. CASE Drops
  BY <1>7, <1>a, <1>c DEF Drops, NothingAside, CallFails
<1>8. CASE Empties
  BY <1>8, <1>e DEF Empties, ControlInv
<1>9. CASE DeletesRow
  BY <1>9, <1>e DEF DeletesRow, ControlInv
<1>10. CASE Opens
  BY <1>0, <1>10 DEF Opens, Opened, Asked, ControlInv
<1>11. CASE OpenFails
  BY <1>11, <1>d DEF OpenFails, Asked
<1>12. CASE Moves
  BY <1>12, <1>b, <1>d DEF Moves, BeginOpen, Asked, ControlInv
<1>13. CASE Unmoves
  BY <1>13, <1>b, <1>d DEF Unmoves, ControlInv
<1>14. CASE Commits
  BY <1>14, <1>d DEF Commits, GoTo, ControlInv
<1>15. CASE Undoes
  BY <1>15, <1>a, <1>b, <1>c, <1>e DEF Undoes, ControlInv
<1>16. CASE DiscardsOld
  BY <1>16, <1>a, <1>c, <1>e DEF DiscardsOld, ControlInv
<1>17. CASE BeginSweep \/ EndSweep
  BY <1>17 DEF BeginSweep, EndSweep, Asked
<1>18. CASE AsksForReset
  BY <1>18 DEF AsksForReset, Asked, ControlInv
<1>19. CASE Crash
  BY <1>19 DEF Crash, Asked
<1>20. CASE Start
  BY <1>20 DEF Start, Asked, ControlInv
<1>21. CASE Lists
  BY <1>21, <1>d DEF Lists, Asked, ControlInv
<1>22. ASSUME NEW t \in Tokens, Reconciles(t)
      PROVE  Resigns
  BY <1>22, <1>b DEF Reconciles
<1>23. ASSUME NEW c \in Cleanups, Sweeps(c)
      PROVE  Resigns
  <2>1. pc = "sweep" /\ pc' \in {"sweep", "unshelve", "drop"} /\ UNCHANGED <<job, book>>
    BY <1>23 DEF Sweeps
  <2> QED BY <2>1 DEF Asked
<1>24. ASSUME NEW j \in {"read", "create", "clear"}, Asks(j)
      PROVE  Resigns
  <2>1. job = "none" /\ job' = j /\ pc' \in {"reconcile", "work"}
    BY <1>24 DEF Asks, BeginOpen, ControlInv
  <2> QED BY <2>1 DEF Asked
<1>25. ASSUME NEW b \in Books, AsksToDelete(b)
      PROVE  Resigns
  BY <1>25 DEF AsksToDelete, Asked, ControlInv
<1>26. ASSUME NEW b \in Books, MakesFolder(b)
      PROVE  Resigns
  BY <1>26, <1>c DEF MakesFolder
<1>27. CASE UNCHANGED vars
  BY <1>27, <1>c DEF vars
<1> QED BY <1>1, <1>2, <1>4, <1>5, <1>6, <1>7, <1>8, <1>9, <1>10, <1>11, <1>12, <1>13, <1>14, <1>15, <1>16, <1>17, <1>18, <1>19, <1>20, <1>21, <1>22, <1>23, <1>24, <1>25, <1>26, <1>27
        DEF Next, Works, Requests

\* What the books need beyond the files: only a file its intent lists is
\* aside, and the library a reset has created holds no book.
ShelfInv ==
  /\ \A t \in Tokens, a \in Artifacts : aside[t][a] # None => a \in listed[t]
  /\ \A t \in Tokens : Prepared(t) /\ Main \in Stale(t) => rows[live[Main]] = {}

\* Most steps touch neither intents, main file nor rows.
LEMMA BooksStill ==
  ASSUME TypeOK, FilesInv, FilesInv', ShelfInv,
         UNCHANGED <<rows, aside, phase, listed>>, live'[Main] = live[Main]
  PROVE  ShelfInv' /\ Kept' = Kept
<1>1. ShelfInv'
  BY DEF ShelfInv, Prepared, Stale
<1> QED BY <1>1, KeptStill

\* A rollback removes the main file of an empty library only, and renames back
\* the one whose books were kept.
LEMMA PutsBackBooks ==
  ASSUME TypeOK, FilesInv, FilesInv', ShelfInv, NEW t \in Tokens, Prepared(t), PutsBack(t),
         UNCHANGED <<rows, phase, listed>>
  PROVE  ShelfInv' /\ Kept' = Kept
<1>0. /\ live \in [Artifacts -> Libraries \cup {None}] /\ Main \in Artifacts
      /\ aside \in [Tokens -> [Artifacts -> Libraries \cup {None}]]
      /\ listed[t] \subseteq Artifacts
  BY DEF TypeOK, Artifacts
<1>1. \A u \in Tokens : (Prepared(u) <=> u = t) /\ (Prepared(u)' <=> u = t)
  BY DEF FilesInv, Prepared
<1>2. CASE \E a \in Stale(t) : live' = [live EXCEPT ![a] = None] /\ UNCHANGED aside
  <2>1. PICK a \in Stale(t) : live' = [live EXCEPT ![a] = None] /\ UNCHANGED aside
    BY <1>2
  <2>2. CASE a # Main
    <3>1. live'[Main] = live[Main]
      BY <1>0, <2>1, <2>2
    <3> QED BY <2>1, <3>1, BooksStill
  <2>3. CASE a = Main
    <3>1. live'[Main] = None /\ rows[live[Main]] = {}
      BY <1>0, <2>1, <2>3 DEF ShelfInv
    <3>2. ShelfInv'
      BY <2>1, <3>1 DEF ShelfInv, Stale
    <3>3. CASE Away(t)
      <4>1. Away(t)'
        BY <1>1, <2>1, <3>3 DEF Away
      <4> QED BY <2>1, <3>2, <3>3, <4>1, KeptIs, KeptIsNext
    <3>4. CASE ~Away(t)
      <4>1. \A u \in Tokens : ~Away(u) /\ ~Away(u)'
        BY <1>1, <2>1, <3>4 DEF Away
      <4>2. Kept = InPlace /\ Kept' = InPlace'
        BY <4>1, KeptIs, KeptIsNext
      <4> QED BY <3>1, <3>2, <4>2 DEF InPlace
    <3> QED BY <3>3, <3>4
  <2> QED BY <2>2, <2>3
<1>3. CASE \E a \in listed[t] : /\ aside[t][a] # None
                                /\ live' = [live EXCEPT ![a] = aside[t][a]]
                                /\ aside' = [aside EXCEPT ![t][a] = None]
  <2>1. PICK a \in listed[t] : /\ aside[t][a] # None
                               /\ live' = [live EXCEPT ![a] = aside[t][a]]
                               /\ aside' = [aside EXCEPT ![t][a] = None]
    BY <1>3
  <2>2. /\ \A u \in Tokens, b \in Artifacts : ~(u = t /\ b = a) => aside'[u][b] = aside[u][b]
        /\ aside'[t][a] = None /\ live'[a] = aside[t][a]
        /\ \A b \in Artifacts : b # a => live'[b] = live[b]
    BY <1>0, <2>1
  <2>3. \A u \in Tokens, b \in Artifacts : aside'[u][b] # None => b \in listed'[u]
    BY <2>2 DEF ShelfInv
  <2>4. CASE a # Main
    <3>1. live'[Main] = live[Main] /\ \A u \in Tokens : aside'[u][Main] = aside[u][Main]
      BY <1>0, <2>2, <2>4
    <3>2. \A u \in Tokens : Prepared(u)' /\ Main \in Stale(u)' => rows'[live'[Main]] = {}
      BY <1>1, <3>1 DEF ShelfInv, Stale
    <3>3. Kept' = Kept
      BY <1>1, <3>1, KeptSame DEF Away
    <3> QED BY <2>3, <3>2, <3>3 DEF ShelfInv
  <2>5. CASE a = Main
    <3>1. Main \notin Stale(t)'
      BY <2>1, <2>2, <2>5 DEF Stale
    <3>2. \A u \in Tokens : ~Away(u)'
      BY <1>1, <2>2, <2>5 DEF Away
    <3>3. Kept = rows[aside[t][Main]] /\ Kept' = InPlace'
      BY <2>1, <2>5, <3>2, KeptIs, KeptIsNext DEF Away
    <3>4. live'[Main] = aside[t][Main] /\ aside[t][Main] # None
      BY <2>1, <2>2, <2>5
    <3>5. Kept' = Kept
      BY <3>3, <3>4 DEF InPlace
    <3> QED BY <1>1, <2>3, <3>1, <3>5 DEF ShelfInv
  <2> QED BY <2>4, <2>5
<1> QED BY <1>2, <1>3 DEF PutsBack

\* An intent is removed when nothing is aside under it.
LEMMA RemovedBooks ==
  ASSUME TypeOK, FilesInv, FilesInv', ShelfInv, NEW t \in Tokens, RemoveResetIntent(t),
         \A a \in listed[t] : aside[t][a] = None, UNCHANGED rows
  PROVE  ShelfInv' /\ Kept' = Kept
<1>0. /\ Main \in Artifacts /\ UNCHANGED <<live, aside>> /\ phase'[t] = "none"
      /\ \A u \in Tokens : u # t => phase'[u] = phase[u] /\ listed'[u] = listed[u]
  BY RemovedIntent DEF Artifacts
<1>1. \A a \in Artifacts : aside[t][a] = None
  BY DEF ShelfInv
<1>2. \A u \in Tokens : (Away(u) <=> Away(u)') /\ aside'[u][Main] = aside[u][Main]
  BY <1>0, <1>1 DEF Away, Prepared
<1>3. ShelfInv'
  BY <1>0, <1>1 DEF ShelfInv, Prepared, Stale
<1> QED BY <1>0, <1>2, <1>3, KeptSame

\* The files of a committed reset are nobody's books.
LEMMA DiscardsBooks ==
  ASSUME TypeOK, FilesInv, FilesInv', ShelfInv, NEW t \in Tokens, phase[t] = "committed",
         Discards(t), UNCHANGED <<rows, phase, listed>>
  PROVE  ShelfInv' /\ Kept' = Kept
<1>0. live' = live /\ aside \in [Tokens -> [Artifacts -> Libraries \cup {None}]]
  BY DEF Discards, TypeOK
<1>1. /\ \A u \in Tokens : u # t => aside'[u] = aside[u]
      /\ \A a \in Artifacts : aside'[t][a] \in {None, aside[t][a]}
  BY <1>0 DEF Discards
<1>2. \A u \in Tokens : (Away(u) <=> Away(u)') /\ (Away(u) => aside'[u][Main] = aside[u][Main])
  BY <1>1 DEF Away, Prepared
<1>3. ShelfInv'
  BY <1>0, <1>1 DEF ShelfInv, Prepared, Stale
<1> QED BY <1>0, <1>2, <1>3, KeptSame

\* A library is created where nothing is in place, and is empty.
LEMMA CreatesBooks ==
  ASSUME BaseInv, FilesInv, FilesInv', ShelfInv, live[Main] = None,
         NEW g \in FreshLibraries, Creates(g)
  PROVE  ShelfInv' /\ Kept' = Kept
<1>0. /\ TypeOK /\ Main \in Artifacts /\ UNCHANGED <<aside, phase, listed>> /\ g \in Libraries
      /\ rows' = [rows EXCEPT ![g] = {}] /\ live'[Main] = g
      /\ rows \in [Libraries -> SUBSET Books]
  BY DEF Creates, BaseInv, TypeOK, Artifacts, FreshLibraries
<1>1. rows'[g] = {} /\ \A h \in Libraries : h # g => rows'[h] = rows[h]
  BY <1>0
<1>2. ShelfInv'
  BY <1>0, <1>1 DEF ShelfInv, Prepared
<1>3. ASSUME NEW t \in Tokens, Away(t)
      PROVE  Kept' = Kept
  <2>1. Away(t)' /\ aside'[t][Main] = aside[t][Main]
    BY <1>0, <1>3 DEF Away, Prepared
  <2>2. aside[t][Main] \in Libraries /\ aside[t][Main] # g
    BY <1>0, <1>3 DEF Away, FreshLibraries, TypeOK
  <2> QED BY <1>0, <1>1, <1>3, <2>1, <2>2, KeptIs, KeptIsNext
<1>4. CASE \A t \in Tokens : ~Away(t)
  <2>1. \A t \in Tokens : ~Away(t)'
    BY <1>0, <1>4 DEF Away, Prepared
  <2>2. Kept = InPlace /\ Kept' = InPlace'
    BY <1>0, <1>4, <2>1, KeptIs, KeptIsNext
  <2>3. Kept = {}
    BY <2>2 DEF InPlace
  <2>4. InPlace' = {}
    <3>1. live'[Main] = g /\ rows'[g] = {}
      BY <1>0, <1>1
    <3> QED BY <3>1 DEF InPlace
  <2> QED BY <1>2, <2>2, <2>3, <2>4
<1> QED BY <1>2, <1>3, <1>4

\* The identity of a new database.
LEMMA FreshChosen ==
  FreshLibraries # {} => (CHOOSE g \in FreshLibraries : TRUE) \in FreshLibraries
  OBVIOUS

\* Opening or failing to open a library changes no book.
LEMMA OpensBooks ==
  ASSUME BaseInv, FilesInv, FilesInv', ShelfInv, Opens \/ OpenFails
  PROVE  ShelfInv' /\ Kept' = Kept
<1>0. TypeOK /\ live \in [Artifacts -> Libraries \cup {None}] /\ Main \in Artifacts
  BY DEF BaseInv, TypeOK, Artifacts
<1>1. CASE \E new \in SUBSET Sidecars :
             /\ live' = [a \in Artifacts |-> IF a \in new THEN db' ELSE live[a]]
             /\ UNCHANGED <<aside, phase, listed, data>>
  <2>1. live'[Main] = live[Main] /\ UNCHANGED rows
    BY <1>0, <1>1, NamesAssumption DEF data
  <2> QED BY <1>0, <1>1, <2>1, BooksStill
<1>2. CASE live[Main] = None /\ \E g \in FreshLibraries : Creates(g)
  BY <1>2, CreatesBooks
<1>3. CASE UNCHANGED <<files, data>>
  BY <1>0, <1>3, BooksStill DEF files, data
<1>4. CASE Opens
  BY <1>1, <1>2, <1>4, FreshChosen DEF Opens
<1>5. CASE OpenFails
  BY <1>2, <1>3, <1>5, FreshChosen DEF OpenFails
<1> QED BY <1>4, <1>5

\* The reconciliation of a start brings the author's books back, or drops
\* what a committed reset left.
LEMMA ReconcilesBooks ==
  ASSUME BaseInv, FilesInv, FilesInv', ShelfInv, NEW t \in Tokens, Reconciles(t)
  PROVE  ShelfInv' /\ Kept' = Kept
<1>0. TypeOK /\ UNCHANGED rows
  BY DEF BaseInv, Reconciles, data
<1>1. CASE phase[t] = "prepared" /\ PutsBack(t) /\ UNCHANGED <<phase, listed>>
  BY <1>0, <1>1, PutsBackBooks DEF Prepared
<1>2. CASE RemoveResetIntent(t) /\ (PutBack(t) \/ \A a \in listed[t] : aside[t][a] = None)
  BY <1>0, <1>2, RemovedBooks DEF PutBack
<1>3. CASE phase[t] = "committed" /\ Discards(t) /\ UNCHANGED <<phase, listed>>
  BY <1>0, <1>3, DiscardsBooks
<1>4. CASE UNCHANGED files
  BY <1>0, <1>4, BooksStill DEF files
<1> QED BY <1>1, <1>2, <1>3, <1>4 DEF Reconciles

\* An intent that has been written moves nothing yet.
LEMMA ListsBooks ==
  ASSUME BaseInv, FilesInv, FilesInv', ShelfInv, Lists
  PROVE  ShelfInv' /\ Kept' = Kept
<1>0. /\ TypeOK /\ UNCHANGED <<rows, live, aside>> /\ Unprepared /\ Main \in Artifacts
      /\ phase \in [Tokens -> {"none", "prepared", "committed"}]
      /\ listed \in [Tokens -> SUBSET Artifacts]
  BY QuietPlaces DEF BaseInv, TypeOK, Lists, data, Artifacts
<1>1. CASE UNCHANGED <<phase, listed>>
  BY <1>0, <1>1, BooksStill
<1>2. CASE /\ FreeTokens # {}
           /\ token' = CHOOSE t \in FreeTokens : TRUE
           /\ phase' = [phase EXCEPT ![token'] = "prepared"]
           /\ listed' = [listed EXCEPT ![token'] = {a \in Artifacts : live[a] # None}]
  <2>1. PICK t \in Tokens : t = token' /\ \A a \in Artifacts : aside[t][a] = None
    BY <1>2, Chosen DEF FreeTokens
  <2>2. /\ \A u \in Tokens : u # t => phase'[u] = phase[u] /\ listed'[u] = listed[u]
        /\ listed'[t] = {a \in Artifacts : live[a] # None}
    BY <1>0, <1>2, <2>1
  <2>3. \A u \in Tokens : ~Away(u) /\ ~Away(u)'
    BY <1>0, <2>1, <2>2 DEF Away, Unprepared, Prepared
  <2>4. ShelfInv'
    BY <1>0, <2>1, <2>2 DEF ShelfInv, Unprepared, Prepared, Stale
  <2> QED BY <1>0, <2>3, <2>4, KeptSame
<1> QED BY <1>1, <1>2 DEF Lists

\* The main file that a reset moves takes its books along.
LEMMA MovesBooks ==
  ASSUME BaseInv, FilesInv, FilesInv', ShelfInv, Moves
  PROVE  ShelfInv' /\ Kept' = Kept
<1>0. /\ TypeOK /\ UNCHANGED <<rows, phase, listed>> /\ Main \in Artifacts /\ token # None
      /\ live \in [Artifacts -> Libraries \cup {None}]
      /\ aside \in [Tokens -> [Artifacts -> Libraries \cup {None}]]
      /\ listed \in [Tokens -> SUBSET Artifacts]
  BY DEF BaseInv, TypeOK, Moves, data, Artifacts, ControlInv
<1>1. CASE UNCHANGED <<live, aside>>
  BY <1>0, <1>1, BooksStill
<1>2. ASSUME NEW a \in listed[token], aside[token][a] = None,
             aside' = [aside EXCEPT ![token][a] = live[a]],
             live' = [live EXCEPT ![a] = None]
      PROVE  ShelfInv' /\ Kept' = Kept
  <2>1. /\ token \in Tokens /\ OldWhole(token) /\ Stale(token) = {}
        /\ \A t \in Tokens : Prepared(t) <=> t = token
    BY <1>0, OwnsIt DEF Moves, Owned
  <2>2. a \in Artifacts /\ live[a] # None
    BY <1>0, <1>2, <2>1, NamesAssumption DEF OldWhole
  <2>3. /\ \A u \in Tokens, b \in Artifacts : ~(u = token /\ b = a) => aside'[u][b] = aside[u][b]
        /\ aside'[token][a] = live[a] /\ live'[a] = None
        /\ \A b \in Artifacts : b # a => live'[b] = live[b]
    BY <1>0, <1>2, <2>1, <2>2
  <2>4. \A u \in Tokens : Prepared(u)' <=> u = token
    BY <1>0, <2>1 DEF Prepared
  <2>5. \A u \in Tokens, b \in Artifacts : aside'[u][b] # None => b \in listed'[u]
    BY <1>0, <1>2, <2>3 DEF ShelfInv
  <2>6. CASE a # Main
    <3>1. live'[Main] = live[Main] /\ \A u \in Tokens : aside'[u][Main] = aside[u][Main]
      BY <1>0, <2>3, <2>6
    <3>2. Main \notin Stale(token)
      BY <2>1
    <3>3. \A u \in Tokens : Prepared(u)' => ~(live'[Main] # None /\ ~(Main \in listed'[u] /\ aside'[u][Main] = None))
      BY <1>0, <2>4, <3>1, <3>2 DEF Stale
    <3>4. ShelfInv'
      BY <2>5, <3>3 DEF ShelfInv, Stale
    <3> QED BY <1>0, <2>1, <2>4, <3>1, <3>4, KeptSame DEF Away
  <2>7. CASE a = Main
    <3>1. ShelfInv'
      BY <2>3, <2>5, <2>7 DEF ShelfInv, Stale
    <3>2. \A u \in Tokens : ~Away(u)
      BY <1>2, <2>1, <2>7 DEF Away
    <3>3. PICK t \in Tokens : t = token
      BY <2>1
    <3>4. Away(t)' /\ aside'[t][Main] = live[Main]
      BY <2>2, <2>3, <2>4, <2>7, <3>3 DEF Away
    <3>5. Kept = InPlace /\ Kept' = rows'[aside'[t][Main]]
      BY <1>0, <3>2, <3>4, KeptIs, KeptIsNext
    <3>6. Kept' = rows[live[Main]] /\ live[Main] # None
      BY <1>0, <2>2, <2>7, <3>4, <3>5
    <3> QED BY <3>1, <3>5, <3>6 DEF InPlace
  <2> QED BY <2>6, <2>7
<1> QED BY <1>1, <1>2 DEF Moves

\* A reset that could not move everything puts back what it moved.
LEMMA UnmovesBooks ==
  ASSUME BaseInv, FilesInv, FilesInv', ShelfInv, Unmoves
  PROVE  ShelfInv' /\ Kept' = Kept
<1>0. TypeOK /\ UNCHANGED rows /\ token # None
  BY DEF BaseInv, Unmoves, data, ControlInv
<1>1. token \in Tokens /\ Prepared(token) /\ Stale(token) = {}
  BY <1>0, OwnsIt DEF Unmoves, Owned
<1>2. PICK t \in Tokens : t = token
  BY <1>1
<1>3. CASE UNCHANGED <<phase, listed>> /\
           \E a \in listed[t] : /\ aside[t][a] # None
                                /\ live' = [live EXCEPT ![a] = aside[t][a]]
                                /\ aside' = [aside EXCEPT ![t][a] = None]
  <2>1. PutsBack(t)
    BY <1>1, <1>2, <1>3 DEF PutsBack
  <2> QED BY <1>0, <1>1, <1>2, <1>3, <2>1, PutsBackBooks
<1>4. CASE RemoveResetIntent(t) /\ \A a \in listed[t] : aside[t][a] = None
  BY <1>0, <1>4, RemovedBooks
<1>5. CASE UNCHANGED <<live, aside, phase, listed>>
  BY <1>0, <1>5, BooksStill
<1> QED BY <1>2, <1>3, <1>4, <1>5 DEF Unmoves

\* So does the catch block.
LEMMA UndoesBooks ==
  ASSUME BaseInv, FilesInv, FilesInv', ShelfInv, Undoes
  PROVE  ShelfInv' /\ Kept' = Kept
<1>0. TypeOK /\ UNCHANGED rows /\ Main \in Artifacts
  BY DEF BaseInv, Undoes, data, Artifacts
<1>1. CASE Closes
  <2>1. UNCHANGED <<aside, phase, listed>> /\ live'[Main] = live[Main]
    BY <1>0, <1>1, NamesAssumption DEF Closes, files
  <2> QED BY <1>0, <2>1, BooksStill
<1>2. CASE UNCHANGED <<live, aside, phase, listed>>
  BY <1>0, <1>2, BooksStill
<1>3. ASSUME token # None
      PROVE  token \in Tokens /\ Prepared(token)
  BY <1>3, OwnsIt DEF Undoes
<1>4. ASSUME NEW t \in Tokens, t = token, Prepared(t), PutsBack(t), UNCHANGED <<phase, listed>>
      PROVE  ShelfInv' /\ Kept' = Kept
  BY <1>0, <1>4, PutsBackBooks
<1>5. ASSUME NEW t \in Tokens, PutBack(t), RemoveResetIntent(t)
      PROVE  ShelfInv' /\ Kept' = Kept
  BY <1>0, <1>5, RemovedBooks DEF PutBack
<1> QED BY <1>1, <1>2, <1>3, <1>4, <1>5 DEF Undoes, files

\* What a committed reset moved is removed.
LEMMA DiscardsOldBooks ==
  ASSUME BaseInv, FilesInv, FilesInv', ShelfInv, DiscardsOld
  PROVE  ShelfInv' /\ Kept' = Kept
<1>0. TypeOK /\ UNCHANGED rows /\ phase[token] = "committed" /\ token \in Tokens
  BY DEF BaseInv, TypeOK, DiscardsOld, data, ControlInv, FilesInv
<1>1. PICK t \in Tokens : t = token
  BY <1>0
<1>2. CASE Discards(t) /\ UNCHANGED <<phase, listed>>
  BY <1>0, <1>1, <1>2, DiscardsBooks
<1>3. CASE RemoveResetIntent(t) /\ \A a \in listed[t] : aside[t][a] = None
  BY <1>0, <1>3, RemovedBooks
<1>4. CASE UNCHANGED <<live, aside, phase, listed>>
  BY <1>0, <1>4, BooksStill
<1> QED BY <1>1, <1>2, <1>3, <1>4 DEF DiscardsOld

\* The rows change where no intent is prepared, in the open library.
LEMMA RowsBooks ==
  ASSUME TypeOK, FilesInv, FilesInv', ShelfInv, Unprepared, db # None,
         UNCHANGED <<db, live, aside, phase, listed>>,
         NEW bs, rows' = [rows EXCEPT ![db] = bs]
  PROVE  ShelfInv' /\ Kept = rows[db] /\ Kept' = bs
<1>1. /\ live[Main] = db /\ live'[Main] = db
      /\ db \in Libraries /\ rows \in [Libraries -> SUBSET Books]
  BY DEF FilesInv, TypeOK
<1>2. \A t \in Tokens : ~Away(t) /\ ~Away(t)' /\ ~Prepared(t)'
  BY DEF Away, Unprepared, Prepared
<1>3. ShelfInv'
  BY <1>2 DEF ShelfInv
<1>4. Kept = InPlace /\ Kept' = InPlace'
  BY <1>2, KeptIs, KeptIsNext
<1>5. rows'[db] = bs
  BY <1>1
<1> QED BY <1>1, <1>3, <1>4, <1>5 DEF InPlace

\* Without an open library the same assignment changes nothing.
LEMMA RowsNowhere ==
  ASSUME TypeOK, db = None, NEW bs, rows' = [rows EXCEPT ![db] = bs]
  PROVE  rows' = rows
  BY NamesAssumption DEF TypeOK

\* A book is added, removed, or all of them are, with the end of the request.
LEMMA ServesBooks ==
  ASSUME BaseInv, FilesInv, FilesInv', ShelfInv, CreatesBook \/ Empties \/ DeletesRow, Resigns
  PROVE  ShelfInv' /\ (Shelf!Next \/ (Kept' = Kept /\ Asked' = Asked))
<1>0. /\ TypeOK /\ ControlInv /\ Unprepared
      /\ UNCHANGED <<db, live, aside, phase, listed>>
  BY QuietPlaces DEF BaseInv, CreatesBook, Empties, DeletesRow, files
<1>a. Finish => Asked' = None
  BY DEF Finish, Asked
<1>b. job \in {"clear", "delete"} /\ Then("drop") => Asked' = None
  BY <1>a DEF Then, GoTo, Asked
<1>1. ASSUME UNCHANGED rows
      PROVE  ShelfInv' /\ (Shelf!Next \/ (Kept' = Kept /\ Asked' = Asked))
  <2>1. ShelfInv' /\ Kept' = Kept
    BY <1>0, <1>1, BooksStill
  <2>2. Asked' = Asked \/ Asked' = None \/ (Asked = None /\ Asked' \in {"add", "empty"} \cup Books)
    BY DEF Resigns
  <2> QED BY <2>1, <2>2 DEF Shelf!Next, Shelf!Ask, Shelf!GiveUp
<1>2. CASE CreatesBook
  <2>1. PICK b \in NewBooks : rows' = [rows EXCEPT ![db] = rows[db] \cup {b}]
    BY <1>2 DEF CreatesBook
  <2>2. CASE db = None
    BY <1>0, <1>1, <2>1, <2>2, RowsNowhere
  <2>3. CASE db # None
    <3>1. ShelfInv' /\ Kept = rows[db] /\ Kept' = rows[db] \cup {b}
      BY <1>0, <2>1, <2>3, RowsBooks
    <3>2. b \in Books \ rows[db]
      BY <1>0, <2>3 DEF NewBooks, TypeOK
    <3>3. Asked = "add" /\ Asked' = None
      BY <1>2, <1>a DEF CreatesBook, Asked
    <3> QED BY <3>1, <3>2, <3>3 DEF Shelf!Next, Shelf!Serve
  <2> QED BY <2>2, <2>3
<1>3. CASE Empties /\ rows' = [rows EXCEPT ![db] = {}] /\ Then("drop")
  <2>1. CASE db = None
    BY <1>0, <1>1, <1>3, <2>1, RowsNowhere
  <2>2. CASE db # None
    <3>1. ShelfInv' /\ Kept' = {}
      BY <1>0, <1>3, <2>2, RowsBooks
    <3>2. pc = "empty" /\ job = "clear"
      BY <1>0, <1>3 DEF Empties, ControlInv
    <3>3. Asked = "empty" /\ Asked' = None
      BY <1>3, <1>b, <3>2 DEF Asked
    <3> QED BY <3>1, <3>3 DEF Shelf!Next, Shelf!Serve
  <2> QED BY <2>1, <2>2
<1>4. CASE DeletesRow /\ rows' = [rows EXCEPT ![db] = rows[db] \ {book}] /\ Then("drop")
  <2>1. CASE db = None
    BY <1>0, <1>1, <1>4, <2>1, RowsNowhere
  <2>2. CASE db # None
    <3>1. ShelfInv' /\ Kept = rows[db] /\ Kept' = rows[db] \ {book}
      BY <1>0, <1>4, <2>2, RowsBooks
    <3>2. pc = "row" /\ job = "delete" /\ book \in Books
      BY <1>0, <1>4 DEF DeletesRow, ControlInv
    <3>3. Asked = book /\ Asked' = None
      BY <1>4, <1>b, <3>2 DEF Asked
    <3> QED BY <3>1, <3>2, <3>3 DEF Shelf!Next, Shelf!Serve
  <2> QED BY <2>1, <2>2
<1> QED BY <1>1, <1>2, <1>3, <1>4 DEF Empties, DeletesRow

\* With the commit of a reset the old library is given up for the new one,
\* which is empty.
LEMMA CommitsBooks ==
  ASSUME BaseInv, FilesInv, FilesInv', ShelfInv, Commits, Resigns
  PROVE  ShelfInv' /\ (Shelf!Next \/ (Kept' = Kept /\ Asked' = Asked))
<1>0. /\ TypeOK /\ pc = "commit" /\ db # None /\ token # None /\ job = "reset"
      /\ UNCHANGED <<db, live, aside, listed, rows>>
      /\ phase \in [Tokens -> {"none", "prepared", "committed"}]
  BY DEF BaseInv, ControlInv, Commits, data, TypeOK
<1>1. /\ token \in Tokens /\ Prepared(token) /\ AllMoved(token)
      /\ \A t \in Tokens : Prepared(t) <=> t = token
  BY <1>0, OwnsIt DEF Owned
<1>2. CASE UNCHANGED phase
  <2>1. ShelfInv' /\ Kept' = Kept
    BY <1>0, <1>2, BooksStill
  <2>2. Asked' = Asked \/ Asked' = None \/ (Asked = None /\ Asked' \in {"add", "empty"} \cup Books)
    BY DEF Resigns
  <2> QED BY <2>1, <2>2 DEF Shelf!Next, Shelf!Ask, Shelf!GiveUp
<1>3. CASE phase' = [phase EXCEPT ![token] = "committed"] /\ GoTo("discard")
  <2>1. \A t \in Tokens : ~Prepared(t)'
    BY <1>0, <1>1, <1>3 DEF Prepared
  <2>2. ShelfInv'
    BY <1>0, <2>1 DEF ShelfInv
  <2>3. Kept' = InPlace'
    BY <2>1, KeptIsNext DEF Away
  <2>4. live[Main] = db /\ Main \in Artifacts
    BY <1>0 DEF FilesInv, Artifacts
  <2>5. Main \in Stale(token)
    BY <1>0, <1>1, <2>4 DEF Stale, AllMoved
  <2>6. rows[live[Main]] = {}
    BY <1>1, <2>5 DEF ShelfInv
  <2>7. Kept' = {}
    BY <1>0, <2>3, <2>6 DEF InPlace
  <2>8. Asked = "empty" /\ Asked' = None
    BY <1>0, <1>3 DEF Asked, GoTo
  <2> QED BY <2>2, <2>7, <2>8 DEF Shelf!Next, Shelf!Serve
<1> QED BY <1>2, <1>3 DEF Commits

\* Everything else changes no row and no main file.
LEMMA OtherBooks ==
  ASSUME BaseInv, FilesInv, FilesInv', ShelfInv,
         \/ Reads \/ ShelvesRoot \/ ShelvesFolder \/ Shelves \/ Unshelves \/ Drops
         \/ BeginSweep \/ (\E c \in Cleanups : Sweeps(c)) \/ EndSweep
         \/ Requests \/ Crash \/ Start \/ UNCHANGED vars
  PROVE  ShelfInv' /\ Kept' = Kept
<1>0. TypeOK /\ Main \in Artifacts
  BY DEF BaseInv, TypeOK, Artifacts
<1>1. CASE UNCHANGED <<rows, live, aside, phase, listed>>
  BY <1>0, <1>1, BooksStill
<1>2. CASE AsksForReset
  <2>1. UNCHANGED <<aside, phase, listed, rows>> /\ live'[Main] = live[Main]
    BY <1>0, <1>2, NamesAssumption DEF AsksForReset, Closes, files, data
  <2> QED BY <1>0, <2>1, BooksStill
<1>3. Reads \/ ShelvesRoot \/ ShelvesFolder \/ Shelves \/ Unshelves \/ Drops =>
        UNCHANGED <<rows, live, aside, phase, listed>>
  BY DEF Reads, ShelvesRoot, ShelvesFolder, Shelves, Unshelves, Drops, files, data
<1>4. BeginSweep \/ (\E c \in Cleanups : Sweeps(c)) \/ EndSweep =>
        UNCHANGED <<rows, live, aside, phase, listed>>
  BY DEF BeginSweep, Sweeps, EndSweep, files, data
<1>5. Requests /\ ~AsksForReset => UNCHANGED <<rows, live, aside, phase, listed>>
  BY DEF Requests, Asks, AsksToDelete, MakesFolder, files, data
<1>6. Crash \/ Start \/ UNCHANGED vars => UNCHANGED <<rows, live, aside, phase, listed>>
  BY DEF Crash, Start, vars, files, data
<1> QED BY <1>1, <1>2, <1>3, <1>4, <1>5, <1>6

\* Every step is one of LibraryShelf or changes neither books nor request.
LEMMA ShelfStep ==
  ASSUME BaseInv, FilesInv, FilesInv', ShelfInv, [Next]_vars
  PROVE  ShelfInv' /\ [Shelf!Next]_<<Kept, Asked>>
<1>1. Resigns
  BY AskedStays DEF BaseInv
<1>2. ASSUME Kept' = Kept
      PROVE  [Shelf!Next]_<<Kept, Asked>>
  BY <1>1, <1>2 DEF Resigns, Shelf!Next, Shelf!Ask, Shelf!GiveUp
<1>3. CASE CreatesBook \/ Empties \/ DeletesRow \/ Commits
  BY <1>1, <1>3, ServesBooks, CommitsBooks
<1>4. CASE (\E t \in Tokens : Reconciles(t)) \/ Opens \/ OpenFails
  BY <1>2, <1>4, ReconcilesBooks, OpensBooks
<1>5. CASE Lists \/ Moves \/ Unmoves \/ Undoes \/ DiscardsOld
  BY <1>2, <1>5, ListsBooks, MovesBooks, UnmovesBooks, UndoesBooks, DiscardsOldBooks
<1>6. CASE \/ Reads \/ ShelvesRoot \/ ShelvesFolder \/ Shelves \/ Unshelves \/ Drops
           \/ BeginSweep \/ (\E c \in Cleanups : Sweeps(c)) \/ EndSweep
           \/ Requests \/ Crash \/ Start \/ UNCHANGED vars
  BY <1>2, <1>6, OtherBooks
<1> QED BY <1>3, <1>4, <1>5, <1>6 DEF Next, Works

KeepInv == IInv /\ (~entangled => ShelfInv)

LEMMA KeepStep ==
  KeepInv /\ [Next]_vars => KeepInv' /\ (~entangled' => [Shelf!Next]_<<Kept, Asked>>)
<1> SUFFICES ASSUME KeepInv, [Next]_vars
             PROVE  KeepInv' /\ (~entangled' => [Shelf!Next]_<<Kept, Asked>>)
  OBVIOUS
<1>1. IInv'
  BY IInvStep DEF KeepInv
<1>2. ASSUME ~entangled'
      PROVE  ShelfInv' /\ [Shelf!Next]_<<Kept, Asked>>
  BY <1>1, <1>2, EntangledStays, ShelfStep DEF KeepInv, IInv
<1> QED BY <1>1, <1>2 DEF KeepInv

\* A first start has the books of its one library, and no request.
LEMMA KeepInit == Init => KeepInv /\ Shelf!Init
<1> SUFFICES ASSUME Init PROVE KeepInv /\ Shelf!Init
  OBVIOUS
<1>1. IInv
  BY IInvInit
<1>2. ShelfInv
  BY DEF Init, ShelfInv, Prepared
<1>3. TypeOK /\ ~entangled /\ FilesInv
  BY <1>1 DEF IInv, BaseInv, Init
<1>4. \A t \in Tokens : ~Away(t)
  BY DEF Init, Away, Prepared
<1>5. Kept \in SUBSET Books
  <2>1. Kept = InPlace
    BY <1>3, <1>4, KeptIs
  <2>2. live[Main] \in Libraries \cup {None} /\ rows \in [Libraries -> SUBSET Books]
    BY <1>3 DEF TypeOK, Artifacts
  <2> QED BY <2>1, <2>2 DEF InPlace
<1>6. Asked = None
  BY DEF Init, Asked
<1> QED BY <1>1, <1>2, <1>5, <1>6 DEF KeepInv, Shelf!Init

\* Refinement: however resets, clears and deletions crash, fail, are rolled
\* back or finished by a later start, the author's books change once for a
\* request that was made, as it says, or not at all.
THEOREM ImplementsShelf == Spec => KeepsShelf
<1>1. Init => KeepInv /\ Shelf!Init
  BY KeepInit
<1>2. KeepInv /\ [Next]_vars => KeepInv' /\ (~entangled' => [Shelf!Next]_<<Kept, Asked>>)
  BY KeepStep
<1> QED BY <1>1, <1>2, PTL DEF Spec, KeepsShelf

-----------------------------------------------------------------------------
(* What a request that goes on may count on. *)

RequestInv ==
  /\ pc \in {"work", "shelve", "unshelve"} /\ job # "reset" => db # None
  /\ pc \in {"empty", "row", "micro", "sweep", "drop"} => db # None
  /\ pc = "sweep" => job = "sweep"
  /\ job = "sweep" => pc \in {"sweep", "unshelve", "drop"}
  /\ pc \in {"drop", "unshelve"} => job \in {"clear", "delete", "reset", "sweep"}
  /\ pc \in {"idle", "down", "work"} => hand = None
  /\ pc = "reconcile" /\ job # "reset" => hand = None
  /\ hand # None /\ job = "delete" => cleanup[hand] = book
  /\ hand # None /\ job \in {"clear", "reset"} => cleanup[hand] = "root"
  /\ pc = "down" => held = {} /\ active = {}

\* A request that needs the library has it open, and the quarantine in its
\* hand is of what it was asked to remove.
LEMMA RequestStep ==
  ASSUME TypeOK, ControlInv, HandInv, RequestInv, [Next]_vars
  PROVE  RequestInv'
<1> USE DEF RequestInv, ControlInv, HandInv
<1>0. /\ pc \in {"down", "idle", "reconcile", "work", "shelve", "unshelve", "drop",
                 "empty", "row", "list", "move", "unmove", "commit", "undo",
                 "discard", "micro", "sweep"}
      /\ job \in {"none", "read", "create", "clear", "delete", "reset", "sweep"}
      /\ None \notin Libraries \cup Tokens \cup Cleanups \cup Books
      /\ hand \in Cleanups \cup {None}
      /\ live \in [Artifacts -> Libraries \cup {None}] /\ Main \in Artifacts
      /\ cleanup \in [Cleanups -> {None, "root"} \cup Books]
      /\ Tokens \cap Cleanups = {} /\ left \subseteq Tokens \cup Cleanups
  BY NamesAssumption DEF TypeOK, Artifacts
<1>1. CASE Reads
  BY <1>0, <1>1 DEF Reads, Finish, folders, files
<1>2. CASE CreatesBook
  BY <1>0, <1>2 DEF CreatesBook, Finish, folders, files
<1>3. CASE Empties
  BY <1>0, <1>3 DEF Empties, Then, GoTo, Finish, folders, files
<1>4. CASE DeletesRow
  BY <1>0, <1>4 DEF DeletesRow, Then, GoTo, Finish, folders, files
<1>5. CASE Opens
  <2>1. /\ pc = "reconcile" /\ pc' = (IF job = "reset" THEN "commit" ELSE "work")
        /\ db' # None /\ UNCHANGED <<job, hand, book, cleanup>>
    BY <1>0, <1>5, Chosen DEF Opens, Opened, folders
  <2> QED BY <1>0, <2>1
<1>6. CASE OpenFails
  BY <1>0, <1>6 DEF OpenFails, folders
<1>7. CASE Lists
  BY <1>0, <1>7 DEF Lists, folders
<1>8. CASE Moves
  BY <1>0, <1>8 DEF Moves, BeginOpen, folders
<1>9. CASE Unmoves
  BY <1>0, <1>9 DEF Unmoves, folders
<1>10. CASE Commits
  BY <1>0, <1>10 DEF Commits, GoTo, folders
<1>11. CASE Undoes
  <2>1. pc = "undo" /\ job = "reset" /\ UNCHANGED cleanup
    BY <1>0, <1>11 DEF Undoes, folders
  <2>2. UNCHANGED <<pc, job, hand, book>> \/ (UNCHANGED db /\ (GoTo("unshelve") \/ Finish))
    BY <1>11 DEF Undoes, Then, server
  <2> QED BY <1>0, <2>1, <2>2 DEF GoTo, Finish
<1>12. CASE DiscardsOld
  BY <1>0, <1>12 DEF DiscardsOld, Then, GoTo, Finish, server, folders
<1>13. CASE BeginSweep
  BY <1>0, <1>13 DEF BeginSweep, folders, files
<1>14. CASE EndSweep
  BY <1>0, <1>14 DEF EndSweep, folders, files
<1>15. CASE AsksForReset
  BY <1>0, <1>15 DEF AsksForReset, Closes, folders, files
<1>16. CASE Start
  BY <1>0, <1>16 DEF Start, folders, files
<1>17. ASSUME NEW what \in {"root"} \cup Books, Shelve(what), pc = "work",
             job = "delete" => what = book, job \in {"clear", "reset"} => what = "root",
             job \in {"clear", "reset", "delete"}, UNCHANGED db
      PROVE  RequestInv'
  <2> DEFINE c == CHOOSE c \in FreeCleanups : TRUE
  <2>1. CASE pc' = Shelved /\ hand' = None /\ UNCHANGED <<job, book, token, left, micro, folders>>
    BY <1>0, <1>17, <2>1 DEF Shelved, folders
  <2>2. CASE /\ FreeCleanups # {}
             /\ cleanup' = [cleanup EXCEPT ![c] = what] /\ held' = held \cup {c}
             /\ pc' = "shelve" /\ hand' = c
             /\ UNCHANGED <<job, book, token, left, micro, vaults, shelf, buried>>
    <3>1. c \in Cleanups
      BY <2>2, Chosen
    <3> HIDE DEF c
    <3> QED BY <1>0, <1>17, <2>2, <3>1
  <2>3. CASE Finish /\ UNCHANGED folders
    BY <1>0, <1>17, <2>3 DEF Finish, folders
  <2> QED BY <1>17, <2>1, <2>2, <2>3 DEF Shelve
<1>18. CASE ShelvesRoot
  BY <1>17, <1>18 DEF ShelvesRoot
<1>19. CASE ShelvesFolder
  BY <1>17, <1>19 DEF ShelvesFolder
<1>20. ASSUME Finish, UNCHANGED db, pc # "down"
      PROVE  RequestInv'
  BY <1>0, <1>20 DEF Finish
<1>21. CASE Shelves
  <2>1. CASE GoTo(Shelved) /\ UNCHANGED cleanup
    BY <1>0, <1>21, <2>1 DEF GoTo, Shelves, Shelved
  <2> QED BY <1>20, <1>21, <2>1 DEF Shelves
<1>22. CASE Unshelves \/ Drops
  <2>1. UNCHANGED <<db, cleanup, server>> \/ (Finish /\ UNCHANGED db)
    BY <1>22 DEF Unshelves, Drops, NothingAside, CallFails
  <2>2. pc \in {"unshelve", "drop"}
    BY <1>22 DEF Unshelves, Drops
  <2>3. ASSUME UNCHANGED <<db, cleanup, server>>
        PROVE  RequestInv'
    BY <2>2, <2>3 DEF server
  <2> QED BY <1>20, <2>1, <2>2, <2>3
<1>23. CASE Crash
  BY <1>0, <1>23 DEF Crash
<1>24. ASSUME NEW t \in Tokens, Reconciles(t)
      PROVE  RequestInv'
  BY <1>0, <1>24 DEF Reconciles, folders
<1>25. ASSUME NEW c \in Cleanups, Sweeps(c)
      PROVE  RequestInv'
  BY <1>0, <1>25 DEF Sweeps, folders, files
<1>26. ASSUME NEW j \in {"read", "create", "clear"}, Asks(j)
      PROVE  RequestInv'
  BY <1>0, <1>26 DEF Asks, BeginOpen, folders, files
<1>27. ASSUME NEW b \in Books, AsksToDelete(b)
      PROVE  RequestInv'
  BY <1>0, <1>27 DEF AsksToDelete, folders, files
<1>28. ASSUME NEW b \in Books, MakesFolder(b)
      PROVE  RequestInv'
  BY <1>0, <1>28 DEF MakesFolder, server, files
<1>29. CASE UNCHANGED vars
  BY <1>29 DEF vars, server, folders, files
<1> QED BY <1>1, <1>2, <1>3, <1>4, <1>5, <1>6, <1>7, <1>8, <1>9, <1>10, <1>11, <1>12, <1>13, <1>14, <1>15, <1>16, <1>18, <1>19, <1>21, <1>22, <1>23, <1>24, <1>25, <1>26, <1>27, <1>28, <1>29
        DEF Next, Works, Requests

-----------------------------------------------------------------------------
(* The folders and their quarantines. *)

\* Steps that leave the folders and the intents about them alone.
LEMMA FoldersStill ==
  ASSUME [Next]_vars,
         ~ShelvesRoot, ~ShelvesFolder, ~Shelves, ~Unshelves, ~Drops,
         \A b \in Books : ~MakesFolder(b)
  PROVE  /\ UNCHANGED <<vaults, shelf, cleanup, buried>>
         /\ pc' = "shelve" => UNCHANGED <<pc, hand>>
<1>1. CASE (\E t \in Tokens : Reconciles(t)) \/ Opens \/ OpenFails
  BY <1>1 DEF Reconciles, Opens, Opened, OpenFails, folders
<1>2. CASE Reads \/ CreatesBook \/ Empties \/ DeletesRow
  BY <1>2 DEF Reads, CreatesBook, Empties, DeletesRow, Then, GoTo, Finish, folders
<1>3. CASE Lists \/ Moves \/ Unmoves \/ Commits
  BY <1>3 DEF Lists, Moves, BeginOpen, Unmoves, Commits, GoTo, folders
<1>4. CASE Undoes \/ DiscardsOld
  BY <1>4 DEF Undoes, DiscardsOld, Then, GoTo, Finish, server, folders
<1>5. CASE BeginSweep \/ (\E c \in Cleanups : Sweeps(c)) \/ EndSweep
  BY <1>5 DEF BeginSweep, Sweeps, EndSweep, folders
<1>6. CASE Requests
  BY <1>6 DEF Requests, Asks, BeginOpen, AsksToDelete, AsksForReset, folders
<1>7. CASE Crash \/ Start \/ UNCHANGED vars
  BY <1>7 DEF Crash, Start, vars, server, folders
<1> QED BY <1>1, <1>2, <1>3, <1>4, <1>5, <1>6, <1>7 DEF Next, Works

\* A folder in quarantine keeps its intent, and a vaults/ directory in
\* quarantine holds none unless one was buried in it.
QuarantineInv ==
  /\ \A c \in Cleanups : shelf[c] # NoRoot => cleanup[c] = "root"
  /\ pc = "shelve" => shelf[hand] = NoRoot /\ hand \notin vaults
  /\ ~buried => \A c \in Cleanups :
       /\ vaults # NoRoot /\ c \in vaults => cleanup[c] \in Books
       /\ shelf[c] # NoRoot => shelf[c] \cap Cleanups = {}

\* The removal of the intent in hand, when its folder is not in quarantine.
LEMMA RemovalKeepsPlaces ==
  ASSUME TypeOK, QuarantineInv, hand \in Cleanups, RemoveCleanupIntent(hand),
         shelf[hand] = NoRoot, ~buried /\ vaults # NoRoot => hand \notin vaults,
         UNCHANGED <<vaults, shelf, buried>>, pc' # "shelve"
  PROVE  QuarantineInv'
  BY DEF RemoveCleanupIntent, QuarantineInv, TypeOK

\* What a rename does to them.
LEMMA MoveKeepsPlaces ==
  ASSUME TypeOK, HandInv, QuarantineInv, pc = "shelve", MoveAside, UNCHANGED cleanup,
         pc' # "shelve"
  PROVE  QuarantineInv'
<1>0. /\ hand \in Cleanups /\ cleanup[hand] # None /\ vaults # NoRoot
      /\ shelf \in [Cleanups -> Roots] /\ vaults \in SUBSET (Books \cup Cleanups)
      /\ cleanup \in [Cleanups -> {None, "root"} \cup Books]
      /\ Books \cap Cleanups = {} /\ "root" \notin Books
  BY NamesAssumption DEF TypeOK, HandInv, Roots
<1>1. CASE cleanup[hand] = "root"
  <2>1. /\ shelf' = [shelf EXCEPT ![hand] = vaults] /\ vaults' = NoRoot
        /\ ~buried' => ~buried /\ vaults \cap Cleanups = {}
    BY <1>1 DEF MoveAside
  <2>2. /\ \A c \in Cleanups \ {hand} : shelf'[c] = shelf[c]
        /\ shelf'[hand] = vaults
    BY <1>0, <2>1
  <2> QED BY <1>0, <1>1, <2>1, <2>2 DEF QuarantineInv
<1>2. CASE cleanup[hand] # "root"
  BY <1>0, <1>2 DEF MoveAside, QuarantineInv
<1> QED BY <1>1, <1>2

LEMMA QuarantineStep ==
  ASSUME TypeOK, ControlInv, HandInv, RequestInv, QuarantineInv, [Next]_vars
  PROVE  QuarantineInv'
<1>0. /\ hand \in Cleanups \cup {None} /\ shelf \in [Cleanups -> Roots]
      /\ cleanup \in [Cleanups -> {None, "root"} \cup Books]
      /\ Books \cap Cleanups = {} /\ "root" \notin Books /\ None # "root"
      /\ None \notin Books /\ NoRoot \notin SUBSET (Books \cup Cleanups)
      /\ vaults # NoRoot => vaults \in SUBSET (Books \cup Cleanups)
      /\ \A c \in Cleanups : shelf[c] # NoRoot => shelf[c] \in SUBSET (Books \cup Cleanups)
  BY NamesAssumption DEF TypeOK, Roots
<1>1. ASSUME UNCHANGED <<vaults, shelf, cleanup, buried>>,
             pc' = "shelve" => UNCHANGED <<pc, hand>>
      PROVE  QuarantineInv'
  BY <1>1 DEF QuarantineInv
<1>2. ASSUME NEW what \in {"root"} \cup Books, Shelve(what), job \in {"clear", "reset", "delete"}
      PROVE  QuarantineInv'
  <2> DEFINE c == CHOOSE c \in FreeCleanups : TRUE
  <2>1. CASE UNCHANGED folders /\ pc' # "shelve"
    BY <1>1, <2>1 DEF folders
  <2>2. CASE /\ FreeCleanups # {} /\ vaults # NoRoot
             /\ cleanup' = [cleanup EXCEPT ![c] = what] /\ hand' = c
             /\ UNCHANGED <<vaults, shelf, buried>>
    <3>1. /\ c \in Cleanups /\ cleanup[c] = None /\ shelf[c] = NoRoot /\ c \notin vaults
      BY <2>2, Chosen DEF FreeCleanups
    <3> HIDE DEF c
    <3>2. /\ \A d \in Cleanups \ {c} : cleanup'[d] = cleanup[d]
      BY <1>0, <2>2
    <3> QED BY <1>0, <2>2, <3>1, <3>2 DEF QuarantineInv
  <2> QED BY <1>2, <2>1, <2>2 DEF Shelve, Finish, Shelved
<1>3. CASE ShelvesRoot \/ ShelvesFolder
  BY <1>2, <1>3 DEF ShelvesRoot, ShelvesFolder, ControlInv
<1>4. CASE Shelves
  <2>1. pc = "shelve" /\ hand \in Cleanups
    BY <1>0, <1>4 DEF Shelves, HandInv
  <2>2. pc' # "shelve"
    BY <1>4, <2>1 DEF Shelves, GoTo, Finish, Shelved, ControlInv
  <2>3. CASE MoveAside /\ UNCHANGED cleanup
    BY <2>1, <2>2, <2>3, MoveKeepsPlaces
  <2>4. CASE RemoveCleanupIntent(hand) /\ UNCHANGED <<vaults, shelf, buried>>
    BY <2>1, <2>2, <2>4, RemovalKeepsPlaces DEF QuarantineInv
  <2> QED BY <1>4, <2>3, <2>4 DEF Shelves
<1>5. ASSUME hand \in Cleanups, cleanup[hand] # None, NothingAside
      PROVE  QuarantineInv'
  <2>1. pc' # "shelve"
    BY <1>5 DEF NothingAside, Finish
  <2>2. CASE RemoveCleanupIntent(hand)
    <3>1. shelf[hand] = NoRoot /\ (~buried /\ vaults # NoRoot => hand \notin vaults)
      BY <1>0, <1>5 DEF NothingAside, Quarantined, QuarantineInv
    <3> QED BY <1>5, <2>1, <2>2, <3>1, RemovalKeepsPlaces DEF NothingAside
  <2>3. CASE UNCHANGED cleanup
    BY <1>1, <1>5, <2>1, <2>3 DEF NothingAside
  <2> QED BY <1>5, <2>2, <2>3 DEF NothingAside
<1>6. CASE Unshelves
  <2>1. hand \in Cleanups /\ cleanup[hand] # None /\ pc = "unshelve"
    BY <1>0, <1>6 DEF Unshelves, HandInv
  <2>2. CASE Quarantined(hand) /\ ~Recreated(hand) /\ UNCHANGED <<cleanup, buried, server>> /\
             IF cleanup[hand] = "root"
             THEN vaults' = shelf[hand] /\ shelf' = [shelf EXCEPT ![hand] = NoRoot]
             ELSE /\ vaults' = (vaults \ {hand}) \cup {cleanup[hand]}
                  /\ UNCHANGED shelf
    <3>1. CASE cleanup[hand] = "root"
      BY <1>0, <2>1, <2>2, <3>1 DEF QuarantineInv, server
    <3>2. CASE cleanup[hand] # "root"
      BY <1>0, <2>1, <2>2, <3>2 DEF QuarantineInv, server, Quarantined
    <3> QED BY <3>1, <3>2
  <2>3. CASE UNCHANGED <<vaults, shelf, cleanup, buried>> /\ pc' # "shelve"
    BY <1>1, <2>3
  <2> QED BY <1>5, <1>6, <2>1, <2>2, <2>3 DEF Unshelves, CallFails, Finish, folders
<1>7. CASE Drops
  <2>1. hand \in Cleanups /\ cleanup[hand] # None /\ pc = "drop"
    BY <1>0, <1>7 DEF Drops, HandInv
  <2>2. CASE Quarantined(hand) /\ UNCHANGED <<cleanup, buried>> /\ pc' # "shelve" /\
             IF cleanup[hand] = "root"
             THEN /\ UNCHANGED vaults
                  /\ \E rest \in {NoRoot} \cup SUBSET shelf[hand] :
                       shelf' = [shelf EXCEPT ![hand] = rest]
             ELSE vaults' = vaults \ {hand} /\ UNCHANGED shelf
    <3>1. CASE cleanup[hand] = "root"
      <4>1. PICK rest \in {NoRoot} \cup SUBSET shelf[hand] :
                   shelf' = [shelf EXCEPT ![hand] = rest]
        BY <2>2, <3>1
      <4>2. /\ shelf'[hand] = rest /\ \A c \in Cleanups \ {hand} : shelf'[c] = shelf[c]
            /\ shelf[hand] # NoRoot
        BY <1>0, <2>1, <2>2, <3>1, <4>1 DEF Quarantined
      <4> QED BY <1>0, <2>2, <3>1, <4>1, <4>2 DEF QuarantineInv
    <3>2. CASE cleanup[hand] # "root"
      BY <1>0, <2>1, <2>2, <3>2 DEF QuarantineInv, Quarantined
    <3> QED BY <3>1, <3>2
  <2>3. CASE CallFails
    BY <1>1, <2>3 DEF CallFails, Finish
  <2>4. CASE /\ Quarantined(hand) /\ UNCHANGED <<cleanup, buried, server>>
             /\ IF cleanup[hand] = "root"
                THEN shelf' = [shelf EXCEPT ![hand] = NoRoot] /\ UNCHANGED vaults
                ELSE vaults' = vaults \ {hand} /\ UNCHANGED shelf
    BY <2>1, <2>2, <2>4 DEF server
  <2>5. CASE /\ Quarantined(hand) /\ cleanup[hand] = "root"
             /\ \E rest \in SUBSET shelf[hand] : shelf' = [shelf EXCEPT ![hand] = rest]
             /\ Finish /\ UNCHANGED <<vaults, cleanup, buried>>
    BY <2>2, <2>5 DEF Finish
  <2> QED BY <1>5, <1>7, <2>1, <2>3, <2>4, <2>5 DEF Drops
<1>8. ASSUME NEW b \in Books, MakesFolder(b)
      PROVE  QuarantineInv'
  BY <1>0, <1>8 DEF MakesFolder, QuarantineInv, HandInv, server
<1> QED BY <1>1, <1>3, <1>4, <1>6, <1>7, <1>8, FoldersStill

-----------------------------------------------------------------------------
(* Reset intents of a start in which no call has failed. *)

\* A removed intent names nothing, and the request that removed it holds none.
TraceInv ==
  /\ \A t \in Tokens : phase[t] = "none" => listed[t] = {}
  /\ pc = "drop" /\ token # None => token \notin active /\ phase[token] = "none"

LEMMA TraceStep ==
  ASSUME TypeOK, ControlInv, TraceInv, [Next]_vars
  PROVE  TraceInv'
<1> USE DEF TraceInv
<1>0. /\ token \in Tokens \cup {None} /\ None \notin Tokens
      /\ phase \in [Tokens -> {"none", "prepared", "committed"}]
      /\ listed \in [Tokens -> SUBSET Artifacts] /\ active \in SUBSET Tokens
      /\ token # None /\ pc \notin {"move", "unmove", "reconcile", "commit", "undo", "discard"}
           => pc = "drop"
  BY NamesAssumption DEF TypeOK, ControlInv
<1>1. ASSUME NEW t \in Tokens, RemoveResetIntent(t)
      PROVE  /\ \A u \in Tokens : phase'[u] = "none" => listed'[u] = {}
             /\ t \notin active' /\ phase'[t] = "none"
  BY <1>0, <1>1 DEF RemoveResetIntent
<1>2. ASSUME UNCHANGED <<phase, listed, active>>, pc' = "drop" => pc = "drop" \/ token = None,
             token' \in {token, None}
      PROVE  TraceInv'
  BY <1>0, <1>2
<1>3. ASSUME UNCHANGED files, UNCHANGED <<token, pc>> \/ Then("drop") \/ Then("unshelve") \/ Finish,
             pc \notin {"move", "unmove", "reconcile", "commit", "undo", "discard"}
      PROVE  TraceInv'
  BY <1>0, <1>2, <1>3 DEF Then, GoTo, Finish, files
<1>4. CASE Reads \/ CreatesBook \/ Empties \/ DeletesRow \/ Unshelves \/ Drops
  <2>1. \/ UNCHANGED <<token, pc>> \/ Then("drop") \/ Then("unshelve") \/ Finish
    BY <1>4 DEF Reads, CreatesBook, Empties, DeletesRow, Unshelves, Drops, NothingAside,
                CallFails, server
  <2>2. UNCHANGED files /\ pc \notin {"move", "unmove", "reconcile", "commit", "undo", "discard"}
    BY <1>4 DEF Reads, CreatesBook, Empties, DeletesRow, Unshelves, Drops
  <2> QED BY <1>3, <2>1, <2>2
<1>5. CASE ShelvesRoot \/ ShelvesFolder \/ Shelves
  <2>1. pc' # "drop"
    BY <1>5 DEF ShelvesRoot, ShelvesFolder, Shelves, Shelve, Shelved, GoTo, Finish, ControlInv
  <2>2. UNCHANGED files /\ token' \in {token, None}
    BY <1>5 DEF ShelvesRoot, ShelvesFolder, Shelves, Shelve, GoTo, Finish
  <2> QED BY <1>2, <2>1, <2>2 DEF files
<1>6. CASE Opens \/ OpenFails
  <2>1. UNCHANGED <<phase, listed, active, token>> /\ pc' # "drop"
    BY <1>6 DEF Opens, OpenFails, Opened, Creates, files
  <2> QED BY <1>2, <2>1
<1>7. ASSUME NEW t \in Tokens, Reconciles(t)
      PROVE  TraceInv'
  <2>1. pc' # "drop" /\ UNCHANGED token
    BY <1>7 DEF Reconciles
  <2>2. UNCHANGED <<phase, listed, active>> \/ RemoveResetIntent(t)
    BY <1>7 DEF Reconciles, files
  <2> QED BY <1>1, <1>2, <2>1, <2>2
<1>8. CASE Lists
  <2>1. pc' # "drop"
    BY <1>8 DEF Lists
  <2>2. CASE UNCHANGED <<phase, listed>>
    BY <2>1, <2>2
  <2>3. CASE token' \in Tokens /\ phase' = [phase EXCEPT ![token'] = "prepared"]
             /\ \E l : listed' = [listed EXCEPT ![token'] = l]
    BY <1>0, <2>1, <2>3
  <2> QED BY <1>8, <2>2, <2>3, Chosen DEF Lists
<1>9. CASE Moves \/ Commits
  <2>1. pc' # "drop" /\ UNCHANGED listed
    BY <1>9 DEF Moves, Commits, BeginOpen, GoTo
  <2>2. phase' = phase \/ phase' = [phase EXCEPT ![token] = "committed"]
    BY <1>9 DEF Moves, Commits
  <2> QED BY <1>0, <2>1, <2>2
<1>10. CASE Unmoves \/ Undoes
  <2>1. pc' # "drop"
    BY <1>10 DEF Unmoves, Undoes, server, Then, GoTo, Finish
  <2>2. UNCHANGED <<phase, listed>> \/ (token \in Tokens /\ RemoveResetIntent(token))
    BY <1>0, <1>10 DEF Unmoves, Undoes, Closes, files, ControlInv
  <2> QED BY <1>1, <2>1, <2>2
<1>11. CASE DiscardsOld
  <2>1. token \in Tokens /\ pc = "discard"
    BY <1>0, <1>11 DEF DiscardsOld, ControlInv
  <2>2. CASE RemoveResetIntent(token) /\ Then("drop")
    <3>1. token' \in {token, None}
      BY <2>2 DEF Then, GoTo, Finish
    <3> QED BY <1>0, <1>1, <2>1, <2>2, <3>1
  <2>3. CASE UNCHANGED <<phase, listed>> /\ pc' # "drop"
    BY <2>3
  <2> QED BY <1>11, <2>1, <2>2, <2>3 DEF DiscardsOld, server, Finish
<1>12. CASE BeginSweep \/ (\E c \in Cleanups : Sweeps(c)) \/ EndSweep
  <2>1. UNCHANGED files /\ UNCHANGED token /\ pc \in {"micro", "sweep"}
    BY <1>12 DEF BeginSweep, Sweeps, EndSweep
  <2> QED BY <1>0, <1>2, <2>1 DEF files
<1>13. CASE Requests
  <2>1. UNCHANGED <<phase, listed, active, token>> /\ (pc' = "drop" => pc = "drop")
    BY <1>13 DEF Requests, Asks, BeginOpen, AsksToDelete, AsksForReset, Closes, MakesFolder,
                 files, server
  <2> QED BY <1>2, <2>1
<1>14. CASE Crash \/ Start \/ UNCHANGED vars
  <2>1. UNCHANGED <<phase, listed>> /\ (pc' # "drop" \/ UNCHANGED <<pc, token, active>>)
    BY <1>14 DEF Crash, Start, vars, server, files
  <2> QED BY <2>1
<1> QED BY <1>4, <1>5, <1>6, <1>7, <1>8, <1>9, <1>10, <1>11, <1>12, <1>13, <1>14
        DEF Next, Works

\* While no call fails a reset neither puts its files back nor leaves its
\* intent: what is on the disk is the intent the request holds, or one of an
\* earlier start that getDb has yet to see.
CalmIntents ==
  /\ pc \notin {"undo", "unmove"} /\ (pc = "unshelve" => job \in {"delete", "sweep"})
  /\ \A t \in active : t = token
  /\ pc = "reconcile" => \A t \in Tokens : phase[t] # "none" => t \in left \/ t = token
  /\ db # None => \A t \in Tokens : phase[t] # "none" => t = token

\* getDb can open the library of a start, or it finds one of another version.
LEMMA NoUndo ==
  ASSUME TypeOK, ControlInv, HandInv, FilesInv, OpenFails, NoFault
  PROVE  job # "reset"
<1> SUFFICES ASSUME job = "reset" PROVE FALSE
  OBVIOUS
<1>0. /\ pc = "reconcile" /\ token # None /\ token \in Tokens /\ Prepared(token)
      /\ broken \subseteq Libraries /\ None \notin Libraries /\ Main \in Artifacts
      /\ faults \in Nat
  BY NamesAssumption DEF OpenFails, ControlInv, FilesInv, TypeOK, Artifacts
<1>1. token \notin left /\ live[Main] = None
  BY <1>0 DEF FilesInv, Interrupted, Owned
<1>2. ~Fault
  BY <1>0 DEF Fault, NoFault, ghosts
<1>3. (\E t \in left : phase[t] = "prepared") => FALSE
  BY <1>0, <1>1 DEF FilesInv, Prepared, TypeOK, HandInv, Interrupted, Owned
<1> QED BY <1>0, <1>1, <1>2, <1>3 DEF OpenFails

LEMMA CalmIntentsStep ==
  ASSUME BaseInv, RequestInv, TraceInv, FilesInv, CalmIntents, [Next]_vars, ~Start,
         calm, calm'
  PROVE  CalmIntents'
<1> USE DEF CalmIntents
<1>0. /\ TypeOK /\ ControlInv /\ HandInv
      /\ token \in Tokens \cup {None} /\ None \notin Tokens \cup Libraries
      /\ active \in SUBSET Tokens
      /\ phase \in [Tokens -> {"none", "prepared", "committed"}]
      /\ live \in [Artifacts -> Libraries \cup {None}] /\ Main \in Artifacts
  BY NamesAssumption DEF BaseInv, TypeOK, Artifacts
<1>a. /\ pc \in {"down", "list", "reconcile", "move"} => db = None
      /\ token # None => pc \in {"move", "reconcile", "commit", "discard", "drop"}
      /\ pc = "drop" /\ token # None => token \notin active /\ phase[token] = "none"
  BY <1>0 DEF ControlInv, TraceInv
<1>b. ~Fault
  BY DEF Fault
<1>1. ASSUME UNCHANGED <<db, phase, active, token>>, pc' = "reconcile" => UNCHANGED <<pc, left>>,
             pc' \notin {"undo", "unmove"}, pc' = "unshelve" => job' \in {"delete", "sweep"}
      PROVE  CalmIntents'
  BY <1>1
<1>2. ASSUME Finish, UNCHANGED <<db, phase, active>>, pc \in {"work", "empty", "row", "drop", "unshelve"}
      PROVE  CalmIntents'
  <2>1. pc' \in {"sweep", "micro", "idle"} /\ token' = None
    BY <1>2 DEF Finish
  <2>2. active = {} /\ (db # None => \A t \in Tokens : phase[t] = "none")
    BY <1>0, <1>2, <1>a
  <2> QED BY <1>2, <2>1, <2>2
<1>3. CASE Reads \/ CreatesBook
  BY <1>2, <1>3 DEF Reads, CreatesBook, files
<1>4. CASE ShelvesRoot \/ ShelvesFolder
  <2>1. pc = "work" /\ UNCHANGED <<db, phase, active>> /\ job \in {"clear", "reset", "delete"}
    BY <1>4 DEF ShelvesRoot, ShelvesFolder, files
  <2>2. UNCHANGED token /\ pc' \in {"shelve", "list", "empty", "row"}
    BY <1>4, <1>b, <2>1 DEF ShelvesRoot, ShelvesFolder, Shelve, Shelved
  <2> QED BY <1>1, <2>1, <2>2
<1>5. CASE Shelves
  <2>1. UNCHANGED <<db, phase, active, token>> /\ pc' \in {"list", "empty", "row"}
    BY <1>0, <1>5, <1>b DEF Shelves, Shelved, GoTo, files, ControlInv
  <2> QED BY <1>1, <2>1
<1>6. CASE Unshelves \/ Drops
  <2>1. UNCHANGED <<db, phase, active>> /\ pc \in {"drop", "unshelve"}
    BY <1>6 DEF Unshelves, Drops, files
  <2>2. UNCHANGED server \/ Finish
    BY <1>6 DEF Unshelves, Drops, NothingAside, CallFails
  <2> QED BY <1>1, <1>2, <2>1, <2>2 DEF server
<1>7. CASE Empties
  <2>1. Then("drop") /\ UNCHANGED <<db, phase, active>> /\ pc = "empty"
    BY <1>7, <1>b DEF Empties, files
  <2> QED BY <1>1, <1>2, <2>1 DEF Then, GoTo
<1>8. CASE DeletesRow
  <2>1. (Then("drop") \/ Then("unshelve")) /\ UNCHANGED <<db, phase, active>> /\ pc = "row"
    BY <1>8, <1>b DEF DeletesRow, files
  <2>2. job = "delete"
    BY <1>0, <2>1 DEF ControlInv
  <2> QED BY <1>1, <1>2, <2>1, <2>2 DEF Then, GoTo
<1>9. CASE Opens
  <2>1. /\ pc = "reconcile" /\ left = {} /\ UNCHANGED <<phase, active, token>>
        /\ pc' \in {"commit", "work"}
    BY <1>9 DEF Opens, Opened, Creates
  <2> QED BY <2>1
<1>10. CASE OpenFails
  <2>1. job # "reset"
    BY <1>0, <1>10, <1>b, NoUndo DEF OpenFails
  <2>2. UNCHANGED <<phase, active, token, db>> /\ pc' = "idle"
    BY <1>10, <1>b, <2>1 DEF OpenFails, files
  <2> QED BY <1>1, <2>2
<1>11. ASSUME NEW t \in Tokens, Reconciles(t)
      PROVE  CalmIntents'
  <2>1. pc = "reconcile" /\ UNCHANGED <<pc, job, token, db>> /\ db = None
    BY <1>11, <1>a DEF Reconciles
  <2>2. CASE UNCHANGED <<phase, active, left>>
    BY <2>1, <2>2
  <2>3. CASE RemoveResetIntent(t) /\ left' = left \ {t}
    <3>1. /\ phase' = [phase EXCEPT ![t] = "none"] /\ active' = active \ {t}
      BY <2>3 DEF RemoveResetIntent
    <3>2. phase'[t] = "none" /\ \A u \in Tokens \ {t} : phase'[u] = phase[u]
      BY <1>0, <3>1
    <3> QED BY <2>1, <2>3, <3>1, <3>2
  <2> QED BY <1>11, <1>b, <2>2, <2>3 DEF Reconciles
<1>12. CASE Lists
  <2>1. /\ FreeTokens # {} /\ token' = CHOOSE t \in FreeTokens : TRUE
        /\ active' = active \cup {token'} /\ pc' = "move" /\ UNCHANGED db /\ pc = "list"
    BY <1>12, <1>b DEF Lists
  <2>2. active = {} /\ db = None
    BY <1>0, <1>a, <2>1
  <2> QED BY <2>1, <2>2
<1>13. CASE Moves
  <2>1. CASE UNCHANGED <<pc, token, phase, active, db>>
    BY <1>13, <2>1 DEF Moves
  <2>2. CASE BeginOpen
    <3>1. UNCHANGED <<phase, active, db, token>> /\ db = None /\ pc' = "reconcile"
      BY <1>13, <1>a, <2>2 DEF Moves, BeginOpen
    <3>2. left' = {t \in Tokens : phase[t] # "none" /\ t \notin active}
      BY <2>2, <3>1 DEF BeginOpen
    <3> QED BY <3>1, <3>2
  <2> QED BY <1>13, <1>b, <2>1, <2>2 DEF Moves
<1>14. CASE Commits
  <2>1. phase' = [phase EXCEPT ![token] = "committed"] /\ pc' = "discard"
        /\ UNCHANGED <<token, active, db>> /\ pc = "commit"
    BY <1>14, <1>b DEF Commits, GoTo
  <2>2. token # None
    BY <1>0, <2>1 DEF ControlInv
  <2>3. \A t \in Tokens : t # token => phase'[t] = phase[t]
    BY <1>0, <2>1
  <2> QED BY <2>1, <2>2, <2>3
<1>15. CASE Unmoves \/ Undoes
  BY <1>15 DEF Unmoves, Undoes
<1>16. CASE DiscardsOld
  <2>1. token \in Tokens /\ pc = "discard" /\ db # None /\ UNCHANGED db
    BY <1>0, <1>16 DEF DiscardsOld, ControlInv
  <2>2. CASE UNCHANGED <<server, phase, active>>
    BY <1>1, <2>1, <2>2 DEF server
  <2>3. CASE RemoveResetIntent(token) /\ Then("drop")
    <3>1. active' = {} /\ \A t \in Tokens : phase'[t] = "none"
      BY <1>0, <2>1, <2>3 DEF RemoveResetIntent
    <3>2. pc' \in {"drop", "sweep", "micro", "idle"}
      BY <2>3 DEF Then, GoTo, Finish
    <3> QED BY <3>1, <3>2
  <2> QED BY <1>16, <1>b, <2>2, <2>3 DEF DiscardsOld
<1>17. CASE BeginSweep \/ (\E c \in Cleanups : Sweeps(c)) \/ EndSweep
  <2>1. UNCHANGED <<db, phase, active, token>> /\ pc' \in {"sweep", "unshelve", "drop", "idle"}
    BY <1>17 DEF BeginSweep, Sweeps, EndSweep, files
  <2>2. pc' = "unshelve" => job' = "sweep"
    BY <1>17 DEF BeginSweep, Sweeps, EndSweep, RequestInv
  <2> QED BY <1>1, <2>1, <2>2
<1>18. ASSUME NEW j \in {"read", "create", "clear"}, Asks(j)
      PROVE  CalmIntents'
  <2>1. CASE BeginOpen
    <3>1. UNCHANGED <<phase, active, db, token>> /\ pc' = "reconcile"
      BY <1>18, <2>1 DEF Asks, BeginOpen, files
    <3>2. left' = {t \in Tokens : phase[t] # "none" /\ t \notin active}
      BY <2>1, <3>1 DEF BeginOpen
    <3> QED BY <3>1, <3>2
  <2>2. CASE pc' = "work" /\ UNCHANGED token
    BY <1>1, <1>18, <2>2 DEF Asks, files
  <2> QED BY <1>18, <2>1, <2>2 DEF Asks
<1>19. CASE AsksForReset
  BY <1>19 DEF AsksForReset, Closes, files
<1>20. ASSUME NEW b \in Books, AsksToDelete(b) \/ MakesFolder(b)
      PROVE  CalmIntents'
  BY <1>1, <1>20 DEF AsksToDelete, MakesFolder, server, files
<1>21. CASE Crash
  <2>1. pc' = "down" /\ active' = {} /\ db' = None
    BY <1>21 DEF Crash
  <2> QED BY <2>1
<1>22. CASE UNCHANGED vars
  BY <1>1, <1>22 DEF vars, server, files
<1> QED BY <1>3, <1>4, <1>5, <1>6, <1>7, <1>8, <1>9, <1>10, <1>11, <1>12, <1>13, <1>14, <1>15, <1>16, <1>17, <1>18, <1>19, <1>20, <1>21, <1>22
        DEF Next, Works, Requests

\* Of the quarantines of vaults/ that are held the request in hand has the
\* only one; a sweep has none, and misses one only if its path was taken.
CalmFolders ==
  /\ \A c \in held : cleanup[c] = "root" => c = hand /\ job # "sweep"
  /\ job = "sweep" => \A c \in Cleanups :
       shelf[c] # NoRoot => c \in left \/ c = hand \/ vaults # NoRoot

LEMMA CalmFoldersStep ==
  ASSUME BaseInv, RequestInv, QuarantineInv, CalmIntents, CalmFolders, [Next]_vars, ~Start,
         calm, calm'
  PROVE  CalmFolders'
<1> USE DEF CalmFolders
<1>0. /\ TypeOK /\ ControlInv /\ HandInv
      /\ hand \in Cleanups \cup {None} /\ held \in SUBSET Cleanups
      /\ None \notin Cleanups \cup Books /\ None # "root" /\ "root" \notin Books
      /\ cleanup \in [Cleanups -> {None, "root"} \cup Books]
      /\ shelf \in [Cleanups -> Roots]
      /\ NoRoot \notin SUBSET (Books \cup Cleanups)
      /\ vaults # NoRoot => vaults \in SUBSET (Books \cup Cleanups)
  BY NamesAssumption DEF BaseInv, TypeOK, Roots
<1>a. /\ \A c \in Cleanups : shelf[c] # NoRoot => cleanup[c] = "root"
      /\ pc = "unshelve" => job \in {"delete", "sweep"}
      /\ hand # None /\ job = "delete" => cleanup[hand] = book /\ book \in Books
      /\ hand # None /\ job \in {"clear", "reset"} => cleanup[hand] = "root"
      /\ pc \in {"idle", "down", "work", "micro", "sweep"} => hand = None
      /\ job = "sweep" => pc \in {"sweep", "unshelve", "drop"}
      /\ pc \in {"shelve", "unshelve", "drop"} => hand \in Cleanups
      /\ pc = "reconcile" /\ job # "reset" => hand = None
  BY <1>0 DEF QuarantineInv, CalmIntents, RequestInv, HandInv, ControlInv
<1>b. ~Fault
  BY DEF Fault
\* Steps outside the sweep that leave the folders alone.
<1>1. ASSUME UNCHANGED <<held, cleanup>>, job' # "sweep", hand' = hand \/ hand = None
      PROVE  CalmFolders'
  BY <1>0, <1>1
\* Steps that end a request.
<1>2. ASSUME Finish, UNCHANGED <<held, cleanup, vaults, shelf>>,
             hand # None => cleanup[hand] # "root" \/ (vaults # NoRoot /\ job = "sweep")
      PROVE  CalmFolders'
  <2>1. \A c \in held : cleanup[c] # "root"
    BY <1>0, <1>2
  <2>2. job' = "sweep" => job = "sweep" /\ left' = left /\ hand' = None
    BY <1>2 DEF Finish
  <2>3. hand # None => shelf[hand] = NoRoot \/ vaults # NoRoot
    BY <1>0, <1>2, <1>a
  <2> QED BY <1>0, <1>2, <2>1, <2>2, <2>3
<1>3. CASE Reads \/ CreatesBook
  BY <1>2, <1>3, <1>a DEF Reads, CreatesBook, folders
<1>4. ASSUME NEW what \in {"root"} \cup Books, Shelve(what), pc = "work", job # "sweep"
      PROVE  CalmFolders'
  <2> DEFINE c == CHOOSE c \in FreeCleanups : TRUE
  <2>1. CASE hand' = None /\ UNCHANGED <<job, folders>>
    BY <1>1, <1>4, <1>a, <2>1 DEF folders
  <2>2. CASE /\ FreeCleanups # {}
             /\ cleanup' = [cleanup EXCEPT ![c] = what] /\ held' = held \cup {c}
             /\ hand' = c /\ UNCHANGED job
    <3>1. c \in Cleanups
      BY <2>2, Chosen
    <3> HIDE DEF c
    <3>2. \A d \in held : d # c => cleanup'[d] = cleanup[d]
      BY <1>0, <2>2
    <3> QED BY <1>0, <1>4, <1>a, <2>2, <3>1, <3>2
  <2> QED BY <1>4, <1>b, <2>1, <2>2 DEF Shelve
<1>5. CASE ShelvesRoot \/ ShelvesFolder
  BY <1>0, <1>4, <1>5 DEF ShelvesRoot, ShelvesFolder, ControlInv
<1>6. CASE Shelves
  BY <1>0, <1>1, <1>6, <1>a, <1>b DEF Shelves, GoTo
<1>7. ASSUME NothingAside, pc \in {"unshelve", "drop"}
      PROVE  CalmFolders'
  <2>1. hand \in Cleanups /\ UNCHANGED <<vaults, shelf>> /\ Finish /\ shelf[hand] = NoRoot
    BY <1>0, <1>7, <1>a DEF NothingAside, Quarantined
  <2>2. CASE ParentGone(hand)
    <3>1. UNCHANGED <<held, cleanup>> /\ cleanup[hand] # "root"
      BY <1>7, <2>2 DEF NothingAside, ParentGone
    <3> QED BY <1>2, <2>1, <3>1
  <2>3. CASE RemoveCleanupIntent(hand)
    <3>1. /\ held' = held \ {hand} /\ \A c \in Cleanups \ {hand} : cleanup'[c] = cleanup[c]
      BY <1>0, <2>3 DEF RemoveCleanupIntent
    <3>2. \A c \in held' : cleanup'[c] # "root"
      BY <1>0, <3>1
    <3>3. job' = "sweep" => job = "sweep" /\ left' = left
      BY <2>1 DEF Finish
    <3> QED BY <1>0, <2>1, <3>2, <3>3
  <2> QED BY <1>7, <2>2, <2>3 DEF NothingAside
<1>8. CASE Unshelves
  <2>1. pc = "unshelve" /\ hand \in Cleanups
    BY <1>8, <1>a DEF Unshelves
  <2>2. CASE Quarantined(hand) /\ UNCHANGED <<cleanup, held, server>> /\
             IF cleanup[hand] = "root"
             THEN vaults' = shelf[hand] /\ shelf' = [shelf EXCEPT ![hand] = NoRoot]
             ELSE /\ vaults' = (vaults \ {hand}) \cup {cleanup[hand]}
                  /\ UNCHANGED shelf
    <3>1. vaults' # NoRoot
      <4>1. CASE cleanup[hand] = "root"
        BY <2>2, <4>1 DEF Quarantined
      <4>2. CASE cleanup[hand] # "root"
        <5>1. vaults \in SUBSET (Books \cup Cleanups) /\ hand # None /\ cleanup[hand] \in Books
          BY <1>0, <2>1, <2>2, <4>2 DEF Quarantined, HandInv
        <5>2. vaults' \in SUBSET (Books \cup Cleanups)
          BY <2>2, <4>2, <5>1
        <5> QED BY <1>0, <5>2
      <4> QED BY <4>1, <4>2
    <3>2. UNCHANGED <<cleanup, held, hand, job>>
      BY <2>2 DEF server
    <3> QED BY <3>1, <3>2
  <2>3. CASE Quarantined(hand) /\ Recreated(hand) /\ Finish /\ UNCHANGED folders
    <3>1. cleanup[hand] # "root" \/ (vaults # NoRoot /\ job = "sweep")
      BY <1>0, <1>a, <2>1, <2>3 DEF Recreated
    <3> QED BY <1>2, <2>3, <3>1 DEF folders
  <2> QED BY <1>7, <1>8, <1>b, <2>1, <2>2, <2>3 DEF Unshelves, CallFails
<1>9. CASE Drops
  <2>1. pc = "drop" /\ hand \in Cleanups
    BY <1>9, <1>a DEF Drops
  <2>2. CASE Quarantined(hand) /\ UNCHANGED <<cleanup, held, server>> /\
             IF cleanup[hand] = "root"
             THEN shelf' = [shelf EXCEPT ![hand] = NoRoot] /\ UNCHANGED vaults
             ELSE vaults' = vaults \ {hand} /\ UNCHANGED shelf
    <3>1. CASE cleanup[hand] = "root"
      BY <1>0, <2>1, <2>2, <3>1 DEF server
    <3>2. CASE cleanup[hand] # "root"
      <4>1. vaults \in SUBSET (Books \cup Cleanups)
        BY <1>0, <2>2, <3>2 DEF Quarantined
      <4>2. vaults' \in SUBSET (Books \cup Cleanups)
        BY <2>2, <3>2, <4>1
      <4> QED BY <1>0, <2>2, <3>2, <4>2 DEF server
    <3> QED BY <3>1, <3>2
  <2> QED BY <1>7, <1>9, <1>b, <2>1, <2>2 DEF Drops, CallFails
<1>10. ASSUME Then("drop") \/ Then("unshelve"), UNCHANGED folders
       PROVE  CalmFolders'
  <2>1. CASE hand = None
    BY <1>2, <1>10, <2>1 DEF Then, folders
  <2>2. CASE hand # None
    BY <1>0, <1>10, <2>2 DEF Then, GoTo, folders
  <2> QED BY <2>1, <2>2
<1>11. CASE Empties \/ DeletesRow
  BY <1>10, <1>11 DEF Empties, DeletesRow
<1>12. CASE (\E t \in Tokens : Reconciles(t)) \/ Opens \/ OpenFails
  BY <1>0, <1>1, <1>12, <1>a DEF Reconciles, Opens, OpenFails, folders
<1>13. CASE Lists \/ Moves \/ Commits
  BY <1>0, <1>1, <1>13, <1>a DEF Lists, Moves, BeginOpen, Commits, GoTo, folders
<1>14. CASE Unmoves \/ Undoes
  BY <1>14 DEF Unmoves, Undoes, CalmIntents
<1>15. CASE DiscardsOld
  <2>1. job # "sweep" /\ UNCHANGED folders
    BY <1>15, <1>a DEF DiscardsOld
  <2>2. CASE UNCHANGED server
    BY <1>1, <2>1, <2>2 DEF server, folders
  <2> QED BY <1>10, <1>15, <1>b, <2>1, <2>2 DEF DiscardsOld
<1>16. CASE BeginSweep
  <2>1. /\ pc = "micro" /\ hand = None /\ hand' = None /\ UNCHANGED folders
        /\ left' = {c \in Cleanups : cleanup[c] # None /\ c \notin held}
    BY <1>16, <1>a DEF BeginSweep
  <2>2. \A c \in held : cleanup[c] # "root"
    BY <1>0, <2>1
  <2>3. \A c \in Cleanups : shelf[c] # NoRoot => c \in left'
    BY <1>0, <1>a, <2>1, <2>2
  <2> QED BY <2>1, <2>2, <2>3 DEF folders
<1>17. ASSUME NEW c \in Cleanups, Sweeps(c)
       PROVE  CalmFolders'
  <2>1. /\ pc = "sweep" /\ left' = left \ {c} /\ UNCHANGED <<job, folders>> /\ hand = None
        /\ (ParentGone(c) /\ hand' = None) \/ hand' = c
    BY <1>17, <1>a DEF Sweeps
  <2>2. job = "sweep"
    BY <2>1 DEF RequestInv
  <2>3. ParentGone(c) => shelf[c] = NoRoot
    BY <1>a DEF ParentGone
  <2>4. \A d \in held : cleanup[d] # "root"
    BY <2>2
  <2> QED BY <1>0, <2>1, <2>2, <2>3, <2>4 DEF folders
<1>18. CASE EndSweep
  BY <1>1, <1>18 DEF EndSweep, folders
<1>19. ASSUME NEW j \in {"read", "create", "clear"}, Asks(j)
       PROVE  CalmFolders'
  BY <1>1, <1>19 DEF Asks, BeginOpen, folders
<1>20. CASE AsksForReset \/ \E b \in Books : AsksToDelete(b)
  BY <1>1, <1>20 DEF AsksForReset, AsksToDelete, folders
<1>21. ASSUME NEW b \in Books, MakesFolder(b)
       PROVE  CalmFolders'
  <2>1. vaults' \in SUBSET (Books \cup Cleanups)
    BY <1>0, <1>21 DEF MakesFolder
  <2> QED BY <1>0, <1>21, <2>1 DEF MakesFolder, server
<1>22. CASE Crash
  <2>1. held' = {} /\ job' = "none"
    BY <1>22 DEF Crash
  <2> QED BY <2>1
<1>23. CASE UNCHANGED vars
  BY <1>23 DEF vars, server, folders
<1> QED BY <1>3, <1>5, <1>6, <1>8, <1>9, <1>11, <1>12, <1>13, <1>14, <1>15, <1>16, <1>17, <1>18, <1>19, <1>20, <1>21, <1>22, <1>23
        DEF Next, Works, Requests

\* Folders are removed only of books that have no row (any more).
DropInv ==
  /\ pc = "discard" => rows[db] = {}
  /\ pc = "drop" => IF cleanup[hand] = "root" THEN rows[db] = {}
                    ELSE cleanup[hand] \notin rows[db]

\* A reset that commits has an empty library open.
LEMMA CommittedIsEmpty ==
  ASSUME BaseInv, FilesInv, ShelfInv, pc = "commit"
  PROVE  rows[db] = {}
<1>1. db # None /\ token # None /\ live[Main] = db /\ Main \in Artifacts
  BY DEF BaseInv, ControlInv, FilesInv, Artifacts
<1>2. token \in Tokens /\ Prepared(token) /\ AllMoved(token)
  BY <1>1, OwnsIt DEF BaseInv, Owned
<1>3. Main \in Stale(token)
  BY <1>1, <1>2 DEF Stale, AllMoved
<1> QED BY <1>1, <1>2, <1>3 DEF ShelfInv

LEMMA DropStep ==
  ASSUME BaseInv, RequestInv, FilesInv, ShelfInv, DropInv, [Next]_vars
  PROVE  DropInv'
<1> USE DEF DropInv
<1>0. /\ TypeOK /\ ControlInv /\ HandInv
      /\ db \in Libraries \cup {None} /\ rows \in [Libraries -> SUBSET Books]
      /\ "root" \notin Books /\ None # "root"
  BY NamesAssumption DEF BaseInv, TypeOK
<1>1. ASSUME UNCHANGED <<db, rows>>, pc' # "discard",
             pc' = "drop" => UNCHANGED <<pc, hand, cleanup>>
      PROVE  DropInv'
  BY <1>1
<1>2. CASE Commits
  <2>1. UNCHANGED <<db, rows>> /\ pc = "commit" /\ pc' # "drop"
    BY <1>2 DEF Commits, GoTo, data
  <2> QED BY <2>1, CommittedIsEmpty
<1>3. CASE Empties
  <2>1. /\ pc = "empty" /\ job = "clear" /\ db \in Libraries /\ UNCHANGED <<db, cleanup>>
    BY <1>0, <1>3 DEF Empties, RequestInv, ControlInv, folders
  <2>2. CASE rows' = [rows EXCEPT ![db] = {}] /\ Then("drop")
    <3>1. rows'[db] = {} /\ pc' # "discard"
      BY <1>0, <2>1, <2>2 DEF Then, GoTo, Finish
    <3>2. pc' = "drop" => hand' = hand /\ hand # None
      BY <2>2 DEF Then, GoTo, Finish
    <3> QED BY <2>1, <3>1, <3>2 DEF RequestInv
  <2>3. CASE Then("unshelve")
    BY <2>3 DEF Then, GoTo, Finish
  <2> QED BY <1>3, <2>2, <2>3 DEF Empties
<1>4. CASE DeletesRow
  <2>1. /\ pc = "row" /\ job = "delete" /\ db \in Libraries /\ UNCHANGED <<db, cleanup>>
        /\ book \in Books
    BY <1>0, <1>4 DEF DeletesRow, RequestInv, ControlInv, folders
  <2>2. CASE rows' = [rows EXCEPT ![db] = rows[db] \ {book}] /\ Then("drop")
    <3>1. book \notin rows'[db] /\ pc' # "discard"
      BY <1>0, <2>1, <2>2 DEF Then, GoTo, Finish
    <3>2. pc' = "drop" => hand' = hand /\ hand # None
      BY <2>2 DEF Then, GoTo, Finish
    <3> QED BY <1>0, <2>1, <3>1, <3>2 DEF RequestInv
  <2>3. CASE Then("unshelve")
    BY <2>3 DEF Then, GoTo, Finish
  <2> QED BY <1>4, <2>2, <2>3 DEF DeletesRow
<1>5. CASE DiscardsOld
  <2>1. pc = "discard" /\ UNCHANGED <<db, rows>>
    BY <1>5 DEF DiscardsOld, data
  <2> QED BY <2>1
<1>6. ASSUME NEW c \in Cleanups, Sweeps(c)
      PROVE  DropInv'
  BY <1>6 DEF Sweeps, Restores, data, folders
<1>7. CASE Unshelves \/ Drops
  <2>1. UNCHANGED <<db, rows>> /\ (Finish \/ UNCHANGED <<pc, hand, cleanup>>)
        /\ pc \in {"unshelve", "drop"}
    BY <1>7 DEF Unshelves, Drops, NothingAside, CallFails, data, server
  <2> QED BY <1>1, <2>1 DEF Finish
<1>8. CASE ShelvesRoot \/ ShelvesFolder \/ Shelves
  <2>1. UNCHANGED <<db, rows>> /\ pc' # "discard" /\ pc' # "drop"
    BY <1>0, <1>8 DEF ShelvesRoot, ShelvesFolder, Shelves, Shelve, Shelved, GoTo, Finish, data,
                      ControlInv
  <2> QED BY <2>1
<1>9. ASSUME NEW b \in Books, MakesFolder(b)
      PROVE  DropInv'
  BY <1>9 DEF MakesFolder, server, data
<1>10. CASE (\E t \in Tokens : Reconciles(t)) \/ Opens \/ OpenFails
  <2>1. pc' \notin {"discard", "drop"}
    BY <1>10 DEF Reconciles, Opens, Opened, OpenFails
  <2> QED BY <2>1
<1>11. CASE Reads \/ CreatesBook \/ BeginSweep \/ EndSweep
  <2>1. pc' \notin {"discard", "drop"}
    BY <1>11 DEF Reads, CreatesBook, BeginSweep, EndSweep, Finish
  <2> QED BY <2>1
<1>12. CASE Lists \/ Moves \/ Unmoves \/ Undoes
  <2>1. pc' \notin {"discard", "drop"}
    BY <1>12 DEF Lists, Moves, BeginOpen, Unmoves, Undoes, server, Then, GoTo, Finish
  <2> QED BY <2>1
<1>13. CASE (\E j \in {"read", "create", "clear"} : Asks(j)) \/ AsksForReset \/ \E b \in Books : AsksToDelete(b)
  <2>1. pc' \notin {"discard", "drop"}
    BY <1>13 DEF Asks, BeginOpen, AsksForReset, AsksToDelete
  <2> QED BY <2>1
<1>14. CASE Crash \/ Start
  BY <1>14 DEF Crash, Start
<1>15. CASE UNCHANGED vars
  BY <1>15 DEF vars, server, data, folders
<1> QED BY <1>2, <1>3, <1>4, <1>5, <1>6, <1>7, <1>8, <1>9, <1>10, <1>11, <1>12, <1>13, <1>14, <1>15
        DEF Next, Works, Requests

-----------------------------------------------------------------------------
(* What a start tidies up, and whose folders are removed. *)

TidyInv ==
  /\ KeepInv /\ RequestInv /\ QuarantineInv /\ TraceInv
  /\ ~entangled => DropInv
  /\ ~entangled /\ calm => CalmIntents /\ CalmFolders

LEMMA TidyInit == Init => TidyInv
<1> SUFFICES ASSUME Init PROVE TidyInv
  OBVIOUS
<1>1. KeepInv
  BY KeepInit
<1>2. /\ pc = "down" /\ job = "none" /\ hand = None /\ token = None /\ held = {} /\ active = {}
      /\ db = None /\ shelf = [c \in Cleanups |-> NoRoot] /\ cleanup = [c \in Cleanups |-> None]
      /\ listed = [t \in Tokens |-> {}]
  BY DEF Init
<1>3. vaults # NoRoot => vaults \in SUBSET Books
  BY DEF Init
<1>4. RequestInv /\ TraceInv /\ DropInv /\ CalmIntents /\ CalmFolders
  BY <1>2 DEF RequestInv, TraceInv, DropInv, CalmIntents, CalmFolders
<1>5. QuarantineInv
  BY <1>2, <1>3, NamesAssumption DEF QuarantineInv
<1> QED BY <1>1, <1>4, <1>5 DEF TidyInv

\* With a start nothing is held, and no getDb has run.
LEMMA StartIsCalm ==
  ASSUME BaseInv, RequestInv, Start
  PROVE  CalmIntents' /\ CalmFolders'
<1>1. /\ pc = "down" /\ pc' = "idle" /\ db = None /\ held = {} /\ active = {} /\ job = "none"
      /\ UNCHANGED <<job, db, active, held>>
  BY DEF Start, BaseInv, ControlInv, RequestInv, files, folders
<1> QED BY <1>1 DEF CalmIntents, CalmFolders

\* Only a start makes the server calm again.
LEMMA CalmStays ==
  ASSUME [Next]_vars, ~Start, calm'
  PROVE  calm
<1>1. NoFault \/ Fault \/ UNCHANGED calm => calm
  BY DEF NoFault, Fault, ghosts
<1>2. (\E t \in Tokens : Reconciles(t)) \/ Opens \/ OpenFails => NoFault \/ Fault
  BY DEF Reconciles, Opens, OpenFails
<1>3. Reads \/ CreatesBook \/ ShelvesRoot \/ ShelvesFolder => NoFault \/ Fault
  BY DEF Reads, CreatesBook, ShelvesRoot, ShelvesFolder, Shelve
<1>4. Shelves \/ Unshelves \/ Drops => NoFault \/ Fault
  BY DEF Shelves, Unshelves, Drops, NothingAside, CallFails
<1>5. Empties \/ DeletesRow \/ Lists \/ Moves \/ Commits \/ DiscardsOld => NoFault \/ Fault
  BY DEF Empties, DeletesRow, Lists, Moves, Commits, DiscardsOld
<1>6. Unmoves \/ Undoes => NoFault \/ Fault
  BY DEF Unmoves, Undoes
<1>7. BeginSweep \/ (\E c \in Cleanups : Sweeps(c)) \/ EndSweep => NoFault
  BY DEF BeginSweep, Sweeps, EndSweep
<1>8. Requests => NoFault \/ UNCHANGED calm
  BY DEF Requests, Asks, AsksToDelete, AsksForReset, MakesFolder
<1>9. Crash \/ UNCHANGED vars => UNCHANGED calm
  BY DEF Crash, vars, ghosts
<1> QED BY <1>1, <1>2, <1>3, <1>4, <1>5, <1>6, <1>7, <1>8, <1>9 DEF Next, Works

LEMMA TidyStep == TidyInv /\ [Next]_vars => TidyInv'
<1> SUFFICES ASSUME TidyInv, [Next]_vars PROVE TidyInv'
  OBVIOUS
<1>0. BaseInv /\ TypeOK /\ ControlInv /\ HandInv /\ (~entangled => FilesInv /\ ShelfInv)
  BY DEF TidyInv, KeepInv, IInv, BaseInv
<1>1. KeepInv' /\ RequestInv' /\ QuarantineInv' /\ TraceInv'
  BY <1>0, KeepStep, RequestStep, QuarantineStep, TraceStep DEF TidyInv
<1>2. ASSUME ~entangled'
      PROVE  DropInv'
  BY <1>0, <1>2, EntangledStays, DropStep DEF TidyInv
<1>3. ASSUME ~entangled', calm'
      PROVE  CalmIntents' /\ CalmFolders'
  <2>1. CASE Start
    BY <1>0, <2>1, StartIsCalm DEF TidyInv
  <2>2. CASE ~Start
    <3>1. calm
      BY <1>3, <2>2, CalmStays
    <3> QED BY <1>0, <1>3, <2>2, <3>1, EntangledStays, CalmIntentsStep, CalmFoldersStep DEF TidyInv
  <2> QED BY <2>1, <2>2
<1> QED BY <1>1, <1>2, <1>3 DEF TidyInv

LEMMA TidyHolds == Spec => []TidyInv
<1> QED BY TidyInit, TidyStep, PTL DEF Spec

\* Once a start in which no call failed has reconciled what an earlier one
\* left, however often that one died and wherever, no reset is left half done
\* and no folder is in quarantine without its intent.
THEOREM StartsTidy == Spec => []StartTidies
<1>1. ASSUME TidyInv
      PROVE  StartTidies
  <2> SUFFICES ASSUME pc = "sweep", left = {}, calm, ~entangled, ~buried
               PROVE  /\ \A t \in Tokens : phase[t] = "none" /\ \A a \in Artifacts : aside[t][a] = None
                      /\ \A c \in Cleanups :
                           /\ shelf[c] # NoRoot => cleanup[c] = "root" /\ vaults # NoRoot
                           /\ vaults # NoRoot /\ c \in vaults => cleanup[c] \in Books
    BY DEF StartTidies
  <2>1. BaseInv /\ ShelfInv /\ CalmIntents /\ CalmFolders
    BY <1>1 DEF TidyInv, KeepInv, IInv
  <2>2. job = "sweep" /\ db # None /\ hand = None /\ token = None
    BY <1>1, <2>1 DEF TidyInv, RequestInv, BaseInv, ControlInv, HandInv
  <2>3. None \notin Tokens \cup Cleanups
    BY NamesAssumption
  <2>4. ASSUME NEW t \in Tokens
        PROVE  phase[t] = "none" /\ \A a \in Artifacts : aside[t][a] = None
    <3>1. phase[t] = "none"
      BY <2>1, <2>2, <2>3 DEF CalmIntents
    <3>2. listed[t] = {}
      BY <1>1, <3>1 DEF TidyInv, TraceInv
    <3> QED BY <2>1, <3>1, <3>2 DEF ShelfInv
  <2>5. ASSUME NEW c \in Cleanups
        PROVE  /\ shelf[c] # NoRoot => cleanup[c] = "root" /\ vaults # NoRoot
               /\ vaults # NoRoot /\ c \in vaults => cleanup[c] \in Books
    BY <1>1, <2>1, <2>2, <2>3 DEF TidyInv, QuarantineInv, CalmFolders
  <2> QED BY <2>4, <2>5
<1> QED BY <1>1, TidyHolds, PTL

\* A folder of b in the directory r, under its name or in a quarantine.
Holds(r, b) == r # NoRoot /\ (b \in r \/ \E c \in Cleanups : cleanup[c] = b /\ c \in r)

LEMMA HasFolderIs ==
  ASSUME NEW b
  PROVE  /\ HasFolder(b) <=> \/ Holds(vaults, b)
                             \/ \E c \in Cleanups : cleanup[c] # None /\ Holds(shelf[c], b)
         /\ HasFolder(b)' <=> \/ Holds(vaults, b)'
                              \/ \E c \in Cleanups : cleanup'[c] # None /\ Holds(shelf[c], b)'
  BY DEF HasFolder, Holds

\* A new intent takes nothing away.
LEMMA ShelveKeepsFolders ==
  ASSUME TypeOK, NEW what, Shelve(what), NEW b \in Books, HasFolder(b)
  PROVE  HasFolder(b)'
<1> DEFINE c == CHOOSE c \in FreeCleanups : TRUE
<1>1. CASE UNCHANGED folders
  BY <1>1, HasFolderIs DEF Holds, folders
<1>2. CASE /\ FreeCleanups # {} /\ cleanup' = [cleanup EXCEPT ![c] = what]
           /\ UNCHANGED <<vaults, shelf, buried>>
  <2>1. c \in Cleanups /\ cleanup[c] = None
    BY <1>2, Chosen DEF FreeCleanups
  <2> HIDE DEF c
  <2>2. \A d \in Cleanups : cleanup[d] # None => cleanup'[d] = cleanup[d]
    BY <1>2, <2>1 DEF TypeOK
  <2>3. \A r : Holds(r, b) => r # NoRoot /\ (b \in r \/ \E d \in Cleanups : cleanup'[d] = b /\ d \in r)
    BY <2>2, NamesAssumption DEF Holds
  <2> QED BY <1>2, <2>2, <2>3, HasFolderIs DEF Holds
<1> QED BY <1>1, <1>2 DEF Shelve

\* Renaming a folder or all of vaults/ aside keeps every book's folder.
LEMMA MoveKeepsFolders ==
  ASSUME TypeOK, HandInv, QuarantineInv, pc = "shelve", MoveAside, UNCHANGED cleanup,
         NEW b \in Books, HasFolder(b)
  PROVE  HasFolder(b)'
<1>0. /\ hand \in Cleanups /\ cleanup[hand] # None /\ vaults # NoRoot
      /\ shelf \in [Cleanups -> Roots] /\ vaults \in SUBSET (Books \cup Cleanups)
      /\ Books \cap Cleanups = {} /\ NoRoot \notin SUBSET (Books \cup Cleanups)
      /\ cleanup \in [Cleanups -> {None, "root"} \cup Books] /\ shelf[hand] = NoRoot
  BY NamesAssumption DEF TypeOK, HandInv, Roots, QuarantineInv
<1>1. CASE cleanup[hand] = "root"
  <2>1. \A c \in Cleanups \ {hand} : shelf'[c] = shelf[c]
    BY <1>0, <1>1 DEF MoveAside
  <2>2. shelf'[hand] = vaults
    BY <1>0, <1>1 DEF MoveAside
  <2> QED BY <1>0, <2>1, <2>2, HasFolderIs DEF Holds
<1>2. CASE cleanup[hand] # "root"
  <2>1. /\ shelf' = shelf /\ vaults' = (vaults \ {cleanup[hand]}) \cup {hand}
        /\ cleanup[hand] \in Books
    BY <1>0, <1>2 DEF MoveAside
  <2>2. vaults' \in SUBSET (Books \cup Cleanups)
    BY <1>0, <2>1
  <2>3. Holds(vaults, b) => Holds(vaults, b)'
    BY <1>0, <2>1, <2>2 DEF Holds
  <2> QED BY <2>1, <2>3, HasFolderIs DEF Holds
<1> QED BY <1>1, <1>2

\* So does the removal of an intent whose folder is not in quarantine, unless
\* that folder is buried in another quarantine.
LEMMA RemovalKeepsFolders ==
  ASSUME TypeOK, QuarantineInv, ~buried, hand \in Cleanups, RemoveCleanupIntent(hand),
         shelf[hand] = NoRoot, cleanup[hand] \in Books /\ vaults # NoRoot => hand \notin vaults,
         UNCHANGED <<vaults, shelf>>, NEW b \in Books, HasFolder(b)
  PROVE  HasFolder(b)'
<1>1. /\ \A c \in Cleanups \ {hand} : cleanup'[c] = cleanup[c]
      /\ \A c \in Cleanups : shelf[c] # NoRoot => hand \notin shelf[c]
  BY DEF RemoveCleanupIntent, TypeOK, QuarantineInv
<1>2. Holds(vaults, b) => Holds(vaults, b)'
  BY <1>1 DEF Holds
<1>3. \A c \in Cleanups : Holds(shelf[c], b) => Holds(shelf[c], b)' /\ c # hand
  BY <1>1 DEF Holds
<1> QED BY <1>1, <1>2, <1>3, HasFolderIs

\* And putting a folder back.
LEMMA UnshelvesKeepsFolders ==
  ASSUME BaseInv, QuarantineInv, ~buried, Unshelves, NEW b \in Books, HasFolder(b)
  PROVE  HasFolder(b)'
<1>0. /\ TypeOK /\ hand \in Cleanups /\ cleanup[hand] # None /\ shelf \in [Cleanups -> Roots]
      /\ vaults # NoRoot => vaults \in SUBSET (Books \cup Cleanups)
      /\ Books \cap Cleanups = {} /\ NoRoot \notin SUBSET (Books \cup Cleanups)
      /\ cleanup \in [Cleanups -> {None, "root"} \cup Books]
  BY NamesAssumption DEF BaseInv, TypeOK, HandInv, Roots, Unshelves
<1>1. CASE UNCHANGED <<vaults, shelf, cleanup>>
  BY <1>1, HasFolderIs DEF Holds
<1>2. CASE NothingAside /\ RemoveCleanupIntent(hand)
  <2>1. shelf[hand] = NoRoot /\ (cleanup[hand] \in Books /\ vaults # NoRoot => hand \notin vaults)
    BY <1>0, <1>2, NamesAssumption DEF NothingAside, Quarantined, QuarantineInv
  <2> QED BY <1>0, <1>2, <2>1, RemovalKeepsFolders DEF NothingAside
<1>3. CASE Quarantined(hand) /\ ~Recreated(hand) /\ UNCHANGED cleanup /\
           IF cleanup[hand] = "root"
           THEN vaults' = shelf[hand] /\ shelf' = [shelf EXCEPT ![hand] = NoRoot]
           ELSE /\ vaults' = (vaults \ {hand}) \cup {cleanup[hand]}
                /\ UNCHANGED shelf
  <2>1. CASE cleanup[hand] = "root"
    <3>1. /\ vaults = NoRoot /\ vaults' = shelf[hand] /\ vaults' # NoRoot
          /\ \A c \in Cleanups \ {hand} : shelf'[c] = shelf[c]
      BY <1>0, <1>3, <2>1 DEF Quarantined, Recreated
    <3> QED BY <1>3, <3>1, HasFolderIs DEF Holds
  <2>2. CASE cleanup[hand] # "root"
    <3>1. /\ vaults # NoRoot /\ vaults' = (vaults \ {hand}) \cup {cleanup[hand]}
          /\ cleanup[hand] \in Books
      BY <1>0, <1>3, <2>2 DEF Quarantined
    <3>2. vaults' \in SUBSET (Books \cup Cleanups)
      BY <1>0, <3>1
    <3>3. Holds(vaults, b) => Holds(vaults, b)'
      BY <1>0, <1>3, <3>1, <3>2 DEF Holds
    <3> QED BY <1>3, <2>2, <3>3, HasFolderIs DEF Holds
  <2> QED BY <2>1, <2>2
<1> QED BY <1>1, <1>2, <1>3 DEF Unshelves, NothingAside, CallFails, folders

\* A removal takes only folders of books that have no row.
LEMMA DropsKeepFolders ==
  ASSUME BaseInv, QuarantineInv, DropInv, ~buried, Drops, NEW b \in Books, HasFolder(b),
         b \in rows[db]
  PROVE  HasFolder(b)'
<1>0. /\ TypeOK /\ hand \in Cleanups /\ cleanup[hand] # None /\ pc = "drop"
      /\ vaults # NoRoot => vaults \in SUBSET (Books \cup Cleanups)
      /\ Books \cap Cleanups = {} /\ NoRoot \notin SUBSET (Books \cup Cleanups)
      /\ cleanup \in [Cleanups -> {None, "root"} \cup Books]
  BY NamesAssumption DEF BaseInv, TypeOK, HandInv, Roots, Drops
<1>1. CASE UNCHANGED <<vaults, shelf, cleanup>>
  BY <1>1, HasFolderIs DEF Holds
<1>2. CASE NothingAside /\ RemoveCleanupIntent(hand)
  <2>1. shelf[hand] = NoRoot /\ (cleanup[hand] \in Books /\ vaults # NoRoot => hand \notin vaults)
    BY <1>0, <1>2, NamesAssumption DEF NothingAside, Quarantined, QuarantineInv
  <2> QED BY <1>0, <1>2, <2>1, RemovalKeepsFolders DEF NothingAside
<1>3. cleanup[hand] # "root" /\ cleanup[hand] # b
  BY <1>0 DEF DropInv
<1>4. CASE Quarantined(hand) /\ UNCHANGED cleanup /\ vaults' = vaults \ {hand} /\ UNCHANGED shelf
  <2>1. vaults \in SUBSET (Books \cup Cleanups) /\ vaults # NoRoot
    BY <1>0, <1>3, <1>4 DEF Quarantined
  <2>2. vaults' \in SUBSET (Books \cup Cleanups)
    BY <1>4, <2>1
  <2>3. Holds(vaults, b) => Holds(vaults, b)'
    BY <1>0, <1>3, <1>4, <2>1, <2>2 DEF Holds
  <2> QED BY <1>4, <2>3, HasFolderIs DEF Holds
<1> QED BY <1>1, <1>2, <1>3, <1>4 DEF Drops, NothingAside, CallFails

LEMMA MakesKeepsFolders ==
  ASSUME TypeOK, NEW c \in Books, MakesFolder(c), NEW b \in Books, HasFolder(b)
  PROVE  HasFolder(b)'
<1>1. /\ vaults # NoRoot => vaults \subseteq vaults'
      /\ vaults' \in SUBSET (Books \cup Cleanups) /\ UNCHANGED <<shelf, cleanup>>
  BY DEF MakesFolder, TypeOK, Roots
<1>2. vaults' # NoRoot
  BY <1>1, NamesAssumption
<1> QED BY <1>1, <1>2, HasFolderIs DEF Holds

LEMMA BuriedStays == [Next]_vars /\ ~buried' => ~buried
<1>1. ShelvesRoot \/ ShelvesFolder => UNCHANGED buried
  BY DEF ShelvesRoot, ShelvesFolder, Shelve, folders
<1>2. Shelves /\ ~buried' => ~buried
  BY DEF Shelves, MoveAside
<1>3. Unshelves \/ Drops => UNCHANGED buried
  BY DEF Unshelves, Drops, NothingAside, CallFails, folders
<1>4. (\E b \in Books : MakesFolder(b)) => UNCHANGED buried
  BY DEF MakesFolder
<1> QED BY <1>1, <1>2, <1>3, <1>4, FoldersStill

\* Where folders are removed the books of the open library are the kept ones.
LEMMA DropsKept ==
  ASSUME BaseInv, RequestInv, FilesInv, pc = "drop"
  PROVE  Kept = rows[db]
<1>1. TypeOK /\ Unprepared /\ db # None /\ live[Main] = db
  BY QuietPlaces DEF BaseInv, RequestInv, FilesInv
<1>2. Kept = InPlace
  BY <1>1, KeptIs DEF Unprepared, Away
<1> QED BY <1>1, <1>2 DEF InPlace

LEMMA KeptType ==
  ASSUME TypeOK, FilesInv
  PROVE  Kept \subseteq Books
<1>0. /\ live \in [Artifacts -> Libraries \cup {None}] /\ Main \in Artifacts
      /\ aside \in [Tokens -> [Artifacts -> Libraries \cup {None}]]
      /\ rows \in [Libraries -> SUBSET Books]
  BY DEF TypeOK, Artifacts
<1>1. ASSUME NEW t \in Tokens, Away(t)
      PROVE  Kept \subseteq Books
  <2>1. aside[t][Main] \in Libraries /\ Kept = rows[aside[t][Main]]
    BY <1>0, <1>1, KeptIs DEF Away
  <2> QED BY <1>0, <2>1
<1>2. CASE \A t \in Tokens : ~Away(t)
  <2>1. live[Main] \in Libraries \cup {None} /\ Kept = InPlace
    BY <1>0, <1>2, KeptIs
  <2> QED BY <1>0, <2>1 DEF InPlace
<1> QED BY <1>1, <1>2

\* No cleanup, however it is interrupted, takes the folder of a book that
\* stays in the library, until a folder in quarantine is buried in another.
THEOREM FoldersAreKept == Spec => KeptFolders
<1>1. ASSUME TidyInv, [Next]_vars, ~entangled, ~buried'
      PROVE  \A b \in Kept \cap Kept' : HasFolder(b) => HasFolder(b)'
  <2>0. BaseInv /\ TypeOK /\ ControlInv /\ HandInv /\ FilesInv /\ QuarantineInv /\ DropInv
        /\ RequestInv /\ ~buried
    BY <1>1, BuriedStays DEF TidyInv, KeepInv, IInv, BaseInv
  <2>1. Kept \subseteq Books
    BY <2>0, KeptType
  <2> SUFFICES ASSUME NEW b \in Books, b \in Kept, HasFolder(b) PROVE HasFolder(b)'
    BY <2>1
  <2>2. CASE ShelvesRoot \/ ShelvesFolder
    BY <2>0, <2>2, ShelveKeepsFolders DEF ShelvesRoot, ShelvesFolder
  <2>3. CASE Shelves
    <3>1. hand \in Cleanups /\ pc = "shelve" /\ shelf[hand] = NoRoot /\ hand \notin vaults
      BY <2>0, <2>3 DEF Shelves, HandInv, TypeOK, QuarantineInv
    <3>2. CASE MoveAside /\ UNCHANGED cleanup
      BY <2>0, <3>1, <3>2, MoveKeepsFolders
    <3>3. CASE RemoveCleanupIntent(hand) /\ UNCHANGED <<vaults, shelf, buried>>
      BY <2>0, <3>1, <3>3, RemovalKeepsFolders
    <3> QED BY <2>3, <3>2, <3>3 DEF Shelves
  <2>4. CASE Unshelves
    BY <2>0, <2>4, UnshelvesKeepsFolders
  <2>5. CASE Drops
    <3>1. b \in rows[db]
      BY <2>0, <2>5, DropsKept DEF Drops
    <3> QED BY <2>0, <2>5, <3>1, DropsKeepFolders
  <2>6. CASE \E c \in Books : MakesFolder(c)
    BY <2>0, <2>6, MakesKeepsFolders
  <2>7. ASSUME UNCHANGED <<vaults, shelf, cleanup>>
        PROVE  HasFolder(b)'
    BY <2>7, HasFolderIs DEF Holds
  <2> QED BY <1>1, <2>2, <2>3, <2>4, <2>5, <2>6, <2>7, FoldersStill
<1>2. TidyInv /\ [Next]_vars =>
        [~entangled /\ ~buried' => \A b \in Kept \cap Kept' : HasFolder(b) => HasFolder(b)']_vars
  BY <1>1
<1> QED BY <1>2, TidyHolds, PTL DEF Spec, KeptFolders
=============================================================================
