---------------------------- MODULE LibraryShelf ----------------------------
(* What adding a book, deleting one, clearing the library and starting a     *)
(* fresh one promise: the author's books change once for a request that was  *)
(* made, as the request says, or not at all, whatever the files on the disk  *)
(* go through.  A crash gives the request up; a rollback or a recovery is no *)
(* step of the shelf.                                                        *)
CONSTANTS Books, None

VARIABLES
  books,
  asked     \* None, "add", "empty" or the book to delete

Ask ==
  /\ asked = None /\ asked' \in {"add", "empty"} \cup Books
  /\ UNCHANGED books

Serve ==
  /\ \/ asked = "add" /\ \E b \in Books \ books : books' = books \cup {b}
     \/ asked \in Books /\ books' = books \ {asked}
     \/ asked = "empty" /\ books' = {}
  /\ asked' = None

GiveUp == asked # None /\ asked' = None /\ UNCHANGED books

Init == books \in SUBSET Books /\ asked = None

Next == Ask \/ Serve \/ GiveUp

Spec == Init /\ [][Next]_<<books, asked>>
=============================================================================
