----------------------------- MODULE PassHistory -----------------------------
(***************************************************************************)
(* syncLocalBooks among the users of the Kobo and of Readeck, watched by      *)
(* history variables that remember what has been the case since the feed was   *)
(* listed: what its steps promise, and the invariant that makes them keep it.  *)
(* LocalPass has one pass on its own, Runs those of runs after runs.           *)
(***************************************************************************)
EXTENDS LocalBooks

VARIABLES
  open,    \* books Nickel has shown as being read ever since
  steady,  \* books whose Nickel row and collection have not changed since
  seen     \* the states each bookmark has had in Readeck since

history == <<open, steady, seen>>

\* What the history begins with when the feed is listed.
openNow == {b \in Books : InUse(nickel[b].row)}
seenNow == [b \in Books |-> {readeck[b]}]

Begun == open = openNow /\ steady = Books /\ seen = seenNow

Sees == seen' = [b \in Books |-> seen[b] \cup {readeck'[b]}]

Observe ==
  /\ open' = {b \in open : InUse(nickel'[b].row)}
  /\ steady' = {b \in steady : nickel'[b] = nickel[b]}
  /\ Sees

\* The type of all of this but pc.
HistoryTypeOK ==
  /\ open \subseteq Books /\ steady \subseteq Books
  /\ seen \in [Books -> SUBSET Bookmark]

PassTypeOK == LocalTypeOK /\ HistoryTypeOK

-----------------------------------------------------------------------------
(* What a step may not do; the properties of LocalPass and Runs say that none *)
(* does.                                                                      *)

\* A book that has been in use since the feed was listed keeps its file.
KeepsOpenBooks == \A b \in Books : Removes(b) /\ WellSpelt => b \notin open

\* When the file of a book goes, Readeck has held what the Kobo says of the book.
ReportsBeforeRemoving == \A b \in steady : Removes(b) /\ WellSpelt =>
    /\ nickel[b].row = "read" => /\ \E m \in seen[b] : m.done
                                 /\ cfg.archive => \E m \in seen[b] : m.archived
    /\ cfg.favourites => \E m \in seen[b] : m.marked = nickel[b].shelf

\* A file goes only with Output.Delete and if it has a stem, and one of the labelled
\* feed only once its bookmark has been archived.
RemovesOnlyStale == \A b \in Books : Removes(b) =>
    /\ cfg.delete /\ b \notin Unnamed
    /\ b \in keepLocal => \E m \in seen[b] : m.archived

\* A write of kobodeck to Readeck says nothing but what the Kobo says.
TellsWhatKoboSays == \A b \in steady :
    readeck'[b] # readeck[b] /\ edits' = edits /\ WellSpelt =>
    /\ readeck'[b].exists
    /\ \/ readeck'[b].marked = readeck[b].marked
       \/ cfg.favourites /\ readeck'[b].marked = nickel[b].shelf
    /\ (readeck'[b].done # readeck[b].done \/ readeck'[b].archived # readeck[b].archived)
       => /\ nickel[b].row = "read"
          /\ readeck[b].done => readeck'[b].done
          /\ readeck[b].archived => readeck'[b].archived
          /\ readeck'[b].archived # readeck[b].archived => cfg.archive

-----------------------------------------------------------------------------
(* The inductive invariant behind these: what the locals of the call in        *)
(* progress say about the Kobo and about Readeck.                              *)

\* The status that was read is still the status of a book nobody has touched, and
\* keeps a book in use from being removed.
StatusInv == InCall /\ ~call.unreadable =>
  /\ book \in open /\ WellSpelt => call.status \in {"reading", "closed"}
  /\ book \in steady => call.status = nickelReadStatus(foundRow(book))

\* An unreadable status leads straight to the end of the call, with an error.
UnreadableInv == InCall /\ call.unreadable => pc = "collection" \/ (pc = "settle" /\ call.err)

ShelfInv ==
  /\ InCall /\ call.shelf # "unknown" =>
       cfg.favourites /\ (book \in steady => call.shelf = isInCollection(book))
  /\ InCall /\ pc # "collection" /\ cfg.favourites /\ ~call.err => call.shelf # "unknown"

\* What kobodeck holds of a bookmark has been its state in Readeck.
KnownInv ==
  /\ \A b \in listed : bookmarks[b] \in seen[b]
  /\ InCall /\ call.known => call.mark \in seen[book]
  /\ InCall /\ call.archived => \E m \in seen[book] : m.archived
  /\ pc = "patchFinished" /\ call.status = "read" /\ ~call.err => call.known
  /\ pc = "patchFavourite" /\ call.shelf # "unknown" /\ ~call.err => call.known

\* Past a block of updateReadeckFromKobo without an error, Readeck has held what
\* the block is there to tell it.
ReportInv ==
  /\ pc \in {"getFavourite", "patchFavourite", "settle"} /\ call.status = "read" /\ ~call.err =>
       /\ \E m \in seen[book] : m.done
       /\ cfg.archive => \E m \in seen[book] : m.archived
  /\ pc = "settle" /\ cfg.favourites /\ ~call.err =>
       \E m \in seen[book] : m.marked = (call.shelf = "in")

HistoryInv ==
  /\ \A b \in open : InUse(nickel[b].row)
  /\ \A b \in Books : readeck[b] \in seen[b]

PassInv == HistoryInv /\ StatusInv /\ UnreadableInv /\ ShelfInv /\ KnownInv /\ ReportInv
=============================================================================
