------------------------------ MODULE LocalPass ------------------------------
(***************************************************************************)
(* One call of syncLocalBooks, from the moment the feed was listed, among    *)
(* the users of the Kobo and of Readeck, watched by history variables that   *)
(* remember what was the case while it ran.                                  *)
(***************************************************************************)
EXTENDS PassHistory

vars == <<env, local, history>>

Init ==
  /\ EnvironmentInit
  /\ pc = "start" /\ todo = {} /\ book \in Books \ Unnamed /\ call = NoCall
  /\ filesChanged = FALSE /\ failed = FALSE
  \* Fetch.Limit, or a feed that moves between two pages, may hide some of it.
  /\ listed \in SUBSET Feed /\ keepLocal \in SUBSET listed /\ bookmarks = snapshot(listed)
  /\ Begun

\* The pass is over, and so is the model.
Users == pc # "done" /\ UserStep /\ UNCHANGED local

Next == (LocalStep \/ Users) /\ Observe

Spec == Init /\ [][Next]_vars

-----------------------------------------------------------------------------
\* Every variable keeps its type; call in particular, so a Nickel status is
\* always one of the four that bookStatus names (nickelReadStatus).
TypeOK ==
  /\ PassTypeOK
  /\ pc \in {"start", "next", "done"} \/ InCall

\* A book that has been in use since the feed was listed keeps its file, whatever
\* fails on the way, if Output.Path is spelt as Nickel spells it, but for a slash at
\* the end: an unreadable status must preserve it (local_books.go:58, 116-119).
OpenBooksSurvive == [][KeepsOpenBooks]_vars

\* syncLocalBooks removes a book "only after all updates for that book have
\* succeeded": Readeck has held it as finished (and archived) if it was finished,
\* and with the favourite flag that the Kobo collection calls for.
ReportedBeforeRemoval == [][ReportsBeforeRemoving]_vars

\* Only with Output.Delete, only files with a stem, and a book of the labelled
\* feed only once it is archived in Readeck (local_books.go:68-74).
OnlyStaleBooksGo == [][RemovesOnlyStale]_vars

\* kobodeck writes Readeck only what the Kobo says: finished and archived for a
\* finished book, the favourite flag as the collection has it, nothing else, also
\* when the collection could not be read (local_books.go:103-115, 133-177).
ReadeckFollowsKobo == [][TellsWhatKoboSays]_vars

\* When nothing fails and nobody interferes one pass is enough: finished books are
\* reported, favourites agree, and a file the feed does not want is gone.  A book
\* that Readeck no longer has is the exception (getBookmark answers 404).
Wanted(b) == \/ InUse(nickel[b].row)
             \/ b \in keepLocal /\ ~(nickel[b].row = "read" /\ readeck[b].archived)

QuietPassConverges ==
  pc = "done" /\ faults = 0 /\ edits = 0 /\ WellSpelt =>
    \A b \in disk \ Unnamed : readeck[b].exists => Reported(b) /\ (cfg.delete => Wanted(b))

\* What the comment of removeStaleLocalBook says (local_books.go:181): never a book
\* that is being read at that moment, here for an Output.Path that is spelt well.
\* Violated: the status was read before the requests to Readeck, and the user may have
\* opened the book since.
NeverRemovesOpenBook ==
  [][\A b \in Books : Removes(b) /\ WellSpelt => ~InUse(nickel[b].row)]_vars

\* What the comment says of nickelContentID (nickeldb.go:104, 78), that Nickel
\* identifies the book on disk by it, and hence removeStaleLocalBook of its books
\* (local_books.go:181), whatever Output.Path validate accepts: one that has been in
\* use all along keeps its file.  Violated: with another spelling every status reads
\* as unread.
AnyPathFindsTheBook == [][\A b \in Books : Removes(b) => b \notin open]_vars

\* What README.md:98-99 says of Output.Delete: a file that is absent from the feed is
\* deleted.  Violated for a bookmark that Readeck no longer has.
StaleBooksRemoved ==
  pc = "done" /\ faults = 0 /\ edits = 0 /\ WellSpelt /\ cfg.delete =>
    \A b \in disk \ Unnamed : Wanted(b)

-----------------------------------------------------------------------------
\* The inductive invariant behind these properties.
IInv == TypeOK /\ PassInv
=============================================================================
