------------------------------ MODULE LocalBooks ------------------------------
(***************************************************************************)
(* syncLocalBooks (local_books.go): for every book file, push the Kobo's     *)
(* reading state to Readeck, then remove the file if the feed no longer      *)
(* keeps it.  One action per call that leaves the process; pc names the step *)
(* that comes next.                                                          *)
(***************************************************************************)
EXTENDS Environment

VARIABLES
  pc,            \* the next step of the program
  keepLocal,     \* the bookmarks of the feed that match the label filter
  listed,        \* the bookmarks of the feed: the keys of the Go map "bookmarks"
  bookmarks,     \* their state when they were listed
  todo,          \* files of the directory listing not yet visited
  book,          \* the file being visited
  call,          \* the locals of updateReadeckFromKobo for that file
  filesChanged,  \* a file was removed
  failed         \* syncErr # nil

local == <<pc, keepLocal, listed, bookmarks, todo, book, call, filesChanged, failed>>

\* shelf is "unknown" until isInCollection has answered; mark and known are
\* bookmark and bookmarkKnown; err is updateErr # nil.
Call == [status : {"unread", "reading", "read", "closed"}, unreadable : BOOLEAN,
         shelf : {"in", "out", "unknown"}, known : BOOLEAN, mark : Bookmark,
         archived : BOOLEAN, err : BOOLEAN]

NoCall == [status |-> "unread", unreadable |-> FALSE, shelf |-> "unknown",
           known |-> FALSE, mark |-> Gone, archived |-> FALSE, err |-> FALSE]

\* The Go map "bookmarks" for the entries of a listing made now.
snapshot(entries) == [b \in Books |-> IF b \in entries THEN readeck[b] ELSE Gone]

InCall == pc \in {"collection", "getFinished", "patchFinished",
                  "getFavourite", "patchFavourite", "settle"}

-----------------------------------------------------------------------------
ListLocalBooks ==
  /\ pc = "start"
  /\ \/ /\ cfg.path # "malformed" /\ pc' = "next" /\ UNCHANGED failed
        /\ todo' = IF cfg.path = "class" THEN {} ELSE disk
     \/ cfg.path = "malformed" /\ failed' = TRUE /\ pc' = "done" /\ UNCHANGED todo
  /\ UNCHANGED <<env, keepLocal, listed, bookmarks, book, call, filesChanged>>

\* A file without a stem is passed over.
SkipUnnamed ==
  /\ pc = "next"
  /\ \E b \in todo \cap Unnamed : todo' = todo \ {b}
  /\ UNCHANGED <<env, pc, keepLocal, listed, bookmarks, book, call, filesChanged, failed>>

ReadStatus ==
  /\ pc = "next"
  /\ \E b \in todo \ Unnamed :
       /\ todo' = todo \ {b}
       /\ book' = b
       /\ LET start == [NoCall EXCEPT !.known = b \in listed, !.mark = bookmarks[b]]
          IN \/ /\ call' = [start EXCEPT !.status = nickelReadStatus(foundRow(b))]
                /\ UNCHANGED faults
             \/ Fault /\ call' = [start EXCEPT !.unreadable = TRUE]
  /\ pc' = "collection"
  /\ UNCHANGED <<cfg, disk, nickel, readeck, edits, keepLocal, listed, bookmarks,
                 filesChanged, failed>>

\* Mutant: a failed query reads as "not in the collection".
CollectionErrorIsOut(c) == [c EXCEPT !.err = TRUE, !.shelf = "out"]
CollectionError(c) == [c EXCEPT !.err = TRUE]

\* An unreadable status ends the call here, with an error.
CheckCollection ==
  /\ pc = "collection"
  /\ pc' = IF call.unreadable THEN "settle" ELSE "getFinished"
  /\ LET seen == [call EXCEPT !.err = call.unreadable]
     IN \/ ~cfg.favourites /\ call' = seen /\ UNCHANGED faults
        \/ /\ cfg.favourites
           /\ call' = [seen EXCEPT !.shelf = isInCollection(book)]
           /\ UNCHANGED faults
        \/ cfg.favourites /\ Fault /\ call' = CollectionError(seen)
  /\ UNCHANGED <<cfg, disk, nickel, readeck, edits, keepLocal, listed, bookmarks,
                 todo, book, filesChanged, failed>>

\* getBookmark when "needed", for the finished state and for the favourite.
Get(needed) ==
  /\ \/ ~needed /\ UNCHANGED <<call, faults>>
     \/ /\ needed /\ readeck[book].exists
        /\ call' = [call EXCEPT !.known = TRUE, !.mark = readeck[book]]
        /\ UNCHANGED faults
     \/ /\ needed /\ getBookmarkFails(book)
        /\ call' = [call EXCEPT !.err = TRUE, !.mark = Gone]
  /\ UNCHANGED <<cfg, disk, nickel, readeck, edits, keepLocal, listed, bookmarks,
                 todo, book, filesChanged, failed>>

GetFinished ==
  /\ pc = "getFinished" /\ pc' = "patchFinished"
  /\ Get(call.status = "read" /\ ~call.known)

GetFavourite ==
  /\ pc = "getFavourite" /\ pc' = "patchFavourite"
  /\ Get(call.shelf # "unknown" /\ ~call.known)

\* Mutant: archiving goes with marking as read only.
archiveRequestedWithRead == cfg.archive /\ ~call.mark.archived /\ ~call.mark.done
archiveRequested == cfg.archive /\ ~call.mark.archived

\* The PATCH of the fields that the bookmark, as kobodeck knows it, lacks.
\* Mutant: archiving leaves out read_progress.
FinishedArchivesOnly == [readeck[book] EXCEPT !.archived = @ \/ archiveRequested]
Finished == [readeck[book] EXCEPT !.done = @ \/ ~call.mark.done,
                                   !.archived = @ \/ archiveRequested]

PatchFinished ==
  /\ pc = "patchFinished" /\ pc' = "getFavourite"
  /\ LET applies == call.status = "read" /\ call.known
         needed  == applies /\ (~call.mark.done \/ archiveRequested)
     IN \/ ~applies /\ UNCHANGED <<call, readeck, faults>>
        \/ /\ applies /\ ~needed
           /\ call' = [call EXCEPT !.archived = call.mark.archived]
           /\ UNCHANGED <<readeck, faults>>
        \/ /\ needed /\ patchBookmark(book, Finished)
           /\ call' = [call EXCEPT !.archived = call.mark.archived \/ archiveRequested]
        \/ /\ needed /\ patchBookmarkFails(book, Finished)
           /\ call' = [call EXCEPT !.archived = call.mark.archived, !.err = TRUE]
  /\ UNCHANGED <<cfg, disk, nickel, edits, keepLocal, listed, bookmarks,
                 todo, book, filesChanged, failed>>

Favoured == [readeck[book] EXCEPT !.marked = (call.shelf = "in")]

PatchFavourite ==
  /\ pc = "patchFavourite" /\ pc' = "settle"
  /\ LET needed == /\ call.shelf # "unknown" /\ call.known
                   /\ (call.shelf = "in") # call.mark.marked
     IN \/ ~needed /\ UNCHANGED <<call, readeck, faults>>
        \/ needed /\ patchBookmark(book, Favoured) /\ UNCHANGED call
        \/ /\ needed /\ patchBookmarkFails(book, Favoured)
           /\ call' = [call EXCEPT !.err = TRUE]
  /\ UNCHANGED <<cfg, disk, nickel, edits, keepLocal, listed, bookmarks,
                 todo, book, filesChanged, failed>>

\* Mutants: a closed book is not being read; the feed does not matter; only finished
\* books are removed.
removableWhenClosed == cfg.delete /\ ~(book \in keepLocal /\ ~call.archived)
                                  /\ call.status # "reading"
removableUnlessOpen == cfg.delete /\ call.status \notin {"reading", "closed"}
removableWhenRead == cfg.delete /\ ~(book \in keepLocal /\ ~call.archived)
                                /\ call.status = "read"

\* removeStaleLocalBook, unless updating Readeck failed for this book.
removable == /\ cfg.delete
             /\ ~(book \in keepLocal /\ ~call.archived)
             /\ call.status \notin {"reading", "closed"}

Settle ==
  /\ pc = "settle" /\ pc' = "next"
  /\ \/ call.err /\ failed' = TRUE /\ UNCHANGED <<disk, filesChanged, faults>>
     \/ ~call.err /\ ~removable /\ UNCHANGED <<disk, filesChanged, failed, faults>>
     \/ /\ ~call.err /\ removable /\ book \in disk
        /\ disk' = disk \ {book} /\ filesChanged' = TRUE
        /\ UNCHANGED <<failed, faults>>
     \/ /\ ~call.err /\ removable /\ ((book \notin disk /\ UNCHANGED faults) \/ Fault)
        /\ failed' = TRUE
        /\ UNCHANGED <<disk, filesChanged>>
  /\ UNCHANGED <<cfg, nickel, readeck, edits, keepLocal, listed, bookmarks, todo, book, call>>

Finish ==
  /\ pc = "next" /\ todo = {} /\ pc' = "done"
  /\ UNCHANGED <<env, keepLocal, listed, bookmarks, todo, book, call, filesChanged, failed>>

LocalStep == \/ ListLocalBooks \/ SkipUnnamed \/ ReadStatus \/ CheckCollection
             \/ GetFinished \/ PatchFinished \/ GetFavourite \/ PatchFavourite
             \/ Settle \/ Finish

-----------------------------------------------------------------------------
\* The type of all of this but pc, which runs have more steps for.
LocalTypeOK ==
  /\ EnvironmentTypeOK
  /\ listed \subseteq Books /\ keepLocal \subseteq listed
  /\ bookmarks \in [Books -> Bookmark]
  /\ todo \subseteq Books /\ book \in Books \ Unnamed /\ call \in Call
  /\ filesChanged \in BOOLEAN /\ failed \in BOOLEAN

\* For the properties: Readeck says of b what the Kobo does.
Reported(b) ==
  /\ nickel[b].row = "read" => readeck[b].done /\ (cfg.archive => readeck[b].archived)
  /\ cfg.favourites => readeck[b].marked = nickel[b].shelf

\* For the properties: kobodeck, not the user, removes the file of b in this step.
Removes(b) == b \in disk \ disk' /\ edits' = edits
=============================================================================
