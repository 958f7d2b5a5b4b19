--------------------------------- MODULE Sync ---------------------------------
(***************************************************************************)
(* Runs of kobodeck (app.sync): the feed is listed page by page, with        *)
(* retries; its books are downloaded; syncLocalBooks goes over the files;    *)
(* Nickel is told to rescan if a file changed.  Runs follow one another for   *)
(* as long as the device reconnects; each may crash anywhere, and only files, *)
(* Nickel and Readeck outlive it.                                             *)
(***************************************************************************)
EXTENDS LocalBooks

CONSTANTS
  Labelled,     \* the bookmarks that Fetch.Labels selects
  MaxAttempts,  \* attempts to list the feed (5 in the code)
  MaxCrashes    \* bound: crashes

ASSUME SyncAssumption == MaxAttempts \in Nat \ {0} /\ MaxCrashes \in Nat

VARIABLES
  attempt,  \* attempts made in this run
  pending,  \* books of the feed not downloaded yet
  due,      \* books that the listing must have when it ends
  library,  \* the books Nickel shows, as of its last scan
  crashes,  \* crashes so far
  exit,     \* how the last run ended
  \* History of the current run:
  dirty,    \* books whose file it changed and that no rescan has followed
  wanted    \* labelled books it has listed, or all books as long as no listing has
            \* succeeded, but for those Readeck has archived since

run == <<attempt, pending, due, library, crashes, exit>>
vars == <<env, local, run, dirty, wanted>>

Init ==
  /\ EnvironmentInit
  /\ pc = "idle" /\ todo = {} /\ book \in Books \ Unnamed /\ call = NoCall
  /\ filesChanged = FALSE /\ failed = FALSE
  /\ listed = {} /\ keepLocal = {} /\ bookmarks = snapshot({})
  /\ attempt = 0 /\ pending = {} /\ due = {} /\ library = disk /\ crashes = 0 /\ exit = "none"
  /\ dirty = {} /\ wanted = Books

\* Nothing of a run's memory outlives it.
Forget ==
  /\ todo' = {} /\ call' = NoCall /\ filesChanged' = FALSE /\ failed' = FALSE
  /\ listed' = {} /\ keepLocal' = {} /\ bookmarks' = snapshot({})
  /\ attempt' = 0 /\ pending' = {} /\ due' = {} /\ UNCHANGED book

Exit(how) == pc' = "idle" /\ exit' = how /\ Forget

-----------------------------------------------------------------------------
\* A listing that is not cut short ends with a page that is not full, so it has what
\* the feed had at its start, unless a bookmark leaves the feed meanwhile: then the
\* pages move, and may pass over any other.  This is what ListBookmarks shows of the
\* offsets.
dueNow == IF cfg.limited THEN {} ELSE Feed

BeginListing == listed' = {} /\ bookmarks' = snapshot({}) /\ due' = dueNow

StartRun ==
  /\ pc = "idle" /\ pc' = "list" /\ attempt' = 1 /\ BeginListing
  /\ dirty' = {} /\ wanted' = Books
  /\ UNCHANGED <<env, todo, book, call, filesChanged, failed, keepLocal, pending, library,
                 crashes, exit>>

\* A page is some part of the feed as it is now.
ListPage ==
  /\ pc = "list"
  /\ \E page \in SUBSET Feed :
       /\ listed' = listed \cup page
       /\ bookmarks' = [b \in Books |-> IF b \in page THEN readeck[b] ELSE bookmarks[b]]
  /\ UNCHANGED <<env, pc, todo, book, call, filesChanged, failed, keepLocal, run, dirty, wanted>>

\* The last page has been received, and the label filter applied.
ListBookmarks ==
  /\ pc = "list" /\ due \subseteq listed /\ pc' = "download"
  /\ keepLocal' = listed \cap Labelled /\ pending' = keepLocal' /\ due' = {}
  /\ wanted' = {b \in (listed \cup due) \cap Labelled : ~readeck[b].archived}
  /\ UNCHANGED <<env, todo, book, call, filesChanged, failed, listed, bookmarks, attempt,
                 library, crashes, exit, dirty>>

lastAttempt == attempt >= MaxAttempts

\* The pages received are dropped.
ListAgain ==
  /\ ~lastAttempt /\ attempt' = attempt + 1 /\ BeginListing
  /\ UNCHANGED <<pc, keepLocal, todo, book, call, filesChanged, failed, pending, exit>>

\* Mutant: after the last attempt the run goes on with an empty list.
ListFailsIntoEmptyFeed ==
  /\ pc = "list" /\ Fault
  /\ \/ ListAgain
     \/ /\ lastAttempt /\ pc' = "download" /\ listed' = {} /\ bookmarks' = snapshot({})
        /\ due' = {}
        /\ UNCHANGED <<todo, book, call, filesChanged, failed, keepLocal, attempt, pending, exit>>
  /\ UNCHANGED <<cfg, disk, nickel, readeck, edits, library, crashes, dirty, wanted>>

ListFails ==
  /\ pc = "list" /\ Fault
  /\ \/ ListAgain
     \/ lastAttempt /\ Exit("failed")
  /\ UNCHANGED <<cfg, disk, nickel, readeck, edits, library, crashes, dirty, wanted>>

\* downloadBookmarkFile of one bookmark, its effect only (KepubInstall has the
\* rest): a file that is there is left alone; the article of a bookmark that is
\* gone cannot be fetched.
Download ==
  /\ pc = "download"
  /\ \E b \in pending :
       /\ pending' = pending \ {b}
       /\ \/ b \in disk /\ UNCHANGED <<disk, filesChanged, failed, dirty, faults>>
          \/ /\ b \notin disk /\ readeck[b].exists
             /\ disk' = disk \cup {b} /\ filesChanged' = TRUE /\ dirty' = dirty \cup {b}
             /\ UNCHANGED <<failed, faults>>
          \/ /\ b \notin disk /\ getBookmarkFails(b) /\ failed' = TRUE
             /\ UNCHANGED <<disk, filesChanged, dirty>>
  /\ UNCHANGED <<cfg, nickel, readeck, edits, pc, keepLocal, listed, bookmarks, todo, book, call,
                 attempt, due, library, crashes, exit, wanted>>

FinishDownloads ==
  /\ pc = "download" /\ pending = {} /\ pc' = "start"
  /\ UNCHANGED <<env, keepLocal, listed, bookmarks, todo, book, call, filesChanged, failed,
                 run, dirty, wanted>>

SyncLocalBooks ==
  /\ LocalStep
  /\ dirty' = dirty \cup (disk \ disk')
  /\ wanted' = {b \in wanted : ~readeck'[b].archived}
  /\ UNCHANGED run

\* Mutants: a run that failed somewhere does not announce its changes; every run
\* rescans.
needsRescanUnlessFailed == filesChanged /\ ~failed
needsRescanAlways == TRUE
needsRescan == filesChanged

Outcome == IF failed THEN "failed" ELSE "ok"

SkipRescan ==
  /\ pc = "done" /\ ~needsRescan /\ Exit(Outcome)
  /\ UNCHANGED <<env, library, crashes, dirty, wanted>>

\* nickelRescan: "usb plug add", then, 10 s later, "usb plug remove", upon which
\* Nickel scans the files, it shows those there are and forgets the others; unless the
\* user has pressed Cancel in the dialog that "add" brings up (README.md:49).
RescanAdd ==
  /\ pc = "done" /\ needsRescan
  /\ \/ /\ pc' = "rescan"
        /\ UNCHANGED <<keepLocal, listed, bookmarks, todo, book, call, filesChanged, failed,
                       attempt, pending, due, exit, faults>>
     \/ Fault /\ Exit("failed")
  /\ UNCHANGED <<cfg, disk, nickel, readeck, edits, library, crashes, dirty, wanted>>

RescanRemove ==
  /\ pc = "rescan"
  /\ \/ /\ Exit(Outcome)
        /\ library' = disk /\ dirty' = {}
        /\ nickel' = [b \in Books |-> IF b \in disk THEN nickel[b]
                                      ELSE [row |-> "none", shelf |-> FALSE]]
        /\ UNCHANGED <<faults, edits>>
     \/ Edit /\ Exit(Outcome) /\ dirty' = {} /\ UNCHANGED <<nickel, library>>
     \/ Fault /\ Exit("failed") /\ UNCHANGED <<edits, nickel, library, dirty>>
  /\ UNCHANGED <<cfg, disk, readeck, crashes, wanted>>

\* The device is switched off, or kobodeck is killed.
Crash ==
  /\ pc # "idle" /\ crashes < MaxCrashes /\ crashes' = crashes + 1
  /\ Exit("crash")
  /\ UNCHANGED <<env, library, dirty, wanted>>

\* On the Kobo the user sees the books of the library.
Users ==
  /\ UserStep
  /\ \A b \in Books : (nickel'[b] # nickel[b] \/ b \in disk \ disk') => b \in library
  /\ library' = library \ (disk \ disk')
  /\ due' = IF Feed \subseteq Feed' THEN due ELSE {}
  /\ wanted' = {b \in wanted : ~readeck'[b].archived}
  /\ UNCHANGED <<local, attempt, pending, crashes, exit, dirty>>

Program == \/ StartRun \/ ListPage \/ ListBookmarks \/ ListFails \/ Download \/ FinishDownloads
           \/ SyncLocalBooks \/ SkipRescan \/ RescanAdd \/ RescanRemove

Next == Program \/ Crash \/ Users

Spec == Init /\ [][Next]_vars

\* kobodeck is one sequential process that keeps running, and udev starts it anew
\* whenever the device connects: we assume that it connects again and again.
FairSpec == Spec /\ WF_vars(Program)

-----------------------------------------------------------------------------
\* Every variable keeps its type.
TypeOK ==
  /\ LocalTypeOK
  /\ pc \in {"idle", "list", "download", "start", "next", "done", "rescan"} \/ InCall
  /\ attempt \in 0 .. MaxAttempts /\ pending \subseteq keepLocal /\ due \subseteq Books
  /\ library \subseteq Books /\ crashes \in 0 .. MaxCrashes
  /\ exit \in {"none", "ok", "failed", "crash"}
  /\ dirty \subseteq Books /\ wanted \subseteq Books

\* A run that could not list the feed removes nothing, and one that could removes no
\* labelled book that it has listed unless Readeck has archived it since.  It has
\* listed all the feed had, unless Fetch.Limit is set or a bookmark left the feed during
\* the listing: then the run may remove a book of the feed (sync.go:71-90,
\* local_books.go:74).
FeedBooksSurvive == [][\A b \in Books : Removes(b) => b \notin wanted]_vars

\* A run that ends by itself has announced every file it changed, also when a
\* download or a book failed; only a failing rescan itself leaves some out
\* (sync.go:105-128).
ExitAnnounces ==
  [][pc # "idle" /\ pc' = "idle" /\ exit' # "crash" => dirty' = {} \/ faults' # faults]_vars

\* Nickel is made to rescan, which interrupts the reader, only if a file changed.
RescanOnlyOnChange == [][pc' = "rescan" => filesChanged /\ dirty # {}]_vars

\* Once failures, crashes and user changes have ended: a finished book is known as
\* such in Readeck and favourites agree, for every book that Readeck still has.
EventuallyReported ==
  <>[](WellSpelt => \A b \in disk \ Unnamed : readeck[b].exists => Reported(b))

\* ... and, with Fetch.Limit = 0, Output.Path holds the labelled feed and, with
\* Output.Delete, nothing else but books in use and books Readeck no longer has.
EventuallyMirrored ==
  <>[](~cfg.limited =>
       /\ Feed \cap Labelled \subseteq disk
       /\ cfg.delete /\ WellSpelt => \A b \in disk \ Unnamed :
            b \in Feed \cap Labelled \/ InUse(nickel[b].row) \/ ~readeck[b].exists)

\* ... and, with Fetch.Limit = 0, nothing moves any more: kobodeck does not fetch what it
\* has removed, nor undo what it has told Readeck.
EventuallyQuiet == <>[][~cfg.limited => disk' = disk /\ readeck' = readeck]_vars

\* What sync_test.go:61-63 says of the rescan: it is what makes a downloaded book
\* appear in the library, so a successful run leaves every book visible if no user
\* interferes.  Violated: when the rescan fails, or the run crashes before it, the next
\* run finds the file in place, changes nothing and succeeds without a rescan.
SuccessMeansVisible == pc = "idle" /\ exit = "ok" /\ edits = 0 => disk \subseteq library

-----------------------------------------------------------------------------
(* The inductive invariant behind these properties.                         *)

\* The flag that calls for a rescan is set exactly while there is something to
\* announce, and no run begins with it.
DirtyInv ==
  /\ filesChanged <=> pc # "idle" /\ dirty # {}
  /\ pc = "rescan" => filesChanged

\* Nothing is kept before the listing is complete; past it, what must survive is what
\* the listing keeps, and nothing kobodeck has seen or made of these bookmarks is
\* archived: it knows of one that is archived only if Readeck has archived it since.
WantedInv ==
  /\ pc \in {"idle", "list"} => keepLocal = {}
  /\ \A b \in Books : ~bookmarks[b].archived
  /\ pc \notin {"idle", "list"} =>
       wanted \subseteq keepLocal /\ \A b \in wanted : ~readeck[b].archived
  /\ InCall /\ (call.archived \/ call.mark.archived) => book \notin wanted

IInv == TypeOK /\ DirtyInv /\ WantedInv
=============================================================================
