------------------------------ MODULE SyncProofs ------------------------------
(***************************************************************************)
(* What runs that follow one another guarantee, for any set of books, any     *)
(* configurations, any number of attempts, failures, crashes and user changes. *)
(***************************************************************************)
EXTENDS Runs, LocalBooksProofs

\* The initial states satisfy the invariant.
LEMMA InitInv == Init => IInv
<1> SUFFICES ASSUME Init PROVE IInv
  OBVIOUS
<1>1. EnvironmentTypeOK
  BY EnvironmentAssumption DEF Init, EnvironmentInit, EnvironmentTypeOK
<1>2. bookmarks \in [Books -> Bookmark] /\ \A b \in Books : ~bookmarks[b].archived
  BY DEF Init, snapshot, Gone, Bookmark
<1>3. NoCall \in Call /\ Gone \in Bookmark
  BY DEF NoCall, Call, Gone, Bookmark
<1>4. LocalTypeOK
  BY <1>1, <1>2, <1>3 DEF Init, LocalTypeOK
<1>5. TypeOK
  BY <1>4, SyncAssumption DEF Init, TypeOK, LocalTypeOK, EnvironmentTypeOK
<1> QED
  BY <1>2, <1>5 DEF Init, IInv, DirtyInv, WantedInv, InCall

\* Forgetting leaves the locals of a run well typed, and nothing archived among them.
LEMMA ForgetType ==
  ASSUME LocalTypeOK, Forget
  PROVE  /\ listed' \subseteq Books /\ keepLocal' \subseteq listed'
         /\ bookmarks' \in [Books -> Bookmark] /\ \A b \in Books : ~bookmarks'[b].archived
         /\ todo' \subseteq Books /\ book' \in Books \ Unnamed /\ call' \in Call
         /\ filesChanged' = FALSE /\ failed' = FALSE
         /\ attempt' = 0 /\ pending' = {} /\ keepLocal' = {} /\ due' = {}
<1>1. bookmarks' \in [Books -> Bookmark] /\ \A b \in Books : ~bookmarks'[b].archived
  BY DEF Forget, snapshot, Gone, Bookmark
<1>2. NoCall \in Call
  BY DEF NoCall, Call, Gone, Bookmark
<1> QED
  BY <1>1, <1>2 DEF Forget, LocalTypeOK

\* A run that ends leaves nothing to the next.
LEMMA ExitInv ==
  ASSUME IInv, EnvironmentTypeOK', NEW how \in {"ok", "failed", "crash"}, Exit(how),
         library' \subseteq Books, crashes' \in 0 .. MaxCrashes,
         dirty' \subseteq Books, wanted' \subseteq Books
  PROVE  IInv'
<1>1. pc' = "idle" /\ exit' = how /\ Forget
  BY DEF Exit
<1>2. LocalTypeOK /\ MaxAttempts \in Nat
  BY SyncAssumption DEF IInv, TypeOK
<1>3. LocalTypeOK'
  BY <1>1, <1>2, ForgetType DEF LocalTypeOK
<1>4. TypeOK'
  BY <1>1, <1>2, <1>3, ForgetType DEF TypeOK
<1> QED
  BY <1>1, <1>2, <1>4, ForgetType DEF IInv, DirtyInv, WantedInv, InCall

\* A failing call counts.
LEMMA FaultType ==
  ASSUME EnvironmentTypeOK, Fault
  PROVE  faults' \in 0 .. MaxFaults /\ faults' # faults
  BY EnvironmentAssumption DEF EnvironmentTypeOK, Fault

-----------------------------------------------------------------------------
\* The steps of app.sync.
LEMMA ListingType ==
  ASSUME BeginListing
  PROVE  /\ listed' = {} /\ due' \subseteq Books
         /\ bookmarks' \in [Books -> Bookmark] /\ \A b \in Books : ~bookmarks'[b].archived
<1>1. due' \subseteq Books
  BY DEF BeginListing, dueNow, Feed
<1>2. bookmarks' \in [Books -> Bookmark] /\ \A b \in Books : ~bookmarks'[b].archived
  BY DEF BeginListing, snapshot, Gone, Bookmark
<1> QED
  BY <1>1, <1>2 DEF BeginListing

LEMMA StartRunInv == ASSUME IInv, StartRun PROVE IInv'
<1>1. BeginListing /\ attempt' \in 0 .. MaxAttempts
  BY SyncAssumption DEF StartRun
<1> QED
  BY <1>1, ListingType
  DEF IInv, TypeOK, LocalTypeOK, EnvironmentTypeOK, DirtyInv, WantedInv, InCall, StartRun, env

LEMMA ListPageInv == ASSUME IInv, ListPage PROVE IInv'
<1>1. PICK page \in SUBSET Feed :
        /\ listed' = listed \cup page
        /\ bookmarks' = [b \in Books |-> IF b \in page THEN readeck[b] ELSE bookmarks[b]]
  BY DEF ListPage
<1>2. page \subseteq Books /\ \A b \in page : ~readeck[b].archived
  BY DEF Feed, InFeed
<1>3. bookmarks' \in [Books -> Bookmark] /\ \A b \in Books : ~bookmarks'[b].archived
  BY <1>1, <1>2 DEF IInv, WantedInv, TypeOK, LocalTypeOK, EnvironmentTypeOK
<1>4. /\ pc = "list" /\ keepLocal = {}
      /\ UNCHANGED <<env, pc, todo, book, call, filesChanged, failed, keepLocal, run, dirty, wanted>>
  BY DEF ListPage, IInv, WantedInv
<1>5. TypeOK'
  BY <1>1, <1>2, <1>3, <1>4 DEF IInv, TypeOK, LocalTypeOK, EnvironmentTypeOK, InCall, env, run
<1> QED
  BY <1>3, <1>4, <1>5 DEF IInv, DirtyInv, WantedInv, InCall, env

LEMMA ListBookmarksInv == ASSUME IInv, ListBookmarks PROVE IInv'
<1>1. TypeOK'
  BY DEF IInv, TypeOK, LocalTypeOK, EnvironmentTypeOK, InCall, ListBookmarks, env
<1>2. wanted' \subseteq keepLocal' /\ \A b \in wanted' : ~readeck'[b].archived
  BY DEF ListBookmarks, env
<1> QED
  BY <1>1, <1>2 DEF IInv, DirtyInv, WantedInv, InCall, ListBookmarks

LEMMA ListFailsInv == ASSUME IInv, ListFails PROVE IInv'
<1>1. EnvironmentTypeOK /\ EnvironmentTypeOK'
  BY FaultType DEF IInv, TypeOK, LocalTypeOK, EnvironmentTypeOK, ListFails
<1>2. UNCHANGED <<library, crashes, dirty, wanted>> /\ pc = "list"
  BY DEF ListFails
<1>3. CASE lastAttempt
  <2>1. Exit("failed")
    BY <1>3 DEF ListFails, ListAgain
  <2> QED
    BY <1>1, <1>2, <2>1, ExitInv DEF IInv, TypeOK
<1>4. CASE ListAgain
  <2>1. attempt' \in 0 .. MaxAttempts
    BY <1>4, SyncAssumption DEF ListAgain, lastAttempt, IInv, TypeOK
  <2>2. BeginListing /\ UNCHANGED <<pc, keepLocal, todo, book, call, filesChanged, failed,
                                    pending, exit>>
    BY <1>4 DEF ListAgain
  <2> QED
    BY <1>1, <1>2, <2>1, <2>2, ListingType
    DEF IInv, TypeOK, LocalTypeOK, DirtyInv, WantedInv, InCall
<1> QED
  BY <1>3, <1>4 DEF ListFails

LEMMA DownloadInv == ASSUME IInv, Download PROVE IInv'
<1>1. PICK b \in pending :
        /\ pending' = pending \ {b}
        /\ \/ b \in disk /\ UNCHANGED <<disk, filesChanged, failed, dirty, faults>>
           \/ /\ b \notin disk /\ readeck[b].exists
              /\ disk' = disk \cup {b} /\ filesChanged' = TRUE /\ dirty' = dirty \cup {b}
              /\ UNCHANGED <<failed, faults>>
           \/ /\ b \notin disk /\ getBookmarkFails(b) /\ failed' = TRUE
              /\ UNCHANGED <<disk, filesChanged, dirty>>
  BY DEF Download
<1>2. b \in Books
  BY DEF IInv, TypeOK, LocalTypeOK
<1>3. /\ pc = "download"
      /\ UNCHANGED <<cfg, nickel, readeck, edits, pc, keepLocal, listed, bookmarks, todo, book,
                     call, attempt, due, library, crashes, exit, wanted>>
  BY DEF Download
<1>4. faults' \in 0 .. MaxFaults
  BY <1>1, FaultType DEF getBookmarkFails, IInv, TypeOK, LocalTypeOK, EnvironmentTypeOK
<1>5. TypeOK'
  BY <1>1, <1>2, <1>3, <1>4 DEF IInv, TypeOK, LocalTypeOK, EnvironmentTypeOK, InCall
<1>6. DirtyInv'
  BY <1>1, <1>3 DEF IInv, DirtyInv
<1>7. WantedInv'
  BY <1>3 DEF IInv, WantedInv, InCall
<1> QED
  BY <1>5, <1>6, <1>7 DEF IInv

LEMMA FinishDownloadsInv == ASSUME IInv, FinishDownloads PROVE IInv'
  BY DEF IInv, TypeOK, LocalTypeOK, EnvironmentTypeOK, DirtyInv, WantedInv, InCall,
         FinishDownloads, env, run

LEMMA RescanInv == ASSUME IInv, SkipRescan \/ RescanAdd \/ RescanRemove PROVE IInv'
<1>1. CASE SkipRescan
  <2>1. EnvironmentTypeOK' /\ Outcome \in {"ok", "failed", "crash"} /\ Exit(Outcome)
    BY <1>1 DEF SkipRescan, Outcome, IInv, TypeOK, LocalTypeOK, EnvironmentTypeOK, env
  <2>2. UNCHANGED <<library, crashes, dirty, wanted>>
    BY <1>1 DEF SkipRescan
  <2> QED
    BY <2>1, <2>2, ExitInv DEF IInv, TypeOK
<1>2. CASE RescanAdd
  <2>1. UNCHANGED <<cfg, disk, nickel, readeck, edits, library, crashes, dirty, wanted>>
        /\ pc = "done" /\ filesChanged
    BY <1>2 DEF RescanAdd, needsRescan
  <2>2. CASE Fault /\ Exit("failed")
    <3>1. EnvironmentTypeOK'
      BY <2>1, <2>2, FaultType DEF IInv, TypeOK, LocalTypeOK, EnvironmentTypeOK
    <3> QED
      BY <2>1, <2>2, <3>1, ExitInv DEF IInv, TypeOK
  <2>3. CASE /\ pc' = "rescan"
             /\ UNCHANGED <<keepLocal, listed, bookmarks, todo, book, call, filesChanged, failed,
                            attempt, pending, due, exit, faults>>
    BY <2>1, <2>3 DEF IInv, TypeOK, LocalTypeOK, EnvironmentTypeOK, DirtyInv, WantedInv, InCall
  <2> QED
    BY <1>2, <2>2, <2>3 DEF RescanAdd
<1>3. CASE RescanRemove
  <2>1. UNCHANGED <<cfg, disk, readeck, crashes, wanted>>
    BY <1>3 DEF RescanRemove
  <2>2. /\ faults' \in 0 .. MaxFaults /\ edits' \in 0 .. MaxEdits
        /\ library' \subseteq Books /\ dirty' \subseteq Books
        /\ nickel' \in [Books -> [row : Row, shelf : BOOLEAN]]
    <3> /\ nickel \in [Books -> [row : Row, shelf : BOOLEAN]] /\ disk \subseteq Books
        /\ faults \in 0 .. MaxFaults /\ edits \in 0 .. MaxEdits
        /\ library \subseteq Books /\ dirty \subseteq Books
      BY DEF IInv, TypeOK, LocalTypeOK, EnvironmentTypeOK
    <3>1. CASE Fault /\ UNCHANGED <<edits, nickel, library, dirty>>
      BY <3>1, FaultType DEF IInv, TypeOK, LocalTypeOK
    <3>2. CASE /\ library' = disk /\ dirty' = {} /\ UNCHANGED <<faults, edits>>
               /\ nickel' = [b \in Books |-> IF b \in disk THEN nickel[b]
                                             ELSE [row |-> "none", shelf |-> FALSE]]
      BY <3>2 DEF Row
    <3>3. CASE Edit /\ dirty' = {} /\ UNCHANGED <<nickel, library>>
      BY <3>3, EnvironmentAssumption DEF Edit
    <3> QED
      BY <1>3, <3>1, <3>2, <3>3 DEF RescanRemove
  <2>3. EnvironmentTypeOK'
    BY <2>1, <2>2 DEF IInv, TypeOK, LocalTypeOK, EnvironmentTypeOK
  <2>4. \E how \in {"ok", "failed", "crash"} : Exit(how)
    BY <1>3 DEF RescanRemove, Outcome
  <2> QED
    BY <2>1, <2>2, <2>3, <2>4, ExitInv DEF IInv, TypeOK
<1> QED
  BY <1>1, <1>2, <1>3

\* Crashes and users.
LEMMA CrashInv == ASSUME IInv, Crash PROVE IInv'
<1>1. EnvironmentTypeOK' /\ UNCHANGED <<library, dirty, wanted>>
  BY DEF Crash, env, IInv, TypeOK, LocalTypeOK, EnvironmentTypeOK
<1>2. crashes' \in 0 .. MaxCrashes /\ Exit("crash")
  BY SyncAssumption DEF Crash, IInv, TypeOK
<1> QED
  BY <1>1, <1>2, ExitInv DEF IInv, TypeOK

LEMMA UsersInv == ASSUME IInv, Users PROVE IInv'
<1>1. EnvironmentTypeOK'
  BY UserType DEF Users, IInv, TypeOK, LocalTypeOK
<1>2. /\ UNCHANGED <<local, attempt, pending, crashes, exit, dirty>>
      /\ due' = due \/ due' = {}
      /\ library' = library \ (disk \ disk') /\ wanted' = {b \in wanted : ~readeck'[b].archived}
  BY DEF Users
<1> QED
  BY <1>1, <1>2 DEF IInv, TypeOK, LocalTypeOK, DirtyInv, WantedInv, InCall, local

-----------------------------------------------------------------------------
\* What a step makes of the locals of the call: archived is known only of a bookmark
\* that kobodeck knew as such, that Readeck has as such, or that it archives now.
LEMMA LocalArchived ==
  ASSUME IInv, LocalStep, InCall', call'.archived \/ call'.mark.archived
  PROVE  /\ InCall /\ book' = book
         /\ call.archived \/ call.mark.archived \/ readeck'[book].archived
<1> USE DEF InCall
<1>0. book \in Books /\ call \in Call /\ readeck \in [Books -> Bookmark] /\ cfg \in Config
  BY DEF IInv, TypeOK, LocalTypeOK, EnvironmentTypeOK
<1>1. CASE ListLocalBooks \/ SkipUnnamed \/ Finish \/ Settle
  BY <1>1 DEF ListLocalBooks, SkipUnnamed, Finish, Settle
<1>2. CASE ReadStatus
  <2>1. PICK b \in todo \ Unnamed :
          LET start == [NoCall EXCEPT !.known = b \in listed, !.mark = bookmarks[b]]
          IN \/ call' = [start EXCEPT !.status = nickelReadStatus(foundRow(b))]
             \/ call' = [start EXCEPT !.unreadable = TRUE]
    BY <1>2 DEF ReadStatus
  <2>2. ~call'.archived /\ call'.mark = bookmarks[b] /\ b \in Books
    BY <2>1 DEF NoCall, IInv, TypeOK, LocalTypeOK
  <2> QED
    BY <2>2 DEF IInv, WantedInv
<1>3. CASE CheckCollection
  BY <1>0, <1>3 DEF CheckCollection, CollectionError, Call
<1>4. CASE GetFinished \/ GetFavourite
  <2>1. /\ UNCHANGED <<readeck, book>> /\ InCall
        /\ \/ call' = call
           \/ call' = [call EXCEPT !.known = TRUE, !.mark = readeck[book]]
           \/ call' = [call EXCEPT !.err = TRUE, !.mark = Gone]
    BY <1>4 DEF GetFinished, GetFavourite, Get
  <2>2. /\ call'.archived = call.archived
        /\ call'.mark = call.mark \/ call'.mark = readeck[book] \/ call'.mark = Gone
    BY <1>0, <2>1 DEF Call
  <2> QED
    BY <2>1, <2>2 DEF Gone
<1>5. CASE PatchFinished
  <2>1. UNCHANGED book /\ InCall
    BY <1>5 DEF PatchFinished
  <2>2. \/ call' = call
        \/ call' = [call EXCEPT !.archived = call.mark.archived]
        \/ /\ readeck' = [readeck EXCEPT ![book] = Finished]
           /\ call' = [call EXCEPT !.archived = call.mark.archived \/ archiveRequested]
        \/ call' = [call EXCEPT !.archived = call.mark.archived, !.err = TRUE]
    BY <1>5 DEF PatchFinished, patchBookmark
  <2>3. archiveRequested => Finished.archived
    BY <1>0 DEF Finished, Bookmark
  <2> QED
    BY <1>0, <2>1, <2>2, <2>3 DEF Call
<1>6. CASE PatchFavourite
  BY <1>0, <1>6 DEF PatchFavourite, Call
<1> QED
  BY <1>1, <1>2, <1>3, <1>4, <1>5, <1>6 DEF LocalStep

LEMMA LocalInv == ASSUME IInv, SyncLocalBooks PROVE IInv'
<1>1. /\ LocalStep /\ UNCHANGED <<attempt, pending, due, library, crashes, exit>>
      /\ dirty' = dirty \cup (disk \ disk') /\ wanted' = {b \in wanted : ~readeck'[b].archived}
  BY DEF SyncLocalBooks, run
<1>2. LocalTypeOK /\ LocalTypeOK' /\ (pc' \in {"next", "done"} \/ InCall')
  BY <1>1, LocalType DEF IInv, TypeOK
<1>3. TypeOK'
  BY <1>1, <1>2, LocalFrame DEF IInv, TypeOK, LocalTypeOK, EnvironmentTypeOK
<1>4. DirtyInv'
  <2>1. pc \notin {"idle", "rescan"} /\ pc' \notin {"idle", "rescan"}
    BY <1>1, <1>2, LocalFrame DEF InCall
  <2>2. CASE UNCHANGED <<disk, filesChanged>>
    BY <1>1, <2>1, <2>2 DEF IInv, DirtyInv
  <2>3. CASE /\ book \in disk /\ disk' = disk \ {book} /\ filesChanged' = TRUE
    <3>1. book \in dirty'
      BY <1>1, <2>3
    <3> QED
      BY <2>1, <2>3, <3>1 DEF DirtyInv
  <2> QED
    BY <1>1, <1>2, <2>2, <2>3, LocalFrame DEF Settle
<1>5. WantedInv'
  <2>1. /\ UNCHANGED <<keepLocal, bookmarks>>
        /\ pc \notin {"idle", "list"} /\ pc' \notin {"idle", "list"}
    BY <1>1, <1>2, LocalFrame DEF InCall
  <2>2. ASSUME InCall', call'.archived \/ call'.mark.archived PROVE book' \notin wanted'
    BY <1>1, <2>2, LocalArchived DEF IInv, WantedInv
  <2> QED
    BY <1>1, <2>1, <2>2 DEF IInv, WantedInv
<1> QED
  BY <1>3, <1>4, <1>5 DEF IInv

-----------------------------------------------------------------------------
LEMMA InvStep == IInv /\ [Next]_vars => IInv'
<1> SUFFICES ASSUME IInv, [Next]_vars PROVE IInv'
  OBVIOUS
<1>1. CASE UNCHANGED vars
  BY <1>1 DEF vars, env, local, run, IInv, TypeOK, LocalTypeOK, EnvironmentTypeOK,
              DirtyInv, WantedInv, InCall
<1>2. CASE Program
  BY <1>2, StartRunInv, ListPageInv, ListBookmarksInv, ListFailsInv, DownloadInv, FinishDownloadsInv,
     LocalInv, RescanInv DEF Program
<1>3. CASE Crash \/ Users
  BY <1>3, CrashInv, UsersInv
<1> QED
  BY <1>1, <1>2, <1>3 DEF Next

\* In every state the variables are well typed, the flag that calls for a rescan agrees
\* with what there is to announce, and nothing that must survive is known as archived.
THEOREM InvCorrect == Spec => []IInv
  BY InitInv, InvStep, PTL DEF Spec

\* A labelled book that the run has listed is removed only once Readeck has archived it,
\* and a run that could not list the feed removes nothing.
THEOREM FeedBooksSurviveHolds == Spec => FeedBooksSurvive
<1>1. ASSUME IInv, [Next]_vars PROVE [\A b \in Books : Removes(b) => b \notin wanted]_vars
  <2> SUFFICES ASSUME Next, NEW b \in Books, Removes(b) PROVE b \notin wanted
    BY <1>1
  <2>1. IInv /\ EnvironmentTypeOK /\ edits' = edits /\ b \in disk \ disk'
    BY <1>1 DEF Removes, IInv, TypeOK, LocalTypeOK
  <2>2. ~Users
    BY <2>1 DEF Users, UserStep, KoboReads, KoboShelves, KoboDeletes, ReadeckEdits,
                ReadeckSaves, Edit, EnvironmentTypeOK
  <2>3. SyncLocalBooks
    BY <2>1, <2>2 DEF Next, Program, StartRun, ListPage, ListBookmarks, ListFails, Download,
                      FinishDownloads, SkipRescan, RescanAdd, RescanRemove, Crash, env
  <2>4. Settle
    BY <2>1, <2>3, LocalFrame DEF SyncLocalBooks, IInv, TypeOK
  <2>5. b = book /\ InCall /\ removable
    BY <2>1, <2>4 DEF Settle, InCall
  <2>6. book \in keepLocal => call.archived
    BY <2>5 DEF removable
  <2> QED
    BY <2>1, <2>5, <2>6 DEF IInv, WantedInv, InCall
<1> QED
  BY <1>1, InvCorrect, PTL DEF Spec, FeedBooksSurvive

\* Whatever a run changes it announces before it ends by itself, or else its rescan
\* failed.
THEOREM ExitAnnouncesHolds == Spec => ExitAnnounces
<1> DEFINE A == pc # "idle" /\ pc' = "idle" /\ exit' # "crash" => dirty' = {} \/ faults' # faults
<1>1. ASSUME IInv, [Next]_vars PROVE [A]_vars
  <2> SUFFICES ASSUME Next, pc # "idle", pc' = "idle", exit' # "crash"
               PROVE  dirty' = {} \/ faults' # faults
    BY <1>1
  <2>1. EnvironmentTypeOK /\ LocalTypeOK
    BY <1>1 DEF IInv, TypeOK, LocalTypeOK
  <2>2. Fault => faults' # faults
    BY <2>1, FaultType
  <2>3. ~SyncLocalBooks
    BY <2>1, LocalType DEF SyncLocalBooks, InCall
  <2>4. ~Users /\ ~Crash
    BY DEF Users, Crash, Exit, local
  <2>5. CASE SkipRescan
    BY <1>1, <2>5 DEF SkipRescan, needsRescan, IInv, DirtyInv
  <2>6. CASE ListFails \/ RescanAdd \/ RescanRemove
    BY <2>2, <2>6 DEF ListFails, RescanAdd, RescanRemove
  <2> QED
    BY <2>3, <2>4, <2>5, <2>6
    DEF Next, Program, StartRun, ListPage, ListBookmarks, Download, FinishDownloads
<1> QED
  BY <1>1, InvCorrect, PTL DEF Spec, ExitAnnounces

\* Nickel is made to rescan only if a file changed that it has not been told of.
THEOREM RescanOnlyOnChangeHolds == Spec => RescanOnlyOnChange
<1>1. ASSUME IInv, IInv', [Next]_vars PROVE [pc' = "rescan" => filesChanged /\ dirty # {}]_vars
  <2> SUFFICES ASSUME Next, pc' = "rescan" PROVE filesChanged /\ dirty # {}
    BY <1>1
  <2>1. UNCHANGED <<filesChanged, dirty>>
    <3>1. ~SyncLocalBooks
      BY <1>1, LocalType DEF SyncLocalBooks, InCall, IInv, TypeOK
    <3>2. ~(\E how \in {"ok", "failed", "crash"} : Exit(how))
      BY DEF Exit
    <3> QED
      BY <3>1, <3>2 DEF Next, Program, StartRun, ListPage, ListBookmarks, ListFails, ListAgain,
         Download, FinishDownloads, SkipRescan, RescanAdd, RescanRemove, Outcome, Crash, Users, local
  <2> QED
    BY <1>1, <2>1 DEF IInv, DirtyInv
<1> QED
  BY <1>1, InvCorrect, PTL DEF Spec, RescanOnlyOnChange

-----------------------------------------------------------------------------
(***************************************************************************)
(* What a pass promises holds in every run.  The history is that of LocalPass *)
(* from the listing on, so its lemmas apply to the steps of the pass and of    *)
(* the users; the downloads before the first of them leave it be.             *)
(***************************************************************************)
LEMMA WatchedInitInv == WatchedInit => WatchedInv
<1> SUFFICES ASSUME WatchedInit PROVE WatchedInv
  OBVIOUS
<1>1. IInv
  BY InitInv DEF WatchedInit
<1> QED
  BY <1>1 DEF WatchedInit, Init, NoHistory, WatchedInv, HistoryTypeOK, watched, InCall

\* During a listing the history has what its pages showed.
LEMMA WhileListing ==
  ASSUME IInv, Next, pc' = "list", Watch, HistoryTypeOK, pc = "list" => PassInv,
         EnvironmentTypeOK'
  PROVE  HistoryTypeOK' /\ PassInv'
<1>1. ~watched' /\ ~InCall'
  BY DEF watched, InCall
<1>2. /\ open' = {} /\ steady' = {}
      /\ IF attempt' # attempt THEN seen' = seenNow' ELSE Sees
  BY <1>1 DEF Watch
<1>3. \A b \in Books : readeck'[b] \in seen'[b]
  BY <1>2 DEF seenNow, Sees
<1>4. HistoryTypeOK'
  BY <1>2 DEF HistoryTypeOK, seenNow, Sees, EnvironmentTypeOK
<1>5. \A b \in listed' : bookmarks'[b] \in seen'[b]
  <2>1. CASE listed' = {}
    BY <2>1
  <2>2. CASE ListPage
    <3>1. PICK page \in SUBSET Feed :
            /\ listed' = listed \cup page
            /\ bookmarks' = [b \in Books |-> IF b \in page THEN readeck[b] ELSE bookmarks[b]]
      BY <2>2 DEF ListPage
    <3>2. attempt' = attempt /\ readeck' = readeck /\ \A b \in listed : bookmarks[b] \in seen[b]
      BY <2>2 DEF ListPage, run, env, PassInv, KnownInv
    <3>3. listed \cup page \subseteq Books
      BY DEF Feed, IInv, TypeOK, LocalTypeOK
    <3>4. \A b \in Books : seen[b] \subseteq seen'[b]
      BY <1>2, <3>2 DEF Sees
    <3> QED
      BY <1>3, <3>1, <3>2, <3>3, <3>4
  <2>3. CASE Users
    <3>1. pc = "list" /\ UNCHANGED <<attempt, listed, bookmarks>>
      BY <2>3 DEF Users, local
    <3>2. \A b \in listed : bookmarks[b] \in seen[b] /\ b \in Books
      BY <3>1 DEF PassInv, KnownInv, IInv, TypeOK, LocalTypeOK
    <3> QED
      BY <1>2, <3>1, <3>2 DEF Sees
  <2>4. CASE StartRun \/ ListFails
    <3>1. BeginListing
      BY <2>4 DEF StartRun, ListFails, ListAgain, Exit
    <3> QED
      BY <2>1, <3>1 DEF BeginListing
  <2>5. ~SyncLocalBooks
    BY LocalType DEF SyncLocalBooks, IInv, TypeOK, InCall
  <2> QED
    BY <2>2, <2>3, <2>4, <2>5 DEF Next, Program, ListBookmarks, Download, FinishDownloads,
       SkipRescan, RescanAdd, RescanRemove, Crash, Exit
<1>6. HistoryInv' /\ KnownInv'
  BY <1>1, <1>2, <1>3, <1>5 DEF HistoryInv, KnownInv, InCall
<1> QED
  BY <1>1, <1>4, <1>6 DEF PassInv, StatusInv, UnreadableInv, ShelfInv, ReportInv, InCall

\* The end of the listing alone begins the rest of the history.
LEMMA ListingEnds ==
  ASSUME IInv, Next, ~watched, watched', Watch, HistoryTypeOK, pc = "list" => PassInv,
         EnvironmentTypeOK'
  PROVE  HistoryTypeOK' /\ PassInv'
<1>1. ~SyncLocalBooks
  BY LocalFrame DEF SyncLocalBooks, IInv, TypeOK, watched
<1>2. ListBookmarks
  BY <1>1 DEF Next, Program, StartRun, ListPage, ListFails, ListAgain, Download, FinishDownloads,
              SkipRescan, RescanAdd, RescanRemove, Crash, Users, Exit, local, watched, InCall
<1>3. pc = "list" /\ pc' = "download" /\ ~InCall' /\ UNCHANGED <<env, listed, bookmarks>>
  BY <1>2 DEF ListBookmarks, InCall
<1>4. open' = openNow' /\ steady' = Books /\ Sees
  BY <1>3 DEF Watch, watched
<1>5. HistoryTypeOK'
  BY <1>4 DEF HistoryTypeOK, openNow, Sees, EnvironmentTypeOK
<1>6. HistoryInv'
  BY <1>4 DEF HistoryInv, openNow, Sees
<1>7. \A b \in listed' : bookmarks'[b] \in seen'[b]
  BY <1>3, <1>4 DEF PassInv, KnownInv, Sees, IInv, TypeOK, LocalTypeOK
<1> QED
  BY <1>3, <1>5, <1>6, <1>7
  DEF PassInv, StatusInv, UnreadableInv, ShelfInv, KnownInv, ReportInv, InCall

LEMMA WatchedStep == WatchedInv /\ [WatchedNext]_<<vars, history>> => WatchedInv'
<1> SUFFICES ASSUME WatchedInv, [WatchedNext]_<<vars, history>> PROVE WatchedInv'
  OBVIOUS
<1>0. IInv /\ IInv' /\ LocalTypeOK /\ EnvironmentTypeOK'
  BY InvStep DEF WatchedInv, WatchedNext, IInv, TypeOK, LocalTypeOK
<1>1. CASE UNCHANGED <<vars, history>>
  BY <1>0, <1>1 DEF vars, env, local, history, WatchedInv, HistoryTypeOK, watched, PassInv, HistoryInv,
                    StatusInv, UnreadableInv, ShelfInv, KnownInv, ReportInv, InCall, isInCollection,
                    WellSpelt, foundRow, nickelContentIDMatches, outputDir
<1>2. CASE WatchedNext /\ ~watched' /\ pc' # "list"
  <2>1. HistoryTypeOK'
    BY <1>2 DEF WatchedNext, Watch, HistoryTypeOK
  <2> QED
    BY <1>0, <1>2, <2>1 DEF WatchedInv
<1>3. CASE WatchedNext /\ (pc' = "list" \/ (~watched /\ watched'))
  BY <1>0, <1>3, WhileListing, ListingEnds DEF WatchedInv, WatchedNext
<1>4. CASE WatchedNext /\ watched /\ watched'
  <2>1. Next /\ Observe /\ PassTypeOK /\ PassInv
    BY <1>0, <1>4 DEF WatchedNext, Watch, WatchedInv, PassTypeOK, watched, InCall
  <2>2. HistoryTypeOK'
    BY <1>0, <2>1, HistoryType DEF PassTypeOK
  <2>3. PassInv'
    <3>1. CASE SyncLocalBooks
      BY <1>0, <2>1, <3>1, LocalKeepsPass DEF SyncLocalBooks
    <3>2. CASE Users
      BY <1>0, <2>1, <3>2, UsersKeepPass DEF Users
    <3>3. CASE Download \/ FinishDownloads
      <4>1. ~InCall' /\ UNCHANGED <<listed, bookmarks>>
        BY <3>3 DEF Download, FinishDownloads, InCall
      <4> QED
        BY <1>0, <2>1, <4>1, BetweenCalls
    <3>4. SyncLocalBooks \/ Users \/ Download \/ FinishDownloads
      BY <1>4, <2>1 DEF Next, Program, StartRun, ListPage, ListBookmarks, ListFails, SkipRescan, RescanAdd,
                        RescanRemove, Crash, Exit, local, watched, InCall
    <3> QED
      BY <3>1, <3>2, <3>3, <3>4
  <2> QED
    BY <1>0, <2>2, <2>3 DEF WatchedInv
<1> QED
  BY <1>1, <1>2, <1>3, <1>4

\* In every state of every run, the inductive invariant of a pass holds from the listing
\* on.
THEOREM WatchedInvCorrect == WatchedSpec => []WatchedInv
  BY WatchedInitInv, WatchedStep, PTL DEF WatchedSpec

\* A step in which kobodeck removes and writes nothing breaks no promise.
LEMMA Harmless ==
  ASSUME HistoryTypeOK, \A b \in Books : ~Removes(b), readeck' = readeck \/ edits' # edits
  PROVE  KeepsOpenBooks /\ ReportsBeforeRemoving /\ RemovesOnlyStale /\ TellsWhatKoboSays
BY DEF HistoryTypeOK, KeepsOpenBooks, ReportsBeforeRemoving, RemovesOnlyStale, TellsWhatKoboSays

\* Whatever earlier runs have left, crashes included, every run keeps the promises of
\* its pass, and removes and writes nothing outside of it.
THEOREM EveryPassHolds == WatchedSpec => EveryPass
<1> DEFINE A ==
      /\ \A b \in Books : Removes(b) \/ (readeck'[b] # readeck[b] /\ edits' = edits) => InCall
      /\ KeepsOpenBooks /\ ReportsBeforeRemoving /\ RemovesOnlyStale /\ TellsWhatKoboSays
<1>1. ASSUME WatchedInv, WatchedNext PROVE A
  <2>0. IInv /\ LocalTypeOK /\ EnvironmentTypeOK /\ HistoryTypeOK /\ Next
    BY <1>1 DEF WatchedInv, WatchedNext, IInv, TypeOK, LocalTypeOK
  <2>1. CASE SyncLocalBooks
    <3>1. LocalStep /\ watched
      BY <2>0, <2>1, LocalFrame DEF SyncLocalBooks, watched
    <3>2. PassTypeOK /\ PassInv
      BY <1>1, <2>0, <3>1 DEF WatchedInv, PassTypeOK
    <3>3. disk' # disk \/ readeck' # readeck => InCall
      BY <3>1 DEF LocalStep, ListLocalBooks, SkipUnnamed, ReadStatus, CheckCollection,
         GetFinished, GetFavourite, Get, PatchFinished, PatchFavourite, Settle, Finish, InCall, env
    <3> QED
      BY <3>1, <3>2, <3>3, OpenBooksKept, ReportsPrecede, OnlyStaleRemoved, WritesJustified
      DEF Removes
  <2>2. CASE Users
    <3>1. edits' # edits
      BY <2>0, <2>2 DEF Users, UserStep, KoboReads, KoboShelves, KoboDeletes, ReadeckEdits,
                        ReadeckSaves, Edit, EnvironmentTypeOK
    <3> QED
      BY <2>0, <3>1, Harmless DEF Removes
  <2>3. CASE ~SyncLocalBooks /\ ~Users
    <3>1. disk \subseteq disk' /\ readeck' = readeck
      BY <2>0, <2>3 DEF Next, Program, StartRun, ListPage, ListBookmarks, ListFails, Download,
                    FinishDownloads, SkipRescan, RescanAdd, RescanRemove, Crash, env
    <3> QED
      BY <2>0, <3>1, Harmless DEF Removes
  <2> QED
    BY <2>1, <2>2, <2>3
<1>2. ASSUME WatchedInv, [WatchedNext]_<<vars, history>> PROVE [A]_<<vars, history>>
  BY <1>1, <1>2
<1> QED
  BY <1>2, WatchedInvCorrect, PTL DEF WatchedSpec, EveryPass
=============================================================================
