--------------------------- MODULE LocalPassProofs ---------------------------
(***************************************************************************)
(* What one pass of syncLocalBooks guarantees, for any set of books, any     *)
(* configuration and any number of failures and user changes; then what a     *)
(* pass achieves that nothing disturbs.                                       *)
(***************************************************************************)
EXTENDS LocalPass, LocalBooksProofs

USE DEF LocalTypeOK, PassTypeOK, HistoryTypeOK

\* The initial states are well typed.
LEMMA TypeInit == Init => TypeOK
<1> SUFFICES ASSUME Init PROVE TypeOK
  OBVIOUS
<1>1. EnvironmentTypeOK
  BY EnvironmentAssumption DEF Init, EnvironmentInit, EnvironmentTypeOK
<1>2. listed \subseteq Books /\ keepLocal \subseteq listed /\ bookmarks \in [Books -> Bookmark]
  <2>2. Feed \subseteq Books
    BY DEF Feed
  <2>3. Gone \in Bookmark /\ \A b \in Books : readeck[b] \in Bookmark
    BY <1>1 DEF EnvironmentTypeOK, Gone, Bookmark
  <2> QED
    BY <2>2, <2>3 DEF Init, snapshot
<1>3. call \in Call
  BY DEF Init, NoCall, Call, Gone, Bookmark
<1>4. seen \in [Books -> SUBSET Bookmark]
  BY <1>1 DEF Init, Begun, seenNow, EnvironmentTypeOK
<1> QED
  BY <1>1, <1>2, <1>3, <1>4 DEF Init, TypeOK, InCall, Begun, openNow

LEMMA TypeStep == TypeOK /\ [Next]_vars => TypeOK'
<1> SUFFICES ASSUME TypeOK, [Next]_vars PROVE TypeOK'
  OBVIOUS
<1>1. CASE UNCHANGED vars
  BY <1>1 DEF vars, env, local, history, TypeOK, EnvironmentTypeOK, InCall
<1>2. CASE LocalStep /\ Observe
  BY <1>2, LocalType, HistoryType DEF TypeOK, InCall
<1>3. CASE Users /\ Observe
  <2>1. EnvironmentTypeOK'
    BY <1>3, UserType DEF Users, TypeOK
  <2> QED
    BY <1>3, <2>1, HistoryType DEF Users, local, TypeOK, InCall
<1> QED
  BY <1>1, <1>2, <1>3 DEF Next

\* Every state of a pass is well typed.
THEOREM TypeCorrect == Spec => []TypeOK
  BY TypeInit, TypeStep, PTL DEF Spec

-----------------------------------------------------------------------------
LEMMA InitInv == Init => IInv
<1> SUFFICES ASSUME Init PROVE IInv
  OBVIOUS
<1>1. TypeOK
  BY TypeInit
<1>2. pc = "start" /\ ~InCall
  BY DEF Init, InCall
<1>3. HistoryInv
  BY DEF Init, Begun, openNow, seenNow, HistoryInv
<1>4. \A b \in listed : bookmarks[b] \in seen[b]
  BY DEF Init, Begun, seenNow, snapshot, Feed
<1> QED
  BY <1>1, <1>2, <1>3, <1>4 DEF IInv, PassInv, StatusInv, UnreadableInv, ShelfInv, KnownInv, ReportInv

LEMMA InvStep == IInv /\ [Next]_vars => IInv'
<1> SUFFICES ASSUME IInv, [Next]_vars PROVE IInv'
  OBVIOUS
<1>1. TypeOK'
  BY TypeStep DEF IInv
<1>2. CASE UNCHANGED vars
  BY <1>1, <1>2 DEF vars, env, local, history, IInv, PassInv, HistoryInv, StatusInv, UnreadableInv,
                    ShelfInv, KnownInv, ReportInv, InCall, isInCollection, WellSpelt,
                    foundRow, nickelContentIDMatches, outputDir
<1>3. CASE Next
  BY <1>1, <1>3, UsersKeepPass, LocalKeepsPass DEF Next, Users, IInv, TypeOK
<1> QED
  BY <1>2, <1>3

\* The locals of the call in progress always say what the inductive invariant says.
THEOREM InvCorrect == Spec => []IInv
  BY InitInv, InvStep, PTL DEF Spec

\* A book in use since the feed was listed is never removed by kobodeck: its
\* status, whenever it was read, was "reading" or "closed".
THEOREM OpenBooksSurviveHolds == Spec => OpenBooksSurvive
<1>1. IInv /\ [Next]_vars => [KeepsOpenBooks]_vars
  BY OpenBooksKept DEF Next, Users, IInv, TypeOK
<1> QED
  BY <1>1, InvCorrect, PTL DEF Spec, OpenBooksSurvive

\* A finished book is removed only after Readeck has held it as finished and, if
\* configured, archived; and only with the favourite flag reported.
THEOREM ReportedBeforeRemovalHolds == Spec => ReportedBeforeRemoval
<1>1. IInv /\ [Next]_vars => [ReportsBeforeRemoving]_vars
  BY ReportsPrecede DEF Next, Users, IInv, TypeOK
<1> QED
  BY <1>1, InvCorrect, PTL DEF Spec, ReportedBeforeRemoval

\* Without Output.Delete nothing is removed, a file without a stem never is, and a
\* book of the labelled feed only once Readeck has held it as archived.
THEOREM OnlyStaleBooksGoHolds == Spec => OnlyStaleBooksGo
<1>1. IInv /\ [Next]_vars => [RemovesOnlyStale]_vars
  BY OnlyStaleRemoved DEF Next, Users, IInv, TypeOK
<1> QED
  BY <1>1, InvCorrect, PTL DEF Spec, OnlyStaleBooksGo

\* Every write of kobodeck to Readeck is justified by the row and the collection
\* that Nickel has for the book, unless the user changed them meanwhile.
THEOREM ReadeckFollowsKoboHolds == Spec => ReadeckFollowsKobo
<1>1. IInv /\ [Next]_vars => [TellsWhatKoboSays]_vars
  BY WritesJustified DEF Next, Users, IInv, TypeOK
<1> QED
  BY <1>1, InvCorrect, PTL DEF Spec, ReadeckFollowsKobo

-----------------------------------------------------------------------------
(***************************************************************************)
(* A pass that nothing disturbs achieves what it is for.  The invariant says  *)
(* that the books visited so far are settled, and what the blocks that are    *)
(* behind the call in progress have achieved for its book.                    *)
(***************************************************************************)

\* No call has failed that should not, no user has interfered.
Quiet == faults = 0 /\ edits = 0 /\ WellSpelt

\* All that a pass is to do for the file of b has been done.
Settled(b) == readeck[b].exists => Reported(b) /\ (cfg.delete => Wanted(b))

\* The call in progress, for a book that Readeck has: nothing went wrong, what is
\* known of the bookmark is so, and the blocks passed have had their effect.
QuietCall ==
  /\ book \notin todo /\ ~call.unreadable
  /\ call.status = nickelReadStatus(nickel[book].row)
  /\ readeck[book].exists => ~call.err
  /\ IF pc # "collection" /\ cfg.favourites
     THEN call.shelf = IF nickel[book].shelf THEN "in" ELSE "out"
     ELSE call.shelf = "unknown"
  /\ pc \in {"collection", "getFinished", "patchFinished"} =>
       ~call.archived /\ (call.known => call.mark = readeck[book])
  /\ pc = "patchFinished" /\ call.status = "read" /\ readeck[book].exists => call.known
  /\ pc \in {"getFavourite", "patchFavourite"} /\ call.known =>
       call.mark.marked = readeck[book].marked
  /\ pc = "patchFavourite" /\ cfg.favourites /\ readeck[book].exists => call.known
  /\ pc \in {"getFavourite", "patchFavourite", "settle"} /\ readeck[book].exists /\ call.status = "read" =>
       /\ readeck[book].done /\ (cfg.archive => readeck[book].archived)
       /\ call.archived = readeck[book].archived
  /\ call.status # "read" => ~call.archived
  /\ pc = "settle" /\ cfg.favourites /\ readeck[book].exists =>
       readeck[book].marked = nickel[book].shelf

\* The inductive invariant of a quiet pass.
QuietInv == Quiet =>
  /\ \A b \in listed : pc = "start" \/ b \in todo => bookmarks[b] = readeck[b]
  /\ InCall => QuietCall
  /\ pc # "start" =>
       \A b \in disk \ Unnamed : b \in todo \/ (InCall /\ b = book) \/ Settled(b)
  /\ pc = "done" => todo = {}

-----------------------------------------------------------------------------
\* The initial states: nobody has changed a listed bookmark.
LEMMA QuietStart == Init => QuietInv
  BY DEF Init, snapshot, Feed, QuietInv, InCall

\* A step after which the pass is still quiet is one of kobodeck's own, in which no
\* call fails that should not.
LEMMA QuietBefore ==
  ASSUME TypeOK, Next, Quiet'
  PROVE  /\ Quiet /\ LocalStep /\ ~Fault
         /\ UNCHANGED <<cfg, nickel, edits, faults, listed, keepLocal, bookmarks>>
<1>1. ~Users
  BY DEF Users, UserStep, KoboReads, KoboShelves, KoboDeletes, ReadeckEdits, ReadeckSaves,
         Edit, Quiet, TypeOK, EnvironmentTypeOK
<1>2. LocalStep
  BY <1>1 DEF Next
<1>3. UNCHANGED <<cfg, nickel, edits, listed, keepLocal, bookmarks>> /\ (faults' = faults \/ Fault)
  BY <1>2, LocalFrame DEF TypeOK
<1>4. ~Fault
  BY DEF Fault, Quiet, TypeOK, EnvironmentTypeOK
<1> QED
  BY <1>2, <1>3, <1>4 DEF Quiet, WellSpelt

\* A book that is settled stays so while its bookmark does.
LEMMA SettledStays ==
  ASSUME NEW b \in Books, Settled(b), UNCHANGED <<cfg, nickel, keepLocal>>, readeck'[b] = readeck[b]
  PROVE  Settled(b)'
  BY DEF Settled, Reported, Wanted

\* A step within a call touches only the bookmark of its book.
LEMMA WithinCall ==
  ASSUME TypeOK, QuietInv, Quiet, InCall, InCall', QuietCall',
         UNCHANGED <<cfg, nickel, disk, todo, book, listed, keepLocal, bookmarks>>,
         \A b \in Books \ {book} : readeck'[b] = readeck[b]
  PROVE  QuietInv'
<1>1. book \notin todo /\ pc # "start" /\ pc' \notin {"start", "done"}
  BY DEF QuietInv, QuietCall, InCall
<1>2. \A b \in listed' : b \in todo' => bookmarks'[b] = readeck'[b]
  BY <1>1 DEF QuietInv, TypeOK
<1>3. ASSUME NEW b \in disk' \ Unnamed PROVE b \in todo' \/ b = book' \/ Settled(b)'
  <2>1. b \in Books /\ (b \in todo \/ b = book \/ Settled(b))
    BY <1>1, <1>3 DEF QuietInv, TypeOK, EnvironmentTypeOK
  <2> QED
    BY <2>1, SettledStays
<1> QED
  BY <1>1, <1>2, <1>3 DEF QuietInv

-----------------------------------------------------------------------------
\* The steps of the pass, one by one, when nothing fails.
LEMMA QuietOutside ==
  ASSUME TypeOK, QuietInv, Quiet, UNCHANGED <<cfg, nickel>>,
         ListLocalBooks \/ SkipUnnamed \/ Finish
  PROVE  QuietInv'
<1>1. UNCHANGED <<disk, readeck, listed, keepLocal, bookmarks, book>>
  BY DEF ListLocalBooks, SkipUnnamed, Finish, env
<1>2. \A b \in Books : Settled(b) => Settled(b)'
  BY <1>1, SettledStays
<1>3. CASE ListLocalBooks
  <2>1. todo' = disk /\ pc = "start" /\ pc' = "next"
    BY <1>3 DEF ListLocalBooks, Quiet, WellSpelt
  <2> QED
    BY <1>1, <2>1 DEF QuietInv, InCall
<1>4. CASE SkipUnnamed
  BY <1>1, <1>2, <1>4 DEF SkipUnnamed, QuietInv, InCall, TypeOK, EnvironmentTypeOK
<1>5. CASE Finish
  BY <1>1, <1>2, <1>5 DEF Finish, QuietInv, InCall, TypeOK, EnvironmentTypeOK
<1> QED
  BY <1>3, <1>4, <1>5

LEMMA QuietReadStatus ==
  ASSUME TypeOK, QuietInv, Quiet, ~Fault, UNCHANGED <<cfg, nickel>>, ReadStatus
  PROVE  QuietInv'
<1>1. PICK b \in todo \ Unnamed :
        /\ todo' = todo \ {b} /\ book' = b
        /\ LET start == [NoCall EXCEPT !.known = b \in listed, !.mark = bookmarks[b]]
           IN call' = [start EXCEPT !.status = nickelReadStatus(foundRow(b))]
  BY DEF ReadStatus
<1>2. /\ pc = "next" /\ pc' = "collection"
      /\ UNCHANGED <<disk, readeck, listed, keepLocal, bookmarks>>
  BY DEF ReadStatus
<1>3. b \in Books /\ foundRow(b) = nickel[b].row
  BY <1>1 DEF foundRow, nickelContentIDMatches, outputDir, Quiet, WellSpelt, TypeOK
<1>4. /\ call'.status = nickelReadStatus(nickel[b].row) /\ ~call'.unreadable /\ ~call'.err
      /\ ~call'.archived /\ call'.shelf = "unknown"
      /\ call'.known = (b \in listed) /\ call'.mark = bookmarks[b]
  BY <1>1, <1>3 DEF NoCall
<1>5. b \in listed => bookmarks[b] = readeck[b]
  BY <1>1, <1>2 DEF QuietInv
<1>6. QuietCall'
  BY <1>1, <1>2, <1>4, <1>5 DEF QuietCall, nickelReadStatus
<1>7. ASSUME NEW k \in disk' \ Unnamed PROVE k \in todo' \/ k = book' \/ Settled(k)'
  <2>1. k \in Books /\ (k \in todo \/ Settled(k))
    BY <1>2, <1>7 DEF QuietInv, InCall, TypeOK, EnvironmentTypeOK
  <2> QED
    BY <1>1, <1>2, <2>1, SettledStays
<1> QED
  BY <1>1, <1>2, <1>6, <1>7 DEF QuietInv, InCall

LEMMA QuietCollection ==
  ASSUME TypeOK, QuietInv, Quiet, ~Fault, UNCHANGED <<cfg, nickel>>, CheckCollection
  PROVE  QuietInv'
<1>1. /\ UNCHANGED <<disk, readeck, todo, book, listed, keepLocal, bookmarks>>
      /\ pc = "collection" /\ InCall /\ QuietCall /\ call \in Call /\ book \in Books
  BY DEF CheckCollection, QuietInv, InCall, TypeOK
<1>2. pc' = "getFinished" /\ InCall'
  BY <1>1 DEF CheckCollection, QuietCall, InCall
<1>3. IF cfg.favourites
      THEN call' = [call EXCEPT !.err = call.unreadable, !.shelf = isInCollection(book)]
      ELSE call' = [call EXCEPT !.err = call.unreadable]
  BY <1>1 DEF CheckCollection, Call
<1>4. isInCollection(book) = IF nickel[book].shelf THEN "in" ELSE "out"
  BY DEF isInCollection, nickelContentIDMatches, outputDir, Quiet, WellSpelt
<1>5. QuietCall'
  BY <1>1, <1>2, <1>3, <1>4 DEF QuietCall, Call
<1> QED
  BY <1>1, <1>2, <1>5, WithinCall

LEMMA QuietGet ==
  ASSUME TypeOK, QuietInv, Quiet, ~Fault, UNCHANGED <<cfg, nickel>>, GetFinished \/ GetFavourite
  PROVE  QuietInv'
<1>1. /\ UNCHANGED <<disk, readeck, todo, book, listed, keepLocal, bookmarks>>
      /\ InCall /\ InCall' /\ QuietCall /\ call \in Call /\ book \in Books
  BY DEF GetFinished, GetFavourite, Get, QuietInv, InCall, TypeOK
<1>2. ASSUME NEW needed \in BOOLEAN, Get(needed)
      PROVE  \/ ~needed /\ call' = call
             \/ needed /\ readeck[book].exists /\ call' = [call EXCEPT !.known = TRUE, !.mark = readeck[book]]
             \/ needed /\ ~readeck[book].exists /\ call' = [call EXCEPT !.err = TRUE, !.mark = Gone]
  BY <1>2 DEF Get, getBookmarkFails
<1>3. CASE GetFinished
  <2>1. pc = "getFinished" /\ pc' = "patchFinished" /\ Get(call.status = "read" /\ ~call.known)
    BY <1>3 DEF GetFinished
  <2>2. \/ ~(call.status = "read" /\ ~call.known) /\ call' = call
        \/ /\ readeck[book].exists /\ ~call.known
           /\ call' = [call EXCEPT !.known = TRUE, !.mark = readeck[book]]
        \/ /\ ~readeck[book].exists /\ ~call.known
           /\ call' = [call EXCEPT !.err = TRUE, !.mark = Gone]
    BY <1>2, <2>1
  <2>3. QuietCall'
    BY <1>1, <2>1, <2>2 DEF QuietCall, Call
  <2> QED
    BY <1>1, <2>3, WithinCall
<1>4. CASE GetFavourite
  <2>1. pc = "getFavourite" /\ pc' = "patchFavourite" /\ Get(call.shelf # "unknown" /\ ~call.known)
    BY <1>4 DEF GetFavourite
  <2>2. \/ ~(call.shelf # "unknown" /\ ~call.known) /\ call' = call
        \/ /\ readeck[book].exists /\ ~call.known
           /\ call' = [call EXCEPT !.known = TRUE, !.mark = readeck[book]]
        \/ /\ ~readeck[book].exists /\ ~call.known
           /\ call' = [call EXCEPT !.err = TRUE, !.mark = Gone]
    BY <1>2, <2>1
  <2>3. QuietCall'
    BY <1>1, <2>1, <2>2 DEF QuietCall, Call
  <2> QED
    BY <1>1, <2>3, WithinCall
<1> QED
  BY <1>3, <1>4

LEMMA QuietPatchFinished ==
  ASSUME TypeOK, QuietInv, Quiet, ~Fault, UNCHANGED <<cfg, nickel>>, PatchFinished
  PROVE  QuietInv'
<1>1. /\ UNCHANGED <<disk, todo, book, listed, keepLocal, bookmarks>>
      /\ pc = "patchFinished" /\ pc' = "getFavourite" /\ InCall /\ InCall' /\ QuietCall
      /\ call \in Call /\ book \in Books /\ readeck \in [Books -> Bookmark] /\ cfg \in Config
  BY DEF PatchFinished, QuietInv, InCall, TypeOK, EnvironmentTypeOK
<1> DEFINE applies == call.status = "read" /\ call.known
           needed  == applies /\ (~call.mark.done \/ archiveRequested)
<1>2. \/ ~applies /\ UNCHANGED <<call, readeck>>
      \/ /\ applies /\ ~needed /\ UNCHANGED readeck
         /\ call' = [call EXCEPT !.archived = call.mark.archived]
      \/ /\ needed /\ readeck[book].exists
         /\ readeck' = [readeck EXCEPT ![book] = Finished]
         /\ call' = [call EXCEPT !.archived = call.mark.archived \/ archiveRequested]
      \/ /\ needed /\ ~readeck[book].exists /\ UNCHANGED readeck
         /\ call' = [call EXCEPT !.archived = call.mark.archived, !.err = TRUE]
  BY DEF PatchFinished, patchBookmark, patchBookmarkFails
<1>3. /\ \A b \in Books \ {book} : readeck'[b] = readeck[b]
      /\ readeck'[book] = readeck[book] \/ readeck'[book] = Finished
  BY <1>1, <1>2
<1>4. call.known => call.mark = readeck[book]
  BY <1>1 DEF QuietCall
<1>5. /\ Finished.exists = readeck[book].exists /\ Finished.marked = readeck[book].marked
      /\ call.known => Finished.done /\ (cfg.archive => Finished.archived)
                       /\ Finished.archived = (call.mark.archived \/ archiveRequested)
  BY <1>1, <1>4 DEF Finished, archiveRequested, Bookmark, Config
<1>6. QuietCall'
  <2>1. CASE ~applies /\ UNCHANGED <<call, readeck>>
    BY <1>1, <2>1 DEF QuietCall, Call
  <2>2. CASE /\ applies /\ ~needed /\ UNCHANGED readeck
             /\ call' = [call EXCEPT !.archived = call.mark.archived]
    BY <1>1, <1>4, <2>2 DEF QuietCall, Call, Bookmark, archiveRequested, Config
  <2>3. CASE /\ needed /\ readeck[book].exists
             /\ readeck' = [readeck EXCEPT ![book] = Finished]
             /\ call' = [call EXCEPT !.archived = call.mark.archived \/ archiveRequested]
    BY <1>1, <1>4, <1>5, <2>3 DEF QuietCall, Call
  <2>4. CASE /\ needed /\ ~readeck[book].exists /\ UNCHANGED readeck
             /\ call' = [call EXCEPT !.archived = call.mark.archived, !.err = TRUE]
    BY <1>1, <1>4, <2>4 DEF QuietCall, Call
  <2> QED
    BY <1>2, <2>1, <2>2, <2>3, <2>4
<1> QED
  BY <1>1, <1>3, <1>6, WithinCall

LEMMA QuietPatchFavourite ==
  ASSUME TypeOK, QuietInv, Quiet, ~Fault, UNCHANGED <<cfg, nickel>>, PatchFavourite
  PROVE  QuietInv'
<1>1. /\ UNCHANGED <<disk, todo, book, listed, keepLocal, bookmarks>>
      /\ pc = "patchFavourite" /\ pc' = "settle" /\ InCall /\ InCall' /\ QuietCall
      /\ call \in Call /\ book \in Books /\ readeck \in [Books -> Bookmark] /\ cfg \in Config
      /\ nickel[book].shelf \in BOOLEAN
  BY DEF PatchFavourite, QuietInv, InCall, TypeOK, EnvironmentTypeOK
<1> DEFINE needed == call.shelf # "unknown" /\ call.known /\ (call.shelf = "in") # call.mark.marked
<1>2. \/ ~needed /\ UNCHANGED <<call, readeck>>
      \/ /\ needed /\ readeck[book].exists
         /\ readeck' = [readeck EXCEPT ![book] = Favoured] /\ UNCHANGED call
      \/ /\ needed /\ ~readeck[book].exists /\ UNCHANGED readeck
         /\ call' = [call EXCEPT !.err = TRUE]
  BY DEF PatchFavourite, patchBookmark, patchBookmarkFails
<1>3. \A b \in Books \ {book} : readeck'[b] = readeck[b]
  BY <1>1, <1>2
<1>4. /\ Favoured.exists = readeck[book].exists /\ Favoured.done = readeck[book].done
      /\ Favoured.archived = readeck[book].archived /\ Favoured.marked = (call.shelf = "in")
  BY <1>1 DEF Favoured, Bookmark
<1>5. cfg.favourites => (call.shelf = "in") = nickel[book].shelf /\ call.shelf # "unknown"
  BY <1>1 DEF QuietCall
<1>6. QuietCall'
  <2>1. CASE ~needed /\ UNCHANGED <<call, readeck>>
    <3>1. cfg.favourites /\ readeck[book].exists => readeck[book].marked = nickel[book].shelf
      BY <1>1, <1>5, <2>1 DEF QuietCall
    <3> QED
      BY <1>1, <2>1, <3>1 DEF QuietCall
  <2>2. CASE /\ needed /\ readeck[book].exists
             /\ readeck' = [readeck EXCEPT ![book] = Favoured] /\ UNCHANGED call
    <3>1. readeck'[book] = Favoured
      BY <1>1, <2>2
    <3> QED
      BY <1>1, <1>4, <1>5, <2>2, <3>1 DEF QuietCall
  <2>3. CASE /\ needed /\ ~readeck[book].exists /\ UNCHANGED readeck
             /\ call' = [call EXCEPT !.err = TRUE]
    BY <1>1, <2>3 DEF QuietCall, Call
  <2> QED
    BY <1>2, <2>1, <2>2, <2>3
<1> QED
  BY <1>1, <1>3, <1>6, WithinCall

LEMMA QuietSettle ==
  ASSUME TypeOK, QuietInv, Quiet, ~Fault, UNCHANGED <<cfg, nickel>>, Settle
  PROVE  QuietInv'
<1>1. /\ UNCHANGED <<readeck, todo, book, listed, keepLocal, bookmarks>>
      /\ pc = "settle" /\ pc' = "next" /\ InCall /\ QuietCall /\ book \in Books
      /\ disk' \subseteq disk
  BY DEF Settle, QuietInv, InCall, TypeOK
<1>2. ASSUME book \in disk', readeck[book].exists PROVE Settled(book)
  <2>1. ~call.err /\ ~removable
    BY <1>1, <1>2 DEF Settle, QuietCall
  <2>2. nickel[book].row \in Row /\ nickel[book].shelf \in BOOLEAN /\ readeck[book] \in Bookmark
    BY <1>1 DEF TypeOK, EnvironmentTypeOK
  <2>3. /\ call.status = "read" <=> nickel[book].row = "read"
        /\ call.status \in {"reading", "closed"} => InUse(nickel[book].row)
    BY <1>1, <2>2 DEF QuietCall, nickelReadStatus, InUse, Row
  <2>4. Reported(book)
    BY <1>1, <1>2, <2>3 DEF QuietCall, Reported
  <2>5. cfg.delete => Wanted(book)
    BY <1>1, <1>2, <2>1, <2>3 DEF removable, QuietCall, Wanted
  <2> QED
    BY <2>4, <2>5 DEF Settled
<1>3. ASSUME NEW b \in disk' \ Unnamed PROVE b \in todo' \/ Settled(b)'
  <2>1. b \in Books /\ (b \in todo \/ b = book \/ Settled(b))
    BY <1>1, <1>3 DEF QuietInv, InCall, TypeOK, EnvironmentTypeOK
  <2>2. b = book => Settled(b)
    BY <1>2, <1>3 DEF Settled
  <2> QED
    BY <1>1, <2>1, <2>2, SettledStays
<1> QED
  BY <1>1, <1>3 DEF QuietInv, InCall

-----------------------------------------------------------------------------
\* The invariant is inductive.
LEMMA QuietStep == TypeOK /\ QuietInv /\ [Next]_vars => QuietInv'
<1> SUFFICES ASSUME TypeOK, QuietInv, [Next]_vars, Quiet' PROVE QuietInv'
  BY DEF QuietInv
<1>1. CASE UNCHANGED vars
  BY <1>1 DEF vars, env, local, QuietInv, Quiet, WellSpelt, QuietCall, InCall, Settled, Reported,
              Wanted
<1>2. CASE Next
  <2>1. Quiet /\ LocalStep /\ ~Fault /\ UNCHANGED <<cfg, nickel>>
    BY <1>2, QuietBefore
  <2> QED
    BY <2>1, QuietOutside, QuietReadStatus, QuietCollection, QuietGet, QuietPatchFinished,
       QuietPatchFavourite, QuietSettle DEF LocalStep
<1> QED
  BY <1>1, <1>2

\* When nothing fails and nobody interferes, one pass over any number of books leaves
\* Readeck in agreement with the Kobo and no file that the feed does not want, books
\* that Readeck no longer has excepted.
THEOREM QuietPassConvergesHolds == Spec => []QuietPassConverges
<1>1. TypeOK /\ QuietInv => QuietPassConverges
  BY DEF QuietInv, QuietPassConverges, Quiet, Settled, InCall
<1> QED
  BY <1>1, TypeInit, TypeStep, QuietStart, QuietStep, PTL DEF Spec
=============================================================================
