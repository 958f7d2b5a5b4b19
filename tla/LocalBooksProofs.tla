--------------------------- MODULE LocalBooksProofs ---------------------------
(***************************************************************************)
(* What the steps of the users and of syncLocalBooks preserve and promise:    *)
(* the lemmas that the proofs about a pass and about whole runs share.        *)
(***************************************************************************)
EXTENDS PassHistory, TLAPS

\* A step of the users keeps the environment well typed.
LEMMA UserType ==
  ASSUME EnvironmentTypeOK, UserStep
  PROVE  EnvironmentTypeOK'
<1> USE EnvironmentAssumption
<1> PICK b \in Books \ Unnamed : \/ KoboReads(b) \/ KoboShelves(b) \/ KoboDeletes(b)
                                 \/ ReadeckEdits(b) \/ ReadeckSaves(b)
  BY DEF UserStep
<1>0. cfg' = cfg /\ faults' = faults /\ edits' \in 0 .. MaxEdits
  BY DEF EnvironmentTypeOK, KoboReads, KoboShelves, KoboDeletes, ReadeckEdits, ReadeckSaves, Edit
<1>1. disk' \subseteq Books
  BY DEF EnvironmentTypeOK, KoboReads, KoboShelves, KoboDeletes, ReadeckEdits, ReadeckSaves
<1>2. nickel' \in [Books -> [row : Row, shelf : BOOLEAN]]
  <2> nickel \in [Books -> [row : Row, shelf : BOOLEAN]] /\ nickel[b] \in [row : Row, shelf : BOOLEAN]
    BY DEF EnvironmentTypeOK
  <2>1. CASE KoboReads(b)
    BY <2>1 DEF KoboReads
  <2>2. CASE KoboShelves(b)
    BY <2>2 DEF KoboShelves
  <2>3. CASE KoboDeletes(b)
    BY <2>3 DEF KoboDeletes, Row
  <2> QED
    BY <2>1, <2>2, <2>3 DEF ReadeckEdits, ReadeckSaves
<1>3. readeck' \in [Books -> Bookmark]
  <2>1. Gone \in Bookmark /\ Fresh \in Bookmark
    BY DEF Gone, Fresh, Bookmark
  <2>2. readeck \in [Books -> Bookmark]
    BY DEF EnvironmentTypeOK
  <2> QED
    BY <2>1, <2>2 DEF KoboReads, KoboShelves, KoboDeletes, ReadeckEdits, ReadeckSaves
<1> QED
  BY <1>0, <1>1, <1>2, <1>3 DEF EnvironmentTypeOK

\* A program step that sends at most a PATCH keeps the environment well typed.
LEMMA RequestType ==
  ASSUME EnvironmentTypeOK, UNCHANGED <<cfg, disk, nickel, edits>>,
         faults' = faults \/ Fault,
         readeck' = readeck \/ \E m \in Bookmark : \E b \in Books : readeck' = [readeck EXCEPT ![b] = m]
  PROVE  EnvironmentTypeOK'
  BY EnvironmentAssumption DEF EnvironmentTypeOK, Fault

LEMMA GetType ==
  ASSUME LocalTypeOK, NEW needed \in BOOLEAN, Get(needed)
  PROVE  /\ call' \in Call /\ UNCHANGED <<cfg, disk, nickel, edits, readeck>>
         /\ UNCHANGED <<keepLocal, listed, bookmarks, todo, book, filesChanged, failed>>
         /\ faults' = faults \/ Fault
<1>1. Gone \in Bookmark /\ readeck[book] \in Bookmark /\ call \in Call
  BY DEF LocalTypeOK, EnvironmentTypeOK, Gone, Bookmark
<1> QED
  BY <1>1 DEF Get, getBookmarkFails, Call

\* A step of syncLocalBooks preserves the types.
LEMMA LocalType ==
  ASSUME LocalTypeOK, LocalStep
  PROVE  LocalTypeOK' /\ (pc' \in {"next", "done"} \/ InCall')
<1> USE DEF LocalTypeOK, InCall
<1>0. /\ book \in Books /\ call \in Call /\ readeck[book] \in Bookmark
      /\ readeck \in [Books -> Bookmark] /\ bookmarks \in [Books -> Bookmark]
  BY DEF EnvironmentTypeOK
<1>1. CASE ListLocalBooks
  BY <1>1 DEF ListLocalBooks, env, EnvironmentTypeOK
<1>2. CASE SkipUnnamed
  BY <1>2 DEF SkipUnnamed, env, EnvironmentTypeOK
<1>3. CASE ReadStatus
  <2>1. PICK b \in todo \ Unnamed :
           /\ todo' = todo \ {b} /\ book' = b
           /\ LET start == [NoCall EXCEPT !.known = b \in listed, !.mark = bookmarks[b]]
              IN \/ /\ call' = [start EXCEPT !.status = nickelReadStatus(foundRow(b))]
                    /\ UNCHANGED faults
                 \/ Fault /\ call' = [start EXCEPT !.unreadable = TRUE]
    BY <1>3 DEF ReadStatus
  <2>2. nickelReadStatus(foundRow(b)) \in {"unread", "reading", "read", "closed"}
    BY DEF EnvironmentTypeOK, nickelReadStatus, foundRow, Row
  <2>3. bookmarks[b] \in Bookmark /\ (b \in listed) \in BOOLEAN
    BY <1>0
  <2>4. call' \in Call
    BY <2>1, <2>2, <2>3 DEF NoCall, Call
  <2>5. EnvironmentTypeOK'
    BY <1>3, <2>1, RequestType DEF ReadStatus
  <2> QED
    BY <1>3, <2>1, <2>4, <2>5 DEF ReadStatus
<1>4. CASE CheckCollection
  <2>1. call' \in Call
    BY <1>0, <1>4 DEF CheckCollection, CollectionError, isInCollection, Call
  <2>2. EnvironmentTypeOK'
    BY <1>4, RequestType DEF CheckCollection
  <2> QED
    BY <1>4, <2>1, <2>2 DEF CheckCollection
<1>5. CASE GetFinished
  <2>1. (call.status = "read" /\ ~call.known) \in BOOLEAN
    OBVIOUS
  <2> QED
    BY <1>5, <2>1, GetType, RequestType DEF GetFinished
<1>6. CASE GetFavourite
  <2>1. (call.shelf # "unknown" /\ ~call.known) \in BOOLEAN
    OBVIOUS
  <2> QED
    BY <1>6, <2>1, GetType, RequestType DEF GetFavourite
<1>7. CASE PatchFinished
  <2>1. Finished \in Bookmark
    BY <1>0 DEF Finished, Bookmark
  <2>2. call.mark.archived \in BOOLEAN /\ archiveRequested \in BOOLEAN
    BY <1>0 DEF Call, Bookmark, archiveRequested, EnvironmentTypeOK, Config
  <2>3. call' \in Call
    BY <1>0, <1>7, <2>2 DEF PatchFinished, Call
  <2>4. /\ UNCHANGED <<cfg, disk, nickel, edits>> /\ (faults' = faults \/ Fault)
        /\ readeck' = readeck \/ readeck' = [readeck EXCEPT ![book] = Finished]
    BY <1>7 DEF PatchFinished, patchBookmark, patchBookmarkFails
  <2>5. EnvironmentTypeOK'
    BY <1>0, <2>1, <2>4, RequestType
  <2> QED
    BY <1>7, <2>3, <2>5 DEF PatchFinished
<1>8. CASE PatchFavourite
  <2>1. Favoured \in Bookmark
    BY <1>0 DEF Favoured, Bookmark
  <2>3. call' \in Call
    BY <1>0, <1>8 DEF PatchFavourite, Call
  <2>4. /\ UNCHANGED <<cfg, disk, nickel, edits>> /\ (faults' = faults \/ Fault)
        /\ readeck' = readeck \/ readeck' = [readeck EXCEPT ![book] = Favoured]
    BY <1>8 DEF PatchFavourite, patchBookmark, patchBookmarkFails
  <2>5. EnvironmentTypeOK'
    BY <1>0, <2>1, <2>4, RequestType
  <2> QED
    BY <1>8, <2>3, <2>5 DEF PatchFavourite
<1>9. CASE Settle
  <2>1. disk' \subseteq Books /\ UNCHANGED <<cfg, nickel, readeck, edits>>
    BY <1>9 DEF Settle, EnvironmentTypeOK
  <2>2. faults' = faults \/ Fault
    BY <1>9 DEF Settle
  <2>3. faults' \in 0 .. MaxFaults
    BY <2>2, EnvironmentAssumption DEF Fault, EnvironmentTypeOK
  <2>4. EnvironmentTypeOK'
    BY <2>1, <2>3 DEF EnvironmentTypeOK
  <2> QED
    BY <1>9, <2>4 DEF Settle
<1>10. CASE Finish
  BY <1>10 DEF Finish, env, EnvironmentTypeOK
<1> QED
  BY <1>1, <1>2, <1>3, <1>4, <1>5, <1>6, <1>7, <1>8, <1>9, <1>10 DEF LocalStep

\* The pass changes no listing; only its last step for a book changes a file.
LEMMA LocalFrame ==
  ASSUME LocalTypeOK, LocalStep
  PROVE  /\ UNCHANGED <<cfg, nickel, edits, listed, keepLocal, bookmarks>>
         /\ pc \in {"start", "next"} \/ InCall
         /\ Settle \/ UNCHANGED <<disk, filesChanged>>
         /\ faults' = faults \/ Fault
<1>1. CASE ListLocalBooks \/ SkipUnnamed \/ Finish
  BY <1>1 DEF ListLocalBooks, SkipUnnamed, Finish, env
<1>2. CASE ReadStatus \/ CheckCollection
  BY <1>2 DEF ReadStatus, CheckCollection, InCall
<1>3. CASE GetFinished \/ GetFavourite
  BY <1>3 DEF GetFinished, GetFavourite, Get, getBookmarkFails, InCall
<1>4. CASE PatchFinished \/ PatchFavourite
  BY <1>4 DEF PatchFinished, PatchFavourite, patchBookmark, patchBookmarkFails, InCall
<1>5. CASE Settle
  BY <1>5 DEF Settle, InCall
<1> QED
  BY <1>1, <1>2, <1>3, <1>4, <1>5 DEF LocalStep

-----------------------------------------------------------------------------
(***************************************************************************)
(* The steps of the users and of syncLocalBooks as the history sees them:     *)
(* they preserve the invariant of a pass, and keep its promises.              *)
(***************************************************************************)
USE DEF LocalTypeOK, PassTypeOK, HistoryTypeOK

\* The history is well typed from the listing on.
LEMMA HistoryType ==
  ASSUME EnvironmentTypeOK'
  PROVE  /\ Begun' => HistoryTypeOK'
         /\ HistoryTypeOK /\ Observe => HistoryTypeOK'
  BY DEF EnvironmentTypeOK, Begun, openNow, seenNow, Observe, Sees

\* What a step can do to the history.
LEMMA Observed ==
  ASSUME PassTypeOK, Observe, HistoryInv, EnvironmentTypeOK'
  PROVE  /\ HistoryInv'
         /\ open' \subseteq open /\ steady' \subseteq steady
         /\ \A b \in steady' : nickel'[b] = nickel[b]
         /\ \A b \in Books : seen[b] \subseteq seen'[b]
         /\ \A b \in Books : readeck'[b] \in seen'[b]
  BY DEF EnvironmentTypeOK, Observe, Sees, HistoryInv

\* A step between two calls, or out of the last: what is held of the bookmarks has
\* been theirs, and there is nothing else to say.
LEMMA BetweenCalls ==
  ASSUME PassTypeOK, PassInv, Observe, EnvironmentTypeOK', ~InCall', UNCHANGED <<listed, bookmarks>>
  PROVE  PassInv'
<1>1. HistoryInv' /\ \A b \in listed' : bookmarks'[b] \in seen'[b]
  BY Observed DEF PassInv, KnownInv
<1> QED
  BY <1>1 DEF PassInv, StatusInv, UnreadableInv, ShelfInv, KnownInv, ReportInv, InCall

\* A step of the users: the call is unchanged, and the history forgets a book that
\* was touched.
LEMMA UsersKeepPass ==
  ASSUME PassTypeOK, PassInv, UserStep, UNCHANGED local, Observe, EnvironmentTypeOK'
  PROVE  PassInv'
<1> USE DEF PassInv
<1>1. /\ HistoryInv'
      /\ open' \subseteq open /\ steady' \subseteq steady
      /\ \A b \in steady' : nickel'[b] = nickel[b]
      /\ \A b \in Books : seen[b] \subseteq seen'[b]
  BY Observed
<1>2. UNCHANGED local /\ InCall' = InCall /\ book \in Books /\ listed \subseteq Books
  BY DEF local, InCall
<1>3. cfg' = cfg
  BY DEF UserStep, Edit, KoboReads, KoboShelves, KoboDeletes, ReadeckEdits, ReadeckSaves
<1>4. StatusInv'
  BY <1>1, <1>2, <1>3 DEF StatusInv, WellSpelt, foundRow, nickelContentIDMatches, outputDir, local
<1>5. UnreadableInv'
  BY <1>2 DEF UnreadableInv, local
<1>6. ShelfInv'
  BY <1>1, <1>2, <1>3 DEF ShelfInv, local, isInCollection, nickelContentIDMatches, outputDir
<1>7. KnownInv'
  BY <1>1, <1>2 DEF KnownInv, local
<1>8. ReportInv'
  BY <1>1, <1>2, <1>3 DEF ReportInv, local
<1> QED
  BY <1>1, <1>4, <1>5, <1>6, <1>7, <1>8

\* A step of syncLocalBooks.
LEMMA LocalKeepsPass ==
  ASSUME PassTypeOK, PassInv, LocalStep, Observe, EnvironmentTypeOK'
  PROVE  PassInv'
<1> USE DEF PassInv
<1>1. /\ HistoryInv'
      /\ open' \subseteq open /\ steady' \subseteq steady
      /\ \A b \in Books : seen[b] \subseteq seen'[b]
      /\ \A b \in Books : readeck'[b] \in seen'[b]
  BY Observed
<1>2. book \in Books /\ listed \subseteq Books /\ call \in Call
  OBVIOUS
<1>3. CASE ListLocalBooks \/ SkipUnnamed \/ Finish
  <2>1. ~InCall' /\ UNCHANGED <<listed, bookmarks>>
    BY <1>3 DEF ListLocalBooks, SkipUnnamed, Finish, InCall
  <2> QED
    BY <2>1, BetweenCalls
<1>4. CASE ReadStatus
  <2>1. PICK b \in todo \ Unnamed :
           /\ todo' = todo \ {b} /\ book' = b
           /\ LET start == [NoCall EXCEPT !.known = b \in listed, !.mark = bookmarks[b]]
              IN \/ /\ call' = [start EXCEPT !.status = nickelReadStatus(foundRow(b))]
                    /\ UNCHANGED faults
                 \/ Fault /\ call' = [start EXCEPT !.unreadable = TRUE]
    BY <1>4 DEF ReadStatus
  <2>2. /\ pc' = "collection" /\ UNCHANGED <<cfg, nickel, listed, bookmarks>> /\ book' = b
        /\ call'.shelf = "unknown" /\ ~call'.archived /\ call'.mark = bookmarks[b]
        /\ call'.known = (b \in listed)
        /\ call'.unreadable \/ call'.status = nickelReadStatus(foundRow(b))
    BY <1>4, <2>1 DEF ReadStatus, NoCall
  <2>3. b \in open' /\ WellSpelt => nickelReadStatus(foundRow(b)) \in {"reading", "closed"}
    <3>1. b \in open' => InUse(nickel[b].row)
      BY <1>1, <2>2 DEF HistoryInv
    <3>2. WellSpelt => foundRow(b) = nickel[b].row
      BY DEF WellSpelt, foundRow, nickelContentIDMatches, outputDir
    <3> QED
      BY <3>1, <3>2 DEF InUse, nickelReadStatus
  <2>4. StatusInv'
    BY <1>4, <2>2, <2>3 DEF StatusInv, WellSpelt, foundRow, nickelContentIDMatches, outputDir
  <2>5. UnreadableInv' /\ ShelfInv' /\ ReportInv'
    BY <2>2 DEF UnreadableInv, ShelfInv, ReportInv
  <2>6. KnownInv'
    BY <1>1, <1>2, <2>2 DEF KnownInv
  <2> QED
    BY <1>1, <2>4, <2>5, <2>6
<1>5. CASE CheckCollection
  <2>1. /\ pc = "collection" /\ InCall /\ UNCHANGED <<cfg, nickel, listed, bookmarks, book>>
        /\ pc' = IF call.unreadable THEN "settle" ELSE "getFinished"
        /\ call'.status = call.status /\ call'.unreadable = call.unreadable
        /\ call'.known = call.known /\ call'.mark = call.mark /\ call'.archived = call.archived
        /\ call.unreadable => call'.err
        /\ \/ ~cfg.favourites /\ call'.shelf = call.shelf
           \/ cfg.favourites /\ call'.shelf = isInCollection(book)
           \/ cfg.favourites /\ call'.shelf = call.shelf /\ call'.err
    BY <1>2, <1>5 DEF CheckCollection, CollectionError, Call, InCall
  <2>2. StatusInv'
    BY <1>1, <2>1 DEF StatusInv, WellSpelt, foundRow, nickelContentIDMatches, outputDir
  <2>3. UnreadableInv'
    BY <2>1 DEF UnreadableInv
  <2>4. ShelfInv'
    BY <1>1, <2>1 DEF ShelfInv, isInCollection, nickelContentIDMatches, outputDir
  <2>5. KnownInv'
    BY <1>1, <1>2, <2>1 DEF KnownInv, InCall
  <2>6. ReportInv'
    BY <2>1 DEF ReportInv
  <2> QED
    BY <1>1, <2>2, <2>3, <2>4, <2>5, <2>6
<1>6. CASE GetFinished \/ GetFavourite
  <2> DEFINE needed == IF pc = "getFinished" THEN call.status = "read" /\ ~call.known
                                             ELSE call.shelf # "unknown" /\ ~call.known
  <2>1. /\ \/ pc = "getFinished" /\ pc' = "patchFinished"
           \/ pc = "getFavourite" /\ pc' = "patchFavourite"
        /\ Get(needed)
    BY <1>6 DEF GetFinished, GetFavourite
  <2>2. InCall /\ UNCHANGED <<cfg, nickel, readeck, listed, bookmarks, book>>
    BY <2>1 DEF Get, InCall
  <2>3. /\ call'.status = call.status /\ call'.unreadable = call.unreadable
        /\ call'.shelf = call.shelf /\ call'.archived = call.archived
        /\ call.err => call'.err
        /\ \/ ~needed /\ call' = call
           \/ call'.known /\ call'.mark = readeck[book]
           \/ call'.err /\ call'.known = call.known /\ ~call.known
    BY <1>2, <2>1 DEF Get, getBookmarkFails, Call
  <2> HIDE DEF needed
  <2>4. StatusInv' /\ UnreadableInv'
    BY <1>1, <2>1, <2>2, <2>3 DEF StatusInv, UnreadableInv,
             WellSpelt, foundRow, nickelContentIDMatches, outputDir
  <2>5. ShelfInv'
    BY <1>1, <2>1, <2>2, <2>3 DEF ShelfInv, isInCollection, nickelContentIDMatches, outputDir
  <2>6. KnownInv'
    <3>1. pc' = "patchFinished" /\ call'.status = "read" /\ ~call'.err => call'.known
      BY <2>1, <2>3 DEF needed
    <3>2. pc' = "patchFavourite" /\ call'.shelf # "unknown" /\ ~call'.err => call'.known
      BY <2>1, <2>3 DEF needed
    <3>3. call'.known => call'.mark \in seen'[book]
      BY <1>1, <1>2, <2>2, <2>3 DEF KnownInv
    <3> QED
      BY <1>1, <1>2, <2>2, <2>3, <3>1, <3>2, <3>3 DEF KnownInv
  <2>7. ReportInv'
    BY <1>1, <1>2, <2>1, <2>2, <2>3 DEF ReportInv
  <2> QED
    BY <1>1, <2>4, <2>5, <2>6, <2>7
<1>7. CASE PatchFinished
  <2>1. /\ pc = "patchFinished" /\ pc' = "getFavourite" /\ InCall
        /\ UNCHANGED <<cfg, nickel, listed, bookmarks, book>>
    BY <1>7 DEF PatchFinished, InCall
  <2>2. /\ call'.status = call.status /\ call'.unreadable = call.unreadable
        /\ call'.shelf = call.shelf /\ call'.known = call.known /\ call'.mark = call.mark
        /\ call.err => call'.err
    BY <1>2, <1>7 DEF PatchFinished, Call
  <2>3. readeck'[book] \in seen'[book] /\ (call.known => call.mark \in seen'[book])
    BY <1>1, <1>2, <2>1 DEF KnownInv
  <2>4. call.status = "read" /\ call.known /\ ~call'.err =>
          /\ (readeck'[book].done \/ call.mark.done)
          /\ cfg.archive => (readeck'[book].archived \/ call.mark.archived)
    <3> SUFFICES ASSUME call.status = "read", call.known, ~call'.err
                 PROVE  /\ (readeck'[book].done \/ call.mark.done)
                        /\ cfg.archive => (readeck'[book].archived \/ call.mark.archived)
      OBVIOUS
    <3>1. CASE call.mark.done /\ ~archiveRequested
      BY <3>1 DEF archiveRequested
    <3>2. CASE ~call.mark.done \/ archiveRequested
      <4>1. patchBookmark(book, Finished)
        BY <1>2, <1>7, <3>2 DEF PatchFinished, Call
      <4>2. readeck'[book] = Finished
        BY <1>2, <4>1 DEF patchBookmark, EnvironmentTypeOK
      <4>3. readeck[book] \in Bookmark
        BY <1>2 DEF EnvironmentTypeOK
      <4> QED
        BY <4>2, <4>3 DEF Finished, archiveRequested, Bookmark
    <3> QED
      BY <3>1, <3>2
  <2>5. call'.archived => \E m \in seen'[book] : m.archived
    <3>1. CASE call' = call
      BY <1>1, <1>2, <2>1, <3>1 DEF KnownInv
    <3>2. CASE call.known /\ call'.archived = call.mark.archived
      BY <2>3, <3>2
    <3>3. CASE patchBookmark(book, Finished) /\ archiveRequested
      <4>1. readeck'[book] = Finished /\ readeck[book] \in Bookmark
        BY <1>2, <3>3 DEF patchBookmark, EnvironmentTypeOK
      <4> QED
        BY <2>3, <3>3, <4>1 DEF Finished, Bookmark
    <3> QED
      BY <1>2, <1>7, <3>1, <3>2, <3>3 DEF PatchFinished, Call
  <2>6. StatusInv' /\ UnreadableInv'
    BY <1>1, <2>1, <2>2 DEF StatusInv, UnreadableInv, WellSpelt, foundRow, nickelContentIDMatches, outputDir
  <2>7. ShelfInv'
    BY <1>1, <2>1, <2>2 DEF ShelfInv, isInCollection, nickelContentIDMatches, outputDir
  <2>8. KnownInv'
    BY <1>1, <1>2, <2>1, <2>2, <2>3, <2>5 DEF KnownInv
  <2>9. ReportInv'
    <3>1. call.status = "read" /\ ~call'.err => call.known
      BY <2>1, <2>2 DEF KnownInv
    <3> QED
      BY <2>1, <2>2, <2>3, <2>4, <3>1 DEF ReportInv
  <2> QED
    BY <1>1, <2>6, <2>7, <2>8, <2>9
<1>8. CASE PatchFavourite
  <2>1. /\ pc = "patchFavourite" /\ pc' = "settle" /\ InCall
        /\ UNCHANGED <<cfg, nickel, listed, bookmarks, book>>
    BY <1>8 DEF PatchFavourite, InCall
  <2>2. /\ call'.status = call.status /\ call'.unreadable = call.unreadable
        /\ call'.shelf = call.shelf /\ call'.known = call.known /\ call'.mark = call.mark
        /\ call'.archived = call.archived /\ (call.err => call'.err)
    BY <1>2, <1>8 DEF PatchFavourite, Call
  <2>3. readeck'[book] \in seen'[book] /\ (call.known => call.mark \in seen'[book])
    BY <1>1, <1>2, <2>1 DEF KnownInv
  <2>4. call.shelf # "unknown" /\ call.known /\ ~call'.err =>
          \/ readeck'[book].marked = (call.shelf = "in")
          \/ call.mark.marked = (call.shelf = "in")
    <3> SUFFICES ASSUME call.shelf # "unknown", call.known, ~call'.err,
                        (call.shelf = "in") # call.mark.marked
                 PROVE  readeck'[book].marked = (call.shelf = "in")
      OBVIOUS
    <3>1. patchBookmark(book, Favoured)
      BY <1>2, <1>8 DEF PatchFavourite, Call
    <3>2. readeck'[book] = Favoured /\ readeck[book] \in Bookmark
      BY <1>2, <3>1 DEF patchBookmark, EnvironmentTypeOK
    <3> QED
      BY <3>2 DEF Favoured, Bookmark
  <2>5. StatusInv'
    BY <1>1, <2>1, <2>2 DEF StatusInv, WellSpelt, foundRow, nickelContentIDMatches, outputDir
  <2>6. UnreadableInv'
    BY <2>1, <2>2 DEF UnreadableInv
  <2>7. ShelfInv'
    BY <1>1, <2>1, <2>2 DEF ShelfInv, isInCollection, nickelContentIDMatches, outputDir
  <2>8. KnownInv'
    BY <1>1, <1>2, <2>1, <2>2, <2>3 DEF KnownInv
  <2>9. ReportInv'
    <3>1. cfg.favourites /\ ~call'.err => call.shelf # "unknown" /\ call.known
      BY <2>1, <2>2 DEF KnownInv, ShelfInv
    <3>2. cfg.favourites /\ ~call'.err => \E m \in seen'[book] : m.marked = (call.shelf = "in")
      BY <2>2, <2>3, <2>4, <3>1
    <3>3. call.status = "read" /\ ~call'.err =>
            /\ \E m \in seen'[book] : m.done
            /\ cfg.archive => \E m \in seen'[book] : m.archived
      BY <1>1, <1>2, <2>1, <2>2 DEF ReportInv
    <3> QED
      BY <2>1, <2>2, <3>2, <3>3 DEF ReportInv
  <2> QED
    BY <1>1, <2>5, <2>6, <2>7, <2>8, <2>9
<1>9. CASE Settle
  <2>1. ~InCall' /\ UNCHANGED <<listed, bookmarks>>
    BY <1>9 DEF Settle, InCall
  <2> QED
    BY <2>1, BetweenCalls
<1> QED
  BY <1>3, <1>4, <1>5, <1>6, <1>7, <1>8, <1>9 DEF LocalStep

\* Only Settle removes a file, and only when the call had no error and
\* removeStaleLocalBook agreed.
LEMMA OnlySettleRemoves ==
  ASSUME PassTypeOK, LocalStep \/ UserStep, NEW b \in Books, Removes(b)
  PROVE  /\ pc = "settle" /\ InCall /\ b = book /\ ~call.err /\ removable
         /\ cfg \in Config /\ b \notin Unnamed
<1>1. ~UserStep
  BY DEF UserStep, Removes, KoboReads, KoboShelves, KoboDeletes, ReadeckEdits, ReadeckSaves,
         Edit, EnvironmentTypeOK
<1>2. Settle
  BY <1>1 DEF LocalStep, Removes, env, ListLocalBooks, SkipUnnamed, ReadStatus,
              CheckCollection, GetFinished, GetFavourite, Get, PatchFinished, PatchFavourite, Finish
<1> QED
  BY <1>2 DEF Settle, Removes, EnvironmentTypeOK, InCall

\* A book in use since the feed was listed is never removed by kobodeck: its
\* status, whenever it was read, was "reading" or "closed".
LEMMA OpenBooksKept ==
  ASSUME PassTypeOK, PassInv, LocalStep \/ UserStep
  PROVE  KeepsOpenBooks
<1> SUFFICES ASSUME NEW b \in Books, Removes(b), WellSpelt PROVE b \notin open
  BY DEF KeepsOpenBooks
<1>1. pc = "settle" /\ InCall /\ b = book /\ ~call.err /\ removable
  BY OnlySettleRemoves
<1> QED
  BY <1>1 DEF PassInv, StatusInv, UnreadableInv, removable

\* A finished book is removed only after Readeck has held it as finished and, if
\* configured, archived; and only with the favourite flag reported.
LEMMA ReportsPrecede ==
  ASSUME PassTypeOK, PassInv, LocalStep \/ UserStep
  PROVE  ReportsBeforeRemoving
<1> SUFFICES ASSUME NEW b \in steady, Removes(b), WellSpelt
             PROVE  /\ nickel[b].row = "read" => /\ \E m \in seen[b] : m.done
                                                 /\ cfg.archive => \E m \in seen[b] : m.archived
                    /\ cfg.favourites => \E m \in seen[b] : m.marked = nickel[b].shelf
  BY DEF ReportsBeforeRemoving
<1>1. b \in Books /\ nickel[b].shelf \in BOOLEAN
  BY DEF EnvironmentTypeOK
<1>2. pc = "settle" /\ InCall /\ b = book /\ ~call.err
  BY <1>1, OnlySettleRemoves
<1>3. nickelContentIDMatches
  BY DEF WellSpelt, nickelContentIDMatches, outputDir
<1>4. call.status = nickelReadStatus(nickel[b].row)
  BY <1>2, <1>3 DEF PassInv, StatusInv, UnreadableInv, foundRow
<1>5. nickel[b].row = "read" => call.status = "read"
  BY <1>4 DEF nickelReadStatus
<1>6. cfg.favourites => call.shelf = isInCollection(b)
  BY <1>2 DEF PassInv, ShelfInv
<1>7. cfg.favourites => (call.shelf = "in") = nickel[b].shelf
  BY <1>1, <1>3, <1>6 DEF isInCollection
<1> QED
  BY <1>2, <1>5, <1>7 DEF PassInv, ReportInv

\* Without Output.Delete nothing is removed, a file without a stem never is, and a
\* book of the labelled feed only once Readeck has held it as archived.
LEMMA OnlyStaleRemoved ==
  ASSUME PassTypeOK, PassInv, LocalStep \/ UserStep
  PROVE  RemovesOnlyStale
<1> SUFFICES ASSUME NEW b \in Books, Removes(b)
             PROVE  /\ cfg.delete /\ b \notin Unnamed
                    /\ b \in keepLocal => \E m \in seen[b] : m.archived
  BY DEF RemovesOnlyStale
<1>1. InCall /\ b = book /\ removable /\ b \notin Unnamed
  BY OnlySettleRemoves
<1> QED
  BY <1>1 DEF PassInv, KnownInv, removable

\* Every write of kobodeck to Readeck is justified by the row and the collection
\* that Nickel has for the book, unless the user changed them meanwhile.
LEMMA WritesJustified ==
  ASSUME PassTypeOK, PassInv, LocalStep \/ UserStep
  PROVE  TellsWhatKoboSays
<1> DEFINE Justified(b) ==
      /\ readeck'[b].exists
      /\ \/ readeck'[b].marked = readeck[b].marked
         \/ cfg.favourites /\ readeck'[b].marked = nickel[b].shelf
      /\ (readeck'[b].done # readeck[b].done \/ readeck'[b].archived # readeck[b].archived)
         => /\ nickel[b].row = "read"
            /\ readeck[b].done => readeck'[b].done
            /\ readeck[b].archived => readeck'[b].archived
            /\ readeck'[b].archived # readeck[b].archived => cfg.archive
<1> SUFFICES ASSUME NEW b \in steady, readeck'[b] # readeck[b], edits' = edits, WellSpelt
             PROVE  Justified(b)
  BY DEF TellsWhatKoboSays
<1>1. nickelContentIDMatches
  BY DEF WellSpelt, nickelContentIDMatches, outputDir
<1>2. /\ b \in Books /\ readeck \in [Books -> Bookmark] /\ readeck[b] \in Bookmark
      /\ call \in Call /\ cfg \in Config /\ nickel[b].shelf \in BOOLEAN
  BY DEF EnvironmentTypeOK
<1>3. ~UserStep
  BY DEF UserStep, KoboReads, KoboShelves, KoboDeletes, ReadeckEdits, ReadeckSaves,
         Edit, EnvironmentTypeOK
<1>4. PatchFinished \/ PatchFavourite
  BY <1>3 DEF LocalStep, env, ListLocalBooks, SkipUnnamed, ReadStatus,
              CheckCollection, GetFinished, GetFavourite, Get, Settle, Finish
<1>5. CASE PatchFinished
  <2>1. /\ readeck' = [readeck EXCEPT ![book] = Finished] /\ readeck[book].exists
        /\ call.status = "read" /\ pc = "patchFinished"
    BY <1>5 DEF PatchFinished, patchBookmark, patchBookmarkFails
  <2>2. b = book /\ readeck'[b] = Finished
    BY <1>2, <2>1
  <2>3. nickel[b].row = "read"
    BY <1>1, <2>1, <2>2
    DEF PassInv, StatusInv, UnreadableInv, InCall, nickelReadStatus, foundRow
  <2>4. archiveRequested => cfg.archive
    BY DEF archiveRequested
  <2>5. /\ Finished.exists = readeck[b].exists /\ Finished.marked = readeck[b].marked
        /\ readeck[b].done => Finished.done
        /\ readeck[b].archived => Finished.archived
        /\ Finished.archived # readeck[b].archived => archiveRequested
    BY <1>2, <2>2 DEF Finished, Bookmark
  <2> QED
    BY <2>1, <2>2, <2>3, <2>4, <2>5
<1>6. CASE PatchFavourite
  <2>1. /\ readeck' = [readeck EXCEPT ![book] = Favoured] /\ readeck[book].exists
        /\ call.shelf # "unknown" /\ pc = "patchFavourite"
    BY <1>6 DEF PatchFavourite, patchBookmark, patchBookmarkFails
  <2>2. b = book /\ readeck'[b] = Favoured
    BY <1>2, <2>1
  <2>3. cfg.favourites /\ call.shelf = isInCollection(b)
    BY <2>1, <2>2 DEF PassInv, ShelfInv, InCall
  <2>4. (call.shelf = "in") = nickel[b].shelf
    BY <1>1, <1>2, <2>3 DEF isInCollection
  <2>5. /\ Favoured.exists = readeck[b].exists /\ Favoured.done = readeck[b].done
        /\ Favoured.archived = readeck[b].archived /\ Favoured.marked = (call.shelf = "in")
    BY <1>2, <2>2 DEF Favoured, Bookmark
  <2> QED
    BY <2>1, <2>2, <2>3, <2>4, <2>5
<1> QED
  BY <1>4, <1>5, <1>6
=============================================================================
