----------------------------- MODULE Environment -----------------------------
(***************************************************************************)
(* What kobodeck works between: the configuration of a run, the *.kepub.epub *)
(* files of Output.Path, the Kobo's Nickel database and the bookmarks of the *)
(* Readeck server.  The device's user and the user of Readeck change all of  *)
(* them while kobodeck runs.                                                  *)
(***************************************************************************)
EXTENDS Naturals, FiniteSets

CONSTANTS
  Books,             \* file stems, which are the IDs of bookmarks
  Unnamed,           \* the stem of a file called just ".kepub.epub", or nothing
  Configs,           \* the configurations explored
  InitialRows,       \* the rows Nickel may have for a book when kobodeck starts
  InitialBookmarks,  \* what Readeck may have for a book when kobodeck starts
  MaxFaults,         \* bound: calls of kobodeck that fail although they should not
  MaxEdits           \* bound: changes made by the users

\* How Output.Path is spelt: as Nickel spells that directory, so with a slash at the
\* end, otherwise ("//", "/./"), or with brackets that glob takes for a class of
\* characters or cannot parse.  validate accepts all of these.
Path == {"nickel", "slash", "other", "class", "malformed"}

\* limited: Fetch.Limit is set, and a listing may end before the feed does.
Config == [archive : BOOLEAN, favourites : BOOLEAN, delete : BOOLEAN,
           unreadOnly : BOOLEAN, limited : BOOLEAN, path : Path]

\* "other" is a ReadStatus that kobodeck does not know; "none" is no row.
Row == {"none", "unread", "reading", "read", "closed", "other"}

\* done is read_progress = 100, marked is Readeck's favourite.
Bookmark == [exists : BOOLEAN, archived : BOOLEAN, marked : BOOLEAN, done : BOOLEAN]

\* A bookmark that Readeck does not have; also Go's zero readeckBookmark.
Gone == [exists |-> FALSE, archived |-> FALSE, marked |-> FALSE, done |-> FALSE]
Fresh == [Gone EXCEPT !.exists = TRUE]

ASSUME EnvironmentAssumption ==
  /\ Unnamed \subseteq Books
  /\ Configs \subseteq Config
  /\ InitialRows \subseteq Row
  /\ InitialBookmarks \subseteq Bookmark
  /\ MaxFaults \in Nat /\ MaxEdits \in Nat

VARIABLES
  cfg,      \* the configuration, fixed for the run
  disk,     \* the books whose file is in Output.Path
  nickel,   \* Nickel's view of each book: its row and whether it is in the collection
  readeck,  \* Readeck's bookmarks
  faults,   \* faults used so far
  edits     \* user changes made so far

env == <<cfg, disk, nickel, readeck, faults, edits>>

EnvironmentTypeOK ==
  /\ cfg \in Config
  /\ disk \subseteq Books
  /\ nickel \in [Books -> [row : Row, shelf : BOOLEAN]]
  /\ readeck \in [Books -> Bookmark]
  /\ faults \in 0 .. MaxFaults
  /\ edits \in 0 .. MaxEdits

EnvironmentInit ==
  /\ cfg \in Configs
  /\ disk \in SUBSET Books
  /\ nickel \in [Books -> [row : InitialRows, shelf : BOOLEAN]]
  /\ readeck \in [Books -> InitialBookmarks]
  /\ \A b \in Books : nickel[b].shelf => b \in disk /\ nickel[b].row # "none"
  /\ \A b \in Unnamed : nickel[b].row = "none" /\ readeck[b] = Gone
  /\ faults = 0
  /\ edits = 0

\* The books Nickel shows as being read.  A status kobodeck does not know counts
\* as such (nickelReadStatus says so).
InUse(row) == row \in {"reading", "closed", "other"}

\* For the properties: Output.Path is spelt as Nickel spells it.
WellSpelt == cfg.path \in {"nickel", "slash"}

\* The query of the bookmark list: archived bookmarks never, finished ones when
\* Fetch.Status leaves them out.
InFeed(m) == m.exists /\ ~m.archived /\ (cfg.unreadOnly => ~m.done)
Feed == {b \in Books : InFeed(readeck[b])}

-----------------------------------------------------------------------------
(* What kobodeck reads from Nickel, and its requests to Readeck.  A request *)
(* takes effect at the server at one instant; its answer may be lost.        *)

\* Mutant: the path is used as it is written.
outputDirAsWritten == cfg.path
outputDir == IF cfg.path = "slash" THEN "nickel" ELSE cfg.path

\* The ContentID that kobodeck computes for a book is the one Nickel has for it.
nickelContentIDMatches == outputDir = "nickel"

\* The row of b that the query finds.
foundRow(b) == IF nickelContentIDMatches THEN nickel[b].row ELSE "none"

\* Mutant: an unknown status is passed on as it is.
nickelReadStatusPassesOn(row) == IF row = "none" THEN "unread" ELSE row

nickelReadStatus(row) == CASE row = "none"  -> "unread"
                           [] row = "other" -> "reading"
                           [] OTHER         -> row

isInCollection(b) == IF nickelContentIDMatches /\ nickel[b].shelf THEN "in" ELSE "out"

Fault == faults < MaxFaults /\ faults' = faults + 1

getBookmarkFails(b) == \/ ~readeck[b].exists /\ UNCHANGED faults
                       \/ Fault

\* PATCH, after which the server's bookmark is m.
patchBookmark(b, m) ==
  /\ readeck[b].exists
  /\ readeck' = [readeck EXCEPT ![b] = m]
  /\ UNCHANGED faults

patchBookmarkFails(b, m) ==
  \/ ~readeck[b].exists /\ UNCHANGED <<readeck, faults>>
  \/ Fault /\ UNCHANGED readeck
  \/ Fault /\ readeck[b].exists /\ readeck' = [readeck EXCEPT ![b] = m]

-----------------------------------------------------------------------------
(* The users.                                                               *)

Edit == edits < MaxEdits /\ edits' = edits + 1 /\ UNCHANGED <<cfg, faults>>

\* Opening, finishing, closing or resetting a book on the Kobo.
KoboReads(b) ==
  /\ Edit /\ b \in disk
  /\ \E row \in Row \ {"none", nickel[b].row} :
       nickel' = [nickel EXCEPT ![b].row = row]
  /\ UNCHANGED <<disk, readeck>>

KoboShelves(b) ==
  /\ Edit /\ b \in disk /\ nickel[b].row # "none"
  /\ nickel' = [nickel EXCEPT ![b].shelf = ~@]
  /\ UNCHANGED <<disk, readeck>>

KoboDeletes(b) ==
  /\ Edit /\ b \in disk
  /\ disk' = disk \ {b}
  /\ nickel' = [nickel EXCEPT ![b] = [row |-> "none", shelf |-> FALSE]]
  /\ UNCHANGED readeck

\* Archiving, marking, reading or deleting the article in Readeck.
ReadeckEdits(b) ==
  /\ Edit /\ readeck[b].exists
  /\ \E m \in {Gone} \cup {n \in Bookmark : n.exists} :
       m # readeck[b] /\ readeck' = [readeck EXCEPT ![b] = m]
  /\ UNCHANGED <<disk, nickel>>

ReadeckSaves(b) ==
  /\ Edit /\ ~readeck[b].exists /\ b \notin disk
  /\ readeck' = [readeck EXCEPT ![b] = Fresh]
  /\ UNCHANGED <<disk, nickel>>

\* Nobody reads a file without a stem.
UserStep == \E b \in Books \ Unnamed : \/ KoboReads(b) \/ KoboShelves(b) \/ KoboDeletes(b)
                                       \/ ReadeckEdits(b) \/ ReadeckSaves(b)
=============================================================================
