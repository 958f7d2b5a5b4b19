----------------------------- MODULE ListBookmarks -----------------------------
(***************************************************************************)
(* listBookmarks (readeck.go) with the retries around it and the selection by *)
(* label that follows (sync.go, check.go): the feed is fetched page by page,   *)
(* by offset, while the users of Readeck add bookmarks to it, take some out of  *)
(* it and change their labels.                                                  *)
(***************************************************************************)
EXTENDS Integers, SequencesExt

CONSTANTS
  Ids,         \* bookmarks
  Tagged,      \* those that have a label of Fetch.Labels at first
  BatchSize,   \* entries of a page (100 in the code)
  Limits,      \* values of Fetch.Limit explored; 0 is no limit
  MaxAttempts, \* attempts of a run (5 in the code)
  MaxEdits     \* bound: changes to the feed during a run

ASSUME ListBookmarksAssumption ==
  /\ IsFiniteSet(Ids) /\ BatchSize \in Nat \ {0} /\ MaxAttempts \in Nat \ {0}
  /\ Limits \subseteq Nat /\ MaxEdits \in Nat

\* tagged: the bookmark has a label of Fetch.Labels.
Entry == [id : Ids, tagged : BOOLEAN]

VARIABLES
  feed,     \* the entries that match the query, in the server's order
  limit,    \* Fetch.Limit
  filter,   \* Fetch.Labels is not empty
  check,    \* kobodeck was started with --check
  pc,       \* "request", "select", "done" or "failed"
  attempt,  \* the number of this attempt
  offset,
  all,      \* the entries received
  chosen,   \* those of all, by position, that were scheduled or that --check printed
  capacity, \* of the channel that takes the failures of the downloads
  edits,    \* changes to the feed so far
  \* History of this attempt: the feed at its start, the bookmarks that have been in
  \* the feed and selected by the filter all along, and how many changes of each kind
  \* were made.
  first, stayed, changes

options == <<limit, filter, check>>
server  == <<feed, edits>>
history == <<first, stayed, changes>>
vars    == <<options, server, pc, attempt, offset, all, chosen, capacity, history>>

ids(entries) == [i \in DOMAIN entries |-> entries[i].id]

\* Mutant: without Fetch.Labels no entry matches.
matchesLabelFilterAlways(entry) == entry.tagged
matchesLabelFilter(entry) == filter => entry.tagged

selected(entries) == {e.id : e \in {d \in ToSet(entries) : filter => d.tagged}}

Unchanged == [added |-> 0, removed |-> 0, relabelled |-> 0]

Watch == first' = feed /\ stayed' = selected(feed) /\ changes' = Unchanged

Init ==
  /\ \E p \in SetToAllKPermutations(Ids) :
       feed = [i \in DOMAIN p |-> [id |-> p[i], tagged |-> p[i] \in Tagged]]
  /\ limit \in Limits /\ filter \in BOOLEAN /\ check \in BOOLEAN
  /\ pc = "request" /\ attempt = 1 /\ offset = 0 /\ all = <<>> /\ edits = 0
  /\ chosen = {} /\ capacity = 0
  /\ first = feed /\ stayed = selected(feed) /\ changes = Unchanged

-----------------------------------------------------------------------------
\* The first n entries, or all if there are fewer.
upTo(n, entries) == SubSeq(entries, 1, IF n < Len(entries) THEN n ELSE Len(entries))

\* The page the server answers with; the feed may have become shorter than offset.
page == SubSeq(upTo(offset + BatchSize, feed), offset + 1, Len(upTo(offset + BatchSize, feed)))

\* Mutant: a full page is taken for the last.
lastPageIfFull(entries) == Len(entries) <= BatchSize
lastPage(entries) == Len(entries) < BatchSize

limitReached(entries) == limit > 0 /\ Len(entries) >= limit

truncated(entries) == IF limit > 0 THEN upTo(limit, entries) ELSE entries

\* One page is asked for, received and appended.
Request ==
  /\ pc = "request"
  /\ LET entries == all \o page
     IN IF lastPage(page) \/ limitReached(entries)
        THEN all' = truncated(entries) /\ pc' = "select" /\ UNCHANGED offset
        ELSE all' = entries /\ offset' = offset + BatchSize /\ UNCHANGED pc
  /\ UNCHANGED <<options, server, attempt, chosen, capacity, history>>

\* Mutants: what was received before the failure is kept; failures are not counted.
receivedKept == all
received == <<>>
nextAttemptSame == attempt
nextAttempt == attempt + 1

\* --check makes one attempt only.
attempts == IF check THEN 1 ELSE MaxAttempts

\* A request fails and with it the listing; sync begins another, or gives up.
RequestFails ==
  /\ pc = "request"
  /\ \/ /\ attempt < attempts /\ attempt' = nextAttempt
        /\ offset' = 0 /\ all' = received /\ Watch /\ UNCHANGED pc
     \/ /\ attempt = attempts /\ pc' = "failed" /\ all' = <<>>
        /\ UNCHANGED <<attempt, offset, history>>
  /\ UNCHANGED <<options, server, chosen, capacity>>

\* The positions of the entries that match.
filterBookmarksByLabel(entries) == {i \in DOMAIN entries : matchesLabelFilter(entries[i])}

\* Mutant: room for the failures of the entries that match.
maxDownloadsMatched == Cardinality(filterBookmarksByLabel(all))
maxDownloads == Len(all)

\* sync schedules every entry with the ID of one that matches.  A bookmark may be
\* listed twice, and its labels have changed in between.
Dispatch ==
  /\ pc = "select" /\ ~check /\ pc' = "done"
  /\ LET keepLocal == {all[i].id : i \in filterBookmarksByLabel(all)}
     IN chosen' = {i \in DOMAIN all : all[i].id \in keepLocal}
  /\ capacity' = maxDownloads
  /\ UNCHANGED <<options, server, attempt, offset, all, history>>

\* runCheck prints the entries that match.
PrintSummary ==
  /\ pc = "select" /\ check /\ pc' = "done"
  /\ chosen' = filterBookmarksByLabel(all)
  /\ UNCHANGED <<options, server, attempt, offset, all, capacity, history>>

Edit(kind) ==
  /\ pc = "request" /\ edits < MaxEdits /\ edits' = edits + 1
  /\ changes' = [changes EXCEPT ![kind] = @ + 1]
  /\ stayed' = stayed \cap selected(feed')
  /\ UNCHANGED <<options, pc, attempt, offset, all, chosen, capacity, first>>

\* A new bookmark comes first; one that was taken out of the archive may reappear
\* anywhere.
Enters == \E e \in Entry, i \in 1 .. Len(feed) + 1 :
  e.id \notin ToSet(ids(feed)) /\ feed' = InsertAt(feed, i, e) /\ Edit("added")

\* A bookmark is deleted or archived, or no longer has a status asked for.
Leaves == \E i \in DOMAIN feed : feed' = RemoveAt(feed, i) /\ Edit("removed")

Relabels == \E i \in DOMAIN feed :
  filter /\ feed' = [feed EXCEPT ![i].tagged = ~@] /\ Edit("relabelled")

Program == Request \/ RequestFails \/ Dispatch \/ PrintSummary

Next == Program \/ Enters \/ Leaves \/ Relabels

\* The listing runs on.
Spec == Init /\ [][Next]_vars /\ WF_vars(Program)

-----------------------------------------------------------------------------
\* Every variable keeps its type, and until the listing ends each page was full; only
\* so many bookmarks as have left may the listing be ahead of the feed.
TypeOK ==
  /\ feed \in Seq(Entry) /\ all \in Seq(Entry) /\ first \in Seq(Entry) /\ chosen \subseteq DOMAIN all
  /\ limit \in Limits /\ filter \in BOOLEAN /\ check \in BOOLEAN
  /\ pc \in {"request", "select", "done", "failed"} /\ capacity \in Nat
  /\ attempt \in 1 .. MaxAttempts /\ offset \in 0 .. Len(feed) + changes.removed /\ edits \in 0 .. MaxEdits
  /\ stayed \subseteq Ids /\ changes \in [added : Nat, removed : Nat, relabelled : Nat]
  /\ pc = "request" => Len(all) = offset

\* With nobody changing the feed, what a sync downloads is what --check prints: the
\* labelled ones of the feed, or of its first Fetch.Limit entries, after any number of
\* failed attempts and whatever the sizes of feed and page (readeck.go:159-225,
\* sync.go:71-104, check.go:26-33).
QuietSelectionExact == pc = "done" /\ changes = Unchanged =>
  /\ all = IF limit = 0 THEN first ELSE upTo(limit, first)
  /\ chosen = {i \in DOMAIN all : filter => all[i].tagged}

\* Bookmarks that enter the feed between two pages push others back, which are then
\* listed twice, never skipped; each that leaves makes the next page skip one at most.
\* So no more local files of books that are in the labelled feed all along are taken
\* for stale than bookmarks have left it, none if none has, also when labels of others
\* change meanwhile (readeck.go:183-218, sync.go:84-90, local_books.go:74).
EnteringNeverHides == pc = "done" /\ limit = 0 =>
  Cardinality(stayed \ {all[i].id : i \in chosen}) <= changes.removed

\* Bookmarks that leave the feed never make another appear twice; each that enters it
\* repeats one at most, another or itself if it was there before.  So many books at most
\* are downloaded by two workers at once (readeck.go:213, sync.go:97-104).
LeavingNeverRepeats == pc = "done" =>
  Len(all) <= Cardinality({all[i].id : i \in DOMAIN all}) + changes.added

\* finish empties the channel of failures only when all workers are done, so it must
\* take one of every download; more entries are scheduled than match when a bookmark
\* listed twice has lost its label in between (sync.go:92-104, 36-47).
FailuresFit == pc = "done" /\ ~check => Cardinality(chosen) <= capacity

\* Why these hold.  The server lists no bookmark twice, and knows all that stayed.
FeedInv ==
  /\ \A i, j \in DOMAIN feed : feed[i].id = feed[j].id => i = j
  /\ stayed \subseteq selected(feed)

\* An undisturbed listing has received a prefix of the feed, and ends with all of it
\* or Fetch.Limit entries.
QuietInv == changes = Unchanged =>
  /\ feed = first
  /\ \A i \in DOMAIN all : i \in DOMAIN feed /\ all[i] = feed[i]
  /\ pc \in {"select", "done"} =>
       Len(all) = IF limit > 0 /\ limit < Len(feed) THEN limit ELSE Len(feed)

\* The bookmarks on the pages still to come, those received, those selected all along
\* that are neither, and the places in the list that repeat one.
ahead == IF pc = "request" THEN {feed[i].id : i \in {j \in DOMAIN feed : j > offset}} ELSE {}
seen == {all[i].id : i \in DOMAIN all}
hidden == stayed \ (ahead \cup {all[i].id : i \in filterBookmarksByLabel(all)})
repeated == {i \in DOMAIN all : \E j \in DOMAIN all : j < i /\ all[j].id = all[i].id}

\* What enters pushes the rest towards the pages still to come, what leaves draws one
\* over to those received.
EnteringInv == limit = 0 /\ pc # "failed" => Cardinality(hidden) <= changes.removed

\* What leaves draws the rest towards the pages received, what enters pushes one over
\* to those still to come, where it will be a repetition.
LeavingInv == Cardinality(repeated) + Cardinality(seen \cap ahead) <= changes.added

\* The choice comes last, and leaves out no entry that matches.
ChosenInv ==
  /\ pc # "done" => chosen = {}
  /\ pc = "done" => filterBookmarksByLabel(all) \subseteq chosen
  /\ pc = "done" /\ ~check => capacity = Len(all)
  /\ pc = "done" /\ changes = Unchanged => chosen = filterBookmarksByLabel(all)

\* The inductive invariant: each step of the listing, a failed request or a change of
\* the feed keeps all of it.
IInv == TypeOK /\ FeedInv /\ QuietInv /\ EnteringInv /\ LeavingInv /\ ChosenInv

\* The listing ends, with the entries or with an error (sync.go:72-80).
Terminates == <>(pc \in {"done", "failed"})

\* "Number of articles to fetch (0 = all)" (kobodeck.toml:11): a bookmark that was in
\* the feed all along is listed.  It is NOT so: one that leaves between two pages
\* makes the next page skip another.
AllAreListed == pc = "done" /\ limit = 0 => stayed \subseteq {all[i].id : i \in chosen}
=============================================================================
