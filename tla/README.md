# Verification of kobodeck

TLA+ models of [kobodeck](../src/README.md), the TLC configurations that check
them, and TLAPS proofs about them. kobodeck runs on a Kobo e-reader: whenever a
network interface comes up, udev starts it, it downloads the articles of a
Readeck server as KEPUB files, tells Readeck what has been read on the device,
removes files that are no longer wanted and makes the reader's firmware, Nickel,
rescan its library. What can go wrong in it is seldom in one function: it is in
the order of requests, failures, losses of power and the actions of two users
(the one with the reader in hand, and the one in Readeck's web interface), and in
what one run leaves to the next.

- [Inventory](#inventory)
- [Modules](#modules)
- [Runs](#runs)
- [Fairness](#fairness)
- [Where code and documents disagree](#where-code-and-documents-disagree)
- [Theorems](#theorems)
- [What is not modelled](#what-is-not-modelled)
- [Plan](#plan)

## Inventory

| Part | Source | State it keeps | Operations |
|---|---|---|---|
| Local book pass | `local_books.go` | per pass: files still to visit, the feed as listed, error and change flags; per book: status, collection, bookmark, archived, error | `syncLocalBooks`, `updateReadeckFromKobo`, `removeStaleLocalBook` |
| Run of a sync | `sync.go`, `device.go` | attempt, listing, change and error flags | `app.sync`, `nickelRescan` |
| Download pool | `sync.go` | goroutines, worker slots, atomic flag, channel of failures | `newDownloadRun`, `schedule`, `finish` |
| Book installation | `readeck.go`, `kepub_processing.go`, `cleanup.go` | the file under its final name and its time, a temporary EPUB, its copy with a cover and a temporary KEPUB | `downloadBookmarkFile`, `toKepub`, `validateEPUB`, `syncDirectory`, the deferred removals |
| Readeck client | `readeck.go` | none of its own; the server's bookmarks | `listBookmarks`, `filterBookmarksByLabel`, `getBookmark`, `patchBookmark` |
| Nickel database | `nickeldb.go` | none of its own; Nickel's rows and collections, read only | `nickelContentID`, `nickelReadStatus`, `isInCollection` |
| Instances | `main.go`, `device.go` | the flock, the installed files | `acquireLock`, `main`, `uninstallApplication` |
| Run logs | `logging.go` | one log per process beside its configuration | `setupLogging`, `removeOldLogs` |
| Cover and OPF rewriting | `kepub_processing.go` | a temporary copy of the download | `fixCover` |
| Configuration | `config.go` | the options | `loadConfig`, `validate` |
| Check mode | `check.go` | none | `runCheck` |

How they interact. `main` creates the log, takes the lock, loads the
configuration, prunes old logs and calls `app.sync`. That lists the feed, with
retries; gives every matching entry to the download pool, whose workers install
files; and then, alone, goes over the files: for each it asks Nickel for status
and collection, asks and tells Readeck, and removes the file or keeps it. If any
file changed it writes two events to Nickel's status file. There is no state of
kobodeck's own on disk: the next run starts from the files, from Nickel's
database and from Readeck.

What is hard in it, and what makes each part correct:

- *Local book pass.* The status of a book is read before up to four requests to
  Readeck, and used after them; the bookmark was listed before the downloads;
  each request may fail, or succeed with its answer lost. A book in use must
  survive, a book must not go before Readeck knows what the Kobo knows of it, and
  nothing may be written to Readeck that the Kobo does not say.
- *Run.* A failed listing must not look like an empty feed. Failures of some
  books must not keep the changes to others from being announced. From whatever
  state failures, crashes and users leave, later runs must converge, and stop
  changing things.
- *Download pool.* The channel is read only after all workers have returned, and
  closed while they report. The result must name every failure and every change.
- *Book installation.* Power may go at any step; two workers may install the same
  book; the server may answer with something that is no EPUB. No reader may ever
  see a torn file, and no good file may be lost. Of the calls of a download some must
  fail it and some may not (cover, directory sync, time, clean-up); and whichever
  return it takes, the temporary files that three functions made must go.
- *Readeck client.* Pages are asked for by offset while the feed moves and labels
  change; a bookmark may be listed twice, with its label and without.
- *Nickel database.* A book is found by a URI built from `Output.Path` as it is
  spelt; a row that is not found reads as an unread book.
- *Instances and logs.* Two interfaces come up together. Processes die anywhere.
  Logs appear while others are being removed, their names order by configuration
  name and clock, and the clock is set when the network comes up. A missing default
  configuration uninstalls the program, an unacceptable one must not.

`PROJECT.json` lists the hazards one by one, each at its line and with the
properties that watch it.

## Modules

```
Environment <- LocalBooks <- PassHistory <- LocalPass
                          <- Sync <- Runs   (with PassHistory)
KepubInstall  => BookFiles   (what Sync's Download stands for)
DownloadRun   => Downloads   (how the downloads are scheduled; what Sync takes them for)
ListBookmarks                (what Sync assumes of its pages, and --check)
Instances                    (Sync is one of its steps)
MC*: one per module that is checked

PassHistory  <- LocalBooksProofs: the steps that LocalPass and Runs share
LocalPass    <- LocalPassProofs   (with LocalBooksProofs)
Runs         <- SyncProofs        (with LocalBooksProofs)
KepubInstall <- KepubInstallProofs
DownloadRun  <- DownloadRunProofs
ListBookmarks <- ListBookmarksProofs
Instances    <- InstancesProofs <- RetentionProofs
```

`<-` points from a module to one that extends it, `=>` from a module to the abstract
specification it implements. Every definition that
translates code is in the `map` of `PROJECT.json` with the lines it translates.
Definitions marked "Mutant" are plausible mistakes, used only to see that the
properties notice them.

**Environment** is what kobodeck works between: `disk`, the books whose file is in
`Output.Path`; `nickel`, the row and collection of each book; `readeck`, each
bookmark with the four facts that matter (exists, archived, favourite, read
progress 100); `cfg`, the options that steer the sync. A request takes effect at
the server at one instant. `patchBookmarkFails` has its three outcomes: refused
for a bookmark that is gone, lost on the way, or applied with the answer lost.
`UserStep` is what the two users may do at any moment. `MaxFaults` and `MaxEdits`
bound the failures and the user changes. `cfg.limited` says that `Fetch.Limit` is set.
`cfg.path` is how `Output.Path` is spelt:
as Nickel spells the directory, with a slash at the end (which `outputDir` takes
off), otherwise (no row of Nickel matches, `nickelContentIDMatches`), or with
brackets, which the pattern of the listing takes for a class of characters that
matches no file, or cannot parse. `validate` accepts all five. `WellSpelt` names the
first two, for which the documents' promises are meant.

**LocalBooks** is `syncLocalBooks`, one action for each call that leaves the
process, so that users and failures come between any two of them:

| Action | Code |
|---|---|
| `ListLocalBooks` | the glob; with a malformed pattern the pass ends with an error, with a class of characters it finds nothing |
| `SkipUnnamed` | a file called just `.kepub.epub` |
| `ReadStatus` | `nickelReadStatus`; unreadable gives the zero value and an error |
| `CheckCollection` | `isInCollection`, if a collection is configured |
| `GetFinished`, `PatchFinished` | the block for a finished book, each request skipped when not needed |
| `GetFavourite`, `PatchFavourite` | the block for the favourite flag |
| `Settle` | the error check and `removeStaleLocalBook` |
| `Finish` | the end of the loop |

`call` holds the locals of `updateReadeckFromKobo`. The order of the glob is
abstracted to any order.

**PassHistory** watches a pass with history variables: `open`, the books that have been
in use since the feed was listed; `steady`, the books the reader's user has not touched
since; `seen`, the states each bookmark has had since. It states what a step of the pass
may not do (`KeepsOpenBooks`, `ReportsBeforeRemoving`, `RemovesOnlyStale`,
`TellsWhatKoboSays`) and the invariant behind that.

**LocalPass** is one such pass on its own. Its initial states have any part of the
feed listed, because `Fetch.Limit` and paging may hide some.

**Sync** composes the pass into runs that follow one another: listing page by page with
retries, downloads, pass, rescan, exit, and `Crash` anywhere. `ListPage` receives any
part of the feed as it is at that moment, and users act between the pages. The listing
may end (`ListBookmarks`) when it has all of `due`: what was in the feed when the attempt
began, if no limit is set, and nothing as soon as a bookmark leaves the feed. That is
what the module ListBookmarks shows of the offsets: without a limit and without a bookmark
that leaves, nothing is skipped, whatever is added (`EnteringNeverHides`); with one of
them, any other may be. A run's memory is
forgotten at its end (`Forget`); `library` is what Nickel shows as of its last
scan. `dirty` (changed and not yet announced) and `wanted` (labelled, listed,
and not archived since) are history. `RescanRemove` has the dialog that "usb plug add"
brings up: a user who cancels it keeps Nickel from scanning, and has been told.

**Runs** is Sync with the history of PassHistory. The states of a bookmark are collected
from the beginning of each attempt to list, since the pages are of different times; the
rest begins at the end of the listing. All of it goes through the downloads and is
forgotten after the pass. `EveryPass` says that
what LocalPass promises of one pass in any environment holds of each pass of each run,
and that kobodeck removes files and writes to Readeck nowhere else.

**DownloadRun** has the main goroutine and one goroutine per entry: `Schedule`
blocks on a free slot as `errgroup.Group.Go` does, `Download`, `Store` and `Send`
are the three steps of a worker, `WaitAndClose` and `Drain` those of `finish`.

**Downloads** is what a caller of the pool sees, without goroutines, slots, flag and
channel: the bookmarks to fetch are attempted, one at a time and in any order, and at
the end the answer names exactly what has changed and failed, or there was nothing to
say. That is how Sync takes its downloads. `DownloadRun!OneByOne` is the instance with
the refinement mapping (a bookmark is pending until its call of `downloadBookmarkFile`
has returned), and `ImplementsDownloads` says that DownloadRun implements it.

**KepubInstall** has the steps of a download on the file system, one action each:

| Action | Code |
|---|---|
| `Check` | the existing file is validated and taken as downloaded, or, if it is invalid or cannot be read, the temporary EPUB is made |
| `Fetch` | the request and the copy of its body; the server may answer with something else |
| `FixCover` | `fixCover`: a cover for an article that has an image, by way of a temporary file; a failure leaves the EPUB as it was |
| `Convert` | `toKepub` up to the validation of the temporary KEPUB |
| `Rename` | the KEPUB under its final name |
| `SyncDirectory` | the sync of the directory, whose failure is logged only, and the removal of the EPUB |
| `SetTime` | the time of the article, whose failure is logged only |

Each function removes what it has made: `fixCoverDefers`, `toKepubDefers` and
`downloadDefers` are what each defers the removal of, `Remove` is `removeWithWarning`, any
of whose removals may fail in a step with a fault, and a step that ends a function, or
several, applies those of these functions and no others.


`file` is what a path shows, `stable` what it may show after a loss of power: a rename
is in the directory at once and on the medium only when the directory is synced.
`Crash` is a kill (nothing changes) or a loss of power (each file becomes one of its
`stable` contents); both leave the temporary files. That a rename cut by a loss of power
shows the old name or the new, and nothing else, is an assumption about the medium; vfat,
which the readers use, does not strictly guarantee it. `temps` are the temporary files of
each download; `installs`, `dated`, `hurt` and `stuck` (those whose last removal failed)
are history of the run.

**BookFiles** is what installation promises, without its steps: at any time a reader
finds no file, a torn one that was there before kobodeck came, or a whole one; the only
step of a book is its replacement by a whole one; and a loss of power brings back one of
the contents since the last flush. `KepubInstall!Atomic` is the instance with the
refinement mapping (`plain` and `covered` are "whole", `invalid` is "torn"), and
`InstallsAtomically` says that KepubInstall implements it.

**ListBookmarks** asks for page after page of a feed that users add to and remove
from between the requests, and whose labels they change, with the limit, the
truncation and the retries. The changes of an attempt are counted by kind (bookmarks
that came, that left, that got another label), since the properties say how much each
kind may spoil. `Dispatch` is the label filter of `sync`, which schedules
every entry whose ID has an entry that matches, and the capacity of the channel for
the failures; `PrintSummary` is that of `runCheck`.

**Instances** has processes with the steps of `main`: `Start` creates the log,
`AcquireLock` takes the flock or exits, `LoadConfig` decides between the sync, the
uninstallation (`UninstallFile`, twice) and an error, `ReadLogDir` and `RemoveLog`
prune. A configuration file is absent, rejected by `loadConfig` or `validate`, or
accepted, and a user changes that at any time (`EditConfig`); `missed` records that
the default one has been away. A log name is configuration stem, time and PID;
`Extends` says which stems begin with which. `Exit` stands for a return, for
`log.Fatal` and for the death of the process: the kernel closes the lock file in all
of them.

## Runs

| Run | Configuration | Properties | Bounds |
|---|---|---|---|
| local_pass | MCLocalPass.cfg | `IInv`, `QuietPassConverges`, `OpenBooksSurvive`, `ReportedBeforeRemoval`, `OnlyStaleBooksGo`, `ReadeckFollowsKobo` | one book in every initial state and a file without a stem, all options with Nickel's path and one set of them with each other spelling, 2 failures, 1 user change |
| reading_race | MCLocalPassRace.cfg | `NeverRemovesOpenBook` (violated) | no failure, 1 user change; stated of a path as Nickel has it |
| stale_gone | MCLocalPassStale.cfg | `StaleBooksRemoved` (violated) | no failure, no user change |
| misspelt_path | MCLocalPassSpelling.cfg | `AnyPathFindsTheBook` (violated) | no failure, no user change |
| sync_safety | MCSync.cfg | `IInv`, `FeedBooksSurvive`, `ExitAnnounces` | two books, one outside the label filter, listed in any number of pages, no limit, 2 attempts, 2 failures, 1 crash, 1 user change |
| every_run | MCRuns.cfg | `WatchedInv`, `EveryPass`, `EventuallyReported`, `EventuallyMirrored`, `EventuallyQuiet` | one book, unread bookmarks with every set of the other options and Nickel's path, and with these options on the whole feed, a limit and each other spelling of the path; all bookmarks at first (no favourite or collection at first when none is configured), 2 attempts, one of each disturbance |
| lost_rescan | MCSyncLostRescan.cfg | `SuccessMeansVisible` (violated) | 1 failure |
| download_run | MCDownloadRun.cfg | `IInv`, `SendNeverBlocks`, `NoSendAfterClose`, `ImplementsDownloads`, `Terminates` | 4 entries, any of them matched, 2 workers |
| kepub_install | MCKepubInstall.cfg | `IInv`, `NeverTornBook`, `InstallsAreReported`, `OnlyHurtDownloadsFail`, `NothingLeftBehind`, `InstallsAreFinished`, `GoodStays`, `InstallsAtomically`, `EventuallyGood` | 3 downloads, 2 of one book, which has an image, 2 failures, 2 crashes |
| list_bookmarks | MCListBookmarks.cfg | `IInv`, `QuietSelectionExact`, `EnteringNeverHides`, `LeavingNeverRepeats`, `FailuresFit`, `Terminates` | up to 4 bookmarks, 2 labelled at first, pages of 2, limits 0 to 3, 2 attempts, 2 changes |
| moving_feed | MCListBookmarksMoving.cfg | `AllAreListed` (violated) | as above, no limit, 1 attempt, 1 change |
| instances | MCInstances.cfg | `IInv`, `NoDanglingRule`, `OnlyMissingUninstalls`, `RetentionBounded`, `NewestLogsStay`, `LockComesFree` | 3 processes in 2 slots, 2 configurations with unrelated names, edited at will, 1 log retained, a failure, a kill, one setting of the clock back to the start |

What the properties say is stated at each of them. Why the bounds are enough:

- Within a pass books share nothing but the two flags: `updateReadeckFromKobo` and
  `removeStaleLocalBook` read and write one book. One book in all its states, with
  the file that is skipped beside it, meets every path; two failures and a change
  allow a failed request after a successful one with a user in between. The
  theorems lift the safety properties to any number of books and failures.
- In `sync_safety` books do interact (one listing, one pair of flags, one rescan),
  so there are two, one that the labels exclude. Two attempts give a listing that
  fails and recovers and one that gives up; the code's five add only repetition. A change
  between the pages may hide a book, as a limit does, which `every_run` has; the theorems
  have both, with any number of books.
- Liveness asks what happens after the last disturbance, so one of each, in any
  order and at any point, leaves every kind of state to recover from.
- Four entries over two workers make the scheduling loop block with work left, and
  make failures outnumber workers.
- A step with a fault may have several of its calls fail, and any of its removals.
  Two downloads of one book and one of another give the race of duplicates and the
  directory sync that covers another download's rename. Two failures fail both
  duplicates, or a step and another after it; two crashes give a loss of power after a
  repeated download. The theorems have any number of each.
- Four bookmarks in pages of two give an empty feed, a short last page, a last page
  that is full, and two pages and an empty one with changes between any of them;
  limits from 0 to 3 lie below, at and above the end of a page.
- Three logs with one retained give a pruning of several names, with a log created
  by another process between listing and removal.

Deadlock is checked in Sync, Runs, KepubInstall and Instances. LocalPass, DownloadRun and
ListBookmarks describe one pass, one pool and one listing, which end.

## Fairness

- *Sync*, *Runs*: `WF_vars(Program)`. kobodeck is one sequential process there, so it takes
  its next step as long as it runs; and `StartRun` is among the steps, which
  assumes that the device connects to a network again and again. kobodeck cannot
  promise more: nothing but udev starts it. Every HTTP request has a timeout
  (`Server.Timeout`), so a call ends or fails.
- *DownloadRun*: weak fairness of the main goroutine and of each worker, the Go
  scheduler's.
- *KepubInstall*: weak fairness of each download and of the next run.
- *ListBookmarks*, *Instances*: weak fairness of the listing, and of each process,
  which the kernel schedules. Starting a process, killing one, users and the clock
  have no fairness.

Failures and crashes are bounded, so liveness says what happens once they end. It
is not assumed that any particular call succeeds before.

## Where code and documents disagree

Each is a run whose property states what the document says, and which TLC finds
violated.

1. *reading_race.* `removeStaleLocalBook` is documented never to delete a book that
   is being read (`local_books.go:181`). The status was read before the requests to
   Readeck, which may take up to five minutes each; a book opened meanwhile is
   deleted (in the trace: a book that is not listed is read as unopened; before the last of the
   requests for it the user opens it; it is removed). What does hold is `OpenBooksSurvive`: a book that was in use when the
   pass began, and stayed so, is never removed, whatever fails.
2. *stale_gone.* `README.md:98` says that files absent from the feed are deleted. A
   finished book whose bookmark was deleted in Readeck answers 404 on every run,
   which is an error of the book, and the file stays for ever.
3. *lost_rescan.* The rescan "is what makes the newly-downloaded book appear"
   (`sync_test.go:61`). If it fails, or the run dies before it, the next run finds
   the file in place, changes nothing, does not rescan and succeeds; the book stays
   invisible until some other file changes.
4. *moving_feed.* `Limit = 0` fetches all (`kobodeck.toml:11`). A bookmark that
   leaves the feed between two pages shifts the others, the next page skips one,
   and with `Output.Delete` its file is removed as absent. It takes more than 100
   bookmarks. `FeedBooksSurvive` is therefore stated of what a run has listed. Each bookmark that leaves hides one other at most, and those that enter
   hide none (`EnteringNeverHides`, proved for any feed).
5. *misspelt_path.* `nickelContentID` is documented to return the URI Nickel uses
   (`nickeldb.go:104`), and `removeStaleLocalBook` never to delete a book being read
   (`local_books.go:181`). The URI is made from `Output.Path` as it is spelt, but for one
   trailing slash; with `//` or `/./` in it, which `validate` accepts, no row matches,
   every book reads as unread, nothing read is ever reported and an open book can be
   deleted.

A sixth has no run of its own. Pruning is said to keep the most recent logs
(`README.md:88`); logs are matched by prefix and ordered by name, so those of a
`kobodeck-dev.toml` count as logs of `kobodeck.toml` and sort after them, and a run may
remove its own log. `NewestLogsStay` is therefore stated, checked and proved for names
that do not extend one another. `RetentionBounded` holds for any names.

## Theorems

All hold for every value of the constants: any number of books, entries, downloads,
processes and configurations, any page size, any bound on failures, crashes and
changes. They rest on the named assumptions on the constants alone, which TLC
evaluates in the runs. Two are refinements of abstract specifications, four say that
something runs out or that someone can move; the others are invariants and action
properties, from one inductive invariant per module.

| Module | Theorem | Property |
|---|---|---|
| LocalPassProofs | `TypeCorrect`, `InvCorrect` | `TypeOK`, `IInv` |
| | `OpenBooksSurviveHolds` | a book in use all along is not removed |
| | `ReportedBeforeRemovalHolds` | a book goes only after Readeck has held what the Kobo says |
| | `OnlyStaleBooksGoHolds` | a book of the feed goes only after it was archived |
| | `ReadeckFollowsKoboHolds` | every write to Readeck is justified by the Kobo |
| | `QuietPassConvergesHolds` | a pass that nothing disturbs leaves both sides in agreement |
| SyncProofs | `InvCorrect`, `FeedBooksSurviveHolds`, `ExitAnnouncesHolds`, `RescanOnlyOnChangeHolds` | runs after runs |
| | `WatchedInvCorrect`, `EveryPassHolds` | what LocalPass promises holds in every run |
| DownloadRunProofs | `InvCorrect`, `BoundedWorkersHolds`, `SendNeverBlocksHolds`, `NoSendAfterCloseHolds`, `ResultCompleteHolds` | the pool |
| | `ImplementsDownloadsHolds` | DownloadRun implements Downloads |
| | `WorkRunsOutHolds` | every step uses up some of 5N + 3 units of work |
| | `NobodyStuckHolds` | until the result is there, a goroutine can take a step |
| KepubInstallProofs | `InvCorrect`, `NeverTornBookHolds`, `GoodStaysHolds`, `InstallsAreReportedHolds`, `OnlyHurtDownloadsFailHolds`, `NothingLeftBehindHolds`, `InstallsAreFinishedHolds` | installation |
| | `InstallsAtomicallyHolds` | KepubInstall implements BookFiles |
| ListBookmarksProofs | `InvCorrect`, `QuietSelectionExactHolds` | an undisturbed feed is received exactly, and its labelled part selected |
| | `EnteringNeverHidesHolds` | as many are missed as have left, at most |
| | `LeavingNeverRepeatsHolds` | as many are listed twice as have entered, at most |
| | `FailuresFitHolds` | the channel holds every failure |
| | `OffsetBoundedHolds`, `ListingAdvancesHolds` | an attempt asks for no more than there are bookmarks, and every step of the program goes forward |
| InstancesProofs | `InvCorrect`, `ExclusiveHolds`, `NoDanglingRuleHolds`, `OnlyMissingUninstallsHolds` | lock and uninstallation |
| RetentionProofs | `RetentionBoundedHolds`, `NewestLogsStayHolds` | run logs |

`NewestLogsStayHolds` has the hypothesis `Unrelated`: no configuration's name extends
another's. `BoundedWorkers`, `Exclusive`, `RescanOnlyOnChange`, `ResultComplete`,
`WorkRunsOut`, `NobodyStuck`, `OffsetBounded` and `ListingAdvances` are proved only: the
first three are immediate from the invariants that the runs check, `ResultComplete` is
part of `ImplementsDownloads`, the others are steps towards `Terminates`.

Why the invariants are what they are:

- *LocalPass.* The properties speak of the step that removes a file, many steps
  after what justifies it. `IInv` carries the justification in terms of the locals:
  `StatusInv` (the status held is the row of a book nobody touched, and one in use
  was read as such), `UnreadableInv` (an unreadable status goes straight to the
  error), `ShelfInv`, `KnownInv` (what kobodeck holds of a bookmark has been its
  state), `ReportInv` (past a block without an error, Readeck has held what the
  block tells it). The history variables make "has been" expressible although
  Readeck's user may change everything back.
- *Quiet pass.* `QuietInv` says of a pass in which nothing has failed and nobody has
  interfered that the books visited are `Settled`, that what kobodeck holds of a
  bookmark is its present state, and what each block that is behind the call in progress
  has achieved for its book. A failure or a user's step ends its premise for good, so the
  proof has only to follow the steps of the pass.
- *Sync.* Some of the words are weaker than one might wish, because the code is:
  `ExitAnnounces` excepts the run whose rescan fails (lost_rescan shows what becomes of
  it), `EventuallyMirrored` and `EventuallyQuiet` speak of `Fetch.Limit = 0`, since with a
  limit the order of the server decides what is kept. `DirtyInv` ties the flag that calls for a rescan to the files changed and not
  yet announced, over all the paths on which a run goes on after failures. `WantedInv`
  says that nothing is kept before the listing is complete, that past the listing what must survive is in `keepLocal`, and that nothing
  kobodeck has seen or made of such a bookmark is archived: with that, none of the
  conditions of a removal can hold for it.
- *Runs.* `WatchedInv` is both invariants together, that of a pass from the first page on.
  The pass relies of its listing only on this, that each bookmark listed is a state it has
  had since the attempt began, which each page preserves, whatever an earlier run has
  left; the downloads leave what
  the invariant speaks of alone; and the steps of the pass and of the users are those of
  LocalPass, so that its lemmas (LocalBooksProofs) apply as they are.
- *DownloadRun.* `ScheduledInv` ties goroutines to entries, `ReportedInv` ties flag,
  channel and collected errors to the goroutines that stored and sent. That the
  channel is large enough follows by counting: what it holds is a set of entries
  that have returned, and the sender is not among them. For the refinement, `Download` maps to
  `Attempt`, the last step of `finish` to `Finish` and every other step to a stutter;
  that the answer is the abstract one is `ReportedInv` at the end. A goroutine has at
  most five steps and the main one three of its own; each step lowers `work`, and
  `NobodyStuck` rules out that they wait for one another, because a full pool has a
  worker that can return and the channel never fills. With a scheduler that is fair that
  gives `Terminates` for every N; only this last, temporal step is TLC's.
- *ListBookmarks.* All is said with positions. `FeedInv` says that no bookmark is in the
  feed twice, `QuietInv` that without a change the list is the beginning of the feed.
  `EnteringInv` counts the bookmarks that were there all along and are neither listed nor
  `ahead`, on the pages to come: an addition pushes one over the offset, which is listed,
  a removal draws one over it, which is lost. `LeavingInv` counts, together, the places
  of the list that are repeated and the listed bookmarks that are ahead, and so will be:
  an addition puts one more there, the next page moves them from the second set to
  the first. `ChosenInv` says that the choice leaves out no entry that matches.
- *KepubInstall.* `StableInv` says that the medium holds no torn file either,
  `JobInv` that only a validated file reaches the rename, and which temporary files a step
  leaves for later ones to remove (`owed`; lemma `StepOwed` goes through the returns of the
  three functions), `InstallInv` that every
  file replaced has a download that reports it or still will. With duplicates it is
  one of them, not each. `FinishInv` follows cover and time while no call has failed: a
  second rename undoes the time that the first has set, and its download will set it
  again. For the refinement, each step is shown to map to `Install`, `Flush`, `PowerLoss`
  or a stutter of BookFiles.
- *Instances.* `LockInv` says that the holder of the lock is exactly the process past
  `acquireLock`; `LogInv` that what is listed for removal is still there, which needs
  `LockInv` since only its holder removes; `UninstallInv` that the rule is gone when
  the binary's turn comes, unless a removal failed; `MissedInv` that whoever uninstalls
  has found the default configuration absent.
- *Retention.* The proofs count without induction. What a listing does not call surplus
  fits in `RetainedFiles` because each of these names has another number of names after
  it (`SurplusBound`, an injection into `0 .. RetainedFiles - 1`), which needs names to be
  unique (`LogsInv`). `LeftInv` carries that through the removals, while others create
  logs. `AfterInv` says, of the name that goes next, that enough names after it stay; it
  passes from one to the next because the last goes first. `ClockInv` turns the order of
  names into that of creation, until the clock is set.

Only model-checked: all liveness (`EventuallyReported`, `EventuallyMirrored`,
`EventuallyQuiet`, `EventuallyGood`, `LockComesFree`, both `Terminates`), because
neither fairness nor ENABLED can be reasoned about with the provers at hand. Every
other property of a run that holds has its theorem.

## What is not modelled

- What `fixCover` writes: the rewriting of the OPF and of the zip entries is a
  sequential function of the download. That it fails, and what it leaves then, is
  modelled.
- What `validate` looks at in a configuration: a file is accepted or not. Only the
  spellings of `Output.Path` that it lets pass are told apart.
- A removed book's directory is not synced: after a loss of power the file may be back,
  and is removed again; Sync's crashes keep the files.
- Sync takes the pages of a listing as arbitrary parts of the feed, the whole of which
  is listed unless a limit is set or a bookmark leaves, and downloads as what they do to
  `disk`; ListBookmarks (offsets, page sizes, the limit), KepubInstall and DownloadRun have
  the details. Instances
  takes the sync as one step.
- A medium on which a rename may be torn by a loss of power.
- `NoDanglingRule` is stated for removals that do not fail: `uninstallApplication` goes on
  to the binary when it cannot remove the rule, and leaves a rule without a binary then.
  `RetentionBounded` counts the logs that stay and does not say which; `NewestLogsStay`
  does, for a clock that is not set and names that do not extend one another.
- A full disk, other than as a call that fails, and files that a user changes while a
  download replaces them.
- Building URLs, JSON, size limits, SQL, TOML, XML and zip: they appear as calls that
  fail. What is logged is left out.
- `--check` takes the lock, prunes logs and may uninstall like any other start
  (Instances, where a run of either kind is one step); its listing and what it prints are
  in ListBookmarks.
- Signals: kobodeck installs no handlers, so they are kills.

## Plan

Done, in this order because the pass decides what is deleted and what is written
to Readeck: Environment and LocalBooks, LocalPass with its proofs, Sync, DownloadRun
and KepubInstall with their proofs, ListBookmarks, Instances with its proofs; then the
spelling of paths, the whole pipeline of a download with BookFiles and the refinement,
labels and `--check` in ListBookmarks, the states of a configuration in Instances, and
the proofs about Sync, the quiet pass and the logs; then Downloads with its refinement,
the proofs about ListBookmarks and those about termination, and Runs with its proofs.

Left:

1. *Composition.* A run whose downloads are KepubInstall's jobs on DownloadRun's
   workers, with the pass after them and losses of power in both; the offsets of
   ListBookmarks under the pages of Sync, which takes from them only what they may hide.
2. *Proofs* that Sync's downloads are those of Downloads, so that the two fit together
   in a theorem and not only by their definitions.
