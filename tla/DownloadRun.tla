----------------------------- MODULE DownloadRun -----------------------------
(***************************************************************************)
(* downloadRun (sync.go): the main goroutine schedules one download per      *)
(* matched entry on an errgroup with a worker limit, each reports through an *)
(* atomic flag and a buffered channel of failures; finish waits for all,     *)
(* closes the channel and drains it.  What a download does is KepubInstall.   *)
(***************************************************************************)
EXTENDS Naturals, FiniteSets

CONSTANTS
  N,           \* entries of the listing, duplicates included
  WorkerLimit  \* Fetch.Workers; validate requires 1 .. 32

ASSUME DownloadRunAssumption == N \in Nat /\ WorkerLimit \in Nat \ {0}

Entries == 1 .. N

VARIABLES
  matched,       \* positions of the entries that the label filter selects
  main,          \* the main goroutine: "schedule", "wait", "drain" or "done"
  next,          \* the entry that the scheduling loop looks at
  job,           \* the goroutine of each entry
  outcome,       \* what its download returned
  filesChanged,  \* the atomic flag
  failures,      \* the channel's content, the entries whose error it holds
  closed,        \* the channel is closed
  collected      \* the errors finish has received

vars == <<matched, main, next, job, outcome, filesChanged, failures, closed, collected>>

\* A goroutine runs its download, stores the flag, sends its error and returns; it
\* holds its slot of the group all along.
active == {j \in Entries : job[j] \in {"download", "store", "send"}}

Init ==
  /\ matched \in SUBSET Entries
  /\ main = "schedule" /\ next = 1
  /\ job = [j \in Entries |-> "none"]
  /\ outcome = [j \in Entries |-> "none"]
  /\ filesChanged = FALSE /\ failures = {} /\ closed = FALSE /\ collected = {}

\* Mutants: a slot too many; a channel as large as the number of workers.
slotFreeLate == Cardinality(active) <= WorkerLimit
slotFree == Cardinality(active) < WorkerLimit
maxDownloadsWorkers == WorkerLimit
maxDownloads == N

-----------------------------------------------------------------------------
\* The body of the scheduling loop; group.Go blocks until a slot is free.
Schedule ==
  /\ main = "schedule" /\ next <= N /\ next' = next + 1
  /\ \/ next \notin matched /\ UNCHANGED job
     \/ next \in matched /\ slotFree /\ job' = [job EXCEPT ![next] = "download"]
  /\ UNCHANGED <<matched, main, outcome, filesChanged, failures, closed, collected>>

ScheduleEnd ==
  /\ main = "schedule" /\ next > N /\ main' = "wait"
  /\ UNCHANGED <<matched, next, job, outcome, filesChanged, failures, closed, collected>>

\* downloadBookmarkFile never returns both a change and an error.
Download(j) ==
  /\ job[j] = "download"
  /\ \E result \in {"same", "changed", "failed"} : outcome' = [outcome EXCEPT ![j] = result]
  /\ job' = [job EXCEPT ![j] = "store"]
  /\ UNCHANGED <<matched, main, next, filesChanged, failures, closed, collected>>

\* Mutant: the flag takes the value of the download that ended last.
flagOfLast(j) == outcome[j] = "changed"
flag(j) == filesChanged \/ outcome[j] = "changed"

Store(j) ==
  /\ job[j] = "store"
  /\ filesChanged' = flag(j)
  /\ job' = [job EXCEPT ![j] = "send"]
  /\ UNCHANGED <<matched, main, next, outcome, failures, closed, collected>>

\* A send blocks while the channel is full.
Send(j) ==
  /\ job[j] = "send"
  /\ \/ outcome[j] # "failed" /\ UNCHANGED failures
     \/ /\ outcome[j] = "failed" /\ Cardinality(failures) < maxDownloads
        /\ failures' = failures \cup {j}
  /\ job' = [job EXCEPT ![j] = "done"]
  /\ UNCHANGED <<matched, main, next, outcome, filesChanged, closed, collected>>

\* Mutant: finish waits for the downloads, not for what they report.
allReturnedEarly == \A j \in Entries : job[j] # "download"
allReturned == active = {}

WaitAndClose ==
  /\ main = "wait" /\ allReturned
  /\ closed' = TRUE /\ main' = "drain"
  /\ UNCHANGED <<matched, next, job, outcome, filesChanged, failures, collected>>

Drain ==
  /\ main = "drain"
  /\ \/ /\ \E j \in failures : failures' = failures \ {j} /\ collected' = collected \cup {j}
        /\ UNCHANGED main
     \/ failures = {} /\ main' = "done" /\ UNCHANGED <<failures, collected>>
  /\ UNCHANGED <<matched, next, job, outcome, filesChanged, closed>>

Worker(j) == Download(j) \/ Store(j) \/ Send(j)
MainStep == Schedule \/ ScheduleEnd \/ WaitAndClose \/ Drain
Next == MainStep \/ \E j \in Entries : Worker(j)

Spec == Init /\ [][Next]_vars

\* The Go scheduler runs every goroutine that can run.
FairSpec == Spec /\ WF_vars(MainStep) /\ \A j \in Entries : WF_vars(Worker(j))

-----------------------------------------------------------------------------
\* Every variable keeps its type.
TypeOK ==
  /\ matched \subseteq Entries
  /\ main \in {"schedule", "wait", "drain", "done"} /\ next \in 1 .. N + 1
  /\ job \in [Entries -> {"none", "download", "store", "send", "done"}]
  /\ outcome \in [Entries -> {"none", "same", "changed", "failed"}]
  /\ filesChanged \in BOOLEAN /\ closed \in BOOLEAN
  /\ failures \subseteq Entries /\ collected \subseteq Entries

\* Never more downloads at a time than Fetch.Workers.
BoundedWorkers == Cardinality(active) <= WorkerLimit

\* A worker never waits for room in the channel, which nobody reads before all
\* workers have returned: the run would hang for ever.
SendNeverBlocks ==
  \A j \in Entries : job[j] = "send" /\ outcome[j] = "failed" => Cardinality(failures) < maxDownloads

\* Nobody sends on the closed channel, which would panic (close comes after Wait).
NoSendAfterClose == closed => active = {}

\* What finish returns is complete: an error of every download that failed, however
\* the others ended, and the flag exactly if some file changed.
ResultComplete == main = "done" =>
  /\ \A j \in matched : outcome[j] # "none"
  /\ collected = {j \in Entries : outcome[j] = "failed"}
  /\ filesChanged <=> \E j \in Entries : outcome[j] = "changed"

\* The pool does what one worker would do that makes the downloads one after the
\* other, each at the instant at which it returns: the bookkeeping of schedule, the
\* flag, the channel and finish lose, repeat and invent nothing, and finish answers
\* once, after the last of them (sync.go:36-59).  It is what Sync takes the downloads
\* for.
OneByOne == INSTANCE Downloads WITH
  Jobs    <- Entries,
  pending <- {j \in matched : outcome[j] = "none"},
  changed <- {j \in Entries : outcome[j] = "changed"},
  failed  <- {j \in Entries : outcome[j] = "failed"},
  answers <- IF main = "done" THEN {[filesChanged |-> filesChanged, errors |-> collected]}
                              ELSE {}

ImplementsDownloads == OneByOne!Spec

\* Every run of downloads ends.
Terminates == <>(main = "done")

-----------------------------------------------------------------------------
(* The inductive invariant behind these properties. *)

\* The goroutines are those of the matched entries before next.
ScheduledInv ==
  /\ \A j \in Entries : job[j] # "none" <=> j \in matched /\ j < next
  /\ main # "schedule" => next > N
  /\ \A j \in Entries : outcome[j] = "none" <=> job[j] \in {"none", "download"}

\* The flag and the channel hold what was stored and sent, no more and no less.
ReportedInv ==
  /\ filesChanged <=> \E j \in Entries : job[j] \in {"send", "done"} /\ outcome[j] = "changed"
  /\ failures \cup collected = {j \in Entries : job[j] = "done" /\ outcome[j] = "failed"}
  /\ main = "done" => failures = {}
  /\ main \in {"drain", "done"} => active = {}
  /\ closed => main \in {"drain", "done"}

IInv == TypeOK /\ ScheduledInv /\ ReportedInv /\ BoundedWorkers
=============================================================================
