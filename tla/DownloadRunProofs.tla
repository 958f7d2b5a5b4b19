--------------------------- MODULE DownloadRunProofs ---------------------------
(***************************************************************************)
(* The safety of downloadRun for any number of entries, any label filter and *)
(* any worker limit.                                                          *)
(***************************************************************************)
EXTENDS DownloadRun, FiniteSetTheorems, TLAPS

\* Sets of entries are finite, and there are N entries.
LEMMA EntriesFinite ==
  /\ IsFiniteSet(Entries) /\ Cardinality(Entries) = N
  /\ \A S \in SUBSET Entries : IsFiniteSet(S) /\ Cardinality(S) \in Nat /\ Cardinality(S) <= N
<1>1. IsFiniteSet(Entries) /\ Cardinality(Entries) = N
  BY FS_Interval, DownloadRunAssumption DEF Entries
<1>2. ASSUME NEW S \in SUBSET Entries
      PROVE  IsFiniteSet(S) /\ Cardinality(S) \in Nat /\ Cardinality(S) <= N
  BY <1>1, FS_Subset, FS_CardinalityType
<1> QED
  BY <1>1, <1>2

\* A set of entries that lacks one of them is smaller than N.
LEMMA ProperSubset ==
  ASSUME NEW S \in SUBSET Entries, NEW j \in Entries, j \notin S
  PROVE  Cardinality(S) < N
<1>1. IsFiniteSet(S) /\ Cardinality(S) \in Nat
  BY EntriesFinite
<1>2. Cardinality(S \cup {j}) = Cardinality(S) + 1
  BY <1>1, FS_AddElement
<1>3. S \cup {j} \in SUBSET Entries
  OBVIOUS
<1>4. Cardinality(S \cup {j}) <= N
  BY <1>3, EntriesFinite
<1> QED
  BY <1>1, <1>2, <1>4, DownloadRunAssumption

LEMMA InitInv == Init => IInv
<1> SUFFICES ASSUME Init PROVE IInv
  OBVIOUS
<1>1. TypeOK
  <2>1. next \in 1 .. N + 1
    BY DownloadRunAssumption DEF Init
  <2> QED
    BY <2>1 DEF Init, TypeOK
<1>2. active = {}
  BY DEF Init, active
<1>3. BoundedWorkers
  BY <1>2, FS_EmptySet, DownloadRunAssumption DEF BoundedWorkers
<1> QED
  BY <1>1, <1>2, <1>3, DownloadRunAssumption DEF Init, IInv, ScheduledInv, ReportedInv, Entries

\* The main goroutine preserves the invariant.
LEMMA MainInv == IInv /\ MainStep => IInv'
<1> SUFFICES ASSUME IInv, MainStep PROVE IInv'
  OBVIOUS
<1> USE DownloadRunAssumption DEF IInv
<1>1. CASE Schedule
  <2>1. TypeOK'
    BY <1>1 DEF Schedule, TypeOK, Entries
  <2>2. next \in Entries /\ main = "schedule" /\ job[next] = "none" /\ next' = next + 1
    BY <1>1 DEF Schedule, TypeOK, Entries, ScheduledInv
  <2>3. CASE next \notin matched /\ UNCHANGED job
    <3>1. ScheduledInv'
      BY <1>1, <2>2, <2>3 DEF Schedule, TypeOK, Entries, ScheduledInv
    <3>2. active' = active
      BY <2>3 DEF active
    <3> QED
      BY <1>1, <2>1, <2>3, <3>1, <3>2 DEF Schedule, ReportedInv, BoundedWorkers
  <2>4. CASE next \in matched /\ slotFree /\ job' = [job EXCEPT ![next] = "download"]
    <3>1. ScheduledInv'
      BY <1>1, <2>2, <2>4 DEF Schedule, TypeOK, Entries, ScheduledInv
    <3>2. active' = active \cup {next}
      BY <2>2, <2>4 DEF active, TypeOK
    <3>3. ReportedInv'
      BY <1>1, <2>2, <2>4 DEF Schedule, ReportedInv, TypeOK
    <3>4. active \in SUBSET Entries /\ next \notin active
      BY <2>2 DEF active
    <3>5. Cardinality(active') = Cardinality(active) + 1 /\ Cardinality(active) \in Nat
      BY <3>2, <3>4, EntriesFinite, FS_AddElement
    <3>6. BoundedWorkers'
      BY <2>4, <3>5 DEF slotFree, BoundedWorkers
    <3> QED
      BY <2>1, <3>1, <3>3, <3>6
  <2> QED
    BY <1>1, <2>3, <2>4 DEF Schedule
<1>2. CASE ScheduleEnd
  <2>1. active' = active
    BY <1>2 DEF ScheduleEnd, active
  <2> QED
    BY <1>2, <2>1 DEF ScheduleEnd, TypeOK, ScheduledInv, ReportedInv, BoundedWorkers
<1>3. CASE WaitAndClose
  <2>1. active' = active
    BY <1>3 DEF WaitAndClose, active
  <2> QED
    BY <1>3, <2>1 DEF WaitAndClose, allReturned, TypeOK, ScheduledInv, ReportedInv, BoundedWorkers
<1>4. CASE Drain
  <2>1. active' = active
    BY <1>4 DEF Drain, active
  <2>2. TypeOK' /\ failures' \cup collected' = failures \cup collected
    BY <1>4 DEF Drain, TypeOK
  <2> QED
    BY <1>4, <2>1, <2>2 DEF Drain, ScheduledInv, ReportedInv, BoundedWorkers
<1> QED
  BY <1>1, <1>2, <1>3, <1>4 DEF MainStep

\* A worker preserves the invariant.
LEMMA WorkerInv == ASSUME IInv, NEW j \in Entries, Worker(j) PROVE IInv'
<1> USE DEF IInv
<1>1. TypeOK'
  BY DEF Worker, Download, Store, flag, Send, TypeOK
<1>2. ScheduledInv'
  BY DEF Worker, Download, Store, Send, TypeOK, ScheduledInv
<1>3. j \in active /\ main' = main /\ closed' = closed
  BY DEF Worker, Download, Store, Send, active
<1>4. active' \subseteq active
  BY DEF Worker, Download, Store, Send, active, TypeOK
<1>5. BoundedWorkers'
  <2>1. active \in SUBSET Entries
    BY DEF active
  <2>2. IsFiniteSet(active) /\ Cardinality(active) \in Nat
    BY <2>1, EntriesFinite
  <2>3. Cardinality(active') <= Cardinality(active) /\ Cardinality(active') \in Nat
    BY <1>4, <2>2, FS_Subset, FS_CardinalityType
  <2> QED
    BY <2>2, <2>3, DownloadRunAssumption DEF BoundedWorkers
<1>6. ReportedInv'
  <2>1. main \notin {"drain", "done"} /\ ~closed
    BY <1>3 DEF ReportedInv
  <2>2. CASE Download(j)
    BY <1>3, <2>1, <2>2 DEF Download, ReportedInv, TypeOK
  <2>3. CASE Store(j)
    <3>1. /\ job' = [job EXCEPT ![j] = "send"] /\ job[j] = "store"
          /\ UNCHANGED <<outcome, failures, collected>>
      BY <2>3 DEF Store
    <3>2. \A k \in Entries : job'[k] = IF k = j THEN "send" ELSE job[k]
      BY <3>1 DEF TypeOK
    <3>3. filesChanged' <=> filesChanged \/ outcome[j] = "changed"
      BY <2>3 DEF Store, flag
    <3>4. filesChanged' <=> \E k \in Entries : job'[k] \in {"send", "done"} /\ outcome'[k] = "changed"
      BY <3>1, <3>2, <3>3 DEF ReportedInv
    <3>5. failures' \cup collected' = {k \in Entries : job'[k] = "done" /\ outcome'[k] = "failed"}
      BY <3>1, <3>2 DEF ReportedInv
    <3> QED
      BY <1>3, <2>1, <3>4, <3>5 DEF ReportedInv
  <2>4. CASE Send(j)
    <3>1. /\ job' = [job EXCEPT ![j] = "done"] /\ job[j] = "send"
          /\ UNCHANGED <<outcome, filesChanged, collected>>
      BY <2>4 DEF Send
    <3>2. filesChanged' <=> \E k \in Entries : job'[k] \in {"send", "done"} /\ outcome'[k] = "changed"
      BY <3>1 DEF ReportedInv, TypeOK
    <3>3. failures' \cup collected' = {k \in Entries : job'[k] = "done" /\ outcome'[k] = "failed"}
      BY <2>4, <3>1 DEF Send, ReportedInv, TypeOK
    <3> QED
      BY <1>3, <2>1, <3>2, <3>3 DEF ReportedInv
  <2> QED
    BY <2>2, <2>3, <2>4 DEF Worker
<1> QED
  BY <1>1, <1>2, <1>5, <1>6

\* The inductive invariant holds in every state.
THEOREM InvCorrect == Spec => []IInv
<1>1. ASSUME IInv, [Next]_vars PROVE IInv'
  <2>1. CASE UNCHANGED vars
    BY <1>1, <2>1 DEF vars, IInv, TypeOK, ScheduledInv, ReportedInv, BoundedWorkers, active
  <2> QED
    BY <1>1, <2>1, MainInv, WorkerInv DEF Next
<1> QED
  BY <1>1, InitInv, PTL DEF Spec

\* Never more than Fetch.Workers downloads at a time.
THEOREM BoundedWorkersHolds == Spec => []BoundedWorkers
  BY InvCorrect, PTL DEF IInv

\* With a buffer of len(entries) no worker ever waits for room in the channel: each
\* entry sends once, so while one still has to send, the channel lacks it.
THEOREM SendNeverBlocksHolds == Spec => []SendNeverBlocks
<1>1. ASSUME IInv PROVE SendNeverBlocks
  <2> SUFFICES ASSUME NEW j \in Entries, job[j] = "send" PROVE Cardinality(failures) < maxDownloads
    BY DEF SendNeverBlocks
  <2>1. j \notin failures /\ failures \in SUBSET Entries
    BY <1>1 DEF IInv, ReportedInv, TypeOK
  <2> QED
    BY <2>1, ProperSubset DEF maxDownloads
<1> QED
  BY <1>1, InvCorrect, PTL

\* The channel is closed only when nobody can send any more.
THEOREM NoSendAfterCloseHolds == Spec => []NoSendAfterClose
<1>1. IInv => NoSendAfterClose
  BY DEF IInv, ReportedInv, NoSendAfterClose
<1> QED
  BY <1>1, InvCorrect, PTL

\* finish returns every error and an exact flag.
THEOREM ResultCompleteHolds == Spec => []ResultComplete
<1>1. ASSUME IInv, main = "done"
      PROVE  /\ \A j \in matched : outcome[j] # "none"
             /\ collected = {j \in Entries : outcome[j] = "failed"}
             /\ filesChanged <=> \E j \in Entries : outcome[j] = "changed"
  <2>1. \A j \in Entries : job[j] \in {"none", "done"}
    BY <1>1 DEF IInv, TypeOK, ReportedInv, active
  <2>2. \A j \in matched : j \in Entries /\ j < next
    BY <1>1, DownloadRunAssumption DEF IInv, TypeOK, ScheduledInv, Entries
  <2>3. \A j \in Entries : job[j] = "none" => outcome[j] = "none"
    BY <1>1 DEF IInv, ScheduledInv
  <2>4. \A j \in matched : outcome[j] # "none"
    BY <1>1, <2>1, <2>2 DEF IInv, ScheduledInv
  <2>5. collected = {j \in Entries : outcome[j] = "failed"}
    BY <1>1, <2>1, <2>3 DEF IInv, ReportedInv
  <2>6. filesChanged <=> \E j \in Entries : outcome[j] = "changed"
    BY <1>1, <2>1, <2>3 DEF IInv, ReportedInv
  <2> QED
    BY <2>4, <2>5, <2>6
<1>2. IInv => ResultComplete
  BY <1>1 DEF ResultComplete
<1> QED
  BY <1>2, InvCorrect, PTL

\* The pool implements Downloads: a download that returns is an attempt there, the last
\* step of finish is its answer, and scheduling, storing, sending and draining change
\* nothing that is seen.
THEOREM ImplementsDownloadsHolds == Spec => ImplementsDownloads
<1> DEFINE none == {j \in matched : outcome[j] = "none"}
           changed == {j \in Entries : outcome[j] = "changed"}
           failed == {j \in Entries : outcome[j] = "failed"}
           answers == IF main = "done" THEN {[filesChanged |-> filesChanged, errors |-> collected]}
                                       ELSE {}
<1>1. ASSUME Init PROVE OneByOne!Init
  <2>1. none = matched /\ changed = {} /\ failed = {} /\ answers = {}
    BY <1>1 DEF Init, Entries
  <2>2. matched \in SUBSET Entries
    BY <1>1 DEF Init
  <2> QED
    BY <2>1, <2>2 DEF OneByOne!Init
<1>2. ASSUME IInv, [Next]_vars PROVE [OneByOne!Next]_(OneByOne!vars)
  <2>1. ASSUME UNCHANGED <<matched, outcome>>, main' # "done", main # "done"
        PROVE  UNCHANGED OneByOne!vars
    BY <2>1 DEF OneByOne!vars
  <2>2. CASE UNCHANGED vars
    BY <2>2 DEF vars, OneByOne!vars
  <2>3. CASE Schedule \/ ScheduleEnd \/ WaitAndClose
    BY <2>1, <2>3 DEF Schedule, ScheduleEnd, WaitAndClose
  <2>4. CASE Drain
    <3>1. UNCHANGED <<matched, outcome, filesChanged>> /\ main = "drain"
      BY <2>4 DEF Drain
    <3>2. CASE main' = main
      BY <2>1, <3>1, <3>2
    <3>3. CASE failures = {} /\ main' = "done" /\ UNCHANGED collected
      <4>1. \A j \in Entries : job[j] \in {"none", "done"}
        BY <1>2, <3>1 DEF IInv, TypeOK, ReportedInv, active
      <4>2. none = {}
        <5>1. \A j \in matched : j \in Entries /\ j < next
          BY <1>2, <3>1, DownloadRunAssumption DEF IInv, TypeOK, ScheduledInv, Entries
        <5>2. \A j \in matched : job[j] = "done"
          BY <1>2, <4>1, <5>1 DEF IInv, ScheduledInv
        <5> QED
          BY <1>2, <5>1, <5>2 DEF IInv, ScheduledInv
      <4>3. collected = failed
        BY <1>2, <3>3, <4>1 DEF IInv, ScheduledInv, ReportedInv
      <4>4. filesChanged <=> changed # {}
        BY <1>2, <4>1 DEF IInv, ScheduledInv, ReportedInv
      <4>5. filesChanged = (changed # {})
        BY <1>2, <4>4 DEF IInv, TypeOK
      <4>6. answers = {} /\ answers' = {[filesChanged |-> changed # {}, errors |-> failed]}
        BY <3>1, <3>3, <4>3, <4>5
      <4>7. UNCHANGED <<none, changed, failed>>
        BY <3>1
      <4> QED
        BY <4>2, <4>6, <4>7 DEF OneByOne!Next, OneByOne!Finish
    <3> QED
      BY <2>4, <3>2, <3>3 DEF Drain
  <2>5. ASSUME NEW j \in Entries, Download(j) PROVE OneByOne!Next
    <3>1. j \in matched /\ outcome[j] = "none" /\ UNCHANGED <<matched, main>>
      BY <1>2, <2>5 DEF Download, IInv, ScheduledInv
    <3>2. main # "done"
      BY <1>2, <2>5 DEF Download, IInv, ReportedInv, active
    <3>3. PICK result \in {"same", "changed", "failed"} : outcome' = [outcome EXCEPT ![j] = result]
      BY <2>5 DEF Download
    <3>4. \A k \in Entries : outcome'[k] = IF k = j THEN result ELSE outcome[k]
      BY <1>2, <3>3 DEF IInv, TypeOK
    <3>5. matched \subseteq Entries
      BY <1>2 DEF IInv, TypeOK
    <3>6. j \in none /\ none' = none \ {j}
      BY <3>1, <3>3, <3>4, <3>5
    <3>7. /\ changed' = IF result = "changed" THEN changed \cup {j} ELSE changed
          /\ failed' = IF result = "failed" THEN failed \cup {j} ELSE failed
      BY <3>1, <3>3, <3>4
    <3>8. answers' = answers
      BY <3>1, <3>2
    <3> QED
      BY <3>3, <3>6, <3>7, <3>8 DEF OneByOne!Next, OneByOne!Attempt
  <2>6. ASSUME NEW j \in Entries, Store(j) \/ Send(j) PROVE UNCHANGED OneByOne!vars
    <3>1. main # "done" /\ UNCHANGED <<main, matched, outcome>>
      BY <1>2, <2>6 DEF Store, Send, IInv, ReportedInv, active
    <3> QED
      BY <2>1, <3>1
  <2> QED
    BY <1>2, <2>2, <2>3, <2>4, <2>5, <2>6 DEF Next, MainStep, Worker
<1> QED
  BY <1>1, <1>2, InvCorrect, PTL DEF Spec, ImplementsDownloads, OneByOne!Spec

-----------------------------------------------------------------------------
(* Why the run of downloads ends, for any number of entries: it has only so  *)
(* many steps to make, and until it is done some goroutine can make one.      *)

\* The entries whose goroutine still has to download, and those that it has still to
\* store the flag of.
toDownload == {j \in Entries : job[j] = "download"}
toStore == {j \in Entries : job[j] \in {"download", "store"}}

stage == CASE main = "schedule" -> 3 [] main = "wait" -> 2 [] main = "drain" -> 1 [] OTHER -> 0

\* The most steps that may come: five of each entry not scheduled yet (schedule,
\* download, store, send and drain), what is left of those of the goroutines and of the
\* channel, and three of the main goroutine.
work == 5 * (N + 1 - next) + Cardinality(toDownload) + Cardinality(toStore)
        + 2 * Cardinality(active) + Cardinality(failures) + stage

\* Every step leaves fewer to come, so there are at most 5 * N + 3.
WorkRunsOut == [][work' \in Nat /\ work' < work]_vars

\* The main goroutine can take its next step, or a worker can: nobody waits for
\* somebody who waits.
NobodyStuck == main # "done" =>
  \/ main = "schedule" /\ (next \in matched => slotFree)
  \/ main = "wait" /\ allReturned
  \/ main = "drain"
  \/ \E j \in Entries : \/ job[j] \in {"download", "store"}
                        \/ /\ job[j] = "send"
                           /\ outcome[j] = "failed" => Cardinality(failures) < maxDownloads

\* A set of entries with one more, or one less.
LEMMA Counting ==
  ASSUME NEW S \in SUBSET Entries, NEW T \in SUBSET Entries, NEW j \in Entries
  PROVE  /\ Cardinality(S) \in Nat
         /\ j \notin S /\ T = S \cup {j} => Cardinality(T) = Cardinality(S) + 1
         /\ j \in S /\ T = S \ {j} => Cardinality(T) = Cardinality(S) - 1
<1>1. IsFiniteSet(S) /\ Cardinality(S) \in Nat
  BY EntriesFinite
<1>2. j \notin S => Cardinality(S \cup {j}) = Cardinality(S) + 1
  BY <1>1, FS_AddElement
<1>3. j \in S => Cardinality(S \ {j}) = Cardinality(S) - 1
  BY <1>1, FS_RemoveElement
<1> QED
  BY <1>1, <1>2, <1>3

\* What is counted are sets of entries.
LEMMA WorkTypes ==
  ASSUME IInv
  PROVE  /\ {toDownload, toStore, active, failures} \subseteq SUBSET Entries
         /\ Cardinality(toDownload) \in Nat /\ Cardinality(toStore) \in Nat
         /\ Cardinality(active) \in Nat /\ Cardinality(failures) \in Nat
         /\ next \in 1 .. N + 1 /\ stage \in 0 .. 3
<1>1. {toDownload, toStore, active, failures} \subseteq SUBSET Entries
  BY DEF toDownload, toStore, active, IInv, TypeOK
<1> QED
  BY <1>1, EntriesFinite DEF IInv, TypeOK, stage

\* A step of the main goroutine that schedules nothing counts for itself, or takes one
\* error out of the channel.
LEMMA MainWork == ASSUME IInv, MainStep, IInv' PROVE work' < work
<1> USE DownloadRunAssumption
<1>1. ASSUME UNCHANGED <<job, failures, next>>, stage' < stage PROVE work' < work
  <2>1. toDownload' = toDownload /\ toStore' = toStore /\ active' = active
    BY <1>1 DEF toDownload, toStore, active
  <2>2. stage \in 0 .. 3 /\ stage' \in 0 .. 3
    BY WorkTypes DEF stage
  <2> QED
    BY <1>1, <2>1, <2>2, WorkTypes DEF work
<1>2. CASE Schedule
  <2>1. next \in Entries /\ job[next] = "none" /\ next' = next + 1 /\ UNCHANGED <<failures, main>>
    BY <1>2 DEF Schedule, IInv, TypeOK, ScheduledInv, Entries
  <2>2. stage' = stage
    BY <2>1 DEF stage
  <2>3. CASE UNCHANGED job
    <3>1. toDownload' = toDownload /\ toStore' = toStore /\ active' = active
      BY <2>3 DEF toDownload, toStore, active
    <3> QED
      BY <2>1, <2>2, <3>1, WorkTypes DEF work
  <2>4. CASE job' = [job EXCEPT ![next] = "download"]
    <3>1. /\ next \notin toDownload /\ toDownload' = toDownload \cup {next}
          /\ next \notin toStore /\ toStore' = toStore \cup {next}
          /\ next \notin active /\ active' = active \cup {next}
      BY <2>1, <2>4 DEF toDownload, toStore, active, IInv, TypeOK
    <3>2. /\ Cardinality(toDownload') = Cardinality(toDownload) + 1
          /\ Cardinality(toStore') = Cardinality(toStore) + 1
          /\ Cardinality(active') = Cardinality(active) + 1
      BY <2>1, <3>1, WorkTypes, Counting
    <3> QED
      BY <2>1, <2>2, <3>2, WorkTypes DEF work
  <2> QED
    BY <1>2, <2>3, <2>4 DEF Schedule
<1>3. CASE ScheduleEnd
  BY <1>1, <1>3 DEF ScheduleEnd, stage
<1>4. CASE WaitAndClose
  BY <1>1, <1>4 DEF WaitAndClose, stage
<1>5. CASE Drain
  <2>1. CASE failures = {} /\ main' = "done" /\ UNCHANGED <<failures, collected>>
    BY <1>1, <1>5, <2>1 DEF Drain, stage
  <2>2. ASSUME NEW j \in failures, failures' = failures \ {j}, UNCHANGED <<main, job, next>>
        PROVE  work' < work
    <3>1. Cardinality(failures') = Cardinality(failures) - 1
      BY <2>2, WorkTypes, Counting
    <3>2. toDownload' = toDownload /\ toStore' = toStore /\ active' = active /\ stage' = stage
      BY <2>2 DEF toDownload, toStore, active, stage
    <3> QED
      BY <2>2, <3>1, <3>2, WorkTypes DEF work
  <2> QED
    BY <1>5, <2>1, <2>2 DEF Drain
<1> QED
  BY <1>2, <1>3, <1>4, <1>5 DEF MainStep

\* A worker leaves the sets one after the other, and at last enters the channel.
LEMMA WorkerWork == ASSUME IInv, NEW j \in Entries, Worker(j), IInv' PROVE work' < work
<1> USE DownloadRunAssumption
<1>1. stage' = stage /\ next' = next
  BY DEF Worker, Download, Store, Send, stage
<1>2. job \in [Entries -> {"none", "download", "store", "send", "done"}]
  BY DEF IInv, TypeOK
<1>3. CASE Download(j)
  <2>1. job[j] = "download" /\ job' = [job EXCEPT ![j] = "store"] /\ UNCHANGED failures
    BY <1>3 DEF Download
  <2>2. /\ j \in toDownload /\ toDownload' = toDownload \ {j}
        /\ toStore' = toStore /\ active' = active
    BY <1>2, <2>1 DEF toDownload, toStore, active
  <2>3. Cardinality(toDownload') = Cardinality(toDownload) - 1
    BY <2>2, WorkTypes, Counting
  <2> QED
    BY <1>1, <2>1, <2>2, <2>3, WorkTypes DEF work
<1>4. CASE Store(j)
  <2>1. job[j] = "store" /\ job' = [job EXCEPT ![j] = "send"] /\ UNCHANGED failures
    BY <1>4 DEF Store
  <2>2. /\ j \in toStore /\ toStore' = toStore \ {j}
        /\ toDownload' = toDownload /\ active' = active
    BY <1>2, <2>1 DEF toDownload, toStore, active
  <2>3. Cardinality(toStore') = Cardinality(toStore) - 1
    BY <2>2, WorkTypes, Counting
  <2> QED
    BY <1>1, <2>1, <2>2, <2>3, WorkTypes DEF work
<1>5. CASE Send(j)
  <2>1. /\ job[j] = "send" /\ job' = [job EXCEPT ![j] = "done"]
        /\ failures' = failures \/ failures' = failures \cup {j}
    BY <1>5 DEF Send
  <2>2. /\ j \in active /\ active' = active \ {j}
        /\ toDownload' = toDownload /\ toStore' = toStore
    BY <1>2, <2>1 DEF toDownload, toStore, active
  <2>3. Cardinality(active') = Cardinality(active) - 1
    BY <2>2, WorkTypes, Counting
  <2>4. j \notin failures
    BY <2>1 DEF IInv, ReportedInv
  <2>5. Cardinality(failures') \in {Cardinality(failures), Cardinality(failures) + 1}
    BY <2>1, <2>4, WorkTypes, Counting
  <2> QED
    BY <1>1, <2>2, <2>3, <2>5, WorkTypes DEF work
<1> QED
  BY <1>3, <1>4, <1>5 DEF Worker

\* The steps run out, of which there are 5 * N + 3 at first.
THEOREM WorkRunsOutHolds ==
  /\ Init => work = 5 * N + 3
  /\ Spec => WorkRunsOut
<1>1. ASSUME Init PROVE work = 5 * N + 3
  <2>1. toDownload = {} /\ toStore = {} /\ active = {} /\ failures = {} /\ next = 1 /\ stage = 3
    BY <1>1 DEF Init, toDownload, toStore, active, stage
  <2>2. Cardinality({}) = 0
    BY FS_EmptySet
  <2>3. /\ Cardinality(toDownload) = 0 /\ Cardinality(toStore) = 0
        /\ Cardinality(active) = 0 /\ Cardinality(failures) = 0
    BY <2>1, <2>2
  <2> QED
    BY <2>1, <2>3, DownloadRunAssumption DEF work
<1>2. ASSUME IInv, IInv', [Next]_vars PROVE [work' \in Nat /\ work' < work]_vars
  <2>1. 5 * (N + 1 - next') \in Nat
    <3>1. next' \in 1 .. N + 1
      BY <1>2 DEF IInv, TypeOK
    <3>2. \A n \in 1 .. N + 1 : 5 * (N + 1 - n) \in Nat
      BY DownloadRunAssumption
    <3> QED
      BY <3>1, <3>2
  <2>2. stage' \in 0 .. 3
    BY DEF stage
  <2>3. /\ toDownload' \in SUBSET Entries /\ toStore' \in SUBSET Entries
        /\ active' \in SUBSET Entries /\ failures' \in SUBSET Entries
    BY <1>2 DEF toDownload, toStore, active, IInv, TypeOK
  <2>4. /\ Cardinality(toDownload') \in Nat /\ Cardinality(toStore') \in Nat
        /\ Cardinality(active') \in Nat /\ Cardinality(failures') \in Nat
    BY <2>3, EntriesFinite
  <2>5. work' \in Nat
    BY <2>1, <2>2, <2>4 DEF work
  <2> QED
    BY <1>2, <2>5, MainWork, WorkerWork DEF Next
<1> QED
  BY <1>1, <1>2, InvCorrect, PTL DEF Spec, WorkRunsOut

\* While the run of downloads is not done, some goroutine can take a step: the loop is
\* held up only by workers, and these by nothing.
THEOREM NobodyStuckHolds == Spec => []NobodyStuck
<1>1. ASSUME IInv, SendNeverBlocks PROVE NobodyStuck
  <2> SUFFICES ASSUME main # "done", main # "drain", active = {}
               PROVE  \/ main = "schedule" /\ slotFree
                      \/ main = "wait" /\ allReturned
    <3>1. ASSUME NEW j \in active PROVE NobodyStuck
      BY <1>1, <3>1 DEF NobodyStuck, active, SendNeverBlocks
    <3> QED
      BY <3>1 DEF NobodyStuck
  <2>1. main \in {"schedule", "wait"}
    BY <1>1 DEF IInv, TypeOK
  <2>2. Cardinality(active) = 0
    BY FS_EmptySet
  <2> QED
    BY <2>1, <2>2, DownloadRunAssumption DEF slotFree, allReturned
<1> QED
  BY <1>1, InvCorrect, SendNeverBlocksHolds, PTL
=============================================================================
