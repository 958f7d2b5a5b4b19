--------------------------- MODULE RetentionProofs ---------------------------
(***************************************************************************)
(* The retention of the run logs, for any number of processes, configurations *)
(* and retained files: what a pruning leaves, while other processes create     *)
(* their logs, and which logs it takes.                                        *)
(***************************************************************************)
EXTENDS InstancesProofs, FiniteSetTheorems

Pruned == {"removeLogs", "sync"}

\* Names are unique, and marks and numbers lie in the past.
LogsInv ==
  /\ IsFiniteSet(logs)
  /\ \A l, m \in logs : l.stem = m.stem /\ l.at = m.at /\ l.pid = m.pid => l = m
  /\ \A l, m \in logs : l.born = m.born => l = m
  /\ \A l \in logs : l.born <= runs
  /\ \A p \in Procs : mark[p] <= runs

\* The logs that a process will have left of those it listed.
Left(p, stem) == {l \in matching(stem, logs) : l.born <= mark[p]} \ old[p]

LeftInv == \A p \in Procs : pc[p] \in Pruned =>
  \A log \in own[p] : Cardinality(Left(p, log.stem)) <= RetainedFiles

\* While nobody sets the clock the order of the names is that of creation.
ClockInv == clockSets = 0 =>
  /\ \A l \in logs : l.at < clock
  /\ \A l, m \in logs : l.born < m.born => l.at < m.at

\* The logs that stay and whose names come after that of l.
After(p, l) == {m \in logs \ old[p] : m.stem = l.stem /\ before(l, m)}

\* The next name to be removed has enough of them.
AfterInv == \A p \in Procs :
  /\ \A l, m \in old[p] : l.stem = m.stem
  /\ \A l \in old[p] : (\A m \in old[p] \ {l} : before(m, l)) =>
       Cardinality(After(p, l)) >= RetainedFiles

-----------------------------------------------------------------------------
\* The parts of a name are numbers.
LEMMA LogTypes ==
  ASSUME TypeOK, NEW l \in logs
  PROVE  l.stem \in Nat /\ l.at \in Nat /\ l.pid \in Nat /\ l.born \in Nat
<1>1. l \in LogName /\ MaxRuns \in Nat
  BY InstancesAssumption DEF TypeOK
<1>2. l.stem \in Stems /\ l.at \in 0 .. 2 * MaxRuns /\ l.pid \in Procs /\ l.born \in 1 .. MaxRuns
  BY <1>1 DEF LogName
<1>3. l.at \in Nat /\ l.born \in Nat
  BY <1>1, <1>2
<1> QED
  BY <1>2, <1>3, InstancesAssumption

\* The order of names that are distinct is strict and total.
LEMMA BeforeOrder ==
  ASSUME TypeOK
  PROVE  /\ \A l, m \in logs : ~(before(l, m) /\ before(m, l))
         /\ \A l, m, n \in logs : before(l, m) /\ before(m, n) => before(l, n)
         /\ LogsInv => \A l, m \in logs : l = m \/ before(l, m) \/ before(m, l)
<1>1. \A l \in logs : l.stem \in Nat /\ l.at \in Nat /\ l.pid \in Nat
  BY LogTypes
<1>2. \A l, m \in logs : ~(before(l, m) /\ before(m, l))
  BY <1>1 DEF before
<1>3. \A l, m, n \in logs : before(l, m) /\ before(m, n) => before(l, n)
  BY <1>1 DEF before
<1>4. LogsInv => \A l, m \in logs : l = m \/ before(l, m) \/ before(m, l)
  BY <1>1 DEF before, LogsInv
<1> QED
  BY <1>2, <1>3, <1>4

\* What is not surplus fits in RetainedFiles: each of these names has another number
\* of names after it.
LEMMA SurplusBound ==
  ASSUME TypeOK, LogsInv, NEW names \in SUBSET logs
  PROVE  Cardinality(names \ surplus(names)) <= RetainedFiles
<1> DEFINE later(l) == {m \in names : before(l, m)}
           rest == names \ surplus(names)
           count == [l \in rest |-> Cardinality(later(l))]
<1>0. RetainedFiles \in Nat \ {0}
  BY InstancesAssumption
<1>1. IsFiniteSet(names)
  BY FS_Subset DEF LogsInv
<1>2. \A l \in names : IsFiniteSet(later(l)) /\ Cardinality(later(l)) \in Nat
  BY <1>1, FS_Subset, FS_CardinalityType
<1>3. \A l \in rest : Cardinality(later(l)) \in 0 .. RetainedFiles - 1
  <2> SUFFICES ASSUME NEW l \in rest PROVE Cardinality(later(l)) \in 0 .. RetainedFiles - 1
    OBVIOUS
  <2>1. ~(Cardinality(later(l)) >= RetainedFiles) /\ l \in names
    BY DEF surplus
  <2> HIDE DEF later, rest
  <2> QED
    BY <1>0, <1>2, <2>1
<1>4. ASSUME NEW l \in rest, NEW m \in rest, before(l, m) PROVE count[l] # count[m]
  <2>1. later(m) \subseteq later(l) /\ m \in later(l) /\ m \notin later(m)
    BY <1>4, BeforeOrder
  <2>2. Cardinality(later(m)) # Cardinality(later(l))
    <3>1. later(m) \in SUBSET later(l) /\ later(m) # later(l)
      BY <2>1
    <3> HIDE DEF later
    <3> QED
      BY <1>2, <3>1, FS_Subset
  <2> QED
    BY <2>2
<1>5. count \in Injection(rest, 0 .. RetainedFiles - 1)
  <2>1. count \in [rest -> 0 .. RetainedFiles - 1]
    BY <1>3
  <2>2. ASSUME NEW l \in rest, NEW m \in rest, count[l] = count[m] PROVE l = m
    BY <1>4, <2>2, BeforeOrder
  <2> HIDE DEF count, rest
  <2> QED
    BY <2>1, <2>2 DEF Injection, IsInjective
<1>6. IsFiniteSet(0 .. RetainedFiles - 1) /\ Cardinality(0 .. RetainedFiles - 1) = RetainedFiles
  <2>1. 0 \in Int /\ RetainedFiles - 1 \in Int
    BY <1>0
  <2> QED
    BY <1>0, <2>1, FS_Interval
<1> HIDE DEF rest, count
<1>7. Cardinality(rest) <= RetainedFiles
  BY <1>5, <1>6, FS_Injection
<1> QED
  BY <1>7 DEF rest

-----------------------------------------------------------------------------
\* A step that neither creates nor removes a log, nor lists any.
Frame ==
  /\ UNCHANGED <<logs, runs>>
  /\ clockSets' = 0 => clockSets = 0 /\ UNCHANGED clock
  /\ \A q \in Procs :
       /\ old'[q] \in {{}, old[q]} /\ mark'[q] \in {0, mark[q]}
       /\ pc'[q] \in Pruned => /\ pc[q] \in Pruned
                               /\ own'[q] = own[q] /\ old'[q] = old[q] /\ mark'[q] = mark[q]

\* Only the start of a process, the listing and the removal of names are no such step.
LEMMA ExitFrame ==
  ASSUME TypeOK, NEW p \in Procs, Exit(p), UNCHANGED <<logs, runs, clock, clockSets>>
  PROVE  Frame
BY DEF Exit, TypeOK, Frame, Pruned

LEMMA GotoFrame ==
  ASSUME TypeOK, NEW p \in Procs, NEW step, Goto(p, step), UNCHANGED <<logs, runs, clock, clockSets>>,
         step \in Pruned => pc[p] \in Pruned
  PROVE  Frame
BY DEF Goto, TypeOK, Frame, Pruned

LEMMA StepFrame ==
  ASSUME TypeOK, [Next]_vars
  PROVE  \/ Frame
         \/ \E p \in Procs, s \in Stems : Start(p, s)
         \/ \E p \in Procs : ReadLogDir(p)
         \/ \E p \in Procs : \E l \in old[p] : RemoveLog(p) /\ logs' = logs \ {l}
<1> USE DEF files, bounds
<1>1. ASSUME NEW p \in Procs, AcquireLock(p) PROVE Frame
  <2>1. CASE Exit(p)
    BY <1>1, <2>1, ExitFrame DEF AcquireLock
  <2>2. CASE pc' = [pc EXCEPT ![p] = "loadConfig"] /\ UNCHANGED <<own, old, mark>>
    BY <1>1, <2>2 DEF AcquireLock, TypeOK, Frame, Pruned
  <2> QED
    BY <1>1, <2>1, <2>2 DEF AcquireLock
<1>2. ASSUME NEW p \in Procs, LoadConfig(p) PROVE Frame
  <2>1. Exit(p) \/ Goto(p, "remove1") \/ Goto(p, "readLogDir")
    BY <1>2 DEF LoadConfig
  <2>2. UNCHANGED <<logs, runs, clock, clockSets>>
    BY <1>2 DEF LoadConfig
  <2> QED
    BY <2>1, <2>2, ExitFrame, GotoFrame DEF Pruned
<1>3. ASSUME NEW p \in Procs, UninstallFile(p) PROVE Frame
  <2>1. Exit(p) \/ Goto(p, "remove2")
    BY <1>3 DEF UninstallFile
  <2>2. UNCHANGED <<logs, runs, clock, clockSets>>
    BY <1>3 DEF UninstallFile
  <2> QED
    BY <2>1, <2>2, ExitFrame, GotoFrame DEF Pruned
<1>4. ASSUME NEW p \in Procs, RemoveLog(p)
      PROVE  Frame \/ \E l \in old[p] : logs' = logs \ {l}
  <2>1. UNCHANGED <<runs, clock, clockSets>> /\ pc[p] = "removeLogs"
    BY <1>4 DEF RemoveLog
  <2>2. \/ \E l \in old[p] : logs' = logs \ {l}
        \/ (Goto(p, "sync") \/ Exit(p)) /\ UNCHANGED logs
    BY <1>4 DEF RemoveLog
  <2> QED
    BY <2>1, <2>2, ExitFrame, GotoFrame DEF Pruned
<1>5. ASSUME NEW p \in Procs, Sync(p) \/ Kill(p) PROVE Frame
  BY <1>5, ExitFrame DEF Sync, Kill
<1>6. CASE SetClock \/ EditConfig
  <2>1. UNCHANGED <<pc, own, old, mark, logs, runs>>
    BY <1>6 DEF SetClock, EditConfig
  <2>2. clockSets' = 0 => clockSets = 0 /\ UNCHANGED clock
    BY <1>6, InstancesAssumption DEF SetClock, EditConfig, TypeOK
  <2> QED
    BY <2>1, <2>2 DEF Frame
<1>7. CASE UNCHANGED vars
  BY <1>7 DEF vars, Frame
<1> QED
  BY <1>1, <1>2, <1>3, <1>4, <1>5, <1>6, <1>7 DEF Next, Step

-----------------------------------------------------------------------------
\* The invariants, one by one.
LEMMA LogsInit == Init => LogsInv /\ LeftInv /\ ClockInv /\ AfterInv
  BY FS_EmptySet DEF Init, LogsInv, LeftInv, ClockInv, AfterInv, Pruned

\* A process starts: its log is the youngest, and its name is free.
LEMMA StartLog ==
  ASSUME TypeOK, LogInv, LogsInv, NEW p \in Procs, NEW s \in Stems, Start(p, s)
  PROVE  \E log :
           /\ logs' = logs \cup {log} /\ log \notin logs
           /\ log.stem = s /\ log.at = clock /\ log.pid = p /\ log.born = runs + 1
           /\ \A l \in logs : ~(l.stem = s /\ l.at = clock /\ l.pid = p)
           /\ runs \in Nat /\ clock \in Nat /\ runs' = runs + 1 /\ clock' = clock + 1
           /\ pc'[p] \notin Pruned /\ old[p] = {}
           /\ UNCHANGED <<old, mark, clockSets>>
           /\ \A q \in Procs \ {p} : pc'[q] = pc[q] /\ own'[q] = own[q]
<1> DEFINE log == [stem |-> s, at |-> clock, pid |-> p, born |-> runs + 1]
<1>1. logs' = logs \cup {log}
      /\ log.stem = s /\ log.at = clock /\ log.pid = p /\ log.born = runs + 1
  BY DEF Start
<1>2. \A l \in logs : ~(l.stem = s /\ l.at = clock /\ l.pid = p)
  BY DEF Start
<1>3. /\ runs \in Nat /\ clock \in Nat /\ runs' = runs + 1 /\ clock' = clock + 1
      /\ pc'[p] \notin Pruned /\ old[p] = {}
      /\ UNCHANGED <<old, mark, clockSets>>
      /\ \A q \in Procs \ {p} : pc'[q] = pc[q] /\ own'[q] = own[q]
  BY InstancesAssumption DEF Start, TypeOK, Pruned, LogInv, bounds
<1>4. log \notin logs
  BY <1>1, <1>2
<1> HIDE DEF log
<1> QED
  BY <1>1, <1>2, <1>3, <1>4

\* A process lists the directory.
LEMMA ListLogs ==
  ASSUME TypeOK, LogInv, LogsInv, NEW p \in Procs, ReadLogDir(p)
  PROVE  \E log \in own[p] :
           /\ own[p] = {log} /\ old' = [old EXCEPT ![p] = surplus(matching(log.stem, logs))]
           /\ mark' = [mark EXCEPT ![p] = runs]
           /\ pc' = [pc EXCEPT ![p] = "removeLogs"]
           /\ UNCHANGED <<own, logs, runs, clock, clockSets>>
  BY DEF ReadLogDir, LogInv, files, bounds

\* A process removes the last of its names; it alone is at work.
LEMMA TakeLog ==
  ASSUME TypeOK, LockInv, LogInv, NEW p \in Procs, NEW l \in old[p], RemoveLog(p), logs' = logs \ {l}
  PROVE  /\ l \in logs
         /\ \A m \in old[p] \ {l} : before(m, l)
         /\ old' = [old EXCEPT ![p] = @ \ {l}] /\ UNCHANGED <<pc, own, mark>>
         /\ UNCHANGED <<runs, clock, clockSets>>
         /\ \A q \in Procs \ {p} : pc[q] \notin Pruned /\ old[q] = {}
<1>1. l \in logs /\ pc[p] = "removeLogs"
  BY DEF LogInv, RemoveLog
<1>2. PICK k \in old[p] :
        /\ \A m \in old[p] \ {k} : before(m, k)
        /\ logs' = logs \ {k} /\ old' = [old EXCEPT ![p] = @ \ {k}] /\ UNCHANGED <<pc, own, mark>>
  BY <1>1 DEF RemoveLog
<1>3. k = l
  BY <1>1, <1>2 DEF LogInv
<1>4. \A q \in Procs \ {p} : pc[q] \notin Pruned /\ old[q] = {}
  BY <1>1 DEF LockInv, Working, LogInv, Pruned
<1> QED
  BY <1>1, <1>2, <1>3, <1>4 DEF RemoveLog, bounds

LEMMA LogsStep ==
  ASSUME IInv, IInv', LogsInv, ClockInv, [Next]_vars
  PROVE  LogsInv' /\ ClockInv'
<1> USE DEF IInv
<1>1. CASE Frame
  <2>1. LogsInv'
    BY <1>1, InstancesAssumption DEF Frame, LogsInv, TypeOK
  <2>2. ClockInv'
    BY <1>1 DEF Frame, ClockInv
  <2> QED
    BY <2>1, <2>2
<1>2. ASSUME NEW p \in Procs, NEW s \in Stems, Start(p, s) PROVE LogsInv' /\ ClockInv'
  <2>1. PICK log :
           /\ logs' = logs \cup {log}
           /\ log.stem = s /\ log.at = clock /\ log.pid = p /\ log.born = runs + 1
           /\ \A l \in logs : ~(l.stem = s /\ l.at = clock /\ l.pid = p)
           /\ runs \in Nat /\ clock \in Nat /\ runs' = runs + 1 /\ clock' = clock + 1
           /\ UNCHANGED <<mark, clockSets>>
    BY <1>2, StartLog
  <2>2. IsFiniteSet(logs')
    BY <2>1, FS_AddElement DEF LogsInv
  <2>3. \A l \in logs : l.born \in Nat /\ l.at \in Nat
    BY DEF TypeOK, LogName
  <2>4. \A q \in Procs : mark[q] \in Nat
    BY DEF TypeOK
  <2>5. LogsInv'
    BY <2>1, <2>2, <2>3, <2>4 DEF LogsInv
  <2>6. ClockInv'
    BY <2>1, <2>3 DEF ClockInv, LogsInv
  <2> QED
    BY <2>5, <2>6
<1>3. ASSUME NEW p \in Procs, ReadLogDir(p) PROVE LogsInv' /\ ClockInv'
  <2>1. UNCHANGED <<logs, runs, clock, clockSets>> /\ mark' = [mark EXCEPT ![p] = runs]
    BY <1>3, ListLogs
  <2> QED
    BY <2>1 DEF LogsInv, ClockInv, TypeOK
<1>4. ASSUME NEW p \in Procs, NEW l \in old[p], RemoveLog(p), logs' = logs \ {l}
      PROVE  LogsInv' /\ ClockInv'
  <2>1. UNCHANGED <<mark, runs, clock, clockSets>>
    BY <1>4, TakeLog
  <2>2. IsFiniteSet(logs')
    BY <1>4, FS_RemoveElement DEF LogsInv
  <2> QED
    BY <1>4, <2>1, <2>2 DEF LogsInv, ClockInv
<1> QED
  BY <1>1, <1>2, <1>3, <1>4, StepFrame

LEMMA LeftStep ==
  ASSUME IInv, LogsInv, LeftInv, [Next]_vars
  PROVE  LeftInv'
<1> USE DEF IInv
<1>0. \A q \in Procs : mark[q] \in Nat /\ mark[q] <= runs
  BY DEF TypeOK, LogsInv
<1>1. CASE Frame
  BY <1>1 DEF Frame, LeftInv, Left, matching
<1>2. ASSUME NEW p \in Procs, NEW s \in Stems, Start(p, s) PROVE LeftInv'
  <2>1. PICK log :
           /\ logs' = logs \cup {log} /\ log.born = runs + 1 /\ runs \in Nat
           /\ pc'[p] \notin Pruned /\ UNCHANGED <<old, mark>>
           /\ \A q \in Procs \ {p} : pc'[q] = pc[q] /\ own'[q] = own[q]
    BY <1>2, StartLog
  <2>2. ASSUME NEW q \in Procs, NEW stem PROVE Left(q, stem)' = Left(q, stem)
    BY <1>0, <2>1 DEF Left, matching
  <2> QED
    BY <2>1, <2>2 DEF LeftInv
<1>3. ASSUME NEW p \in Procs, ReadLogDir(p) PROVE LeftInv'
  <2>1. PICK log \in own[p] :
           /\ own[p] = {log} /\ old' = [old EXCEPT ![p] = surplus(matching(log.stem, logs))]
           /\ mark' = [mark EXCEPT ![p] = runs]
           /\ pc' = [pc EXCEPT ![p] = "removeLogs"]
           /\ UNCHANGED <<own, logs>>
    BY <1>3, ListLogs
  <2>2. \A q \in Procs \ {p} : pc'[q] = pc[q] /\ \A stem : Left(q, stem)' = Left(q, stem)
    BY <2>1 DEF TypeOK, Left, matching
  <2>3. Left(p, log.stem)' = matching(log.stem, logs) \ surplus(matching(log.stem, logs))
    BY <2>1 DEF TypeOK, Left, matching, LogsInv
  <2>4. Cardinality(Left(p, log.stem)') <= RetainedFiles
    BY <2>3, SurplusBound DEF matching
  <2> QED
    BY <2>1, <2>2, <2>4 DEF LeftInv
<1>4. ASSUME NEW p \in Procs, NEW l \in old[p], RemoveLog(p), logs' = logs \ {l}
      PROVE  LeftInv'
  <2>1. /\ old' = [old EXCEPT ![p] = @ \ {l}] /\ UNCHANGED <<pc, own, mark>>
        /\ \A q \in Procs \ {p} : pc[q] \notin Pruned
    BY <1>4, TakeLog
  <2>2. \A stem : Left(p, stem)' = Left(p, stem)
    BY <1>4, <2>1 DEF TypeOK, Left, matching
  <2> QED
    BY <2>1, <2>2 DEF LeftInv
<1> QED
  BY <1>1, <1>2, <1>3, <1>4, StepFrame

\* Names of one configuration do not extend those of another.
Unrelated == \A s \in Stems : Extends[s] = {s}

LEMMA AfterStep ==
  ASSUME Unrelated, IInv, IInv', LogsInv, LogsInv', AfterInv, [Next]_vars
  PROVE  AfterInv'
<1> USE DEF IInv
<1>0. RetainedFiles \in Nat
  BY InstancesAssumption
<1>1. CASE Frame
  BY <1>1 DEF Frame, AfterInv, After, before
<1>2. ASSUME NEW p \in Procs, NEW s \in Stems, Start(p, s) PROVE AfterInv'
  <2>1. logs \subseteq logs' /\ UNCHANGED old
    BY <1>2, StartLog
  <2>2. ASSUME NEW q \in Procs, NEW l \in old[q],
               Cardinality(After(q, l)) >= RetainedFiles
        PROVE  Cardinality(After(q, l)') >= RetainedFiles
    <3>1. After(q, l) \subseteq After(q, l)' /\ After(q, l)' \subseteq logs'
      BY <2>1 DEF After, before
    <3>2. IsFiniteSet(After(q, l)')
      BY <3>1, FS_Subset DEF LogsInv
    <3>3. Cardinality(After(q, l)) \in Nat /\ Cardinality(After(q, l)') \in Nat
          /\ Cardinality(After(q, l)) <= Cardinality(After(q, l)')
      BY <3>1, <3>2, FS_Subset, FS_CardinalityType
    <3> QED
      BY <1>0, <2>2, <3>3
  <2> QED
    BY <2>1, <2>2 DEF AfterInv, before
<1>3. ASSUME NEW p \in Procs, ReadLogDir(p) PROVE AfterInv'
  <2>1. PICK log \in own[p] :
           /\ old' = [old EXCEPT ![p] = surplus(matching(log.stem, logs))] /\ UNCHANGED logs
    BY <1>3, ListLogs
  <2> DEFINE names == matching(log.stem, logs)
  <2>2. names \subseteq logs /\ \A l \in names : l.stem = log.stem
    <3>1. log.stem \in Stems
      BY <2>1 DEF TypeOK, LogName
    <3> QED
      BY <3>1 DEF Unrelated, matching
  <2>3. old'[p] = surplus(names) /\ surplus(names) \subseteq names
        /\ \A q \in Procs \ {p} : old'[q] = old[q]
    BY <2>1 DEF TypeOK, surplus
  <2>4. ASSUME NEW l \in old'[p], \A m \in old'[p] \ {l} : before(m, l)
        PROVE  Cardinality(After(p, l)') >= RetainedFiles
    <3> DEFINE later == {m \in names : before(l, m)}
    <3>1. Cardinality(later) >= RetainedFiles /\ l \in names
      BY <2>3 DEF surplus
    <3>2. \A m \in later : m \notin old'[p]
      BY <2>2, <2>3, <2>4, <3>1, BeforeOrder
    <3>3. later \subseteq After(p, l)' /\ After(p, l)' \subseteq logs
      BY <2>1, <2>2, <3>1, <3>2 DEF After, before
    <3> HIDE DEF later
    <3>4. IsFiniteSet(After(p, l)')
      BY <3>3, FS_Subset DEF LogsInv
    <3>5. Cardinality(later) \in Nat /\ Cardinality(After(p, l)') \in Nat
          /\ Cardinality(later) <= Cardinality(After(p, l)')
      BY <3>3, <3>4, FS_Subset, FS_CardinalityType
    <3> QED
      BY <1>0, <3>1, <3>5
  <2>5. \A q \in Procs \ {p} : \A l : After(q, l)' = After(q, l)
    BY <2>1, <2>3 DEF After, before
  <2> QED
    BY <2>2, <2>3, <2>4, <2>5 DEF AfterInv, before
<1>4. ASSUME NEW p \in Procs, NEW l \in old[p], RemoveLog(p), logs' = logs \ {l}
      PROVE  AfterInv'
  <2>1. /\ l \in logs /\ old'[p] = old[p] \ {l} /\ \A m \in old[p] \ {l} : before(m, l)
        /\ \A q \in Procs \ {p} : old'[q] = {}
    BY <1>4, TakeLog DEF TypeOK
  <2>2. old[p] \subseteq logs
    BY DEF LogInv
  <2>3. Cardinality(After(p, l)) >= RetainedFiles
    BY <1>4, <2>1 DEF AfterInv
  <2>4. ASSUME NEW k \in old'[p] PROVE Cardinality(After(p, k)') >= RetainedFiles
    <3>1. k \in logs /\ before(k, l) /\ k.stem = l.stem
      BY <2>1, <2>2, <2>4 DEF AfterInv
    <3>2. After(p, l) \subseteq After(p, k)' /\ After(p, k)' \subseteq logs'
      <4>1. ASSUME NEW m \in After(p, l) PROVE m \in logs' \ old'[p] /\ m.stem = k.stem /\ before(k, m)
        BY <1>4, <2>1, <3>1, BeforeOrder DEF After
      <4> QED
        BY <4>1 DEF After, before
    <3>3. IsFiniteSet(After(p, k)')
      BY <3>2, FS_Subset DEF LogsInv
    <3>4. Cardinality(After(p, l)) \in Nat /\ Cardinality(After(p, k)') \in Nat
          /\ Cardinality(After(p, l)) <= Cardinality(After(p, k)')
      BY <3>2, <3>3, FS_Subset, FS_CardinalityType
    <3> QED
      BY <1>0, <2>3, <3>4
  <2> QED
    BY <2>1, <2>4 DEF AfterInv
<1> QED
  BY <1>1, <1>2, <1>3, <1>4, StepFrame

-----------------------------------------------------------------------------
\* A pruning that gets to its end has left no more of the logs it listed than
\* RetainedFiles, whatever the clock does and whichever logs appear meanwhile.
THEOREM RetentionBoundedHolds == Spec => []RetentionBounded
<1>1. IInv /\ LeftInv => RetentionBounded
  <2> SUFFICES ASSUME IInv, LeftInv, NEW p \in Procs, pc[p] = "sync", NEW log \in own[p]
               PROVE  Cardinality({l \in matching(log.stem, logs) : l.born <= mark[p]}) <= RetainedFiles
    BY DEF RetentionBounded
  <2>1. Left(p, log.stem) = {l \in matching(log.stem, logs) : l.born <= mark[p]}
    BY DEF IInv, LogInv, Left
  <2> QED
    BY <2>1 DEF LeftInv, Pruned
<1> QED
  BY <1>1, InvCorrect, LogsInit, LogsStep, LeftStep, PTL DEF Spec

\* With names that do not extend one another, and until somebody sets the clock, no log
\* is removed before RetainedFiles younger ones of its configuration are there to stay.
THEOREM NewestLogsStayHolds ==
  ASSUME Unrelated
  PROVE  Spec => NewestLogsStay
<1> DEFINE Stays == clockSets = 0 => \A l \in logs \ logs' :
             Cardinality({m \in logs' : m.stem = l.stem /\ m.born > l.born}) >= RetainedFiles
<1>1. ASSUME IInv, LogsInv, ClockInv, AfterInv, LogsInv', [Next]_vars PROVE Stays
  <2> USE DEF IInv
  <2> SUFFICES ASSUME clockSets = 0, NEW l \in logs \ logs'
               PROVE  Cardinality({m \in logs' : m.stem = l.stem /\ m.born > l.born}) >= RetainedFiles
    OBVIOUS
  <2> DEFINE younger == {m \in logs' : m.stem = l.stem /\ m.born > l.born}
  <2>1. PICK p \in Procs : \E k \in old[p] : RemoveLog(p) /\ logs' = logs \ {k}
    BY <1>1, StepFrame, StartLog, ListLogs DEF Frame
  <2>2. l \in old[p] /\ RemoveLog(p) /\ logs' = logs \ {l}
    BY <2>1
  <2>3. Cardinality(After(p, l)) >= RetainedFiles
    BY <1>1, <2>2, TakeLog DEF AfterInv
  <2>4. ASSUME NEW m \in After(p, l) PROVE m \in younger
    <3>1. m \in logs' /\ m \in logs /\ m # l /\ m.stem = l.stem /\ before(l, m)
      BY <2>2, <2>4 DEF After
    <3>2. /\ l.born \in Nat /\ m.born \in Nat /\ l.at \in Nat /\ m.at \in Nat
          /\ l.stem \in Nat /\ l.born # m.born
      BY <1>1, <3>1, LogTypes DEF LogsInv
    <3>3. l.at <= m.at
      BY <3>1, <3>2 DEF before
    <3>4. ~(m.born < l.born)
      BY <1>1, <3>1, <3>2, <3>3 DEF ClockInv
    <3> QED
      BY <3>1, <3>2, <3>4
  <2> HIDE DEF younger
  <2>5. younger \subseteq logs'
    BY DEF younger
  <2>6. IsFiniteSet(younger)
    BY <1>1, <2>5, FS_Subset DEF LogsInv
  <2>7. After(p, l) \in SUBSET younger
    BY <2>4
  <2>8. Cardinality(After(p, l)) \in Nat /\ Cardinality(younger) \in Nat
        /\ Cardinality(After(p, l)) <= Cardinality(younger)
    BY <2>6, <2>7, FS_Subset, FS_CardinalityType
  <2> QED
    BY <2>3, <2>8, InstancesAssumption DEF younger
<1>2. Init => LogsInv /\ ClockInv /\ AfterInv
  BY LogsInit
<1>3. ASSUME IInv, IInv', LogsInv, ClockInv, AfterInv, [Next]_vars
      PROVE  LogsInv' /\ ClockInv' /\ AfterInv'
  BY <1>3, LogsStep, AfterStep
<1> QED
  BY <1>1, <1>2, <1>3, InvCorrect, PTL DEF Spec, NewestLogsStay
=============================================================================
