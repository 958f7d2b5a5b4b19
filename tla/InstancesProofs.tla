--------------------------- MODULE InstancesProofs ---------------------------
(***************************************************************************)
(* The lock and the uninstallation, for any number of processes and           *)
(* configurations, however often processes are killed and calls fail.         *)
(***************************************************************************)
EXTENDS Instances, TLAPS

Steps == {"none", "acquireLock", "loadConfig", "remove1", "remove2",
          "readLogDir", "removeLogs", "sync"}

\* What a process does leaves the other processes alone.
Others(p) == \A q \in Procs \ {p} :
  pc'[q] = pc[q] /\ own'[q] = own[q] /\ old'[q] = old[q] /\ mark'[q] = mark[q]

LEMMA InitInv == Init => IInv
<1> SUFFICES ASSUME Init PROVE IInv
  OBVIOUS
<1>1. TypeOK
  <2>1. config \in [Stems -> ConfigState]
    BY DEF Init, ConfigState
  <2>2. /\ mark \in [Procs -> 0 .. MaxRuns]
        /\ runs \in 0 .. MaxRuns /\ clock \in 0 .. MaxRuns + runs
        /\ faults \in 0 .. MaxFaults /\ kills \in 0 .. MaxKills
        /\ clockSets \in 0 .. MaxClockSets
    BY InstancesAssumption DEF Init
  <2> QED
    BY <2>1, <2>2 DEF Init, TypeOK
<1>2. LockInv /\ LogInv /\ UninstallInv
  BY InstancesAssumption DEF Init, LockInv, LogInv, UninstallInv, NoDanglingRule, Working
<1>3. MissedInv
  BY InstancesAssumption DEF Init, MissedInv, OnlyMissingUninstalls
<1> QED
  BY <1>1, <1>2, <1>3 DEF IInv

\* A process that ends, from wherever it is, preserves the types of what it leaves.
LEMMA ExitType ==
  ASSUME TypeOK, NEW p \in Procs, Exit(p)
  PROVE  /\ pc' \in [Procs -> Steps] /\ own' \in [Procs -> SUBSET LogName]
         /\ old' \in [Procs -> SUBSET LogName] /\ mark' \in [Procs -> 0 .. MaxRuns]
         /\ lock' \in Procs \cup {None}
         /\ pc'[p] = "none" /\ own'[p] = {} /\ old'[p] = {} /\ Others(p)
         /\ (lock = p => lock' = None) /\ (lock # p => lock' = lock)
  BY InstancesAssumption DEF TypeOK, Exit, released, Steps, Others

\* So does one that goes on.
LEMMA GotoType ==
  ASSUME TypeOK, NEW p \in Procs, NEW step \in Steps, Goto(p, step)
  PROVE  /\ pc' \in [Procs -> Steps]
         /\ pc'[p] = step /\ Others(p) /\ UNCHANGED <<own, old, mark, lock>>
  BY DEF TypeOK, Goto, Steps, Others

\* The lock follows the processes that end.
LEMMA ExitLock ==
  ASSUME TypeOK, LockInv, NEW p \in Procs, Exit(p)
  PROVE  LockInv'
  BY ExitType, InstancesAssumption DEF LockInv, Working, Others

\* And the removals under way stay within the directory.
LEMMA ExitLogs ==
  ASSUME TypeOK, LogInv, NEW p \in Procs, Exit(p), logs' = logs
  PROVE  LogInv'
<1>1. pc'[p] = "none" /\ own'[p] = {} /\ old'[p] = {} /\ Others(p)
  BY ExitType
<1> QED
  BY <1>1 DEF LogInv, Others

\* A process that ends cannot be about to remove the second file.
LEMMA ExitUninstall ==
  ASSUME TypeOK, UninstallInv, NEW p \in Procs, Exit(p), UNCHANGED installed,
         faults' = 0 => faults = 0
  PROVE  UninstallInv'
<1>1. pc'[p] = "none" /\ Others(p)
  BY ExitType
<1> QED
  BY <1>1 DEF UninstallInv, NoDanglingRule, Others

\* A step that leaves the configuration and the installed files alone, and starts no
\* uninstallation.
LEMMA MissedKept ==
  ASSUME MissedInv, UNCHANGED <<config, installed, missed>>,
         \A q \in Procs : pc'[q] \in {"remove1", "remove2"} => pc[q] \in {"remove1", "remove2"}
  PROVE  MissedInv'
  BY DEF MissedInv, OnlyMissingUninstalls

LEMMA FaultCounts ==
  ASSUME TypeOK, Fault \/ UNCHANGED faults
  PROVE  faults' \in 0 .. MaxFaults /\ (faults' = 0 => faults = 0 /\ UNCHANGED faults)
  BY InstancesAssumption DEF TypeOK, Fault

\* The steps that end the process and change nothing else.
LEMMA EndInv ==
  ASSUME IInv, NEW p \in Procs, Exit(p), Fault \/ UNCHANGED faults,
         UNCHANGED <<files, runs, clock, clockSets>>, kills' \in 0 .. MaxKills
  PROVE  IInv'
<1>1. TypeOK'
  BY ExitType, FaultCounts DEF IInv, TypeOK, files, Steps
<1>2. MissedInv'
  <2>1. pc'[p] = "none" /\ Others(p)
    BY ExitType DEF IInv
  <2> QED
    BY <2>1, MissedKept DEF IInv, files, Others
<1> QED
  BY <1>1, <1>2, ExitLock, ExitLogs, ExitUninstall, FaultCounts DEF IInv, files

\* The steps of a process that works and goes on to work.
LEMMA GoOnInv ==
  ASSUME IInv, NEW p \in Working, NEW step \in Steps \ {"none", "acquireLock"},
         pc' = [pc EXCEPT ![p] = step], UNCHANGED <<own, lock>>,
         step = "remove2" /\ faults' = 0 => "rule" \notin installed',
         UninstallInv' \/ UNCHANGED installed, faults' = 0 => faults = 0
  PROVE  LockInv' /\ UninstallInv'
<1>1. p \in Procs /\ pc'[p] = step /\ \A q \in Procs \ {p} : pc'[q] = pc[q]
  BY DEF Working, IInv, TypeOK
<1>2. LockInv'
  BY <1>1 DEF LockInv, Working, IInv
<1>3. UninstallInv'
  BY <1>1 DEF UninstallInv, NoDanglingRule, IInv
<1> QED
  BY <1>2, <1>3

LEMMA StartInv ==
  ASSUME IInv, NEW p \in Procs, NEW stem \in Stems, Start(p, stem)
  PROVE  IInv'
<1> DEFINE log == [stem |-> stem, at |-> clock, pid |-> p, born |-> runs + 1]
<1>1. log \in LogName
  BY InstancesAssumption DEF Start, LogName, IInv, TypeOK
<1>2. logs' = logs \cup {log} /\ own' = [own EXCEPT ![p] = {log}]
      /\ pc[p] = "none" /\ pc' = [pc EXCEPT ![p] = "acquireLock"]
      /\ UNCHANGED <<old, mark, lock, config, installed, missed, faults, bounds>>
  BY DEF Start
<1>3. runs' = runs + 1 /\ runs < MaxRuns /\ clock' = clock + 1
  BY DEF Start
<1>4. TypeOK'
  <2>1. runs' \in 0 .. MaxRuns /\ clock' \in 0 .. MaxRuns + runs'
    BY <1>3, InstancesAssumption DEF IInv, TypeOK
  <2>2. /\ pc' \in [Procs -> Steps] /\ own' \in [Procs -> SUBSET LogName]
        /\ logs' \subseteq LogName
    BY <1>1, <1>2 DEF IInv, TypeOK, Steps
  <2> QED
    BY <1>2, <2>1, <2>2 DEF IInv, TypeOK, Steps, bounds
<1>5. LockInv'
  BY <1>2 DEF IInv, TypeOK, LockInv, Working
<1>6. LogInv'
  BY <1>2 DEF IInv, TypeOK, LogInv
<1>7. UninstallInv'
  BY <1>2 DEF IInv, TypeOK, UninstallInv, NoDanglingRule
<1>8. MissedInv'
  BY <1>2, MissedKept DEF IInv, TypeOK
<1> QED
  BY <1>4, <1>5, <1>6, <1>7, <1>8 DEF IInv

LEMMA AcquireInv ==
  ASSUME IInv, NEW p \in Procs, AcquireLock(p)
  PROVE  IInv'
<1>1. CASE Exit(p)
  BY <1>1, EndInv DEF AcquireLock, bounds, IInv, TypeOK
<1>2. CASE /\ lockFree /\ lock' = p /\ pc' = [pc EXCEPT ![p] = "loadConfig"]
           /\ UNCHANGED <<own, old, mark, faults>>
  <2>1. UNCHANGED <<files, runs, clock, faults, bounds>> /\ pc[p] = "acquireLock"
    BY <1>2 DEF AcquireLock
  <2>2. TypeOK'
    BY <1>2, <2>1 DEF IInv, TypeOK, files, bounds
  <2>3. LockInv'
    BY <1>2, <2>1, InstancesAssumption DEF IInv, TypeOK, LockInv, Working, lockFree
  <2>4. LogInv'
    BY <1>2, <2>1 DEF IInv, TypeOK, LogInv, files
  <2>5. UninstallInv'
    BY <1>2, <2>1 DEF IInv, TypeOK, UninstallInv, NoDanglingRule, files
  <2>6. MissedInv'
    BY <1>2, <2>1, MissedKept DEF IInv, TypeOK, files
  <2> QED
    BY <2>2, <2>3, <2>4, <2>5, <2>6 DEF IInv
<1> QED
  BY <1>1, <1>2 DEF AcquireLock

LEMMA LoadInv ==
  ASSUME IInv, NEW p \in Procs, LoadConfig(p)
  PROVE  IInv'
<1>1. /\ UNCHANGED <<files, runs, clock, bounds>> /\ pc[p] = "loadConfig"
      /\ Fault \/ UNCHANGED faults
  BY DEF LoadConfig
<1>2. CASE Exit(p)
  BY <1>1, <1>2, EndInv DEF bounds, IInv, TypeOK
<1>3. CASE /\ \/ Goto(p, "remove1") /\ config[DefaultStem] = "absent"
              \/ Goto(p, "readLogDir")
           /\ UNCHANGED faults
  <2>1. PICK step \in {"remove1", "readLogDir"} :
          Goto(p, step) /\ (step = "remove1" => config[DefaultStem] = "absent")
    BY <1>3
  <2>2. p \in Working /\ step \in Steps \ {"none", "acquireLock"}
    BY <1>1 DEF Working, Steps
  <2>3. LockInv' /\ UninstallInv'
    BY <1>1, <1>3, <2>1, <2>2, GoOnInv DEF Goto, files
  <2>4. TypeOK'
    BY <1>1, <1>3, <2>1, <2>2, GotoType DEF IInv, TypeOK, files, bounds, Steps
  <2>5. LogInv'
    BY <1>1, <2>1, <2>2, GotoType DEF IInv, LogInv, files, Others
  <2>6. MissedInv'
    <3>1. pc'[p] = step /\ Others(p)
      BY <2>1, <2>2, GotoType DEF IInv
    <3>2. UNCHANGED <<config, installed, missed>>
      BY <1>1 DEF files
    <3> QED
      BY <2>1, <3>1, <3>2 DEF IInv, MissedInv, OnlyMissingUninstalls, Others
  <2> QED
    BY <2>3, <2>4, <2>5, <2>6 DEF IInv
<1> QED
  BY <1>2, <1>3 DEF LoadConfig, uninstalls

LEMMA UninstallStepInv ==
  ASSUME IInv, NEW p \in Procs, UninstallFile(p)
  PROVE  IInv'
<1>1. /\ UNCHANGED <<logs, config, missed, runs, clock, bounds>>
      /\ Fault \/ UNCHANGED faults
      /\ installed' \subseteq installed
  BY DEF UninstallFile
<1>0. missed /\ missed' /\ MissedInv'
  <2>1. pc[p] \in {"remove1", "remove2"}
    BY DEF UninstallFile, installFiles
  <2> QED
    BY <1>1, <2>1 DEF IInv, MissedInv, OnlyMissingUninstalls
<1>2. faults' = 0 => faults = 0 /\ UNCHANGED faults
  BY <1>1, FaultCounts DEF IInv
<1>3. CASE /\ pc[p] = "remove1" /\ Goto(p, "remove2")
           /\ \/ installed' = installed \ {"rule"} /\ UNCHANGED faults
              \/ Fault /\ UNCHANGED installed
  <2>1. p \in Working /\ "remove2" \in Steps \ {"none", "acquireLock"}
    BY <1>3 DEF Working, Steps
  <2>2. faults' = 0 => "rule" \notin installed'
    BY <1>3, InstancesAssumption DEF Fault, IInv, TypeOK
  <2>3. pc'[p] = "remove2" /\ Others(p) /\ UNCHANGED <<own, old, mark, lock>>
    BY <1>3, <2>1, GotoType DEF IInv
  <2>4. UninstallInv'
    BY <1>2, <2>2 DEF UninstallInv, NoDanglingRule
  <2>5. LockInv'
    BY <2>1, <2>3, <1>3 DEF IInv, LockInv, Working, Others
  <2>6. TypeOK'
    BY <1>1, <1>3, <2>1, FaultCounts, GotoType DEF IInv, TypeOK, bounds, Steps
  <2>7. LogInv'
    BY <1>1, <1>3, <2>3 DEF IInv, LogInv, Others
  <2> QED
    BY <1>0, <2>4, <2>5, <2>6, <2>7 DEF IInv
<1>4. CASE /\ pc[p] = "remove2" /\ Exit(p)
           /\ \/ installed' = installed \ {"binary"} /\ UNCHANGED faults
              \/ Fault /\ UNCHANGED installed
  <2>1. TypeOK'
    BY <1>1, <1>4, FaultCounts, ExitType DEF IInv, TypeOK, bounds, Steps
  <2>2. LockInv' /\ LogInv'
    BY <1>1, <1>4, ExitLock, ExitLogs DEF IInv
  <2>3. UninstallInv'
    <3>1. pc'[p] = "none" /\ Others(p)
      BY <1>4, ExitType DEF IInv
    <3>2. faults' = 0 => "rule" \notin installed /\ "rule" \notin installed'
      BY <1>1, <1>2, <1>4 DEF IInv, UninstallInv
    <3> QED
      BY <3>1, <3>2 DEF UninstallInv, NoDanglingRule, Others
  <2> QED
    BY <1>0, <2>1, <2>2, <2>3 DEF IInv
<1> QED
  BY <1>3, <1>4 DEF UninstallFile, installFiles

LEMMA ReadLogDirInv ==
  ASSUME IInv, NEW p \in Procs, ReadLogDir(p)
  PROVE  IInv'
<1>1. PICK log \in own[p] : old' = [old EXCEPT ![p] = surplus(matching(log.stem, logs))]
  BY DEF ReadLogDir
<1>2. surplus(matching(log.stem, logs)) \subseteq logs
  BY DEF surplus, matching
<1>3. /\ pc[p] = "readLogDir" /\ mark' = [mark EXCEPT ![p] = runs]
      /\ pc' = [pc EXCEPT ![p] = "removeLogs"]
      /\ UNCHANGED <<own, lock, files, runs, clock, faults, bounds>>
  BY DEF ReadLogDir
<1>4. p \in Working /\ "removeLogs" \in Steps \ {"none", "acquireLock"}
  BY <1>3 DEF Working, Steps
<1>5. LockInv' /\ UninstallInv'
  BY <1>3, <1>4, GoOnInv DEF files
<1>6. TypeOK'
  BY <1>1, <1>2, <1>3 DEF IInv, TypeOK, files, bounds
<1>7. LogInv'
  BY <1>1, <1>2, <1>3 DEF IInv, TypeOK, LogInv, files
<1>8. MissedInv'
  BY <1>3, MissedKept DEF IInv, TypeOK, files
<1> QED
  BY <1>5, <1>6, <1>7, <1>8 DEF IInv

LEMMA RemoveLogInv ==
  ASSUME IInv, NEW p \in Procs, RemoveLog(p)
  PROVE  IInv'
<1>1. pc[p] = "removeLogs" /\ UNCHANGED <<config, installed, missed, runs, clock, bounds>>
  BY DEF RemoveLog
<1>2. p \in Working /\ "sync" \in Steps \ {"none", "acquireLock"}
  BY <1>1 DEF Working, Steps
<1>3. CASE \E l \in old[p] :
             /\ logs' = logs \ {l} /\ old' = [old EXCEPT ![p] = @ \ {l}]
             /\ UNCHANGED <<pc, own, mark, lock, faults>>
  <2>1. PICK l \in old[p] :
          /\ logs' = logs \ {l} /\ old' = [old EXCEPT ![p] = @ \ {l}]
          /\ UNCHANGED <<pc, own, mark, lock, faults>>
    BY <1>3
  <2>2. TypeOK'
    BY <1>1, <2>1 DEF IInv, TypeOK, bounds
  <2>3. LockInv' /\ UninstallInv'
    BY <1>1, <2>1 DEF IInv, LockInv, Working, UninstallInv, NoDanglingRule
  <2>4. \A q \in Procs \ {p} : pc[q] # "removeLogs"
    BY <1>1, <1>2 DEF IInv, LockInv, Working
  <2>5. LogInv'
    BY <1>1, <2>1, <2>4 DEF IInv, TypeOK, LogInv
  <2>6. MissedInv'
    BY <1>1, <2>1, MissedKept DEF IInv
  <2> QED
    BY <2>2, <2>3, <2>5, <2>6 DEF IInv
<1>4. CASE old[p] = {} /\ Goto(p, "sync") /\ UNCHANGED <<logs, faults>>
  <2>1. LockInv' /\ UninstallInv'
    BY <1>1, <1>2, <1>4, GoOnInv DEF Goto
  <2>2. TypeOK'
    BY <1>1, <1>2, <1>4, GotoType DEF IInv, TypeOK, bounds, Steps
  <2>3. LogInv' /\ MissedInv'
    BY <1>1, <1>2, <1>4, GotoType, MissedKept DEF IInv, LogInv, Others
  <2> QED
    BY <2>1, <2>2, <2>3 DEF IInv
<1>5. CASE Fault /\ Exit(p) /\ UNCHANGED logs
  BY <1>1, <1>5, EndInv DEF files, bounds, IInv, TypeOK
<1> QED
  BY <1>3, <1>4, <1>5 DEF RemoveLog

\* What the device and the user do concerns no process.
LEMMA OutsideInv ==
  ASSUME IInv, SetClock \/ EditConfig
  PROVE  IInv'
<1>1. UNCHANGED <<pc, own, old, mark, logs, installed, lock, runs, faults, kills>>
  BY DEF SetClock, EditConfig, files, bounds
<1>2. TypeOK'
  <2>0. clock' \in ClockTimes \/ clock' = clock
    BY DEF SetClock, EditConfig
  <2>1. clock' \in 0 .. MaxRuns + runs'
    <3>1. MaxRuns \in Nat /\ runs \in 0 .. MaxRuns /\ clock \in 0 .. MaxRuns + runs
      BY InstancesAssumption DEF IInv, TypeOK
    <3>2. clock' \in ClockTimes => clock' \in 0 .. MaxRuns
      BY InstancesAssumption
    <3>3. runs' = runs
      BY <1>1
    <3> QED
      BY <2>0, <3>1, <3>2, <3>3
  <2>3. clockSets' \in 0 .. MaxClockSets
    <3>1. MaxClockSets \in Nat /\ clockSets \in 0 .. MaxClockSets
      BY InstancesAssumption DEF IInv, TypeOK
    <3>2. clockSets' = clockSets \/ (clockSets < MaxClockSets /\ clockSets' = clockSets + 1)
      BY DEF SetClock, EditConfig, bounds
    <3> QED
      BY <3>1, <3>2
  <2>2. config' \in [Stems -> ConfigState] /\ missed' \in BOOLEAN
    BY DEF SetClock, EditConfig, files, IInv, TypeOK
  <2> QED
    BY <1>1, <2>1, <2>2, <2>3 DEF IInv, TypeOK
<1>3. MissedInv'
  BY <1>1 DEF SetClock, EditConfig, files, IInv, MissedInv, OnlyMissingUninstalls
<1> QED
  BY <1>1, <1>2, <1>3 DEF IInv, LockInv, Working, LogInv, UninstallInv, NoDanglingRule

\* The inductive invariant holds in every state.
THEOREM InvCorrect == Spec => []IInv
<1>1. ASSUME IInv, [Next]_vars PROVE IInv'
  <2>1. CASE UNCHANGED vars
    BY <1>1, <2>1 DEF vars, files, bounds, IInv, TypeOK, LockInv, Working, LogInv,
                      UninstallInv, NoDanglingRule, MissedInv, OnlyMissingUninstalls
  <2>2. ASSUME NEW p \in Procs, Sync(p) PROVE IInv'
    BY <1>1, <2>2, EndInv DEF Sync, bounds, IInv, TypeOK
  <2>3. ASSUME NEW p \in Procs, Kill(p) PROVE IInv'
    <3>1. kills' \in 0 .. MaxKills
      BY <1>1, <2>3, InstancesAssumption DEF Kill, IInv, TypeOK
    <3> QED
      BY <1>1, <2>3, <3>1, EndInv DEF Kill
  <2> QED
    BY <1>1, <2>1, <2>2, <2>3, StartInv, AcquireInv, LoadInv, UninstallStepInv,
       ReadLogDirInv, RemoveLogInv, OutsideInv DEF Next, Step
<1> QED
  BY <1>1, InitInv, PTL DEF Spec

\* Two processes are never at work together: the flock excludes, and the kernel gives
\* it back however a process ends.
THEOREM ExclusiveHolds == Spec => []Exclusive
<1>1. IInv => Exclusive
  BY DEF IInv, LockInv, Exclusive, Working
<1> QED
  BY <1>1, InvCorrect, PTL

\* Only the absence of the default configuration ever costs the installation.
THEOREM OnlyMissingUninstallsHolds == Spec => []OnlyMissingUninstalls
<1>1. IInv => OnlyMissingUninstalls
  BY DEF IInv, MissedInv
<1> QED
  BY <1>1, InvCorrect, PTL

\* No order of kills leaves a rule that starts a missing binary.
THEOREM NoDanglingRuleHolds == Spec => []NoDanglingRule
<1>1. IInv => NoDanglingRule
  BY DEF IInv, UninstallInv, NoDanglingRule
<1> QED
  BY <1>1, InvCorrect, PTL
=============================================================================
