------------------------------- MODULE Instances -------------------------------
(***************************************************************************)
(* main, acquireLock, uninstallApplication and the run logs: what the         *)
(* processes of kobodeck share besides the books.  udev starts one for each    *)
(* network interface that comes up, and a user may start one by hand, with the *)
(* default or another configuration of the same directory.  The run of the     *)
(* sync itself (Sync) is one step here.                                        *)
(***************************************************************************)
EXTENDS Naturals, FiniteSets

CONSTANTS
  Procs,        \* process slots; a number, ordered like the PIDs
  Stems,        \* stems of the configuration files beside each other, ordered by name
  DefaultStem,  \* that of defaultConfigPath, the one udev runs
  Extends,      \* Extends[s]: the stems whose log names begin with the stem s
  RetainedFiles,
  None,         \* no process
  MaxRuns,      \* bound: processes started
  MaxFaults,    \* bound: failing calls
  MaxKills,     \* bound: processes killed
  MaxClockSets, \* bound: times the clock is set
  ClockTimes    \* bound: what it may be set to

ASSUME InstancesAssumption ==
  /\ Procs \subseteq Nat /\ Stems \subseteq Nat /\ DefaultStem \in Stems
  /\ Extends \in [Stems -> SUBSET Stems] /\ \A s \in Stems : s \in Extends[s]
  /\ RetainedFiles \in Nat \ {0} /\ None \notin Procs
  /\ ClockTimes \subseteq 0 .. MaxRuns
  /\ MaxRuns \in Nat /\ MaxFaults \in Nat /\ MaxKills \in Nat /\ MaxClockSets \in Nat

\* The name of a run log; born is no part of it, but the history of which came first.
LogName == [stem : Stems, at : 0 .. 2 * MaxRuns, pid : Procs, born : 1 .. MaxRuns]

ConfigState == {"absent", "invalid", "valid"}

VARIABLES
  pc,      \* the next step of each process, or "none"
  own,     \* its log, if any
  old,     \* the names it has still to remove
  mark,    \* history: the number of logs ever created when it listed them
  logs,    \* the run logs in the directory
  lock,    \* who holds the flock
  config,  \* the state of each configuration file
  installed, \* the installed files that exist
  missed,  \* history: the default configuration file has been away
  runs, clock, \* processes started; the time of day
  faults, kills, clockSets

files  == <<logs, config, installed, missed>>
bounds == <<kills, clockSets>>
vars   == <<pc, own, old, mark, files, lock, runs, clock, faults, bounds>>

\* Mutant: the binary goes first.
installFilesSwapped == <<"binary", "rule">>
installFiles == <<"rule", "binary">>

Init ==
  /\ pc = [p \in Procs |-> "none"] /\ own = [p \in Procs |-> {}]
  /\ old = [p \in Procs |-> {}] /\ mark = [p \in Procs |-> 0]
  /\ logs = {} /\ lock = None /\ config = [s \in Stems |-> "valid"]
  /\ installed = {"rule", "binary"} /\ missed = FALSE
  /\ runs = 0 /\ clock = 0 /\ faults = 0 /\ kills = 0 /\ clockSets = 0

Fault == faults < MaxFaults /\ faults' = faults + 1

Goto(p, step) == pc' = [pc EXCEPT ![p] = step] /\ UNCHANGED <<own, old, mark, lock>>

\* Mutant: the lock is the existence of the file.
releasedIfOrderly(p) == lock
released(p) == IF lock = p THEN None ELSE lock

\* A return from main, log.Fatal or a kill: the kernel closes the lock file.
Exit(p) ==
  /\ pc' = [pc EXCEPT ![p] = "none"] /\ own' = [own EXCEPT ![p] = {}]
  /\ old' = [old EXCEPT ![p] = {}] /\ mark' = [mark EXCEPT ![p] = 0]
  /\ lock' = released(p)

-----------------------------------------------------------------------------
\* setupLogging: a log is created; a process that finds its name taken ends.
Start(p, stem) ==
  /\ pc[p] = "none" /\ "binary" \in installed /\ runs < MaxRuns
  /\ \A l \in logs : <<l.stem, l.at, l.pid>> # <<stem, clock, p>>
  /\ LET log == [stem |-> stem, at |-> clock, pid |-> p, born |-> runs + 1]
     IN logs' = logs \cup {log} /\ own' = [own EXCEPT ![p] = {log}]
  /\ runs' = runs + 1 /\ clock' = clock + 1
  /\ pc' = [pc EXCEPT ![p] = "acquireLock"]
  /\ UNCHANGED <<old, mark, lock, config, installed, missed, faults, bounds>>

\* Mutant: the lock does not exclude.
lockFreeAlways == TRUE
lockFree == lock = None

\* acquireLock does not wait: "already running" ends the process, and so does a lock
\* file that cannot be opened.
AcquireLock(p) ==
  /\ pc[p] = "acquireLock"
  /\ \/ /\ lockFree /\ lock' = p /\ pc' = [pc EXCEPT ![p] = "loadConfig"]
        /\ UNCHANGED <<own, old, mark, faults>>
     \/ ~lockFree /\ Exit(p) /\ UNCHANGED faults
     \/ Fault /\ Exit(p)
  /\ UNCHANGED <<files, runs, clock, bounds>>

\* loadConfig and validate find nothing to object to.
accepted(stem) == config[stem] = "valid"

\* Mutant: any error of loadConfig makes it uninstall.
uninstallsOnError(stem) == stem = DefaultStem /\ ~accepted(stem)
uninstalls(stem) == stem = DefaultStem /\ config[stem] = "absent"

\* Without the default configuration the process uninstalls, with or without --check,
\* unless it was started by a name outside /usr/local; no other error lets it go on.
LoadConfig(p) ==
  /\ pc[p] = "loadConfig"
  /\ \E log \in own[p] :
       \/ uninstalls(log.stem) /\ (Goto(p, "remove1") \/ Exit(p)) /\ UNCHANGED faults
       \/ ~uninstalls(log.stem) /\ ~accepted(log.stem) /\ Exit(p) /\ UNCHANGED faults
       \/ accepted(log.stem) /\ Goto(p, "readLogDir") /\ UNCHANGED faults
       \/ Fault /\ Exit(p)
  /\ UNCHANGED <<files, runs, clock, bounds>>

\* uninstallApplication goes on to the second file when the first cannot be removed.
UninstallFile(p) ==
  /\ \E i \in DOMAIN installFiles :
       /\ pc[p] = <<"remove1", "remove2">>[i]
       /\ \/ installed' = installed \ {installFiles[i]} /\ UNCHANGED faults
          \/ Fault /\ UNCHANGED installed
       /\ IF i = 1 THEN Goto(p, "remove2") ELSE Exit(p)
  /\ UNCHANGED <<logs, config, missed, runs, clock, bounds>>

-----------------------------------------------------------------------------
\* The order of the names, as os.ReadDir sorts them.
before(l, m) ==
  \/ l.stem < m.stem
  \/ l.stem = m.stem /\ l.at < m.at
  \/ l.stem = m.stem /\ l.at = m.at /\ l.pid < m.pid

\* The names removeOldLogs takes for logs of this configuration.
matching(stem, names) == {l \in names : l.stem \in Extends[stem]}

\* Mutants: the last names are removed; one too many is kept.
surplusNewest(names)  == {l \in names : Cardinality({m \in names : before(m, l)}) >= RetainedFiles}
surplusPlusOne(names) == {l \in names : Cardinality({m \in names : before(l, m)}) > RetainedFiles}
surplus(names) == {l \in names : Cardinality({m \in names : before(l, m)}) >= RetainedFiles}

\* removeOldLogs lists the directory once ...
ReadLogDir(p) ==
  /\ pc[p] = "readLogDir"
  /\ \E log \in own[p] : old' = [old EXCEPT ![p] = surplus(matching(log.stem, logs))]
  /\ mark' = [mark EXCEPT ![p] = runs]
  /\ pc' = [pc EXCEPT ![p] = "removeLogs"]
  /\ UNCHANGED <<own, lock, files, runs, clock, faults, bounds>>

\* ... and then removes name by name, the last first.  A failure ends the process.
RemoveLog(p) ==
  /\ pc[p] = "removeLogs"
  /\ \/ \E l \in old[p] :
          /\ \A m \in old[p] \ {l} : before(m, l)
          /\ logs' = logs \ {l} /\ old' = [old EXCEPT ![p] = @ \ {l}]
          /\ UNCHANGED <<pc, own, mark, lock, faults>>
     \/ old[p] = {} /\ Goto(p, "sync") /\ UNCHANGED <<logs, faults>>
     \/ old[p] # {} /\ Fault /\ Exit(p) /\ UNCHANGED logs
  /\ UNCHANGED <<config, installed, missed, runs, clock, bounds>>

\* application.sync, whatever it does and returns.
Sync(p) ==
  /\ pc[p] = "sync" /\ Exit(p)
  /\ UNCHANGED <<files, runs, clock, faults, bounds>>

Kill(p) ==
  /\ pc[p] # "none" /\ kills < MaxKills /\ kills' = kills + 1 /\ Exit(p)
  /\ UNCHANGED <<files, runs, clock, faults, clockSets>>

\* The device sets its clock, forward or back.
SetClock ==
  /\ clockSets < MaxClockSets /\ clockSets' = clockSets + 1
  /\ clock' \in ClockTimes
  /\ UNCHANGED <<pc, own, old, mark, files, lock, runs, faults, kills>>

\* The user takes a configuration away, or writes it, with mistakes or without.
EditConfig ==
  /\ \E s \in Stems, state \in ConfigState : config' = [config EXCEPT ![s] = state]
  /\ missed' = (missed \/ config'[DefaultStem] = "absent")
  /\ UNCHANGED <<pc, own, old, mark, logs, installed, lock, runs, clock, faults, bounds>>

Step(p) == AcquireLock(p) \/ LoadConfig(p) \/ UninstallFile(p)
           \/ ReadLogDir(p) \/ RemoveLog(p) \/ Sync(p)

\* udev starts the default configuration, a user any.
Next ==
  \/ \E p \in Procs : Step(p) \/ Kill(p)
  \/ \E p \in Procs, s \in Stems : Start(p, s)
  \/ SetClock \/ EditConfig

Spec == Init /\ [][Next]_vars /\ \A p \in Procs : WF_vars(Step(p))

-----------------------------------------------------------------------------
Working == {p \in Procs : pc[p] \notin {"none", "acquireLock"}}

\* Every variable keeps its type.
TypeOK ==
  /\ pc \in [Procs -> {"none", "acquireLock", "loadConfig", "remove1", "remove2",
                       "readLogDir", "removeLogs", "sync"}]
  /\ own \in [Procs -> SUBSET LogName] /\ old \in [Procs -> SUBSET LogName]
  /\ mark \in [Procs -> 0 .. MaxRuns]
  /\ logs \subseteq LogName /\ lock \in Procs \cup {None}
  /\ config \in [Stems -> ConfigState] /\ missed \in BOOLEAN /\ installed \subseteq {"rule", "binary"}
  /\ runs \in 0 .. MaxRuns /\ clock \in 0 .. MaxRuns + runs
  /\ faults \in 0 .. MaxFaults /\ kills \in 0 .. MaxKills /\ clockSets \in 0 .. MaxClockSets

\* Wherever a process is killed, no rule stays behind that starts a missing binary;
\* it takes a removal that fails (device.go:18-43).
NoDanglingRule == faults = 0 /\ "rule" \in installed => "binary" \in installed

\* Nothing but the absence of the default configuration costs the installation: no
\* mistake in it, no failing call, no other configuration (main.go:79-92).
OnlyMissingUninstalls == installed = {"rule", "binary"} \/ missed

\* The lock is held by nobody but the process that works, however others ended
\* (main.go:34-43, 69-78).
LockInv == \A p \in Procs : lock = p <=> p \in Working

\* The processes only remove what they listed, and each has one log.
LogInv == \A p \in Procs :
  /\ pc[p] # "none" => \E log \in own[p] : own[p] = {log}
  /\ pc[p] # "removeLogs" => old[p] = {}
  /\ old[p] \subseteq logs

\* Until a removal fails the first file is gone when the second is removed.
UninstallInv == faults = 0 =>
  /\ \A p \in Procs : pc[p] = "remove2" => "rule" \notin installed
  /\ NoDanglingRule

MissedInv ==
  /\ config[DefaultStem] = "absent" => missed
  /\ \A p \in Procs : pc[p] \in {"remove1", "remove2"} => missed
  /\ OnlyMissingUninstalls

IInv == TypeOK /\ LockInv /\ LogInv /\ UninstallInv /\ MissedInv

\* Two syncs, or a sync and an uninstallation, are never at work together.
Exclusive == \A p, q \in Working : p = q

\* A process that goes on to its sync has left no more logs of its configuration than
\* RetainedFiles, except younger ones (logging.go:31-67).
RetentionBounded == \A p \in Procs : pc[p] = "sync" => \A log \in own[p] :
  Cardinality({l \in matching(log.stem, logs) : l.born <= mark[p]}) <= RetainedFiles

\* While nobody sets the clock, a log is pruned only if RetainedFiles more recent ones
\* of its configuration stay, whichever other instances create logs meanwhile, and if
\* no other configuration's name extends its name.
NewestLogsStay == [][clockSets = 0 => \A l \in logs \ logs' :
  Cardinality({m \in logs' : m.stem = l.stem /\ m.born > l.born}) >= RetainedFiles]_vars

\* No process keeps the lock for ever: all of them end, killed or not.
LockComesFree == []<>(lock = None)
=============================================================================
