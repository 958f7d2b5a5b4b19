-------------------------- MODULE KepubInstallProofs --------------------------
(***************************************************************************)
(* The safety of installing books, for any number of books, downloads,       *)
(* failures and crashes.                                                      *)
(***************************************************************************)
EXTENDS KepubInstall, TLAPS

LEMMA InitInv == Init => IInv
  BY KepubInstallAssumption
  DEF Init, IInv, TypeOK, StableInv, JobInv, InstallInv, FinishInv, Content, Good, owed

\* Going on, returning and failing, as far as the types are concerned.
LEMMA GotoType ==
  ASSUME TypeOK, NEW j \in Jobs, NEW step, Goto(j, step),
         step \in {"fetch", "cover", "convert", "rename", "syncDirectory", "setTime"}
  PROVE  /\ pc' \in [Jobs -> {"check", "fetch", "cover", "convert", "rename",
                              "syncDirectory", "setTime", "done"}]
         /\ pc'[j] = step /\ UNCHANGED result
         /\ \A k \in Jobs \ {j} : pc'[k] = pc[k]
  BY DEF TypeOK, Goto

\* Of the files that are removed there remain those whose removal fails.
LEMMA RemoveType ==
  ASSUME TypeOK, NEW j \in Jobs, NEW made, NEW paths, NEW kept,
         made \subseteq Temp, kept \subseteq made \cap paths, Remove(j, made, paths, kept)
  PROVE  /\ temps' \in [Jobs -> SUBSET Temp] /\ stuck' \in [Jobs -> SUBSET Temp]
         /\ \A k \in Jobs \ {j} : temps'[k] = temps[k] /\ stuck'[k] = stuck[k]
         /\ temps'[j] \ stuck'[j] \subseteq (made \ stuck[j]) \ paths
  BY DEF TypeOK, Remove

LEMMA ReturnType ==
  ASSUME TypeOK, NEW j \in Jobs, NEW how \in {"same", "changed", "failed"},
         NEW made, NEW paths, NEW kept, made \subseteq Temp, kept \subseteq made \cap paths,
         Return(j, how, made, paths, kept)
  PROVE  /\ pc' \in [Jobs -> {"check", "fetch", "cover", "convert", "rename",
                              "syncDirectory", "setTime", "done"}]
         /\ result' \in [Jobs -> {"none", "same", "changed", "failed"}]
         /\ temps' \in [Jobs -> SUBSET Temp] /\ stuck' \in [Jobs -> SUBSET Temp]
         /\ pc'[j] = "done" /\ result'[j] = how
         /\ temps'[j] \ stuck'[j] \subseteq (made \ stuck[j]) \ paths
         /\ \A k \in Jobs \ {j} : /\ pc'[k] = pc[k] /\ result'[k] = result[k]
                                  /\ temps'[k] = temps[k] /\ stuck'[k] = stuck[k]
  BY DEF TypeOK, Return, Remove

LEMMA FailType ==
  ASSUME TypeOK, NEW j \in Jobs, NEW made, NEW paths, made \subseteq Temp, Fail(j, made, paths)
  PROVE  /\ pc' \in [Jobs -> {"check", "fetch", "cover", "convert", "rename",
                              "syncDirectory", "setTime", "done"}]
         /\ result' \in [Jobs -> {"none", "same", "changed", "failed"}]
         /\ temps' \in [Jobs -> SUBSET Temp] /\ stuck' \in [Jobs -> SUBSET Temp]
         /\ pc'[j] = "done" /\ result'[j] = "failed"
         /\ hurt' = hurt \cup {j} /\ faults' # 0
         /\ temps'[j] \ stuck'[j] \subseteq (made \ stuck[j]) \ paths
         /\ \A k \in Jobs \ {j} : /\ pc'[k] = pc[k] /\ result'[k] = result[k]
                                  /\ temps'[k] = temps[k] /\ stuck'[k] = stuck[k]
<1>1. PICK kept : kept \subseteq made \cap paths /\ Return(j, "failed", made, paths, kept)
  BY DEF Fail
<1>2. hurt' = hurt \cup {j} /\ faults' # 0
  BY DEF Fail, Fault, TypeOK
<1>3. "failed" \in {"same", "changed", "failed"}
  OBVIOUS
<1> QED
  BY <1>1, <1>2, <1>3, ReturnType

\* What every step of job j leaves of the other jobs, and of its own types.
LEMMA StepFrame ==
  ASSUME TypeOK, NEW j \in Jobs, Step(j)
  PROVE  /\ TypeOK'
         /\ \A k \in Jobs \ {j} : /\ pc'[k] = pc[k] /\ result'[k] = result[k]
                                  /\ temps'[k] = temps[k] /\ stuck'[k] = stuck[k]
                                  /\ epub'[k] = epub[k]
         /\ hurt \subseteq hurt'
         /\ faults' # faults => faults' # 0
         /\ faults' = 0 => faults = 0
<1> USE KepubInstallAssumption DEF TypeOK
<1>0. /\ temps[j] \in SUBSET Temp /\ temps[j] \cup {"kepub"} \in SUBSET Temp
      /\ temps[j] \cup {"cover"} \in SUBSET Temp /\ temps[j] \cup {} \in SUBSET Temp
      /\ {} \in SUBSET Temp /\ {"epub"} \in SUBSET Temp
  BY DEF Temp
<1>1. /\ faults' \in 0 .. MaxFaults
      /\ faults' # faults => faults' # 0
      /\ faults' = 0 => faults = 0
  BY DEF Step, Check, Fetch, FixCover, Convert, Rename, SyncDirectory, SetTime, Fail, Fault
<1>2. CASE Check(j)
  <2>1. CASE Return(j, "same", {}, {}, {}) /\ UNCHANGED <<epub, hurt, faults>>
    BY <1>0, <1>1, <1>2, <2>1, ReturnType DEF Check
  <2>2. CASE /\ Goto(j, "fetch") /\ epub' = [epub EXCEPT ![j] = "invalid"]
             /\ temps' = [temps EXCEPT ![j] = {"epub"}] /\ UNCHANGED <<stuck, hurt>>
    BY <1>0, <1>1, <1>2, <2>2, GotoType DEF Check, Content
  <2>3. CASE \E made \in {{}, {"epub"}} : Fail(j, made, downloadDefers) /\ UNCHANGED epub
    BY <1>0, <1>1, <1>2, <2>3, FailType DEF Check
  <2> QED
    BY <1>2, <2>1, <2>2, <2>3 DEF Check
<1>3. CASE Fetch(j)
  BY <1>0, <1>1, <1>3, GotoType, FailType DEF Fetch, Content
<1>4. CASE FixCover(j)
  <2>1. epub' \in [Jobs -> Content] /\ \A k \in Jobs \ {j} : epub'[k] = epub[k]
    BY <1>4 DEF FixCover, withCover, afterCoverFailure, Content
  <2>2. /\ temps' \in [Jobs -> SUBSET Temp] /\ stuck' \in [Jobs -> SUBSET Temp]
        /\ \A k \in Jobs \ {j} : temps'[k] = temps[k] /\ stuck'[k] = stuck[k]
    <3>1. CASE UNCHANGED <<temps, stuck>>
      BY <3>1
    <3>2. CASE \E made \in {{}, {"cover"}} : \E kept \in SUBSET (made \cap fixCoverDefers) :
                 Remove(j, temps[j] \cup made, fixCoverDefers, kept)
      <4>0. PICK made \in {{}, {"cover"}} : \E kept \in SUBSET (made \cap fixCoverDefers) :
              Remove(j, temps[j] \cup made, fixCoverDefers, kept)
        BY <3>2
      <4>1. PICK kept \in SUBSET (made \cap fixCoverDefers) :
              Remove(j, temps[j] \cup made, fixCoverDefers, kept)
        BY <4>0
      <4>2. temps[j] \cup made \in SUBSET Temp
            /\ kept \in SUBSET ((temps[j] \cup made) \cap fixCoverDefers)
        BY <1>0
      <4> QED
        BY <4>1, <4>2, RemoveType
    <3> QED
      BY <1>4, <3>1, <3>2 DEF FixCover
  <2> QED
    BY <1>1, <1>4, <2>1, <2>2, GotoType DEF FixCover
<1>5. CASE Convert(j)
  <2>1. CASE Return(j, "failed", temps[j] \cup {"kepub"}, inToKepub, {}) /\ UNCHANGED <<hurt, faults>>
    BY <1>0, <1>1, <1>5, <2>1, ReturnType DEF Convert
  <2>2. CASE Fail(j, temps[j] \cup {"kepub"}, inToKepub)
    BY <1>0, <1>1, <1>5, <2>2, FailType DEF Convert
  <2>3. CASE /\ Goto(j, "rename") /\ temps' = [temps EXCEPT ![j] = temps[j] \cup {"kepub"}]
             /\ UNCHANGED <<stuck, hurt, faults>>
    BY <1>0, <1>1, <1>5, <2>3, GotoType DEF Convert
  <2> QED
    BY <1>5, <2>1, <2>2, <2>3 DEF Convert
<1>6. CASE Rename(j)
  <2>1. CASE Fail(j, temps[j], inToKepub) /\ UNCHANGED <<file, stable, installs, dated>>
    BY <1>0, <1>1, <1>6, <2>1, FailType DEF Rename
  <2>2. CASE /\ file' = [file EXCEPT ![BookOf[j]] = epub[j]]
             /\ stable' = [stable EXCEPT ![BookOf[j]] = @ \cup survives(epub[j])]
             /\ temps' = [temps EXCEPT ![j] = @ \ {"kepub"}]
             /\ installs' = installs \cup {BookOf[j]} /\ dated' = dated \ {BookOf[j]}
             /\ Goto(j, "syncDirectory") /\ UNCHANGED <<stuck, hurt, faults>>
    BY <1>0, <1>1, <1>6, <2>2, GotoType DEF Rename, survives
  <2> QED
    BY <1>6, <2>1, <2>2 DEF Rename
<1>7. CASE SyncDirectory(j)
  <2>1. PICK kept \in SUBSET (temps[j] \cap {"epub"}) : Remove(j, temps[j], {"epub"}, kept)
    BY <1>7 DEF SyncDirectory, syncFailed
  <2>2. stable' \in [Books -> SUBSET Content]
    BY <1>7 DEF SyncDirectory, synced, survives
  <2>3. Goto(j, "setTime")
    BY <1>7 DEF SyncDirectory, syncFailed
  <2> QED
    BY <1>0, <1>1, <1>7, <2>1, <2>2, <2>3, GotoType, RemoveType DEF SyncDirectory
<1>8. CASE SetTime(j)
  <2>1. PICK kept \in SUBSET (temps[j] \cap downloadDefers) :
          Return(j, "changed", temps[j], downloadDefers, kept)
    BY <1>8 DEF SetTime
  <2>2. dated' \subseteq Books
    BY <1>8 DEF SetTime
  <2> QED
    BY <1>0, <1>1, <1>8, <2>1, <2>2, ReturnType DEF SetTime
<1> QED
  BY <1>2, <1>3, <1>4, <1>5, <1>6, <1>7, <1>8 DEF Step

\* A return with the temporary files "made", all of which are owed a removal.
LEMMA ReturnOwes ==
  ASSUME TypeOK, NEW j \in Jobs, NEW made \in SUBSET Temp, NEW paths, made \ stuck[j] \subseteq paths,
         \/ Fail(j, made, paths)
         \/ \E how \in {"same", "changed", "failed"}, kept \in SUBSET (made \cap paths) :
              Return(j, how, made, paths, kept)
  PROVE  temps'[j] \ stuck'[j] \subseteq owed(pc'[j])
<1>1. pc'[j] = "done" /\ temps'[j] \ stuck'[j] = {}
  <2>1. CASE Fail(j, made, paths)
    BY <2>1, FailType
  <2>2. ASSUME NEW how \in {"same", "changed", "failed"}, NEW kept \in SUBSET (made \cap paths),
               Return(j, how, made, paths, kept)
        PROVE  pc'[j] = "done" /\ temps'[j] \ stuck'[j] = {}
    BY <2>2, ReturnType
  <2> QED
    BY <2>1, <2>2
<1> QED
  BY <1>1

\* Each function removes what it has made: what a step leaves to the later ones.
LEMMA StepOwed ==
  ASSUME TypeOK, JobInv, NEW j \in Jobs, Step(j)
  PROVE  temps'[j] \ stuck'[j] \subseteq owed(pc'[j])
<1> USE DEF TypeOK
<1>0. /\ temps[j] \in SUBSET Temp /\ temps[j] \cup {"kepub"} \in SUBSET Temp
      /\ {} \in SUBSET Temp /\ {"epub"} \in SUBSET Temp
      /\ temps[j] \ stuck[j] \subseteq owed(pc[j])
  BY DEF Temp, JobInv
<1>2. CASE Check(j)
  <2>1. CASE Return(j, "same", {}, {}, {})
    BY <1>0, <2>1, ReturnType DEF owed
  <2>2. CASE Goto(j, "fetch") /\ temps' = [temps EXCEPT ![j] = {"epub"}]
    BY <2>2, GotoType DEF owed
  <2>3. CASE \E made \in {{}, {"epub"}} : Fail(j, made, downloadDefers)
    BY <1>0, <2>3, FailType DEF downloadDefers, owed
  <2> QED
    BY <1>2, <2>1, <2>2, <2>3 DEF Check
<1>3. CASE Fetch(j)
  <2>1. CASE Goto(j, "cover") /\ UNCHANGED <<temps, stuck>>
    BY <1>0, <1>3, <2>1, GotoType DEF Fetch, owed
  <2>2. CASE Fail(j, temps[j], downloadDefers)
    BY <1>0, <1>3, <2>2, FailType DEF Fetch, downloadDefers, owed
  <2> QED
    BY <1>3, <2>1, <2>2 DEF Fetch
<1>4. CASE FixCover(j)
  <2>1. temps[j] \ stuck[j] \subseteq {"epub"} /\ pc'[j] = "convert"
    BY <1>0, <1>4, GotoType DEF FixCover, owed
  <2>2. CASE UNCHANGED <<temps, stuck>>
    BY <2>1, <2>2 DEF owed
  <2>3. ASSUME NEW made \in {{}, {"cover"}}, NEW kept \in SUBSET (made \cap fixCoverDefers),
               Remove(j, temps[j] \cup made, fixCoverDefers, kept)
        PROVE  temps'[j] \ stuck'[j] \subseteq {"epub"}
    <3>1. /\ temps'[j] = ((temps[j] \cup made) \ {"cover"}) \cup kept
          /\ stuck'[j] = (stuck[j] \ {"cover"}) \cup kept
      BY <2>3 DEF Remove, fixCoverDefers
    <3> QED
      BY <2>1, <3>1
  <2> QED
    BY <1>4, <2>1, <2>2, <2>3 DEF FixCover, owed
<1>5. CASE Convert(j)
  <2>0. temps[j] \ stuck[j] \subseteq {"epub"}
    BY <1>0, <1>5 DEF Convert, owed
  <2>1. CASE Return(j, "failed", temps[j] \cup {"kepub"}, inToKepub, {})
    <3>1. /\ (temps[j] \cup {"kepub"}) \ stuck[j] \subseteq inToKepub
          /\ {} \in SUBSET ((temps[j] \cup {"kepub"}) \cap inToKepub)
      BY <2>0 DEF inToKepub, toKepubDefers, downloadDefers
    <3> QED
      BY <1>0, <2>1, <3>1, ReturnOwes
  <2>2. CASE Fail(j, temps[j] \cup {"kepub"}, inToKepub)
    <3>1. (temps[j] \cup {"kepub"}) \ stuck[j] \subseteq inToKepub
      BY <2>0 DEF inToKepub, toKepubDefers, downloadDefers
    <3> QED
      BY <1>0, <2>2, <3>1, ReturnOwes
  <2>3. CASE /\ Goto(j, "rename") /\ temps' = [temps EXCEPT ![j] = temps[j] \cup {"kepub"}]
             /\ UNCHANGED stuck
    BY <2>0, <2>3, GotoType DEF owed
  <2> QED
    BY <1>5, <2>1, <2>2, <2>3 DEF Convert
<1>6. CASE Rename(j)
  <2>0. temps[j] \ stuck[j] \subseteq {"epub", "kepub"}
    BY <1>0, <1>6 DEF Rename, owed
  <2>1. CASE Fail(j, temps[j], inToKepub)
    <3>1. temps[j] \ stuck[j] \subseteq inToKepub
      BY <2>0 DEF inToKepub, toKepubDefers, downloadDefers
    <3> QED
      BY <1>0, <2>1, <3>1, ReturnOwes
  <2>2. CASE /\ temps' = [temps EXCEPT ![j] = @ \ {"kepub"}] /\ UNCHANGED stuck
             /\ Goto(j, "syncDirectory")
    BY <2>0, <2>2, GotoType DEF owed
  <2> QED
    BY <1>6, <2>1, <2>2 DEF Rename
<1>7. CASE SyncDirectory(j)
  <2>1. PICK kept \in SUBSET (temps[j] \cap {"epub"}) : Remove(j, temps[j], {"epub"}, kept)
    BY <1>7 DEF SyncDirectory, syncFailed
  <2>2. temps[j] \ stuck[j] \subseteq {"epub"} /\ pc'[j] = "setTime"
    BY <1>0, <1>7, GotoType DEF SyncDirectory, syncFailed, owed
  <2>3. temps'[j] \ stuck'[j] \subseteq {}
    BY <1>0, <2>1, <2>2, RemoveType
  <2> QED
    BY <2>3
<1>8. CASE SetTime(j)
  <2>1. PICK kept \in SUBSET (temps[j] \cap downloadDefers) :
          Return(j, "changed", temps[j], downloadDefers, kept)
    BY <1>8 DEF SetTime
  <2>2. temps[j] \ stuck[j] \subseteq {"epub"}
    BY <1>0, <1>8 DEF SetTime, owed
  <2> QED
    BY <1>0, <2>1, <2>2, ReturnType DEF downloadDefers, owed
<1> QED
  BY <1>2, <1>3, <1>4, <1>5, <1>6, <1>7, <1>8 DEF Step

LEMMA StepOwedAll ==
  ASSUME TypeOK, JobInv, NEW j \in Jobs, Step(j)
  PROVE  \A k \in Jobs : temps'[k] \ stuck'[k] \subseteq owed(pc'[k])
<1>1. ASSUME NEW k \in Jobs \ {j} PROVE temps'[k] \ stuck'[k] \subseteq owed(pc'[k])
  BY <1>1, StepFrame DEF JobInv
<1> QED
  BY <1>1, StepOwed

\* The steps before the rename touch no book.
LEMMA EarlyInv ==
  ASSUME IInv, NEW j \in Jobs, Check(j) \/ Fetch(j) \/ FixCover(j) \/ Convert(j)
  PROVE  IInv'
<1> USE KepubInstallAssumption DEF IInv
<1>1. Step(j)
  BY DEF Step
<1>2. TypeOK' /\ UNCHANGED <<file, stable, damaged, installs, dated>>
  BY <1>1, StepFrame DEF Check, Fetch, FixCover, Convert
<1>3. StableInv'
  BY <1>2 DEF StableInv
<1>4. pc[j] \in {"check", "fetch", "cover", "convert"}
  BY DEF Check, Fetch, FixCover, Convert
<1>5. \A k \in Jobs \ {j} : pc'[k] = pc[k] /\ result'[k] = result[k] /\ epub'[k] = epub[k]
  BY <1>1, StepFrame
<1>6. /\ hurt \subseteq hurt' /\ (faults' = 0 => faults = 0)
      /\ \A k \in Jobs : temps'[k] \ stuck'[k] \subseteq owed(pc'[k])
  BY <1>1, StepFrame, StepOwedAll
<1>7. InstallInv'
  BY <1>2, <1>4, <1>5 DEF InstallInv
<1>8. CASE Check(j)
  <2>1. \/ pc'[j] = "fetch" /\ UNCHANGED result
        \/ /\ pc'[j] = "done"
           /\ result'[j] = "same" \/ (result'[j] = "failed" /\ j \in hurt')
    <3>1. CASE Return(j, "same", {}, {}, {})
      BY <3>1 DEF Return, TypeOK
    <3>2. CASE Goto(j, "fetch")
      BY <3>2, GotoType
    <3>3. CASE \E made \in {{}, {"epub"}} : Fail(j, made, downloadDefers)
      BY <3>3 DEF Fail, Return, TypeOK
    <3> QED
      BY <1>8, <3>1, <3>2, <3>3 DEF Check
  <2>2. JobInv'
    BY <1>5, <1>6, <2>1 DEF JobInv
  <2>3. FinishInv'
    BY <1>2, <1>4, <1>5, <1>6, <2>1 DEF FinishInv
  <2> QED
    BY <1>2, <1>3, <1>7, <2>2, <2>3
<1>9. CASE Fetch(j)
  <2>1. temps[j] \in SUBSET Temp
    BY DEF TypeOK
  <2>2. \/ pc'[j] = "cover" /\ UNCHANGED result
           /\ (epub'[j] = "plain" \/ (j \in hurt' /\ faults' # 0))
        \/ pc'[j] = "done" /\ result'[j] = "failed" /\ j \in hurt'
    <3>1. CASE Goto(j, "cover")
      BY <1>9, <3>1, GotoType DEF Fetch, Fail, Fault, TypeOK
    <3>2. CASE Fail(j, temps[j], downloadDefers)
      BY <2>1, <3>2, FailType
    <3> QED
      BY <1>9, <3>1, <3>2 DEF Fetch
  <2>3. JobInv'
    BY <1>5, <1>6, <2>2 DEF JobInv, Good
  <2>4. FinishInv'
    BY <1>2, <1>4, <1>5, <1>6, <2>2 DEF FinishInv
  <2> QED
    BY <1>2, <1>3, <1>7, <2>3, <2>4
<1>10. CASE FixCover(j)
  <2>1. /\ pc[j] = "cover" /\ pc'[j] = "convert" /\ UNCHANGED <<result, hurt>>
        /\ \/ epub'[j] = withCover(j)
           \/ epub'[j] = epub[j] /\ faults' # 0
    BY <1>10, GotoType DEF FixCover, afterCoverFailure, Fault, TypeOK
  <2>2. epub[j] \in Good => epub'[j] \in Good
    BY <2>1 DEF withCover, rewrites, Good
  <2>3. JobInv'
    BY <1>5, <1>6, <2>1, <2>2 DEF JobInv
  <2>4. FinishInv'
    BY <1>2, <1>4, <1>5, <1>6, <2>1 DEF FinishInv, withCover, rewrites
  <2> QED
    BY <1>2, <1>3, <1>7, <2>3, <2>4
<1>11. CASE Convert(j)
  <2>1. temps[j] \cup {"kepub"} \in SUBSET Temp
    BY DEF TypeOK, Temp
  <2>2. /\ pc[j] = "convert" /\ UNCHANGED epub
        /\ \/ pc'[j] = "rename" /\ UNCHANGED result /\ epub[j] \in Good
           \/ /\ pc'[j] = "done" /\ result'[j] = "failed"
              /\ epub[j] \notin Good \/ j \in hurt'
    <3>1. CASE Return(j, "failed", temps[j] \cup {"kepub"}, inToKepub, {}) /\ ~passes(epub[j])
      BY <1>11, <3>1 DEF Convert, Return, passes, TypeOK
    <3>2. CASE Fail(j, temps[j] \cup {"kepub"}, inToKepub)
      BY <1>11, <3>2 DEF Convert, Fail, Return, TypeOK
    <3>3. CASE Goto(j, "rename") /\ passes(epub[j])
      BY <1>11, <3>3, GotoType DEF Convert, passes
    <3> QED
      BY <1>11, <3>1, <3>2, <3>3 DEF Convert
  <2>3. JobInv'
    BY <1>5, <1>6, <2>2 DEF JobInv
  <2>4. FinishInv'
    BY <1>2, <1>4, <1>5, <1>6, <2>2 DEF FinishInv
  <2> QED
    BY <1>2, <1>3, <1>7, <2>3, <2>4
<1> QED
  BY <1>8, <1>9, <1>10, <1>11

LEMMA RenameInv ==
  ASSUME IInv, NEW j \in Jobs, Rename(j)
  PROVE  IInv'
<1> USE KepubInstallAssumption DEF IInv
<1>1. /\ TypeOK' /\ hurt \subseteq hurt' /\ (faults' = 0 => faults = 0)
      /\ \A k \in Jobs \ {j} : pc'[k] = pc[k] /\ result'[k] = result[k] /\ epub'[k] = epub[k]
      /\ \A k \in Jobs : temps'[k] \ stuck'[k] \subseteq owed(pc'[k])
  BY StepFrame, StepOwedAll DEF Step
<1>2. epub[j] \in Good /\ pc[j] = "rename" /\ UNCHANGED <<damaged, epub>>
  BY DEF Rename, JobInv
<1>3. temps[j] \in SUBSET Temp /\ BookOf[j] \in Books
  BY DEF TypeOK
<1>4. CASE /\ file' = [file EXCEPT ![BookOf[j]] = epub[j]]
           /\ stable' = [stable EXCEPT ![BookOf[j]] = @ \cup survives(epub[j])]
           /\ installs' = installs \cup {BookOf[j]} /\ dated' = dated \ {BookOf[j]}
           /\ Goto(j, "syncDirectory")
  <2>1. pc'[j] = "syncDirectory" /\ UNCHANGED result
    BY <1>4, GotoType
  <2>2. StableInv'
    BY <1>2, <1>3, <1>4 DEF StableInv, survives, TypeOK, Good
  <2>3. JobInv'
    BY <1>1, <1>2, <2>1 DEF JobInv
  <2>4. InstallInv'
    BY <1>1, <1>2, <1>4, <2>1 DEF InstallInv
  <2>5. FinishInv'
    <3>1. ASSUME faults' = 0, NEW b \in installs' PROVE
            /\ b \in Illustrated => file'[b] = "covered"
            /\ \/ b \in dated'
               \/ \E k \in Jobs : BookOf[k] = b /\ pc'[k] \in {"syncDirectory", "setTime"}
      <4>1. CASE b = BookOf[j]
        BY <1>1, <1>2, <1>3, <1>4, <2>1, <3>1, <4>1 DEF FinishInv, TypeOK
      <4>2. CASE b # BookOf[j]
        <5>1. b \in installs /\ b \in Books /\ file'[b] = file[b]
          BY <1>4, <3>1, <4>2 DEF TypeOK
        <5>2. \A k \in Jobs : BookOf[k] = b => pc'[k] = pc[k]
          BY <1>1, <4>2
        <5> QED
          BY <1>1, <1>4, <3>1, <4>2, <5>1, <5>2 DEF FinishInv
      <4> QED
        BY <4>1, <4>2
    <3>2. ASSUME faults' = 0, NEW k \in Jobs PROVE
            /\ pc'[k] = "cover" => epub'[k] = "plain"
            /\ pc'[k] \in {"convert", "rename"} /\ BookOf[k] \in Illustrated
                 => epub'[k] = "covered"
      BY <1>1, <1>2, <2>1, <3>2 DEF FinishInv
    <3> QED
      BY <3>1, <3>2 DEF FinishInv
  <2> QED
    BY <1>1, <2>2, <2>3, <2>4, <2>5
<1>5. CASE Fail(j, temps[j], inToKepub) /\ UNCHANGED <<file, stable, installs, dated>>
  <2>1. pc'[j] = "done" /\ result'[j] = "failed" /\ j \in hurt' /\ faults' # 0
    BY <1>5 DEF Fail, Fault, Return, TypeOK
  <2>2. StableInv'
    BY <1>2, <1>5 DEF StableInv
  <2>3. JobInv'
    BY <1>1, <1>2, <2>1 DEF JobInv
  <2>4. InstallInv'
    BY <1>1, <1>2, <1>5, <2>1 DEF InstallInv
  <2> QED
    BY <1>1, <2>1, <2>2, <2>3, <2>4 DEF FinishInv
<1> QED
  BY <1>4, <1>5 DEF Rename

\* After the rename only the history of the books changes, and what is durable.
LEMMA LateInv ==
  ASSUME IInv, NEW j \in Jobs, SyncDirectory(j) \/ SetTime(j)
  PROVE  IInv'
<1> USE KepubInstallAssumption DEF IInv
<1>1. /\ TypeOK' /\ (faults' = 0 => faults = 0)
      /\ faults' # faults => faults' # 0
      /\ \A k \in Jobs \ {j} : pc'[k] = pc[k] /\ result'[k] = result[k] /\ epub'[k] = epub[k]
      /\ \A k \in Jobs : temps'[k] \ stuck'[k] \subseteq owed(pc'[k])
  BY StepFrame, StepOwedAll DEF Step
<1>2. UNCHANGED <<file, damaged, epub, installs, hurt>> /\ temps[j] \in SUBSET Temp
  BY DEF SyncDirectory, SetTime, TypeOK
<1>3. StableInv'
  BY <1>2 DEF SyncDirectory, SetTime, synced, survives, StableInv
<1>4. \/ /\ pc[j] = "syncDirectory" /\ pc'[j] = "setTime" /\ UNCHANGED <<result, dated>>
      \/ /\ pc[j] = "setTime" /\ pc'[j] = "done" /\ result'[j] = "changed"
         /\ \/ dated' = dated \cup {BookOf[j]}
            \/ faults' # 0
  <2>1. CASE SyncDirectory(j)
    BY <2>1, GotoType DEF SyncDirectory, syncFailed
  <2>2. CASE SetTime(j)
    <3>1. PICK kept \in SUBSET (temps[j] \cap downloadDefers) :
            Return(j, "changed", temps[j], downloadDefers, kept)
      BY <2>2 DEF SetTime
    <3>2. \/ dated' = dated \cup {BookOf[j]}
          \/ faults' # 0
      BY <2>2 DEF SetTime, Fault, TypeOK
    <3> QED
      BY <1>2, <2>2, <3>1, <3>2 DEF SetTime, Return, TypeOK
  <2> QED
    BY <2>1, <2>2
<1>5. JobInv'
  BY <1>1, <1>2, <1>4 DEF JobInv
<1>6. InstallInv'
  BY <1>1, <1>2, <1>4 DEF InstallInv
<1>7. FinishInv'
  <2>1. CASE pc[j] = "syncDirectory" /\ pc'[j] = "setTime" /\ UNCHANGED dated
    BY <1>1, <1>2, <2>1 DEF FinishInv
  <2>2. CASE pc[j] = "setTime" /\ pc'[j] = "done" /\ dated' = dated \cup {BookOf[j]}
    BY <1>1, <1>2, <2>2 DEF FinishInv
  <2> QED
    BY <1>4, <2>1, <2>2 DEF FinishInv
<1> QED
  BY <1>1, <1>3, <1>5, <1>6, <1>7

\* Between two runs, and after a crash, no job is under way.
LEMMA RestartInv ==
  ASSUME IInv, NextRun \/ Crash
  PROVE  IInv'
<1> USE KepubInstallAssumption DEF IInv, NewRun
<1>1. /\ \A j \in Jobs : pc'[j] = "check" /\ result'[j] = "none" /\ temps'[j] = {}
      /\ installs' = {} /\ damaged' = damaged
  BY DEF NextRun, Crash
<1>2. TypeOK'
  BY DEF NextRun, Crash, TypeOK, Content
<1>3. StableInv'
  <2>1. CASE UNCHANGED <<file, stable>>
    BY <1>1, <2>1 DEF StableInv
  <2>2. CASE /\ file' \in [Books -> Content] /\ \A b \in Books : file'[b] \in stable[b]
             /\ stable' = [b \in Books |-> {file'[b]}]
    BY <1>1, <2>2 DEF StableInv
  <2> QED
    BY <2>1, <2>2 DEF NextRun, Crash
<1> QED
  BY <1>1, <1>2, <1>3 DEF JobInv, InstallInv, FinishInv

LEMMA StepInv == IInv /\ [Next]_vars => IInv'
<1>1. CASE UNCHANGED vars
  BY <1>1 DEF vars, history, IInv, TypeOK, StableInv, JobInv, InstallInv, FinishInv
<1> QED
  BY <1>1, EarlyInv, RenameInv, LateInv, RestartInv DEF Next, Step

\* The inductive invariant holds in every state.
THEOREM InvCorrect == Spec => []IInv
  BY InitInv, StepInv, PTL DEF Spec

\* No interleaving of downloads, failure or loss of power makes a file invalid.
THEOREM NeverTornBookHolds == Spec => []NeverTornBook
<1>1. IInv => NeverTornBook
  BY DEF IInv, StableInv, NeverTornBook
<1> QED
  BY <1>1, InvCorrect, PTL

\* Whatever a run replaced, one of its downloads reports.
THEOREM InstallsAreReportedHolds == Spec => []InstallsAreReported
<1>1. IInv => InstallsAreReported
  BY DEF IInv, InstallInv, InstallsAreReported, AllDone
<1> QED
  BY <1>1, InvCorrect, PTL

\* What may be tolerated never fails a download.
THEOREM OnlyHurtDownloadsFailHolds == Spec => []OnlyHurtDownloadsFail
<1>1. IInv => OnlyHurtDownloadsFail
  BY DEF IInv, JobInv, OnlyHurtDownloadsFail
<1> QED
  BY <1>1, InvCorrect, PTL

\* Whatever fails, and whichever function returns, a download leaves none of its three
\* temporary files, unless the last attempt to remove it failed.
THEOREM NothingLeftBehindHolds == Spec => []NothingLeftBehind
<1>1. IInv => NothingLeftBehind
  BY DEF IInv, JobInv, NothingLeftBehind, owed
<1> QED
  BY <1>1, InvCorrect, PTL

\* Overlapping downloads of a book leave it with cover and time.
THEOREM InstallsAreFinishedHolds == Spec => []InstallsAreFinished
<1>1. IInv => InstallsAreFinished
  BY DEF IInv, FinishInv, InstallsAreFinished, AllDone
<1> QED
  BY <1>1, InvCorrect, PTL

-----------------------------------------------------------------------------
\* What a step of a download does to the files: nothing, an installation of a good
\* file, or the sync of the directory.
LEMMA StepFiles ==
  ASSUME IInv, NEW j \in Jobs, Step(j)
  PROVE  /\ crashes' = crashes
         /\ \/ UNCHANGED <<file, stable>>
            \/ /\ epub[j] \in Good
               /\ file' = [file EXCEPT ![BookOf[j]] = epub[j]]
               /\ stable' = [stable EXCEPT ![BookOf[j]] = @ \cup {epub[j]}]
            \/ UNCHANGED file /\ stable' = [b \in Books |-> {file[b]}]
<1>1. pc[j] = "rename" => epub[j] \in Good
  BY DEF IInv, JobInv
<1>2. CASE Rename(j)
  BY <1>1, <1>2 DEF Rename, survives
<1>3. CASE SyncDirectory(j)
  BY <1>3 DEF SyncDirectory, synced, survives
<1>4. CASE Check(j) \/ Fetch(j) \/ FixCover(j) \/ Convert(j) \/ SetTime(j)
  BY <1>4 DEF Check, Fetch, FixCover, Convert, SetTime
<1> QED
  BY <1>2, <1>3, <1>4 DEF Step

\* Only complete files replace a file.
THEOREM GoodStaysHolds == Spec => GoodStays
<1>1. ASSUME IInv, [Next]_vars
      PROVE  [\A b \in Books :
                /\ file[b] \in Good /\ crashes' = crashes => file'[b] \in Good
                /\ stable[b] \subseteq Good => file'[b] \in Good /\ stable'[b] \subseteq Good]_vars
  <2>1. CASE UNCHANGED vars
    BY <2>1
  <2>2. ASSUME Next, NEW b \in Books
        PROVE  /\ file[b] \in Good /\ crashes' = crashes => file'[b] \in Good
               /\ stable[b] \subseteq Good => file'[b] \in Good /\ stable'[b] \subseteq Good
    <3>0. file[b] \in stable[b]
      BY <1>1 DEF IInv, StableInv
    <3>1. ASSUME NEW j \in Jobs, Step(j)
          PROVE  /\ file[b] \in Good => file'[b] \in Good
                 /\ stable[b] \subseteq Good => stable'[b] \subseteq Good
      BY <1>1, <3>0, <3>1, StepFiles, KepubInstallAssumption DEF IInv, TypeOK
    <3>2. CASE NextRun
      BY <3>0, <3>2 DEF NextRun
    <3>3. CASE Crash
      <4>1. crashes' # crashes
        BY <1>1, <3>3 DEF Crash, IInv, TypeOK
      <4> QED
        BY <3>0, <3>3, <4>1 DEF Crash
    <3> QED
      BY <2>2, <3>0, <3>1, <3>2, <3>3 DEF Next
  <2> QED
    BY <1>1, <2>1, <2>2
<1> QED
  BY <1>1, InvCorrect, PTL DEF Spec, GoodStays

-----------------------------------------------------------------------------
\* One more content in a set adds its look to those of the set.
LEMMA LooksAdd ==
  ASSUME NEW S, NEW T, NEW x, T = S \cup {x}, look(x) = "whole"
  PROVE  {look(c) : c \in T} = {look(c) : c \in S} \cup {"whole"}
<1>1. ASSUME NEW v \in {look(c) : c \in T}
      PROVE  v \in {look(c) : c \in S} \cup {"whole"}
  <2>1. PICK c \in T : v = look(c)
    BY <1>1
  <2>2. CASE c \in S
    BY <2>1, <2>2
  <2>3. CASE c = x
    BY <2>1, <2>3
  <2> QED
    BY <2>2, <2>3
<1>2. ASSUME NEW v \in {look(c) : c \in S} \cup {"whole"}
      PROVE  v \in {look(c) : c \in T}
  <2>1. CASE v \in {look(c) : c \in S}
    BY <2>1
  <2>2. CASE v = "whole"
    BY <2>2
  <2> QED
    BY <1>2, <2>1, <2>2
<1> QED
  BY <1>1, <1>2

\* The downloads, with their failures, temporary files, crashes and later runs, are
\* an implementation of books that are replaced as a whole.
THEOREM InstallsAtomicallyHolds == Spec => InstallsAtomically
<1> DEFINE shown == [b \in Books |-> look(file[b])]
           durable == [b \in Books |-> {look(content) : content \in stable[b]}]
<1>1. Init => Atomic!Init
  BY DEF Init, Atomic!Init, Atomic!Shown, look
<1>2. ASSUME IInv, [Next]_vars PROVE [Atomic!Next]_(Atomic!vars)
  <2>1. ASSUME UNCHANGED <<file, stable>> PROVE UNCHANGED Atomic!vars
    BY <2>1 DEF Atomic!vars
  <2>2. CASE UNCHANGED vars
    BY <2>1, <2>2 DEF vars
  <2>3. ASSUME NEW j \in Jobs, Step(j) PROVE [Atomic!Next]_(Atomic!vars)
    <3>1. CASE /\ epub[j] \in Good
               /\ file' = [file EXCEPT ![BookOf[j]] = epub[j]]
               /\ stable' = [stable EXCEPT ![BookOf[j]] = @ \cup {epub[j]}]
      <4>0. look(epub[j]) = "whole" /\ BookOf[j] \in Books
        BY <3>1, KepubInstallAssumption DEF look, Good
      <4>1. shown' = [shown EXCEPT ![BookOf[j]] = "whole"]
        BY <1>2, <3>1, <4>0 DEF IInv, TypeOK
      <4>2. durable' = [durable EXCEPT ![BookOf[j]] = @ \cup {"whole"}]
        <5>1. \A b \in Books : stable'[b] =
                IF b = BookOf[j] THEN stable[b] \cup {epub[j]} ELSE stable[b]
          BY <1>2, <3>1 DEF IInv, TypeOK
        <5>2. \A b \in Books : {look(content) : content \in stable'[b]} =
                IF b = BookOf[j] THEN {look(content) : content \in stable[b]} \cup {"whole"}
                                 ELSE {look(content) : content \in stable[b]}
          <6>1. TAKE b \in Books
          <6>2. CASE b = BookOf[j]
            BY <4>0, <5>1, <6>2, LooksAdd
          <6>3. CASE b # BookOf[j]
            BY <5>1, <6>3
          <6> QED
            BY <6>2, <6>3
        <5> QED
          BY <4>0, <5>2
      <4> QED
        BY <4>0, <4>1, <4>2 DEF Atomic!Next, Atomic!Install
    <3>2. CASE UNCHANGED file /\ stable' = [b \in Books |-> {file[b]}]
      <4>1. durable' = [b \in Books |-> {shown[b]}] /\ shown' = shown
        BY <3>2
      <4> QED
        BY <4>1 DEF Atomic!Next, Atomic!Flush
    <3> QED
      BY <1>2, <2>1, <2>3, <3>1, <3>2, StepFiles
  <2>4. CASE NextRun
    BY <2>1, <2>4 DEF NextRun
  <2>5. CASE Crash
    <3>1. CASE /\ file' \in [Books -> Content] /\ \A b \in Books : file'[b] \in stable[b]
               /\ stable' = [b \in Books |-> {file'[b]}]
      <4>1. shown' \in [Books -> Atomic!Shown] /\ \A b \in Books : shown'[b] \in durable[b]
        BY <3>1 DEF Atomic!Shown, look
      <4>2. durable' = [b \in Books |-> {shown'[b]}]
        BY <3>1
      <4> QED
        BY <4>1, <4>2 DEF Atomic!Next, Atomic!PowerLoss
    <3> QED
      BY <2>1, <2>5, <3>1 DEF Crash
  <2> QED
    BY <1>2, <2>2, <2>3, <2>4, <2>5 DEF Next
<1> QED
  BY <1>1, <1>2, InvCorrect, PTL DEF Spec, InstallsAtomically, Atomic!Spec
=============================================================================
