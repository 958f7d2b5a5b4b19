----------------------------- MODULE KepubInstall -----------------------------
(***************************************************************************)
(* downloadBookmarkFile, fixCover and toKepub: how the file of a book gets    *)
(* into Output.Path.  A download goes to a temporary file, is given a cover,   *)
(* is converted to another, synced, validated, renamed into place and dated.   *)
(* Several downloads run at once, two of them for the same book if the listing *)
(* names it twice, and the power may go at any step.                           *)
(***************************************************************************)
EXTENDS Naturals, FiniteSets

CONSTANTS
  Books,
  Illustrated, \* those whose article has an image that fixCover takes
  Jobs,        \* the downloads of a run
  BookOf,      \* the book of each
  MaxFaults,   \* bound: steps with failing calls, and useless answers
  MaxCrashes   \* bound: kills and power losses

ASSUME KepubInstallAssumption ==
  BookOf \in [Jobs -> Books] /\ MaxFaults \in Nat /\ MaxCrashes \in Nat

\* A file that validateEPUB accepts declares a cover or does not; an empty file is
\* "invalid".
Content == {"absent", "invalid", "plain", "covered"}
Good == {"plain", "covered"}

Temp == {"epub", "cover", "kepub"}

VARIABLES
  file,     \* what the path of each book shows
  stable,   \* what it may show after a loss of power
  damaged,  \* history: the books whose file was invalid at the start
  pc,       \* the next step of each job
  epub,     \* the content of its temporary EPUB
  temps,    \* its temporary files: the EPUB, its copy with a cover, the KEPUB
  result,   \* what the job returned
  \* History of the current run:
  installs, \* the books whose file it has replaced
  dated,    \* those of them whose file has the time of the article
  hurt,     \* the jobs that met a failure which must fail the download
  stuck,    \* of its temporary files, those whose last removal failed
  faults, crashes

history == <<installs, dated, hurt, stuck>>
vars == <<file, stable, damaged, pc, epub, temps, result, history, faults, crashes>>

NewRun ==
  /\ pc' = [j \in Jobs |-> "check"] /\ epub' = [j \in Jobs |-> "absent"]
  /\ temps' = [j \in Jobs |-> {}] /\ result' = [j \in Jobs |-> "none"]
  /\ installs' = {} /\ dated' = {} /\ hurt' = {}
  /\ stuck' = [j \in Jobs |-> {}]

Init ==
  /\ file \in [Books -> Content]
  /\ stable = [b \in Books |-> {file[b]}]
  /\ damaged = {b \in Books : file[b] = "invalid"}
  /\ pc = [j \in Jobs |-> "check"] /\ epub = [j \in Jobs |-> "absent"]
  /\ temps = [j \in Jobs |-> {}] /\ result = [j \in Jobs |-> "none"]
  /\ installs = {} /\ dated = {} /\ hurt = {}
  /\ stuck = [j \in Jobs |-> {}]
  /\ faults = 0 /\ crashes = 0

\* A fault of a step may hit several of its calls.
Fault == faults < MaxFaults /\ faults' = faults + 1

Goto(j, step) == pc' = [pc EXCEPT ![j] = step] /\ UNCHANGED result

\* removeWithWarning of some paths, of which "kept" cannot be removed, when there are
\* the temporary files "made".  That is only logged.
Remove(j, made, paths, kept) ==
  /\ temps' = [temps EXCEPT ![j] = (made \ paths) \cup kept]
  /\ stuck' = [stuck EXCEPT ![j] = (@ \ paths) \cup kept]

\* What each function has deferred the removal of, once it has made it.
\* Mutant: the file is there only to be renamed.
fixCoverDefersNot == {}
fixCoverDefers == {"cover"}
toKepubDefers == {"kepub"}
downloadDefers == {"epub"}
inToKepub == toKepubDefers \cup downloadDefers

\* A return of downloadBookmarkFile, and of toKepub if it is there, which removes paths.
Return(j, how, made, paths, kept) ==
  /\ pc' = [pc EXCEPT ![j] = "done"] /\ result' = [result EXCEPT ![j] = how]
  /\ Remove(j, made, paths, kept)

\* A call fails, and the download with it.
Fail(j, made, paths) ==
  /\ Fault /\ hurt' = hurt \cup {j}
  /\ \E kept \in SUBSET (made \cap paths) : Return(j, "failed", made, paths, kept)

-----------------------------------------------------------------------------
\* Mutant: a file of any content is taken as downloaded.
downloadedIfPresent(content) == content # "absent"
downloaded(content) == content \in Good

\* The stat, and the validation of a file that is there; MkdirAll, CreateTemp and the
\* close of what it has made.  A good file that cannot be read is fetched again.
Check(j) ==
  /\ pc[j] = "check"
  /\ LET present == downloaded(file[BookOf[j]])
     IN \/ /\ present /\ Return(j, "same", {}, {}, {}) /\ UNCHANGED <<epub, hurt, faults>>
        \/ /\ IF present THEN Fault ELSE UNCHANGED faults
           /\ Goto(j, "fetch") /\ epub' = [epub EXCEPT ![j] = "invalid"]
           /\ temps' = [temps EXCEPT ![j] = {"epub"}] /\ UNCHANGED <<stuck, hurt>>
        \/ \E made \in {{}, {"epub"}} : Fail(j, made, downloadDefers) /\ UNCHANGED epub
  /\ UNCHANGED <<file, stable, damaged, installs, dated, crashes>>

\* The request, and the copy of the body to the temporary file.  A server may
\* answer 200 with something that is no EPUB.
Fetch(j) ==
  /\ pc[j] = "fetch"
  /\ \/ /\ epub' = [epub EXCEPT ![j] = "plain"] /\ Goto(j, "cover")
        /\ UNCHANGED <<temps, stuck, hurt, faults>>
     \/ Fault /\ hurt' = hurt \cup {j} /\ Goto(j, "cover") /\ UNCHANGED <<epub, temps, stuck>>
     \/ Fail(j, temps[j], downloadDefers) /\ UNCHANGED epub
  /\ UNCHANGED <<file, stable, damaged, installs, dated, crashes>>

\* Only an archive with a manifest that names an image is rewritten.
rewrites(j) == epub[j] = "plain" /\ BookOf[j] \in Illustrated

\* Mutant: the OPF is left as it is.
withCoverNot(j) == epub[j]
withCover(j) == IF rewrites(j) THEN "covered" ELSE epub[j]

\* Mutant: the archive is rewritten in place.
afterCoverFailureTorn(j) == "invalid"
afterCoverFailure(j) == epub[j]

\* fixCover rewrites the EPUB to a file beside it, which it renames over it.  A failure
\* is only logged.
FixCover(j) ==
  /\ pc[j] = "cover" /\ Goto(j, "convert")
  /\ \/ epub' = [epub EXCEPT ![j] = withCover(j)] /\ UNCHANGED <<temps, stuck, faults>>
     \/ /\ Fault /\ epub' = [epub EXCEPT ![j] = afterCoverFailure(j)]
        /\ LET made == IF rewrites(j) THEN {"cover"} ELSE {}
           IN \E kept \in SUBSET (made \cap fixCoverDefers) :
                Remove(j, temps[j] \cup made, fixCoverDefers, kept)
  /\ UNCHANGED <<file, stable, damaged, installs, dated, hurt, crashes>>

\* Mutant: the converted file is not validated.
passesAnyhow(content) == TRUE
passes(content) == content \in Good

\* toKepub up to the rename: conversion to a temporary file, sync, validation.
\* The conversion of an invalid EPUB fails, or gives an invalid KEPUB.
Convert(j) ==
  /\ pc[j] = "convert"
  /\ LET made == temps[j] \cup {"kepub"}
     IN \/ /\ passes(epub[j]) /\ Goto(j, "rename") /\ temps' = [temps EXCEPT ![j] = made]
           /\ UNCHANGED <<stuck, hurt, faults>>
        \/ ~passes(epub[j]) /\ Return(j, "failed", made, inToKepub, {}) /\ UNCHANGED <<hurt, faults>>
        \/ Fail(j, made, inToKepub)
  /\ UNCHANGED <<file, stable, damaged, epub, installs, dated, crashes>>

\* What a loss of power can leave of a file renamed into place with that content, as
\* long as the medium replaces the name at once.
\* Mutant: the data was not synced before the rename.
survivesUnsynced(content) == {content, "invalid"}
survives(content) == {content}

\* The new name is in the directory, but perhaps not on the medium.
Rename(j) ==
  /\ pc[j] = "rename"
  /\ LET b == BookOf[j]
     IN \/ /\ file' = [file EXCEPT ![b] = epub[j]]
           /\ stable' = [stable EXCEPT ![b] = @ \cup survives(epub[j])]
           /\ temps' = [temps EXCEPT ![j] = @ \ {"kepub"}]
           /\ installs' = installs \cup {b} /\ dated' = dated \ {b}
           /\ Goto(j, "syncDirectory") /\ UNCHANGED <<stuck, hurt, faults>>
        \/ Fail(j, temps[j], inToKepub) /\ UNCHANGED <<file, stable, installs, dated>>
  /\ UNCHANGED <<damaged, epub, crashes>>

\* Mutant: a failing sync of the directory fails the download.
syncFailedFatal(j) ==
  \E kept \in SUBSET (temps[j] \cap inToKepub) :
    Return(j, "failed", temps[j], inToKepub, kept)
syncFailed(j) ==
  /\ Goto(j, "setTime")
  /\ \E kept \in SUBSET (temps[j] \cap {"epub"}) : Remove(j, temps[j], {"epub"}, kept)

synced == [b \in Books |-> survives(file[b])]

\* It covers all names of the directory; a failure is logged only.  Then toKepub removes
\* the EPUB and returns.
SyncDirectory(j) ==
  /\ pc[j] = "syncDirectory"
  /\ \/ /\ stable' = synced /\ UNCHANGED faults
        /\ Goto(j, "setTime") /\ Remove(j, temps[j], {"epub"}, {})
     \/ Fault /\ syncFailed(j) /\ stable' \in {stable, synced}
  /\ UNCHANGED <<file, damaged, epub, installs, dated, hurt, crashes>>

\* os.Chtimes, whose failure is logged only, and the end of the download.
SetTime(j) ==
  /\ pc[j] = "setTime"
  /\ \/ /\ dated' = dated \cup {BookOf[j]} /\ UNCHANGED faults
        /\ Return(j, "changed", temps[j], downloadDefers, {})
     \/ /\ Fault /\ dated' \in {dated, dated \cup {BookOf[j]}}
        /\ \E kept \in SUBSET (temps[j] \cap downloadDefers) :
             Return(j, "changed", temps[j], downloadDefers, kept)
  /\ UNCHANGED <<file, stable, damaged, epub, installs, hurt, crashes>>

Step(j) == \/ Check(j) \/ Fetch(j) \/ FixCover(j) \/ Convert(j)
           \/ Rename(j) \/ SyncDirectory(j) \/ SetTime(j)

\* A later run starts over.
NextRun ==
  /\ \A j \in Jobs : pc[j] = "done"
  /\ NewRun /\ UNCHANGED <<file, stable, damaged, faults, crashes>>

\* kobodeck is killed, or the device loses power; the next run finds what is left.
\* The temporary files stay for good, under names that no later run uses.
Crash ==
  /\ crashes < MaxCrashes /\ crashes' = crashes + 1
  /\ \/ UNCHANGED <<file, stable>>
     \/ /\ file' \in [Books -> Content] /\ \A b \in Books : file'[b] \in stable[b]
        /\ stable' = [b \in Books |-> {file'[b]}]
  /\ NewRun /\ UNCHANGED <<damaged, faults>>

Next == (\E j \in Jobs : Step(j)) \/ NextRun \/ Crash

Spec == Init /\ [][Next]_vars

\* Every goroutine runs on, and runs follow one another.
FairSpec == Spec /\ (\A j \in Jobs : WF_vars(Step(j))) /\ WF_vars(NextRun)

-----------------------------------------------------------------------------
\* Every variable keeps its type.
TypeOK ==
  /\ file \in [Books -> Content] /\ stable \in [Books -> SUBSET Content]
  /\ damaged \subseteq Books /\ installs \subseteq Books /\ dated \subseteq Books
  /\ pc \in [Jobs -> {"check", "fetch", "cover", "convert", "rename", "syncDirectory",
                      "setTime", "done"}]
  /\ epub \in [Jobs -> Content] /\ temps \in [Jobs -> SUBSET Temp] /\ stuck \in [Jobs -> SUBSET Temp]
  /\ result \in [Jobs -> {"none", "same", "changed", "failed"}]
  /\ hurt \subseteq Jobs
  /\ faults \in 0 .. MaxFaults /\ crashes \in 0 .. MaxCrashes

\* What BookFiles says of the books: a reader sees the old file, none, or a complete
\* new one, and a loss of power brings back one of these (readeck.go:259-261, 319-335;
\* kepub_processing.go:204-206).
look(content) == CASE content = "absent"  -> "none"
                   [] content = "invalid" -> "torn"
                   [] OTHER               -> "whole"

Atomic == INSTANCE BookFiles WITH
  shown   <- [b \in Books |-> look(file[b])],
  durable <- [b \in Books |-> {look(content) : content \in stable[b]}]

InstallsAtomically == Atomic!Spec

\* No failure, crash or loss of power ever makes a book's file invalid.
NeverTornBook == \A b \in Books \ damaged : file[b] # "invalid"

\* A good file is never replaced by anything else while the power is on, and one
\* that has reached the medium not even by a loss of power.
GoodStays == [][\A b \in Books :
    /\ file[b] \in Good /\ crashes' = crashes => file'[b] \in Good
    /\ stable[b] \subseteq Good => file'[b] \in Good /\ stable'[b] \subseteq Good]_vars

AllDone == \A j \in Jobs : pc[j] = "done"

\* When a run's downloads are over, each file they replaced is reported as changed
\* by one of them, or Nickel would not be told (readeck.go:345-356).
InstallsAreReported == AllDone =>
  \A b \in installs : \E j \in Jobs : BookOf[j] = b /\ result[j] = "changed"

\* Only what the download cannot do without fails it: not the cover, the sync of the
\* directory, the time of the file, or the removal of what it leaves
\* (readeck.go:341-343, 352-354; kepub_processing.go:248-250).
OnlyHurtDownloadsFail == \A j \in Jobs : result[j] = "failed" => j \in hurt

\* Of the three files that three functions make and remove, a download that returns, by
\* whatever path, leaves only what could not be removed when that was tried last
\* (README.md:173-175).
NothingLeftBehind == \A j \in Jobs : pc[j] = "done" => temps[j] \subseteq stuck[j]

\* Without failing calls, the files of a run carry the cover and the time of their
\* article, also when two downloads of a book overlap.
InstallsAreFinished == AllDone /\ faults = 0 => \A b \in installs :
  b \in dated /\ (b \in Illustrated => file[b] = "covered")

\* Once failures and crashes have ended every book gets a good file, also one whose
\* file was invalid (readeck.go:278-285).
EventuallyGood == <>[](\A j \in Jobs : file[BookOf[j]] \in Good)

-----------------------------------------------------------------------------
\* The inductive invariant behind these properties.
StableInv == \A b \in Books :
  /\ file[b] \in stable[b]
  /\ "invalid" \in stable[b] => b \in damaged

\* The temporary files that a download has at a step and that later steps remove.
owed(step) == CASE step \in {"check", "done"} -> {}
                [] step = "rename" -> {"epub", "kepub"}
                [] OTHER -> {"epub"}

JobInv == \A j \in Jobs :
  /\ pc[j] = "rename" => epub[j] \in Good
  /\ pc[j] \in {"cover", "convert"} => epub[j] \in Good \/ j \in hurt
  /\ result[j] = "failed" => j \in hurt
  /\ temps[j] \ stuck[j] \subseteq owed(pc[j])

InstallInv == \A b \in installs : \E j \in Jobs :
  BookOf[j] = b /\ (pc[j] \in {"syncDirectory", "setTime"} \/ (pc[j] = "done" /\ result[j] = "changed"))

FinishInv == faults = 0 =>
  /\ \A j \in Jobs : /\ pc[j] = "cover" => epub[j] = "plain"
                     /\ pc[j] \in {"convert", "rename"} /\ BookOf[j] \in Illustrated
                          => epub[j] = "covered"
  /\ \A b \in installs :
       /\ b \in Illustrated => file[b] = "covered"
       /\ \/ b \in dated
          \/ \E j \in Jobs : BookOf[j] = b /\ pc[j] \in {"syncDirectory", "setTime"}

IInv == TypeOK /\ StableInv /\ JobInv /\ InstallInv /\ FinishInv
=============================================================================
