------------------------------- MODULE Downloads -------------------------------
(***************************************************************************)
(* What a run of downloads promises to sync, without goroutines, flag and     *)
(* channel: the selected downloads are made one at a time, in any order, and   *)
(* then one answer tells of all of them.  DownloadRun implements it, and Sync  *)
(* takes its downloads so.                                                    *)
(***************************************************************************)
CONSTANTS Jobs

VARIABLES
  pending,  \* the downloads still to be made
  changed,  \* those that changed a file
  failed,   \* those that returned an error
  answers   \* what has been answered to sync, at most one

vars == <<pending, changed, failed, answers>>

Init ==
  /\ pending \in SUBSET Jobs
  /\ changed = {} /\ failed = {} /\ answers = {}

\* A download changes a file, fails, or finds nothing to do.
Attempt(j) ==
  /\ j \in pending /\ pending' = pending \ {j}
  /\ \/ UNCHANGED <<changed, failed>>
     \/ changed' = changed \cup {j} /\ UNCHANGED failed
     \/ failed' = failed \cup {j} /\ UNCHANGED changed
  /\ UNCHANGED answers

Finish ==
  /\ pending = {} /\ answers = {}
  /\ answers' = {[filesChanged |-> changed # {}, errors |-> failed]}
  /\ UNCHANGED <<pending, changed, failed>>

Next == (\E j \in Jobs : Attempt(j)) \/ Finish

Spec == Init /\ [][Next]_vars
=============================================================================
