--------------------------------- MODULE Runs ---------------------------------
(***************************************************************************)
(* The runs of Sync, each of its passes watched by the history of             *)
(* PassHistory: what LocalPass promises of one pass in any environment holds   *)
(* of every pass of every run, with the downloads before it, the rescans and    *)
(* crashes after it, and the states that earlier runs leave.                   *)
(***************************************************************************)
EXTENDS Sync, PassHistory

\* A run holds a listing and has not finished its pass.
watched == pc \in {"download", "start", "next"} \/ InCall

NoHistory == open = {} /\ steady = {} /\ seen = [b \in Books |-> {}]

\* The states a bookmark has had are collected from the beginning of an attempt to list
\* the feed, since its pages are of different times; the rest of the history begins when
\* the listing is complete, and all of it is forgotten after the pass.
Watch ==
  \/ watched /\ watched' /\ Observe
  \/ ~watched /\ watched' /\ open' = openNow' /\ steady' = Books /\ Sees
  \/ /\ pc' = "list" /\ open' = {} /\ steady' = {}
     /\ IF attempt' # attempt THEN seen' = seenNow' ELSE Sees
  \/ pc' # "list" /\ ~watched' /\ open' = {} /\ steady' = {} /\ seen' = [b \in Books |-> {}]

WatchedInit == Init /\ NoHistory

WatchedNext == Next /\ Watch

WatchedSpec == WatchedInit /\ [][WatchedNext]_<<vars, history>>

-----------------------------------------------------------------------------
\* In every run, whatever earlier ones have left: kobodeck removes files and writes to
\* Readeck in the calls of its pass only; a book in use since the listing ended keeps its file,
\* also through the downloads; a file goes only once Readeck has held what the Kobo
\* says and, if its bookmark was listed, has held it archived; and Readeck is told only
\* what the Kobo says (sync.go:96-110, local_books.go:53-189).
EveryPass == [][
  /\ \A b \in Books : Removes(b) \/ (readeck'[b] # readeck[b] /\ edits' = edits) => InCall
  /\ KeepsOpenBooks /\ ReportsBeforeRemoving /\ RemovesOnlyStale /\ TellsWhatKoboSays
  ]_<<vars, history>>

\* The inductive invariant: that of the runs, and that of a pass from the listing on.
WatchedInv == IInv /\ HistoryTypeOK /\ (pc = "list" \/ watched => PassInv)
=============================================================================
