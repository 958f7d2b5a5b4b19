-------------------------------- MODULE MCRuns --------------------------------
(* Runs over one book: unread bookmarks with every set of the other options *)
(* and a path as Nickel has it; and, with these options on, all bookmarks, a *)
(* limit, and each other spelling of the path.                               *)
EXTENDS Runs

CONSTANTS b1

MCInitialRows == {"none", "read"}

AllOn(c) == c.archive /\ c.favourites /\ c.delete
Options == {c \in Config :
  \/ c.unreadOnly /\ ~c.limited /\ (AllOn(c) \/ c.path = "nickel")
  \/ AllOn(c) /\ c.path = "nickel" /\ ~(c.limited /\ ~c.unreadOnly)}
Bookmarks == {Gone} \cup {m \in Bookmark : m.exists}

\* Without a collection in the configuration there is none at first on either side,
\* until a user makes one.
MCInit ==
  /\ WatchedInit
  /\ cfg.favourites \/ \A b \in Books : ~nickel[b].shelf /\ ~readeck[b].marked

MCSpec == MCInit /\ [][WatchedNext]_<<vars, history>> /\ WF_vars(Program)
=============================================================================
