-------------------------------- MODULE MCSync --------------------------------
(* Runs over two books, one of them outside the label filter. *)
EXTENDS Sync

CONSTANTS b1, b2

\* With favourites there are more requests, and no new order of the run's steps.  A
\* listing is cut short here by a feed that moves; MCRuns has a limit.
MCConfigs == {c \in Config : ~c.limited /\ c.archive /\ ~c.favourites /\ c.delete
                              /\ c.unreadOnly /\ c.path = "nickel"}
MCInitialRows == {"none", "read"}
MCInitialBookmarks == {Gone, Fresh, [Fresh EXCEPT !.done = TRUE, !.archived = TRUE]}
=============================================================================
