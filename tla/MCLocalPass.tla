----------------------------- MODULE MCLocalPass -----------------------------
(* One book in every initial state, and a file without a stem; two failures *)
(* and one user change anywhere in the pass.                                *)
EXTENDS LocalPass

CONSTANTS b, u

MCBooks == {b, u}
MCUnnamed == {u}
\* All options with a path as Nickel has it, and one configuration with each other.
\* Init lists any part of the feed, whether or not its length is limited.
MCConfigs == {c \in Config :
  ~c.limited /\ (c.path = "nickel" \/ (c.archive /\ c.favourites /\ c.delete /\ c.unreadOnly))}
MCInitialBookmarks == {Gone} \cup {m \in Bookmark : m.exists}
=============================================================================
