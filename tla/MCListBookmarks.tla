---------------------------- MODULE MCListBookmarks ----------------------------
(* Up to four bookmarks, two of them labelled, in pages of two: an empty feed,  *)
(* a short page, full pages only, and limits below, at and above the end of a   *)
(* page.                                                                        *)
EXTENDS ListBookmarks

MCIds == 1 .. 4
MCTagged == {1, 2}
MCLimits == 0 .. 3
MCNoLimit == {0}
=============================================================================
