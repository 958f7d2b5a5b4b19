---------------------------- MODULE MCKepubInstall ----------------------------
(* Three downloads at once, two of them of the same book; one article has an  *)
(* image.                                                                     *)
EXTENDS KepubInstall

MCBooks == {"a", "b"}
MCIllustrated == {"a"}
MCJobs == 1 .. 3
MCBookOf == [j \in MCJobs |-> IF j = 3 THEN "b" ELSE "a"]
=============================================================================
