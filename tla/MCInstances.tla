------------------------------ MODULE MCInstances ------------------------------
(* Two process slots and two configurations beside each other, whose names do *)
(* not extend one another.                                                     *)
EXTENDS Instances

MCProcs == 1 .. 2
MCStems == 1 .. 2
MCUnrelated == [s \in MCStems |-> {s}]
=============================================================================
