------------------------------- MODULE BookFiles -------------------------------
(***************************************************************************)
(* What installing books promises to a reader of Output.Path, and to one who  *)
(* finds the device after a loss of power: a book is replaced as a whole.     *)
(* KepubInstall implements it.                                                *)
(***************************************************************************)
CONSTANTS Books

VARIABLES
  shown,   \* what there is under the name of each book: "none", "torn" or "whole"
  durable  \* what a loss of power may make of it

vars == <<shown, durable>>

Shown == {"none", "torn", "whole"}

Init ==
  /\ shown \in [Books -> Shown]
  /\ durable = [b \in Books |-> {shown[b]}]

\* Of whatever was there before, a reader sees the whole book next.
Install(b) ==
  /\ shown' = [shown EXCEPT ![b] = "whole"]
  /\ durable' = [durable EXCEPT ![b] = @ \cup {"whole"}]

Flush ==
  /\ durable' = [b \in Books |-> {shown[b]}]
  /\ UNCHANGED shown

PowerLoss ==
  /\ shown' \in [Books -> Shown] /\ \A b \in Books : shown'[b] \in durable[b]
  /\ durable' = [b \in Books |-> {shown'[b]}]

Next == (\E b \in Books : Install(b)) \/ Flush \/ PowerLoss

Spec == Init /\ [][Next]_vars
=============================================================================
