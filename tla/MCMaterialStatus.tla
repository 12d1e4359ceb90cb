--------------------------- MODULE MCMaterialStatus ---------------------------
(* Two managers and two sites that both have a material; another movement   *)
(* would have brought it to the first site earlier.                         *)
EXTENDS MaterialStatus, TLC

CONSTANTS manager1, manager2, north, south, crane

Move(site, at, quant) == [mat |-> crane, site |-> site, at |-> at, quant |-> quant]
MCPosted == {Move(north, 2, 1), Move(south, 1, 1)}
MCMovements == MCPosted \cup {Move(north, 1, 1)}
MCAssigned == manager1 :> {north} @@ manager2 :> {south}
=============================================================================
