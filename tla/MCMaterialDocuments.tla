------------------------- MODULE MCMaterialDocuments -------------------------
(* Two clerks and a manager on a consumption, a transfer and a receipt.     *)
EXTENDS MaterialDocuments, TLC

CONSTANTS clerk1, clerk2, manager, north, south, cable, metre, piece

MCDocuments == {<<"consumption", 1>>, <<"transfer", 1>>, <<"receipt", 1>>}
Line(unit, quant) ==
    [mat |-> cable, unit |-> unit, quant |-> quant, site |-> Null, amount |-> 2, vat |-> 1]
MCBodies == {Line(metre, 1)}
MCHeads == {[site |-> north, to |-> south], [site |-> south, to |-> Null]}
MCNewItems == {<<Line(piece, 1)>>, <<Line(metre, 1), Line(metre, 1)>>, <<Line(metre, 0)>>, <<>>}
MCSymmetry == Permutations({clerk1, clerk2})
=============================================================================
