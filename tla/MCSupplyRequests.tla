--------------------------- MODULE MCSupplyRequests ---------------------------
(* Two editors, a supply manager and an administrator who assigns, and two  *)
(* requests at two sites.                                                   *)
EXTENDS SupplyRequests, TLC

CONSTANTS editor1, editor2, manager1, manager2, north, south, cable, metre, shop, urgent

MCUnitOf == [mat \in {cable} |-> metre]
Line(quant, status) ==
    [mat |-> cable, unit |-> metre, quant |-> quant, importance |-> urgent,
     supplier |-> Null, status |-> status]
MCBodies == {Line(1, "draft")}
MCNewItems == {<<Line(1, "draft")>>}
MCStarts ==
    {[requests |-> {}, siteOf |-> <<>>, items |-> <<Line(1, "draft")>>],
     [requests |-> {1, 2}, siteOf |-> <<north, south>>, items |-> <<Line(1, "draft")>>]}
=============================================================================
