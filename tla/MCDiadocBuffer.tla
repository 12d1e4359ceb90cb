--------------------------- MODULE MCDiadocBuffer ---------------------------
(***************************************************************************)
(* Two documents of one sender, with the same two keys, for TLC.           *)
(***************************************************************************)
EXTENDS DiadocBuffer, TLC

CONSTANTS anna, boris, sender, cement, sand, vendor, site, bag, dust

MCSenderOf == [d \in Docs |-> sender]
MCKeyOf == [d \in Docs |-> <<cement, sand>>]
MCInnUnknown == sender :> None

Resolution(where, picks, remember) ==
    [supplier |-> vendor, site |-> where, picks |-> picks, remember |-> remember]

\* All of a document, remembered; one line, remembered; a line matched with a
\* unit too large for its quantity; a line undone.
MCResolutions ==
    {Resolution(site, 1 :> bag @@ 2 :> bag, {"supplier", "materials"}),
     Resolution(site, 1 :> bag, {"materials"}),
     Resolution(site, 2 :> bag, {"materials"}),
     Resolution(site, 1 :> dust, {}),
     Resolution(site, 2 :> None, {})}

Interchangeable == Permutations(Users)
=============================================================================
