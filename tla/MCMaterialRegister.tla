-------------------------- MODULE MCMaterialRegister --------------------------
(***************************************************************************)
(* Small instances of MaterialRegister for TLC: two sites, one material,   *)
(* at most two instants of either of two business days.                    *)
(***************************************************************************)
EXTENDS MaterialRegister

CONSTANTS a, b, cement      \* sites and a material (model values)

MCDays == {1, 2}
MCDayOf == <<1, 1, 2, 2>>

\* Quantities have four decimal places, the amounts of a receipt only two.
Item(id, quant, cents) ==
    [id |-> id, mat |-> cement, quant |-> quant, amount |-> 100 * cents, vat |-> 0,
     site |-> Null]

Body(at, site, to, items) == [at |-> at, site |-> site, to |-> to, items |-> items]

-----------------------------------------------------------------------------
\* Posting and moving stock: a receipt with VAT feeds a chain of transfers
\* from a to b and back, and a consumption draws on either site, in two
\* lines too early for one of the receipts.
ChainDocuments ==
    {<<"Receipt", 1>>, <<"Transfer", 1>>, <<"Transfer", 2>>, <<"Consumption", 1>>}
ChainBodies ==
    [type \in Types |->
       CASE type = "Receipt" ->
              {Body(1, a, Null, <<[Item(1, 3, 5) EXCEPT !.vat = 100]>>),
               Body(3, a, Null, <<[Item(2, 1, 2) EXCEPT !.site = b], Item(1, 2, 7)>>)}
         [] type = "Transfer" ->
              {Body(2, a, b, <<Item(1, 2, 0)>>), Body(3, b, a, <<Item(1, 1, 0)>>)}
         [] type = "Consumption" ->
              {Body(4, a, Null, <<Item(1, quant, 0)>>) : quant \in {1, 3}}
                \cup {Body(4, b, Null, <<Item(1, 2, 0)>>),
                      Body(2, a, Null, <<Item(1, 1, 0), Item(2, 1, 0)>>)}]

\* Closing: receipts and a transfer on either side of the cutoffs.
PeriodDocuments == {<<"Receipt", 1>>, <<"Receipt", 2>>, <<"Transfer", 1>>}
PeriodBodies ==
    [type \in Types |->
       CASE type = "Receipt" ->
              {Body(1, a, Null, <<Item(1, 2, 3)>>), Body(3, a, Null, <<Item(1, 2, 8)>>)}
         [] type = "Transfer" -> {Body(2, a, b, <<Item(1, 1, 0)>>)}
         [] type = "Consumption" -> {}]
=============================================================================
