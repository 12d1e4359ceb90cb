----------------------- MODULE MCRegisterTransactions -----------------------
(***************************************************************************)
(* Small sets of overlapping requests for TLC: one material, two sites, two *)
(* business days.                                                          *)
(***************************************************************************)
EXTENDS RegisterTransactions

CONSTANTS a, b, cement

MCDayOf == <<1, 1, 2, 2>>

Movement(type, rec, at, order, site, quant, cents) ==
    [id |-> 0, at |-> at, type |-> type, rec |-> rec, item |-> 1, order |-> order,
     site |-> site, mat |-> cement, quant |-> quant,
     source |-> IF cents = Null THEN Null ELSE 100 * cents]

\* Two receipts at different prices, a transfer and two consumptions, the
\* first of which leaves no more than the second takes.
MCRowsOf ==
    <<"Receipt", 1>>     :> <<Movement("Receipt", 1, 1, 1, a, 4, 2)>> @@
    <<"Receipt", 2>>     :> <<Movement("Receipt", 2, 1, 1, a, 2, 6)>> @@
    <<"Transfer", 1>>    :> <<Movement("Transfer", 1, 2, 1, a, -1, Null),
                              Movement("Transfer", 1, 2, 2, b, 1, Null)>> @@
    <<"Consumption", 1>> :> <<Movement("Consumption", 1, 2, 1, a, -2, Null)>> @@
    <<"Consumption", 2>> :> <<Movement("Consumption", 2, 4, 1, a, -2, Null)>>

\* The first receipt invoiced anew, and on another day.
MCRevised == <<"Receipt", 1>> :> <<Movement("Receipt", 1, 3, 1, a, 3, 5)>>

Post(doc) == [kind |-> "Post", doc |-> doc]
Update(doc) == [kind |-> "Update", doc |-> doc]
Delete(doc) == [kind |-> "Delete", doc |-> doc]
Close(day) == [kind |-> "Close", day |-> day]
Recalculate == [kind |-> "Recalculate", by |-> "manager"]
Reopen == [kind |-> "Reopen", by |-> "manager"]
Policy(allow) == [kind |-> "Policy", allow |-> allow]

\* Clerks writing documents at the same time; an accountant closing and
\* reopening while documents are deleted and moved; and one tightening the
\* stock policy while stock is drawn.
OfficeBatches ==
    {{Post(<<"Receipt", 2>>), Post(<<"Transfer", 1>>),
      Update(<<"Receipt", 1>>), Delete(<<"Consumption", 1>>)},
     {Close(1), Close(2), Reopen, Delete(<<"Consumption", 1>>), Update(<<"Receipt", 1>>)},
     {Policy(FALSE), Recalculate, Post(<<"Consumption", 2>>), Post(<<"Transfer", 1>>)}}
OfficeExisting == << <<"Receipt", 1>>, <<"Consumption", 1>> >>

\* What PolicyIsObeyed and ClosedDaysStand ask of batches is met by these.
ASSUME OfficeAssumption ==
    PolicyAside(OfficeBatches) /\ PostingAside(OfficeBatches) /\ ExistingRows # {}

\* A document posted into the day that is being closed.
LateBatches == {{Close(1), Post(<<"Receipt", 2>>)}}
LateExisting == << <<"Receipt", 1>> >>
=============================================================================
