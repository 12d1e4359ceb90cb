--------------------------- MODULE MaterialRegister ---------------------------
(***************************************************************************)
(* The material documents and their accumulation register, one committed   *)
(* transaction per step: receipts, consumptions and transfers written as   *)
(* whole documents (internal/services/material*_cust.go), the rows they    *)
(* post to ra_materials, the replay that values those rows, the settings,  *)
(* and the closing and reopening of accounting periods                     *)
(* (internal/services/inventoryValuation.go, migrations/000054).           *)
(*                                                                         *)
(* A transaction that raises an error rolls back, so an operation whose    *)
(* guard is false here is a request refused without a trace.  What two     *)
(* transactions do to each other while both are open is the subject of     *)
(* RegisterTransactions.                                                   *)
(***************************************************************************)
EXTENDS AccountingPeriods

CONSTANTS Documents,    \* names <<recorder type, id>> documents may have
          Bodies,       \* contents a client may submit, by recorder type
          Days,         \* business days an accountant may close through
          VatFlags,     \* VAT bases a client may submit
          MaxClosures   \* bound on the history of closures

VARIABLES docs,           \* the stored documents, Null where there is none
          ledger,         \* ra_materials: the immutable quantity/source rows
          excludeVat,     \* materials_exclude_vat_from_cost
          snapshots       \* material_valuation_snapshots of each closure

settings == <<allowNegative, excludeVat>>
period == <<closedThrough, closures, snapshots>>
vars == <<docs, ledger, val, allowNegative, excludeVat, closedThrough, closures, snapshots>>

TypeOf(d) == d[1]
IdOf(d) == d[2]
Present == {d \in Documents : docs[d] # Null}

\* What validateMaterial*Document accepts: at least one item, positive
\* quantities, amounts that contain their VAT, a receipt with a site on
\* every item or on the header, a transfer between two sites.
ValidBody(type, body) ==
    /\ DOMAIN body.items # {}
    /\ \A i, j \in DOMAIN body.items :
          i # j => body.items[i].id # body.items[j].id
    /\ \A i \in DOMAIN body.items : body.items[i].quant > 0
    /\ CASE type = "Receipt" ->
              \A i \in DOMAIN body.items :
                 /\ 0 <= body.items[i].vat /\ body.items[i].vat <= body.items[i].amount
                 /\ body.items[i].site # Null \/ body.site # Null
         [] type = "Consumption" -> body.site # Null
         [] type = "Transfer" ->
              body.site # Null /\ body.to # Null /\ body.site # body.to

Types == {"Receipt", "Consumption", "Transfer"}

\* The instants documents may carry.
Instants == UNION {{body.at : body \in Bodies[type]} : type \in Types}

\* Instants, quantities and amounts are numbers; the business day of a later
\* instant is not earlier (materials_close_period turns the day it closes
\* into an instant and compares instants).
ASSUME RegisterAssumption ==
    /\ Documents \subseteq Types \X Nat
    /\ \A type \in Types : Null \notin Bodies[type]
    /\ \A type \in Types : \A body \in Bodies[type] : DayOf[body.at] \in Nat
    /\ \A type \in Types : \A body \in Bodies[type] :
          /\ body.at \in Nat
          /\ Len(body.items) \in Nat /\ DOMAIN body.items = 1..Len(body.items)
          /\ \A i \in DOMAIN body.items :
                /\ body.items[i].id \in Nat /\ body.items[i].quant \in Int
                /\ body.items[i].amount \in Int /\ body.items[i].vat \in Int
    /\ \A at, later \in Instants : at <= later => DayOf[at] <= DayOf[later]
    /\ Days \subseteq Nat
    /\ VatFlags \subseteq BOOLEAN
    /\ MaxClosures \in Nat

-----------------------------------------------------------------------------
(* Posting: the rows a document writes to the register.  The rows of one   *)
(* document are numbered after the rows that stay; ids are renumbered on   *)
(* the way, since nothing but their order is ever read.                    *)

RowsPerItem(type) == IF type = "Transfer" THEN 2 ELSE 1

SourceAmount(type, item, noVat) ==
    IF type # "Receipt" THEN Null
    ELSE IF noVat THEN item.amount - item.vat ELSE item.amount

RowSite(type, body, item, order) ==
    CASE type = "Receipt"     -> IF item.site # Null THEN item.site ELSE body.site
      [] type = "Consumption" -> body.site
      [] type = "Transfer"    -> IF order = 1 THEN body.site ELSE body.to

Row(d, body, line, order, noVat, id) ==
    LET item == body.items[line]
    IN  [id |-> id, at |-> body.at, type |-> TypeOf(d), rec |-> IdOf(d), item |-> item.id,
         order |-> order, site |-> RowSite(TypeOf(d), body, item, order),
         mat |-> item.mat,
         quant |-> IF \/ TypeOf(d) = "Consumption"
                      \/ TypeOf(d) = "Transfer" /\ order = 1
                   THEN -item.quant ELSE item.quant,
         source |-> SourceAmount(TypeOf(d), item, noVat)]

RowIndexes(d, body) == (DOMAIN body.items) \X (1..RowsPerItem(TypeOf(d)))

\* The rows a document posts, in line order after the first `base' ids.
PostedRows(d, body, noVat, base) ==
    {Row(d, body, x[1], x[2], noVat,
         base + RowsPerItem(TypeOf(d)) * (x[1] - 1) + x[2])
       : x \in RowIndexes(d, body)}

Renumbered(L) ==
    {[m EXCEPT !.id = Cardinality({k \in L : k.id <= m.id})] : m \in L}

\* ra_materials_remove_acts
RemoveActs(L, d) ==
    Renumbered({m \in L : ~(m.type = TypeOf(d) /\ m.rec = IdOf(d))})

\* Mutant: the rows of the replaced document stay.
AppendActs(L, d, body, noVat) ==
    L \cup PostedRows(d, body, noVat, Cardinality(L))

\* rewriteMaterialRegisterActions
RewriteActs(L, d, body, noVat) ==
    LET kept == RemoveActs(L, d)
    IN  kept \cup PostedRows(d, body, noVat, Cardinality(kept))

\* The stored values after rows were removed and new rows were inserted.
Revalue(kept, L) ==
    Revalued(L, [k \in {MovementKey(m) : m \in L} |->
                   IF k \in {MovementKey(m) : m \in kept} THEN val[k]
                   ELSE NewValues(L)[k]])

-----------------------------------------------------------------------------
(* Guards of the period and of the stock policy.                           *)

\* Mutant: only what is left in the end is looked at.
FinalBalancesHold(L, allow) ==
    ~allow => \A m \in L : QuantOf({k \in L : Position(k) = Position(m)}) >= 0

\* materials_revalue raises on the first overdrawing movement unless
\* negative stock is allowed.
PolicyHolds(L, allow) == ~allow => NeverNegative(L)

Init ==
    /\ docs = [d \in Documents |-> Null]
    /\ ledger = {}
    /\ val = <<>>
    /\ allowNegative = TRUE
    /\ excludeVat = TRUE
    /\ closedThrough = Null
    /\ closures = <<>>
    /\ snapshots = <<>>

\* Create: the document and its rows appear together.  An id is a slot of
\* Documents: a document stored in a free slot is order-isomorphic to one
\* with a fresh serial number that was edited since.
Create(d, body) ==
    LET rows == RewriteActs(ledger, d, body, excludeVat)
    IN  /\ docs[d] = Null
        /\ ValidBody(TypeOf(d), body)
        /\ OpenDate(body.at)
        /\ PolicyHolds(rows, allowNegative)
        /\ docs' = [docs EXCEPT ![d] = body]
        /\ ledger' = rows
        /\ val' = Revalue(RemoveActs(ledger, d), rows)
        /\ UNCHANGED <<settings, period>>

\* Update: complete replacement.  (The version check that refuses a stale
\* client changes nothing and belongs to the document, not the register.)
Update(d, body) ==
    LET rows == RewriteActs(ledger, d, body, excludeVat)
    IN  /\ docs[d] # Null
        /\ ValidBody(TypeOf(d), body)
        /\ OpenDate(docs[d].at) /\ OpenDate(body.at)
        /\ PolicyHolds(rows, allowNegative)
        /\ docs' = [docs EXCEPT ![d] = body]
        /\ ledger' = rows
        /\ val' = Revalue(RemoveActs(ledger, d), rows)
        /\ UNCHANGED <<settings, period>>

\* Mutant: a deletion is not guarded.
DeleteAnyDate(d) ==
    LET rows == RemoveActs(ledger, d)
    IN  /\ docs[d] # Null
        /\ PolicyHolds(rows, allowNegative)
        /\ docs' = [docs EXCEPT ![d] = Null]
        /\ ledger' = rows
        /\ val' = Revalue(rows, rows)
        /\ UNCHANGED <<settings, period>>

\* Delete: the rows go first, the document last.
Delete(d) ==
    LET rows == RemoveActs(ledger, d)
    IN  /\ docs[d] # Null
        /\ OpenDate(docs[d].at)
        /\ PolicyHolds(rows, allowNegative)
        /\ docs' = [docs EXCEPT ![d] = Null]
        /\ ledger' = rows
        /\ val' = Revalue(rows, rows)
        /\ UNCHANGED <<settings, period>>

\* UpdateSettings without a VAT flag: the stock policy changes and the
\* replay runs under the new one.
SetNegativePolicy(allow) ==
    /\ PolicyHolds(ledger, allow)
    /\ allowNegative' = allow
    /\ val' = Revalue(ledger, ledger)
    /\ UNCHANGED <<docs, ledger, excludeVat, period>>

\* rebuildAllMaterialRegisterActions posts receipts, then consumptions,
\* then transfers, each type by date and id.
RebuildBefore(d, e) ==
    LET rank(x) == CASE TypeOf(x) = "Receipt"     -> 1
                     [] TypeOf(x) = "Consumption" -> 2
                     [] TypeOf(x) = "Transfer"    -> 3
    IN  LexLess(<<rank(d), docs[d].at, IdOf(d)>>, <<rank(e), docs[e].at, IdOf(e)>>)

RebuiltLedger(noVat) ==
    UNION {PostedRows(d, docs[d], noVat,
                      MapThenSumSet(LAMBDA e : Cardinality(RowIndexes(e, docs[e])),
                                    {e \in Present : RebuildBefore(e, d)}))
             : d \in Present}

\* UpdateSettings with a VAT flag: register_settings_validate refuses a
\* different basis once the register has rows; otherwise every row is
\* written anew, which the period guard refuses for a closed date.
SetVatBasis(noVat, allow) ==
    LET rows == RebuiltLedger(noVat)
    IN  /\ noVat # excludeVat => ledger = {}
        /\ \A d \in Present : OpenDate(docs[d].at)
        /\ PolicyHolds(rows, allow)
        /\ excludeVat' = noVat
        /\ allowNegative' = allow
        /\ ledger' = rows
        /\ val' = Revalue({}, rows)
        /\ UNCHANGED <<docs, period>>

Recalculate ==
    /\ PolicyHolds(ledger, allowNegative)
    /\ val' = Revalue(ledger, ledger)
    /\ UNCHANGED <<docs, ledger, settings, period>>

\* materials_close_period
Close(day) ==
    LET new == Revalue(ledger, ledger)
        old == OnOrBefore(ledger, day)
    IN  /\ Len(closures) < MaxClosures
        /\ closedThrough # Null => day > closedThrough
        /\ PolicyHolds(ledger, allowNegative)
        /\ \A m \in old : ~Unvalued(new, m)
        /\ \A m \in old : RunningQuant(old, m) >= 0
        /\ closures' = Append(closures, [through |-> day, reopened |-> FALSE])
        /\ snapshots' = Append(snapshots, Balance(old, new))
        /\ closedThrough' = day
        /\ val' = new
        /\ UNCHANGED <<docs, ledger, settings>>

\* The latest of the closures not reopened yet.
LatestActive == Max(ActiveClosures)

\* Mutant: the closure is marked, the cutoff is forgotten.
ReopenKeepingCutoff ==
    /\ PolicyHolds(ledger, allowNegative)
    /\ closures' = IF ActiveClosures = {} THEN closures
                   ELSE [closures EXCEPT ![LatestActive].reopened = TRUE]
    /\ val' = Revalue(ledger, ledger)
    /\ UNCHANGED <<docs, ledger, settings, closedThrough, snapshots>>

\* materials_reopen_period, then the replay
Reopen ==
    /\ PolicyHolds(ledger, allowNegative)
    /\ closures' = IF ActiveClosures = {} THEN closures
                   ELSE [closures EXCEPT ![LatestActive].reopened = TRUE]
    /\ closedThrough' = Null
    /\ val' = Revalue(ledger, ledger)
    /\ UNCHANGED <<docs, ledger, settings, snapshots>>

Next ==
    \/ \E d \in Documents : \E body \in Bodies[TypeOf(d)] : Create(d, body)
    \/ \E d \in Documents : \E body \in Bodies[TypeOf(d)] : Update(d, body)
    \/ \E d \in Documents : Delete(d)
    \/ \E allow \in BOOLEAN : SetNegativePolicy(allow)
    \/ \E noVat \in VatFlags, allow \in BOOLEAN : SetVatBasis(noVat, allow)
    \/ Recalculate
    \/ \E day \in Days : Close(day)
    \/ Reopen

Spec == Init /\ [][Next]_vars

-----------------------------------------------------------------------------
(* Properties                                                              *)

\* Type invariant: the shape of the stored documents, of the register rows
\* and of the settings; every row has a stored value.
TypeOK ==
    /\ docs \in [Documents -> (UNION {Bodies[type] : type \in Types}) \cup {Null}]
    /\ \A d \in Present : docs[d] \in Bodies[TypeOf(d)]
    /\ DOMAIN val = {MovementKey(m) : m \in ledger}
    /\ allowNegative \in BOOLEAN
    /\ excludeVat \in BOOLEAN
    /\ closedThrough \in Days \cup {Null}
    /\ closures \in Seq([through : Days, reopened : BOOLEAN])
    /\ snapshots = [i \in DOMAIN closures |-> snapshots[i]]

\* What a row says, apart from its place in the insertion order.
Content(m) == [m EXCEPT !.id = 0]
Contents(L) == {Content(m) : m \in L}

\* The register holds exactly the rows the stored documents post under the
\* VAT basis in force: no operation leaves rows of a deleted or replaced
\* document behind, loses a row, or mixes two VAT bases.
LedgerMatchesDocuments ==
    Contents(ledger) =
      UNION {Contents(PostedRows(d, docs[d], excludeVat, 0)) : d \in Present}

\* With negative stock disabled, no balance at any instant is below zero,
\* whatever was posted, backdated or deleted.  The replay only looks at
\* outgoing movements, each in its place among the movements of an instant.
QuantAt(p, at) == QuantOf({m \in ledger : Position(m) = p /\ m.at <= at})

NoNegativeBalance ==
    ~allowNegative => \A m, k \in ledger : QuantAt(Position(m), k.at) >= 0

\* While the register never goes negative nothing waits for a value, and a
\* transfer carries value from one site to the other without loss: the
\* passes are enough to carry costs through every chain of transfers.
ConservedWithoutShortages ==
    NeverNegative(ledger) =>
      /\ \A m \in ledger : ~Unvalued(val, m)
      /\ \A m, k \in ledger :
            /\ m.type = "Transfer" /\ k.type = "Transfer"
            /\ m.rec = k.rec /\ m.item = k.item /\ m.order = 1 /\ k.order = 2
            => val[MovementKey(m)].amount + val[MovementKey(k)].amount = 0

\* Exact depletion: in a register that never goes negative, a movement that
\* empties a balance leaves exactly no money on it, and no movement leaves
\* less than none.
DepletionIsExact ==
    NeverNegative(ledger) =>
      \A m \in ledger :
         LET upTo == {k \in ledger : Position(k) = Position(m) /\ ~ReplayBefore(m, k)}
         IN  /\ AmountOf(upTo, val) >= 0
             /\ RunningQuant(ledger, m) = 0 => AmountOf(upTo, val) = 0

\* Balances fed by receipts and drawn by consumptions only: as soon as the
\* stock has been brought back to zero or above, every shortage on the way
\* has been paid for.
RowsAt(p) == {m \in ledger : Position(m) = p}
PlainPositions ==
    {p \in {Position(m) : m \in ledger} : \A m \in RowsAt(p) : m.type # "Transfer"}

ReceiptsResolveShortages ==
    \A p \in PlainPositions :
       QuantOf(RowsAt(p)) >= 0 => \A m \in RowsAt(p) : ~Unvalued(val, m)

\* The cutoff in force is the date of the latest closure not reopened.
CutoffIsLatestClosure ==
    closedThrough # Null =>
      ActiveClosures # {} /\ closures[LatestActive].through = closedThrough

\* While a period stays closed, no document, no row and no calculated
\* amount dated in it changes.
ClosedContents == Contents(OnOrBefore(ledger, closedThrough))
ClosedDocuments ==
    {<<d, docs[d]>> : d \in {e \in Present : DayOf[docs[e].at] <= closedThrough}}
ClosedValues ==
    [k \in {MovementKey(m) : m \in OnOrBefore(ledger, closedThrough)} |-> val[k]]

ClosedPeriodFrozen ==
    [][closedThrough # Null /\ closedThrough' = closedThrough =>
         /\ ClosedDocuments' = ClosedDocuments
         /\ ClosedContents' = ClosedContents]_vars

ClosedValuesFrozen ==
    [][closedThrough # Null /\ closedThrough' = closedThrough =>
         ClosedValues' = ClosedValues]_vars

\* The register is a book with a cutoff: its rows, whatever their insertion
\* order, are the entries.
DayOfRow(m) == DayOf[m.at]

Book == INSTANCE PeriodBook WITH entries <- Contents(ledger),
                                 cutoff <- closedThrough,
                                 DateOf <- DayOfRow

\* The register implements the promise of PeriodBook: rows of a closed
\* period stand, a closing moves the cutoff forward and touches no row, and
\* only a reopening takes the cutoff away.
RegisterIsBook == Book!Spec
=============================================================================
