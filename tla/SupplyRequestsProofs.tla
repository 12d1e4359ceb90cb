------------------------ MODULE SupplyRequestsProofs -------------------------
(***************************************************************************)
(* Theorems about SupplyRequests, for any editors, supply managers,        *)
(* requests, submissions and bounds.                                       *)
(***************************************************************************)
EXTENDS SupplyRequests, FiniteSetTheorems, SequenceTheorems,
        WellFoundedInduction, TLAPS

-----------------------------------------------------------------------------
(* Requests and lines.                                                     *)

HeaderInv == headers \in [Requests -> {Null, Gone} \cup Headers]

IsRow(row) ==
    /\ row = [doc |-> row.doc, line |-> row.line, body |-> row.body]
    /\ row.body = RequestColumns(row.body)

IsTable(table) == table = [i \in DOMAIN table |-> table[i]]

RowsInv ==
    /\ IsTable(rows)
    /\ \A i \in DOMAIN rows : rows[i].doc \in Present /\ IsRow(rows[i])

\* StatusesAgree for one request.
Agrees(r) ==
    /\ headers[r].status # "draft" => RowsOf(rows, r) # {}
    /\ \A i \in RowsOf(rows, r) :
          /\ rows[i].body.status = headers[r].status
          /\ IF headers[r].status = "supplier_assigned"
             THEN Cardinality(Assigned({i})) = 1
                  /\ \A line \in Assigned({i}) : line.supplier = rows[i].body.supplier
             ELSE Assigned({i}) = {} /\ rows[i].body.supplier = Null

\* Assignments name lines that are there.
ChosenInv == \A line \in chosen : line.item \in DOMAIN rows

LEMMA AgreeOneByOne == StatusesAgree <=> \A r \in Present : Agrees(r)
BY DEF StatusesAgree, Agrees

\* A header that is present is a header.
LEMMA PresentHeaders ==
    ASSUME HeaderInv, NEW r \in Present
    PROVE  /\ r \in Requests /\ headers[r] \in Headers
           /\ headers[r].version \in Nat /\ headers[r].site \in Sites
           /\ headers[r].status \in Statuses
<1>1. r \in Requests /\ headers[r] \in Headers
  BY DEF Present, HeaderInv
<1> QED
  BY <1>1 DEF Headers

\* Lines that an assignment names are those of a request that says so.
LEMMA ChosenAreAssigned ==
    ASSUME RowsInv, StatusesAgree, ChosenInv, NEW line \in chosen
    PROVE  /\ line.item \in DOMAIN rows /\ rows[line.item].doc \in Present
           /\ headers[rows[line.item].doc].status = "supplier_assigned"
<1> DEFINE i == line.item
           r == rows[i].doc
<1>1. i \in DOMAIN rows /\ r \in Present
  BY DEF ChosenInv, RowsInv
<1>2. i \in RowsOf(rows, r) /\ line \in Assigned({i})
  BY <1>1 DEF RowsOf, Assigned
<1>3. Agrees(r)
  BY <1>1, AgreeOneByOne
<1> HIDE DEF i, r
<1>4. headers[r].status = "supplier_assigned"
  BY <1>2, <1>3 DEF Agrees
<1> QED
  BY <1>1, <1>4 DEF i, r

\* A body with another status, and with a supplier as well.
LEMMA WithOtherStatus ==
    ASSUME NEW body, body = RequestColumns(body), NEW status
    PROVE  LET body2 == [body EXCEPT !.status = status] IN
           /\ body2 = RequestColumns(body2)
           /\ body2.status = status /\ body2.supplier = body.supplier
<1> DEFINE body2 == [body EXCEPT !.status = status]
<1>1. body2 = [mat |-> body.mat, unit |-> body.unit, quant |-> body.quant,
               importance |-> body.importance, supplier |-> body.supplier, status |-> status]
  BY DEF RequestColumns
<1> HIDE DEF body2
<1>2. /\ body2.mat = body.mat /\ body2.unit = body.unit /\ body2.quant = body.quant
      /\ body2.importance = body.importance /\ body2.supplier = body.supplier
      /\ body2.status = status
  BY <1>1
<1>3. body2 = RequestColumns(body2)
  BY <1>1, <1>2 DEF RequestColumns
<1> QED
  BY <1>2, <1>3 DEF body2

LEMMA WithOtherSupplier ==
    ASSUME NEW body, body = RequestColumns(body), NEW supplier
    PROVE  LET body2 == [body EXCEPT !.supplier = supplier] IN
           /\ body2 = RequestColumns(body2)
           /\ body2.supplier = supplier /\ body2.status = body.status
<1> DEFINE body2 == [body EXCEPT !.supplier = supplier]
<1>1. body2 = [mat |-> body.mat, unit |-> body.unit, quant |-> body.quant,
               importance |-> body.importance, supplier |-> supplier, status |-> body.status]
  BY DEF RequestColumns
<1> HIDE DEF body2
<1>2. /\ body2.mat = body.mat /\ body2.unit = body.unit /\ body2.quant = body.quant
      /\ body2.importance = body.importance /\ body2.supplier = supplier
      /\ body2.status = body.status
  BY <1>1
<1>3. body2 = RequestColumns(body2)
  BY <1>1, <1>2 DEF RequestColumns
<1> QED
  BY <1>2, <1>3 DEF body2

Marked(row, status) == [row EXCEPT !.body.status = status]

LEMMA MarkedRow ==
    ASSUME NEW row, IsRow(row), NEW status
    PROVE  /\ IsRow(Marked(row, status))
           /\ Marked(row, status).doc = row.doc
           /\ Marked(row, status).body.status = status
           /\ Marked(row, status).body.supplier = row.body.supplier
<1> DEFINE body2 == [row.body EXCEPT !.status = status]
           row2 == Marked(row, status)
<1>1. /\ body2 = RequestColumns(body2)
      /\ body2.status = status /\ body2.supplier = row.body.supplier
  BY WithOtherStatus DEF IsRow
<1>2. row2 = [doc |-> row.doc, line |-> row.line, body |-> body2]
  BY DEF Marked, IsRow
<1> HIDE DEF row2, body2
<1>3. row2.doc = row.doc /\ row2.line = row.line /\ row2.body = body2
  BY <1>2
<1>4. IsRow(row2)
  BY <1>1, <1>2, <1>3 DEF IsRow
<1> QED
  BY <1>1, <1>3, <1>4 DEF row2

Supplied(row, supplier) ==
    [row EXCEPT !.body.supplier = supplier, !.body.status = "supplier_assigned"]

Unsupplied(row) == [row EXCEPT !.body.supplier = Null, !.body.status = "new"]

\* A line that is supplied and set back is the line it was.
LEMMA SuppliedRow ==
    ASSUME NEW row, IsRow(row), row.body.supplier = Null, row.body.status = "new", NEW supplier
    PROVE  /\ IsRow(Supplied(row, supplier))
           /\ Supplied(row, supplier).doc = row.doc
           /\ Supplied(row, supplier).body.status = "supplier_assigned"
           /\ Supplied(row, supplier).body.supplier = supplier
           /\ Unsupplied(Supplied(row, supplier)) = row
<1> DEFINE row1 == [row EXCEPT !.body.supplier = supplier]
           row2 == [row1 EXCEPT !.body.status = "supplier_assigned"]
           row3 == [row2 EXCEPT !.body.supplier = Null]
           row4 == [row3 EXCEPT !.body.status = "new"]
           body1 == [row.body EXCEPT !.supplier = supplier]
           body2 == [body1 EXCEPT !.status = "supplier_assigned"]
           body3 == [body2 EXCEPT !.supplier = Null]
           body4 == [body3 EXCEPT !.status = "new"]
           row0 == [doc |-> row.doc, line |-> row.line, body |-> row.body]
<1>1. row2 = Supplied(row, supplier)
  BY DEF Supplied
<1>2. row4 = Unsupplied(row2)
  BY DEF Unsupplied
<1>3. row = row0 /\ row.body = RequestColumns(row.body)
  BY DEF IsRow
<1>4. row1 = [doc |-> row.doc, line |-> row.line, body |-> body1]
  BY <1>3
<1>5. /\ body1 = RequestColumns(body1)
      /\ body1.supplier = supplier /\ body1.status = row.body.status
  BY <1>3, WithOtherSupplier
<1> HIDE DEF row1
<1>6. row2 = [doc |-> row.doc, line |-> row.line, body |-> body2]
  BY <1>4
<1> HIDE DEF body1
<1>7. /\ body2 = RequestColumns(body2)
      /\ body2.status = "supplier_assigned" /\ body2.supplier = supplier
  BY <1>5, WithOtherStatus
<1> HIDE DEF row2
<1>8. row3 = [doc |-> row.doc, line |-> row.line, body |-> body3]
  BY <1>6
<1> HIDE DEF row3
<1>9. row4 = [doc |-> row.doc, line |-> row.line, body |-> body4]
  BY <1>8
<1>10. row2.doc = row.doc /\ row2.line = row.line /\ row2.body = body2
  BY <1>6
<1>11. IsRow(row2)
  BY <1>6, <1>7, <1>10 DEF IsRow
<1>12. body4 = row.body
  <2>1. row.body = [mat |-> row.body.mat, unit |-> row.body.unit, quant |-> row.body.quant,
                    importance |-> row.body.importance, supplier |-> Null, status |-> "new"]
    BY <1>3 DEF RequestColumns
  <2>2. body1 = [mat |-> row.body.mat, unit |-> row.body.unit, quant |-> row.body.quant,
                 importance |-> row.body.importance, supplier |-> supplier, status |-> "new"]
    BY <2>1 DEF body1
  <2>3. body2 = [mat |-> row.body.mat, unit |-> row.body.unit, quant |-> row.body.quant,
                 importance |-> row.body.importance, supplier |-> supplier,
                 status |-> "supplier_assigned"]
    BY <2>2
  <2> HIDE DEF body2
  <2>4. body3 = [mat |-> row.body.mat, unit |-> row.body.unit, quant |-> row.body.quant,
                 importance |-> row.body.importance, supplier |-> Null,
                 status |-> "supplier_assigned"]
    BY <2>3
  <2> HIDE DEF body3
  <2>5. body4 = [mat |-> row.body.mat, unit |-> row.body.unit, quant |-> row.body.quant,
                 importance |-> row.body.importance, supplier |-> Null, status |-> "new"]
    BY <2>4
  <2> QED
    BY <2>1, <2>5
<1>13. row4 = row
  BY <1>3, <1>9, <1>12
<1> QED
  BY <1>1, <1>2, <1>7, <1>10, <1>11, <1>13

-----------------------------------------------------------------------------
(* Tables of lines.                                                        *)

\* Entries as Create and Update store them.
DraftList(items) ==
    \A n \in DOMAIN items : LET body == items[n].body IN
       body = RequestColumns(body) /\ body.status = "draft" /\ body.supplier = Null

\* The rows a rewriting writes.
RowIds(r, version, items) == {RowId(r, version, items, n) : n \in DOMAIN items}

\* A rewriting keeps the rows of other requests, and writes drafts.
LEMMA RewrittenRows ==
    ASSUME NEW table, NEW r, NEW version, NEW items
    PROVE  DOMAIN SyncRequestItems(table, r, version, items)
              = KeptRows(table, r) \cup RowIds(r, version, items)
BY DEF SyncRequestItems, Saved, RowIds

LEMMA KeptByRewriting ==
    ASSUME NEW table, NEW r, NEW version, NEW items
    PROVE  \A i \in KeptRows(table, r) : SyncRequestItems(table, r, version, items)[i] = table[i]
BY DEF SyncRequestItems, Saved, RowIds

LEMMA RewrittenTable ==
    ASSUME NEW table, NEW r, NEW version, NEW items
    PROVE  IsTable(SyncRequestItems(table, r, version, items))
BY DEF SyncRequestItems, Saved, IsTable

LEMMA WrittenRow ==
    ASSUME NEW table, NEW r, NEW version, NEW items, DraftList(items),
           NEW i \in RowIds(r, version, items) \ KeptRows(table, r)
    PROVE  LET row == SyncRequestItems(table, r, version, items)[i] IN
           IsRow(row) /\ row.doc = r /\ row.body.status = "draft" /\ row.body.supplier = Null
<1> DEFINE entry == CHOOSE n \in DOMAIN items : RowId(r, version, items, n) = i
           row == SyncRequestItems(table, r, version, items)[i]
<1>1. entry \in DOMAIN items
  BY DEF RowIds
<1>2. row = [doc |-> r, line |-> entry, body |-> RequestColumns(items[entry].body)]
  BY DEF SyncRequestItems, Saved, RowIds
<1> HIDE DEF entry, row
<1>3. row.doc = r /\ row.line = entry /\ row.body = RequestColumns(items[entry].body)
  BY <1>2
<1>4. row.body = items[entry].body
  BY <1>1, <1>3 DEF DraftList
<1>5. IsRow(row)
  BY <1>1, <1>2, <1>3, <1>4 DEF IsRow, DraftList
<1> QED
  BY <1>1, <1>3, <1>4, <1>5 DEF DraftList, row

\* Rows of requests whose lines are the same.
SameLines(r) ==
    RowsOf(rows', r) = RowsOf(rows, r) /\ \A i \in RowsOf(rows, r) : rows'[i] = rows[i]

LEMMA SameLinesListed ==
    ASSUME NEW r, SameLines(r)
    PROVE  Lines(rows', r) = Lines(rows, r)
BY DEF SameLines, Lines

\* A request that is left alone agrees with its lines as before.
LEMMA StillAgrees ==
    ASSUME NEW r, headers'[r] = headers[r], SameLines(r), Agrees(r),
           \A i \in RowsOf(rows, r) : Assigned({i})' = Assigned({i})
    PROVE  Agrees(r)'
<1>1. RowsOf(rows, r)' = RowsOf(rows, r) /\ \A i \in RowsOf(rows, r) : rows'[i] = rows[i]
  BY DEF SameLines, RowsOf
<1> QED
  BY <1>1 DEF Agrees

-----------------------------------------------------------------------------
(* Steps of an editor.                                                     *)

\* What an editor changes is one request, which is a draft or new.
Editable(r) ==
    /\ r \in Requests
    /\ \/ headers[r] = Null
       \/ r \in Present /\ headers[r].status = "draft" /\ RequestFree(r)

TablesInv == HeaderInv /\ RowsInv /\ StatusesAgree /\ ChosenInv

\* What it leaves behind.
RequestStep(r) ==
    /\ Editable(r)
    /\ \A e \in Requests \ {r} : headers'[e] = headers[e] /\ SameLines(e)
    /\ UNCHANGED <<chosen, txs, userTx, catalogue>>

LEMMA EditKeepsTables ==
    ASSUME TablesInv, NEW r, RequestStep(r), HeaderInv', RowsInv', r \in Present' => Agrees(r)'
    PROVE  TablesInv'
<1>1. \A e \in Requests \ {r} : headers'[e] = headers[e] /\ SameLines(e)
  BY DEF RequestStep
<1>2. chosen' = chosen
  BY DEF RequestStep
<1>3. \A e \in Present' : Agrees(e)'
  <2> TAKE e \in Present'
  <2>1. CASE e = r
    BY <2>1
  <2>2. CASE e # r
    <3>1. e \in Requests \ {r} /\ e \in Present
      BY <1>1, <2>2 DEF Present
    <3>2. Agrees(e)
      BY <3>1, AgreeOneByOne DEF TablesInv
    <3>3. \A i \in RowsOf(rows, e) : Assigned({i})' = Assigned({i})
      BY <1>2 DEF Assigned
    <3> QED
      BY <1>1, <3>1, <3>2, <3>3, StillAgrees
  <2> QED
    BY <2>1, <2>2
<1>4. StatusesAgree'
  BY <1>3 DEF StatusesAgree, Agrees
<1>5. ChosenInv'
  <2> SUFFICES ASSUME NEW line \in chosen
               PROVE  line.item \in DOMAIN rows'
    BY <1>2 DEF ChosenInv
  <2>1. /\ line.item \in DOMAIN rows /\ rows[line.item].doc \in Present
        /\ headers[rows[line.item].doc].status = "supplier_assigned"
    BY ChosenAreAssigned DEF TablesInv
  <2>2. rows[line.item].doc \in Requests \ {r}
    BY <2>1 DEF RequestStep, Editable, Present
  <2> QED
    BY <1>1, <2>1, <2>2 DEF SameLines, RowsOf
<1> QED
  BY <1>4, <1>5 DEF TablesInv

LEMMA StorePreserves ==
    ASSUME TablesInv, NEW r, NEW version \in Nat, NEW site \in Sites, NEW items,
           Editable(r), DraftList(items), Store(r, version, site, items),
           UNCHANGED <<chosen, txs, userTx, catalogue>>
    PROVE  /\ TablesInv' /\ RequestStep(r) /\ r \in Present'
           /\ headers'[r] \in Headers /\ headers'[r].version = version
<1> DEFINE header == [version |-> version, site |-> site, status |-> "draft"]
           table2 == SyncRequestItems(rows, r, version, items)
           ids == RowIds(r, version, items)
           kept == KeptRows(rows, r)
<1>1. /\ r \in Requests /\ headers' = [headers EXCEPT ![r] = header]
      /\ rows' = table2
  BY DEF Store, Editable
<1>2. header \in Headers /\ header.version = version /\ header.status = "draft"
  BY DEF Headers, Statuses
<1> HIDE DEF header
<1>3. /\ HeaderInv'
      /\ headers'[r] = header /\ \A e \in Requests \ {r} : headers'[e] = headers[e]
  BY <1>1, <1>2 DEF TablesInv, HeaderInv
<1>4. Present' = Present \cup {r}
  BY <1>1, <1>2, <1>3, RequestsAssumption DEF Present
<1>5. /\ DOMAIN table2 = kept \cup ids
      /\ IsTable(table2)
      /\ \A i \in kept : table2[i] = rows[i]
  BY RewrittenRows, RewrittenTable, KeptByRewriting
<1>6. \A i \in ids \ kept : /\ IsRow(table2[i]) /\ table2[i].doc = r
                            /\ table2[i].body.status = "draft" /\ table2[i].body.supplier = Null
  BY WrittenRow
<1> HIDE DEF table2, ids
<1>7. kept = {i \in DOMAIN rows : rows[i].doc # r}
  BY DEF KeptRows, RowsOf
<1> HIDE DEF kept
<1>8. \A e \in Requests \ {r} : SameLines(e)
  BY <1>1, <1>5, <1>6, <1>7 DEF SameLines, RowsOf
<1>9. RowsInv'
  <2> SUFFICES ASSUME NEW i \in DOMAIN rows'
               PROVE  rows'[i].doc \in Present' /\ IsRow(rows'[i])
    BY <1>1, <1>5 DEF RowsInv, IsTable
  <2>1. CASE i \in kept
    BY <1>1, <1>4, <1>5, <1>7, <2>1 DEF TablesInv, RowsInv
  <2>2. CASE i \in ids \ kept
    BY <1>1, <1>4, <1>6, <2>2
  <2> QED
    BY <1>1, <1>5, <2>1, <2>2
<1>10. ASSUME NEW i \in RowsOf(rows', r)
       PROVE  /\ rows'[i].body.status = "draft" /\ rows'[i].body.supplier = Null
              /\ Assigned({i})' = {}
  <2>1. i \in ids \ kept
    BY <1>1, <1>5, <1>7 DEF RowsOf
  <2>2. rows'[i].body.status = "draft" /\ rows'[i].body.supplier = Null
    BY <1>1, <1>6, <2>1
  <2>3. ASSUME NEW line \in chosen, line.item = i
        PROVE  FALSE
    <3>1. /\ i \in DOMAIN rows /\ rows[i].doc \in Present
          /\ headers[rows[i].doc].status = "supplier_assigned"
      BY <2>3, ChosenAreAssigned DEF TablesInv
    <3>2. rows[i].doc # r
      BY <3>1 DEF Editable, Present
    <3> QED
      BY <1>7, <2>1, <3>1, <3>2
  <2> QED
    BY <2>2, <2>3 DEF Assigned
<1>11. Agrees(r)'
  BY <1>2, <1>3, <1>10 DEF Agrees, RowsOf
<1>12. RequestStep(r)
  BY <1>3, <1>8 DEF RequestStep
<1>13. TablesInv'
  BY <1>3, <1>9, <1>11, <1>12, EditKeepsTables
<1> QED
  BY <1>2, <1>3, <1>4, <1>12, <1>13

\* New lines of any list, and the lines of a list whose stored lines are
\* drafts, are stored as drafts without a supplier.
LEMMA DraftedEntries ==
    ASSUME NEW items,
           \A n \in DOMAIN items :
              /\ items[n] = [id |-> items[n].id, body |-> items[n].body]
              /\ items[n].body = RequestColumns(items[n].body)
              /\ items[n].body.supplier = Null
              /\ items[n].id # Null => items[n].body.status = "draft"
    PROVE  DraftList(Drafted(items))
<1> SUFFICES ASSUME NEW n \in DOMAIN items
             PROVE  LET body == Drafted(items)[n].body IN
                    body = RequestColumns(body) /\ body.status = "draft" /\ body.supplier = Null
  BY DEF DraftList, Drafted
<1>1. CASE items[n].id = Null
  <2> DEFINE body2 == [items[n].body EXCEPT !.status = "draft"]
             entry2 == [items[n] EXCEPT !.body.status = "draft"]
  <2>1. body2 = RequestColumns(body2) /\ body2.status = "draft" /\ body2.supplier = Null
    BY WithOtherStatus
  <2>2. entry2 = [id |-> items[n].id, body |-> body2]
    OBVIOUS
  <2>3. Drafted(items)[n] = entry2
    BY <1>1 DEF Drafted
  <2> HIDE DEF body2, entry2
  <2>4. Drafted(items)[n].body = body2
    BY <2>2, <2>3
  <2> QED
    BY <2>1, <2>4
<1>2. CASE items[n].id # Null
  BY <1>2 DEF Drafted
<1> QED
  BY <1>1, <1>2

LEMMA FreshDrafts ==
    ASSUME NEW bodies \in NewItems, ValidRequest(Fresh(bodies), TRUE)
    PROVE  DraftList(Drafted(Fresh(bodies)))
<1>1. bodies \in Seq(Bodies)
  BY RequestsAssumption
<1>2. \A n \in DOMAIN bodies : bodies[n] \in Bodies
  BY <1>1, LenProperties, ElementOfSeq
<1>3. DOMAIN Fresh(bodies) = DOMAIN bodies
  BY DEF Fresh
<1>4. \A n \in DOMAIN bodies : Fresh(bodies)[n] = [id |-> Null, body |-> bodies[n]]
  BY DEF Fresh
<1>5. \A n \in DOMAIN bodies :
         /\ Fresh(bodies)[n].id = Null /\ Fresh(bodies)[n].body = bodies[n]
         /\ Fresh(bodies)[n].body.supplier = Null
  BY <1>3, <1>4 DEF ValidRequest
<1>6. \A n \in DOMAIN bodies : bodies[n] = RequestColumns(bodies[n])
  BY <1>2, RequestsAssumption
<1> QED
  BY <1>3, <1>4, <1>5, <1>6, DraftedEntries

LEMMA SubmittedDrafts ==
    ASSUME NEW items \in Submissions,
           \A n \in DOMAIN items : /\ items[n].body.supplier = Null
                                   /\ items[n].id # Null => items[n].body.status = "draft"
    PROVE  DraftList(Drafted(items))
<1>1. PICK k \in 1..MaxItems : items \in [1..k -> [id : DOMAIN rows \cup {Null}, body : Bodies]]
  BY DEF Submissions
<1>2. \A n \in DOMAIN items : items[n] \in [id : DOMAIN rows \cup {Null}, body : Bodies]
  BY <1>1
<1>3. \A n \in DOMAIN items :
         /\ items[n] = [id |-> items[n].id, body |-> items[n].body]
         /\ items[n].body \in Bodies
  BY <1>2
<1>4. \A n \in DOMAIN items : items[n].body = RequestColumns(items[n].body)
  BY <1>3, RequestsAssumption
<1> QED
  BY <1>3, <1>4, DraftedEntries

\* The copies editors work on are of requests that have been, and not of a
\* later version; a copy of the present version is what is stored.
NotLater(copy) ==
    copy # Null =>
       /\ copy.request \in Requests /\ headers[copy.request] # Null
       /\ copy.request \in Present =>
             copy.version \in Nat /\ copy.version <= headers[copy.request].version

Faithful(copy) ==
    copy # Null /\ copy.request \in Present /\ copy.version = headers[copy.request].version
    => copy = FetchRequest(headers, rows, copy.request)

CopiesInv ==
    /\ seen = [c \in Editors |-> seen[c]]
    /\ \A c \in Editors : NotLater(seen[c]) /\ Faithful(seen[c])

LEMMA Fetched ==
    ASSUME NEW heads, NEW table, NEW r
    PROVE  /\ FetchRequest(heads, table, r).request = r
           /\ FetchRequest(heads, table, r).version = heads[r].version
BY DEF FetchRequest

\* How a request may change under the copies.
Newer(r) ==
    \/ headers'[r] = headers[r] /\ SameLines(r)
    \/ headers'[r] = Gone
    \/ /\ headers'[r] \in Headers
       /\ \/ headers[r] = Null
          \/ r \in Present /\ headers'[r].version = headers[r].version + 1

LEMMA CopyStands ==
    ASSUME HeaderInv, NEW copy, NotLater(copy), Faithful(copy), \A r \in Requests : Newer(r)
    PROVE  NotLater(copy)' /\ Faithful(copy)'
<1> DEFINE r == copy.request
<1>1. CASE copy = Null
  BY <1>1 DEF NotLater, Faithful
<1>2. CASE copy # Null
  <2>1. r \in Requests /\ headers[r] # Null /\ Newer(r)
    BY <1>2 DEF NotLater
  <2>2. CASE headers'[r] = headers[r] /\ SameLines(r)
    <3>1. FetchRequest(headers', rows', r) = FetchRequest(headers, rows, r)
      BY <2>2, SameLinesListed DEF FetchRequest
    <3>2. r \in Present' <=> r \in Present
      BY <2>1, <2>2 DEF Present
    <3> QED
      BY <1>2, <2>1, <2>2, <3>1, <3>2 DEF NotLater, Faithful
  <2>3. CASE headers'[r] = Gone
    <3>1. r \notin Present' /\ headers'[r] # Null
      BY <2>3, RequestsAssumption DEF Present
    <3> QED
      BY <2>1, <3>1 DEF NotLater, Faithful
  <2>4. CASE /\ headers'[r] \in Headers
             /\ r \in Present /\ headers'[r].version = headers[r].version + 1
    <3>1. copy.version \in Nat /\ copy.version <= headers[r].version /\ headers[r].version \in Nat
      BY <1>2, <2>4, PresentHeaders DEF NotLater
    <3>2. headers'[r] # Null
      BY <2>4, RequestsAssumption
    <3>3. copy.version <= headers'[r].version /\ copy.version # headers'[r].version
      BY <2>4, <3>1
    <3> QED
      BY <2>1, <3>1, <3>2, <3>3 DEF NotLater, Faithful
  <2> QED
    BY <2>1, <2>2, <2>3, <2>4 DEF Newer
<1> QED
  BY <1>1, <1>2

LEMMA CopiesStand ==
    ASSUME HeaderInv, HeaderInv', CopiesInv, \A r \in Requests : Newer(r),
           \/ seen' = seen
           \/ \E c \in Editors, r \in Present' : Shown(c, r)
    PROVE  CopiesInv'
<1>1. seen' = [c \in Editors |-> seen'[c]]
  BY DEF CopiesInv, Shown
<1>2. ASSUME NEW r \in Present'
      PROVE  NotLater(FetchRequest(headers, rows, r))' /\ Faithful(FetchRequest(headers, rows, r))'
  <2> DEFINE stored == FetchRequest(headers', rows', r)
  <2>1. stored.request = r /\ stored.version = headers'[r].version
    BY Fetched
  <2>2. r \in Requests /\ headers'[r] \in Headers /\ headers'[r] # Null
    BY DEF HeaderInv, Present
  <2>3. headers'[r].version \in Nat
    BY <2>2 DEF Headers
  <2> QED
    BY <2>1, <2>2, <2>3 DEF NotLater, Faithful
<1>3. ASSUME NEW c \in Editors
      PROVE  NotLater(seen[c])' /\ Faithful(seen[c])'
  <2>1. CASE seen'[c] = seen[c]
    <3>1. NotLater(seen[c]) /\ Faithful(seen[c])
      BY DEF CopiesInv
    <3>2. \A copy : copy = seen[c] => NotLater(copy)' /\ Faithful(copy)'
      BY <3>1, CopyStands
    <3> QED
      BY <2>1, <3>2 DEF NotLater, Faithful
  <2>2. CASE seen'[c] # seen[c]
    <3>1. PICK r \in Present' : seen'[c] = FetchRequest(headers', rows', r)
      BY <2>2 DEF Shown, CopiesInv
    <3> QED
      BY <1>2, <3>1 DEF NotLater, Faithful
  <2> QED
    BY <2>1, <2>2
<1> QED
  BY <1>1, <1>3 DEF CopiesInv

\* A header that goes one status and one version further.
Promoted(header, status) == [header EXCEPT !.status = status, !.version = @ + 1]

LEMMA PromotedHeader ==
    ASSUME NEW header \in Headers, NEW status \in Statuses
    PROVE  /\ Promoted(header, status) \in Headers
           /\ Promoted(header, status).status = status
           /\ Promoted(header, status).version = header.version + 1
           /\ Promoted(header, status).site = header.site
<1> DEFINE header1 == [header EXCEPT !.status = status]
           header2 == [header1 EXCEPT !.version = header1.version + 1]
<1>1. header2 = Promoted(header, status)
  BY DEF Promoted, Headers
<1>2. header1 = [version |-> header.version, site |-> header.site, status |-> status]
  BY DEF Headers
<1> HIDE DEF header1
<1>3. header2 = [version |-> header.version + 1, site |-> header.site, status |-> status]
  BY <1>2
<1> HIDE DEF header2
<1> QED
  BY <1>1, <1>3 DEF Headers

\* What an editor does to a request, and what he had before his eyes.
EditedBy(c, r) ==
    /\ RequestStep(r) /\ TablesInv' /\ Newer(r)
    /\ r \in Present /\ r \in Present' => seen[c] = FetchRequest(headers, rows, r)
    /\ \/ seen' = seen
       \/ r \in Present' /\ Shown(c, r)

LEMMA CreateEdits ==
    ASSUME TablesInv, CopiesInv, NEW c \in Editors, Create(c)
    PROVE  \E r : EditedBy(c, r)
<1>1. PICK r \in Requests, site \in Heads, bodies \in NewItems :
         /\ headers[r] = Null
         /\ ValidRequest(Fresh(bodies), TRUE)
         /\ Store(r, 1, site, Drafted(Fresh(bodies)))
         /\ Shown(c, r)
         /\ UNCHANGED <<chosen, txs, userTx, catalogue>>
  BY DEF Create
<1>2. Editable(r) /\ r \notin Present
  BY <1>1 DEF Editable, Present
<1>3. DraftList(Drafted(Fresh(bodies))) /\ site \in Sites
  BY <1>1, FreshDrafts, RequestsAssumption
<1>4. TablesInv' /\ RequestStep(r) /\ r \in Present' /\ headers'[r] \in Headers
  BY <1>1, <1>2, <1>3, StorePreserves
<1> QED
  BY <1>1, <1>2, <1>4 DEF EditedBy, Newer

LEMMA UpdateEdits ==
    ASSUME TablesInv, CopiesInv, NEW c \in Editors, Update(c)
    PROVE  \E r : EditedBy(c, r)
<1> DEFINE r == seen[c].request
<1>1. /\ seen[c] # Null /\ r \in Present /\ RequestFree(r) /\ Draft(r) /\ Unchanged(r, seen[c].version)
      /\ Shown(c, r)
      /\ UNCHANGED <<chosen, txs, userTx, catalogue>>
  BY DEF Update
<1>2. PICK site \in Heads, items \in Submissions :
         /\ \A n \in DOMAIN items : /\ items[n].body.supplier = Null
                                    /\ items[n].id # Null => items[n].body.status = "draft"
         /\ Store(r, headers[r].version + 1, site, Drafted(items))
  BY DEF Update
<1>3. seen[c] = FetchRequest(headers, rows, r)
  BY <1>1 DEF CopiesInv, Faithful, Unchanged
<1> HIDE DEF r
<1>4. Editable(r) /\ headers[r].version + 1 \in Nat
  BY <1>1, PresentHeaders DEF Editable, Draft, TablesInv
<1>5. DraftList(Drafted(items)) /\ site \in Sites
  BY <1>2, SubmittedDrafts, RequestsAssumption
<1>6. /\ TablesInv' /\ RequestStep(r) /\ r \in Present' /\ headers'[r] \in Headers
      /\ headers'[r].version = headers[r].version + 1
  BY <1>1, <1>2, <1>4, <1>5, StorePreserves
<1> QED
  BY <1>1, <1>3, <1>6 DEF EditedBy, Newer

\* Who submits finds all lines to be drafts, so the request is one.
LEMMA SubmitEdits ==
    ASSUME TablesInv, CopiesInv, NEW c \in Editors, Submit(c)
    PROVE  \E r : EditedBy(c, r)
<1> PICK r : r = seen[c].request
  OBVIOUS
<1> DEFINE items == RowsOf(rows, r)
           header == Promoted(headers[r], "new")
<1>1. /\ seen[c] # Null /\ r = seen[c].request /\ r \in Present /\ RequestFree(r) /\ Unchanged(r, seen[c].version)
      /\ items # {} /\ \A i \in items : rows[i].body.status = "draft"
      /\ rows' = WithStatus(rows, items, "new")
      /\ headers' = [headers EXCEPT ![r] = header]
      /\ Shown(c, r)
      /\ UNCHANGED <<chosen, txs, userTx, catalogue>>
  BY DEF Submit, Promoted
<1>2. seen[c] = FetchRequest(headers, rows, r)
  BY <1>1 DEF CopiesInv, Faithful, Unchanged
<1>3. r \in Requests /\ headers[r] \in Headers /\ "new" \in Statuses
  BY <1>1, PresentHeaders DEF TablesInv, Statuses
<1>4. header \in Headers /\ header.status = "new" /\ header.version = headers[r].version + 1
  BY <1>3, PromotedHeader
<1> HIDE DEF header
<1>5. /\ HeaderInv' /\ headers'[r] = header
      /\ \A e \in Requests \ {r} : headers'[e] = headers[e]
  BY <1>1, <1>3, <1>4 DEF TablesInv, HeaderInv
<1>6. Present' = Present
  BY <1>1, <1>4, <1>5, RequestsAssumption DEF Present
<1>7. Agrees(r)
  BY <1>1, AgreeOneByOne DEF TablesInv
<1>8. headers[r].status = "draft"
  BY <1>1, <1>7 DEF Agrees
<1>9. \A i \in items : rows[i].body.supplier = Null /\ Assigned({i}) = {}
  BY <1>7, <1>8 DEF Agrees
<1>10. /\ DOMAIN rows' = DOMAIN rows /\ IsTable(rows')
       /\ \A i \in DOMAIN rows \ items : rows'[i] = rows[i]
       /\ \A i \in items : rows'[i] = Marked(rows[i], "new")
  <2>1. DOMAIN rows' = DOMAIN rows /\ IsTable(rows')
    BY <1>1 DEF WithStatus, IsTable
  <2>2. \A i \in DOMAIN rows \ items : rows'[i] = rows[i]
    BY <1>1 DEF WithStatus
  <2>3. \A i \in items : rows'[i] = Marked(rows[i], "new")
    BY <1>1 DEF WithStatus, Marked, RowsOf
  <2> QED
    BY <2>1, <2>2, <2>3
<1>11. \A i \in items : /\ IsRow(rows'[i]) /\ rows'[i].doc = r
                        /\ rows'[i].body.status = "new" /\ rows'[i].body.supplier = Null
  <2> TAKE i \in items
  <2>1. IsRow(rows[i]) /\ rows[i].doc = r
    BY DEF TablesInv, RowsInv, RowsOf
  <2>2. /\ IsRow(Marked(rows[i], "new")) /\ Marked(rows[i], "new").doc = rows[i].doc
        /\ Marked(rows[i], "new").body.status = "new"
        /\ Marked(rows[i], "new").body.supplier = rows[i].body.supplier
    BY <2>1, MarkedRow
  <2>3. rows[i].body.supplier = Null /\ rows'[i] = Marked(rows[i], "new")
    BY <1>9, <1>10
  <2> QED
    BY <2>1, <2>2, <2>3
<1>12. RowsInv'
  BY <1>1, <1>6, <1>10, <1>11 DEF TablesInv, RowsInv
<1>13. RowsOf(rows', r) = items
  BY <1>10, <1>11 DEF RowsOf
<1>14. \A e \in Requests \ {r} : SameLines(e)
  BY <1>10, <1>11 DEF SameLines, RowsOf
<1>15. \A i \in items : Assigned({i})' = {}
  BY <1>1, <1>9 DEF Assigned
<1>16. Agrees(r)'
  BY <1>1, <1>4, <1>5, <1>11, <1>13, <1>15 DEF Agrees, RowsOf
<1>17. RequestStep(r)
  BY <1>1, <1>3, <1>5, <1>8, <1>14 DEF RequestStep, Editable
<1>18. TablesInv'
  BY <1>5, <1>12, <1>16, <1>17, EditKeepsTables
<1>19. Newer(r)
  BY <1>1, <1>4, <1>5 DEF Newer
<1> QED
  BY <1>1, <1>2, <1>6, <1>17, <1>18, <1>19 DEF EditedBy

LEMMA DeleteEdits ==
    ASSUME TablesInv, CopiesInv, NEW c \in Editors, Delete(c)
    PROVE  \E r : EditedBy(c, r)
<1>1. PICK r \in Present : /\ RequestFree(r) /\ Draft(r)
                           /\ headers' = [headers EXCEPT ![r] = Gone]
                           /\ rows' = WithoutRows(rows, r)
  BY DEF Delete
<1>2. UNCHANGED <<seen, chosen, txs, userTx, catalogue>> /\ r \in Requests
  BY DEF Delete, Present
<1>3. /\ HeaderInv' /\ headers'[r] = Gone
      /\ \A e \in Requests \ {r} : headers'[e] = headers[e]
  BY <1>1, <1>2 DEF TablesInv, HeaderInv
<1>4. Present' = Present \ {r}
  BY <1>2, <1>3 DEF Present
<1>5. /\ DOMAIN rows' = {i \in DOMAIN rows : rows[i].doc # r} /\ IsTable(rows')
      /\ \A i \in DOMAIN rows' : rows'[i] = rows[i]
  <2>1. DOMAIN rows' = {i \in DOMAIN rows : rows[i].doc # r}
    BY <1>1 DEF WithoutRows, RowsOf
  <2>2. IsTable(rows')
    BY <1>1 DEF WithoutRows, IsTable
  <2>3. \A i \in DOMAIN rows' : rows'[i] = rows[i]
    BY <1>1 DEF WithoutRows
  <2> QED
    BY <2>1, <2>2, <2>3
<1>6. \A e \in Requests \ {r} : SameLines(e)
  BY <1>5 DEF SameLines, RowsOf
<1>7. RowsInv'
  BY <1>4, <1>5 DEF TablesInv, RowsInv
<1>8. RequestStep(r)
  BY <1>1, <1>2, <1>3, <1>6 DEF RequestStep, Editable, Draft
<1>9. TablesInv'
  BY <1>3, <1>4, <1>7, <1>8, EditKeepsTables
<1> QED
  BY <1>2, <1>3, <1>4, <1>8, <1>9 DEF EditedBy, Newer

LEMMA OpenShows ==
    ASSUME NEW c \in Editors, Open(c)
    PROVE  /\ UNCHANGED <<headers, rows, chosen, txs, userTx, catalogue>>
           /\ \E r \in Present' : Shown(c, r)
<1>1. UNCHANGED <<headers, rows, chosen, txs, userTx, catalogue>>
  BY DEF Open
<1>2. PICK r \in Present : seen' = [seen EXCEPT ![c] = FetchRequest(headers, rows, r)]
  BY DEF Open
<1>3. r \in Present'
  BY <1>1 DEF Present
<1>4. Shown(c, r)
  BY <1>1, <1>2 DEF Shown
<1> QED
  BY <1>1, <1>3, <1>4

-----------------------------------------------------------------------------
(* Assignments under way.                                                  *)

Steps == {"requests", "items", "suppliers", "insert"}

IsTx(tx) ==
    /\ tx = [requests |-> tx.requests, suppliers |-> tx.suppliers,
             locked |-> tx.locked, step |-> tx.step]
    /\ tx.step \in Steps
    /\ tx.locked \subseteq Named(tx) /\ Named(tx) \subseteq Requests

LinesOf(requests) == UNION {RowsOf(rows, r) : r \in requests}

\* What the statements up to now have found still holds.
StillHolds(c) ==
    LET tx == txs[c] IN
    /\ \A r \in tx.locked :
          r \in Present /\ headers[r].status = "new" /\ headers[r].site \in activeSites
    /\ tx.step \in {"items", "suppliers", "insert"} =>
          c \in Admins \/ \A r \in tx.locked : headers[r].site \in assigned[c]
    /\ tx.step \in {"suppliers", "insert"} => DOMAIN tx.suppliers = LinesOf(tx.locked)
    /\ tx.step = "insert" => \A i \in DOMAIN tx.suppliers : tx.suppliers[i] \in activeSuppliers

TxInv(c) == txs[c] # Null => IsTx(txs[c]) /\ StillHolds(c)

\* No request is locked by two assignments.
ApartInv ==
    \A b, c \in SupplyManagers :
       b # c /\ txs[b] # Null /\ txs[c] # Null => txs[b].locked \cap txs[c].locked = {}

CatalogueInv ==
    /\ activeSites \subseteq Sites /\ activeSuppliers \subseteq Suppliers
    /\ assigned \in [Users -> SUBSET Sites]
    /\ userTx # Null => userTx.user \in Users /\ userTx.sites \subseteq Sites

SupplyInv ==
    /\ TablesInv /\ CopiesInv /\ CatalogueInv /\ ApartInv
    /\ txs = [c \in SupplyManagers |-> txs[c]]
    /\ \A c \in SupplyManagers : TxInv(c)

\* An assignment that is not touched, when the requests it has locked, their
\* sites, its author and its suppliers are left alone.
LEMMA TxStands ==
    ASSUME NEW c \in SupplyManagers, TxInv(c), txs'[c] = txs[c],
           txs[c] # Null =>
              \A r \in txs[c].locked :
                 /\ headers'[r] = headers[r] /\ RowsOf(rows', r) = RowsOf(rows, r)
                 /\ r \in Requests
                 /\ headers[r].site \in activeSites => headers[r].site \in activeSites',
           txs[c] # Null /\ txs[c].step \in {"items", "suppliers", "insert"} /\ c \notin Admins
           /\ (\A r \in txs[c].locked : headers[r].site \in assigned[c])
           => \A r \in txs[c].locked : headers[r].site \in assigned'[c],
           txs[c] # Null /\ txs[c].step = "insert" =>
              \A i \in DOMAIN txs[c].suppliers :
                 txs[c].suppliers[i] \in activeSuppliers => txs[c].suppliers[i] \in activeSuppliers'
    PROVE  TxInv(c)'
<1>1. CASE txs[c] = Null
  BY <1>1 DEF TxInv
<1>2. CASE txs[c] # Null
  <2> DEFINE tx == txs[c]
             locked == tx.locked
  <2>1. IsTx(tx) /\ StillHolds(c)
    BY <1>2 DEF TxInv
  <2>2. LinesOf(locked)' = LinesOf(locked)
    <3>1. LinesOf(locked)' = UNION {RowsOf(rows', r) : r \in locked}
      BY DEF LinesOf, RowsOf
    <3> QED
      BY <1>2, <3>1 DEF LinesOf
  <2>3. \A r \in locked : r \in Present => r \in Present'
    BY <1>2 DEF Present
  <2>4. /\ \A r \in locked :
              r \in Present' /\ headers'[r].status = "new" /\ headers'[r].site \in activeSites'
        /\ tx.step \in {"items", "suppliers", "insert"} =>
              c \in Admins \/ \A r \in locked : headers'[r].site \in assigned'[c]
    BY <1>2, <2>1, <2>3 DEF StillHolds
  <2>5. /\ tx.step \in {"suppliers", "insert"} => DOMAIN tx.suppliers = LinesOf(locked)'
        /\ tx.step = "insert" =>
              \A i \in DOMAIN tx.suppliers : tx.suppliers[i] \in activeSuppliers'
    BY <1>2, <2>1, <2>2 DEF StillHolds
  <2>6. StillHolds(c)'
    BY <2>4, <2>5 DEF StillHolds
  <2> QED
    BY <2>1, <2>6 DEF TxInv, IsTx, Named
<1> QED
  BY <1>1, <1>2

\* A step that leaves all the tables, copies and the catalogue alone.
LEMMA SameTables ==
    ASSUME UNCHANGED <<headers, rows, chosen, seen>>, TablesInv, CopiesInv
    PROVE  TablesInv' /\ CopiesInv'
<1>1. HeaderInv' /\ RowsInv'
  BY DEF TablesInv, HeaderInv, RowsInv, Present
<1>2. StatusesAgree' /\ ChosenInv'
  <2>1. Present' = Present /\ \A i : Assigned({i})' = Assigned({i})
    BY DEF Present, Assigned
  <2>2. \A r \in Present : Agrees(r)'
    BY <2>1, StillAgrees, AgreeOneByOne DEF SameLines, TablesInv
  <2>3. StatusesAgree'
    BY <2>1, <2>2 DEF StatusesAgree, Agrees
  <2> QED
    BY <2>3 DEF TablesInv, ChosenInv
<1>3. CopiesInv'
  BY DEF CopiesInv, NotLater, Faithful, Present, FetchRequest, Lines, RowsOf
<1> QED
  BY <1>1, <1>2, <1>3 DEF TablesInv

LEMMA TxUntouched ==
    ASSUME SupplyInv, NEW c \in SupplyManagers, txs'[c] = txs[c],
           UNCHANGED <<headers, rows, catalogue>>
    PROVE  TxInv(c)'
<1>1. TxInv(c)
  BY DEF SupplyInv
<1>2. txs[c] # Null => \A r \in txs[c].locked : r \in Requests
  BY <1>1 DEF TxInv, StillHolds, Present
<1> QED
  BY <1>1, <1>2, TxStands DEF catalogue

\* What is left to show of a step of one assignment before its insertion.
LEMMA OneAssignment ==
    ASSUME SupplyInv, NEW c \in SupplyManagers,
           UNCHANGED <<headers, rows, seen, chosen, userTx, catalogue>>,
           txs' = [b \in SupplyManagers |-> txs'[b]],
           \A b \in SupplyManagers \ {c} : txs'[b] = txs[b],
           TxInv(c)',
           txs'[c] # Null => \A b \in SupplyManagers \ {c} :
                                txs[b] # Null => txs'[c].locked \cap txs[b].locked = {}
    PROVE  SupplyInv'
<1>1. TablesInv' /\ CopiesInv'
  BY SameTables DEF SupplyInv
<1>2. CatalogueInv'
  BY DEF SupplyInv, CatalogueInv, catalogue
<1>3. \A b \in SupplyManagers : TxInv(b)'
  <2> TAKE b \in SupplyManagers
  <2>1. CASE b = c
    BY <2>1
  <2>2. CASE b # c
    BY <2>2, TxUntouched
  <2> QED
    BY <2>1, <2>2
<1>4. ApartInv'
  BY DEF SupplyInv, ApartInv
<1> QED
  BY <1>1, <1>2, <1>3, <1>4 DEF SupplyInv

LEMMA Stepped ==
    ASSUME NEW tx, IsTx(tx), NEW step \in Steps
    PROVE  LET tx2 == [tx EXCEPT !.step = step] IN
           /\ IsTx(tx2) /\ tx2.step = step /\ tx2.locked = tx.locked
           /\ tx2.suppliers = tx.suppliers
<1> DEFINE tx2 == [tx EXCEPT !.step = step]
<1>1. tx2 = [requests |-> tx.requests, suppliers |-> tx.suppliers,
             locked |-> tx.locked, step |-> step]
  BY DEF IsTx
<1> HIDE DEF tx2
<1>2. /\ tx2.requests = tx.requests /\ tx2.step = step /\ tx2.locked = tx.locked
      /\ tx2.suppliers = tx.suppliers
  BY <1>1
<1>3. IsTx(tx2)
  BY <1>1, <1>2 DEF IsTx, Named
<1> QED
  BY <1>2, <1>3 DEF tx2

\* What Advance does, of the assignment and of the others.
LEMMA Advances ==
    ASSUME SupplyInv, NEW c \in SupplyManagers, txs[c] # Null, NEW step \in Steps, Advance(c, step)
    PROVE  /\ UNCHANGED <<headers, rows, seen, chosen, userTx, catalogue>>
           /\ txs' = [b \in SupplyManagers |-> txs'[b]]
           /\ \A b \in SupplyManagers \ {c} : txs'[b] = txs[b]
           /\ txs'[c] # Null => IsTx(txs'[c])
           /\ txs'[c].step = step /\ txs'[c].locked = txs[c].locked
           /\ txs'[c].suppliers = txs[c].suppliers
<1>1. /\ txs' = [txs EXCEPT ![c].step = step]
      /\ UNCHANGED <<headers, rows, seen, chosen, userTx, catalogue>>
  BY DEF Advance
<1>2. txs = [b \in SupplyManagers |-> txs[b]] /\ IsTx(txs[c])
  BY DEF SupplyInv, TxInv
<1>3. /\ txs'[c] = [txs[c] EXCEPT !.step = step]
      /\ txs' = [b \in SupplyManagers |-> txs'[b]]
      /\ \A b \in SupplyManagers \ {c} : txs'[b] = txs[b]
  BY <1>1, <1>2
<1> DEFINE tx2 == [txs[c] EXCEPT !.step = step]
<1>4. IsTx(tx2) /\ tx2.step = step /\ tx2.locked = txs[c].locked /\ tx2.suppliers = txs[c].suppliers
  BY <1>2, Stepped
<1>5. txs'[c] = tx2
  BY <1>3
<1> HIDE DEF tx2
<1> QED
  BY <1>1, <1>3, <1>4, <1>5

\* Rows locked before are not locked by others.
LEMMA AdvanceKeepsApart ==
    ASSUME SupplyInv, NEW c \in SupplyManagers, txs[c] # Null, txs'[c].locked = txs[c].locked
    PROVE  \A b \in SupplyManagers \ {c} :
              txs[b] # Null => txs'[c].locked \cap txs[b].locked = {}
BY DEF SupplyInv, ApartInv

-----------------------------------------------------------------------------
(* The steps of an assignment.                                             *)

LEMMA BeginPreserves ==
    ASSUME SupplyInv, NEW c \in SupplyManagers, Begin(c)
    PROVE  SupplyInv'
<1>1. PICK requests, suppliers :
         /\ \A n \in DOMAIN requests : requests[n].id \in Requests
         /\ txs' = [txs EXCEPT ![c] = [requests |-> requests, suppliers |-> suppliers,
                                       locked |-> {}, step |-> "requests"]]
  <2>1. PICK picked \in SUBSET Incoming(c) \ {{}} :
           \E items \in SUBSET UNION {RowsOf(rows, r) : r \in picked} \ {{}} :
           \E suppliers \in [items -> Suppliers] :
           \E order \in Orders(picked) :
              txs' = [txs EXCEPT ![c] =
                        [requests |-> [n \in DOMAIN order |->
                                         [id |-> order[n], version |-> headers[order[n]].version]],
                         suppliers |-> suppliers, locked |-> {}, step |-> "requests"]]
    BY DEF Begin
  <2>2. PICK order \in Orders(picked) : \E suppliers :
           txs' = [txs EXCEPT ![c] =
                     [requests |-> [n \in DOMAIN order |->
                                      [id |-> order[n], version |-> headers[order[n]].version]],
                      suppliers |-> suppliers, locked |-> {}, step |-> "requests"]]
    BY <2>1
  <2>3. \A n \in DOMAIN order : order[n] \in Requests
    BY DEF Orders, Incoming, Present
  <2> DEFINE requests == [n \in DOMAIN order |->
                            [id |-> order[n], version |-> headers[order[n]].version]]
  <2>4. \A n \in DOMAIN requests : requests[n].id \in Requests
    BY <2>3
  <2> HIDE DEF requests
  <2> QED
    BY <2>2, <2>4 DEF requests
<1>2. UNCHANGED <<headers, rows, seen, chosen, userTx, catalogue>>
  BY DEF Begin
<1>3. txs = [b \in SupplyManagers |-> txs[b]]
  BY DEF SupplyInv
<1>4. /\ txs' = [b \in SupplyManagers |-> txs'[b]]
      /\ \A b \in SupplyManagers \ {c} : txs'[b] = txs[b]
      /\ txs'[c] = [requests |-> requests, suppliers |-> suppliers,
                    locked |-> {}, step |-> "requests"]
  BY <1>1, <1>3
<1>5. IsTx(txs'[c]) /\ txs'[c].locked = {} /\ txs'[c].step = "requests"
  <2>1. /\ txs'[c].requests = requests /\ txs'[c].suppliers = suppliers
        /\ txs'[c].locked = {} /\ txs'[c].step = "requests"
    BY <1>4
  <2>2. Named(txs'[c]) \subseteq Requests
    BY <1>1, <2>1 DEF Named
  <2> QED
    BY <1>4, <2>1, <2>2 DEF IsTx, Steps
<1>6. TxInv(c)'
  BY <1>5 DEF TxInv, StillHolds, IsTx, Named
<1> QED
  BY <1>2, <1>4, <1>5, <1>6, OneAssignment

\* The next request to lock is one that is not locked yet.
LEMMA SmallestToLock ==
    ASSUME NEW tx, Named(tx) \subseteq Requests, ToLock(tx) # {}
    PROVE  NextToLock(tx) \in ToLock(tx)
<1>1. ToLock(tx) \subseteq Nat
  BY RequestsAssumption DEF ToLock
<1> DEFINE Less == {pair \in Nat \X Nat : pair[1] < pair[2]}
<1>2. IsWellFoundedOn(Less, Nat)
  BY NatLessThanWellFounded DEF OpToRel
<1>3. PICK r \in ToLock(tx) : \A q \in ToLock(tx) : <<q, r>> \notin Less
  BY <1>1, <1>2, WFMin
<1>4. \A q \in ToLock(tx) : ~(q < r)
  <2> SUFFICES ASSUME NEW q \in ToLock(tx), q < r
               PROVE  <<q, r>> \in Less
    BY <1>3
  <2>1. <<q, r>> \in Nat \X Nat /\ <<q, r>>[1] = q /\ <<q, r>>[2] = r
    BY <1>1
  <2> QED
    BY <2>1
<1> HIDE DEF Less
<1>5. \A q \in ToLock(tx) : r <= q
  BY <1>1, <1>4
<1> QED
  BY <1>5 DEF NextToLock

\* A request is locked and found to be as it was submitted.
LEMMA LockRequestPreserves ==
    ASSUME SupplyInv, NEW c \in SupplyManagers, LockRequest(c)
    PROVE  SupplyInv'
<1> PICK r : r = NextToLock(txs[c])
  OBVIOUS
<1> DEFINE tx == txs[c]
           tx2 == [tx EXCEPT !.locked = @ \cup {r}]
<1>1. /\ tx # Null /\ tx.step = "requests" /\ ToLock(tx) # {} /\ RequestFree(r)
      /\ r \in Present /\ headers[r].status = "new" /\ headers[r].site \in activeSites
      /\ txs' = [txs EXCEPT ![c] = tx2]
      /\ UNCHANGED <<headers, rows, seen, chosen, userTx, catalogue>>
  BY DEF LockRequest, AtStep, SupplySites
<1>2. IsTx(tx) /\ StillHolds(c) /\ txs = [b \in SupplyManagers |-> txs[b]]
  BY <1>1 DEF SupplyInv, TxInv
<1>3. r \in Named(tx)
  BY <1>1, <1>2, SmallestToLock DEF IsTx, ToLock
<1>4. tx2 = [requests |-> tx.requests, suppliers |-> tx.suppliers,
             locked |-> tx.locked \cup {r}, step |-> tx.step]
  BY <1>2 DEF IsTx
<1>5. /\ txs' = [b \in SupplyManagers |-> txs'[b]]
      /\ \A b \in SupplyManagers \ {c} : txs'[b] = txs[b]
      /\ txs'[c] = tx2
  BY <1>1, <1>2
<1> HIDE DEF tx2
<1>6. /\ tx2.requests = tx.requests /\ tx2.suppliers = tx.suppliers
      /\ tx2.locked = tx.locked \cup {r} /\ tx2.step = "requests"
  BY <1>1, <1>4
<1>7. IsTx(tx2)
  BY <1>2, <1>3, <1>4, <1>6 DEF IsTx, Named
<1>8. \A q \in tx2.locked :
         q \in Present' /\ headers'[q].status = "new" /\ headers'[q].site \in activeSites'
  BY <1>1, <1>2, <1>6 DEF StillHolds, Present, catalogue
<1>9. TxInv(c)'
  BY <1>5, <1>6, <1>7, <1>8 DEF TxInv, StillHolds, IsTx, Named
<1>10. \A b \in SupplyManagers \ {c} : txs[b] # Null => txs'[c].locked \cap txs[b].locked = {}
  BY <1>1, <1>5, <1>6 DEF SupplyInv, ApartInv, RequestFree, Assigning
<1> QED
  BY <1>1, <1>5, <1>9, <1>10, OneAssignment

LEMMA LockAssignmentsPreserves ==
    ASSUME SupplyInv, NEW c \in SupplyManagers, LockAssignments(c)
    PROVE  SupplyInv'
<1>1. /\ txs[c] # Null /\ Advance(c, "items") /\ "items" \in Steps
      /\ c \in Admins \/ \A r \in txs[c].locked : headers[r].site \in assigned[c]
  BY DEF LockAssignments, AtStep, Steps
<1>2. /\ UNCHANGED <<headers, rows, seen, chosen, userTx, catalogue>>
      /\ txs' = [b \in SupplyManagers |-> txs'[b]]
      /\ \A b \in SupplyManagers \ {c} : txs'[b] = txs[b]
      /\ txs'[c] # Null => IsTx(txs'[c])
      /\ txs'[c].step = "items" /\ txs'[c].locked = txs[c].locked
  BY <1>1, Advances
<1>3. \A r \in txs[c].locked :
         r \in Present' /\ headers'[r].status = "new" /\ headers'[r].site \in activeSites'
  BY <1>1, <1>2 DEF SupplyInv, TxInv, StillHolds, Present, catalogue
<1>4. TxInv(c)'
  BY <1>1, <1>2, <1>3 DEF TxInv, StillHolds, IsTx, Named, catalogue
<1> QED
  BY <1>1, <1>2, <1>4, AdvanceKeepsApart, OneAssignment

LEMMA LockItemsPreserves ==
    ASSUME SupplyInv, NEW c \in SupplyManagers, LockItems(c)
    PROVE  SupplyInv'
<1>1. /\ txs[c] # Null /\ txs[c].step = "items" /\ Advance(c, "suppliers") /\ "suppliers" \in Steps
      /\ DOMAIN txs[c].suppliers = LinesOf(txs[c].locked)
  BY DEF LockItems, AtStep, Steps, LinesOf
<1>2. /\ UNCHANGED <<headers, rows, seen, chosen, userTx, catalogue>>
      /\ txs' = [b \in SupplyManagers |-> txs'[b]]
      /\ \A b \in SupplyManagers \ {c} : txs'[b] = txs[b]
      /\ txs'[c] # Null => IsTx(txs'[c])
      /\ txs'[c].step = "suppliers" /\ txs'[c].locked = txs[c].locked
      /\ txs'[c].suppliers = txs[c].suppliers
  BY <1>1, Advances
<1>3. /\ \A r \in txs[c].locked :
            r \in Present' /\ headers'[r].status = "new" /\ headers'[r].site \in activeSites'
      /\ c \in Admins \/ \A r \in txs[c].locked : headers'[r].site \in assigned'[c]
  BY <1>1, <1>2 DEF SupplyInv, TxInv, StillHolds, Present, catalogue
<1>4. DOMAIN txs'[c].suppliers = LinesOf(txs[c].locked)'
  BY <1>1, <1>2 DEF LinesOf, RowsOf
<1>5. TxInv(c)'
  BY <1>2, <1>3, <1>4 DEF TxInv, StillHolds, IsTx, Named
<1> QED
  BY <1>1, <1>2, <1>5, AdvanceKeepsApart, OneAssignment

LEMMA LockSuppliersPreserves ==
    ASSUME SupplyInv, NEW c \in SupplyManagers, LockSuppliers(c)
    PROVE  SupplyInv'
<1>1. /\ txs[c] # Null /\ txs[c].step = "suppliers" /\ Advance(c, "insert") /\ "insert" \in Steps
      /\ \A i \in DOMAIN txs[c].suppliers : txs[c].suppliers[i] \in activeSuppliers
  BY DEF LockSuppliers, AtStep, Steps
<1>2. /\ UNCHANGED <<headers, rows, seen, chosen, userTx, catalogue>>
      /\ txs' = [b \in SupplyManagers |-> txs'[b]]
      /\ \A b \in SupplyManagers \ {c} : txs'[b] = txs[b]
      /\ txs'[c] # Null => IsTx(txs'[c])
      /\ txs'[c].step = "insert" /\ txs'[c].locked = txs[c].locked
      /\ txs'[c].suppliers = txs[c].suppliers
  BY <1>1, Advances
<1>3. /\ \A r \in txs[c].locked :
            r \in Present' /\ headers'[r].status = "new" /\ headers'[r].site \in activeSites'
      /\ c \in Admins \/ \A r \in txs[c].locked : headers'[r].site \in assigned'[c]
      /\ DOMAIN txs[c].suppliers = LinesOf(txs[c].locked)
  BY <1>1, <1>2 DEF SupplyInv, TxInv, StillHolds, Present, catalogue
<1>4. DOMAIN txs'[c].suppliers = LinesOf(txs[c].locked)'
  BY <1>2, <1>3 DEF LinesOf, RowsOf
<1>5. \A i \in DOMAIN txs'[c].suppliers : txs'[c].suppliers[i] \in activeSuppliers'
  BY <1>1, <1>2 DEF catalogue
<1>6. TxInv(c)'
  BY <1>2, <1>3, <1>4, <1>5 DEF TxInv, StillHolds, IsTx, Named
<1> QED
  BY <1>1, <1>2, <1>6, AdvanceKeepsApart, OneAssignment

\* An assignment ends without a trace.
LEMMA EndPreserves ==
    ASSUME SupplyInv, NEW c \in SupplyManagers, txs' = [txs EXCEPT ![c] = Null],
           UNCHANGED <<headers, rows, seen, chosen, userTx, catalogue>>
    PROVE  SupplyInv'
<1>1. txs = [b \in SupplyManagers |-> txs[b]]
  BY DEF SupplyInv
<1>2. /\ txs' = [b \in SupplyManagers |-> txs'[b]]
      /\ \A b \in SupplyManagers \ {c} : txs'[b] = txs[b]
      /\ txs'[c] = Null
  BY <1>1
<1>3. TxInv(c)'
  BY <1>2 DEF TxInv
<1> QED
  BY <1>2, <1>3, OneAssignment

\* What the insertion does: the requests that are locked are those whose
\* lines are named, their lines are new, and no assignment names them.
InsertStep(c, suppliers, locked) ==
    /\ txs[c] # Null /\ suppliers = txs[c].suppliers /\ locked = txs[c].locked
    /\ DOMAIN suppliers = LinesOf(locked)
    /\ \A r \in locked : r \in Present /\ headers[r].status = "new" /\ Agrees(r)
    /\ chosen' = chosen \cup
         {[item |-> i, supplier |-> suppliers[i], by |-> c] : i \in DOMAIN suppliers}
    /\ DOMAIN rows' = DOMAIN rows /\ IsTable(rows')
    /\ \A i \in DOMAIN rows \ DOMAIN suppliers : rows'[i] = rows[i]
    /\ \A i \in DOMAIN suppliers : i \in DOMAIN rows /\ rows'[i] = Supplied(rows[i], suppliers[i])
    /\ \A r \in Requests \ locked : headers'[r] = headers[r]
    /\ \A r \in locked : headers'[r] = Promoted(headers[r], "supplier_assigned")
    /\ headers' = [r \in Requests |-> headers'[r]]

LEMMA InsertSteps ==
    ASSUME SupplyInv, NEW c \in SupplyManagers, Insert(c)
    PROVE  InsertStep(c, txs[c].suppliers, txs[c].locked)
<1> DEFINE suppliers == txs[c].suppliers
           locked == txs[c].locked
<1>1. /\ txs[c] # Null /\ txs[c].step = "insert"
      /\ chosen' = chosen \cup
           {[item |-> i, supplier |-> suppliers[i], by |-> c] : i \in DOMAIN suppliers}
      /\ rows' = [i \in DOMAIN rows |->
           IF i \in DOMAIN suppliers
           THEN [rows[i] EXCEPT !.body.supplier = suppliers[i], !.body.status = "supplier_assigned"]
           ELSE rows[i]]
      /\ headers' = [r \in Requests |->
           IF r \in locked
           THEN [headers[r] EXCEPT !.status = "supplier_assigned", !.version = @ + 1]
           ELSE headers[r]]
  BY DEF Insert, AtStep
<1>2. StillHolds(c) /\ TablesInv
  BY <1>1 DEF SupplyInv, TxInv
<1>3. /\ DOMAIN suppliers = LinesOf(locked)
      /\ \A r \in locked : r \in Present /\ headers[r].status = "new"
  BY <1>1, <1>2 DEF StillHolds
<1>4. \A r \in locked : Agrees(r) /\ r \in Requests
  BY <1>2, <1>3, AgreeOneByOne DEF TablesInv, Present
<1>5. DOMAIN suppliers \subseteq DOMAIN rows
  BY <1>3 DEF LinesOf, RowsOf
<1> HIDE DEF suppliers, locked
<1>6. DOMAIN rows' = DOMAIN rows /\ IsTable(rows')
  BY <1>1 DEF IsTable
<1>7. \A i \in DOMAIN rows \ DOMAIN suppliers : rows'[i] = rows[i]
  BY <1>1
<1>8. \A i \in DOMAIN suppliers : i \in DOMAIN rows /\ rows'[i] = Supplied(rows[i], suppliers[i])
  BY <1>1, <1>5 DEF Supplied
<1>9. /\ \A r \in Requests \ locked : headers'[r] = headers[r]
      /\ \A r \in locked : headers'[r] = Promoted(headers[r], "supplier_assigned")
      /\ headers' = [r \in Requests |-> headers'[r]]
  BY <1>1, <1>4 DEF Promoted
<1>10. suppliers = txs[c].suppliers /\ locked = txs[c].locked
  BY DEF suppliers, locked
<1>11. InsertStep(c, suppliers, locked)
  BY <1>1, <1>3, <1>4, <1>6, <1>7, <1>8, <1>9, <1>10 DEF InsertStep
<1> QED
  BY <1>10, <1>11

NewLine(c, suppliers, i) == [item |-> i, supplier |-> suppliers[i], by |-> c]

\* What the insertion makes of requests, lines and assignments.
LEMMA InsertEffect ==
    ASSUME TablesInv, NEW c, NEW suppliers, NEW locked, InsertStep(c, suppliers, locked)
    PROVE  /\ HeaderInv' /\ RowsInv' /\ Present' = Present
           /\ \A r \in Requests : RowsOf(rows', r) = RowsOf(rows, r)
           /\ \A r \in Requests \ locked : SameLines(r)
           /\ \A i \in DOMAIN suppliers : /\ rows'[i].body.status = "supplier_assigned"
                                          /\ rows'[i].body.supplier = suppliers[i]
                                          /\ Unsupplied(rows'[i]) = rows[i]
           /\ \A i \in DOMAIN suppliers : Assigned({i})' = {NewLine(c, suppliers, i)}
           /\ \A i \in DOMAIN rows \ DOMAIN suppliers : Assigned({i})' = Assigned({i})
           /\ \A r \in locked : /\ headers'[r] \in Headers
                                /\ headers'[r].status = "supplier_assigned"
                                /\ headers'[r].version = headers[r].version + 1
                                /\ headers'[r].site = headers[r].site
<1>1. \A i \in DOMAIN suppliers : \E r \in locked : i \in RowsOf(rows, r)
  BY DEF InsertStep, LinesOf
<1>2. \A r \in locked : r \in Present /\ headers[r].status = "new" /\ Agrees(r)
  BY DEF InsertStep
<1>3. \A r \in locked : r \in Requests /\ headers[r] \in Headers
  BY <1>2, PresentHeaders DEF TablesInv
<1>4. \A r \in locked : /\ headers'[r] \in Headers
                        /\ headers'[r].status = "supplier_assigned"
                        /\ headers'[r].version = headers[r].version + 1
                        /\ headers'[r].site = headers[r].site
  <2> TAKE r \in locked
  <2>1. headers'[r] = Promoted(headers[r], "supplier_assigned") /\ "supplier_assigned" \in Statuses
    BY DEF InsertStep, Statuses
  <2> QED
    BY <1>3, <2>1, PromotedHeader
<1>5. \A r \in Requests : r \in locked \/ headers'[r] = headers[r]
  BY DEF InsertStep
<1>6. HeaderInv'
  <2>1. headers' = [r \in Requests |-> headers'[r]]
    BY DEF InsertStep
  <2>2. \A r \in Requests : headers'[r] \in {Null, Gone} \cup Headers
    BY <1>4, <1>5 DEF TablesInv, HeaderInv
  <2> QED
    BY <2>1, <2>2 DEF HeaderInv
<1>7. Present' = Present
  BY <1>2, <1>4, <1>5, RequestsAssumption DEF Present
<1>8. \A i \in DOMAIN suppliers :
         /\ i \in DOMAIN rows /\ IsRow(rows[i]) /\ rows'[i] = Supplied(rows[i], suppliers[i])
         /\ rows[i].body.status = "new" /\ rows[i].body.supplier = Null
         /\ Assigned({i}) = {}
  <2> TAKE i \in DOMAIN suppliers
  <2>1. i \in DOMAIN rows /\ IsRow(rows[i]) /\ rows'[i] = Supplied(rows[i], suppliers[i])
    BY DEF InsertStep, TablesInv, RowsInv
  <2>2. PICK r \in locked : i \in RowsOf(rows, r)
    BY <1>1
  <2>3. Agrees(r) /\ headers[r].status = "new"
    BY <1>2
  <2> QED
    BY <2>1, <2>2, <2>3 DEF Agrees
<1>9. \A i \in DOMAIN suppliers : /\ IsRow(rows'[i]) /\ rows'[i].doc = rows[i].doc
                                  /\ rows'[i].body.status = "supplier_assigned"
                                  /\ rows'[i].body.supplier = suppliers[i]
                                  /\ Unsupplied(rows'[i]) = rows[i]
  <2> TAKE i \in DOMAIN suppliers
  <2> DEFINE row == rows[i]
             supplier == suppliers[i]
  <2>1. /\ IsRow(row) /\ row.body.supplier = Null /\ row.body.status = "new"
        /\ rows'[i] = Supplied(row, supplier)
    BY <1>8
  <2> HIDE DEF row, supplier
  <2>2. /\ IsRow(Supplied(row, supplier)) /\ Supplied(row, supplier).doc = row.doc
        /\ Supplied(row, supplier).body.status = "supplier_assigned"
        /\ Supplied(row, supplier).body.supplier = supplier
        /\ Unsupplied(Supplied(row, supplier)) = row
    BY <2>1, SuppliedRow
  <2> QED
    BY <2>1, <2>2 DEF row, supplier
<1>10. /\ DOMAIN rows' = DOMAIN rows /\ IsTable(rows')
       /\ \A i \in DOMAIN rows \ DOMAIN suppliers : rows'[i] = rows[i]
  BY DEF InsertStep
<1>11. \A r \in Requests : RowsOf(rows', r) = RowsOf(rows, r)
  BY <1>9, <1>10 DEF RowsOf
<1>12. RowsInv'
  BY <1>7, <1>9, <1>10 DEF TablesInv, RowsInv
<1>13. \A r \in Requests \ locked : SameLines(r)
  <2> TAKE r \in Requests \ locked
  <2>1. \A i \in RowsOf(rows, r) : i \in DOMAIN rows \ DOMAIN suppliers
    BY <1>1 DEF RowsOf
  <2> QED
    BY <1>10, <1>11, <2>1 DEF SameLines
<1>14. chosen' = chosen \cup {NewLine(c, suppliers, i) : i \in DOMAIN suppliers}
  BY DEF InsertStep, NewLine
<1>15. \A i : NewLine(c, suppliers, i).item = i
  BY DEF NewLine
<1>16. \A i \in DOMAIN suppliers : Assigned({i})' = {NewLine(c, suppliers, i)}
  BY <1>8, <1>14, <1>15 DEF Assigned
<1>17. \A i \in DOMAIN rows \ DOMAIN suppliers : Assigned({i})' = Assigned({i})
  BY <1>14, <1>15 DEF Assigned
<1> QED
  BY <1>4, <1>6, <1>7, <1>9, <1>11, <1>12, <1>13, <1>16, <1>17

LEMMA InsertPreserves ==
    ASSUME SupplyInv, NEW c \in SupplyManagers, Insert(c)
    PROVE  SupplyInv'
<1> PICK suppliers, locked : suppliers = txs[c].suppliers /\ locked = txs[c].locked
  OBVIOUS
<1>1. InsertStep(c, suppliers, locked) /\ TablesInv
  BY InsertSteps DEF SupplyInv
<1>2. /\ txs' = [txs EXCEPT ![c] = Null]
      /\ UNCHANGED <<seen, userTx, catalogue>>
  BY DEF Insert
<1>3. /\ HeaderInv' /\ RowsInv' /\ Present' = Present
      /\ \A r \in Requests : RowsOf(rows', r) = RowsOf(rows, r)
      /\ \A r \in Requests \ locked : SameLines(r)
      /\ \A i \in DOMAIN suppliers : /\ rows'[i].body.status = "supplier_assigned"
                                     /\ rows'[i].body.supplier = suppliers[i]
      /\ \A i \in DOMAIN suppliers : Assigned({i})' = {NewLine(c, suppliers, i)}
      /\ \A i \in DOMAIN rows \ DOMAIN suppliers : Assigned({i})' = Assigned({i})
      /\ \A r \in locked : /\ headers'[r] \in Headers
                           /\ headers'[r].status = "supplier_assigned"
                           /\ headers'[r].version = headers[r].version + 1
  BY <1>1, InsertEffect
<1>4. \A r \in locked : r \in Present /\ r \in Requests /\ headers[r].status = "new" /\ Agrees(r)
  BY <1>1 DEF InsertStep, Present
<1>5. \A r \in Requests \ locked : headers'[r] = headers[r]
  BY <1>1 DEF InsertStep
<1>6. DOMAIN suppliers = LinesOf(locked)
  BY <1>1 DEF InsertStep
<1>7. ASSUME NEW r \in locked
      PROVE  Agrees(r)'
  <2>1. RowsOf(rows, r) # {} /\ RowsOf(rows', r) = RowsOf(rows, r)
    BY <1>3, <1>4 DEF Agrees
  <2>2. \A i \in RowsOf(rows, r) : i \in DOMAIN suppliers
    BY <1>6 DEF LinesOf
  <2>3. headers'[r].status = "supplier_assigned"
    BY <1>3
  <2>4. \A i \in RowsOf(rows, r) :
           /\ rows'[i].body.status = "supplier_assigned"
           /\ Assigned({i})' = {NewLine(c, suppliers, i)}
           /\ rows'[i].body.supplier = suppliers[i]
    BY <1>3, <2>2
  <2>5. \A i : /\ Cardinality({NewLine(c, suppliers, i)}) = 1
               /\ NewLine(c, suppliers, i).supplier = suppliers[i]
    BY FS_Singleton DEF NewLine
  <2>6. \A i \in RowsOf(rows, r) :
           /\ Cardinality(Assigned({i})') = 1
           /\ \A line \in Assigned({i})' : line.supplier = rows'[i].body.supplier
    BY <2>4, <2>5
  <2>7. (RowsOf(rows, r))' = RowsOf(rows, r)
    BY <2>1 DEF RowsOf
  <2> QED
    BY <2>1, <2>3, <2>4, <2>6, <2>7 DEF Agrees
<1>8. ASSUME NEW r \in Present \ locked
      PROVE  Agrees(r)'
  <2>1. r \in Requests \ locked /\ Agrees(r)
    BY <1>1, AgreeOneByOne DEF TablesInv, Present
  <2>2. \A i \in RowsOf(rows, r) : i \in DOMAIN rows \ DOMAIN suppliers
    BY <1>6 DEF LinesOf, RowsOf
  <2> QED
    BY <1>3, <1>5, <2>1, <2>2, StillAgrees
<1>9. StatusesAgree'
  BY <1>3, <1>7, <1>8 DEF StatusesAgree, Agrees
<1>10. ChosenInv'
  <2>1. DOMAIN rows' = DOMAIN rows /\ DOMAIN suppliers \subseteq DOMAIN rows
    BY <1>1 DEF InsertStep
  <2>2. \A line \in chosen' : line \in chosen \/ line.item \in DOMAIN suppliers
    BY <1>1 DEF InsertStep
  <2> QED
    BY <1>1, <2>1, <2>2 DEF TablesInv, ChosenInv
<1>11. TablesInv'
  BY <1>3, <1>9, <1>10 DEF TablesInv
<1>12. \A r \in Requests : Newer(r)
  BY <1>3, <1>4, <1>5 DEF Newer
<1>13. CopiesInv'
  BY <1>1, <1>2, <1>3, <1>12, CopiesStand DEF SupplyInv, TablesInv
<1>14. txs = [b \in SupplyManagers |-> txs[b]]
  BY DEF SupplyInv
<1>15. /\ txs' = [b \in SupplyManagers |-> txs'[b]]
       /\ \A b \in SupplyManagers \ {c} : txs'[b] = txs[b]
       /\ txs'[c] = Null
  BY <1>2, <1>14
<1>16. ASSUME NEW b \in SupplyManagers
       PROVE  TxInv(b)'
  <2>1. CASE b = c
    BY <1>15, <2>1 DEF TxInv
  <2>2. CASE b # c
    <3>1. TxInv(b) /\ txs'[b] = txs[b]
      BY <1>15, <2>2 DEF SupplyInv
    <3>2. txs[b] # Null => \A r \in txs[b].locked : r \in Requests \ locked
      BY <1>1, <2>2, <3>1 DEF SupplyInv, ApartInv, InsertStep, TxInv, StillHolds, Present
    <3> QED
      BY <1>2, <1>3, <1>5, <3>1, <3>2, TxStands DEF catalogue
  <2> QED
    BY <2>1, <2>2
<1>17. ApartInv'
  BY <1>15 DEF SupplyInv, ApartInv
<1>18. CatalogueInv'
  BY <1>2 DEF SupplyInv, CatalogueInv, catalogue
<1> QED
  BY <1>11, <1>13, <1>15, <1>16, <1>17, <1>18 DEF SupplyInv

-----------------------------------------------------------------------------
(* Editors and administrators.                                             *)

\* An editor touches no request that an assignment has locked.
LEMMA EditorPreserves ==
    ASSUME SupplyInv, NEW c \in Editors, EditorNext(c)
    PROVE  SupplyInv'
<1>1. TablesInv /\ CopiesInv
  BY DEF SupplyInv
<1>2. ASSUME NEW r, EditedBy(c, r)
      PROVE  SupplyInv'
  <2>1. /\ Editable(r) /\ TablesInv' /\ Newer(r)
        /\ \A e \in Requests \ {r} : headers'[e] = headers[e] /\ SameLines(e)
        /\ UNCHANGED <<chosen, txs, userTx, catalogue>>
    BY <1>2 DEF EditedBy, RequestStep
  <2>2. \A e \in Requests : Newer(e)
    BY <2>1 DEF Newer
  <2>3. CopiesInv'
    BY <1>1, <1>2, <2>1, <2>2, CopiesStand DEF EditedBy, TablesInv
  <2>4. ASSUME NEW b \in SupplyManagers
        PROVE  TxInv(b)'
    <3>1. TxInv(b) /\ txs'[b] = txs[b]
      BY <2>1 DEF SupplyInv
    <3>2. txs[b] # Null => \A e \in txs[b].locked : e \in Requests \ {r}
      BY <2>1, <3>1 DEF TxInv, StillHolds, Editable, RequestFree, Assigning, Present
    <3> QED
      BY <2>1, <3>1, <3>2, TxStands DEF catalogue, SameLines
  <2>5. ApartInv' /\ CatalogueInv'
    BY <2>1 DEF SupplyInv, ApartInv, CatalogueInv, catalogue
  <2> QED
    BY <2>1, <2>3, <2>4, <2>5 DEF SupplyInv
<1>3. CASE Open(c)
  <2>1. /\ UNCHANGED <<headers, rows, chosen, txs, userTx, catalogue>>
        /\ \E r \in Present' : Shown(c, r)
    BY <1>3, OpenShows
  <2>2. TablesInv'
    <3>1. HeaderInv' /\ RowsInv'
      BY <1>1, <2>1 DEF TablesInv, HeaderInv, RowsInv, Present
    <3>2. Present' = Present /\ \A i : Assigned({i})' = Assigned({i})
      BY <2>1 DEF Present, Assigned
    <3>3. \A r \in Present : Agrees(r)'
      BY <1>1, <2>1, <3>2, StillAgrees, AgreeOneByOne DEF SameLines, TablesInv
    <3>4. StatusesAgree'
      BY <3>2, <3>3 DEF StatusesAgree, Agrees
    <3> QED
      BY <1>1, <2>1, <3>1, <3>4 DEF TablesInv, ChosenInv
  <2>3. \A r \in Requests : Newer(r)
    BY <2>1 DEF Newer, SameLines
  <2>4. CopiesInv'
    BY <1>1, <2>1, <2>2, <2>3, CopiesStand DEF TablesInv
  <2>5. \A b \in SupplyManagers : TxInv(b)'
    BY <2>1, TxUntouched
  <2>6. ApartInv' /\ CatalogueInv'
    BY <2>1 DEF SupplyInv, ApartInv, CatalogueInv, catalogue
  <2> QED
    BY <2>1, <2>2, <2>4, <2>5, <2>6 DEF SupplyInv
<1> QED
  BY <1>1, <1>2, <1>3, CreateEdits, UpdateEdits, SubmitEdits, DeleteEdits DEF EditorNext

\* An update of a user's sites waits for an assignment of his that relies on
\* them.
LEMMA SyncPreserves ==
    ASSUME SupplyInv, SyncUserSites
    PROVE  SupplyInv'
<1> PICK user, sites : user = userTx.user /\ sites = userTx.sites
  OBVIOUS
<1>1. /\ userTx # Null /\ userTx' = Null
      /\ user \in SupplyManagers => Shared(user) \cap assigned[user] = {}
      /\ assigned' = [assigned EXCEPT ![user] = sites]
      /\ UNCHANGED <<headers, rows, seen, chosen, txs, activeSites, activeSuppliers,
                     activeImportances>>
  BY DEF SyncUserSites
<1>2. user \in Users /\ sites \subseteq Sites /\ assigned \in [Users -> SUBSET Sites]
  BY <1>1 DEF SupplyInv, CatalogueInv
<1>3. CatalogueInv'
  BY <1>1, <1>2 DEF SupplyInv, CatalogueInv
<1>4. \A c \in Users \ {user} : assigned'[c] = assigned[c]
  BY <1>1, <1>2
<1>5. ASSUME NEW c \in SupplyManagers
      PROVE  TxInv(c)'
  <2>1. TxInv(c) /\ c \in Users
    BY DEF SupplyInv, Users
  <2>2. txs[c] # Null => \A r \in txs[c].locked : r \in Requests
    BY <2>1 DEF TxInv, StillHolds, Present
  <2>3. ASSUME txs[c] # Null, txs[c].step \in {"items", "suppliers", "insert"}, c \notin Admins,
               \A r \in txs[c].locked : headers[r].site \in assigned[c]
        PROVE  \A r \in txs[c].locked : headers[r].site \in assigned'[c]
    <3>1. CASE c = user
      <4>1. Shared(c) = {headers[r].site : r \in txs[c].locked}
        BY <2>3 DEF Shared
      <4>2. \A r \in txs[c].locked : FALSE
        BY <1>1, <2>3, <3>1, <4>1
      <4> QED
        BY <4>2
    <3>2. CASE c # user
      BY <1>4, <2>1, <2>3, <3>2
    <3> QED
      BY <3>1, <3>2
  <2> QED
    BY <1>1, <2>1, <2>2, <2>3, TxStands
<1>6. TablesInv' /\ CopiesInv'
  BY <1>1, SameTables DEF SupplyInv
<1>7. ApartInv'
  BY <1>1 DEF SupplyInv, ApartInv
<1> QED
  BY <1>1, <1>3, <1>5, <1>6, <1>7 DEF SupplyInv

\* What else leaves assignments, requests and catalogues alone.
LEMMA UserTxPreserves ==
    ASSUME SupplyInv, UNCHANGED <<headers, rows, seen, chosen, txs, catalogue>>,
           userTx' # Null => userTx'.user \in Users /\ userTx'.sites \subseteq Sites
    PROVE  SupplyInv'
<1>1. TablesInv' /\ CopiesInv'
  BY SameTables DEF SupplyInv
<1>2. \A c \in SupplyManagers : TxInv(c)'
  BY TxUntouched
<1>3. ApartInv' /\ CatalogueInv'
  BY DEF SupplyInv, ApartInv, CatalogueInv, catalogue
<1> QED
  BY <1>1, <1>2, <1>3 DEF SupplyInv

LEMMA BeginUserUpdatePreserves ==
    ASSUME SupplyInv, BeginUserUpdate
    PROVE  SupplyInv'
<1>1. PICK c \in Users, sites \in SUBSET Sites : userTx' = [user |-> c, sites |-> sites]
  BY DEF BeginUserUpdate
<1>2. userTx'.user = c /\ userTx'.sites = sites
  BY <1>1
<1> QED
  BY <1>2, UserTxPreserves DEF BeginUserUpdate

LEMMA BreakDeadlockPreserves ==
    ASSUME SupplyInv, BreakDeadlock
    PROVE  SupplyInv'
<1>1. CASE userTx' = Null /\ UNCHANGED txs
  BY <1>1, UserTxPreserves DEF BreakDeadlock
<1>2. CASE txs' = [txs EXCEPT ![userTx.user] = Null] /\ UNCHANGED userTx
  <2> PICK c : c = userTx.user
    OBVIOUS
  <2>1. c \in SupplyManagers /\ txs' = [txs EXCEPT ![c] = Null]
    BY <1>2 DEF BreakDeadlock, Assigning
  <2> QED
    BY <1>2, <2>1, EndPreserves DEF BreakDeadlock
<1> QED
  BY <1>1, <1>2 DEF BreakDeadlock

\* Sites and suppliers that an assignment has locked stay active.
LEMMA CataloguePreserves ==
    ASSUME SupplyInv, EditCatalogue
    PROVE  SupplyInv'
<1>1. UNCHANGED <<headers, rows, seen, chosen, txs, userTx, assigned>>
  BY DEF EditCatalogue
<1>2. /\ activeSites' \subseteq Sites /\ activeSuppliers' \subseteq Suppliers
      /\ \A c \in Assigning : \A r \in txs[c].locked :
            headers[r].site \in activeSites => headers[r].site \in activeSites'
      /\ \A c \in Assigning : txs[c].step = "insert" => \A i \in DOMAIN txs[c].suppliers :
            txs[c].suppliers[i] \in activeSuppliers => txs[c].suppliers[i] \in activeSuppliers'
  <2>1. CASE /\ \E site \in Sites : SiteFree(site)
                   /\ activeSites' \in {activeSites \ {site}, activeSites \cup {site}}
             /\ UNCHANGED <<activeSuppliers, activeImportances>>
    BY <2>1 DEF SiteFree, SupplyInv, CatalogueInv
  <2>2. CASE /\ \E supplier \in Suppliers : SupplierFree(supplier)
                   /\ activeSuppliers' \in {activeSuppliers \ {supplier},
                                            activeSuppliers \cup {supplier}}
             /\ UNCHANGED <<activeSites, activeImportances>>
    BY <2>2 DEF SupplierFree, SupplyInv, CatalogueInv
  <2>3. CASE UNCHANGED <<activeSites, activeSuppliers>>
    BY <2>3 DEF SupplyInv, CatalogueInv
  <2> QED
    BY <2>1, <2>2, <2>3 DEF EditCatalogue
<1>3. ASSUME NEW c \in SupplyManagers
      PROVE  TxInv(c)'
  <2>1. TxInv(c)
    BY DEF SupplyInv
  <2>2. txs[c] # Null => c \in Assigning /\ \A r \in txs[c].locked : r \in Requests
    BY <2>1 DEF TxInv, StillHolds, Present, Assigning
  <2> QED
    BY <1>1, <1>2, <2>1, <2>2, TxStands
<1>4. TablesInv' /\ CopiesInv'
  BY <1>1, SameTables DEF SupplyInv
<1>5. ApartInv' /\ CatalogueInv'
  BY <1>1, <1>2 DEF SupplyInv, ApartInv, CatalogueInv
<1> QED
  BY <1>1, <1>3, <1>4, <1>5 DEF SupplyInv

-----------------------------------------------------------------------------
(* The theorems.                                                           *)

LEMMA InitEstablishes ==
    ASSUME Init
    PROVE  SupplyInv
<1> PICK start \in Starts : StartFrom(start)
  BY DEF Init
<1>1. /\ ValidRequest(Fresh(start.items), TRUE)
      /\ headers = [r \in Requests |->
            IF r \in start.requests
            THEN [version |-> 2, site |-> start.siteOf[r], status |-> "new"] ELSE Null]
      /\ rows = [i \in StartIds(start) |-> StartLine(start.items, i)]
  BY DEF StartFrom
<1> PICK requests, items : requests = start.requests /\ items = start.items
  OBVIOUS
<1>2. /\ requests \subseteq Requests /\ start.siteOf \in [requests -> Sites]
      /\ items \in Seq(Bodies)
  BY RequestsAssumption
<1>3. \A r \in requests : headers[r] \in Headers /\ headers[r].status = "new"
  <2> TAKE r \in requests
  <2>1. headers[r] = [version |-> 2, site |-> start.siteOf[r], status |-> "new"]
    BY <1>1, <1>2
  <2> QED
    BY <1>2, <2>1 DEF Headers, Statuses
<1>4. \A r \in Requests \ requests : headers[r] = Null
  BY <1>1
<1>5. HeaderInv
  BY <1>1, <1>2, <1>3, <1>4 DEF HeaderInv
<1>6. Present = requests
  BY <1>2, <1>3, <1>4, RequestsAssumption DEF Present
<1>7. DOMAIN items = 1..Len(items) /\ Len(items) \in Nat /\ Len(items) >= 1
  <2>1. DOMAIN items = 1..Len(items) /\ Len(items) \in Nat
    BY <1>2, LenProperties
  <2>2. Fresh(items) = [n \in 1..Len(items) |-> [id |-> Null, body |-> items[n]]]
    BY <2>1 DEF Fresh
  <2>3. Fresh(items) \in Seq([id : {Null}, body : {items[n] : n \in 1..Len(items)}])
    BY <2>1, <2>2, IsASeq
  <2>4. Len(Fresh(items)) = Len(items)
    BY <2>1, <2>2, <2>3
  <2>5. Len(Fresh(items)) \in 1..MaxItems
    BY <1>1 DEF ValidRequest, ValidCount
  <2> QED
    BY <2>1, <2>4, <2>5, ItemsAssumption
<1>8. \A n \in DOMAIN items :
         items[n] = RequestColumns(items[n]) /\ items[n].supplier = Null
  <2> TAKE n \in DOMAIN items
  <2>1. items[n] \in Bodies
    BY <1>2, <1>7, ElementOfSeq
  <2>2. Fresh(items)[n].body = items[n] /\ n \in DOMAIN Fresh(items)
    BY DEF Fresh
  <2>3. items[n].supplier = Null
    BY <1>1, <2>2 DEF ValidRequest
  <2> QED
    BY <2>1, <2>3, RequestsAssumption
<1> DEFINE ids == {<<r, 1, n>> : r \in requests, n \in DOMAIN items}
<1>9. \A i \in ids : i[1] \in requests /\ i[3] \in DOMAIN items
  OBVIOUS
<1>10. \A r \in requests : <<r, 1, 1>> \in ids /\ <<r, 1, 1>>[1] = r
  BY <1>7
<1>11. rows = [i \in ids |-> StartLine(items, i)]
  BY <1>1 DEF StartIds
<1> HIDE DEF ids
<1>12. DOMAIN rows = ids /\ IsTable(rows)
  BY <1>11 DEF IsTable
<1>13. \A i \in ids : /\ IsRow(rows[i]) /\ rows[i].doc = i[1]
                      /\ rows[i].body.status = "new" /\ rows[i].body.supplier = Null
  <2> TAKE i \in ids
  <2> DEFINE body == items[i[3]]
             body2 == [body EXCEPT !.status = "new"]
  <2>1. body = RequestColumns(body) /\ body.supplier = Null
    BY <1>8, <1>9
  <2>2. rows[i] = [doc |-> i[1], line |-> i[3], body |-> body2]
    BY <1>11 DEF StartLine
  <2> HIDE DEF body
  <2>3. body2 = RequestColumns(body2) /\ body2.status = "new" /\ body2.supplier = Null
    BY <2>1, WithOtherStatus
  <2> HIDE DEF body2
  <2>4. rows[i].doc = i[1] /\ rows[i].line = i[3] /\ rows[i].body = body2
    BY <2>2
  <2> QED
    BY <2>2, <2>3, <2>4 DEF IsRow
<1>14. RowsInv
  BY <1>6, <1>9, <1>12, <1>13 DEF RowsInv
<1>15. \A r \in Present : RowsOf(rows, r) # {}
  BY <1>6, <1>10, <1>12, <1>13 DEF RowsOf
<1>16. chosen = {} /\ \A i : Assigned({i}) = {}
  BY DEF Init, Assigned
<1>17. StatusesAgree
  BY <1>3, <1>6, <1>12, <1>13, <1>15, <1>16 DEF StatusesAgree, RowsOf
<1>18. TablesInv
  BY <1>5, <1>14, <1>16, <1>17 DEF TablesInv, ChosenInv
<1>19. \A c \in Editors : seen[c] = Null
  BY DEF Init
<1>20. CopiesInv
  BY <1>19 DEF Init, CopiesInv, NotLater, Faithful
<1>21. CatalogueInv
  <2>1. activeSites = Sites /\ activeSuppliers = Suppliers /\ userTx = Null
    BY DEF Init
  <2>2. assigned = [c \in Users |-> Sites]
    BY DEF Init
  <2>3. assigned \in [Users -> SUBSET Sites]
    BY <2>2
  <2> QED
    BY <2>1, <2>3 DEF CatalogueInv
<1>22. \A c \in SupplyManagers : txs[c] = Null
  BY DEF Init
<1>23. /\ txs = [c \in SupplyManagers |-> txs[c]]
       /\ ApartInv /\ \A c \in SupplyManagers : TxInv(c)
  BY <1>22 DEF Init, ApartInv, TxInv
<1> QED
  BY <1>18, <1>20, <1>21, <1>23 DEF SupplyInv

LEMMA StepPreserves ==
    ASSUME SupplyInv, [Next]_vars
    PROVE  SupplyInv'
<1>1. CASE \E c \in Editors : EditorNext(c)
  BY <1>1, EditorPreserves
<1>2. ASSUME NEW c \in SupplyManagers, Refuse(c) \/ Abandon(c)
      PROVE  SupplyInv'
  BY <1>2, EndPreserves DEF Refuse, Abandon
<1>3. CASE \E c \in SupplyManagers : Begin(c) \/ Assign(c) \/ Abandon(c)
  BY <1>2, <1>3, BeginPreserves, LockRequestPreserves, LockAssignmentsPreserves,
     LockItemsPreserves, LockSuppliersPreserves, InsertPreserves DEF Assign
<1>4. CASE BeginUserUpdate \/ SyncUserSites \/ BreakDeadlock
  BY <1>4, BeginUserUpdatePreserves, SyncPreserves, BreakDeadlockPreserves
<1>5. CASE EditCatalogue
  BY <1>5, CataloguePreserves
<1>6. CASE UNCHANGED vars
  <2>1. userTx # Null => userTx.user \in Users /\ userTx.sites \subseteq Sites
    BY DEF SupplyInv, CatalogueInv
  <2> QED
    BY <1>6, <2>1, UserTxPreserves DEF vars, catalogue
<1> QED
  BY <1>1, <1>3, <1>4, <1>5, <1>6 DEF Next

LEMMA Invariance == Spec => []SupplyInv
BY InitEstablishes, StepPreserves, PTL DEF Spec

\* Whatever touches requests, lines or assignments is the work of an editor
\* or the insertion of an assignment.
LEMMA WhoChanges ==
    ASSUME SupplyInv, [Next]_vars
    PROVE  \/ \E c \in Editors : \E r : EditedBy(c, r)
           \/ \E c \in SupplyManagers : Insert(c)
           \/ UNCHANGED <<headers, rows, chosen>>
<1>1. TablesInv /\ CopiesInv
  BY DEF SupplyInv
<1>2. ASSUME NEW c \in Editors, EditorNext(c)
      PROVE  (\E r : EditedBy(c, r)) \/ UNCHANGED <<headers, rows, chosen>>
  BY <1>1, <1>2, CreateEdits, UpdateEdits, SubmitEdits, DeleteEdits, OpenShows DEF EditorNext
<1>3. ASSUME NEW c \in SupplyManagers, Begin(c) \/ Assign(c) \/ Abandon(c)
      PROVE  Insert(c) \/ UNCHANGED <<headers, rows, chosen>>
  BY <1>3 DEF Begin, Assign, Abandon, LockRequest, LockAssignments, LockItems, LockSuppliers,
              Advance, Refuse
<1>4. CASE BeginUserUpdate \/ SyncUserSites \/ BreakDeadlock \/ EditCatalogue
  BY <1>4 DEF BeginUserUpdate, SyncUserSites, BreakDeadlock, EditCatalogue
<1>5. CASE UNCHANGED vars
  BY <1>5 DEF vars
<1> QED
  BY <1>2, <1>3, <1>4, <1>5 DEF Next

\* Requests, lines, assignments and what they rely on are well formed.
THEOREM TypeInvariant == Spec => []TypeOK
<1>1. SupplyInv => TypeOK
  <2> SUFFICES ASSUME SupplyInv
               PROVE  TypeOK
    OBVIOUS
  <2>1. headers \in [Requests -> {Null, Gone} \cup Headers]
    BY DEF SupplyInv, TablesInv, HeaderInv
  <2>2. ASSUME NEW i \in DOMAIN rows
        PROVE  rows[i].doc \in Present /\ rows[i].body.status \in Statuses
    <3> PICK r : r = rows[i].doc
      OBVIOUS
    <3>1. r \in Present /\ i \in RowsOf(rows, r)
      BY DEF SupplyInv, TablesInv, RowsInv, RowsOf
    <3>2. Agrees(r) /\ headers[r].status \in Statuses
      BY <3>1, AgreeOneByOne, PresentHeaders DEF SupplyInv, TablesInv
    <3> QED
      BY <3>1, <3>2 DEF Agrees
  <2>3. DOMAIN txs = SupplyManagers
    BY DEF SupplyInv
  <2>4. \A c \in Assigning : txs[c].locked \subseteq Named(txs[c])
    BY DEF SupplyInv, TxInv, IsTx, Assigning
  <2> QED
    BY <2>1, <2>2, <2>3, <2>4 DEF TypeOK, SupplyInv, CatalogueInv
<1> QED
  BY <1>1, Invariance, PTL

\* A request, its lines and the assignments that name them agree on how far
\* it has come.
THEOREM StatusesStayInStep == Spec => []StatusesAgree
<1>1. SupplyInv => StatusesAgree
  BY DEF SupplyInv, TablesInv
<1> QED
  BY <1>1, Invariance, PTL

\* What a step leaves of a submitted request.
Stands(r) ==
    /\ r \in Present' /\ headers'[r].site = headers[r].site
    /\ RowsOf(rows', r) = RowsOf(rows, r)
    /\ \/ headers'[r] = headers[r] /\ Lines(rows', r) = Lines(rows, r)
       \/ /\ headers[r].status = "new" /\ headers'[r].status = "supplier_assigned"
          /\ \A i \in RowsOf(rows, r) : Unsupplied(rows'[i]) = rows[i]

\* A submitted request keeps its site and its lines, and is only ever
\* supplied.
THEOREM SubmissionsStand == Spec => SubmittedStands
<1> DEFINE Kept == \A r \in Present : headers[r].status # "draft" => Stands(r)
<1>1. SupplyInv /\ [Next]_vars => [Kept]_vars
  <2> SUFFICES ASSUME SupplyInv, [Next]_vars,
                      NEW r \in Present, headers[r].status # "draft"
               PROVE  Stands(r)
    OBVIOUS
  <2>1. r \in Requests
    BY DEF Present
  <2>2. CASE headers'[r] = headers[r] /\ SameLines(r)
    BY <2>1, <2>2, SameLinesListed DEF Stands, SameLines, Present
  <2>3. ASSUME NEW c \in Editors, NEW e, EditedBy(c, e)
        PROVE  headers'[r] = headers[r] /\ SameLines(r)
    <3>1. r # e
      BY <2>3 DEF EditedBy, RequestStep, Editable, Present
    <3> QED
      BY <2>1, <2>3, <3>1 DEF EditedBy, RequestStep
  <2>4. ASSUME NEW c \in SupplyManagers, Insert(c)
        PROVE  Stands(r)
    <3> PICK suppliers, locked : suppliers = txs[c].suppliers /\ locked = txs[c].locked
      OBVIOUS
    <3>1. InsertStep(c, suppliers, locked) /\ TablesInv
      BY <2>4, InsertSteps DEF SupplyInv
    <3>2. /\ Present' = Present
          /\ \A e \in Requests : RowsOf(rows', e) = RowsOf(rows, e)
          /\ \A e \in Requests \ locked : SameLines(e)
          /\ \A i \in DOMAIN suppliers : Unsupplied(rows'[i]) = rows[i]
          /\ \A e \in locked : /\ headers'[e].status = "supplier_assigned"
                               /\ headers'[e].site = headers[e].site
      BY <3>1, InsertEffect
    <3>3. CASE r \in locked
      <4>1. headers[r].status = "new" /\ \A i \in RowsOf(rows, r) : i \in DOMAIN suppliers
        BY <3>1, <3>3 DEF InsertStep, LinesOf
      <4> QED
        BY <2>1, <3>2, <3>3, <4>1 DEF Stands
    <3>4. CASE r \notin locked
      BY <2>1, <2>2, <3>1, <3>2, <3>4 DEF InsertStep
    <3> QED
      BY <3>3, <3>4
  <2>5. CASE UNCHANGED <<headers, rows, chosen>>
    BY <2>2, <2>5 DEF SameLines
  <2> QED
    BY <2>2, <2>3, <2>4, <2>5, WhoChanges
<1>2. Spec => [][Kept]_vars
  BY <1>1, Invariance, PTL DEF Spec
<1> QED
  BY <1>2 DEF SubmittedStands, Stands, Unsupplied

\* Nobody submits or rewrites what he has not seen.
THEOREM SubmissionsAsSeen == Spec => SubmittedAsSeen
<1> DEFINE Kept == \A c \in Editors, r \in Present :
                      /\ r \in Present' /\ headers'[r] # headers[r]
                      /\ seen'[c] # seen[c] /\ seen'[c] = FetchRequest(headers, rows, r)'
                      => seen[c] = FetchRequest(headers, rows, r)
<1>1. SupplyInv /\ [Next]_vars => [Kept]_vars
  <2> SUFFICES ASSUME SupplyInv, [Next]_vars, NEW c \in Editors, NEW r \in Present,
                      r \in Present', headers'[r] # headers[r], seen'[c] # seen[c]
               PROVE  seen[c] = FetchRequest(headers, rows, r)
    OBVIOUS
  <2>1. r \in Requests
    BY DEF Present
  <2>2. ASSUME NEW d \in Editors, NEW e, EditedBy(d, e)
        PROVE  seen[c] = FetchRequest(headers, rows, r)
    <3>1. r = e
      BY <2>1, <2>2 DEF EditedBy, RequestStep
    <3>2. d = c
      BY <2>2 DEF EditedBy, Shown, SupplyInv, CopiesInv
    <3> QED
      BY <2>2, <3>1, <3>2 DEF EditedBy
  <2>3. ASSUME NEW d \in SupplyManagers
        PROVE  ~Insert(d)
    BY DEF Insert
  <2> QED
    BY <2>2, <2>3, WhoChanges
<1>2. Spec => [][Kept]_vars
  BY <1>1, Invariance, PTL DEF Spec
<1> QED
  BY <1>2 DEF SubmittedAsSeen

\* A new assignment relies on what is in force at its commit.
InForce(line) ==
    LET site == headers[rows[line.item].doc].site IN
    /\ line.supplier \in activeSuppliers
    /\ site \in activeSites
    /\ line.by \in Admins \/ site \in assigned[line.by]

\* What the statements of an assignment have read still holds when it is
\* committed.
THEOREM AssignmentsInForce == Spec => AssignedInForce
<1> DEFINE Kept == \A line \in chosen' \ chosen : InForce(line)
<1>1. SupplyInv /\ [Next]_vars => [Kept]_vars
  <2> SUFFICES ASSUME SupplyInv, [Next]_vars, NEW line \in chosen' \ chosen
               PROVE  InForce(line)
    OBVIOUS
  <2>1. PICK c \in SupplyManagers : Insert(c)
    BY WhoChanges DEF EditedBy, RequestStep
  <2> PICK suppliers, locked : suppliers = txs[c].suppliers /\ locked = txs[c].locked
    OBVIOUS
  <2>2. InsertStep(c, suppliers, locked)
    BY <2>1, InsertSteps
  <2>3. PICK i \in DOMAIN suppliers : line = [item |-> i, supplier |-> suppliers[i], by |-> c]
    BY <2>2 DEF InsertStep
  <2>4. line.item = i /\ line.supplier = suppliers[i] /\ line.by = c
    BY <2>3
  <2>5. rows[i].doc \in locked
    BY <2>2 DEF InsertStep, LinesOf, RowsOf
  <2>6. StillHolds(c) /\ txs[c].step = "insert"
    BY <2>1 DEF Insert, AtStep, SupplyInv, TxInv
  <2>7. /\ suppliers[i] \in activeSuppliers
        /\ \A r \in locked : headers[r].site \in activeSites
        /\ c \in Admins \/ \A r \in locked : headers[r].site \in assigned[c]
    BY <2>6 DEF StillHolds
  <2> QED
    BY <2>4, <2>5, <2>7 DEF InForce
<1>2. Spec => [][Kept]_vars
  BY <1>1, Invariance, PTL DEF Spec
<1> QED
  BY <1>2 DEF AssignedInForce, InForce
==============================================================================
