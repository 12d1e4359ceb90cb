------------------------ MODULE MaterialDocumentsProofs ------------------------
(***************************************************************************)
(* Theorems about MaterialDocuments, for any clerks, managers, documents,  *)
(* submissions and bounds.                                                 *)
(***************************************************************************)
EXTENDS MaterialDocuments, SequenceTheorems, TLAPS

-----------------------------------------------------------------------------
(* Tables of lines.                                                        *)

\* An entry of a list of length n is one of 1..n; what ValidCount and the
\* shape of a submission say together.
ItemList(items) == Len(items) \in Nat /\ DOMAIN items = 1..Len(items)

\* The rows a rewriting writes, and the entry that is written to a row.
RowIds(d, version, items) == {RowId(d, version, items, n) : n \in DOMAIN items}
EntryFor(d, version, items, i) == CHOOSE n \in DOMAIN items : RowId(d, version, items, n) = i

\* A rewriting keeps the rows of other documents and writes one for each entry.
LEMMA RewrittenRows ==
    ASSUME NEW table, NEW d \in Documents, NEW version, NEW items
    PROVE  DOMAIN Sync(table, d, version, items)
              = KeptRows(table, d) \cup RowIds(d, version, items)
<1>1. KindOf(d) \in Kinds
  BY DocumentsAssumption DEF KindOf
<1>2. CASE KindOf(d) = "receipt"
  BY <1>2 DEF Sync, SyncReceiptItems, Saved, RowIds
<1>3. CASE KindOf(d) = "consumption"
  BY <1>3 DEF Sync, SyncConsumptionItems, Saved, RowIds
<1>4. CASE KindOf(d) = "transfer"
  BY <1>4 DEF Sync, SyncTransferItems, Saved, RowIds
<1> QED
  BY <1>1, <1>2, <1>3, <1>4 DEF Kinds

\* What it keeps, it keeps as it is.
LEMMA KeptByRewriting ==
    ASSUME NEW table, NEW d \in Documents, NEW version, NEW items
    PROVE  \A i \in KeptRows(table, d) : Sync(table, d, version, items)[i] = table[i]
<1>1. KindOf(d) \in Kinds
  BY DocumentsAssumption DEF KindOf
<1>2. CASE KindOf(d) = "receipt"
  BY <1>2 DEF Sync, SyncReceiptItems, Saved, RowIds
<1>3. CASE KindOf(d) = "consumption"
  BY <1>3 DEF Sync, SyncConsumptionItems, Saved, RowIds
<1>4. CASE KindOf(d) = "transfer"
  BY <1>4 DEF Sync, SyncTransferItems, Saved, RowIds
<1> QED
  BY <1>1, <1>2, <1>3, <1>4 DEF Kinds

\* What it writes belongs to the document.
LEMMA WrittenDoc ==
    ASSUME NEW table, NEW d \in Documents, NEW version, NEW items
    PROVE  \A i \in RowIds(d, version, items) \ KeptRows(table, d) :
              Sync(table, d, version, items)[i].doc = d
<1>1. KindOf(d) \in Kinds
  BY DocumentsAssumption DEF KindOf
<1>2. CASE KindOf(d) = "receipt"
  BY <1>2 DEF Sync, SyncReceiptItems, Saved, RowIds
<1>3. CASE KindOf(d) = "consumption"
  BY <1>3 DEF Sync, SyncConsumptionItems, Saved, RowIds
<1>4. CASE KindOf(d) = "transfer"
  BY <1>4 DEF Sync, SyncTransferItems, Saved, RowIds
<1> QED
  BY <1>1, <1>2, <1>3, <1>4 DEF Kinds

\* What it writes has the place of its entry.
LEMMA WrittenLine ==
    ASSUME NEW table, NEW d \in Documents, NEW version, NEW items
    PROVE  \A i \in RowIds(d, version, items) \ KeptRows(table, d) :
              Sync(table, d, version, items)[i].line = EntryFor(d, version, items, i)
<1>1. KindOf(d) \in Kinds
  BY DocumentsAssumption DEF KindOf
<1>2. CASE KindOf(d) = "receipt"
  BY <1>2 DEF Sync, SyncReceiptItems, Saved, RowIds, EntryFor
<1>3. CASE KindOf(d) = "consumption"
  BY <1>3 DEF Sync, SyncConsumptionItems, Saved, RowIds, EntryFor
<1>4. CASE KindOf(d) = "transfer"
  BY <1>4 DEF Sync, SyncTransferItems, Saved, RowIds, EntryFor
<1> QED
  BY <1>1, <1>2, <1>3, <1>4 DEF Kinds

\* The lines of the other documents are left alone by a rewriting.
LEMMA RewritingKeepsOthers ==
    ASSUME NEW table, NEW d \in Documents, NEW e \in Documents, e # d,
           NEW version, NEW items
    PROVE  Lines(Sync(table, d, version, items), e) = Lines(table, e)
<1> DEFINE ids == RowIds(d, version, items)
           table2 == Sync(table, d, version, items)
<1>1. /\ DOMAIN table2 = KeptRows(table, d) \cup ids
      /\ \A i \in KeptRows(table, d) : table2[i] = table[i]
      /\ \A i \in ids \ KeptRows(table, d) : table2[i].doc = d
  <2>1. DOMAIN table2 = KeptRows(table, d) \cup ids
    BY RewrittenRows
  <2>2. \A i \in KeptRows(table, d) : table2[i] = table[i]
    BY KeptByRewriting
  <2>3. \A i \in ids \ KeptRows(table, d) : table2[i].doc = d
    BY WrittenDoc
  <2> QED
    BY <2>1, <2>2, <2>3
<1> HIDE DEF table2, ids
<1>2. RowsOf(table2, e) = RowsOf(table, e)
  BY <1>1 DEF RowsOf, KeptRows
<1>3. \A i \in RowsOf(table, e) : table2[i] = table[i]
  BY <1>1 DEF RowsOf, KeptRows
<1>4. Lines(table2, e) = Lines(table, e)
  BY <1>2, <1>3 DEF Lines
<1> QED
  BY <1>4 DEF table2

\* So are they by a deletion.
LEMMA DeletionKeepsOthers ==
    ASSUME NEW table, NEW d, NEW e, e # d
    PROVE  Lines(WithoutRows(table, d), e) = Lines(table, e)
<1>1. RowsOf(WithoutRows(table, d), e) = RowsOf(table, e)
  BY DEF RowsOf, WithoutRows
<1>2. \A i \in RowsOf(table, e) : WithoutRows(table, d)[i] = table[i]
  BY DEF RowsOf, WithoutRows
<1> QED
  BY <1>1, <1>2 DEF Lines

\* Whether each row is named after the document it belongs to, a version of
\* it that is not later than the one given, and a place.
NamedRows(table, d, version) ==
    \A i \in DOMAIN table : table[i].doc = d =>
       \E v \in 1..version, n \in Nat : i = <<d, v, n>>

\* A rewriting whose list is valid and saveable numbers the lines by their
\* places in the list, because two entries never name one row.
LEMMA RewritingNumbers ==
    ASSUME NEW table, NEW d \in Documents, NEW version \in Nat \ {0}, NEW items,
           ItemList(items), ValidCount(items), Saveable(table, d, items),
           NamedRows(table, d, version - 1),
           \A i \in DOMAIN table : table[i].doc \in Documents /\ \E v, n : i = <<table[i].doc, v, n>>
    PROVE  LET table2 == Sync(table, d, version, items) IN
           /\ NamedRows(table2, d, version)
           /\ {table2[i].line : i \in RowsOf(table2, d)} = 1..Len(items)
           /\ \A i, j \in RowsOf(table2, d) : table2[i].line = table2[j].line => i = j
<1> DEFINE id(n) == RowId(d, version, items, n)
           ids == RowIds(d, version, items)
           table2 == Sync(table, d, version, items)
           entry(i) == EntryFor(d, version, items, i)
<1>1. /\ DOMAIN table2 = KeptRows(table, d) \cup ids
      /\ \A i \in KeptRows(table, d) : table2[i] = table[i]
      /\ \A i \in ids \ KeptRows(table, d) : table2[i].doc = d /\ table2[i].line = entry(i)
  <2>1. DOMAIN table2 = KeptRows(table, d) \cup ids
    BY RewrittenRows
  <2>2. \A i \in KeptRows(table, d) : table2[i] = table[i]
    BY KeptByRewriting
  <2>3. \A i \in ids \ KeptRows(table, d) : table2[i].doc = d
    BY WrittenDoc
  <2>4. \A i \in ids \ KeptRows(table, d) : table2[i].line = entry(i)
    BY WrittenLine
  <2> QED
    BY <2>1, <2>2, <2>3, <2>4
<1> HIDE DEF table2
<1>2. /\ \A n \in DOMAIN items : id(n) \in ids
      /\ \A i \in ids : \E n \in DOMAIN items : i = id(n)
  BY DEF RowIds
<1>3. \A n \in DOMAIN items :
         \/ items[n].id = Null /\ id(n) = <<d, version, n>>
         \/ items[n].id # Null /\ id(n) = items[n].id /\ id(n) \in RowsOf(table, d)
  BY DEF Saveable, RowId
<1>4. \A i \in RowsOf(table, d) : \E v \in 1..(version - 1), n \in Nat : i = <<d, v, n>>
  BY DEF NamedRows, RowsOf
<1>5. \A n \in DOMAIN items : <<d, version, n>> \notin DOMAIN table
  <2> SUFFICES ASSUME NEW n \in DOMAIN items, <<d, version, n>> \in DOMAIN table
               PROVE  FALSE
    OBVIOUS
  <2>1. table[<<d, version, n>>].doc = d
    OBVIOUS
  <2>2. PICK v \in 1..(version - 1), m \in Nat : <<d, version, n>> = <<d, v, m>>
    BY <2>1 DEF NamedRows
  <2> QED
    BY <2>2
<1>6. ids \cap KeptRows(table, d) = {}
  BY <1>3, <1>5, <1>2 DEF KeptRows
<1>7. \A n, k \in DOMAIN items : id(n) = id(k) => n = k
  <2> SUFFICES ASSUME NEW n \in DOMAIN items, NEW k \in DOMAIN items, id(n) = id(k), k < n
               PROVE  FALSE
    BY DEF ItemList
  <2>1. CASE items[n].id = Null /\ items[k].id = Null
    <3>1. <<d, version, n>> = <<d, version, k>>
      BY <1>3, <2>1
    <3>2. <<d, version, n>>[3] = n /\ <<d, version, k>>[3] = k
      OBVIOUS
    <3>3. n = k
      BY <3>1, <3>2
    <3>4. n \in Int /\ k \in Int
      BY DEF ItemList
    <3> QED
      BY <3>3, <3>4
  <2>2. CASE items[n].id = Null /\ items[k].id # Null
    BY <1>3, <1>5, <2>2 DEF RowsOf
  <2>3. CASE items[n].id # Null /\ items[k].id = Null
    BY <1>3, <1>5, <2>3 DEF RowsOf
  <2>4. CASE items[n].id # Null /\ items[k].id # Null
    <3>1. k \in 1..(n - 1)
      BY DEF ItemList
    <3>2. items[k].id # items[n].id
      BY <2>4, <3>1 DEF Saveable
    <3> QED
      BY <1>3, <2>4, <3>2
  <2> QED
    BY <2>1, <2>2, <2>3, <2>4
<1>8. \A n \in DOMAIN items : entry(id(n)) = n
  <2> TAKE n \in DOMAIN items
  <2>1. entry(id(n)) \in DOMAIN items /\ id(entry(id(n))) = id(n)
    BY DEF EntryFor
  <2> QED
    BY <1>7, <2>1
<1>9. RowsOf(table2, d) = ids
  BY <1>1, <1>6 DEF RowsOf, KeptRows
<1> HIDE DEF entry
<1>10. \A n \in DOMAIN items : id(n) \in RowsOf(table2, d) /\ table2[id(n)].line = n
  BY <1>1, <1>6, <1>8, <1>9, <1>2
<1>11. \A i \in RowsOf(table2, d) : \E n \in DOMAIN items : i = id(n)
  BY <1>9, <1>2
<1> HIDE DEF id, ids
<1>12. {table2[i].line : i \in RowsOf(table2, d)} = 1..Len(items)
  BY <1>10, <1>11 DEF ItemList
<1>13. \A i, j \in RowsOf(table2, d) : table2[i].line = table2[j].line => i = j
  BY <1>10, <1>11
<1>14. NamedRows(table2, d, version)
  <2> SUFFICES ASSUME NEW i \in DOMAIN table2, table2[i].doc = d
               PROVE  \E v \in 1..version, m \in Nat : i = <<d, v, m>>
    BY DEF NamedRows
  <2>1. i \in RowsOf(table2, d)
    BY DEF RowsOf
  <2>2. PICK n \in DOMAIN items : i = id(n)
    BY <1>11, <2>1
  <2>3. n \in Nat
    BY DEF ItemList
  <2>4. CASE id(n) = <<d, version, n>>
    BY <2>2, <2>3, <2>4
  <2>5. CASE id(n) \in RowsOf(table, d)
    BY <1>4, <2>2, <2>5
  <2> QED
    BY <1>3, <2>4, <2>5
<1> QED
  BY <1>12, <1>13, <1>14 DEF table2

-----------------------------------------------------------------------------
(* Headers and lines.                                                      *)

HeaderInv == docs \in [Documents -> {Null, Gone} \cup Headers]

\* Every line belongs to a stored document and is named after a version of it
\* that has been.
RowsInv ==
    \A i \in DOMAIN rows :
       LET d == rows[i].doc IN
       /\ d \in Present
       /\ rows[i].line \in Nat \ {0}
       /\ \E v \in 1..docs[d].version, n \in Nat : i = <<d, v, n>>

\* What the insertion of a document and its replacement have in common.
StoreStep(d, version, head, items) ==
    /\ d \in Documents /\ head \in Heads
    /\ ItemList(items) /\ ValidCount(items)
    /\ Store(d, version, head, items)
    /\ \/ docs[d] = Null /\ version = 1
       \/ d \in Present /\ version = docs[d].version + 1 /\ docs[d].version < MaxVersion

\* A header that is present is a header.
LEMMA PresentHeaders ==
    ASSUME HeaderInv, NEW d \in Present
    PROVE  /\ d \in Documents
           /\ docs[d] \in Headers
           /\ docs[d].version \in 1..MaxVersion
<1>1. d \in Documents /\ docs[d] \in Headers
  BY DEF Present, HeaderInv
<1> QED
  BY <1>1 DEF Headers

\* What a document looks like after it has been stored.
LEMMA StoredHeader ==
    ASSUME HeaderInv, NEW d, NEW version, NEW head, NEW items,
           StoreStep(d, version, head, items)
    PROVE  /\ version \in 1..MaxVersion
           /\ docs'[d] \in Headers /\ docs'[d].version = version
           /\ docs' = [docs EXCEPT ![d] = Header(d, version, head)]
           /\ Present' = Present \cup {d}
           /\ \A e \in Documents \ {d} : docs'[e] = docs[e]
           /\ HeaderInv'
<1>1. version \in 1..MaxVersion
  BY PresentHeaders, DocumentsAssumption DEF StoreStep
<1>2. Header(d, version, head) \in Headers
  <2>1. (IF KindOf(d) = "transfer" THEN head.to ELSE Null) \in Sites \cup {Null}
    BY DocumentsAssumption DEF StoreStep
  <2>2. head.site \in Sites \cup {Null}
    BY DocumentsAssumption DEF StoreStep
  <2> QED
    BY <1>1, <2>1, <2>2 DEF Header, Headers
<1>3. docs' = [docs EXCEPT ![d] = Header(d, version, head)]
  BY DEF StoreStep, Store
<1>4. /\ docs'[d] = Header(d, version, head)
      /\ \A e \in Documents \ {d} : docs'[e] = docs[e]
  BY <1>3 DEF HeaderInv, StoreStep
<1>5. docs'[d].version = version
  BY <1>4 DEF Header
<1>6. HeaderInv'
  BY <1>2, <1>3 DEF HeaderInv, StoreStep
<1>7. docs'[d] \notin {Null, Gone}
  BY <1>2, <1>4, DocumentsAssumption
<1>8. Present' = Present \cup {d}
  BY <1>4, <1>7 DEF Present, StoreStep
<1> QED
  BY <1>1, <1>2, <1>3, <1>4, <1>5, <1>6, <1>8

\* A table in the shape of RowsInv.
LEMMA RowsNamed ==
    ASSUME HeaderInv, RowsInv, NEW d \in Documents, NEW version,
           \/ docs[d] = Null /\ version = 1
           \/ d \in Present /\ version = docs[d].version + 1
    PROVE  /\ version \in Nat \ {0}
           /\ NamedRows(rows, d, version - 1)
           /\ \A i \in DOMAIN rows :
                 rows[i].doc \in Documents /\ \E v, n : i = <<rows[i].doc, v, n>>
<1>1. \A i \in DOMAIN rows :
         rows[i].doc \in Documents /\ \E v, n : i = <<rows[i].doc, v, n>>
  BY DEF RowsInv, Present
<1>2. CASE docs[d] = Null /\ version = 1
  <2>1. \A i \in DOMAIN rows : rows[i].doc # d
    BY <1>2 DEF RowsInv, Present
  <2> QED
    BY <1>1, <1>2, <2>1 DEF NamedRows
<1>3. CASE d \in Present /\ version = docs[d].version + 1
  <2>1. docs[d].version \in Nat
    BY <1>3, PresentHeaders
  <2>2. version \in Nat \ {0} /\ version - 1 = docs[d].version
    BY <1>3, <2>1
  <2>3. NamedRows(rows, d, docs[d].version)
    BY DEF NamedRows, RowsInv
  <2> QED
    BY <1>1, <2>2, <2>3
<1> QED
  BY <1>2, <1>3

\* Lines of other documents, row by row.
LEMMA OtherRows ==
    ASSUME NEW table, NEW table2, NEW e, Lines(table2, e) = Lines(table, e)
    PROVE  /\ RowsOf(table2, e) = RowsOf(table, e)
           /\ \A i \in RowsOf(table2, e) : table2[i] = table[i]
<1>1. DOMAIN Lines(table2, e) = RowsOf(table2, e) /\ DOMAIN Lines(table, e) = RowsOf(table, e)
  BY DEF Lines
<1>2. RowsOf(table2, e) = RowsOf(table, e)
  BY <1>1
<1>3. \A i \in RowsOf(table2, e) :
         Lines(table2, e)[i] = table2[i] /\ Lines(table, e)[i] = table[i]
  BY <1>2 DEF Lines
<1> QED
  BY <1>2, <1>3

\* Every row of the new table has the document whose rows it is one of.
LEMMA RewrittenDocs ==
    ASSUME NEW table, NEW d \in Documents, NEW version, NEW items,
           \A i \in DOMAIN table : table[i].doc \in Documents
    PROVE  \A i \in DOMAIN Sync(table, d, version, items) :
              Sync(table, d, version, items)[i].doc \in Documents
<1> DEFINE table2 == Sync(table, d, version, items)
<1> DEFINE ids == RowIds(d, version, items)
<1>1. /\ DOMAIN table2 = KeptRows(table, d) \cup ids
      /\ \A i \in KeptRows(table, d) : table2[i] = table[i]
      /\ \A i \in ids \ KeptRows(table, d) : table2[i].doc = d
  <2>1. DOMAIN table2 = KeptRows(table, d) \cup ids
    BY RewrittenRows
  <2>2. \A i \in KeptRows(table, d) : table2[i] = table[i]
    BY KeptByRewriting
  <2>3. \A i \in ids \ KeptRows(table, d) : table2[i].doc = d
    BY WrittenDoc
  <2> QED
    BY <2>1, <2>2, <2>3
<1> HIDE DEF table2, ids
<1>2. \A i \in DOMAIN table2 : table2[i].doc \in Documents
  BY <1>1 DEF KeptRows
<1> QED
  BY <1>2 DEF table2

LEMMA StorePreservesRows ==
    ASSUME HeaderInv, RowsInv, LinesNumbered, NEW d, NEW version, NEW head, NEW items,
           StoreStep(d, version, head, items)
    PROVE  RowsInv' /\ LinesNumbered'
<1>1. d \in Documents /\ ItemList(items) /\ ValidCount(items) /\ Saveable(rows, d, items)
  BY DEF StoreStep, Store
<1>2. rows' = Sync(rows, d, version, items)
  BY DEF StoreStep, Store
<1>3. \/ docs[d] = Null /\ version = 1
      \/ d \in Present /\ version = docs[d].version + 1
  BY DEF StoreStep
<1>4. /\ version \in Nat \ {0}
      /\ NamedRows(rows, d, version - 1)
      /\ \A i \in DOMAIN rows :
            rows[i].doc \in Documents /\ \E v, n : i = <<rows[i].doc, v, n>>
  BY <1>1, <1>3, RowsNamed
<1>5. /\ NamedRows(rows', d, version)
      /\ {rows'[i].line : i \in RowsOf(rows', d)} = 1..Len(items)
      /\ \A i, j \in RowsOf(rows', d) : rows'[i].line = rows'[j].line => i = j
  BY <1>1, <1>2, <1>4, RewritingNumbers
<1>6. /\ docs'[d].version = version
      /\ Present' = Present \cup {d}
      /\ \A e \in Documents \ {d} : docs'[e] = docs[e]
  BY StoredHeader
<1>7. \A e \in Documents \ {d} : Lines(rows', e) = Lines(rows, e)
  BY <1>1, <1>2, RewritingKeepsOthers
<1>8. \A i \in DOMAIN rows' : rows'[i].doc \in Documents
  BY <1>1, <1>2, <1>4, RewrittenDocs
<1>9. \A e \in Documents \ {d} :
         /\ RowsOf(rows', e) = RowsOf(rows, e)
         /\ \A i \in RowsOf(rows', e) : rows'[i] = rows[i]
  BY <1>7, OtherRows
<1>10. RowsInv'
  <2> SUFFICES ASSUME NEW i \in DOMAIN rows'
               PROVE  /\ rows'[i].doc \in Present'
                      /\ rows'[i].line \in Nat \ {0}
                      /\ \E v \in 1..docs'[rows'[i].doc].version, n \in Nat :
                            i = <<rows'[i].doc, v, n>>
    BY DEF RowsInv
  <2>1. i \in RowsOf(rows', rows'[i].doc)
    BY DEF RowsOf
  <2>2. CASE rows'[i].doc = d
    <3>1. rows'[i].line \in 1..Len(items)
      BY <1>5, <2>1, <2>2
    <3>2. rows'[i].line \in Nat \ {0}
      BY <1>1, <3>1 DEF ItemList
    <3> QED
      BY <1>5, <1>6, <2>2, <3>2 DEF NamedRows
  <2>3. CASE rows'[i].doc # d
    <3>1. rows'[i].doc \in Documents \ {d}
      BY <1>8, <2>3
    <3>2. i \in DOMAIN rows /\ rows'[i] = rows[i]
      BY <1>9, <2>1, <3>1 DEF RowsOf
    <3>3. docs'[rows'[i].doc] = docs[rows'[i].doc]
      BY <1>6, <3>1
    <3> QED
      BY <1>6, <3>2, <3>3 DEF RowsInv
  <2> QED
    BY <2>2, <2>3
<1>11. LinesNumbered'
  <2> SUFFICES ASSUME NEW e \in Present'
               PROVE  \E n \in 1..MaxItems :
                         /\ {rows'[i].line : i \in RowsOf(rows', e)} = 1..n
                         /\ \A i, j \in RowsOf(rows', e) : rows'[i].line = rows'[j].line => i = j
    BY DEF LinesNumbered
  <2>1. CASE e = d
    BY <1>1, <1>5, <2>1 DEF ValidCount
  <2>2. CASE e # d
    <3>1. e \in Present /\ e \in Documents \ {d}
      BY <1>6, <2>2 DEF Present
    <3>2. PICK n \in 1..MaxItems :
             /\ {rows[i].line : i \in RowsOf(rows, e)} = 1..n
             /\ \A i, j \in RowsOf(rows, e) : rows[i].line = rows[j].line => i = j
      BY <3>1 DEF LinesNumbered
    <3>3. {rows'[i].line : i \in RowsOf(rows', e)} = {rows[i].line : i \in RowsOf(rows, e)}
      BY <1>9, <3>1
    <3>4. \A i, j \in RowsOf(rows', e) : rows'[i].line = rows'[j].line => i = j
      BY <1>9, <3>1, <3>2
    <3> QED
      BY <3>2, <3>3, <3>4
  <2> QED
    BY <2>1, <2>2
<1> QED
  BY <1>10, <1>11

LEMMA RemovePreservesRows ==
    ASSUME HeaderInv, RowsInv, LinesNumbered, NEW d, Remove(d)
    PROVE  /\ HeaderInv' /\ RowsInv' /\ LinesNumbered'
           /\ docs'[d] = Gone
           /\ \A e \in Documents \ {d} : docs'[e] = docs[e] /\ Lines(rows', e) = Lines(rows, e)
           /\ Present' = Present \ {d}
<1>1. /\ d \in Documents
      /\ docs' = [docs EXCEPT ![d] = Gone]
      /\ rows' = WithoutRows(rows, d)
  BY DEF Remove, Present
<1>2. HeaderInv'
  BY <1>1 DEF HeaderInv
<1>3. docs'[d] = Gone /\ \A e \in Documents \ {d} : docs'[e] = docs[e]
  BY <1>1 DEF HeaderInv
<1>4. Present' = Present \ {d}
  BY <1>3 DEF Present
<1>5. \A e \in Documents \ {d} : Lines(rows', e) = Lines(rows, e)
  BY <1>1, DeletionKeepsOthers
<1>6. \A e \in Documents \ {d} :
         /\ RowsOf(rows', e) = RowsOf(rows, e)
         /\ \A i \in RowsOf(rows', e) : rows'[i] = rows[i]
  BY <1>5, OtherRows
<1>7. RowsInv'
  <2> SUFFICES ASSUME NEW i \in DOMAIN rows'
               PROVE  /\ rows'[i].doc \in Present'
                      /\ rows'[i].line \in Nat \ {0}
                      /\ \E v \in 1..docs'[rows'[i].doc].version, n \in Nat :
                            i = <<rows'[i].doc, v, n>>
    BY DEF RowsInv
  <2>1. i \in DOMAIN rows /\ rows'[i] = rows[i] /\ rows[i].doc # d
    BY <1>1 DEF WithoutRows, RowsOf
  <2>2. rows[i].doc \in Present /\ rows[i].doc \in Documents \ {d}
    BY <2>1 DEF RowsInv, Present
  <2>3. docs'[rows'[i].doc] = docs[rows[i].doc]
    BY <1>3, <2>1, <2>2
  <2> QED
    BY <1>4, <2>1, <2>2, <2>3 DEF RowsInv
<1>8. LinesNumbered'
  <2> SUFFICES ASSUME NEW e \in Present'
               PROVE  \E n \in 1..MaxItems :
                         /\ {rows'[i].line : i \in RowsOf(rows', e)} = 1..n
                         /\ \A i, j \in RowsOf(rows', e) : rows'[i].line = rows'[j].line => i = j
    BY DEF LinesNumbered
  <2>1. e \in Present /\ e \in Documents \ {d}
    BY <1>4 DEF Present
  <2>2. PICK n \in 1..MaxItems :
           /\ {rows[i].line : i \in RowsOf(rows, e)} = 1..n
           /\ \A i, j \in RowsOf(rows, e) : rows[i].line = rows[j].line => i = j
    BY <2>1 DEF LinesNumbered
  <2>3. {rows'[i].line : i \in RowsOf(rows', e)} = {rows[i].line : i \in RowsOf(rows, e)}
    BY <1>6, <2>1
  <2>4. \A i, j \in RowsOf(rows', e) : rows'[i].line = rows'[j].line => i = j
    BY <1>6, <2>1, <2>2
  <2> QED
    BY <2>2, <2>3, <2>4
<1> QED
  BY <1>2, <1>3, <1>4, <1>5, <1>7, <1>8
-----------------------------------------------------------------------------
(* The copies clerks work on.                                              *)

\* A copy is of a document that was stored, and of no later version.
SeenInv ==
    /\ seen = [c \in Clerks |-> seen[c]]
    /\ \A c \in Clerks : seen[c] # Null =>
          LET d == seen[c].doc IN
          /\ d \in Documents /\ docs[d] # Null
          /\ d \in Present => seen[c].version \in Nat /\ seen[c].version <= docs[d].version

\* What a fetch returns, and what it depends on.
LEMMA Fetched ==
    ASSUME NEW headers, NEW table, NEW d \in Documents
    PROVE  Fetch(headers, table, d).doc = d /\ Fetch(headers, table, d).version = headers[d].version
<1>1. KindOf(d) \in Kinds
  BY DocumentsAssumption DEF KindOf
<1> QED
  BY <1>1 DEF Kinds, Fetch, FetchReceipt, FetchConsumption, FetchTransfer

LEMMA FetchedAlike ==
    ASSUME NEW headers, NEW headers2, NEW table, NEW table2, NEW d,
           headers2[d] = headers[d], Lines(table2, d) = Lines(table, d)
    PROVE  Fetch(headers2, table2, d) = Fetch(headers, table, d)
BY DEF Fetch, FetchReceipt, FetchConsumption, FetchTransfer

\* The invariant of copies, clerk by clerk: NotLater is SeenInv and Faithful
\* is VersionNamesContent, for two of them.
NotLater(copy) ==
    copy # Null =>
       /\ copy.doc \in Documents /\ docs[copy.doc] # Null
       /\ copy.doc \in Present => copy.version \in Nat /\ copy.version <= docs[copy.doc].version

Faithful(copy, other) ==
    copy # Null =>
       /\ copy.doc \in Present /\ copy.version = docs[copy.doc].version
             => copy = Fetch(docs, rows, copy.doc)
       /\ other # Null /\ other.doc = copy.doc /\ other.version = copy.version => other = copy

LEMMA CopiesOneByOne ==
    /\ SeenInv <=> /\ seen = [c \in Clerks |-> seen[c]]
                   /\ \A c \in Clerks : NotLater(seen[c])
    /\ VersionNamesContent <=> \A c, b \in Clerks : Faithful(seen[c], seen[b])
<1>1. SeenInv <=> /\ seen = [c \in Clerks |-> seen[c]]
                  /\ \A c \in Clerks : NotLater(seen[c])
  BY DEF SeenInv, NotLater
<1>2. VersionNamesContent <=> \A c, b \in Clerks : Faithful(seen[c], seen[b])
  BY DEF VersionNamesContent, Faithful
<1> QED
  BY <1>1, <1>2

LEMMA StorePreservesSeen ==
    ASSUME HeaderInv, SeenInv, VersionNamesContent, NEW d, NEW version, NEW head, NEW items,
           StoreStep(d, version, head, items),
           UNCHANGED seen \/ \E c \in Clerks : Shown(c, d)
    PROVE  SeenInv' /\ VersionNamesContent'
<1> DEFINE stored == Fetch(docs', rows', d)
<1>1. /\ version \in 1..MaxVersion
      /\ docs'[d] \in Headers /\ docs'[d].version = version
      /\ Present' = Present \cup {d}
      /\ \A e \in Documents \ {d} : docs'[e] = docs[e]
  BY StoredHeader
<1>2. d \in Documents /\ rows' = Sync(rows, d, version, items)
  BY DEF StoreStep, Store
<1>3. \A e \in Documents \ {d} : Fetch(docs', rows', e) = Fetch(docs, rows, e)
  <2> TAKE e \in Documents \ {d}
  <2>1. Lines(rows', e) = Lines(rows, e)
    BY <1>2, RewritingKeepsOthers
  <2> QED
    BY <1>1, <2>1, FetchedAlike
<1>4. stored.doc = d /\ stored.version = version
  BY <1>1, <1>2, Fetched
<1> HIDE DEF stored
<1>5. \A c \in Clerks : seen'[c] = seen[c] \/ seen'[c] = stored
  BY DEF Shown, SeenInv, stored
<1>6. seen' = [c \in Clerks |-> seen'[c]]
  BY DEF Shown, SeenInv
<1>7. \A c \in Clerks : seen[c] # Null /\ seen[c].doc = d
                         => seen[c].version \in Nat /\ seen[c].version < version
  <2> SUFFICES ASSUME NEW c \in Clerks, seen[c] # Null, seen[c].doc = d
               PROVE  seen[c].version \in Nat /\ seen[c].version < version
    OBVIOUS
  <2>1. docs[d] # Null
    BY DEF SeenInv
  <2>2. d \in Present /\ version = docs[d].version + 1
    BY <2>1 DEF StoreStep
  <2>3. docs[d].version \in Nat
    BY <2>2, PresentHeaders
  <2>4. seen[c].version \in Nat /\ seen[c].version <= docs[d].version
    BY <2>2 DEF SeenInv
  <2> QED
    BY <2>2, <2>3, <2>4
<1>8. docs'[d] # Null
  BY <1>1, DocumentsAssumption
<1>10. ASSUME NEW c \in Clerks
       PROVE  NotLater(seen[c])'
  <2>1. CASE seen'[c] = stored
    BY <1>1, <1>2, <1>4, <1>8, <2>1 DEF NotLater
  <2>2. CASE seen'[c] = seen[c]
    <3>1. NotLater(seen[c])
      BY CopiesOneByOne
    <3>2. CASE seen[c] = Null
      BY <2>2, <3>2 DEF NotLater
    <3>3. CASE seen[c] # Null /\ seen[c].doc = d
      BY <1>1, <1>2, <1>7, <1>8, <2>2, <3>3 DEF NotLater
    <3>4. CASE seen[c] # Null /\ seen[c].doc # d
      BY <1>1, <2>2, <3>1, <3>4 DEF NotLater
    <3> QED
      BY <3>2, <3>3, <3>4
  <2> QED
    BY <1>5, <2>1, <2>2
<1>11. ASSUME NEW c \in Clerks, NEW b \in Clerks
       PROVE  Faithful(seen[c], seen[b])'
  <2>1. Faithful(seen[c], seen[b]) /\ Faithful(seen[b], seen[c]) /\ NotLater(seen[c])
    BY CopiesOneByOne
  <2>2. CASE seen'[c] = stored
    <3>1. seen'[c] = Fetch(docs', rows', d)
      BY <2>2 DEF stored
    <3>2. seen'[b] # Null /\ seen'[b].doc = d /\ seen'[b].version = version => seen'[b] = stored
      BY <1>5, <1>7
    <3> QED
      BY <1>4, <2>2, <3>1, <3>2 DEF Faithful
  <2>3. CASE seen'[c] = seen[c] /\ seen[c] # Null /\ seen[c].doc = d
    <3>1. seen[c].version < version /\ seen[c].version \in Nat
      BY <1>7, <2>3
    <3>2. seen[c].version # version
      BY <1>1, <3>1
    <3>3. seen'[b] = seen[b] \/ seen'[b].version = version
      BY <1>4, <1>5
    <3> QED
      BY <1>1, <2>1, <2>3, <3>2, <3>3 DEF Faithful
  <2>4. CASE seen'[c] = seen[c] /\ seen[c] # Null /\ seen[c].doc # d
    <3>1. seen[c].doc \in Documents \ {d}
      BY <2>1, <2>4 DEF NotLater
    <3>2. seen'[b] = seen[b] \/ seen'[b].doc = d
      BY <1>4, <1>5
    <3> QED
      BY <1>1, <1>3, <2>1, <2>4, <3>1, <3>2 DEF Faithful
  <2>5. CASE seen'[c] = seen[c] /\ seen[c] = Null
    BY <2>5 DEF Faithful
  <2> QED
    BY <1>5, <2>2, <2>3, <2>4, <2>5
<1>12. SeenInv'
  BY <1>6, <1>10 DEF SeenInv, NotLater
<1>13. VersionNamesContent'
  BY <1>11 DEF VersionNamesContent, Faithful
<1> QED
  BY <1>12, <1>13

LEMMA RemovePreservesSeen ==
    ASSUME HeaderInv, RowsInv, LinesNumbered, SeenInv, VersionNamesContent, NEW d,
           Remove(d), UNCHANGED seen
    PROVE  SeenInv' /\ VersionNamesContent'
<1>1. /\ docs'[d] = Gone
      /\ \A e \in Documents \ {d} : docs'[e] = docs[e] /\ Lines(rows', e) = Lines(rows, e)
      /\ Present' = Present \ {d}
  BY RemovePreservesRows
<1>2. \A e \in Documents \ {d} : Fetch(docs', rows', e) = Fetch(docs, rows, e)
  BY <1>1, FetchedAlike
<1>3. Gone # Null
  BY DocumentsAssumption
<1>4. ASSUME NEW c \in Clerks
      PROVE  NotLater(seen[c])'
  <2>1. NotLater(seen[c])
    BY CopiesOneByOne
  <2> QED
    BY <1>1, <1>3, <2>1 DEF NotLater
<1>5. ASSUME NEW c \in Clerks, NEW b \in Clerks
      PROVE  Faithful(seen[c], seen[b])'
  <2>1. Faithful(seen[c], seen[b]) /\ NotLater(seen[c])
    BY CopiesOneByOne
  <2> QED
    BY <1>1, <1>2, <2>1 DEF Faithful, NotLater
<1>6. SeenInv'
  BY <1>4 DEF SeenInv, NotLater
<1>7. VersionNamesContent'
  BY <1>5 DEF VersionNamesContent, Faithful
<1> QED
  BY <1>6, <1>7

LEMMA OpenPreservesSeen ==
    ASSUME HeaderInv, SeenInv, VersionNamesContent, NEW c \in Clerks, NEW d \in Present, Open(c, d)
    PROVE  SeenInv' /\ VersionNamesContent'
<1> DEFINE stored == Fetch(docs, rows, d)
<1>1. d \in Documents /\ docs[d] # Null /\ docs[d].version \in Nat
  BY PresentHeaders DEF Present
<1>2. stored.doc = d /\ stored.version = docs[d].version
  BY <1>1, Fetched
<1>3. docs' = docs /\ rows' = rows /\ Present' = Present /\ seen' = [seen EXCEPT ![c] = stored]
  BY DEF Open, Present
<1>4. seen' = [b \in Clerks |-> seen'[b]]
  BY <1>3 DEF SeenInv
<1>5. \A b \in Clerks : seen'[b] = seen[b] \/ seen'[b] = stored
  BY <1>3 DEF SeenInv
<1>6. \A b \in Clerks : seen[b] # Null /\ seen[b].doc = d /\ seen[b].version = docs[d].version
                         => seen[b] = stored
  BY DEF VersionNamesContent
<1> HIDE DEF stored
<1>7. ASSUME NEW b \in Clerks
      PROVE  NotLater(seen[b])'
  <2>1. NotLater(seen[b])
    BY CopiesOneByOne
  <2> QED
    BY <1>1, <1>2, <1>3, <1>5, <2>1 DEF NotLater
<1>8. ASSUME NEW b \in Clerks, NEW a \in Clerks
      PROVE  Faithful(seen[b], seen[a])'
  <2>1. Faithful(seen[b], seen[a])
    BY CopiesOneByOne
  <2>2. stored = Fetch(docs', rows', d)
    BY <1>3 DEF stored
  <2>3. CASE seen'[b] = stored
    BY <1>2, <1>5, <1>6, <2>2, <2>3 DEF Faithful
  <2>4. CASE seen'[b] = seen[b] /\ seen'[a] = seen[a]
    BY <1>3, <2>1, <2>4 DEF Faithful
  <2>5. CASE seen'[b] = seen[b] /\ seen'[a] = stored
    BY <1>2, <1>3, <1>6, <2>1, <2>5 DEF Faithful
  <2> QED
    BY <1>5, <2>3, <2>4, <2>5
<1>9. SeenInv'
  BY <1>4, <1>7 DEF SeenInv, NotLater
<1>10. VersionNamesContent'
  BY <1>8 DEF VersionNamesContent, Faithful
<1> QED
  BY <1>9, <1>10
-----------------------------------------------------------------------------
(* What managers are creating, and what administrators edit.               *)

Steps == {"destination", "catalogue", "insert"}
Request == [doc : Documents, head : Heads, bodies : NewItems, step : Steps]

\* A document on its way is one its manager may submit.
RequestsInv ==
    /\ requests \in [Managers -> {Null} \cup Request]
    /\ \A c \in Managers : requests[c] # Null =>
          requests[c] \in Request /\ ValidCount(Fresh(requests[c].bodies))

CatalogueInv ==
    /\ activeSites \subseteq Sites
    /\ assigned \in [Managers -> SUBSET Sites]
    /\ activeMaterials \subseteq Materials
    /\ unitOf \in [Materials -> Units]

CommitsInv == commits \in 0..MaxCommits

\* The invariant of the specification.
DocumentsInv ==
    /\ HeaderInv /\ RowsInv /\ LinesNumbered
    /\ SeenInv /\ VersionNamesContent
    /\ RequestsInv /\ CatalogueInv /\ CommitsInv

LEMMA InvariantTyped == DocumentsInv => TypeOK
<1> SUFFICES ASSUME DocumentsInv
             PROVE  TypeOK
  OBVIOUS
<1>1. docs \in [Documents -> {Null, Gone} \cup Headers]
  BY DEF DocumentsInv, HeaderInv
<1>2. \A i \in DOMAIN rows : rows[i].doc \in Present /\ rows[i].line \in Nat \ {0}
  BY DEF DocumentsInv, RowsInv
<1>3. \A c \in Clerks : seen[c] # Null => seen[c].doc \in Documents
  BY DEF DocumentsInv, SeenInv
<1>4. DOMAIN requests = Managers
  BY DEF DocumentsInv, RequestsInv
<1>5. CatalogueInv /\ CommitsInv
  BY DEF DocumentsInv
<1> QED
  BY <1>1, <1>2, <1>3, <1>4, <1>5 DEF TypeOK, CatalogueInv, CommitsInv

\* New lines are a list as long as what was submitted.
LEMMA FreshList ==
    ASSUME NEW bodies \in NewItems
    PROVE  DOMAIN Fresh(bodies) = 1..Len(bodies) /\ Len(Fresh(bodies)) = Len(bodies)
           /\ ItemList(Fresh(bodies))
<1>1. Len(bodies) \in Nat /\ DOMAIN bodies = 1..Len(bodies)
  BY DocumentsAssumption
<1>2. Fresh(bodies) = [n \in 1..Len(bodies) |-> [id |-> Null, body |-> bodies[n]]]
  BY <1>1 DEF Fresh
<1>3. Fresh(bodies) \in Seq([id : {Null}, body : {bodies[n] : n \in 1..Len(bodies)}])
  BY <1>1, <1>2, IsASeq
<1>4. Len(Fresh(bodies)) = Len(bodies) /\ DOMAIN Fresh(bodies) = 1..Len(bodies)
  BY <1>1, <1>2, <1>3
<1> QED
  BY <1>1, <1>4 DEF ItemList

LEMMA SubmissionList ==
    ASSUME NEW items \in Submissions
    PROVE  ItemList(items)
<1> DEFINE Item == [id : DOMAIN rows \cup {Null}, body : Bodies]
<1>1. PICK n \in 0..(MaxItems + 1) : items \in [1..n -> Item]
  BY DEF Submissions
<1>2. n \in Nat
  BY <1>1, ItemsAssumption
<1> HIDE DEF Item
<1>3. items \in Seq(Item)
  BY <1>1, <1>2, SeqDef
<1>4. Len(items) = n /\ DOMAIN items = 1..n
  BY <1>1, <1>2, <1>3
<1> QED
  BY <1>2, <1>4 DEF ItemList

LEMMA CommitStep ==
    ASSUME CommitsInv, Commit
    PROVE  CommitsInv'
BY DocumentsAssumption DEF CommitsInv, Commit

-----------------------------------------------------------------------------
(* The steps, by what they do.                                             *)

\* A clerk stores a document.
StoredBy(c, d, version, head, items) ==
    /\ StoreStep(d, version, head, items) /\ Shown(c, d)
    /\ UNCHANGED <<requests, catalogue>>

\* A clerk replaces one, and worked on the stored version.
ReplacedBy(c, d, version, head, items) ==
    /\ d \in Present /\ Current(c, d)
    /\ StoredBy(c, d, version, head, items)

InsertedBy(c, d, version, head, items) ==
    /\ docs[d] = Null
    /\ StoredBy(c, d, version, head, items)

Removed(d) == Remove(d) /\ UNCHANGED <<seen, requests, catalogue>>

LEMMA InsertIsStore ==
    ASSUME NEW d \in Documents, NEW head \in Heads, NEW bodies \in NewItems,
           ValidCount(Fresh(bodies)), Insert(d, head, bodies)
    PROVE  docs[d] = Null /\ StoreStep(d, 1, head, Fresh(bodies))
BY FreshList DEF Insert, StoreStep

LEMMA ReplaceIsStore ==
    ASSUME NEW c, NEW d \in Present, NEW head \in Heads, NEW items \in Submissions,
           ValidCount(items), Replace(c, d, head, items)
    PROVE  StoreStep(d, docs[d].version + 1, head, items) /\ Shown(c, d)
<1>1. d \in Documents
  BY DEF Present
<1> QED
  BY <1>1, SubmissionList DEF Replace, NextVersion, StoreStep

\* Whatever a clerk does is one of four things.
LEMMA ClerkSteps ==
    ASSUME NEW c \in Clerks, ClerkNext(c)
    PROVE  \/ \E d, version, head, items : InsertedBy(c, d, version, head, items)
           \/ \E d, version, head, items : ReplacedBy(c, d, version, head, items)
           \/ \E d : Removed(d)
           \/ \E d \in Present : Open(c, d)
<1>1. CASE ReceiptCreate(c)
  <2>1. PICK d \in Documents, head \in Heads, bodies \in NewItems :
           /\ ValidReceipt(head, Fresh(bodies), TRUE)
           /\ Insert(d, head, bodies)
           /\ Shown(c, d)
           /\ UNCHANGED <<requests, catalogue>>
    BY <1>1 DEF ReceiptCreate
  <2>2. docs[d] = Null /\ StoreStep(d, 1, head, Fresh(bodies))
    BY <2>1, InsertIsStore DEF ValidReceipt
  <2> QED
    BY <2>1, <2>2 DEF InsertedBy, StoredBy
<1>2. CASE ConsumptionCreate(c)
  <2>1. PICK d \in Documents, head \in Heads, bodies \in NewItems :
           /\ ValidConsumption(head, Fresh(bodies), TRUE)
           /\ Insert(d, head, bodies)
           /\ Shown(c, d)
           /\ UNCHANGED <<requests, catalogue>>
    BY <1>2 DEF ConsumptionCreate
  <2>2. docs[d] = Null /\ StoreStep(d, 1, head, Fresh(bodies))
    BY <2>1, InsertIsStore DEF ValidConsumption
  <2> QED
    BY <2>1, <2>2 DEF InsertedBy, StoredBy
<1>3. CASE TransferCreate(c)
  <2>1. PICK d \in Documents, head \in Heads, bodies \in NewItems :
           /\ ValidTransfer(head, Fresh(bodies), TRUE)
           /\ Insert(d, head, bodies)
           /\ Shown(c, d)
           /\ UNCHANGED <<requests, catalogue>>
    BY <1>3 DEF TransferCreate
  <2>2. docs[d] = Null /\ StoreStep(d, 1, head, Fresh(bodies))
    BY <2>1, InsertIsStore DEF ValidTransfer
  <2> QED
    BY <2>1, <2>2 DEF InsertedBy, StoredBy
<1>4. CASE ReceiptUpdate(c)
  <2>1. PICK d \in Present, head \in Heads, items \in Submissions :
           Current(c, d) /\ ValidReceipt(head, items, FALSE) /\ Replace(c, d, head, items)
    BY <1>4 DEF ReceiptUpdate
  <2>2. StoreStep(d, docs[d].version + 1, head, items) /\ Shown(c, d)
    BY <2>1, ReplaceIsStore DEF ValidReceipt
  <2>3. UNCHANGED <<requests, catalogue>>
    BY <1>4 DEF ReceiptUpdate
  <2> QED
    BY <2>1, <2>2, <2>3 DEF ReplacedBy, StoredBy
<1>5. CASE ConsumptionUpdate(c)
  <2>1. PICK d \in Present, head \in Heads, items \in Submissions :
           Current(c, d) /\ ValidConsumption(head, items, FALSE) /\ Replace(c, d, head, items)
    BY <1>5 DEF ConsumptionUpdate
  <2>2. StoreStep(d, docs[d].version + 1, head, items) /\ Shown(c, d)
    BY <2>1, ReplaceIsStore DEF ValidConsumption
  <2>3. UNCHANGED <<requests, catalogue>>
    BY <1>5 DEF ConsumptionUpdate
  <2> QED
    BY <2>1, <2>2, <2>3 DEF ReplacedBy, StoredBy
<1>6. CASE TransferUpdate(c)
  <2>1. PICK d \in Present, head \in Heads, items \in Submissions :
           Current(c, d) /\ ValidTransfer(head, items, FALSE) /\ Replace(c, d, head, items)
    BY <1>6 DEF TransferUpdate
  <2>2. StoreStep(d, docs[d].version + 1, head, items) /\ Shown(c, d)
    BY <2>1, ReplaceIsStore DEF ValidTransfer
  <2>3. UNCHANGED <<requests, catalogue>>
    BY <1>6 DEF TransferUpdate
  <2> QED
    BY <2>1, <2>2, <2>3 DEF ReplacedBy, StoredBy
<1>7. CASE ReceiptDelete(c) \/ ConsumptionDelete(c) \/ TransferDelete(c)
  BY <1>7 DEF ReceiptDelete, ConsumptionDelete, TransferDelete, Removed
<1>8. CASE ReceiptDetail(c) \/ ConsumptionDetail(c) \/ TransferDetail(c)
  BY <1>8 DEF ReceiptDetail, ConsumptionDetail, TransferDetail
<1> QED
  BY <1>1, <1>2, <1>3, <1>4, <1>5, <1>6, <1>7, <1>8 DEF ClerkNext

\* Rows and copies where no document changes.
LEMMA SameDocuments ==
    ASSUME DocumentsInv, UNCHANGED <<docs, rows, seen>>
    PROVE  HeaderInv' /\ RowsInv' /\ LinesNumbered' /\ SeenInv' /\ VersionNamesContent'
<1>1. docs' = docs /\ rows' = rows /\ seen' = seen /\ Present' = Present
  BY DEF Present
<1>2. HeaderInv'
  BY <1>1 DEF HeaderInv, DocumentsInv
<1>3. RowsInv'
  BY <1>1 DEF RowsInv, DocumentsInv
<1>4. LinesNumbered'
  BY <1>1 DEF LinesNumbered, DocumentsInv
<1>5. SeenInv'
  BY <1>1 DEF SeenInv, DocumentsInv
<1>6. VersionNamesContent'
  BY <1>1 DEF VersionNamesContent, DocumentsInv
<1> QED
  BY <1>2, <1>3, <1>4, <1>5, <1>6

LEMMA SameRequests ==
    ASSUME DocumentsInv, UNCHANGED requests
    PROVE  RequestsInv'
BY DEF RequestsInv, DocumentsInv

LEMMA SameCatalogue ==
    ASSUME DocumentsInv, UNCHANGED catalogue
    PROVE  CatalogueInv'
BY DEF CatalogueInv, DocumentsInv, catalogue

LEMMA ClerkPreserves ==
    ASSUME DocumentsInv, NEW c \in Clerks, ClerkNext(c)
    PROVE  DocumentsInv'
<1> USE DEF DocumentsInv
<1>1. ASSUME NEW d, NEW version, NEW head, NEW items, StoredBy(c, d, version, head, items)
      PROVE  DocumentsInv'
  <2>1. StoreStep(d, version, head, items) /\ Shown(c, d)
    BY <1>1 DEF StoredBy
  <2>2. HeaderInv'
    BY <2>1, StoredHeader
  <2>3. RowsInv' /\ LinesNumbered'
    BY <2>1, StorePreservesRows
  <2>4. SeenInv' /\ VersionNamesContent'
    BY <2>1, StorePreservesSeen
  <2>5. RequestsInv' /\ CatalogueInv'
    BY <1>1, SameRequests, SameCatalogue DEF StoredBy
  <2>6. CommitsInv'
    BY <2>1, CommitStep DEF StoreStep, Store
  <2> QED
    BY <2>2, <2>3, <2>4, <2>5, <2>6
<1>2. ASSUME NEW d, Removed(d)
      PROVE  DocumentsInv'
  <2>1. Remove(d) /\ UNCHANGED <<seen, requests, catalogue>>
    BY <1>2 DEF Removed
  <2>2. HeaderInv' /\ RowsInv' /\ LinesNumbered'
    BY <2>1, RemovePreservesRows
  <2>3. SeenInv' /\ VersionNamesContent'
    BY <2>1, RemovePreservesSeen
  <2>4. RequestsInv' /\ CatalogueInv'
    BY <2>1, SameRequests, SameCatalogue
  <2>5. CommitsInv'
    BY <2>1, CommitStep DEF Remove
  <2> QED
    BY <2>2, <2>3, <2>4, <2>5
<1>3. ASSUME NEW d \in Present, Open(c, d)
      PROVE  DocumentsInv'
  <2>1. UNCHANGED <<docs, rows, requests, catalogue, commits>>
    BY <1>3 DEF Open
  <2>2. SeenInv' /\ VersionNamesContent'
    BY <1>3, OpenPreservesSeen
  <2>3. Present' = Present
    BY <2>1 DEF Present
  <2>4. HeaderInv' /\ RowsInv' /\ LinesNumbered'
    BY <2>1, <2>3 DEF HeaderInv, RowsInv, LinesNumbered
  <2>5. RequestsInv' /\ CatalogueInv'
    BY <2>1, SameRequests, SameCatalogue
  <2>6. CommitsInv'
    BY <2>1 DEF CommitsInv
  <2> QED
    BY <2>2, <2>4, <2>5, <2>6
<1> QED
  BY <1>1, <1>2, <1>3, ClerkSteps DEF InsertedBy, ReplacedBy

\* A manager's request moves on, ends, or becomes a document.
LEMMA ManagerPreserves ==
    ASSUME DocumentsInv, NEW c \in Managers, ManagerNext(c)
    PROVE  DocumentsInv'
<1>1. requests \in [Managers -> {Null} \cup Request] /\ CommitsInv
  BY DEF DocumentsInv, RequestsInv
<1>2. ASSUME NEW request \in Request, ValidCount(Fresh(request.bodies)), Begin(c, request)
      PROVE  DocumentsInv'
  <2>1. requests' = [requests EXCEPT ![c] = request] /\ UNCHANGED <<docs, rows, seen, catalogue, commits>>
    BY <1>2 DEF Begin
  <2>2. RequestsInv'
    BY <1>1, <1>2, <2>1 DEF DocumentsInv, RequestsInv
  <2>3. CommitsInv'
    BY <1>1, <2>1 DEF CommitsInv
  <2> QED
    BY <2>1, <2>2, <2>3, SameDocuments, SameCatalogue DEF DocumentsInv
<1>3. ASSUME requests[c] # Null, NEW step \in Steps, Advance(c, step)
      PROVE  DocumentsInv'
  <2>1. /\ requests' = [requests EXCEPT ![c].step = step]
        /\ UNCHANGED <<docs, rows, seen, catalogue, commits>>
    BY <1>3 DEF Advance
  <2>2. requests[c] \in Request /\ ValidCount(Fresh(requests[c].bodies))
    BY <1>3 DEF DocumentsInv, RequestsInv
  <2>3. /\ [requests[c] EXCEPT !.step = step] \in Request
        /\ [requests[c] EXCEPT !.step = step].bodies = requests[c].bodies
    BY <1>3, <2>2 DEF Request
  <2>4. requests' = [requests EXCEPT ![c] = [requests[c] EXCEPT !.step = step]]
    BY <2>1
  <2>5. RequestsInv'
    BY <1>1, <2>2, <2>3, <2>4 DEF DocumentsInv, RequestsInv
  <2>6. CommitsInv'
    BY <1>1, <2>1 DEF CommitsInv
  <2> QED
    BY <2>1, <2>5, <2>6, SameDocuments, SameCatalogue DEF DocumentsInv
<1>4. CASE BeginConsumption(c)
  <2>1. PICK d \in Documents, head \in Heads, bodies \in NewItems :
           /\ ValidConsumption(head, Fresh(bodies), TRUE)
           /\ Begin(c, [doc |-> d, head |-> head, bodies |-> bodies, step |-> "catalogue"])
    BY <1>4 DEF BeginConsumption
  <2>2. [doc |-> d, head |-> head, bodies |-> bodies, step |-> "catalogue"] \in Request
    BY DEF Request, Steps
  <2> QED
    BY <1>2, <2>1, <2>2 DEF ValidConsumption
<1>5. CASE BeginTransfer(c)
  <2>1. PICK d \in Documents, head \in Heads, bodies \in NewItems :
           /\ ValidTransfer(head, Fresh(bodies), TRUE)
           /\ Begin(c, [doc |-> d, head |-> head, bodies |-> bodies, step |-> "destination"])
    BY <1>5 DEF BeginTransfer
  <2>2. [doc |-> d, head |-> head, bodies |-> bodies, step |-> "destination"] \in Request
    BY DEF Request, Steps
  <2> QED
    BY <1>2, <2>1, <2>2 DEF ValidTransfer
<1>6. CASE CheckDestination(c)
  BY <1>3, <1>6 DEF CheckDestination, Steps
<1>7. CASE CheckConsumptionCatalogue(c)
  BY <1>3, <1>7 DEF CheckConsumptionCatalogue, Steps
<1>8. CASE CheckTransferCatalogue(c)
  BY <1>3, <1>8 DEF CheckTransferCatalogue, Steps
<1>9. CASE ManagerInsert(c)
  <2> DEFINE d == requests[c].doc
             head == requests[c].head
             bodies == requests[c].bodies
  <2>1. /\ requests[c] # Null /\ Insert(d, head, bodies)
        /\ requests' = [requests EXCEPT ![c] = Null]
        /\ UNCHANGED <<seen, catalogue>>
    BY <1>9 DEF ManagerInsert
  <2>2. requests[c] \in Request /\ ValidCount(Fresh(bodies))
    BY <2>1 DEF DocumentsInv, RequestsInv
  <2>3. d \in Documents /\ head \in Heads /\ bodies \in NewItems
    BY <2>2 DEF Request
  <2> HIDE DEF d, head, bodies
  <2>4. StoreStep(d, 1, head, Fresh(bodies))
    BY <2>1, <2>2, <2>3, InsertIsStore
  <2>5. HeaderInv'
    BY <2>4, StoredHeader DEF DocumentsInv
  <2>6. RowsInv' /\ LinesNumbered'
    BY <2>4, StorePreservesRows DEF DocumentsInv
  <2>7. SeenInv' /\ VersionNamesContent'
    BY <2>1, <2>4, StorePreservesSeen DEF DocumentsInv
  <2>8. RequestsInv'
    BY <1>1, <2>1 DEF DocumentsInv, RequestsInv
  <2>9. CommitsInv'
    BY <1>1, <2>4, CommitStep DEF StoreStep, Store
  <2> QED
    BY <2>1, <2>5, <2>6, <2>7, <2>8, <2>9, SameCatalogue DEF DocumentsInv
<1>10. CASE ManagerRefused(c)
  <2>1. requests' = [requests EXCEPT ![c] = Null] /\ UNCHANGED <<docs, rows, seen, catalogue, commits>>
    BY <1>10 DEF ManagerRefused
  <2>2. RequestsInv'
    BY <1>1, <2>1 DEF DocumentsInv, RequestsInv
  <2>3. CommitsInv'
    BY <1>1, <2>1 DEF CommitsInv
  <2> QED
    BY <2>1, <2>2, <2>3, SameDocuments, SameCatalogue DEF DocumentsInv
<1> QED
  BY <1>4, <1>5, <1>6, <1>7, <1>8, <1>9, <1>10 DEF ManagerNext

LEMMA CataloguePreserves ==
    ASSUME DocumentsInv, EditCatalogue
    PROVE  DocumentsInv'
<1>1. Commit /\ UNCHANGED <<docs, rows, seen, requests>>
  BY DEF EditCatalogue
<1>2. CatalogueInv
  BY DEF DocumentsInv
<1>3. CatalogueInv'
  <2>1. activeSites' \subseteq Sites
    BY <1>2 DEF EditCatalogue, CatalogueInv
  <2>2. assigned' \in [Managers -> SUBSET Sites]
    BY <1>2 DEF EditCatalogue, CatalogueInv
  <2>3. activeMaterials' \subseteq Materials
    BY <1>2 DEF EditCatalogue, CatalogueInv
  <2>4. unitOf' \in [Materials -> Units]
    BY <1>2 DEF EditCatalogue, CatalogueInv
  <2> QED
    BY <2>1, <2>2, <2>3, <2>4 DEF CatalogueInv
<1>4. CommitsInv'
  BY <1>1, CommitStep DEF DocumentsInv
<1> QED
  BY <1>1, <1>3, <1>4, SameDocuments, SameRequests DEF DocumentsInv

LEMMA InitEstablishes == Init => DocumentsInv
<1> SUFFICES ASSUME Init
             PROVE  DocumentsInv
  OBVIOUS
<1>1. HeaderInv
  BY DEF Init, HeaderInv
<1>2. Present = {}
  BY DEF Init, Present
<1>3. RowsInv /\ LinesNumbered
  BY <1>2 DEF Init, RowsInv, LinesNumbered
<1>4. SeenInv
  BY DEF Init, SeenInv
<1>5. VersionNamesContent
  BY DEF Init, VersionNamesContent
<1>6. RequestsInv
  BY DEF Init, RequestsInv
<1>7. CatalogueInv
  BY DEF Init, CatalogueInv
<1>8. CommitsInv
  BY DocumentsAssumption DEF Init, CommitsInv
<1> QED
  BY <1>1, <1>3, <1>4, <1>5, <1>6, <1>7, <1>8 DEF DocumentsInv

LEMMA StepPreserves == DocumentsInv /\ [Next]_vars => DocumentsInv'
<1> SUFFICES ASSUME DocumentsInv, [Next]_vars
             PROVE  DocumentsInv'
  OBVIOUS
<1>1. CASE \E c \in Clerks : ClerkNext(c)
  BY <1>1, ClerkPreserves
<1>2. CASE \E c \in Managers : ManagerNext(c)
  BY <1>2, ManagerPreserves
<1>3. CASE EditCatalogue
  BY <1>3, CataloguePreserves
<1>4. CASE UNCHANGED vars
  <2>1. UNCHANGED <<docs, rows, seen, requests, catalogue, commits>>
    BY <1>4 DEF vars, catalogue
  <2>2. CommitsInv'
    BY <2>1 DEF DocumentsInv, CommitsInv
  <2> QED
    BY <2>1, <2>2, SameDocuments, SameRequests, SameCatalogue DEF DocumentsInv
<1> QED
  BY <1>1, <1>2, <1>3, <1>4 DEF Next

LEMMA Invariance == Spec => []DocumentsInv
BY InitEstablishes, StepPreserves, PTL DEF Spec

-----------------------------------------------------------------------------
\* Every state is typed: lines belong to stored documents (the foreign key
\* with ON DELETE CASCADE), versions and bounds are kept.
THEOREM TypeInvariant == Spec => []TypeOK
BY Invariance, InvariantTyped, PTL

\* The lines of a stored document are numbered 1..n, each number once,
\* whatever edits led there (sync*Items).
THEOREM LinesAreNumbered == Spec => []LinesNumbered
<1>1. DocumentsInv => LinesNumbered
  BY DEF DocumentsInv
<1> QED
  BY <1>1, Invariance, PTL

\* Copies of one version are equal, and a copy of the stored version is what
\* is stored (the version check of Update, and the increment with it).
THEOREM VersionsNameContents == Spec => []VersionNamesContent
<1>1. DocumentsInv => VersionNamesContent
  BY DEF DocumentsInv
<1> QED
  BY <1>1, Invariance, PTL

\* A reordering of the lines of a document is never refused: the rows wait
\* beyond every line that may be written (stageMaterialDocumentItemLines).
THEOREM ReordersAreSaved == Spec => []EveryReorderSaved
<1>1. DocumentsInv => EveryReorderSaved
  <2> SUFFICES ASSUME DocumentsInv, NEW d \in Present, NEW items \in Submissions,
                      ValidCount(items), ValidIds(items, FALSE),
                      \A n \in DOMAIN items : items[n].id \in RowsOf(rows, d) \cup {Null}
               PROVE  Saveable(rows, d, items)
    BY DEF EveryReorderSaved
  <2>1. ItemList(items) /\ MaxItems \in Nat
    BY SubmissionList, ItemsAssumption
  <2>2. PICK top \in 1..MaxItems : {rows[i].line : i \in RowsOf(rows, d)} = 1..top
    BY DEF DocumentsInv, LinesNumbered
  <2> DEFINE used == {rows[i].line : i \in RowsOf(rows, d)} \cup {0}
  <2>3. used = 0..top
    BY <2>1, <2>2
  <2>4. \E most \in used : \A line \in used : line <= most
    <3>1. top \in used /\ \A line \in used : line <= top
      BY <2>1, <2>3
    <3> QED
      BY <3>1
  <2>5. TopLine(rows, d) \in used
    BY <2>4 DEF TopLine
  <2>6. TopLine(rows, d) \in Nat
    BY <2>1, <2>3, <2>5
  <2>7. \A i \in RowsOf(rows, d) : rows[i].line \in Nat
    BY DEF DocumentsInv, RowsInv, RowsOf
  <2>8. ASSUME NEW n \in DOMAIN items
        PROVE  ~LineTaken(rows, d, items, n)
    <3>1. n \in Nat /\ n <= MaxItems
      BY <2>1 DEF ItemList, ValidCount
    <3>2. \A i \in RowsOf(rows, d) : StagedLine(rows, d, i) # n
      BY <2>1, <2>6, <2>7, <3>1 DEF StagedLine
    <3> QED
      BY <3>2 DEF LineTaken
  <2>9. ASSUME NEW n \in DOMAIN items, items[n].id # Null
        PROVE  items[n].id \in RowsOf(rows, d) /\ \A k \in 1..(n - 1) : items[k].id # items[n].id
    BY <2>9 DEF ValidIds
  <2> QED
    BY <2>8, <2>9 DEF Saveable
<1> QED
  BY <1>1, Invariance, PTL

\* Nobody overwrites what he has not seen: who replaces a stored document
\* held its stored content before (the version check under the document's
\* lock).  That equal versions mean equal contents is what makes the check
\* sufficient.
THEOREM UpdatesAreNotLost == Spec => NoLostUpdate
<1> DEFINE Kept ==
      \A c \in Clerks, d \in Present :
         /\ d \in Present' /\ docs'[d] # docs[d]
         /\ seen'[c] # seen[c] /\ seen'[c] = Fetch(docs, rows, d)'
         => seen[c] = Fetch(docs, rows, d)
<1>1. DocumentsInv /\ [Next]_vars => [Kept]_vars
  <2> SUFFICES ASSUME DocumentsInv, Next,
                      NEW c \in Clerks, NEW d \in Present,
                      d \in Present', docs'[d] # docs[d], seen'[c] # seen[c]
               PROVE  seen[c] = Fetch(docs, rows, d)
    BY DEF Next
  <2>1. docs' # docs /\ seen' # seen
    OBVIOUS
  <2>2. PICK b \in Clerks : ClerkNext(b)
    <3>1. ASSUME NEW m \in Managers, ManagerNext(m)
          PROVE  seen' = seen
      BY <3>1 DEF ManagerNext, BeginConsumption, BeginTransfer, CheckDestination,
           CheckConsumptionCatalogue, CheckTransferCatalogue, ManagerInsert, ManagerRefused,
           Begin, Advance
    <3>2. EditCatalogue => seen' = seen
      BY DEF EditCatalogue
    <3> QED
      BY <2>1, <3>1, <3>2 DEF Next
  <2>3. HeaderInv /\ SeenInv /\ VersionNamesContent
    BY DEF DocumentsInv
  <2>4. ASSUME NEW e, NEW version, NEW head, NEW items, InsertedBy(b, e, version, head, items)
        PROVE  FALSE
    <3>1. StoreStep(e, version, head, items) /\ docs[e] = Null
      BY <2>4 DEF InsertedBy, StoredBy
    <3>2. \A f \in Documents \ {e} : docs'[f] = docs[f]
      BY <2>3, <3>1, StoredHeader
    <3> QED
      BY <3>1, <3>2 DEF Present
  <2>5. ASSUME NEW e, NEW version, NEW head, NEW items, ReplacedBy(b, e, version, head, items)
        PROVE  seen[c] = Fetch(docs, rows, d)
    <3>1. /\ StoreStep(e, version, head, items) /\ Shown(b, e)
          /\ Current(b, e)
      BY <2>5 DEF ReplacedBy, StoredBy
    <3>2. \A f \in Documents \ {e} : docs'[f] = docs[f]
      BY <2>3, <3>1, StoredHeader
    <3>3. d = e
      BY <3>2 DEF Present
    <3>4. c = b
      BY <2>3, <3>1 DEF Shown, SeenInv
    <3>5. seen[c] # Null /\ seen[c].doc = d /\ seen[c].version = docs[d].version
      BY <3>1, <3>3, <3>4 DEF Current, Unchanged
    <3> QED
      BY <2>3, <3>5 DEF VersionNamesContent
  <2>6. ASSUME NEW e, Removed(e)
        PROVE  FALSE
    BY <2>1, <2>6 DEF Removed
  <2>7. ASSUME NEW e \in Present, Open(b, e)
        PROVE  FALSE
    BY <2>1, <2>7 DEF Open
  <2> QED
    BY <2>2, <2>4, <2>5, <2>6, <2>7, ClerkSteps
<1>2. Spec => [][Kept]_vars
  BY <1>1, Invariance, PTL DEF Spec
<1> QED
  BY <1>2 DEF NoLostUpdate

-----------------------------------------------------------------------------
\* The sites of a manager list exactly what the detail query of the document
\* gives him access to: the queries compare the same columns of the header
\* with the same two conditions on the site.
LEMMA ListedByKind ==
    ASSUME NEW c \in Managers, NEW d \in Present
    PROVE  /\ \A site \in OfferedSites(c) : SiteAvailable(c, site)
           /\ KindOf(d) = "consumption" =>
                 (ConsumptionAccess(c, d)
                    <=> \E site \in OfferedSites(c) : d \in ListedConsumptions(site))
           /\ KindOf(d) = "transfer" =>
                 (TransferAccess(c, d)
                    <=> \E site \in OfferedSites(c) : d \in ListedTransfers(site))
<1>1. \A site \in OfferedSites(c) : SiteAvailable(c, site)
  BY DEF OfferedSites, SiteAvailable
<1>2. ASSUME KindOf(d) = "consumption"
      PROVE  ConsumptionAccess(c, d)
               <=> \E site \in OfferedSites(c) : d \in ListedConsumptions(site)
  BY <1>2 DEF ConsumptionAccess, OfferedSites, ListedConsumptions
<1>3. ASSUME KindOf(d) = "transfer"
      PROVE  TransferAccess(c, d)
               <=> \E site \in OfferedSites(c) : d \in ListedTransfers(site)
  BY <1>3 DEF TransferAccess, OfferedSites, ListedTransfers
<1> QED
  BY <1>1, <1>2, <1>3

\* A list holds documents of its own kind.
LEMMA ListsApart ==
    /\ \A site : \A d \in ListedConsumptions(site) : KindOf(d) = "consumption"
    /\ \A site : \A d \in ListedTransfers(site) : KindOf(d) = "transfer"
BY DEF ListedConsumptions, ListedTransfers

\* A manager opens a document exactly if a site he is offered lists it, and
\* every site he is offered is accepted: the list, detail and site queries of
\* the workspaces agree, whatever documents, sites and assignments there are.
THEOREM ListsAreReadable == Spec => []ListedIffReadable
<1>1. ListedIffReadable
  <2> DEFINE listed(c) ==
               UNION {ListedConsumptions(site) \cup ListedTransfers(site)
                        : site \in {s \in OfferedSites(c) : SiteAvailable(c, s)}}
  <2>1. ASSUME NEW c \in Managers
        PROVE  \A site \in OfferedSites(c) : SiteAvailable(c, site)
    BY DEF OfferedSites, SiteAvailable
  <2>2. ASSUME NEW c \in Managers, NEW d
        PROVE  d \in listed(c) <=> \E site \in OfferedSites(c) :
                                      d \in ListedConsumptions(site) \/ d \in ListedTransfers(site)
    BY <2>1
  <2> HIDE DEF listed
  <2>3. ASSUME NEW c \in Managers, NEW d \in Present
        PROVE  \/ KindOf(d) = "receipt"
               \/ /\ KindOf(d) = "consumption"
                  /\ ConsumptionDetailFor(c, d) # {} <=> d \in listed(c)
               \/ /\ KindOf(d) = "transfer"
                  /\ TransferDetailFor(c, d) # {} <=> d \in listed(c)
    <3>1. KindOf(d) \in Kinds
      BY DocumentsAssumption DEF KindOf, Present
    <3>2. CASE KindOf(d) = "consumption"
      <4>1. \A site : d \notin ListedTransfers(site)
        BY <3>2, ListsApart
      <4>2. ConsumptionAccess(c, d) <=> d \in listed(c)
        BY <2>2, <3>2, <4>1, ListedByKind
      <4> QED
        BY <3>2, <4>2 DEF ConsumptionDetailFor
    <3>3. CASE KindOf(d) = "transfer"
      <4>1. \A site : d \notin ListedConsumptions(site)
        BY <3>3, ListsApart
      <4>2. TransferAccess(c, d) <=> d \in listed(c)
        BY <2>2, <3>3, <4>1, ListedByKind
      <4> QED
        BY <3>3, <4>2 DEF TransferDetailFor
    <3> QED
      BY <3>1, <3>2, <3>3 DEF Kinds
  <2> QED
    BY <2>1, <2>3 DEF ListedIffReadable, listed
<1> QED
  BY <1>1, PTL
================================================================================
