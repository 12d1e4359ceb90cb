---------------------------- MODULE DocumentItems ----------------------------
(***************************************************************************)
(* How a material document stores its lines: sync*Items of                 *)
(* internal/services/materialDocuments.go, shared by receipts,             *)
(* consumptions, transfers and requests.  A table of lines is a function   *)
(* from line ids to [doc, line, body]; a submission is a sequence of       *)
(* [id, body], with id = Null for a line that is new.                      *)
(*                                                                         *)
(* The database numbers new lines from a sequence.  Only that the number   *)
(* is fresh is ever used, so a new line is named after its document, the   *)
(* version that brought it and its place there.                            *)
(***************************************************************************)
EXTENDS Integers, Sequences

CONSTANTS Null,
          MaxItems   \* materialDocumentMaxItems

ASSUME ItemsAssumption == MaxItems \in Nat \ {0}

\* validateMaterialDocumentItemCount and validateSubmittedItemID
ValidCount(items) == Len(items) \in 1..MaxItems
ValidIds(items, create) ==
    \A n \in DOMAIN items : items[n].id # Null =>
       /\ ~create
       /\ \A k \in 1..(n - 1) : items[k].id # items[n].id

\* materialDocumentItemIDs
RowsOf(table, d) == {i \in DOMAIN table : table[i].doc = d}

TopLine(table, d) ==
    LET used == {table[i].line : i \in RowsOf(table, d)} \cup {0}
    IN  CHOOSE top \in used : \A line \in used : line <= top

\* Mutant: rows are moved past the present lines only.
StagedLineShort(table, d, i) == table[i].line + TopLine(table, d)

\* The line a stored row is moved to before any line is written, beyond
\* every line of the document and every line a submission may ask for.
StagedLine(table, d, i) == table[i].line + TopLine(table, d) + MaxItems + 1

\* Lines are written in submitted order under a unique index on document
\* and line: entry n fails on a row that waits at its staged line.
LineTaken(table, d, items, n) ==
    \E i \in RowsOf(table, d) \ {items[k].id : k \in 1..n} :
       StagedLine(table, d, i) = n

\* An id has to be one the document had and no earlier entry has used.
Saveable(table, d, items) ==
    \A n \in DOMAIN items :
       /\ items[n].id # Null => /\ items[n].id \in RowsOf(table, d)
                                /\ \A k \in 1..(n - 1) : items[k].id # items[n].id
       /\ ~LineTaken(table, d, items, n)

RowId(d, version, items, n) ==
    IF items[n].id = Null THEN <<d, version, n>> ELSE items[n].id

\* What stays of a table when the rows of a document are rewritten: the rows
\* of other documents.  Rows the submission does not name are deleted.
KeptRows(table, d) == DOMAIN table \ RowsOf(table, d)

\* The table after the submission is saved; columns(body) is what the table
\* of this kind of document stores of an entry.
Saved(table, d, version, items, columns(_)) ==
    LET ids == {RowId(d, version, items, n) : n \in DOMAIN items}
        kept == KeptRows(table, d)
        entry(i) == CHOOSE n \in DOMAIN items : RowId(d, version, items, n) = i
    IN  [i \in kept \cup ids |->
           IF i \in kept THEN table[i]
           ELSE [doc |-> d, line |-> entry(i), body |-> columns(items[entry(i)].body)]]

\* ON DELETE CASCADE of the lines' foreign key.
WithoutRows(table, d) == [i \in DOMAIN table \ RowsOf(table, d) |-> table[i]]

\* The lines a fetch returns with the header, in one query.
Lines(table, d) == [i \in RowsOf(table, d) |-> table[i]]
=============================================================================
