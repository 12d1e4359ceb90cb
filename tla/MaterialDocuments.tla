-------------------------- MODULE MaterialDocuments --------------------------
(***************************************************************************)
(* Receipts, consumptions and transfers as documents: a header with a      *)
(* version and its lines, edited by clerks who work on copies they fetched *)
(* earlier (internal/services/material{Receipt,Consumption,Transfer}_cust) *)
(* and created by construction managers in their workspaces                *)
(* (internal/services/material{Consumption,Transfer}_workspace).           *)
(*                                                                         *)
(* A clerk's write takes the document's advisory lock first and holds it   *)
(* to the commit, so each is one step.  A manager's request checks the     *)
(* site, the destination and the catalogue in statements of their own,     *)
(* without locks: the catalogue may change between any two of them.  What  *)
(* a document posts to the register is the subject of MaterialRegister.    *)
(***************************************************************************)
EXTENDS DocumentItems

CONSTANTS Clerks,      \* users whose role maintains documents
          Managers,    \* construction site managers
          Sites, Materials, Units,
          Gone,        \* in place of a header that was deleted
          Documents,   \* names <<kind, id>>; an id is never used twice
          Heads,       \* headers a client may submit
          Bodies,      \* line contents a client may submit
          NewItems,    \* lists of line contents submitted in new documents
          MaxVersion,  \* bound on the versions of a document
          MaxCommits   \* bound on the transactions that change something

VARIABLES docs,       \* headers: Null before the insert, Gone after the deletion
          rows,       \* the lines of all documents
          seen,       \* the copy each clerk works on, Null when he has none
          requests,   \* the document each manager is creating, Null when none
          activeSites, assigned, activeMaterials, unitOf,
          commits     \* transactions that have changed something

Kinds == {"receipt", "consumption", "transfer"}
KindOf(d) == d[1]
catalogue == <<activeSites, assigned, activeMaterials, unitOf>>
vars == <<docs, rows, seen, requests, activeSites, assigned, activeMaterials, unitOf, commits>>
Headers == [version : 1..MaxVersion, site : Sites \cup {Null}, to : Sites \cup {Null}]
Present == {d \in Documents : docs[d] \notin {Null, Gone}}

ASSUME DocumentsAssumption ==
    /\ Clerks \cap Managers = {}
    /\ Null \notin Sites \cup Documents /\ Gone # Null
    /\ {Null, Gone} \cap Headers = {}
    /\ Documents \subseteq Kinds \X Nat
    /\ \A head \in Heads : head.site \in Sites \cup {Null} /\ head.to \in Sites \cup {Null}
    /\ \A bodies \in NewItems : Len(bodies) \in Nat /\ DOMAIN bodies = 1..Len(bodies)
    /\ MaxVersion \in Nat \ {0} /\ MaxCommits \in Nat

-----------------------------------------------------------------------------
(* What a submission has to satisfy.                                       *)

ValidReceipt(head, items, create) ==
    /\ ValidCount(items) /\ ValidIds(items, create)
    /\ \A n \in DOMAIN items : LET body == items[n].body IN
          /\ body.site # Null \/ head.site # Null
          /\ body.quant > 0
          /\ 0 <= body.vat /\ body.vat <= body.amount

ValidConsumption(head, items, create) ==
    /\ head.site # Null
    /\ ValidCount(items) /\ ValidIds(items, create)
    /\ \A n \in DOMAIN items : items[n].body.quant > 0

ValidTransfer(head, items, create) ==
    /\ head.site # Null /\ head.to # Null /\ head.site # head.to
    /\ ValidCount(items) /\ ValidIds(items, create)
    /\ \A n \in DOMAIN items : items[n].body.quant > 0

-----------------------------------------------------------------------------
(* Lines and documents as each kind stores and returns them.               *)

QuantityColumns(body) == [mat |-> body.mat, unit |-> body.unit, quant |-> body.quant]
PricedColumns(body) == body

SyncReceiptItems(table, d, version, items) ==
    Saved(table, d, version, items, PricedColumns)
SyncConsumptionItems(table, d, version, items) ==
    Saved(table, d, version, items, QuantityColumns)
SyncTransferItems(table, d, version, items) ==
    Saved(table, d, version, items, QuantityColumns)

Sync(table, d, version, items) ==
    CASE KindOf(d) = "receipt"     -> SyncReceiptItems(table, d, version, items)
      [] KindOf(d) = "consumption" -> SyncConsumptionItems(table, d, version, items)
      [] KindOf(d) = "transfer"    -> SyncTransferItems(table, d, version, items)

FetchReceipt(headers, table, d) ==
    [doc |-> d, version |-> headers[d].version,
     site |-> headers[d].site, to |-> Null, lines |-> Lines(table, d)]
FetchConsumption(headers, table, d) ==
    [doc |-> d, version |-> headers[d].version,
     site |-> headers[d].site, to |-> Null, lines |-> Lines(table, d)]
FetchTransfer(headers, table, d) ==
    [doc |-> d, version |-> headers[d].version,
     site |-> headers[d].site, to |-> headers[d].to, lines |-> Lines(table, d)]

Fetch(headers, table, d) ==
    CASE KindOf(d) = "receipt"     -> FetchReceipt(headers, table, d)
      [] KindOf(d) = "consumption" -> FetchConsumption(headers, table, d)
      [] KindOf(d) = "transfer"    -> FetchTransfer(headers, table, d)

Header(d, version, head) ==
    [version |-> version, site |-> head.site,
     to |-> IF KindOf(d) = "transfer" THEN head.to ELSE Null]

-----------------------------------------------------------------------------
Fresh(bodies) == [n \in DOMAIN bodies |-> [id |-> Null, body |-> bodies[n]]]

\* Lists of lines made of the lines a client knows, or knew, and new ones.
Submissions ==
    UNION {[1..n -> [id : DOMAIN rows \cup {Null}, body : Bodies]] : n \in 0..(MaxItems + 1)}

Init ==
    /\ docs = [d \in Documents |-> Null]
    /\ rows = <<>>
    /\ seen = [c \in Clerks |-> Null]
    /\ requests = [c \in Managers |-> Null]
    /\ activeSites = Sites
    /\ assigned = [c \in Managers |-> Sites]
    /\ activeMaterials = Materials
    /\ unitOf \in [Materials -> Units]
    /\ commits = 0

Commit == commits < MaxCommits /\ commits' = commits + 1

\* The header and its lines in one transaction.
Store(d, version, head, items) ==
    /\ Saveable(rows, d, items)
    /\ Commit
    /\ docs' = [docs EXCEPT ![d] = Header(d, version, head)]
    /\ rows' = Sync(rows, d, version, items)

\* The document as the transaction leaves it is what the clerk gets back.
Shown(c, d) == seen' = [seen EXCEPT ![c] = Fetch(docs', rows', d)]

Insert(d, head, bodies) ==
    /\ docs[d] = Null
    /\ Store(d, 1, head, Fresh(bodies))

\* Mutant: the version stays.
SameVersion(d) == docs[d].version

NextVersion(d) == docs[d].version + 1

\* Mutant: the version submitted may be older.
UnchangedOrNewer(d, version) == docs[d].version >= version

\* The version submitted has to be the stored one.
Unchanged(d, version) == docs[d].version = version

\* The clerk submits the version of the copy he works on.
Current(c, d) ==
    /\ seen[c] # Null /\ seen[c].doc = d
    /\ Unchanged(d, seen[c].version)

Replace(c, d, head, items) ==
    /\ docs[d].version < MaxVersion
    /\ Store(d, NextVersion(d), head, items)
    /\ Shown(c, d)

Remove(d) ==
    /\ d \in Present
    /\ Commit
    /\ docs' = [docs EXCEPT ![d] = Gone]
    /\ rows' = WithoutRows(rows, d)

-----------------------------------------------------------------------------
(* Clerks.                                                                 *)

ReceiptCreate(c) ==
    \E d \in Documents, head \in Heads, bodies \in NewItems :
       /\ KindOf(d) = "receipt"
       /\ ValidReceipt(head, Fresh(bodies), TRUE)
       /\ Insert(d, head, bodies)
       /\ Shown(c, d)
       /\ UNCHANGED <<requests, catalogue>>

ConsumptionCreate(c) ==
    \E d \in Documents, head \in Heads, bodies \in NewItems :
       /\ KindOf(d) = "consumption"
       /\ ValidConsumption(head, Fresh(bodies), TRUE)
       /\ Insert(d, head, bodies)
       /\ Shown(c, d)
       /\ UNCHANGED <<requests, catalogue>>

TransferCreate(c) ==
    \E d \in Documents, head \in Heads, bodies \in NewItems :
       /\ KindOf(d) = "transfer"
       /\ ValidTransfer(head, Fresh(bodies), TRUE)
       /\ Insert(d, head, bodies)
       /\ Shown(c, d)
       /\ UNCHANGED <<requests, catalogue>>

ReceiptUpdate(c) ==
    /\ \E d \in Present :
          /\ KindOf(d) = "receipt" /\ Current(c, d)
          /\ \E head \in Heads, items \in Submissions :
                ValidReceipt(head, items, FALSE) /\ Replace(c, d, head, items)
    /\ UNCHANGED <<requests, catalogue>>

ConsumptionUpdate(c) ==
    /\ \E d \in Present :
          /\ KindOf(d) = "consumption" /\ Current(c, d)
          /\ \E head \in Heads, items \in Submissions :
                ValidConsumption(head, items, FALSE) /\ Replace(c, d, head, items)
    /\ UNCHANGED <<requests, catalogue>>

TransferUpdate(c) ==
    /\ \E d \in Present :
          /\ KindOf(d) = "transfer" /\ Current(c, d)
          /\ \E head \in Heads, items \in Submissions :
                ValidTransfer(head, items, FALSE) /\ Replace(c, d, head, items)
    /\ UNCHANGED <<requests, catalogue>>

\* A deletion names the document and no version.
ReceiptDelete(c) ==
    \E d \in Present :
       KindOf(d) = "receipt" /\ Remove(d) /\ UNCHANGED <<seen, requests, catalogue>>
ConsumptionDelete(c) ==
    \E d \in Present :
       KindOf(d) = "consumption" /\ Remove(d) /\ UNCHANGED <<seen, requests, catalogue>>
TransferDelete(c) ==
    \E d \in Present :
       KindOf(d) = "transfer" /\ Remove(d) /\ UNCHANGED <<seen, requests, catalogue>>

Open(c, d) ==
    /\ seen' = [seen EXCEPT ![c] = Fetch(docs, rows, d)]
    /\ UNCHANGED <<docs, rows, requests, catalogue, commits>>

ReceiptDetail(c) == \E d \in Present : KindOf(d) = "receipt" /\ Open(c, d)
ConsumptionDetail(c) == \E d \in Present : KindOf(d) = "consumption" /\ Open(c, d)
TransferDetail(c) == \E d \in Present : KindOf(d) = "transfer" /\ Open(c, d)

-----------------------------------------------------------------------------
(* Managers.  A site is available to a manager while it is active and      *)
(* assigned to him.                                                        *)

SiteAvailable(c, site) == site \in activeSites /\ site \in assigned[c]

\* The sites a manager is offered to work at.
OfferedSites(c) == {site \in activeSites : site \in assigned[c]}

Destinations == activeSites

ListedConsumptions(site) ==
    {d \in Present : KindOf(d) = "consumption" /\ docs[d].site = site}
ListedTransfers(site) ==
    {d \in Present : KindOf(d) = "transfer" /\ site \in {docs[d].site, docs[d].to}}

ConsumptionAccess(c, d) ==
    \E site \in activeSites : docs[d].site = site /\ site \in assigned[c]
\* Mutant: only the source of a transfer counts.
SourceAccess(c, d) ==
    \E site \in activeSites : docs[d].site = site /\ site \in assigned[c]
TransferAccess(c, d) ==
    \E site \in activeSites : site \in {docs[d].site, docs[d].to} /\ site \in assigned[c]

\* What ConstructionManagerDetail finds: one document or none.
ConsumptionDetailFor(c, d) ==
    IF d \in Present /\ ConsumptionAccess(c, d) THEN {FetchConsumption(docs, rows, d)} ELSE {}
TransferDetailFor(c, d) ==
    IF d \in Present /\ TransferAccess(c, d) THEN {FetchTransfer(docs, rows, d)} ELSE {}

Begin(c, request) ==
    /\ requests[c] = Null
    /\ requests' = [requests EXCEPT ![c] = request]
    /\ UNCHANGED <<docs, rows, seen, catalogue, commits>>

Advance(c, step) ==
    /\ requests' = [requests EXCEPT ![c].step = step]
    /\ UNCHANGED <<docs, rows, seen, catalogue, commits>>

BeginConsumption(c) ==
    \E d \in Documents, head \in Heads, bodies \in NewItems :
       /\ KindOf(d) = "consumption"
       /\ ValidConsumption(head, Fresh(bodies), TRUE)
       /\ SiteAvailable(c, head.site)
       /\ Begin(c, [doc |-> d, head |-> head, bodies |-> bodies, step |-> "catalogue"])

BeginTransfer(c) ==
    \E d \in Documents, head \in Heads, bodies \in NewItems :
       /\ KindOf(d) = "transfer"
       /\ ValidTransfer(head, Fresh(bodies), TRUE)
       /\ SiteAvailable(c, head.site)
       /\ Begin(c, [doc |-> d, head |-> head, bodies |-> bodies, step |-> "destination"])

CheckDestination(c) ==
    /\ requests[c] # Null /\ requests[c].step = "destination"
    /\ requests[c].head.to \in Destinations
    /\ Advance(c, "catalogue")

CataloguedBodies(bodies) ==
    \A n \in DOMAIN bodies :
       /\ bodies[n].mat \in activeMaterials
       /\ unitOf[bodies[n].mat] = bodies[n].unit

CheckConsumptionCatalogue(c) ==
    /\ requests[c] # Null /\ requests[c].step = "catalogue"
    /\ KindOf(requests[c].doc) = "consumption"
    /\ CataloguedBodies(requests[c].bodies)
    /\ Advance(c, "insert")

CheckTransferCatalogue(c) ==
    /\ requests[c] # Null /\ requests[c].step = "catalogue"
    /\ KindOf(requests[c].doc) = "transfer"
    /\ CataloguedBodies(requests[c].bodies)
    /\ Advance(c, "insert")

ManagerInsert(c) ==
    /\ requests[c] # Null /\ requests[c].step = "insert"
    /\ Insert(requests[c].doc, requests[c].head, requests[c].bodies)
    /\ requests' = [requests EXCEPT ![c] = Null]
    /\ UNCHANGED <<seen, catalogue>>

\* A check fails, the register refuses the rows, or the connection is lost.
ManagerRefused(c) ==
    /\ requests[c] # Null
    /\ requests' = [requests EXCEPT ![c] = Null]
    /\ UNCHANGED <<docs, rows, seen, catalogue, commits>>

-----------------------------------------------------------------------------
(* Administrators edit the reference tables.                               *)

EditCatalogue ==
    /\ Commit
    /\ \/ /\ \E site \in Sites : activeSites' \in {activeSites \ {site}, activeSites \cup {site}}
          /\ UNCHANGED <<assigned, activeMaterials, unitOf>>
       \/ /\ \E c \in Managers, of \in SUBSET Sites : assigned' = [assigned EXCEPT ![c] = of]
          /\ UNCHANGED <<activeSites, activeMaterials, unitOf>>
       \/ /\ \E mat \in Materials : activeMaterials' = activeMaterials \ {mat}
          /\ UNCHANGED <<activeSites, assigned, unitOf>>
       \/ /\ \E mat \in Materials, unit \in Units : unitOf' = [unitOf EXCEPT ![mat] = unit]
          /\ UNCHANGED <<activeSites, assigned, activeMaterials>>
    /\ UNCHANGED <<docs, rows, seen, requests>>

ClerkNext(c) ==
    \/ ReceiptCreate(c) \/ ConsumptionCreate(c) \/ TransferCreate(c)
    \/ ReceiptUpdate(c) \/ ConsumptionUpdate(c) \/ TransferUpdate(c)
    \/ ReceiptDelete(c) \/ ConsumptionDelete(c) \/ TransferDelete(c)
    \/ ReceiptDetail(c) \/ ConsumptionDetail(c) \/ TransferDetail(c)

ManagerNext(c) ==
    \/ BeginConsumption(c) \/ BeginTransfer(c)
    \/ CheckDestination(c) \/ CheckConsumptionCatalogue(c) \/ CheckTransferCatalogue(c)
    \/ ManagerInsert(c) \/ ManagerRefused(c)

Next ==
    \/ \E c \in Clerks : ClerkNext(c)
    \/ \E c \in Managers : ManagerNext(c)
    \/ EditCatalogue

Spec == Init /\ [][Next]_vars

-----------------------------------------------------------------------------
(* Properties.                                                             *)

TypeOK ==
    /\ docs \in [Documents -> {Null, Gone} \cup Headers]
    /\ \A i \in DOMAIN rows : rows[i].doc \in Present /\ rows[i].line \in Nat \ {0}
    /\ \A c \in Clerks : seen[c] # Null => seen[c].doc \in Documents
    /\ DOMAIN requests = Managers
    /\ activeSites \subseteq Sites
    /\ assigned \in [Managers -> SUBSET Sites]
    /\ activeMaterials \subseteq Materials
    /\ unitOf \in [Materials -> Units]
    /\ commits \in 0..MaxCommits

\* The lines of every stored document are numbered 1, 2, ... without a gap
\* and without a line twice, whatever sequence of edits, reorderings and
\* removals led there (sync*Items and the unique index they work under).
LinesNumbered ==
    \A d \in Present :
       \E n \in 1..MaxItems :
          /\ {rows[i].line : i \in RowsOf(rows, d)} = 1..n
          /\ \A i, j \in RowsOf(rows, d) : rows[i].line = rows[j].line => i = j

\* A valid list of a document's own lines and of new ones, in whatever
\* order, is saved and never refused by the unique index on document and
\* line (stageMaterialDocumentItemLines).
EveryReorderSaved ==
    \A d \in Present : \A items \in Submissions :
       /\ ValidCount(items) /\ ValidIds(items, FALSE)
       /\ \A n \in DOMAIN items : items[n].id \in RowsOf(rows, d) \cup {Null}
       => Saveable(rows, d, items)

\* Two clients that hold a copy of the same version hold the same document,
\* and one that holds the stored version holds what is stored: what the
\* version check of Update relies on to mean that nothing has changed.
VersionNamesContent ==
    \A c \in Clerks : seen[c] # Null =>
       LET d == seen[c].doc IN
       /\ d \in Present /\ seen[c].version = docs[d].version => seen[c] = Fetch(docs, rows, d)
       /\ \A b \in Clerks :
             seen[b] # Null /\ seen[b].doc = d /\ seen[b].version = seen[c].version
             => seen[b] = seen[c]

\* Whoever changes a stored document had its latest content before the eyes:
\* no clerk overwrites, or deletes a line of, what another one has saved
\* meanwhile.
NoLostUpdate ==
    [][\A c \in Clerks, d \in Present :
          /\ d \in Present' /\ docs'[d] # docs[d]
          /\ seen'[c] # seen[c] /\ seen'[c] = Fetch(docs, rows, d)'
          => seen[c] = Fetch(docs, rows, d)]_vars

\* A manager can open a document exactly if one of the sites he is offered
\* lists it, and every site he is offered is accepted (three queries of the
\* workspaces and two of the balance service that have to agree).
ListedIffReadable ==
    \A c \in Managers :
       LET listed == UNION {ListedConsumptions(site) \cup ListedTransfers(site)
                              : site \in {s \in OfferedSites(c) : SiteAvailable(c, s)}}
       IN  /\ \A site \in OfferedSites(c) : SiteAvailable(c, site)
           /\ \A d \in Present :
                 \/ KindOf(d) = "receipt"
                 \/ /\ KindOf(d) = "consumption"
                    /\ ConsumptionDetailFor(c, d) # {} <=> d \in listed
                 \/ /\ KindOf(d) = "transfer"
                    /\ TransferDetailFor(c, d) # {} <=> d \in listed
=============================================================================
