---------------------------- MODULE SupplyRequests ----------------------------
(***************************************************************************)
(* Material requests from the draft to the choice of suppliers.  Editors   *)
(* write, submit and delete drafts (materialRequest_cust.go); supply       *)
(* managers take submitted requests and assign a supplier to every line    *)
(* (materialRequestSupplierAssignment_workspace.go, ..._create.go);        *)
(* administrators change what both rely on (user.go and the catalogues).   *)
(*                                                                         *)
(* An editor's transaction locks one request before it reads anything and  *)
(* is one step.  An assignment is taken statement by statement: each may   *)
(* wait for a row lock, and sees what others committed before it.  So is   *)
(* the update of a user's sites, which locks the user and then the sites.  *)
(***************************************************************************)
EXTENDS DocumentItems, FiniteSets

CONSTANTS Editors, SupplyManagers,
          Admins,       \* supply managers with the role of an administrator
          Sites, Suppliers, Importances,
          UnitOf,       \* the measure unit of each material
          Gone,         \* in place of a request that was deleted
          Requests,     \* numbers of requests; none is used twice
          Heads,        \* sites an editor may submit
          Bodies,       \* line contents an editor may submit
          NewItems,     \* lists of line contents submitted in new requests
          Starts,       \* requests submitted at the start: [requests, siteOf, items]
          MaxEdits,     \* bound on what editors commit
          MaxChanges    \* bound on what administrators commit

VARIABLES headers,      \* Null before the insert, Gone after the deletion
          rows,         \* the lines of all requests
          seen,         \* the copy each editor works on, Null when he has none
          chosen,       \* lines of assignments: [item, supplier, by]
          txs,          \* the assignment each supply manager is making
          userTx,       \* the update of a user's sites that is under way
          activeSites, assigned, activeSuppliers, activeImportances,
          edits, changes

catalogue == <<activeSites, assigned, activeSuppliers, activeImportances>>
vars == <<headers, rows, seen, chosen, txs, userTx,
          activeSites, assigned, activeSuppliers, activeImportances, edits, changes>>
Statuses == {"draft", "new", "supplier_assigned"}
Headers == [version : Nat, site : Sites, status : Statuses]
Present == {r \in Requests : headers[r] \notin {Null, Gone}}
Users == Editors \cup SupplyManagers

\* What the table of lines stores of an entry.
RequestColumns(body) ==
    [mat |-> body.mat, unit |-> body.unit, quant |-> body.quant,
     importance |-> body.importance, supplier |-> body.supplier, status |-> body.status]

ASSUME RequestsAssumption ==
    /\ Editors \cap SupplyManagers = {} /\ Admins \subseteq SupplyManagers
    /\ Requests \subseteq Nat
    /\ \A r \in Requests : r # Null
    /\ Gone # Null /\ {Null, Gone} \cap Headers = {}
    /\ Null \notin Sites \cup Suppliers
    /\ Heads \subseteq Sites
    /\ \A body \in Bodies : body = RequestColumns(body)
    /\ NewItems \subseteq Seq(Bodies)
    /\ \A start \in Starts : /\ start.requests \subseteq Requests
                             /\ start.siteOf \in [start.requests -> Sites]
                             /\ start.items \in Seq(Bodies)
    /\ MaxEdits \in Nat /\ MaxChanges \in Nat

-----------------------------------------------------------------------------
(* What a submission has to satisfy.                                       *)

ValidRequest(items, create) ==
    /\ ValidCount(items) /\ ValidIds(items, create)
    /\ \A n \in DOMAIN items :
          /\ items[n].body.quant > 0
          /\ create => items[n].body.supplier = Null

\* Materials with their units, and importances that are active or that the
\* line already had.
References(items) ==
    \A n \in DOMAIN items : LET body == items[n].body IN
       /\ body.unit = UnitOf[body.mat]
       /\ \/ body.importance \in activeImportances
          \/ /\ items[n].id \in DOMAIN rows
             /\ rows[items[n].id].body.importance = body.importance

\* New lines start as drafts.
Drafted(items) ==
    [n \in DOMAIN items |->
       IF items[n].id = Null THEN [items[n] EXCEPT !.body.status = "draft"] ELSE items[n]]

SyncRequestItems(table, r, version, items) ==
    Saved(table, r, version, items, RequestColumns)

FetchRequest(heads, table, r) ==
    [request |-> r, version |-> heads[r].version, site |-> heads[r].site,
     status |-> heads[r].status, lines |-> Lines(table, r)]

Fresh(bodies) == [n \in DOMAIN bodies |-> [id |-> Null, body |-> bodies[n]]]

Submissions ==
    UNION {[1..n -> [id : DOMAIN rows \cup {Null}, body : Bodies]] : n \in 1..MaxItems}

-----------------------------------------------------------------------------
(* The locks of the assignments and of the user update under way.          *)

Assigning == {c \in SupplyManagers : txs[c] # Null}

Named(tx) == {tx.requests[n].id : n \in DOMAIN tx.requests}
ToLock(tx) == Named(tx) \ tx.locked
SubmittedVersion(tx, r) ==
    tx.requests[CHOOSE n \in DOMAIN tx.requests : tx.requests[n].id = r].version

\* Requests are locked one after the other in the order of their numbers.
NextToLock(tx) == CHOOSE r \in ToLock(tx) : \A q \in ToLock(tx) : r <= q

RequestFree(r) == \A c \in Assigning : r \notin txs[c].locked
SiteFree(site) ==
    \A c \in Assigning : \A r \in txs[c].locked : headers[r].site # site

\* Rows of user_construction_sites that an assignment of the user shares.
Shared(c) ==
    IF txs[c] # Null /\ c \notin Admins /\ txs[c].step \in {"items", "suppliers", "insert"}
    THEN {headers[r].site : r \in txs[c].locked}
    ELSE {}

\* Mutant: suppliers are looked up without a lock.
SupplierUnlocked(supplier) == supplier \in Suppliers

SupplierFree(supplier) ==
    \A c \in Assigning :
       txs[c].step = "insert" => \A i \in DOMAIN txs[c].suppliers : txs[c].suppliers[i] # supplier

-----------------------------------------------------------------------------
Edit == edits < MaxEdits /\ edits' = edits + 1 /\ UNCHANGED changes
Change == changes < MaxChanges /\ changes' = changes + 1 /\ UNCHANGED edits

\* Some requests are submitted already, with lines as Create takes them.
StartIds(start) == {<<r, 1, n>> : r \in start.requests, n \in DOMAIN start.items}
StartLine(items, i) ==
    [doc |-> i[1], line |-> i[3], body |-> [items[i[3]] EXCEPT !.status = "new"]]

StartFrom(start) ==
    /\ ValidRequest(Fresh(start.items), TRUE)
    /\ headers = [r \in Requests |->
          IF r \in start.requests
          THEN [version |-> 2, site |-> start.siteOf[r], status |-> "new"] ELSE Null]
    /\ rows = [i \in StartIds(start) |-> StartLine(start.items, i)]

Init ==
    /\ \E start \in Starts : StartFrom(start)
    /\ seen = [c \in Editors |-> Null]
    /\ chosen = {}
    /\ txs = [c \in SupplyManagers |-> Null]
    /\ userTx = Null
    /\ activeSites = Sites
    /\ assigned = [c \in Users |-> Sites]
    /\ activeSuppliers = Suppliers
    /\ activeImportances = Importances
    /\ edits = 0 /\ changes = 0

\* The request and its lines in one transaction.
Store(r, version, site, items) ==
    /\ Saveable(rows, r, items)
    /\ Edit
    /\ headers' = [headers EXCEPT ![r] = [version |-> version, site |-> site, status |-> "draft"]]
    /\ rows' = SyncRequestItems(rows, r, version, items)

Shown(c, r) == seen' = [seen EXCEPT ![c] = FetchRequest(headers', rows', r)]

\* Mutant: whatever the status.
DraftOrNot(r) == TRUE

Draft(r) == headers[r].status = "draft"

\* Mutant: the version submitted may be older.
UnchangedOrNewer(r, version) == headers[r].version >= version

Unchanged(r, version) == headers[r].version = version

Create(c) ==
    \E r \in Requests, site \in Heads, bodies \in NewItems :
       /\ headers[r] = Null
       /\ ValidRequest(Fresh(bodies), TRUE) /\ References(Fresh(bodies))
       /\ Store(r, 1, site, Drafted(Fresh(bodies)))
       /\ Shown(c, r)
       /\ UNCHANGED <<chosen, txs, userTx, catalogue>>

Update(c) ==
    /\ seen[c] # Null /\ seen[c].request \in Present
    /\ LET r == seen[c].request IN
       /\ RequestFree(r) /\ Draft(r) /\ Unchanged(r, seen[c].version)
       /\ \E site \in Heads, items \in Submissions :
             /\ ValidRequest(items, FALSE)
             /\ \A n \in DOMAIN items :
                   /\ items[n].body.supplier = Null
                   /\ items[n].id # Null => items[n].body.status = "draft"
             /\ References(items)
             /\ Store(r, headers[r].version + 1, site, Drafted(items))
       /\ Shown(c, r)
    /\ UNCHANGED <<chosen, txs, userTx, catalogue>>

WithStatus(table, items, status) ==
    [i \in DOMAIN table |->
       IF i \in items THEN [table[i] EXCEPT !.body.status = status] ELSE table[i]]

Submit(c) ==
    /\ seen[c] # Null /\ seen[c].request \in Present
    /\ Edit
    /\ LET r == seen[c].request
           items == RowsOf(rows, r)
       IN  /\ RequestFree(r) /\ Unchanged(r, seen[c].version)
           /\ items # {} /\ \A i \in items : rows[i].body.status = "draft"
           /\ rows' = WithStatus(rows, items, "new")
           /\ headers' = [headers EXCEPT ![r].status = "new", ![r].version = @ + 1]
           /\ Shown(c, r)
    /\ UNCHANGED <<chosen, txs, userTx, catalogue>>

\* A deletion names the request and no version.
Delete(c) ==
    /\ Edit
    /\ \E r \in Present :
          /\ RequestFree(r) /\ Draft(r)
          /\ headers' = [headers EXCEPT ![r] = Gone]
          /\ rows' = WithoutRows(rows, r)
    /\ UNCHANGED <<seen, chosen, txs, userTx, catalogue>>

\* A request is opened at an active site that is assigned to the editor.  A
\* copy of a request that is no draft any more leads to nothing: such
\* readings are left out.
RequestAccess(c, r) == \E site \in activeSites : headers[r].site = site /\ site \in assigned[c]

Open(c) ==
    /\ \E r \in Present :
          /\ RequestAccess(c, r) /\ Draft(r)
          /\ seen' = [seen EXCEPT ![c] = FetchRequest(headers, rows, r)]
    /\ UNCHANGED <<headers, rows, chosen, txs, userTx, catalogue, edits, changes>>

-----------------------------------------------------------------------------
(* Supply managers.                                                        *)

Assigned(items) == {line \in chosen : line.item \in items}

SupplySites(c) == {site \in activeSites : c \in Admins \/ site \in assigned[c]}

\* The requests a supply manager is offered.
Incoming(c) ==
    {r \in Present :
       /\ headers[r].site \in SupplySites(c)
       /\ headers[r].status = "new"
       /\ RowsOf(rows, r) # {}
       /\ \A i \in RowsOf(rows, r) : rows[i].body.status = "new" /\ Assigned({i}) = {}}

\* An assignment document is shown to administrators, and to whom all of its
\* sites are assigned.
Visible(c, items) ==
    \/ c \in Admins
    \/ items # {} /\ \A i \in items : headers[rows[i].doc].site \in assigned[c]

Orders(picked) ==
    {order \in [1..Cardinality(picked) -> picked] :
       \A r \in picked : \E n \in DOMAIN order : order[n] = r}

AtStep(c, step) == txs[c] # Null /\ txs[c].step = step

\* A statement waits for a lock that another transaction holds.
Waiting(c) ==
    \/ AtStep(c, "requests") /\ ToLock(txs[c]) # {} /\ ~RequestFree(NextToLock(txs[c]))
    \/ AtStep(c, "insert") /\ userTx # Null /\ userTx.user = c

\* The manager chooses among the requests he has just been shown and names
\* suppliers for lines of theirs; the client may forget a line.
Begin(c) ==
    /\ txs[c] = Null
    /\ \E picked \in SUBSET Incoming(c) \ {{}} :
       \E items \in SUBSET UNION {RowsOf(rows, r) : r \in picked} \ {{}} :
       \E suppliers \in [items -> Suppliers] :
       \E order \in Orders(picked) :
          txs' = [txs EXCEPT ![c] =
                    [requests |-> [n \in DOMAIN order |->
                                     [id |-> order[n], version |-> headers[order[n]].version]],
                     suppliers |-> suppliers, locked |-> {}, step |-> "requests"]]
    /\ UNCHANGED <<headers, rows, seen, chosen, userTx, catalogue, edits, changes>>

Advance(c, step) ==
    /\ txs' = [txs EXCEPT ![c].step = step]
    /\ UNCHANGED <<headers, rows, seen, chosen, userTx, catalogue, edits, changes>>

\* The row is locked, or waited for, and then judged as it is by then.
LockRequest(c) ==
    /\ AtStep(c, "requests") /\ ToLock(txs[c]) # {}
    /\ LET r == NextToLock(txs[c]) IN
       /\ RequestFree(r)
       /\ r \in Present /\ headers[r].site \in SupplySites(c)
       /\ headers[r].status = "new"
       /\ Unchanged(r, SubmittedVersion(txs[c], r))
       /\ txs' = [txs EXCEPT ![c].locked = @ \cup {r}]
    /\ UNCHANGED <<headers, rows, seen, chosen, userTx, catalogue, edits, changes>>

LockAssignments(c) ==
    /\ AtStep(c, "requests") /\ ToLock(txs[c]) = {}
    /\ c \in Admins \/ \A r \in txs[c].locked : headers[r].site \in assigned[c]
    /\ Advance(c, "items")

\* Mutant: a line of a request may be left out.
LockSomeItems(c) ==
    /\ AtStep(c, "items")
    /\ LET items == UNION {RowsOf(rows, r) : r \in txs[c].locked} IN
       /\ DOMAIN txs[c].suppliers \subseteq items
       /\ \A i \in items : rows[i].body.status = "new"
    /\ Advance(c, "suppliers")

\* Every line of the requests has to be named, and nothing else.
LockItems(c) ==
    /\ AtStep(c, "items")
    /\ LET items == UNION {RowsOf(rows, r) : r \in txs[c].locked} IN
       /\ items = DOMAIN txs[c].suppliers
       /\ \A i \in items : rows[i].body.status = "new"
       /\ Assigned(items) = {}
       /\ \A r \in txs[c].locked : RowsOf(rows, r) # {}
    /\ Advance(c, "suppliers")

LockSuppliers(c) ==
    /\ AtStep(c, "suppliers")
    /\ \A i \in DOMAIN txs[c].suppliers : txs[c].suppliers[i] \in activeSuppliers
    /\ Advance(c, "insert")

\* The new document refers to the user: its insertion waits for an update
\* of him.  Then lines and requests are marked, and all is committed.
Insert(c) ==
    /\ AtStep(c, "insert") /\ ~Waiting(c)
    /\ LET suppliers == txs[c].suppliers IN
       /\ Assigned(DOMAIN suppliers) = {}
       /\ Visible(c, DOMAIN suppliers)
       /\ chosen' = chosen \cup
            {[item |-> i, supplier |-> suppliers[i], by |-> c] : i \in DOMAIN suppliers}
       /\ rows' = [i \in DOMAIN rows |->
            IF i \in DOMAIN suppliers
            THEN [rows[i] EXCEPT !.body.supplier = suppliers[i], !.body.status = "supplier_assigned"]
            ELSE rows[i]]
       /\ headers' = [r \in Requests |->
            IF r \in txs[c].locked
            THEN [headers[r] EXCEPT !.status = "supplier_assigned", !.version = @ + 1]
            ELSE headers[r]]
    /\ txs' = [txs EXCEPT ![c] = Null]
    /\ UNCHANGED <<seen, userTx, catalogue, edits, changes>>

\* A check fails.
Refuse(c) ==
    /\ txs[c] # Null /\ ~Waiting(c)
    /\ txs' = [txs EXCEPT ![c] = Null]
    /\ UNCHANGED <<headers, rows, seen, chosen, userTx, catalogue, edits, changes>>

\* The connection is lost, be it while the statement waits.
Abandon(c) ==
    /\ txs[c] # Null
    /\ txs' = [txs EXCEPT ![c] = Null]
    /\ UNCHANGED <<headers, rows, seen, chosen, userTx, catalogue, edits, changes>>

-----------------------------------------------------------------------------
(* Administrators.                                                         *)

\* The user's row is locked first.
BeginUserUpdate ==
    /\ userTx = Null /\ Change
    /\ \E c \in Users, sites \in SUBSET Sites : userTx' = [user |-> c, sites |-> sites]
    /\ UNCHANGED <<headers, rows, seen, chosen, txs, catalogue>>

\* The rows of all the sites he has are locked, whether they stay or not.
SyncUserSites ==
    /\ userTx # Null
    /\ userTx.user \in SupplyManagers => Shared(userTx.user) \cap assigned[userTx.user] = {}
    /\ assigned' = [assigned EXCEPT ![userTx.user] = userTx.sites]
    /\ userTx' = Null
    /\ UNCHANGED <<headers, rows, seen, chosen, txs, activeSites, activeSuppliers,
                   activeImportances, edits, changes>>

\* Mutant: nobody looks for deadlocks.
IgnoreDeadlock == userTx # Null /\ userTx.user \notin Users /\ UNCHANGED vars

\* The database ends one of two transactions that wait for each other.
BreakDeadlock ==
    /\ userTx # Null /\ userTx.user \in Assigning
    /\ txs[userTx.user].step = "insert"
    /\ Shared(userTx.user) \cap assigned[userTx.user] # {}
    /\ \/ txs' = [txs EXCEPT ![userTx.user] = Null] /\ UNCHANGED userTx
       \/ userTx' = Null /\ UNCHANGED txs
    /\ UNCHANGED <<headers, rows, seen, chosen, catalogue, edits, changes>>

EditCatalogue ==
    /\ Change
    /\ \/ /\ \E site \in Sites : SiteFree(site)
                /\ activeSites' \in {activeSites \ {site}, activeSites \cup {site}}
          /\ UNCHANGED <<activeSuppliers, activeImportances>>
       \/ /\ \E supplier \in Suppliers : SupplierFree(supplier)
                /\ activeSuppliers' \in {activeSuppliers \ {supplier}, activeSuppliers \cup {supplier}}
          /\ UNCHANGED <<activeSites, activeImportances>>
       \/ /\ \E importance \in Importances : activeImportances' = activeImportances \ {importance}
          /\ UNCHANGED <<activeSites, activeSuppliers>>
    /\ UNCHANGED <<headers, rows, seen, chosen, txs, userTx, assigned>>

-----------------------------------------------------------------------------
EditorNext(c) == Create(c) \/ Update(c) \/ Submit(c) \/ Delete(c) \/ Open(c)
Assign(c) ==
    \/ LockRequest(c) \/ LockAssignments(c) \/ LockItems(c) \/ LockSuppliers(c)
    \/ Insert(c) \/ Refuse(c)

Next ==
    \/ \E c \in Editors : EditorNext(c)
    \/ \E c \in SupplyManagers : Begin(c) \/ Assign(c) \/ Abandon(c)
    \/ BeginUserUpdate \/ SyncUserSites \/ BreakDeadlock \/ EditCatalogue

\* A request waits in a queue for a row, and the database looks for
\* deadlocks.  What people begin is up to them.
Fairness ==
    /\ \A c \in SupplyManagers : SF_vars(Assign(c))
    /\ WF_vars(SyncUserSites) /\ WF_vars(BreakDeadlock)

Spec == Init /\ [][Next]_vars /\ Fairness

-----------------------------------------------------------------------------
(* Properties.                                                             *)

TypeOK ==
    /\ headers \in [Requests -> {Null, Gone} \cup Headers]
    /\ \A i \in DOMAIN rows : rows[i].doc \in Present /\ rows[i].body.status \in Statuses
    /\ DOMAIN txs = SupplyManagers
    /\ \A c \in Assigning : txs[c].locked \subseteq Named(txs[c])
    /\ userTx # Null => userTx.user \in Users /\ userTx.sites \subseteq Sites
    /\ activeSites \subseteq Sites /\ activeSuppliers \subseteq Suppliers
    /\ assigned \in [Users -> SUBSET Sites]

\* A request's status is that of each of its lines; a line has a supplier
\* exactly if its status says so, and exactly one assignment names it, with
\* that supplier (Submit, Update and SupplyManagerCreate keep three tables
\* in step).
StatusesAgree ==
    \A r \in Present :
       /\ headers[r].status # "draft" => RowsOf(rows, r) # {}
       /\ \A i \in RowsOf(rows, r) :
             /\ rows[i].body.status = headers[r].status
             /\ IF headers[r].status = "supplier_assigned"
                THEN Cardinality(Assigned({i})) = 1
                     /\ \A line \in Assigned({i}) : line.supplier = rows[i].body.supplier
                ELSE Assigned({i}) = {} /\ rows[i].body.supplier = Null

\* Once submitted, a request stays: its site, its lines and what they ask
\* for never change, and only a supplier is added, to all lines at once.
SubmittedStands ==
    [][\A r \in Present : headers[r].status # "draft" =>
          /\ r \in Present' /\ headers'[r].site = headers[r].site
          /\ RowsOf(rows', r) = RowsOf(rows, r)
          /\ \/ headers'[r] = headers[r] /\ Lines(rows', r) = Lines(rows, r)
             \/ /\ headers[r].status = "new" /\ headers'[r].status = "supplier_assigned"
                /\ \A i \in RowsOf(rows, r) :
                      [rows'[i] EXCEPT !.body.supplier = Null, !.body.status = "new"] = rows[i]]_vars

\* Whoever submits or rewrites a draft had its latest content before the
\* eyes (the version check of Submit and Update).
SubmittedAsSeen ==
    [][\A c \in Editors, r \in Present :
          /\ r \in Present' /\ headers'[r] # headers[r]
          /\ seen'[c] # seen[c] /\ seen'[c] = FetchRequest(headers, rows, r)'
          => seen[c] = FetchRequest(headers, rows, r)]_vars

\* When suppliers are assigned, each is active, and so are the sites, which
\* are the manager's: what an earlier statement has read no administrator
\* has withdrawn before the commit.
AssignedInForce ==
    [][\A line \in chosen' \ chosen :
          LET site == headers[rows[line.item].doc].site IN
          /\ line.supplier \in activeSuppliers
          /\ site \in activeSites
          /\ line.by \in Admins \/ site \in assigned[line.by]]_vars

\* An assignment is committed or refused in the end, although it may wait
\* for the update of its author's sites while that waits for it.
EveryAssignmentEnds == \A c \in SupplyManagers : txs[c] # Null ~> txs[c] = Null
=============================================================================
