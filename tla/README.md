# Verification of skstruktura_srv

TLA+ models, TLC configurations and TLAPS proofs for the server in this
repository: a construction company's back office with a materials register
(receipts, consumptions and transfers between construction sites, valued at
weighted-average cost), an import of supplier documents from Diadoc, and a MAX
messenger bot. Two processes run it, `cmd/skstruktura` (HTTP application and
Diadoc poller) and `cmd/max` (bot), over one PostgreSQL database, in whose
triggers and functions a large part of the logic lives
(`migrations/000054_material_inventory_valuation.up.sql` above all).

    tlc -config MCMaterialRegister_chain.cfg MCMaterialRegister
    tlc -config MCMaterialDocuments_editors.cfg MCMaterialDocuments
    tlc -config MCSupplyRequests_workspace.cfg MCSupplyRequests
    tlapm MaterialRegisterProofs.tla
    tlapm SupplyRequestsProofs.tla

and so on for every `MC*_*.cfg` and every `*Proofs.tla`.

## 1. The system

### Components, state, operations, what makes them correct

| Component | Code | State | Operations | Correct when |
|---|---|---|---|---|
| Inventory valuation replay | 000054 `materials_revalue` | none of its own; writes `amount`, `amount_pending` of `ra_materials` | one replay: passes over all rows in business order | nothing pending without shortages, exact depletion, transfers conserve value, result independent of what was stored before |
| Materials register and periods | 000013, 000054, `services/materialRegister.go`, `inventoryValuation.go` | `ra_materials`, `rg_materials_*`, `register_settings`, closures, snapshots | add act, remove acts, recalculate, change settings, close, reopen | rows are those of the documents; closed periods stand; balances are those of the rows; policy of negative stock |
| Material documents | `services/material{Receipt,Consumption,Transfer}_cust.go`, `materialDocuments.go`, 000021 | headers with versions, lines | Create, Update, Delete, DocumentDetail | lines reconciled with the client's in any order, stale versions refused, posted exactly once |
| MAX outgoing queue | `maxbot/store.go`, `sender.go` | `max_out_messages` | queue, claim, send, mark, requeue stale | every message is delivered or failed in the end; attempts bounded |
| MAX incoming updates | `maxbot/poller.go`, `processor.go`, `store.go` | `max_in_messages`, `max_users`, the marker in memory | poll, process a batch, bind a contact | no update lost; a replayed batch does no harm |
| MAX login | `services/userMaxAuth.go`, `userLogin.go`, `maxbot/store_auth.go`, 000039 | `max_auth_requests` | request, approve or decline in the messenger, complete, expire; administrators' CRUD of `max_users` and `entity_contacts` | one login per approval, by the approved user only, before expiry |
| Diadoc synchronisation | `integrations/diadoc/manager.go`, `store.go` | one state row: tokens, box, cursor; the copy in memory | poll, authorize, replay, change settings | the cursor never passes an event that was not staged; tokens do not go back |
| Diadoc import buffer | `integrations/diadoc/buffer_store.go`, `services/diadoc*.go` | staged documents and items | stage, resolve, exclude, ignore, restore, retry, import | imported at most once; a replayed event does not undo a decision |
| Material requests | `services/materialRequest_*.go`, 000047 | requests, lines, their statuses, version | Create, Update, Submit, Delete, detail | a submitted request stands; who submits or rewrites has seen the latest content |
| Supplier assignment | `services/materialRequestSupplierAssignment_*.go`, 000053 | assignments, one line for each line of a request | SupplyManagerCreate, incoming requests, lists | requests, lines and assignments agree; what an assignment relies on is in force at its commit |
| Material status workspace | `services/materialStatus_workspace.go`, `materialStatus.gen.go` | a log of status records | ConstructionManagerCurrent, History, Create; CRUD | a record reverses the one its author saw; the site has the material |
| Construction manager workspaces | `services/material{Consumption,Transfer}_workspace.go`, `materialBalance.go` | none | Create, List, Detail for the manager's own sites | lists and details agree on who may see what |
| Users and sessions | `services/user.go`, `userLogin.go` | users, their sites, sessions, logins | CRUD, Login, Logout | a user's sites do not change under a transaction that relies on them |
| Menu cache, permissions | `services/mainMenu*.go`, `permission.go` | a cache per role | invalidate, reload | cache not older than the last write |
| Reports and read models | `services/*_read.go`, `materialActionReport.go`, `materialBalance.go` | none | queries | |
| Object history | 000024, `objectHistory.go` | audit rows | triggers | |
| HTTP API, configuration, generated catalogues | `httpapi/`, `config/`, `*.gen.go` | none | decode, call, CRUD | |

### How they interact

A material document is written by one HTTP request and one transaction: the
service takes an advisory lock on the recorder, writes the document and its
items, removes the old rows of the register, posts the new ones
(`ra_materials_add_act`, whose trigger adds the row to the balance tables), and
finally calls `materials_revalue()`, which replays the register, updates the
values of all rows, truncates the balance tables and builds them anew.
Requests for supplies, their assignment, and the import of a staged Diadoc
document create material documents through the same functions. Closing and
reopening are requests of the accountant that lock the settings row and run the
same replay. The bot is driven by two tables: the messenger's updates are
written to one, with their consequences, in a single transaction, and the
sender takes messages from the other; the application uses the second to ask
for the approval of a login.

A request for supplies is written by a site manager as a draft, submitted, and
then taken up by a supply manager, who assigns a supplier to each of its lines.
Both rely on what administrators maintain: users and their sites, sites,
suppliers, materials, importances. A status report on a material relies on the
balance of the site, and hence on the documents. All of these meet in row locks
(`FOR UPDATE`, `FOR SHARE`, foreign keys) and, where the register is rebuilt, in
a table lock.

### What is hard here

* Every transaction of the register runs at READ COMMITTED, reads the cutoff
  and the policy without locks, and takes three kinds of locks in an order that
  depends on the rows it touches: late documents, stale values, deadlocks.
* The replay is iterative and order-dependent; it has a pass limit, rounding,
  shortages paid later and transfers whose value depends on other positions.
* Closing and reopening form a history with marks, a cutoff and snapshots that
  have to agree.
* The bot's queue survives crashes by timeouts, so a message may be claimed
  twice, sent twice, or marked by a sender that no longer holds it.
* The Diadoc state is cached in memory, and written whole by several goroutines.
* A decision about one staged document is applied to others, which other users
  have open, which the worker stages anew, or whose content is just being loaded.

* Documents and requests are edited on copies; the version has to mean that
  nothing has changed, and lines are renumbered under a unique index.
* An assignment and a change of status are sequences of locking statements, each
  of which sees what others committed before it; two such sequences may wait for
  each other.
* The bot applies an update once in a transaction, but may fetch it again.

PROJECT.json lists these hazards one by one, at their lines.

## 2. Modules

| Module | Models | Proved about |
|---|---|---|
| `Valuation` | the replay as a function of the rows and the values stored before | the replay of any rows, in `MaterialRegisterProofs`, and one theorem there |
| `PeriodBook` | abstract specification: a book of dated entries with a cutoff | |
| `AccountingPeriods` | what the next two share: values, settings, closures, and the guard of dates | |
| `MaterialRegister` | documents, register, settings, closures, snapshots; one committed transaction per step; implements `PeriodBook` | twelve theorems |
| `MaterialRegisterProofs` | the theorems and their lemmas | |
| `RegisterTransactions` | the same transactions statement by statement, several open at once | six theorems, in `MaterialRegisterProofs` |
| `MaxOutbox` | the queue of outgoing messages and the senders that empty it | six theorems |
| `MaxOutboxProofs` | the theorems and their lemmas | |
| `DiadocSync` | the synchronisation with Diadoc: cursor, tokens, box and switch in one row and one copy of it | three theorems |
| `DiadocSyncProofs` | the theorems and their lemmas | |
| `ImportLedger` | abstract specification: a document is in work, put aside, or imported once and for good | |
| `DiadocBuffer` | the staged documents, their matches and the receipts made from them; implements `ImportLedger` | five theorems |
| `DiadocBufferProofs` | the theorems and their lemmas | |
| `DocumentItems` | how any document stores its lines: staging, numbering, ids | lemmas, in the modules that use it |
| `MaterialDocuments` | receipts, consumptions and transfers with versions; clerks with copies, managers with checks, administrators | six theorems |
| `MaterialDocumentsProofs` | the theorems and their lemmas | |
| `SupplyRequests` | requests from the draft to the choice of suppliers; editors, supply managers, administrators | five theorems |
| `SupplyRequestsProofs` | the theorems and their lemmas | |
| `MaterialStatus` | status records, made statement by statement, with documents and administrators | four theorems |
| `MaterialStatusProofs` | the theorems and their lemmas | |
| `MaxLogin` | logins approved in the messenger, and the updates the bot fetches | four theorems |
| `MaxLoginProofs` | the theorems and their lemmas | |
| `MC...` | an instance for TLC of each module that is run | |

### Valuation

A row is a record with the columns the replay reads. `ReplayKey` is the order of
the cursor (`effective_at`, type rank, recorder, item, movement order, id).
`Visit` is the body of the loop: an incoming row without an amount
(`ReceiveUnvalued`), with one (`ReceiveValued`, which first pays shortages in
`CoverShortages`), an outgoing one (`Issue`). `Pass` is one pass and what it
stores, `Revalued` the limited iteration. `Balance` is `rg_materials_balance`.

Money and quantities are `numeric(19,4)`: both are integers that count the last
decimal place, and `RoundDiv` is `round(x, 4)`. The unit cost is exact, where
PostgreSQL's division keeps at least 16 digits. Receipts have amounts in cents,
so in the runs a receipt's amount is a multiple of 100. Width is not modelled.

### MaterialRegister

`docs` are the stored documents, `ledger` the immutable part of the rows, `val`
the calculated part, then the settings, `closures` and `snapshots`. A step is a
transaction that committed: `Create`, `Update`, `Delete` (services
`*_cust.go`), `SetNegativePolicy`, `SetVatBasis` (the rebuild of the whole
register under another basis), `Recalculate`, `Close`, `Reopen`. A request that
raises an error leaves no trace, so its guard is simply false. Guards and their
order follow the triggers: `materials_assert_open_date` on the old and the new
date of the document, the policy of negative stock in the replay, the checks of
`materials_close_period`. Row ids are slots in the order of insertion.

### RegisterTransactions

A request of a batch is one transaction; `tx[r]` is what only it sees: rows
inserted and deleted, values stored, locks, variables of the replay. `Visible`
and `Values` are what its next statement sees under READ COMMITTED. `WaitsFor`
names the transactions whose locks the next statement needs: row locks of the
register, the table lock and the line locks of the balance tables, the settings
row, a closure. `TRUNCATE` needs the table without any other writer.
`BreakDeadlock` is the database's detector, `Cancel` a client that goes away.
Values, settings and closures are variables of `AccountingPeriods`, as in
`MaterialRegister`. The behaviour is `TxSpec`, beside `Spec` there, so that one
proof module can extend both and use the lemmas on the replay for both.

Assumptions on the constants: requests are of the known kinds
(`RequestsAssumption`); documents list their own rows, and one document has one
writer in a batch, since `pg_advisory_xact_lock` on a recorder lets one change of
it in at a time (`DocumentsAssumption`); a document posts rows as its trigger does,
each under a name of its own, with the sign of its type, the arrival of a transfer
with its issue (`PostingAssumption`).

Simplifications, each making the model coarser than the database: the row locks
of one UPDATE or DELETE are taken together; the guard of an item is merged with
that of its document; the tables for the current balance and for the periods
count as one; a waiting `TRUNCATE` does not hold up later writers (the database
would queue them, so the model allows more interleavings); no two requests of a
batch write the same document (the advisory lock would serialise them).

### MaxOutbox

`status`, `attempts`, `lockAge` and `wait` are the columns of a message
(`attempt_count`, `locked_at`, `next_attempt_at`); `pc[s]` and `job[s]` are where
a sender is in `Sender.Run` and `drain`, and the message it holds. Each call of
the store is one step, because each is one statement; `SendMessage` is another.
The initial drain, the ticker and the notification are one wake-up (`Requeue`).

Time is kept as ages and countdowns. `Tick` moves them, but not beyond
`HoldLimit` for a sender that holds a message, which stands for what the code
bounds (the rate limit of half a second and the client's timeout of 15 seconds
before the mark) and for what it does not (statements have no timeout). With
`HoldLimit <= LockTimeout` (two minutes by default) a claim cannot be taken from
a sender that is alive; the properties that need this say so. `faults` counts
crashes, failed statements and lost answers, and is what the bounds on attempts
and deliveries are paid from. A statement whose answer is lost is the statement
followed by `LoseDatabase`.

### DiadocSync

`row` is `integration_diadoc.state`, `mem` the manager's copy of it. Three
activities share them: `sync` is a synchronisation (`Manager.Sync`, by the worker
or on request), `admin` a request of the administrator (`UpdateState`, `Replay`
in `services/diadocState.go`), `grant` the authorization callback
(`CompleteAuthorization`). The first two exclude each other by `pollMu`; every
access to the copy is under `stateMu`, and one critical section is one step, the
statement that saves the copy included, because the code holds the mutex while
it saves. `Saved` writes everything but the switch, as `Store.Save` does.
`ReloadState` is two steps: the row is read before the mutex is taken.

Events are numbered in the order of their index keys, and stand for their times
as well; a date is the number of the first event after it. `First` and `Last`
are what `GetNewEvents` returns (modelled from its parameters, external). An
event has `Parts` documents, staged one by one; an event without any would only
move the cursor. `staged` is a set of identities, as `integration_diadoc.documents`
has a unique key on them. A failed download is staged as a failed document; an
error of the database or of the list of events ends the synchronisation
(`FailSync`). `told` records what the administrator may rely on: what his last
answered requests said.

Simplifications: one process runs the manager; the exchange of the code for a
token is merged with its save, and the check of the callback's state value is
left out; versions of the row only refuse requests, so they are left out; the
time stamps of the last synchronisation are left out.
`RetryDocument` stages a document that is in the buffer already, and belongs to
`DiadocBuffer`.

### DiadocBuffer

`doc[d]` is a row of `integration_diadoc.documents` with its items, `receipt[d]`
the receipt with that source; `supplierMatch` and `materialMatch` are what users
have asked to remember. `Stage` is what `processEvent` does for one document
(`stageDocumentTx` with `replaceDocumentItemsTx`, the matches and the readiness),
`Replay` the part of the administrator's replay that concerns documents. The
requests of users (`services/diadocResolution.go`, `diadocActions.go`) are
`Ignore`, `Restore`, `SetItemUse` (excluding and restoring a line), `Import`,
`BeginRetry` and `FinishRetry`, and a resolution. Each carries the version of the
document that the user was shown: `view[u]` is that document as it was at `Open`,
and `LockCurrent` is the lock of the row with the comparison of the versions.
The state that the user was shown is kept whole, so that properties can speak of
it; the code compares the number only.

A transaction that writes one document is one step. A resolution also fills the
supplier of the sender's other documents and the material of other lines with the
same key, and evaluates their readiness: `BeginResolve` ends with the snapshot in
which that is done, `CommitResolve` is the rest. In between others may commit what
the row and line locks of the resolution (`RowFree`, `ItemFree`) let pass, and
`Propagated` shows the consequence: the row it updates is the current one, but
its status is that of the lines seen in the snapshot. A retry is two steps around
the download, which runs under `pollMu` (`retry`) and without any lock in the
database; its version is not compared again afterwards.

Simplifications: a receipt is reduced to supplier, site and matched lines, and
its posting is `MaterialRegister`'s; a site applies to the whole document; a
material, its unit and its factor are one `Target`, of which `Vanishing` are those
that round the quantity to zero; a document has one event, and every version of it
the same lines; lines of one key are given one target by one request; several
increments of a version in one transaction count as one. A transaction that would
wait for a line lock does not begin, although it might hold the document's row
while it waits. Suppliers, sites and materials are activated and deactivated by
`ToggleActive`, which stands for their catalogues. The statuses `revoked` and
`superseded` are never set by the code and are left out.

### DocumentItems and MaterialDocuments

`DocumentItems` is what the four kinds of documents share
(`stageMaterialDocumentItemLines` and the `sync*Items` of
`services/materialDocuments.go`). Stored lines are first moved beyond every line
of the document and beyond `materialDocumentMaxItems` (`StagedLine`), then the
submitted ones are written one by one in their order; `LineTaken` is the unique
index that could refuse one. `Saved` is the table afterwards.

In `MaterialDocuments` a clerk holds a copy (`seen`) of the document as a fetch
returned it, and submits a list of lines with the version of the copy, which may
be long stale. `ReceiptCreate`, ..., `TransferDelete` are the methods of the
three services; they take the document's advisory lock before they read
anything, so each is one step. The workspace of a site manager checks the site,
the destination and the catalogue in statements of their own and without locks
before it inserts, so its request is `Begin...`, `Check...`, `ManagerInsert`, and
`EditCatalogue` may come in between. `ConsumptionAccess`, `TransferAccess`,
`ListedConsumptions` and `ListedTransfers` are four of its queries. What a
document posts is left to `MaterialRegister` and, statement by statement, to
`RegisterTransactions`.

Simplifications: the database numbers new lines from a sequence, of which only
freshness is used, so a new line is named after its document, version and place;
comments, numbers and references that are only looked up are left out.

### SupplyRequests

`headers` and `rows` are requests and their lines, `chosen` the lines of
assignments. Editors' transactions lock one request before they read and are one
step each (`Create`, `Update`, `Submit`, `Delete`, `Open`). An assignment
(`SupplyManagerCreate`) is a transaction `txs[c]` of several steps in the order
of its statements: `LockRequest` for each request in the order of their numbers
(`FOR UPDATE` of the request, `FOR SHARE` of its site), `LockAssignments`
(`FOR SHARE` of the manager's rows of `user_construction_sites`, not for an
administrator), `LockItems`, `LockSuppliers`, `Insert`. `RequestFree`, `SiteFree`,
`Shared` and `SupplierFree` are those locks as the others meet them. `Insert`
also needs the user's row for its foreign key, which is how it may wait for
`BeginUserUpdate`/`SyncUserSites` (`services/user.go`), which in turn waits for
the shared rows: `BreakDeadlock` is the database's detector, and may end either.

Simplifications: quantities, dates and comments are carried and not changed; the
statuses that no code sets (`ordered`, `fulfilled`, `cancelled`) are left out;
administrators' edits of catalogues are one statement each.

### MaterialStatus

`statuses` is the log, in the order of the ids; `Latest` is the query with two
orders (time, id) behind `fetchConstructionManagerMaterialStatusLatest`. A change
(`ConstructionManagerCreate`) goes through `CheckSite`, `LockMaterial`,
`FetchLatest`, `CheckTransition` and `Insert`. From its second statement on it
holds `rg_materials_current` in ROW SHARE mode, and then the rows of the material
and the balance. A document holds rows of both from its first statements and
needs the table exclusively when it rebuilds it (`HoldsTable`, `DocumentHolds`):
the two may wait for each other, and `Refuse` and `AbortDocument` include the end
the database makes of that. Documents come one after the other here.
`txs[c].edits` is a history variable, used by one property only. An administrator
may change any field of a record (`AdminUpdate`), and makes new ones at the latest
instant.

### MaxLogin

`requests` are the rows of `max_auth_requests`, `calls[b]` is where a browser
window is in `CompleteMaxLogin`: the request's status, the user, the session
(`Enter`) and the consumption are separate statements, under the advisory lock of
the session (`SessionFree`). `LoginUser` is the common part of both kinds of
login. The bot keeps its marker in memory (`poller`); a batch is fetched, applied
update by update in a transaction each (`SaveUpdate`), and left at the first
failure, to be fetched again. `feed` is MAX itself, which sends what follows the
marker (modelled from the parameters of the call). After a page for which MAX has
sent no marker the bot keeps the one it has (`maxbot/poller.go:71`), and the page
is fetched and applied again although nothing failed: the second disjunct of
`ProcessUpdate`, counted in `unmarked`. Time is one flag for each request
(`Lapse`). Replies are counted, and their delivery is `MaxOutbox`'s.

A button may be pressed by any account (`Send`): that only the one the request is
for decides is the condition `max_user_id = $2` of every statement of
`processMaxAuthCallback`, which is `Addressed`. Whoever presses becomes known and
active by it, as by any update.

Administrators make, change in any column and delete the rows of accounts
(`EditAccount`, the CRUD of `maxUser.gen.go`), give contacts to users and take
them away (`EditContact`), and users are banned (`Ban`; nothing in the code writes
that column). The messages to an account keep its row from being deleted
(`Addressee`, ON DELETE RESTRICT in 000037). What administrators have changed may
contradict the updates; `edited` and `unbound` are history variables that say
whose row was changed since an update of it was applied, and who was deleted or
lost the contact since sharing one. `UpdatesTakeEffect` is silent about these and
about nothing else. Left out: an administrator who changes the `max_user_id` of a
row, after which its requests and messages are another account's by ON UPDATE
CASCADE; an account of the model is the row of one MAX id. That a contact or a
user is deleted is, for these tables, that its link is taken away.

`contact.is_active` is left out: the code looks at it when a login is asked for
and never again. An update that can never be processed holds up the poller for
ever (`maxbot/poller.go:59`), so no liveness is stated.

## 3. Runs

| Run | Question | Instance |
|---|---|---|
| `register_chain` | valuation and policy over every history of documents | a receipt, two transfers forth and back, a consumption; two sites, four instants, two VAT bases |
| `register_period` | closing, reopening, closing again, with documents on both sides of the cutoff; refinement of `PeriodBook` | two receipts, a transfer, two business days, two closures |
| `transactions_office` | committed balances and values, the policy, closed rows, and termination, when clerks and the accountant write at once | three batches: four clerks posting, updating and deleting; two closings, a reopening, a deletion and an update; a change of policy, a recalculation and two documents; every interleaving, deadlocks and cancellations |
| `transactions_late` | a document posted into a day being closed (violated) | one closing, one receipt |
| `outbox_timely` | are claims exclusive, attempts and deliveries bounded? | two messages, two senders, two attempts, two faults; no sender slower than the lock timeout |
| `outbox_stalled` | what is left when senders are slower, and does every message end? | the same with one fault and senders that may take longer |
| `sync_worker` | is the cursor behind what is staged, a pause obeyed, every event staged in the end? | three events of two documents, pages of two, two requests, two tokens, one fault |
| `buffer_users` | is a document imported once, complete, and as its user saw it; do choices stand? refinement of `ImportLedger` | two documents of one sender, two lines with keys in common, two users, six requests |
| `documents_editors` | is any order of lines saved, no change lost, a version one content, and do lists and details agree? | two clerks, a manager, a document of each kind, two lines, three commits |
| `supply_workspace` | do three tables stay in step, does what was submitted stand, is what is assigned in force, and does every assignment end? | two editors, a supply manager and an administrator who assigns, two requests at two sites, three commits of editors, one of administrators |
| `status_sites` | do records alternate and reverse what was shown, of a material the site has? | two managers at two sites with one material, three records, and one event: a document, an edit of a record or one of the catalogue |
| `login_approvals` | is a login approved by its own account and not repeated, does a decision stand, is no update lost? | two windows of one session, two accounts that share one phone number, two users it may belong to, two requests, two updates, one page without a marker, and one event: a fault, an administrator's change or a login with a password |

*Bounds.* The instances are chosen so that every branch of the replay is taken:
chains need three passes (two transfers and back), shortages are covered whole
and in part, lines of one document share an instant, and an emptied balance is
reached by transfer and by consumption. Positions are independent of each other
except through transfers, so two sites and one material show what there is.
`MaxClosures` bounds the history; two closures suffice for the mark, the cutoff
and the snapshot to disagree. The runs say nothing about more transfers in a
cycle than two, where the pass limit already ends the replay too early.
`transactions_office` leaves insertions of documents into the closing day
out, because `transactions_late` shows them violating the property. In the
queue, two messages make the order and the skipping of what is not due matter,
two senders overlap, two attempts reach the limit with and without a fault, and
two faults let a claim be lost twice. In the
synchronisation, three events and pages of two make a full page and one that is
not; two requests are enough to pause and to enable or replay afterwards, and
two tokens to authorize twice or to refresh in between; the one fault is a
crash, a failed statement or a failed call at any place. In the buffer, two
documents with the same keys are what a resolution needs to reach another
document, and two users (interchangeable, hence the symmetry) to overlap; six
requests let a document be staged, opened by both, resolved, deactivated, opened
again and imported. The five resolutions are all lines, one line (either), a
match whose quantity vanishes, and the withdrawal of a match. Only the target
`bag` is deactivated: it is enough to make a ready document unfit. No supplier has
the sender's INN, so a supplier comes from a match only; that he may be found by
his INN is covered by the theorems, which need none of these bounds.
In the documents, two lines are enough to exchange numbers, to drop one and to
add one, and three commits for one clerk to overtake the other; within them
`MaxVersion` does not bind. In the requests, two at
different sites make the order of the locks and the sites of one manager matter;
some start submitted, so that the three edits are spent on what may interfere.
In the statuses, both sites have the material from the start, and the movement
that can come or go is earlier than the present stock, so that a balance in the
past may differ from today's. Documents, edits of records and edits of the
catalogue share one bound (`MaxEvents`), since an edited record and a document
touch different tables; the theorems cover any number of each. In the logins, two updates are an approval with a
refusal, or an approval that is fetched twice, or the approval of somebody else;
a second window of the same session is what the advisory lock is for. One phone
number is enough for accounts to differ: the one a request is for and one that
has the same contact, which makes the number ambiguous. Faults,
administrators' changes and logins with a password share one bound
(`MaxEvents`), as the state space allows only one of them; an update applied
again meets an administrator's change all the same, by a page without a marker.
Two such events in one behaviour are covered by the theorems only.
`transactions_office` starts from a register that is not empty: when it is
empty no row lock makes a change of the policy and a first document meet, and
`NegativeStockDisabled` does not hold. It checks the rows of closed days and not
the marks on closures: a reopening that waits for a second closing marks the
closure it has picked before.

*Fairness* is assumed in four modules. In `RegisterTransactions` a session whose next
statement waits for no lock executes it, and the deadlock detector ends every
cycle of waiting transactions. Both are what PostgreSQL does; clients need not
go away, and nothing is assumed about who wins a lock. In `MaxOutbox` a running
sender goes on (its ticker wakes it at the latest) and time passes; nobody has
to start a sender, so `EveryMessageEnds` speaks of behaviours in which at some
time at least one sender is up for good, which a supervisor of the process
provides. In `DiadocSync` the worker goes on (its ticker wakes it), and so do a
request and a callback that have begun; `EveryEventStaged` asks only for events
from a time on at which the process is up, authorized and enabled for good, and
takes failures to be finitely many. In `SupplyRequests` an assignment that has
begun goes on, with strong fairness: it waits in the queue of a row, and a queue
is served in turn, although the row may be taken by others again and again. The
update of a user goes on once the rows are free, and the detector ends a
deadlock. `EveryAssignmentEnds` needs all three; nobody has to begin anything.

*Deadlock checking* is on in the runs of the register, the queue and Diadoc: a
finished batch stutters explicitly. It is off in `documents_editors`,
`supply_workspace`, `status_sites` and `login_approvals`, where the bounds on
commits, updates and changes end the run; where transactions may really wait for
each other there, the model says so and `EveryAssignmentEnds` is about it.

What `outbox_stalled` leaves out is what fails there: a sender that comes back
after its claim was taken writes its mark by id only, so a message that another
has meanwhile sent may become pending and be sent again.

## 4. Findings

One disagreement between the code and its documentation is shown by a run:

* **A document may be committed into a closed day** (`transactions_late`): the
  guard (000054:138) reads the cutoff without a lock, and then waits for the
  closing. `docs/inventory-valuation.md:23` says that nothing can be inserted on
  or before that date.

The following are read off the code, or found by TLC on other instances where that
is said; no run is spent on them, and the instances above are chosen so that they do not occur or do not matter.

* **Transfers among sites that cover each other's shortages lose value.** Two
  opposite transfers, each valued from the shortage the other leaves, change each
  other's amount in every pass; `materials_revalue` stops after `transfers + 1`
  passes and keeps the last amounts (000054:771).
  `docs/inventory-valuation.md:11` promises the destination exactly the value
  removed from the source. The result then depends on what was stored before.
* **A replay may store values of rows that are gone.** A recalculation reads the
  register, waits for the rows that a deletion holds, and stores what it
  calculated (000054:758): it looks again for new and changed rows, not for
  deleted ones. A consumption may keep a cost that counts a receipt deleted
  meanwhile, against `docs/inventory-valuation.md:10`, until the next replay.
* **A replay may stop a pass too early.** It counts the transfers once, before its
  first pass (000054:551), and holds no lock while it walks. TLC finds this with a
  recalculation, a receipt and a transfer posted meanwhile, in a register that has
  one of each: a pass is spent on values that were out of date when they were
  stored, a transfer that came later is not in the count, and the last permitted
  pass leaves values that another would change
  (`CommittedValuesReplayed`), until the next replay.
* **Tightening the policy may overlook a deletion.** The replay that checks the
  register under the new policy waits, at its UPDATE, for a transaction that
  deletes a receipt; then it looks again for new and changed rows only
  (000054:758), stops, and commits a policy that the remaining consumption
  violates. TLC finds it with those two requests; `docs/inventory-valuation.md:15`
  says that the setting controls whether a quantity may become negative.
* **An empty register does not protect the policy.** A replay of no rows locks
  none, so a first consumption may be committed between the last look of the
  replay and its `TRUNCATE`, having read the old policy. TLC finds it with those
  two requests and an empty register.
* **A reopening may mark the wrong closure.** It picks the latest closure and
  waits for its row (000054:1001); a closing that commits in between adds a later
  one. The first is marked, the cutoff is lifted, and the second stays unmarked
  without a cutoff until the next reopening finds it.
* **A replay of Diadoc events may be undone by an authorization that completes
  with it.** The request commits the new cursor and reloads the manager's copy
  afterwards; a callback that saves the old copy in between (`manager.go:578`)
  puts cursor and date back, against `docs/diadoc-integration.md:117`. In the
  other order the reload, which reads the row before it takes the mutex
  (`manager.go:542`), puts back a token that the callback has replaced, in memory.
* **A document whose download failed may cease to be one that can be retried.**
  A supplier that is remembered while another document is resolved is given to
  the failed documents of the same sender, too, and their readiness is evaluated
  (`diadocResolution.go:379`): they become `needs_matching` without any lines,
  and `RetryDocument` takes failed documents only.
  `docs/diadoc-integration.md:65` says that a failed document can be retried.
* **A restart may reset the cursor.** `selectBox` accepts a box whose configured
  identifier is spelled otherwise than Diadoc spells it, and stores Diadoc's
  spelling, which `NewManager` takes for another box at the next start.
* **Two deadlocks nobody retries.** The update of a user and an assignment he is
  making (`user.go:127`), and a status report and a document about the same
  material (`materialStatus_workspace.go:508`), may wait for each other; the
  database ends one, and nothing in the application tries it again.

## 5. Proofs

The type invariants are proved and appear in no run; each is a part of, or follows
from, the inductive invariant of its module.

`MaterialRegisterProofs` proves for every set of documents, contents, calendar
and bound of closures:

* `TypeInvariant`: `TypeOK`.
* `RegisterMatchesDocuments`: the register is what the documents post under the
  basis in force. `LedgerMatchesDocuments` is inductive together with `TypeOK`;
  the argument is that removing and posting act on disjoint recorders
  (`RemovedContents`, `PostedContents`), and that ids do not matter
  (`RenumberedContents`).
* `CutoffFollowsClosures`: inductive by the fact that a closing appends the
  largest active index and a reopening always takes the cutoff away.
* `ClosedPeriodStands`: no step changes a document or a row dated in a closed
  period. The guards of the code look at the dates of documents; rows are only
  frozen because they are those of the documents, so the proof needs
  `LedgerMatchesDocuments` in both states. The interesting step is
  `SetVatBasis`, which rewrites every row of the register, and may do so because
  it demands that nothing is closed.
* `RegisterImplementsBook`: the refinement, by the same facts.

The other eight theorems of the module are about quantities and money, that is,
about what `materials_revalue()` computes, for registers of any size. Their
assumptions are `NullAssumption` and `RegisterAssumption`: documents are numbered,
quantities and amounts are integers, lines are a sequence, and a later instant
is not on an earlier day. `materials_close_period` relies on the last, too: it
turns the day it closes into an instant and compares instants from then on.

*How a fold is reasoned about.* The replay and the sums of the model are folds,
hence recursive functions of sets that somebody has chosen. An induction theorem
that takes a predicate cannot be used with the provers at hand. Its place is
taken by two lemmas that take a set: `MinimalSubset` (among sets of subsets of a
finite set there is a least one) and `LeastNumber`. A claim about all parts of a
set is proved by collecting the parts for which it fails, taking a least of them,
removing its last element, and contradicting its leastness. `SumExists`,
`ReplayExists`, `PaymentExists` and `PassesExist` show in the same way that the
recursions define functions; what the folds return then follows step by step
(`SumRemove`, `ReplaySteps`, `PaymentSteps`, `RevaluedPasses`).

*Rows have names.* `RowsStand` (inductive with `TypeOK`) says that no two rows of
the register share a number or a name, although documents come, go and are
rewritten with new numbers. The steps that could fail are an update, where the
old rows are removed first, and the rebuild, where `RowsBeforeGrow` shows that the
numbers of one document end before those of the next begin. With the names,
`ReplayBefore` is a total order, and `LedgerIsMovements` gives what the replay
expects: each arrival of a transfer has a departure of the same instant.

* `NoBalanceIsNegative`: the guard `PolicyHolds` looks at outgoing movements only.
  The balance at any instant is that after the last outgoing movement before it,
  and of what has come in since (`PrefixHolds`, `BalancesHold`).
* `ValueIsConserved` and `EmptyBalancesAreWorthless`: the stored values are those
  of a whole replay of the rows (`Revaluated`). In a replay without overdrafts
  every balance has a known amount of at least zero, and zero when it is empty
  (`SoundStep`; `RoundedShare` and `KnownAmountBounds` are what rounding may do).
  Then the amount of a movement is a function of the amounts before it (`Cost`):
  the values *settle*. One pass settles the movements before the first arrival of
  a transfer, and every further pass those up to the next (`PassSettlesReached`,
  `PassKeepsReached`); since the passes outnumber the transfers, the last one
  settles everything (`RevaluedSettles`). So the limit of passes in the code is
  sufficient for any register without overdrafts. With them it is not, as section
  4 tells.
* `ClosedValuesStand`: every operation values the whole register anew, with the
  closed rows under other numbers after a rebuild. No movement of a closed period
  overdraws (`ClosedStands`; a closing checks all rows up to its date, and later
  rows come after them in the replay), so its values settle. A value that
  settles has but one possibility (`SettledOnce`), and two registers with the same
  contents up to the cutoff hold copies of each other's rows, in the same order
  (`ContentsCopied`, `CopiesInOrder`), which settle to the same amounts
  (`CopiesSettleAlike`).
* `ShortagesAreResolved`: in every state of the replay the shortages of a plain
  balance add up to what the balance lacks (`Balanced`; `PayTracks` and
  `CoverTracks` for the loop that pays them, `IssueBalances` for what makes them).
  A balance at zero or above lacks nothing, and a movement without a shortage is
  not pending.

Three theorems state what no run asks, because they compare the register with
replays and states outside the behaviour at hand:

* `ValuesAreDetermined`: the values of a register without overdrafts are those of
  any replay of the same contents, whatever was stored before (`CopiedValues`). The
  order in which documents were entered, and the amounts an earlier replay left
  behind, make no difference: the first pass reads them (`prev` in `Cost`), and the
  later ones settle. With overdrafts the limit of passes may come first.
* `PassesMayStop`: `materials_revalue()` leaves its loop after a pass that changed
  nothing, while `Revalued` goes on to the last permitted one. The theorem says that
  they store the same, and so justifies that abstraction.
* `SnapshotsHold`: the balances stored with the closure in force are those of the
  closed rows and their values at any later time. The migration calls them
  "balances frozen at each material inventory close"; nothing in the code compares
  them again, and every operation values the closed rows anew. The argument is that
  of `ClosedValuesStand` (`ClosedCopied`), with `CopiedBalance` for the sums. Of a
  closure that was reopened nothing is claimed.

The last six theorems of the module are about `RegisterTransactions`: for every
batch of requests, every content of the documents and every order of the
statements. A statement is first reduced to what it changes of its own transaction
(`Shift`, and one lemma for each statement); `TxBase` is the invariant of every
batch, what a transaction has written and which locks it holds at each statement.

* `BalancesAreRebuilt`: `BalancesMatchRows`. From its `TRUNCATE` to its commit a
  transaction holds the balance tables alone (`AggregateLocks`), and every other
  transaction that is about to commit would have to hold them too. So nobody
  commits in between, and what it has rebuilt is still the aggregate of what it
  sees (`RebuiltFresh`) when it commits.
* `PolicyIsObeyed`: `NegativeStockDisabled`, for batches in which documents are
  only added while the policy is tightened (`PolicyAside`), and a register that is
  not empty. Replays read the policy and walk the rows without a lock. The proof
  picks a row of the beginning (`Anchor`), which every replay has to UPDATE before
  it may commit. So from its first UPDATE on nobody but it commits (`OneHolds`),
  and rows that were committed between its walk and that UPDATE are new to its
  next look, and walked (`RowsWalked`). A document that has read the old policy
  holds the balance tables for writing until it ends, so the tightening does not
  get past its `TRUNCATE`, and one that reads the policy later reads the new one
  (`PolicyRead`).
  Both hypotheses are needed: without either, TLC shows the property violated (section 4).
* `ClosedDaysStand`: the action property `ClosedRowsStand`, for batches in which
  no new document is posted while a period is closed (`PostingAside`;
  `transactions_late` is what happens otherwise). A closing that has stored its
  values has locked every row that a pending update or deletion is about to remove
  (`LockedBy`), so those that follow wait for it; and whoever has written before
  holds the balance tables, which the closing needs for itself before it commits
  (`CloseIsAlone`). So nothing that passed the guard of the old cutoff (`Guarded`)
  is still open when the new one is set. An update inserts its new rows only after
  it has removed the old ones, while a new document has no old ones to be locked.
* `RowsStayMovements`: the committed rows can be valued in every batch. A document
  transaction inserts its rows one by one and a replay of another may begin in
  between, but nobody sees a part of a document (`RowsSound`; `SightIsMovements`
  says it of what an open transaction sees when it replays).
* `ValuesAreReplayed` and `DocumentsReplayAll`: `CommittedValuesReplayed`. From the
  delta of its first row to its commit a document transaction holds the balance
  tables for writing, so no `TRUNCATE` of another one passes and nobody commits
  (`NobodyCommits`). Hence all its statements see the same rows, and its passes are
  those of one replay, whatever was stored before (`PassesFrom`); that it stops at
  a pass that changes nothing is `PassesMayStop`, and that the replay may start
  from any values is the argument of `ValuesAreDetermined`, which is why overdrafts
  are excluded. An accounting transaction locks the tables at its `TRUNCATE` only,
  and may store what was out of date while it waited: therefore the first theorem
  speaks of batches in which only documents have committed, and the second of
  the values each document leaves, whatever was there before.

`PolicyAside` and `PostingAside` are hypotheses about the batches, and
`OfficeAssumption` has TLC evaluate that the batches of `transactions_office`
satisfy them: one of these tightens the policy among other requests, and one has
two closings.

`MaxOutboxProofs` proves for all messages, senders, limits and delays, from
`OutboxAssumption` (the limits are positive, as the configuration demands):

* `TypeInvariant`: `TypeOK`.
* `ClaimsAreExclusive`: `ExclusiveClaims` is inductive because the age of a lock
  is kept equal to the time its holder has had the message, so a claim that is
  still held is not stale.
* `OutcomesAreFinal`: an action property, from the same invariant.
* `AttemptsAreBounded`: inductive with `AttemptsPaid`: a message that has not
  ended and that no sender holds has strictly less than `MaxAttempts + faults`
  attempts, so the next claim stays within the bound.
* `DeliveriesAreBounded`: inductive with `DeliveriesPaid`: a message that is not
  marked as sent, and of which no sender knows that it was delivered, has been
  delivered at most `faults` times.
* `SentMeansDelivered`: `SentWasDelivered` with `SentOrKnownDelivered`: what a
  sender is about to mark as sent has been delivered, too. It needs no bound on
  delays: a sender whose claim was taken still marks what it has seen accepted.

`DiadocSyncProofs` proves for any number of events, documents, requests and
faults, from `SyncAssumption`:

* `TypeInvariant`: `TypeOK`, with the mutual exclusion by `pollMu`. Inductive
  together with `AtEvent` (the event under way lies in its page, and the page
  among the events that have arrived) and `CopyDated`.
* `CursorIsBehind`: `StagedBehindCursor` holds of the row and of the copy.
  Neither is enough alone: every save writes one over the other. The invariant
  adds `CopyBehind` for the row a request has loaded, and `SyncStaged`: what a
  synchronisation has passed since its snapshot is in the buffer, and its date
  is still that of the copy, since only a request changes the date, and is
  excluded. Without the last fact a cursor could be saved next to an earlier date.
* `PauseStands`: an action property, by `PauseInv`: what the administrator was
  told is in the row and in the copy, and a synchronisation that has begun has
  not looked at the switch yet.

`DiadocBufferProofs` proves for all documents, lines, users, references and
resolutions, from `BufferAssumption`:

* `TypeInvariant`: `TypeOK`, with the fact that a document has a receipt exactly if
  it is imported. Inductive together with the locks of resolutions that have not
  committed: what a resolution is going to write is not yet put aside or
  imported, and belongs to it (`JobLocks`), and two resolutions have different
  documents (`JobsApart`).
* `ImportsSeen`: the action property `ImportsWhatWasSeen`. Its invariant is
  `ViewsBehind`: a user's view is not newer than the document, and is equal to it
  in everything a receipt is made of as long as the versions are equal. Hence each
  action has to change the version of whatever it changes, unless the document is
  protected; the steps for `Propagated` and `Staged` are the ones that could fail.
* `CompleteReceipts`: from the guard of `Import`, which evaluates everything anew;
  that it has to is seen from `ready` documents with deactivated materials.
* `ChoicesAreKept`: `ChoicesStand`. A resolution fills lines of other documents
  that had no target at its snapshot, and the locks give that they still have none
  when it commits.
* `BufferImplementsLedger`: the refinement; a step of the buffer is `Arrive`,
  `PutAside`, `TakeUp`, `Import` or nothing in the ledger.

`MaterialDocumentsProofs` proves for all clerks, managers, documents, submissions
and limits, from `DocumentsAssumption` and `ItemsAssumption`:

* `TypeInvariant` and `LinesAreNumbered`: the lines of a document are 1, 2, ... up
  to at most `MaxItems`. The second is what the staging relies on.
* `ReordersAreSaved`: `EveryReorderSaved`. A staged line is greater than
  `MaxItems` and a written one is not, as long as `TopLine` is the maximum of the
  lines; that there is one follows from `LinesAreNumbered`.
* `VersionsNameContents`: `VersionNamesContent`. Inductive with two more facts: no
  copy is of a later version than the document (`SeenInv`), and every stored line
  is named after a version that has been (`RowsInv`), so that a new line is new.
  A document that is deleted never comes back, so its versions are not used again.
* `UpdatesAreNotLost`: the action property `NoLostUpdate`, from the same invariant:
  the version check gives equality of versions, the invariant that of contents.
* `ListsAreReadable`: `ListedIffReadable`. It holds of the queries in every state
  in which sites, documents and assignments are typed: list, detail and offer
  are three conditions written separately, and the proof is that they agree.

`SupplyRequestsProofs` proves for all editors, supply managers, requests, sites,
suppliers and bounds, from `RequestsAssumption` and `ItemsAssumption`:

* `StatusesStayInStep`: `StatusesAgree`. `Insert` writes three tables from what
  earlier statements have read, so the invariant has to carry what an open
  assignment relies on (`StillHolds`): its locked requests are there and new, its
  named lines are all of theirs, and no other assignment has locked any of them
  (`ApartInv`). `EditedBy` states once what a step of an editor may do, and
  `RequestFree` is why it cannot touch a locked request.
* `SubmissionsStand` and `SubmissionsAsSeen`: action properties from the same
  invariant; `WhoChanges` reduces every step to an editor's, an insertion or
  none. A submission needs no check of the request's own status, because its
  lines are drafts and `StatusesAgree` holds.
* `AssignmentsInForce`: `AssignedInForce`, again by `StillHolds`; the steps that
  could fail are `EditCatalogue` (by `SiteFree` and `SupplierFree`) and
  `SyncUserSites` (by the rows the assignment shares).
* `TypeInvariant`: `TypeOK`; that a stored status is one of `Statuses` also needs
  `StatusesAgree`.

`MaterialStatusProofs` proves for all managers, sites, materials, movements and
instants, from `StatusAssumption`:

* `ReversalsAreSeen`: `ReversesWhatWasShown`. The invariant says of every change
  what its statements up to now have established, and that two changes never hold
  rows of one material; what was fetched as the latest record still is, unless an
  administrator has edited, which the history variable tells.
* `RecordsAreInStock`: `RecordedInStock`. The table that a change holds keeps
  documents from committing, so the balances it has read stand.
* `HistoriesAlternate`: `HistoryAlternates`. Inductive in the form `Alternates`, for
  all records of a material: they are in the order of their instants, and each
  says maintenance if an even number of them comes before it. A record that is
  committed `Follows` the last one: it reverses what was fetched, at the same
  instant or later, and the lock of the material across sites makes what was
  fetched still the last. That a site shows the end of the history needs, besides,
  that its query orders as the history does.
* `TypeInvariant`: `TypeOK`.

`MaxLoginProofs` proves for all windows, sessions, accounts, users, contacts, batch
limits, pages without markers, faults and administrators' changes, from
`LoginAssumption`:

* `TypeInvariant`: `TypeOK` and `Polling` (neither marker nor batch is ahead of the
  updates), inductive together with the fact that a call names a request that
  exists.
* `NoUpdateIsLost`: `UpdatesTakeEffect` speaks of a bot that has caught up. The
  invariant speaks of every update up to `Position`, the last one dealt with,
  which moves back when a batch is left, a page had no marker or the bot crashes:
  `Reflected` (the account shows it, or a later one, or what an administrator has
  made of it since) and `Replied` (an update beyond the position has queued
  replies only for faults and pages without a marker). An update that is applied
  again cannot undo a later one, because all later ones are applied again after
  it; and one that is applied after an administrator's change ends the excuse, as
  it writes the row.
* `DecidedForGood`: `DecisionsStand`, with `OneUndecided`: a new request expires
  the undecided ones of its session in the transaction that inserts it.
* `ChosenOnce`: `OneLoginPerApproval` from three invariants. `Exclusive`: windows of
  a session complete one at a time, and on an approved request. `Chosen`: an
  approved or used request was approved by its own account, among that account's
  updates, before any refusal of it; this is where `Decided` needs `Addressed`, as
  callbacks of any account arrive.
  `Counted`: a request that is neither used up nor about to be has let its session
  in only for failures.

Only model-checked: `CommittedValuesReplayed` where it is more than
`ValuesAreReplayed` says, that is, after accounting transactions and with
overdrafts; `transactions_office` finds it true for its batches, and section 4
says why it does not hold for all; and liveness (`EveryEventStaged`,
`EveryMessageEnds`, `EveryRequestEnds`, `EveryAssignmentEnds`), which needs `ENABLED` of the fair actions and is out of the provers' reach. Of
the amounts it is what transfers among sites with overdrafts are worth: no run
states it, and section 4 says why.

## 6. Not modelled, and the plan

Left out because they keep no state of their own, or only write rows nobody reads
back: HTTP decoding, configuration and entry points, generated CRUD of
catalogues, reports and read models, object history. The menu cache is a map
filled on demand and emptied by writes; nothing else depends on it.

Partly modelled: of the users the sites, bans and logins; of the bot's incoming
updates the long polling and not the webhook, which hands updates to the same
processor, nor the verification of a contact's hash; of Diadoc the exchange of
codes and tokens only as far as it touches the shared row.

Next: readers of the balance tables with an old snapshot (`TRUNCATE` is not
MVCC-safe) and the marks of closures in `RegisterTransactions`; the answer a
resolution gets that loses a deadlock in `DiadocBuffer`; what a replay that holds no
locks may leave, as a theorem about the accounting transactions.
