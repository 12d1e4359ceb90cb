------------------------ MODULE RegisterTransactions ------------------------
(***************************************************************************)
(* Transactions of the materials register while several are open at once,  *)
(* statement by statement under READ COMMITTED.  MaterialRegister says     *)
(* what each of them does alone; here they share the rows of ra_materials, *)
(* the aggregate tables rg_materials_* and the settings row, see only what *)
(* others have committed, and wait for each other's locks:                 *)
(*   - an inserted or deleted row takes a writer's lock on the aggregate   *)
(*     and then one on the line of its position (its trigger applies a     *)
(*     delta), a replay ends with TRUNCATE, which tolerates no other       *)
(*     writer;                                                             *)
(*   - a replay updates, and so locks, every row it has valued;            *)
(*   - a closing locks the settings row first, a reopening last.           *)
(* A request is served by one transaction, and no two requests of a batch  *)
(* write the same document: the advisory lock on a recorder serialises     *)
(* those.                                                                  *)
(***************************************************************************)
EXTENDS AccountingPeriods, SequencesExt

CONSTANTS Batches,      \* sets of requests that clients make together
          Existing,     \* documents posted before, in order of entry
          RowsOf,       \* the rows of each document, in posting order
          Revised       \* ... once the document has been updated

Requests == UNION Batches

VARIABLES rows,           \* ra_materials, as committed
          balances,       \* rg_materials_current, as committed
          nextId,         \* the sequence behind ra_materials.id
          tx              \* the transaction of each request

txVars == <<rows, val, balances, allowNegative, closedThrough, closures, nextId, tx>>
committed == <<rows, val, balances, allowNegative, closedThrough, closures>>

ASSUME RequestsAssumption ==
    /\ \A r \in Requests :
          r \in [kind : {"Post", "Delete"}, doc : DOMAIN RowsOf]
                 \cup [kind : {"Update"}, doc : DOMAIN Revised]
                 \cup [kind : {"Close"}, day : Nat]
                 \cup [kind : {"Policy"}, allow : BOOLEAN]
                 \cup [kind : {"Recalculate", "Reopen"}, by : STRING]
    /\ \A doc \in DOMAIN RowsOf : RowsOf[doc] # <<>>
    /\ \A doc \in DOMAIN Revised : Revised[doc] # <<>>

RowsIn(L, doc) == {m \in L : <<m.type, m.rec>> = doc}

\* What the documents of Existing have posted, one after another.
ExistingList == FlattenSeq([i \in DOMAIN Existing |-> RowsOf[Existing[i]]])
ExistingRows == {[ExistingList[i] EXCEPT !.id = i] : i \in DOMAIN ExistingList}

RowFields ==
    {"id", "at", "type", "rec", "item", "order", "site", "mat", "quant", "source"}

\* m is a row of the document, on some business day.
RowOf(doc, m) ==
    DOMAIN m = RowFields /\ <<m.type, m.rec>> = doc /\ DayOf[m.at] \in Nat

\* A row as a document posts it: numbers, and the sign of its quantity by the
\* type; a receipt brings its amount with it.
Postable(m) ==
    /\ {m.at, m.rec, m.item, m.order} \subseteq Nat
    /\ m.type \in {"Receipt", "Transfer", "Consumption"}
    /\ m.quant \in Int \ {0}
    /\ m.quant < 0 <=> m.type = "Consumption" \/ (m.type = "Transfer" /\ m.order = 1)
    /\ m.type = "Receipt" => m.source \in Nat
    /\ m.type = "Transfer" => m.order \in {1, 2}

\* Such rows, each under a name of its own, an arrival with its issue.
AsPosted(list) ==
    /\ \A i, j \in DOMAIN list : MovementKey(list[i]) = MovementKey(list[j]) => i = j
    /\ \A m \in ToSet(list) :
          /\ Postable(m)
          /\ m.type = "Transfer" /\ m.order = 2 =>
                \E k \in ToSet(list) : MovementKey(k) = <<m.type, m.rec, m.item, 1>> /\ k.at = m.at

ASSUME PostingAssumption ==
    /\ \A doc \in DOMAIN RowsOf : AsPosted(RowsOf[doc])
    /\ \A doc \in DOMAIN Revised : AsPosted(Revised[doc])
    /\ AsPosted(ExistingList)

\* Documents list their own rows, a new one has none yet, and one document
\* has one writer.
ASSUME DocumentsAssumption ==
    /\ \A doc \in DOMAIN RowsOf :
          /\ RowsOf[doc] \in Seq(ToSet(RowsOf[doc]))
          /\ \A m \in ToSet(RowsOf[doc]) : RowOf(doc, m)
    /\ \A doc \in DOMAIN Revised :
          /\ Revised[doc] \in Seq(ToSet(Revised[doc]))
          /\ \A m \in ToSet(Revised[doc]) : RowOf(doc, m)
    /\ IsFiniteSet(ExistingRows) /\ ExistingList \in Seq(ToSet(ExistingList))
    /\ \A m \in ExistingRows : RowOf(<<m.type, m.rec>>, m)
    /\ \A r \in Requests : r.kind = "Post" => RowsIn(ExistingRows, r.doc) = {}
    /\ \A batch \in Batches : \A r, s \in batch :
          {r.kind, s.kind} \subseteq {"Post", "Update", "Delete"} /\ r.doc = s.doc => r = s

\* rg_materials_rebuild: quantity, amount and pending movements of each
\* position that has any.
Aggregate(L, v) ==
    LET at(p)   == {m \in L : Position(m) = p}
        line(p) == [quant   |-> QuantOf(at(p)),
                    amount  |-> AmountOf(at(p), v),
                    pending |-> Cardinality({m \in at(p) : Unvalued(v, m)})]
        empty   == [quant |-> 0, amount |-> 0, pending |-> 0]
    IN  [p \in {q \in {Position(m) : m \in L} : line(q) # empty} |-> line(p)]

-----------------------------------------------------------------------------
(* An open transaction: the rows it inserted and deleted, the values it    *)
(* stored, its locks, and the local variables of the replay.               *)

Idle == [pc      |-> "begin",
         todo    |-> <<>>,        \* rows still to be inserted
         ins     |-> {}, del |-> {},
         stored  |-> <<>>,        \* values written, by movement
         agg     |-> "none",      \* lock on rg_materials_*
         lines   |-> {},          \* ... and on its lines
         setting |-> FALSE,       \* lock on the settings row
         closure |-> 0,           \* closure picked by a reopening
         locked  |-> FALSE,       \* ... and locked
         allow   |-> TRUE,        \* v_allow_negative
         prev    |-> {},          \* material_valuation_prev, rows and values
         seen    |-> {},          \* the rows of the cursor
         work    |-> <<>>,        \* material_valuation_work
         pass    |-> 0, max |-> 0,
         rebuilt |-> <<>>]        \* the aggregate it has written

Open(r) == tx[r].pc \notin {"begin", "committed", "refused", "cancelled"}
Others(r) == {s \in Requests \ {r} : Open(s)}

\* What a statement of r sees.
Visible(r) == {m \in rows : MovementKey(m) \notin tx[r].del} \cup tx[r].ins
Values(r) ==
    [k \in KeysOf(Visible(r)) |-> IF k \in DOMAIN tx[r].stored THEN tx[r].stored[k] ELSE val[k]]

RowLocks(r) == tx[r].del \cup DOMAIN tx[r].stored

\* The positions whose delta r is about to apply: that of the row it has
\* just inserted, or those of all the rows it has deleted.
Touched(r) ==
    {Position(m) : m \in IF tx[r].ins = {}
                         THEN {k \in rows : MovementKey(k) \in tx[r].del}
                         ELSE {k \in tx[r].ins : k.id = Max({i.id : i \in tx[r].ins})}}

\* The transactions the next statement of r has to wait for.
WaitsFor(r) ==
    CASE tx[r].pc = "begin" /\ r.kind \in {"Close", "Policy"} -> {s \in Others(r) : tx[s].setting}
      [] \/ tx[r].pc = "begin" /\ r.kind = "Delete"
         \/ tx[r].pc = "clear" ->
           {s \in Others(r) : RowLocks(s) \cap KeysOf(RowsIn(rows, r.doc)) # {}}
      [] tx[r].pc = "closure" ->
           {s \in Others(r) : tx[s].locked /\ tx[s].closure = tx[r].closure}
      [] tx[r].pc = "cutoff" -> {s \in Others(r) : tx[s].setting}
      [] tx[r].pc = "delta" -> {s \in Others(r) : tx[s].agg = "exclusive"}
      [] tx[r].pc = "line" -> {s \in Others(r) : tx[s].lines \cap Touched(r) # {}}
      [] tx[r].pc = "store" ->
           {s \in Others(r) : RowLocks(s) \cap KeysOf(tx[r].seen \cap rows) # {}}
      [] tx[r].pc = "truncate" -> {s \in Others(r) : tx[s].agg # "none"}
      [] OTHER -> {}

At(r, pc) == tx[r].pc = pc /\ WaitsFor(r) = {}

\* What a function becomes where another one says otherwise.
Overlay(new, old) ==
    [x \in DOMAIN new \cup DOMAIN old |-> IF x \in DOMAIN new THEN new[x] ELSE old[x]]

\* r goes on to `pc', changing only its own transaction.
Proceed(r, pc, change) ==
    tx' = [tx EXCEPT ![r] = Overlay([pc |-> pc], Overlay(change, @))]

Continue(r, pc, change) ==
    Proceed(r, pc, change) /\ UNCHANGED <<committed, nextId>>

\* A raised error: the transaction is rolled back and its locks are freed.
RollBack(r, pc) ==
    /\ tx' = [tx EXCEPT ![r] = [Idle EXCEPT !.pc = pc]]
    /\ UNCHANGED <<committed, nextId>>

-----------------------------------------------------------------------------
(* Statements of a document transaction.  Each row is guarded by the       *)
(* cutoff its own statement reads.                                         *)

InsertDocument(r) ==
    /\ r.kind = "Post" /\ At(r, "begin")
    /\ IF \E m \in ToSet(RowsOf[r.doc]) : ~OpenDate(m.at)
       THEN RollBack(r, "refused")
       ELSE Continue(r, "act", [todo |-> RowsOf[r.doc]])

\* The document is rewritten, which its old and its new date must allow.
UpdateDocument(r) ==
    /\ r.kind = "Update" /\ At(r, "begin")
    /\ IF \E m \in RowsIn(rows, r.doc) \cup ToSet(Revised[r.doc]) : ~OpenDate(m.at)
       THEN RollBack(r, "refused")
       ELSE Continue(r, "clear", [todo |-> Revised[r.doc]])

\* ra_materials_add_act: the guard before the row, the delta after it.
InsertRow(r) ==
    LET m == [Head(tx[r].todo) EXCEPT !.id = nextId]
    IN  /\ At(r, "act")
        /\ IF OpenDate(m.at)
           THEN /\ Proceed(r, "delta",
                           [todo   |-> Tail(tx[r].todo),
                            ins    |-> tx[r].ins \cup {m},
                            stored |-> Overlay([k \in {MovementKey(m)} |-> NewValue(m)],
                                               tx[r].stored)])
                /\ nextId' = nextId + 1
                /\ UNCHANGED committed
           ELSE RollBack(r, "refused")

\* ra_materials_remove_acts: one statement, its deltas follow at its end.
RemoveRows(r) ==
    LET mine == RowsIn(rows, r.doc)
    IN  /\ \/ r.kind = "Delete" /\ At(r, "begin")
           \/ r.kind = "Update" /\ At(r, "clear")
        /\ IF \A m \in mine : OpenDate(m.at)
           THEN Continue(r, "delta", [del |-> KeysOf(mine)])
           ELSE RollBack(r, "refused")

\* Mutant: the trigger writes no delta, and so takes no lock.
SkipDelta(r) ==
    /\ At(r, "delta")
    /\ Continue(r, IF tx[r].todo # <<>> THEN "act" ELSE "replay", <<>>)

\* rg_materials_apply_delta locks the tables, then the line of the position.
\* What it writes is overwritten by the rebuild that ends the same
\* transaction; its locks stay.
ReachAggregate(r) ==
    /\ At(r, "delta")
    /\ Continue(r, "line", [agg |-> "write"])

ApplyDelta(r) ==
    /\ At(r, "line")
    /\ Continue(r, IF tx[r].todo # <<>> THEN "act" ELSE "replay",
                [lines |-> tx[r].lines \cup Touched(r)])

\* The document goes after its rows, and is guarded again.
RemoveDocument(r) ==
    /\ At(r, "remove")
    /\ IF \A m \in ToSet(RowsOf[r.doc]) : OpenDate(m.at)
       THEN Continue(r, "commit", <<>>)
       ELSE RollBack(r, "refused")

-----------------------------------------------------------------------------
(* Statements of the accounting transactions.                              *)

StartRecalculation(r) ==
    /\ r.kind = "Recalculate" /\ At(r, "begin")
    /\ Continue(r, "replay", <<>>)

ChangePolicy(r) ==
    /\ r.kind = "Policy" /\ At(r, "begin")
    /\ Continue(r, "replay", [setting |-> TRUE])

LockSettings(r) ==
    /\ r.kind = "Close" /\ At(r, "begin")
    /\ IF closedThrough # Null /\ r.day <= closedThrough
       THEN RollBack(r, "refused")
       ELSE Continue(r, "replay", [setting |-> TRUE])

\* After the replay: nothing pending and nothing negative up to the cutoff.
VerifyClosing(r) ==
    LET old == IF r.kind = "Close" THEN OnOrBefore(Visible(r), r.day) ELSE {}
    IN  /\ At(r, "verify")
        /\ IF \A m \in old : ~Unvalued(Values(r), m) /\ RunningQuant(old, m) >= 0
           THEN Continue(r, "commit", <<>>)
           ELSE RollBack(r, "refused")

\* The latest closure not reopened, as the statement finds it; once its row
\* is locked it is skipped if someone else has reopened it meanwhile.
PickClosure(r) ==
    /\ r.kind = "Reopen" /\ At(r, "begin")
    /\ IF ActiveClosures = {}
       THEN Continue(r, "cutoff", <<>>)
       ELSE Continue(r, "closure", [closure |-> Max(ActiveClosures)])

LockClosure(r) ==
    /\ At(r, "closure")
    /\ IF tx[r].closure \in ActiveClosures
       THEN Continue(r, "cutoff", [locked |-> TRUE])
       ELSE Continue(r, "cutoff", [closure |-> 0])

LiftCutoff(r) ==
    /\ At(r, "cutoff")
    /\ Continue(r, "replay", [setting |-> TRUE])

-----------------------------------------------------------------------------
(* Statements of materials_revalue, which ends every transaction.          *)

\* Mutant: the replay of a change of policy runs under the old one.
ReadCommittedPolicy(r) ==
    /\ At(r, "replay")
    /\ Continue(r, "previous", [allow |-> allowNegative])

ReadPolicy(r) ==
    /\ At(r, "replay")
    /\ Continue(r, "previous",
                [allow |-> IF r.kind = "Policy" THEN r.allow ELSE allowNegative])

\* The rows as they stand, each with its value.
Valued(r) == {<<m, Values(r)[MovementKey(m)]>> : m \in Visible(r)}

TakePrevious(r) ==
    /\ At(r, "previous")
    /\ Continue(r, "walk", [prev |-> Valued(r), max |-> MaxPasses(Visible(r)), pass |-> 0])

\* The previous values of the rows in sight; a row that appeared since has
\* none.
PreviousValues(r) ==
    LET of(m) == {x \in tx[r].prev : x[1] = m}
        row(k) == CHOOSE m \in Visible(r) : MovementKey(m) = k
    IN  [k \in KeysOf(Visible(r)) |->
           IF of(row(k)) = {} THEN [amount |-> Null, pending |-> TRUE]
           ELSE (CHOOSE x \in of(row(k)) : TRUE)[2]]

\* One pass over the rows the cursor sees when it is opened.
Walk(r) ==
    /\ At(r, "walk")
    /\ IF ~tx[r].allow /\ ~NeverNegative(Visible(r))
       THEN RollBack(r, "refused")
       ELSE Continue(r, "store",
                     [seen |-> Visible(r), work |-> Pass(Visible(r), PreviousValues(r)),
                      pass |-> tx[r].pass + 1])

\* The UPDATE waits for every row another transaction has written, then
\* stores what was calculated before the wait.
Store(r) ==
    LET work == Restrict(tx[r].work, KeysOf(tx[r].seen \cap Visible(r)))
    IN  /\ At(r, "store")
        /\ Continue(r, "check", [stored |-> Overlay(work, tx[r].stored)])

\* Another pass if a row is new or has changed since the last look.  Rows
\* that have disappeared are not noticed.
Check(r) ==
    LET changed == Valued(r) \ tx[r].prev # {}
    IN  /\ At(r, "check")
        /\ Continue(r, IF changed /\ tx[r].pass < tx[r].max THEN "walk" ELSE "truncate",
                    [prev |-> Valued(r)])

Truncate(r) ==
    /\ At(r, "truncate")
    /\ Continue(r, "rebuild", [agg |-> "exclusive"])

\* Mutant: the aggregate is rebuilt from what is committed, as another
\* connection would see it.
RebuildCommitted(r) ==
    /\ At(r, "rebuild")
    /\ Continue(r, CASE r.kind = "Close"  -> "verify"
                     [] r.kind = "Delete" -> "remove"
                     [] OTHER             -> "commit",
                [rebuilt |-> Aggregate(rows, val)])

Rebuild(r) ==
    /\ At(r, "rebuild")
    /\ Continue(r, CASE r.kind = "Close"  -> "verify"
                     [] r.kind = "Delete" -> "remove"
                     [] OTHER             -> "commit",
                [rebuilt |-> Aggregate(Visible(r), Values(r))])

Commit(r) ==
    /\ At(r, "commit")
    /\ rows' = Visible(r)
    /\ val' = Values(r)
    /\ balances' = tx[r].rebuilt
    /\ allowNegative' = IF r.kind = "Policy" THEN r.allow ELSE allowNegative
    /\ closedThrough' = CASE r.kind = "Close"  -> r.day
                          [] r.kind = "Reopen" -> Null
                          [] OTHER             -> closedThrough
    /\ closures' = CASE r.kind = "Close" ->
                          Append(closures, [through |-> r.day, reopened |-> FALSE])
                     [] r.kind = "Reopen" /\ tx[r].locked ->
                          [closures EXCEPT ![tx[r].closure].reopened = TRUE]
                     [] OTHER -> closures
    /\ tx' = [tx EXCEPT ![r] = [Idle EXCEPT !.pc = "committed"]]
    /\ UNCHANGED nextId

-----------------------------------------------------------------------------
\* The client goes away, the connection is lost or the process dies.
Cancel(r) == Open(r) /\ RollBack(r, "cancelled")

\* The database finds r on a cycle of waiting transactions, and makes it
\* the victim: some transactions, r among them, each wait for another one.
WaitingForItself(r) ==
    LET waits == [s \in Requests |-> WaitsFor(s)]
    IN  /\ waits[r] # {}
        /\ \E S \in SUBSET {s \in Requests : waits[s] # {}} :
             r \in S /\ \E next \in Bijection(S, S) : \A s \in S : next[s] \in waits[s]

\* Mutant: nobody looks for deadlocks.
IgnoreDeadlock(r) == FALSE

BreakDeadlock(r) == WaitingForItself(r) /\ RollBack(r, "cancelled")

Statement(r) ==
    \/ InsertDocument(r) \/ UpdateDocument(r) \/ InsertRow(r) \/ RemoveRows(r)
    \/ ReachAggregate(r) \/ ApplyDelta(r) \/ RemoveDocument(r)
    \/ StartRecalculation(r) \/ ChangePolicy(r)
    \/ LockSettings(r) \/ VerifyClosing(r)
    \/ PickClosure(r) \/ LockClosure(r) \/ LiftCutoff(r)
    \/ ReadPolicy(r) \/ TakePrevious(r) \/ Walk(r) \/ Store(r) \/ Check(r)
    \/ Truncate(r) \/ Rebuild(r) \/ Commit(r)

\* The documents of Existing, posted one after another, and a batch of
\* requests; the others are never made.
TxInit ==
    /\ rows = ExistingRows
    /\ val = Revalued(rows, NewValues(rows))
    /\ balances = Aggregate(rows, val)
    /\ allowNegative = TRUE
    /\ closedThrough = Null
    /\ closures = <<>>
    /\ nextId = Len(ExistingList) + 1
    /\ \E batch \in Batches :
          tx = [r \in Requests |->
                  IF r \in batch THEN Idle ELSE [Idle EXCEPT !.pc = "cancelled"]]

Ended(r) == tx[r].pc \in {"committed", "refused", "cancelled"}

\* Every request has been answered: nothing is left to do.
Finished == (\A r \in Requests : Ended(r)) /\ UNCHANGED txVars

TxNext ==
    \/ \E r \in Requests : Statement(r) \/ Cancel(r) \/ BreakDeadlock(r)
    \/ Finished

\* Every open transaction has exactly one statement to execute, which only
\* a lock can hold up.
Ready(r) == ~Ended(r) /\ WaitsFor(r) = {}

\* A session executes its next statement as soon as its locks allow, and
\* the deadlock detector runs after a timeout; clients need not go away.
\* The first part is WF_txVars(Statement(r)), with Ready(r) for the
\* equivalent ENABLED Statement(r), which is cheaper to evaluate.
Fairness ==
    \A r \in Requests :
       /\ []<>~Ready(r) \/ []<><<Statement(r)>>_txVars
       /\ WF_txVars(BreakDeadlock(r))

TxSpec == TxInit /\ [][TxNext]_txVars /\ Fairness

-----------------------------------------------------------------------------
(* Batches in which the properties below hold for any documents: what the  *)
(* replay and the closing of a period cannot see is kept out of them.      *)

\* While the stock policy is tightened documents are only added.
PolicyAside(batches) ==
    \A batch \in batches :
       (\E r \in batch : r.kind = "Policy" /\ ~r.allow) =>
          \A s \in batch : s.kind \notin {"Update", "Delete"}

\* While a period is closed no new document is posted.
PostingAside(batches) ==
    \A batch \in batches :
       (\E r \in batch : r.kind = "Close") => \A s \in batch : s.kind # "Post"

-----------------------------------------------------------------------------
(* Properties                                                              *)

\* The aggregate tables that balance queries read are the aggregate of the
\* committed rows, whichever transactions overlapped.
BalancesMatchRows == balances = Aggregate(rows, val)

\* The committed values are those a replay alone would leave, when clerks
\* write documents at the same time.
CommittedValuesReplayed == val = Revalued(rows, NewValues(rows))

\* No committed change touches a row dated on or before the cutoff in force.
ClosedRowsStand ==
    [][closedThrough # Null /\ closedThrough' = closedThrough =>
         OnOrBefore(rows, closedThrough)' = OnOrBefore(rows, closedThrough)]_txVars

\* With negative stock disabled no committed row overdraws its balance.
NegativeStockDisabled == ~allowNegative => NeverNegative(rows)

\* Every request of the batch ends, however the transactions wait for each other.
EveryRequestEnds == <>(\A r \in Requests : Ended(r))
=============================================================================
