---------------------------- MODULE MaterialStatus ----------------------------
(***************************************************************************)
(* Whether a material is at work or on maintenance, as managers of several *)
(* sites report it (internal/services/materialStatus_workspace.go), while  *)
(* clerks post and remove documents and administrators edit the records    *)
(* (materialStatus.gen.go).                                                *)
(*                                                                         *)
(* A change is taken statement by statement.  It holds the table of the    *)
(* current balances from the moment its second statement begins, and locks *)
(* the rows of the material and of its balance at the site.  A document    *)
(* locks rows of both first, as its lines refer to the material and its    *)
(* movements change the balance, and needs the table for itself when it    *)
(* rebuilds the balances before its commit.                                *)
(***************************************************************************)
EXTENDS Integers, Sequences, FiniteSetsExt

CONSTANTS Null,
          Gone,        \* in place of a record that was deleted
          Managers, Sites, Materials,
          Movements,   \* what documents can post: [mat, site, at, quant]
          Posted,      \* the movements posted at the start
          Assigned,    \* the sites assigned to each manager at the start
          Horizon,     \* the latest instant a change may name: now and five minutes
          MaxRecords,  \* bound on the records
          MaxEvents    \* bound on the records administrators edit, what clerks
                       \* commit and edits of the catalogue, taken together

VARIABLES statuses,    \* records of material_statuses, numbered
          ledger,      \* the movements posted
          activeMaterials,
          available,   \* the active sites assigned to each manager
          txs,         \* the change each manager is making, Null when none
          document,    \* the document that is being written, Null when none
          edits, changes

vars == <<statuses, ledger, activeMaterials, available, txs, document, edits, changes>>

Values == {"at_work", "on_maintenance"}
Instants == 1..Horizon
Records == [mat : Materials, site : Sites, at : Instants, status : Values, active : BOOLEAN]

ASSUME StatusAssumption ==
    /\ Gone \notin Records \cup {Null} /\ Null \notin Sites /\ Null \notin Nat /\ Posted \subseteq Movements
    /\ Assigned \in [Managers -> SUBSET Sites]
    /\ \A move \in Movements : /\ move.mat \in Materials /\ move.site \in Sites
                               /\ move.at \in Int /\ move.quant \in Int
    /\ Horizon \in Nat \ {0} /\ MaxRecords \in Nat /\ MaxEvents \in Nat

-----------------------------------------------------------------------------
(* What the records say.                                                   *)

Reverse(status) ==
    CASE status = "at_work" -> "on_maintenance" [] status = "on_maintenance" -> "at_work"

Active == {i \in DOMAIN statuses : statuses[i] # Gone /\ statuses[i].active}
RecordsOf(mat) == [i \in {i \in Active : statuses[i].mat = mat} |-> statuses[i]]

\* The order of records in time, by their numbers within an instant.
Precedes(records, i, k) ==
    \/ records[i].at < records[k].at
    \/ records[i].at = records[k].at /\ i < k

LatestOf(records) ==
    IF DOMAIN records = {} THEN [id |-> Null, at |-> 0, status |-> "at_work"]
    ELSE LET i == CHOOSE i \in DOMAIN records :
                     \A k \in DOMAIN records \ {i} : Precedes(records, k, i)
         IN  [id |-> i, at |-> records[i].at, status |-> records[i].status]

\* The latest status of a material, wherever it was recorded.
Latest(mat) == LatestOf(RecordsOf(mat))

Stock(moves) == MapThenSumSet(LAMBDA move : move.quant, moves)

\* Mutant: the stock of today.
BalanceToday(site, mat, at) == Stock({move \in ledger : move.site = site /\ move.mat = mat})

\* rg_materials_balance at an instant
BalanceAt(site, mat, at) ==
    Stock({move \in ledger : move.site = site /\ move.mat = mat /\ move.at <= at})

\* rg_materials_current
Balance(site, mat) == Stock({move \in ledger : move.site = site /\ move.mat = mat})

\* What a site shows: the materials it has with their latest status, and the
\* records made there.
Current(site) ==
    [mat \in {mat \in activeMaterials : Balance(site, mat) > 0} |->
       [id |-> Latest(mat).id, status |-> Latest(mat).status]]
History(site) == {i \in Active : statuses[i].site = site}

-----------------------------------------------------------------------------
(* Locks.                                                                  *)

HoldsTable(c) == txs[c] # Null /\ txs[c].step # "begun"
HoldsRows(c) == HoldsTable(c) /\ txs[c].step # "waiting"

\* New lines refer to the material; movements change the balance.
DocumentHolds(mat, site) ==
    /\ document # Null /\ document.move.mat = mat
    /\ document.posts \/ document.move.site = site

\* Mutant: the rows are read without a lock.
RowsUnlocked(c) == c \in Managers

RowsFree(c) ==
    /\ \A b \in Managers \ {c} : HoldsRows(b) => txs[b].mat # txs[c].mat
    /\ ~DocumentHolds(txs[c].mat, txs[c].site)

TableFree == \A c \in Managers : ~HoldsTable(c)

-----------------------------------------------------------------------------
Init ==
    /\ statuses = <<>>
    /\ ledger = Posted
    /\ activeMaterials = Materials
    /\ available = Assigned
    /\ txs = [c \in Managers |-> Null]
    /\ document = Null
    /\ edits = 0 /\ changes = 0

Record(mat, site, at, status) ==
    statuses' = Append(statuses,
       [mat |-> mat, site |-> site, at |-> at, status |-> status, active |-> TRUE])

ValidChange(at, status, target) == at <= Horizon /\ target = Reverse(status)

\* A manager reverses a status as his site has just shown it to him.
Begin(c) ==
    /\ txs[c] = Null
    /\ \E site \in available[c] : \E mat \in DOMAIN Current(site) :
       \E at \in 1..(Horizon + 1), target \in Values :
          LET shown == Current(site)[mat] IN
          /\ ValidChange(at, shown.status, target)
          /\ txs' = [txs EXCEPT ![c] =
                [site |-> site, mat |-> mat, at |-> at, expected |-> shown, target |-> target,
                 latest |-> Null, edits |-> 0, step |-> "begun"]]
    /\ UNCHANGED <<statuses, ledger, activeMaterials, available, document, edits, changes>>

Advance(c, step) ==
    /\ txs' = [txs EXCEPT ![c].step = step]
    /\ UNCHANGED <<statuses, ledger, activeMaterials, available, document, edits, changes>>

AtStep(c, step) == txs[c] # Null /\ txs[c].step = step

\* The next statement begins with a lock on the table.
CheckSite(c) ==
    /\ AtStep(c, "begun")
    /\ txs[c].site \in available[c]
    /\ Advance(c, "waiting")

LockMaterial(c) ==
    /\ AtStep(c, "waiting") /\ RowsFree(c)
    /\ txs[c].mat \in activeMaterials
    /\ Balance(txs[c].site, txs[c].mat) > 0
    /\ Advance(c, "locked")

\* In a statement of its own, after the locks.  (What administrators have
\* committed by then is remembered for ReversesWhatWasShown only.)
FetchLatest(c) ==
    /\ AtStep(c, "locked")
    /\ txs' = [txs EXCEPT ![c].latest = Latest(txs[c].mat), ![c].edits = edits,
                          ![c].step = "fetched"]
    /\ UNCHANGED <<statuses, ledger, activeMaterials, available, document, edits, changes>>

\* Mutant: the number of the record is not compared.
SameStatus(expected, latest) == expected.status = latest.status

SameRecord(expected, latest) == expected.id = latest.id /\ expected.status = latest.status

NotEarlier(at, latest) == latest.id # Null => at >= latest.at

CheckTransition(c) ==
    /\ AtStep(c, "fetched")
    /\ SameRecord(txs[c].expected, txs[c].latest)
    /\ txs[c].target = Reverse(txs[c].latest.status)
    /\ NotEarlier(txs[c].at, txs[c].latest)
    /\ BalanceAt(txs[c].site, txs[c].mat, txs[c].at) > 0
    /\ Advance(c, "checked")

Insert(c) ==
    /\ AtStep(c, "checked")
    /\ Len(statuses) < MaxRecords
    /\ Record(txs[c].mat, txs[c].site, txs[c].at, txs[c].target)
    /\ txs' = [txs EXCEPT ![c] = Null]
    /\ UNCHANGED <<ledger, activeMaterials, available, document, edits, changes>>

\* A check fails, the connection is lost, be it while the statement waits, or
\* the database ends a deadlock: a change that waits for rows of a document
\* holds the table the document needs.
Refuse(c) ==
    /\ txs[c] # Null
    /\ txs' = [txs EXCEPT ![c] = Null]
    /\ UNCHANGED <<statuses, ledger, activeMaterials, available, document, edits, changes>>

-----------------------------------------------------------------------------
(* Clerks, one after the other: RegisterTransactions has them at once.     *)

BeginDocument ==
    /\ document = Null /\ edits + changes < MaxEvents
    /\ \E move \in Movements :
          /\ document' = [move |-> move, posts |-> move \notin ledger]
          /\ \A c \in Managers : HoldsRows(c) /\ txs[c].mat = move.mat =>
                move \in ledger /\ txs[c].site # move.site
    /\ UNCHANGED <<statuses, ledger, activeMaterials, available, txs, edits, changes>>

CommitDocument ==
    /\ document # Null /\ TableFree
    /\ ledger' = IF document.posts THEN ledger \cup {document.move}
                                   ELSE ledger \ {document.move}
    /\ document' = Null
    /\ changes' = changes + 1
    /\ UNCHANGED <<statuses, activeMaterials, available, txs, edits>>

\* The document is refused, or ended by the database.
AbortDocument ==
    /\ document # Null
    /\ document' = Null
    /\ UNCHANGED <<statuses, ledger, activeMaterials, available, txs, edits, changes>>

-----------------------------------------------------------------------------
(* Administrators.                                                         *)

MaterialFree(mat) == \A c \in Managers : HoldsRows(c) => txs[c].mat # mat

Edit == edits + changes < MaxEvents /\ edits' = edits + 1

\* A new record refers to the material, and waits for who has locked it.
AdminCreate ==
    /\ Edit /\ Len(statuses) < MaxRecords
    /\ \E mat \in Materials, site \in Sites, status \in Values :
          MaterialFree(mat) /\ Record(mat, site, Horizon, status)
    /\ UNCHANGED <<ledger, activeMaterials, available, txs, document, changes>>

\* Any field is changed; a material that was not the record's is referred to
\* anew.
AdminUpdate ==
    /\ Edit
    /\ \E i \in DOMAIN statuses, row \in Records :
          /\ statuses[i] \notin {Gone, row}
          /\ row.mat # statuses[i].mat => MaterialFree(row.mat)
          /\ statuses' = [statuses EXCEPT ![i] = row]
    /\ UNCHANGED <<ledger, activeMaterials, available, txs, document, changes>>

AdminDelete ==
    /\ Edit
    /\ \E i \in DOMAIN statuses :
          statuses[i] # Gone /\ statuses' = [statuses EXCEPT ![i] = Gone]
    /\ UNCHANGED <<ledger, activeMaterials, available, txs, document, changes>>

EditCatalogue ==
    /\ edits + changes < MaxEvents /\ changes' = changes + 1
    /\ \/ /\ \E mat \in Materials :
                MaterialFree(mat) /\ activeMaterials' = activeMaterials \ {mat}
          /\ UNCHANGED available
       \/ /\ \E c \in Managers, site \in Sites : available' = [available EXCEPT ![c] = @ \ {site}]
          /\ UNCHANGED activeMaterials
    /\ UNCHANGED <<statuses, ledger, txs, document, edits>>

-----------------------------------------------------------------------------
Change(c) ==
    \/ CheckSite(c) \/ LockMaterial(c) \/ FetchLatest(c) \/ CheckTransition(c)
    \/ Insert(c) \/ Refuse(c)

Next ==
    \/ \E c \in Managers : Begin(c) \/ Change(c)
    \/ BeginDocument \/ CommitDocument \/ AbortDocument
    \/ AdminCreate \/ AdminUpdate \/ AdminDelete \/ EditCatalogue

Spec == Init /\ [][Next]_vars

-----------------------------------------------------------------------------
(* Properties.                                                             *)

TypeOK ==
    /\ statuses \in Seq(Records \cup {Gone}) /\ Len(statuses) <= MaxRecords
    /\ ledger \subseteq Movements
    /\ document # Null => document.move \in Movements
    /\ DOMAIN txs = Managers

\* As long as no administrator has edited anything, what the sites have
\* recorded of a material, ordered in time, is maintenance and work by turns
\* beginning with maintenance; it is in the order in which it was recorded;
\* and every site shows its end (the lock of the material across sites, and
\* the two orders of fetchConstructionManagerMaterialStatusLatest).
HistoryAlternates ==
    edits = 0 =>
       \A mat \in Materials :
          LET told == {i \in UNION {History(site) : site \in Sites} : statuses[i].mat = mat}
              place(i) == Cardinality({k \in told : Precedes(statuses, k, i)})
          IN  /\ \A i \in told : statuses[i].status = "on_maintenance" <=> place(i) % 2 = 0
              /\ \A i, k \in told : i < k => Precedes(statuses, i, k)
              /\ \A site \in Sites : mat \in DOMAIN Current(site) =>
                    (Current(site)[mat].status = "on_maintenance" <=> Cardinality(told) % 2 = 1)

\* A manager's record reverses the very record he was shown as the latest
\* one, whatever was recorded at other sites while he was choosing or
\* waiting.  An administrator's update is not excluded by the lock: what he
\* changes between the look at the latest record and the commit is missed.
ReversesWhatWasShown ==
    [][\A c \in Managers :
          Len(statuses') > Len(statuses) /\ txs[c] # Null /\ txs'[c] = Null
             /\ txs[c].edits = edits
          => LET latest == Latest(txs[c].mat) IN
             /\ [id |-> latest.id, status |-> latest.status] = txs[c].expected
             /\ statuses'[Len(statuses')].status = Reverse(latest.status)]_vars

\* The site has the material, now and at the instant of the change.
InStock(tx) ==
    /\ tx.mat \in activeMaterials
    /\ Balance(tx.site, tx.mat) > 0
    /\ Stock({move \in ledger :
                move.site = tx.site /\ move.mat = tx.mat /\ move.at <= tx.at}) > 0

\* When a manager's record is committed the material is active and the site
\* has it, now and at the instant recorded: no document or administrator has
\* come between the checks and the commit.
RecordedInStock ==
    [][\A c \in Managers :
          Len(statuses') > Len(statuses) /\ txs[c] # Null /\ txs'[c] = Null
          => InStock(txs[c])]_vars
=============================================================================
