-------------------------- MODULE MaterialStatusProofs --------------------------
(***************************************************************************)
(* Theorems about MaterialStatus, for any managers, sites, materials,      *)
(* movements and bounds.                                                   *)
(***************************************************************************)
EXTENDS MaterialStatus, SequenceTheorems, FiniteSetTheorems, TLAPS

-----------------------------------------------------------------------------
(* Records.                                                                *)

Entries == Records \cup {Gone}

RecordsInv ==
    /\ statuses \in Seq(Entries)
    /\ Len(statuses) <= MaxRecords

\* A record appended is at the end; the others stay where they are.
LEMMA Appended ==
    ASSUME NEW S, NEW s \in Seq(S), NEW e \in S
    PROVE  /\ Append(s, e) \in Seq(S)
           /\ Len(Append(s, e)) = Len(s) + 1 /\ Len(s) \in Nat
           /\ DOMAIN s = 1..Len(s) /\ DOMAIN Append(s, e) = 1..(Len(s) + 1)
           /\ \A i \in 1..Len(s) : Append(s, e)[i] = s[i]
           /\ Append(s, e)[Len(s) + 1] = e
BY AppendProperties, LenProperties

\* What a site or an administrator adds to the records.
RecordStep(mat, site, at, status) ==
    /\ mat \in Materials /\ site \in Sites /\ at \in Instants /\ status \in Values
    /\ Len(statuses) < MaxRecords
    /\ Record(mat, site, at, status)

LEMMA RecordPreserves ==
    ASSUME RecordsInv, NEW mat, NEW site, NEW at, NEW status, RecordStep(mat, site, at, status)
    PROVE  /\ RecordsInv'
           /\ Len(statuses') = Len(statuses) + 1 /\ Len(statuses) \in Nat
           /\ statuses'[Len(statuses')].status = status
           /\ \A m \in Materials : m # mat => Latest(m)' = Latest(m)
<1> DEFINE new == [mat |-> mat, site |-> site, at |-> at, status |-> status, active |-> TRUE]
<1>1. new \in Records
  BY DEF RecordStep, Records
<1>2. new \in Entries /\ statuses \in Seq(Entries) /\ statuses' = Append(statuses, new)
  BY <1>1 DEF RecordStep, Record, Entries, RecordsInv
<1>3. new # Gone /\ new.mat = mat /\ new.status = status
  BY <1>1, StatusAssumption
<1> HIDE DEF new
<1>4. /\ statuses' \in Seq(Entries)
      /\ Len(statuses') = Len(statuses) + 1 /\ Len(statuses) \in Nat
      /\ DOMAIN statuses = 1..Len(statuses) /\ DOMAIN statuses' = 1..(Len(statuses) + 1)
      /\ \A i \in 1..Len(statuses) : statuses'[i] = statuses[i]
      /\ statuses'[Len(statuses) + 1] = new
  BY <1>2, Appended
<1>5. RecordsInv'
  BY <1>4, StatusAssumption DEF RecordsInv, RecordStep
<1>6. ASSUME NEW m \in Materials, m # mat
      PROVE  Latest(m)' = Latest(m)
  <2>1. {i \in Active : statuses[i].mat = m}' = {i \in Active : statuses[i].mat = m}
    BY <1>3, <1>4, <1>6 DEF Active
  <2>2. \A i \in {i \in Active : statuses[i].mat = m} : statuses'[i] = statuses[i]
    BY <1>4 DEF Active
  <2>3. RecordsOf(m)' = RecordsOf(m)
    BY <2>1, <2>2 DEF RecordsOf
  <2> QED
    BY <2>3 DEF Latest
<1> QED
  BY <1>3, <1>4, <1>5, <1>6

\* What an administrator makes of one of the records.
LEMMA RewriteTyped ==
    ASSUME RecordsInv, NEW i \in DOMAIN statuses, NEW e \in Entries,
           statuses' = [statuses EXCEPT ![i] = e]
    PROVE  RecordsInv'
<1>1. statuses \in Seq(Entries) /\ i \in 1..Len(statuses)
  BY LenProperties DEF RecordsInv
<1>2. statuses' \in Seq(Entries) /\ Len(statuses') = Len(statuses)
  BY <1>1, ExceptSeq
<1> QED
  BY <1>2 DEF RecordsInv

-----------------------------------------------------------------------------
(* Changes under way.                                                      *)

Steps == {"begun", "waiting", "locked", "fetched", "checked"}

IsTx(tx) ==
    /\ tx = [site |-> tx.site, mat |-> tx.mat, at |-> tx.at, expected |-> tx.expected,
             target |-> tx.target, latest |-> tx.latest, edits |-> tx.edits, step |-> tx.step]
    /\ tx.site \in Sites /\ tx.mat \in Materials /\ tx.at \in Instants
    /\ tx.target \in Values /\ tx.edits \in Nat /\ tx.step \in Steps
    /\ tx.expected = [id |-> tx.expected.id, status |-> tx.expected.status]

\* What the latest statement has read still holds: the latest record while
\* no administrator edits the records, stock and material by the locks.
StillHolds(c) ==
    LET tx == txs[c] IN
    /\ tx.edits <= edits
    /\ tx.step \in {"fetched", "checked"} /\ tx.edits = edits => tx.latest = Latest(tx.mat)
    /\ tx.step \in {"locked", "fetched", "checked"} =>
          tx.mat \in activeMaterials /\ Balance(tx.site, tx.mat) > 0
    /\ tx.step = "checked" =>
          /\ SameRecord(tx.expected, tx.latest) /\ tx.target = Reverse(tx.latest.status)
          /\ NotEarlier(tx.at, tx.latest)
          /\ BalanceAt(tx.site, tx.mat, tx.at) > 0

ChangeInv(c) == txs[c] # Null => IsTx(txs[c]) /\ StillHolds(c)

\* Two changes that have locked rows are of different materials.
ApartInv ==
    \A b, c \in Managers : b # c /\ HoldsRows(b) /\ HoldsRows(c) => txs[b].mat # txs[c].mat

OthersInv ==
    /\ ledger \subseteq Movements
    /\ document # Null => document.move \in Movements
    /\ activeMaterials \subseteq Materials
    /\ available \in [Managers -> SUBSET Sites]
    /\ edits \in Nat

StatusInv ==
    /\ RecordsInv /\ OthersInv
    /\ txs = [c \in Managers |-> txs[c]]
    /\ \A c \in Managers : ChangeInv(c)
    /\ ApartInv

\* A change that is not touched, in a step that touches nothing it has read.
LEMMA Untouched ==
    ASSUME NEW c \in Managers, ChangeInv(c), txs'[c] = txs[c],
           UNCHANGED <<statuses, ledger, activeMaterials, edits>>
    PROVE  ChangeInv(c)'
<1>1. \A m : Latest(m)' = Latest(m)
  BY DEF Latest, RecordsOf, Active
<1>2. /\ \A site, mat : Balance(site, mat)' = Balance(site, mat)
      /\ \A site, mat, at : BalanceAt(site, mat, at)' = BalanceAt(site, mat, at)
  BY DEF Balance, BalanceAt
<1> QED
  BY <1>1, <1>2 DEF ChangeInv, StillHolds, IsTx, SameRecord, NotEarlier, Reverse

\* Nobody locks further rows.
LEMMA StillApart ==
    ASSUME ApartInv,
           \A c \in Managers : HoldsRows(c)' => HoldsRows(c) /\ txs'[c].mat = txs[c].mat
    PROVE  ApartInv'
<1>1. \A b, c \in Managers : b # c /\ HoldsRows(b)' /\ HoldsRows(c)' => txs'[b].mat # txs'[c].mat
  BY DEF ApartInv
<1> QED
  BY <1>1 DEF ApartInv, HoldsRows, HoldsTable

\* A step of a change is recorded in it.
LEMMA Stepped ==
    ASSUME NEW tx, IsTx(tx), NEW step \in Steps
    PROVE  LET tx2 == [tx EXCEPT !.step = step] IN
           /\ IsTx(tx2)
           /\ tx2.step = step /\ tx2.mat = tx.mat /\ tx2.site = tx.site /\ tx2.at = tx.at
           /\ tx2.expected = tx.expected /\ tx2.target = tx.target /\ tx2.latest = tx.latest
           /\ tx2.edits = tx.edits
<1> DEFINE tx2 == [tx EXCEPT !.step = step]
<1>1. tx2 = [site |-> tx.site, mat |-> tx.mat, at |-> tx.at, expected |-> tx.expected,
             target |-> tx.target, latest |-> tx.latest, edits |-> tx.edits, step |-> step]
  BY DEF IsTx
<1> HIDE DEF tx2
<1>2. /\ tx2.step = step /\ tx2.mat = tx.mat /\ tx2.site = tx.site /\ tx2.at = tx.at
      /\ tx2.expected = tx.expected /\ tx2.target = tx.target /\ tx2.latest = tx.latest
      /\ tx2.edits = tx.edits
  BY <1>1
<1>3. IsTx(tx2)
  BY <1>1, <1>2 DEF IsTx
<1> QED
  BY <1>2, <1>3 DEF tx2

\* What Advance does, of the change and of the others.
LEMMA Advances ==
    ASSUME StatusInv, NEW c \in Managers, txs[c] # Null, NEW step \in Steps, Advance(c, step)
    PROVE  /\ UNCHANGED <<statuses, ledger, activeMaterials, available, document, edits>>
           /\ txs' = [b \in Managers |-> txs'[b]]
           /\ \A b \in Managers \ {c} : txs'[b] = txs[b]
           /\ IsTx(txs'[c]) /\ txs'[c].step = step
           /\ txs'[c].mat = txs[c].mat /\ txs'[c].site = txs[c].site /\ txs'[c].at = txs[c].at
           /\ txs'[c].expected = txs[c].expected /\ txs'[c].target = txs[c].target
           /\ txs'[c].latest = txs[c].latest /\ txs'[c].edits = txs[c].edits
<1>1. /\ txs' = [txs EXCEPT ![c].step = step]
      /\ UNCHANGED <<statuses, ledger, activeMaterials, available, document, edits>>
  BY DEF Advance
<1>2. txs = [b \in Managers |-> txs[b]] /\ IsTx(txs[c])
  BY DEF StatusInv, ChangeInv
<1>3. /\ txs'[c] = [txs[c] EXCEPT !.step = step]
      /\ txs' = [b \in Managers |-> txs'[b]]
      /\ \A b \in Managers \ {c} : txs'[b] = txs[b]
  BY <1>1, <1>2
<1> DEFINE tx2 == [txs[c] EXCEPT !.step = step]
<1>4. /\ IsTx(tx2)
      /\ tx2.step = step /\ tx2.mat = txs[c].mat /\ tx2.site = txs[c].site /\ tx2.at = txs[c].at
      /\ tx2.expected = txs[c].expected /\ tx2.target = txs[c].target
      /\ tx2.latest = txs[c].latest /\ tx2.edits = txs[c].edits
  BY <1>2, Stepped
<1>5. txs'[c] = tx2
  BY <1>3
<1> HIDE DEF tx2
<1> QED
  BY <1>1, <1>3, <1>4, <1>5

\* What is left to show of a step of one change that writes nothing.
LEMMA OneChange ==
    ASSUME StatusInv, NEW c \in Managers,
           UNCHANGED <<statuses, ledger, activeMaterials, available, document, edits>>,
           txs' = [b \in Managers |-> txs'[b]],
           \A b \in Managers \ {c} : txs'[b] = txs[b],
           ChangeInv(c)',
           HoldsRows(c)' => HoldsRows(c) /\ txs'[c].mat = txs[c].mat
    PROVE  StatusInv'
<1>1. RecordsInv' /\ OthersInv'
  BY DEF StatusInv, RecordsInv, OthersInv
<1>2. \A b \in Managers : ChangeInv(b)'
  <2> TAKE b \in Managers
  <2>1. CASE b = c
    BY <2>1
  <2>2. CASE b # c
    BY <2>2, Untouched DEF StatusInv
  <2> QED
    BY <2>1, <2>2
<1>3. \A b \in Managers : HoldsRows(b)' => HoldsRows(b) /\ txs'[b].mat = txs[b].mat
  BY DEF HoldsRows, HoldsTable
<1>4. ApartInv'
  BY <1>3, StillApart DEF StatusInv
<1> QED
  BY <1>1, <1>2, <1>4 DEF StatusInv

\* What the readings of a step are, after one that writes nothing.
LEMMA SameReadings ==
    ASSUME UNCHANGED <<statuses, ledger, activeMaterials, edits>>
    PROVE  /\ \A m : Latest(m)' = Latest(m)
           /\ \A site, mat : Balance(site, mat)' = Balance(site, mat)
           /\ \A site, mat, at : BalanceAt(site, mat, at)' = BalanceAt(site, mat, at)
<1>1. \A m : Latest(m)' = Latest(m)
  BY DEF Latest, RecordsOf, Active
<1>2. \A site, mat : Balance(site, mat)' = Balance(site, mat)
  BY DEF Balance
<1>3. \A site, mat, at : BalanceAt(site, mat, at)' = BalanceAt(site, mat, at)
  BY DEF BalanceAt
<1> QED
  BY <1>1, <1>2, <1>3

-----------------------------------------------------------------------------
(* The steps of a change.                                                  *)

LEMMA BeginPreserves ==
    ASSUME StatusInv, NEW c \in Managers, Begin(c)
    PROVE  StatusInv'
<1>1. /\ txs[c] = Null
      /\ UNCHANGED <<statuses, ledger, activeMaterials, available, document, edits>>
  BY DEF Begin
<1>2. PICK site \in available[c] :
         \E mat \in DOMAIN Current(site) : \E at \in 1..(Horizon + 1), target \in Values :
            LET shown == Current(site)[mat] IN
            /\ ValidChange(at, shown.status, target)
            /\ txs' = [txs EXCEPT ![c] =
                  [site |-> site, mat |-> mat, at |-> at, expected |-> shown, target |-> target,
                   latest |-> Null, edits |-> 0, step |-> "begun"]]
  BY DEF Begin
<1>3. PICK mat \in DOMAIN Current(site), at \in 1..(Horizon + 1), target \in Values :
         /\ ValidChange(at, Current(site)[mat].status, target)
         /\ txs' = [txs EXCEPT ![c] =
               [site |-> site, mat |-> mat, at |-> at, expected |-> Current(site)[mat],
                target |-> target, latest |-> Null, edits |-> 0, step |-> "begun"]]
  BY <1>2
<1>4. site \in Sites /\ mat \in Materials /\ at \in Instants
  <2>1. site \in Sites
    BY DEF StatusInv, OthersInv
  <2>2. mat \in activeMaterials
    BY DEF Current
  <2>3. at \in Instants
    BY <1>3, StatusAssumption DEF ValidChange, Instants
  <2> QED
    BY <2>1, <2>2, <2>3 DEF StatusInv, OthersInv
<1>5. Current(site)[mat] = [id |-> Latest(mat).id, status |-> Latest(mat).status]
  BY DEF Current
<1>6. txs = [b \in Managers |-> txs[b]]
  BY DEF StatusInv
<1>7. /\ txs' = [b \in Managers |-> txs'[b]]
      /\ \A b \in Managers \ {c} : txs'[b] = txs[b]
      /\ txs'[c] = [site |-> site, mat |-> mat, at |-> at, expected |-> Current(site)[mat],
                    target |-> target, latest |-> Null, edits |-> 0, step |-> "begun"]
  BY <1>3, <1>6
<1>8. /\ txs'[c].step = "begun" /\ txs'[c].edits = 0 /\ txs'[c].site = site /\ txs'[c].mat = mat
      /\ txs'[c].at = at /\ txs'[c].target = target /\ txs'[c].expected = Current(site)[mat]
      /\ txs'[c].latest = Null
  BY <1>7
<1>9. IsTx(txs'[c])
  <2>1. txs'[c].expected = [id |-> txs'[c].expected.id, status |-> txs'[c].expected.status]
    BY <1>5, <1>8
  <2> QED
    BY <1>4, <1>7, <1>8, <2>1 DEF IsTx, Steps
<1>10. edits' \in Nat
  BY <1>1 DEF StatusInv, OthersInv
<1>11. ChangeInv(c)'
  BY <1>8, <1>9, <1>10 DEF ChangeInv, StillHolds, IsTx
<1>12. ~HoldsRows(c)'
  BY <1>8 DEF HoldsRows, HoldsTable
<1> QED
  BY <1>1, <1>7, <1>11, <1>12, OneChange

LEMMA CheckSitePreserves ==
    ASSUME StatusInv, NEW c \in Managers, CheckSite(c)
    PROVE  StatusInv'
<1>1. txs[c] # Null /\ Advance(c, "waiting") /\ "waiting" \in Steps
  BY DEF CheckSite, AtStep, Steps
<1>2. /\ UNCHANGED <<statuses, ledger, activeMaterials, available, document, edits>>
      /\ txs' = [b \in Managers |-> txs'[b]]
      /\ \A b \in Managers \ {c} : txs'[b] = txs[b]
      /\ IsTx(txs'[c]) /\ txs'[c].step = "waiting" /\ txs'[c].edits = txs[c].edits
  BY <1>1, Advances
<1>3. txs[c].edits <= edits
  BY <1>1 DEF StatusInv, ChangeInv, StillHolds
<1>4. ChangeInv(c)'
  BY <1>2, <1>3 DEF ChangeInv, StillHolds, IsTx
<1>5. ~HoldsRows(c)'
  BY <1>2 DEF HoldsRows, HoldsTable
<1> QED
  BY <1>2, <1>4, <1>5, OneChange

LEMMA LockMaterialPreserves ==
    ASSUME StatusInv, NEW c \in Managers, LockMaterial(c)
    PROVE  StatusInv'
<1>1. /\ txs[c] # Null /\ Advance(c, "locked") /\ "locked" \in Steps
      /\ RowsFree(c) /\ txs[c].mat \in activeMaterials /\ Balance(txs[c].site, txs[c].mat) > 0
  BY DEF LockMaterial, AtStep, Steps
<1>2. /\ UNCHANGED <<statuses, ledger, activeMaterials, available, document, edits>>
      /\ txs' = [b \in Managers |-> txs'[b]]
      /\ \A b \in Managers \ {c} : txs'[b] = txs[b]
      /\ IsTx(txs'[c]) /\ txs'[c].step = "locked" /\ txs'[c].edits = txs[c].edits
      /\ txs'[c].mat = txs[c].mat /\ txs'[c].site = txs[c].site
  BY <1>1, Advances
<1>3. txs[c].edits <= edits
  BY <1>1 DEF StatusInv, ChangeInv, StillHolds
<1>4. Balance(txs[c].site, txs[c].mat)' = Balance(txs[c].site, txs[c].mat)
  BY <1>2 DEF Balance
<1>5. ChangeInv(c)'
  BY <1>1, <1>2, <1>3, <1>4 DEF ChangeInv, StillHolds, IsTx
<1>6. \A b \in Managers : ChangeInv(b)'
  <2> TAKE b \in Managers
  <2>1. CASE b = c
    BY <1>5, <2>1
  <2>2. CASE b # c
    BY <1>2, <2>2, Untouched DEF StatusInv
  <2> QED
    BY <2>1, <2>2
<1>7. \A b \in Managers \ {c} : HoldsRows(b)' => txs'[b].mat # txs'[c].mat
  BY <1>1, <1>2 DEF RowsFree, HoldsRows, HoldsTable
<1>8. ApartInv'
  <2>1. \A b, d \in Managers \ {c} :
           b # d /\ HoldsRows(b)' /\ HoldsRows(d)' => txs'[b].mat # txs'[d].mat
    BY <1>2 DEF StatusInv, ApartInv, HoldsRows, HoldsTable
  <2> QED
    BY <1>7, <2>1 DEF ApartInv, HoldsRows, HoldsTable
<1>9. RecordsInv' /\ OthersInv'
  BY <1>2 DEF StatusInv, RecordsInv, OthersInv
<1> QED
  BY <1>2, <1>6, <1>8, <1>9 DEF StatusInv

\* So is what it has read.
Looking(tx, latest, count) ==
    [tx EXCEPT !.latest = latest, !.edits = count, !.step = "fetched"]

LEMMA Looked ==
    ASSUME NEW tx, IsTx(tx), NEW latest, NEW count \in Nat
    PROVE  /\ IsTx(Looking(tx, latest, count))
           /\ Looking(tx, latest, count).step = "fetched"
           /\ Looking(tx, latest, count).mat = tx.mat
           /\ Looking(tx, latest, count).site = tx.site
           /\ Looking(tx, latest, count).latest = latest
           /\ Looking(tx, latest, count).edits = count
<1> DEFINE tx2 == Looking(tx, latest, count)
<1>1. tx2 = [site |-> tx.site, mat |-> tx.mat, at |-> tx.at, expected |-> tx.expected,
             target |-> tx.target, latest |-> latest, edits |-> count, step |-> "fetched"]
  <2> DEFINE a == [tx EXCEPT !.latest = latest]
             b == [a EXCEPT !.edits = count]
  <2>1. a = [site |-> tx.site, mat |-> tx.mat, at |-> tx.at, expected |-> tx.expected,
             target |-> tx.target, latest |-> latest, edits |-> tx.edits, step |-> tx.step]
    BY DEF IsTx
  <2>2. tx2 = [b EXCEPT !.step = "fetched"]
    BY DEF Looking
  <2> HIDE DEF a
  <2>3. b = [site |-> tx.site, mat |-> tx.mat, at |-> tx.at, expected |-> tx.expected,
             target |-> tx.target, latest |-> latest, edits |-> count, step |-> tx.step]
    BY <2>1
  <2> HIDE DEF b, tx2
  <2> QED
    BY <2>2, <2>3
<1> HIDE DEF tx2
<1>2. /\ tx2.step = "fetched" /\ tx2.mat = tx.mat /\ tx2.site = tx.site /\ tx2.at = tx.at
      /\ tx2.expected = tx.expected /\ tx2.target = tx.target /\ tx2.latest = latest
      /\ tx2.edits = count
  BY <1>1
<1>3. IsTx(tx2)
  BY <1>1, <1>2 DEF IsTx, Steps
<1> QED
  BY <1>2, <1>3 DEF tx2

LEMMA FetchLatestPreserves ==
    ASSUME StatusInv, NEW c \in Managers, FetchLatest(c)
    PROVE  StatusInv'
<1> DEFINE tx2 == Looking(txs[c], Latest(txs[c].mat), edits)
<1>1. /\ txs[c] # Null /\ txs[c].step = "locked" /\ txs' = [txs EXCEPT ![c] = tx2]
      /\ UNCHANGED <<statuses, ledger, activeMaterials, available, document, edits>>
  BY DEF FetchLatest, AtStep, Looking
<1>2. IsTx(txs[c]) /\ StillHolds(c) /\ txs = [b \in Managers |-> txs[b]] /\ edits \in Nat
  BY <1>1 DEF StatusInv, ChangeInv, OthersInv
<1>3. /\ txs' = [b \in Managers |-> txs'[b]]
      /\ \A b \in Managers \ {c} : txs'[b] = txs[b]
      /\ txs'[c] = tx2
  BY <1>1, <1>2
<1>4. /\ IsTx(tx2)
      /\ tx2.step = "fetched" /\ tx2.mat = txs[c].mat /\ tx2.site = txs[c].site
      /\ tx2.latest = Latest(txs[c].mat) /\ tx2.edits = edits
  BY <1>2, Looked
<1> HIDE DEF tx2
<1>5. txs'[c].mat = txs[c].mat /\ txs'[c].site = txs[c].site
  BY <1>3, <1>4
<1>6. /\ Latest(txs[c].mat)' = Latest(txs[c].mat)
      /\ Balance(txs[c].site, txs[c].mat)' = Balance(txs[c].site, txs[c].mat)
  BY <1>1, <1>5 DEF Latest, RecordsOf, Active, Balance
<1>7. txs[c].mat \in activeMaterials /\ Balance(txs[c].site, txs[c].mat) > 0
  BY <1>1, <1>2 DEF StillHolds
<1>8. StillHolds(c)'
  BY <1>1, <1>2, <1>3, <1>4, <1>5, <1>6, <1>7 DEF StillHolds
<1>9. ChangeInv(c)'
  BY <1>3, <1>4, <1>8 DEF ChangeInv, IsTx
<1>10. HoldsRows(c)
  BY <1>1 DEF HoldsRows, HoldsTable
<1> QED
  BY <1>1, <1>3, <1>5, <1>9, <1>10, OneChange

LEMMA CheckTransitionPreserves ==
    ASSUME StatusInv, NEW c \in Managers, CheckTransition(c)
    PROVE  StatusInv'
<1>1. /\ txs[c] # Null /\ txs[c].step = "fetched" /\ Advance(c, "checked") /\ "checked" \in Steps
      /\ SameRecord(txs[c].expected, txs[c].latest)
      /\ txs[c].target = Reverse(txs[c].latest.status)
      /\ NotEarlier(txs[c].at, txs[c].latest)
      /\ BalanceAt(txs[c].site, txs[c].mat, txs[c].at) > 0
  BY DEF CheckTransition, AtStep, Steps
<1>2. /\ UNCHANGED <<statuses, ledger, activeMaterials, available, document, edits>>
      /\ txs' = [b \in Managers |-> txs'[b]]
      /\ \A b \in Managers \ {c} : txs'[b] = txs[b]
      /\ IsTx(txs'[c]) /\ txs'[c].step = "checked"
      /\ txs'[c].mat = txs[c].mat /\ txs'[c].site = txs[c].site /\ txs'[c].at = txs[c].at
      /\ txs'[c].expected = txs[c].expected /\ txs'[c].target = txs[c].target
      /\ txs'[c].latest = txs[c].latest /\ txs'[c].edits = txs[c].edits
  BY <1>1, Advances
<1>3. StillHolds(c)
  BY <1>1 DEF StatusInv, ChangeInv
<1>4. /\ Latest(txs[c].mat)' = Latest(txs[c].mat)
      /\ Balance(txs[c].site, txs[c].mat)' = Balance(txs[c].site, txs[c].mat)
      /\ BalanceAt(txs[c].site, txs[c].mat, txs[c].at)' = BalanceAt(txs[c].site, txs[c].mat, txs[c].at)
  BY <1>2 DEF Latest, RecordsOf, Active, Balance, BalanceAt
<1>5. /\ txs[c].edits <= edits
      /\ txs[c].edits = edits => txs[c].latest = Latest(txs[c].mat)
      /\ txs[c].mat \in activeMaterials /\ Balance(txs[c].site, txs[c].mat) > 0
  BY <1>1, <1>3 DEF StillHolds
<1>6. StillHolds(c)'
  BY <1>1, <1>2, <1>4, <1>5 DEF StillHolds, SameRecord, NotEarlier, Reverse
<1>7. ChangeInv(c)'
  BY <1>2, <1>6 DEF ChangeInv, IsTx
<1>8. HoldsRows(c)
  BY <1>1 DEF HoldsRows, HoldsTable
<1> QED
  BY <1>2, <1>7, <1>8, OneChange

LEMMA RefusePreserves ==
    ASSUME StatusInv, NEW c \in Managers, Refuse(c)
    PROVE  StatusInv'
<1>1. /\ txs' = [txs EXCEPT ![c] = Null]
      /\ UNCHANGED <<statuses, ledger, activeMaterials, available, document, edits>>
  BY DEF Refuse
<1>2. txs = [b \in Managers |-> txs[b]]
  BY DEF StatusInv
<1>3. /\ txs' = [b \in Managers |-> txs'[b]]
      /\ \A b \in Managers \ {c} : txs'[b] = txs[b]
      /\ txs'[c] = Null
  BY <1>1, <1>2
<1>4. ChangeInv(c)' /\ ~HoldsRows(c)'
  BY <1>3 DEF ChangeInv, HoldsRows, HoldsTable
<1> QED
  BY <1>1, <1>3, <1>4, OneChange

\* A record of one material is not missed by a change of another one.
LEMMA RecordMissesNone ==
    ASSUME NEW c \in Managers, ChangeInv(c), txs'[c] = txs[c],
           UNCHANGED <<ledger, activeMaterials, edits>>,
           HoldsRows(c) => Latest(txs[c].mat)' = Latest(txs[c].mat)
    PROVE  ChangeInv(c)'
<1>1. CASE txs[c] = Null
  BY <1>1 DEF ChangeInv
<1>2. CASE txs[c] # Null
  <2>1. IsTx(txs[c]) /\ StillHolds(c)
    BY <1>2 DEF ChangeInv
  <2>2. txs[c].step \in {"fetched", "checked"} => HoldsRows(c)
    BY <1>2 DEF HoldsRows, HoldsTable
  <2>3. /\ Balance(txs[c].site, txs[c].mat)' = Balance(txs[c].site, txs[c].mat)
        /\ BalanceAt(txs[c].site, txs[c].mat, txs[c].at)'
              = BalanceAt(txs[c].site, txs[c].mat, txs[c].at)
    BY DEF Balance, BalanceAt
  <2>4. StillHolds(c)'
    BY <2>1, <2>2, <2>3 DEF StillHolds, SameRecord, NotEarlier, Reverse
  <2> QED
    BY <2>1, <2>4 DEF ChangeInv, IsTx
<1> QED
  BY <1>1, <1>2

LEMMA InsertPreserves ==
    ASSUME StatusInv, NEW c \in Managers, Insert(c)
    PROVE  StatusInv'
<1>1. /\ txs[c] # Null /\ txs[c].step = "checked" /\ Len(statuses) < MaxRecords
      /\ Record(txs[c].mat, txs[c].site, txs[c].at, txs[c].target)
      /\ txs' = [txs EXCEPT ![c] = Null]
      /\ UNCHANGED <<ledger, activeMaterials, available, document, edits>>
  BY DEF Insert, AtStep
<1>2. txs = [b \in Managers |-> txs[b]] /\ RecordsInv /\ OthersInv /\ ApartInv
  BY DEF StatusInv
<1>3. /\ txs' = [b \in Managers |-> txs'[b]]
      /\ \A b \in Managers \ {c} : txs'[b] = txs[b]
      /\ txs'[c] = Null
  BY <1>1, <1>2
<1>4. IsTx(txs[c])
  BY <1>1 DEF StatusInv, ChangeInv
<1>5. RecordStep(txs[c].mat, txs[c].site, txs[c].at, txs[c].target)
  BY <1>1, <1>4 DEF RecordStep, IsTx
<1>6. RecordsInv' /\ \A m \in Materials : m # txs[c].mat => Latest(m)' = Latest(m)
  BY <1>2, <1>5, RecordPreserves
<1>7. HoldsRows(c)
  BY <1>1 DEF HoldsRows, HoldsTable
<1>8. \A b \in Managers : ChangeInv(b)'
  <2> TAKE b \in Managers
  <2>1. CASE b = c
    BY <1>3, <2>1 DEF ChangeInv
  <2>2. CASE b # c
    <3>1. ChangeInv(b) /\ txs'[b] = txs[b]
      BY <1>3, <2>2 DEF StatusInv
    <3>2. HoldsRows(b) => txs[b].mat \in Materials /\ txs[b].mat # txs[c].mat
      BY <1>2, <1>7, <2>2, <3>1 DEF ApartInv, ChangeInv, IsTx, HoldsRows, HoldsTable
    <3>3. HoldsRows(b) => Latest(txs[b].mat)' = Latest(txs[b].mat)
      BY <1>6, <3>1, <3>2
    <3> QED
      BY <1>1, <3>1, <3>3, RecordMissesNone
  <2> QED
    BY <2>1, <2>2
<1>9. \A b \in Managers : HoldsRows(b)' => HoldsRows(b) /\ txs'[b].mat = txs[b].mat
  BY <1>3 DEF HoldsRows, HoldsTable
<1>10. ApartInv'
  BY <1>2, <1>9, StillApart
<1>11. OthersInv'
  BY <1>1, <1>2 DEF OthersInv
<1> QED
  BY <1>3, <1>6, <1>8, <1>10, <1>11 DEF StatusInv

-----------------------------------------------------------------------------
(* Documents.                                                              *)

\* Nobody has read anything a step that changes no change could make wrong.
LEMMA LeavesChanges ==
    ASSUME StatusInv, UNCHANGED txs, RecordsInv', OthersInv', \A c \in Managers : ChangeInv(c)'
    PROVE  StatusInv'
<1>1. \A c \in Managers : HoldsRows(c)' => HoldsRows(c) /\ txs'[c].mat = txs[c].mat
  BY DEF HoldsRows, HoldsTable
<1>2. ApartInv'
  BY <1>1, StillApart DEF StatusInv
<1> QED
  BY <1>2 DEF StatusInv

LEMMA BeginDocumentPreserves ==
    ASSUME StatusInv, BeginDocument
    PROVE  StatusInv'
<1>1. PICK move \in Movements : document' = [move |-> move, posts |-> move \notin ledger]
  BY DEF BeginDocument
<1>2. UNCHANGED <<statuses, ledger, activeMaterials, available, txs, edits>>
  BY DEF BeginDocument
<1>3. document'.move = move
  BY <1>1
<1>4. OthersInv' /\ RecordsInv'
  BY <1>2, <1>3 DEF StatusInv, OthersInv, RecordsInv
<1>5. \A c \in Managers : ChangeInv(c)'
  BY <1>2, Untouched DEF StatusInv
<1> QED
  BY <1>2, <1>4, <1>5, LeavesChanges

LEMMA AbortDocumentPreserves ==
    ASSUME StatusInv, AbortDocument
    PROVE  StatusInv'
<1>1. document' = Null /\ UNCHANGED <<statuses, ledger, activeMaterials, available, txs, edits>>
  BY DEF AbortDocument
<1>2. document' = document \/ document' = Null
  BY <1>1
<1>3. OthersInv' /\ RecordsInv'
  BY <1>1, <1>2 DEF StatusInv, OthersInv, RecordsInv, AbortDocument
<1>4. \A c \in Managers : ChangeInv(c)'
  BY <1>1, Untouched DEF StatusInv
<1> QED
  BY <1>1, <1>3, <1>4, LeavesChanges

\* The table is free, so no change has looked at the stock yet.
LEMMA CommitDocumentPreserves ==
    ASSUME StatusInv, CommitDocument
    PROVE  StatusInv'
<1>1. /\ document # Null /\ TableFree /\ document' = Null
      /\ ledger' = IF document.posts THEN ledger \cup {document.move}
                                     ELSE ledger \ {document.move}
      /\ UNCHANGED <<statuses, activeMaterials, available, txs, edits>>
  BY DEF CommitDocument
<1>2. ledger' \subseteq Movements
  BY <1>1 DEF StatusInv, OthersInv
<1>3. OthersInv' /\ RecordsInv'
  BY <1>1, <1>2 DEF StatusInv, OthersInv, RecordsInv
<1>4. ASSUME NEW c \in Managers
      PROVE  ChangeInv(c)'
  <2>1. CASE txs[c] = Null
    BY <1>1, <2>1 DEF ChangeInv
  <2>2. CASE txs[c] # Null
    <3>1. IsTx(txs[c]) /\ StillHolds(c) /\ txs[c].step = "begun"
      BY <1>1, <2>2 DEF StatusInv, ChangeInv, TableFree, HoldsTable
    <3>2. txs[c].edits <= edits
      BY <3>1 DEF StillHolds
    <3>3. StillHolds(c)'
      BY <1>1, <3>1, <3>2 DEF StillHolds
    <3> QED
      BY <1>1, <3>1, <3>3 DEF ChangeInv, IsTx
  <2> QED
    BY <2>1, <2>2
<1> QED
  BY <1>1, <1>3, <1>4, LeavesChanges

-----------------------------------------------------------------------------
(* Administrators.                                                         *)

\* After an edit no reading of the records counts as current any more.
LEMMA Edited ==
    ASSUME StatusInv, NEW c \in Managers,
           UNCHANGED <<ledger, activeMaterials, txs>>, edits' = edits + 1
    PROVE  ChangeInv(c)'
<1>1. CASE txs[c] = Null
  BY <1>1 DEF ChangeInv
<1>2. CASE txs[c] # Null
  <2>1. IsTx(txs[c]) /\ StillHolds(c)
    BY <1>2 DEF StatusInv, ChangeInv
  <2>2. txs[c].edits <= edits' /\ txs[c].edits # edits'
    BY <2>1 DEF StillHolds, IsTx, StatusInv, OthersInv
  <2>3. /\ Balance(txs[c].site, txs[c].mat)' = Balance(txs[c].site, txs[c].mat)
        /\ BalanceAt(txs[c].site, txs[c].mat, txs[c].at)'
              = BalanceAt(txs[c].site, txs[c].mat, txs[c].at)
    BY DEF Balance, BalanceAt
  <2>4. StillHolds(c)'
    BY <2>1, <2>2, <2>3 DEF StillHolds, SameRecord, NotEarlier, Reverse
  <2> QED
    BY <2>1, <2>4 DEF ChangeInv, IsTx
<1> QED
  BY <1>1, <1>2

LEMMA EditPreserves ==
    ASSUME StatusInv, RecordsInv',
           UNCHANGED <<ledger, activeMaterials, available, txs, document>>, edits' = edits + 1
    PROVE  StatusInv'
<1>1. OthersInv'
  BY DEF StatusInv, OthersInv
<1>2. \A c \in Managers : ChangeInv(c)'
  BY Edited
<1> QED
  BY <1>1, <1>2, LeavesChanges

LEMMA AdminCreatePreserves ==
    ASSUME StatusInv, AdminCreate
    PROVE  StatusInv'
<1>1. PICK mat \in Materials, site \in Sites, status \in Values :
         Record(mat, site, Horizon, status)
  BY DEF AdminCreate
<1>2. /\ UNCHANGED <<ledger, activeMaterials, available, txs, document>>
      /\ edits' = edits + 1 /\ Len(statuses) < MaxRecords
  BY DEF AdminCreate, Edit
<1>3. Horizon \in Instants
  BY StatusAssumption DEF Instants
<1>4. RecordStep(mat, site, Horizon, status)
  BY <1>1, <1>2, <1>3 DEF RecordStep
<1>5. RecordsInv'
  BY <1>4, RecordPreserves DEF StatusInv
<1> QED
  BY <1>2, <1>5, EditPreserves

LEMMA AdminUpdatePreserves ==
    ASSUME StatusInv, AdminUpdate
    PROVE  StatusInv'
<1>1. PICK i \in DOMAIN statuses, row \in Records : statuses' = [statuses EXCEPT ![i] = row]
  BY DEF AdminUpdate
<1>2. /\ UNCHANGED <<ledger, activeMaterials, available, txs, document>>
      /\ edits' = edits + 1
  BY DEF AdminUpdate, Edit
<1>3. RecordsInv'
  BY <1>1, RewriteTyped DEF StatusInv, Entries
<1> QED
  BY <1>2, <1>3, EditPreserves

LEMMA AdminDeletePreserves ==
    ASSUME StatusInv, AdminDelete
    PROVE  StatusInv'
<1>1. PICK i \in DOMAIN statuses : statuses' = [statuses EXCEPT ![i] = Gone]
  BY DEF AdminDelete
<1>2. /\ UNCHANGED <<ledger, activeMaterials, available, txs, document>>
      /\ edits' = edits + 1
  BY DEF AdminDelete, Edit
<1>3. RecordsInv'
  BY <1>1, RewriteTyped DEF StatusInv, Entries
<1> QED
  BY <1>2, <1>3, EditPreserves

\* A material is deactivated only while nobody holds its row.
LEMMA EditCataloguePreserves ==
    ASSUME StatusInv, EditCatalogue
    PROVE  StatusInv'
<1>1. UNCHANGED <<statuses, ledger, txs, document, edits>>
  BY DEF EditCatalogue
<1>2. /\ activeMaterials' \subseteq activeMaterials
      /\ \A c \in Managers : HoldsRows(c) /\ txs[c].mat \in activeMaterials =>
            txs[c].mat \in activeMaterials'
  BY DEF EditCatalogue, MaterialFree
<1>3. available' \in [Managers -> SUBSET Sites]
  <2>1. CASE UNCHANGED available
    BY <2>1 DEF StatusInv, OthersInv
  <2>2. CASE \E c \in Managers, site \in Sites :
                available' = [available EXCEPT ![c] = @ \ {site}]
    BY <2>2 DEF StatusInv, OthersInv
  <2> QED
    BY <2>1, <2>2 DEF EditCatalogue
<1>4. OthersInv' /\ RecordsInv'
  BY <1>1, <1>2, <1>3 DEF StatusInv, OthersInv, RecordsInv
<1>5. ASSUME NEW c \in Managers
      PROVE  ChangeInv(c)'
  <2>1. CASE txs[c] = Null
    BY <1>1, <2>1 DEF ChangeInv
  <2>2. CASE txs[c] # Null
    <3>1. IsTx(txs[c]) /\ StillHolds(c)
      BY <2>2 DEF StatusInv, ChangeInv
    <3>2. txs[c].step \in {"locked", "fetched", "checked"} => txs[c].mat \in activeMaterials'
      BY <1>2, <2>2, <3>1 DEF StillHolds, HoldsRows, HoldsTable
    <3>3. /\ Latest(txs[c].mat)' = Latest(txs[c].mat)
          /\ Balance(txs[c].site, txs[c].mat)' = Balance(txs[c].site, txs[c].mat)
          /\ BalanceAt(txs[c].site, txs[c].mat, txs[c].at)'
                = BalanceAt(txs[c].site, txs[c].mat, txs[c].at)
      BY <1>1 DEF Latest, RecordsOf, Active, Balance, BalanceAt
    <3>4. StillHolds(c)'
      BY <1>1, <3>1, <3>2, <3>3 DEF StillHolds, SameRecord, NotEarlier, Reverse
    <3> QED
      BY <1>1, <3>1, <3>4 DEF ChangeInv, IsTx
  <2> QED
    BY <2>1, <2>2
<1> QED
  BY <1>1, <1>4, <1>5, LeavesChanges

-----------------------------------------------------------------------------
(* The theorems.                                                           *)

LEMMA InitEstablishes ==
    ASSUME Init
    PROVE  StatusInv
<1>1. RecordsInv
  <2>1. <<>> \in Seq(Entries) /\ Len(<<>>) = 0
    BY EmptySeq
  <2> QED
    BY <2>1, StatusAssumption DEF Init, RecordsInv
<1>2. OthersInv
  BY StatusAssumption DEF Init, OthersInv
<1>3. \A c \in Managers : txs[c] = Null
  BY DEF Init
<1>4. \A c \in Managers : ChangeInv(c) /\ ~HoldsRows(c)
  BY <1>3 DEF ChangeInv, HoldsRows, HoldsTable
<1>5. txs = [c \in Managers |-> txs[c]]
  BY DEF Init
<1> QED
  BY <1>1, <1>2, <1>4, <1>5 DEF StatusInv, ApartInv

LEMMA StepPreserves ==
    ASSUME StatusInv, [Next]_vars
    PROVE  StatusInv'
<1>1. CASE \E c \in Managers : Begin(c) \/ Change(c)
  BY <1>1, BeginPreserves, CheckSitePreserves, LockMaterialPreserves, FetchLatestPreserves,
     CheckTransitionPreserves, InsertPreserves, RefusePreserves DEF Change
<1>2. CASE BeginDocument \/ CommitDocument \/ AbortDocument
  BY <1>2, BeginDocumentPreserves, CommitDocumentPreserves, AbortDocumentPreserves
<1>3. CASE AdminCreate \/ AdminUpdate \/ AdminDelete
  BY <1>3, AdminCreatePreserves, AdminUpdatePreserves, AdminDeletePreserves
<1>4. CASE EditCatalogue
  BY <1>4, EditCataloguePreserves
<1>5. CASE UNCHANGED vars
  <2>1. RecordsInv' /\ OthersInv'
    BY <1>5 DEF StatusInv, RecordsInv, OthersInv, vars
  <2>2. \A c \in Managers : ChangeInv(c)'
    BY <1>5, Untouched DEF StatusInv, vars
  <2> QED
    BY <1>5, <2>1, <2>2, LeavesChanges DEF vars
<1> QED
  BY <1>1, <1>2, <1>3, <1>4, <1>5 DEF Next

\* What a change has read stays true until it commits.
THEOREM Invariance == Spec => []StatusInv
BY InitEstablishes, StepPreserves, PTL DEF Spec

\* The records are those of materials and sites that exist, at instants a
\* change may name, and within the bound.
THEOREM TypeInvariant == Spec => []TypeOK
<1>1. StatusInv => TypeOK
  <2>1. StatusInv => DOMAIN txs = Managers
    BY DEF StatusInv
  <2> QED
    BY <2>1 DEF StatusInv, RecordsInv, OthersInv, Entries, TypeOK
<1> QED
  BY <1>1, Invariance, PTL

\* The only step that ends a change with one record more.
LEMMA OnlyInsertRecords ==
    ASSUME StatusInv, [Next]_vars, NEW c \in Managers,
           Len(statuses') > Len(statuses), txs[c] # Null, txs'[c] = Null
    PROVE  Insert(c)
<1>1. UNCHANGED txs => FALSE
  OBVIOUS
<1>2. UNCHANGED statuses => FALSE
  BY LenProperties DEF StatusInv, RecordsInv
<1>3. PICK b \in Managers : Begin(b) \/ Change(b)
  BY <1>1, <1>2 DEF Next, vars, BeginDocument, CommitDocument, AbortDocument,
     AdminCreate, AdminUpdate, AdminDelete, EditCatalogue
<1>4. Insert(b)
  BY <1>2, <1>3 DEF Begin, Change, CheckSite, LockMaterial, FetchLatest, CheckTransition,
     Refuse, Advance
<1>5. b = c
  BY <1>4 DEF Insert, StatusInv
<1> QED
  BY <1>4, <1>5

\* A manager's record reverses the record he was shown as the latest one.
THEOREM ReversalsAreSeen == Spec => ReversesWhatWasShown
<1> DEFINE Seen(c) == LET latest == Latest(txs[c].mat) IN
                      /\ [id |-> latest.id, status |-> latest.status] = txs[c].expected
                      /\ statuses'[Len(statuses')].status = Reverse(latest.status)
           Kept == \A c \in Managers :
                      Len(statuses') > Len(statuses) /\ txs[c] # Null /\ txs'[c] = Null
                         /\ txs[c].edits = edits
                      => Seen(c)
<1>1. StatusInv /\ [Next]_vars => [Kept]_vars
  <2> SUFFICES ASSUME StatusInv, [Next]_vars, NEW c \in Managers,
                      Len(statuses') > Len(statuses), txs[c] # Null, txs'[c] = Null,
                      txs[c].edits = edits
               PROVE  Seen(c)
    OBVIOUS
  <2>1. Insert(c)
    BY OnlyInsertRecords
  <2>2. IsTx(txs[c]) /\ StillHolds(c) /\ txs[c].step = "checked"
    BY <2>1 DEF StatusInv, ChangeInv, Insert, AtStep
  <2>3. /\ txs[c].latest = Latest(txs[c].mat)
        /\ SameRecord(txs[c].expected, txs[c].latest)
        /\ txs[c].target = Reverse(txs[c].latest.status)
    BY <2>2 DEF StillHolds
  <2>4. [id |-> Latest(txs[c].mat).id, status |-> Latest(txs[c].mat).status] = txs[c].expected
    BY <2>2, <2>3 DEF IsTx, SameRecord
  <2>5. RecordStep(txs[c].mat, txs[c].site, txs[c].at, txs[c].target)
    BY <2>1, <2>2 DEF RecordStep, IsTx, Insert
  <2>6. statuses'[Len(statuses')].status = txs[c].target
    BY <2>5, RecordPreserves DEF StatusInv
  <2> QED
    BY <2>3, <2>4, <2>6
<1>2. Spec => [][Kept]_vars
  BY <1>1, Invariance, PTL DEF Spec
<1> QED
  BY <1>2 DEF ReversesWhatWasShown

\* When a manager's record is committed the site has the material, now and
\* at the instant recorded.
THEOREM RecordsAreInStock == Spec => RecordedInStock
<1> DEFINE Kept == \A c \in Managers :
                      Len(statuses') > Len(statuses) /\ txs[c] # Null /\ txs'[c] = Null
                      => InStock(txs[c])
<1>1. StatusInv /\ [Next]_vars => [Kept]_vars
  <2> SUFFICES ASSUME StatusInv, [Next]_vars, NEW c \in Managers,
                      Len(statuses') > Len(statuses), txs[c] # Null, txs'[c] = Null
               PROVE  InStock(txs[c])
    OBVIOUS
  <2>1. Insert(c)
    BY OnlyInsertRecords
  <2>2. StillHolds(c) /\ txs[c].step = "checked"
    BY <2>1 DEF StatusInv, ChangeInv, Insert, AtStep
  <2> QED
    BY <2>2 DEF StillHolds, BalanceAt, InStock
<1>2. Spec => [][Kept]_vars
  BY <1>1, Invariance, PTL DEF Spec
<1> QED
  BY <1>2 DEF RecordedInStock

-----------------------------------------------------------------------------
(* The history of a material while nobody has edited the records: a list   *)
(* in which each record of the material follows the ones before it.        *)

\* The records of a list that are about a material, those of them that come
\* before another one in time, and the one recorded last.
Told(s, mat) == {i \in DOMAIN s : s[i].mat = mat}
Before(s, mat, i) == {k \in Told(s, mat) : Precedes(s, k, i)}
LastTold(s, mat, i) == i \in Told(s, mat) /\ \A k \in Told(s, mat) \ {i} : k < i

AllActive(s) == \A i \in DOMAIN s : s[i] \in Records /\ s[i].active
InOrder(s, mat) == \A i, k \in Told(s, mat) : i < k => s[i].at <= s[k].at
HasLast(s, mat) == Told(s, mat) # {} => \E i : LastTold(s, mat, i)
ByTurns(s, mat) ==
    \A i \in Told(s, mat) :
       s[i].status = "on_maintenance" <=> Cardinality(Before(s, mat, i)) % 2 = 0

Alternates(s, mat) == InOrder(s, mat) /\ HasLast(s, mat) /\ ByTurns(s, mat)

AlternatesInv ==
    edits = 0 => AllActive(statuses) /\ \A mat \in Materials : Alternates(statuses, mat)

\* Numbers of records are natural, and there are finitely many.
LEMMA ToldFinite ==
    ASSUME NEW s \in Seq(Entries), NEW mat
    PROVE  /\ DOMAIN s = 1..Len(s) /\ Len(s) \in Nat
           /\ Told(s, mat) \subseteq 1..Len(s)
           /\ IsFiniteSet(Told(s, mat)) /\ Cardinality(Told(s, mat)) \in Nat
<1>1. DOMAIN s = 1..Len(s) /\ Len(s) \in Nat
  BY LenProperties
<1>2. Told(s, mat) \subseteq 1..Len(s)
  BY <1>1 DEF Told
<1>3. IsFiniteSet(1..Len(s))
  BY <1>1, FS_Interval
<1>4. IsFiniteSet(Told(s, mat))
  BY <1>2, <1>3, FS_Subset
<1> QED
  BY <1>1, <1>2, <1>4, FS_CardinalityType

\* In a list in order, what comes before the last record is all the others.
LEMMA BeforeLast ==
    ASSUME NEW s \in Seq(Entries), NEW mat, AllActive(s), InOrder(s, mat),
           NEW i, LastTold(s, mat, i)
    PROVE  /\ Before(s, mat, i) = Told(s, mat) \ {i}
           /\ Cardinality(Told(s, mat)) = Cardinality(Before(s, mat, i)) + 1
           /\ Cardinality(Before(s, mat, i)) \in Nat
<1>1. \A k \in Told(s, mat) : k \in Int /\ s[k].at \in Int
  BY ToldFinite, StatusAssumption DEF AllActive, Told, Records, Instants
<1>2. i \in Told(s, mat) /\ \A k \in Told(s, mat) \ {i} : k < i /\ s[k].at <= s[i].at
  BY DEF LastTold, InOrder
<1>3. \A k \in Told(s, mat) \ {i} : Precedes(s, k, i)
  BY <1>1, <1>2 DEF Precedes
<1>4. ~Precedes(s, i, i)
  BY <1>1, <1>2 DEF Precedes
<1>5. Before(s, mat, i) = Told(s, mat) \ {i}
  BY <1>3, <1>4 DEF Before
<1>6. IsFiniteSet(Told(s, mat)) /\ Cardinality(Told(s, mat)) \in Nat
  BY ToldFinite
<1>7. /\ IsFiniteSet(Told(s, mat) \ {i})
      /\ Cardinality(Told(s, mat) \ {i}) = Cardinality(Told(s, mat)) - 1
  BY <1>2, <1>6, FS_RemoveElement
<1>8. Cardinality(Told(s, mat) \ {i}) \in Nat
  BY <1>7, FS_CardinalityType
<1> QED
  BY <1>5, <1>6, <1>7, <1>8

\* A record may follow a list if it is the first of its material and says
\* "on maintenance", or reverses the last one at the same instant or later.
Follows(s, e) ==
    \/ Told(s, e.mat) = {} /\ e.status = "on_maintenance"
    \/ \E i : /\ LastTold(s, e.mat, i)
              /\ s[i].at <= e.at /\ e.status = Reverse(s[i].status)

\* The list with it alternates again: it comes after all the others of its
\* material, so its place is their number, and theirs do not change.
LEMMA FollowingAlternates ==
    ASSUME NEW s \in Seq(Entries), NEW e \in Records, e.active, AllActive(s),
           \A mat \in Materials : Alternates(s, mat), Follows(s, e)
    PROVE  AllActive(Append(s, e)) /\ \A mat \in Materials : Alternates(Append(s, e), mat)
<1> DEFINE t == Append(s, e)
           n == Len(s) + 1
<1>1. /\ t \in Seq(Entries) /\ Len(s) \in Nat
      /\ DOMAIN s = 1..Len(s) /\ DOMAIN t = 1..n
      /\ \A i \in 1..Len(s) : t[i] = s[i]
      /\ t[n] = e
  <2>1. e \in Entries
    BY DEF Entries
  <2> QED
    BY <2>1, Appended
<1> HIDE DEF t
<1>2. AllActive(t)
  BY <1>1 DEF AllActive
<1>3. ASSUME NEW mat \in Materials
      PROVE  Alternates(t, mat)
  <2>1. InOrder(s, mat) /\ HasLast(s, mat) /\ ByTurns(s, mat)
    BY DEF Alternates
  <2>2. \A i \in Told(s, mat) : i \in 1..Len(s) /\ t[i] = s[i] /\ i \in Int /\ i < n /\ i # n
                                /\ s[i].at \in Int /\ s[i].status \in Values
    BY <1>1, StatusAssumption DEF Told, AllActive, Records, Instants
  <2>3. CASE mat # e.mat
    <3>1. Told(t, mat) = Told(s, mat)
      BY <1>1, <2>2, <2>3 DEF Told
    <3>2. \A i \in Told(t, mat) : Before(t, mat, i) = Before(s, mat, i)
      BY <2>2, <3>1 DEF Before, Precedes
    <3>3. InOrder(t, mat)
      BY <2>1, <2>2, <3>1 DEF InOrder
    <3>4. HasLast(t, mat)
      BY <2>1, <3>1 DEF HasLast, LastTold
    <3>5. ByTurns(t, mat)
      BY <2>1, <2>2, <3>1, <3>2 DEF ByTurns
    <3> QED
      BY <3>3, <3>4, <3>5 DEF Alternates
  <2>4. CASE mat = e.mat
    <3>1. Told(t, mat) = Told(s, mat) \cup {n}
      BY <1>1, <2>2, <2>4 DEF Told
    <3>2. e.at \in Int /\ n \in Int
      BY <1>1, StatusAssumption DEF Records, Instants
    <3>3. \A i \in Told(s, mat) : s[i].at <= e.at
      <4>1. CASE Told(s, mat) = {}
        BY <4>1
      <4>2. CASE \E i : LastTold(s, mat, i) /\ s[i].at <= e.at
        <5>1. PICK i : LastTold(s, mat, i) /\ s[i].at <= e.at
          BY <4>2
        <5>2. i \in Told(s, mat) /\ \A k \in Told(s, mat) : k = i \/ s[k].at <= s[i].at
          BY <2>1, <5>1 DEF LastTold, InOrder
        <5> QED
          BY <2>2, <3>2, <5>1, <5>2
      <4> QED
        BY <2>4, <4>1, <4>2 DEF Follows
    <3>4. InOrder(t, mat)
      <4> SUFFICES ASSUME NEW i \in Told(t, mat), NEW k \in Told(t, mat), i < k
                   PROVE  t[i].at <= t[k].at
        BY DEF InOrder
      <4>1. CASE i \in Told(s, mat) /\ k \in Told(s, mat)
        BY <2>1, <2>2, <4>1 DEF InOrder
      <4>2. CASE i \in Told(s, mat) /\ k = n
        BY <1>1, <2>2, <3>3, <4>2
      <4>3. CASE i = n
        BY <2>2, <3>1, <3>2, <4>3
      <4> QED
        BY <3>1, <4>1, <4>2, <4>3
    <3>5. LastTold(t, mat, n)
      BY <2>2, <3>1 DEF LastTold
    <3>6. \A i \in Told(s, mat) : Before(t, mat, i) = Before(s, mat, i)
      <4> TAKE i \in Told(s, mat)
      <4>1. ~Precedes(t, n, i)
        BY <1>1, <2>2, <3>2, <3>3 DEF Precedes
      <4>2. \A k \in Told(s, mat) : Precedes(t, k, i) <=> Precedes(s, k, i)
        BY <2>2 DEF Precedes
      <4> QED
        BY <3>1, <4>1, <4>2 DEF Before
    <3>7. /\ Before(t, mat, n) = Told(t, mat) \ {n}
          /\ Before(t, mat, n) = Told(s, mat)
      <4>1. Before(t, mat, n) = Told(t, mat) \ {n}
        BY <1>1, <1>2, <3>4, <3>5, BeforeLast
      <4>2. n \notin Told(s, mat)
        BY <2>2
      <4> QED
        BY <3>1, <4>1, <4>2
    <3>8. e.status = "on_maintenance" <=> Cardinality(Told(s, mat)) % 2 = 0
      <4>1. CASE Told(s, mat) = {} /\ e.status = "on_maintenance"
        BY <4>1, FS_EmptySet
      <4>2. CASE \E i : LastTold(s, mat, i) /\ e.status = Reverse(s[i].status)
        <5>1. PICK i : LastTold(s, mat, i) /\ e.status = Reverse(s[i].status)
          BY <4>2
        <5>2. i \in Told(s, mat) /\ s[i].status \in Values
          BY <2>2, <5>1 DEF LastTold
        <5>3. s[i].status = "on_maintenance" <=> Cardinality(Before(s, mat, i)) % 2 = 0
          BY <2>1, <5>2 DEF ByTurns
        <5>4. /\ Cardinality(Told(s, mat)) = Cardinality(Before(s, mat, i)) + 1
              /\ Cardinality(Before(s, mat, i)) \in Nat
          BY <2>1, <5>1, BeforeLast
        <5>5. e.status = "on_maintenance" <=> s[i].status # "on_maintenance"
          BY <5>1, <5>2 DEF Reverse, Values
        <5> QED
          BY <5>3, <5>4, <5>5
      <4> QED
        BY <2>4, <4>1, <4>2 DEF Follows
    <3>9. ByTurns(t, mat)
      <4> SUFFICES ASSUME NEW i \in Told(t, mat)
                   PROVE  t[i].status = "on_maintenance"
                            <=> Cardinality(Before(t, mat, i)) % 2 = 0
        BY DEF ByTurns
      <4>1. CASE i \in Told(s, mat)
        BY <2>1, <2>2, <3>6, <4>1 DEF ByTurns
      <4>2. CASE i = n
        BY <1>1, <3>7, <3>8, <4>2
      <4> QED
        BY <3>1, <4>1, <4>2
    <3> QED
      BY <3>4, <3>5, <3>9 DEF Alternates, HasLast
  <2> QED
    BY <2>3, <2>4
<1> QED
  BY <1>2, <1>3 DEF t

\* What the query of the latest status finds in a list in order: its last
\* record of the material, or nothing.
LEMMA LatestIsLast ==
    ASSUME RecordsInv, AllActive(statuses), NEW mat, Alternates(statuses, mat)
    PROVE  /\ Told(statuses, mat) = {} =>
                 Latest(mat).id = Null /\ Latest(mat).status = "at_work"
           /\ \A i : LastTold(statuses, mat, i) =>
                 /\ Latest(mat).id = i
                 /\ Latest(mat).at = statuses[i].at /\ Latest(mat).status = statuses[i].status
<1> DEFINE told == Told(statuses, mat)
           records == RecordsOf(mat)
<1>1. statuses \in Seq(Entries)
  BY DEF RecordsInv
<1>2. \A i \in DOMAIN statuses : statuses[i] # Gone
  BY StatusAssumption DEF AllActive
<1>3. DOMAIN records = told /\ \A i \in told : records[i] = statuses[i]
  BY <1>2 DEF RecordsOf, Active, AllActive, Told
<1>4. \A k \in told : k \in Int /\ statuses[k].at \in Int
  BY <1>1, ToldFinite, StatusAssumption DEF AllActive, Told, Records, Instants
<1> HIDE DEF records, told
<1>5. ASSUME told = {}
      PROVE  Latest(mat).id = Null /\ Latest(mat).status = "at_work"
  BY <1>3, <1>5 DEF Latest, LatestOf, records
<1>6. ASSUME NEW i, LastTold(statuses, mat, i)
      PROVE  /\ Latest(mat).id = i
             /\ Latest(mat).at = statuses[i].at /\ Latest(mat).status = statuses[i].status
  <2> DEFINE last(j) == j \in told /\ \A k \in told \ {j} : Precedes(records, k, j)
  <2>1. i \in told /\ \A k \in told \ {i} : k < i /\ statuses[k].at <= statuses[i].at
    BY <1>6 DEF LastTold, Alternates, InOrder, told
  <2>2. last(i)
    BY <1>3, <1>4, <2>1 DEF Precedes
  <2>3. ASSUME NEW j, last(j)
        PROVE  j = i
    <3> SUFFICES ASSUME j # i
                 PROVE  FALSE
      OBVIOUS
    <3>1. Precedes(records, i, j)
      BY <2>1, <2>3
    <3>2. j < i /\ statuses[j].at <= statuses[i].at
      BY <2>1, <2>3
    <3> QED
      BY <1>3, <1>4, <2>1, <2>3, <3>1, <3>2 DEF Precedes
  <2>4. (CHOOSE j \in told : \A k \in told \ {j} : Precedes(records, k, j)) = i
    BY <2>2, <2>3
  <2>5. DOMAIN records # {}
    BY <1>3, <2>1
  <2>6. Latest(mat) = [id |-> i, at |-> records[i].at, status |-> records[i].status]
    BY <1>3, <2>4, <2>5 DEF Latest, LatestOf, records
  <2> QED
    BY <1>3, <2>1, <2>6
<1> QED
  BY <1>5, <1>6 DEF told

\* What a manager records follows what has been told: his change still holds
\* the latest status it read, reverses it and is not earlier.
LEMMA InsertAlternates ==
    ASSUME StatusInv, AlternatesInv, NEW c \in Managers, Insert(c), edits = 0
    PROVE  AllActive(statuses') /\ \A mat \in Materials : Alternates(statuses', mat)
<1> DEFINE tx == txs[c]
           e == [mat |-> tx.mat, site |-> tx.site, at |-> tx.at, status |-> tx.target,
                 active |-> TRUE]
<1>1. statuses' = Append(statuses, e) /\ tx # Null /\ tx.step = "checked"
  BY DEF Insert, Record, AtStep
<1>2. IsTx(tx) /\ StillHolds(c)
  BY <1>1 DEF StatusInv, ChangeInv
<1>3. e \in Records
  BY <1>2 DEF IsTx, Records
<1>4. e.active /\ e.mat = tx.mat /\ e.at = tx.at /\ e.status = tx.target
  OBVIOUS
<1>5. tx.edits = edits
  BY <1>2 DEF IsTx, StillHolds
<1>6. /\ tx.target = Reverse(Latest(tx.mat).status)
      /\ NotEarlier(tx.at, Latest(tx.mat))
      /\ tx.mat \in Materials
  BY <1>1, <1>2, <1>5 DEF StillHolds, IsTx
<1> HIDE DEF e, tx
<1>7. /\ RecordsInv /\ statuses \in Seq(Entries) /\ AllActive(statuses)
      /\ \A mat \in Materials : Alternates(statuses, mat)
  BY DEF StatusInv, RecordsInv, AlternatesInv
<1>8. Follows(statuses, e)
  <2>1. CASE Told(statuses, tx.mat) = {}
    <3>1. Latest(tx.mat).status = "at_work"
      BY <1>6, <1>7, <2>1, LatestIsLast
    <3>2. tx.target = "on_maintenance"
      BY <1>6, <3>1 DEF Reverse
    <3> QED
      BY <1>4, <2>1, <3>2 DEF Follows
  <2>2. CASE Told(statuses, tx.mat) # {}
    <3>1. PICK i : LastTold(statuses, tx.mat, i)
      BY <1>6, <1>7, <2>2 DEF Alternates, HasLast
    <3>2. /\ Latest(tx.mat).id = i
          /\ Latest(tx.mat).at = statuses[i].at /\ Latest(tx.mat).status = statuses[i].status
      BY <1>6, <1>7, <3>1, LatestIsLast
    <3>3. i \in Nat /\ statuses[i] \in Records
      BY <1>7, <3>1, ToldFinite DEF LastTold, AllActive, Told
    <3>4. tx.at >= statuses[i].at
      BY <1>6, <3>2, <3>3, StatusAssumption DEF NotEarlier
    <3>5. statuses[i].at <= tx.at
      BY <1>3, <1>4, <3>3, <3>4, StatusAssumption DEF Records, Instants
    <3> QED
      BY <1>4, <1>6, <3>1, <3>2, <3>5 DEF Follows
  <2> QED
    BY <2>1, <2>2
<1> QED
  BY <1>1, <1>3, <1>4, <1>7, <1>8, FollowingAlternates

LEMMA AlternatesStep ==
    ASSUME StatusInv, AlternatesInv, [Next]_vars
    PROVE  AlternatesInv'
<1> SUFFICES ASSUME edits' = 0
             PROVE  AllActive(statuses') /\ \A mat \in Materials : Alternates(statuses', mat)
  BY DEF AlternatesInv
<1>1. edits \in Nat
  BY DEF StatusInv, OthersInv
<1>2. CASE UNCHANGED <<statuses, edits>>
  BY <1>2 DEF AlternatesInv
<1>3. CASE \E c \in Managers : Insert(c)
  <2>1. PICK c \in Managers : Insert(c)
    BY <1>3
  <2>2. edits = 0
    BY <2>1 DEF Insert
  <2> QED
    BY <2>1, <2>2, InsertAlternates
<1>4. CASE AdminCreate \/ AdminUpdate \/ AdminDelete
  BY <1>1, <1>4 DEF AdminCreate, AdminUpdate, AdminDelete, Edit
<1>5. UNCHANGED <<statuses, edits>> \/ (\E c \in Managers : Insert(c))
      \/ AdminCreate \/ AdminUpdate \/ AdminDelete
  BY DEF Next, vars, Begin, Change, CheckSite, LockMaterial, FetchLatest, CheckTransition,
     Refuse, Advance, BeginDocument, CommitDocument, AbortDocument, EditCatalogue
<1> QED
  BY <1>2, <1>3, <1>4, <1>5

\* The records the sites show of a material.
LEMMA ShownIsTold ==
    ASSUME AllActive(statuses), NEW mat
    PROVE  {i \in UNION {History(site) : site \in Sites} : statuses[i].mat = mat}
             = Told(statuses, mat)
<1>1. \A i \in DOMAIN statuses : statuses[i] # Gone /\ statuses[i].active /\ statuses[i].site \in Sites
  BY StatusAssumption DEF AllActive, Records
<1>2. \A i : i \in UNION {History(site) : site \in Sites} <=> i \in DOMAIN statuses
  BY <1>1 DEF History, Active
<1> QED
  BY <1>2 DEF Told

\* While no administrator edits the records, those of a material alternate
\* between maintenance and work across all sites, in the order in which they
\* were recorded, and every site shows the end of that history (the lock on
\* the material, the comparison of the latest record, and its instant).
THEOREM HistoriesAlternate == Spec => []HistoryAlternates
<1>1. Init => AlternatesInv
  BY DEF Init, AlternatesInv, AllActive, Alternates, InOrder, HasLast, ByTurns, Told
<1>2. StatusInv /\ AlternatesInv => HistoryAlternates
  <2> SUFFICES ASSUME StatusInv, AlternatesInv, edits = 0, NEW mat \in Materials
               PROVE  LET told == {i \in UNION {History(site) : site \in Sites} : statuses[i].mat = mat}
                          place(i) == Cardinality({k \in told : Precedes(statuses, k, i)})
                      IN  /\ \A i \in told : statuses[i].status = "on_maintenance" <=> place(i) % 2 = 0
                          /\ \A i, k \in told : i < k => Precedes(statuses, i, k)
                          /\ \A site \in Sites : mat \in DOMAIN Current(site) =>
                                (Current(site)[mat].status = "on_maintenance"
                                   <=> Cardinality(told) % 2 = 1)
    BY DEF HistoryAlternates
  <2> DEFINE told == {i \in UNION {History(site) : site \in Sites} : statuses[i].mat = mat}
             place(i) == Cardinality({k \in told : Precedes(statuses, k, i)})
  <2>1. /\ RecordsInv /\ statuses \in Seq(Entries) /\ AllActive(statuses)
        /\ Alternates(statuses, mat)
    BY DEF StatusInv, RecordsInv, AlternatesInv
  <2>2. told = Told(statuses, mat)
    BY <2>1, ShownIsTold
  <2>3. \A i : place(i) = Cardinality(Before(statuses, mat, i))
    BY <2>2 DEF Before
  <2> HIDE DEF told, place
  <2>4. \A i \in told : statuses[i].status = "on_maintenance" <=> place(i) % 2 = 0
    BY <2>1, <2>2, <2>3 DEF Alternates, ByTurns
  <2>5. \A k \in told : k \in Int /\ statuses[k].at \in Int
    BY <2>1, <2>2, ToldFinite, StatusAssumption DEF AllActive, Told, Records, Instants
  <2>6. \A i, k \in told : i < k => Precedes(statuses, i, k)
    BY <2>1, <2>2, <2>5 DEF Alternates, InOrder, Precedes
  <2>7. ASSUME NEW site \in Sites, mat \in DOMAIN Current(site)
        PROVE  Current(site)[mat].status = "on_maintenance" <=> Cardinality(told) % 2 = 1
    <3>1. Current(site)[mat].status = Latest(mat).status
      BY <2>7 DEF Current
    <3>2. CASE told = {}
      <4>1. Latest(mat).status = "at_work"
        BY <2>1, <2>2, <3>2, LatestIsLast
      <4> QED
        BY <3>1, <3>2, <4>1, FS_EmptySet
    <3>3. CASE told # {}
      <4>1. PICK i : LastTold(statuses, mat, i)
        BY <2>1, <2>2, <3>3 DEF Alternates, HasLast
      <4>2. Latest(mat).status = statuses[i].status
        BY <2>1, <4>1, LatestIsLast
      <4>3. statuses[i].status = "on_maintenance"
               <=> Cardinality(Before(statuses, mat, i)) % 2 = 0
        BY <2>1, <4>1 DEF Alternates, ByTurns, LastTold
      <4>4. /\ Cardinality(told) = Cardinality(Before(statuses, mat, i)) + 1
            /\ Cardinality(Before(statuses, mat, i)) \in Nat
        BY <2>1, <2>2, <4>1, BeforeLast DEF Alternates
      <4> QED
        BY <3>1, <4>2, <4>3, <4>4
    <3> QED
      BY <3>2, <3>3
  <2> QED
    BY <2>4, <2>6, <2>7 DEF told, place
<1>3. Spec => []AlternatesInv
  BY <1>1, AlternatesStep, Invariance, PTL DEF Spec
<1> QED
  BY <1>2, <1>3, Invariance, PTL
================================================================================
