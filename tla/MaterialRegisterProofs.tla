------------------------ MODULE MaterialRegisterProofs ------------------------
(***************************************************************************)
(* Theorems about MaterialRegister, for any documents, contents, calendar  *)
(* and number of closures, and about RegisterTransactions, for any batches *)
(* of requests.                                                            *)
(*                                                                         *)
(* 1. The types, and the rows of the register against the documents that   *)
(* posted them (LedgerMatchesDocuments), through every rebuild.            *)
(*                                                                         *)
(* 2. The books: closures, the cut-off, what a closed period allows, and   *)
(* that the register implements PeriodBook.                                *)
(*                                                                         *)
(* 3. Sums, the business order of movements, and the quantities of         *)
(* balances. With the names of the rows (Distinct) they give               *)
(* NoBalanceIsNegative.                                                    *)
(*                                                                         *)
(* 4. The replay.  Its folds are taken apart into one visit after another  *)
(* (ReplaySteps, PaymentSteps, RevaluedPasses).  Without overdrafts each   *)
(* movement costs what the movements before it say (Settles), which one    *)
(* equation per movement determines; this gives ValueIsConserved and       *)
(* EmptyBalancesAreWorthless.                                              *)
(*                                                                         *)
(* 5. Two registers that agree on a closed period hold copies of each      *)
(* other's rows there, under other numbers, and so settle alike:           *)
(* ClosedValuesStand.                                                      *)
(*                                                                         *)
(* 6. The shortages of a balance, paid by the receipts that follow them,   *)
(* always add up to what the balance lacks: ShortagesAreResolved.          *)
(*                                                                         *)
(* 7. What follows from settling once: ValuesAreDetermined, PassesMayStop  *)
(* and SnapshotsHold.                                                      *)
(*                                                                         *)
(* 8. Transactions that overlap, statement by statement:                   *)
(* BalancesAreRebuilt, from the lock that a replay holds on the balance    *)
(* tables between their TRUNCATE and its commit.                           *)
(*                                                                         *)
(* 9. What they have written: TxBase, the invariant of every batch; the    *)
(* row that every replay locks, hence PolicyIsObeyed; the rows that a      *)
(* closing has locked, hence ClosedDaysStand.                              *)
(*                                                                         *)
(* 10. What documents leave: the rows stay movements that can be valued    *)
(* (RowsStayMovements); while a document replays nobody commits, so its    *)
(* passes are those of one replay, and by 7 what it commits are the values *)
(* of any replay (ValuesAreReplayed, DocumentsReplayAll).                  *)
(***************************************************************************)
EXTENDS MaterialRegister, RegisterTransactions, SequenceTheorems, FiniteSetTheorems,
        WellFoundedInduction, TLAPS

\* The keys of the stored values are the rows of the register.
LEMMA RevaluedDomain ==
    ASSUME NEW L, NEW before
    PROVE  DOMAIN Revalued(L, before) = {MovementKey(m) : m \in L}
BY DEF Revalued, Pass

\* Marking an entry of the history keeps its shape and its length.
LEMMA MarkedHistory ==
    ASSUME NEW D, NEW history \in Seq([through : D, reopened : BOOLEAN]), NEW i
    PROVE  LET marked == [history EXCEPT ![i].reopened = TRUE]
           IN  /\ marked \in Seq([through : D, reopened : BOOLEAN])
               /\ DOMAIN marked = DOMAIN history
               /\ Len(marked) = Len(history)
<1> DEFINE Closure == [through : D, reopened : BOOLEAN]
<1>0. \A c \in Closure : [c EXCEPT !.reopened = TRUE] \in Closure
  OBVIOUS
<1>1. CASE i \in 1..Len(history)
  <2> history \in Seq(Closure)
    OBVIOUS
  <2> HIDE DEF Closure
  <2>1. [history[i] EXCEPT !.reopened = TRUE] \in Closure
    BY <1>0, <1>1, ElementOfSeq
  <2> DEFINE marked == [history EXCEPT ![i] = [history[i] EXCEPT !.reopened = TRUE]]
  <2>2. marked \in Seq(Closure) /\ Len(marked) = Len(history)
    BY <1>1, <2>1, ExceptSeq
  <2>3. DOMAIN marked = DOMAIN history
    OBVIOUS
  <2> QED
    BY <2>2, <2>3 DEF Closure
<1>2. CASE i \notin 1..Len(history)
  <2>1. [history EXCEPT ![i].reopened = TRUE] = history
    BY <1>2
  <2> QED
    BY <2>1
<1> QED
  BY <1>1, <1>2

\* A history one entry longer is still indexed by its positions.
LEMMA AppendIsFunction ==
    ASSUME NEW S, NEW s \in Seq(S), NEW e
    PROVE  Append(s, e) = [i \in 1..(Len(s) + 1) |-> Append(s, e)[i]]
<1>1. Append(s, e) \in Seq(S \cup {e}) /\ Len(Append(s, e)) = Len(s) + 1
  OBVIOUS
<1> QED
  BY <1>1, LenProperties

\* A document is its recorder type and its identifier.
LEMMA TypesOfDocuments ==
    ASSUME NEW d \in Documents
    PROVE  /\ TypeOf(d) \in Types
           /\ d = <<TypeOf(d), IdOf(d)>>
BY RegisterAssumption DEF TypeOf, IdOf

\* The type invariant holds in every reachable state.
THEOREM TypeInvariant == Spec => []TypeOK
<1>1. Init => TypeOK
  <2> SUFFICES ASSUME Init PROVE TypeOK
    OBVIOUS
  <2>1. DOMAIN val = {MovementKey(m) : m \in ledger}
    BY DEF Init
  <2>2. snapshots = [i \in DOMAIN closures |-> snapshots[i]]
    BY DEF Init
  <2>3. closures \in Seq([through : Days, reopened : BOOLEAN])
    BY DEF Init
  <2> QED
    BY <2>1, <2>2, <2>3, RegisterAssumption DEF Init, TypeOK, Present
<1>2. TypeOK /\ [Next]_vars => TypeOK'
  <2> SUFFICES ASSUME TypeOK, [Next]_vars PROVE TypeOK'
    OBVIOUS
  <2> USE RegisterAssumption, RevaluedDomain, TypesOfDocuments
  <2>1. ASSUME NEW d \in Documents, NEW body \in Bodies[TypeOf(d)], Create(d, body)
        PROVE TypeOK'
    BY <2>1 DEF TypeOK, Create, Revalue, settings, period, Present
  <2>2. ASSUME NEW d \in Documents, NEW body \in Bodies[TypeOf(d)], Update(d, body)
        PROVE TypeOK'
    BY <2>2 DEF TypeOK, Update, Revalue, settings, period, Present
  <2>3. ASSUME NEW d \in Documents, Delete(d)
        PROVE TypeOK'
    BY <2>3 DEF TypeOK, Delete, Revalue, settings, period, Present
  <2>4. ASSUME NEW allow \in BOOLEAN, SetNegativePolicy(allow)
        PROVE TypeOK'
    BY <2>4 DEF TypeOK, SetNegativePolicy, Revalue, period, Present
  <2>5. ASSUME NEW noVat \in VatFlags, NEW allow \in BOOLEAN, SetVatBasis(noVat, allow)
        PROVE TypeOK'
    BY <2>5 DEF TypeOK, SetVatBasis, Revalue, period, Present
  <2>6. CASE Recalculate
    BY <2>6 DEF TypeOK, Recalculate, Revalue, settings, period, Present
  <2>7. ASSUME NEW day \in Days, Close(day)
        PROVE TypeOK'
    <3>1. /\ closures' \in Seq([through : Days, reopened : BOOLEAN])
          /\ DOMAIN closures' = 1..(Len(closures) + 1)
      BY <2>7 DEF TypeOK, Close
    <3>2. snapshots' = [i \in DOMAIN closures' |-> snapshots'[i]]
      <4> DEFINE kept == {snapshots[i] : i \in DOMAIN closures}
      <4>1. snapshots \in Seq(kept)
        BY DEF TypeOK
      <4>2. Len(snapshots) = Len(closures)
        BY <4>1 DEF TypeOK
      <4>3. PICK new : snapshots' = Append(snapshots, new)
        BY <2>7 DEF Close
      <4> HIDE DEF kept
      <4> QED
        BY <3>1, <4>1, <4>2, <4>3, AppendIsFunction
    <3> QED
      BY <2>7, <3>1, <3>2 DEF TypeOK, Close, Revalue, settings, Present
  <2>8. CASE Reopen
    <3>1. closures' \in Seq([through : Days, reopened : BOOLEAN])
      BY <2>8, MarkedHistory DEF TypeOK, Reopen
    <3>2. DOMAIN closures' = DOMAIN closures
      BY <2>8, MarkedHistory DEF TypeOK, Reopen
    <3> QED
      BY <2>8, <3>1, <3>2 DEF TypeOK, Reopen, Revalue, settings, Present
  <2>9. CASE UNCHANGED vars
    BY <2>9 DEF TypeOK, vars, Present
  <2> QED
    BY <2>1, <2>2, <2>3, <2>4, <2>5, <2>6, <2>7, <2>8, <2>9 DEF Next
<1> QED BY <1>1, <1>2, PTL DEF Spec

-----------------------------------------------------------------------------
(* What rows say, apart from their place in the insertion order.           *)

\* The rows a document posts, numbered from nothing.
DocumentRows(d, body, noVat) ==
    {Row(d, body, x[1], x[2], noVat, 0) : x \in RowIndexes(d, body)}

\* Numbering does not enter the content of a posted row.
LEMMA PostedContents ==
    ASSUME NEW d, NEW body, NEW noVat, NEW base
    PROVE  Contents(PostedRows(d, body, noVat, base)) = DocumentRows(d, body, noVat)
<1>1. ASSUME NEW line, NEW order, NEW id
      PROVE  Content(Row(d, body, line, order, noVat, id)) = Row(d, body, line, order, noVat, 0)
  BY DEF Content, Row
<1> QED
  BY <1>1 DEF Contents, PostedRows, DocumentRows

\* Renumbering changes no content.
LEMMA RenumberedContents ==
    ASSUME NEW L
    PROVE  Contents(Renumbered(L)) = Contents(L)
<1>1. ASSUME NEW m, NEW id
      PROVE  Content([m EXCEPT !.id = id]) = Content(m)
  BY DEF Content
<1> DEFINE place(m) == Cardinality({k \in L : k.id <= m.id})
<1>2. Renumbered(L) = {[m EXCEPT !.id = place(m)] : m \in L}
  BY DEF Renumbered
<1> HIDE DEF place
<1>3. Contents(Renumbered(L)) = {Content([m EXCEPT !.id = place(m)]) : m \in L}
  BY <1>2 DEF Contents
<1>4. \A m \in L : Content([m EXCEPT !.id = place(m)]) = Content(m)
  BY <1>1
<1> QED
  BY <1>3, <1>4 DEF Contents

\* A row posted by a document names the document and carries its date.
LEMMA DocumentRowFields ==
    ASSUME NEW d, NEW body, NEW noVat, NEW r \in DocumentRows(d, body, noVat)
    PROVE  r.type = TypeOf(d) /\ r.rec = IdOf(d) /\ r.at = body.at
BY DEF DocumentRows, Row

\* What the stored documents say the register should hold.
Posted == UNION {DocumentRows(d, docs[d], excludeVat) : d \in Present}

\* LedgerMatchesDocuments in terms of the rows without their numbers.
LEMMA LedgerMatchesPosted ==
    LedgerMatchesDocuments <=> Contents(ledger) = Posted
BY PostedContents DEF LedgerMatchesDocuments, Posted

\* A field other than the number is read from a row as from its content,
\* as long as the content is that of a posted row.
LEMMA ContentFields ==
    ASSUME NEW m, NEW d, NEW body, NEW noVat,
           Content(m) \in DocumentRows(d, body, noVat)
    PROVE  m.type = TypeOf(d) /\ m.rec = IdOf(d) /\ m.at = body.at
<1>1. DOMAIN Content(m) = DOMAIN m
  BY DEF Content
<1>2. {"type", "rec", "at"} \subseteq DOMAIN Content(m)
  BY DEF DocumentRows, Row
<1>3. Content(m).type = m.type /\ Content(m).rec = m.rec /\ Content(m).at = m.at
  BY <1>1, <1>2 DEF Content
<1> QED
  BY <1>3, DocumentRowFields

\* Removing the acts of one document leaves what the others posted.
LEMMA RemovedContents ==
    ASSUME TypeOK, LedgerMatchesDocuments, NEW d \in Documents
    PROVE  Contents(RemoveActs(ledger, d)) =
             UNION {DocumentRows(e, docs[e], excludeVat) : e \in Present \ {d}}
<1> DEFINE kept == {m \in ledger : ~(m.type = TypeOf(d) /\ m.rec = IdOf(d))}
           others == UNION {DocumentRows(e, docs[e], excludeVat) : e \in Present \ {d}}
<1>1. Contents(ledger) = Posted
  BY LedgerMatchesPosted
<1>2. ASSUME NEW m \in kept PROVE Content(m) \in others
  <2>1. PICK e \in Present : Content(m) \in DocumentRows(e, docs[e], excludeVat)
    BY <1>1 DEF Contents, Posted
  <2>2. m.type = TypeOf(e) /\ m.rec = IdOf(e)
    BY <2>1, ContentFields
  <2> QED
    BY <2>1, <2>2
<1>3. ASSUME NEW c \in others PROVE c \in Contents(kept)
  <2>1. PICK e \in Present \ {d} : c \in DocumentRows(e, docs[e], excludeVat)
    OBVIOUS
  <2>2. PICK m \in ledger : c = Content(m)
    BY <1>1, <2>1 DEF Contents, Posted
  <2>3. m.type = TypeOf(e) /\ m.rec = IdOf(e)
    BY <2>1, <2>2, ContentFields
  <2>4. ~(TypeOf(e) = TypeOf(d) /\ IdOf(e) = IdOf(d))
    BY TypesOfDocuments DEF Present
  <2> QED
    BY <2>2, <2>3, <2>4 DEF Contents
<1>4. Contents(kept) = others
  BY <1>2, <1>3 DEF Contents
<1> QED
  BY <1>4, RenumberedContents DEF RemoveActs

\* Rewriting them adds what the document posts now.
LEMMA RewrittenContents ==
    ASSUME TypeOK, LedgerMatchesDocuments, NEW d \in Documents, NEW body
    PROVE  Contents(RewriteActs(ledger, d, body, excludeVat)) =
             DocumentRows(d, body, excludeVat)
               \cup UNION {DocumentRows(e, docs[e], excludeVat) : e \in Present \ {d}}
<1>1. ASSUME NEW A, NEW B PROVE Contents(A \cup B) = Contents(A) \cup Contents(B)
  BY DEF Contents
<1> QED
  BY <1>1, RemovedContents, PostedContents DEF RewriteActs

\* A rebuilt register holds what all the documents post.
LEMMA RebuiltContents ==
    ASSUME NEW noVat
    PROVE  Contents(RebuiltLedger(noVat)) =
             UNION {DocumentRows(d, docs[d], noVat) : d \in Present}
<1> DEFINE base(d) == MapThenSumSet(LAMBDA e : Cardinality(RowIndexes(e, docs[e])),
                                    {e \in Present : RebuildBefore(e, d)})
<1>1. RebuiltLedger(noVat) = UNION {PostedRows(d, docs[d], noVat, base(d)) : d \in Present}
  BY DEF RebuiltLedger
<1> HIDE DEF base
<1>2. Contents(RebuiltLedger(noVat)) =
        UNION {Contents(PostedRows(d, docs[d], noVat, base(d))) : d \in Present}
  BY <1>1 DEF Contents
<1> QED
  BY <1>2, PostedContents

-----------------------------------------------------------------------------
(* The register against the documents.                                     *)

\* Together with the shape of the state, the register matches the documents
\* after every step.
LEMMA MatchStep ==
    ASSUME TypeOK, LedgerMatchesDocuments, [Next]_vars
    PROVE  LedgerMatchesDocuments'
<1> DEFINE rowsOf(d) == DocumentRows(d, docs[d], excludeVat)
<1>1. SUFFICES Contents(ledger') = Posted'
  BY PostedContents DEF LedgerMatchesDocuments, Posted
<1>2. Contents(ledger) = Posted
  BY LedgerMatchesPosted
<1>3. ASSUME NEW d \in Documents, NEW body \in Bodies[TypeOf(d)], docs' = [docs EXCEPT ![d] = body]
      PROVE  Present' = Present \cup {d} /\ \A e \in Present \ {d} : docs'[e] = docs[e]
  BY <1>3, TypesOfDocuments, RegisterAssumption DEF Present, TypeOK
<1>4. ASSUME NEW d \in Documents, NEW body \in Bodies[TypeOf(d)],
             docs' = [docs EXCEPT ![d] = body], excludeVat' = excludeVat,
             ledger' = RewriteActs(ledger, d, body, excludeVat)
      PROVE  Contents(ledger') = Posted'
  <2>1. docs'[d] = body
    BY <1>4 DEF TypeOK
  <2>2. Posted' = DocumentRows(d, body, excludeVat) \cup UNION {rowsOf(e) : e \in Present \ {d}}
    <3>1. Posted' = UNION {DocumentRows(e, docs'[e], excludeVat) : e \in Present'}
      BY <1>4 DEF Posted
    <3>2. Present' = Present \cup {d} /\ \A e \in Present \ {d} : docs'[e] = docs[e]
      BY <1>3, <1>4
    <3> QED
      BY <2>1, <3>1, <3>2, Zenon
  <2> QED
    BY <1>4, <2>2, RewrittenContents
<1>5. ASSUME NEW d \in Documents, NEW body \in Bodies[TypeOf(d)], Create(d, body)
      PROVE  Contents(ledger') = Posted'
  BY <1>4, <1>5 DEF Create, settings
<1>6. ASSUME NEW d \in Documents, NEW body \in Bodies[TypeOf(d)], Update(d, body)
      PROVE  Contents(ledger') = Posted'
  BY <1>4, <1>6 DEF Update, settings
<1>7. ASSUME NEW d \in Documents, Delete(d)
      PROVE  Contents(ledger') = Posted'
  <2>1. Present' = Present \ {d} /\ \A e \in Present \ {d} : docs'[e] = docs[e]
    BY <1>7 DEF Delete, Present, TypeOK
  <2>2. Posted' = UNION {rowsOf(e) : e \in Present \ {d}}
    BY <1>7, <2>1 DEF Delete, settings, Posted
  <2> QED
    BY <1>7, <2>2, RemovedContents DEF Delete
<1>8. ASSUME NEW allow \in BOOLEAN, SetNegativePolicy(allow)
      PROVE  Contents(ledger') = Posted'
  BY <1>2, <1>8 DEF SetNegativePolicy, Posted, Present
<1>9. ASSUME NEW noVat \in VatFlags, NEW allow \in BOOLEAN, SetVatBasis(noVat, allow)
      PROVE  Contents(ledger') = Posted'
  <2>1. Posted' = UNION {DocumentRows(d, docs[d], noVat) : d \in Present}
    BY <1>9 DEF SetVatBasis, Posted, Present
  <2> QED
    BY <1>9, <2>1, RebuiltContents DEF SetVatBasis
<1>10. CASE Recalculate
  BY <1>2, <1>10 DEF Recalculate, Posted, Present, settings
<1>11. ASSUME NEW day \in Days, Close(day)
       PROVE  Contents(ledger') = Posted'
  BY <1>2, <1>11 DEF Close, Posted, Present, settings
<1>12. CASE Reopen
  BY <1>2, <1>12 DEF Reopen, Posted, Present, settings
<1>13. CASE UNCHANGED vars
  BY <1>2, <1>13 DEF vars, Posted, Present
<1> QED
  BY <1>5, <1>6, <1>7, <1>8, <1>9, <1>10, <1>11, <1>12, <1>13 DEF Next

\* In every reachable state the register holds the rows the stored documents
\* post, and no others.
THEOREM RegisterMatchesDocuments == Spec => []LedgerMatchesDocuments
<1>1. Init => LedgerMatchesDocuments
  BY DEF Init, LedgerMatchesDocuments, Contents, Present
<1> QED
  BY <1>1, TypeInvariant, MatchStep, PTL DEF Spec

-----------------------------------------------------------------------------
(* Closing and reopening.                                                  *)

\* The latest closure is the one no other closure follows.
LEMMA LargestIsMax ==
    ASSUME NEW n \in Nat, NEW S \in SUBSET (1..n), n \in S
    PROVE  Max(S) = n
<1>1. \A y \in S : n >= y
  OBVIOUS
<1>2. \A x \in S : (\A y \in S : x >= y) => x = n
  OBVIOUS
<1> QED
  BY <1>1, <1>2 DEF Max

\* No step parts the cutoff from the latest closure that stands.
LEMMA CutoffStep ==
    ASSUME TypeOK, CutoffIsLatestClosure, [Next]_vars
    PROVE  CutoffIsLatestClosure'
<1>1. ASSUME NEW day \in Days, Close(day)
      PROVE  CutoffIsLatestClosure'
  <2> DEFINE n == Len(closures) + 1
             made == [through |-> day, reopened |-> FALSE]
  <2>1. n \in Nat /\ DOMAIN closures' = 1..n /\ closures'[n] = made
    BY <1>1 DEF Close, TypeOK
  <2>2. ActiveClosures' \in SUBSET (1..n) /\ n \in ActiveClosures'
    BY <2>1 DEF ActiveClosures
  <2>3. LatestActive' = n
    BY <2>1, <2>2, LargestIsMax DEF LatestActive
  <2> QED
    BY <1>1, <2>1, <2>2, <2>3 DEF Close, CutoffIsLatestClosure
<1>2. ASSUME UNCHANGED <<closedThrough, closures>>
      PROVE  CutoffIsLatestClosure'
  BY <1>2 DEF CutoffIsLatestClosure, ActiveClosures, LatestActive
<1>3. CASE Reopen
  BY <1>3 DEF Reopen, CutoffIsLatestClosure
<1>4. CASE UNCHANGED vars
  BY <1>2, <1>4 DEF vars
<1>5. CASE ~UNCHANGED vars /\ ~Reopen /\ ~(\E day \in Days : Close(day))
  BY <1>2, <1>5 DEF Next, period, Create, Update, Delete, SetNegativePolicy, SetVatBasis, Recalculate
<1> QED
  BY <1>1, <1>3, <1>4, <1>5

\* In every reachable state the cutoff is that of the latest closure which no
\* reopening has marked.
THEOREM CutoffFollowsClosures == Spec => []CutoffIsLatestClosure
<1>1. Init => CutoffIsLatestClosure
  BY DEF Init, CutoffIsLatestClosure
<1> QED
  BY <1>1, TypeInvariant, CutoffStep, PTL DEF Spec

-----------------------------------------------------------------------------
(* A closed period.                                                        *)

\* The rows dated in a closed period are those its documents post.
LEMMA ClosedContentsPosted ==
    TypeOK /\ LedgerMatchesDocuments =>
      ClosedContents = UNION {DocumentRows(x[1], x[2], excludeVat) : x \in ClosedDocuments}
<1> SUFFICES ASSUME TypeOK, LedgerMatchesDocuments
             PROVE  ClosedContents =
                      UNION {DocumentRows(x[1], x[2], excludeVat) : x \in ClosedDocuments}
  OBVIOUS
<1> DEFINE posted == UNION {DocumentRows(x[1], x[2], excludeVat) : x \in ClosedDocuments}
<1>1. Contents(ledger) = Posted
  BY LedgerMatchesPosted
<1>2. ASSUME NEW c \in ClosedContents PROVE c \in posted
  <2>1. PICK m \in ledger : c = Content(m) /\ DayOf[m.at] <= closedThrough
    BY DEF ClosedContents, Contents, OnOrBefore
  <2>2. PICK d \in Present : c \in DocumentRows(d, docs[d], excludeVat)
    BY <1>1, <2>1 DEF Contents, Posted
  <2>3. <<d, docs[d]>> \in ClosedDocuments
    BY <2>1, <2>2, ContentFields DEF ClosedDocuments
  <2> QED
    BY <2>2, <2>3
<1>3. ASSUME NEW c \in posted PROVE c \in ClosedContents
  <2>1. PICK d \in Present : /\ c \in DocumentRows(d, docs[d], excludeVat)
                             /\ DayOf[docs[d].at] <= closedThrough
    BY DEF ClosedDocuments
  <2>2. PICK m \in ledger : c = Content(m)
    BY <1>1, <2>1 DEF Contents, Posted
  <2>3. m \in OnOrBefore(ledger, closedThrough)
    BY <2>1, <2>2, ContentFields DEF OnOrBefore
  <2> QED
    BY <2>2, <2>3 DEF ClosedContents, Contents
<1> QED
  BY <1>2, <1>3

\* No step touches a document dated on or before the cutoff.
LEMMA ClosedDocumentsStep ==
    ASSUME TypeOK, [Next]_vars, closedThrough # Null, closedThrough' = closedThrough
    PROVE  ClosedDocuments' = ClosedDocuments
<1>1. ASSUME NEW d \in Documents, NEW body \in Bodies[TypeOf(d)],
             docs' = [docs EXCEPT ![d] = body], OpenDate(body.at),
             docs[d] # Null => OpenDate(docs[d].at)
      PROVE  ClosedDocuments' = ClosedDocuments
  <2>1. Present' = Present \cup {d} /\ docs'[d] = body /\ \A e \in Present \ {d} : docs'[e] = docs[e]
    BY <1>1, TypesOfDocuments, RegisterAssumption DEF Present, TypeOK
  <2>2. /\ closedThrough \in Nat /\ DayOf[body.at] \in Nat
        /\ d \in Present => DayOf[docs[d].at] \in Nat
    BY TypesOfDocuments, RegisterAssumption DEF TypeOK, Present
  <2>3. ~(DayOf[body.at] <= closedThrough)
    BY <1>1, <2>2 DEF OpenDate
  <2>4. d \in Present => ~(DayOf[docs[d].at] <= closedThrough)
    BY <1>1, <2>2 DEF OpenDate, Present
  <2>5. {e \in Present' : DayOf[docs'[e].at] <= closedThrough} =
          {e \in Present : DayOf[docs[e].at] <= closedThrough}
    BY <2>1, <2>3, <2>4
  <2>6. \A e \in {f \in Present : DayOf[docs[f].at] <= closedThrough} : docs'[e] = docs[e]
    BY <2>1, <2>4
  <2> QED
    BY <2>5, <2>6 DEF ClosedDocuments
<1>2. ASSUME NEW d \in Documents, NEW body \in Bodies[TypeOf(d)], Create(d, body)
      PROVE  ClosedDocuments' = ClosedDocuments
  BY <1>1, <1>2 DEF Create
<1>3. ASSUME NEW d \in Documents, NEW body \in Bodies[TypeOf(d)], Update(d, body)
      PROVE  ClosedDocuments' = ClosedDocuments
  BY <1>1, <1>3 DEF Update
<1>4. ASSUME NEW d \in Documents, Delete(d)
      PROVE  ClosedDocuments' = ClosedDocuments
  <2>1. Present' = Present \ {d} /\ \A e \in Present \ {d} : docs'[e] = docs[e]
    BY <1>4 DEF Delete, Present, TypeOK
  <2>2. closedThrough \in Nat /\ DayOf[docs[d].at] \in Nat
    BY <1>4, TypesOfDocuments, RegisterAssumption DEF Delete, TypeOK, Present
  <2>3. ~(DayOf[docs[d].at] <= closedThrough)
    BY <1>4, <2>2 DEF Delete, OpenDate
  <2>4. {e \in Present' : DayOf[docs'[e].at] <= closedThrough} =
          {e \in Present : DayOf[docs[e].at] <= closedThrough}
    BY <2>1, <2>3
  <2> QED
    BY <2>1, <2>3, <2>4 DEF ClosedDocuments
<1>5. ASSUME UNCHANGED docs
      PROVE  ClosedDocuments' = ClosedDocuments
  BY <1>5 DEF ClosedDocuments, Present
<1>6. CASE UNCHANGED docs
  BY <1>5, <1>6
<1> QED
  BY <1>2, <1>3, <1>4, <1>6
     DEF Next, vars, SetNegativePolicy, SetVatBasis, Recalculate, Close, Reopen

\* A change of the VAT basis rewrites rows only while none is closed.
LEMMA VatBasisStep ==
    ASSUME TypeOK, [Next]_vars, closedThrough # Null, ClosedDocuments # {}
    PROVE  excludeVat' = excludeVat
<1>1. ASSUME NEW noVat \in VatFlags, NEW allow \in BOOLEAN, SetVatBasis(noVat, allow)
      PROVE  FALSE
  <2>1. PICK d \in Present : DayOf[docs[d].at] <= closedThrough
    BY DEF ClosedDocuments
  <2>2. closedThrough \in Nat /\ DayOf[docs[d].at] \in Nat
    BY TypesOfDocuments, RegisterAssumption DEF TypeOK, Present
  <2> QED
    BY <1>1, <2>1, <2>2 DEF SetVatBasis, OpenDate
<1> QED
  BY <1>1 DEF Next, vars, settings, Create, Update, Delete, SetNegativePolicy, Recalculate,
              Close, Reopen

\* While the cutoff stands, a step leaves the closed documents and rows alone.
LEMMA ClosedStep ==
    ASSUME TypeOK, LedgerMatchesDocuments, TypeOK', LedgerMatchesDocuments', [Next]_vars,
           closedThrough # Null, closedThrough' = closedThrough
    PROVE  ClosedDocuments' = ClosedDocuments /\ ClosedContents' = ClosedContents
<1>1. ClosedDocuments' = ClosedDocuments
  BY ClosedDocumentsStep
<1>2. ClosedContents = UNION {DocumentRows(x[1], x[2], excludeVat) : x \in ClosedDocuments}
  BY ClosedContentsPosted
<1>3. ClosedContents' = UNION {DocumentRows(x[1], x[2], excludeVat') : x \in ClosedDocuments'}
  <2>1. (TypeOK /\ LedgerMatchesDocuments =>
           ClosedContents = UNION {DocumentRows(x[1], x[2], excludeVat) : x \in ClosedDocuments})'
    BY ClosedContentsPosted, PTL
  <2> QED
    BY <2>1
<1>4. CASE ClosedDocuments = {}
  BY <1>1, <1>2, <1>3, <1>4
<1>5. CASE ClosedDocuments # {}
  BY <1>1, <1>2, <1>3, <1>5, VatBasisStep
<1> QED
  BY <1>1, <1>4, <1>5

\* While a period stays closed, no step changes a document or a row dated in
\* it.  That the rows stand needs the match between register and documents:
\* the guards of the operations look at documents only.
THEOREM ClosedPeriodStands == Spec => ClosedPeriodFrozen
<1>1. /\ TypeOK /\ LedgerMatchesDocuments /\ TypeOK' /\ LedgerMatchesDocuments' /\ [Next]_vars
      => [closedThrough # Null /\ closedThrough' = closedThrough =>
            /\ ClosedDocuments' = ClosedDocuments
            /\ ClosedContents' = ClosedContents]_vars
  BY ClosedStep
<1> QED
  BY <1>1, TypeInvariant, RegisterMatchesDocuments, PTL DEF Spec, ClosedPeriodFrozen

\* The abstract book reads the same closed rows.
LEMMA FrozenIsClosed ==
    TypeOK /\ LedgerMatchesDocuments => Book!Frozen(Contents(ledger), closedThrough) = ClosedContents
<1> SUFFICES ASSUME TypeOK, LedgerMatchesDocuments
             PROVE  Book!Frozen(Contents(ledger), closedThrough) = ClosedContents
  OBVIOUS
<1>1. ASSUME NEW m \in ledger PROVE Content(m).at = m.at
  <2>1. PICK d \in Present : Content(m) \in DocumentRows(d, docs[d], excludeVat)
    BY LedgerMatchesPosted DEF Contents, Posted
  <2> QED
    BY <2>1, ContentFields, DocumentRowFields
<1> QED
  BY <1>1 DEF Book!Frozen, DayOfRow, ClosedContents, Contents, OnOrBefore

\* Every step of the register edits the book, closes a period, reopens it or
\* changes nothing.
LEMMA BookStep ==
    ASSUME TypeOK, LedgerMatchesDocuments, TypeOK', LedgerMatchesDocuments', [Next]_vars
    PROVE  [Book!Next]_<<Contents(ledger), closedThrough>>
<1>1. ASSUME closedThrough' = closedThrough PROVE Book!Edit
  <2>1. (TypeOK /\ LedgerMatchesDocuments =>
           Book!Frozen(Contents(ledger), closedThrough) = ClosedContents)'
    BY FrozenIsClosed, PTL
  <2>2. ASSUME closedThrough # Null PROVE Book!Frozen(Contents(ledger'), closedThrough) = ClosedContents'
    BY <1>1, <2>1
  <2>3. ASSUME closedThrough # Null PROVE Book!Frozen(Contents(ledger), closedThrough) = ClosedContents
    BY FrozenIsClosed
  <2> QED
    BY <1>1, <2>2, <2>3, ClosedStep DEF Book!Edit
<1>2. ASSUME NEW day \in Days, Close(day) PROVE Book!ClosePeriod
  BY <1>2 DEF Close, Book!ClosePeriod
<1>3. ASSUME Reopen PROVE Book!ReopenPeriod
  BY <1>3 DEF Reopen, Book!ReopenPeriod
<1>4. CASE ~Reopen /\ ~(\E day \in Days : Close(day))
  BY <1>1, <1>4 DEF Next, vars, period, Create, Update, Delete, SetNegativePolicy, SetVatBasis,
                    Recalculate, Book!Next
<1> QED
  BY <1>2, <1>3, <1>4 DEF Book!Next

\* The register implements PeriodBook, for every document and calendar.
THEOREM RegisterImplementsBook == Spec => RegisterIsBook
<1>1. Init => Book!Init
  BY DEF Init, Book!Init, Contents
<1>2. /\ TypeOK /\ LedgerMatchesDocuments /\ TypeOK' /\ LedgerMatchesDocuments' /\ [Next]_vars
      => [Book!Next]_<<Contents(ledger), closedThrough>>
  BY BookStep
<1> QED
  BY <1>1, <1>2, TypeInvariant, RegisterMatchesDocuments, PTL DEF Spec, RegisterIsBook, Book!Spec

-----------------------------------------------------------------------------
(* Sums over finite sets.  The sums of the model are folds, each a chosen  *)
(* recursive function; here every such choice is related to one sum, and   *)
(* what it adds up to is shown on a least set for which it would not hold. *)

\* Among sets of subsets of a finite set there is a least one.
LEMMA MinimalSubset ==
    ASSUME NEW S, IsFiniteSet(S), NEW T \in SUBSET (SUBSET S), T # {}
    PROVE  \E x \in T : \A y \in T : y \subseteq x => y = x
<1>1. IsWellFoundedOn(StrictSubsetOrdering(S), FiniteSubsetsOf(S))
  BY FS_StrictSubsetOrderingWellFounded
<1>2. FiniteSubsetsOf(S) = SUBSET S
  BY FS_FiniteSubsetsOfFinite
<1>3. \E x \in T : \A y \in T : ~ (<<y, x>> \in StrictSubsetOrdering(S))
  BY <1>1, <1>2, WFMin
<1> QED
  BY <1>2, <1>3 DEF StrictSubsetOrdering

\* The element that is added last.
First(s) == CHOOSE x \in s : TRUE

\* F sums q over the subsets of S, one element after another.
Sums(F, q, S) ==
    F = [s \in SUBSET S |-> IF s = {} THEN 0 ELSE q[First(s)] + F[s \ {First(s)}]]

\* The element chosen first is one of the set.
LEMMA FirstIsMember == ASSUME NEW s, s # {} PROVE First(s) \in s
BY DEF First

\* Families of subsets from which one element after another can be taken.
Descending(D) == \A s \in D : s # {} => s \ {First(s)} \in D

\* The same on a family of subsets.
SumsOn(F, q, D) ==
    F = [s \in D |-> IF s = {} THEN 0 ELSE q[First(s)] + F[s \ {First(s)}]]

\* There is such a function.
LEMMA SumExists ==
    ASSUME NEW S, IsFiniteSet(S), NEW q
    PROVE  \E F : Sums(F, q, S)
<1> DEFINE Good == {D \in SUBSET (SUBSET S) : Descending(D) /\ \E F : SumsOn(F, q, D)}
           Rest == {(SUBSET S) \ D : D \in Good}
<1>1. {} \in Good
  <2>1. SumsOn([s \in {} |-> 0], q, {})
    BY DEF SumsOn
  <2> QED
    BY <2>1 DEF Descending
<1>2. Rest # {} /\ Rest \in SUBSET (SUBSET (SUBSET S))
  <2>1. (SUBSET S) \ {} \in Rest
    BY <1>1
  <2>2. \A R \in Rest : R \in SUBSET (SUBSET S)
    OBVIOUS
  <2> HIDE DEF Rest
  <2> QED
    BY <2>1, <2>2
<1>3. IsFiniteSet(SUBSET S)
  BY FS_SUBSET
<1> HIDE DEF Rest
<1>4. PICK R \in Rest : \A y \in Rest : y \subseteq R => y = R
  BY <1>2, <1>3, MinimalSubset
<1>5. PICK D \in Good : R = (SUBSET S) \ D
  BY <1>4 DEF Rest
<1>6. PICK F : SumsOn(F, q, D)
  BY <1>5
<1>7. CASE R = {}
  <2>1. D = SUBSET S
    BY <1>5, <1>7
  <2> QED
    BY <1>6, <2>1 DEF SumsOn, Sums
<1>8. CASE R # {}
  <2>1. R \in SUBSET (SUBSET S)
    BY <1>5
  <2>2. PICK s \in R : \A y \in R : y \subseteq s => y = s
    BY <1>8, <2>1, MinimalSubset
  <2>3. s \in SUBSET S /\ s \notin D
    BY <1>5, <2>2
  <2>4. s # {} => s \ {First(s)} \in D
    BY <1>5, <2>2, <2>3, FirstIsMember
  <2> DEFINE E == D \cup {s}
             G == [t \in E |-> IF t = s THEN IF s = {} THEN 0 ELSE q[First(s)] + F[s \ {First(s)}] ELSE F[t]]
  <2>5. Descending(E)
    BY <1>5, <2>4 DEF Descending
  <2>6. \A t \in D : G[t] = F[t]
    BY <2>3
  <2>7. \A t \in D : F[t] = IF t = {} THEN 0 ELSE q[First(t)] + F[t \ {First(t)}]
    BY <1>6 DEF SumsOn
  <2>8. ASSUME NEW t \in E PROVE G[t] = IF t = {} THEN 0 ELSE q[First(t)] + G[t \ {First(t)}]
    <3>1. CASE t = s
      BY <2>4, <2>6, <3>1
    <3>2. CASE t # s
      <4>1. t \in D /\ (t # {} => t \ {First(t)} \in D)
        BY <1>5, <3>2 DEF Descending
      <4> QED
        BY <2>6, <2>7, <4>1
    <3> QED
      BY <3>1, <3>2
  <2>9. SumsOn(G, q, E)
    <3>1. G = [t \in E |-> G[t]]
      OBVIOUS
    <3> HIDE DEF G
    <3> QED
      BY <2>8, <3>1 DEF SumsOn
  <2>10. E \in Good
    BY <2>3, <2>5, <2>9, <1>5
  <2> HIDE DEF E
  <2>11. (SUBSET S) \ E \in Rest
    BY <2>10 DEF Rest
  <2> QED
    BY <1>4, <1>5, <2>2, <2>11 DEF E
<1> QED
  BY <1>7, <1>8

\* What a sum over subsets is.
LEMMA SumSteps ==
    ASSUME NEW S, NEW F, NEW q, Sums(F, q, S), NEW s \in SUBSET S
    PROVE  F[s] = IF s = {} THEN 0 ELSE q[First(s)] + F[s \ {First(s)}]
BY DEF Sums

\* Functions that sum the same numbers agree.
LEMMA SumsAgree ==
    ASSUME NEW S, NEW F, NEW q, Sums(F, q, S),
           NEW T, NEW G, NEW p, Sums(G, p, T),
           NEW U \in SUBSET (S \cap T), IsFiniteSet(U), \A x \in U : q[x] = p[x]
    PROVE  F[U] = G[U]
<1> DEFINE Bad == {s \in SUBSET U : F[s] # G[s]}
<1> SUFFICES ASSUME Bad # {} PROVE FALSE
  OBVIOUS
<1>0. Bad \in SUBSET (SUBSET U)
  OBVIOUS
<1> HIDE DEF Bad
<1>1. PICK s \in Bad : \A y \in Bad : y \subseteq s => y = s
  BY <1>0, MinimalSubset
<1> USE DEF Bad
<1>2. s \in SUBSET S /\ s \in SUBSET T /\ s \in SUBSET U /\ F[s] # G[s]
  BY <1>1
<1>3. s # {}
  BY <1>2, SumSteps
<1>4. First(s) \in s
  BY <1>3, FirstIsMember
<1>5. F[s \ {First(s)}] = G[s \ {First(s)}]
  BY <1>1, <1>4
<1> HIDE DEF Bad
<1> QED
  BY <1>2, <1>3, <1>4, <1>5, SumSteps

\* Sums of integers are integers.
LEMMA SumIsInt ==
    ASSUME NEW S, IsFiniteSet(S), NEW F, NEW q, Sums(F, q, S), \A x \in S : q[x] \in Int
    PROVE  F[S] \in Int
<1> DEFINE Bad == {s \in SUBSET S : F[s] \notin Int}
<1> SUFFICES ASSUME Bad # {} PROVE FALSE
  OBVIOUS
<1>0. Bad \in SUBSET (SUBSET S)
  OBVIOUS
<1> HIDE DEF Bad
<1>1. PICK s \in Bad : \A y \in Bad : y \subseteq s => y = s
  BY <1>0, MinimalSubset
<1> USE DEF Bad
<1>2. s \in SUBSET S /\ F[s] \notin Int
  BY <1>1
<1>3. s # {}
  <2> HIDE DEF Bad
  <2>1. F[s] = IF s = {} THEN 0 ELSE q[First(s)] + F[s \ {First(s)}]
    BY <1>2 DEF Sums
  <2> QED
    BY <1>2, <2>1
<1>4. First(s) \in s
  BY <1>3, FirstIsMember
<1>5. F[s \ {First(s)}] \in Int
  BY <1>1, <1>4
<1> HIDE DEF Bad
<1> QED
  BY <1>2, <1>3, <1>4, <1>5, SumSteps

\* The sum of q over S.
Sum(q, S) == (CHOOSE F : Sums(F, q, S))[S]

\* The sum is the value of one such function.
LEMMA SumChosen ==
    ASSUME NEW S, IsFiniteSet(S), NEW q
    PROVE  \E F : Sums(F, q, S) /\ Sum(q, S) = F[S]
BY SumExists DEF Sum

\* A sum of whole numbers is one.
LEMMA SumType ==
    ASSUME NEW S, IsFiniteSet(S), NEW q, \A x \in S : q[x] \in Int
    PROVE  Sum(q, S) \in Int
BY SumChosen, SumIsInt

\* The sum over nothing.
LEMMA SumEmpty == \A q : Sum(q, {}) = 0
BY SumChosen, SumSteps, FS_EmptySet

\* Equal terms have equal sums.
LEMMA SumSame ==
    ASSUME NEW S, IsFiniteSet(S), NEW q, NEW p, \A x \in S : q[x] = p[x]
    PROVE  Sum(q, S) = Sum(p, S)
BY SumChosen, SumsAgree

\* The first term and the rest.
LEMMA SumFirst ==
    ASSUME NEW S, IsFiniteSet(S), NEW q, S # {}
    PROVE  Sum(q, S) = q[First(S)] + Sum(q, S \ {First(S)})
<1> DEFINE T == S \ {First(S)}
<1>1. IsFiniteSet(T)
  BY FS_RemoveElement
<1>2. PICK F : Sums(F, q, S) /\ Sum(q, S) = F[S]
  BY SumChosen
<1>3. PICK G : Sums(G, q, T) /\ Sum(q, T) = G[T]
  BY <1>1, SumChosen
<1>4. F[T] = G[T]
  <2>1. T \in SUBSET (S \cap T)
    OBVIOUS
  <2> QED
    BY <1>1, <1>2, <1>3, <2>1, SumsAgree
<1> HIDE DEF T
<1>5. F[S] = q[First(S)] + F[T]
  BY <1>2, SumSteps DEF T
<1> QED
  BY <1>2, <1>3, <1>4, <1>5 DEF T

\* Any element may be taken out of a sum.
LEMMA SumRemove ==
    ASSUME NEW S, IsFiniteSet(S), NEW q, \A x \in S : q[x] \in Int, NEW x \in S
    PROVE  Sum(q, S) = q[x] + Sum(q, S \ {x})
<1> DEFINE Bad == {s \in SUBSET S : \E y \in s : Sum(q, s) # q[y] + Sum(q, s \ {y})}
<1> SUFFICES ASSUME Bad # {} PROVE FALSE
  OBVIOUS
<1>0. Bad \in SUBSET (SUBSET S)
  OBVIOUS
<1> HIDE DEF Bad
<1>1. PICK s \in Bad : \A t \in Bad : t \subseteq s => t = s
  BY <1>0, MinimalSubset
<1>2. PICK y \in s : s \in SUBSET S /\ Sum(q, s) # q[y] + Sum(q, s \ {y})
  BY <1>1 DEF Bad
<1>3. \A t \in SUBSET S : t \subseteq s /\ t # s => \A z \in t : Sum(q, t) = q[z] + Sum(q, t \ {z})
  BY <1>1 DEF Bad
<1> DEFINE c == First(s)
<1>4. c \in s /\ s # {}
  BY <1>2, FirstIsMember
<1>5. \A t \in SUBSET S : IsFiniteSet(t) /\ Sum(q, t) \in Int
  BY FS_Subset, SumType
<1>6. Sum(q, s) = q[c] + Sum(q, s \ {c})
  BY <1>2, <1>4, <1>5, SumFirst
<1>7. c # y
  BY <1>2, <1>6
<1> HIDE DEF c
<1>8. Sum(q, s \ {c}) = q[y] + Sum(q, (s \ {c}) \ {y})
  BY <1>2, <1>3, <1>4, <1>7
<1>9. Sum(q, s \ {y}) = q[c] + Sum(q, (s \ {y}) \ {c})
  BY <1>2, <1>3, <1>4, <1>7
<1>10. (s \ {c}) \ {y} = (s \ {y}) \ {c}
  OBVIOUS
<1>11. q[c] \in Int /\ q[y] \in Int /\ Sum(q, (s \ {c}) \ {y}) \in Int
  BY <1>2, <1>4, <1>5
<1>12. Sum(q, s) = q[c] + (q[y] + Sum(q, (s \ {c}) \ {y}))
  BY <1>6, <1>8
<1>13. q[y] + Sum(q, s \ {y}) = q[y] + (q[c] + Sum(q, (s \ {c}) \ {y}))
  BY <1>9, <1>10
<1>14. \A i, j, k \in Int : i + (j + k) = j + (i + k)
  OBVIOUS
<1> QED
  BY <1>2, <1>11, <1>12, <1>13, <1>14

\* A sum is that of a part and of the rest.
LEMMA SumSplit ==
    ASSUME NEW S, IsFiniteSet(S), NEW q, \A x \in S : q[x] \in Int, NEW A \in SUBSET S
    PROVE  Sum(q, S) = Sum(q, A) + Sum(q, S \ A)
<1> DEFINE Bad == {s \in SUBSET (S \ A) : Sum(q, A \cup s) # Sum(q, A) + Sum(q, s)}
<1>0. Bad \in SUBSET (SUBSET (S \ A)) /\ IsFiniteSet(S \ A)
  BY FS_Difference
<1>1. \A t \in SUBSET S : IsFiniteSet(t) /\ Sum(q, t) \in Int
  BY FS_Subset, SumType
<1>2. Bad = {}
  <2> SUFFICES ASSUME Bad # {} PROVE FALSE
    OBVIOUS
  <2> HIDE DEF Bad
  <2>1. PICK s \in Bad : \A t \in Bad : t \subseteq s => t = s
    BY <1>0, MinimalSubset
  <2>2. s \in SUBSET (S \ A) /\ Sum(q, A \cup s) # Sum(q, A) + Sum(q, s)
    BY <2>1 DEF Bad
  <2>3. CASE s = {}
    <3>1. A \cup s = A
      BY <2>3
    <3>2. Sum(q, s) = 0
      BY <2>3, SumEmpty
    <3>3. Sum(q, A) \in Int
      BY <1>1
    <3> QED
      BY <2>2, <3>1, <3>2, <3>3
  <2>4. CASE s # {}
    <3>1. PICK x \in s : TRUE
      BY <2>4
    <3> DEFINE t == s \ {x}
    <3>2. t \in SUBSET (S \ A) /\ t \subseteq s /\ t # s
      BY <2>2, <3>1
    <3>3. Sum(q, A \cup t) = Sum(q, A) + Sum(q, t)
      BY <2>1, <3>2 DEF Bad
    <3>4. A \cup s \in SUBSET S /\ s \in SUBSET S /\ (A \cup s) \ {x} = A \cup t /\ x \in A \cup s
      BY <2>2, <3>1
    <3>5. \A y \in A \cup s : q[y] \in Int
      BY <3>4
    <3>6. Sum(q, A \cup s) = q[x] + Sum(q, A \cup t)
      BY <1>1, <3>4, <3>5, SumRemove
    <3>7. Sum(q, s) = q[x] + Sum(q, t)
      BY <1>1, <3>1, <3>4, <3>5, SumRemove
    <3>8. q[x] \in Int /\ Sum(q, A) \in Int /\ Sum(q, t) \in Int
      BY <1>1, <3>2, <3>4, <3>5
    <3>9. \A i, j, k \in Int : i + (j + k) = j + (i + k)
      OBVIOUS
    <3> QED
      BY <2>2, <3>3, <3>6, <3>7, <3>8, <3>9
  <2> QED
    BY <2>3, <2>4
<1>3. A \cup (S \ A) = S /\ S \ A \in SUBSET (S \ A)
  OBVIOUS
<1> QED
  BY <1>2, <1>3

\* A sum of numbers that are not negative is not negative.
LEMMA SumNonNegative ==
    ASSUME NEW S, IsFiniteSet(S), NEW q, \A x \in S : q[x] \in Int /\ q[x] >= 0
    PROVE  Sum(q, S) >= 0
<1> DEFINE Bad == {s \in SUBSET S : ~(Sum(q, s) >= 0)}
<1> SUFFICES ASSUME Bad # {} PROVE FALSE
  OBVIOUS
<1>0. Bad \in SUBSET (SUBSET S)
  OBVIOUS
<1> HIDE DEF Bad
<1>1. PICK s \in Bad : \A t \in Bad : t \subseteq s => t = s
  BY <1>0, MinimalSubset
<1>2. s \in SUBSET S /\ ~(Sum(q, s) >= 0)
  BY <1>1 DEF Bad
<1>3. s # {}
  <2>1. Sum(q, {}) = 0
    BY SumEmpty
  <2> QED
    BY <1>2, <2>1
<1>4. PICK x \in s : TRUE
  BY <1>3
<1>5. Sum(q, s \ {x}) >= 0
  BY <1>1, <1>2, <1>4 DEF Bad
<1>6. IsFiniteSet(s) /\ IsFiniteSet(s \ {x})
  BY <1>2, FS_Subset, FS_RemoveElement
<1>7. Sum(q, s) = q[x] + Sum(q, s \ {x})
  BY <1>2, <1>4, <1>6, SumRemove
<1>8. q[x] \in Int /\ q[x] >= 0 /\ Sum(q, s \ {x}) \in Int
  BY <1>2, <1>4, <1>6, SumType
<1> QED
  BY <1>2, <1>5, <1>7, <1>8

\* The quantity of a set of rows is a sum.
QuantSums(F, S) ==
    F = [s \in SUBSET S |-> IF s = {} THEN 0 ELSE First(s).quant + F[s \ {First(s)}]]

\* The fold of the model is a chosen recursive function, too.
LEMMA QuantOfChosen == ASSUME NEW S PROVE QuantOf(S) = (CHOOSE F : QuantSums(F, S))[S]
BY DEF QuantOf, MapThenSumSet, MapThenFoldSet, QuantSums, First

\* Both recursions define the same functions.
LEMMA QuantSumsAreSums ==
    ASSUME NEW S, NEW q, \A m \in S : q[m] = m.quant, NEW F
    PROVE  QuantSums(F, S) <=> Sums(F, q, S)
<1>1. \A s \in SUBSET S : s # {} => q[First(s)] = First(s).quant
  BY FirstIsMember
<1>2. [s \in SUBSET S |-> IF s = {} THEN 0 ELSE First(s).quant + F[s \ {First(s)}]]
        = [s \in SUBSET S |-> IF s = {} THEN 0 ELSE q[First(s)] + F[s \ {First(s)}]]
  BY <1>1
<1> QED
  BY <1>2 DEF QuantSums, Sums

\* The quantity of rows is the sum of their quantities.
LEMMA QuantOfSum ==
    ASSUME NEW S, IsFiniteSet(S), NEW q, \A m \in S : q[m] = m.quant
    PROVE  QuantOf(S) = Sum(q, S)
<1>1. \E F : QuantSums(F, S)
  BY SumExists, QuantSumsAreSums
<1>2. PICK F : QuantSums(F, S) /\ QuantOf(S) = F[S]
  BY <1>1, QuantOfChosen
<1>3. Sums(F, q, S)
  BY <1>2, QuantSumsAreSums
<1>4. PICK G : Sums(G, q, S) /\ Sum(q, S) = G[S]
  BY SumChosen
<1>5. S \in SUBSET (S \cap S)
  OBVIOUS
<1> QED
  BY <1>2, <1>3, <1>4, <1>5, SumsAgree

-----------------------------------------------------------------------------
(* The business order of movements.                                        *)

\* Rows that the replay can put in order: their names are numbers, and no
\* two rows have the same name.
Placed(m) ==
    /\ m.id \in Nat /\ m.at \in Nat /\ m.type \in Types
    /\ m.rec \in Nat /\ m.item \in Nat /\ m.order \in Nat

\* Rows that the order tells apart.
Named(L) ==
    /\ IsFiniteSet(L)
    /\ \A m \in L : Placed(m)
    /\ \A m, k \in L : MovementKey(m) = MovementKey(k) => m = k

\* The order of six numbers, one after another.
LEMMA LexLessOfSix ==
    ASSUME NEW a1, NEW a2, NEW a3, NEW a4, NEW a5, NEW a6,
           NEW b1, NEW b2, NEW b3, NEW b4, NEW b5, NEW b6
    PROVE  LexLess(<<a1, a2, a3, a4, a5, a6>>, <<b1, b2, b3, b4, b5, b6>>) <=>
             \/ a1 < b1
             \/ a1 = b1 /\ a2 < b2
             \/ a1 = b1 /\ a2 = b2 /\ a3 < b3
             \/ a1 = b1 /\ a2 = b2 /\ a3 = b3 /\ a4 < b4
             \/ a1 = b1 /\ a2 = b2 /\ a3 = b3 /\ a4 = b4 /\ a5 < b5
             \/ a1 = b1 /\ a2 = b2 /\ a3 = b3 /\ a4 = b4 /\ a5 = b5 /\ a6 < b6
<1> DEFINE a == <<a1, a2, a3, a4, a5, a6>>
           b == <<b1, b2, b3, b4, b5, b6>>
<1>1. DOMAIN a = 1..6
  OBVIOUS
<1>2. /\ a[1] = a1 /\ a[2] = a2 /\ a[3] = a3 /\ a[4] = a4 /\ a[5] = a5 /\ a[6] = a6
      /\ b[1] = b1 /\ b[2] = b2 /\ b[3] = b3 /\ b[4] = b4 /\ b[5] = b5 /\ b[6] = b6
  OBVIOUS
<1> HIDE DEF a, b
<1>3. LexLess(a, b) <=> \E i \in 1..6 : a[i] < b[i] /\ \A j \in 1..(i - 1) : a[j] = b[j]
  BY <1>1 DEF LexLess
<1>4. ASSUME NEW i \in 1..6 PROVE i = 1 \/ i = 2 \/ i = 3 \/ i = 4 \/ i = 5 \/ i = 6
  OBVIOUS
<1>5. /\ (\A j \in 1..0 : a[j] = b[j])
      /\ (\A j \in 1..1 : a[j] = b[j]) <=> a[1] = b[1]
      /\ (\A j \in 1..2 : a[j] = b[j]) <=> a[1] = b[1] /\ a[2] = b[2]
      /\ (\A j \in 1..3 : a[j] = b[j]) <=> a[1] = b[1] /\ a[2] = b[2] /\ a[3] = b[3]
      /\ (\A j \in 1..4 : a[j] = b[j]) <=> a[1] = b[1] /\ a[2] = b[2] /\ a[3] = b[3] /\ a[4] = b[4]
      /\ (\A j \in 1..5 : a[j] = b[j]) <=>
           a[1] = b[1] /\ a[2] = b[2] /\ a[3] = b[3] /\ a[4] = b[4] /\ a[5] = b[5]
  OBVIOUS
<1>6. LexLess(a, b) <=>
        \/ a[1] < b[1] /\ \A j \in 1..0 : a[j] = b[j]
        \/ a[2] < b[2] /\ \A j \in 1..1 : a[j] = b[j]
        \/ a[3] < b[3] /\ \A j \in 1..2 : a[j] = b[j]
        \/ a[4] < b[4] /\ \A j \in 1..3 : a[j] = b[j]
        \/ a[5] < b[5] /\ \A j \in 1..4 : a[j] = b[j]
        \/ a[6] < b[6] /\ \A j \in 1..5 : a[j] = b[j]
  BY <1>3, <1>4
<1>7. LexLess(a, b) <=>
             \/ a1 < b1
             \/ a1 = b1 /\ a2 < b2
             \/ a1 = b1 /\ a2 = b2 /\ a3 < b3
             \/ a1 = b1 /\ a2 = b2 /\ a3 = b3 /\ a4 < b4
             \/ a1 = b1 /\ a2 = b2 /\ a3 = b3 /\ a4 = b4 /\ a5 < b5
             \/ a1 = b1 /\ a2 = b2 /\ a3 = b3 /\ a4 = b4 /\ a5 = b5 /\ a6 < b6
  BY <1>2, <1>5, <1>6
<1> QED
  BY <1>7 DEF a, b

\* The order of movements spelt out.
LEMMA ReplayBeforeFields ==
    ASSUME NEW m, NEW k
    PROVE  ReplayBefore(m, k) <=>
             \/ m.at < k.at
             \/ m.at = k.at /\ TypeRank(m.type) < TypeRank(k.type)
             \/ m.at = k.at /\ TypeRank(m.type) = TypeRank(k.type) /\ m.rec < k.rec
             \/ m.at = k.at /\ TypeRank(m.type) = TypeRank(k.type) /\ m.rec = k.rec /\ m.item < k.item
             \/ m.at = k.at /\ TypeRank(m.type) = TypeRank(k.type) /\ m.rec = k.rec /\ m.item = k.item
                  /\ m.order < k.order
             \/ m.at = k.at /\ TypeRank(m.type) = TypeRank(k.type) /\ m.rec = k.rec /\ m.item = k.item
                  /\ m.order = k.order /\ m.id < k.id
BY LexLessOfSix DEF ReplayBefore, ReplayKey

\* The rank of a type tells it from the others.
LEMMA TypeRanks ==
    ASSUME NEW s \in Types, NEW t \in Types
    PROVE  TypeRank(s) \in Nat /\ (TypeRank(s) = TypeRank(t) => s = t)
BY DEF Types, TypeRank

\* The replay order is a strict total order of named rows.
LEMMA ReplayIrreflexive == ASSUME NEW m, Placed(m) PROVE ~ReplayBefore(m, m)
BY ReplayBeforeFields, TypeRanks DEF Placed

\* The business order is transitive.
LEMMA ReplayTransitive ==
    ASSUME NEW m, NEW k, NEW n, Placed(m), Placed(k), Placed(n), ReplayBefore(m, k), ReplayBefore(k, n)
    PROVE  ReplayBefore(m, n)
<1> DEFINE x == TypeRank(m.type)
           y == TypeRank(k.type)
           z == TypeRank(n.type)
<1>1. x \in Nat /\ y \in Nat /\ z \in Nat
  BY TypeRanks DEF Placed
<1> HIDE DEF x, y, z
<1> QED
  BY <1>1, ReplayBeforeFields DEF Placed, x, y, z

\* Of two movements with different names one comes first.
LEMMA ReplayTotal ==
    ASSUME NEW L, Named(L), NEW m \in L, NEW k \in L
    PROVE  m = k \/ ReplayBefore(m, k) \/ ReplayBefore(k, m)
<1> SUFFICES ASSUME ~ReplayBefore(m, k), ~ReplayBefore(k, m) PROVE m = k
  OBVIOUS
<1>1. TypeRank(m.type) \in Nat /\ TypeRank(k.type) \in Nat
  BY TypeRanks DEF Named, Placed
<1>2. m.at = k.at /\ TypeRank(m.type) = TypeRank(k.type) /\ m.rec = k.rec /\ m.item = k.item /\ m.order = k.order
  BY <1>1, ReplayBeforeFields DEF Named, Placed
<1>3. m.type = k.type
  BY <1>2, TypeRanks DEF Named, Placed
<1> QED
  BY <1>2, <1>3 DEF Named, MovementKey

\* No movement comes before one that comes before it.
LEMMA ReplayAsymmetric ==
    ASSUME NEW m, NEW k, Placed(m), Placed(k), ReplayBefore(m, k)
    PROVE  ~ReplayBefore(k, m) /\ m # k
BY ReplayTransitive, ReplayIrreflexive

\* Earlier rows come first.
LEMMA ReplayByInstant ==
    ASSUME NEW m, NEW k, Placed(m), Placed(k)
    PROVE  /\ ReplayBefore(m, k) => m.at <= k.at
           /\ m.at < k.at => ReplayBefore(m, k)
BY ReplayBeforeFields DEF Placed

\* Rows that are there have a last one.
LEMMA LastExists ==
    ASSUME NEW L, Named(L), NEW A \in SUBSET L, A # {}
    PROVE  \E m \in A : \A k \in A \ {m} : ReplayBefore(k, m)
<1> DEFINE Bad == {s \in SUBSET A : s # {} /\ ~\E m \in s : \A k \in s \ {m} : ReplayBefore(k, m)}
<1> SUFFICES ASSUME Bad # {} PROVE FALSE
  OBVIOUS
<1>0. Bad \in SUBSET (SUBSET A) /\ IsFiniteSet(A)
  BY FS_Subset DEF Named
<1> HIDE DEF Bad
<1>1. PICK s \in Bad : \A t \in Bad : t \subseteq s => t = s
  BY <1>0, MinimalSubset
<1>2. s \in SUBSET A /\ s # {} /\ ~\E m \in s : \A k \in s \ {m} : ReplayBefore(k, m)
  BY <1>1 DEF Bad
<1>3. PICK x \in s : TRUE
  BY <1>2
<1>4. s \ {x} # {}
  BY <1>2, <1>3
<1>5. PICK m \in s \ {x} : \A k \in (s \ {x}) \ {m} : ReplayBefore(k, m)
  <2> DEFINE t == s \ {x}
  <2>1. t \in SUBSET A /\ t \subseteq s /\ t # s /\ t # {}
    BY <1>2, <1>3, <1>4
  <2>2. t \notin Bad
    BY <1>1, <2>1
  <2> HIDE DEF t
  <2>3. \E m \in t : \A k \in t \ {m} : ReplayBefore(k, m)
    BY <2>1, <2>2 DEF Bad
  <2> QED
    BY <2>3 DEF t
<1>6. m # x /\ m \in s /\ m \in L /\ x \in L
  BY <1>2, <1>3, <1>5
<1>7. CASE ReplayBefore(x, m)
  BY <1>2, <1>3, <1>5, <1>6, <1>7
<1>8. CASE ReplayBefore(m, x)
  <2>1. ASSUME NEW k \in s \ {x} PROVE ReplayBefore(k, x)
    <3>1. CASE k = m
      BY <1>8, <3>1
    <3>2. CASE k # m
      <4>1. ReplayBefore(k, m) /\ k \in L
        BY <1>2, <1>5, <2>1, <3>2
      <4> QED
        BY <1>6, <1>8, <4>1, ReplayTransitive DEF Named
    <3> QED
      BY <3>1, <3>2
  <2> QED
    BY <1>2, <1>3, <2>1
<1> QED
  BY <1>6, <1>7, <1>8, ReplayTotal

-----------------------------------------------------------------------------
(* Quantities of balances.                                                 *)

\* Rows of whole quantities.
Counted(L) == Named(L) /\ \A m \in L : m.quant \in Int

\* The quantities of rows, as a function of the rows.
QuantIn(L) == [m \in L |-> m.quant]

\* The quantity of some of the rows.
LEMMA QuantOfPart ==
    ASSUME NEW L, Counted(L), NEW A \in SUBSET L
    PROVE  /\ IsFiniteSet(A)
           /\ QuantOf(A) = Sum(QuantIn(L), A)
           /\ QuantOf(A) \in Int
           /\ \A m \in A : QuantIn(L)[m] = m.quant /\ QuantIn(L)[m] \in Int
<1> DEFINE q == QuantIn(L)
<1>1. \A m \in A : q[m] = m.quant /\ q[m] \in Int
  BY DEF Counted, QuantIn
<1>2. IsFiniteSet(A)
  BY FS_Subset DEF Counted, Named
<1> HIDE DEF q
<1>3. QuantOf(A) = Sum(q, A)
  BY <1>1, <1>2, QuantOfSum
<1>4. Sum(q, A) \in Int
  BY <1>1, <1>2, SumType
<1> QED
  BY <1>1, <1>2, <1>3, <1>4 DEF q

\* The quantity of rows is that of a part of them and of the others.
LEMMA QuantSplit ==
    ASSUME NEW L, Counted(L), NEW A \in SUBSET L, NEW B \in SUBSET A
    PROVE  QuantOf(A) = QuantOf(B) + QuantOf(A \ B)
<1>1. B \in SUBSET L /\ A \ B \in SUBSET L
  OBVIOUS
<1>2. IsFiniteSet(A) /\ \A m \in A : QuantIn(L)[m] \in Int
  BY QuantOfPart
<1>3. Sum(QuantIn(L), A) = Sum(QuantIn(L), B) + Sum(QuantIn(L), A \ B)
  BY <1>2, SumSplit
<1> QED
  BY <1>1, <1>3, QuantOfPart

\* Quantities add up row by row.
LEMMA QuantAdd ==
    ASSUME NEW L, Counted(L), NEW A \in SUBSET L, NEW m \in A
    PROVE  QuantOf(A) = QuantOf(A \ {m}) + m.quant
<1> DEFINE q == QuantIn(L)
           B == A \ {m}
           r == Sum(q, B)
<1>1. B \in SUBSET L
  OBVIOUS
<1>2. /\ IsFiniteSet(A) /\ IsFiniteSet(B) /\ QuantOf(A) = Sum(q, A) /\ QuantOf(B) = r
      /\ \A x \in A : q[x] = x.quant /\ q[x] \in Int
  BY <1>1, QuantOfPart
<1>3. r \in Int
  BY <1>2, SumType
<1>4. Sum(q, A) = q[m] + r
  BY <1>2, SumRemove
<1>5. q[m] = m.quant /\ q[m] \in Int
  BY <1>2
<1> HIDE DEF q, r, B
<1>6. QuantOf(A) = r + m.quant
  BY <1>2, <1>3, <1>4, <1>5
<1> QED
  BY <1>2, <1>6 DEF B

\* Rows that bring something in have a quantity.
LEMMA QuantNonNegative ==
    ASSUME NEW L, Counted(L), NEW A \in SUBSET L, \A m \in A : m.quant >= 0
    PROVE  QuantOf(A) >= 0
<1>1. \A m \in A : QuantIn(L)[m] \in Int /\ QuantIn(L)[m] >= 0
  BY QuantOfPart
<1>2. IsFiniteSet(A) /\ QuantOf(A) = Sum(QuantIn(L), A)
  BY QuantOfPart
<1>3. Sum(QuantIn(L), A) >= 0
  BY <1>1, <1>2, SumNonNegative
<1> QED
  BY <1>2, <1>3

\* The movements of the balance of m up to m itself.
UpTo(L, m) == {k \in L : Position(k) = Position(m) /\ ~ReplayBefore(m, k)}

\* The running quantity after a movement is that of the rows up to it.
LEMMA RunningQuantUpTo == ASSUME NEW L, NEW m PROVE RunningQuant(L, m) = QuantOf(UpTo(L, m))
BY DEF RunningQuant, QuantOf, UpTo

-----------------------------------------------------------------------------
(* The first movements of the order.                                       *)

\* Rows with every row of L that comes before one of them.
Prefix(L, s) ==
    s \in SUBSET L /\ \A k \in s : \A j \in L : ReplayBefore(j, k) => j \in s

\* The row among some that comes last.
LastRow(s) == LastIn(ReplayBefore, s)

\* The last of some rows is one of them, and comes after the others.
LEMMA LastOfRows ==
    ASSUME NEW L, Named(L), NEW s \in SUBSET L, s # {}
    PROVE  LastRow(s) \in s /\ \A k \in s \ {LastRow(s)} : ReplayBefore(k, LastRow(s))
BY LastExists DEF LastRow, LastIn

\* A row that comes after the others is the last one.
LEMMA LastIsLast ==
    ASSUME NEW L, Named(L), NEW s \in SUBSET L, NEW m \in s, \A k \in s \ {m} : ReplayBefore(k, m)
    PROVE  LastRow(s) = m
<1>1. LastRow(s) \in s /\ \A k \in s \ {LastRow(s)} : ReplayBefore(k, LastRow(s))
  BY LastOfRows
<1>2. CASE LastRow(s) # m
  <2>1. ReplayBefore(LastRow(s), m) /\ ReplayBefore(m, LastRow(s))
    BY <1>1, <1>2
  <2>2. Placed(m) /\ Placed(LastRow(s))
    BY <1>1 DEF Named
  <2> QED
    BY <2>1, <2>2, ReplayAsymmetric
<1> QED
  BY <1>2

\* Without its last row a prefix is a prefix.
LEMMA PrefixButLast ==
    ASSUME NEW L, Named(L), NEW s, Prefix(L, s), s # {}
    PROVE  /\ LastRow(s) \in s /\ LastRow(s) \in L
           /\ Prefix(L, s \ {LastRow(s)})
           /\ \A k \in s \ {LastRow(s)} : ReplayBefore(k, LastRow(s))
           /\ s \ {LastRow(s)} = {k \in L : ReplayBefore(k, LastRow(s))}
<1>1. s \in SUBSET L
  BY DEF Prefix
<1>2. LastRow(s) \in s /\ \A k \in s \ {LastRow(s)} : ReplayBefore(k, LastRow(s))
  BY <1>1, LastOfRows
<1> DEFINE t == s \ {LastRow(s)}
<1>3. ASSUME NEW k \in t, NEW j \in L, ReplayBefore(j, k) PROVE j \in t
  <2>1. j \in s
    BY <1>3 DEF Prefix
  <2>2. j # LastRow(s)
    <3>1. ReplayBefore(k, LastRow(s)) /\ Placed(k) /\ Placed(LastRow(s))
      BY <1>1, <1>2 DEF Named
    <3> QED
      BY <1>3, <3>1, ReplayAsymmetric
  <2> QED
    BY <2>1, <2>2
<1>4. Prefix(L, t)
  BY <1>1, <1>3 DEF Prefix
<1>5. ASSUME NEW k \in L, ReplayBefore(k, LastRow(s)) PROVE k \in t
  <2>1. k \in s
    BY <1>2, <1>5 DEF Prefix
  <2>2. k # LastRow(s)
    BY <1>1, <1>2, <1>5, ReplayIrreflexive DEF Named
  <2> QED
    BY <2>1, <2>2
<1> QED
  BY <1>1, <1>2, <1>4, <1>5

\* The rows before m, and those through m.
Before(L, m) == {k \in L : ReplayBefore(k, m)}
\* A movement and those before it.
Through(L, m) == Before(L, m) \cup {m}

\* The movements before a movement, and up to it, are first movements.
LEMMA ThroughIsPrefix ==
    ASSUME NEW L, Named(L), NEW m \in L
    PROVE  /\ Prefix(L, Through(L, m)) /\ Prefix(L, Before(L, m))
           /\ LastRow(Through(L, m)) = m
           /\ Through(L, m) \ {m} = Before(L, m) /\ m \notin Before(L, m)
           /\ Through(L, m) = {k \in L : ~ReplayBefore(m, k)}
<1>1. \A k, j \in L : ReplayBefore(j, k) /\ ReplayBefore(k, m) => ReplayBefore(j, m)
  BY ReplayTransitive DEF Named
<1>2. Prefix(L, Through(L, m)) /\ Prefix(L, Before(L, m))
  BY <1>1 DEF Prefix, Through, Before
<1>3. LastRow(Through(L, m)) = m
  BY LastIsLast DEF Through, Before
<1>4. m \notin Before(L, m)
  BY ReplayIrreflexive DEF Before, Named
<1>5. \A k \in L : k \in Through(L, m) <=> ~ReplayBefore(m, k)
  <2> TAKE k \in L
  <2>1. Placed(m) /\ Placed(k)
    BY DEF Named
  <2>2. ~ReplayBefore(m, m)
    BY <2>1, ReplayIrreflexive
  <2>3. ReplayBefore(k, m) => ~ReplayBefore(m, k)
    BY <2>1, ReplayAsymmetric
  <2>4. k = m \/ ReplayBefore(k, m) \/ ReplayBefore(m, k)
    BY ReplayTotal
  <2> QED
    BY <2>2, <2>3, <2>4 DEF Through, Before
<1>6. Through(L, m) \in SUBSET L
  BY DEF Through, Before
<1> QED
  BY <1>2, <1>3, <1>4, <1>5, <1>6 DEF Through

\* The movements of one balance.
Held(s, p) == {k \in s : Position(k) = p}

\* The rows of its balance up to a movement.
LEMMA UpToIsHeld ==
    ASSUME NEW L, Named(L), NEW m \in L
    PROVE  UpTo(L, m) = Held(Through(L, m), Position(m))
BY ThroughIsPrefix DEF UpTo, Held

\* Where no outgoing movement overdraws, no balance is negative after any
\* of the first movements.
LEMMA PrefixHolds ==
    ASSUME NEW L, Counted(L), NEW s, Prefix(L, s), \A m \in s : ~Overdraws(L, m), NEW p
    PROVE  QuantOf(Held(s, p)) >= 0
<1> DEFINE A == Held(s, p)
           O == {m \in A : m.quant < 0}
<1>0. A = {k \in s : Position(k) = p} /\ s \in SUBSET L
  BY DEF Held, Prefix
<1> HIDE DEF A
<1>1. A \in SUBSET L /\ O \in SUBSET L
  BY <1>0
<1>2. Named(L) /\ \A m \in L : Placed(m) /\ m.quant \in Int
  BY DEF Counted, Named
<1>3. CASE O = {}
  <2>1. \A m \in A : m.quant >= 0
    BY <1>1, <1>2, <1>3
  <2>2. QuantOf(A) >= 0
    BY <1>1, <2>1, QuantNonNegative
  <2> QED
    BY <2>2 DEF A
<1>4. CASE O # {}
  <2> HIDE DEF O
  <2>1. PICK m \in O : \A k \in O \ {m} : ReplayBefore(k, m)
    BY <1>1, <1>2, <1>4, LastExists
  <2>2. m \in L /\ m \in s /\ Position(m) = p /\ m.quant < 0
    BY <1>0, <2>1 DEF O
  <2> DEFINE U == UpTo(L, m)
  <2>3. U \in SUBSET A
    <3>1. \A k \in Through(L, m) : k \in s
      BY <2>2 DEF Through, Before, Prefix
    <3> QED
      BY <1>0, <1>2, <2>2, <3>1, UpToIsHeld DEF Held
  <2>4. ASSUME NEW k \in A \ U PROVE k.quant >= 0
    <3>1. k \in L /\ Position(k) = p /\ ReplayBefore(m, k)
      BY <1>0, <2>2 DEF UpTo
    <3>2. ~ReplayBefore(k, m) /\ k # m
      BY <1>2, <2>2, <3>1, ReplayAsymmetric
    <3>3. k \notin O
      BY <2>1, <3>2
    <3>4. ~(k.quant < 0) /\ k.quant \in Int
      BY <1>2, <3>1, <3>3 DEF O
    <3> QED
      BY <3>4
  <2>5. QuantOf(U) >= 0
    <3>1. RunningQuant(L, m) = QuantOf(U)
      BY RunningQuantUpTo
    <3>2. ~(RunningQuant(L, m) < 0)
      BY <2>2 DEF Overdraws
    <3>3. U \in SUBSET L
      BY DEF UpTo
    <3> HIDE DEF U
    <3>4. QuantOf(U) \in Int
      BY <3>3, QuantOfPart
    <3> QED
      BY <3>1, <3>2, <3>4
  <2> HIDE DEF U
  <2>6. QuantOf(A) = QuantOf(U) + QuantOf(A \ U)
    BY <1>1, <2>3, QuantSplit
  <2>7. QuantOf(A \ U) >= 0
    BY <1>1, <2>4, QuantNonNegative
  <2>8. QuantOf(U) \in Int /\ QuantOf(A \ U) \in Int
    BY <1>1, <2>3, QuantOfPart
  <2>9. QuantOf(A) >= 0
    BY <2>5, <2>6, <2>7, <2>8
  <2> QED
    BY <2>9 DEF A
<1> QED
  BY <1>3, <1>4

\* The movements of a balance up to an instant.
StockRows(L, p, at) == {m \in L : Position(m) = p /\ m.at <= at}

\* When no outgoing movement overdraws, no balance is negative at any
\* instant.
LEMMA BalancesHold ==
    ASSUME NEW L, Counted(L), NeverNegative(L), NEW p, NEW at \in Nat
    PROVE  QuantOf(StockRows(L, p, at)) >= 0
<1> DEFINE s == {m \in L : m.at <= at}
<1>1. \A m \in L : Placed(m)
  BY DEF Counted, Named
<1>2. ASSUME NEW k \in s, NEW j \in L, ReplayBefore(j, k) PROVE j \in s
  <2>1. Placed(j) /\ Placed(k) /\ k.at <= at
    BY <1>1
  <2>2. j.at <= k.at
    BY <1>2, <2>1, ReplayByInstant
  <2> QED
    BY <2>1, <2>2 DEF Placed
<1>3. s \in SUBSET L /\ Prefix(L, s)
  BY <1>2 DEF Prefix
<1>4. Held(s, p) = StockRows(L, p, at)
  BY DEF Held, StockRows
<1>5. \A m \in s : ~Overdraws(L, m)
  BY <1>3 DEF NeverNegative
<1> HIDE DEF s
<1> QED
  BY <1>3, <1>4, <1>5, PrefixHolds

-----------------------------------------------------------------------------
(* Every row has a number and a name of its own.                           *)

\* The fields a row has.
FieldsOfRows == {"id", "at", "type", "rec", "item", "order", "site", "mat", "quant", "source"}

\* A record with these fields and no other.
IsRow(m) == m = [f \in FieldsOfRows |-> m[f]]

\* Rows with a number each and no name twice.
Distinct(L) ==
    /\ IsFiniteSet(L)
    /\ \A m \in L : IsRow(m) /\ m.id \in Nat
    /\ \A m, k \in L : MovementKey(m) = MovementKey(k) => m = k
    /\ \A m, k \in L : m.id = k.id => m = k

\* A row with another number is the same row otherwise.
LEMMA RenumberedRow ==
    ASSUME NEW m, IsRow(m), NEW id
    PROVE  LET r == [m EXCEPT !.id = id]
           IN  /\ IsRow(r) /\ r.id = id
               /\ r.at = m.at /\ r.type = m.type /\ r.rec = m.rec /\ r.item = m.item
               /\ r.order = m.order /\ r.site = m.site /\ r.mat = m.mat
               /\ r.quant = m.quant /\ r.source = m.source
               /\ MovementKey(r) = MovementKey(m)
BY DEF IsRow, FieldsOfRows, MovementKey

\* How many rows are numbered up to that of m.
PlaceIn(L, m) == Cardinality({k \in L : k.id <= m.id})

\* The new numbers are the numbers from one on, each given once.
LEMMA PlacesAreDistinct ==
    ASSUME NEW L, Distinct(L)
    PROVE  /\ \A m \in L : PlaceIn(L, m) \in 1..Cardinality(L)
           /\ \A m, k \in L : PlaceIn(L, m) = PlaceIn(L, k) => m = k
<1> DEFINE upTo(m) == {k \in L : k.id <= m.id}
<1>1. ASSUME NEW m \in L
      PROVE  upTo(m) \in SUBSET L /\ IsFiniteSet(upTo(m)) /\ Cardinality(upTo(m)) \in Nat
  BY FS_Subset, FS_CardinalityType DEF Distinct
<1>2. ASSUME NEW m \in L PROVE PlaceIn(L, m) \in 1..Cardinality(L)
  <2>1. Cardinality(upTo(m)) <= Cardinality(L) /\ Cardinality(L) \in Nat
    BY <1>1, FS_Subset, FS_CardinalityType DEF Distinct
  <2>2. m \in upTo(m)
    BY DEF Distinct
  <2>3. Cardinality(upTo(m)) # 0
    BY <1>1, <2>2, FS_EmptySet
  <2> QED
    BY <1>1, <2>1, <2>3 DEF PlaceIn
<1>3. ASSUME NEW m \in L, NEW k \in L, m.id <= k.id, PlaceIn(L, m) = PlaceIn(L, k)
      PROVE  m = k
  <2>1. upTo(m) \in SUBSET upTo(k)
    BY <1>3 DEF Distinct
  <2>2. upTo(m) = upTo(k)
    BY <1>1, <1>3, <2>1, FS_Subset DEF PlaceIn
  <2>3. k.id <= m.id
    BY <2>2 DEF Distinct
  <2>4. m.id = k.id
    BY <1>3, <2>3 DEF Distinct
  <2> QED
    BY <2>4 DEF Distinct
<1>4. ASSUME NEW m \in L, NEW k \in L, PlaceIn(L, m) = PlaceIn(L, k) PROVE m = k
  <2>1. m.id <= k.id \/ k.id <= m.id
    BY DEF Distinct
  <2> QED
    BY <1>3, <1>4, <2>1
<1> QED
  BY <1>2, <1>4

\* Renumbering keeps rows apart and numbers them without a gap.
LEMMA RenumberedDistinct ==
    ASSUME NEW L, Distinct(L)
    PROVE  /\ Distinct(Renumbered(L))
           /\ \A m \in Renumbered(L) : m.id \in 1..Cardinality(Renumbered(L))
<1> DEFINE again(m) == [m EXCEPT !.id = PlaceIn(L, m)]
           R == {again(m) : m \in L}
           f == [m \in L |-> again(m)]
<1>1. Renumbered(L) = R
  BY DEF Renumbered, PlaceIn
<1>2. ASSUME NEW m \in L
      PROVE  /\ IsRow(again(m)) /\ again(m).id = PlaceIn(L, m)
             /\ MovementKey(again(m)) = MovementKey(m)
  <2>1. IsRow(m)
    BY DEF Distinct
  <2> QED
    BY <2>1, RenumberedRow
<1>3. ASSUME NEW m \in L, NEW k \in L, again(m).id = again(k).id PROVE m = k
  BY <1>2, <1>3, PlacesAreDistinct
<1>4. ASSUME NEW m \in L, NEW k \in L, MovementKey(again(m)) = MovementKey(again(k)) PROVE m = k
  BY <1>2, <1>4 DEF Distinct
<1> HIDE DEF again
<1>5. f \in Surjection(L, R)
  BY DEF Surjection
<1>6. f \in Injection(L, R)
  BY <1>3 DEF Injection, IsInjective
<1>7. IsFiniteSet(R) /\ Cardinality(R) = Cardinality(L)
  <2>1. IsFiniteSet(L)
    BY DEF Distinct
  <2> HIDE DEF f, R
  <2> QED
    BY <1>5, <1>6, <2>1, FS_Surjection
<1>8. \A r \in R : IsRow(r) /\ r.id \in 1..Cardinality(L)
  BY <1>2, PlacesAreDistinct
<1>9. \A r, t \in R : r.id = t.id => r = t
  BY <1>3
<1>10. \A r, t \in R : MovementKey(r) = MovementKey(t) => r = t
  BY <1>4
<1>11. Cardinality(L) \in Nat
  BY FS_CardinalityType DEF Distinct
<1>12. Distinct(R)
  BY <1>7, <1>8, <1>9, <1>10, <1>11 DEF Distinct
<1> QED
  BY <1>1, <1>7, <1>8, <1>12

\* Some of the rows are as distinct as all of them.
LEMMA FewerDistinct == ASSUME NEW L, Distinct(L), NEW K \in SUBSET L PROVE Distinct(K)
BY FS_Subset DEF Distinct

\* Rows numbered and named apart from others may join them.
LEMMA JoinedDistinct ==
    ASSUME NEW L, Distinct(L), NEW K, Distinct(K),
           \A m \in L, k \in K : m.id # k.id /\ MovementKey(m) # MovementKey(k)
    PROVE  Distinct(L \cup K)
BY FS_Union DEF Distinct

\* Contents a document may be stored with.
Storable(d, body) ==
    d \in Documents /\ body \in Bodies[TypeOf(d)] /\ ValidBody(TypeOf(d), body)

\* The number of rows a document posts.
RowCount(d, body) == Cardinality(RowIndexes(d, body))

\* What may be read from storable contents.
LEMMA StorableBody ==
    ASSUME NEW d, NEW body, Storable(d, body)
    PROVE  /\ TypeOf(d) \in Types /\ IdOf(d) \in Nat
           /\ body.at \in Nat /\ DayOf[body.at] \in Nat /\ body.at \in Instants
           /\ Len(body.items) \in Nat /\ DOMAIN body.items = 1..Len(body.items)
           /\ \A i \in DOMAIN body.items :
                /\ body.items[i].id \in Nat /\ body.items[i].quant \in Int
                /\ body.items[i].amount \in Int /\ body.items[i].vat \in Int
                /\ body.items[i].quant > 0
           /\ \A i, j \in DOMAIN body.items : body.items[i].id = body.items[j].id => i = j
<1>1. TypeOf(d) \in Types /\ IdOf(d) \in Nat
  BY RegisterAssumption DEF Storable, TypeOf, IdOf
<1>2. body \in Bodies[TypeOf(d)]
  BY DEF Storable
<1> QED
  BY <1>1, <1>2, RegisterAssumption DEF Storable, ValidBody, Instants

\* A document posts one row for each item, a transfer two.
LEMMA RowsOfDocument ==
    ASSUME NEW d, NEW body, Storable(d, body)
    PROVE  /\ RowsPerItem(TypeOf(d)) \in {1, 2}
           /\ IsFiniteSet(RowIndexes(d, body))
           /\ RowCount(d, body) = Len(body.items) * RowsPerItem(TypeOf(d))
           /\ RowCount(d, body) \in Nat
<1> DEFINE n == Len(body.items)
           r == RowsPerItem(TypeOf(d))
<1>1. n \in Nat /\ DOMAIN body.items = 1..n
  BY StorableBody
<1>2. r \in {1, 2}
  BY DEF RowsPerItem
<1> HIDE DEF n, r
<1>3. /\ IsFiniteSet(1..n) /\ Cardinality(1..n) = n
      /\ IsFiniteSet(1..r) /\ Cardinality(1..r) = r
  <2>1. \A k \in Nat : IsFiniteSet(1..k) /\ Cardinality(1..k) = IF 1 > k THEN 0 ELSE k - 1 + 1
    BY FS_Interval
  <2>2. \A k \in Nat : (IF 1 > k THEN 0 ELSE k - 1 + 1) = k
    OBVIOUS
  <2>3. n \in Nat /\ r \in Nat
    BY <1>1, <1>2
  <2> QED
    BY <2>1, <2>2, <2>3
<1>4. RowIndexes(d, body) = (1..n) \X (1..r)
  BY <1>1 DEF RowIndexes, r
<1>5. IsFiniteSet(RowIndexes(d, body)) /\ RowCount(d, body) = n * r
  BY <1>3, <1>4, FS_Product DEF RowCount
<1>6. n * r \in Nat
  BY <1>1, <1>2
<1> QED
  BY <1>2, <1>5, <1>6 DEF n, r

\* What a row says.
LEMMA RowSays ==
    ASSUME NEW d, NEW body, NEW line, NEW order, NEW noVat, NEW id
    PROVE  LET m == Row(d, body, line, order, noVat, id)
           IN  /\ IsRow(m) /\ m.id = id /\ m.at = body.at
               /\ m.type = TypeOf(d) /\ m.rec = IdOf(d)
               /\ m.item = body.items[line].id /\ m.order = order
               /\ m.mat = body.items[line].mat
               /\ m.quant = IF \/ TypeOf(d) = "Consumption"
                               \/ TypeOf(d) = "Transfer" /\ order = 1
                            THEN -body.items[line].quant ELSE body.items[line].quant
               /\ m.source = SourceAmount(TypeOf(d), body.items[line], noVat)
               /\ m.site = RowSite(TypeOf(d), body, body.items[line], order)
BY DEF Row, FieldsOfRows, IsRow

\* The number of the row at an index.
RowNumber(d, x, base) == base + RowsPerItem(TypeOf(d)) * (x[1] - 1) + x[2]

\* The rows of a document get consecutive numbers, each a number of its
\* own.
LEMMA RowNumbers ==
    ASSUME NEW d, NEW body, Storable(d, body), NEW base \in Nat
    PROVE  /\ \A x \in RowIndexes(d, body) :
                RowNumber(d, x, base) \in (base + 1)..(base + RowCount(d, body))
           /\ \A x, y \in RowIndexes(d, body) :
                RowNumber(d, x, base) = RowNumber(d, y, base) => x = y
<1> DEFINE n == Len(body.items)
           r == RowsPerItem(TypeOf(d))
<1>1. n \in Nat /\ DOMAIN body.items = 1..n /\ r \in {1, 2} /\ RowCount(d, body) = n * r
  BY StorableBody, RowsOfDocument
<1> HIDE DEF n, r
<1>2. RowIndexes(d, body) = (1..n) \X (1..r)
  BY <1>1 DEF RowIndexes, r
<1>3. \A i \in 1..n, j \in 1..r : base + r * (i - 1) + j \in (base + 1)..(base + n * r)
  <2>1. CASE r = 1
    BY <1>1, <2>1
  <2>2. CASE r = 2
    BY <1>1, <2>2
  <2> QED
    BY <1>1, <2>1, <2>2
<1>4. \A i \in 1..n, j \in 1..r, i2 \in 1..n, j2 \in 1..r :
        base + r * (i - 1) + j = base + r * (i2 - 1) + j2 => i = i2 /\ j = j2
  <2>1. CASE r = 1
    BY <1>1, <2>1
  <2>2. CASE r = 2
    BY <1>1, <2>2
  <2> QED
    BY <1>1, <2>1, <2>2
<1>5. ASSUME NEW x \in RowIndexes(d, body)
      PROVE  /\ x[1] \in 1..n /\ x[2] \in 1..r /\ x = <<x[1], x[2]>>
             /\ RowNumber(d, x, base) = base + r * (x[1] - 1) + x[2]
  BY <1>2 DEF RowNumber, r
<1>6. \A x \in RowIndexes(d, body) :
        RowNumber(d, x, base) \in (base + 1)..(base + RowCount(d, body))
  BY <1>1, <1>3, <1>5
<1>7. ASSUME NEW x \in RowIndexes(d, body), NEW y \in RowIndexes(d, body),
             RowNumber(d, x, base) = RowNumber(d, y, base)
      PROVE  x = y
  <2>1. x[1] = y[1] /\ x[2] = y[2]
    BY <1>4, <1>5, <1>7
  <2> QED
    BY <1>5, <2>1
<1> QED
  BY <1>6, <1>7

\* The rows of a document are distinct and numbered next to each other.
LEMMA PostedDistinct ==
    ASSUME NEW d, NEW body, Storable(d, body), NEW noVat, NEW base \in Nat
    PROVE  /\ Distinct(PostedRows(d, body, noVat, base))
           /\ \A m \in PostedRows(d, body, noVat, base) :
                /\ m.id \in (base + 1)..(base + RowCount(d, body))
                /\ m.type = TypeOf(d) /\ m.rec = IdOf(d)
<1> DEFINE I == RowIndexes(d, body)
           at(x) == Row(d, body, x[1], x[2], noVat, RowNumber(d, x, base))
           P == {at(x) : x \in I}
           f == [x \in I |-> at(x)]
<1>1. PostedRows(d, body, noVat, base) = P
  BY DEF PostedRows, RowNumber
<1>2. ASSUME NEW x \in I
      PROVE  /\ IsRow(at(x)) /\ at(x).id = RowNumber(d, x, base)
             /\ at(x).type = TypeOf(d) /\ at(x).rec = IdOf(d)
             /\ at(x).item = body.items[x[1]].id /\ at(x).order = x[2]
  BY RowSays
<1>3. ASSUME NEW x \in I, NEW y \in I, at(x).id = at(y).id PROVE x = y
  BY <1>2, <1>3, RowNumbers
<1>4. ASSUME NEW x \in I, NEW y \in I, MovementKey(at(x)) = MovementKey(at(y)) PROVE x = y
  <2>1. body.items[x[1]].id = body.items[y[1]].id /\ x[2] = y[2]
    BY <1>2, <1>4 DEF MovementKey
  <2>2. /\ x[1] \in DOMAIN body.items /\ y[1] \in DOMAIN body.items
        /\ x = <<x[1], x[2]>> /\ y = <<y[1], y[2]>>
    BY DEF RowIndexes
  <2>3. x[1] = y[1]
    BY <2>1, <2>2, StorableBody
  <2> QED
    BY <2>1, <2>2, <2>3
<1>5. \A x \in I : at(x).id \in (base + 1)..(base + RowCount(d, body))
  BY <1>2, RowNumbers
<1> HIDE DEF at
<1>6. f \in Surjection(I, P)
  BY DEF Surjection
<1>7. IsFiniteSet(P)
  <2>1. IsFiniteSet(I)
    BY RowsOfDocument
  <2> HIDE DEF f, P, I
  <2> QED
    BY <1>6, <2>1, FS_Surjection
<1>8. RowCount(d, body) \in Nat
  BY RowsOfDocument
<1>9. \A m \in P : IsRow(m) /\ m.type = TypeOf(d) /\ m.rec = IdOf(d)
  BY <1>2
<1>10. \A m \in P : m.id \in (base + 1)..(base + RowCount(d, body))
  BY <1>5
<1>11. \A m \in P : m.id \in Nat
  BY <1>8, <1>10
<1>12. \A m, k \in P : MovementKey(m) = MovementKey(k) => m = k
  BY <1>4
<1>13. \A m, k \in P : m.id = k.id => m = k
  BY <1>3
<1>14. Distinct(P)
  BY <1>7, <1>9, <1>11, <1>12, <1>13 DEF Distinct
<1> QED
  BY <1>1, <1>9, <1>10, <1>14

\* Removing the rows of a document leaves distinct rows of the others,
\* numbered without a gap.
LEMMA RemovedDistinct ==
    ASSUME NEW L, Distinct(L), NEW d
    PROVE  /\ Distinct(RemoveActs(L, d))
           /\ \A m \in RemoveActs(L, d) :
                /\ m.id \in 1..Cardinality(RemoveActs(L, d))
                /\ ~(m.type = TypeOf(d) /\ m.rec = IdOf(d))
           /\ Cardinality(RemoveActs(L, d)) \in Nat
<1> DEFINE K == {m \in L : ~(m.type = TypeOf(d) /\ m.rec = IdOf(d))}
<1>1. Distinct(K)
  BY FewerDistinct
<1>2. \A m \in K : ~(m.type = TypeOf(d) /\ m.rec = IdOf(d))
  OBVIOUS
<1>3. RemoveActs(L, d) = Renumbered(K)
  BY DEF RemoveActs
<1> HIDE DEF K
<1>4. /\ Distinct(Renumbered(K))
      /\ \A m \in Renumbered(K) : m.id \in 1..Cardinality(Renumbered(K))
  BY <1>1, RenumberedDistinct
<1>5. ASSUME NEW r \in Renumbered(K) PROVE ~(r.type = TypeOf(d) /\ r.rec = IdOf(d))
  <2>1. PICK m \in K : r = [m EXCEPT !.id = PlaceIn(K, m)]
    BY DEF Renumbered, PlaceIn
  <2>2. IsRow(m)
    BY <1>1 DEF Distinct
  <2>3. r.type = m.type /\ r.rec = m.rec
    BY <2>1, <2>2, RenumberedRow
  <2> QED
    BY <1>2, <2>3
<1>6. Cardinality(Renumbered(K)) \in Nat
  BY <1>4, FS_CardinalityType DEF Distinct
<1> QED
  BY <1>3, <1>4, <1>5, <1>6

\* Rewriting the rows of a document leaves distinct rows.
LEMMA RewrittenDistinct ==
    ASSUME NEW L, Distinct(L), NEW d, NEW body, Storable(d, body), NEW noVat
    PROVE  Distinct(RewriteActs(L, d, body, noVat))
<1> DEFINE kept == RemoveActs(L, d)
           posted == PostedRows(d, body, noVat, Cardinality(kept))
<1>1. /\ Distinct(kept) /\ Cardinality(kept) \in Nat
      /\ \A m \in kept : m.id \in 1..Cardinality(kept) /\ ~(m.type = TypeOf(d) /\ m.rec = IdOf(d))
  BY RemovedDistinct
<1>2. RewriteActs(L, d, body, noVat) = kept \cup posted
  BY DEF RewriteActs
<1> HIDE DEF kept
<1>3. /\ Distinct(posted)
      /\ \A m \in posted : /\ m.id \in (Cardinality(kept) + 1)..(Cardinality(kept) + RowCount(d, body))
                           /\ m.type = TypeOf(d) /\ m.rec = IdOf(d)
  BY <1>1, PostedDistinct
<1> HIDE DEF posted
<1>4. ASSUME NEW m \in kept, NEW k \in posted
      PROVE  m.id # k.id /\ MovementKey(m) # MovementKey(k)
  BY <1>1, <1>3, RowsOfDocument DEF MovementKey
<1> QED
  BY <1>1, <1>2, <1>3, <1>4, JoinedDistinct

-----------------------------------------------------------------------------
(* The rebuilt register: the rows of a document are numbered after those   *)
(* of the documents posted before it.                                      *)

\* Receipts are rebuilt first, then transfers, then consumptions.
RebuildRank(d) ==
    CASE TypeOf(d) = "Receipt"     -> 1
      [] TypeOf(d) = "Consumption" -> 2
      [] TypeOf(d) = "Transfer"    -> 3

\* The order of three numbers, one after another.
LEMMA LexLessOfThree ==
    ASSUME NEW a1, NEW a2, NEW a3, NEW b1, NEW b2, NEW b3
    PROVE  LexLess(<<a1, a2, a3>>, <<b1, b2, b3>>) <=>
             \/ a1 < b1
             \/ a1 = b1 /\ a2 < b2
             \/ a1 = b1 /\ a2 = b2 /\ a3 < b3
<1> DEFINE a == <<a1, a2, a3>>
           b == <<b1, b2, b3>>
<1>1. DOMAIN a = 1..3
  OBVIOUS
<1>2. /\ a[1] = a1 /\ a[2] = a2 /\ a[3] = a3
      /\ b[1] = b1 /\ b[2] = b2 /\ b[3] = b3
  OBVIOUS
<1> HIDE DEF a, b
<1>3. LexLess(a, b) <=> \E i \in 1..3 : a[i] < b[i] /\ \A j \in 1..(i - 1) : a[j] = b[j]
  BY <1>1 DEF LexLess
<1>4. ASSUME NEW i \in 1..3 PROVE i = 1 \/ i = 2 \/ i = 3
  OBVIOUS
<1>5. /\ (\A j \in 1..0 : a[j] = b[j])
      /\ (\A j \in 1..1 : a[j] = b[j]) <=> a[1] = b[1]
      /\ (\A j \in 1..2 : a[j] = b[j]) <=> a[1] = b[1] /\ a[2] = b[2]
  OBVIOUS
<1>6. LexLess(a, b) <=>
        \/ a[1] < b[1] /\ \A j \in 1..0 : a[j] = b[j]
        \/ a[2] < b[2] /\ \A j \in 1..1 : a[j] = b[j]
        \/ a[3] < b[3] /\ \A j \in 1..2 : a[j] = b[j]
  BY <1>3, <1>4
<1>7. LexLess(a, b) <=>
        \/ a1 < b1
        \/ a1 = b1 /\ a2 < b2
        \/ a1 = b1 /\ a2 = b2 /\ a3 < b3
  BY <1>2, <1>5, <1>6
<1> QED
  BY <1>7 DEF a, b

\* The order in which documents are rebuilt, by its fields.
LEMMA RebuildBeforeFields ==
    ASSUME NEW d, NEW e
    PROVE  RebuildBefore(d, e) <=>
             \/ RebuildRank(d) < RebuildRank(e)
             \/ RebuildRank(d) = RebuildRank(e) /\ docs[d].at < docs[e].at
             \/ RebuildRank(d) = RebuildRank(e) /\ docs[d].at = docs[e].at /\ IdOf(d) < IdOf(e)
<1>1. RebuildBefore(d, e) <=>
        LexLess(<<RebuildRank(d), docs[d].at, IdOf(d)>>, <<RebuildRank(e), docs[e].at, IdOf(e)>>)
  BY DEF RebuildBefore, RebuildRank
<1> QED
  BY <1>1, LexLessOfThree

\* Every stored document has contents it may be stored with, and there are
\* finitely many of them.
DocumentsStorable ==
    IsFiniteSet(Present) /\ \A d \in Present : Storable(d, docs[d])

\* It is an order of the stored documents.
LEMMA RebuildOrder ==
    ASSUME DocumentsStorable
    PROVE  /\ \A d \in Present : ~RebuildBefore(d, d)
           /\ \A d, e, f \in Present : RebuildBefore(d, e) /\ RebuildBefore(e, f) => RebuildBefore(d, f)
           /\ \A d, e \in Present : d = e \/ RebuildBefore(d, e) \/ RebuildBefore(e, d)
<1>1. ASSUME NEW d \in Present
      PROVE  /\ RebuildRank(d) \in Nat /\ docs[d].at \in Nat /\ IdOf(d) \in Nat
             /\ TypeOf(d) \in Types /\ d = <<TypeOf(d), IdOf(d)>>
  <2>1. Storable(d, docs[d]) /\ d \in Documents
    BY DEF DocumentsStorable, Present
  <2>2. TypeOf(d) \in Types /\ IdOf(d) \in Nat /\ docs[d].at \in Nat
    BY <2>1, StorableBody
  <2>3. d = <<TypeOf(d), IdOf(d)>>
    BY <2>1, TypesOfDocuments
  <2>4. RebuildRank(d) \in Nat
    BY <2>2 DEF RebuildRank, Types
  <2> QED
    BY <2>2, <2>3, <2>4
<1>2. ASSUME NEW d \in Present PROVE ~RebuildBefore(d, d)
  BY <1>1, RebuildBeforeFields
<1>3. ASSUME NEW d \in Present, NEW e \in Present, NEW f \in Present,
             RebuildBefore(d, e), RebuildBefore(e, f)
      PROVE  RebuildBefore(d, f)
  BY <1>1, <1>3, RebuildBeforeFields
<1>4. ASSUME NEW d \in Present, NEW e \in Present, ~RebuildBefore(d, e), ~RebuildBefore(e, d)
      PROVE  d = e
  <2>1. RebuildRank(d) = RebuildRank(e) /\ IdOf(d) = IdOf(e)
    BY <1>1, <1>4, RebuildBeforeFields
  <2>2. TypeOf(d) = TypeOf(e)
    BY <1>1, <2>1 DEF RebuildRank, Types
  <2> QED
    BY <1>1, <2>1, <2>2
<1> QED
  BY <1>2, <1>3, <1>4

\* The documents rebuilt before d, and how many rows they post.
RebuiltBefore(d) == {e \in Present : RebuildBefore(e, d)}
\* The number of rows a document posts.
RowCounts == [e \in Present |-> RowCount(e, docs[e])]
\* The number of rows posted before those of a document.
RowsBefore(d) ==
    MapThenSumSet(LAMBDA e : Cardinality(RowIndexes(e, docs[e])),
                  {e \in Present : RebuildBefore(e, d)})

\* The number of rows that some documents post.
RowsPosted(S) == MapThenSumSet(LAMBDA e : Cardinality(RowIndexes(e, docs[e])), S)

\* F holds the number of rows of every part of S.
CountSums(F, S) ==
    F = [s \in SUBSET S |-> IF s = {} THEN 0
                            ELSE Cardinality(RowIndexes(First(s), docs[First(s)])) + F[s \ {First(s)}]]

\* It is the value of a chosen recursive function.
LEMMA RowsOfChosen == ASSUME NEW S PROVE RowsPosted(S) = (CHOOSE F : CountSums(F, S))[S]
BY DEF RowsPosted, MapThenSumSet, MapThenFoldSet, CountSums, First

\* Both recursions define the same functions.
LEMMA CountSumsAreSums ==
    ASSUME NEW S \in SUBSET Present, NEW F
    PROVE  CountSums(F, S) <=> Sums(F, RowCounts, S)
<1>1. \A s \in SUBSET S : s # {} =>
        RowCounts[First(s)] = Cardinality(RowIndexes(First(s), docs[First(s)]))
  BY FirstIsMember DEF RowCounts, RowCount
<1>2. [s \in SUBSET S |-> IF s = {} THEN 0
                          ELSE Cardinality(RowIndexes(First(s), docs[First(s)])) + F[s \ {First(s)}]]
        = [s \in SUBSET S |-> IF s = {} THEN 0 ELSE RowCounts[First(s)] + F[s \ {First(s)}]]
  BY <1>1
<1> QED
  BY <1>2 DEF CountSums, Sums

\* It is the sum of the row counts.
LEMMA RowsOfSum ==
    ASSUME NEW S \in SUBSET Present, IsFiniteSet(S)
    PROVE  RowsPosted(S) = Sum(RowCounts, S)
<1>1. \E F : CountSums(F, S)
  BY SumExists, CountSumsAreSums
<1>2. PICK F : CountSums(F, S) /\ RowsPosted(S) = F[S]
  BY <1>1, RowsOfChosen
<1>3. Sums(F, RowCounts, S)
  BY <1>2, CountSumsAreSums
<1>4. PICK G : Sums(G, RowCounts, S) /\ Sum(RowCounts, S) = G[S]
  BY SumChosen
<1>5. S \in SUBSET (S \cap S)
  OBVIOUS
<1> QED
  BY <1>2, <1>3, <1>4, <1>5, SumsAgree

\* The rows of a document are numbered before those of a later one.
LEMMA RowsBeforeGrow ==
    ASSUME DocumentsStorable
    PROVE  /\ \A d \in Present : RowsBefore(d) \in Nat
           /\ \A d, e \in Present : RebuildBefore(d, e) =>
                RowsBefore(d) + RowCount(d, docs[d]) <= RowsBefore(e)
<1>1. \A d \in Present : RowCounts[d] \in Nat /\ RowCounts[d] = RowCount(d, docs[d])
  BY RowsOfDocument DEF DocumentsStorable, RowCounts
<1>2. ASSUME NEW S \in SUBSET Present
      PROVE  /\ IsFiniteSet(S) /\ RowsPosted(S) = Sum(RowCounts, S)
             /\ Sum(RowCounts, S) \in Int /\ Sum(RowCounts, S) >= 0
  <2>1. IsFiniteSet(S)
    BY FS_Subset DEF DocumentsStorable
  <2>2. \A x \in S : RowCounts[x] \in Int /\ RowCounts[x] >= 0
    BY <1>1
  <2> QED
    BY <2>1, <2>2, RowsOfSum, SumType, SumNonNegative
<1>3. ASSUME NEW d \in Present
      PROVE  RowsBefore(d) = Sum(RowCounts, RebuiltBefore(d)) /\ RebuiltBefore(d) \in SUBSET Present
  <2>1. RebuiltBefore(d) \in SUBSET Present
    BY DEF RebuiltBefore
  <2>2. RowsBefore(d) = RowsPosted(RebuiltBefore(d))
    BY DEF RowsBefore, RowsPosted, RebuiltBefore
  <2> QED
    BY <1>2, <2>1, <2>2
<1>4. ASSUME NEW d \in Present PROVE RowsBefore(d) \in Nat
  BY <1>2, <1>3
<1>5. ASSUME NEW d \in Present, NEW e \in Present, RebuildBefore(d, e)
      PROVE  RowsBefore(d) + RowCount(d, docs[d]) <= RowsBefore(e)
  <2> DEFINE B == RebuiltBefore(d)
             C == B \cup {d}
             E == RebuiltBefore(e)
  <2>1. B \in SUBSET Present /\ C \in SUBSET Present /\ E \in SUBSET Present
    BY <1>3
  <2>2. d \notin B
    BY RebuildOrder DEF RebuiltBefore
  <2>3. C \in SUBSET E
    BY <1>5, RebuildOrder DEF RebuiltBefore
  <2> HIDE DEF B, E
  <2>4. \A x \in E : RowCounts[x] \in Int
    BY <1>1, <2>1
  <2>5. Sum(RowCounts, E) = Sum(RowCounts, C) + Sum(RowCounts, E \ C)
    BY <1>2, <2>1, <2>3, <2>4, SumSplit
  <2>6. Sum(RowCounts, C) = RowCounts[d] + Sum(RowCounts, C \ {d})
    BY <1>1, <1>2, <2>1, SumRemove
  <2>7. C \ {d} = B
    BY <2>2
  <2>8. Sum(RowCounts, E \ C) \in Int /\ Sum(RowCounts, E \ C) >= 0
    BY <1>2, <2>1
  <2>9. Sum(RowCounts, B) \in Int /\ RowCounts[d] \in Int
    BY <1>1, <1>2, <2>1
  <2> HIDE DEF C
  <2>10. Sum(RowCounts, B) + RowCounts[d] <= Sum(RowCounts, E)
    <3> DEFINE b == Sum(RowCounts, B)
               c == RowCounts[d]
               x == Sum(RowCounts, E \ C)
    <3>1. Sum(RowCounts, E) = (c + b) + x
      BY <2>5, <2>6, <2>7
    <3>2. b \in Int /\ c \in Int /\ x \in Int /\ x >= 0
      BY <2>8, <2>9
    <3> HIDE DEF b, c, x
    <3>3. b + c <= (c + b) + x
      BY <3>2
    <3> QED
      BY <3>1, <3>3 DEF b, c
  <2> QED
    BY <1>1, <1>3, <2>10 DEF B, E
<1> QED
  BY <1>4, <1>5

\* The rows of the rebuilt register are distinct.
LEMMA RebuiltDistinct ==
    ASSUME DocumentsStorable, NEW noVat
    PROVE  Distinct(RebuiltLedger(noVat))
<1> DEFINE posted(d) == PostedRows(d, docs[d], noVat, RowsBefore(d))
           families == {posted(d) : d \in Present}
           f == [d \in Present |-> posted(d)]
<1>1. RebuiltLedger(noVat) = UNION families
  BY DEF RebuiltLedger, RowsBefore
<1>2. ASSUME NEW d \in Present
      PROVE  /\ Distinct(posted(d)) /\ RowsBefore(d) \in Nat /\ RowCount(d, docs[d]) \in Nat
             /\ \A m \in posted(d) :
                  /\ m.id \in (RowsBefore(d) + 1)..(RowsBefore(d) + RowCount(d, docs[d]))
                  /\ m.type = TypeOf(d) /\ m.rec = IdOf(d)
  <2>1. Storable(d, docs[d]) /\ RowsBefore(d) \in Nat
    BY RowsBeforeGrow DEF DocumentsStorable
  <2> QED
    BY <2>1, PostedDistinct, RowsOfDocument
<1> HIDE DEF posted
<1>3. IsFiniteSet(families)
  <2>1. f \in Surjection(Present, families)
    BY DEF Surjection
  <2> HIDE DEF f, families
  <2> QED
    BY <2>1, FS_Surjection DEF DocumentsStorable
<1>4. \A T \in families : IsFiniteSet(T)
  BY <1>2 DEF Distinct
<1>5. IsFiniteSet(UNION families)
  BY <1>3, <1>4, FS_UNION
<1>6. \A m \in UNION families : IsRow(m) /\ m.id \in Nat
  BY <1>2 DEF Distinct
<1>7. ASSUME NEW d \in Present, NEW e \in Present, NEW m \in posted(d), NEW k \in posted(e), RebuildBefore(d, e)
      PROVE  m.id < k.id
  <2>1. RowsBefore(d) + RowCount(d, docs[d]) <= RowsBefore(e)
    BY <1>7, RowsBeforeGrow
  <2>2. m.id <= RowsBefore(d) + RowCount(d, docs[d]) /\ RowsBefore(e) + 1 <= k.id /\ m.id \in Int /\ k.id \in Int
    BY <1>2
  <2>3. RowsBefore(d) \in Nat /\ RowsBefore(e) \in Nat /\ RowCount(d, docs[d]) \in Nat
    BY <1>2
  <2> QED
    BY <2>1, <2>2, <2>3
<1>8. ASSUME NEW m \in UNION families, NEW k \in UNION families, m.id = k.id PROVE m = k
  <2>1. PICK d \in Present : m \in posted(d)
    OBVIOUS
  <2>2. PICK e \in Present : k \in posted(e)
    OBVIOUS
  <2>3. m.id \in Int /\ k.id \in Int
    BY <1>6
  <2>4. ~RebuildBefore(d, e) /\ ~RebuildBefore(e, d)
    BY <1>7, <1>8, <2>1, <2>2, <2>3
  <2>5. d = e
    BY <2>4, RebuildOrder
  <2> QED
    BY <1>2, <1>8, <2>1, <2>2, <2>5 DEF Distinct
<1>9. ASSUME NEW m \in UNION families, NEW k \in UNION families, MovementKey(m) = MovementKey(k) PROVE m = k
  <2>1. PICK d \in Present : m \in posted(d)
    OBVIOUS
  <2>2. PICK e \in Present : k \in posted(e)
    OBVIOUS
  <2>3. TypeOf(d) = TypeOf(e) /\ IdOf(d) = IdOf(e)
    BY <1>2, <1>9, <2>1, <2>2 DEF MovementKey
  <2>4. d = e
    BY <2>3, TypesOfDocuments DEF Present
  <2> QED
    BY <1>2, <1>9, <2>1, <2>2, <2>4 DEF Distinct
<1> HIDE DEF families
<1> QED
  BY <1>1, <1>5, <1>6, <1>8, <1>9 DEF Distinct

-----------------------------------------------------------------------------
(* The rows of the register have numbers and names of their own.           *)

\* The stored documents could be stored, and their rows are distinct.
RowsStand == DocumentsStorable /\ Distinct(ledger)

\* No step gives a row the number or the name of another.
LEMMA RowsStandStep ==
    ASSUME TypeOK, RowsStand, [Next]_vars
    PROVE  RowsStand'
<1>1. IsFiniteSet(Present) /\ \A e \in Present : Storable(e, docs[e])
  BY DEF RowsStand, DocumentsStorable
<1>2. Distinct(ledger)
  BY DEF RowsStand
<1>3. ASSUME NEW d \in Documents, NEW body \in Bodies[TypeOf(d)],
             docs' = [docs EXCEPT ![d] = body], ValidBody(TypeOf(d), body),
             ledger' = RewriteActs(ledger, d, body, excludeVat)
      PROVE  RowsStand'
  <2>1. Present' = Present \cup {d} /\ docs'[d] = body /\ \A e \in Present \ {d} : docs'[e] = docs[e]
    BY <1>3, TypesOfDocuments, RegisterAssumption DEF Present, TypeOK
  <2>2. Storable(d, body)
    BY <1>3 DEF Storable
  <2>3. IsFiniteSet(Present')
    BY <1>1, <2>1, FS_AddElement
  <2>4. \A e \in Present' : Storable(e, docs'[e])
    BY <1>1, <2>1, <2>2
  <2>5. Distinct(ledger')
    BY <1>2, <1>3, <2>2, RewrittenDistinct
  <2> QED
    BY <2>3, <2>4, <2>5 DEF RowsStand, DocumentsStorable, Storable
<1>4. ASSUME UNCHANGED <<docs, ledger>> PROVE RowsStand'
  BY <1>4, <1>1, <1>2 DEF RowsStand, DocumentsStorable, Present, Storable
<1>5. ASSUME NEW d \in Documents, NEW body \in Bodies[TypeOf(d)], Create(d, body) PROVE RowsStand'
  BY <1>3, <1>5 DEF Create
<1>6. ASSUME NEW d \in Documents, NEW body \in Bodies[TypeOf(d)], Update(d, body) PROVE RowsStand'
  BY <1>3, <1>6 DEF Update
<1>7. ASSUME NEW d \in Documents, Delete(d) PROVE RowsStand'
  <2>1. Present' = Present \ {d} /\ \A e \in Present \ {d} : docs'[e] = docs[e]
    BY <1>7 DEF Delete, Present, TypeOK
  <2>2. IsFiniteSet(Present')
    BY <1>1, <2>1, FS_RemoveElement
  <2>3. \A e \in Present' : Storable(e, docs'[e])
    BY <1>1, <2>1
  <2>4. ledger' = RemoveActs(ledger, d)
    BY <1>7 DEF Delete
  <2>5. Distinct(ledger')
    BY <1>2, <2>4, RemovedDistinct
  <2> QED
    BY <2>2, <2>3, <2>5 DEF RowsStand, DocumentsStorable, Storable
<1>8. ASSUME NEW noVat \in VatFlags, NEW allow \in BOOLEAN, SetVatBasis(noVat, allow) PROVE RowsStand'
  <2>1. docs' = docs /\ ledger' = RebuiltLedger(noVat)
    BY <1>8 DEF SetVatBasis
  <2>2. Present' = Present /\ \A e \in Present : docs'[e] = docs[e]
    BY <2>1 DEF Present
  <2>3. Distinct(ledger')
    BY <2>1, RebuiltDistinct DEF RowsStand
  <2> QED
    BY <1>1, <2>1, <2>2, <2>3 DEF RowsStand, DocumentsStorable, Storable
<1> QED
  BY <1>4, <1>5, <1>6, <1>7, <1>8
     DEF Next, vars, SetNegativePolicy, Recalculate, Close, Reopen

\* Every row of the register has a number and a name of its own.
LEMMA RowsStandAlways == Spec => []RowsStand
<1>1. Init => RowsStand
  <2> SUFFICES ASSUME Init PROVE RowsStand
    OBVIOUS
  <2>1. Present = {} /\ ledger = {}
    BY DEF Init, Present
  <2> QED
    BY <2>1, FS_EmptySet DEF RowsStand, DocumentsStorable, Distinct
<1> QED
  BY <1>1, TypeInvariant, RowsStandStep, PTL DEF Spec

-----------------------------------------------------------------------------
(* What a row of the register is, read from its document.                  *)

\* A row is one its document posts for a line and a movement order.
PostedBy(m, d, body, x, noVat) ==
    /\ Storable(d, body) /\ x \in RowIndexes(d, body)
    /\ m = Row(d, body, x[1], x[2], noVat, m.id)

\* Every row was posted for a line of a stored document.
LEMMA RowsHaveDocuments ==
    ASSUME LedgerMatchesDocuments, RowsStand, NEW m \in ledger
    PROVE  \E d \in Present : \E x \in RowIndexes(d, docs[d]) :
             PostedBy(m, d, docs[d], x, excludeVat)
<1>1. PICK d \in Present : Content(m) \in DocumentRows(d, docs[d], excludeVat)
  BY LedgerMatchesPosted DEF Contents, Posted
<1>2. PICK x \in RowIndexes(d, docs[d]) : Content(m) = Row(d, docs[d], x[1], x[2], excludeVat, 0)
  BY <1>1 DEF DocumentRows
<1>3. IsRow(m)
  BY DEF RowsStand, Distinct
<1>0. DOMAIN m = FieldsOfRows
  BY <1>3 DEF IsRow
<1> DEFINE r == Row(d, docs[d], x[1], x[2], excludeVat, m.id)
<1>4. r = [f \in FieldsOfRows |-> r[f]]
  BY DEF Row, FieldsOfRows
<1>5. m = [f \in FieldsOfRows |-> m[f]]
  BY <1>3 DEF IsRow
<1>6. \A f \in FieldsOfRows : f # "id" => m[f] = Content(m)[f]
  BY <1>0 DEF Content
<1>7. \A f \in FieldsOfRows : f # "id" => Content(m)[f] = r[f]
  BY <1>2 DEF Row, FieldsOfRows
<1>8. r["id"] = m["id"]
  BY RowSays
<1> HIDE DEF r
<1>9. \A f \in FieldsOfRows : m[f] = r[f]
  BY <1>6, <1>7, <1>8
<1>10. m = r
  BY <1>4, <1>5, <1>9
<1>11. Storable(d, docs[d])
  BY DEF RowsStand, DocumentsStorable
<1> QED
  BY <1>2, <1>10, <1>11 DEF PostedBy, r

\* What may be read from a row.
LEMMA PostedRowSays ==
    ASSUME NEW m, NEW d, NEW body, NEW x, NEW noVat, PostedBy(m, d, body, x, noVat), m.id \in Nat
    PROVE  /\ Placed(m) /\ m.quant \in Int /\ m.quant # 0 /\ m.at \in Instants
           /\ m.quant < 0 <=> m.type = "Consumption" \/ (m.type = "Transfer" /\ m.order = 1)
           /\ m.type = "Transfer" => m.order \in {1, 2}
           /\ m.type # "Transfer" => m.order = 1
           /\ m.type = "Receipt" => m.source \in Int /\ m.source >= 0
           /\ m.type # "Receipt" => m.source = Null
<1> DEFINE item == body.items[x[1]]
           r == Row(d, body, x[1], x[2], noVat, m.id)
<1>1. Storable(d, body) /\ x \in RowIndexes(d, body) /\ m = r
  BY DEF PostedBy
<1>2. /\ r.at = body.at /\ r.type = TypeOf(d) /\ r.rec = IdOf(d)
      /\ r.item = item.id /\ r.order = x[2]
      /\ r.quant = IF TypeOf(d) = "Consumption" \/ (TypeOf(d) = "Transfer" /\ x[2] = 1)
                   THEN -item.quant ELSE item.quant
      /\ r.source = SourceAmount(TypeOf(d), item, noVat)
  BY DEF Row
<1> HIDE DEF r
<1>3. x[1] \in DOMAIN body.items /\ x[2] \in 1..RowsPerItem(TypeOf(d))
  BY <1>1 DEF RowIndexes
<1>4. /\ TypeOf(d) \in Types /\ IdOf(d) \in Nat /\ body.at \in Nat /\ body.at \in Instants
      /\ item.id \in Nat /\ item.quant \in Int /\ item.quant > 0
      /\ item.amount \in Int /\ item.vat \in Int
  BY <1>1, <1>3, StorableBody
<1>5. TypeOf(d) = "Receipt" => 0 <= item.vat /\ item.vat <= item.amount
  BY <1>1, <1>3 DEF Storable, ValidBody
<1> HIDE DEF item
<1>6. x[2] \in {1, 2} /\ (TypeOf(d) # "Transfer" => x[2] = 1)
  BY <1>3 DEF RowsPerItem
<1>7. Placed(m)
  BY <1>1, <1>2, <1>4, <1>6 DEF Placed
<1>8. m.quant \in Int /\ m.quant # 0 /\ m.at \in Instants
  BY <1>1, <1>2, <1>4
<1>9. m.quant < 0 <=> m.type = "Consumption" \/ (m.type = "Transfer" /\ m.order = 1)
  BY <1>1, <1>2, <1>4
<1>10. (m.type = "Transfer" => m.order \in {1, 2}) /\ (m.type # "Transfer" => m.order = 1)
  BY <1>1, <1>2, <1>6
<1>11. m.type = "Receipt" => m.source \in Int /\ m.source >= 0
  BY <1>1, <1>2, <1>4, <1>5 DEF SourceAmount
<1>12. m.type # "Receipt" => m.source = Null
  BY <1>1, <1>2 DEF SourceAmount
<1> QED
  BY <1>7, <1>8, <1>9, <1>10, <1>11, <1>12

\* The register is made of rows the replay can put in order and count.
LEMMA LedgerIsCounted ==
    ASSUME LedgerMatchesDocuments, RowsStand
    PROVE  Counted(ledger)
<1>1. ASSUME NEW m \in ledger PROVE Placed(m) /\ m.quant \in Int
  <2>1. PICK d \in Present : \E x \in RowIndexes(d, docs[d]) : PostedBy(m, d, docs[d], x, excludeVat)
    BY RowsHaveDocuments
  <2>2. PICK x \in RowIndexes(d, docs[d]) : PostedBy(m, d, docs[d], x, excludeVat)
    BY <2>1
  <2>3. m.id \in Nat
    BY DEF RowsStand, Distinct
  <2> QED
    BY <2>2, <2>3, PostedRowSays
<1> QED
  BY <1>1 DEF Counted, Named, RowsStand, Distinct

-----------------------------------------------------------------------------
(* Negative stock.                                                         *)

\* With negative stock disabled no outgoing movement overdraws: every
\* operation refuses to leave a register of which that is not so.
StockPolicyHolds == PolicyHolds(ledger, allowNegative)

\* No step leaves an overdraft where the setting refuses it.
LEMMA StockPolicyStep == ASSUME StockPolicyHolds, [Next]_vars PROVE StockPolicyHolds'
<1>1. ASSUME PolicyHolds(ledger', allowNegative') PROVE StockPolicyHolds'
  BY <1>1 DEF StockPolicyHolds, PolicyHolds
<1>2. CASE UNCHANGED vars
  BY <1>2 DEF StockPolicyHolds, PolicyHolds, vars
<1>3. ASSUME NEW d \in Documents, NEW body \in Bodies[TypeOf(d)], Create(d, body) PROVE StockPolicyHolds'
  BY <1>1, <1>3 DEF Create, settings
<1>4. ASSUME NEW d \in Documents, NEW body \in Bodies[TypeOf(d)], Update(d, body) PROVE StockPolicyHolds'
  BY <1>1, <1>4 DEF Update, settings
<1>5. ASSUME NEW d \in Documents, Delete(d) PROVE StockPolicyHolds'
  BY <1>1, <1>5 DEF Delete, settings
<1>6. ASSUME NEW allow \in BOOLEAN, SetNegativePolicy(allow) PROVE StockPolicyHolds'
  BY <1>1, <1>6 DEF SetNegativePolicy
<1>7. ASSUME NEW noVat \in VatFlags, NEW allow \in BOOLEAN, SetVatBasis(noVat, allow) PROVE StockPolicyHolds'
  BY <1>1, <1>7 DEF SetVatBasis
<1>8. CASE Recalculate
  BY <1>1, <1>8 DEF Recalculate, settings
<1>9. ASSUME NEW day \in Days, Close(day) PROVE StockPolicyHolds'
  BY <1>1, <1>9 DEF Close, settings
<1>10. CASE Reopen
  BY <1>1, <1>10 DEF Reopen, settings
<1> QED
  BY <1>2, <1>3, <1>4, <1>5, <1>6, <1>7, <1>8, <1>9, <1>10 DEF Next

\* Without overdrafts no balance is negative.
LEMMA BalancesFollowPolicy ==
    ASSUME LedgerMatchesDocuments, RowsStand, StockPolicyHolds
    PROVE  NoNegativeBalance
<1> SUFFICES ASSUME ~allowNegative, NEW m \in ledger, NEW k \in ledger
             PROVE  QuantAt(Position(m), k.at) >= 0
  BY DEF NoNegativeBalance
<1>1. Counted(ledger) /\ NeverNegative(ledger)
  BY LedgerIsCounted DEF StockPolicyHolds, PolicyHolds
<1>2. k.at \in Nat
  BY <1>1 DEF Counted, Named, Placed
<1>3. QuantOf(StockRows(ledger, Position(m), k.at)) >= 0
  BY <1>1, <1>2, BalancesHold
<1> QED
  BY <1>3 DEF QuantAt, StockRows

\* With negative stock disabled no balance is below zero at any instant,
\* although the replay looks at outgoing movements only, each in its place
\* among the movements of an instant: the balance after the last outgoing
\* movement up to the instant is what the later ones only add to.
THEOREM NoBalanceIsNegative == Spec => []NoNegativeBalance
<1>1. Init => StockPolicyHolds
  BY DEF Init, StockPolicyHolds, PolicyHolds
<1>2. Spec => []StockPolicyHolds
  BY <1>1, StockPolicyStep, PTL DEF Spec
<1>3. LedgerMatchesDocuments /\ RowsStand /\ StockPolicyHolds => NoNegativeBalance
  BY BalancesFollowPolicy
<1> QED
  BY <1>2, <1>3, RegisterMatchesDocuments, RowsStandAlways, PTL

-----------------------------------------------------------------------------
(* The replay of the rows, one after another.                              *)

\* F is the state of the replay after each set of rows, taken in order.
ReplaysOn(F, L, prev, D) ==
    F = [s \in D |-> IF s = {} THEN InitialReplay(L)
                     ELSE Visit(L, prev, F[s \ {LastRow(s)}], LastRow(s))]

\* F is a function of all parts of the rows.
Replays(F, L, prev) == ReplaysOn(F, L, prev, SUBSET L)

\* The replay is the value of a chosen recursive function.
LEMMA ReplayChosen ==
    ASSUME NEW L, NEW prev
    PROVE  Replay(L, prev) = (CHOOSE F : Replays(F, L, prev))[L]
BY DEF Replay, FoldInOrder, MapThenFoldSet, Replays, ReplaysOn, LastRow

\* Families of sets from which the last row can be taken.
Unwinding(D) == \A s \in D : s # {} => s \ {LastRow(s)} \in D

\* There is such a function.
LEMMA ReplayExists ==
    ASSUME NEW L, Named(L), NEW prev
    PROVE  \E F : Replays(F, L, prev)
<1> DEFINE Good == {D \in SUBSET (SUBSET L) : Unwinding(D) /\ \E F : ReplaysOn(F, L, prev, D)}
           Rest == {(SUBSET L) \ D : D \in Good}
<1>0. IsFiniteSet(L)
  BY DEF Named
<1>1. {} \in Good
  <2>1. ReplaysOn([s \in {} |-> 0], L, prev, {})
    BY DEF ReplaysOn
  <2> QED
    BY <2>1 DEF Unwinding
<1>2. Rest # {} /\ Rest \in SUBSET (SUBSET (SUBSET L))
  <2>1. (SUBSET L) \ {} \in Rest
    BY <1>1
  <2>2. \A R \in Rest : R \in SUBSET (SUBSET L)
    OBVIOUS
  <2> HIDE DEF Rest
  <2> QED
    BY <2>1, <2>2
<1>3. IsFiniteSet(SUBSET L)
  BY <1>0, FS_SUBSET
<1> HIDE DEF Rest
<1>4. PICK R \in Rest : \A y \in Rest : y \subseteq R => y = R
  BY <1>2, <1>3, MinimalSubset
<1>5. PICK D \in Good : R = (SUBSET L) \ D
  BY <1>4 DEF Rest
<1>6. PICK F : ReplaysOn(F, L, prev, D)
  BY <1>5
<1>7. CASE R = {}
  <2>1. D = SUBSET L
    BY <1>5, <1>7
  <2> QED
    BY <1>6, <2>1 DEF Replays
<1>8. CASE R # {}
  <2>1. R \in SUBSET (SUBSET L)
    BY <1>5
  <2>2. PICK s \in R : \A y \in R : y \subseteq s => y = s
    BY <1>0, <1>8, <2>1, MinimalSubset
  <2>3. s \in SUBSET L /\ s \notin D
    BY <1>5, <2>2
  <2>4. s # {} => s \ {LastRow(s)} \in D
    BY <1>5, <2>2, <2>3, LastOfRows
  <2> DEFINE E == D \cup {s}
             value == IF s = {} THEN InitialReplay(L) ELSE Visit(L, prev, F[s \ {LastRow(s)}], LastRow(s))
             G == [t \in E |-> IF t = s THEN value ELSE F[t]]
  <2>5. Unwinding(E)
    BY <1>5, <2>4 DEF Unwinding
  <2>6. \A t \in D : G[t] = F[t]
    BY <2>3
  <2>7. \A t \in D : F[t] = IF t = {} THEN InitialReplay(L) ELSE Visit(L, prev, F[t \ {LastRow(t)}], LastRow(t))
    BY <1>6 DEF ReplaysOn
  <2>8. ASSUME NEW t \in E
        PROVE  G[t] = IF t = {} THEN InitialReplay(L) ELSE Visit(L, prev, G[t \ {LastRow(t)}], LastRow(t))
    <3>1. CASE t = s
      <4>1. G[t] = value
        BY <3>1
      <4>2. s # {} => G[s \ {LastRow(s)}] = F[s \ {LastRow(s)}]
        BY <2>4, <2>6
      <4> HIDE DEF G
      <4> QED
        BY <3>1, <4>1, <4>2
    <3>2. CASE t # s
      <4>1. t \in D /\ (t # {} => t \ {LastRow(t)} \in D)
        BY <1>5, <3>2 DEF Unwinding
      <4>2. G[t] = F[t] /\ (t # {} => G[t \ {LastRow(t)}] = F[t \ {LastRow(t)}])
        BY <2>6, <4>1
      <4> HIDE DEF G
      <4> QED
        BY <2>7, <4>1, <4>2
    <3> QED
      BY <3>1, <3>2
  <2>9. ReplaysOn(G, L, prev, E)
    <3>1. G = [t \in E |-> G[t]]
      OBVIOUS
    <3> HIDE DEF G
    <3> QED
      BY <2>8, <3>1 DEF ReplaysOn
  <2>10. E \in Good
    BY <2>3, <2>5, <2>9, <1>5
  <2> HIDE DEF E
  <2>11. (SUBSET L) \ E \in Rest
    BY <2>10 DEF Rest
  <2> QED
    BY <1>4, <1>5, <2>2, <2>11 DEF E
<1> QED
  BY <1>7, <1>8

\* The state of the replay after the rows s.
ReplayState(L, prev, s) == (CHOOSE F : Replays(F, L, prev))[s]

\* The state of the replay after each of the first movements.
LEMMA ReplaySteps ==
    ASSUME NEW L, Named(L), NEW prev
    PROVE  /\ Replay(L, prev) = ReplayState(L, prev, L)
           /\ ReplayState(L, prev, {}) = InitialReplay(L)
           /\ \A s \in SUBSET L : s # {} =>
                ReplayState(L, prev, s) = Visit(L, prev, ReplayState(L, prev, s \ {LastRow(s)}), LastRow(s))
<1> DEFINE F == CHOOSE G : Replays(G, L, prev)
<1>1. Replays(F, L, prev)
  BY ReplayExists
<1>2. Replay(L, prev) = F[L]
  BY ReplayChosen
<1>3. \A s : ReplayState(L, prev, s) = F[s]
  BY DEF ReplayState
<1> HIDE DEF F
<1>4. \A s \in SUBSET L :
        F[s] = IF s = {} THEN InitialReplay(L) ELSE Visit(L, prev, F[s \ {LastRow(s)}], LastRow(s))
  BY <1>1 DEF Replays, ReplaysOn
<1>5. {} \in SUBSET L /\ L \in SUBSET L
  OBVIOUS
<1>6. F[{}] = InitialReplay(L)
  BY <1>4, <1>5
<1>7. \A s \in SUBSET L : s # {} => F[s] = Visit(L, prev, F[s \ {LastRow(s)}], LastRow(s))
  BY <1>4
<1> QED
  BY <1>2, <1>3, <1>6, <1>7

-----------------------------------------------------------------------------
(* The shortages a receipt pays, one after another.                        *)

\* Rows that can be put in the order of instants and numbers.
Numbered(S) ==
    /\ IsFiniteSet(S)
    /\ \A m \in S : m.at \in Nat /\ m.id \in Nat
    /\ \A m, k \in S : m.id = k.id => m = k

\* The order of payment, by its fields.
LEMMA CoverBeforeFields ==
    ASSUME NEW m, NEW k
    PROVE  CoverBefore(m, k) <=> m.at < k.at \/ (m.at = k.at /\ m.id < k.id)
<1> DEFINE a == <<m.at, m.id>>
           b == <<k.at, k.id>>
<1>1. DOMAIN a = 1..2 /\ a[1] = m.at /\ a[2] = m.id /\ b[1] = k.at /\ b[2] = k.id
  OBVIOUS
<1> HIDE DEF a, b
<1>2. LexLess(a, b) <=> \E i \in 1..2 : a[i] < b[i] /\ \A j \in 1..(i - 1) : a[j] = b[j]
  BY <1>1 DEF LexLess
<1>3. ASSUME NEW i \in 1..2 PROVE i = 1 \/ i = 2
  OBVIOUS
<1>4. (\A j \in 1..0 : a[j] = b[j]) /\ ((\A j \in 1..1 : a[j] = b[j]) <=> a[1] = b[1])
  OBVIOUS
<1>5. LexLess(a, b) <=> \/ a[1] < b[1] /\ \A j \in 1..0 : a[j] = b[j]
                        \/ a[2] < b[2] /\ \A j \in 1..1 : a[j] = b[j]
  BY <1>2, <1>3
<1>6. LexLess(a, b) <=> m.at < k.at \/ (m.at = k.at /\ m.id < k.id)
  BY <1>1, <1>4, <1>5
<1> QED
  BY <1>6 DEF CoverBefore, a, b

\* The row among some that is paid last.
LastToCover(s) == LastIn(CoverBefore, s)

\* It is one of them, and comes after the others.
LEMMA LastToCoverExists ==
    ASSUME NEW S, Numbered(S), NEW A \in SUBSET S, A # {}
    PROVE  LastToCover(A) \in A /\ \A k \in A \ {LastToCover(A)} : CoverBefore(k, LastToCover(A))
<1> DEFINE Bad == {s \in SUBSET A : s # {} /\ ~\E m \in s : \A k \in s \ {m} : CoverBefore(k, m)}
<1>1. Bad = {}
  <2> SUFFICES ASSUME Bad # {} PROVE FALSE
    OBVIOUS
  <2>0. Bad \in SUBSET (SUBSET A) /\ IsFiniteSet(A)
    BY FS_Subset DEF Numbered
  <2> HIDE DEF Bad
  <2>1. PICK s \in Bad : \A t \in Bad : t \subseteq s => t = s
    BY <2>0, MinimalSubset
  <2>2. s \in SUBSET A /\ s # {} /\ ~\E m \in s : \A k \in s \ {m} : CoverBefore(k, m)
    BY <2>1 DEF Bad
  <2>3. PICK x \in s : TRUE
    BY <2>2
  <2>4. s \ {x} # {}
    BY <2>2, <2>3
  <2>5. PICK m \in s \ {x} : \A k \in (s \ {x}) \ {m} : CoverBefore(k, m)
    <3> DEFINE t == s \ {x}
    <3>1. t \in SUBSET A /\ t \subseteq s /\ t # s /\ t # {}
      BY <2>2, <2>3, <2>4
    <3>2. t \notin Bad
      BY <2>1, <3>1
    <3> HIDE DEF t
    <3>3. \E m \in t : \A k \in t \ {m} : CoverBefore(k, m)
      BY <3>1, <3>2 DEF Bad
    <3> QED
      BY <3>3 DEF t
  <2>6. m # x /\ m \in s /\ m \in S /\ x \in S
    BY <2>2, <2>3, <2>5
  <2>7. \A i, j \in S : i.at \in Nat /\ i.id \in Nat /\ (i.id = j.id => i = j)
    BY DEF Numbered
  <2>8. CASE CoverBefore(x, m)
    BY <2>2, <2>3, <2>5, <2>6, <2>8
  <2>9. CASE CoverBefore(m, x)
    <3>1. ASSUME NEW k \in s \ {x} PROVE CoverBefore(k, x)
      <4>1. CASE k = m
        BY <2>9, <4>1
      <4>2. CASE k # m
        <5>1. CoverBefore(k, m) /\ k \in S
          BY <2>2, <2>5, <3>1, <4>2
        <5> QED
          BY <2>6, <2>7, <2>9, <5>1, CoverBeforeFields
      <4> QED
        BY <4>1, <4>2
    <3> QED
      BY <2>2, <2>3, <3>1
  <2>10. CoverBefore(x, m) \/ CoverBefore(m, x)
    BY <2>6, <2>7, CoverBeforeFields
  <2> QED
    BY <2>8, <2>9, <2>10
<1>2. \E m \in A : \A k \in A \ {m} : CoverBefore(k, m)
  BY <1>1
<1> QED
  BY <1>2 DEF LastToCover, LastIn

\* A step of the payment: the shortage of k takes what it can of what is
\* left of the receipt m of that amount.
Pay(m, amount, c, k) ==
    LET w    == c.work[MovementKey(k)]
        take == Min({c.cover, w.short})
        paid == IF take = c.quant THEN c.amount ELSE RoundDiv(take * amount, m.quant)
    IN  IF c.cover <= 0 THEN c
        ELSE [work   |-> [c.work EXCEPT ![MovementKey(k)] =
                            [known   |-> w.known + paid,
                             short   |-> w.short - take,
                             pending |-> w.short > take]],
              quant  |-> c.quant - take,
              amount |-> c.amount - paid,
              cover  |-> c.cover - take]

\* Nothing is paid yet.
Uncovered(st, m, amount) ==
    [work |-> st.work, quant |-> m.quant, amount |-> amount,
     cover |-> Min({m.quant, -st.stock[Position(m)].quant})]

\* The movements that m pays, if it is a receipt.
Shortages(L, st, m) ==
    IF st.stock[Position(m)].quant >= 0 THEN {}
    ELSE {k \in L : Position(k) = Position(m) /\ st.work[MovementKey(k)].short > 0}

\* F is what has been paid after each set of shortages, taken in order.
PaysOn(F, m, amount, init, D) ==
    F = [s \in D |-> IF s = {} THEN init
                     ELSE Pay(m, amount, F[s \ {LastToCover(s)}], LastToCover(s))]

\* F is a function of all parts of the shortages.
Pays(F, m, amount, init, S) == PaysOn(F, m, amount, init, SUBSET S)

\* Paying the shortages is the value of a chosen recursive function.
LEMMA CoverChosen ==
    ASSUME NEW L, NEW st, NEW m, NEW amount
    PROVE  CoverShortages(L, st, m, amount) =
             (CHOOSE F : Pays(F, m, amount, Uncovered(st, m, amount), Shortages(L, st, m)))
               [Shortages(L, st, m)]
BY DEF CoverShortages, FoldInOrder, MapThenFoldSet, Pays, PaysOn, Pay, Uncovered, Shortages,
       LastToCover

\* Sets that contain what is left of them without the last to pay.
UnwindingToCover(D) == \A s \in D : s # {} => s \ {LastToCover(s)} \in D

\* There is such a function.
LEMMA PaymentExists ==
    ASSUME NEW S, Numbered(S), NEW m, NEW amount, NEW init
    PROVE  \E F : Pays(F, m, amount, init, S)
<1> DEFINE Good == {D \in SUBSET (SUBSET S) : /\ UnwindingToCover(D)
                                              /\ \E F : PaysOn(F, m, amount, init, D)}
           Rest == {(SUBSET S) \ D : D \in Good}
<1>0. IsFiniteSet(S)
  BY DEF Numbered
<1>1. {} \in Good
  <2>1. PaysOn([s \in {} |-> 0], m, amount, init, {})
    BY DEF PaysOn
  <2> QED
    BY <2>1 DEF UnwindingToCover
<1>2. Rest # {} /\ Rest \in SUBSET (SUBSET (SUBSET S))
  <2>1. (SUBSET S) \ {} \in Rest
    BY <1>1
  <2>2. \A R \in Rest : R \in SUBSET (SUBSET S)
    OBVIOUS
  <2> HIDE DEF Rest
  <2> QED
    BY <2>1, <2>2
<1>3. IsFiniteSet(SUBSET S)
  BY <1>0, FS_SUBSET
<1> HIDE DEF Rest
<1>4. PICK R \in Rest : \A y \in Rest : y \subseteq R => y = R
  BY <1>2, <1>3, MinimalSubset
<1>5. PICK D \in Good : R = (SUBSET S) \ D
  BY <1>4 DEF Rest
<1>6. PICK F : PaysOn(F, m, amount, init, D)
  BY <1>5
<1>7. CASE R = {}
  <2>1. D = SUBSET S
    BY <1>5, <1>7
  <2> QED
    BY <1>6, <2>1 DEF Pays
<1>8. CASE R # {}
  <2>1. R \in SUBSET (SUBSET S)
    BY <1>5
  <2>2. PICK s \in R : \A y \in R : y \subseteq s => y = s
    BY <1>0, <1>8, <2>1, MinimalSubset
  <2>3. s \in SUBSET S /\ s \notin D
    BY <1>5, <2>2
  <2>4. s # {} => s \ {LastToCover(s)} \in D
    BY <1>5, <2>2, <2>3, LastToCoverExists
  <2> DEFINE E == D \cup {s}
             value == IF s = {} THEN init
                      ELSE Pay(m, amount, F[s \ {LastToCover(s)}], LastToCover(s))
             G == [t \in E |-> IF t = s THEN value ELSE F[t]]
  <2>5. UnwindingToCover(E)
    BY <1>5, <2>4 DEF UnwindingToCover
  <2>6. \A t \in D : G[t] = F[t]
    BY <2>3
  <2>7. \A t \in D :
          F[t] = IF t = {} THEN init ELSE Pay(m, amount, F[t \ {LastToCover(t)}], LastToCover(t))
    BY <1>6 DEF PaysOn
  <2>8. ASSUME NEW t \in E
        PROVE  G[t] = IF t = {} THEN init
                      ELSE Pay(m, amount, G[t \ {LastToCover(t)}], LastToCover(t))
    <3>1. CASE t = s
      <4>1. G[t] = value
        BY <3>1
      <4>2. s # {} => G[s \ {LastToCover(s)}] = F[s \ {LastToCover(s)}]
        BY <2>4, <2>6
      <4> HIDE DEF G
      <4> QED
        BY <3>1, <4>1, <4>2
    <3>2. CASE t # s
      <4>1. t \in D /\ (t # {} => t \ {LastToCover(t)} \in D)
        BY <1>5, <3>2 DEF UnwindingToCover
      <4>2. G[t] = F[t] /\ (t # {} => G[t \ {LastToCover(t)}] = F[t \ {LastToCover(t)}])
        BY <2>6, <4>1
      <4> HIDE DEF G
      <4> QED
        BY <2>7, <4>1, <4>2
    <3> QED
      BY <3>1, <3>2
  <2>9. PaysOn(G, m, amount, init, E)
    <3>1. G = [t \in E |-> G[t]]
      OBVIOUS
    <3> HIDE DEF G
    <3> QED
      BY <2>8, <3>1 DEF PaysOn
  <2>10. E \in Good
    BY <2>3, <2>5, <2>9, <1>5
  <2> HIDE DEF E
  <2>11. (SUBSET S) \ E \in Rest
    BY <2>10 DEF Rest
  <2> QED
    BY <1>4, <1>5, <2>2, <2>11 DEF E
<1> QED
  BY <1>7, <1>8

\* What has been paid after the shortages s.
PaidState(L, st, m, amount, s) ==
    (CHOOSE F : Pays(F, m, amount, Uncovered(st, m, amount), Shortages(L, st, m)))[s]

\* The payment goes on with the next shortage in order.
PaysInOrder(L, st, m, amount) ==
    \A s \in SUBSET Shortages(L, st, m) : s # {} =>
      PaidState(L, st, m, amount, s) =
        Pay(m, amount, PaidState(L, st, m, amount, s \ {LastToCover(s)}), LastToCover(s))

\* The state of the payment after each of the shortages.
LEMMA PaymentSteps ==
    ASSUME NEW L, NEW st, NEW m, NEW amount, Numbered(Shortages(L, st, m))
    PROVE  /\ CoverShortages(L, st, m, amount) = PaidState(L, st, m, amount, Shortages(L, st, m))
           /\ PaidState(L, st, m, amount, {}) = Uncovered(st, m, amount)
           /\ PaysInOrder(L, st, m, amount)
<1> DEFINE S == Shortages(L, st, m)
           init == Uncovered(st, m, amount)
           F == CHOOSE G : Pays(G, m, amount, init, S)
<1>1. Pays(F, m, amount, init, S)
  BY PaymentExists
<1>2. CoverShortages(L, st, m, amount) = F[S]
  BY CoverChosen
<1>3. \A s : PaidState(L, st, m, amount, s) = F[s]
  BY DEF PaidState
<1> HIDE DEF F, S, init
<1>4. \A s \in SUBSET S :
        F[s] = IF s = {} THEN init ELSE Pay(m, amount, F[s \ {LastToCover(s)}], LastToCover(s))
  BY <1>1 DEF Pays, PaysOn
<1>5. {} \in SUBSET S /\ S \in SUBSET S
  OBVIOUS
<1>6. F[{}] = init
  BY <1>4, <1>5
<1>7. \A s \in SUBSET S :
        s # {} => F[s] = Pay(m, amount, F[s \ {LastToCover(s)}], LastToCover(s))
  BY <1>4
<1> QED
  BY <1>2, <1>3, <1>6, <1>7 DEF S, init, PaysInOrder

-----------------------------------------------------------------------------
(* What one visit does to a balance that lacks nothing.                    *)

\* The second movement of a transfer, and the name of the first.
Arrives(m) == m.type = "Transfer" /\ m.order = 2
\* What its other movement is stored under.
SentKey(m) == <<m.type, m.rec, m.item, 1>>

\* Rows as documents post them.
Movements(L) ==
    /\ Counted(L)
    /\ \A m \in L :
          /\ m.quant # 0
          /\ m.quant < 0 <=> m.type = "Consumption" \/ (m.type = "Transfer" /\ m.order = 1)
          /\ m.type = "Transfer" => m.order \in {1, 2}
          /\ m.type = "Receipt" => m.source \in Nat
    /\ \A m \in L : Arrives(m) => \E k \in L : MovementKey(k) = SentKey(m) /\ k.at = m.at

\* What an outgoing movement costs: the average of what is there, or all of
\* it when nothing stays.
IssuedAmount(amount, quant, out) ==
    IF out = quant THEN amount ELSE RoundDiv(amount * out, quant)

\* A rounded share of an amount is at most the amount.
LEMMA RoundedShare ==
    ASSUME NEW a \in Nat, NEW c \in Nat, NEW q \in Nat, 0 < c, c < q
    PROVE  RoundDiv(a * c, q) \in Nat /\ RoundDiv(a * c, q) <= a
<1> DEFINE x == 2 * (a * c) + q
           y == 2 * q
           z == x \div y
<1>1. a * c \in Nat /\ a * c <= a * q /\ a * q \in Nat
  <2>1. q - c \in Nat
    OBVIOUS
  <2>2. a * (q - c) \in Nat
    BY <2>1
  <2>3. a * q = a * c + a * (q - c)
    OBVIOUS
  <2>4. a * c \in Nat /\ a * q \in Nat
    OBVIOUS
  <2> HIDE DEF x, y, z
  <2> QED
    BY <2>2, <2>3, <2>4
<1>2. x \in Nat /\ y \in Nat /\ y > 0
  BY <1>1
<1>3. \A i \in Nat, j \in Nat : j > 0 => i \div j \in Int /\ j * (i \div j) <= i /\ i < j * (i \div j) + j
  OBVIOUS
<1>4. z \in Int /\ y * z <= x /\ x < y * z + y
  BY <1>2, <1>3
<1>5. x < y * a + y
  <2>1. y * a = 2 * (a * q)
    OBVIOUS
  <2> QED
    BY <1>1, <2>1
<1> HIDE DEF x, y, z
<1>6. z >= 0
  <2> SUFFICES ASSUME z < 0 PROVE FALSE
    BY <1>4
  <2>1. z + 1 <= 0 /\ z + 1 \in Int
    BY <1>4
  <2>2. y * (z + 1) <= 0
    BY <1>2, <2>1
  <2>3. y * (z + 1) = y * z + y
    BY <1>2, <1>4
  <2>4. y * z \in Int
    BY <1>2, <1>4
  <2> QED
    BY <1>2, <1>4, <2>2, <2>3, <2>4
<1>7. z <= a
  <2> SUFFICES ASSUME z > a PROVE FALSE
    BY <1>4
  <2>1. z - (a + 1) \in Nat
    BY <1>4
  <2>2. y * (z - (a + 1)) >= 0 /\ y * (z - (a + 1)) \in Int
    BY <1>2, <2>1
  <2>3. y * z = y * (z - (a + 1)) + (y * a + y)
    BY <1>2, <1>4
  <2>4. y * z \in Int /\ y * a \in Int
    BY <1>2, <1>4
  <2> QED
    BY <1>2, <1>4, <1>5, <2>2, <2>3, <2>4
<1>8. RoundDiv(a * c, q) = z
  BY DEF RoundDiv, x, y, z
<1> QED
  BY <1>4, <1>6, <1>7, <1>8

\* The smaller of two numbers.
LEMMA MinOfTwo ==
    ASSUME NEW i \in Int, NEW j \in Int
    PROVE  Min({i, j}) = IF i <= j THEN i ELSE j
<1> DEFINE k == IF i <= j THEN i ELSE j
<1>1. k \in {i, j} /\ \A y \in {i, j} : k <= y
  OBVIOUS
<1>2. \A x \in {i, j} : (\A y \in {i, j} : x <= y) => x = k
  OBVIOUS
<1> HIDE DEF k
<1>3. Min({i, j}) = k
  BY <1>1, <1>2 DEF Min
<1> QED
  BY <1>3 DEF k

\* What is known of the amount of a movement when nothing is missing: the
\* amount it arrives with, or its share of the stock.
KnownAmount(L, prev, m, quant, amount) ==
    IF m.quant > 0 THEN IncomingAmount(L, prev, m)
    ELSE IssuedAmount(amount, quant, -m.quant)

\* An amount with the sign of its movement.
Signed(m, known) == IF m.quant > 0 THEN known ELSE -known

\* A movement takes no more than its balance is worth, and all of it when
\* it empties the balance.
LEMMA KnownAmountBounds ==
    ASSUME NEW L, NEW prev, NEW m, m.quant \in Int, m.quant # 0,
           NEW quant \in Nat, NEW amount \in Nat, quant = 0 => amount = 0, quant + m.quant >= 0,
           m.quant > 0 => IncomingAmount(L, prev, m) \in Nat
    PROVE  LET known == KnownAmount(L, prev, m, quant, amount)
           IN  /\ known \in Nat
               /\ amount + Signed(m, known) >= 0
               /\ quant + m.quant = 0 => amount + Signed(m, known) = 0
<1> DEFINE known == KnownAmount(L, prev, m, quant, amount)
<1>1. CASE m.quant > 0
  <2>1. known = IncomingAmount(L, prev, m) /\ Signed(m, known) = known
    BY <1>1 DEF KnownAmount, Signed
  <2>2. known \in Nat
    BY <1>1, <2>1
  <2> HIDE DEF known
  <2>3. amount + Signed(m, known) >= 0 /\ quant + m.quant # 0
    BY <1>1, <2>1, <2>2
  <2> QED
    BY <2>2, <2>3 DEF known
<1>2. CASE m.quant < 0
  <2> DEFINE out == -m.quant
  <2>1. out \in Nat /\ out > 0 /\ out <= quant
    BY <1>2
  <2>2. known = IssuedAmount(amount, quant, out) /\ Signed(m, known) = -known
    BY <1>2 DEF KnownAmount, Signed
  <2> HIDE DEF known
  <2>3. CASE out = quant
    <3>1. known = amount
      BY <2>2, <2>3 DEF IssuedAmount
    <3> QED
      BY <2>2, <3>1 DEF known
  <2>4. CASE out < quant
    <3>1. known = RoundDiv(amount * out, quant)
      BY <2>1, <2>2, <2>4 DEF IssuedAmount
    <3>2. known \in Nat /\ known <= amount
      BY <2>1, <2>4, <3>1, RoundedShare
    <3>3. quant + m.quant # 0
      BY <2>4
    <3>4. amount + Signed(m, known) >= 0
      BY <2>2, <3>2
    <3> QED
      BY <3>2, <3>3, <3>4 DEF known
  <2> QED
    BY <2>1, <2>3, <2>4
<1> QED
  BY <1>1, <1>2

\* Without shortages a movement adds its quantity and its amount to the
\* stock, and nothing else changes.
Visited(st, m, p, quant, amount, known) ==
    [stock |-> [st.stock EXCEPT ![p] =
                  [quant |-> quant + m.quant, amount |-> amount + Signed(m, known)]],
     work  |-> [st.work EXCEPT ![MovementKey(m)] =
                  [known |-> known, short |-> 0, pending |-> FALSE]]]

\* A balance at zero or above has no shortages to pay.
LEMMA NoShortsToCover ==
    ASSUME NEW L, NEW st, NEW m, NEW amount, st.stock[Position(m)].quant >= 0
    PROVE  CoverShortages(L, st, m, amount).work = st.work
<1>1. Shortages(L, st, m) = {}
  BY DEF Shortages
<1>2. Numbered(Shortages(L, st, m))
  BY <1>1, FS_EmptySet DEF Numbered
<1>3. CoverShortages(L, st, m, amount) = Uncovered(st, m, amount)
  BY <1>1, <1>2, PaymentSteps
<1> QED
  BY <1>3 DEF Uncovered

\* Visiting a movement that its balance can bear.
LEMMA VisitWithoutShortage ==
    ASSUME NEW L, NEW prev, NEW st, NEW m, m.quant \in Int, m.quant # 0,
           NEW quant \in Nat, NEW amount \in Nat, quant = 0 => amount = 0, quant + m.quant >= 0,
           m.quant > 0 => IncomingAmount(L, prev, m) \in Nat,
           st.stock[Position(m)] = [quant |-> quant, amount |-> amount]
    PROVE  Visit(L, prev, st, m) =
             Visited(st, m, Position(m), quant, amount, KnownAmount(L, prev, m, quant, amount))
<1> DEFINE known == KnownAmount(L, prev, m, quant, amount)
           p == Position(m)
<1>0. /\ st.stock[p].quant = quant /\ st.stock[p].amount = amount
      /\ Null \notin Int
  BY NullAssumption
<1>1. CASE m.quant > 0
  <2> DEFINE a == IncomingAmount(L, prev, m)
  <2>1. known = a /\ a \in Nat /\ a # Null /\ Signed(m, known) = a
    BY <1>0, <1>1 DEF KnownAmount, Signed
  <2>2. Visit(L, prev, st, m) = ReceiveValued(L, st, m, a)
    BY <1>1, <2>1 DEF Visit
  <2> HIDE DEF a, known
  <2>3. CoverShortages(L, st, m, a).work = st.work
    BY <1>0, NoShortsToCover
  <2>4. (CASE quant + m.quant < 0 -> Null
           [] quant + m.quant >= 0 /\ quant < 0 -> Max({CoverShortages(L, st, m, a).amount, 0})
           [] quant + m.quant >= 0 /\ quant >= 0 /\ amount = Null -> Null
           [] OTHER -> amount + a) = amount + a
    BY <1>0, <1>1
  <2> HIDE DEF p
  <2>5. ReceiveValued(L, st, m, a) = Visited(st, m, p, quant, amount, a)
    BY <1>0, <2>1, <2>3, <2>4 DEF ReceiveValued, Visited, p
  <2> QED
    BY <2>1, <2>2, <2>5 DEF known, p
<1>2. CASE m.quant < 0
  <2> DEFINE out == -m.quant
  <2>1. out \in Nat /\ out > 0 /\ out <= quant /\ quant > 0 /\ ~(m.quant > 0)
    BY <1>2
  <2>2. Visit(L, prev, st, m) = Issue(st, m)
    BY <1>2, <2>1 DEF Visit
  <2>3. Min({out, quant}) = out
    BY <2>1, MinOfTwo
  <2>4. known = IssuedAmount(amount, quant, out) /\ Signed(m, known) = -known /\ known \in Nat
    BY <2>1, KnownAmountBounds DEF KnownAmount, Signed
  <2>5. (CASE out = 0 -> 0
           [] out > 0 /\ out = quant -> amount
           [] OTHER -> RoundDiv(amount * out, quant)) = known
    BY <2>1, <2>4 DEF IssuedAmount
  <2>6. (CASE out > out -> Null
           [] out = out /\ quant = out -> 0
           [] OTHER -> amount - known) = amount + Signed(m, known)
    BY <2>1, <2>4 DEF IssuedAmount
  <2>7. quant - out = quant + m.quant /\ out - out = 0 /\ (out > out) = FALSE
    BY <2>1
  <2> HIDE DEF known, p
  <2>8. Issue(st, m) =
          [stock |-> [st.stock EXCEPT ![p] = [quant |-> quant - out, amount |-> amount + Signed(m, known)]],
           work |-> [st.work EXCEPT ![MovementKey(m)] =
                       [known |-> known, short |-> out - out, pending |-> out > out]]]
    BY <1>0, <2>1, <2>3, <2>5, <2>6 DEF Issue, p
  <2> HIDE DEF out
  <2>9. Issue(st, m) = Visited(st, m, p, quant, amount, known)
    BY <2>7, <2>8 DEF Visited
  <2> QED
    BY <2>2, <2>9 DEF known, p
<1> QED
  BY <1>1, <1>2

-----------------------------------------------------------------------------
(* A replay without shortages: every movement costs what the movements     *)
(* before it say, whatever their numbers.                                  *)

\* The balances of movements.
PositionsOf(L) == {Position(m) : m \in L}
\* The signed amount of each row in a state of the replay.
WorthIn(L, st) == [m \in L |-> Signed(m, st.work[MovementKey(m)].known)]

\* What a movement is worth, given what the movements before it are worth.
Cost(L, prev, worth, m) ==
    LET earlier == Held(Before(L, m), Position(m))
    IN  Signed(m, KnownAmount(L, prev, m, QuantOf(earlier), Sum(worth, earlier)))

\* The state of the replay after the rows s, when nothing has been missing:
\* the stock of each position is the sum of its movements, an empty one is
\* worth nothing, and each movement is worth its cost.
Shaped(L, st) ==
    /\ st.stock = [p \in PositionsOf(L) |-> st.stock[p]]
    /\ st.work = [k \in KeysOf(L) |-> st.work[k]]

\* The stock of a balance is what its movements so far add up to.
Stocked(worth, s, stock, p) ==
    /\ stock = [quant |-> QuantOf(Held(s, p)), amount |-> Sum(worth, Held(s, p))]
    /\ Sum(worth, Held(s, p)) \in Nat
    /\ QuantOf(Held(s, p)) = 0 => Sum(worth, Held(s, p)) = 0

\* The amount of a movement is known, and nothing is missing.
Clear(w) == w.known \in Nat /\ w.short = 0 /\ w.pending = FALSE

\* The state of a replay in which nothing is missing so far.
Sound(L, prev, s, st) ==
    /\ Shaped(L, st)
    /\ \A p \in PositionsOf(L) : Stocked(WorthIn(L, st), s, st.stock[p], p)
    /\ \A m \in L : Clear(st.work[MovementKey(m)])
    /\ \A m \in s : WorthIn(L, st)[m] = Cost(L, prev, WorthIn(L, st), m)

\* The rows s arrive with amounts: what was sent is known.
SentKnown(prev, s) == \A m \in s : Arrives(m) => prev[SentKey(m)].amount \in Int

\* A movement that comes in brings a known amount.
LEMMA IncomingIsKnown ==
    ASSUME NEW L, Movements(L), NEW m \in L, NEW prev,
           Arrives(m) => prev[SentKey(m)].amount \in Int, m.quant > 0
    PROVE  IncomingAmount(L, prev, m) \in Nat
<1>1. m.quant \in Int /\ m.type \in Types
  BY DEF Movements, Counted, Named, Placed
<1>2. /\ ~(m.type = "Consumption" \/ (m.type = "Transfer" /\ m.order = 1))
      /\ m.type = "Transfer" => m.order \in {1, 2}
      /\ m.type = "Receipt" => m.source \in Nat
  BY <1>1 DEF Movements
<1>3. CASE m.type = "Receipt"
  BY <1>2, <1>3 DEF IncomingAmount
<1>4. CASE m.type = "Transfer"
  <2>1. Arrives(m)
    BY <1>2, <1>4 DEF Arrives
  <2> DEFINE sent == prev[<<m.type, m.rec, m.item, 1>>].amount
  <2>2. sent \in Int /\ sent # Null
    BY <2>1, NullAssumption DEF SentKey
  <2>3. IncomingAmount(L, prev, m) = IF sent < 0 THEN -sent ELSE sent
    BY <2>1, <2>2 DEF IncomingAmount, Arrives
  <2> HIDE DEF sent
  <2> QED
    BY <2>2, <2>3
<1> QED
  BY <1>1, <1>2, <1>3, <1>4 DEF Types

\* What clear movements are worth.
LEMMA WorthIsInt ==
    ASSUME NEW L, Movements(L), NEW st, \A m \in L : Clear(st.work[MovementKey(m)]), NEW S \in SUBSET L
    PROVE  /\ IsFiniteSet(S) /\ Sum(WorthIn(L, st), S) \in Int
           /\ \A m \in S : WorthIn(L, st)[m] \in Int
<1>1. \A m \in L : WorthIn(L, st)[m] \in Int
  BY DEF WorthIn, Signed, Clear
<1>2. IsFiniteSet(S)
  BY FS_Subset DEF Movements, Counted, Named
<1> QED
  BY <1>1, <1>2, SumType

\* Before any movement the state is sound.
LEMMA SoundInit ==
    ASSUME NEW L, NEW prev
    PROVE  Sound(L, prev, {}, InitialReplay(L))
<1> DEFINE st == InitialReplay(L)
<1>1. /\ st.stock = [p \in PositionsOf(L) |-> [quant |-> 0, amount |-> 0]]
      /\ st.work = [k \in KeysOf(L) |-> [known |-> 0, short |-> 0, pending |-> FALSE]]
  BY DEF InitialReplay, PositionsOf, KeysOf
<1> HIDE DEF st
<1>2. Shaped(L, st)
  BY <1>1 DEF Shaped
<1>3. \A m \in L : Clear(st.work[MovementKey(m)])
  BY <1>1 DEF Clear, KeysOf
<1>4. ASSUME NEW p \in PositionsOf(L) PROVE Stocked(WorthIn(L, st), {}, st.stock[p], p)
  <2>1. Held({}, p) = {}
    BY DEF Held
  <2>2. Sum(WorthIn(L, st), {}) = 0
    BY SumEmpty
  <2>3. QuantOf({}) = 0
    <3>1. IsFiniteSet({}) /\ \A m \in {} : WorthIn(L, st)[m] = m.quant
      BY FS_EmptySet
    <3> QED
      BY <3>1, <2>2, QuantOfSum
  <2>4. st.stock[p] = [quant |-> 0, amount |-> 0]
    BY <1>1
  <2> QED
    BY <2>1, <2>2, <2>3, <2>4 DEF Stocked
<1> QED
  BY <1>2, <1>3, <1>4 DEF Sound, st

\* A movement that finds what it takes leaves a sound state.
LEMMA SoundStep ==
    ASSUME NEW L, Movements(L), NEW prev, NEW s, Prefix(L, s), s # {},
           \A k \in s : ~Overdraws(L, k), SentKnown(prev, s),
           NEW st, Sound(L, prev, s \ {LastRow(s)}, st)
    PROVE  Sound(L, prev, s, Visit(L, prev, st, LastRow(s)))
<1> DEFINE m == LastRow(s)
           t == s \ {m}
           p == Position(m)
           W == WorthIn(L, st)
           quant == QuantOf(Held(t, p))
           amount == Sum(W, Held(t, p))
           known == KnownAmount(L, prev, m, quant, amount)
           nt == Visit(L, prev, st, m)
           N == WorthIn(L, nt)
<1>1. /\ Counted(L) /\ Named(L) /\ \A k \in L : k.quant \in Int /\ k.quant # 0
      /\ \A k, j \in L : MovementKey(k) = MovementKey(j) => k = j
  BY DEF Movements, Counted, Named
<1>2. /\ m \in s /\ m \in L /\ Prefix(L, t) /\ t = Before(L, m)
      /\ s \in SUBSET L /\ t \in SUBSET L /\ m \notin t /\ s = t \cup {m}
  BY <1>1, PrefixButLast DEF Before, Prefix
<1> HIDE DEF m, t
<1>3. /\ Shaped(L, st) /\ \A k \in L : Clear(st.work[MovementKey(k)])
      /\ \A x \in PositionsOf(L) : Stocked(W, t, st.stock[x], x)
      /\ \A k \in t : W[k] = Cost(L, prev, W, k)
  BY DEF Sound, m, t
<1>4. ASSUME NEW x PROVE QuantOf(Held(t, x)) \in Nat /\ QuantOf(Held(s, x)) \in Nat
  <2>1. Held(t, x) \in SUBSET L /\ Held(s, x) \in SUBSET L
    BY <1>2 DEF Held
  <2>2. QuantOf(Held(t, x)) \in Int /\ QuantOf(Held(s, x)) \in Int
    BY <1>1, <2>1, QuantOfPart
  <2>3. QuantOf(Held(t, x)) >= 0 /\ QuantOf(Held(s, x)) >= 0
    BY <1>1, <1>2, PrefixHolds
  <2> QED
    BY <2>2, <2>3
<1>5. p \in PositionsOf(L) /\ MovementKey(m) \in KeysOf(L)
  BY <1>2 DEF PositionsOf, KeysOf
<1>6. /\ Held(s, p) \in SUBSET L /\ Held(t, p) \in SUBSET L
      /\ m \in Held(s, p) /\ Held(s, p) \ {m} = Held(t, p)
      /\ \A x : x # p => Held(s, x) = Held(t, x)
  BY <1>2 DEF Held
<1>7. QuantOf(Held(s, p)) = quant + m.quant
  BY <1>1, <1>6, QuantAdd
<1>8. st.stock[p] = [quant |-> quant, amount |-> amount] /\ amount \in Nat /\ (quant = 0 => amount = 0)
  BY <1>3, <1>5 DEF Stocked
<1>9. quant \in Nat /\ quant + m.quant \in Nat /\ quant + m.quant >= 0 /\ m.quant \in Int /\ m.quant # 0
  <2> DEFINE next == QuantOf(Held(s, p))
  <2>1. quant \in Nat /\ next \in Nat /\ next = quant + m.quant
    BY <1>4, <1>7
  <2>2. m.quant \in Int /\ m.quant # 0
    BY <1>1, <1>2
  <2> HIDE DEF quant, next
  <2> QED
    BY <2>1, <2>2
<1>10. m.quant > 0 => IncomingAmount(L, prev, m) \in Nat
  BY <1>2, IncomingIsKnown DEF SentKnown
<1> HIDE DEF quant, amount, p, W
<1>11. /\ known \in Nat /\ amount + Signed(m, known) >= 0
       /\ quant + m.quant = 0 => amount + Signed(m, known) = 0
  BY <1>8, <1>9, <1>10, KnownAmountBounds
<1>12. nt = Visited(st, m, p, quant, amount, known)
  BY <1>8, <1>9, <1>10, VisitWithoutShortage DEF p
<1> DEFINE entry == [known |-> known, short |-> 0, pending |-> FALSE]
           store == [quant |-> quant + m.quant, amount |-> amount + Signed(m, known)]
<1>13. nt.stock = [st.stock EXCEPT ![p] = store] /\ nt.work = [st.work EXCEPT ![MovementKey(m)] = entry]
  BY <1>12 DEF Visited
<1>14. /\ \A x \in PositionsOf(L) : nt.stock[x] = IF x = p THEN store ELSE st.stock[x]
       /\ \A k \in KeysOf(L) : nt.work[k] = IF k = MovementKey(m) THEN entry ELSE st.work[k]
       /\ Shaped(L, nt)
  <2>1. DOMAIN st.stock = PositionsOf(L) /\ DOMAIN st.work = KeysOf(L)
    BY <1>3 DEF Shaped
  <2> HIDE DEF store, entry, nt
  <2> QED
    BY <1>13, <2>1 DEF Shaped
<1>15. \A k \in L : k # m => MovementKey(k) # MovementKey(m) /\ MovementKey(k) \in KeysOf(L)
  BY <1>1, <1>2 DEF KeysOf
<1> HIDE DEF nt
<1>16. \A k \in L : k # m => nt.work[MovementKey(k)] = st.work[MovementKey(k)]
  BY <1>14, <1>15
<1>17. nt.work[MovementKey(m)] = entry
  BY <1>5, <1>14
<1>18. \A k \in L : Clear(nt.work[MovementKey(k)])
  <2>1. Clear(entry)
    BY <1>11 DEF Clear
  <2> HIDE DEF entry
  <2> QED
    BY <1>3, <1>16, <1>17, <2>1
<1>19. N[m] = Signed(m, known) /\ \A k \in L : k # m => N[k] = W[k]
  <2>1. N[m] = Signed(m, known)
    BY <1>2, <1>17 DEF WorthIn
  <2>2. \A k \in L : k # m => N[k] = W[k]
    BY <1>16 DEF WorthIn, W
  <2> QED
    BY <2>1, <2>2
<1> HIDE DEF N
<1>20. ASSUME NEW S \in SUBSET t PROVE Sum(N, S) = Sum(W, S)
  <2>1. S \in SUBSET L /\ \A k \in S : k # m
    BY <1>2
  <2>2. \A k \in S : N[k] = W[k]
    BY <1>19, <2>1
  <2>3. IsFiniteSet(S)
    BY <1>1, <2>1, FS_Subset DEF Named
  <2> QED
    BY <2>2, <2>3, SumSame
<1>21. \A x : Held(t, x) \in SUBSET t
  BY DEF Held
<1>22. Sum(N, Held(s, p)) = amount + Signed(m, known)
  <2>1. \A k \in Held(s, p) : N[k] \in Int
    BY <1>3, <1>6, <1>18, WorthIsInt DEF N
  <2>2. IsFiniteSet(Held(s, p))
    BY <1>1, <1>6, FS_Subset DEF Named
  <2>3. Sum(N, Held(s, p)) = N[m] + Sum(N, Held(s, p) \ {m})
    BY <1>6, <2>1, <2>2, SumRemove
  <2>4. Sum(N, Held(s, p) \ {m}) = amount
    BY <1>6, <1>20, <1>21 DEF amount
  <2>5. N[m] \in Int /\ amount \in Int
    BY <1>6, <1>8, <2>1
  <2> QED
    BY <1>19, <2>3, <2>4, <2>5
<1>23. ASSUME NEW x \in PositionsOf(L) PROVE Stocked(N, s, nt.stock[x], x)
  <2>1. CASE x = p
    <3>1. nt.stock[x] = store
      BY <1>5, <1>14, <2>1
    <3>2. amount + Signed(m, known) \in Nat
      <4>1. amount + Signed(m, known) \in Int
        BY <1>8, <1>11 DEF Signed
      <4> QED
        BY <1>11, <4>1
    <3> QED
      BY <1>7, <1>11, <1>22, <2>1, <3>1, <3>2 DEF Stocked
  <2>2. CASE x # p
    <3>1. nt.stock[x] = st.stock[x] /\ Held(s, x) = Held(t, x) /\ Stocked(W, t, st.stock[x], x)
      BY <1>3, <1>6, <1>14, <2>2 DEF W
    <3>2. Sum(N, Held(t, x)) = Sum(W, Held(t, x))
      BY <1>20, <1>21
    <3> QED
      BY <3>1, <3>2 DEF Stocked
  <2> QED
    BY <2>1, <2>2
<1>24. ASSUME NEW k \in s PROVE N[k] = Cost(L, prev, N, k)
  <2>1. Before(L, k) \subseteq t
    <3>1. CASE k = m
      BY <1>2, <3>1
    <3>2. CASE k # m
      BY <1>2, <3>2 DEF Prefix, Before
    <3> QED
      BY <3>1, <3>2
  <2> DEFINE earlier == Held(Before(L, k), Position(k))
  <2>2. earlier \in SUBSET t
    BY <2>1 DEF Held
  <2>3. Sum(N, earlier) = Sum(W, earlier)
    BY <1>20, <2>2
  <2>4. Cost(L, prev, N, k) = Cost(L, prev, W, k)
    BY <2>3 DEF Cost
  <2>5. CASE k = m
    <3>1. earlier = Held(t, p)
      BY <1>2, <2>5 DEF p
    <3>2. Cost(L, prev, W, k) = Signed(m, known)
      BY <2>5, <3>1 DEF Cost, quant, amount
    <3> QED
      BY <1>19, <2>4, <2>5, <3>2
  <2>6. CASE k # m
    BY <1>2, <1>3, <1>19, <2>4, <2>6 DEF W
  <2> QED
    BY <2>5, <2>6
<1> QED
  BY <1>14, <1>18, <1>23, <1>24 DEF Sound, N, nt, m

\* Over the first movements of a register, none of which overdraws, the
\* replay stays sound, as long as it knows what was sent.
LEMMA SoundReplay ==
    ASSUME NEW L, Movements(L), NEW prev, NEW s, Prefix(L, s),
           \A m \in s : ~Overdraws(L, m), SentKnown(prev, s)
    PROVE  Sound(L, prev, s, ReplayState(L, prev, s))
<1> DEFINE Bad == {t \in SUBSET s : Prefix(L, t) /\ ~Sound(L, prev, t, ReplayState(L, prev, t))}
<1>0. Named(L) /\ s \in SUBSET L /\ IsFiniteSet(s)
  BY FS_Subset DEF Movements, Counted, Named, Prefix
<1> SUFFICES ASSUME Bad # {} PROVE FALSE
  OBVIOUS
<1>1. Bad \in SUBSET (SUBSET s)
  OBVIOUS
<1> HIDE DEF Bad
<1>2. PICK t \in Bad : \A u \in Bad : u \subseteq t => u = t
  BY <1>0, <1>1, MinimalSubset
<1>3. t \in SUBSET s /\ t \in SUBSET L /\ Prefix(L, t) /\ ~Sound(L, prev, t, ReplayState(L, prev, t))
  BY <1>0, <1>2 DEF Bad
<1>4. t # {}
  <2>1. Sound(L, prev, {}, ReplayState(L, prev, {}))
    BY <1>0, ReplaySteps, SoundInit
  <2> QED
    BY <1>3, <2>1
<1> DEFINE u == t \ {LastRow(t)}
<1>5. Prefix(L, u) /\ u \subseteq t /\ u # t
  BY <1>0, <1>3, <1>4, PrefixButLast
<1>6. Sound(L, prev, u, ReplayState(L, prev, u))
  BY <1>2, <1>3, <1>5 DEF Bad
<1>7. ReplayState(L, prev, t) = Visit(L, prev, ReplayState(L, prev, u), LastRow(t))
  BY <1>0, <1>3, <1>4, ReplaySteps
<1>8. (\A k \in t : ~Overdraws(L, k)) /\ SentKnown(prev, t)
  BY <1>3 DEF SentKnown
<1>9. Sound(L, prev, t, Visit(L, prev, ReplayState(L, prev, u), LastRow(t)))
  BY <1>3, <1>4, <1>6, <1>8, SoundStep
<1> QED
  BY <1>3, <1>7, <1>9

-----------------------------------------------------------------------------
(* What a visit leaves alone.                                              *)

\* The work rows of a state are those of the movements.
WorkShaped(L, work) == work = [k \in KeysOf(L) |-> work[k]]

\* A payment keeps the work rows of what it does not pay.
LEMMA PayKeeps ==
    ASSUME NEW L, NEW m, NEW amount, NEW c, WorkShaped(L, c.work), NEW j
    PROVE  /\ WorkShaped(L, Pay(m, amount, c, j).work)
           /\ \A k \in KeysOf(L) : k # MovementKey(j) => Pay(m, amount, c, j).work[k] = c.work[k]
<1> DEFINE w == c.work[MovementKey(j)]
           take == Min({c.cover, w.short})
           paid == IF take = c.quant THEN c.amount ELSE RoundDiv(take * amount, m.quant)
           entry == [known |-> w.known + paid, short |-> w.short - take, pending |-> w.short > take]
           next == [c.work EXCEPT ![MovementKey(j)] = entry]
<1>1. Pay(m, amount, c, j).work = IF c.cover <= 0 THEN c.work ELSE next
  BY DEF Pay
<1> HIDE DEF entry
<1>2. WorkShaped(L, next) /\ \A k \in KeysOf(L) : k # MovementKey(j) => next[k] = c.work[k]
  BY DEF WorkShaped
<1> HIDE DEF next
<1> QED
  BY <1>1, <1>2

\* Paying shortages leaves the other movements alone.
LEMMA CoverKeeps ==
    ASSUME NEW L, NEW st, NEW m, NEW amount, Numbered(Shortages(L, st, m)), WorkShaped(L, st.work)
    PROVE  /\ WorkShaped(L, CoverShortages(L, st, m, amount).work)
           /\ \A k \in KeysOf(L) :
                k \notin {MovementKey(j) : j \in Shortages(L, st, m)} =>
                  CoverShortages(L, st, m, amount).work[k] = st.work[k]
<1> DEFINE S == Shortages(L, st, m)
           after(s) == PaidState(L, st, m, amount, s)
           Kept(s) == /\ WorkShaped(L, after(s).work)
                      /\ \A k \in KeysOf(L) :
                           k \notin {MovementKey(j) : j \in S} => after(s).work[k] = st.work[k]
           Bad == {s \in SUBSET S : ~Kept(s)}
<1>1. /\ CoverShortages(L, st, m, amount) = after(S)
      /\ after({}) = Uncovered(st, m, amount)
      /\ \A s \in SUBSET S : s # {} =>
           after(s) = Pay(m, amount, after(s \ {LastToCover(s)}), LastToCover(s))
  <2>1. CoverShortages(L, st, m, amount) = after(S)
    BY PaymentSteps
  <2>2. after({}) = Uncovered(st, m, amount)
    BY PaymentSteps
  <2>3. ASSUME NEW s \in SUBSET S, s # {}
        PROVE  after(s) = Pay(m, amount, after(s \ {LastToCover(s)}), LastToCover(s))
    <3>1. PaysInOrder(L, st, m, amount)
      BY PaymentSteps
    <3> QED
      BY <2>3, <3>1 DEF PaysInOrder
  <2> HIDE DEF after, S
  <2> QED
    BY <2>1, <2>2, <2>3
<1> HIDE DEF S, after
<1>2. Bad = {}
  <2> SUFFICES ASSUME Bad # {} PROVE FALSE
    OBVIOUS
  <2>1. Bad \in SUBSET (SUBSET S) /\ IsFiniteSet(S)
    BY DEF Numbered, S
  <2> HIDE DEF Bad
  <2>2. PICK s \in Bad : \A u \in Bad : u \subseteq s => u = s
    BY <2>1, MinimalSubset
  <2>3. s \in SUBSET S /\ ~Kept(s)
    BY <2>2 DEF Bad
  <2>4. s # {}
    <3>1. after({}).work = st.work
      BY <1>1 DEF Uncovered
    <3>2. Kept({})
      BY <3>1
    <3> QED
      BY <2>3, <3>2
  <2> DEFINE j == LastToCover(s)
             u == s \ {j}
  <2>5. j \in s
    BY <2>3, <2>4, LastToCoverExists DEF S
  <2>6. u \in SUBSET S /\ u \subseteq s /\ u # s
    BY <2>3, <2>5
  <2>7. Kept(u)
    BY <2>2, <2>6 DEF Bad
  <2>8. after(s) = Pay(m, amount, after(u), j)
    BY <1>1, <2>3, <2>4
  <2>9. MovementKey(j) \in {MovementKey(i) : i \in S}
    BY <2>3, <2>5
  <2> HIDE DEF j, u
  <2>10. Kept(s)
    <3> DEFINE c == after(u)
    <3>1. WorkShaped(L, c.work)
      BY <2>7
    <3> HIDE DEF c
    <3>2. /\ WorkShaped(L, Pay(m, amount, c, j).work)
          /\ \A k \in KeysOf(L) : k # MovementKey(j) => Pay(m, amount, c, j).work[k] = c.work[k]
      BY <3>1, PayKeeps
    <3>3. WorkShaped(L, after(s).work)
      BY <2>8, <3>2 DEF c
    <3>4. ASSUME NEW k \in KeysOf(L), k \notin {MovementKey(i) : i \in S}
          PROVE  after(s).work[k] = st.work[k]
      <4>1. c.work[k] = st.work[k]
        BY <2>7, <3>4 DEF c
      <4>2. k # MovementKey(j)
        BY <2>9, <3>4
      <4> QED
        BY <2>8, <3>2, <4>1, <4>2 DEF c
    <3> QED
      BY <3>3, <3>4
  <2> QED
    BY <2>3, <2>10
<1>3. Kept(S)
  BY <1>2
<1> QED
  BY <1>1, <1>3 DEF S

\* Visiting a movement keeps the work row of another one that lacks nothing,
\* or belongs to another balance.
LEMMA VisitKeeps ==
    ASSUME NEW L, Movements(L), Numbered(L), NEW prev, NEW st, WorkShaped(L, st.work), NEW m \in L
    PROVE  /\ WorkShaped(L, Visit(L, prev, st, m).work)
           /\ \A k \in L :
                k # m /\ (st.work[MovementKey(k)].short = 0 \/ Position(k) # Position(m)) =>
                Visit(L, prev, st, m).work[MovementKey(k)] = st.work[MovementKey(k)]
<1> DEFINE amount == IncomingAmount(L, prev, m)
           kept(work) ==
             /\ WorkShaped(L, work)
             /\ \A k \in L :
                  k # m /\ (st.work[MovementKey(k)].short = 0 \/ Position(k) # Position(m)) =>
                  work[MovementKey(k)] = st.work[MovementKey(k)]
<1>1. m.quant \in Int /\ m.quant # 0 /\ MovementKey(m) \in KeysOf(L)
  BY DEF Movements, Counted, KeysOf
<1>2. \A k \in L : k # m => MovementKey(k) # MovementKey(m) /\ MovementKey(k) \in KeysOf(L)
  BY DEF Movements, Counted, Named, KeysOf
<1>3. ASSUME NEW work, kept(work), NEW entry PROVE kept([work EXCEPT ![MovementKey(m)] = entry])
  BY <1>2, <1>3 DEF WorkShaped
<1>4. kept(st.work)
  OBVIOUS
<1>5. CASE m.quant > 0 /\ amount = Null
  <2> DEFINE entry == [st.work[MovementKey(m)] EXCEPT !.pending = TRUE]
  <2>1. Visit(L, prev, st, m) = ReceiveUnvalued(st, m)
    BY <1>1, <1>5 DEF Visit
  <2>2. ReceiveUnvalued(st, m).work = [st.work EXCEPT ![MovementKey(m)] = entry]
    BY DEF ReceiveUnvalued
  <2> HIDE DEF entry, amount
  <2>3. kept([st.work EXCEPT ![MovementKey(m)] = entry])
    BY <1>3, <1>4
  <2> QED
    BY <2>1, <2>2, <2>3
<1>6. CASE m.quant > 0 /\ amount # Null
  <2> DEFINE covered == CoverShortages(L, st, m, amount).work
             entry == [known |-> amount, short |-> 0, pending |-> FALSE]
  <2>1. Visit(L, prev, st, m) = ReceiveValued(L, st, m, amount)
    BY <1>1, <1>6 DEF Visit
  <2>2. ReceiveValued(L, st, m, amount).work = [covered EXCEPT ![MovementKey(m)] = entry]
    BY DEF ReceiveValued
  <2>3. /\ Shortages(L, st, m) \in SUBSET L
        /\ \A j \in Shortages(L, st, m) : st.work[MovementKey(j)].short > 0 /\ Position(j) = Position(m)
    BY DEF Shortages
  <2>4. Numbered(Shortages(L, st, m))
    BY <2>3, FS_Subset DEF Numbered
  <2>5. ASSUME NEW k \in L, st.work[MovementKey(k)].short = 0 \/ Position(k) # Position(m)
        PROVE  MovementKey(k) \notin {MovementKey(j) : j \in Shortages(L, st, m)}
    <3>1. \A j \in Shortages(L, st, m) : MovementKey(j) = MovementKey(k) => j = k
      BY <2>3 DEF Movements, Counted, Named
    <3> QED
      BY <2>3, <2>5, <3>1
  <2>6. /\ WorkShaped(L, covered)
        /\ \A k \in KeysOf(L) : k \notin {MovementKey(j) : j \in Shortages(L, st, m)} =>
             covered[k] = st.work[k]
    BY <2>4, CoverKeeps
  <2> HIDE DEF covered, entry, amount
  <2>7. kept(covered)
    BY <1>2, <2>5, <2>6
  <2>8. kept([covered EXCEPT ![MovementKey(m)] = entry])
    BY <1>3, <2>7
  <2> QED
    BY <2>1, <2>2, <2>8
<1>7. CASE m.quant < 0
  <2>1. Visit(L, prev, st, m) = Issue(st, m)
    <3>1. ~(m.quant > 0)
      BY <1>1, <1>7
    <3> QED
      BY <1>7, <3>1 DEF Visit
  <2>2. PICK entry : Issue(st, m).work = [st.work EXCEPT ![MovementKey(m)] = entry]
    BY DEF Issue
  <2>3. kept([st.work EXCEPT ![MovementKey(m)] = entry])
    BY <1>3, <1>4
  <2> HIDE DEF amount
  <2> QED
    BY <2>1, <2>2, <2>3
<1> QED
  BY <1>1, <1>5, <1>6, <1>7

\* The replay keeps the shape of its work rows.
LEMMA ReplayShaped ==
    ASSUME NEW L, Movements(L), Numbered(L), NEW prev, NEW s \in SUBSET L
    PROVE  WorkShaped(L, ReplayState(L, prev, s).work)
<1> DEFINE Bad == {t \in SUBSET L : ~WorkShaped(L, ReplayState(L, prev, t).work)}
<1> SUFFICES ASSUME Bad # {} PROVE FALSE
  OBVIOUS
<1>0. Bad \in SUBSET (SUBSET L) /\ IsFiniteSet(L) /\ Named(L)
  BY DEF Movements, Counted, Named
<1> HIDE DEF Bad
<1>1. PICK t \in Bad : \A u \in Bad : u \subseteq t => u = t
  BY <1>0, MinimalSubset
<1>2. t \in SUBSET L /\ ~WorkShaped(L, ReplayState(L, prev, t).work)
  BY <1>1 DEF Bad
<1>3. t # {}
  <2>1. ReplayState(L, prev, {}) = InitialReplay(L)
    BY <1>0, ReplaySteps
  <2>2. WorkShaped(L, InitialReplay(L).work)
    BY DEF InitialReplay, WorkShaped, KeysOf
  <2> QED
    BY <1>2, <2>1, <2>2
<1> DEFINE m == LastRow(t)
           u == t \ {m}
<1>4. m \in t /\ m \in L
  BY <1>0, <1>2, <1>3, LastOfRows
<1>5. u \in SUBSET L /\ u \subseteq t /\ u # t
  BY <1>2, <1>4
<1>6. WorkShaped(L, ReplayState(L, prev, u).work)
  BY <1>1, <1>5 DEF Bad
<1>7. ReplayState(L, prev, t) = Visit(L, prev, ReplayState(L, prev, u), m)
  BY <1>0, <1>2, <1>3, ReplaySteps
<1> HIDE DEF m, u
<1> QED
  BY <1>2, <1>4, <1>6, <1>7, VisitKeeps

\* A movement that lacks nothing when the replay has come to it keeps its
\* amount to the end of the replay.
LEMMA ReplayKeeps ==
    ASSUME NEW L, Movements(L), Numbered(L), NEW prev, NEW s, Prefix(L, s), NEW k \in s,
           ReplayState(L, prev, s).work[MovementKey(k)].short = 0,
           NEW z, Prefix(L, z), s \subseteq z
    PROVE  ReplayState(L, prev, z).work[MovementKey(k)] = ReplayState(L, prev, s).work[MovementKey(k)]
<1> DEFINE w(t) == ReplayState(L, prev, t).work[MovementKey(k)]
           Bad == {t \in SUBSET L : Prefix(L, t) /\ s \subseteq t /\ w(t) # w(s)}
<1> SUFFICES ASSUME Bad # {} PROVE FALSE
  BY DEF Prefix
<1>0. Bad \in SUBSET (SUBSET L) /\ IsFiniteSet(L) /\ Named(L)
  BY DEF Movements, Counted, Named
<1> HIDE DEF Bad
<1>1. PICK t \in Bad : \A u \in Bad : u \subseteq t => u = t
  BY <1>0, MinimalSubset
<1>2. t \in SUBSET L /\ Prefix(L, t) /\ s \subseteq t /\ w(t) # w(s)
  BY <1>1 DEF Bad
<1>3. t # {} /\ s # t
  BY <1>2
<1> DEFINE m == LastRow(t)
           u == t \ {m}
<1>4. m \in t /\ m \in L /\ Prefix(L, u) /\ u = Before(L, m)
  BY <1>0, <1>2, <1>3, PrefixButLast DEF Before
<1>5. m \notin s
  <2>1. ASSUME m \in s PROVE u \subseteq s
    BY <1>4, <2>1 DEF Prefix, Before
  <2> QED
    BY <1>2, <1>3, <2>1
<1>6. u \in SUBSET L /\ u \subseteq t /\ u # t /\ s \subseteq u
  BY <1>2, <1>4, <1>5
<1>7. w(u) = w(s)
  BY <1>1, <1>4, <1>6 DEF Bad
<1>8. ReplayState(L, prev, t) = Visit(L, prev, ReplayState(L, prev, u), m)
  <2>1. Named(L) /\ t \in SUBSET L /\ t # {}
    BY <1>0, <1>2, <1>3
  <2> QED
    BY <2>1, ReplaySteps
<1>9. WorkShaped(L, ReplayState(L, prev, u).work)
  BY <1>6, ReplayShaped
<1> HIDE DEF m, u
<1>10. k \in L /\ k # m /\ w(u).short = 0
  BY <1>2, <1>5, <1>7
<1>11. w(t) = w(u)
  BY <1>4, <1>8, <1>9, <1>10, VisitKeeps
<1> QED
  BY <1>2, <1>7, <1>11

-----------------------------------------------------------------------------
(* What a pass stores.                                                     *)

\* Among numbers there is a least one.
LEMMA LeastNumber ==
    ASSUME NEW T \in SUBSET Nat, T # {}
    PROVE  \E n \in T : \A k \in T : n <= k
<1>1. PICK top \in T : TRUE
  OBVIOUS
<1> DEFINE low == {n \in T : n <= top}
           F == {0..n : n \in low}
           I == 0..top
<1>2. IsFiniteSet(I)
  BY FS_Interval
<1>3. F # {} /\ F \in SUBSET (SUBSET I)
  <2>1. top \in low
    BY <1>1
  <2>2. \A n \in low : 0..n \in SUBSET I
    BY <1>1
  <2> HIDE DEF low
  <2> QED
    BY <2>1, <2>2
<1> HIDE DEF F, I
<1>4. PICK x \in F : \A y \in F : y \subseteq x => y = x
  BY <1>2, <1>3, MinimalSubset
<1>5. PICK n \in low : x = 0..n
  BY <1>4 DEF F
<1>6. ASSUME NEW k \in T, k < n PROVE FALSE
  <2>1. k \in low
    BY <1>1, <1>5, <1>6
  <2>2. 0..k \in F
    BY <2>1 DEF F
  <2>3. 0..k \subseteq x
    BY <1>5, <1>6
  <2>4. n \in 0..n /\ n \notin 0..k
    BY <1>5, <1>6
  <2> QED
    BY <1>4, <1>5, <2>2, <2>3, <2>4
<1> QED
  BY <1>5, <1>6

\* What a pass stores for a movement.
LEMMA PassValue ==
    ASSUME NEW L, Named(L), NEW prev, NEW m \in L
    PROVE  Pass(L, prev)[MovementKey(m)] = StoredValue(m, Replay(L, prev).work[MovementKey(m)])
<1> DEFINE row(k) == CHOOSE n \in L : MovementKey(n) = k
<1>1. row(MovementKey(m)) = m
  BY DEF Named
<1>2. Pass(L, prev) = [k \in {MovementKey(n) : n \in L} |-> StoredValue(row(k), Replay(L, prev).work[k])]
  BY DEF Pass
<1> HIDE DEF row
<1> QED
  BY <1>1, <1>2

\* What is stored for a clear movement.
LEMMA StoredWhenClear ==
    ASSUME NEW m, m.quant \in Int, m.quant # 0, NEW w, Clear(w)
    PROVE  StoredValue(m, w) = [amount |-> Signed(m, w.known), pending |-> FALSE]
BY DEF StoredValue, Signed, Clear

\* The stored amounts of the rows.
WorthBy(L, v) == [m \in L |-> v[MovementKey(m)].amount]

\* A balance is worth something, and an empty one nothing.
Solvent(worth, s, p) ==
    /\ Sum(worth, Held(s, p)) \in Nat
    /\ QuantOf(Held(s, p)) = 0 => Sum(worth, Held(s, p)) = 0

\* The rows s have their values: each movement its cost, with the sign of
\* the movement, and each balance is solvent after each of them.
Settles(L, s, prev, v) ==
    /\ \A m \in s :
          /\ v[MovementKey(m)] = [amount |-> Cost(L, prev, WorthBy(L, v), m), pending |-> FALSE]
          /\ v[MovementKey(m)].amount \in Int
          /\ m.quant > 0 => v[MovementKey(m)].amount >= 0
          /\ m.quant < 0 => v[MovementKey(m)].amount <= 0
    /\ \A t : Prefix(L, t) /\ t \subseteq s =>
          \A p \in PositionsOf(L) : Solvent(WorthBy(L, v), t, p)

\* Costs depend on what earlier movements are worth and on what was sent.
LEMMA CostSame ==
    ASSUME NEW L, Named(L), NEW prev, NEW other, NEW worth, NEW value, NEW m \in L,
           \A k \in Before(L, m) : worth[k] = value[k],
           Arrives(m) => prev[SentKey(m)].amount = other[SentKey(m)].amount
    PROVE  Cost(L, prev, worth, m) = Cost(L, other, value, m)
<1> DEFINE earlier == Held(Before(L, m), Position(m))
<1>1. earlier \in SUBSET L /\ \A k \in earlier : worth[k] = value[k]
  BY DEF Held, Before
<1>2. IsFiniteSet(earlier)
  BY <1>1, FS_Subset DEF Named
<1> HIDE DEF earlier
<1>3. Sum(worth, earlier) = Sum(value, earlier)
  BY <1>1, <1>2, SumSame
<1>4. IncomingAmount(L, prev, m) = IncomingAmount(L, other, m)
  BY DEF IncomingAmount, Arrives, SentKey
<1> QED
  BY <1>3, <1>4 DEF Cost, KnownAmount, earlier

\* A pass gives the first movements their values, when none of them
\* overdraws and it knows what was sent.
LEMMA PassSettles ==
    ASSUME NEW L, Movements(L), Numbered(L), NEW prev, NEW s, Prefix(L, s),
           \A m \in s : ~Overdraws(L, m), SentKnown(prev, s)
    PROVE  Settles(L, s, prev, Pass(L, prev))
<1> DEFINE st(t) == ReplayState(L, prev, t)
           v == Pass(L, prev)
           W == WorthIn(L, st(s))
           V == WorthBy(L, v)
<1>1. Named(L) /\ s \in SUBSET L /\ Prefix(L, L) /\ \A m \in L : m.quant \in Int /\ m.quant # 0
  BY DEF Movements, Counted, Prefix
<1>2. ASSUME NEW t, Prefix(L, t), t \subseteq s PROVE Sound(L, prev, t, st(t))
  <2>1. (\A m \in t : ~Overdraws(L, m)) /\ SentKnown(prev, t)
    BY <1>2 DEF SentKnown
  <2> QED
    BY <1>2, <2>1, SoundReplay
<1>3. Sound(L, prev, s, st(s))
  BY <1>2
<1> HIDE DEF v
<1>4. ASSUME NEW t, Prefix(L, t), t \subseteq s, NEW m \in t
      PROVE  WorthIn(L, st(t))[m] = V[m] /\ v[MovementKey(m)] = [amount |-> V[m], pending |-> FALSE]
  <2>1. m \in L /\ t \subseteq L /\ m.quant \in Int /\ m.quant # 0
    BY <1>1, <1>4
  <2>2. Clear(st(t).work[MovementKey(m)])
    BY <1>2, <1>4, <2>1 DEF Sound
  <2>3. st(L).work[MovementKey(m)] = st(t).work[MovementKey(m)]
    BY <1>1, <1>4, <2>1, <2>2, ReplayKeeps DEF Clear
  <2>4. Replay(L, prev) = st(L)
    BY <1>1, ReplaySteps
  <2>5. v[MovementKey(m)] = StoredValue(m, st(t).work[MovementKey(m)])
    BY <1>1, <2>1, <2>3, <2>4, PassValue DEF v
  <2>6. v[MovementKey(m)] = [amount |-> Signed(m, st(t).work[MovementKey(m)].known), pending |-> FALSE]
    BY <2>1, <2>2, <2>5, StoredWhenClear
  <2> HIDE DEF st
  <2>7. WorthIn(L, st(t))[m] = Signed(m, st(t).work[MovementKey(m)].known)
    BY <2>1 DEF WorthIn
  <2>8. V[m] = v[MovementKey(m)].amount
    BY <2>1 DEF WorthBy
  <2> QED
    BY <2>6, <2>7, <2>8
<1> HIDE DEF st
<1>5. ASSUME NEW m \in s
      PROVE  /\ v[MovementKey(m)] = [amount |-> Cost(L, prev, V, m), pending |-> FALSE]
             /\ v[MovementKey(m)].amount \in Int
             /\ m.quant > 0 => v[MovementKey(m)].amount >= 0
             /\ m.quant < 0 => v[MovementKey(m)].amount <= 0
  <2>1. m \in L /\ m.quant \in Int
    BY <1>1
  <2>2. W[m] = V[m] /\ v[MovementKey(m)] = [amount |-> V[m], pending |-> FALSE]
    BY <1>4
  <2>3. W[m] = Cost(L, prev, W, m)
    BY <1>3 DEF Sound
  <2>4. \A k \in Before(L, m) : W[k] = V[k]
    BY <1>4 DEF Before, Prefix
  <2> HIDE DEF V
  <2>5. Cost(L, prev, W, m) = Cost(L, prev, V, m)
    BY <1>1, <2>1, <2>4, CostSame
  <2>6. W[m] = Signed(m, st(s).work[MovementKey(m)].known)
    BY <2>1 DEF WorthIn
  <2>7. st(s).work[MovementKey(m)].known \in Nat
    BY <1>3, <2>1 DEF Sound, Clear
  <2> HIDE DEF W
  <2>8. v[MovementKey(m)].amount = W[m]
    BY <2>2
  <2> QED
    BY <2>1, <2>2, <2>3, <2>5, <2>6, <2>7, <2>8 DEF Signed
<1>6. ASSUME NEW t, Prefix(L, t), t \subseteq s, NEW p \in PositionsOf(L)
      PROVE  Solvent(V, t, p)
  <2> DEFINE T == WorthIn(L, st(t))
  <2>1. Stocked(T, t, st(t).stock[p], p)
    BY <1>2, <1>6 DEF Sound, st
  <2>2. Held(t, p) \in SUBSET t /\ IsFiniteSet(Held(t, p))
    BY <1>1, <1>6, FS_Subset DEF Held, Named
  <2>3. \A k \in Held(t, p) : T[k] = V[k]
    BY <1>4, <1>6, <2>2
  <2> HIDE DEF T, V
  <2>4. Sum(T, Held(t, p)) = Sum(V, Held(t, p))
    BY <2>2, <2>3, SumSame
  <2> QED
    BY <2>1, <2>4 DEF Stocked, Solvent
<1> QED
  BY <1>5, <1>6 DEF Settles, v, V

\* Two ways to value the first movements agree as far as what was sent does.
LEMMA SettledOnce ==
    ASSUME NEW L, Named(L), NEW s, Prefix(L, s),
           NEW prev, NEW v, Settles(L, s, prev, v),
           NEW other, NEW z, Settles(L, s, other, z),
           \A m \in s : Arrives(m) => prev[SentKey(m)].amount = other[SentKey(m)].amount
    PROVE  \A m \in s : v[MovementKey(m)] = z[MovementKey(m)]
<1> DEFINE Bad == {t \in SUBSET s : Prefix(L, t) /\ \E m \in t : v[MovementKey(m)] # z[MovementKey(m)]}
<1>1. Bad = {}
  <2> SUFFICES ASSUME Bad # {} PROVE FALSE
    OBVIOUS
  <2>0. s \in SUBSET L /\ Bad \in SUBSET (SUBSET s) /\ IsFiniteSet(s)
    BY FS_Subset DEF Prefix, Named
  <2> HIDE DEF Bad
  <2>1. PICK t \in Bad : \A u \in Bad : u \subseteq t => u = t
    BY <2>0, MinimalSubset
  <2>2. t \in SUBSET s /\ Prefix(L, t) /\ \E m \in t : v[MovementKey(m)] # z[MovementKey(m)]
    BY <2>1 DEF Bad
  <2> DEFINE m == LastRow(t)
             u == t \ {m}
  <2>3. m \in t /\ m \in L /\ Prefix(L, u) /\ u = Before(L, m) /\ u \subseteq t /\ u # t
    BY <2>0, <2>2, PrefixButLast DEF Before
  <2> HIDE DEF m
  <2>4. \A k \in u : v[MovementKey(k)] = z[MovementKey(k)]
    BY <2>1, <2>2, <2>3 DEF Bad
  <2>5. v[MovementKey(m)] # z[MovementKey(m)]
    BY <2>2, <2>3, <2>4
  <2>6. \A k \in Before(L, m) : WorthBy(L, v)[k] = WorthBy(L, z)[k]
    BY <2>3, <2>4 DEF WorthBy, Before
  <2>7. Cost(L, prev, WorthBy(L, v), m) = Cost(L, other, WorthBy(L, z), m)
    BY <2>2, <2>3, <2>6, CostSame
  <2> QED
    BY <2>2, <2>3, <2>5, <2>7 DEF Settles
<1> QED
  BY <1>1

-----------------------------------------------------------------------------
(* The passes of the replay.                                               *)

\* B holds what is stored before the first pass and after each of them.
Passes(L, before, B, N) ==
    B = [n \in 0..N |-> IF n = 0 THEN before ELSE Pass(L, B[n - 1])]

\* There is such a function.
LEMMA PassesExist ==
    ASSUME NEW L, NEW before, NEW N \in Nat
    PROVE  \E B : Passes(L, before, B, N)
<1> DEFINE Bad == {n \in 0..N : ~\E B : Passes(L, before, B, n)}
<1> SUFFICES ASSUME Bad # {} PROVE FALSE
  OBVIOUS
<1>0. Bad \in SUBSET Nat
  OBVIOUS
<1> HIDE DEF Bad
<1>1. PICK n \in Bad : \A k \in Bad : n <= k
  BY <1>0, LeastNumber
<1>2. n \in 0..N /\ ~\E B : Passes(L, before, B, n)
  BY <1>1 DEF Bad
<1>3. CASE n = 0
  <2>1. Passes(L, before, [k \in 0..0 |-> before], 0)
    BY DEF Passes
  <2> QED
    BY <1>2, <1>3, <2>1
<1>4. CASE n # 0
  <2>1. n - 1 \in 0..N /\ n - 1 \notin Bad
    BY <1>1, <1>2, <1>4
  <2>2. PICK B : Passes(L, before, B, n - 1)
    BY <2>1 DEF Bad
  <2> DEFINE C == [k \in 0..n |-> IF k = n THEN Pass(L, B[n - 1]) ELSE B[k]]
  <2>3. \A k \in 0..(n - 1) : B[k] = IF k = 0 THEN before ELSE Pass(L, B[k - 1])
    BY <2>2 DEF Passes
  <2>4. \A k \in 0..(n - 1) : C[k] = B[k]
    BY <1>2
  <2>5. C[n] = Pass(L, B[n - 1])
    BY <1>2
  <2>6. C = [k \in 0..n |-> C[k]]
    OBVIOUS
  <2> HIDE DEF C
  <2>7. ASSUME NEW k \in 0..n PROVE C[k] = IF k = 0 THEN before ELSE Pass(L, C[k - 1])
    <3>1. CASE k = n
      <4>1. n - 1 \in 0..(n - 1)
        BY <1>2, <1>4
      <4> QED
        BY <1>4, <2>4, <2>5, <3>1, <4>1
    <3>2. CASE k # n
      <4>1. k \in 0..(n - 1) /\ (k # 0 => k - 1 \in 0..(n - 1))
        BY <1>2, <3>2
      <4> QED
        BY <2>3, <2>4, <4>1
    <3> QED
      BY <3>1, <3>2
  <2>8. Passes(L, before, C, n)
    BY <2>6, <2>7 DEF Passes
  <2> QED
    BY <1>2, <2>8
<1> QED
  BY <1>3, <1>4

\* There are more passes than transfers.
LEMMA PassesBound ==
    ASSUME NEW L, IsFiniteSet(L)
    PROVE  /\ MaxPasses(L) \in Nat /\ MaxPasses(L) >= 2
           /\ Cardinality({m \in L : m.type = "Transfer"}) < MaxPasses(L)
<1> DEFINE n == Cardinality({m \in L : m.type = "Transfer"})
           k == IF n + 1 >= 2 THEN n + 1 ELSE 2
<1>1. n \in Nat
  <2>1. IsFiniteSet({m \in L : m.type = "Transfer"})
    BY FS_Subset
  <2> QED
    BY <2>1, FS_CardinalityType
<1>2. MaxPasses(L) = Max({n + 1, 2})
  BY DEF MaxPasses
<1> HIDE DEF n
<1>3. k \in {n + 1, 2} /\ \A y \in {n + 1, 2} : k >= y
  BY <1>1
<1>4. \A x \in {n + 1, 2} : (\A y \in {n + 1, 2} : x >= y) => x = k
  BY <1>1
<1> HIDE DEF k
<1>5. Max({n + 1, 2}) = k
  BY <1>3, <1>4 DEF Max
<1> QED
  BY <1>1, <1>2, <1>5 DEF k, n

\* Revaluation is the last of the permitted passes.
LEMMA RevaluedPasses ==
    ASSUME NEW L, IsFiniteSet(L), NEW before
    PROVE  \E B : /\ Revalued(L, before) = B[MaxPasses(L)]
                  /\ B[0] = before
                  /\ \A n \in 1..MaxPasses(L) : B[n] = Pass(L, B[n - 1])
<1> DEFINE N == MaxPasses(L)
           A == CHOOSE B : Passes(L, before, B, N - 1)
<1>0. N \in Nat /\ N >= 2
  BY PassesBound
<1>2. Revalued(L, before) = Pass(L, A[N - 1])
  BY DEF Revalued, Passes
<1> HIDE DEF N
<1>1. N \in Nat /\ N >= 2 /\ N - 1 \in Nat
  BY <1>0
<1>3. Passes(L, before, A, N - 1)
  BY <1>1, PassesExist
<1> HIDE DEF A
<1>4. A[0] = before /\ \A n \in 1..(N - 1) : A[n] = Pass(L, A[n - 1])
  BY <1>1, <1>3 DEF Passes
<1> DEFINE B == [n \in 0..N |-> IF n = N THEN Pass(L, A[N - 1]) ELSE A[n]]
<1>5. B[N] = Pass(L, A[N - 1]) /\ \A n \in 0..(N - 1) : B[n] = A[n]
  BY <1>1
<1> HIDE DEF B
<1>6. B[0] = before
  BY <1>1, <1>4, <1>5
<1>7. ASSUME NEW n \in 1..N PROVE B[n] = Pass(L, B[n - 1])
  <2>1. n - 1 \in 0..(N - 1) /\ (n # N => n \in 1..(N - 1) /\ n \in 0..(N - 1))
    BY <1>1
  <2> QED
    BY <1>4, <1>5, <2>1
<1> QED
  BY <1>2, <1>5, <1>6, <1>7 DEF N

\* How many transfers have arrived through m.
Arrivals(L, m) == {k \in L : Arrives(k) /\ ~ReplayBefore(m, k)}
\* Their number.
ArrivalCount(L, m) == Cardinality(Arrivals(L, m))

\* Later movements have no fewer arrivals up to them, and an arrival has
\* more than what comes before it.
LEMMA ArrivalCounts ==
    ASSUME NEW L, Movements(L)
    PROVE  /\ \A m \in L : ArrivalCount(L, m) \in Nat /\ ArrivalCount(L, m) < MaxPasses(L)
           /\ \A m, k \in L : ReplayBefore(k, m) => ArrivalCount(L, k) <= ArrivalCount(L, m)
           /\ \A m, k \in L : ReplayBefore(k, m) /\ Arrives(m) => ArrivalCount(L, k) < ArrivalCount(L, m)
<1>1. Named(L) /\ IsFiniteSet(L) /\ \A m \in L : Placed(m)
  BY DEF Movements, Counted, Named
<1>2. ASSUME NEW m \in L
      PROVE  /\ Arrivals(L, m) \in SUBSET L /\ IsFiniteSet(Arrivals(L, m))
             /\ ArrivalCount(L, m) \in Nat /\ ArrivalCount(L, m) < MaxPasses(L)
  <2> DEFINE moved == {n \in L : n.type = "Transfer"}
  <2>1. Arrivals(L, m) \in SUBSET moved /\ IsFiniteSet(moved)
    BY <1>1, FS_Subset DEF Arrivals, Arrives
  <2>2. ArrivalCount(L, m) <= Cardinality(moved) /\ IsFiniteSet(Arrivals(L, m))
    BY <2>1, FS_Subset DEF ArrivalCount
  <2>3. Cardinality(moved) \in Nat /\ ArrivalCount(L, m) \in Nat
    BY <2>1, <2>2, FS_CardinalityType DEF ArrivalCount
  <2>4. Cardinality(moved) < MaxPasses(L) /\ MaxPasses(L) \in Nat
    BY <1>1, PassesBound
  <2> QED
    BY <2>1, <2>2, <2>3, <2>4
<1>3. ASSUME NEW m \in L, NEW k \in L, ReplayBefore(k, m)
      PROVE  Arrivals(L, k) \in SUBSET Arrivals(L, m)
  <2> SUFFICES ASSUME NEW n \in L, ReplayBefore(m, n) PROVE ReplayBefore(k, n)
    BY DEF Arrivals
  <2> QED
    BY <1>1, <1>3, ReplayTransitive
<1>4. ASSUME NEW m \in L, NEW k \in L, ReplayBefore(k, m)
      PROVE  ArrivalCount(L, k) <= ArrivalCount(L, m)
  BY <1>2, <1>3, <1>4, FS_Subset DEF ArrivalCount
<1>5. ASSUME NEW m \in L, NEW k \in L, ReplayBefore(k, m), Arrives(m)
      PROVE  ArrivalCount(L, k) < ArrivalCount(L, m)
  <2>1. m \in Arrivals(L, m)
    BY <1>1, <1>5, ReplayIrreflexive DEF Arrivals
  <2>2. m \notin Arrivals(L, k)
    BY <1>5 DEF Arrivals
  <2>3. Arrivals(L, k) # Arrivals(L, m)
    BY <2>1, <2>2
  <2>4. ArrivalCount(L, k) # ArrivalCount(L, m)
    BY <1>2, <1>3, <1>5, <2>3, FS_Subset DEF ArrivalCount
  <2> QED
    BY <1>2, <1>4, <1>5, <2>4
<1> QED
  BY <1>2, <1>4, <1>5

\* What has been sent comes before what arrives.
LEMMA SentBefore ==
    ASSUME NEW L, Movements(L), NEW m \in L, Arrives(m)
    PROVE  \E k \in L : /\ MovementKey(k) = SentKey(m) /\ ReplayBefore(k, m)
                        /\ ArrivalCount(L, k) < ArrivalCount(L, m)
<1>1. PICK k \in L : MovementKey(k) = SentKey(m) /\ k.at = m.at
  BY DEF Movements
<1>2. k.type = m.type /\ k.rec = m.rec /\ k.item = m.item /\ k.order = 1 /\ m.order = 2
  BY <1>1 DEF MovementKey, SentKey, Arrives
<1>3. Placed(k) /\ Placed(m)
  BY DEF Movements, Counted, Named
<1>4. ReplayBefore(k, m)
  BY <1>1, <1>2, ReplayBeforeFields
<1> QED
  BY <1>1, <1>4, ArrivalCounts

\* The rows of s reached by fewer than n arrivals.
Reached(L, s, n) == {m \in s : ArrivalCount(L, m) < n}

\* What the first n passes have reached are first movements.
LEMMA ReachedIsPrefix ==
    ASSUME NEW L, Movements(L), NEW s, Prefix(L, s), NEW n \in Nat
    PROVE  Prefix(L, Reached(L, s, n))
<1> SUFFICES ASSUME NEW m \in Reached(L, s, n), NEW k \in L, ReplayBefore(k, m)
             PROVE  k \in Reached(L, s, n)
  BY DEF Prefix, Reached
<1>1. m \in L /\ k \in s /\ ArrivalCount(L, m) < n
  BY DEF Prefix, Reached
<1>2. ArrivalCount(L, k) <= ArrivalCount(L, m) /\ ArrivalCount(L, k) \in Nat /\ ArrivalCount(L, m) \in Nat
  BY <1>1, ArrivalCounts
<1> QED
  BY <1>1, <1>2 DEF Reached

\* What is settled for some movements is settled for fewer.
LEMMA SettlesFewer ==
    ASSUME NEW L, NEW s, NEW t, t \subseteq s, NEW prev, NEW v, Settles(L, s, prev, v)
    PROVE  Settles(L, t, prev, v)
BY DEF Settles

\* The n-th pass settles the rows that fewer than n arrivals reach.
LEMMA PassSettlesReached ==
    ASSUME NEW L, Movements(L), Numbered(L), NEW s, Prefix(L, s), \A m \in s : ~Overdraws(L, m),
           NEW N \in Nat, NEW B, \A n \in 1..N : B[n] = Pass(L, B[n - 1])
    PROVE  \A n \in 1..N : Settles(L, Reached(L, s, n), B[n - 1], B[n])
<1> DEFINE Good(n) == Settles(L, Reached(L, s, n), B[n - 1], B[n])
           Bad == {n \in 1..N : ~Good(n)}
<1> SUFFICES ASSUME Bad # {} PROVE FALSE
  OBVIOUS
<1>0. Bad \in SUBSET Nat
  OBVIOUS
<1> HIDE DEF Bad
<1>1. PICK n \in Bad : \A k \in Bad : n <= k
  BY <1>0, LeastNumber
<1>2. n \in 1..N /\ n \in Nat /\ ~Good(n)
  BY <1>1 DEF Bad
<1> DEFINE r == Reached(L, s, n)
<1>3. Prefix(L, r) /\ \A m \in r : ~Overdraws(L, m)
  BY <1>2, ReachedIsPrefix DEF Reached
<1>4. SentKnown(B[n - 1], r)
  <2> SUFFICES ASSUME NEW m \in r, Arrives(m) PROVE B[n - 1][SentKey(m)].amount \in Int
    BY DEF SentKnown
  <2>1. m \in s /\ m \in L /\ ArrivalCount(L, m) < n
    BY DEF Reached, Prefix
  <2>2. PICK k \in L : /\ MovementKey(k) = SentKey(m) /\ ReplayBefore(k, m)
                       /\ ArrivalCount(L, k) < ArrivalCount(L, m)
    BY <2>1, SentBefore
  <2>3. ArrivalCount(L, k) \in Nat /\ ArrivalCount(L, m) \in Nat
    BY <2>1, ArrivalCounts
  <2>4. n - 1 \in 1..N /\ ArrivalCount(L, k) < n - 1
    BY <1>2, <2>1, <2>2, <2>3
  <2>5. k \in Reached(L, s, n - 1)
    BY <2>1, <2>2, <2>4 DEF Reached, Prefix
  <2>6. n - 1 \notin Bad
    BY <1>1, <1>2
  <2>7. Good(n - 1)
    BY <2>4, <2>6 DEF Bad
  <2> QED
    BY <2>2, <2>5, <2>7 DEF Settles
<1> HIDE DEF r
<1>5. Settles(L, r, B[n - 1], Pass(L, B[n - 1]))
  BY <1>3, <1>4, PassSettles
<1> QED
  BY <1>2, <1>5 DEF r

\* Once reached, a row keeps its value from pass to pass.
LEMMA PassKeepsReached ==
    ASSUME NEW L, Movements(L), Numbered(L), NEW s, Prefix(L, s), \A m \in s : ~Overdraws(L, m),
           NEW N \in Nat, NEW B, \A n \in 1..N : B[n] = Pass(L, B[n - 1])
    PROVE  \A n \in 1..N : n < N =>
             \A m \in Reached(L, s, n) : B[n][MovementKey(m)] = B[n + 1][MovementKey(m)]
<1> DEFINE Good(n) == \A m \in Reached(L, s, n) : B[n][MovementKey(m)] = B[n + 1][MovementKey(m)]
           Bad == {n \in 1..N : n < N /\ ~Good(n)}
<1> SUFFICES ASSUME Bad # {} PROVE FALSE
  OBVIOUS
<1>0. Bad \in SUBSET Nat
  OBVIOUS
<1> HIDE DEF Bad
<1>1. PICK n \in Bad : \A k \in Bad : n <= k
  BY <1>0, LeastNumber
<1>2. n \in 1..N /\ n \in Nat /\ n < N /\ ~Good(n) /\ n + 1 \in 1..N /\ (n + 1) - 1 = n
  BY <1>1 DEF Bad
<1> DEFINE r == Reached(L, s, n)
<1>3. Prefix(L, r) /\ Named(L)
  BY <1>2, ReachedIsPrefix DEF Movements, Counted
<1>4. Settles(L, r, B[n - 1], B[n])
  BY <1>2, PassSettlesReached
<1>5. Settles(L, Reached(L, s, n + 1), B[n], B[n + 1])
  <2>1. Settles(L, Reached(L, s, n + 1), B[(n + 1) - 1], B[n + 1])
    BY <1>2, PassSettlesReached
  <2> QED
    BY <1>2, <2>1
<1>6. r \subseteq Reached(L, s, n + 1)
  <2> SUFFICES ASSUME NEW m \in r PROVE ArrivalCount(L, m) < n + 1
    BY DEF Reached
  <2>1. m \in L /\ ArrivalCount(L, m) < n
    BY DEF Reached, Prefix
  <2>2. ArrivalCount(L, m) \in Nat
    BY <2>1, ArrivalCounts
  <2> QED
    BY <1>2, <2>1, <2>2
<1>7. Settles(L, r, B[n], B[n + 1])
  BY <1>5, <1>6, SettlesFewer
<1>8. ASSUME NEW m \in r, Arrives(m) PROVE B[n - 1][SentKey(m)].amount = B[n][SentKey(m)].amount
  <2>1. m \in s /\ m \in L /\ ArrivalCount(L, m) < n
    BY DEF Reached, Prefix
  <2>2. PICK k \in L : /\ MovementKey(k) = SentKey(m) /\ ReplayBefore(k, m)
                       /\ ArrivalCount(L, k) < ArrivalCount(L, m)
    BY <1>8, <2>1, SentBefore
  <2>3. ArrivalCount(L, k) \in Nat /\ ArrivalCount(L, m) \in Nat
    BY <2>1, ArrivalCounts
  <2>4. n - 1 \in 1..N /\ n - 1 < N /\ ArrivalCount(L, k) < n - 1 /\ (n - 1) + 1 = n
    BY <1>2, <2>1, <2>2, <2>3
  <2>5. k \in Reached(L, s, n - 1)
    BY <2>1, <2>2, <2>4 DEF Reached, Prefix
  <2>6. n - 1 \notin Bad
    BY <1>1, <1>2
  <2>7. Good(n - 1)
    BY <2>4, <2>6 DEF Bad
  <2>8. B[n - 1][MovementKey(k)] = B[n][MovementKey(k)]
    BY <2>4, <2>5, <2>7
  <2> QED
    BY <2>2, <2>8
<1> HIDE DEF r
<1>9. \A m \in r : B[n][MovementKey(m)] = B[n + 1][MovementKey(m)]
  BY <1>3, <1>4, <1>7, <1>8, SettledOnce
<1> QED
  BY <1>2, <1>9 DEF r

\* The permitted passes are enough: whatever was stored before, the first
\* movements of a register, none of which overdraws, end up with values
\* that another pass would give them again.
LEMMA RevaluedSettles ==
    ASSUME NEW L, Movements(L), Numbered(L), NEW s, Prefix(L, s), \A m \in s : ~Overdraws(L, m),
           NEW before
    PROVE  Settles(L, s, Revalued(L, before), Revalued(L, before))
<1> DEFINE N == MaxPasses(L)
           v == Revalued(L, before)
<1>1. IsFiniteSet(L) /\ Named(L) /\ s \in SUBSET L
  BY DEF Movements, Counted, Named, Prefix
<1>2. N \in Nat /\ N >= 2
  BY <1>1, PassesBound
<1>3. PICK B : v = B[N] /\ \A n \in 1..N : B[n] = Pass(L, B[n - 1])
  BY <1>1, RevaluedPasses
<1>4. Reached(L, s, N) = s
  BY <1>1, ArrivalCounts DEF Reached
<1> HIDE DEF N, v
<1>5. N \in 1..N /\ N - 1 \in 1..N /\ N - 1 < N /\ (N - 1) + 1 = N
  BY <1>2
<1>6. Settles(L, s, B[N - 1], v)
  BY <1>2, <1>3, <1>4, <1>5, PassSettlesReached
<1>7. ASSUME NEW m \in s, Arrives(m) PROVE B[N - 1][SentKey(m)].amount = v[SentKey(m)].amount
  <2>1. PICK k \in L : /\ MovementKey(k) = SentKey(m) /\ ReplayBefore(k, m)
                       /\ ArrivalCount(L, k) < ArrivalCount(L, m)
    BY <1>1, <1>7, SentBefore
  <2>2. /\ ArrivalCount(L, k) \in Nat /\ ArrivalCount(L, m) \in Nat
        /\ ArrivalCount(L, m) < N
    BY <1>1, ArrivalCounts DEF N
  <2>3. k \in Reached(L, s, N - 1)
    BY <1>2, <2>1, <2>2 DEF Reached, Prefix
  <2>4. B[N - 1][MovementKey(k)] = B[(N - 1) + 1][MovementKey(k)]
    BY <1>2, <1>3, <1>5, <2>3, PassKeepsReached
  <2> QED
    BY <1>3, <1>5, <2>1, <2>4
<1>8. ASSUME NEW m \in s
      PROVE  Cost(L, B[N - 1], WorthBy(L, v), m) = Cost(L, v, WorthBy(L, v), m)
  BY <1>1, <1>7, CostSame
<1>9. Settles(L, s, v, v)
  BY <1>6, <1>8 DEF Settles
<1> QED
  BY <1>9 DEF v

-----------------------------------------------------------------------------
(* The register is a set of movements the replay can value.                *)

\* A row the document of m posts for another movement of the same line.
LEMMA SiblingRow ==
    ASSUME LedgerMatchesDocuments, RowsStand, NEW d \in Present,
           NEW x \in RowIndexes(d, docs[d])
    PROVE  \E k \in ledger : PostedBy(k, d, docs[d], x, excludeVat)
<1> DEFINE r == Row(d, docs[d], x[1], x[2], excludeVat, 0)
<1>1. r \in Posted
  BY DEF Posted, DocumentRows
<1>2. PICK k \in ledger : r = Content(k)
  BY <1>1, LedgerMatchesPosted DEF Contents
<1>3. PICK e \in Present : \E y \in RowIndexes(e, docs[e]) : PostedBy(k, e, docs[e], y, excludeVat)
  BY RowsHaveDocuments
<1>4. PICK y \in RowIndexes(e, docs[e]) : PostedBy(k, e, docs[e], y, excludeVat)
  BY <1>3
<1>5. Storable(d, docs[d]) /\ Storable(e, docs[e]) /\ d \in Documents /\ e \in Documents
  BY DEF RowsStand, DocumentsStorable, Present
<1>6. Content(k) = Row(e, docs[e], y[1], y[2], excludeVat, 0)
  BY <1>4 DEF PostedBy, Content, Row
<1>7. /\ TypeOf(d) = TypeOf(e) /\ IdOf(d) = IdOf(e)
      /\ docs[d].items[x[1]].id = docs[e].items[y[1]].id /\ x[2] = y[2]
  <2>1. r = Row(e, docs[e], y[1], y[2], excludeVat, 0)
    BY <1>2, <1>6
  <2>2. /\ r.type = TypeOf(d) /\ r.rec = IdOf(d) /\ r.item = docs[d].items[x[1]].id
        /\ r.order = x[2]
    BY RowSays
  <2> HIDE DEF r
  <2>3. /\ r.type = TypeOf(e) /\ r.rec = IdOf(e) /\ r.item = docs[e].items[y[1]].id
        /\ r.order = y[2]
    BY <2>1, RowSays
  <2> QED
    BY <2>2, <2>3
<1>8. d = e
  BY <1>5, <1>7, TypesOfDocuments
<1>9. x[1] \in DOMAIN docs[d].items /\ y[1] \in DOMAIN docs[d].items
  BY <1>8 DEF RowIndexes
<1>10. x[1] = y[1]
  BY <1>5, <1>7, <1>8, <1>9, StorableBody
<1>11. x = y
  BY <1>7, <1>8, <1>10 DEF RowIndexes
<1> QED
  BY <1>4, <1>8, <1>11

\* The row that a transfer brings in has a row that it takes out.
LEMMA ArrivalsWereSent ==
    ASSUME LedgerMatchesDocuments, RowsStand, NEW m \in ledger, Arrives(m)
    PROVE  \E k \in ledger : MovementKey(k) = SentKey(m) /\ k.at = m.at
<1>1. PICK d \in Present : \E y \in RowIndexes(d, docs[d]) : PostedBy(m, d, docs[d], y, excludeVat)
  BY RowsHaveDocuments
<1>2. PICK y \in RowIndexes(d, docs[d]) : PostedBy(m, d, docs[d], y, excludeVat)
  BY <1>1
<1> DEFINE x == <<y[1], 1>>
<1>3. /\ m.type = TypeOf(d) /\ m.rec = IdOf(d) /\ m.item = docs[d].items[y[1]].id
      /\ m.at = docs[d].at
  BY <1>2, RowSays DEF PostedBy
<1>4. x \in RowIndexes(d, docs[d])
  BY <1>2, <1>3 DEF RowIndexes, RowsPerItem, Arrives
<1>5. x[1] = y[1] /\ x[2] = 1
  OBVIOUS
<1> HIDE DEF x
<1>6. PICK k \in ledger : PostedBy(k, d, docs[d], x, excludeVat)
  BY <1>4, SiblingRow
<1>7. /\ k.type = TypeOf(d) /\ k.rec = IdOf(d) /\ k.item = docs[d].items[y[1]].id
      /\ k.at = docs[d].at /\ k.order = 1
  BY <1>5, <1>6, RowSays DEF PostedBy
<1> QED
  BY <1>3, <1>7 DEF MovementKey, SentKey

\* The rows of the register are movements that the replay can value.
LEMMA LedgerIsMovements ==
    ASSUME LedgerMatchesDocuments, RowsStand
    PROVE  Movements(ledger) /\ Numbered(ledger)
<1>1. Counted(ledger)
  BY LedgerIsCounted
<1>2. ASSUME NEW m \in ledger
      PROVE  /\ m.quant # 0
             /\ m.quant < 0 <=> m.type = "Consumption" \/ (m.type = "Transfer" /\ m.order = 1)
             /\ m.type = "Transfer" => m.order \in {1, 2}
             /\ m.type = "Receipt" => m.source \in Nat
  <2>1. PICK d \in Present : \E x \in RowIndexes(d, docs[d]) : PostedBy(m, d, docs[d], x, excludeVat)
    BY RowsHaveDocuments
  <2>2. PICK x \in RowIndexes(d, docs[d]) : PostedBy(m, d, docs[d], x, excludeVat)
    BY <2>1
  <2>3. m.id \in Nat
    BY DEF RowsStand, Distinct
  <2> QED
    BY <2>2, <2>3, PostedRowSays
<1>3. Movements(ledger)
  BY <1>1, <1>2, ArrivalsWereSent DEF Movements
<1>4. Numbered(ledger)
  BY <1>1 DEF Numbered, RowsStand, Distinct, Counted, Named, Placed
<1> QED
  BY <1>3, <1>4

-----------------------------------------------------------------------------
(* The stored values are what the replay calculates.                       *)

\* Whatever was stored before, the values are those of a whole replay.
Revaluated == ledger # {} => \E before : val = Revalued(ledger, before)

\* Every step that changes the rows values them anew.
LEMMA RevaluatedStep == ASSUME Revaluated, [Next]_vars PROVE Revaluated'
<1>1. ASSUME NEW kept, val' = Revalue(kept, ledger') PROVE Revaluated'
  BY <1>1 DEF Revaluated, Revalue
<1>2. CASE UNCHANGED vars
  BY <1>2 DEF Revaluated, vars
<1>3. ASSUME NEW d \in Documents, NEW body \in Bodies[TypeOf(d)], Create(d, body) PROVE Revaluated'
  BY <1>1, <1>3 DEF Create
<1>4. ASSUME NEW d \in Documents, NEW body \in Bodies[TypeOf(d)], Update(d, body) PROVE Revaluated'
  BY <1>1, <1>4 DEF Update
<1>5. ASSUME NEW d \in Documents, Delete(d) PROVE Revaluated'
  BY <1>1, <1>5 DEF Delete
<1>6. ASSUME NEW allow \in BOOLEAN, SetNegativePolicy(allow) PROVE Revaluated'
  BY <1>1, <1>6 DEF SetNegativePolicy
<1>7. ASSUME NEW noVat \in VatFlags, NEW allow \in BOOLEAN, SetVatBasis(noVat, allow) PROVE Revaluated'
  BY <1>1, <1>7 DEF SetVatBasis
<1>8. CASE Recalculate
  BY <1>1, <1>8 DEF Recalculate
<1>9. ASSUME NEW day \in Days, Close(day) PROVE Revaluated'
  BY <1>1, <1>9 DEF Close
<1>10. CASE Reopen
  BY <1>1, <1>10 DEF Reopen
<1> QED
  BY <1>2, <1>3, <1>4, <1>5, <1>6, <1>7, <1>8, <1>9, <1>10 DEF Next

\* The stored values are those of a whole replay of the stored rows.
LEMMA RevaluatedAlways == Spec => []Revaluated
<1>1. Init => Revaluated
  BY DEF Init, Revaluated
<1> QED
  BY <1>1, RevaluatedStep, PTL DEF Spec

\* The first movements of the register, none of which overdraws, have their
\* values, and another pass would give them the same.
LEMMA LedgerSettled ==
    ASSUME LedgerMatchesDocuments, RowsStand, Revaluated,
           NEW s, Prefix(ledger, s), \A m \in s : ~Overdraws(ledger, m)
    PROVE  Settles(ledger, s, val, val)
<1>1. Movements(ledger) /\ Numbered(ledger)
  BY LedgerIsMovements
<1>2. CASE ledger # {}
  <2>1. PICK before : val = Revalued(ledger, before)
    BY <1>2 DEF Revaluated
  <2> QED
    BY <1>1, <2>1, RevaluedSettles
<1>3. CASE ledger = {}
  <2>1. s = {} /\ PositionsOf(ledger) = {}
    BY <1>3 DEF Prefix, PositionsOf
  <2> QED
    BY <2>1 DEF Settles
<1> QED
  BY <1>2, <1>3

-----------------------------------------------------------------------------
(* A register that never goes negative.                                    *)

\* What is stored with a row that has its value.
LEMMA SettledPending ==
    ASSUME NEW L, NEW s, NEW prev, NEW v, Settles(L, s, prev, v), NEW m \in s
    PROVE  v[MovementKey(m)].pending = FALSE
<1> DEFINE c == Cost(L, prev, WorthBy(L, v), m)
           r == v[MovementKey(m)]
<1>1. r = [amount |-> c, pending |-> FALSE]
  BY DEF Settles
<1> HIDE DEF c, r
<1>2. r.pending = FALSE
  BY <1>1
<1> QED
  BY <1>2 DEF r

\* A settled movement has an amount.
LEMMA SettledAmount ==
    ASSUME NEW L, NEW s, NEW prev, NEW v, Settles(L, s, prev, v), NEW m \in s
    PROVE  v[MovementKey(m)].amount \in Int
BY DEF Settles

\* A settled movement costs what the movements before it say.
LEMMA SettledCost ==
    ASSUME NEW L, NEW s, NEW prev, NEW v, Settles(L, s, prev, v), NEW m \in s
    PROVE  v[MovementKey(m)].amount = Cost(L, prev, WorthBy(L, v), m)
<1> DEFINE c == Cost(L, prev, WorthBy(L, v), m)
           r == v[MovementKey(m)]
<1>1. r = [amount |-> c, pending |-> FALSE]
  BY DEF Settles
<1> HIDE DEF c, r
<1>2. r.amount = c
  BY <1>1
<1> QED
  BY <1>2 DEF r, c

\* Without overdrafts every amount is known, and what a transfer takes out it
\* brings in.
LEMMA NothingLost ==
    ASSUME LedgerMatchesDocuments, RowsStand, Revaluated
    PROVE  ConservedWithoutShortages
<1> SUFFICES ASSUME NeverNegative(ledger)
             PROVE  /\ \A m \in ledger : ~Unvalued(val, m)
                    /\ \A m, k \in ledger :
                         /\ m.type = "Transfer" /\ k.type = "Transfer"
                         /\ m.rec = k.rec /\ m.item = k.item /\ m.order = 1 /\ k.order = 2
                         => val[MovementKey(m)].amount + val[MovementKey(k)].amount = 0
  BY DEF ConservedWithoutShortages
<1>1. Prefix(ledger, ledger)
  BY DEF Prefix
<1>2. Settles(ledger, ledger, val, val)
  BY <1>1, LedgerSettled DEF NeverNegative
<1>3. ASSUME NEW m \in ledger PROVE ~Unvalued(val, m)
  <2>1. val[MovementKey(m)].amount \in Int /\ val[MovementKey(m)].pending = FALSE
    BY <1>2, SettledAmount, SettledPending
  <2> QED
    BY <2>1, NullAssumption DEF Unvalued
<1>4. ASSUME NEW m \in ledger, NEW k \in ledger,
             m.type = "Transfer" /\ k.type = "Transfer",
             m.rec = k.rec /\ m.item = k.item /\ m.order = 1 /\ k.order = 2
      PROVE  val[MovementKey(m)].amount + val[MovementKey(k)].amount = 0
  <2> DEFINE sent == val[MovementKey(m)].amount
             come == val[MovementKey(k)].amount
  <2>1. Movements(ledger)
    BY LedgerIsMovements
  <2>2. m.quant < 0 /\ k.quant > 0 /\ k.quant \in Int /\ m.quant \in Int
    BY <1>4, <2>1 DEF Movements, Counted
  <2>3. Arrives(k) /\ SentKey(k) = MovementKey(m)
    BY <1>4 DEF Arrives, SentKey, MovementKey
  <2>4. sent \in Int /\ sent <= 0 /\ come \in Int
    BY <1>2, <2>2 DEF Settles
  <2>5. come = Cost(ledger, val, WorthBy(ledger, val), k)
    BY <1>2, SettledCost
  <2>6. IncomingAmount(ledger, val, k) = IF sent = Null THEN Null ELSE IF sent < 0 THEN -sent ELSE sent
    BY <2>3 DEF IncomingAmount, Arrives, SentKey
  <2>7. come = IncomingAmount(ledger, val, k)
    BY <2>2, <2>5 DEF Cost, KnownAmount, Signed
  <2> HIDE DEF sent, come
  <2>8. sent + come = 0
    BY <2>4, <2>6, <2>7, NullAssumption
  <2> QED
    BY <2>8 DEF sent, come
<1> QED
  BY <1>3, <1>4

\* While no movement overdraws, every movement has its value and a transfer
\* brings in exactly what it took out, through whatever chain of transfers:
\* the passes the replay permits itself are enough for any register.
THEOREM ValueIsConserved == Spec => []ConservedWithoutShortages
<1>1. LedgerMatchesDocuments /\ RowsStand /\ Revaluated => ConservedWithoutShortages
  BY NothingLost
<1> QED
  BY <1>1, RegisterMatchesDocuments, RowsStandAlways, RevaluatedAlways, PTL

-----------------------------------------------------------------------------
(* Amounts of balances.                                                    *)

\* F holds the amount of every part of S.
AmountSums(F, S, v) ==
    F = [s \in SUBSET S |-> IF s = {} THEN 0
                            ELSE v[MovementKey(First(s))].amount + F[s \ {First(s)}]]

\* What movements are worth.
WorthOf(S, v) == MapThenSumSet(LAMBDA m : v[MovementKey(m)].amount, S)

\* The fold of the model is a chosen recursive function.
LEMMA WorthOfChosen == ASSUME NEW S, NEW v PROVE WorthOf(S, v) = (CHOOSE F : AmountSums(F, S, v))[S]
BY DEF WorthOf, AmountSums, First, MapThenSumSet, MapThenFoldSet

\* Both recursions define the same functions.
LEMMA AmountSumsAreSums ==
    ASSUME NEW S, NEW v, NEW q, \A m \in S : q[m] = v[MovementKey(m)].amount, NEW F
    PROVE  AmountSums(F, S, v) <=> Sums(F, q, S)
<1>1. \A s \in SUBSET S : s # {} => q[First(s)] = v[MovementKey(First(s))].amount
  BY FirstIsMember
<1> QED
  BY <1>1 DEF AmountSums, Sums

\* What movements are worth is the sum of their amounts.
LEMMA WorthOfSum ==
    ASSUME NEW S, NEW v, NEW q, \A m \in S : q[m] = v[MovementKey(m)].amount
    PROVE  WorthOf(S, v) = Sum(q, S)
<1>1. \A F : AmountSums(F, S, v) <=> Sums(F, q, S)
  BY AmountSumsAreSums
<1>2. (CHOOSE F : AmountSums(F, S, v)) = (CHOOSE F : Sums(F, q, S))
  BY <1>1
<1> QED
  BY <1>2, WorthOfChosen DEF Sum

\* Without overdrafts an empty balance is worth nothing.
LEMMA DepletedExactly ==
    ASSUME LedgerMatchesDocuments, RowsStand, Revaluated
    PROVE  DepletionIsExact
<1> SUFFICES ASSUME NeverNegative(ledger), NEW m \in ledger
             PROVE  LET upTo == {k \in ledger : Position(k) = Position(m) /\ ~ReplayBefore(m, k)}
                    IN  /\ AmountOf(upTo, val) >= 0
                        /\ RunningQuant(ledger, m) = 0 => AmountOf(upTo, val) = 0
  BY DEF DepletionIsExact
<1> DEFINE U == UpTo(ledger, m)
           V == WorthBy(ledger, val)
<1>1. Prefix(ledger, ledger) /\ Named(ledger)
  BY LedgerIsCounted DEF Prefix, Counted
<1>2. Settles(ledger, ledger, val, val)
  BY <1>1, LedgerSettled DEF NeverNegative
<1>3. Prefix(ledger, Through(ledger, m)) /\ Through(ledger, m) \subseteq ledger
  BY <1>1, ThroughIsPrefix DEF Prefix
<1>4. Position(m) \in PositionsOf(ledger)
  BY DEF PositionsOf
<1>5. Solvent(V, Through(ledger, m), Position(m))
  BY <1>2, <1>3, <1>4 DEF Settles
<1>6. U = Held(Through(ledger, m), Position(m)) /\ U \in SUBSET ledger
  BY <1>1, UpToIsHeld DEF UpTo
<1>7. RunningQuant(ledger, m) = QuantOf(U)
  BY RunningQuantUpTo
<1> HIDE DEF U
<1>8. \A k \in U : ~Unvalued(val, k)
  <2> TAKE k \in U
  <2>0. k \in ledger
    BY <1>6
  <2>1. val[MovementKey(k)].amount \in Int /\ val[MovementKey(k)].pending = FALSE
    BY <1>2, <2>0, SettledAmount, SettledPending
  <2> QED
    BY <2>1, NullAssumption DEF Unvalued
<1>9. AmountOf(U, val) = WorthOf(U, val)
  BY <1>8 DEF AmountOf, WorthOf
<1>10. \A k \in U : V[k] = val[MovementKey(k)].amount
  BY <1>6 DEF WorthBy
<1> HIDE DEF V
<1>11. AmountOf(U, val) = Sum(V, U)
  BY <1>9, <1>10, WorthOfSum
<1>12. /\ AmountOf(U, val) >= 0
       /\ RunningQuant(ledger, m) = 0 => AmountOf(U, val) = 0
  BY <1>5, <1>6, <1>7, <1>11 DEF Solvent
<1> QED
  BY <1>12 DEF U, UpTo

\* While no movement overdraws, the rounding of shares loses nothing: a
\* movement that empties a balance leaves no money on it, and no movement
\* leaves a balance of less than none.
THEOREM EmptyBalancesAreWorthless == Spec => []DepletionIsExact
<1>1. LedgerMatchesDocuments /\ RowsStand /\ Revaluated => DepletionIsExact
  BY DepletedExactly
<1> QED
  BY <1>1, RegisterMatchesDocuments, RowsStandAlways, RevaluatedAlways, PTL

-----------------------------------------------------------------------------
(* Two registers with the same rows, numbered differently.                 *)

\* What the replay reads of a row, apart from its number.
Same(m, k) ==
    /\ m.at = k.at /\ m.type = k.type /\ m.rec = k.rec /\ m.item = k.item /\ m.order = k.order
    /\ m.site = k.site /\ m.mat = k.mat /\ m.quant = k.quant /\ m.source = k.source

\* The rows t, the first of K, are those of s, the first of L.
Copies(L, s, K, t, g) ==
    /\ Movements(L) /\ Prefix(L, s) /\ Movements(K) /\ Prefix(K, t)
    /\ \A m \in s : g[m] \in t /\ Same(m, g[m])
    /\ \A n \in t : \E m \in s : g[m] = n

\* The copies of rows.
Moved(g, A) == {g[m] : m \in A}

\* A sum does not depend on what its terms are called.
LEMMA SumMoved ==
    ASSUME NEW S, IsFiniteSet(S), NEW T, IsFiniteSet(T), NEW g,
           \A x \in S : g[x] \in T, \A x, y \in S : g[x] = g[y] => x = y,
           NEW q, NEW p, \A x \in S : q[x] \in Int /\ p[g[x]] = q[x]
    PROVE  Sum(p, Moved(g, S)) = Sum(q, S)
<1> DEFINE Bad == {A \in SUBSET S : Sum(p, Moved(g, A)) # Sum(q, A)}
<1>1. Bad = {}
  <2> SUFFICES ASSUME Bad # {} PROVE FALSE
    OBVIOUS
  <2>1. Bad \in SUBSET (SUBSET S)
    OBVIOUS
  <2> HIDE DEF Bad
  <2>2. PICK A \in Bad : \A B \in Bad : B \subseteq A => B = A
    BY <2>1, MinimalSubset
  <2>3. A \in SUBSET S /\ Sum(p, Moved(g, A)) # Sum(q, A)
    BY <2>2 DEF Bad
  <2>4. A # {}
    <3>1. Moved(g, {}) = {}
      BY DEF Moved
    <3> QED
      BY <2>3, <3>1, SumEmpty
  <2>5. PICK x \in A : TRUE
    BY <2>4
  <2> DEFINE B == A \ {x}
  <2>6. Moved(g, B) = Moved(g, A) \ {g[x]} /\ g[x] \in Moved(g, A) /\ Moved(g, A) \in SUBSET T
    BY <2>3, <2>5 DEF Moved
  <2>7. IsFiniteSet(A) /\ IsFiniteSet(Moved(g, A))
    BY <2>3, <2>6, FS_Subset
  <2>8. Sum(q, A) = q[x] + Sum(q, B)
    BY <2>3, <2>5, <2>7, SumRemove
  <2>9. \A y \in Moved(g, A) : p[y] \in Int
    BY <2>3 DEF Moved
  <2>10. Sum(p, Moved(g, A)) = p[g[x]] + Sum(p, Moved(g, A) \ {g[x]})
    BY <2>6, <2>7, <2>9, SumRemove
  <2>11. B \notin Bad /\ B \in SUBSET S
    BY <2>2, <2>3, <2>5
  <2>12. Sum(p, Moved(g, B)) = Sum(q, B)
    BY <2>11 DEF Bad
  <2>13. p[g[x]] = q[x]
    BY <2>3, <2>5
  <2> QED
    BY <2>3, <2>6, <2>8, <2>10, <2>12, <2>13
<1> QED
  BY <1>1

\* A row and its copy have the same name and place; different rows have
\* different copies, in the same order.
LEMMA CopiedRow ==
    ASSUME NEW m, NEW k, Same(m, k)
    PROVE  MovementKey(m) = MovementKey(k) /\ Position(m) = Position(k) /\ SentKey(m) = SentKey(k)
           /\ (Arrives(m) <=> Arrives(k))
BY DEF Same, MovementKey, Position, SentKey, Arrives

\* Copies of different rows are different.
LEMMA CopiesApart ==
    ASSUME NEW L, NEW s, NEW K, NEW t, NEW g, Copies(L, s, K, t, g)
    PROVE  /\ s \in SUBSET L /\ t \in SUBSET K /\ IsFiniteSet(s) /\ IsFiniteSet(t)
           /\ \A m, k \in s : g[m] = g[k] => m = k
<1>1. s \in SUBSET L /\ t \in SUBSET K /\ Named(L) /\ Named(K)
  BY DEF Copies, Prefix, Movements, Counted
<1>2. ASSUME NEW m \in s, NEW k \in s, g[m] = g[k] PROVE m = k
  <2>1. MovementKey(m) = MovementKey(g[m]) /\ MovementKey(k) = MovementKey(g[k])
    BY CopiedRow DEF Copies
  <2> QED
    BY <1>1, <1>2, <2>1 DEF Named
<1> QED
  BY <1>1, <1>2, FS_Subset DEF Named

\* Copies are in the order of the rows.
LEMMA CopiesInOrder ==
    ASSUME NEW L, NEW s, NEW K, NEW t, NEW g, Copies(L, s, K, t, g), NEW m \in s, NEW k \in s
    PROVE  ReplayBefore(m, k) <=> ReplayBefore(g[m], g[k])
<1>1. m \in L /\ k \in L /\ g[m] \in K /\ Named(L) /\ Named(K) /\ Same(m, g[m]) /\ Same(k, g[k])
  BY CopiesApart DEF Copies, Movements, Counted
<1>2. CASE m = k
  BY <1>1, <1>2, ReplayIrreflexive DEF Named
<1>3. CASE m # k
  <2>1. /\ m.type \in Types /\ k.type \in Types
        /\ ~(m.type = k.type /\ m.rec = k.rec /\ m.item = k.item /\ m.order = k.order)
    BY <1>1, <1>3 DEF Named, Placed, MovementKey
  <2>2. TypeRank(m.type) = TypeRank(k.type) => m.type = k.type
    BY <2>1, TypeRanks
  <2> QED
    BY <1>1, <2>1, <2>2, ReplayBeforeFields DEF Same
<1> QED
  BY <1>2, <1>3

\* The copies of the movements of a balance before m are those before the
\* copy of m.
LEMMA CopiesBefore ==
    ASSUME NEW L, NEW s, NEW K, NEW t, NEW g, Copies(L, s, K, t, g), NEW m \in s, NEW p
    PROVE  /\ Held(Before(K, g[m]), p) = Moved(g, Held(Before(L, m), p))
           /\ Held(Through(K, g[m]), p) = Moved(g, Held(Through(L, m), p))
           /\ Before(L, m) \subseteq s /\ Through(L, m) \subseteq s
<1>1. /\ s \in SUBSET L /\ t \in SUBSET K /\ g[m] \in t
      /\ Before(L, m) \subseteq s /\ Through(L, m) \subseteq s
      /\ Before(K, g[m]) \subseteq t /\ Through(K, g[m]) \subseteq t
  BY CopiesApart DEF Copies, Prefix, Before, Through
<1>2. ASSUME NEW k \in s
      PROVE  /\ k \in Before(L, m) <=> g[k] \in Before(K, g[m])
             /\ k \in Through(L, m) <=> g[k] \in Through(K, g[m])
             /\ Position(k) = Position(g[k])
  <2>1. g[k] \in K /\ k \in L
    BY <1>1 DEF Copies
  <2>2. k \in Before(L, m) <=> g[k] \in Before(K, g[m])
    BY <2>1, CopiesInOrder DEF Before
  <2>3. k = m <=> g[k] = g[m]
    BY CopiesApart
  <2>4. Position(k) = Position(g[k])
    BY CopiedRow DEF Copies
  <2> QED
    BY <2>2, <2>3, <2>4 DEF Through
<1>3. \A n \in t : \E k \in s : g[k] = n
  BY DEF Copies
<1>4. Held(Before(K, g[m]), p) = Moved(g, Held(Before(L, m), p))
  BY <1>1, <1>2, <1>3 DEF Held, Moved
<1>5. Held(Through(K, g[m]), p) = Moved(g, Held(Through(L, m), p))
  BY <1>1, <1>2, <1>3 DEF Held, Moved
<1> QED
  BY <1>1, <1>4, <1>5

\* Quantities of copies.
LEMMA CopiedQuant ==
    ASSUME NEW L, NEW s, NEW K, NEW t, NEW g, Copies(L, s, K, t, g), NEW A \in SUBSET s
    PROVE  QuantOf(Moved(g, A)) = QuantOf(A)
<1>1. /\ s \in SUBSET L /\ t \in SUBSET K /\ Counted(L) /\ Counted(K)
      /\ IsFiniteSet(A) /\ IsFiniteSet(t) /\ A \in SUBSET L
  BY CopiesApart, FS_Subset DEF Copies, Movements
<1>2. Moved(g, A) \in SUBSET K
  BY <1>1 DEF Copies, Moved
<1>3. QuantOf(A) = Sum(QuantIn(L), A) /\ QuantOf(Moved(g, A)) = Sum(QuantIn(K), Moved(g, A))
  BY <1>1, <1>2, QuantOfPart
<1>4. \A x \in A : QuantIn(L)[x] \in Int /\ QuantIn(K)[g[x]] = QuantIn(L)[x]
  <2> TAKE x \in A
  <2>1. x \in L /\ g[x] \in K /\ x.quant \in Int /\ g[x].quant = x.quant
    BY <1>1 DEF Copies, Same, Counted
  <2> QED
    BY <2>1 DEF QuantIn
<1>5. \A x \in A : g[x] \in t
  BY DEF Copies
<1>6. \A x, y \in A : g[x] = g[y] => x = y
  BY CopiesApart
<1>7. Sum(QuantIn(K), Moved(g, A)) = Sum(QuantIn(L), A)
  BY <1>1, <1>4, <1>5, <1>6, SumMoved
<1> QED
  BY <1>3, <1>7

\* A copy overdraws its balance when the row does.
LEMMA CopiedOverdraws ==
    ASSUME NEW L, NEW s, NEW K, NEW t, NEW g, Copies(L, s, K, t, g), NEW m \in s
    PROVE  Overdraws(L, m) <=> Overdraws(K, g[m])
<1>1. m \in L /\ g[m] \in K /\ Named(L) /\ Named(K) /\ Same(m, g[m])
  BY CopiesApart DEF Copies, Movements, Counted
<1>2. RunningQuant(L, m) = QuantOf(Held(Through(L, m), Position(m)))
  BY <1>1, RunningQuantUpTo, UpToIsHeld
<1>3. RunningQuant(K, g[m]) = QuantOf(Held(Through(K, g[m]), Position(m)))
  BY <1>1, RunningQuantUpTo, UpToIsHeld, CopiedRow
<1>4. Held(Through(L, m), Position(m)) \in SUBSET s
  BY CopiesBefore DEF Held
<1>5. QuantOf(Held(Through(K, g[m]), Position(m))) = QuantOf(Held(Through(L, m), Position(m)))
  BY <1>4, CopiesBefore, CopiedQuant
<1> QED
  BY <1>1, <1>2, <1>3, <1>5 DEF Overdraws, Same

\* A copy costs what the row costs, if what came before is worth the same.
LEMMA CopiedCost ==
    ASSUME NEW L, NEW s, NEW K, NEW t, NEW g, Copies(L, s, K, t, g), NEW m \in s,
           NEW v, NEW z, \A k \in Before(L, m) : v[MovementKey(k)] = z[MovementKey(k)],
           \A k \in s : v[MovementKey(k)].amount \in Int
    PROVE  Cost(L, v, WorthBy(L, v), m) = Cost(K, z, WorthBy(K, z), g[m])
<1> DEFINE A == Held(Before(L, m), Position(m))
           V == WorthBy(L, v)
           Z == WorthBy(K, z)
<1>1. /\ m \in L /\ g[m] \in K /\ s \in SUBSET L /\ t \in SUBSET K /\ IsFiniteSet(t)
      /\ Same(m, g[m]) /\ Position(g[m]) = Position(m) /\ SentKey(g[m]) = SentKey(m)
      /\ (Arrives(m) <=> Arrives(g[m]))
  BY CopiesApart, CopiedRow DEF Copies
<1>2. A \in SUBSET s /\ IsFiniteSet(A) /\ \A k \in A : k \in Before(L, m)
  BY CopiesApart, CopiesBefore, FS_Subset DEF Held
<1>3. Held(Before(K, g[m]), Position(m)) = Moved(g, A)
  BY CopiesBefore
<1> HIDE DEF A
<1>4. QuantOf(Moved(g, A)) = QuantOf(A)
  BY <1>2, CopiedQuant
<1>5. Sum(Z, Moved(g, A)) = Sum(V, A)
  <2>1. ASSUME NEW x \in A PROVE V[x] \in Int /\ Z[g[x]] = V[x]
    <3>1. x \in s /\ x \in L /\ g[x] \in K /\ Same(x, g[x])
      BY <1>1, <1>2 DEF Copies
    <3>2. MovementKey(g[x]) = MovementKey(x)
      BY <3>1, CopiedRow
    <3>3. V[x] = v[MovementKey(x)].amount /\ Z[g[x]] = z[MovementKey(g[x])].amount
      BY <3>1 DEF WorthBy
    <3> QED
      BY <1>2, <3>1, <3>2, <3>3
  <2>2. \A x \in A : g[x] \in t
    BY <1>2 DEF Copies
  <2>3. \A x, y \in A : g[x] = g[y] => x = y
    BY <1>2, CopiesApart
  <2> HIDE DEF V, Z
  <2> QED
    BY <1>1, <1>2, <2>1, <2>2, <2>3, SumMoved
<1>6. IncomingAmount(L, v, m) = IncomingAmount(K, z, g[m])
  <2>1. CASE Arrives(m)
    <3>1. PICK k \in L : MovementKey(k) = SentKey(m) /\ ReplayBefore(k, m)
      BY <1>1, <2>1, SentBefore DEF Copies
    <3>2. v[SentKey(m)] = z[SentKey(m)]
      BY <3>1 DEF Before
    <3>3. /\ SentKey(m) = <<m.type, m.rec, m.item, 1>>
          /\ SentKey(m) = <<g[m].type, g[m].rec, g[m].item, 1>>
      BY <1>1 DEF SentKey
    <3> QED
      BY <1>1, <2>1, <3>2, <3>3 DEF IncomingAmount, Arrives
  <2>2. CASE ~Arrives(m)
    BY <1>1, <2>2 DEF IncomingAmount, Arrives, Same
  <2> QED
    BY <2>1, <2>2
<1> HIDE DEF V, Z
<1>7. m.quant = g[m].quant
  BY <1>1 DEF Same
<1>8. /\ Cost(L, v, V, m) = Signed(m, KnownAmount(L, v, m, QuantOf(A), Sum(V, A)))
      /\ Cost(K, z, Z, g[m]) = Signed(g[m], KnownAmount(K, z, g[m], QuantOf(A), Sum(V, A)))
  BY <1>1, <1>3, <1>4, <1>5 DEF Cost, A
<1>9. KnownAmount(L, v, m, QuantOf(A), Sum(V, A)) = KnownAmount(K, z, g[m], QuantOf(A), Sum(V, A))
  BY <1>6, <1>7 DEF KnownAmount
<1> QED
  BY <1>7, <1>8, <1>9 DEF Signed, V, Z

\* Rows have one settled value, however they are numbered and whatever
\* follows them.
LEMMA CopiesSettleAlike ==
    ASSUME NEW L, NEW s, NEW K, NEW t, NEW g, Copies(L, s, K, t, g),
           NEW v, Settles(L, s, v, v), NEW z, Settles(K, t, z, z)
    PROVE  \A m \in s : v[MovementKey(m)] = z[MovementKey(m)]
<1> DEFINE Bad == {u \in SUBSET s : Prefix(L, u) /\ \E m \in u : v[MovementKey(m)] # z[MovementKey(m)]}
<1>0. Named(L) /\ Prefix(L, s)
  BY DEF Copies, Movements, Counted
<1>1. Bad = {}
  <2> SUFFICES ASSUME Bad # {} PROVE FALSE
    OBVIOUS
  <2>0. Bad \in SUBSET (SUBSET s) /\ IsFiniteSet(s) /\ s \in SUBSET L
    BY CopiesApart
  <2> HIDE DEF Bad
  <2>1. PICK u \in Bad : \A w \in Bad : w \subseteq u => w = u
    BY <2>0, MinimalSubset
  <2>2. u \in SUBSET s /\ Prefix(L, u) /\ \E m \in u : v[MovementKey(m)] # z[MovementKey(m)]
    BY <2>1 DEF Bad
  <2> DEFINE m == LastRow(u)
             w == u \ {m}
  <2>3. m \in u /\ m \in L /\ Prefix(L, w) /\ w = Before(L, m) /\ w \subseteq u /\ w # u
    BY <1>0, <2>0, <2>2, PrefixButLast DEF Before
  <2> HIDE DEF m
  <2>4. \A k \in w : v[MovementKey(k)] = z[MovementKey(k)]
    BY <2>1, <2>2, <2>3 DEF Bad
  <2>5. v[MovementKey(m)] # z[MovementKey(m)] /\ m \in s
    BY <2>2, <2>3, <2>4
  <2>6. g[m] \in t /\ MovementKey(g[m]) = MovementKey(m)
    BY <2>5, CopiedRow DEF Copies
  <2>7. \A k \in s : v[MovementKey(k)].amount \in Int
    BY SettledAmount
  <2>8. Cost(L, v, WorthBy(L, v), m) = Cost(K, z, WorthBy(K, z), g[m])
    BY <2>3, <2>4, <2>5, <2>7, CopiedCost
  <2>9. v[MovementKey(m)] = [amount |-> Cost(L, v, WorthBy(L, v), m), pending |-> FALSE]
    BY <2>5 DEF Settles
  <2>10. z[MovementKey(g[m])] = [amount |-> Cost(K, z, WorthBy(K, z), g[m]), pending |-> FALSE]
    BY <2>6 DEF Settles
  <2> QED
    BY <2>5, <2>6, <2>8, <2>9, <2>10
<1> QED
  BY <1>0, <1>1

\* Rows with the same contents are copies of each other.
LEMMA ContentsSame ==
    ASSUME NEW m, IsRow(m), NEW k, IsRow(k), Content(m) = Content(k)
    PROVE  Same(m, k)
<1>1. DOMAIN m = FieldsOfRows /\ DOMAIN k = FieldsOfRows
  BY DEF IsRow
<1>2. \A f \in FieldsOfRows : f # "id" => m[f] = Content(m)[f] /\ k[f] = Content(k)[f]
  BY <1>1 DEF Content
<1>3. \A f \in FieldsOfRows : f # "id" => m[f] = k[f]
  BY <1>2
<1> QED
  BY <1>3 DEF Same, FieldsOfRows

\* First movements with the same contents are copies of each other.
LEMMA ContentsCopied ==
    ASSUME NEW L, Movements(L), NEW s, Prefix(L, s), NEW K, Movements(K), NEW t, Prefix(K, t),
           \A m \in s : IsRow(m), \A m \in t : IsRow(m), Contents(s) = Contents(t)
    PROVE  \E g : Copies(L, s, K, t, g)
<1> DEFINE g == [m \in s |-> CHOOSE k \in t : Content(k) = Content(m)]
<1>1. \A m \in s : \E k \in t : Content(k) = Content(m)
  <2> TAKE m \in s
  <2>1. Content(m) \in Contents(t)
    BY DEF Contents
  <2> QED
    BY <2>1 DEF Contents
<1>2. \A m \in s : g[m] \in t /\ Content(g[m]) = Content(m)
  BY <1>1
<1> HIDE DEF g
<1>3. \A m \in s : g[m] \in t /\ Same(m, g[m])
  BY <1>2, ContentsSame
<1>4. ASSUME NEW n \in t PROVE \E m \in s : g[m] = n
  <2>1. Content(n) \in Contents(s)
    BY DEF Contents
  <2>2. PICK m \in s : Content(m) = Content(n)
    BY <2>1 DEF Contents
  <2>3. g[m] \in t /\ Same(m, g[m]) /\ Same(m, n)
    BY <1>3, <2>2, ContentsSame
  <2>4. MovementKey(g[m]) = MovementKey(n)
    BY <2>3, CopiedRow
  <2>5. g[m] = n
    BY <2>3, <2>4 DEF Movements, Counted, Named, Prefix
  <2> QED
    BY <2>5
<1> QED
  BY <1>3, <1>4 DEF Copies

-----------------------------------------------------------------------------
(* The values of a closed period.                                          *)

\* The register can be replayed, and its rows are dated.
Replayable ==
    /\ Movements(ledger) /\ Numbered(ledger)
    /\ \A m \in ledger : IsRow(m) /\ m.at \in Instants

\* The register is always one that the replay can value.
LEMMA ReplayableAlways == Spec => []Replayable
<1>1. ASSUME LedgerMatchesDocuments, RowsStand PROVE Replayable
  <2>1. Movements(ledger) /\ Numbered(ledger)
    BY <1>1, LedgerIsMovements
  <2>2. ASSUME NEW m \in ledger PROVE IsRow(m) /\ m.at \in Instants
    <3>1. PICK d \in Present : \E x \in RowIndexes(d, docs[d]) : PostedBy(m, d, docs[d], x, excludeVat)
      BY <1>1, RowsHaveDocuments
    <3>2. PICK x \in RowIndexes(d, docs[d]) : PostedBy(m, d, docs[d], x, excludeVat)
      BY <3>1
    <3>3. m.id \in Nat /\ IsRow(m)
      BY <1>1 DEF RowsStand, Distinct
    <3> QED
      BY <3>2, <3>3, PostedRowSays
  <2> QED
    BY <2>1, <2>2 DEF Replayable
<1>2. LedgerMatchesDocuments /\ RowsStand => Replayable
  BY <1>1
<1> QED
  BY <1>2, RegisterMatchesDocuments, RowsStandAlways, PTL

\* What is dated on or before a day comes first.
ClosedRows == OnOrBefore(ledger, closedThrough)

\* The movements up to a day are first movements.
LEMMA DatedFirst ==
    ASSUME Replayable, NEW day \in Days
    PROVE  Prefix(ledger, OnOrBefore(ledger, day))
<1> SUFFICES ASSUME NEW k \in OnOrBefore(ledger, day), NEW j \in ledger, ReplayBefore(j, k)
             PROVE  j \in OnOrBefore(ledger, day)
  BY DEF Prefix, OnOrBefore
<1>1. k \in ledger /\ DayOf[k.at] <= day
  BY DEF OnOrBefore
<1>2. Placed(j) /\ Placed(k) /\ j.at \in Instants /\ k.at \in Instants
  BY <1>1 DEF Replayable, Movements, Counted, Named
<1>3. j.at <= k.at
  BY <1>2, ReplayByInstant
<1>4. DayOf[j.at] <= DayOf[k.at]
  BY <1>2, <1>3, RegisterAssumption
<1>5. DayOf[j.at] \in Nat /\ DayOf[k.at] \in Nat /\ day \in Nat
  BY <1>2, RegisterAssumption DEF Instants
<1> QED
  BY <1>1, <1>4, <1>5 DEF OnOrBefore

\* The same, in a form that may be said of the next state.
LEMMA DatedRows == Replayable => \A day \in Days : Prefix(ledger, OnOrBefore(ledger, day))
BY DatedFirst

\* In a prefix of the register a row runs to the same balance as in it.
LEMMA RunningInPrefix ==
    ASSUME NEW L, NEW s, Prefix(L, s), Named(L), NEW m \in s
    PROVE  RunningQuant(s, m) = RunningQuant(L, m)
<1>1. m \in L /\ s \in SUBSET L
  BY DEF Prefix
<1>2. UpTo(L, m) \subseteq s
  <2>1. Through(L, m) \subseteq s
    BY <1>1 DEF Through, Before, Prefix
  <2> QED
    BY <1>1, <2>1, UpToIsHeld DEF Held
<1>3. UpTo(s, m) = UpTo(L, m)
  BY <1>1, <1>2 DEF UpTo
<1> QED
  BY <1>3, RunningQuantUpTo

\* No movement of a closed period overdraws, even while negative stock is
\* allowed: that is checked when the period is closed.
ClosedStands == closedThrough # Null => \A m \in ClosedRows : ~Overdraws(ledger, m)

\* No step overdraws a balance in a closed period.
LEMMA ClosedStandsStep ==
    ASSUME TypeOK, TypeOK', LedgerMatchesDocuments, LedgerMatchesDocuments',
           Replayable, Replayable', ClosedStands, [Next]_vars
    PROVE  ClosedStands'
<1>1. CASE closedThrough # Null /\ closedThrough' = closedThrough
  <2>1. Contents(ClosedRows') = Contents(ClosedRows)
    BY <1>1, ClosedStep DEF ClosedContents, ClosedRows
  <2>2. closedThrough \in Days
    BY <1>1 DEF TypeOK
  <2>3. Prefix(ledger, ClosedRows)
    BY <2>2, DatedFirst DEF ClosedRows
  <2>4. Prefix(ledger', ClosedRows')
    <3>1. (Replayable => \A day \in Days : Prefix(ledger, OnOrBefore(ledger, day)))'
      BY DatedRows, PTL
    <3> QED
      BY <1>1, <2>2, <3>1 DEF ClosedRows
  <2>5. \A m \in ClosedRows : IsRow(m)
    BY DEF ClosedRows, OnOrBefore, Replayable
  <2>6. \A m \in ClosedRows' : IsRow(m)
    BY DEF ClosedRows, OnOrBefore, Replayable
  <2>7. PICK g : Copies(ledger', ClosedRows', ledger, ClosedRows, g)
    BY <2>1, <2>3, <2>4, <2>5, <2>6, ContentsCopied DEF Replayable
  <2>8. \A m \in ClosedRows' : g[m] \in ClosedRows
    BY <2>7 DEF Copies
  <2>9. \A m \in ClosedRows' : ~Overdraws(ledger', m)
    BY <1>1, <2>7, <2>8, CopiedOverdraws DEF ClosedStands
  <2> QED
    BY <2>9 DEF ClosedStands
<1>2. ASSUME NEW day \in Days, Close(day) PROVE ClosedStands'
  <2> DEFINE old == OnOrBefore(ledger, day)
  <2>1. Prefix(ledger, old) /\ Counted(ledger)
    BY DatedFirst DEF Replayable, Movements
  <2>2. ASSUME NEW m \in old PROVE ~Overdraws(ledger, m)
    <3>1. RunningQuant(old, m) >= 0
      BY <1>2 DEF Close
    <3>2. RunningQuant(old, m) = RunningQuant(ledger, m)
      BY <2>1, RunningInPrefix DEF Counted
    <3>3. RunningQuant(ledger, m) \in Int
      <4>1. UpTo(ledger, m) \in SUBSET ledger
        BY DEF UpTo
      <4> QED
        BY <2>1, <4>1, RunningQuantUpTo, QuantOfPart
    <3> HIDE DEF old
    <3> QED
      BY <3>1, <3>2, <3>3 DEF Overdraws
  <2>3. ledger' = ledger /\ closedThrough' = day
    BY <1>2 DEF Close
  <2> QED
    BY <2>2, <2>3 DEF ClosedStands, ClosedRows
<1>3. CASE Reopen
  BY <1>3 DEF Reopen, ClosedStands
<1>4. CASE closedThrough' = Null
  BY <1>4 DEF ClosedStands
<1>5. CASE ~Reopen /\ ~(\E day \in Days : Close(day))
  <2>1. closedThrough' = closedThrough
    BY <1>5 DEF Next, vars, period, Create, Update, Delete, SetNegativePolicy, SetVatBasis, Recalculate
  <2> QED
    BY <1>1, <1>4, <2>1
<1> QED
  BY <1>2, <1>3, <1>5

\* No movement of a closed period overdraws.
LEMMA ClosedStandsAlways == Spec => []ClosedStands
<1>1. Init => ClosedStands
  BY DEF Init, ClosedStands
<1>2. /\ TypeOK /\ TypeOK' /\ LedgerMatchesDocuments /\ LedgerMatchesDocuments'
      /\ Replayable /\ Replayable' /\ ClosedStands /\ [Next]_vars
      => ClosedStands'
  BY ClosedStandsStep
<1> QED
  BY <1>1, <1>2, TypeInvariant, RegisterMatchesDocuments, ReplayableAlways, PTL DEF Spec

\* The closed rows have their values.
ClosedSettled == closedThrough # Null => Settles(ledger, ClosedRows, val, val)

\* The movements of a closed period are settled.
LEMMA ClosedSettledAlways == Spec => []ClosedSettled
<1>1. ASSUME TypeOK, LedgerMatchesDocuments, RowsStand, Revaluated, Replayable, ClosedStands
      PROVE  ClosedSettled
  <2> SUFFICES ASSUME closedThrough # Null PROVE Settles(ledger, ClosedRows, val, val)
    BY DEF ClosedSettled
  <2>1. closedThrough \in Days
    BY <1>1 DEF TypeOK
  <2>2. Prefix(ledger, ClosedRows)
    BY <1>1, <2>1, DatedFirst DEF ClosedRows
  <2>3. \A m \in ClosedRows : ~Overdraws(ledger, m)
    BY <1>1 DEF ClosedStands
  <2> QED
    BY <1>1, <2>2, <2>3, LedgerSettled
<1>2. TypeOK /\ LedgerMatchesDocuments /\ RowsStand /\ Revaluated /\ Replayable /\ ClosedStands
      => ClosedSettled
  BY <1>1
<1> QED
  BY <1>2, TypeInvariant, RegisterMatchesDocuments, RowsStandAlways, RevaluatedAlways,
     ReplayableAlways, ClosedStandsAlways, PTL

\* The closed rows of a period that stays closed are copied with their values.
LEMMA ClosedCopied ==
    ASSUME TypeOK, TypeOK', LedgerMatchesDocuments, LedgerMatchesDocuments',
           Replayable, Replayable', ClosedSettled, ClosedSettled', [Next]_vars,
           closedThrough # Null, closedThrough' = closedThrough
    PROVE  \E g : /\ Copies(ledger, ClosedRows, ledger', ClosedRows', g)
                  /\ \A m \in ClosedRows : val[MovementKey(m)] = val'[MovementKey(m)]
<1>1. Contents(ClosedRows') = Contents(ClosedRows)
  BY ClosedStep DEF ClosedContents, ClosedRows
<1>2. closedThrough \in Days
  BY DEF TypeOK
<1>3. Prefix(ledger, ClosedRows)
  BY <1>2, DatedFirst DEF ClosedRows
<1>4. Prefix(ledger', ClosedRows')
  <2>1. (Replayable => \A day \in Days : Prefix(ledger, OnOrBefore(ledger, day)))'
    BY DatedRows, PTL
  <2> QED
    BY <1>2, <2>1 DEF ClosedRows
<1>5. \A m \in ClosedRows : IsRow(m)
  BY DEF ClosedRows, OnOrBefore, Replayable
<1>6. \A m \in ClosedRows' : IsRow(m)
  BY DEF ClosedRows, OnOrBefore, Replayable
<1>7. PICK g : Copies(ledger, ClosedRows, ledger', ClosedRows', g)
  BY <1>1, <1>3, <1>4, <1>5, <1>6, ContentsCopied DEF Replayable
<1>8. Settles(ledger, ClosedRows, val, val) /\ Settles(ledger', ClosedRows', val', val')
  BY DEF ClosedSettled
<1>9. \A m \in ClosedRows : val[MovementKey(m)] = val'[MovementKey(m)]
  BY <1>7, <1>8, CopiesSettleAlike
<1> QED
  BY <1>7, <1>9

\* No step changes the values of a period that stays closed.
LEMMA ClosedValuesStep ==
    ASSUME TypeOK, TypeOK', LedgerMatchesDocuments, LedgerMatchesDocuments',
           Replayable, Replayable', ClosedSettled, ClosedSettled', [Next]_vars,
           closedThrough # Null, closedThrough' = closedThrough
    PROVE  ClosedValues' = ClosedValues
<1>1. PICK g : /\ Copies(ledger, ClosedRows, ledger', ClosedRows', g)
               /\ \A m \in ClosedRows : val[MovementKey(m)] = val'[MovementKey(m)]
  BY ClosedCopied
<1>2. {MovementKey(m) : m \in ClosedRows'} = {MovementKey(m) : m \in ClosedRows}
  <2>1. \A m \in ClosedRows : g[m] \in ClosedRows' /\ MovementKey(g[m]) = MovementKey(m)
    BY <1>1, CopiedRow DEF Copies
  <2>2. \A n \in ClosedRows' : \E m \in ClosedRows : g[m] = n
    BY <1>1 DEF Copies
  <2> QED
    BY <2>1, <2>2
<1> DEFINE keys == {MovementKey(m) : m \in ClosedRows}
<1>3. \A k \in keys : val[k] = val'[k]
  BY <1>1
<1>4. ClosedValues = [k \in keys |-> val[k]]
  BY DEF ClosedValues, ClosedRows
<1>5. ClosedValues' = [k \in {MovementKey(m) : m \in ClosedRows'} |-> val'[k]]
  BY DEF ClosedValues, ClosedRows
<1> HIDE DEF keys
<1> QED
  BY <1>2, <1>3, <1>4, <1>5 DEF keys

\* While a period stays closed no calculated amount in it changes, although
\* every operation values the whole register anew: the closed rows come
\* first in the replay, none of them waited for a later one when the period
\* was closed, so they have but one value, however the passes start and
\* whatever follows them.
THEOREM ClosedValuesStand == Spec => ClosedValuesFrozen
<1> DEFINE Kept == closedThrough # Null /\ closedThrough' = closedThrough => ClosedValues' = ClosedValues
<1>1. /\ TypeOK /\ TypeOK' /\ LedgerMatchesDocuments /\ LedgerMatchesDocuments'
      /\ Replayable /\ Replayable' /\ ClosedSettled /\ ClosedSettled' /\ [Next]_vars
      => [Kept]_vars
  BY ClosedValuesStep
<1> HIDE DEF Kept
<1>2. Spec => [][Kept]_vars
  BY <1>1, TypeInvariant, RegisterMatchesDocuments, ReplayableAlways, ClosedSettledAlways, PTL DEF Spec
<1> QED
  BY <1>2 DEF Kept, ClosedValuesFrozen

-----------------------------------------------------------------------------
(* Shortages.                                                              *)

\* Changing one term changes the sum by as much.
LEMMA SumChange ==
    ASSUME NEW S, IsFiniteSet(S), NEW x \in S, NEW q, NEW p,
           \A y \in S : q[y] \in Int /\ p[y] \in Int, \A y \in S \ {x} : p[y] = q[y]
    PROVE  Sum(p, S) = Sum(q, S) - q[x] + p[x]
<1> DEFINE R == S \ {x}
           r == Sum(q, R)
<1>1. IsFiniteSet(R) /\ \A y \in R : q[y] \in Int
  BY FS_Subset
<1>2. r \in Int
  BY <1>1, SumType
<1>3. Sum(p, R) = r
  BY <1>1, SumSame
<1>4. Sum(q, S) = q[x] + r /\ Sum(p, S) = p[x] + Sum(p, R)
  BY SumRemove
<1> HIDE DEF r, R
<1> QED
  BY <1>2, <1>3, <1>4

\* A sum of terms that are not negative is at least each of them; it is
\* zero only when they all are.
LEMMA SumAtLeastTerm ==
    ASSUME NEW S, IsFiniteSet(S), NEW q, \A y \in S : q[y] \in Int /\ q[y] >= 0, NEW x \in S
    PROVE  Sum(q, S) >= q[x]
<1> DEFINE R == S \ {x}
           r == Sum(q, R)
<1>1. IsFiniteSet(R) /\ \A y \in R : q[y] \in Int /\ q[y] >= 0
  BY FS_Subset
<1>2. r \in Int /\ r >= 0
  BY <1>1, SumType, SumNonNegative
<1>3. Sum(q, S) = q[x] + r
  BY SumRemove
<1> HIDE DEF r, R
<1> QED
  BY <1>2, <1>3

\* Zeros add up to zero.
LEMMA SumOfNothing ==
    ASSUME NEW S, IsFiniteSet(S), NEW q, \A y \in S : q[y] = 0
    PROVE  Sum(q, S) = 0
<1> DEFINE Bad == {A \in SUBSET S : Sum(q, A) # 0}
<1> SUFFICES ASSUME Bad # {} PROVE FALSE
  OBVIOUS
<1>0. Bad \in SUBSET (SUBSET S)
  OBVIOUS
<1> HIDE DEF Bad
<1>1. PICK A \in Bad : \A B \in Bad : B \subseteq A => B = A
  BY <1>0, MinimalSubset
<1>2. A \in SUBSET S /\ Sum(q, A) # 0 /\ IsFiniteSet(A)
  BY <1>1, FS_Subset DEF Bad
<1>3. PICK x \in A : TRUE
  BY <1>2, SumEmpty
<1> DEFINE B == A \ {x}
<1>4. B \notin Bad /\ B \in SUBSET S
  BY <1>1, <1>2, <1>3
<1>5. Sum(q, B) = 0
  BY <1>4 DEF Bad
<1>6. Sum(q, A) = q[x] + Sum(q, B)
  BY <1>2, <1>3, SumRemove
<1> QED
  BY <1>2, <1>3, <1>5, <1>6

\* A work row of a balance whose amounts are all known but for shortages:
\* it waits only while something is missing.
Tracked(w) ==
    /\ w.known \in Int /\ w.short \in Nat
    /\ w.short = 0 => w.pending = FALSE

\* A replay that tracks the movements of a balance.
AllTracked(L, p, work) ==
    WorkShaped(L, work) /\ \A m \in Held(L, p) : Tracked(work[MovementKey(m)])

\* What is missing at each movement, and at a balance.
ShortIn(L, work) == [m \in L |-> work[MovementKey(m)].short]
\* What a balance owes.
Owed(L, work, p) == Sum(ShortIn(L, work), Held(L, p))

\* What a balance owes is a whole number.
LEMMA OwedIsNumber ==
    ASSUME NEW L, IsFiniteSet(L), NEW p, NEW work, AllTracked(L, p, work)
    PROVE  /\ IsFiniteSet(Held(L, p)) /\ Held(L, p) \in SUBSET L
           /\ \A m \in Held(L, p) : /\ ShortIn(L, work)[m] = work[MovementKey(m)].short
                                    /\ ShortIn(L, work)[m] \in Nat
           /\ Owed(L, work, p) \in Nat
<1>1. IsFiniteSet(Held(L, p)) /\ Held(L, p) \in SUBSET L
  BY FS_Subset DEF Held
<1>2. \A m \in Held(L, p) : /\ ShortIn(L, work)[m] = work[MovementKey(m)].short
                            /\ ShortIn(L, work)[m] \in Nat
  BY <1>1 DEF AllTracked, Tracked, ShortIn
<1>3. Owed(L, work, p) \in Int /\ Owed(L, work, p) >= 0
  BY <1>1, <1>2, SumType, SumNonNegative DEF Owed
<1> QED
  BY <1>1, <1>2, <1>3

\* What a change of one work row does to what is missing.
LEMMA TrackedChange ==
    ASSUME NEW L, Named(L), NEW p, NEW work, AllTracked(L, p, work),
           NEW m \in Held(L, p), NEW e, Tracked(e)
    PROVE  LET next == [work EXCEPT ![MovementKey(m)] = e]
           IN  /\ AllTracked(L, p, next)
               /\ Owed(L, next, p) = Owed(L, work, p) - work[MovementKey(m)].short + e.short
               /\ next[MovementKey(m)] = e
               /\ \A k \in L : k # m => next[MovementKey(k)] = work[MovementKey(k)]
<1> DEFINE next == [work EXCEPT ![MovementKey(m)] = e]
           H == Held(L, p)
<1>1. IsFiniteSet(L) /\ m \in L /\ H \in SUBSET L /\ MovementKey(m) \in KeysOf(L)
  BY DEF Named, Held, KeysOf
<1>2. \A k \in L : k # m => MovementKey(k) # MovementKey(m) /\ MovementKey(k) \in KeysOf(L)
  BY <1>1 DEF Named, KeysOf
<1>3. WorkShaped(L, next) /\ next[MovementKey(m)] = e
  BY <1>1 DEF WorkShaped, AllTracked
<1>4. \A k \in L : k # m => next[MovementKey(k)] = work[MovementKey(k)]
  BY <1>2 DEF WorkShaped, AllTracked
<1> HIDE DEF next
<1>5. AllTracked(L, p, next)
  <2>1. ASSUME NEW k \in H PROVE Tracked(next[MovementKey(k)])
    BY <1>1, <1>3, <1>4 DEF AllTracked
  <2> QED
    BY <1>3, <2>1 DEF AllTracked
<1> DEFINE Q == ShortIn(L, work)
           P == ShortIn(L, next)
<1>6. /\ IsFiniteSet(H)
      /\ \A k \in H : Q[k] = work[MovementKey(k)].short /\ Q[k] \in Int
      /\ \A k \in H : P[k] = next[MovementKey(k)].short /\ P[k] \in Int
  BY <1>1, <1>5, OwedIsNumber
<1> HIDE DEF Q, P
<1>7. \A k \in H \ {m} : P[k] = Q[k]
  BY <1>1, <1>4, <1>6
<1>8. Sum(P, H) = Sum(Q, H) - Q[m] + P[m]
  BY <1>6, <1>7, SumChange
<1>9. Q[m] = work[MovementKey(m)].short /\ P[m] = e.short
  BY <1>3, <1>6
<1>10. Owed(L, next, p) = Owed(L, work, p) - work[MovementKey(m)].short + e.short
  BY <1>8, <1>9 DEF Owed, P, Q
<1> QED
  BY <1>3, <1>4, <1>5, <1>10 DEF next

\* Rounding gives a whole number.
LEMMA RoundDivIsInt ==
    ASSUME NEW n \in Int, NEW d \in Int, d > 0
    PROVE  RoundDiv(n, d) \in Int
<1>1. 2 * n + d \in Int /\ 2 * d \in Int /\ 2 * d > 0
  OBVIOUS
<1> QED
  BY <1>1 DEF RoundDiv

\* The state d of the payments after c has paid to j what it could.
PaidTo(L, p, c, j, d) ==
    /\ AllTracked(L, p, d.work) /\ d.quant \in Int /\ d.amount \in Int /\ d.cover \in Nat
    /\ Owed(L, d.work, p) = Owed(L, c.work, p) - c.cover + d.cover
    /\ d.cover > 0 => d.work[MovementKey(j)].short = 0
    /\ \A k \in L : k # j => d.work[MovementKey(k)] = c.work[MovementKey(k)]

\* One payment: the row takes what is left for it and waits no longer when
\* that is all it lacks.
LEMMA PayTracks ==
    ASSUME NEW L, Named(L), NEW p, NEW m, m.quant \in Int, m.quant > 0, NEW amount \in Int,
           NEW c, AllTracked(L, p, c.work), c.quant \in Int, c.amount \in Int, c.cover \in Nat,
           c.cover > 0, NEW j \in Held(L, p), NEW d, d = Pay(m, amount, c, j)
    PROVE  PaidTo(L, p, c, j, d)
<1> DEFINE w == c.work[MovementKey(j)]
           take == Min({c.cover, w.short})
           paid == IF take = c.quant THEN c.amount ELSE RoundDiv(take * amount, m.quant)
           e == [known |-> w.known + paid, short |-> w.short - take, pending |-> w.short > take]
           next == [c.work EXCEPT ![MovementKey(j)] = e]
<1>1. w.known \in Int /\ w.short \in Nat
  BY DEF AllTracked, Tracked
<1> HIDE DEF w
<1>2. take = IF c.cover <= w.short THEN c.cover ELSE w.short
  BY <1>1, MinOfTwo
<1> HIDE DEF take
<1>3. take \in Nat /\ take <= c.cover /\ take <= w.short /\ (c.cover - take > 0 => take = w.short)
  BY <1>1, <1>2
<1>4. paid \in Int
  <2>1. take * amount \in Int
    BY <1>3
  <2> HIDE DEF take
  <2> QED
    BY <2>1, RoundDivIsInt
<1> HIDE DEF paid
<1>5. e.known \in Int /\ e.short = w.short - take /\ e.short \in Nat /\ e.pending = (w.short > take)
  BY <1>1, <1>3, <1>4
<1>6. Tracked(e)
  <2>1. e.short = 0 => (w.short > take) = FALSE
    BY <1>1, <1>3, <1>5
  <2> HIDE DEF e
  <2> QED
    BY <1>5, <2>1 DEF Tracked
<1> HIDE DEF e
<1>7. d = [work |-> next, quant |-> c.quant - take, amount |-> c.amount - paid, cover |-> c.cover - take]
  <2>1. ~(c.cover <= 0)
    OBVIOUS
  <2> QED
    BY <2>1 DEF Pay, w, take, paid, e
<1>8. /\ AllTracked(L, p, next)
      /\ Owed(L, next, p) = Owed(L, c.work, p) - w.short + e.short
      /\ next[MovementKey(j)] = e
      /\ \A k \in L : k # j => next[MovementKey(k)] = c.work[MovementKey(k)]
  BY <1>6, TrackedChange DEF w
<1> HIDE DEF next
<1>9. d.work = next /\ d.quant = c.quant - take /\ d.amount = c.amount - paid /\ d.cover = c.cover - take
  BY <1>7
<1>10. Owed(L, c.work, p) \in Int
  BY OwedIsNumber DEF Named
<1> DEFINE owed == Owed(L, c.work, p)
<1>11. Owed(L, next, p) = owed - w.short + e.short
  BY <1>8
<1> HIDE DEF owed
<1>12. Owed(L, next, p) = owed - c.cover + (c.cover - take)
  BY <1>1, <1>3, <1>5, <1>10, <1>11 DEF owed
<1>13. d.quant \in Int /\ d.amount \in Int /\ d.cover \in Nat /\ (d.cover > 0 => e.short = 0)
  BY <1>1, <1>3, <1>4, <1>5, <1>9
<1> QED
  BY <1>8, <1>9, <1>12, <1>13 DEF owed, PaidTo

\* A receipt that finds a balance owing pays as much as it brings, or all.
LEMMA CoverTracks ==
    ASSUME NEW L, Movements(L), Numbered(L), NEW p, NEW m \in Held(L, p), m.quant > 0, NEW amount \in Int,
           NEW st, AllTracked(L, p, st.work), st.stock[p].quant \in Int, st.stock[p].quant < 0,
           Owed(L, st.work, p) = -st.stock[p].quant, st.work[MovementKey(m)].short = 0
    PROVE  LET c == CoverShortages(L, st, m, amount)
           IN  /\ AllTracked(L, p, c.work) /\ c.amount \in Int
               /\ Owed(L, c.work, p) = IF st.stock[p].quant + m.quant >= 0 THEN 0
                                       ELSE -(st.stock[p].quant + m.quant)
               /\ \A k \in L : k \notin Shortages(L, st, m) =>
                    c.work[MovementKey(k)] = st.work[MovementKey(k)]
<1> DEFINE S == Shortages(L, st, m)
           H == Held(L, p)
           q == st.stock[p].quant
           after(s) == PaidState(L, st, m, amount, s)
           start == Min({m.quant, -q})
           Good(s) == /\ AllTracked(L, p, after(s).work)
                      /\ after(s).quant \in Int /\ after(s).amount \in Int /\ after(s).cover \in Nat
                      /\ Owed(L, after(s).work, p) = after(s).cover + (-q - start)
                      /\ after(s).cover > 0 => \A k \in s : after(s).work[MovementKey(k)].short = 0
           Bad == {s \in SUBSET S : ~Good(s)}
<1>1. /\ m \in L /\ Position(m) = p /\ m.quant \in Int /\ Named(L) /\ IsFiniteSet(L)
      /\ H \in SUBSET L /\ IsFiniteSet(H)
  BY FS_Subset DEF Held, Movements, Counted, Named
<1>2. S \in SUBSET H /\ S = {k \in H : st.work[MovementKey(k)].short > 0}
  BY <1>1 DEF Shortages, Held
<1>3. Numbered(S) /\ IsFiniteSet(S)
  BY <1>1, <1>2, FS_Subset DEF Numbered
<1>4. start \in Nat /\ (start = IF m.quant <= -q THEN m.quant ELSE -q) /\ start > 0
  <2>1. m.quant \in Int /\ -q \in Int /\ -q > 0
    BY <1>1
  <2> HIDE DEF q
  <2>2. start = IF m.quant <= -q THEN m.quant ELSE -q
    BY <2>1, MinOfTwo
  <2> QED
    BY <2>1, <2>2
<1>5. /\ CoverShortages(L, st, m, amount) = after(S)
      /\ after({}) = Uncovered(st, m, amount)
      /\ \A s \in SUBSET S : s # {} =>
           after(s) = Pay(m, amount, after(s \ {LastToCover(s)}), LastToCover(s))
  <2>1. CoverShortages(L, st, m, amount) = after(S)
    BY <1>3, PaymentSteps
  <2>2. after({}) = Uncovered(st, m, amount)
    BY <1>3, PaymentSteps
  <2>3. ASSUME NEW s \in SUBSET S, s # {}
        PROVE  after(s) = Pay(m, amount, after(s \ {LastToCover(s)}), LastToCover(s))
    <3>1. PaysInOrder(L, st, m, amount)
      BY <1>3, PaymentSteps
    <3> QED
      BY <2>3, <3>1 DEF PaysInOrder
  <2> HIDE DEF after, S
  <2> QED
    BY <2>1, <2>2, <2>3
<1>6. /\ \A k \in L : k \notin S => CoverShortages(L, st, m, amount).work[MovementKey(k)] = st.work[MovementKey(k)]
  <2>1. WorkShaped(L, st.work)
    BY DEF AllTracked
  <2>2. \A k \in KeysOf(L) :
          k \notin {MovementKey(j) : j \in S} => CoverShortages(L, st, m, amount).work[k] = st.work[k]
    BY <1>3, <2>1, CoverKeeps
  <2>3. \A k \in L : k \notin S => MovementKey(k) \notin {MovementKey(j) : j \in S} /\ MovementKey(k) \in KeysOf(L)
    BY <1>1, <1>2 DEF Named, KeysOf
  <2> HIDE DEF S
  <2> QED
    BY <2>2, <2>3
<1>7. Good({})
  <2> DEFINE c == after({})
  <2>1. c = [work |-> st.work, quant |-> m.quant, amount |-> amount, cover |-> start]
    BY <1>1, <1>5 DEF Uncovered
  <2> HIDE DEF c, start
  <2>2. c.work = st.work /\ c.quant = m.quant /\ c.amount = amount /\ c.cover = start
    BY <2>1
  <2>3. Owed(L, c.work, p) = -q
    BY <2>2
  <2>4. Owed(L, c.work, p) = c.cover + (-q - start)
    BY <1>4, <2>2, <2>3
  <2> QED
    BY <1>1, <1>4, <2>2, <2>4 DEF c
<1> HIDE DEF S, after, start
<1>8. ASSUME NEW s \in SUBSET S, s # {}, Good(s \ {LastToCover(s)}) PROVE Good(s)
  <2> DEFINE j == LastToCover(s)
             u == s \ {j}
             c == after(u)
             d == after(s)
  <2>1. j \in s /\ j \in H /\ j \in L
    BY <1>1, <1>2, <1>3, <1>8, LastToCoverExists
  <2>2. d = Pay(m, amount, c, j)
    BY <1>5, <1>8
  <2>3. /\ AllTracked(L, p, c.work) /\ c.quant \in Int /\ c.amount \in Int /\ c.cover \in Nat
        /\ Owed(L, c.work, p) = c.cover + (-q - start)
        /\ c.cover > 0 => \A k \in u : c.work[MovementKey(k)].short = 0
    BY <1>8
  <2>4. u \subseteq L /\ s = u \cup {j} /\ j \notin u
    BY <1>1, <1>2, <2>1
  <2> HIDE DEF j, u, c, d
  <2>5. CASE c.cover <= 0
    <3>1. d = c
      BY <2>2, <2>5 DEF Pay
    <3>2. ~(d.cover > 0)
      BY <2>3, <2>5, <3>1
    <3> QED
      BY <2>3, <3>1, <3>2 DEF d
  <2>6. CASE c.cover > 0
    <3>1. /\ AllTracked(L, p, d.work) /\ d.quant \in Int /\ d.amount \in Int /\ d.cover \in Nat
          /\ Owed(L, d.work, p) = Owed(L, c.work, p) - c.cover + d.cover
          /\ d.cover > 0 => d.work[MovementKey(j)].short = 0
          /\ \A k \in L : k # j => d.work[MovementKey(k)] = c.work[MovementKey(k)]
      <4>1. PaidTo(L, p, c, j, d)
        BY <1>1, <2>1, <2>2, <2>3, <2>6, PayTracks
      <4> QED
        BY <4>1 DEF PaidTo
    <3>2. Owed(L, d.work, p) = d.cover + (-q - start)
      <4> DEFINE o == Owed(L, c.work, p)
                 n == Owed(L, d.work, p)
      <4>1. n = o - c.cover + d.cover /\ o = c.cover + (-q - start)
        BY <2>3, <3>1
      <4>2. -q - start \in Int
        BY <1>4
      <4> HIDE DEF o, n
      <4> QED
        BY <2>3, <3>1, <4>1, <4>2 DEF n
    <3>3. ASSUME d.cover > 0, NEW k \in s PROVE d.work[MovementKey(k)].short = 0
      <4>1. CASE k = j
        BY <3>1, <3>3, <4>1
      <4>2. CASE k # j
        <5>1. k \in u /\ k \in L
          BY <2>4, <4>2
        <5> QED
          BY <2>3, <2>6, <3>1, <4>2, <5>1
      <4> QED
        BY <4>1, <4>2
    <3> QED
      BY <3>1, <3>2, <3>3 DEF d
  <2> QED
    BY <2>3, <2>5, <2>6
<1>9. Good(S)
  <2> SUFFICES ASSUME Bad # {} PROVE FALSE
    OBVIOUS
  <2>1. Bad \in SUBSET (SUBSET S)
    OBVIOUS
  <2> HIDE DEF Bad
  <2>2. PICK s \in Bad : \A u \in Bad : u \subseteq s => u = s
    BY <1>3, <2>1, MinimalSubset
  <2>3. s \in SUBSET S /\ ~Good(s)
    BY <2>2 DEF Bad
  <2> HIDE DEF Good
  <2>4. s # {}
    BY <1>7, <2>3
  <2> DEFINE u == s \ {LastToCover(s)}
  <2>5. u \in SUBSET S /\ u \subseteq s /\ u # s
    BY <1>3, <2>3, <2>4, LastToCoverExists
  <2>6. Good(u)
    BY <2>2, <2>5 DEF Bad
  <2> QED
    BY <1>8, <2>3, <2>4, <2>6
<1> DEFINE c == after(S)
<1>10. /\ AllTracked(L, p, c.work) /\ c.amount \in Int /\ c.cover \in Nat
       /\ Owed(L, c.work, p) = c.cover + (-q - start)
       /\ c.cover > 0 => \A k \in S : c.work[MovementKey(k)].short = 0
  BY <1>9
<1>11. \A k \in L : k \notin S => c.work[MovementKey(k)] = st.work[MovementKey(k)]
  BY <1>5, <1>6
<1> HIDE DEF c, Good
<1>12. c.cover = 0
  <2> SUFFICES ASSUME c.cover > 0 PROVE FALSE
    BY <1>10
  <2>1. ASSUME NEW k \in H PROVE ShortIn(L, c.work)[k] = 0
    <3>1. CASE k \in S
      BY <1>1, <1>10, <3>1 DEF ShortIn
    <3>2. CASE k \notin S
      <4>1. ~(st.work[MovementKey(k)].short > 0) /\ st.work[MovementKey(k)].short \in Nat
        BY <1>2, <3>2 DEF AllTracked, Tracked
      <4> QED
        BY <1>1, <1>11, <3>2, <4>1 DEF ShortIn
    <3> QED
      BY <3>1, <3>2
  <2>2. Owed(L, c.work, p) = 0
    BY <1>1, <2>1, SumOfNothing DEF Owed
  <2>3. -q - start >= 0
    BY <1>1, <1>4
  <2> QED
    BY <1>4, <1>10, <2>2, <2>3
<1>13. Owed(L, c.work, p) = -q - start
  BY <1>4, <1>10, <1>12
<1>14. -q - start = IF q + m.quant >= 0 THEN 0 ELSE -(q + m.quant)
  BY <1>1, <1>4
<1> QED
  BY <1>5, <1>10, <1>11, <1>13, <1>14 DEF c, S

\* The stock of a replay has the balances of its rows.
StockShaped(L, stock) == stock = [p \in PositionsOf(L) |-> stock[p]]

\* A state of the replay in which the shortages of a balance are exactly
\* what the balance lacks, and the balance has a value unless it lacks.
Lack(quant) == IF quant >= 0 THEN 0 ELSE -quant

\* A state in which the shortages of a balance are what it lacks.
Balanced(L, p, st) ==
    /\ StockShaped(L, st.stock) /\ AllTracked(L, p, st.work)
    /\ st.stock[p].quant \in Int
    /\ st.stock[p].quant >= 0 => st.stock[p].amount \in Int
    /\ Owed(L, st.work, p) = Lack(st.stock[p].quant)

\* The same, at a quantity.
BalancedAt(L, p, st, quant) == Balanced(L, p, st) /\ st.stock[p].quant = quant

\* A row of a balance that has been given its entry, and its stock.
LEMMA BalancedChange ==
    ASSUME NEW L, Named(L), NEW p, NEW m \in Held(L, p),
           NEW work, AllTracked(L, p, work), work[MovementKey(m)].short = 0,
           NEW e, Tracked(e),
           NEW stock, StockShaped(L, stock), NEW store, store.quant \in Int,
           store.quant >= 0 => store.amount \in Int,
           Owed(L, work, p) + e.short = Lack(store.quant),
           NEW n, n.stock = [stock EXCEPT ![p] = store], n.work = [work EXCEPT ![MovementKey(m)] = e]
    PROVE  BalancedAt(L, p, n, store.quant)
<1>1. p \in PositionsOf(L)
  BY DEF Held, PositionsOf
<1>2. StockShaped(L, n.stock) /\ n.stock[p] = store
  BY <1>1 DEF StockShaped
<1>3. AllTracked(L, p, n.work) /\ Owed(L, n.work, p) = Owed(L, work, p) - 0 + e.short
  BY TrackedChange
<1>4. Owed(L, work, p) \in Int /\ e.short \in Int
  BY OwedIsNumber DEF Named, Tracked
<1>5. Owed(L, n.work, p) = Lack(store.quant)
  BY <1>3, <1>4
<1> QED
  BY <1>2, <1>3, <1>5 DEF Balanced, BalancedAt

\* The larger of two whole numbers is one.
LEMMA MaxOfTwo ==
    ASSUME NEW i \in Int, NEW j \in Int
    PROVE  Max({i, j}) \in Int
<1> DEFINE k == IF i >= j THEN i ELSE j
<1>1. k \in {i, j} /\ \A y \in {i, j} : k >= y
  OBVIOUS
<1>2. \A x \in {i, j} : (\A y \in {i, j} : x >= y) => x = k
  OBVIOUS
<1> HIDE DEF k
<1>3. Max({i, j}) = k
  BY <1>1, <1>2 DEF Max
<1> QED
  BY <1>1, <1>3

\* A receipt brings the stock up and pays what it can.
LEMMA ReceiptBalances ==
    ASSUME NEW L, Movements(L), Numbered(L), NEW p, NEW m \in Held(L, p), m.quant > 0, NEW amount \in Int,
           NEW st, Balanced(L, p, st), st.work[MovementKey(m)].short = 0,
           NEW n, n = ReceiveValued(L, st, m, amount)
    PROVE  BalancedAt(L, p, n, st.stock[p].quant + m.quant)
<1> DEFINE q == st.stock[p].quant
           covered == CoverShortages(L, st, m, amount)
           e == [known |-> amount, short |-> 0, pending |-> FALSE]
           left == CASE q + m.quant < 0 -> Null
                     [] q + m.quant >= 0 /\ q < 0 -> Max({covered.amount, 0})
                     [] q + m.quant >= 0 /\ q >= 0 /\ st.stock[p].amount = Null -> Null
                     [] OTHER -> st.stock[p].amount + amount
           store == [quant |-> q + m.quant, amount |-> left]
<1>1. /\ m \in L /\ Position(m) = p /\ m.quant \in Int /\ Named(L) /\ q \in Int
      /\ AllTracked(L, p, st.work) /\ StockShaped(L, st.stock)
      /\ Owed(L, st.work, p) = Lack(q) /\ (q >= 0 => st.stock[p].amount \in Int)
  BY DEF Held, Movements, Counted, Balanced
<1>2. Tracked(e)
  BY DEF Tracked
<1>3. n = [stock |-> [st.stock EXCEPT ![p] = store], work |-> [covered.work EXCEPT ![MovementKey(m)] = e]]
  BY <1>1 DEF ReceiveValued
<1>4. /\ AllTracked(L, p, covered.work) /\ covered.work[MovementKey(m)].short = 0
      /\ Owed(L, covered.work, p) = Lack(q + m.quant)
      /\ q < 0 => covered.amount \in Int
  <2>1. CASE q >= 0
    <3>1. covered.work = st.work
      BY <1>1, <2>1, NoShortsToCover
    <3>2. Lack(q) = 0 /\ Lack(q + m.quant) = 0
      BY <1>1, <2>1 DEF Lack
    <3> HIDE DEF covered
    <3> QED
      BY <1>1, <2>1, <3>1, <3>2
  <2>2. CASE q < 0
    <3>1. Owed(L, st.work, p) = -q
      BY <1>1, <2>2 DEF Lack
    <3>2. /\ AllTracked(L, p, covered.work) /\ covered.amount \in Int
          /\ Owed(L, covered.work, p) = IF q + m.quant >= 0 THEN 0 ELSE -(q + m.quant)
          /\ \A k \in L : k \notin Shortages(L, st, m) => covered.work[MovementKey(k)] = st.work[MovementKey(k)]
      BY <1>1, <2>2, <3>1, CoverTracks
    <3>3. m \notin Shortages(L, st, m)
      BY DEF Shortages
    <3> HIDE DEF covered
    <3> QED
      BY <1>1, <3>2, <3>3 DEF Lack
  <2> QED
    BY <1>1, <2>1, <2>2
<1>5. q + m.quant >= 0 => left \in Int
  <2>1. CASE q < 0
    <3> HIDE DEF covered
    <3>1. Max({covered.amount, 0}) \in Int
      BY <1>4, <2>1, MaxOfTwo
    <3> QED
      BY <1>1, <2>1, <3>1
  <2>2. CASE q >= 0
    <3>1. st.stock[p].amount \in Int /\ st.stock[p].amount # Null
      BY <1>1, <2>2, NullAssumption
    <3> HIDE DEF covered
    <3> QED
      BY <1>1, <2>2, <3>1
  <2> QED
    BY <1>1, <2>1, <2>2
<1> HIDE DEF left
<1>6. store.quant = q + m.quant /\ store.quant \in Int /\ (store.quant >= 0 => store.amount \in Int)
  BY <1>1, <1>5
<1>7. e.short = 0
  OBVIOUS
<1> HIDE DEF covered, e, store
<1>8. n.stock = [st.stock EXCEPT ![p] = store] /\ n.work = [covered.work EXCEPT ![MovementKey(m)] = e]
  BY <1>3
<1>9. Owed(L, covered.work, p) + e.short = Lack(store.quant)
  <2>1. Lack(store.quant) \in Int
    BY <1>6 DEF Lack
  <2>2. Owed(L, covered.work, p) = Lack(store.quant)
    BY <1>4, <1>6
  <2> QED
    BY <1>7, <2>1, <2>2
<1>10. BalancedAt(L, p, n, store.quant)
  BY <1>1, <1>2, <1>4, <1>6, <1>8, <1>9, BalancedChange
<1> QED
  BY <1>6, <1>10

\* An issue brings it down and leaves what it does not find as a shortage.
LEMMA IssueBalances ==
    ASSUME NEW L, Movements(L), NEW p, NEW m \in Held(L, p), m.quant < 0,
           NEW st, Balanced(L, p, st), st.work[MovementKey(m)].short = 0,
           NEW n, n = Issue(st, m)
    PROVE  BalancedAt(L, p, n, st.stock[p].quant + m.quant)
<1> DEFINE q == st.stock[p].quant
           a == st.stock[p].amount
           out == -m.quant
           covered == IF q > 0 /\ a # Null THEN Min({out, q}) ELSE 0
           known == CASE covered = 0 -> 0
                      [] covered > 0 /\ covered = q -> a
                      [] OTHER -> RoundDiv(a * covered, q)
           e == [known |-> known, short |-> out - covered, pending |-> out > covered]
           left == CASE out > covered -> Null
                     [] out = covered /\ q = out -> 0
                     [] OTHER -> a - known
           store == [quant |-> q - out, amount |-> left]
<1>1. /\ m \in L /\ Position(m) = p /\ m.quant \in Int /\ Named(L) /\ q \in Int
      /\ AllTracked(L, p, st.work) /\ StockShaped(L, st.stock)
      /\ Owed(L, st.work, p) = Lack(q) /\ (q >= 0 => a \in Int)
  BY DEF Held, Movements, Counted, Balanced
<1>2. out \in Int /\ out > 0 /\ out = -m.quant
  BY <1>1
<1>3. n = [stock |-> [st.stock EXCEPT ![p] = store], work |-> [st.work EXCEPT ![MovementKey(m)] = e]]
  BY <1>1 DEF Issue
<1> HIDE DEF q, a, out
<1>4. covered = IF q > 0 THEN (IF out <= q THEN out ELSE q) ELSE 0
  BY <1>1, <1>2, MinOfTwo, NullAssumption
<1> HIDE DEF covered
<1>5. covered \in Nat /\ covered <= out /\ (covered > 0 => q > 0) /\ (q > 0 => covered > 0)
  BY <1>1, <1>2, <1>4
<1>6. known \in Int
  <2>1. CASE covered = 0
    BY <2>1
  <2>2. CASE covered > 0
    <3>1. a \in Int /\ q > 0 /\ a * covered \in Int
      BY <1>1, <1>5, <2>2
    <3>2. RoundDiv(a * covered, q) \in Int
      BY <1>1, <3>1, RoundDivIsInt
    <3> QED
      BY <2>2, <3>1, <3>2
  <2> QED
    BY <1>5, <2>1, <2>2
<1> HIDE DEF known
<1>7. e.known \in Int /\ e.short = out - covered /\ e.short \in Nat /\ e.pending = (out > covered)
  BY <1>2, <1>5, <1>6
<1>8. Tracked(e)
  <2>1. e.short = 0 => (out > covered) = FALSE
    BY <1>2, <1>5, <1>7
  <2> HIDE DEF e
  <2> QED
    BY <1>7, <2>1 DEF Tracked
<1>9. q - out >= 0 => left \in Int
  BY <1>1, <1>2, <1>4, <1>6
<1> HIDE DEF left
<1>10. store.quant = q - out /\ store.quant \in Int /\ (store.quant >= 0 => store.amount \in Int)
  BY <1>1, <1>2, <1>9
<1> HIDE DEF e, store
<1>11. Owed(L, st.work, p) + e.short = Lack(store.quant)
  BY <1>1, <1>2, <1>4, <1>7, <1>10 DEF Lack
<1>12. n.stock = [st.stock EXCEPT ![p] = store] /\ n.work = [st.work EXCEPT ![MovementKey(m)] = e]
  BY <1>3
<1>13. BalancedAt(L, p, n, store.quant)
  BY <1>1, <1>8, <1>10, <1>11, <1>12, BalancedChange
<1>14. store.quant = q + m.quant
  BY <1>1, <1>2, <1>10
<1> QED
  BY <1>13, <1>14 DEF q

-----------------------------------------------------------------------------
(* Balances fed by receipts and drawn by consumptions.                     *)

\* Balances fed by receipts and drawn by consumptions only.
Plain(L, p) == \A m \in Held(L, p) : m.type # "Transfer"

\* Nothing but the stock of the balance of m has changed.
EntersStock(stock, m, after) == \E store : after = [stock EXCEPT ![Position(m)] = store]

\* A visit enters one stock.
LEMMA VisitStocks ==
    ASSUME NEW L, NEW prev, NEW st, NEW m, m.quant \in Int, m.quant # 0
    PROVE  EntersStock(st.stock, m, Visit(L, prev, st, m).stock)
<1> DEFINE amount == IncomingAmount(L, prev, m)
<1>1. CASE m.quant > 0 /\ amount = Null
  <2> DEFINE old == st.stock[Position(m)]
             store == [quant |-> old.quant + m.quant, amount |-> Null]
  <2>1. Visit(L, prev, st, m) = ReceiveUnvalued(st, m)
    BY <1>1 DEF Visit
  <2>2. ReceiveUnvalued(st, m).stock = [st.stock EXCEPT ![Position(m)] = store]
    BY DEF ReceiveUnvalued
  <2> HIDE DEF store
  <2> QED
    BY <2>1, <2>2 DEF EntersStock
<1>2. CASE m.quant > 0 /\ amount # Null
  <2>1. Visit(L, prev, st, m) = ReceiveValued(L, st, m, amount)
    BY <1>2 DEF Visit
  <2> HIDE DEF amount
  <2>2. \E store : ReceiveValued(L, st, m, amount).stock = [st.stock EXCEPT ![Position(m)] = store]
    BY DEF ReceiveValued
  <2> QED
    BY <2>1, <2>2 DEF EntersStock
<1>3. CASE m.quant < 0
  <2>1. ~(m.quant > 0)
    BY <1>3
  <2>2. Visit(L, prev, st, m) = Issue(st, m)
    BY <1>3, <2>1 DEF Visit
  <2>3. \E store : Issue(st, m).stock = [st.stock EXCEPT ![Position(m)] = store]
    BY DEF Issue
  <2> QED
    BY <2>2, <2>3 DEF EntersStock
<1> HIDE DEF amount
<1>4. m.quant > 0 \/ m.quant < 0
  OBVIOUS
<1> QED
  BY <1>1, <1>2, <1>3, <1>4

\* Visiting a row of a plain balance.
LEMMA PlainVisitBalances ==
    ASSUME NEW L, Movements(L), Numbered(L), NEW prev, NEW p, Plain(L, p), NEW m \in Held(L, p),
           NEW st, Balanced(L, p, st), st.work[MovementKey(m)].short = 0
    PROVE  BalancedAt(L, p, Visit(L, prev, st, m), st.stock[p].quant + m.quant)
<1>1. /\ m \in L /\ m.quant \in Int /\ m.quant # 0 /\ m.type \in Types /\ m.type # "Transfer"
      /\ m.quant < 0 <=> m.type = "Consumption"
      /\ m.type = "Receipt" => m.source \in Nat
  BY DEF Held, Plain, Movements, Counted, Named, Placed
<1>2. CASE m.quant > 0
  <2>1. m.type = "Receipt" /\ m.source \in Nat
    BY <1>1, <1>2 DEF Types
  <2>2. IncomingAmount(L, prev, m) = m.source
    BY <2>1 DEF IncomingAmount
  <2>3. m.source # Null /\ m.source \in Int
    BY <2>1, NullAssumption
  <2> DEFINE amount == IncomingAmount(L, prev, m)
  <2>5. Visit(L, prev, st, m) = ReceiveValued(L, st, m, amount)
    <3>1. amount # Null
      BY <2>2, <2>3
    <3> HIDE DEF amount
    <3> QED
      BY <1>1, <1>2, <3>1 DEF Visit, amount
  <2>4. Visit(L, prev, st, m) = ReceiveValued(L, st, m, m.source)
    BY <2>2, <2>5
  <2> QED
    BY <1>2, <2>3, <2>4, ReceiptBalances
<1>3. CASE m.quant < 0
  <2>1. ~(m.quant > 0)
    BY <1>1, <1>3
  <2>2. Visit(L, prev, st, m) = Issue(st, m)
    BY <1>3, <2>1 DEF Visit
  <2> QED
    BY <1>3, <2>2, IssueBalances
<1> QED
  BY <1>1, <1>2, <1>3

\* Visiting a row of another balance.
LEMMA OtherVisitBalances ==
    ASSUME NEW L, Movements(L), Numbered(L), NEW prev, NEW p, p \in PositionsOf(L),
           NEW m \in L, Position(m) # p, NEW st, Balanced(L, p, st)
    PROVE  BalancedAt(L, p, Visit(L, prev, st, m), st.stock[p].quant)
<1> DEFINE n == Visit(L, prev, st, m)
           H == Held(L, p)
<1>1. /\ m.quant \in Int /\ m.quant # 0 /\ IsFiniteSet(L)
      /\ WorkShaped(L, st.work) /\ StockShaped(L, st.stock)
      /\ H \in SUBSET L /\ \A k \in H : Position(k) = p
  BY DEF Movements, Counted, Named, Balanced, AllTracked, Held
<1>2. PICK store : n.stock = [st.stock EXCEPT ![Position(m)] = store]
  <2>1. EntersStock(st.stock, m, n.stock)
    BY <1>1, VisitStocks
  <2> QED
    BY <2>1 DEF EntersStock
<1>3. WorkShaped(L, n.work)
  BY <1>1, VisitKeeps
<1>4. \A k \in H : n.work[MovementKey(k)] = st.work[MovementKey(k)]
  BY <1>1, VisitKeeps
<1> HIDE DEF n
<1>5. StockShaped(L, n.stock) /\ n.stock[p] = st.stock[p]
  BY <1>1, <1>2 DEF StockShaped
<1>6. AllTracked(L, p, n.work)
  BY <1>3, <1>4 DEF AllTracked, Balanced
<1>7. Owed(L, n.work, p) = Owed(L, st.work, p)
  <2>1. IsFiniteSet(H)
    BY <1>1, FS_Subset
  <2>2. \A k \in H : ShortIn(L, n.work)[k] = ShortIn(L, st.work)[k]
    BY <1>1, <1>4 DEF ShortIn
  <2> QED
    BY <2>1, <2>2, SumSame DEF Owed
<1> QED
  BY <1>5, <1>6, <1>7 DEF Balanced, BalancedAt, n

\* After any of the first movements a plain balance lacks what its
\* quantities lack, and the movements to come lack nothing yet.
Accounted(L, p, s, st) ==
    /\ BalancedAt(L, p, st, QuantOf(Held(s, p)))
    /\ \A k \in Held(L, p) \ s : st.work[MovementKey(k)].short = 0

\* Nothing is missing at the beginning.
LEMMA AccountedInit ==
    ASSUME NEW L, IsFiniteSet(L), NEW p \in PositionsOf(L)
    PROVE  Accounted(L, p, {}, InitialReplay(L))
<1> DEFINE st == InitialReplay(L)
<1>1. /\ st.stock = [x \in PositionsOf(L) |-> [quant |-> 0, amount |-> 0]]
      /\ st.work = [k \in KeysOf(L) |-> [known |-> 0, short |-> 0, pending |-> FALSE]]
  BY DEF InitialReplay, PositionsOf, KeysOf
<1> HIDE DEF st
<1>2. WorkShaped(L, st.work) /\ StockShaped(L, st.stock)
  BY <1>1 DEF WorkShaped, StockShaped
<1>3. \A m \in L : Tracked(st.work[MovementKey(m)]) /\ st.work[MovementKey(m)].short = 0
  BY <1>1 DEF Tracked, KeysOf
<1>4. Held(L, p) \in SUBSET L /\ IsFiniteSet(Held(L, p))
  BY FS_Subset DEF Held
<1>5. AllTracked(L, p, st.work)
  BY <1>2, <1>3, <1>4 DEF AllTracked
<1>6. Owed(L, st.work, p) = 0
  BY <1>3, <1>4, SumOfNothing DEF Owed, ShortIn
<1>7. st.stock[p].quant = 0 /\ st.stock[p].amount = 0
  BY <1>1
<1>8. QuantOf(Held({}, p)) = 0
  <2>1. IsFiniteSet({}) /\ \A m \in {} : [x \in {} |-> 0][m] = m.quant
    BY FS_EmptySet
  <2>2. QuantOf({}) = Sum([x \in {} |-> 0], {})
    BY <2>1, QuantOfSum
  <2>3. Held({}, p) = {}
    BY DEF Held
  <2> QED
    BY <2>2, <2>3, SumEmpty
<1> QED
  BY <1>2, <1>3, <1>4, <1>5, <1>6, <1>7, <1>8 DEF Accounted, BalancedAt, Balanced, Lack, st

\* A visit keeps the account of a plain balance.
LEMMA AccountedStep ==
    ASSUME NEW L, Movements(L), Numbered(L), NEW prev, NEW p \in PositionsOf(L), Plain(L, p),
           NEW s \in SUBSET L, NEW m \in s, NEW st, Accounted(L, p, s \ {m}, st)
    PROVE  Accounted(L, p, s, Visit(L, prev, st, m))
<1> DEFINE t == s \ {m}
           n == Visit(L, prev, st, m)
<1>1. m \in L /\ Counted(L) /\ WorkShaped(L, st.work)
  BY DEF Movements, Accounted, BalancedAt, Balanced, AllTracked
<1>2. /\ Balanced(L, p, st) /\ st.stock[p].quant = QuantOf(Held(t, p))
      /\ \A k \in Held(L, p) \ t : st.work[MovementKey(k)].short = 0
  BY DEF Accounted, BalancedAt
<1>3. CASE Position(m) = p
  <2>1. m \in Held(L, p) /\ m \in Held(s, p) /\ Held(s, p) \in SUBSET L /\ Held(t, p) = Held(s, p) \ {m}
    BY <1>1, <1>3 DEF Held
  <2>2. QuantOf(Held(s, p)) = QuantOf(Held(t, p)) + m.quant
    BY <1>1, <2>1, QuantAdd
  <2>3. st.work[MovementKey(m)].short = 0
    BY <1>2, <2>1
  <2>4. BalancedAt(L, p, n, st.stock[p].quant + m.quant)
    BY <1>2, <2>1, <2>3, PlainVisitBalances
  <2>5. ASSUME NEW k \in Held(L, p) \ s PROVE n.work[MovementKey(k)].short = 0
    <3>1. k \in L /\ k # m /\ st.work[MovementKey(k)].short = 0
      BY <1>2 DEF Held
    <3> QED
      BY <1>1, <3>1, VisitKeeps
  <2> QED
    BY <1>2, <2>2, <2>4, <2>5 DEF Accounted
<1>4. CASE Position(m) # p
  <2>1. Held(s, p) = Held(t, p)
    BY <1>4 DEF Held
  <2>2. BalancedAt(L, p, n, st.stock[p].quant)
    BY <1>1, <1>2, <1>4, OtherVisitBalances
  <2>3. ASSUME NEW k \in Held(L, p) \ s PROVE n.work[MovementKey(k)].short = 0
    <3>1. k \in L /\ k # m /\ k \in Held(L, p) \ t
      BY DEF Held
    <3>2. st.work[MovementKey(k)].short = 0
      BY <1>2, <3>1
    <3> QED
      BY <1>1, <3>1, <3>2, VisitKeeps
  <2> QED
    BY <1>2, <2>1, <2>2, <2>3 DEF Accounted
<1> QED
  BY <1>3, <1>4

\* The whole replay keeps the account of a plain balance.
LEMMA ReplayAccounts ==
    ASSUME NEW L, Movements(L), Numbered(L), NEW prev, NEW p \in PositionsOf(L), Plain(L, p)
    PROVE  Accounted(L, p, L, Replay(L, prev))
<1> DEFINE st(t) == ReplayState(L, prev, t)
           Bad == {t \in SUBSET L : ~Accounted(L, p, t, st(t))}
<1>0. Named(L) /\ IsFiniteSet(L)
  BY DEF Movements, Counted, Named
<1>1. Bad = {}
  <2> SUFFICES ASSUME Bad # {} PROVE FALSE
    OBVIOUS
  <2>1. Bad \in SUBSET (SUBSET L)
    OBVIOUS
  <2> HIDE DEF Bad
  <2>2. PICK t \in Bad : \A u \in Bad : u \subseteq t => u = t
    BY <1>0, <2>1, MinimalSubset
  <2>3. t \in SUBSET L /\ ~Accounted(L, p, t, st(t))
    BY <2>2 DEF Bad
  <2>4. t # {}
    <3>1. st({}) = InitialReplay(L)
      BY <1>0, ReplaySteps
    <3>2. Accounted(L, p, {}, InitialReplay(L))
      BY <1>0, AccountedInit
    <3> HIDE DEF st
    <3> QED
      BY <2>3, <3>1, <3>2
  <2> DEFINE m == LastRow(t)
             u == t \ {m}
  <2>5. m \in t /\ u \in SUBSET L /\ u \subseteq t /\ u # t
    BY <1>0, <2>3, <2>4, LastOfRows
  <2>6. st(t) = Visit(L, prev, st(u), m)
    BY <1>0, <2>3, <2>4, ReplaySteps
  <2> HIDE DEF st, m
  <2>7. Accounted(L, p, u, st(u))
    BY <2>2, <2>5 DEF Bad
  <2>8. Accounted(L, p, t, Visit(L, prev, st(u), m))
    BY <2>3, <2>5, <2>7, AccountedStep
  <2> QED
    BY <2>3, <2>6, <2>8
<1>2. Accounted(L, p, L, st(L))
  BY <1>1
<1> QED
  BY <1>0, <1>2, ReplaySteps

\* A plain balance that does not lack anything in the end has all its
\* values after one pass.
LEMMA PlainPassValues ==
    ASSUME NEW L, Movements(L), Numbered(L), NEW prev, NEW p, Plain(L, p), QuantOf(Held(L, p)) >= 0,
           NEW m \in Held(L, p)
    PROVE  ~Unvalued(Pass(L, prev), m)
<1> DEFINE st == Replay(L, prev)
           w == st.work[MovementKey(m)]
           H == Held(L, p)
           q == ShortIn(L, st.work)
<1>1. m \in L /\ p \in PositionsOf(L) /\ Named(L) /\ IsFiniteSet(L) /\ m.quant \in Int /\ m.quant # 0
  BY DEF Held, PositionsOf, Movements, Counted, Named
<1>2. Balanced(L, p, st) /\ st.stock[p].quant = QuantOf(H)
  BY <1>1, ReplayAccounts DEF Accounted, BalancedAt
<1> HIDE DEF st
<1>3. AllTracked(L, p, st.work) /\ Tracked(w)
  BY <1>2 DEF Balanced, AllTracked
<1>4. Owed(L, st.work, p) = 0
  <2>1. Owed(L, st.work, p) = Lack(QuantOf(H))
    BY <1>2 DEF Balanced
  <2> QED
    BY <2>1 DEF Lack
<1>5. IsFiniteSet(H) /\ \A k \in H : q[k] = st.work[MovementKey(k)].short /\ q[k] \in Int /\ q[k] >= 0
  BY <1>1, <1>3, OwedIsNumber
<1> HIDE DEF q, H
<1>6. Sum(q, H) >= q[m]
  BY <1>5, SumAtLeastTerm DEF H
<1>7. w.short = 0
  <2>1. q[m] = w.short /\ q[m] \in Int /\ q[m] >= 0
    BY <1>5 DEF H
  <2>2. Sum(q, H) = 0
    BY <1>4 DEF Owed, q, H
  <2> QED
    BY <1>6, <2>1, <2>2
<1> HIDE DEF w
<1>8. w.pending = FALSE /\ w.known \in Int
  BY <1>3, <1>7 DEF Tracked
<1>9. StoredValue(m, w).pending = FALSE /\ StoredValue(m, w).amount \in Int
  BY <1>1, <1>8 DEF StoredValue
<1>10. Pass(L, prev)[MovementKey(m)] = StoredValue(m, w)
  BY <1>1, PassValue DEF w, st
<1> DEFINE v == StoredValue(m, w)
<1>11. v.pending = FALSE /\ v.amount \in Int /\ Pass(L, prev)[MovementKey(m)] = v
  BY <1>9, <1>10
<1> HIDE DEF v
<1> QED
  BY <1>11, NullAssumption DEF Unvalued

\* Every shortage of a plain balance at zero or above is paid.
LEMMA ShortagesPaid ==
    ASSUME LedgerMatchesDocuments, RowsStand, Revaluated
    PROVE  ReceiptsResolveShortages
<1> SUFFICES ASSUME NEW p \in PlainPositions, QuantOf(RowsAt(p)) >= 0, NEW m \in RowsAt(p)
             PROVE  ~Unvalued(val, m)
  BY DEF ReceiptsResolveShortages
<1>1. Movements(ledger) /\ Numbered(ledger) /\ IsFiniteSet(ledger) /\ ledger # {}
  BY LedgerIsMovements DEF RowsAt, Movements, Counted, Named
<1>2. RowsAt(p) = Held(ledger, p)
  BY DEF RowsAt, Held
<1>3. Plain(ledger, p)
  BY <1>2 DEF Plain, PlainPositions
<1>4. PICK before : val = Revalued(ledger, before)
  BY <1>1 DEF Revaluated
<1>5. \E prev : val = Pass(ledger, prev)
  <2> DEFINE N == MaxPasses(ledger)
  <2>1. N \in Nat /\ N >= 2
    BY <1>1, PassesBound
  <2>2. PICK B : val = B[N] /\ \A n \in 1..N : B[n] = Pass(ledger, B[n - 1])
    BY <1>1, <1>4, RevaluedPasses
  <2> HIDE DEF N
  <2>3. N \in 1..N
    BY <2>1
  <2> QED
    BY <2>2, <2>3
<1>6. PICK prev : val = Pass(ledger, prev)
  BY <1>5
<1> QED
  BY <1>1, <1>2, <1>3, <1>6, PlainPassValues

\* A balance fed by receipts and drawn by consumptions only never waits for
\* a value once its quantity is back at zero or above: what was missing at
\* its movements is all the balance lacked, and each receipt paid the
\* earliest of it.
THEOREM ShortagesAreResolved == Spec => []ReceiptsResolveShortages
<1>1. LedgerMatchesDocuments /\ RowsStand /\ Revaluated => ReceiptsResolveShortages
  BY ShortagesPaid
<1> QED
  BY <1>1, RegisterMatchesDocuments, RowsStandAlways, RevaluatedAlways, PTL


-----------------------------------------------------------------------------
(* What a register is worth depends on its contents alone.                 *)

\* A replay stores a value for every movement.
LEMMA RevaluedIsFunction ==
    ASSUME NEW L, NEW before
    PROVE  Revalued(L, before) = [k \in KeysOf(L) |-> Revalued(L, before)[k]]
<1>1. ASSUME NEW prev PROVE Pass(L, prev) = [k \in KeysOf(L) |-> Pass(L, prev)[k]]
  BY DEF Pass, KeysOf
<1>2. \E prev : Revalued(L, before) = Pass(L, prev)
  BY Zenon DEF Revalued
<1>3. PICK prev : Revalued(L, before) = Pass(L, prev)
  BY <1>2
<1> QED
  BY <1>1, <1>3

\* A register without overdrafts and another with the same contents, whatever
\* was stored with either, are given the same values.
LEMMA CopiedValues ==
    ASSUME NEW L, Numbered(L), NEW K, Numbered(K), NEW g, Copies(L, L, K, K, g),
           NeverNegative(L), NEW before, NEW other
    PROVE  Revalued(L, before) = Revalued(K, other)
<1> DEFINE v == Revalued(L, before)
           z == Revalued(K, other)
<1>1. Movements(L) /\ Prefix(L, L) /\ Movements(K) /\ Prefix(K, K)
  BY DEF Copies
<1>2. ASSUME NEW n \in K PROVE ~Overdraws(K, n)
  <2>1. PICK m \in L : g[m] = n
    BY DEF Copies
  <2> QED
    BY <2>1, CopiedOverdraws DEF NeverNegative
<1>3. Settles(L, L, v, v)
  BY <1>1, RevaluedSettles DEF NeverNegative
<1>4. Settles(K, K, z, z)
  BY <1>1, <1>2, RevaluedSettles
<1>5. \A m \in L : v[MovementKey(m)] = z[MovementKey(m)]
  BY <1>3, <1>4, CopiesSettleAlike
<1>6. KeysOf(L) = KeysOf(K)
  <2>1. \A m \in L : g[m] \in K /\ MovementKey(g[m]) = MovementKey(m)
    BY CopiedRow DEF Copies
  <2>2. \A n \in K : \E m \in L : g[m] = n
    BY DEF Copies
  <2> QED
    BY <2>1, <2>2 DEF KeysOf
<1>7. v = [k \in KeysOf(L) |-> v[k]] /\ z = [k \in KeysOf(K) |-> z[k]]
  BY RevaluedIsFunction
<1>8. \A k \in KeysOf(L) : v[k] = z[k]
  BY <1>5 DEF KeysOf
<1> HIDE DEF v, z
<1>9. v = z
  BY <1>6, <1>7, <1>8
<1> QED
  BY <1>9 DEF v, z

\* A register without overdrafts has the values that any replay of the same
\* contents gives them, in whatever order the rows were entered and whatever
\* was stored with them before.
ValuesFollowContents ==
    ledger # {} /\ NeverNegative(ledger) =>
      \A L, before :
         /\ Movements(L) /\ Numbered(L) /\ \A m \in L : IsRow(m)
         /\ Contents(L) = Contents(ledger)
         => Revalued(L, before) = val

LEMMA ContentsValue ==
    ASSUME Replayable, Revaluated
    PROVE  ValuesFollowContents
<1> SUFFICES ASSUME ledger # {}, NeverNegative(ledger), NEW L, NEW before,
                    Movements(L), Numbered(L), \A m \in L : IsRow(m),
                    Contents(L) = Contents(ledger)
             PROVE  Revalued(L, before) = val
  BY DEF ValuesFollowContents
<1>1. PICK b : val = Revalued(ledger, b)
  BY DEF Revaluated
<1>2. Prefix(L, L) /\ Prefix(ledger, ledger)
  BY DEF Prefix
<1>3. Movements(ledger) /\ Numbered(ledger) /\ \A m \in ledger : IsRow(m)
  BY DEF Replayable
<1>4. PICK g : Copies(ledger, ledger, L, L, g)
  BY <1>2, <1>3, ContentsCopied
<1>5. Revalued(ledger, b) = Revalued(L, before)
  BY <1>3, <1>4, CopiedValues
<1> QED
  BY <1>1, <1>5

\* In a register without overdrafts the stored values are those that any
\* replay of the same contents gives: neither the order in which documents
\* were entered nor what was stored before them leaves a trace.
THEOREM ValuesAreDetermined == Spec => []ValuesFollowContents
<1>1. Replayable /\ Revaluated => ValuesFollowContents
  BY ContentsValue
<1> QED
  BY <1>1, ReplayableAlways, RevaluatedAlways, PTL

-----------------------------------------------------------------------------
(* Passes may stop.                                                        *)

\* The code stops after a pass that has changed nothing; the passes that the
\* model goes on with store the same.
THEOREM PassesMayStop ==
    ASSUME NEW L, IsFiniteSet(L), NEW B, \A n \in 1..MaxPasses(L) : B[n] = Pass(L, B[n - 1]),
           NEW k \in 1..MaxPasses(L), B[k] = B[k - 1]
    PROVE  Revalued(L, B[0]) = B[k]
<1> DEFINE N == MaxPasses(L)
<1>0. N \in Nat /\ N >= 2
  BY PassesBound
<1>1. PICK A : Revalued(L, B[0]) = A[N] /\ A[0] = B[0] /\ \A n \in 1..N : A[n] = Pass(L, A[n - 1])
  BY RevaluedPasses
<1> HIDE DEF N
<1>2. \A n \in 0..N : A[n] = B[n]
  <2> DEFINE Bad == {n \in 0..N : A[n] # B[n]}
  <2> SUFFICES ASSUME Bad # {} PROVE FALSE
    OBVIOUS
  <2>1. Bad \in SUBSET Nat
    BY <1>0
  <2> HIDE DEF Bad
  <2>2. PICK n \in Bad : \A i \in Bad : n <= i
    BY <2>1, LeastNumber
  <2>3. n \in 0..N /\ A[n] # B[n]
    BY <2>2 DEF Bad
  <2>4. n # 0
    BY <1>1, <2>3
  <2>5. n \in 1..N /\ n - 1 \in 0..N /\ ~(n <= n - 1)
    BY <1>0, <2>3, <2>4
  <2>6. n - 1 \notin Bad
    BY <2>2, <2>5
  <2>7. A[n - 1] = B[n - 1]
    BY <2>5, <2>6 DEF Bad
  <2>8. A[n] = Pass(L, A[n - 1]) /\ B[n] = Pass(L, B[n - 1])
    BY <1>1, <2>5 DEF N
  <2> QED
    BY <2>3, <2>7, <2>8
<1>3. \A n \in k..N : B[n] = B[k]
  <2> DEFINE Bad == {n \in k..N : B[n] # B[k]}
  <2> SUFFICES ASSUME Bad # {} PROVE FALSE
    OBVIOUS
  <2>0. k \in 1..N
    BY DEF N
  <2>1. Bad \in SUBSET Nat
    BY <1>0, <2>0
  <2> HIDE DEF Bad
  <2>2. PICK n \in Bad : \A i \in Bad : n <= i
    BY <2>1, LeastNumber
  <2>3. n \in k..N /\ B[n] # B[k]
    BY <2>2 DEF Bad
  <2>4. n # k
    BY <2>3
  <2>5. n \in 1..N /\ n - 1 \in k..N /\ ~(n <= n - 1)
    BY <1>0, <2>0, <2>3, <2>4
  <2>6. n - 1 \notin Bad
    BY <2>2, <2>5
  <2>7. B[n - 1] = B[k]
    BY <2>5, <2>6 DEF Bad
  <2>8. B[n] = Pass(L, B[n - 1]) /\ B[k] = Pass(L, B[k - 1])
    BY <2>0, <2>5 DEF N
  <2>9. Pass(L, B[k]) = B[k]
    BY <2>8
  <2> QED
    BY <2>3, <2>7, <2>8, <2>9
<1>4. N \in 0..N /\ N \in k..N
  BY <1>0 DEF N
<1> QED
  BY <1>1, <1>2, <1>3, <1>4

-----------------------------------------------------------------------------
(* Snapshots.                                                              *)

\* The line of a balance in rg_materials_balance.
Line(S, v, p) == [quant |-> QuantOf(Held(S, p)), amount |-> AmountOf(Held(S, p), v)]

LEMMA BalanceLines ==
    ASSUME NEW S, NEW v
    PROVE  Balance(S, v) =
             [p \in {q \in PositionsOf(S) : Line(S, v, q) # [quant |-> 0, amount |-> 0]}
                |-> Line(S, v, p)]
BY DEF Balance, Line, Held, PositionsOf

\* The amount of rows that have a value each is the sum of the values.
LEMMA AmountIsSum ==
    ASSUME NEW S, NEW v, NEW q,
           \A m \in S : /\ v[MovementKey(m)].pending = FALSE /\ v[MovementKey(m)].amount \in Int
                        /\ q[m] = v[MovementKey(m)].amount
    PROVE  AmountOf(S, v) = Sum(q, S)
<1>1. \A m \in S : ~Unvalued(v, m)
  BY NullAssumption DEF Unvalued
<1>2. AmountOf(S, v) = WorthOf(S, v)
  BY <1>1 DEF AmountOf, WorthOf
<1> QED
  BY <1>2, WorthOfSum

\* Movements that have their values in v, and the same in z.
PricedAlike(s, v, z) ==
    \A m \in s : /\ v[MovementKey(m)].pending = FALSE /\ v[MovementKey(m)].amount \in Int
                 /\ z[MovementKey(m)] = v[MovementKey(m)]

\* Copies with the same values have the same balances.
LEMMA CopiedBalance ==
    ASSUME NEW L, NEW s, NEW K, NEW t, NEW g, Copies(L, s, K, t, g), NEW v, NEW z,
           PricedAlike(s, v, z)
    PROVE  Balance(t, z) = Balance(s, v)
<1>0. \A m \in s : /\ v[MovementKey(m)].pending = FALSE /\ v[MovementKey(m)].amount \in Int
                   /\ z[MovementKey(m)] = v[MovementKey(m)]
  BY DEF PricedAlike
<1>1. \A m \in s : /\ g[m] \in t /\ MovementKey(g[m]) = MovementKey(m)
                   /\ Position(g[m]) = Position(m)
  BY CopiedRow DEF Copies
<1>2. \A n \in t : \E m \in s : g[m] = n
  BY DEF Copies
<1>3. IsFiniteSet(s) /\ IsFiniteSet(t) /\ \A m, k \in s : g[m] = g[k] => m = k
  BY CopiesApart
<1>4. PositionsOf(t) = PositionsOf(s)
  BY <1>1, <1>2 DEF PositionsOf
<1>5. ASSUME NEW p PROVE Line(t, z, p) = Line(s, v, p)
  <2> DEFINE A == Held(s, p)
             V == [m \in s |-> v[MovementKey(m)].amount]
             Z == [n \in t |-> z[MovementKey(n)].amount]
  <2>1. A \in SUBSET s /\ Held(t, p) = Moved(g, A)
    BY <1>1, <1>2 DEF Held, Moved
  <2> HIDE DEF A
  <2>2. QuantOf(Moved(g, A)) = QuantOf(A)
    BY <2>1, CopiedQuant
  <2>3. \A m \in A : m \in s /\ V[m] = v[MovementKey(m)].amount
    BY <2>1
  <2>4. AmountOf(A, v) = Sum(V, A)
    <3> HIDE DEF V
    <3> QED
      BY <1>0, <2>3, AmountIsSum
  <2>5. \A n \in Moved(g, A) :
           /\ z[MovementKey(n)].pending = FALSE /\ z[MovementKey(n)].amount \in Int
           /\ Z[n] = z[MovementKey(n)].amount
    <3> TAKE n \in Moved(g, A)
    <3>1. PICK m \in A : n = g[m]
      BY DEF Moved
    <3>2. m \in s /\ n \in t /\ MovementKey(n) = MovementKey(m)
      BY <1>1, <2>1, <3>1
    <3> QED
      BY <1>0, <3>2
  <2>6. AmountOf(Moved(g, A), z) = Sum(Z, Moved(g, A))
    <3> HIDE DEF Z
    <3> QED
      BY <2>5, AmountIsSum
  <2>7. \A m \in A : V[m] \in Int /\ Z[g[m]] = V[m]
    <3> TAKE m \in A
    <3>1. m \in s /\ g[m] \in t /\ MovementKey(g[m]) = MovementKey(m)
      BY <1>1, <2>1
    <3> QED
      BY <1>0, <3>1
  <2>8. Sum(Z, Moved(g, A)) = Sum(V, A)
    <3>1. IsFiniteSet(A) /\ \A m \in A : g[m] \in t
      BY <1>1, <1>3, <2>1, FS_Subset
    <3>2. \A m, k \in A : g[m] = g[k] => m = k
      BY <1>3, <2>1
    <3> HIDE DEF V, Z
    <3> QED
      BY <1>3, <2>7, <3>1, <3>2, SumMoved
  <2> QED
    BY <2>1, <2>2, <2>4, <2>6, <2>8 DEF Line, A
<1>6. /\ Balance(t, z) = [p \in {q \in PositionsOf(t) : Line(t, z, q) # [quant |-> 0, amount |-> 0]}
                            |-> Line(t, z, p)]
      /\ Balance(s, v) = [p \in {q \in PositionsOf(s) : Line(s, v, q) # [quant |-> 0, amount |-> 0]}
                            |-> Line(s, v, p)]
  BY BalanceLines
<1> QED
  BY <1>4, <1>5, <1>6

\* While a period is closed, the snapshot stored when it was closed is the
\* balance that its rows and their values make up now.
SnapshotInForce == closedThrough # Null => snapshots[Len(closures)] = Balance(ClosedRows, val)

\* What is appended comes last.
LEMMA AppendedLast ==
    ASSUME NEW n \in Nat, NEW s, s = [i \in 1..n |-> s[i]], NEW e
    PROVE  Append(s, e)[n + 1] = e
<1> DEFINE S == {s[i] : i \in 1..n}
<1>1. s \in Seq(S)
  OBVIOUS
<1>2. Len(s) = n
  BY <1>1, LenProperties
<1> HIDE DEF S
<1> QED
  BY <1>1, <1>2, AppendProperties

\* No step lets the snapshot of a closed period differ from its balance.
LEMMA SnapshotStep ==
    ASSUME TypeOK, TypeOK', LedgerMatchesDocuments, LedgerMatchesDocuments',
           Replayable, Replayable', ClosedSettled, ClosedSettled', SnapshotInForce, [Next]_vars
    PROVE  SnapshotInForce'
<1>1. ASSUME NEW day \in Days, Close(day) PROVE SnapshotInForce'
  <2> DEFINE b == Balance(OnOrBefore(ledger, day), val')
  <2>1. closures \in Seq([through : Days, reopened : BOOLEAN])
    BY DEF TypeOK
  <2>2. Len(closures) \in Nat /\ DOMAIN closures = 1..Len(closures)
    BY <2>1, LenProperties
  <2>3. snapshots = [i \in 1..Len(closures) |-> snapshots[i]]
    BY <2>2 DEF TypeOK
  <2>4. /\ closures' = Append(closures, [through |-> day, reopened |-> FALSE])
        /\ snapshots' = Append(snapshots, b) /\ closedThrough' = day /\ ledger' = ledger
    BY <1>1 DEF Close
  <2>5. Len(closures') = Len(closures) + 1
    BY <2>1, <2>4, AppendProperties
  <2> HIDE DEF b
  <2>6. snapshots'[Len(closures')] = b
    BY <2>2, <2>3, <2>4, <2>5, AppendedLast
  <2> QED
    BY <2>4, <2>6 DEF b, SnapshotInForce, ClosedRows
<1>2. CASE Reopen
  BY <1>2 DEF Reopen, SnapshotInForce
<1>3. CASE ~Reopen /\ ~(\E day \in Days : Close(day))
  <2>1. closedThrough' = closedThrough /\ closures' = closures /\ snapshots' = snapshots
    BY <1>3 DEF Next, vars, period, Create, Update, Delete, SetNegativePolicy, SetVatBasis, Recalculate
  <2>2. CASE closedThrough = Null
    BY <2>1, <2>2 DEF SnapshotInForce
  <2>3. CASE closedThrough # Null
    <3>1. PICK g : /\ Copies(ledger, ClosedRows, ledger', ClosedRows', g)
                   /\ \A m \in ClosedRows : val[MovementKey(m)] = val'[MovementKey(m)]
      BY <2>1, <2>3, ClosedCopied
    <3>2. Settles(ledger, ClosedRows, val, val)
      BY <2>3 DEF ClosedSettled
    <3>3. PricedAlike(ClosedRows, val, val')
      <4> SUFFICES ASSUME NEW m \in ClosedRows
                   PROVE  /\ val[MovementKey(m)].pending = FALSE
                          /\ val[MovementKey(m)].amount \in Int
                          /\ val'[MovementKey(m)] = val[MovementKey(m)]
        BY DEF PricedAlike
      <4>1. val[MovementKey(m)].pending = FALSE
        BY <3>2, SettledPending
      <4>2. val[MovementKey(m)].amount \in Int
        BY <3>2, SettledAmount
      <4> QED
        BY <3>1, <4>1, <4>2
    <3>4. Balance(ClosedRows', val') = Balance(ClosedRows, val)
      BY <3>1, <3>3, CopiedBalance
    <3> QED
      BY <2>1, <2>3, <3>4 DEF SnapshotInForce
  <2> QED
    BY <2>2, <2>3
<1> QED
  BY <1>1, <1>2, <1>3

\* The snapshot stored with the closure in force is the balance of the closed
\* rows at any later time, although they are valued anew, and may be numbered
\* anew, with every change of a later document.
THEOREM SnapshotsHold == Spec => []SnapshotInForce
<1>1. Init => SnapshotInForce
  BY DEF Init, SnapshotInForce
<1>2. /\ TypeOK /\ TypeOK' /\ LedgerMatchesDocuments /\ LedgerMatchesDocuments'
      /\ Replayable /\ Replayable' /\ ClosedSettled /\ ClosedSettled'
      /\ SnapshotInForce /\ [Next]_vars
      => SnapshotInForce'
  BY SnapshotStep
<1> QED
  BY <1>1, <1>2, TypeInvariant, RegisterMatchesDocuments, ReplayableAlways,
     ClosedSettledAlways, PTL DEF Spec

-----------------------------------------------------------------------------
(* Transactions that overlap: what one statement changes.                  *)

\* The fields of a transaction.
Fields == {"pc", "todo", "ins", "del", "stored", "agg", "lines", "setting", "closure", "locked",
           "allow", "prev", "seen", "work", "pass", "max", "rebuilt"}

\* An idle transaction has all of them.
LEMMA IdleFields == DOMAIN Idle = Fields
BY DEF Idle, Fields

\* Every request has a transaction of that shape.
TxShaped == tx = [r \in Requests |-> tx[r]] /\ \A r \in Requests : DOMAIN tx[r] = Fields

\* A step of r leaves the transactions of the others alone.
Alone(r) == \A s \in Requests \ {r} : tx'[s] = tx[s]

\* A statement of r sets the fields it names and the program counter.
LEMMA ProceedFields ==
    ASSUME TxShaped, NEW r \in Requests, NEW pc, NEW change,
           Proceed(r, pc, change), DOMAIN change \subseteq Fields
    PROVE  /\ TxShaped' /\ Alone(r)
           /\ tx'[r].pc = pc
           /\ \A x \in Fields \ {"pc"} :
                 tx'[r][x] = IF x \in DOMAIN change THEN change[x] ELSE tx[r][x]
<1> DEFINE X == Overlay([pc |-> pc], Overlay(change, tx[r]))
<1>1. tx' = [tx EXCEPT ![r] = X]
  BY DEF Proceed
<1>2. DOMAIN X = Fields /\ X.pc = pc
  BY DEF TxShaped, Overlay, Fields
<1>3. \A x \in Fields \ {"pc"} : X[x] = IF x \in DOMAIN change THEN change[x] ELSE tx[r][x]
  BY DEF TxShaped, Overlay, Fields
<1> HIDE DEF X
<1>4. tx'[r] = X /\ \A s \in Requests \ {r} : tx'[s] = tx[s]
  BY <1>1 DEF TxShaped
<1>5. TxShaped'
  BY <1>1, <1>2, <1>4 DEF TxShaped
<1> QED
  BY <1>2, <1>3, <1>4, <1>5 DEF Alone


\* A transaction that is rolled back leaves nothing.
LEMMA RolledBack ==
    ASSUME TxShaped, NEW r \in Requests, NEW pc, RollBack(r, pc)
    PROVE  /\ TxShaped' /\ Alone(r) /\ UNCHANGED <<committed, nextId>>
           /\ tx'[r] = [Idle EXCEPT !.pc = pc]
<1> DEFINE X == [Idle EXCEPT !.pc = pc]
<1>1. tx' = [tx EXCEPT ![r] = X] /\ UNCHANGED <<committed, nextId>>
  BY DEF RollBack
<1>2. DOMAIN X = Fields
  BY DEF Fields, Idle
<1> HIDE DEF X
<1>3. tx'[r] = X /\ Alone(r)
  BY <1>1 DEF TxShaped, Alone
<1>4. TxShaped'
  BY <1>1, <1>2, <1>3 DEF TxShaped, Alone
<1> QED
  BY <1>1, <1>3, <1>4 DEF X

\* A committed one is idle again.
LEMMA Committed ==
    ASSUME TxShaped, NEW r \in Requests, Commit(r)
    PROVE  /\ TxShaped' /\ Alone(r) /\ tx'[r] = [Idle EXCEPT !.pc = "committed"]
<1> DEFINE X == [Idle EXCEPT !.pc = "committed"]
<1>1. tx' = [tx EXCEPT ![r] = X]
  BY DEF Commit
<1>2. DOMAIN X = Fields
  BY DEF Fields, Idle
<1> HIDE DEF X
<1>3. tx'[r] = X /\ Alone(r)
  BY <1>1 DEF TxShaped, Alone
<1>4. TxShaped'
  BY <1>1, <1>2, <1>3 DEF TxShaped, Alone
<1> QED
  BY <1>3, <1>4 DEF X

\* A row is inserted, or refused.
LEMMA RowInserted ==
    ASSUME TxShaped, NEW r \in Requests, InsertRow(r)
    PROVE  \/ RollBack(r, "refused")
           \/ LET m == [Head(tx[r].todo) EXCEPT !.id = nextId]
              IN  /\ TxShaped' /\ Alone(r) /\ UNCHANGED committed
                  /\ nextId' = nextId + 1 /\ OpenDate(m.at)
                  /\ tx'[r].pc = "delta" /\ tx'[r].ins = tx[r].ins \cup {m}
                  /\ tx'[r].todo = Tail(tx[r].todo)
                  /\ tx'[r].stored = Overlay([k \in {MovementKey(m)} |-> NewValue(m)], tx[r].stored)
                  /\ \A x \in Fields \ {"pc", "todo", "ins", "stored"} : tx'[r][x] = tx[r][x]
<1> DEFINE m == [Head(tx[r].todo) EXCEPT !.id = nextId]
<1>1. CASE ~OpenDate(m.at)
  BY <1>1 DEF InsertRow
<1>2. CASE OpenDate(m.at)
  <2> DEFINE new == Overlay([k \in {MovementKey(m)} |-> NewValue(m)], tx[r].stored)
             change == [todo |-> Tail(tx[r].todo), ins |-> tx[r].ins \cup {m}, stored |-> new]
  <2>1. Proceed(r, "delta", change) /\ nextId' = nextId + 1 /\ UNCHANGED committed
    BY <1>2 DEF InsertRow
  <2> HIDE DEF m, new
  <2>2. DOMAIN change \subseteq Fields
    BY DEF Fields
  <2> HIDE DEF change
  <2>3. /\ TxShaped' /\ Alone(r) /\ tx'[r].pc = "delta"
        /\ \A x \in Fields \ {"pc"} :
                 tx'[r][x] = IF x \in DOMAIN change THEN change[x] ELSE tx[r][x]
    BY <2>1, <2>2, ProceedFields
  <2>4. /\ tx'[r].ins = tx[r].ins \cup {m} /\ tx'[r].todo = Tail(tx[r].todo)
        /\ tx'[r].stored = new
        /\ \A x \in Fields \ {"pc", "todo", "ins", "stored"} : tx'[r][x] = tx[r][x]
    BY <2>3 DEF change, Fields
  <2> QED
    BY <1>2, <2>1, <2>3, <2>4 DEF m, new
<1> QED
  BY <1>1, <1>2

-----------------------------------------------------------------------------
(* The lock on the aggregate of the register.                              *)

\* Where a transaction holds the aggregate exclusively.
AfterTruncate == {"rebuild", "verify", "remove", "commit"}

\* Nobody but a transaction that rebuilds the aggregate holds a lock on it
\* meanwhile; one that has ended holds none.
AggregateLocks ==
    /\ \A r \in Requests : ~Open(r) => tx[r].agg = "none"
    /\ \A r \in Requests : tx[r].pc \in AfterTruncate => tx[r].agg = "exclusive"
    /\ \A r, s \in Requests : r # s /\ tx[r].agg = "exclusive" => tx[s].agg = "none"

\* A statement that neither locks the aggregate nor is executed under its lock.
Early(r) ==
    /\ TxShaped' /\ Alone(r) /\ UNCHANGED committed
    /\ tx'[r].agg = tx[r].agg
    /\ tx'[r].pc \notin AfterTruncate \cup {"begin", "committed", "refused", "cancelled"}

\* A statement executed under the lock, before the commit.
Late(r) ==
    /\ TxShaped' /\ Alone(r) /\ UNCHANGED committed
    /\ tx[r].pc \in AfterTruncate /\ tx'[r].pc \in AfterTruncate
    /\ \A x \in {"agg", "ins", "del", "stored"} : tx'[r][x] = tx[r][x]

\* The last guards either raise an error or let the transaction commit.
LEMMA LateIsVerifyOrRemove ==
    ASSUME TxShaped, NEW r \in Requests, VerifyClosing(r) \/ RemoveDocument(r)
    PROVE  RollBack(r, "refused") \/ (Late(r) /\ tx'[r].rebuilt = tx[r].rebuilt
                                      /\ tx[r].pc \in {"verify", "remove"} /\ tx'[r].pc = "commit")
<1>1. RollBack(r, "refused") \/ Continue(r, "commit", <<>>)
  BY DEF VerifyClosing, RemoveDocument
<1>2. tx[r].pc \in {"verify", "remove"}
  BY DEF VerifyClosing, RemoveDocument, At
<1>3. CASE Continue(r, "commit", <<>>)
  <2>1. DOMAIN <<>> \subseteq Fields
    OBVIOUS
  <2> QED
    BY <1>2, <1>3, <2>1, ProceedFields DEF Continue, Late, AfterTruncate, Fields
<1> QED
  BY <1>1, <1>3

\* The aggregate is rebuilt from what the transaction sees.
LEMMA RebuildIsLate ==
    ASSUME TxShaped, NEW r \in Requests, Rebuild(r)
    PROVE  Late(r) /\ tx'[r].rebuilt = Aggregate(Visible(r), Values(r))
<1> DEFINE next == CASE r.kind = "Close"  -> "verify"
                     [] r.kind = "Delete" -> "remove"
                     [] OTHER             -> "commit"
           new == Aggregate(Visible(r), Values(r))
<1>1. next \in {"verify", "remove", "commit"} /\ tx[r].pc = "rebuild"
  BY DEF Rebuild, At
<1>2. Continue(r, next, [rebuilt |-> new])
  BY DEF Rebuild
<1> HIDE DEF next, new
<1>3. Late(r) /\ tx'[r].rebuilt = new
  BY <1>1, <1>2, ProceedFields DEF Continue, Late, AfterTruncate, Fields
<1> QED
  BY <1>3 DEF new

\* The statements, by what they do to the lock.
LEMMA StatementKinds ==
    ASSUME TxShaped, NEW r \in Requests, Statement(r)
    PROVE  \/ RollBack(r, "refused")
           \/ Early(r)
           \/ ReachAggregate(r)
           \/ Truncate(r)
           \/ Rebuild(r)
           \/ VerifyClosing(r) \/ RemoveDocument(r)
           \/ Commit(r)
<1> USE DEF Continue, Early, AfterTruncate, Fields
<1>1. CASE InsertDocument(r)
  BY <1>1, ProceedFields DEF InsertDocument
<1>2. CASE UpdateDocument(r)
  BY <1>2, ProceedFields DEF UpdateDocument
<1>3. CASE InsertRow(r)
  BY <1>3, RowInserted
<1>4. CASE RemoveRows(r)
  BY <1>4, ProceedFields DEF RemoveRows
<1>5. CASE ApplyDelta(r)
  <2>1. Continue(r, IF tx[r].todo # <<>> THEN "act" ELSE "replay",
                [lines |-> tx[r].lines \cup Touched(r)])
    BY <1>5 DEF ApplyDelta
  <2> QED
    BY <2>1, ProceedFields
<1>6. CASE StartRecalculation(r)
  BY <1>6, ProceedFields DEF StartRecalculation
<1>7. CASE ChangePolicy(r)
  BY <1>7, ProceedFields DEF ChangePolicy
<1>8. CASE LockSettings(r)
  BY <1>8, ProceedFields DEF LockSettings
<1>9. CASE PickClosure(r)
  BY <1>9, ProceedFields DEF PickClosure
<1>10. CASE LockClosure(r)
  BY <1>10, ProceedFields DEF LockClosure
<1>11. CASE LiftCutoff(r)
  BY <1>11, ProceedFields DEF LiftCutoff
<1>12. CASE ReadPolicy(r)
  <2> DEFINE a == IF r.kind = "Policy" THEN r.allow ELSE allowNegative
  <2>1. Continue(r, "previous", [allow |-> a])
    BY <1>12 DEF ReadPolicy
  <2> HIDE DEF a
  <2> QED
    BY <2>1, ProceedFields
<1>13. CASE TakePrevious(r)
  BY <1>13, ProceedFields DEF TakePrevious
<1>14. CASE Walk(r)
  BY <1>14, ProceedFields DEF Walk
<1>15. CASE Store(r)
  BY <1>15, ProceedFields DEF Store
<1>16. CASE Check(r)
  <2>1. \E pc \in {"walk", "truncate"} : Continue(r, pc, [prev |-> Valued(r)])
    BY <1>16 DEF Check
  <2> QED
    BY <2>1, ProceedFields
<1> QED
  BY <1>1, <1>2, <1>3, <1>4, <1>5, <1>6, <1>7, <1>8, <1>9, <1>10, <1>11, <1>12, <1>13,
     <1>14, <1>15, <1>16 DEF Statement

-----------------------------------------------------------------------------
(* The balance tables.                                                     *)

\* What a transaction that has rebuilt the aggregate will leave.
RebuiltFresh ==
    \A r \in Requests : tx[r].pc \in {"verify", "remove", "commit"} =>
      tx[r].rebuilt = Aggregate(Visible(r), Values(r))

\* The inductive invariant.
TxInv == TxShaped /\ AggregateLocks /\ RebuiltFresh /\ BalancesMatchRows

\* What is known of a transaction that has ended.
LEMMA IdleShape ==
    ASSUME NEW pc
    PROVE  /\ DOMAIN [Idle EXCEPT !.pc = pc] = Fields
           /\ [Idle EXCEPT !.pc = pc].pc = pc
           /\ \A x \in Fields \ {"pc"} : [Idle EXCEPT !.pc = pc][x] = Idle[x]
           /\ Idle.agg = "none" /\ Idle.ins = {} /\ Idle.del = {} /\ Idle.stored = <<>>
BY DEF Idle, Fields

\* What r sees is what it wrote over what is committed.
LEMMA SightKept ==
    ASSUME NEW r \in Requests, UNCHANGED committed,
           \A x \in {"ins", "del", "stored"} : tx'[r][x] = tx[r][x]
    PROVE  Visible(r)' = Visible(r) /\ Values(r)' = Values(r)
<1>1. /\ rows' = rows /\ val' = val
      /\ tx'[r].ins = tx[r].ins /\ tx'[r].del = tx[r].del /\ tx'[r].stored = tx[r].stored
  BY DEF committed
<1>2. Visible(r)' = Visible(r)
  BY <1>1 DEF Visible
<1> QED
  BY <1>1, <1>2 DEF Values

\* Nobody else is about to commit while r is.
LEMMA OnlyOne ==
    ASSUME AggregateLocks, NEW r \in Requests, NEW s \in Requests, r # s,
           tx[r].pc \in AfterTruncate
    PROVE  tx[s].pc \notin AfterTruncate
BY DEF AggregateLocks

\* The end of a transaction frees its lock.
LEMMA AggregateLocksRolledBack ==
    ASSUME TxShaped, AggregateLocks, NEW r \in Requests, Alone(r),
           NEW pc \in {"refused", "cancelled", "committed"}, tx'[r] = [Idle EXCEPT !.pc = pc]
    PROVE  AggregateLocks'
<1>1. tx'[r].pc = pc /\ tx'[r].agg = "none"
  BY IdleShape DEF Fields
<1>2. tx'[r].pc \in {"refused", "cancelled", "committed"}
  BY <1>1
<1>3. \A s \in Requests : s # r => tx'[s] = tx[s]
  BY DEF Alone
<1>4. \A s \in Requests : ~Open(s)' => tx'[s].agg = "none"
  BY <1>1, <1>3 DEF AggregateLocks, Open
<1>5. \A s \in Requests : tx'[s].pc \in AfterTruncate => tx'[s].agg = "exclusive"
  BY <1>2, <1>3 DEF AggregateLocks, AfterTruncate
<1>6. ASSUME NEW s \in Requests, NEW t \in Requests, s # t, tx'[s].agg = "exclusive"
      PROVE  tx'[t].agg = "none"
  <2>1. s # r /\ tx[s].agg = "exclusive"
    BY <1>1, <1>3, <1>6
  <2>2. tx[t].agg = "none"
    BY <1>6, <2>1 DEF AggregateLocks
  <2> QED
    BY <1>1, <1>3, <2>2
<1> QED
  BY <1>4, <1>5, <1>6 DEF AggregateLocks

\* TRUNCATE and the first delta of a row wait for each other.
LEMMA AggregateLocksStep ==
    ASSUME TxShaped, AggregateLocks, NEW r \in Requests, Statement(r)
    PROVE  TxShaped' /\ AggregateLocks'
<1>1. CASE RollBack(r, "refused")
  BY <1>1, RolledBack, AggregateLocksRolledBack
<1>2. CASE Early(r)
  BY <1>2 DEF Early, Alone, AggregateLocks, Open
<1>3. CASE ReachAggregate(r)
  <2>1. /\ TxShaped' /\ Alone(r) /\ tx'[r].pc = "line" /\ tx'[r].agg = "write"
    BY <1>3, ProceedFields DEF ReachAggregate, Continue, Fields
  <2>2. \A s \in Requests \ {r} : Open(s) => tx[s].agg # "exclusive"
    BY <1>3 DEF ReachAggregate, At, WaitsFor, Others
  <2>3. \A s \in Requests \ {r} : tx[s].agg # "exclusive"
    BY <2>2 DEF AggregateLocks
  <2> QED
    BY <2>1, <2>3 DEF Alone, AggregateLocks, Open, AfterTruncate
<1>4. CASE Truncate(r)
  <2>1. /\ TxShaped' /\ Alone(r) /\ tx'[r].pc = "rebuild" /\ tx'[r].agg = "exclusive"
    BY <1>4, ProceedFields DEF Truncate, Continue, Fields
  <2>2. \A s \in Requests \ {r} : Open(s) => tx[s].agg = "none"
    BY <1>4 DEF Truncate, At, WaitsFor, Others
  <2>3. \A s \in Requests \ {r} : tx[s].agg = "none"
    BY <2>2 DEF AggregateLocks
  <2> QED
    BY <2>1, <2>3 DEF Alone, AggregateLocks, Open, AfterTruncate
<1>5. CASE Late(r)
  BY <1>5 DEF Late, Alone, AggregateLocks, Open, AfterTruncate
<1>6. CASE Commit(r)
  BY <1>6, Committed, AggregateLocksRolledBack
<1> QED
  BY <1>1, <1>2, <1>3, <1>4, <1>5, <1>6, StatementKinds, RebuildIsLate, LateIsVerifyOrRemove

\* A step of r changes nothing that another transaction has read or written.
LEMMA OthersFresh ==
    ASSUME NEW r \in Requests, Alone(r), UNCHANGED committed, RebuiltFresh,
           NEW s \in Requests \ {r}, tx'[s].pc \in {"verify", "remove", "commit"}
    PROVE  tx'[s].rebuilt = Aggregate(Visible(s), Values(s))'
<1>1. tx'[s] = tx[s]
  BY DEF Alone
<1>2. tx[s].rebuilt = Aggregate(Visible(s), Values(s))
  BY <1>1 DEF RebuiltFresh
<1>3. Visible(s)' = Visible(s) /\ Values(s)' = Values(s)
  BY <1>1, SightKept
<1> QED
  BY <1>1, <1>2, <1>3

\* A transaction that has ended has rebuilt nothing.
LEMMA EndedFresh ==
    ASSUME NEW r \in Requests, Alone(r), UNCHANGED committed, RebuiltFresh, BalancesMatchRows,
           tx'[r].pc \notin {"verify", "remove", "commit"}
    PROVE  RebuiltFresh' /\ BalancesMatchRows'
<1>1. BalancesMatchRows'
  BY DEF BalancesMatchRows, committed
<1>2. RebuiltFresh'
  BY OthersFresh DEF RebuiltFresh
<1> QED
  BY <1>1, <1>2

\* Between its TRUNCATE and its commit nobody else commits, so what a
\* transaction has rebuilt is still the aggregate of what it sees.
LEMMA BalancesStep ==
    ASSUME TxInv, NEW r \in Requests, Statement(r)
    PROVE  RebuiltFresh' /\ BalancesMatchRows'
<1> USE DEF TxInv
<1>1. CASE RollBack(r, "refused")
  <2>1. tx'[r].pc = "refused" /\ Alone(r) /\ UNCHANGED committed
    BY <1>1, RolledBack, IdleShape
  <2> QED
    BY <2>1, EndedFresh
<1>2. CASE Early(r)
  BY <1>2, EndedFresh DEF Early, AfterTruncate
<1>3. CASE ReachAggregate(r)
  <2>1. tx'[r].pc = "line" /\ Alone(r) /\ UNCHANGED committed
    BY <1>3, ProceedFields DEF ReachAggregate, Continue, Fields
  <2> QED
    BY <2>1, EndedFresh
<1>4. CASE Truncate(r)
  <2>1. tx'[r].pc = "rebuild" /\ Alone(r) /\ UNCHANGED committed
    BY <1>4, ProceedFields DEF Truncate, Continue, Fields
  <2> QED
    BY <2>1, EndedFresh
<1>5. ASSUME Late(r), tx'[r].rebuilt = Aggregate(Visible(r), Values(r))
      PROVE  RebuiltFresh' /\ BalancesMatchRows'
  <2>1. Alone(r) /\ UNCHANGED committed /\ \A x \in {"ins", "del", "stored"} : tx'[r][x] = tx[r][x]
    BY <1>5 DEF Late
  <2>2. tx'[r].rebuilt = Aggregate(Visible(r), Values(r))'
    BY <1>5, <2>1, SightKept
  <2>3. RebuiltFresh'
    BY <2>1, <2>2, OthersFresh DEF RebuiltFresh
  <2> QED
    BY <2>1, <2>3 DEF BalancesMatchRows, committed
<1>6. CASE Rebuild(r)
  BY <1>5, <1>6, RebuildIsLate
<1>7. CASE VerifyClosing(r) \/ RemoveDocument(r)
  <2>1. CASE RollBack(r, "refused")
    BY <1>1, <2>1
  <2>2. CASE ~RollBack(r, "refused")
    <3>1. Late(r) /\ tx'[r].rebuilt = tx[r].rebuilt /\ tx[r].pc \in {"verify", "remove"}
      BY <1>7, <2>2, LateIsVerifyOrRemove
    <3>2. tx[r].rebuilt = Aggregate(Visible(r), Values(r))
      BY <3>1 DEF RebuiltFresh
    <3> QED
      BY <1>5, <3>1, <3>2
  <2> QED
    BY <2>1, <2>2
<1>8. CASE Commit(r)
  <2>1. tx[r].pc = "commit" /\ rows' = Visible(r) /\ val' = Values(r) /\ balances' = tx[r].rebuilt
    BY <1>8 DEF Commit, At
  <2>2. BalancesMatchRows'
    BY <2>1 DEF BalancesMatchRows, RebuiltFresh
  <2>3. Alone(r) /\ tx'[r].pc = "committed"
    BY <1>8, Committed, IdleShape
  <2>4. \A s \in Requests \ {r} : tx'[s].pc \notin {"verify", "remove", "commit"}
    BY <2>1, <2>3, OnlyOne DEF AfterTruncate, Alone
  <2> QED
    BY <2>2, <2>3, <2>4 DEF RebuiltFresh
<1> QED
  BY <1>1, <1>2, <1>3, <1>4, <1>6, <1>7, <1>8, StatementKinds

\* Every step keeps the invariant.
LEMMA TxInvStep == ASSUME TxInv, [TxNext]_txVars PROVE TxInv'
<1>1. ASSUME NEW r \in Requests, Statement(r) PROVE TxInv'
  BY <1>1, AggregateLocksStep, BalancesStep DEF TxInv
<1>2. ASSUME NEW r \in Requests, Cancel(r) \/ BreakDeadlock(r) PROVE TxInv'
  <2>1. RollBack(r, "cancelled")
    BY <1>2 DEF Cancel, BreakDeadlock
  <2>2. /\ TxShaped' /\ Alone(r) /\ UNCHANGED committed
        /\ tx'[r] = [Idle EXCEPT !.pc = "cancelled"] /\ tx'[r].pc = "cancelled"
    BY <2>1, RolledBack, IdleShape DEF TxInv
  <2>3. AggregateLocks'
    BY <2>2, AggregateLocksRolledBack DEF TxInv
  <2> QED
    BY <2>2, <2>3, EndedFresh DEF TxInv
<1>3. CASE UNCHANGED txVars
  <2>1. tx' = tx /\ UNCHANGED committed
    BY <1>3 DEF txVars, committed
  <2>2. \A r \in Requests : Visible(r)' = Visible(r) /\ Values(r)' = Values(r)
    BY <2>1, SightKept
  <2> QED
    BY <2>1, <2>2 DEF TxInv, TxShaped, AggregateLocks, Open, RebuiltFresh, BalancesMatchRows, committed
<1> QED
  BY <1>1, <1>2, <1>3 DEF TxNext, Finished

\* No lock is held at the beginning.
LEMMA TxInvInit == TxInit => TxInv
<1> SUFFICES ASSUME TxInit PROVE TxInv
  OBVIOUS
<1>1. BalancesMatchRows
  BY DEF TxInit, BalancesMatchRows
<1>2. PICK batch \in Batches :
        tx = [r \in Requests |-> IF r \in batch THEN Idle ELSE [Idle EXCEPT !.pc = "cancelled"]]
  BY DEF TxInit
<1>3. Idle.pc = "begin" /\ Idle.agg = "none"
  BY DEF Idle
<1>4. \A r \in Requests : /\ tx[r] \in {Idle, [Idle EXCEPT !.pc = "cancelled"]}
  BY <1>2
<1>5. \A r \in Requests : tx[r].agg = "none" /\ tx[r].pc \in {"begin", "cancelled"} /\ DOMAIN tx[r] = Fields
  BY <1>3, <1>4, IdleShape, IdleFields DEF Fields
<1>6. TxShaped
  BY <1>2, <1>5 DEF TxShaped
<1> QED
  BY <1>1, <1>5, <1>6 DEF TxInv, AggregateLocks, RebuiltFresh, AfterTruncate

\* The balance tables always hold the aggregate of the committed rows and
\* values, whatever transactions of any batch overlap.  A replay of 000054
\* ends with TRUNCATE, whose lock it keeps until it commits; everybody who
\* writes a row takes a lock on those tables that conflicts with it, so the
\* rows and values it has summed up are the ones it commits.
THEOREM BalancesAreRebuilt == TxSpec => []BalancesMatchRows
<1>1. TxInv => BalancesMatchRows
  BY DEF TxInv
<1> QED
  BY <1>1, TxInvInit, TxInvStep, PTL DEF TxSpec

-----------------------------------------------------------------------------
(* What each statement changes of its transaction.                         *)

-----------------------------------------------------------------------------
(* What each statement does to its own transaction.                        *)

\* r goes from one statement to another; of its own fields those in names may
\* change.
Shift(r, from, to, names) ==
    /\ TxShaped' /\ Alone(r) /\ UNCHANGED <<committed, nextId>>
    /\ tx[r].pc = from /\ WaitsFor(r) = {} /\ tx'[r].pc = to
    /\ \A x \in Fields \ (names \cup {"pc"}) : tx'[r][x] = tx[r][x]

\* An open transaction that goes on changes the fields it names.
LEMMA Shifts ==
    ASSUME TxShaped, NEW r \in Requests, NEW from, At(r, from), NEW to, NEW change,
           Continue(r, to, change), DOMAIN change \subseteq Fields
    PROVE  /\ Shift(r, from, to, DOMAIN change)
           /\ \A x \in DOMAIN change \ {"pc"} : tx'[r][x] = change[x]
<1>1. Proceed(r, to, change) /\ UNCHANGED <<committed, nextId>>
  BY DEF Continue
<1>2. /\ TxShaped' /\ Alone(r) /\ tx'[r].pc = to
      /\ \A x \in Fields \ {"pc"} :
            tx'[r][x] = IF x \in DOMAIN change THEN change[x] ELSE tx[r][x]
  BY <1>1, ProceedFields
<1>3. \A x \in DOMAIN change \ {"pc"} : tx'[r][x] = change[x]
  BY <1>2
<1>4. \A x \in Fields \ (DOMAIN change \cup {"pc"}) : tx'[r][x] = tx[r][x]
  BY <1>2
<1> QED
  BY <1>1, <1>2, <1>3, <1>4 DEF Shift, At

\* A new document.
LEMMA InsertDocumentShift ==
    ASSUME TxShaped, NEW r \in Requests, InsertDocument(r)
    PROVE  \/ RollBack(r, "refused")
           \/ /\ Shift(r, "begin", "act", {"todo"})
              /\ tx'[r].todo = RowsOf[r.doc]
              /\ r.kind = "Post"
<1> DEFINE todo0 == RowsOf[r.doc]
<1> SUFFICES ASSUME ~RollBack(r, "refused")
             PROVE  /\ Shift(r, "begin", "act", {"todo"})
                    /\ tx'[r].todo = RowsOf[r.doc]
                    /\ r.kind = "Post"
  OBVIOUS
<1>1. At(r, "begin") /\ Continue(r, "act", [todo |-> todo0]) /\ r.kind = "Post"
  BY DEF InsertDocument
<1> HIDE DEF todo0
<1>2. DOMAIN [todo |-> todo0] = {"todo"} /\ {"todo"} \subseteq Fields
  BY DEF Fields
<1>3. Shift(r, "begin", "act", {"todo"}) /\ tx'[r].todo = todo0
  BY <1>1, <1>2, Shifts
<1> QED
  BY <1>1, <1>3 DEF todo0

\* A rewritten document.
LEMMA UpdateDocumentShift ==
    ASSUME TxShaped, NEW r \in Requests, UpdateDocument(r)
    PROVE  \/ RollBack(r, "refused")
           \/ /\ Shift(r, "begin", "clear", {"todo"})
              /\ tx'[r].todo = Revised[r.doc]
              /\ r.kind = "Update"
<1> DEFINE todo0 == Revised[r.doc]
<1> SUFFICES ASSUME ~RollBack(r, "refused")
             PROVE  /\ Shift(r, "begin", "clear", {"todo"})
                    /\ tx'[r].todo = Revised[r.doc]
                    /\ r.kind = "Update"
  OBVIOUS
<1>1. At(r, "begin") /\ Continue(r, "clear", [todo |-> todo0]) /\ r.kind = "Update"
  BY DEF UpdateDocument
<1> HIDE DEF todo0
<1>2. DOMAIN [todo |-> todo0] = {"todo"} /\ {"todo"} \subseteq Fields
  BY DEF Fields
<1>3. Shift(r, "begin", "clear", {"todo"}) /\ tx'[r].todo = todo0
  BY <1>1, <1>2, Shifts
<1> QED
  BY <1>1, <1>3 DEF todo0

\* The first lock on the aggregate.
LEMMA ReachShift ==
    ASSUME TxShaped, NEW r \in Requests, ReachAggregate(r)
    PROVE  /\ Shift(r, "delta", "line", {"agg"})
           /\ tx'[r].agg = "write"
<1>1. At(r, "delta") /\ Continue(r, "line", [agg |-> "write"])
  BY DEF ReachAggregate
<1>2. DOMAIN [agg |-> "write"] = {"agg"} /\ {"agg"} \subseteq Fields
  BY DEF Fields
<1>3. Shift(r, "delta", "line", {"agg"}) /\ tx'[r].agg = "write"
  BY <1>1, <1>2, Shifts
<1> QED
  BY <1>1, <1>3

\* A recalculation begins.
LEMMA RecalculationShift ==
    ASSUME TxShaped, NEW r \in Requests, StartRecalculation(r)
    PROVE  /\ Shift(r, "begin", "replay", {})
           /\ r.kind = "Recalculate"
<1>1. At(r, "begin") /\ Continue(r, "replay", <<>>) /\ r.kind = "Recalculate"
  BY DEF StartRecalculation
<1>2. DOMAIN <<>> = {} /\ {} \subseteq Fields
  BY DEF Fields
<1>3. Shift(r, "begin", "replay", {})
  BY <1>1, <1>2, Shifts
<1> QED
  BY <1>1, <1>3

\* A change of policy begins.
LEMMA PolicyShift ==
    ASSUME TxShaped, NEW r \in Requests, ChangePolicy(r)
    PROVE  /\ Shift(r, "begin", "replay", {"setting"})
           /\ tx'[r].setting = TRUE
           /\ r.kind = "Policy"
<1>1. At(r, "begin") /\ Continue(r, "replay", [setting |-> TRUE]) /\ r.kind = "Policy"
  BY DEF ChangePolicy
<1>2. DOMAIN [setting |-> TRUE] = {"setting"} /\ {"setting"} \subseteq Fields
  BY DEF Fields
<1>3. Shift(r, "begin", "replay", {"setting"}) /\ tx'[r].setting = TRUE
  BY <1>1, <1>2, Shifts
<1> QED
  BY <1>1, <1>3

\* A closing begins.
LEMMA SettingsShift ==
    ASSUME TxShaped, NEW r \in Requests, LockSettings(r)
    PROVE  \/ RollBack(r, "refused")
           \/ /\ Shift(r, "begin", "replay", {"setting"})
              /\ tx'[r].setting = TRUE
              /\ r.kind = "Close"
<1> SUFFICES ASSUME ~RollBack(r, "refused")
             PROVE  /\ Shift(r, "begin", "replay", {"setting"})
                    /\ tx'[r].setting = TRUE
                    /\ r.kind = "Close"
  OBVIOUS
<1>1. At(r, "begin") /\ Continue(r, "replay", [setting |-> TRUE]) /\ r.kind = "Close"
  BY DEF LockSettings
<1>2. DOMAIN [setting |-> TRUE] = {"setting"} /\ {"setting"} \subseteq Fields
  BY DEF Fields
<1>3. Shift(r, "begin", "replay", {"setting"}) /\ tx'[r].setting = TRUE
  BY <1>1, <1>2, Shifts
<1> QED
  BY <1>1, <1>3

\* A reopening lifts the cutoff.
LEMMA CutoffShift ==
    ASSUME TxShaped, NEW r \in Requests, LiftCutoff(r)
    PROVE  /\ Shift(r, "cutoff", "replay", {"setting"})
           /\ tx'[r].setting = TRUE
<1>1. At(r, "cutoff") /\ Continue(r, "replay", [setting |-> TRUE])
  BY DEF LiftCutoff
<1>2. DOMAIN [setting |-> TRUE] = {"setting"} /\ {"setting"} \subseteq Fields
  BY DEF Fields
<1>3. Shift(r, "cutoff", "replay", {"setting"}) /\ tx'[r].setting = TRUE
  BY <1>1, <1>2, Shifts
<1> QED
  BY <1>1, <1>3

\* A replay reads the policy.
LEMMA ReadPolicyShift ==
    ASSUME TxShaped, NEW r \in Requests, ReadPolicy(r)
    PROVE  /\ Shift(r, "replay", "previous", {"allow"})
           /\ tx'[r].allow = IF r.kind = "Policy" THEN r.allow ELSE allowNegative
<1> DEFINE allow0 == IF r.kind = "Policy" THEN r.allow ELSE allowNegative
<1>1. At(r, "replay") /\ Continue(r, "previous", [allow |-> allow0])
  BY DEF ReadPolicy
<1> HIDE DEF allow0
<1>2. DOMAIN [allow |-> allow0] = {"allow"} /\ {"allow"} \subseteq Fields
  BY DEF Fields
<1>3. Shift(r, "replay", "previous", {"allow"}) /\ tx'[r].allow = allow0
  BY <1>1, <1>2, Shifts
<1> QED
  BY <1>1, <1>3 DEF allow0

\* It keeps what is stored before.
LEMMA PreviousShift ==
    ASSUME TxShaped, NEW r \in Requests, TakePrevious(r)
    PROVE  /\ Shift(r, "previous", "walk", {"prev", "max", "pass"})
           /\ tx'[r].prev = Valued(r)
           /\ tx'[r].max = MaxPasses(Visible(r))
           /\ tx'[r].pass = 0
<1> DEFINE prev0 == Valued(r)
<1> DEFINE max0 == MaxPasses(Visible(r))
<1>1. At(r, "previous") /\ Continue(r, "walk", [prev |-> prev0, max |-> max0, pass |-> 0])
  BY DEF TakePrevious
<1> HIDE DEF prev0, max0
<1>2. DOMAIN [prev |-> prev0, max |-> max0, pass |-> 0] = {"prev", "max", "pass"} /\ {"prev", "max", "pass"} \subseteq Fields
  BY DEF Fields
<1>3. Shift(r, "previous", "walk", {"prev", "max", "pass"}) /\ tx'[r].prev = prev0 /\ tx'[r].max = max0 /\ tx'[r].pass = 0
  BY <1>1, <1>2, Shifts
<1> QED
  BY <1>1, <1>3 DEF prev0, max0

\* It walks the rows in sight.
LEMMA WalkShift ==
    ASSUME TxShaped, NEW r \in Requests, Walk(r)
    PROVE  \/ RollBack(r, "refused")
           \/ /\ Shift(r, "walk", "store", {"seen", "work", "pass"})
              /\ tx'[r].seen = Visible(r)
              /\ tx'[r].work = Pass(Visible(r), PreviousValues(r))
              /\ tx'[r].pass = tx[r].pass + 1
              /\ (tx[r].allow \/ NeverNegative(Visible(r)))
<1> DEFINE seen0 == Visible(r)
<1> DEFINE work0 == Pass(Visible(r), PreviousValues(r))
<1> DEFINE pass0 == tx[r].pass + 1
<1> SUFFICES ASSUME ~RollBack(r, "refused")
             PROVE  /\ Shift(r, "walk", "store", {"seen", "work", "pass"})
                    /\ tx'[r].seen = Visible(r)
                    /\ tx'[r].work = Pass(Visible(r), PreviousValues(r))
                    /\ tx'[r].pass = tx[r].pass + 1
                    /\ (tx[r].allow \/ NeverNegative(Visible(r)))
  OBVIOUS
<1>1. At(r, "walk") /\ Continue(r, "store", [seen |-> seen0, work |-> work0, pass |-> pass0]) /\ (tx[r].allow \/ NeverNegative(Visible(r)))
  BY DEF Walk
<1> HIDE DEF seen0, work0, pass0
<1>2. DOMAIN [seen |-> seen0, work |-> work0, pass |-> pass0] = {"seen", "work", "pass"} /\ {"seen", "work", "pass"} \subseteq Fields
  BY DEF Fields
<1>3. Shift(r, "walk", "store", {"seen", "work", "pass"}) /\ tx'[r].seen = seen0 /\ tx'[r].work = work0 /\ tx'[r].pass = pass0
  BY <1>1, <1>2, Shifts
<1> QED
  BY <1>1, <1>3 DEF seen0, work0, pass0

\* It stores what it calculated.
LEMMA StoreShift ==
    ASSUME TxShaped, NEW r \in Requests, Store(r)
    PROVE  /\ Shift(r, "store", "check", {"stored"})
           /\ tx'[r].stored = Overlay(Restrict(tx[r].work, KeysOf(tx[r].seen \cap Visible(r))), tx[r].stored)
<1> DEFINE stored0 == Overlay(Restrict(tx[r].work, KeysOf(tx[r].seen \cap Visible(r))), tx[r].stored)
<1>1. At(r, "store") /\ Continue(r, "check", [stored |-> stored0])
  BY DEF Store
<1> HIDE DEF stored0
<1>2. DOMAIN [stored |-> stored0] = {"stored"} /\ {"stored"} \subseteq Fields
  BY DEF Fields
<1>3. Shift(r, "store", "check", {"stored"}) /\ tx'[r].stored = stored0
  BY <1>1, <1>2, Shifts
<1> QED
  BY <1>1, <1>3 DEF stored0

\* It empties the aggregate.
LEMMA TruncateShift ==
    ASSUME TxShaped, NEW r \in Requests, Truncate(r)
    PROVE  /\ Shift(r, "truncate", "rebuild", {"agg"})
           /\ tx'[r].agg = "exclusive"
<1>1. At(r, "truncate") /\ Continue(r, "rebuild", [agg |-> "exclusive"])
  BY DEF Truncate
<1>2. DOMAIN [agg |-> "exclusive"] = {"agg"} /\ {"agg"} \subseteq Fields
  BY DEF Fields
<1>3. Shift(r, "truncate", "rebuild", {"agg"}) /\ tx'[r].agg = "exclusive"
  BY <1>1, <1>2, Shifts
<1> QED
  BY <1>1, <1>3

\* Rows are removed, or the removal is refused.
LEMMA RemoveShift ==
    ASSUME TxShaped, NEW r \in Requests, RemoveRows(r)
    PROVE  \/ RollBack(r, "refused")
           \/ /\ \/ r.kind = "Delete" /\ Shift(r, "begin", "delta", {"del"})
                 \/ r.kind = "Update" /\ Shift(r, "clear", "delta", {"del"})
              /\ tx'[r].del = KeysOf(RowsIn(rows, r.doc))
              /\ \A m \in RowsIn(rows, r.doc) : OpenDate(m.at)
<1> DEFINE keys == KeysOf(RowsIn(rows, r.doc))
<1> SUFFICES ASSUME ~RollBack(r, "refused")
             PROVE  /\ \/ r.kind = "Delete" /\ Shift(r, "begin", "delta", {"del"})
                       \/ r.kind = "Update" /\ Shift(r, "clear", "delta", {"del"})
                    /\ tx'[r].del = keys
                    /\ \A m \in RowsIn(rows, r.doc) : OpenDate(m.at)
  OBVIOUS
<1>1. /\ \/ r.kind = "Delete" /\ At(r, "begin")
         \/ r.kind = "Update" /\ At(r, "clear")
      /\ Continue(r, "delta", [del |-> keys])
      /\ \A m \in RowsIn(rows, r.doc) : OpenDate(m.at)
  BY DEF RemoveRows
<1> HIDE DEF keys
<1>2. DOMAIN [del |-> keys] = {"del"} /\ {"del"} \subseteq Fields
  BY DEF Fields
<1>3. CASE r.kind = "Delete" /\ At(r, "begin")
  BY <1>1, <1>2, <1>3, Shifts
<1>4. CASE r.kind = "Update" /\ At(r, "clear")
  BY <1>1, <1>2, <1>4, Shifts
<1> QED
  BY <1>1, <1>3, <1>4

\* A delta is applied; the next row follows, or the replay.
LEMMA DeltaShift ==
    ASSUME TxShaped, NEW r \in Requests, ApplyDelta(r)
    PROVE  \/ Shift(r, "line", "act", {"lines"}) /\ tx[r].todo # <<>>
           \/ Shift(r, "line", "replay", {"lines"}) /\ tx[r].todo = <<>>
<1> DEFINE lines0 == tx[r].lines \cup Touched(r)
           to == IF tx[r].todo # <<>> THEN "act" ELSE "replay"
<1>1. At(r, "line") /\ Continue(r, to, [lines |-> lines0])
  BY DEF ApplyDelta
<1> HIDE DEF lines0
<1>2. DOMAIN [lines |-> lines0] = {"lines"} /\ {"lines"} \subseteq Fields
  BY DEF Fields
<1>3. CASE tx[r].todo # <<>>
  BY <1>1, <1>2, <1>3, Shifts
<1>4. CASE tx[r].todo = <<>>
  BY <1>1, <1>2, <1>4, Shifts
<1> QED
  BY <1>3, <1>4

\* A reopening picks a closure, or finds none.
LEMMA PickShift ==
    ASSUME TxShaped, NEW r \in Requests, PickClosure(r)
    PROVE  /\ r.kind = "Reopen"
           /\ \/ Shift(r, "begin", "cutoff", {})
              \/ Shift(r, "begin", "closure", {"closure"})
<1> DEFINE latest == Max(ActiveClosures)
<1>1. /\ r.kind = "Reopen" /\ At(r, "begin")
      /\ \/ Continue(r, "cutoff", <<>>)
         \/ Continue(r, "closure", [closure |-> latest])
  BY DEF PickClosure
<1> HIDE DEF latest
<1>2. DOMAIN <<>> = {} /\ DOMAIN [closure |-> latest] = {"closure"} /\ {"closure"} \subseteq Fields
  BY DEF Fields
<1> QED
  BY <1>1, <1>2, Shifts

\* It locks the closure, or lets it be.
LEMMA LockShift ==
    ASSUME TxShaped, NEW r \in Requests, LockClosure(r)
    PROVE  \/ Shift(r, "closure", "cutoff", {"locked"})
           \/ Shift(r, "closure", "cutoff", {"closure"})
<1>1. /\ At(r, "closure")
      /\ \/ Continue(r, "cutoff", [locked |-> TRUE])
         \/ Continue(r, "cutoff", [closure |-> 0])
  BY DEF LockClosure
<1>2. DOMAIN [locked |-> TRUE] = {"locked"} /\ DOMAIN [closure |-> 0] = {"closure"}
      /\ {"closure"} \subseteq Fields /\ {"locked"} \subseteq Fields
  BY DEF Fields
<1> QED
  BY <1>1, <1>2, Shifts

\* Another pass follows if a row is new or has another value.
LEMMA CheckShift ==
    ASSUME TxShaped, NEW r \in Requests, Check(r)
    PROVE  /\ tx'[r].prev = Valued(r)
           /\ \/ Shift(r, "check", "walk", {"prev"}) /\ tx[r].pass < tx[r].max
              \/ /\ Shift(r, "check", "truncate", {"prev"})
                 /\ \/ Valued(r) \subseteq tx[r].prev
                    \/ ~(tx[r].pass < tx[r].max)
<1> DEFINE prev0 == Valued(r)
           again == prev0 \ tx[r].prev # {} /\ tx[r].pass < tx[r].max
<1>1. At(r, "check") /\ Continue(r, IF again THEN "walk" ELSE "truncate", [prev |-> prev0])
  BY DEF Check
<1> HIDE DEF prev0
<1>2. DOMAIN [prev |-> prev0] = {"prev"} /\ {"prev"} \subseteq Fields
  BY DEF Fields
<1>3. CASE again
  BY <1>1, <1>2, <1>3, Shifts DEF prev0
<1>4. CASE ~again
  <2>1. Shift(r, "check", "truncate", {"prev"}) /\ tx'[r].prev = prev0
    BY <1>1, <1>2, <1>4, Shifts
  <2> QED
    BY <1>4, <2>1 DEF prev0
<1> QED
  BY <1>3, <1>4

\* The aggregate is rebuilt.
LEMMA RebuildShift ==
    ASSUME TxShaped, NEW r \in Requests, Rebuild(r)
    PROVE  \/ r.kind = "Close" /\ Shift(r, "rebuild", "verify", {"rebuilt"})
           \/ r.kind = "Delete" /\ Shift(r, "rebuild", "remove", {"rebuilt"})
           \/ Shift(r, "rebuild", "commit", {"rebuilt"})
<1> DEFINE new == Aggregate(Visible(r), Values(r))
           to == CASE r.kind = "Close"  -> "verify"
                   [] r.kind = "Delete" -> "remove"
                   [] OTHER             -> "commit"
<1>1. At(r, "rebuild") /\ Continue(r, to, [rebuilt |-> new])
  BY DEF Rebuild
<1> HIDE DEF new
<1>2. DOMAIN [rebuilt |-> new] = {"rebuilt"} /\ {"rebuilt"} \subseteq Fields
  BY DEF Fields
<1> HIDE DEF to
<1>3. Shift(r, "rebuild", to, {"rebuilt"})
  BY <1>1, <1>2, Shifts
<1> QED
  BY <1>3 DEF to

\* The last guards.
LEMMA GuardShift ==
    ASSUME TxShaped, NEW r \in Requests, VerifyClosing(r) \/ RemoveDocument(r)
    PROVE  \/ RollBack(r, "refused")
           \/ Shift(r, "verify", "commit", {})
           \/ Shift(r, "remove", "commit", {})
<1>1. \/ RollBack(r, "refused")
      \/ (At(r, "verify") \/ At(r, "remove")) /\ Continue(r, "commit", <<>>)
  BY DEF VerifyClosing, RemoveDocument
<1>2. DOMAIN <<>> = {} /\ {} \subseteq Fields
  OBVIOUS
<1> QED
  BY <1>1, <1>2, Shifts

-----------------------------------------------------------------------------
(* What transactions have written.                                         *)

Writes(r) == r.kind \in {"Post", "Update", "Delete"}

\* The statements of a replay.
Replaying == {"replay", "previous", "walk", "store", "check", "truncate"}

\* The rows a document transaction inserts.
Inserts(r) ==
    CASE r.kind = "Post"   -> ToSet(RowsOf[r.doc])
      [] r.kind = "Update" -> ToSet(Revised[r.doc])
      [] OTHER             -> {}

\* What a transaction has written and locked, by its kind.
Written(r) ==
    /\ ~Open(r) => tx[r].ins = {} /\ tx[r].del = {} /\ tx[r].stored = <<>>
    /\ ~Writes(r) => /\ tx[r].ins = {} /\ tx[r].del = {}
                     /\ tx[r].pc \notin {"act", "clear", "delta", "line"}
    /\ Writes(r) => tx[r].pc \notin {"closure", "cutoff"}
    /\ r.kind = "Post" => tx[r].del = {}
    /\ r.kind = "Delete" => tx[r].ins = {}
    /\ Writes(r) /\ tx[r].pc \in Replaying \cup {"line"} => tx[r].agg = "write"
    /\ r.kind = "Update" /\ tx[r].agg = "none" => tx[r].ins = {} /\ tx[r].pc # "act"
    /\ tx[r].pc \in {"begin", "clear"} => tx[r].del = {}
    /\ tx[r].todo \in Seq(Inserts(r))
    /\ tx[r].pc = "act" => tx[r].todo # <<>>
    /\ IsFiniteSet(tx[r].ins)
    /\ \A m \in tx[r].ins : RowOf(r.doc, m)

\* The rows of a document are listed in a sequence that is not empty.
LEMMA ListedRows ==
    ASSUME NEW r \in Requests
    PROVE  /\ r.kind = "Post" => RowsOf[r.doc] \in Seq(Inserts(r)) /\ RowsOf[r.doc] # <<>>
           /\ r.kind = "Update" => Revised[r.doc] \in Seq(Inserts(r)) /\ Revised[r.doc] # <<>>
           /\ \A m \in Inserts(r) : RowOf(r.doc, m)
<1>1. r.kind = "Post" => r.doc \in DOMAIN RowsOf
  BY RequestsAssumption
<1>2. r.kind = "Update" => r.doc \in DOMAIN Revised
  BY RequestsAssumption
<1> QED
  BY <1>1, <1>2, RequestsAssumption, DocumentsAssumption DEF Inserts

\* A row that is inserted is one of the document.
LEMMA InsertedRow ==
    ASSUME NEW r \in Requests, NEW d \in Inserts(r), NEW n
    PROVE  RowOf(r.doc, [d EXCEPT !.id = n]) /\ MovementKey([d EXCEPT !.id = n]) = MovementKey(d)
<1>1. RowOf(r.doc, d)
  BY ListedRows
<1> QED
  BY <1>1 DEF RowOf, RowFields, MovementKey

\* Nothing is written by a transaction that has ended.
LEMMA WrittenRolledBack ==
    ASSUME NEW r \in Requests, NEW pc \in {"refused", "cancelled", "committed"},
           tx'[r] = [Idle EXCEPT !.pc = pc]
    PROVE  Written(r)'
<1>1. /\ tx'[r].pc = pc /\ tx'[r].ins = {} /\ tx'[r].del = {} /\ tx'[r].stored = <<>>
      /\ tx'[r].todo = <<>>
  BY DEF Idle
<1>2. IsFiniteSet(tx'[r].ins)
  BY <1>1, FS_EmptySet
<1> HIDE DEF Inserts
<1>3. tx'[r].todo \in Seq(Inserts(r))
  BY <1>1, EmptySeq
<1> QED
  BY <1>1, <1>2, <1>3 DEF Written, Replaying

\* Written is about the transaction alone.
LEMMA WrittenKept ==
    ASSUME NEW s \in Requests, Written(s), tx'[s] = tx[s]
    PROVE  Written(s)'
BY DEF Written, Open

\* A statement keeps what its transaction has written within its kind.
LEMMA WrittenStep ==
    ASSUME TxShaped, NEW r \in Requests, Written(r), Statement(r)
    PROVE  Written(r)' /\ Alone(r)
<1>1. CASE RollBack(r, "refused")
  BY <1>1, RolledBack, WrittenRolledBack
<1>2. CASE Commit(r)
  BY <1>2, Committed, WrittenRolledBack
<1>3. CASE InsertDocument(r)
  BY <1>1, <1>3, InsertDocumentShift, ListedRows DEF Shift, Fields, Written, Open, Replaying, Writes
<1>4. CASE UpdateDocument(r)
  BY <1>1, <1>4, UpdateDocumentShift, ListedRows DEF Shift, Fields, Written, Open, Replaying, Writes
<1>5. CASE InsertRow(r)
  <2> DEFINE m == [Head(tx[r].todo) EXCEPT !.id = nextId]
  <2> SUFFICES ASSUME ~RollBack(r, "refused")
               PROVE  Written(r)' /\ Alone(r)
    BY <1>1
  <2>1. /\ TxShaped' /\ Alone(r)
        /\ tx'[r].pc = "delta" /\ tx'[r].ins = tx[r].ins \cup {m}
        /\ tx'[r].todo = Tail(tx[r].todo)
        /\ \A x \in Fields \ {"pc", "todo", "ins", "stored"} : tx'[r][x] = tx[r][x]
    BY <1>5, RowInserted
  <2>2. tx[r].pc = "act" /\ tx[r].todo # <<>> /\ tx[r].todo \in Seq(Inserts(r))
    BY <1>5 DEF InsertRow, At, Written
  <2>3. Head(tx[r].todo) \in Inserts(r) /\ tx'[r].todo \in Seq(Inserts(r))
    BY <2>1, <2>2
  <2>4. RowOf(r.doc, m)
    BY <2>3, InsertedRow
  <2>5. r.kind # "Delete" /\ Writes(r)
    BY <2>2, <2>3 DEF Inserts, Written
  <2> HIDE DEF m
  <2>6. IsFiniteSet(tx'[r].ins)
    <3>1. IsFiniteSet(tx[r].ins)
      BY DEF Written
    <3> QED
      BY <2>1, <3>1, FS_AddElement
  <2> QED
    BY <2>1, <2>2, <2>3, <2>4, <2>5, <2>6 DEF Written, Open, Replaying, Fields
<1>6. CASE RemoveRows(r)
  BY <1>1, <1>6, RemoveShift DEF Shift, Fields, Written, Open, Replaying, Writes
<1>7. CASE ReachAggregate(r)
  BY <1>7, ReachShift DEF Shift, Fields, Written, Open, Replaying, Writes
<1>8. CASE ApplyDelta(r)
  BY <1>8, DeltaShift DEF Shift, Fields, Written, Open, Replaying, Writes
<1>9. CASE RemoveDocument(r) \/ VerifyClosing(r)
  BY <1>1, <1>9, GuardShift DEF Shift, Fields, Written, Open, Replaying, Writes
<1>10. CASE StartRecalculation(r)
  BY <1>10, RecalculationShift DEF Shift, Fields, Written, Open, Replaying, Writes
<1>11. CASE ChangePolicy(r)
  BY <1>11, PolicyShift DEF Shift, Fields, Written, Open, Replaying, Writes
<1>12. CASE LockSettings(r)
  BY <1>1, <1>12, SettingsShift DEF Shift, Fields, Written, Open, Replaying, Writes
<1>13. CASE PickClosure(r)
  BY <1>13, PickShift DEF Shift, Fields, Written, Open, Replaying, Writes
<1>14. CASE LockClosure(r)
  BY <1>14, LockShift DEF Shift, Fields, Written, Open, Replaying, Writes
<1>15. CASE LiftCutoff(r)
  BY <1>15, CutoffShift DEF Shift, Fields, Written, Open, Replaying, Writes
<1>16. CASE ReadPolicy(r)
  BY <1>16, ReadPolicyShift DEF Shift, Fields, Written, Open, Replaying, Writes
<1>17. CASE TakePrevious(r)
  BY <1>17, PreviousShift DEF Shift, Fields, Written, Open, Replaying, Writes
<1>18. CASE Walk(r)
  BY <1>1, <1>18, WalkShift DEF Shift, Fields, Written, Open, Replaying, Writes
<1>19. CASE Store(r)
  BY <1>19, StoreShift DEF Shift, Fields, Written, Open, Replaying, Writes
<1>20. CASE Check(r)
  BY <1>20, CheckShift DEF Shift, Fields, Written, Open, Replaying, Writes
<1>21. CASE Truncate(r)
  BY <1>21, TruncateShift DEF Shift, Fields, Written, Open, Replaying, Writes
<1>22. CASE Rebuild(r)
  BY <1>22, RebuildShift DEF Shift, Fields, Written, Open, Replaying, Writes
<1> QED
  BY <1>2, <1>3, <1>4, <1>5, <1>6, <1>7, <1>8, <1>9, <1>10, <1>11, <1>12, <1>13, <1>14,
     <1>15, <1>16, <1>17, <1>18, <1>19, <1>20, <1>21, <1>22 DEF Statement

-----------------------------------------------------------------------------
(* The invariant of every batch.                                           *)

\* The invariant of every batch.
TxBase == TxInv /\ \A r \in Requests : Written(r)

\* It holds before any request is served,
LEMMA TxBaseInit == TxInit => TxBase
<1> SUFFICES ASSUME TxInit PROVE TxBase
  OBVIOUS
<1>1. TxInv
  BY TxInvInit
<1>2. ASSUME NEW r \in Requests PROVE Written(r)
  <2>1. tx[r] \in {Idle, [Idle EXCEPT !.pc = "cancelled"]}
    BY DEF TxInit
  <2>2. /\ tx[r].pc \in {"begin", "cancelled"} /\ tx[r].ins = {} /\ tx[r].del = {}
        /\ tx[r].stored = <<>> /\ tx[r].todo = <<>>
    BY <2>1 DEF Idle
  <2>3. tx[r].todo \in Seq(Inserts(r))
    BY <2>2, EmptySeq
  <2>4. IsFiniteSet(tx[r].ins)
    BY <2>2, FS_EmptySet
  <2> QED
    BY <2>2, <2>3, <2>4 DEF Written, Replaying
<1> QED
  BY <1>1, <1>2 DEF TxBase

\* and every step preserves it, in every batch.
LEMMA TxBaseStep == ASSUME TxBase, [TxNext]_txVars PROVE TxBase'
<1>1. TxInv'
  BY TxInvStep DEF TxBase
<1>2. ASSUME NEW r \in Requests, Statement(r) PROVE \A s \in Requests : Written(s)'
  BY <1>2, WrittenStep, WrittenKept DEF TxBase, TxInv, Alone
<1>3. ASSUME NEW r \in Requests, Cancel(r) \/ BreakDeadlock(r)
      PROVE  \A s \in Requests : Written(s)'
  <2>1. RollBack(r, "cancelled")
    BY <1>3 DEF Cancel, BreakDeadlock
  <2>2. Alone(r) /\ tx'[r] = [Idle EXCEPT !.pc = "cancelled"]
    BY <2>1, RolledBack DEF TxBase, TxInv
  <2> QED
    BY <2>2, WrittenRolledBack, WrittenKept DEF TxBase, Alone
<1>4. CASE UNCHANGED txVars
  <2>1. \A s \in Requests : tx'[s] = tx[s] /\ Written(s)
    BY <1>4 DEF TxBase, txVars
  <2>2. \A s \in Requests : Written(s)'
    BY <2>1, WrittenKept
  <2> QED
    BY <1>1, <2>2 DEF TxBase
<1> QED
  BY <1>1, <1>2, <1>3, <1>4 DEF TxNext, Finished, TxBase

\* A transaction that has ended executes no statement.
LEMMA EndedExecutesNothing ==
    ASSUME NEW r \in Requests, Statement(r)
    PROVE  tx[r].pc \notin {"committed", "refused", "cancelled"}
<1> USE DEF At
<1>1. InsertDocument(r) \/ UpdateDocument(r) \/ InsertRow(r) \/ RemoveRows(r)
      => tx[r].pc \notin {"committed", "refused", "cancelled"}
  BY DEF InsertDocument, UpdateDocument, InsertRow, RemoveRows
<1>2. ReachAggregate(r) \/ ApplyDelta(r) \/ RemoveDocument(r)
      => tx[r].pc \notin {"committed", "refused", "cancelled"}
  BY DEF ReachAggregate, ApplyDelta, RemoveDocument
<1>3. StartRecalculation(r) \/ ChangePolicy(r) \/ LockSettings(r) \/ VerifyClosing(r)
      => tx[r].pc \notin {"committed", "refused", "cancelled"}
  BY DEF StartRecalculation, ChangePolicy, LockSettings, VerifyClosing
<1>4. PickClosure(r) \/ LockClosure(r) \/ LiftCutoff(r)
      => tx[r].pc \notin {"committed", "refused", "cancelled"}
  BY DEF PickClosure, LockClosure, LiftCutoff
<1>5. ReadPolicy(r) \/ TakePrevious(r) \/ Walk(r) \/ Store(r) \/ Check(r)
      => tx[r].pc \notin {"committed", "refused", "cancelled"}
  BY DEF ReadPolicy, TakePrevious, Walk, Store, Check
<1>6. Truncate(r) \/ Rebuild(r) \/ Commit(r)
      => tx[r].pc \notin {"committed", "refused", "cancelled"}
  BY DEF Truncate, Rebuild, Commit
<1> QED
  BY <1>1, <1>2, <1>3, <1>4, <1>5, <1>6 DEF Statement

\* A request that has been answered, or was never made, stays so.
LEMMA EndedStays ==
    ASSUME TxBase, [TxNext]_txVars, NEW s \in Requests,
           tx[s].pc \in {"committed", "refused", "cancelled"}
    PROVE  tx'[s].pc = tx[s].pc
<1>1. ASSUME NEW r \in Requests, Statement(r) PROVE tx'[s].pc = tx[s].pc
  <2>1. r # s
    BY <1>1, EndedExecutesNothing
  <2> QED
    BY <1>1, <2>1, WrittenStep DEF TxBase, TxInv, Alone
<1>2. ASSUME NEW r \in Requests, Cancel(r) \/ BreakDeadlock(r) PROVE tx'[s].pc = tx[s].pc
  <2>1. RollBack(r, "cancelled")
    BY <1>2 DEF Cancel, BreakDeadlock
  <2>2. r # s
    <3>1. WaitsFor(s) = {} /\ ~Open(s)
      BY DEF WaitsFor, Open
    <3> QED
      BY <1>2, <3>1 DEF Cancel, BreakDeadlock, WaitingForItself
  <2> QED
    BY <2>1, <2>2, RolledBack DEF TxBase, TxInv, Alone
<1>3. CASE UNCHANGED txVars
  BY <1>3 DEF txVars
<1> QED
  BY <1>1, <1>2, <1>3 DEF TxNext, Finished

\* What a statement of r leaves of the committed state.
LEMMA OnlyCommitsCommit ==
    ASSUME TxShaped, NEW r \in Requests, Statement(r), ~Commit(r)
    PROVE  UNCHANGED committed
<1>1. CASE RollBack(r, "refused")
  BY <1>1, RolledBack
<1>2. CASE ReachAggregate(r) \/ Truncate(r)
  BY <1>2 DEF ReachAggregate, Truncate, Continue
<1> QED
  BY <1>1, <1>2, StatementKinds, RebuildIsLate, LateIsVerifyOrRemove DEF Early, Late

-----------------------------------------------------------------------------
(* A batch in which documents are only added.                              *)

\* The statements a replay executes once it has read the policy.
PolicyKnown == {"previous", "walk", "store", "check", "truncate"} \cup AfterTruncate

\* Nothing is removed or rewritten.
OnlyAdded == \A r \in Requests : r.kind \in {"Update", "Delete"} => tx[r].pc = "cancelled"

\* A row of the beginning.
Anchor == CHOOSE m \in ExistingRows : TRUE

\* r has stored a value for it, and so locked it.
Holds(r) == MovementKey(Anchor) \in DOMAIN tx[r].stored

RowsSeen(prev) == {y[1] : y \in prev}

\* r has finished a pass.
Stored(r) ==
    \/ tx[r].pc \in {"check", "truncate"} \cup AfterTruncate
    \/ tx[r].pc = "walk" /\ tx[r].pass > 0
    \/ tx[r].pc = "store" /\ tx[r].pass > 1

PassesCounted(r) ==
    tx[r].pc \in {"walk", "store", "check"} =>
      /\ tx[r].pass \in Nat /\ tx[r].max \in Nat /\ tx[r].max >= 2
      /\ tx[r].pc # "walk" => tx[r].pass > 0

\* What it has walked is in sight, and from the second pass on it is all that is.
RowsWalked(r) ==
    /\ tx[r].pc \in {"walk", "store", "check"} => RowsSeen(tx[r].prev) \subseteq Visible(r)
    /\ tx[r].pc = "store" => DOMAIN tx[r].work = KeysOf(tx[r].seen)
    /\ tx[r].pc \in {"store", "check"} =>
         /\ Anchor \in tx[r].seen
         /\ RowsSeen(tx[r].prev) \subseteq tx[r].seen
         /\ tx[r].seen \subseteq Visible(r)
         /\ tx[r].pass > 1 => tx[r].seen = Visible(r)

PolicyRead(r) ==
    tx[r].pc \in PolicyKnown =>
      /\ r.kind = "Policy" => tx[r].allow = r.allow
      /\ r.kind = "Post" /\ tx[r].allow => allowNegative

PolicyApplied(r) ==
    /\ tx[r].pc \in {"store", "check"} => tx[r].allow \/ NeverNegative(tx[r].seen)
    /\ tx[r].pc \in {"truncate"} \cup AfterTruncate => tx[r].allow \/ NeverNegative(Visible(r))

\* What holds of each transaction while rows are only added.
Adding(r) ==
    /\ Stored(r) => Holds(r)
    /\ PassesCounted(r) /\ RowsWalked(r) /\ PolicyRead(r) /\ PolicyApplied(r)

OneHolds == \A r, s \in Requests : Holds(r) /\ Holds(s) => r = s

\* The invariant of a batch in which rows are only added.
Added ==
    /\ OnlyAdded
    /\ Anchor \in ExistingRows /\ Anchor \in rows /\ IsFiniteSet(rows)
    /\ OneHolds /\ NegativeStockDisabled
    /\ \A r \in Requests : Adding(r)

\* Nobody deletes anything then: everybody sees the committed rows and his own.
LEMMA AddedInSight ==
    ASSUME TxBase, OnlyAdded, NEW r \in Requests
    PROVE  tx[r].del = {} /\ Visible(r) = rows \cup tx[r].ins
<1>1. tx[r].del = {}
  <2>1. Written(r)
    BY DEF TxBase
  <2>2. r.kind \in {"Update", "Delete"} => ~Open(r)
    BY DEF OnlyAdded, Open
  <2> QED
    BY <2>1, <2>2 DEF Written, Writes
<1> QED
  BY <1>1 DEF Visible

\* A transaction that has begun and not walked yet, or has ended.
LEMMA AddingEarly ==
    ASSUME NEW r \in Requests, tx[r].pc \notin PolicyKnown
    PROVE  Adding(r)
BY DEF PolicyKnown, Adding, Stored, PassesCounted, RowsWalked, PolicyRead, PolicyApplied

\* Others do not notice what changes no committed state.
LEMMA AddingKept ==
    ASSUME NEW s \in Requests, Adding(s), tx'[s] = tx[s], UNCHANGED committed
    PROVE  Adding(s)' /\ Holds(s)' = Holds(s)
<1>1. Visible(s)' = Visible(s)
  BY SightKept
<1> QED
  BY <1>1 DEF Adding, Stored, Holds, PassesCounted, RowsWalked, PolicyRead, PolicyApplied, committed

\* Nobody else is past his first UPDATE when a row of the beginning can be locked.
LEMMA StoreAlone ==
    ASSUME TxBase, Added, NEW r \in Requests, tx[r].pc = "store", WaitsFor(r) = {},
           NEW s \in Requests, s # r
    PROVE  ~Holds(s)
<1> SUFFICES ASSUME Holds(s) PROVE FALSE
  OBVIOUS
<1>1. Open(s)
  <2>1. ~Open(s) => tx[s].stored = <<>>
    BY DEF TxBase, Written
  <2> QED
    BY <2>1 DEF Holds
<1>2. Anchor \in tx[r].seen \cap rows
  BY DEF Added, Adding, RowsWalked
<1>3. MovementKey(Anchor) \in RowLocks(s) \cap KeysOf(tx[r].seen \cap rows)
  BY <1>2 DEF RowLocks, Holds, KeysOf
<1>4. WaitsFor(r) = {t \in Others(r) : RowLocks(t) \cap KeysOf(tx[r].seen \cap rows) # {}}
  BY DEF WaitsFor
<1> QED
  BY <1>1, <1>3, <1>4 DEF Others

\* A row of a new document is not one of the beginning.
LEMMA PostedIsNew ==
    ASSUME NEW r \in Requests, r.kind = "Post", Anchor \in ExistingRows, NEW d \in Inserts(r)
    PROVE  MovementKey(d) # MovementKey(Anchor)
<1>1. <<d.type, d.rec>> = r.doc
  BY ListedRows DEF RowOf
<1>2. Anchor \notin RowsIn(ExistingRows, r.doc)
  BY DocumentsAssumption
<1> QED
  BY <1>1, <1>2 DEF RowsIn, MovementKey

-----------------------------------------------------------------------------
(* What its statements do to the row of the beginning.                     *)

\* What a statement of a transaction must show while rows are only added.
Adds(r) ==
    /\ Alone(r) /\ UNCHANGED committed /\ Adding(r)'
    /\ Holds(r)' => Holds(r) \/ \A s \in Requests \ {r} : ~Holds(s)

\* A rollback, of whatever transaction.
LEMMA AddsRolledBack ==
    ASSUME TxShaped, NEW r \in Requests, NEW pc \in {"refused", "cancelled"}, RollBack(r, pc)
    PROVE  Adds(r)
<1>1. Alone(r) /\ UNCHANGED committed /\ tx'[r] = [Idle EXCEPT !.pc = pc]
  BY RolledBack
<1>2. tx'[r].pc = pc /\ tx'[r].stored = <<>>
  BY <1>1 DEF Idle
<1>3. ~Holds(r)'
  BY <1>2 DEF Holds
<1>4. Adding(r)'
  BY <1>2 DEF PolicyKnown, AfterTruncate, Adding, Stored, PassesCounted, RowsWalked, PolicyRead, PolicyApplied
<1> QED
  BY <1>1, <1>3, <1>4 DEF Adds

\* A statement before the policy is read, that stores no value.
LEMMA AddsEarly ==
    ASSUME NEW r \in Requests, NEW from, NEW to, NEW names, Shift(r, from, to, names),
           names \subseteq Fields \ {"stored"}, to \notin PolicyKnown
    PROVE  Adds(r)
<1>1. Alone(r) /\ UNCHANGED committed /\ tx'[r].pc = to /\ tx'[r].stored = tx[r].stored
  BY DEF Shift, Fields
<1>2. Holds(r)' = Holds(r)
  BY <1>1 DEF Holds
<1>3. Adding(r)'
  BY <1>1 DEF PolicyKnown, AfterTruncate, Adding, Stored, PassesCounted, RowsWalked, PolicyRead, PolicyApplied
<1> QED
  BY <1>1, <1>2, <1>3 DEF Adds

\* Posting a row of a new document, that nobody else has locked.
LEMMA AddsInsert ==
    ASSUME TxBase, Added, NEW r \in Requests, InsertRow(r)
    PROVE  Adds(r)
<1> SUFFICES ASSUME ~RollBack(r, "refused")
             PROVE  Adds(r)
  BY AddsRolledBack DEF TxBase, TxInv
<1> DEFINE m == [Head(tx[r].todo) EXCEPT !.id = nextId]
           new == [k \in {MovementKey(m)} |-> NewValue(m)]
<1>1. /\ Alone(r) /\ UNCHANGED committed /\ tx'[r].pc = "delta"
      /\ tx'[r].stored = Overlay(new, tx[r].stored)
  BY RowInserted DEF TxBase, TxInv
<1>2. tx[r].pc = "act" /\ tx[r].todo # <<>> /\ tx[r].todo \in Seq(Inserts(r))
  BY DEF InsertRow, At, TxBase, Written
<1>3. Head(tx[r].todo) \in Inserts(r)
  BY <1>2
<1>4. r.kind = "Post"
  BY <1>2, <1>3 DEF Inserts, Added, OnlyAdded
<1>5. MovementKey(m) # MovementKey(Anchor)
  BY <1>3, <1>4, InsertedRow, PostedIsNew DEF Added
<1>6. DOMAIN tx'[r].stored = {MovementKey(m)} \cup DOMAIN tx[r].stored
  BY <1>1 DEF Overlay
<1>7. Holds(r)' => Holds(r)
  BY <1>5, <1>6 DEF Holds
<1>8. Adding(r)'
  BY <1>1 DEF PolicyKnown, AfterTruncate, Adding, Stored, PassesCounted, RowsWalked, PolicyRead, PolicyApplied
<1> QED
  BY <1>1, <1>7, <1>8 DEF Adds

\* Reading the policy, the committed one or the one being set.
LEMMA AddsReadPolicy ==
    ASSUME TxBase, Added, NEW r \in Requests, ReadPolicy(r)
    PROVE  Adds(r)
<1>1. /\ Alone(r) /\ UNCHANGED committed /\ tx'[r].pc = "previous"
      /\ tx'[r].stored = tx[r].stored
      /\ tx'[r].allow = IF r.kind = "Policy" THEN r.allow ELSE allowNegative
  BY ReadPolicyShift DEF TxBase, TxInv, Shift, Fields
<1>2. Holds(r)' = Holds(r)
  BY <1>1 DEF Holds
<1>3. PolicyRead(r)'
  BY <1>1 DEF PolicyRead, committed
<1>4. Adding(r)'
  BY <1>1, <1>3 DEF AfterTruncate, Adding, Stored, PassesCounted, RowsWalked, PolicyApplied
<1> QED
  BY <1>1, <1>2, <1>4 DEF Adds

\* The policy that was read stays.
LEMMA PolicyStays ==
    ASSUME NEW r \in Requests, UNCHANGED committed, PolicyRead(r), tx[r].pc \in PolicyKnown,
           tx'[r].allow = tx[r].allow
    PROVE  PolicyRead(r)'
BY DEF PolicyRead, committed

\* The previous values are those of all the rows in sight.
LEMMA ValuedRows ==
    ASSUME NEW r \in Requests
    PROVE  RowsSeen(Valued(r)) = Visible(r)
<1> DEFINE worth(m) == Values(r)[MovementKey(m)]
<1>1. Valued(r) = {<<m, worth(m)>> : m \in Visible(r)}
  BY DEF Valued
<1> HIDE DEF worth
<1>2. ASSUME NEW m \in Visible(r) PROVE m \in RowsSeen(Valued(r))
  <2>1. <<m, worth(m)>> \in Valued(r) /\ <<m, worth(m)>>[1] = m
    BY <1>1
  <2> QED
    BY <2>1 DEF RowsSeen
<1>3. ASSUME NEW m \in RowsSeen(Valued(r)) PROVE m \in Visible(r)
  <2>1. PICK y \in Valued(r) : m = y[1]
    BY <1>3 DEF RowsSeen
  <2>2. PICK k \in Visible(r) : y = <<k, worth(k)>>
    BY <1>1, <2>1
  <2> QED
    BY <2>1, <2>2
<1> QED
  BY <1>2, <1>3

\* Before the first pass: the bound on passes is at least two.
LEMMA AddsPrevious ==
    ASSUME TxBase, Added, NEW r \in Requests, TakePrevious(r)
    PROVE  Adds(r)
<1>1. /\ Shift(r, "previous", "walk", {"prev", "max", "pass"})
      /\ tx'[r].prev = Valued(r) /\ tx'[r].max = MaxPasses(Visible(r)) /\ tx'[r].pass = 0
  BY PreviousShift DEF TxBase, TxInv
<1>2. /\ Alone(r) /\ UNCHANGED committed /\ tx[r].pc = "previous" /\ tx'[r].pc = "walk"
      /\ tx'[r].stored = tx[r].stored /\ tx'[r].allow = tx[r].allow
      /\ tx'[r].ins = tx[r].ins /\ tx'[r].del = tx[r].del
  BY <1>1 DEF Shift, Fields
<1>3. Holds(r)' = Holds(r)
  BY <1>2 DEF Holds
<1>4. Visible(r)' = Visible(r)
  BY <1>2 DEF Visible, committed
<1>5. IsFiniteSet(Visible(r))
  <2>1. IsFiniteSet(rows) /\ IsFiniteSet(tx[r].ins)
    BY DEF Added, TxBase, Written
  <2> QED
    BY <2>1, AddedInSight, FS_Union DEF Added
<1>6. tx'[r].max \in Nat /\ tx'[r].max >= 2
  BY <1>1, <1>5, PassesBound
<1>7. PassesCounted(r)'
  BY <1>1, <1>2, <1>6 DEF PassesCounted
<1>8. RowsWalked(r)'
  BY <1>1, <1>2, <1>4, ValuedRows DEF RowsWalked
<1>9. PolicyRead(r)'
  BY <1>2, PolicyStays DEF Added, Adding, PolicyKnown
<1>10. ~Stored(r)'
  BY <1>1, <1>2 DEF Stored, AfterTruncate
<1>11. PolicyApplied(r)'
  BY <1>2 DEF PolicyApplied, AfterTruncate
<1> QED
  BY <1>2, <1>3, <1>7, <1>8, <1>9, <1>10, <1>11 DEF Adds, Adding

\* A pass that is not refused has met no balance below zero if none may be.
LEMMA AddsWalk ==
    ASSUME TxBase, Added, NEW r \in Requests, Walk(r)
    PROVE  Adds(r)
<1> SUFFICES ASSUME ~RollBack(r, "refused")
             PROVE  Adds(r)
  BY AddsRolledBack DEF TxBase, TxInv
<1>1. /\ Shift(r, "walk", "store", {"seen", "work", "pass"})
      /\ tx'[r].seen = Visible(r) /\ tx'[r].work = Pass(Visible(r), PreviousValues(r))
      /\ tx'[r].pass = tx[r].pass + 1
      /\ tx[r].allow \/ NeverNegative(Visible(r))
  BY WalkShift DEF TxBase, TxInv
<1>2. /\ Alone(r) /\ UNCHANGED committed /\ tx[r].pc = "walk" /\ tx'[r].pc = "store"
      /\ tx'[r].stored = tx[r].stored /\ tx'[r].allow = tx[r].allow
      /\ tx'[r].ins = tx[r].ins /\ tx'[r].del = tx[r].del
      /\ tx'[r].prev = tx[r].prev /\ tx'[r].max = tx[r].max
  BY <1>1 DEF Shift, Fields
<1>3. Holds(r)' = Holds(r)
  BY <1>2 DEF Holds
<1>4. Visible(r)' = Visible(r)
  BY <1>2 DEF Visible, committed
<1>5. Adding(r)
  BY DEF Added
<1>6. tx[r].pass \in Nat /\ tx[r].max \in Nat /\ tx[r].max >= 2
  BY <1>2, <1>5 DEF Adding, PassesCounted
<1>7. PassesCounted(r)'
  BY <1>1, <1>2, <1>6 DEF PassesCounted
<1>8. DOMAIN tx'[r].work = KeysOf(Visible(r))
  BY <1>1 DEF Pass, KeysOf
<1>9. Anchor \in Visible(r)
  BY AddedInSight DEF Added
<1>10. RowsSeen(tx[r].prev) \subseteq Visible(r)
  BY <1>2, <1>5 DEF Adding, RowsWalked
<1>11. RowsWalked(r)'
  BY <1>1, <1>2, <1>4, <1>8, <1>9, <1>10 DEF RowsWalked
<1>12. PolicyRead(r)'
  BY <1>2, PolicyStays DEF Added, Adding, PolicyKnown
<1>13. Stored(r)' => Stored(r)
  BY <1>1, <1>2, <1>6 DEF Stored, AfterTruncate
<1>14. PolicyApplied(r)'
  BY <1>1, <1>2 DEF PolicyApplied, AfterTruncate
<1> QED
  BY <1>2, <1>3, <1>5, <1>7, <1>11, <1>12, <1>13, <1>14 DEF Adds, Adding

\* The UPDATE of a pass locks the row of the beginning, once nobody else has.
LEMMA AddsStore ==
    ASSUME TxBase, Added, NEW r \in Requests, Store(r)
    PROVE  Adds(r)
<1> DEFINE kept == Restrict(tx[r].work, KeysOf(tx[r].seen \cap Visible(r)))
<1>1. /\ Shift(r, "store", "check", {"stored"})
      /\ tx'[r].stored = Overlay(kept, tx[r].stored)
  BY StoreShift DEF TxBase, TxInv
<1>2. /\ Alone(r) /\ UNCHANGED committed /\ tx[r].pc = "store" /\ tx'[r].pc = "check"
      /\ WaitsFor(r) = {} /\ tx'[r].allow = tx[r].allow
      /\ tx'[r].ins = tx[r].ins /\ tx'[r].del = tx[r].del /\ tx'[r].seen = tx[r].seen
      /\ tx'[r].prev = tx[r].prev /\ tx'[r].max = tx[r].max /\ tx'[r].pass = tx[r].pass
  BY <1>1 DEF Shift, Fields
<1>3. \A s \in Requests \ {r} : ~Holds(s)
  BY <1>2, StoreAlone
<1>4. Visible(r)' = Visible(r)
  BY <1>2 DEF Visible, committed
<1>5. Adding(r)
  BY DEF Added
<1>6. PassesCounted(r)'
  BY <1>2, <1>5 DEF Adding, PassesCounted
<1>7. RowsWalked(r)
  BY <1>5 DEF Adding
<1>8. RowsWalked(r)'
  BY <1>2, <1>4, <1>7 DEF RowsWalked
<1>9. Holds(r)'
  <2>1. Anchor \in tx[r].seen \cap Visible(r)
    BY <1>2, <1>7 DEF RowsWalked
  <2>2. MovementKey(Anchor) \in DOMAIN kept
    BY <2>1 DEF KeysOf, Restrict
  <2> QED
    BY <1>1, <2>2 DEF Holds, Overlay
<1>10. PolicyRead(r)'
  BY <1>2, PolicyStays DEF Added, Adding, PolicyKnown
<1>11. PolicyApplied(r)'
  BY <1>2, <1>5 DEF Adding, PolicyApplied, AfterTruncate
<1> QED
  BY <1>2, <1>3, <1>6, <1>8, <1>9, <1>10, <1>11 DEF Adds, Adding

\* A replay ends on a pass that has walked all the rows in sight.
LEMMA AddsCheck ==
    ASSUME TxBase, Added, NEW r \in Requests, Check(r)
    PROVE  Adds(r)
<1>1. /\ tx'[r].prev = Valued(r) /\ tx[r].pc = "check"
      /\ Alone(r) /\ UNCHANGED committed
      /\ tx'[r].stored = tx[r].stored /\ tx'[r].allow = tx[r].allow
      /\ tx'[r].ins = tx[r].ins /\ tx'[r].del = tx[r].del /\ tx'[r].seen = tx[r].seen
      /\ tx'[r].max = tx[r].max /\ tx'[r].pass = tx[r].pass
      /\ \/ tx'[r].pc = "walk" /\ tx[r].pass < tx[r].max
         \/ /\ tx'[r].pc = "truncate"
            /\ \/ Valued(r) \subseteq tx[r].prev
               \/ ~(tx[r].pass < tx[r].max)
  BY CheckShift DEF TxBase, TxInv, Shift, Fields
<1>2. Holds(r)' = Holds(r)
  BY <1>1 DEF Holds
<1>3. Visible(r)' = Visible(r)
  BY <1>1 DEF Visible, committed
<1>4. Adding(r)
  BY DEF Added
<1>5. /\ tx[r].pass \in Nat /\ tx[r].max \in Nat /\ tx[r].max >= 2 /\ tx[r].pass > 0
      /\ RowsSeen(tx[r].prev) \subseteq tx[r].seen /\ tx[r].seen \subseteq Visible(r)
      /\ tx[r].pass > 1 => tx[r].seen = Visible(r)
      /\ tx[r].allow \/ NeverNegative(tx[r].seen)
      /\ Holds(r)
  BY <1>1, <1>4 DEF Adding, PassesCounted, RowsWalked, PolicyApplied, Stored
<1>6. PolicyRead(r)'
  BY <1>1, PolicyStays DEF Added, Adding, PolicyKnown
<1>7. PassesCounted(r)'
  BY <1>1, <1>5 DEF PassesCounted
<1>8. RowsWalked(r)'
  BY <1>1, <1>3, ValuedRows DEF RowsWalked
<1>9. PolicyApplied(r)'
  <2>1. CASE tx'[r].pc = "walk"
    BY <2>1 DEF PolicyApplied, AfterTruncate
  <2>2. CASE tx'[r].pc = "truncate"
    <3>1. Valued(r) \subseteq tx[r].prev => tx[r].seen = Visible(r)
      <4>1. Valued(r) \subseteq tx[r].prev => RowsSeen(Valued(r)) \subseteq RowsSeen(tx[r].prev)
        BY DEF RowsSeen
      <4> QED
        BY <1>5, <4>1, ValuedRows
    <3>2. tx[r].seen = Visible(r)
      BY <1>1, <1>5, <2>2, <3>1
    <3> QED
      BY <1>1, <1>3, <1>5, <2>2, <3>2 DEF PolicyApplied
  <2> QED
    BY <1>1, <2>1, <2>2
<1> QED
  BY <1>1, <1>2, <1>5, <1>6, <1>7, <1>8, <1>9 DEF Adds, Adding

\* From the TRUNCATE on the transaction only rebuilds and guards.
LEMMA AddsLate ==
    ASSUME TxBase, Added, NEW r \in Requests, NEW from, NEW to, NEW names,
           Shift(r, from, to, names), names \subseteq {"agg", "rebuilt"},
           from \in {"truncate"} \cup AfterTruncate, to \in AfterTruncate
    PROVE  Adds(r)
<1>1. /\ Alone(r) /\ UNCHANGED committed /\ tx[r].pc = from /\ tx'[r].pc = to
      /\ tx'[r].stored = tx[r].stored /\ tx'[r].allow = tx[r].allow
      /\ tx'[r].ins = tx[r].ins /\ tx'[r].del = tx[r].del
  BY DEF Shift, Fields
<1>2. Holds(r)' = Holds(r)
  BY <1>1 DEF Holds
<1>3. Visible(r)' = Visible(r)
  BY <1>1 DEF Visible, committed
<1>4. Adding(r)
  BY DEF Added
<1>5. Holds(r)
  BY <1>1, <1>4 DEF Adding, Stored
<1>6. PolicyRead(r)'
  BY <1>1, PolicyStays DEF Added, Adding, PolicyKnown
<1>7. PolicyApplied(r)'
  BY <1>1, <1>3, <1>4 DEF Adding, PolicyApplied, AfterTruncate
<1> QED
  BY <1>1, <1>2, <1>5, <1>6, <1>7 DEF Adds, Adding, PassesCounted, RowsWalked, AfterTruncate

\* Every statement but the commit.
LEMMA AddsStatement ==
    ASSUME TxBase, Added, NEW r \in Requests, Statement(r), ~Commit(r)
    PROVE  Adds(r)
<1>0. TxShaped
  BY DEF TxBase, TxInv
<1> USE DEF PolicyKnown, AfterTruncate, Fields
<1>1. CASE RollBack(r, "refused")
  BY <1>0, <1>1, AddsRolledBack
<1>2. CASE InsertDocument(r)
  BY <1>0, <1>1, <1>2, InsertDocumentShift, AddsEarly
<1>3. CASE UpdateDocument(r)
  BY <1>0, <1>1, <1>3, UpdateDocumentShift, AddsEarly
<1>4. CASE RemoveRows(r)
  BY <1>0, <1>1, <1>4, RemoveShift, AddsEarly
<1>5. CASE ReachAggregate(r)
  BY <1>0, <1>5, ReachShift, AddsEarly
<1>6. CASE ApplyDelta(r)
  BY <1>0, <1>6, DeltaShift, AddsEarly
<1>7. CASE StartRecalculation(r)
  BY <1>0, <1>7, RecalculationShift, AddsEarly
<1>8. CASE ChangePolicy(r)
  BY <1>0, <1>8, PolicyShift, AddsEarly
<1>9. CASE LockSettings(r)
  BY <1>0, <1>1, <1>9, SettingsShift, AddsEarly
<1>10. CASE PickClosure(r)
  BY <1>0, <1>10, PickShift, AddsEarly
<1>11. CASE LockClosure(r)
  BY <1>0, <1>11, LockShift, AddsEarly
<1>12. CASE LiftCutoff(r)
  BY <1>0, <1>12, CutoffShift, AddsEarly
<1>13. CASE Truncate(r)
  BY <1>0, <1>13, TruncateShift, AddsLate
<1>14. CASE Rebuild(r)
  BY <1>0, <1>14, RebuildShift, AddsLate
<1>15. CASE VerifyClosing(r) \/ RemoveDocument(r)
  BY <1>0, <1>1, <1>15, GuardShift, AddsLate
<1> QED
  BY <1>2, <1>3, <1>4, <1>5, <1>6, <1>7, <1>8, <1>9, <1>10, <1>11, <1>12, <1>13, <1>14, <1>15,
     AddsInsert, AddsReadPolicy, AddsPrevious, AddsWalk, AddsStore, AddsCheck DEF Statement

-----------------------------------------------------------------------------
(* The stock policy.                                                       *)

\* The commit of r: nobody else is past his first UPDATE, and nobody who
\* posts has read the policy yet.
LEMMA AddedCommit ==
    ASSUME TxBase, Added, NEW r \in Requests, Commit(r)
    PROVE  /\ Anchor \in rows' /\ IsFiniteSet(rows') /\ OneHolds' /\ NegativeStockDisabled'
           /\ \A s \in Requests : Adding(s)'
<1>1. /\ tx[r].pc = "commit" /\ rows' = Visible(r)
      /\ allowNegative' = IF r.kind = "Policy" THEN r.allow ELSE allowNegative
  BY DEF Commit, At
<1>2. TxShaped' /\ Alone(r) /\ tx'[r].pc = "committed" /\ tx'[r].stored = <<>>
  <2>1. TxShaped' /\ Alone(r) /\ tx'[r] = [Idle EXCEPT !.pc = "committed"]
    BY Committed DEF TxBase, TxInv
  <2> QED
    BY <2>1 DEF Idle
<1>3. Adding(r) /\ Holds(r)
  BY <1>1 DEF Added, Adding, Stored, AfterTruncate
<1>4. \A s \in Requests \ {r} : ~Holds(s)
  BY <1>3 DEF Added, OneHolds
<1>5. rows' = rows \cup tx[r].ins
  BY <1>1, AddedInSight DEF Added
<1>6. Anchor \in rows' /\ IsFiniteSet(rows')
  BY <1>5, FS_Union DEF Added, TxBase, Written
<1>7. OneHolds'
  <2>1. \A s \in Requests : ~Holds(s)'
    BY <1>2, <1>4 DEF Holds, Alone
  <2> QED
    BY <2>1 DEF OneHolds
<1>8. \A s \in Requests \ {r} : tx[s].agg = "none"
  <2>1. tx[r].agg = "exclusive"
    BY <1>1 DEF TxBase, TxInv, AggregateLocks, AfterTruncate
  <2> QED
    BY <2>1 DEF TxBase, TxInv, AggregateLocks
<1>9. ASSUME NEW s \in Requests \ {r} PROVE Adding(s)'
  <2>1. Adding(s) /\ ~Stored(s) /\ tx'[s] = tx[s]
    BY <1>2, <1>4, <1>9 DEF Added, Adding, Alone
  <2>2. Visible(s) \subseteq Visible(s)'
    <3>1. tx[s].del = {} /\ Visible(s) = rows \cup tx[s].ins
      BY AddedInSight DEF Added
    <3>2. Visible(s)' = rows' \cup tx[s].ins
      BY <2>1, <3>1 DEF Visible
    <3> QED
      BY <1>5, <3>1, <3>2
  <2>3. ~Stored(s)'
    BY <2>1 DEF Stored
  <2>4. PassesCounted(s)'
    BY <2>1 DEF Adding, PassesCounted
  <2>5. RowsWalked(s)'
    BY <2>1, <2>2 DEF Adding, RowsWalked, Stored, AfterTruncate
  <2>6. PolicyRead(s)'
    <3>1. s.kind = "Post" => tx[s].pc \notin PolicyKnown
      BY <1>8, <1>9, <2>1 DEF PolicyKnown, AfterTruncate, Stored, TxBase, Written, Writes, Replaying
    <3> QED
      BY <2>1, <3>1 DEF Adding, PolicyRead
  <2>7. PolicyApplied(s)'
    BY <2>1 DEF Adding, PolicyApplied, Stored, AfterTruncate
  <2> QED
    BY <2>3, <2>4, <2>5, <2>6, <2>7 DEF Adding
<1>10. Adding(r)'
  BY <1>2 DEF PolicyKnown, AfterTruncate, Adding, Stored, PassesCounted, RowsWalked, PolicyRead,
              PolicyApplied
<1>11. NegativeStockDisabled'
  <2>1. tx[r].allow \/ NeverNegative(rows')
    BY <1>1, <1>3 DEF Adding, PolicyApplied, AfterTruncate
  <2>2. CASE r.kind = "Policy"
    BY <1>1, <1>3, <2>1, <2>2 DEF Adding, PolicyRead, PolicyKnown, AfterTruncate,
                                  NegativeStockDisabled
  <2>3. CASE r.kind = "Post"
    BY <1>1, <1>3, <2>1, <2>3 DEF Adding, PolicyRead, PolicyKnown, AfterTruncate,
                                  NegativeStockDisabled
  <2>4. CASE r.kind \notin {"Policy", "Post"}
    <3>1. ~Writes(r)
      BY <1>1, <2>4 DEF Added, OnlyAdded, Writes
    <3>2. rows' = rows
      BY <1>5, <3>1 DEF TxBase, Written
    <3> QED
      BY <1>1, <2>4, <3>2 DEF Added, NegativeStockDisabled
  <2> QED
    BY <2>2, <2>3, <2>4
<1> QED
  BY <1>6, <1>7, <1>9, <1>10, <1>11

\* A step that commits nothing.
LEMMA AddedQuiet ==
    ASSUME TxBase, Added, NEW r \in Requests, Adds(r)
    PROVE  /\ Anchor \in rows' /\ IsFiniteSet(rows') /\ OneHolds' /\ NegativeStockDisabled'
           /\ \A s \in Requests : Adding(s)'
<1>1. \A s \in Requests \ {r} : Adding(s)' /\ Holds(s)' = Holds(s)
  BY AddingKept DEF Adds, Alone, Added
<1>2. OneHolds'
  <2>1. ASSUME NEW s \in Requests, NEW t \in Requests, Holds(s)', Holds(t)', s # t
        PROVE  FALSE
    <3>1. CASE s # r /\ t # r
      BY <1>1, <2>1, <3>1 DEF Added, OneHolds
    <3>2. CASE s = r
      BY <1>1, <2>1, <3>2 DEF Added, OneHolds, Adds
    <3>3. CASE t = r
      BY <1>1, <2>1, <3>3 DEF Added, OneHolds, Adds
    <3> QED
      BY <3>1, <3>2, <3>3
  <2> QED
    BY <2>1 DEF OneHolds
<1> QED
  BY <1>1, <1>2 DEF Adds, Added, committed, NegativeStockDisabled

\* Every step preserves the invariant of such a batch.
LEMMA AddedStep == ASSUME TxBase, Added, [TxNext]_txVars PROVE Added'
<1>0. OnlyAdded' /\ Anchor \in ExistingRows
  BY EndedStays DEF Added, OnlyAdded
<1>1. ASSUME NEW r \in Requests, Statement(r) PROVE Added'
  BY <1>0, <1>1, AddedCommit, AddsStatement, AddedQuiet DEF Added
<1>2. ASSUME NEW r \in Requests, RollBack(r, "cancelled") PROVE Added'
  <2>1. Adds(r)
    BY <1>2, AddsRolledBack DEF TxBase, TxInv
  <2> QED
    BY <1>0, <2>1, AddedQuiet DEF Added
<1>3. CASE UNCHANGED txVars
  <2>1. tx' = tx /\ UNCHANGED committed
    BY <1>3 DEF txVars, committed
  <2>2. \A s \in Requests : Adding(s)' /\ Holds(s)' = Holds(s)
    BY <2>1, AddingKept DEF Added
  <2> QED
    BY <1>0, <2>1, <2>2 DEF Added, OneHolds, NegativeStockDisabled, committed
<1> QED
  BY <1>1, <1>2, <1>3 DEF TxNext, Finished, Cancel, BreakDeadlock

\* Nobody tightens the policy.
Lenient ==
    /\ allowNegative
    /\ \A r \in Requests : r.kind = "Policy" /\ ~r.allow => tx[r].pc = "cancelled"

\* And so it stays.
LEMMA LenientStep == ASSUME TxBase, Lenient, [TxNext]_txVars PROVE Lenient'
<1>1. \A r \in Requests : r.kind = "Policy" /\ ~r.allow => tx'[r].pc = "cancelled"
  BY EndedStays DEF Lenient
<1>2. allowNegative'
  <2>1. ASSUME NEW r \in Requests, Statement(r), ~Commit(r) PROVE allowNegative'
    BY <2>1, OnlyCommitsCommit DEF TxBase, TxInv, Lenient, committed
  <2>2. ASSUME NEW r \in Requests, Commit(r) PROVE allowNegative'
    <3>1. tx[r].pc = "commit" /\ allowNegative' = IF r.kind = "Policy" THEN r.allow ELSE allowNegative
      BY <2>2 DEF Commit, At
    <3> QED
      BY <3>1 DEF Lenient
  <2>3. ASSUME NEW r \in Requests, RollBack(r, "cancelled") PROVE allowNegative'
    BY <2>3 DEF RollBack, committed, Lenient
  <2>4. CASE UNCHANGED txVars
    BY <2>4 DEF txVars, Lenient
  <2> QED
    BY <2>1, <2>2, <2>3, <2>4 DEF TxNext, Finished, Cancel, BreakDeadlock
<1> QED
  BY <1>1, <1>2 DEF Lenient

PolicyInv == TxBase /\ (Lenient \/ Added)

\* One of the two holds at the beginning,
LEMMA PolicyInvInit == ASSUME PolicyAside(Batches), ExistingRows # {}, TxInit PROVE PolicyInv
<1>1. TxBase
  BY TxBaseInit
<1>2. PICK batch \in Batches :
        tx = [r \in Requests |-> IF r \in batch THEN Idle ELSE [Idle EXCEPT !.pc = "cancelled"]]
  BY DEF TxInit
<1>3. \A r \in Requests : tx[r] \in {Idle, [Idle EXCEPT !.pc = "cancelled"]}
  BY <1>2
<1>4. \A r \in Requests : tx[r].pc \in {"begin", "cancelled"} /\ tx[r].stored = <<>>
  BY <1>3 DEF Idle
<1>5. \A r \in Requests : r \notin batch => tx[r].pc = "cancelled"
  BY <1>2 DEF Idle
<1>6. rows = ExistingRows /\ allowNegative = TRUE
  BY DEF TxInit
<1>7. CASE \E r \in batch : r.kind = "Policy" /\ ~r.allow
  <2>1. OnlyAdded
    BY <1>5, <1>7 DEF PolicyAside, OnlyAdded
  <2>2. Anchor \in ExistingRows
    BY DEF Anchor
  <2>3. OneHolds
    BY <1>4 DEF OneHolds, Holds
  <2>4. \A r \in Requests : Adding(r)
    BY <1>4, AddingEarly DEF PolicyKnown, AfterTruncate
  <2> QED
    BY <1>1, <1>6, <2>1, <2>2, <2>3, <2>4, DocumentsAssumption DEF PolicyInv, Added,
       NegativeStockDisabled
<1>8. CASE ~\E r \in batch : r.kind = "Policy" /\ ~r.allow
  BY <1>1, <1>5, <1>6, <1>8 DEF PolicyInv, Lenient
<1> QED
  BY <1>7, <1>8

\* and stays.
LEMMA PolicyInvStep == ASSUME PolicyInv, [TxNext]_txVars PROVE PolicyInv'
BY TxBaseStep, LenientStep, AddedStep DEF PolicyInv

\* Once negative stock is disabled no committed row overdraws its balance: a
\* replay under the new policy walks all the rows in sight last, and has locked
\* one of them that every replay that commits must lock, while the document
\* transactions that it does not see wait for its aggregate and read the policy
\* it sets.  Rows that others delete after the walk are not noticed by the
\* check of the pass, and a register without rows has none to lock: hence the
\* two hypotheses.
THEOREM PolicyIsObeyed ==
    ASSUME PolicyAside(Batches), ExistingRows # {}
    PROVE  TxSpec => []NegativeStockDisabled
<1>1. TxInit => PolicyInv
  BY PolicyInvInit
<1>2. PolicyInv /\ [TxNext]_txVars => PolicyInv'
  BY PolicyInvStep
<1>3. PolicyInv => NegativeStockDisabled
  BY DEF PolicyInv, Lenient, Added, NegativeStockDisabled
<1> QED
  BY <1>1, <1>2, <1>3, PTL DEF TxSpec

-----------------------------------------------------------------------------
(* A batch in which periods are closed.                                    *)

\* The passes of a replay are counted.
PassNat(r) == tx[r].pc \in {"walk", "store", "check"} => tx[r].pass \in Nat

\* A statement that writes nothing and does not walk.
Quiet(r) ==
    /\ tx'[r].ins = tx[r].ins /\ tx'[r].del = tx[r].del /\ tx'[r].stored = tx[r].stored
    /\ tx'[r].pc # "store" /\ (Stored(r)' => Stored(r))
    /\ PassNat(r) => PassNat(r)'

\* Most statements move on and write nothing.
LEMMA QuietShift ==
    ASSUME NEW r \in Requests, NEW from, NEW to, NEW names, Shift(r, from, to, names),
           names \cap {"ins", "del", "stored", "pass"} = {},
           \/ to \notin {"walk", "store", "check", "truncate"} \cup AfterTruncate
           \/ from \in {"truncate"} \cup AfterTruncate /\ to \in AfterTruncate
           \/ from = "check" /\ to \in {"walk", "truncate"}
    PROVE  Quiet(r)
<1>1. /\ tx'[r].ins = tx[r].ins /\ tx'[r].del = tx[r].del /\ tx'[r].stored = tx[r].stored
      /\ tx'[r].pass = tx[r].pass /\ tx[r].pc = from /\ tx'[r].pc = to
  BY DEF Shift, Fields
<1> QED
  BY <1>1 DEF Quiet, Stored, PassNat, AfterTruncate

\* The statements that are not quiet.
LEMMA QuietStatements ==
    ASSUME TxShaped, NEW r \in Requests, Statement(r), ~Commit(r)
    PROVE  \/ RollBack(r, "refused")
           \/ InsertRow(r) \/ RemoveRows(r) \/ Walk(r) \/ Store(r)
           \/ Quiet(r)
<1> USE DEF AfterTruncate
<1>1. CASE InsertDocument(r)
  BY <1>1, InsertDocumentShift, QuietShift
<1>2. CASE UpdateDocument(r)
  BY <1>2, UpdateDocumentShift, QuietShift
<1>3. CASE ReachAggregate(r)
  BY <1>3, ReachShift, QuietShift
<1>4. CASE ApplyDelta(r)
  BY <1>4, DeltaShift, QuietShift
<1>5. CASE StartRecalculation(r)
  BY <1>5, RecalculationShift, QuietShift
<1>6. CASE ChangePolicy(r)
  BY <1>6, PolicyShift, QuietShift
<1>7. CASE LockSettings(r)
  BY <1>7, SettingsShift, QuietShift
<1>8. CASE PickClosure(r)
  BY <1>8, PickShift, QuietShift
<1>9. CASE LockClosure(r)
  BY <1>9, LockShift, QuietShift
<1>10. CASE LiftCutoff(r)
  BY <1>10, CutoffShift, QuietShift
<1>11. CASE ReadPolicy(r)
  BY <1>11, ReadPolicyShift, QuietShift
<1>12. CASE TakePrevious(r)
  <2>1. /\ tx'[r].ins = tx[r].ins /\ tx'[r].del = tx[r].del /\ tx'[r].stored = tx[r].stored
        /\ tx'[r].pass = 0 /\ tx'[r].pc = "walk"
    BY <1>12, PreviousShift DEF Shift, Fields
  <2> QED
    BY <2>1 DEF Quiet, Stored, PassNat
<1>13. CASE Check(r)
  BY <1>13, CheckShift, QuietShift
<1>14. CASE Truncate(r)
  BY <1>14, TruncateShift, QuietShift
<1>15. CASE Rebuild(r)
  BY <1>15, RebuildShift, QuietShift
<1>16. CASE VerifyClosing(r) \/ RemoveDocument(r)
  BY <1>16, GuardShift, QuietShift
<1> QED
  BY <1>1, <1>2, <1>3, <1>4, <1>5, <1>6, <1>7, <1>8, <1>9, <1>10, <1>11, <1>12, <1>13, <1>14,
     <1>15, <1>16 DEF Statement

-----------------------------------------------------------------------------

\* A document transaction that has not ended.
Pending(r) == Writes(r) /\ tx[r].pc \notin {"committed", "refused", "cancelled"}

NoPosts == \A r \in Requests : r.kind = "Post" => tx[r].pc = "cancelled"

OneWriter ==
    \A r, s \in Requests :
       /\ Writes(r) /\ Writes(s) /\ r # s
       /\ tx[r].pc # "cancelled" /\ tx[s].pc # "cancelled"
       => r.doc # s.doc

\* What a document transaction removes and inserts is dated in the open.
Guarded(r) ==
    Pending(r) =>
      /\ tx[r].del \subseteq KeysOf(RowsIn(rows, r.doc))
      /\ \A m \in rows : MovementKey(m) \in tx[r].del => OpenDate(m.at)
      /\ \A m \in tx[r].ins : OpenDate(m.at)

\* A closing s that has finished a pass has locked the rows of every document
\* that a pending transaction r is about to remove.
LockedBy(s, r) ==
    s.kind = "Close" /\ Pending(r) =>
      /\ tx[s].pc = "store" => RowsIn(rows, r.doc) \subseteq tx[s].seen
      /\ Stored(s) => KeysOf(RowsIn(rows, r.doc)) \subseteq DOMAIN tx[s].stored
      /\ tx[r].del \cap DOMAIN tx[s].stored = {}

RowsNamed == \A m \in rows : RowOf(<<m.type, m.rec>>, m)

CutoffIsDay == closedThrough = Null \/ closedThrough \in Nat

\* The invariant of a batch in which periods are closed and nothing is posted.
Closing ==
    /\ NoPosts /\ OneWriter /\ RowsNamed /\ CutoffIsDay
    /\ \A r \in Requests : PassNat(r) /\ Guarded(r)
    /\ \A r, s \in Requests : LockedBy(s, r)

\* A closing sees what is committed.
LEMMA ClosingSight ==
    ASSUME TxBase, NEW s \in Requests, ~Writes(s)
    PROVE  Visible(s) = rows
BY DEF TxBase, Written, Visible

\* The keys of the rows of a document belong to no other row.
LEMMA KeysOfDocument ==
    ASSUME NEW L, NEW doc, NEW m, MovementKey(m) \in KeysOf(RowsIn(L, doc))
    PROVE  <<m.type, m.rec>> = doc
BY DEF KeysOf, RowsIn, MovementKey

\* What a statement that commits nothing must show of its own transaction.
Secures(r) ==
    /\ Alone(r) /\ UNCHANGED committed
    /\ PassNat(r)' /\ Guarded(r)'
    /\ \A s \in Requests \ {r} : LockedBy(s, r)' /\ LockedBy(r, s)'

\* A rollback gives up rows and locks.
LEMMA SecuresEnded ==
    ASSUME TxShaped, NEW r \in Requests, NEW pc \in {"refused", "cancelled"}, RollBack(r, pc)
    PROVE  Secures(r)
<1>1. Alone(r) /\ UNCHANGED committed /\ tx'[r] = [Idle EXCEPT !.pc = pc]
  BY RolledBack
<1>2. tx'[r].pc = pc /\ tx'[r].stored = <<>>
  BY <1>1 DEF Idle
<1>3. PassNat(r)' /\ Guarded(r)'
  BY <1>2 DEF PassNat, Guarded, Pending
<1>4. ASSUME NEW s \in Requests \ {r} PROVE LockedBy(s, r)' /\ LockedBy(r, s)'
  BY <1>2 DEF LockedBy, Pending, Stored, AfterTruncate
<1> QED
  BY <1>1, <1>3, <1>4 DEF Secures

\* A statement that writes nothing secures what it had.
LEMMA SecuresQuiet ==
    ASSUME TxBase, Closing, NEW r \in Requests, Alone(r), UNCHANGED committed, Quiet(r),
           tx[r].pc \notin {"committed", "refused", "cancelled"}
    PROVE  Secures(r)
<1>1. /\ rows' = rows /\ closedThrough' = closedThrough
      /\ tx'[r].ins = tx[r].ins /\ tx'[r].del = tx[r].del /\ tx'[r].stored = tx[r].stored
  BY DEF Quiet, committed
<1>2. PassNat(r)'
  BY DEF Closing, Quiet
<1>3. Guarded(r)'
  BY <1>1 DEF Closing, Guarded, Pending, OpenDate
<1>4. ASSUME NEW s \in Requests \ {r} PROVE LockedBy(s, r)' /\ LockedBy(r, s)'
  <2>1. tx'[s] = tx[s] /\ LockedBy(s, r) /\ LockedBy(r, s)
    BY DEF Alone, Closing
  <2>2. LockedBy(s, r)'
    BY <1>1, <2>1 DEF LockedBy, Pending, Stored
  <2>3. LockedBy(r, s)'
    BY <1>1, <2>1 DEF LockedBy, Pending, Quiet
  <2> QED
    BY <2>2, <2>3
<1> QED
  BY <1>2, <1>3, <1>4 DEF Secures

\* Rows are removed under their guard, once no closing has locked them.
LEMMA SecuresRemove ==
    ASSUME TxBase, Closing, NEW r \in Requests, RemoveRows(r)
    PROVE  Secures(r)
<1> DEFINE mine == RowsIn(rows, r.doc)
<1> SUFFICES ASSUME ~RollBack(r, "refused")
             PROVE  Secures(r)
  BY SecuresEnded DEF TxBase, TxInv
<1>1. /\ r.kind \in {"Delete", "Update"} /\ Alone(r) /\ UNCHANGED committed
      /\ tx[r].pc = (IF r.kind = "Delete" THEN "begin" ELSE "clear") /\ WaitsFor(r) = {}
      /\ tx'[r].pc = "delta" /\ tx'[r].del = KeysOf(mine) /\ tx'[r].ins = tx[r].ins
      /\ tx'[r].stored = tx[r].stored
      /\ \A m \in mine : OpenDate(m.at)
  BY RemoveShift DEF TxBase, TxInv, Shift, Fields
<1>2. rows' = rows /\ closedThrough' = closedThrough
  BY <1>1 DEF committed
<1>3. PassNat(r)'
  BY <1>1 DEF PassNat
<1>4. \A m \in rows : MovementKey(m) \in tx'[r].del => OpenDate(m.at)
  <2>1. ASSUME NEW m \in rows, MovementKey(m) \in KeysOf(mine) PROVE OpenDate(m.at)
    <3>1. <<m.type, m.rec>> = r.doc
      BY <2>1, KeysOfDocument
    <3>2. m \in mine
      BY <3>1 DEF RowsIn
    <3> QED
      BY <1>1, <3>2
  <2> QED
    BY <1>1, <2>1
<1>5. Guarded(r)'
  BY <1>1, <1>2, <1>4 DEF Closing, Guarded, Pending, OpenDate
<1>6. ASSUME NEW s \in Requests \ {r} PROVE LockedBy(s, r)' /\ LockedBy(r, s)'
  <2>1. tx'[s] = tx[s] /\ LockedBy(s, r) /\ Pending(r)
    BY <1>1 DEF Alone, Closing, Pending, Writes
  <2>2. LockedBy(r, s)'
    BY <1>1 DEF LockedBy
  <2>3. WaitsFor(r) = {t \in Others(r) : RowLocks(t) \cap KeysOf(mine) # {}}
    BY <1>1 DEF WaitsFor
  <2>4. s \in Others(r) => RowLocks(s) \cap KeysOf(mine) = {}
    BY <1>1, <2>3
  <2>5. s \notin Others(r) => tx[s].stored = <<>>
    BY DEF Others, TxBase, Written
  <2>6. DOMAIN tx[s].stored \cap KeysOf(mine) = {}
    BY <2>4, <2>5 DEF RowLocks
  <2>7. LockedBy(s, r)'
    BY <1>1, <1>2, <2>1, <2>6 DEF LockedBy, Pending, Stored
  <2> QED
    BY <2>2, <2>7
<1> QED
  BY <1>1, <1>3, <1>5, <1>6 DEF Secures

\* A row of a revision is inserted under its guard.
LEMMA SecuresInsert ==
    ASSUME TxBase, Closing, NEW r \in Requests, InsertRow(r)
    PROVE  Secures(r)
<1> DEFINE m == [Head(tx[r].todo) EXCEPT !.id = nextId]
<1> SUFFICES ASSUME ~RollBack(r, "refused")
             PROVE  Secures(r)
  BY SecuresEnded DEF TxBase, TxInv
<1>1. /\ Alone(r) /\ UNCHANGED committed /\ OpenDate(m.at) /\ tx[r].pc = "act"
      /\ tx'[r].pc = "delta" /\ tx'[r].ins = tx[r].ins \cup {m} /\ tx'[r].del = tx[r].del
  BY RowInserted DEF TxBase, TxInv, Fields, InsertRow, At
<1> HIDE DEF m
<1>2. rows' = rows /\ closedThrough' = closedThrough
  BY <1>1 DEF committed
<1>3. PassNat(r)'
  BY <1>1 DEF PassNat
<1>4. Guarded(r)'
  BY <1>1, <1>2 DEF Closing, Guarded, Pending, OpenDate
<1>5. ASSUME NEW s \in Requests \ {r} PROVE LockedBy(s, r)' /\ LockedBy(r, s)'
  <2>1. tx'[s] = tx[s] /\ LockedBy(s, r) /\ LockedBy(r, s)
    BY <1>1 DEF Alone, Closing
  <2>2. LockedBy(s, r)'
    BY <1>1, <1>2, <2>1 DEF LockedBy, Pending, Stored
  <2>3. r.kind # "Close"
    BY <1>1 DEF TxBase, Written, Writes
  <2> QED
    BY <2>2, <2>3 DEF LockedBy
<1> QED
  BY <1>1, <1>3, <1>4, <1>5 DEF Secures

\* A pass of a closing sees the rows that are about to be removed.
LEMMA SecuresWalk ==
    ASSUME TxBase, Closing, NEW r \in Requests, Walk(r)
    PROVE  Secures(r)
<1> SUFFICES ASSUME ~RollBack(r, "refused")
             PROVE  Secures(r)
  BY SecuresEnded DEF TxBase, TxInv
<1>1. /\ Alone(r) /\ UNCHANGED committed /\ tx[r].pc = "walk" /\ tx'[r].pc = "store"
      /\ tx'[r].ins = tx[r].ins /\ tx'[r].del = tx[r].del /\ tx'[r].stored = tx[r].stored
      /\ tx'[r].seen = Visible(r) /\ tx'[r].pass = tx[r].pass + 1
  BY WalkShift DEF TxBase, TxInv, Shift, Fields
<1>2. rows' = rows /\ closedThrough' = closedThrough
  BY <1>1 DEF committed
<1>3. tx[r].pass \in Nat
  BY <1>1 DEF Closing, PassNat
<1>4. PassNat(r)'
  BY <1>1, <1>3 DEF PassNat
<1>5. Guarded(r)'
  BY <1>1, <1>2 DEF Closing, Guarded, Pending, OpenDate
<1>6. ASSUME NEW s \in Requests \ {r} PROVE LockedBy(s, r)' /\ LockedBy(r, s)'
  <2>1. tx'[s] = tx[s] /\ LockedBy(s, r) /\ LockedBy(r, s)
    BY <1>1 DEF Alone, Closing
  <2>2. LockedBy(s, r)'
    BY <1>1, <1>2, <2>1 DEF LockedBy, Pending, Stored
  <2>3. r.kind = "Close" => Visible(r) = rows
    BY ClosingSight DEF Writes
  <2>4. Stored(r)' => Stored(r)
    BY <1>1, <1>3 DEF Stored, AfterTruncate
  <2>5. LockedBy(r, s)'
    BY <1>1, <1>2, <2>1, <2>3, <2>4 DEF LockedBy, Pending, RowsIn
  <2> QED
    BY <2>2, <2>5
<1> QED
  BY <1>1, <1>4, <1>5, <1>6 DEF Secures

\* A closing stores values, once nobody else has removed the rows.
LEMMA SecuresStore ==
    ASSUME TxBase, Closing, NEW r \in Requests, Store(r)
    PROVE  Secures(r)
<1> DEFINE keys == KeysOf(tx[r].seen \cap Visible(r))
           kept == Restrict(tx[r].work, keys)
<1>1. /\ Alone(r) /\ UNCHANGED committed /\ tx[r].pc = "store" /\ tx'[r].pc = "check"
      /\ tx'[r].ins = tx[r].ins /\ tx'[r].del = tx[r].del /\ tx'[r].pass = tx[r].pass
      /\ tx'[r].stored = Overlay(kept, tx[r].stored) /\ WaitsFor(r) = {}
  BY StoreShift DEF TxBase, TxInv, Shift, Fields
<1>2. rows' = rows /\ closedThrough' = closedThrough
  BY <1>1 DEF committed
<1>3. PassNat(r)'
  BY <1>1 DEF Closing, PassNat
<1>4. Guarded(r)'
  BY <1>1, <1>2 DEF Closing, Guarded, Pending, OpenDate
<1>5. DOMAIN tx'[r].stored = keys \cup DOMAIN tx[r].stored
  BY <1>1 DEF Restrict, Overlay
<1> HIDE DEF kept
<1>6. ASSUME NEW s \in Requests \ {r} PROVE LockedBy(s, r)' /\ LockedBy(r, s)'
  <2>1. tx'[s] = tx[s] /\ LockedBy(s, r) /\ LockedBy(r, s)
    BY <1>1 DEF Alone, Closing
  <2>2. LockedBy(s, r)'
    BY <1>1, <1>2, <2>1 DEF LockedBy, Pending, Stored
  <2>3. ASSUME r.kind = "Close", Pending(s)
        PROVE  /\ KeysOf(RowsIn(rows, s.doc)) \subseteq DOMAIN tx'[r].stored
               /\ tx[s].del \cap DOMAIN tx'[r].stored = {}
    <3>1. Visible(r) = rows
      BY <2>3, ClosingSight DEF Writes
    <3>2. RowsIn(rows, s.doc) \subseteq tx[r].seen \cap rows
      BY <1>1, <2>1, <2>3 DEF LockedBy, RowsIn
    <3>3. KeysOf(RowsIn(rows, s.doc)) \subseteq keys
      BY <3>1, <3>2 DEF KeysOf
    <3>4. WaitsFor(r) = {t \in Others(r) : RowLocks(t) \cap keys # {}}
      BY <1>1, <3>1 DEF WaitsFor
    <3>5. s \in Others(r) => tx[s].del \cap keys = {}
      BY <1>1, <3>4 DEF RowLocks
    <3>6. s \notin Others(r) => tx[s].del = {}
      BY DEF Others, TxBase, Written
    <3>7. tx[s].del \cap DOMAIN tx[r].stored = {}
      BY <2>1, <2>3 DEF LockedBy
    <3> QED
      BY <1>5, <3>3, <3>5, <3>6, <3>7
  <2>4. LockedBy(r, s)'
    BY <1>1, <1>2, <2>1, <2>3 DEF LockedBy, Pending
  <2> QED
    BY <2>2, <2>4
<1> QED
  BY <1>1, <1>3, <1>4, <1>6 DEF Secures

\* Every statement but the commit.
LEMMA SecuresStatement ==
    ASSUME TxBase, Closing, NEW r \in Requests, Statement(r), ~Commit(r)
    PROVE  Secures(r)
<1>1. TxShaped /\ UNCHANGED committed /\ Alone(r)
  BY OnlyCommitsCommit, WrittenStep DEF TxBase, TxInv
<1>2. tx[r].pc \notin {"committed", "refused", "cancelled"}
  BY EndedExecutesNothing
<1> QED
  BY <1>1, <1>2, QuietStatements, SecuresEnded, SecuresQuiet, SecuresRemove, SecuresInsert,
     SecuresWalk, SecuresStore

-----------------------------------------------------------------------------
(* The closed days.                                                        *)

\* A step that commits nothing.
LEMMA ClosingQuiet ==
    ASSUME TxBase, Closing, NEW r \in Requests, Secures(r)
    PROVE  /\ RowsNamed' /\ CutoffIsDay'
           /\ \A s \in Requests : PassNat(s)' /\ Guarded(s)'
           /\ \A s, t \in Requests : LockedBy(s, t)'
<1>1. rows' = rows /\ closedThrough' = closedThrough
  BY DEF Secures, committed
<1>2. \A s \in Requests \ {r} : tx'[s] = tx[s]
  BY DEF Secures, Alone
<1>3. RowsNamed' /\ CutoffIsDay'
  BY <1>1 DEF Closing, RowsNamed, CutoffIsDay
<1>4. ASSUME NEW s \in Requests PROVE PassNat(s)' /\ Guarded(s)'
  <2>1. CASE s = r
    BY <2>1 DEF Secures
  <2>2. CASE s # r
    BY <1>1, <1>2, <2>2 DEF Closing, PassNat, Guarded, Pending, OpenDate
  <2> QED
    BY <2>1, <2>2
<1>5. ASSUME NEW s \in Requests, NEW t \in Requests PROVE LockedBy(s, t)'
  <2>1. CASE s = t
    BY <2>1 DEF LockedBy, Pending, Writes
  <2>2. CASE s # t /\ (s = r \/ t = r)
    BY <2>2 DEF Secures
  <2>3. CASE s # r /\ t # r
    <3>1. tx'[s] = tx[s] /\ tx'[t] = tx[t] /\ LockedBy(s, t)
      BY <1>2, <2>3 DEF Closing
    <3> QED
      BY <1>1, <3>1 DEF LockedBy, Pending, Stored
  <2> QED
    BY <2>1, <2>2, <2>3
<1> QED
  BY <1>3, <1>4, <1>5

\* When a closing commits no document transaction has written anything.
LEMMA CloseIsAlone ==
    ASSUME TxBase, Closing, NEW s \in Requests, s.kind = "Close", tx[s].pc = "commit",
           NEW r \in Requests, Pending(r)
    PROVE  tx[r].del = {} /\ tx[r].ins = {}
<1>1. s # r /\ LockedBy(s, r) /\ Guarded(r) /\ Written(r) /\ Stored(s)
  BY DEF Closing, TxBase, Pending, Writes, Stored, AfterTruncate
<1>2. tx[r].agg = "none"
  <2>1. tx[s].agg = "exclusive"
    BY DEF TxBase, TxInv, AggregateLocks, AfterTruncate
  <2> QED
    BY <1>1, <2>1 DEF TxBase, TxInv, AggregateLocks
<1>3. r.kind \in {"Update", "Delete"}
  BY DEF Closing, NoPosts, Pending, Writes
<1>4. tx[r].ins = {}
  BY <1>1, <1>2, <1>3 DEF Written
<1>5. tx[r].del = {}
  BY <1>1 DEF LockedBy, Guarded
<1> QED
  BY <1>4, <1>5

\* What the commit of a document changes: its own rows, in the open.
LEMMA DocumentCommitted ==
    ASSUME TxBase, Closing, NEW r \in Requests, Writes(r), Commit(r)
    PROVE  /\ closedThrough' = closedThrough /\ RowsNamed'
           /\ OnOrBefore(rows, closedThrough)' = OnOrBefore(rows, closedThrough)
              \/ closedThrough = Null
           /\ \A doc : doc # r.doc => RowsIn(rows, doc)' = RowsIn(rows, doc)
<1>1. /\ tx[r].pc = "commit" /\ closedThrough' = closedThrough
      /\ rows' = {m \in rows : MovementKey(m) \notin tx[r].del} \cup tx[r].ins
  BY DEF Commit, At, Writes, Visible
<1>2. Pending(r) /\ Guarded(r) /\ Written(r)
  BY <1>1 DEF Pending, Closing, TxBase
<1>3. \A m \in tx[r].ins : RowOf(r.doc, m)
  BY <1>2 DEF Written
<1>4. RowsNamed'
  BY <1>1, <1>3 DEF Closing, RowsNamed, RowOf
<1>5. ASSUME NEW m \in rows, MovementKey(m) \in tx[r].del PROVE <<m.type, m.rec>> = r.doc
  <2>1. MovementKey(m) \in KeysOf(RowsIn(rows, r.doc))
    BY <1>2, <1>5 DEF Guarded
  <2> QED
    BY <2>1, KeysOfDocument
<1>6. ASSUME NEW doc, doc # r.doc PROVE RowsIn(rows, doc)' = RowsIn(rows, doc)
  BY <1>1, <1>3, <1>5, <1>6 DEF RowsIn, RowOf
<1>7. ASSUME closedThrough # Null
      PROVE  OnOrBefore(rows, closedThrough)' = OnOrBefore(rows, closedThrough)
  <2>1. closedThrough \in Nat
    BY <1>7 DEF Closing, CutoffIsDay
  <2>2. \A m \in tx[r].ins : DayOf[m.at] \in Nat /\ DayOf[m.at] > closedThrough
    BY <1>2, <1>3, <1>7 DEF Guarded, OpenDate, RowOf
  <2>3. \A m \in rows : MovementKey(m) \in tx[r].del =>
           DayOf[m.at] \in Nat /\ DayOf[m.at] > closedThrough
    BY <1>2, <1>7 DEF Guarded, OpenDate, RowOf, Closing, RowsNamed
  <2>4. \A m : m \in rows' /\ DayOf[m.at] <= closedThrough
               <=> m \in rows /\ DayOf[m.at] <= closedThrough
    BY <1>1, <2>1, <2>2, <2>3
  <2> QED
    BY <1>1, <2>4 DEF OnOrBefore
<1> QED
  BY <1>1, <1>4, <1>6, <1>7

\* A step that commits: a document its rows, a closing its day.
LEMMA ClosingCommit ==
    ASSUME TxBase, Closing, NEW r \in Requests, Commit(r)
    PROVE  /\ RowsNamed' /\ CutoffIsDay'
           /\ \A s \in Requests : PassNat(s)' /\ Guarded(s)'
           /\ \A s, t \in Requests : LockedBy(s, t)'
<1>1. /\ tx[r].pc = "commit" /\ rows' = Visible(r)
      /\ closedThrough' = CASE r.kind = "Close"  -> r.day
                            [] r.kind = "Reopen" -> Null
                            [] OTHER             -> closedThrough
  BY DEF Commit, At
<1>2. Alone(r) /\ tx'[r].pc = "committed" /\ tx'[r].stored = <<>>
  <2>1. Alone(r) /\ tx'[r] = [Idle EXCEPT !.pc = "committed"]
    BY Committed DEF TxBase, TxInv
  <2> QED
    BY <2>1 DEF Idle
<1>3. ~Pending(r)' /\ PassNat(r)' /\ Guarded(r)' /\ ~Stored(r)'
  BY <1>2 DEF Pending, PassNat, Guarded, Stored, AfterTruncate
<1>4. CASE Writes(r)
  <2>1. /\ closedThrough' = closedThrough /\ RowsNamed'
        /\ \A doc : doc # r.doc => RowsIn(rows, doc)' = RowsIn(rows, doc)
    BY <1>4, DocumentCommitted
  <2>2. CutoffIsDay'
    BY <2>1 DEF Closing, CutoffIsDay
  <2>3. ASSUME NEW t \in Requests \ {r}, Pending(t)
        PROVE  /\ tx'[t] = tx[t] /\ t.doc # r.doc
               /\ RowsIn(rows, t.doc)' = RowsIn(rows, t.doc)
    <3>1. tx'[t] = tx[t] /\ t.doc # r.doc
      BY <1>1, <1>2, <1>4, <2>3 DEF Alone, Pending, Closing, OneWriter
    <3> QED
      BY <2>1, <3>1
  <2>4. ASSUME NEW t \in Requests \ {r} PROVE PassNat(t)' /\ Guarded(t)'
    <3>1. tx'[t] = tx[t] /\ PassNat(t)'
      BY <1>2 DEF Alone, Closing, PassNat
    <3>2. CASE ~Pending(t)
      BY <3>1, <3>2 DEF Guarded, Pending
    <3>3. CASE Pending(t)
      <4>1. Guarded(t)
        BY DEF Closing
      <4>2. tx[t].del \subseteq KeysOf(RowsIn(rows, t.doc))'
        BY <2>3, <3>3, <4>1 DEF Guarded, KeysOf
      <4>3. ASSUME NEW m \in rows', MovementKey(m) \in tx[t].del PROVE OpenDate(m.at)
        <5>1. MovementKey(m) \in KeysOf(RowsIn(rows, t.doc))
          BY <3>3, <4>1, <4>3 DEF Guarded
        <5>2. <<m.type, m.rec>> = t.doc
          BY <5>1, KeysOfDocument
        <5>3. m \in RowsIn(rows, t.doc)'
          BY <5>2 DEF RowsIn
        <5>4. m \in rows
          BY <2>3, <3>3, <5>3 DEF RowsIn
        <5> QED
          BY <3>3, <4>1, <4>3, <5>4 DEF Guarded
      <4>4. \A m \in tx[t].ins : OpenDate(m.at)
        BY <3>3, <4>1 DEF Guarded
      <4> QED
        BY <2>1, <3>1, <4>2, <4>3, <4>4 DEF Guarded, OpenDate
    <3> QED
      BY <3>1, <3>2, <3>3
  <2>5. ASSUME NEW s \in Requests, NEW t \in Requests PROVE LockedBy(s, t)'
    <3>1. CASE t = r
      BY <1>3, <3>1 DEF LockedBy
    <3>2. CASE s = r
      BY <1>4, <3>2 DEF LockedBy, Writes
    <3>3. CASE s # r /\ t # r
      <4>1. tx'[s] = tx[s] /\ tx'[t] = tx[t] /\ LockedBy(s, t)
        BY <1>2, <3>3 DEF Alone, Closing
      <4>2. CASE ~Pending(t)
        BY <4>1, <4>2 DEF LockedBy, Pending
      <4>3. CASE Pending(t)
        <5>1. RowsIn(rows, t.doc)' = RowsIn(rows, t.doc)
          BY <2>3, <3>3, <4>3
        <5>2. KeysOf(RowsIn(rows, t.doc))' = KeysOf(RowsIn(rows, t.doc))
          BY <5>1 DEF KeysOf
        <5> QED
          BY <4>1, <5>1, <5>2 DEF LockedBy, Pending, Stored
      <4> QED
        BY <4>2, <4>3
    <3> QED
      BY <3>1, <3>2, <3>3
  <2> QED
    BY <1>3, <2>1, <2>2, <2>4, <2>5
<1>5. CASE ~Writes(r)
  <2>1. rows' = rows
    BY <1>1, <1>5, ClosingSight
  <2>2. RowsNamed'
    BY <2>1 DEF Closing, RowsNamed
  <2>3. CutoffIsDay'
    <3>1. r.kind = "Close" => r.day \in Nat
      BY RequestsAssumption
    <3> QED
      BY <1>1, <3>1 DEF Closing, CutoffIsDay
  <2>4. ASSUME NEW t \in Requests \ {r} PROVE PassNat(t)' /\ Guarded(t)'
    <3>1. tx'[t] = tx[t] /\ PassNat(t)' /\ Guarded(t)
      BY <1>2 DEF Alone, Closing, PassNat
    <3>2. CASE r.kind = "Close"
      <4>1. Pending(t) => tx[t].del = {} /\ tx[t].ins = {}
        BY <1>1, <3>2, CloseIsAlone
      <4> QED
        BY <2>1, <3>1, <4>1 DEF Guarded, Pending
    <3>3. CASE r.kind = "Reopen"
      <4>1. closedThrough' = Null
        BY <1>1, <3>3
      <4> QED
        BY <2>1, <3>1, <4>1 DEF Guarded, Pending, OpenDate
    <3>4. CASE r.kind \notin {"Close", "Reopen"}
      <4>1. closedThrough' = closedThrough
        BY <1>1, <3>4
      <4> QED
        BY <2>1, <3>1, <4>1 DEF Guarded, Pending, OpenDate
    <3> QED
      BY <3>2, <3>3, <3>4
  <2>5. ASSUME NEW s \in Requests, NEW t \in Requests PROVE LockedBy(s, t)'
    <3>1. CASE t = r
      BY <1>3, <3>1 DEF LockedBy
    <3>2. CASE s = r
      BY <1>2, <1>3, <3>2 DEF LockedBy
    <3>3. CASE s # r /\ t # r
      <4>1. tx'[s] = tx[s] /\ tx'[t] = tx[t] /\ LockedBy(s, t)
        BY <1>2, <3>3 DEF Alone, Closing
      <4> QED
        BY <2>1, <4>1 DEF LockedBy, Pending, Stored
    <3> QED
      BY <3>1, <3>2, <3>3
  <2> QED
    BY <1>3, <2>2, <2>3, <2>4, <2>5
<1> QED
  BY <1>4, <1>5

\* Every step preserves the invariant of such a batch.
LEMMA ClosingStep == ASSUME TxBase, Closing, [TxNext]_txVars PROVE Closing'
<1>0. NoPosts' /\ OneWriter'
  <2>1. NoPosts'
    BY EndedStays DEF Closing, NoPosts
  <2>2. \A s \in Requests : tx'[s].pc # "cancelled" => tx[s].pc # "cancelled"
    BY EndedStays
  <2> QED
    BY <2>1, <2>2 DEF Closing, OneWriter
<1>1. ASSUME NEW r \in Requests, Statement(r) PROVE Closing'
  <2>1. CASE Commit(r)
    BY <1>0, <2>1, ClosingCommit DEF Closing
  <2>2. CASE ~Commit(r)
    BY <1>0, <1>1, <2>2, SecuresStatement, ClosingQuiet DEF Closing
  <2> QED
    BY <2>1, <2>2
<1>2. ASSUME NEW r \in Requests, RollBack(r, "cancelled") PROVE Closing'
  <2>1. Secures(r)
    BY <1>2, SecuresEnded DEF TxBase, TxInv
  <2> QED
    BY <1>0, <2>1, ClosingQuiet DEF Closing
<1>3. CASE UNCHANGED txVars
  <2>1. tx' = tx /\ rows' = rows /\ closedThrough' = closedThrough
    BY <1>3 DEF txVars
  <2> QED
    BY <1>0, <2>1 DEF Closing, RowsNamed, CutoffIsDay, PassNat, Guarded, Pending, OpenDate, LockedBy, Stored
<1> QED
  BY <1>1, <1>2, <1>3 DEF TxNext, Finished, Cancel, BreakDeadlock

\* What a step leaves of the closed days.
LEMMA ClosedRowsKept ==
    ASSUME TxBase, Closing, [TxNext]_txVars, closedThrough # Null, closedThrough' = closedThrough
    PROVE  OnOrBefore(rows, closedThrough)' = OnOrBefore(rows, closedThrough)
<1>1. ASSUME NEW r \in Requests, Commit(r)
      PROVE  OnOrBefore(rows, closedThrough)' = OnOrBefore(rows, closedThrough)
  <2>1. CASE Writes(r)
    BY <1>1, <2>1, DocumentCommitted
  <2>2. CASE ~Writes(r)
    <3>1. rows' = rows
      BY <1>1, <2>2, ClosingSight DEF Commit
    <3> QED
      BY <3>1 DEF OnOrBefore
  <2> QED
    BY <2>1, <2>2
<1>2. CASE rows' = rows
  BY <1>2 DEF OnOrBefore
<1>3. ASSUME NEW r \in Requests, Statement(r), ~Commit(r) PROVE rows' = rows
  BY <1>3, OnlyCommitsCommit DEF TxBase, TxInv, committed
<1>4. ASSUME NEW r \in Requests, RollBack(r, "cancelled") PROVE rows' = rows
  BY <1>4 DEF RollBack, committed
<1>5. UNCHANGED txVars => rows' = rows
  BY DEF txVars
<1> QED
  BY <1>1, <1>2, <1>3, <1>4, <1>5 DEF TxNext, Finished, Cancel, BreakDeadlock

\* No period is closed.
Unclosed ==
    closedThrough = Null /\ \A r \in Requests : r.kind = "Close" => tx[r].pc = "cancelled"

\* And so it stays.
LEMMA UnclosedStep == ASSUME TxBase, Unclosed, [TxNext]_txVars PROVE Unclosed'
<1>1. \A r \in Requests : r.kind = "Close" => tx'[r].pc = "cancelled"
  BY EndedStays DEF Unclosed
<1>2. closedThrough' = Null
  <2>1. ASSUME NEW r \in Requests, Statement(r), ~Commit(r) PROVE closedThrough' = Null
    BY <2>1, OnlyCommitsCommit DEF TxBase, TxInv, Unclosed, committed
  <2>2. ASSUME NEW r \in Requests, Commit(r) PROVE closedThrough' = Null
    <3>1. /\ tx[r].pc = "commit"
          /\ closedThrough' = CASE r.kind = "Close"  -> r.day
                                [] r.kind = "Reopen" -> Null
                                [] OTHER             -> closedThrough
      BY <2>2 DEF Commit, At
    <3> QED
      BY <3>1 DEF Unclosed
  <2>3. ASSUME NEW r \in Requests, RollBack(r, "cancelled") PROVE closedThrough' = Null
    BY <2>3 DEF RollBack, committed, Unclosed
  <2>4. CASE UNCHANGED txVars
    BY <2>4 DEF txVars, Unclosed
  <2> QED
    BY <2>1, <2>2, <2>3, <2>4 DEF TxNext, Finished, Cancel, BreakDeadlock
<1> QED
  BY <1>1, <1>2 DEF Unclosed

ClosingInv == TxBase /\ (Unclosed \/ Closing)

\* One of the two holds at the beginning.
LEMMA ClosingInvInit == ASSUME PostingAside(Batches), TxInit PROVE ClosingInv
<1>1. TxBase
  BY TxBaseInit
<1>2. PICK batch \in Batches :
        tx = [r \in Requests |-> IF r \in batch THEN Idle ELSE [Idle EXCEPT !.pc = "cancelled"]]
  BY DEF TxInit
<1>3. \A r \in Requests : tx[r] \in {Idle, [Idle EXCEPT !.pc = "cancelled"]}
  BY <1>2
<1>4. \A r \in Requests : /\ tx[r].pc \in {"begin", "cancelled"} /\ tx[r].stored = <<>>
                          /\ tx[r].ins = {} /\ tx[r].del = {}
  BY <1>3 DEF Idle
<1>5. \A r \in Requests : r \notin batch => tx[r].pc = "cancelled"
  BY <1>2 DEF Idle
<1>6. rows = ExistingRows /\ closedThrough = Null
  BY DEF TxInit
<1>7. CASE \E r \in batch : r.kind = "Close"
  <2>1. NoPosts
    BY <1>5, <1>7 DEF PostingAside, NoPosts
  <2>2. OneWriter
    <3>1. ASSUME NEW r \in Requests, NEW s \in Requests, Writes(r), Writes(s), r # s,
                 tx[r].pc # "cancelled", tx[s].pc # "cancelled"
          PROVE  r.doc # s.doc
      BY <1>5, <3>1, DocumentsAssumption DEF Writes
    <3> QED
      BY <3>1 DEF OneWriter
  <2>3. RowsNamed /\ CutoffIsDay
    BY <1>6, DocumentsAssumption DEF RowsNamed, CutoffIsDay
  <2>4. \A r \in Requests : PassNat(r) /\ Guarded(r)
    BY <1>4 DEF PassNat, Guarded
  <2>5. \A r, s \in Requests : LockedBy(s, r)
    BY <1>4 DEF LockedBy, Stored, AfterTruncate
  <2> QED
    BY <1>1, <2>1, <2>2, <2>3, <2>4, <2>5 DEF ClosingInv, Closing
<1>8. CASE ~\E r \in batch : r.kind = "Close"
  BY <1>1, <1>5, <1>6, <1>8 DEF ClosingInv, Unclosed
<1> QED
  BY <1>7, <1>8

\* No committed change touches a row dated on or before the cutoff in force: a
\* closing has locked the rows of every document that a pending transaction is
\* about to remove, and holds the aggregate when it commits, so nobody has
\* passed the guard of the old cutoff and not committed.  A row of a new
\* document is not yet there to be locked, and passes the guard before it
\* waits: hence the hypothesis.
THEOREM ClosedDaysStand ==
    ASSUME PostingAside(Batches)
    PROVE  TxSpec => ClosedRowsStand
<1>1. TxInit => ClosingInv
  BY ClosingInvInit
<1>2. ClosingInv /\ [TxNext]_txVars => ClosingInv'
  BY TxBaseStep, UnclosedStep, ClosingStep DEF ClosingInv
<1>3. ClosingInv /\ [TxNext]_txVars =>
        (closedThrough # Null /\ closedThrough' = closedThrough =>
           OnOrBefore(rows, closedThrough)' = OnOrBefore(rows, closedThrough))
  BY ClosedRowsKept DEF ClosingInv, Unclosed
<1> QED
  BY <1>1, <1>2, <1>3, PTL DEF TxSpec, ClosedRowsStand

-----------------------------------------------------------------------------
(* The rows stay movements that can be valued, in every batch.             *)

\* The rows that are committed or about to be.
AllRows == rows \cup UNION {tx[r].ins : r \in Requests}

\* They are numbered from the sequence.
Numbers ==
    /\ nextId \in Nat
    /\ \A m \in AllRows : m.id \in Nat /\ m.id < nextId /\ Postable(m)
    /\ \A m, k \in AllRows : m.id = k.id => m = k

\* No two rows of a list have the same name.
Apart(list) == \A i, j \in DOMAIN list : MovementKey(list[i]) = MovementKey(list[j]) => i = j

\* What a document transaction has inserted and has still to insert.
Listed(r) ==
    Writes(r) =>
      /\ \A m \in tx[r].ins : \E d \in Inserts(r) : MovementKey(m) = MovementKey(d) /\ m.at = d.at
      /\ \A m, k \in tx[r].ins : MovementKey(m) = MovementKey(k) => m = k
      /\ Apart(tx[r].todo)
      /\ KeysOf(tx[r].ins) \cap KeysOf(ToSet(tx[r].todo)) = {}
      /\ Pending(r) /\ tx[r].pc # "begin" =>
           KeysOf(tx[r].ins) \cup KeysOf(ToSet(tx[r].todo)) = KeysOf(Inserts(r))
      /\ tx[r].pc \in Replaying \cup AfterTruncate => tx[r].todo = <<>>

\* It has removed all the rows of its document, once that was its turn.
Removes(r) ==
    Pending(r) /\ (r.kind = "Post" \/ tx[r].pc \notin {"begin", "clear"}) =>
      tx[r].del = KeysOf(RowsIn(rows, r.doc))

\* What holds of the rows, in every batch.
RowsSound == OneWriter /\ Numbers /\ Movements(rows) /\ \A r \in Requests : Listed(r) /\ Removes(r)

\* The elements of a list are its first and those of the rest.
LEMMA HeadAndTail ==
    ASSUME NEW S, NEW s \in Seq(S), s # <<>>
    PROVE  /\ ToSet(s) = {Head(s)} \cup ToSet(Tail(s))
           /\ Apart(s) => Apart(Tail(s)) /\ MovementKey(Head(s)) \notin KeysOf(ToSet(Tail(s)))
<1>1. Len(s) \in Nat /\ Len(s) > 0 /\ DOMAIN s = 1..Len(s) /\ Head(s) = s[1]
  OBVIOUS
<1>2. DOMAIN Tail(s) = 1..(Len(s) - 1) /\ \A i \in 1..(Len(s) - 1) : Tail(s)[i] = s[i + 1]
  BY <1>1
<1>3. ToSet(s) = {s[i] : i \in DOMAIN s} /\ ToSet(Tail(s)) = {Tail(s)[i] : i \in DOMAIN Tail(s)}
  BY DEF ToSet
<1>4. \A i \in 1..Len(s) : i = 1 \/ (i - 1 \in 1..(Len(s) - 1) /\ (i - 1) + 1 = i)
  BY <1>1
<1>5. \A x : x \in ToSet(s) => x = Head(s) \/ x \in ToSet(Tail(s))
  <2>1. ASSUME NEW i \in 1..Len(s) PROVE s[i] = Head(s) \/ s[i] \in ToSet(Tail(s))
    <3>1. CASE i = 1
      BY <1>1, <3>1
    <3>2. CASE i # 1
      <4>1. i - 1 \in DOMAIN Tail(s) /\ s[i] = Tail(s)[i - 1]
        BY <1>2, <1>4, <3>2
      <4> QED
        BY <1>3, <4>1
    <3> QED
      BY <3>1, <3>2
  <2> QED
    BY <1>1, <1>3, <2>1
<1>6. \A i \in 1..(Len(s) - 1) : i + 1 \in 1..Len(s) /\ i + 1 # 1
  BY <1>1
<1>7. \A x : x = Head(s) \/ x \in ToSet(Tail(s)) => x \in ToSet(s)
  BY <1>1, <1>2, <1>3, <1>6
<1>8. ASSUME Apart(s) PROVE Apart(Tail(s))
  <2>1. ASSUME NEW i \in DOMAIN Tail(s), NEW j \in DOMAIN Tail(s),
               MovementKey(Tail(s)[i]) = MovementKey(Tail(s)[j])
        PROVE  i = j
    <3>1. i + 1 = j + 1
      BY <1>1, <1>2, <1>6, <1>8, <2>1 DEF Apart
    <3> QED
      BY <1>1, <1>2, <3>1
  <2> QED
    BY <2>1 DEF Apart
<1>9. ASSUME Apart(s) PROVE MovementKey(Head(s)) \notin KeysOf(ToSet(Tail(s)))
  <2>1. ASSUME NEW i \in DOMAIN Tail(s) PROVE MovementKey(Head(s)) # MovementKey(Tail(s)[i])
    BY <1>1, <1>2, <1>6, <1>9 DEF Apart
  <2> QED
    BY <1>3, <2>1 DEF KeysOf
<1> QED
  BY <1>5, <1>7, <1>8, <1>9

\* What a document lists.
LEMMA ListedPostable ==
    ASSUME NEW r \in Requests
    PROVE  /\ r.kind = "Post" => Apart(RowsOf[r.doc]) /\ ToSet(RowsOf[r.doc]) = Inserts(r)
           /\ r.kind = "Update" => Apart(Revised[r.doc]) /\ ToSet(Revised[r.doc]) = Inserts(r)
           /\ \A m \in Inserts(r) : Postable(m)
           /\ \A m, k \in Inserts(r) : MovementKey(m) = MovementKey(k) => m = k
           /\ \A m \in Inserts(r) : Arrives(m) =>
                \E k \in Inserts(r) : MovementKey(k) = SentKey(m) /\ k.at = m.at
<1>1. \A list : AsPosted(list) =>
         /\ Apart(list) /\ \A m \in ToSet(list) : Postable(m)
         /\ \A m, k \in ToSet(list) : MovementKey(m) = MovementKey(k) => m = k
         /\ \A m \in ToSet(list) : Arrives(m) =>
              \E k \in ToSet(list) : MovementKey(k) = SentKey(m) /\ k.at = m.at
  BY DEF AsPosted, Apart, ToSet, Arrives, SentKey
<1>2. r.kind = "Post" => AsPosted(RowsOf[r.doc]) /\ ToSet(RowsOf[r.doc]) = Inserts(r)
  BY RequestsAssumption, PostingAssumption DEF Inserts
<1>3. r.kind = "Update" => AsPosted(Revised[r.doc]) /\ ToSet(Revised[r.doc]) = Inserts(r)
  BY RequestsAssumption, PostingAssumption DEF Inserts
<1>4. r.kind \notin {"Post", "Update"} => Inserts(r) = {}
  BY DEF Inserts
<1> QED
  BY <1>1, <1>2, <1>3, <1>4

\* The rows in sight of a document transaction whose rows are all there.
LEMMA SightIsMovements ==
    ASSUME TxBase, RowsSound, NEW r \in Requests, tx[r].pc \in Replaying \cup AfterTruncate
    PROVE  Movements(Visible(r)) /\ Numbered(Visible(r))
<1> DEFINE L == Visible(r)
           kept == {m \in rows : MovementKey(m) \notin tx[r].del}
<1>0. /\ Counted(rows) /\ Numbers /\ L = kept \cup tx[r].ins /\ Written(r)
      /\ Listed(r) /\ Removes(r)
  BY DEF RowsSound, Movements, Visible, TxBase
<1>1. IsFiniteSet(L)
  <2>1. IsFiniteSet(rows) /\ IsFiniteSet(tx[r].ins)
    BY <1>0 DEF Counted, Named, Written
  <2>2. IsFiniteSet(kept)
    BY <2>1, FS_Subset
  <2> QED
    BY <1>0, <2>1, <2>2, FS_Union
<1>2. L \subseteq AllRows
  BY <1>0 DEF AllRows
<1>3. \A m \in L : m.id \in Nat /\ Postable(m)
  BY <1>0, <1>2 DEF Numbers
<1>4. \A m, k \in L : m.id = k.id => m = k
  BY <1>0, <1>2 DEF Numbers
<1>5. Numbered(L)
  BY <1>1, <1>3, <1>4 DEF Numbered, Postable
<1>6. \A m \in L : Placed(m) /\ m.quant \in Int
  BY <1>3 DEF Placed, Postable, Types
<1>7. ASSUME ~Writes(r) PROVE Movements(L)
  BY <1>7, ClosingSight DEF RowsSound
<1>8. ASSUME Writes(r) PROVE Movements(L)
  <2>1. Pending(r) /\ tx[r].pc \notin {"begin", "clear"}
    BY <1>8 DEF Pending, Replaying, AfterTruncate
  <2>2. /\ tx[r].del = KeysOf(RowsIn(rows, r.doc)) /\ tx[r].todo = <<>>
        /\ KeysOf(tx[r].ins) \cup KeysOf(ToSet(tx[r].todo)) = KeysOf(Inserts(r))
    BY <1>0, <1>8, <2>1 DEF Removes, Listed
  <2>3. KeysOf(tx[r].ins) = KeysOf(Inserts(r))
    <3>1. ToSet(tx[r].todo) = {}
      BY <2>2 DEF ToSet
    <3>2. KeysOf(ToSet(tx[r].todo)) = {}
      BY <3>1 DEF KeysOf
    <3> QED
      BY <2>2, <3>2
  <2>4. \A m \in kept : <<m.type, m.rec>> # r.doc
    BY <2>2 DEF KeysOf, RowsIn
  <2>5. \A m \in tx[r].ins : <<m.type, m.rec>> = r.doc
    BY <1>0 DEF Written, RowOf
  <2>6. ASSUME NEW m \in L, NEW k \in L, MovementKey(m) = MovementKey(k) PROVE m = k
    <3>1. m.type = k.type /\ m.rec = k.rec
      BY <2>6 DEF MovementKey
    <3>2. (m \in kept /\ k \in kept) \/ (m \in tx[r].ins /\ k \in tx[r].ins)
      BY <1>0, <2>4, <2>5, <3>1
    <3> QED
      BY <1>0, <1>8, <2>6, <3>2 DEF Counted, Named, Listed
  <2>7. ASSUME NEW m \in L, Arrives(m) PROVE \E k \in L : MovementKey(k) = SentKey(m) /\ k.at = m.at
    <3>1. CASE m \in kept
      <4>1. PICK k \in rows : MovementKey(k) = SentKey(m) /\ k.at = m.at
        BY <2>7, <3>1 DEF RowsSound, Movements
      <4>2. k.type = m.type /\ k.rec = m.rec
        BY <4>1 DEF MovementKey, SentKey
      <4>3. MovementKey(k) \notin tx[r].del
        <5> SUFFICES ASSUME MovementKey(k) \in KeysOf(RowsIn(rows, r.doc)) PROVE FALSE
          BY <2>2
        <5>1. <<k.type, k.rec>> = r.doc
          BY KeysOfDocument
        <5> QED
          BY <2>4, <3>1, <4>2, <5>1
      <4> QED
        BY <1>0, <4>1, <4>3
    <3>2. CASE m \in tx[r].ins
      <4>1. PICK d \in Inserts(r) : MovementKey(m) = MovementKey(d) /\ m.at = d.at
        BY <1>0, <1>8, <3>2 DEF Listed
      <4>2. Arrives(d) /\ SentKey(d) = SentKey(m)
        BY <2>7, <4>1 DEF Arrives, SentKey, MovementKey
      <4>3. PICK k \in Inserts(r) : MovementKey(k) = SentKey(m) /\ k.at = m.at
        BY <4>1, <4>2, ListedPostable
      <4>4. PICK n \in tx[r].ins : MovementKey(n) = MovementKey(k)
        BY <2>3 DEF KeysOf
      <4>5. PICK e \in Inserts(r) : MovementKey(n) = MovementKey(e) /\ n.at = e.at
        BY <1>0, <1>8 DEF Listed
      <4>6. e = k
        BY <4>4, <4>5, ListedPostable
      <4> QED
        BY <1>0, <4>3, <4>4, <4>5, <4>6
    <3> QED
      BY <1>0, <3>1, <3>2
  <2> QED
    BY <1>1, <1>3, <1>6, <2>6, <2>7 DEF Movements, Counted, Named, Postable
<1> QED
  BY <1>5, <1>7, <1>8

\* A row under another number is the same to the replay.
LEMMA EnteredRow ==
    ASSUME NEW d, DOMAIN d = RowFields, NEW n
    PROVE  [d EXCEPT !.id = n].id = n /\ Same([d EXCEPT !.id = n], d)
BY DEF RowFields, Same

\* Whether rows are as documents post them does not depend on their numbers.
LEMMA SamePostable == ASSUME NEW m, NEW k, Same(m, k) PROVE Postable(m) <=> Postable(k)
BY DEF Same, Postable

\* At the beginning the rows are those of the documents posted before.
LEMMA ExistingMovements ==
    /\ Movements(ExistingRows)
    /\ \A m \in ExistingRows : m.id \in Nat /\ m.id < Len(ExistingList) + 1 /\ Postable(m)
    /\ \A m, k \in ExistingRows : m.id = k.id => m = k
    /\ Len(ExistingList) + 1 \in Nat
<1> DEFINE list == ExistingList
           row(i) == [list[i] EXCEPT !.id = i]
<1>1. list \in Seq(ToSet(list)) /\ AsPosted(list) /\ IsFiniteSet(ExistingRows)
  BY DocumentsAssumption, PostingAssumption
<1>2. Len(list) \in Nat /\ DOMAIN list = 1..Len(list)
  BY <1>1
<1>3. \A m : m \in ExistingRows <=> \E i \in DOMAIN list : m = row(i)
  BY DEF ExistingRows
<1>4. \A m \in ExistingRows : DOMAIN m = RowFields
  BY DocumentsAssumption DEF RowOf
<1>5. ASSUME NEW i \in DOMAIN list
      PROVE  /\ list[i] \in ToSet(list)
             /\ row(i).id = i /\ MovementKey(row(i)) = MovementKey(list[i]) /\ row(i).at = list[i].at
             /\ (Postable(row(i)) <=> Postable(list[i])) /\ (Arrives(row(i)) <=> Arrives(list[i]))
             /\ SentKey(row(i)) = SentKey(list[i])
  <2>1. DOMAIN row(i) = RowFields
    BY <1>3, <1>4
  <2>2. DOMAIN list[i] = RowFields /\ i \in Nat
    BY <1>2, <2>1
  <2>3. list[i] \in ToSet(list)
    BY DEF ToSet
  <2>4. row(i).id = i /\ Same(row(i), list[i])
    BY <2>2, EnteredRow
  <2> HIDE DEF row, list
  <2>5. row(i).at = list[i].at
    BY <2>4 DEF Same
  <2> QED
    BY <2>3, <2>4, <2>5, CopiedRow, SamePostable
<1> HIDE DEF row
<1>6. ASSUME NEW m \in ExistingRows
      PROVE  m.id \in Nat /\ m.id < Len(list) + 1 /\ Postable(m)
  <2>1. PICK i \in DOMAIN list : m = row(i)
    BY <1>3
  <2> QED
    BY <1>1, <1>2, <1>5, <2>1 DEF AsPosted
<1>7. ASSUME NEW m \in ExistingRows, NEW k \in ExistingRows
      PROVE  (m.id = k.id => m = k) /\ (MovementKey(m) = MovementKey(k) => m = k)
  <2>1. PICK i \in DOMAIN list : m = row(i)
    BY <1>3
  <2>2. PICK j \in DOMAIN list : k = row(j)
    BY <1>3
  <2> QED
    BY <1>1, <1>5, <2>1, <2>2 DEF AsPosted
<1>8. ASSUME NEW m \in ExistingRows, Arrives(m)
      PROVE  \E k \in ExistingRows : MovementKey(k) = SentKey(m) /\ k.at = m.at
  <2>1. PICK i \in DOMAIN list : m = row(i)
    BY <1>3
  <2>2. PICK d \in ToSet(list) : MovementKey(d) = SentKey(list[i]) /\ d.at = list[i].at
    BY <1>1, <1>5, <1>8, <2>1 DEF AsPosted, Arrives, SentKey
  <2>3. PICK j \in DOMAIN list : d = list[j]
    BY DEF ToSet
  <2>4. row(j) \in ExistingRows
    BY <1>3
  <2> QED
    BY <1>5, <2>1, <2>2, <2>3, <2>4
<1>9. Movements(ExistingRows)
  BY <1>1, <1>6, <1>7, <1>8 DEF Movements, Counted, Named, Placed, Postable, Types
<1> QED
  BY <1>2, <1>6, <1>7, <1>9

\* Before any request is served nothing is written.
LEMMA RowsSoundInit == TxInit => RowsSound
<1> SUFFICES ASSUME TxInit PROVE RowsSound
  OBVIOUS
<1>1. PICK batch \in Batches :
        tx = [r \in Requests |-> IF r \in batch THEN Idle ELSE [Idle EXCEPT !.pc = "cancelled"]]
  BY DEF TxInit
<1>2. \A r \in Requests : tx[r] \in {Idle, [Idle EXCEPT !.pc = "cancelled"]}
  BY <1>1
<1>3. \A r \in Requests : /\ tx[r].pc \in {"begin", "cancelled"} /\ tx[r].todo = <<>>
                          /\ tx[r].ins = {} /\ tx[r].del = {}
  BY <1>2 DEF Idle
<1>4. \A r \in Requests : r \notin batch => tx[r].pc = "cancelled"
  BY <1>1 DEF Idle
<1>5. rows = ExistingRows /\ nextId = Len(ExistingList) + 1
  BY DEF TxInit
<1>6. OneWriter
  <2>1. ASSUME NEW r \in Requests, NEW s \in Requests, Writes(r), Writes(s), r # s,
               tx[r].pc # "cancelled", tx[s].pc # "cancelled"
        PROVE  r.doc # s.doc
    BY <1>4, <2>1, DocumentsAssumption DEF Writes
  <2> QED
    BY <2>1 DEF OneWriter
<1>7. AllRows = ExistingRows
  BY <1>3, <1>5 DEF AllRows
<1>8. Numbers /\ Movements(rows)
  BY <1>5, <1>7, ExistingMovements DEF Numbers
<1>9. ASSUME NEW r \in Requests PROVE Listed(r) /\ Removes(r)
  <2>1. ToSet(tx[r].todo) = {} /\ Apart(tx[r].todo)
    BY <1>3 DEF ToSet, Apart
  <2>2. Listed(r)
    BY <1>3, <2>1 DEF Listed, KeysOf, Pending, Replaying, AfterTruncate
  <2>3. Removes(r)
    <3>1. r.kind = "Post" => RowsIn(rows, r.doc) = {} /\ KeysOf({}) = {}
      BY <1>5, DocumentsAssumption DEF KeysOf
    <3> QED
      BY <1>3, <3>1 DEF Removes, Pending
  <2> QED
    BY <2>2, <2>3
<1> QED
  BY <1>6, <1>8, <1>9 DEF RowsSound

\* A statement that neither lists nor writes rows.
Steady(r) ==
    /\ Alone(r) /\ UNCHANGED <<committed, nextId>>
    /\ tx'[r].ins = tx[r].ins /\ tx'[r].del = tx[r].del
    /\ Writes(r) =>
         /\ tx'[r].todo = tx[r].todo
         /\ tx[r].pc \notin {"begin", "clear"}
         /\ tx'[r].pc \notin {"begin", "clear", "committed", "refused", "cancelled"}
         /\ tx'[r].pc \in Replaying \cup AfterTruncate => tx[r].todo = <<>>

\* Most statements are of that kind.
LEMMA SteadyShift ==
    ASSUME NEW r \in Requests, Listed(r), NEW from, NEW to, NEW names, Shift(r, from, to, names),
           names \cap {"ins", "del", "todo"} = {},
           Writes(r) =>
             /\ from \in {"delta", "line"} \cup Replaying \cup AfterTruncate
             /\ to \in {"act", "line"} \cup Replaying \cup AfterTruncate
             /\ \/ to \in {"act", "line"} \/ tx[r].todo = <<>>
                \/ from \in Replaying \cup AfterTruncate
    PROVE  Steady(r)
<1>1. /\ tx'[r].ins = tx[r].ins /\ tx'[r].del = tx[r].del /\ tx'[r].todo = tx[r].todo
      /\ tx[r].pc = from /\ tx'[r].pc = to /\ Alone(r) /\ UNCHANGED <<committed, nextId>>
  BY DEF Shift, Fields
<1>2. Writes(r) /\ from \in Replaying \cup AfterTruncate => tx[r].todo = <<>>
  BY <1>1 DEF Listed
<1> QED
  BY <1>1, <1>2 DEF Steady, Replaying, AfterTruncate

\* The statements that are not.
LEMMA SteadyStatements ==
    ASSUME TxBase, NEW r \in Requests, Listed(r), Statement(r), ~Commit(r)
    PROVE  \/ RollBack(r, "refused")
           \/ InsertDocument(r) \/ UpdateDocument(r) \/ InsertRow(r) \/ RemoveRows(r)
           \/ Steady(r)
<1> USE DEF Replaying, AfterTruncate
<1>0. TxShaped /\ (Writes(r) => tx[r].pc \notin {"closure", "cutoff"})
  BY DEF TxBase, TxInv, Written
<1>1. CASE ReachAggregate(r)
  BY <1>0, <1>1, ReachShift, SteadyShift
<1>2. CASE ApplyDelta(r)
  BY <1>0, <1>2, DeltaShift, SteadyShift
<1>3. CASE StartRecalculation(r)
  BY <1>0, <1>3, RecalculationShift, SteadyShift DEF Writes
<1>4. CASE ChangePolicy(r)
  BY <1>0, <1>4, PolicyShift, SteadyShift DEF Writes
<1>5. CASE LockSettings(r)
  BY <1>0, <1>5, SettingsShift, SteadyShift DEF Writes
<1>6. CASE PickClosure(r)
  BY <1>0, <1>6, PickShift, SteadyShift DEF Writes
<1>7. CASE LockClosure(r)
  <2>1. ~Writes(r)
    BY <1>0, <1>7 DEF LockClosure, At
  <2> QED
    BY <1>0, <1>7, <2>1, LockShift, SteadyShift
<1>8. CASE LiftCutoff(r)
  <2>1. ~Writes(r)
    BY <1>0, <1>8 DEF LiftCutoff, At
  <2> QED
    BY <1>0, <1>8, <2>1, CutoffShift, SteadyShift
<1>9. CASE ReadPolicy(r)
  BY <1>0, <1>9, ReadPolicyShift, SteadyShift
<1>10. CASE TakePrevious(r)
  BY <1>0, <1>10, PreviousShift, SteadyShift
<1>11. CASE Walk(r)
  BY <1>0, <1>11, WalkShift, SteadyShift
<1>12. CASE Store(r)
  BY <1>0, <1>12, StoreShift, SteadyShift
<1>13. CASE Check(r)
  BY <1>0, <1>13, CheckShift, SteadyShift
<1>14. CASE Truncate(r)
  BY <1>0, <1>14, TruncateShift, SteadyShift
<1>15. CASE Rebuild(r)
  BY <1>0, <1>15, RebuildShift, SteadyShift
<1>16. CASE VerifyClosing(r) \/ RemoveDocument(r)
  BY <1>0, <1>16, GuardShift, SteadyShift
<1> QED
  BY <1>1, <1>2, <1>3, <1>4, <1>5, <1>6, <1>7, <1>8, <1>9, <1>10, <1>11, <1>12, <1>13, <1>14,
     <1>15, <1>16 DEF Statement

\* What a statement of r must show when it commits nothing.
KeepsRows(r) == Alone(r) /\ rows' = rows /\ Numbers' /\ Listed(r)' /\ Removes(r)'

\* No new rows, no new numbers.
LEMMA NumbersKept ==
    ASSUME Numbers, NEW r \in Requests, Alone(r), UNCHANGED <<committed, nextId>>,
           tx'[r].ins \subseteq tx[r].ins
    PROVE  Numbers' /\ rows' = rows
<1>1. rows' = rows /\ nextId' = nextId
  BY DEF committed
<1>2. \A s \in Requests : tx'[s].ins \subseteq tx[s].ins
  BY DEF Alone
<1>3. AllRows' \subseteq AllRows
  BY <1>1, <1>2 DEF AllRows
<1> QED
  BY <1>1, <1>3 DEF Numbers

\* A transaction that has ended lists nothing.
LEMMA EndedListed ==
    ASSUME NEW r \in Requests, NEW pc \in {"refused", "cancelled", "committed"},
           tx'[r] = [Idle EXCEPT !.pc = pc]
    PROVE  tx'[r].ins = {} /\ Listed(r)' /\ Removes(r)'
<1>1. tx'[r].pc = pc /\ tx'[r].ins = {} /\ tx'[r].todo = <<>>
  BY DEF Idle
<1>2. ToSet(tx'[r].todo) = {} /\ Apart(tx'[r].todo)
  BY <1>1 DEF ToSet, Apart
<1>3. Listed(r)'
  BY <1>1, <1>2 DEF Listed, KeysOf, Pending, Replaying, AfterTruncate
<1>4. Removes(r)'
  BY <1>1 DEF Removes, Pending
<1> QED
  BY <1>1, <1>3, <1>4

\* A rollback.
LEMMA KeepsRowsEnded ==
    ASSUME TxShaped, Numbers, NEW r \in Requests, NEW pc \in {"refused", "cancelled"}, RollBack(r, pc)
    PROVE  KeepsRows(r)
<1>1. Alone(r) /\ UNCHANGED <<committed, nextId>> /\ tx'[r] = [Idle EXCEPT !.pc = pc]
  BY RolledBack
<1>2. tx'[r].ins = {} /\ Listed(r)' /\ Removes(r)'
  BY <1>1, EndedListed
<1> QED
  BY <1>1, <1>2, NumbersKept DEF KeepsRows

\* A new list of rows to insert.
LEMMA KeepsRowsListed ==
    ASSUME TxBase, RowsSound, NEW r \in Requests, Writes(r), tx[r].pc = "begin",
           Alone(r), UNCHANGED <<committed, nextId>>,
           tx'[r].ins = tx[r].ins, tx'[r].del = tx[r].del,
           Apart(tx'[r].todo), ToSet(tx'[r].todo) = Inserts(r),
           \/ r.kind = "Post" /\ tx'[r].pc = "act"
           \/ r.kind = "Update" /\ tx'[r].pc = "clear"
    PROVE  KeepsRows(r)
<1>1. tx[r].ins = {}
  BY DEF TxBase, Written, Open
<1>2. Numbers' /\ rows' = rows
  BY NumbersKept DEF RowsSound
<1>3. KeysOf({}) = {}
  BY DEF KeysOf
<1>4. Listed(r)'
  BY <1>1, <1>3 DEF Listed, Pending, Replaying, AfterTruncate
<1>5. Removes(r)'
  BY <1>2 DEF RowsSound, Removes, Pending
<1> QED
  BY <1>2, <1>4, <1>5 DEF KeepsRows

\* A row inserted under the next number.
LEMMA KeepsRowsInserted ==
    ASSUME TxBase, RowsSound, NEW r \in Requests, InsertRow(r)
    PROVE  KeepsRows(r)
<1> DEFINE d == Head(tx[r].todo)
           m == [d EXCEPT !.id = nextId]
<1> SUFFICES ASSUME ~RollBack(r, "refused") PROVE KeepsRows(r)
  BY KeepsRowsEnded DEF TxBase, TxInv, RowsSound
<1>1. /\ Alone(r) /\ UNCHANGED committed /\ nextId' = nextId + 1
      /\ tx'[r].pc = "delta" /\ tx'[r].ins = tx[r].ins \cup {m} /\ tx'[r].todo = Tail(tx[r].todo)
      /\ tx'[r].del = tx[r].del /\ tx[r].pc = "act"
  BY RowInserted DEF TxBase, TxInv, Fields, InsertRow, At
<1>2. /\ tx[r].todo \in Seq(Inserts(r)) /\ tx[r].todo # <<>> /\ Writes(r) /\ Pending(r)
      /\ Listed(r) /\ Removes(r) /\ Numbers
  BY <1>1 DEF TxBase, Written, Pending, RowsSound
<1>3. d \in Inserts(r)
  BY <1>2
<1>4. Postable(d) /\ DOMAIN d = RowFields
  BY <1>3, ListedPostable, ListedRows DEF RowOf
<1>5. m.id = nextId /\ Same(m, d)
  BY <1>4, EnteredRow
<1> HIDE DEF m, d
<1>6. MovementKey(m) = MovementKey(d) /\ m.at = d.at /\ Postable(m)
  BY <1>4, <1>5, CopiedRow, SamePostable DEF Same
<1>7. /\ ToSet(tx[r].todo) = {d} \cup ToSet(tx'[r].todo) /\ Apart(tx'[r].todo)
      /\ MovementKey(d) \notin KeysOf(ToSet(tx'[r].todo))
  BY <1>1, <1>2, HeadAndTail DEF Listed, d
<1>8. rows' = rows
  BY <1>1 DEF committed
<1>9. Numbers'
  <2>1. AllRows' = AllRows \cup {m}
    <3>1. \A s \in Requests : tx'[s].ins = IF s = r THEN tx[s].ins \cup {m} ELSE tx[s].ins
      BY <1>1 DEF Alone
    <3> QED
      BY <1>8, <3>1 DEF AllRows
  <2>2. nextId \in Nat /\ \A k \in AllRows : k.id \in Nat /\ k.id < nextId /\ Postable(k)
    BY <1>2 DEF Numbers
  <2>3. \A k \in AllRows' : k.id \in Nat /\ k.id < nextId' /\ Postable(k)
    BY <1>1, <1>5, <1>6, <2>1, <2>2
  <2>4. \A k \in AllRows : k.id # m.id
    BY <1>5, <2>2
  <2>5. \A k, n \in AllRows' : k.id = n.id => k = n
    BY <1>2, <2>1, <2>4 DEF Numbers
  <2> QED
    BY <1>1, <2>2, <2>3, <2>5 DEF Numbers
<1>10. KeysOf(ToSet(tx[r].todo)) = {MovementKey(d)} \cup KeysOf(ToSet(tx'[r].todo))
  BY <1>7 DEF KeysOf
<1>11. KeysOf(tx'[r].ins) = KeysOf(tx[r].ins) \cup {MovementKey(d)}
  BY <1>1, <1>6 DEF KeysOf
<1>12. MovementKey(m) \notin KeysOf(tx[r].ins)
  BY <1>2, <1>6, <1>10 DEF Listed
<1>13. \A k, n \in tx'[r].ins : MovementKey(k) = MovementKey(n) => k = n
  <2>1. \A k \in tx[r].ins : MovementKey(k) # MovementKey(m)
    BY <1>12 DEF KeysOf
  <2> QED
    BY <1>1, <1>2, <2>1 DEF Listed
<1>14. \A k \in tx'[r].ins : \E e \in Inserts(r) : MovementKey(k) = MovementKey(e) /\ k.at = e.at
  BY <1>1, <1>2, <1>3, <1>6 DEF Listed
<1>15. KeysOf(tx[r].ins) \cup KeysOf(ToSet(tx[r].todo)) = KeysOf(Inserts(r))
       /\ KeysOf(tx[r].ins) \cap KeysOf(ToSet(tx[r].todo)) = {}
  BY <1>1, <1>2 DEF Listed
<1>16. KeysOf(tx'[r].ins) \cup KeysOf(ToSet(tx'[r].todo)) = KeysOf(Inserts(r))
  BY <1>10, <1>11, <1>15
<1>17. KeysOf(tx'[r].ins) \cap KeysOf(ToSet(tx'[r].todo)) = {}
  BY <1>7, <1>10, <1>11, <1>15
<1>18. Listed(r)'
  BY <1>1, <1>7, <1>13, <1>14, <1>16, <1>17 DEF Listed, Replaying, AfterTruncate
<1>19. Removes(r)'
  BY <1>1, <1>2, <1>8 DEF Removes, Pending
<1> QED
  BY <1>1, <1>8, <1>9, <1>18, <1>19 DEF KeepsRows

\* The rows of a document removed.
LEMMA KeepsRowsRemoved ==
    ASSUME TxBase, RowsSound, NEW r \in Requests, RemoveRows(r)
    PROVE  KeepsRows(r)
<1> SUFFICES ASSUME ~RollBack(r, "refused") PROVE KeepsRows(r)
  BY KeepsRowsEnded DEF TxBase, TxInv, RowsSound
<1>1. /\ r.kind \in {"Delete", "Update"} /\ Alone(r) /\ UNCHANGED <<committed, nextId>>
      /\ tx[r].pc = (IF r.kind = "Delete" THEN "begin" ELSE "clear")
      /\ tx'[r].pc = "delta" /\ tx'[r].del = KeysOf(RowsIn(rows, r.doc))
      /\ tx'[r].ins = tx[r].ins /\ tx'[r].todo = tx[r].todo
  BY RemoveShift DEF TxBase, TxInv, Shift, Fields
<1>2. Numbers' /\ rows' = rows
  BY <1>1, NumbersKept DEF RowsSound
<1>3. Removes(r)'
  BY <1>1, <1>2 DEF Removes
<1>4. KeysOf(tx[r].ins) \cup KeysOf(ToSet(tx[r].todo)) = KeysOf(Inserts(r))
  <2>1. CASE r.kind = "Delete"
    <3>1. tx[r].ins = {} /\ tx[r].todo \in Seq({}) /\ Inserts(r) = {}
      BY <2>1 DEF TxBase, Written, Inserts
    <3>2. ToSet(tx[r].todo) = {}
      BY <3>1 DEF ToSet
    <3> QED
      BY <3>1, <3>2
  <2>2. CASE r.kind = "Update"
    BY <1>1, <2>2 DEF RowsSound, Listed, Writes, Pending
  <2> QED
    BY <1>1, <2>1, <2>2
<1>5. Listed(r)'
  BY <1>1, <1>4 DEF RowsSound, Listed, Replaying, AfterTruncate
<1> QED
  BY <1>1, <1>2, <1>3, <1>5 DEF KeepsRows

\* Every statement but the commit.
LEMMA KeepsRowsStatement ==
    ASSUME TxBase, RowsSound, NEW r \in Requests, Statement(r), ~Commit(r)
    PROVE  KeepsRows(r)
<1>1. TxShaped /\ Listed(r) /\ tx[r].pc \notin {"committed", "refused", "cancelled"}
  BY EndedExecutesNothing DEF TxBase, TxInv, RowsSound
<1>2. CASE RollBack(r, "refused")
  BY <1>1, <1>2, KeepsRowsEnded DEF RowsSound
<1>3. CASE InsertDocument(r)
  <2> SUFFICES ASSUME ~RollBack(r, "refused") PROVE KeepsRows(r)
    BY <1>2
  <2>1. /\ r.kind = "Post" /\ tx[r].pc = "begin" /\ tx'[r].pc = "act" /\ tx'[r].todo = RowsOf[r.doc]
        /\ Alone(r) /\ UNCHANGED <<committed, nextId>>
        /\ tx'[r].ins = tx[r].ins /\ tx'[r].del = tx[r].del
    BY <1>1, <1>3, InsertDocumentShift DEF Shift, Fields
  <2>2. Apart(tx'[r].todo) /\ ToSet(tx'[r].todo) = Inserts(r) /\ Writes(r)
    BY <2>1, ListedPostable DEF Writes
  <2> QED
    BY <2>1, <2>2, KeepsRowsListed
<1>4. CASE UpdateDocument(r)
  <2> SUFFICES ASSUME ~RollBack(r, "refused") PROVE KeepsRows(r)
    BY <1>2
  <2>1. /\ r.kind = "Update" /\ tx[r].pc = "begin" /\ tx'[r].pc = "clear" /\ tx'[r].todo = Revised[r.doc]
        /\ Alone(r) /\ UNCHANGED <<committed, nextId>>
        /\ tx'[r].ins = tx[r].ins /\ tx'[r].del = tx[r].del
    BY <1>1, <1>4, UpdateDocumentShift DEF Shift, Fields
  <2>2. Apart(tx'[r].todo) /\ ToSet(tx'[r].todo) = Inserts(r) /\ Writes(r)
    BY <2>1, ListedPostable DEF Writes
  <2> QED
    BY <2>1, <2>2, KeepsRowsListed
<1>5. CASE Steady(r)
  <2>1. Alone(r) /\ Numbers' /\ rows' = rows
    BY <1>5, NumbersKept DEF Steady, RowsSound
  <2>2. Listed(r)'
    BY <1>1, <1>5 DEF Steady, Listed, Pending
  <2>3. Removes(r)'
    BY <1>1, <1>5, <2>1 DEF Steady, RowsSound, Removes, Pending
  <2> QED
    BY <2>1, <2>2, <2>3 DEF KeepsRows
<1> QED
  BY <1>1, <1>2, <1>3, <1>4, <1>5, SteadyStatements, KeepsRowsInserted, KeepsRowsRemoved

\* The commit of r takes its rows out of AllRows into the register.
LEMMA RowsCommitted ==
    ASSUME TxBase, RowsSound, NEW r \in Requests, Commit(r)
    PROVE  /\ Movements(rows)' /\ Numbered(rows)' /\ Numbers'
           /\ \A s \in Requests : Listed(s)' /\ Removes(s)'
<1>1. tx[r].pc = "commit" /\ rows' = Visible(r) /\ nextId' = nextId
  BY DEF Commit, At
<1>2. Alone(r) /\ tx'[r].ins = {} /\ tx'[r].pc = "committed" /\ Listed(r)' /\ Removes(r)'
  <2>1. Alone(r) /\ tx'[r] = [Idle EXCEPT !.pc = "committed"]
    BY Committed DEF TxBase, TxInv
  <2> QED
    BY <2>1, EndedListed DEF Idle
<1>3. Movements(rows)' /\ Numbered(rows)'
  <2>1. Movements(Visible(r)) /\ Numbered(Visible(r))
    BY <1>1, SightIsMovements DEF AfterTruncate
  <2> QED
    BY <1>1, <2>1
<1>4. Numbers'
  <2>1. Visible(r) \subseteq AllRows
    BY DEF Visible, AllRows
  <2>2. \A s \in Requests : tx'[s].ins \subseteq tx[s].ins
    BY <1>2 DEF Alone
  <2>3. AllRows' \subseteq AllRows
    BY <1>1, <2>1, <2>2 DEF AllRows
  <2> QED
    BY <1>1, <2>3 DEF RowsSound, Numbers
<1>5. ASSUME NEW s \in Requests \ {r} PROVE Listed(s)' /\ Removes(s)'
  <2>1. tx'[s] = tx[s] /\ Listed(s) /\ Removes(s)
    BY <1>2 DEF Alone, RowsSound
  <2>2. Listed(s)'
    BY <2>1 DEF Listed, Pending
  <2>3. Pending(s) => RowsIn(rows', s.doc) = RowsIn(rows, s.doc)
    <3> SUFFICES ASSUME Pending(s) PROVE RowsIn(rows', s.doc) = RowsIn(rows, s.doc)
      OBVIOUS
    <3>1. CASE ~Writes(r)
      BY <1>1, <3>1, ClosingSight
    <3>2. CASE Writes(r)
      <4>1. r.doc # s.doc
        BY <1>1, <3>2 DEF RowsSound, OneWriter, Pending
      <4>2. tx[r].del = KeysOf(RowsIn(rows, r.doc))
        BY <1>1, <3>2 DEF RowsSound, Removes, Pending
      <4>3. \A m \in tx[r].ins : <<m.type, m.rec>> = r.doc
        BY DEF TxBase, Written, RowOf
      <4>4. ASSUME NEW m \in rows, MovementKey(m) \in tx[r].del PROVE <<m.type, m.rec>> = r.doc
        BY <4>2, <4>4, KeysOfDocument
      <4> QED
        BY <1>1, <4>1, <4>3, <4>4 DEF Visible, RowsIn
    <3> QED
      BY <3>1, <3>2
  <2>4. Removes(s)'
    BY <2>1, <2>3 DEF Removes, Pending
  <2> QED
    BY <2>2, <2>4
<1> QED
  BY <1>2, <1>3, <1>4, <1>5

\* The others do not notice that a transaction keeps the rows.
LEMMA RowsKept ==
    ASSUME RowsSound, OneWriter', NEW r \in Requests, KeepsRows(r)
    PROVE  RowsSound'
<1>1. ASSUME NEW s \in Requests PROVE Listed(s)' /\ Removes(s)'
  <2>1. CASE s = r
    BY <2>1 DEF KeepsRows
  <2>2. CASE s # r
    <3>1. tx'[s] = tx[s] /\ Listed(s) /\ Removes(s) /\ rows' = rows
      BY <2>2 DEF KeepsRows, Alone, RowsSound
    <3> QED
      BY <3>1 DEF Listed, Removes, Pending
  <2> QED
    BY <2>1, <2>2
<1>2. Movements(rows)'
  BY DEF RowsSound, KeepsRows
<1> QED
  BY <1>1, <1>2 DEF RowsSound, KeepsRows

\* Every step keeps the rows as documents post them.
LEMMA RowsSoundStep == ASSUME TxBase, RowsSound, [TxNext]_txVars PROVE RowsSound'
<1>1. OneWriter'
  <2>1. \A s \in Requests : tx'[s].pc # "cancelled" => tx[s].pc # "cancelled"
    BY EndedStays
  <2> QED
    BY <2>1 DEF RowsSound, OneWriter
<1>2. ASSUME NEW r \in Requests, Statement(r) PROVE RowsSound'
  <2>1. CASE Commit(r)
    BY <1>1, <2>1, RowsCommitted DEF RowsSound
  <2>2. CASE ~Commit(r)
    BY <1>1, <1>2, <2>2, KeepsRowsStatement, RowsKept
  <2> QED
    BY <2>1, <2>2
<1>3. ASSUME NEW r \in Requests, RollBack(r, "cancelled") PROVE RowsSound'
  <2>1. KeepsRows(r)
    BY <1>3, KeepsRowsEnded DEF TxBase, TxInv, RowsSound
  <2> QED
    BY <1>1, <2>1, RowsKept
<1>4. CASE UNCHANGED txVars
  <2>1. tx' = tx /\ rows' = rows /\ nextId' = nextId
    BY <1>4 DEF txVars
  <2>2. Numbers' /\ Movements(rows)'
    BY <2>1 DEF RowsSound, Numbers, AllRows
  <2>3. \A s \in Requests : Listed(s)' /\ Removes(s)'
    BY <2>1 DEF RowsSound, Listed, Removes, Pending
  <2> QED
    BY <1>1, <2>2, <2>3 DEF RowsSound
<1> QED
  BY <1>2, <1>3, <1>4 DEF TxNext, Finished, Cancel, BreakDeadlock

\* Whatever transactions overlap, the committed rows are movements a replay can
\* value: each under its own name, of the sign of its type, and every arrival
\* of a transfer beside its issue of the same moment.
THEOREM RowsStayMovements == TxSpec => []Movements(rows)
<1>1. TxInit => TxBase /\ RowsSound
  BY TxBaseInit, RowsSoundInit
<1>2. TxBase /\ RowsSound /\ [TxNext]_txVars => (TxBase /\ RowsSound)'
  BY TxBaseStep, RowsSoundStep
<1>3. RowsSound => Movements(rows)
  BY DEF RowsSound
<1> QED
  BY <1>1, <1>2, <1>3, PTL DEF TxSpec

-----------------------------------------------------------------------------
(* The committed values are those of one replay.                           *)

\* What is stored with the rows L before a replay and after each of its passes.
PassesFrom(A, L) ==
    /\ A[0] = [k \in KeysOf(L) |-> A[0][k]]
    /\ Revalued(L, A[0]) = A[MaxPasses(L)]
    /\ \A n \in 1..MaxPasses(L) : A[n] = Pass(L, A[n - 1])

\* Where a replay of r is among its passes.
Midway(r, A) ==
    /\ tx[r].pc = "walk" =>
         /\ tx[r].pass \in 0..(tx[r].max - 1)
         /\ Values(r) = A[tx[r].pass] /\ tx[r].prev = Valued(r)
    /\ tx[r].pc = "store" =>
         /\ tx[r].pass \in 1..tx[r].max
         /\ tx[r].seen = Visible(r) /\ tx[r].work = A[tx[r].pass]
         /\ Values(r) = A[tx[r].pass - 1] /\ tx[r].prev = Valued(r)
    /\ tx[r].pc = "check" =>
         /\ tx[r].pass \in 1..tx[r].max
         /\ Values(r) = A[tx[r].pass]
         /\ \A m \in Visible(r) : \A y : <<m, y>> \in tx[r].prev => y = A[tx[r].pass - 1][MovementKey(m)]

\* A document transaction values the rows it sees, and nobody else's.
Passing(r) ==
    Writes(r) =>
      /\ tx[r].pc \in {"walk", "store", "check"} =>
           /\ tx[r].max = MaxPasses(Visible(r))
           /\ \E A : PassesFrom(A, Visible(r)) /\ Midway(r, A)
      /\ tx[r].pc \in {"truncate"} \cup AfterTruncate =>
           \E before : Values(r) = Revalued(Visible(r), before)

\* What r sees is the same while nobody commits and it writes nothing itself.
LEMMA ValuedKept ==
    ASSUME NEW r \in Requests, UNCHANGED committed,
           \A x \in {"ins", "del", "stored"} : tx'[r][x] = tx[r][x]
    PROVE  Visible(r)' = Visible(r) /\ Values(r)' = Values(r) /\ Valued(r)' = Valued(r)
<1>1. Visible(r)' = Visible(r) /\ Values(r)' = Values(r)
  BY SightKept
<1> QED
  BY <1>1 DEF Valued

\* Others do not notice a statement that commits nothing,
LEMMA PassingKept ==
    ASSUME NEW s \in Requests, Passing(s), tx'[s] = tx[s], UNCHANGED committed
    PROVE  Passing(s)'
<1>1. Visible(s)' = Visible(s) /\ Values(s)' = Values(s) /\ Valued(s)' = Valued(s)
  BY ValuedKept
<1>2. ASSUME NEW A, Midway(s, A) PROVE Midway(s, A)'
  BY <1>1, <1>2 DEF Midway
<1>3. Writes(s) /\ tx[s].pc \in {"walk", "store", "check"} =>
        tx[s].max = MaxPasses(Visible(s)) /\ \E A : PassesFrom(A, Visible(s)) /\ Midway(s, A)'
  BY <1>2 DEF Passing
<1>4. Writes(s) /\ tx[s].pc \in {"truncate"} \cup AfterTruncate =>
        \E before : Values(s) = Revalued(Visible(s), before)
  BY DEF Passing
<1> QED
  BY <1>1, <1>3, <1>4 DEF Passing

\* and nobody commits while a document transaction replays.
LEMMA NobodyCommits ==
    ASSUME TxBase, NEW r \in Requests, tx[r].pc = "commit", NEW s \in Requests \ {r}, Writes(s)
    PROVE  tx[s].pc \notin Replaying \cup AfterTruncate
<1>1. tx[r].agg = "exclusive"
  BY DEF TxBase, TxInv, AggregateLocks, AfterTruncate
<1>2. tx[s].agg = "none"
  BY <1>1 DEF TxBase, TxInv, AggregateLocks
<1> QED
  BY <1>2 DEF TxBase, Written, TxInv, AggregateLocks

\* The values a pass starts from are those the rows have.
LEMMA PreviousAreValues ==
    ASSUME NEW r \in Requests, Movements(Visible(r)), tx[r].prev = Valued(r)
    PROVE  PreviousValues(r) = Values(r)
<1> DEFINE L == Visible(r)
           v == Values(r)
           of(m) == {x \in tx[r].prev : x[1] = m}
           row(k) == CHOOSE m \in L : MovementKey(m) = k
           was(k) == IF of(row(k)) = {} THEN [amount |-> Null, pending |-> TRUE]
                     ELSE (CHOOSE x \in of(row(k)) : TRUE)[2]
<1>1. \A m, k \in L : MovementKey(m) = MovementKey(k) => m = k
  BY DEF Movements, Counted, Named
<1>2. PreviousValues(r) = [k \in KeysOf(L) |-> was(k)]
  BY DEF PreviousValues
<1>3. ASSUME NEW k \in KeysOf(L) PROVE was(k) = v[k]
  <2>1. row(k) \in L /\ MovementKey(row(k)) = k
    BY DEF KeysOf
  <2> HIDE DEF row
  <2>2. of(row(k)) = {<<row(k), v[k]>>}
    BY <1>1, <2>1 DEF Valued
  <2> HIDE DEF of
  <2>3. was(k) = <<row(k), v[k]>>[2]
    BY <2>2
  <2> QED
    BY <2>3
<1>4. v = [k \in KeysOf(L) |-> v[k]]
  BY DEF Values
<1> HIDE DEF was, v
<1> QED
  BY <1>2, <1>3, <1>4 DEF v

\* A replay begins.
LEMMA PassingPrevious ==
    ASSUME TxBase, RowsSound, NEW r \in Requests, Writes(r), TakePrevious(r)
    PROVE  Passing(r)'
<1> DEFINE L == Visible(r)
           v == Values(r)
<1>1. /\ tx[r].pc = "previous" /\ tx'[r].pc = "walk" /\ UNCHANGED committed
      /\ tx'[r].prev = Valued(r) /\ tx'[r].max = MaxPasses(L) /\ tx'[r].pass = 0
      /\ \A x \in {"ins", "del", "stored"} : tx'[r][x] = tx[r][x]
  BY PreviousShift DEF TxBase, TxInv, Shift, Fields
<1>2. L' = L /\ v' = v /\ Valued(r)' = Valued(r)
  BY <1>1, ValuedKept
<1>3. IsFiniteSet(L)
  BY <1>1, SightIsMovements DEF Replaying, Numbered
<1>4. PICK A : Revalued(L, v) = A[MaxPasses(L)] /\ A[0] = v
               /\ \A n \in 1..MaxPasses(L) : A[n] = Pass(L, A[n - 1])
  BY <1>3, RevaluedPasses
<1>5. v = [k \in KeysOf(L) |-> v[k]]
  BY DEF Values
<1>6. 0 \in 0..(MaxPasses(L) - 1)
  <2> DEFINE N == MaxPasses(L)
  <2>1. N \in Nat /\ N >= 2
    BY <1>3, PassesBound
  <2> HIDE DEF N
  <2>2. 0 \in 0..(N - 1)
    BY <2>1
  <2> QED
    BY <2>2 DEF N
<1> HIDE DEF L, v
<1>7. PassesFrom(A, L)
  BY <1>4, <1>5 DEF PassesFrom
<1>8. Midway(r, A)'
  BY <1>1, <1>2, <1>4, <1>6 DEF Midway, L, v
<1> QED
  BY <1>1, <1>2, <1>7, <1>8 DEF Passing, AfterTruncate, L

\* A pass is walked.
LEMMA PassingWalk ==
    ASSUME TxBase, RowsSound, NEW r \in Requests, Writes(r), Passing(r), Walk(r)
    PROVE  RollBack(r, "refused") \/ Passing(r)'
<1> SUFFICES ASSUME ~RollBack(r, "refused") PROVE Passing(r)'
  OBVIOUS
<1> DEFINE L == Visible(r)
           v == Values(r)
           n == tx[r].pass
<1>1. /\ tx[r].pc = "walk" /\ tx'[r].pc = "store" /\ UNCHANGED committed
      /\ tx'[r].seen = L /\ tx'[r].work = Pass(L, PreviousValues(r)) /\ tx'[r].pass = n + 1
      /\ tx'[r].prev = tx[r].prev /\ tx'[r].max = tx[r].max
      /\ \A x \in {"ins", "del", "stored"} : tx'[r][x] = tx[r][x]
  BY WalkShift DEF TxBase, TxInv, Shift, Fields
<1>2. L' = L /\ v' = v /\ Valued(r)' = Valued(r)
  BY <1>1, ValuedKept
<1>3. Movements(L) /\ IsFiniteSet(L)
  BY <1>1, SightIsMovements DEF Replaying, Numbered
<1>4. tx[r].max = MaxPasses(L) /\ \E A : PassesFrom(A, L) /\ Midway(r, A)
  BY <1>1 DEF Passing
<1>5. PICK A : PassesFrom(A, L) /\ Midway(r, A)
  BY <1>4
<1>6. n \in 0..(MaxPasses(L) - 1) /\ v = A[n] /\ tx[r].prev = Valued(r)
  BY <1>1, <1>4, <1>5 DEF Midway
<1>7. PreviousValues(r) = v
  BY <1>3, <1>6, PreviousAreValues
<1>8. MaxPasses(L) \in Nat
  BY <1>3, PassesBound
<1> HIDE DEF L, v, n
<1>9. n + 1 \in 1..MaxPasses(L) /\ (n + 1) - 1 = n
  BY <1>6, <1>8
<1>10. tx'[r].work = A[n + 1]
  BY <1>1, <1>5, <1>6, <1>7, <1>9 DEF PassesFrom
<1>11. Midway(r, A)'
  BY <1>1, <1>2, <1>4, <1>6, <1>9, <1>10 DEF Midway, L, v
<1> QED
  BY <1>1, <1>2, <1>4, <1>5, <1>11 DEF Passing, AfterTruncate, L

\* It is stored.
LEMMA PassingStore ==
    ASSUME TxBase, RowsSound, NEW r \in Requests, Writes(r), Passing(r), Store(r)
    PROVE  Passing(r)'
<1> DEFINE L == Visible(r)
           n == tx[r].pass
<1>1. /\ tx[r].pc = "store" /\ tx'[r].pc = "check" /\ UNCHANGED committed
      /\ tx'[r].stored = Overlay(Restrict(tx[r].work, KeysOf(tx[r].seen \cap L)), tx[r].stored)
      /\ tx'[r].pass = n /\ tx'[r].prev = tx[r].prev /\ tx'[r].max = tx[r].max
      /\ tx'[r].ins = tx[r].ins /\ tx'[r].del = tx[r].del
  BY StoreShift DEF TxBase, TxInv, Shift, Fields
<1>2. L' = L
  BY <1>1 DEF Visible, committed
<1>3. IsFiniteSet(L)
  BY <1>1, SightIsMovements DEF Replaying, Numbered
<1>4. tx[r].max = MaxPasses(L) /\ \E A : PassesFrom(A, L) /\ Midway(r, A)
  BY <1>1 DEF Passing
<1>5. PICK A : PassesFrom(A, L) /\ Midway(r, A)
  BY <1>4
<1>6. /\ n \in 1..MaxPasses(L) /\ tx[r].seen = L /\ tx[r].work = A[n]
      /\ Values(r) = A[n - 1] /\ tx[r].prev = Valued(r)
  BY <1>1, <1>4, <1>5 DEF Midway
<1>7. A[n] = [k \in KeysOf(L) |-> A[n][k]]
  <2>1. A[n] = Pass(L, A[n - 1])
    BY <1>5, <1>6 DEF PassesFrom
  <2> QED
    BY <2>1 DEF Pass, KeysOf
<1>8. Values(r)' = A[n]
  <2>1. \A k \in KeysOf(L) : k \in DOMAIN tx'[r].stored /\ tx'[r].stored[k] = A[n][k]
    BY <1>1, <1>6 DEF Overlay, Restrict
  <2>2. Values(r)' = [k \in KeysOf(L) |-> IF k \in DOMAIN tx'[r].stored THEN tx'[r].stored[k] ELSE val'[k]]
    BY <1>2 DEF Values
  <2>3. Values(r)' = [k \in KeysOf(L) |-> A[n][k]]
    BY <2>1, <2>2
  <2> QED
    BY <1>7, <2>3
<1>9. ASSUME NEW m \in L, NEW y, <<m, y>> \in tx[r].prev PROVE y = A[n - 1][MovementKey(m)]
  BY <1>6, <1>9 DEF Valued
<1>10. Midway(r, A)'
  BY <1>1, <1>2, <1>4, <1>6, <1>8, <1>9 DEF Midway
<1> QED
  BY <1>1, <1>2, <1>4, <1>5, <1>10 DEF Passing, AfterTruncate

\* It is compared with what was stored before.
LEMMA PassingCheck ==
    ASSUME TxBase, RowsSound, NEW r \in Requests, Writes(r), Passing(r), Check(r)
    PROVE  Passing(r)'
<1> DEFINE L == Visible(r)
           v == Values(r)
           n == tx[r].pass
<1>1. /\ tx[r].pc = "check" /\ UNCHANGED committed
      /\ tx'[r].prev = Valued(r) /\ tx'[r].pass = n /\ tx'[r].max = tx[r].max
      /\ \A x \in {"ins", "del", "stored"} : tx'[r][x] = tx[r][x]
      /\ \/ tx'[r].pc = "walk" /\ n < tx[r].max
         \/ tx'[r].pc = "truncate" /\ (Valued(r) \subseteq tx[r].prev \/ ~(n < tx[r].max))
  BY CheckShift DEF TxBase, TxInv, Shift, Fields
<1>2. L' = L /\ v' = v /\ Valued(r)' = Valued(r)
  BY <1>1, ValuedKept
<1>3. IsFiniteSet(L)
  BY <1>1, SightIsMovements DEF Replaying, Numbered
<1>4. tx[r].max = MaxPasses(L) /\ \E A : PassesFrom(A, L) /\ Midway(r, A)
  BY <1>1 DEF Passing
<1>5. PICK A : PassesFrom(A, L) /\ Midway(r, A)
  BY <1>4
<1>6. /\ n \in 1..MaxPasses(L) /\ v = A[n]
      /\ \A m \in L : \A y : <<m, y>> \in tx[r].prev => y = A[n - 1][MovementKey(m)]
  BY <1>1, <1>4, <1>5 DEF Midway
<1>7. MaxPasses(L) \in Nat
  BY <1>3, PassesBound
<1> HIDE DEF L, v, n
<1>8. CASE tx'[r].pc = "walk"
  <2>1. n \in 0..(MaxPasses(L) - 1)
    BY <1>1, <1>4, <1>6, <1>7, <1>8
  <2>2. Midway(r, A)'
    BY <1>1, <1>2, <1>4, <1>6, <1>8, <2>1 DEF Midway, L, v
  <2> QED
    BY <1>1, <1>2, <1>4, <1>5, <1>8, <2>2 DEF Passing, AfterTruncate, L
<1>9. CASE tx'[r].pc = "truncate"
  <2>1. ASSUME ~(n < MaxPasses(L)) PROVE v = Revalued(L, A[0])
    <3>1. n = MaxPasses(L)
      BY <1>6, <1>7, <2>1
    <3>2. Revalued(L, A[0]) = A[MaxPasses(L)]
      BY <1>5 DEF PassesFrom
    <3> QED
      BY <1>6, <3>1, <3>2
  <2>2. ASSUME Valued(r) \subseteq tx[r].prev PROVE v = Revalued(L, A[0])
    <3>1. ASSUME NEW m \in L PROVE A[n][MovementKey(m)] = A[n - 1][MovementKey(m)]
      <4>1. <<m, v[MovementKey(m)]>> \in Valued(r)
        BY DEF Valued, L, v
      <4>2. <<m, v[MovementKey(m)]>> \in tx[r].prev
        BY <2>2, <4>1
      <4> QED
        BY <1>6, <4>2
    <3>2. A[n] = [k \in KeysOf(L) |-> A[n][k]] /\ A[n - 1] = [k \in KeysOf(L) |-> A[n - 1][k]]
      <4>1. \A i \in 1..MaxPasses(L) : A[i] = [k \in KeysOf(L) |-> A[i][k]]
        <5>1. \A prev : Pass(L, prev) = [k \in KeysOf(L) |-> Pass(L, prev)[k]]
          BY DEF Pass, KeysOf
        <5> QED
          BY <1>5, <5>1 DEF PassesFrom
      <4>2. n - 1 = 0 \/ n - 1 \in 1..MaxPasses(L)
        BY <1>6, <1>7
      <4> QED
        BY <1>5, <1>6, <4>1, <4>2 DEF PassesFrom
    <3>3. A[n] = A[n - 1]
      <4>1. \A k \in KeysOf(L) : A[n][k] = A[n - 1][k]
        BY <3>1 DEF KeysOf
      <4> QED
        BY <3>2, <4>1
    <3> QED
      BY <1>3, <1>5, <1>6, <3>3, PassesMayStop DEF PassesFrom
  <2>3. v = Revalued(L, A[0]) => Passing(r)'
    BY <1>2, <1>9 DEF Passing, L, v
  <2>4. v = Revalued(L, A[0])
    BY <1>1, <1>4, <1>9, <2>1, <2>2
  <2> QED
    BY <2>3, <2>4
<1> QED
  BY <1>1, <1>8, <1>9

\* What a document transaction sees stays the values of a replay until it
\* commits.
LEMMA PassingRebuild ==
    ASSUME TxBase, NEW r \in Requests, Passing(r),
           Truncate(r) \/ Rebuild(r) \/ VerifyClosing(r) \/ RemoveDocument(r), ~RollBack(r, "refused")
    PROVE  Passing(r)'
<1>1. /\ tx[r].pc \in {"truncate"} \cup AfterTruncate /\ tx'[r].pc \in AfterTruncate
      /\ UNCHANGED committed /\ \A x \in {"ins", "del", "stored"} : tx'[r][x] = tx[r][x]
  <2>1. CASE Truncate(r)
    BY <2>1, TruncateShift DEF TxBase, TxInv, Shift, Fields, AfterTruncate
  <2>2. CASE Rebuild(r)
    BY <2>2, RebuildShift DEF TxBase, TxInv, Shift, Fields, AfterTruncate
  <2>3. CASE VerifyClosing(r) \/ RemoveDocument(r)
    BY <2>3, GuardShift DEF TxBase, TxInv, Shift, Fields, AfterTruncate
  <2> QED
    BY <2>1, <2>2, <2>3
<1>2. Visible(r)' = Visible(r) /\ Values(r)' = Values(r)
  BY <1>1, ValuedKept
<1>3. Writes(r) => \E before : Values(r) = Revalued(Visible(r), before)
  BY <1>1 DEF Passing
<1> QED
  BY <1>1, <1>2, <1>3 DEF Passing, AfterTruncate

\* The statements of a replay from the values it takes to the last guard.
ReplayStep(r) ==
    \/ TakePrevious(r) \/ Walk(r) \/ Store(r) \/ Check(r) \/ Truncate(r) \/ Rebuild(r)
    \/ VerifyClosing(r) \/ RemoveDocument(r)

\* Before the replay has taken the values there is nothing to show.
LEMMA PassingBefore ==
    ASSUME TxBase, NEW r \in Requests, Writes(r), Statement(r),
           ~ReplayStep(r), ~Commit(r)
    PROVE  RollBack(r, "refused")
           \/ tx'[r].pc \notin {"walk", "store", "check", "truncate"} \cup AfterTruncate
<1> USE DEF AfterTruncate, Shift
<1>0. TxShaped
  BY DEF TxBase, TxInv
<1>1. CASE InsertDocument(r) \/ UpdateDocument(r)
  BY <1>0, <1>1, InsertDocumentShift, UpdateDocumentShift
<1>2. CASE InsertRow(r)
  BY <1>0, <1>2, RowInserted
<1>3. CASE RemoveRows(r)
  BY <1>0, <1>3, RemoveShift
<1>4. CASE ReachAggregate(r) \/ ApplyDelta(r)
  BY <1>0, <1>4, ReachShift, DeltaShift
<1>5. CASE StartRecalculation(r) \/ ChangePolicy(r) \/ LockSettings(r)
  BY <1>0, <1>5, RecalculationShift, PolicyShift, SettingsShift
<1>6. CASE PickClosure(r) \/ LockClosure(r) \/ LiftCutoff(r)
  BY <1>0, <1>6, PickShift, LockShift, CutoffShift
<1>7. CASE ReadPolicy(r)
  BY <1>0, <1>7, ReadPolicyShift
<1> QED
  BY <1>1, <1>2, <1>3, <1>4, <1>5, <1>6, <1>7 DEF Statement, ReplayStep

\* A transaction that has ended replays nothing.
LEMMA PassingEnded ==
    ASSUME NEW r \in Requests, NEW pc \in {"refused", "cancelled", "committed"},
           tx'[r] = [Idle EXCEPT !.pc = pc]
    PROVE  Passing(r)'
<1>1. tx'[r].pc = pc
  BY IdleShape
<1> QED
  BY <1>1 DEF Passing, AfterTruncate

\* Every statement of a document transaction keeps it among its passes.
LEMMA PassingStatement ==
    ASSUME TxBase, RowsSound, NEW r \in Requests, Passing(r), Statement(r)
    PROVE  Passing(r)'
<1>1. CASE RollBack(r, "refused")
  BY <1>1, RolledBack, PassingEnded DEF TxBase, TxInv
<1>2. CASE Commit(r)
  BY <1>2, Committed, PassingEnded DEF TxBase, TxInv
<1>3. CASE ~Writes(r)
  BY <1>3 DEF Passing, Writes
<1>4. CASE Writes(r) /\ ReplayStep(r)
  BY <1>1, <1>4, PassingPrevious, PassingWalk, PassingStore, PassingCheck, PassingRebuild DEF ReplayStep
<1>5. CASE Writes(r) /\ ~RollBack(r, "refused") /\ ~ReplayStep(r) /\ ~Commit(r)
  <2>1. tx'[r].pc \notin {"walk", "store", "check", "truncate"} \cup AfterTruncate
    BY <1>5, PassingBefore
  <2> QED
    BY <2>1 DEF Passing, AfterTruncate
<1> QED
  BY <1>1, <1>2, <1>3, <1>4, <1>5

\* Every step keeps all of them there.
LEMMA PassingStep ==
    ASSUME TxBase, RowsSound, \A r \in Requests : Passing(r), [TxNext]_txVars, NEW s \in Requests
    PROVE  Passing(s)'
<1>1. ASSUME NEW r \in Requests, Statement(r) PROVE Passing(s)'
  <2>1. CASE r = s
    BY <1>1, <2>1, PassingStatement
  <2>2. CASE r # s /\ ~Commit(r)
    <3>1. tx'[s] = tx[s] /\ UNCHANGED committed
      BY <1>1, <2>2, WrittenStep, OnlyCommitsCommit DEF TxBase, TxInv, Alone
    <3> QED
      BY <3>1, PassingKept
  <2>3. CASE r # s /\ Commit(r)
    <3>1. tx'[s] = tx[s] /\ tx[r].pc = "commit"
      BY <2>3, Committed DEF TxBase, TxInv, Alone, Commit, At
    <3>2. Writes(s) => tx[s].pc \notin Replaying \cup AfterTruncate
      BY <2>3, <3>1, NobodyCommits
    <3> QED
      BY <3>1, <3>2 DEF Passing, Replaying, AfterTruncate
  <2> QED
    BY <2>1, <2>2, <2>3
<1>2. ASSUME NEW r \in Requests, RollBack(r, "cancelled") PROVE Passing(s)'
  <2>1. Alone(r) /\ tx'[r] = [Idle EXCEPT !.pc = "cancelled"] /\ UNCHANGED committed
    BY <1>2, RolledBack DEF TxBase, TxInv
  <2>2. CASE s = r
    BY <2>1, <2>2, PassingEnded
  <2>3. CASE s # r
    BY <2>1, <2>3, PassingKept DEF Alone
  <2> QED
    BY <2>2, <2>3
<1>3. CASE UNCHANGED txVars
  <2>1. tx'[s] = tx[s] /\ UNCHANGED committed
    BY <1>3 DEF txVars, committed
  <2> QED
    BY <2>1, PassingKept
<1> QED
  BY <1>1, <1>2, <1>3 DEF TxNext, Finished, Cancel, BreakDeadlock

\* Rows that can be valued have one valuation, whatever a replay starts from.
LEMMA OneValuation ==
    ASSUME NEW L, Movements(L), Numbered(L), NeverNegative(L), NEW before, NEW other
    PROVE  Revalued(L, before) = Revalued(L, other)
<1> DEFINE g == [m \in L |-> m]
<1>1. Copies(L, L, L, L, g)
  BY DEF Copies, Prefix, Same
<1> QED
  BY <1>1, CopiedValues

\* A document that commits leaves the values of a replay of all the rows.
LEMMA DocumentReplayed ==
    ASSUME TxBase, RowsSound, NEW r \in Requests, Writes(r), Passing(r), Commit(r),
           NeverNegative(rows')
    PROVE  val' = Revalued(rows', NewValues(rows'))
<1>1. tx[r].pc = "commit" /\ rows' = Visible(r) /\ val' = Values(r)
  BY DEF Commit, At
<1>2. PICK before : Values(r) = Revalued(Visible(r), before)
  BY <1>1 DEF Passing, AfterTruncate
<1>3. Movements(rows') /\ Numbered(rows')
  BY RowsCommitted
<1> QED
  BY <1>1, <1>2, <1>3, OneValuation

\* Of the requests only those that write documents have been committed.
OnlyDocuments == \A r \in Requests : tx[r].pc = "committed" => Writes(r)

\* The invariant of the values.
ValuesInv ==
    /\ TxBase /\ RowsSound /\ \A r \in Requests : Passing(r)
    /\ OnlyDocuments /\ NeverNegative(rows) => CommittedValuesReplayed

\* It holds at the beginning,
LEMMA ValuesInvInit == TxInit => ValuesInv
<1> SUFFICES ASSUME TxInit PROVE ValuesInv
  OBVIOUS
<1>1. ASSUME NEW r \in Requests PROVE Passing(r)
  <2>1. tx[r] \in {Idle, [Idle EXCEPT !.pc = "cancelled"]}
    BY DEF TxInit
  <2>2. tx[r].pc \in {"begin", "cancelled"}
    BY <2>1 DEF Idle
  <2> QED
    BY <2>2 DEF Passing, AfterTruncate
<1>2. CommittedValuesReplayed
  BY DEF TxInit, CommittedValuesReplayed
<1> QED
  BY <1>1, <1>2, TxBaseInit, RowsSoundInit DEF ValuesInv

\* and every step preserves it.
LEMMA ValuesInvStep == ASSUME ValuesInv, [TxNext]_txVars PROVE ValuesInv'
<1>1. TxBase' /\ RowsSound' /\ \A r \in Requests : Passing(r)'
  BY TxBaseStep, RowsSoundStep, PassingStep DEF ValuesInv
<1>2. ASSUME OnlyDocuments', NeverNegative(rows)' PROVE CommittedValuesReplayed'
  <2>1. OnlyDocuments
    BY <1>2, EndedStays DEF ValuesInv, OnlyDocuments, Writes
  <2>2. ASSUME NEW r \in Requests, Commit(r) PROVE CommittedValuesReplayed'
    <3>1. tx'[r].pc = "committed"
      <4>1. tx'[r] = [Idle EXCEPT !.pc = "committed"]
        BY <2>2, Committed DEF ValuesInv, TxBase, TxInv
      <4> QED
        BY <4>1, IdleShape
    <3>2. Writes(r)
      BY <1>2, <3>1 DEF OnlyDocuments, Writes
    <3>3. NeverNegative(rows')
      BY <1>2
    <3> QED
      BY <2>2, <3>2, <3>3, DocumentReplayed DEF ValuesInv, CommittedValuesReplayed
  <2>3. CASE rows' = rows /\ val' = val
    BY <1>2, <2>1, <2>3 DEF ValuesInv, CommittedValuesReplayed
  <2>4. ASSUME NEW r \in Requests, Statement(r), ~Commit(r) PROVE rows' = rows /\ val' = val
    BY <2>4, OnlyCommitsCommit DEF ValuesInv, TxBase, TxInv, committed
  <2>5. ASSUME NEW r \in Requests, RollBack(r, "cancelled") PROVE rows' = rows /\ val' = val
    BY <2>5 DEF RollBack, committed
  <2>6. UNCHANGED txVars => rows' = rows /\ val' = val
    BY DEF txVars
  <2> QED
    BY <2>2, <2>3, <2>4, <2>5, <2>6 DEF TxNext, Finished, Cancel, BreakDeadlock
<1> QED
  BY <1>1, <1>2 DEF ValuesInv

\* While only documents are written the committed values are those one replay
\* of the committed rows leaves, if none of them overdraws its balance: a
\* document transaction holds the aggregate from its first row to its commit,
\* so that nobody commits while it replays and its passes are those of one
\* replay.  An accounting transaction holds no such lock while it walks, and
\* may store what is stale: hence the hypothesis.
THEOREM ValuesAreReplayed ==
    TxSpec => [](OnlyDocuments /\ NeverNegative(rows) => CommittedValuesReplayed)
<1>1. ValuesInv => (OnlyDocuments /\ NeverNegative(rows) => CommittedValuesReplayed)
  BY DEF ValuesInv
<1> QED
  BY <1>1, ValuesInvInit, ValuesInvStep, PTL DEF TxSpec

\* Whatever accounting transactions have left, the next document that is
\* committed replays all of it.
THEOREM DocumentsReplayAll ==
    TxSpec => [][\A r \in Requests :
                   Commit(r) /\ Writes(r) /\ NeverNegative(rows') => CommittedValuesReplayed']_txVars
<1>1. ValuesInv /\ [TxNext]_txVars =>
        \A r \in Requests :
           Commit(r) /\ Writes(r) /\ NeverNegative(rows') => CommittedValuesReplayed'
  BY DocumentReplayed DEF ValuesInv, CommittedValuesReplayed
<1> QED
  BY <1>1, ValuesInvInit, ValuesInvStep, PTL DEF TxSpec
===============================================================================
