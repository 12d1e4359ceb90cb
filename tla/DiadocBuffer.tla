---------------------------- MODULE DiadocBuffer ----------------------------
(***************************************************************************)
(* The buffer of documents from Diadoc                                     *)
(* (internal/integrations/diadoc/buffer_store.go and RetryDocument of      *)
(* manager.go; internal/services/diadocResolution.go, diadocActions.go,    *)
(* Replay of diadocState.go).  The synchronisation stages documents, users *)
(* match them with suppliers and materials and import them as receipts.    *)
(*                                                                         *)
(* A transaction that writes one document is one step.  A resolution also  *)
(* writes other documents, whose rows it may have to wait for: it is two   *)
(* steps, its last snapshot and its commit.  A retry is two steps as well, *)
(* before and after the download.                                          *)
(***************************************************************************)
EXTENDS Integers

CONSTANTS Users,
          Docs,         \* identities of documents, in the order of their events
          Lines,        \* line numbers, the same in every document
          Senders, SenderOf,
          Keys, KeyOf,  \* what a line is matched by
          Suppliers, Sites,
          Targets,      \* a material with its unit and a conversion factor
          Vanishing,    \* targets in which the quantity is rounded to zero
          InnSupplier,  \* the supplier with the sender's INN and KPP, or None
          Volatile,     \* suppliers, sites and targets that are (de)activated
          None,
          Resolutions,  \* what users fill in
          MaxRequests   \* bound

Picks == UNION {[chosen -> Targets \cup {None}] : chosen \in SUBSET Lines}
Receipt == [supplier : Suppliers \cup {None}, site : Sites \cup {None}, targets : Picks]

ASSUME BufferAssumption ==
    /\ Docs \subseteq Nat
    /\ SenderOf \in [Docs -> Senders]
    /\ KeyOf \in [Docs -> [Lines -> Keys]]
    /\ Vanishing \subseteq Targets
    /\ InnSupplier \in [Senders -> Suppliers \cup {None}]
    /\ Volatile \subseteq Suppliers \cup Sites \cup Targets
    /\ None \notin Suppliers \cup Sites \cup Targets \cup Docs \cup Receipt
    /\ Resolutions \subseteq [supplier : Suppliers, site : Sites \cup {None}, picks : Picks,
                              remember : SUBSET {"supplier", "materials"}]
    /\ MaxRequests \in Nat

VARIABLES doc,            \* integration_diadoc.documents and document_items
          receipt,        \* material_receipts made from documents
          supplierMatch,  \* integration_diadoc.supplier_matches
          materialMatch,  \* integration_diadoc.supplier_material_matches
          active,         \* is_active of suppliers, sites and materials
          view,           \* the document a user looks at, as it was then
          job,            \* a resolution between its snapshot and its commit
          retry,          \* the document being downloaded again; holds pollMu
          requests        \* counter

vars == <<doc, receipt, supplierMatch, materialMatch, active, view, job, retry, requests>>
references == <<supplierMatch, materialMatch, active>>

References == Suppliers \cup Sites \cup Targets
Unresolved == [target |-> None, source |-> "none", use |-> "included"]
Absent == [status |-> "absent", version |-> 0, supplier |-> None, site |-> None,
           parsed |-> "no", items |-> [l \in Lines |-> Unresolved]]

\* Mutant: only what was put aside is left alone.
ProtectedIgnored == {"ignored"}

Protected == {"imported", "ignored"}
Waiting == {"received", "needs_matching", "ready", "failed"}

Count == requests < MaxRequests /\ requests' = requests + 1

-----------------------------------------------------------------------------
(* Readiness and matching                                                  *)

Included(d) == {l \in Lines : d.parsed = "yes" /\ d.items[l].use = "included"}

\* The check at the end of replaceDocumentItemsTx.
StagedReady(d) ==
    /\ d.supplier \in active
    /\ d.site \in active
    /\ Included(d) # {}
    /\ \A l \in Included(d) : d.items[l].target \in active

\* recalculateDiadocDocumentTx and Import look at the quantities as well.
Complete(d) ==
    /\ StagedReady(d)
    /\ \A l \in Included(d) : d.items[l].target \notin Vanishing

Readiness(d) == IF Complete(d) THEN "ready" ELSE "needs_matching"

\* resolveSupplierTx: a remembered supplier, else the one with this INN.
FindSupplier(sender) ==
    CASE supplierMatch[sender] \in active -> supplierMatch[sender]
      [] supplierMatch[sender] \notin active /\ InnSupplier[sender] \in active -> InnSupplier[sender]
      [] OTHER -> None

\* Mutant: a match found anew replaces the one a line has.
FindTargetAnew(item, supplier, key) ==
    IF supplier = None \/ materialMatch[supplier][key] \notin active
    THEN item
    ELSE [item EXCEPT !.target = materialMatch[supplier][key], !.source = "cached"]

\* resolveMaterialTx, for a line without a material.
FindTarget(item, supplier, key) ==
    IF item.target # None \/ supplier = None \/ materialMatch[supplier][key] \notin active
    THEN item
    ELSE [item EXCEPT !.target = materialMatch[supplier][key], !.source = "cached"]

-----------------------------------------------------------------------------
(* Row locks, held by resolutions that have not committed.  A transaction  *)
(* that wants a document for which another already waits comes after it,   *)
(* so at most one overtakes the snapshot of the waiting one.               *)

FilledDocs(j) == {f[1] : f \in j.fill}
Rows(j) == {j.id} \cup j.mapped

RowFree(d) ==
    \A u \in Users : job[u] # None =>
        /\ d \notin Rows(job[u])
        /\ d \in FilledDocs(job[u]) => doc[d].version = job[u].base[d].version

ItemFree(d, l) ==
    \A u \in Users : job[u] # None =>
        /\ <<d, l>> \notin job[u].fill
        /\ ~(d = job[u].id /\ l \in DOMAIN job[u].picks)

-----------------------------------------------------------------------------
(* Staging                                                                 *)

\* stageDocumentTx: items a user or a match has resolved stay as they are.
Staged(id, outcome) ==
    LET old == doc[id]
        supplier == IF old.supplier = None /\ outcome = "parsed"
                    THEN FindSupplier(SenderOf[id]) ELSE old.supplier
        known == [old EXCEPT !.supplier = supplier]
        new == [known EXCEPT !.version = @ + 1, !.parsed = "yes",
                  !.items = [l \in Lines |-> FindTarget(@[l], supplier, KeyOf[id][l])]]
    IN  CASE old.status \in Protected -> known
          [] old.status \notin Protected /\ outcome = "failed" ->
               [known EXCEPT !.status = "failed", !.version = @ + 1]
          [] OTHER ->
               [new EXCEPT !.status = IF StagedReady(new) THEN "ready" ELSE "needs_matching"]

StageDocument(id) ==
    /\ RowFree(id)
    /\ \E outcome \in {"parsed", "failed"} :
         /\ outcome = "parsed" /\ doc[id].status \notin Protected
                => \A l \in Lines : ItemFree(id, l)
         /\ doc' = [doc EXCEPT ![id] = Staged(id, outcome)]

\* The synchronisation comes across a document, the first time or again.
Stage(id) ==
    /\ retry = None
    /\ Count
    /\ StageDocument(id)
    /\ UNCHANGED <<receipt, references, view, job, retry>>

\* Replay takes documents up again, from some event on.
Replay(from, restoreIgnored, retryFailed) ==
    LET restored == {d \in Docs : d >= from /\ restoreIgnored /\ doc[d].status = "ignored"}
        retried  == {d \in Docs : d >= from /\ retryFailed /\ doc[d].status = "failed"}
    IN  /\ retry = None
        /\ Count
        /\ restored \cup retried # {}
        /\ \A d \in restored \cup retried : RowFree(d)
        /\ doc' = [d \in Docs |->
                     CASE d \in restored ->
                            [doc[d] EXCEPT !.status = "needs_matching", !.version = @ + 1]
                       [] d \in retried ->
                            [doc[d] EXCEPT !.status = "received", !.version = @ + 1]
                       [] OTHER -> doc[d]]
        /\ UNCHANGED <<receipt, references, view, job, retry>>

-----------------------------------------------------------------------------
(* Users.  A request carries the version of the document the user sees.    *)

Open(u, d) ==
    /\ job[u] = None
    /\ doc[d].status # "absent"
    /\ Count
    /\ view' = [view EXCEPT ![u] = [id |-> d, doc |-> doc[d]]]
    /\ UNCHANGED <<doc, receipt, references, job, retry>>

\* The row is locked and the versions are compared.
LockCurrent(u) ==
    /\ view[u] # None
    /\ job[u] = None
    /\ RowFree(view[u].id)
    /\ doc[view[u].id].version = view[u].doc.version

Answer(u) == view' = [view EXCEPT ![u] = None]

Ignore(u) ==
    /\ LockCurrent(u)
    /\ LET id == view[u].id
       IN  /\ doc[id].status \notin Protected
           /\ doc' = [doc EXCEPT ![id].status = "ignored", ![id].version = @ + 1]
    /\ Answer(u)
    /\ UNCHANGED <<receipt, references, job, retry, requests>>

Restore(u) ==
    /\ LockCurrent(u)
    /\ LET id == view[u].id
       IN  /\ doc[id].status = "ignored"
           /\ doc' = [doc EXCEPT ![id].status = Readiness(doc[id]), ![id].version = @ + 1]
    /\ Answer(u)
    /\ UNCHANGED <<receipt, references, job, retry, requests>>

\* ExcludeItem and RestoreItem.
SetItemUse(u, l) ==
    /\ LockCurrent(u)
    /\ LET id  == view[u].id
           use == IF doc[id].items[l].use = "included" THEN "excluded" ELSE "included"
           new == [doc[id] EXCEPT !.items[l].use = use, !.version = @ + 1]
       IN  /\ doc[id].status \notin Protected
           /\ doc[id].parsed = "yes"
           /\ ItemFree(id, l)
           /\ doc' = [doc EXCEPT ![id] = [new EXCEPT !.status = Readiness(new)]]
    /\ Answer(u)
    /\ UNCHANGED <<receipt, references, job, retry, requests>>

Content(d) == [supplier |-> d.supplier, site |-> d.site,
               targets |-> [l \in Included(d) |-> d.items[l].target]]

\* Mutant: the status is trusted.
ImportReady(u) ==
    /\ LockCurrent(u)
    /\ LET id == view[u].id
       IN  /\ doc[id].status = "ready"
           /\ receipt[id] = None
           /\ receipt' = [receipt EXCEPT ![id] = Content(doc[id])]
           /\ doc' = [doc EXCEPT ![id].status = "imported", ![id].version = @ + 1]
    /\ Answer(u)
    /\ UNCHANGED <<references, job, retry, requests>>

\* Everything is checked again; receipt, postings and status are one transaction.
Import(u) ==
    /\ LockCurrent(u)
    /\ LET id == view[u].id
       IN  /\ doc[id].status = "ready"
           /\ receipt[id] = None
           /\ Complete(doc[id])
           /\ receipt' = [receipt EXCEPT ![id] = Content(doc[id])]
           /\ doc' = [doc EXCEPT ![id].status = "imported", ![id].version = @ + 1]
    /\ Answer(u)
    /\ UNCHANGED <<references, job, retry, requests>>

\* Retry and RetryDocument: up to the download nothing is locked, and after it
\* the version is not compared again.
BeginRetry(u) ==
    /\ view[u] # None
    /\ job[u] = None
    /\ retry = None
    /\ doc[view[u].id].version = view[u].doc.version
    /\ doc[view[u].id].status = "failed"
    /\ retry' = view[u].id
    /\ Answer(u)
    /\ UNCHANGED <<doc, receipt, references, job, requests>>

FinishRetry ==
    /\ retry # None
    /\ StageDocument(retry)
    /\ retry' = None
    /\ UNCHANGED <<receipt, references, view, job, requests>>

\* No token, the client is gone, or the process ends.
LoseRetry ==
    /\ retry # None
    /\ retry' = None
    /\ UNCHANGED <<doc, receipt, references, view, job, requests>>

-----------------------------------------------------------------------------
(* Resolve                                                                 *)

\* Lines of other documents that a remembered material is applied to.
Fillable(id, supplier, picks, mapped) ==
    {f \in Docs \X Lines :
       /\ f[1] # id
       /\ doc[f[1]].status \in Waiting
       /\ doc[f[1]].supplier = supplier \/ f[1] \in mapped
       /\ doc[f[1]].parsed = "yes"
       /\ doc[f[1]].items[f[2]].target = None
       /\ \E p \in DOMAIN picks : picks[p] # None /\ KeyOf[id][p] = KeyOf[f[1]][f[2]]}

\* Documents of the sender that have no supplier.
Mappable(id) ==
    {d \in Docs \ {id} : /\ SenderOf[d] = SenderOf[id]
                         /\ doc[d].supplier = None
                         /\ doc[d].status \in Waiting}

\* The request is checked, the document is locked, other documents are
\* looked for and their rows and lines locked; then their readiness is
\* evaluated in a snapshot.  Lines of one key are given one target.
BeginResolve(u, supplier, site, picks, remember) ==
    LET id     == view[u].id
        mapped == IF "supplier" \in remember THEN Mappable(id) ELSE {}
        fill   == IF "materials" \in remember
                  THEN Fillable(id, supplier, picks, mapped) ELSE {}
    IN  /\ LockCurrent(u)
        /\ doc[id].status \notin Protected
        /\ supplier \in active
        /\ site \in active \cup {None}
        /\ doc[id].parsed = "yes" \/ DOMAIN picks = {}
        /\ \A p \in DOMAIN picks : picks[p] \in active \cup {None} /\ ItemFree(id, p)
        /\ \A p, q \in DOMAIN picks : KeyOf[id][p] = KeyOf[id][q] => picks[p] = picks[q]
        /\ \A d \in mapped : RowFree(d)
        /\ \A f \in fill : ItemFree(f[1], f[2])
        /\ job' = [job EXCEPT ![u] =
                     [id |-> id, supplier |-> supplier, site |-> site, picks |-> picks,
                      remember |-> remember, mapped |-> mapped, fill |-> fill, base |-> doc]]
        /\ UNCHANGED <<doc, receipt, references, view, retry, requests>>

\* What the request says of a line of the document itself.
Picked(j, l) ==
    LET item == doc[j.id].items[l]
    IN  CASE l \notin DOMAIN j.picks -> item
          [] l \in DOMAIN j.picks /\ j.picks[l] = None ->
               [item EXCEPT !.target = None, !.source = "none"]
          [] OTHER -> [item EXCEPT !.target = j.picks[l], !.source = "manual"]

Resolved(j) ==
    LET new == [doc[j.id] EXCEPT !.supplier = j.supplier, !.site = j.site,
                                 !.version = @ + 1,
                                 !.items = [l \in Lines |-> Picked(j, l)]]
    IN  [new EXCEPT !.status = Readiness(new)]

PickFor(j, key) == j.picks[CHOOSE p \in DOMAIN j.picks : KeyOf[j.id][p] = key]

Filled(j, d, items) ==
    [l \in Lines |-> IF <<d, l>> \in j.fill
                     THEN [items[l] EXCEPT !.target = PickFor(j, KeyOf[d][l]), !.source = "cached"]
                     ELSE items[l]]

\* Mutant: the version of another document is not incremented.
PropagatedQuietly(j, d) ==
    LET now  == [doc[d] EXCEPT !.items = Filled(j, d, @)]
        new  == [now EXCEPT !.supplier = IF d \in j.mapped THEN j.supplier ELSE @]
        seen == [new EXCEPT !.items = Filled(j, d, j.base[d].items)]
    IN  IF doc[d].status \in Protected THEN now
        ELSE [new EXCEPT !.status = Readiness(seen)]

\* Another document: its row is the current one, but its readiness is that of
\* the lines in the snapshot.  Several increments of a version count as one.
Propagated(j, d) ==
    LET now  == [doc[d] EXCEPT !.items = Filled(j, d, @)]
        new  == [now EXCEPT !.supplier = IF d \in j.mapped THEN j.supplier ELSE @,
                            !.version = @ + 1]
        seen == [new EXCEPT !.items = Filled(j, d, j.base[d].items)]
    IN  IF doc[d].status \in Protected THEN now
        ELSE [new EXCEPT !.status = Readiness(seen)]

CommitResolve(u) ==
    /\ job[u] # None
    /\ LET j == job[u]
       IN  /\ \A w \in Users \ {u} : job[w] # None => FilledDocs(j) \cap Rows(job[w]) = {}
           /\ doc' = [d \in Docs |-> CASE d = j.id -> Resolved(j)
                                       [] d # j.id /\ d \in j.mapped \cup FilledDocs(j) ->
                                            Propagated(j, d)
                                       [] OTHER -> doc[d]]
           /\ supplierMatch' =
                IF "supplier" \in j.remember
                THEN [supplierMatch EXCEPT ![SenderOf[j.id]] = j.supplier]
                ELSE supplierMatch
           /\ materialMatch' =
                IF "materials" \in j.remember
                THEN [materialMatch EXCEPT ![j.supplier] = [k \in Keys |->
                        IF \E p \in DOMAIN j.picks : KeyOf[j.id][p] = k /\ j.picks[p] # None
                        THEN PickFor(j, k) ELSE @[k]]]
                ELSE materialMatch
    /\ job' = [job EXCEPT ![u] = None]
    /\ Answer(u)
    /\ UNCHANGED <<receipt, active, retry, requests>>

\* A statement fails, the client goes away, or the database breaks a deadlock
\* of resolutions that fill each other's documents.
AbortResolve(u) ==
    /\ job[u] # None
    /\ job' = [job EXCEPT ![u] = None]
    /\ Answer(u)
    /\ UNCHANGED <<doc, receipt, references, retry, requests>>

-----------------------------------------------------------------------------
\* External: a supplier, site or material is deactivated or activated.
ToggleActive(r) ==
    /\ Count
    /\ active' = IF r \in active THEN active \ {r} ELSE active \cup {r}
    /\ UNCHANGED <<doc, receipt, supplierMatch, materialMatch, view, job, retry>>

Init ==
    /\ doc = [d \in Docs |-> Absent]
    /\ receipt = [d \in Docs |-> None]
    /\ supplierMatch = [s \in Senders |-> None]
    /\ materialMatch = [s \in Suppliers |-> [k \in Keys |-> None]]
    /\ active = References
    /\ view = [u \in Users |-> None]
    /\ job = [u \in Users |-> None]
    /\ retry = None
    /\ requests = 0

UserStep(u) ==
    \/ \E d \in Docs : Open(u, d)
    \/ Ignore(u)
    \/ Restore(u)
    \/ \E l \in Lines : SetItemUse(u, l)
    \/ Import(u)
    \/ BeginRetry(u)
    \/ \E r \in Resolutions : BeginResolve(u, r.supplier, r.site, r.picks, r.remember)
    \/ CommitResolve(u)
    \/ AbortResolve(u)

Done == requests = MaxRequests /\ UNCHANGED vars

Next ==
    \/ \E d \in Docs : Stage(d)
    \/ \E from \in Docs, restoreIgnored, retryFailed \in BOOLEAN :
         Replay(from, restoreIgnored, retryFailed)
    \/ FinishRetry
    \/ LoseRetry
    \/ \E u \in Users : UserStep(u)
    \/ \E r \in Volatile : ToggleActive(r)
    \/ Done

Spec == Init /\ [][Next]_vars

-----------------------------------------------------------------------------
(* Properties                                                              *)

Item == [target : Targets \cup {None}, source : {"none", "manual", "cached"},
         use : {"included", "excluded"}]
Statuses == Protected \cup Waiting \cup {"absent"}
Answers == {"yes", "no"}
Document == [status : Statuses, version : Nat, supplier : Suppliers \cup {None},
             site : Sites \cup {None}, parsed : Answers, items : [Lines -> Item]]
View == [id : Docs, doc : Document]
Job == [id : Docs, supplier : Suppliers, site : Sites \cup {None}, picks : Picks,
        remember : SUBSET {"supplier", "materials"}, mapped : SUBSET Docs,
        fill : SUBSET (Docs \X Lines), base : [Docs -> Document]]

\* Types; a document has a version once it is in the buffer, and a receipt
\* exactly if it is imported.
TypeOK ==
    /\ doc \in [Docs -> Document]
    /\ receipt \in [Docs -> Receipt \cup {None}]
    /\ supplierMatch \in [Senders -> Suppliers \cup {None}]
    /\ materialMatch \in [Suppliers -> [Keys -> Targets \cup {None}]]
    /\ active \subseteq References
    /\ view \in [Users -> View \cup {None}]
    /\ job \in [Users -> Job \cup {None}]
    /\ retry \in Docs \cup {None}
    /\ requests \in 0..MaxRequests
    /\ \A d \in Docs : /\ doc[d].status = "absent" <=> doc[d].version = 0
                       /\ doc[d].status = "imported" <=> receipt[d] # None

\* A user who has d open is answered.
Answered(d) == \E u \in Users : view[u] # None /\ view[u].id = d /\ view'[u] = None

\* A receipt contains what the user who imported the document was looking at:
\* whatever staging, replays and resolutions of other documents have changed
\* meanwhile has changed the version, too.
ImportsWhatWasSeen ==
    [][\A d \in Docs : receipt'[d] # receipt[d] =>
          \E u \in Users : /\ view[u] # None /\ view[u].id = d /\ view'[u] = None
                           /\ receipt'[d] = Content(view[u].doc)]_vars

\* A document becomes a receipt only with a supplier and a site, and with at
\* least one line, all matched and none of quantity zero, although its status
\* may say "ready" when that is not so.
ReceiptsComplete ==
    \A d \in Docs : receipt[d] # None =>
        /\ receipt[d].supplier # None
        /\ receipt[d].site # None
        /\ DOMAIN receipt[d].targets # {}
        /\ \A l \in DOMAIN receipt[d].targets :
              receipt[d].targets[l] \in Targets \ Vanishing

\* Nothing but a request of a user who has the document open changes a
\* supplier, a site, a match of a line or its exclusion once it is there:
\* neither a staging anew, nor a retry, nor what is remembered elsewhere.
ChoicesStand ==
    [][\A d \in Docs : \/ Answered(d)
                       \/ /\ doc[d].supplier # None => doc'[d].supplier = doc[d].supplier
                          /\ doc'[d].site = doc[d].site
                          /\ \A l \in Lines :
                               /\ doc'[d].items[l].use = doc[d].items[l].use
                               /\ doc[d].items[l].target # None =>
                                    doc'[d].items[l].target = doc[d].items[l].target]_vars

Phase(status) == CASE status = "absent"  -> "unknown"
                   [] status \in Waiting -> "open"
                   [] OTHER              -> status

Ledger == INSTANCE ImportLedger
            WITH NoReceipt <- None, phase <- [d \in Docs |-> Phase(doc[d].status)]

\* The buffer implements ImportLedger: imported once, for good, and with the
\* receipt unchanged; put aside until somebody takes it up again.
KeepsLedger == Ledger!Spec
=============================================================================
