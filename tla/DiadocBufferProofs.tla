-------------------------- MODULE DiadocBufferProofs --------------------------
(***************************************************************************)
(* Theorems about DiadocBuffer, for any documents, users, references and   *)
(* resolutions, and any number of requests.                                *)
(***************************************************************************)
EXTENDS DiadocBuffer, TLAPS

\* A resolution that has not committed keeps what it has locked as it was.
JobLocks(u) ==
    LET j == job[u]
    IN  /\ view[u] # None /\ view[u].id = j.id
        /\ doc[j.id].status \notin Protected
        /\ \A d \in j.mapped : /\ d # j.id
                               /\ doc[d].status \in Waiting
                               /\ doc[d].supplier = None
        /\ \A f \in j.fill : /\ f[1] # j.id
                             /\ doc[f[1]].status # "absent"
                             /\ doc[f[1]].items[f[2]].target = None
                             /\ \E p \in DOMAIN j.picks :
                                  KeyOf[j.id][p] = KeyOf[f[1]][f[2]]

\* Two resolutions lock different rows.
JobsApart(u, w) ==
    /\ Rows(job[u]) \cap Rows(job[w]) = {}
    /\ job[u].fill \cap job[w].fill = {}
    /\ \A p \in DOMAIN job[w].picks : <<job[w].id, p>> \notin job[u].fill

Locks == /\ \A u \in Users : job[u] # None => JobLocks(u)
         /\ \A u, w \in Users : u # w /\ job[u] # None /\ job[w] # None => JobsApart(u, w)

Inv == TypeOK /\ Locks

\* What a user sees is older than the document, or what it is now.
ViewsBehind ==
    \A u \in Users : view[u] # None =>
        LET d == view[u].id
        IN  /\ view[u].doc.version # 0
            /\ view[u].doc.version <= doc[d].version
            /\ view[u].doc.version = doc[d].version /\ doc[d].status \notin Protected
                 => view[u].doc = doc[d]

-----------------------------------------------------------------------------
(* The operators                                                           *)

LEMMA PicksType ==
    ASSUME NEW picks \in Picks
    PROVE  /\ DOMAIN picks \subseteq Lines
           /\ \A p \in DOMAIN picks : picks[p] \in Targets \cup {None}
<1>1. PICK chosen \in SUBSET Lines : picks \in [chosen -> Targets \cup {None}]
  BY DEF Picks
<1> QED
  BY <1>1

LEMMA ReadinessType == ASSUME NEW d PROVE Readiness(d) \in {"ready", "needs_matching"}
BY DEF Readiness

LEMMA AbsentType == Absent \in Document /\ Absent.status = "absent" /\ Absent.version = 0
<1>1. Unresolved \in Item
  BY DEF Unresolved, Item
<1>2. [l \in Lines |-> Unresolved] \in [Lines -> Item]
  BY <1>1
<1>3. "absent" \in Statuses /\ "no" \in Answers /\ 0 \in Nat
  BY DEF Statuses, Answers
<1> QED
  BY <1>2, <1>3 DEF Absent, Document

LEMMA FoundTarget ==
    ASSUME TypeOK, NEW item \in Item, NEW supplier \in Suppliers \cup {None}, NEW key \in Keys
    PROVE  /\ FindTarget(item, supplier, key) \in Item
           /\ FindTarget(item, supplier, key).use = item.use
           /\ item.target # None => FindTarget(item, supplier, key).target = item.target
<1>1. CASE item.target # None \/ supplier = None \/ materialMatch[supplier][key] \notin active
  BY <1>1 DEF FindTarget
<1>2. CASE ~(item.target # None \/ supplier = None \/ materialMatch[supplier][key] \notin active)
  <2>1. materialMatch[supplier][key] \in Targets \cup {None}
    BY <1>2 DEF TypeOK
  <2> QED
    BY <1>2, <2>1 DEF FindTarget, Item
<1> QED
  BY <1>1, <1>2

LEMMA FoundSupplier ==
    ASSUME TypeOK, NEW sender \in Senders
    PROVE  FindSupplier(sender) \in Suppliers \cup {None}
BY BufferAssumption DEF FindSupplier, TypeOK

\* Staging leaves alone what is ignored or imported, and what is resolved.
StagedFrom(old, new, outcome) ==
    /\ new \in Document
    /\ outcome = "failed" => new.items = old.items
    /\ old.status \in Protected =>
         new.status = old.status /\ new.version = old.version /\ new.items = old.items
    /\ old.status \notin Protected => new.status \in Waiting /\ new.version = old.version + 1
    /\ old.supplier # None => new.supplier = old.supplier
    /\ new.site = old.site
    /\ \A l \in Lines : /\ new.items[l].use = old.items[l].use
                        /\ old.items[l].target # None =>
                             new.items[l].target = old.items[l].target

LEMMA StagedShape ==
    ASSUME TypeOK, NEW id \in Docs, NEW outcome \in {"parsed", "failed"}
    PROVE  StagedFrom(doc[id], Staged(id, outcome), outcome)
<1> DEFINE old == doc[id]
           supplier == IF old.supplier = None /\ outcome = "parsed"
                       THEN FindSupplier(SenderOf[id]) ELSE old.supplier
           known == [old EXCEPT !.supplier = supplier]
           items == [l \in Lines |-> FindTarget(old.items[l], supplier, KeyOf[id][l])]
           new == [known EXCEPT !.version = @ + 1, !.parsed = "yes", !.items = items]
           ready == IF StagedReady(new) THEN "ready" ELSE "needs_matching"
<1>0. old \in Document /\ old.items \in [Lines -> Item]
  BY DEF TypeOK, Document
<1>1. supplier \in Suppliers \cup {None} /\ (old.supplier # None => supplier = old.supplier)
  BY <1>0, FoundSupplier, BufferAssumption DEF Document
<1>2. known \in Document /\ known.status = old.status /\ known.version = old.version
      /\ known.items = old.items /\ known.site = old.site /\ known.supplier = supplier
  BY <1>0, <1>1 DEF Document
<1>3. \A l \in Lines : KeyOf[id][l] \in Keys
  BY BufferAssumption
<1>4. /\ items \in [Lines -> Item]
      /\ \A l \in Lines : /\ items[l].use = old.items[l].use
                          /\ old.items[l].target # None => items[l].target = old.items[l].target
  BY <1>0, <1>1, <1>3, FoundTarget
<1>5. /\ new \in Document /\ new.items = items /\ new.version = old.version + 1
      /\ new.site = old.site /\ new.supplier = supplier
  <2>1. "yes" \in Answers /\ known.version + 1 \in Nat
    BY <1>2 DEF Answers, Document
  <2> QED
    BY <1>2, <1>4, <2>1 DEF Document
<1>6. Staged(id, outcome) =
        CASE old.status \in Protected -> known
          [] old.status \notin Protected /\ outcome = "failed" ->
               [known EXCEPT !.status = "failed", !.version = @ + 1]
          [] OTHER -> [new EXCEPT !.status = ready]
  BY <1>2 DEF Staged
<1> HIDE DEF old, supplier, known, items, new, ready
<1>7. CASE old.status \in Protected
  <2>1. Staged(id, outcome) = known
    BY <1>6, <1>7
  <2> QED
    BY <1>1, <1>2, <1>7, <2>1 DEF StagedFrom, old
<1>8. CASE old.status \notin Protected /\ outcome = "failed"
  <2>1. Staged(id, outcome) = [known EXCEPT !.status = "failed", !.version = @ + 1]
    BY <1>6, <1>8
  <2>2. known.version + 1 \in Nat /\ "failed" \in Statuses /\ "failed" \in Waiting
    BY <1>2 DEF Document, Statuses, Waiting
  <2>3. Staged(id, outcome) \in Document
    BY <1>2, <2>1, <2>2 DEF Document
  <2>4. /\ Staged(id, outcome).status = "failed"
        /\ Staged(id, outcome).version = old.version + 1
        /\ Staged(id, outcome).items = old.items
        /\ Staged(id, outcome).site = old.site
        /\ Staged(id, outcome).supplier = supplier
    BY <1>2, <2>1 DEF Document
  <2> QED
    BY <1>1, <1>8, <2>2, <2>3, <2>4 DEF StagedFrom, old
<1>9. CASE old.status \notin Protected /\ outcome # "failed"
  <2>1. Staged(id, outcome) = [new EXCEPT !.status = ready]
    BY <1>6, <1>9
  <2>2. ready \in {"ready", "needs_matching"}
    BY DEF ready
  <2>3. ready \in Statuses /\ ready \in Waiting
    BY <2>2 DEF Statuses, Waiting
  <2>4. Staged(id, outcome) \in Document
    BY <1>5, <2>1, <2>3 DEF Document
  <2>5. /\ Staged(id, outcome).status = ready
        /\ Staged(id, outcome).version = old.version + 1
        /\ Staged(id, outcome).items = items
        /\ Staged(id, outcome).site = old.site
        /\ Staged(id, outcome).supplier = supplier
    BY <1>5, <2>1 DEF Document
  <2> QED
    BY <1>1, <1>4, <1>9, <2>3, <2>4, <2>5 DEF StagedFrom, old
<1> QED
  BY <1>7, <1>8, <1>9

\* Most requests write a status and the next version.
Marked(d, s) == [d EXCEPT !.status = s, !.version = @ + 1]

LEMMA MarkedType ==
    ASSUME NEW d \in Document, NEW s \in Statuses
    PROVE  /\ Marked(d, s) \in Document
           /\ Marked(d, s).status = s /\ Marked(d, s).version = d.version + 1
           /\ Marked(d, s).supplier = d.supplier /\ Marked(d, s).site = d.site
           /\ Marked(d, s).items = d.items
<1>1. d.version + 1 \in Nat
  BY DEF Document
<1> QED
  BY <1>1 DEF Marked, Document

LEMMA ContentType == ASSUME NEW d \in Document PROVE Content(d) \in Receipt
<1>1. Included(d) \in SUBSET Lines
  BY DEF Included
<1>2. \A l \in Included(d) : d.items[l].target \in Targets \cup {None}
  BY <1>1 DEF Document, Item
<1>3. [l \in Included(d) |-> d.items[l].target] \in [Included(d) -> Targets \cup {None}]
  BY <1>2
<1>4. [l \in Included(d) |-> d.items[l].target] \in Picks
  BY <1>1, <1>3 DEF Picks
<1> QED
  BY <1>4 DEF Content, Receipt, Document

\* A resolution leaves its document matched as the request says.
LEMMA ResolvedShape ==
    ASSUME TypeOK, NEW j \in Job
    PROVE  /\ Resolved(j) \in Document
           /\ Resolved(j).status \in Waiting
           /\ Resolved(j).version = doc[j.id].version + 1
           /\ \A l \in Lines \ DOMAIN j.picks : Resolved(j).items[l] = doc[j.id].items[l]
<1> DEFINE old == doc[j.id]
           items == [l \in Lines |-> Picked(j, l)]
           new == [old EXCEPT !.supplier = j.supplier, !.site = j.site,
                              !.version = @ + 1, !.items = items]
<1>0. /\ j.id \in Docs /\ j.supplier \in Suppliers \cup {None} /\ j.site \in Sites \cup {None}
      /\ j.picks \in Picks
  BY DEF Job
<1>1. old \in Document /\ old.items \in [Lines -> Item] /\ old.version + 1 \in Nat
  BY <1>0 DEF TypeOK, Document
<1>2. ASSUME NEW l \in Lines PROVE Picked(j, l) \in Item
  <2>1. old.items[l] \in Item
    BY <1>1
  <2> HIDE DEF old
  <2>2. CASE l \notin DOMAIN j.picks
    BY <2>1, <2>2 DEF Picked, old
  <2>3. CASE l \in DOMAIN j.picks /\ j.picks[l] = None
    BY <2>1, <2>3 DEF Picked, old, Item
  <2>4. CASE l \in DOMAIN j.picks /\ j.picks[l] # None
    <3>1. j.picks[l] \in Targets \cup {None}
      BY <1>0, <2>4, PicksType
    <3> QED
      BY <2>1, <2>4, <3>1 DEF Picked, old, Item
  <2> QED
    BY <2>2, <2>3, <2>4
<1>3. items \in [Lines -> Item]
  BY <1>2
<1>4. Resolved(j) = [new EXCEPT !.status = Readiness(new)]
  BY DEF Resolved
<1>5. Readiness(new) \in Statuses /\ Readiness(new) \in Waiting
  BY ReadinessType DEF Statuses, Waiting
<1> HIDE DEF old, items
<1>6. new \in Document /\ new.version = old.version + 1 /\ new.items = items
  BY <1>0, <1>1, <1>3 DEF Document
<1>7. \A l \in Lines \ DOMAIN j.picks : items[l] = old.items[l]
  BY DEF items, Picked, old
<1> HIDE DEF new
<1> QED
  BY <1>4, <1>5, <1>6, <1>7 DEF Document, old

\* What a resolution does to another document.
PropagatedFrom(j, d, old, new) ==
    /\ new \in Document
    /\ old.status \in Protected => new.status = old.status /\ new.version = old.version
    /\ old.status \notin Protected => new.status \in Waiting /\ new.version = old.version + 1
    /\ d \notin j.mapped \/ old.status \in Protected => new.supplier = old.supplier
    /\ new.site = old.site
    /\ \A l \in Lines : /\ new.items[l].use = old.items[l].use
                        /\ <<d, l>> \notin j.fill => new.items[l] = old.items[l]

LEMMA FilledType ==
    ASSUME NEW j \in Job, NEW d \in Docs, NEW items \in [Lines -> Item],
           \A f \in j.fill : \E p \in DOMAIN j.picks : KeyOf[j.id][p] = KeyOf[f[1]][f[2]]
    PROVE  /\ Filled(j, d, items) \in [Lines -> Item]
           /\ \A l \in Lines : /\ Filled(j, d, items)[l].use = items[l].use
                               /\ <<d, l>> \notin j.fill => Filled(j, d, items)[l] = items[l]
<1>1. ASSUME NEW l \in Lines, <<d, l>> \in j.fill
      PROVE  PickFor(j, KeyOf[d][l]) \in Targets \cup {None}
  <2>1. \E p \in DOMAIN j.picks : KeyOf[j.id][p] = KeyOf[d][l]
    BY <1>1
  <2>2. PickFor(j, KeyOf[d][l]) = j.picks[CHOOSE p \in DOMAIN j.picks : KeyOf[j.id][p] = KeyOf[d][l]]
    BY DEF PickFor
  <2>3. (CHOOSE p \in DOMAIN j.picks : KeyOf[j.id][p] = KeyOf[d][l]) \in DOMAIN j.picks
    BY <2>1
  <2>4. j.picks \in Picks
    BY DEF Job
  <2> QED
    BY <2>2, <2>3, <2>4, PicksType
<1>2. ASSUME NEW l \in Lines, <<d, l>> \in j.fill
      PROVE  LET new == [items[l] EXCEPT !.target = PickFor(j, KeyOf[d][l]), !.source = "cached"]
             IN  new \in Item /\ new.use = items[l].use
  BY <1>1, <1>2 DEF Item
<1> QED
  BY <1>2 DEF Filled

LEMMA PropagatedShape ==
    ASSUME TypeOK, NEW j \in Job, NEW d \in Docs, doc[d].status # "absent",
           \A f \in j.fill : \E p \in DOMAIN j.picks : KeyOf[j.id][p] = KeyOf[f[1]][f[2]]
    PROVE  PropagatedFrom(j, d, doc[d], Propagated(j, d))
<1> DEFINE old == doc[d]
           items == Filled(j, d, old.items)
           now == [old EXCEPT !.items = items]
           supplier == IF d \in j.mapped THEN j.supplier ELSE old.supplier
           new == [now EXCEPT !.supplier = supplier, !.version = @ + 1]
           seen == [new EXCEPT !.items = Filled(j, d, j.base[d].items)]
<1>1. old \in Document /\ old.items \in [Lines -> Item] /\ old.version + 1 \in Nat
      /\ j.supplier \in Suppliers \cup {None} /\ supplier \in Suppliers \cup {None}
  BY DEF TypeOK, Document, Job
<1>2. /\ items \in [Lines -> Item]
      /\ \A l \in Lines : /\ items[l].use = old.items[l].use
                          /\ <<d, l>> \notin j.fill => items[l] = old.items[l]
  BY <1>1, FilledType
<1>3. now \in Document /\ now.items = items /\ now.status = old.status
      /\ now.version = old.version /\ now.site = old.site /\ now.supplier = old.supplier
  BY <1>1, <1>2 DEF Document
<1>4. new = [now EXCEPT !.supplier = IF d \in j.mapped THEN j.supplier ELSE @,
                        !.version = @ + 1]
  BY <1>3
<1>5. Propagated(j, d) = IF old.status \in Protected THEN now
                         ELSE [new EXCEPT !.status = Readiness(seen)]
  BY <1>4 DEF Propagated
<1>6. Readiness(seen) \in Statuses /\ Readiness(seen) \in Waiting
  BY ReadinessType DEF Statuses, Waiting
<1> DEFINE status == Readiness(seen)
<1>7. CASE old.status \in Protected
  <2>1. Propagated(j, d) = now
    BY <1>5, <1>7
  <2> HIDE DEF items, now
  <2> QED
    BY <1>2, <1>3, <1>7, <2>1 DEF PropagatedFrom
<1>8. CASE old.status \notin Protected
  <2>1. Propagated(j, d) = [new EXCEPT !.status = status]
    BY <1>5, <1>8
  <2> HIDE DEF status, now
  <2>2. new \in Document /\ new.items = items /\ new.version = old.version + 1
        /\ new.site = old.site /\ new.supplier = supplier
    BY <1>1, <1>3 DEF Document
  <2> HIDE DEF new
  <2>3. Propagated(j, d) \in Document
    BY <1>6, <2>1, <2>2 DEF Document, status
  <2>4. /\ Propagated(j, d).status = status /\ Propagated(j, d).version = old.version + 1
        /\ Propagated(j, d).site = old.site /\ Propagated(j, d).supplier = supplier
        /\ Propagated(j, d).items = items
    BY <2>1, <2>2 DEF Document
  <2>5. status \in Waiting
    BY <1>6 DEF status
  <2> HIDE DEF items
  <2> QED
    BY <1>2, <1>8, <2>3, <2>4, <2>5 DEF PropagatedFrom
<1> QED
  BY <1>7, <1>8

-----------------------------------------------------------------------------
(* The invariant                                                           *)

\* Resolutions whose rows nobody touches keep their locks.
LEMMA LocksKept ==
    ASSUME Inv,
           \A u \in Users : job'[u] \in {job[u], None},
           \A u \in Users : job'[u] # None =>
               /\ view'[u] = view[u]
               /\ \A d \in Rows(job[u]) : doc'[d] = doc[d]
               /\ \A f \in job[u].fill :
                    /\ doc'[f[1]].status # "absent"
                    /\ doc'[f[1]].items[f[2]].target = doc[f[1]].items[f[2]].target
    PROVE  Locks'
<1>1. ASSUME NEW u \in Users, job'[u] # None PROVE JobLocks(u)'
  <2>1. job'[u] = job[u] /\ job[u] # None /\ JobLocks(u)
    BY <1>1 DEF Inv, Locks
  <2>2. job[u].id \in Rows(job[u]) /\ \A d \in job[u].mapped : d \in Rows(job[u])
    BY DEF Rows
  <2> QED
    BY <1>1, <2>1, <2>2 DEF JobLocks
<1>2. ASSUME NEW u \in Users, NEW w \in Users, u # w, job'[u] # None, job'[w] # None
      PROVE  JobsApart(u, w)'
  <2>1. job'[u] = job[u] /\ job'[w] = job[w] /\ JobsApart(u, w)
    BY <1>2 DEF Inv, Locks
  <2> QED
    BY <2>1 DEF JobsApart, Rows
<1> QED
  BY <1>1, <1>2 DEF Locks

\* A transaction that holds the row of one document.
LEMMA OneDocument ==
    ASSUME Inv, NEW id \in Docs, NEW new \in Document,
           doc' = [doc EXCEPT ![id] = new], RowFree(id),
           new.status # "absent", new.version # 0,
           receipt' \in [Docs -> Receipt \cup {None}],
           \A d \in Docs \ {id} : receipt'[d] = receipt[d],
           new.status = "imported" <=> receipt'[id] # None,
           \A l \in Lines : \/ new.items[l].target = doc[id].items[l].target
                            \/ ItemFree(id, l),
           job' = job,
           view' \in [Users -> View \cup {None}],
           \A u \in Users : job[u] # None => view'[u] = view[u],
           UNCHANGED references,
           retry' \in Docs \cup {None},
           requests' \in 0..MaxRequests
    PROVE  Inv'
<1>1. doc' \in [Docs -> Document] /\ doc'[id] = new /\ \A d \in Docs \ {id} : doc'[d] = doc[d]
  BY DEF Inv, TypeOK
<1>2. TypeOK'
  <2>1. \A d \in Docs : /\ doc'[d].status = "absent" <=> doc'[d].version = 0
                        /\ doc'[d].status = "imported" <=> receipt'[d] # None
    BY <1>1 DEF Inv, TypeOK
  <2> QED
    BY <1>1, <2>1 DEF Inv, TypeOK, references
<1>3. ASSUME NEW u \in Users, job[u] # None
      PROVE  /\ \A d \in Rows(job[u]) : doc'[d] = doc[d]
             /\ \A f \in job[u].fill :
                  /\ doc'[f[1]].status # "absent"
                  /\ doc'[f[1]].items[f[2]].target = doc[f[1]].items[f[2]].target
  <2>1. job[u] \in Job /\ JobLocks(u)
    BY <1>3 DEF Inv, TypeOK, Locks
  <2>2. \A d \in Rows(job[u]) : d \in Docs /\ d # id
    BY <1>3, <2>1 DEF Rows, RowFree, Job
  <2>3. ASSUME NEW f \in job[u].fill
        PROVE  /\ doc'[f[1]].status # "absent"
               /\ doc'[f[1]].items[f[2]].target = doc[f[1]].items[f[2]].target
    <3>1. f[1] \in Docs /\ f[2] \in Lines /\ f = <<f[1], f[2]>>
      BY <2>1 DEF Job
    <3>2. CASE f[1] # id
      BY <1>1, <2>1, <3>1, <3>2 DEF JobLocks
    <3>3. CASE f[1] = id
      <4>1. ~ItemFree(id, f[2])
        BY <1>3, <3>1, <3>3 DEF ItemFree
      <4> QED
        BY <1>1, <3>1, <3>3, <4>1
    <3> QED
      BY <3>2, <3>3
  <2> QED
    BY <1>1, <2>2, <2>3
<1>4. Locks'
  BY <1>3, LocksKept DEF Inv, TypeOK
<1> QED
  BY <1>2, <1>4 DEF Inv

LEMMA StageDocumentInv ==
    ASSUME Inv, NEW id \in Docs, StageDocument(id),
           UNCHANGED <<receipt, references, view, job>>,
           retry' \in Docs \cup {None}, requests' \in 0..MaxRequests
    PROVE  Inv'
<1>1. PICK outcome \in {"parsed", "failed"} :
         /\ outcome = "parsed" /\ doc[id].status \notin Protected => \A l \in Lines : ItemFree(id, l)
         /\ doc' = [doc EXCEPT ![id] = Staged(id, outcome)]
  BY DEF StageDocument
<1> DEFINE new == Staged(id, outcome)
<1>2. StagedFrom(doc[id], new, outcome)
  BY StagedShape DEF Inv
<1> HIDE DEF new
<1>3. RowFree(id) /\ doc' = [doc EXCEPT ![id] = new]
  BY <1>1 DEF StageDocument, new
<1>4. doc[id] \in Document /\ new \in Document
  BY <1>2 DEF Inv, TypeOK, StagedFrom
<1>5. /\ new.status # "absent" /\ new.version # 0
      /\ new.status = "imported" <=> receipt'[id] # None
  <2>1. /\ doc[id].status = "absent" <=> doc[id].version = 0
        /\ doc[id].status = "imported" <=> receipt[id] # None
    <3>1. \A d \in Docs : /\ doc[d].status = "absent" <=> doc[d].version = 0
                          /\ doc[d].status = "imported" <=> receipt[d] # None
      BY DEF Inv, TypeOK
    <3> QED
      BY <3>1, Zenon
  <2>2. doc[id].version \in Nat
    BY <1>4 DEF Document
  <2>3. CASE doc[id].status \in Protected
    BY <1>2, <2>1, <2>3 DEF StagedFrom, Protected
  <2>4. CASE doc[id].status \notin Protected
    <3>1. new.status \in Waiting /\ new.version = doc[id].version + 1
      BY <1>2, <2>4 DEF StagedFrom
    <3>2. doc[id].version + 1 # 0
      BY <2>2
    <3> QED
      BY <2>1, <2>4, <3>1, <3>2 DEF Protected, Waiting
  <2> QED
    BY <2>3, <2>4
<1>7. \A l \in Lines : new.items[l].target = doc[id].items[l].target \/ ItemFree(id, l)
  BY <1>1, <1>2 DEF StagedFrom
<1>8. receipt' \in [Docs -> Receipt \cup {None}] /\ view' \in [Users -> View \cup {None}]
  BY DEF Inv, TypeOK
<1> QED
  BY <1>3, <1>4, <1>5, <1>7, <1>8, OneDocument

\* A request that marks the document the user has open.
LEMMA RequestInv ==
    ASSUME Inv, NEW u \in Users, LockCurrent(u), Answer(u),
           NEW new \in Document, doc' = [doc EXCEPT ![view[u].id] = new],
           new.status # "absent", new.version # 0,
           receipt' \in [Docs -> Receipt \cup {None}],
           \A d \in Docs \ {view[u].id} : receipt'[d] = receipt[d],
           new.status = "imported" <=> receipt'[view[u].id] # None,
           \A l \in Lines : new.items[l].target = doc[view[u].id].items[l].target,
           UNCHANGED <<references, job, retry, requests>>
    PROVE  Inv'
<1>1. view[u].id \in Docs /\ RowFree(view[u].id) /\ job[u] = None
  BY DEF LockCurrent, Inv, TypeOK, View
<1>2. view' \in [Users -> View \cup {None}] /\ \A w \in Users \ {u} : view'[w] = view[w]
  BY DEF Answer, Inv, TypeOK
<1>3. \A w \in Users : job[w] # None => view'[w] = view[w]
  BY <1>1, <1>2
<1>4. retry' \in Docs \cup {None} /\ requests' \in 0..MaxRequests /\ job' = job
  BY DEF Inv, TypeOK
<1> QED
  BY <1>1, <1>2, <1>3, <1>4, OneDocument

\* What the user has open is in the buffer.
LEMMA OpenDocument ==
    ASSUME Inv, NEW u \in Users, LockCurrent(u)
    PROVE  /\ view[u].id \in Docs /\ doc[view[u].id] \in Document
           /\ doc[view[u].id].version \in Nat
           /\ doc[view[u].id].items \in [Lines -> Item]
<1>1. view[u].id \in Docs
  BY DEF LockCurrent, Inv, TypeOK, View
<1>2. doc[view[u].id] \in Document
  BY <1>1 DEF Inv, TypeOK
<1> QED
  BY <1>1, <1>2 DEF Document

LEMMA IgnoreInv == ASSUME Inv, NEW u \in Users, Ignore(u) PROVE Inv'
<1> DEFINE id == view[u].id
           new == Marked(doc[id], "ignored")
<1>1. LockCurrent(u) /\ Answer(u) /\ doc[id].status \notin Protected
      /\ UNCHANGED <<receipt, references, job, retry, requests>>
  BY DEF Ignore
<1>2. id \in Docs /\ doc[id] \in Document /\ doc[id].version \in Nat
  BY <1>1, OpenDocument
<1>3. "ignored" \in Statuses
  BY DEF Statuses, Protected
<1>4. new \in Document /\ new.status = "ignored" /\ new.version = doc[id].version + 1
      /\ new.items = doc[id].items
  BY <1>2, <1>3, MarkedType
<1>5. doc' = [doc EXCEPT ![id] = new]
  BY DEF Ignore, Marked
<1>6. receipt \in [Docs -> Receipt \cup {None}] /\ receipt[id] = None
  BY <1>1, <1>2 DEF Inv, TypeOK, Protected
<1>7. new.version # 0
  BY <1>2, <1>4
<1> HIDE DEF new
<1> QED
  BY <1>1, <1>4, <1>5, <1>6, <1>7, RequestInv

LEMMA RestoreInv == ASSUME Inv, NEW u \in Users, Restore(u) PROVE Inv'
<1> DEFINE id == view[u].id
           status == Readiness(doc[id])
           new == Marked(doc[id], status)
<1>1. LockCurrent(u) /\ Answer(u) /\ doc[id].status = "ignored"
      /\ UNCHANGED <<receipt, references, job, retry, requests>>
  BY DEF Restore
<1>2. id \in Docs /\ doc[id] \in Document /\ doc[id].version \in Nat
  BY <1>1, OpenDocument
<1>3. status \in Statuses /\ status \notin {"absent", "imported"}
  BY ReadinessType DEF Statuses, Waiting
<1>4. new \in Document /\ new.status = status /\ new.version = doc[id].version + 1
      /\ new.items = doc[id].items
  BY <1>2, <1>3, MarkedType
<1>5. doc' = [doc EXCEPT ![id] = new]
  BY DEF Restore, Marked
<1>6. receipt \in [Docs -> Receipt \cup {None}] /\ receipt[id] = None
  BY <1>1, <1>2 DEF Inv, TypeOK
<1>7. new.version # 0
  BY <1>2, <1>4
<1> HIDE DEF new, status
<1> QED
  BY <1>1, <1>3, <1>4, <1>5, <1>6, <1>7, RequestInv

LEMMA SetItemUseInv == ASSUME Inv, NEW u \in Users, NEW l \in Lines, SetItemUse(u, l) PROVE Inv'
<1> DEFINE id  == view[u].id
           use == IF doc[id].items[l].use = "included" THEN "excluded" ELSE "included"
           mid == [doc[id] EXCEPT !.items[l].use = use, !.version = @ + 1]
           status == Readiness(mid)
           new == [mid EXCEPT !.status = status]
<1>1. LockCurrent(u) /\ Answer(u) /\ doc[id].status \notin Protected
      /\ UNCHANGED <<receipt, references, job, retry, requests>>
  BY DEF SetItemUse
<1>2. id \in Docs /\ doc[id] \in Document /\ doc[id].version \in Nat
      /\ doc[id].items \in [Lines -> Item]
  BY <1>1, OpenDocument
<1>3. status \in Statuses /\ status \notin {"absent", "imported"}
  BY ReadinessType DEF Statuses, Waiting
<1>4. doc' = [doc EXCEPT ![id] = new]
  BY DEF SetItemUse
<1>5. use \in {"included", "excluded"}
  OBVIOUS
<1> DEFINE items == [doc[id].items EXCEPT ![l] = [@ EXCEPT !.use = use]]
<1>6. items \in [Lines -> Item] /\ \A k \in Lines : items[k].target = doc[id].items[k].target
  <2>1. doc[id].items[l] \in Item
    BY <1>2
  <2>2. LET item == [doc[id].items[l] EXCEPT !.use = use]
        IN  item \in Item /\ item.target = doc[id].items[l].target
    BY <1>5, <2>1 DEF Item
  <2> HIDE DEF use
  <2> QED
    BY <1>2, <2>2
<1>7. mid = [doc[id] EXCEPT !.items = items, !.version = @ + 1]
  BY <1>2 DEF Document
<1>8. mid \in Document /\ mid.items = items /\ mid.version = doc[id].version + 1
  <2> HIDE DEF mid, items
  <2>1. doc[id].version + 1 \in Nat
    BY <1>2
  <2> QED
    BY <1>2, <1>6, <1>7, <2>1 DEF Document
<1>9. new \in Document /\ new.status = status /\ new.items = items
      /\ new.version = doc[id].version + 1
  <2> HIDE DEF mid, items, status
  <2> QED
    BY <1>3, <1>8 DEF Document
<1>10. receipt \in [Docs -> Receipt \cup {None}] /\ receipt[id] = None
  BY <1>1, <1>2 DEF Inv, TypeOK, Protected
<1> HIDE DEF new, status, mid, items
<1>11. new.version # 0
  BY <1>2, <1>9
<1> QED
  BY <1>1, <1>3, <1>4, <1>6, <1>9, <1>10, <1>11, RequestInv

LEMMA ImportInv == ASSUME Inv, NEW u \in Users, Import(u) PROVE Inv'
<1> DEFINE id == view[u].id
           new == Marked(doc[id], "imported")
<1>1. LockCurrent(u) /\ Answer(u) /\ receipt' = [receipt EXCEPT ![id] = Content(doc[id])]
      /\ UNCHANGED <<references, job, retry, requests>>
  BY DEF Import
<1>2. id \in Docs /\ doc[id] \in Document /\ doc[id].version \in Nat
  BY <1>1, OpenDocument
<1>3. "imported" \in Statuses
  BY DEF Statuses, Protected
<1>4. new \in Document /\ new.status = "imported" /\ new.version = doc[id].version + 1
      /\ new.items = doc[id].items
  BY <1>2, <1>3, MarkedType
<1>5. doc' = [doc EXCEPT ![id] = new]
  BY DEF Import, Marked
<1>6. Content(doc[id]) \in Receipt /\ Content(doc[id]) # None
  BY <1>2, ContentType, BufferAssumption
<1>7. /\ receipt' \in [Docs -> Receipt \cup {None}] /\ receipt'[id] # None
      /\ \A d \in Docs \ {id} : receipt'[d] = receipt[d]
  BY <1>1, <1>2, <1>6 DEF Inv, TypeOK
<1>8. new.version # 0
  BY <1>2, <1>4
<1> HIDE DEF new
<1> QED
  BY <1>1, <1>4, <1>5, <1>7, <1>8, RequestInv

LEMMA StageInv == ASSUME Inv, NEW id \in Docs, Stage(id) PROVE Inv'
<1>1. StageDocument(id) /\ UNCHANGED <<receipt, references, view, job>>
  BY DEF Stage
<1>2. retry' \in Docs \cup {None} /\ requests' \in 0..MaxRequests
  BY BufferAssumption DEF Stage, Count, Inv, TypeOK
<1> QED
  BY <1>1, <1>2, StageDocumentInv

LEMMA FinishRetryInv == ASSUME Inv, FinishRetry PROVE Inv'
<1>1. retry \in Docs /\ StageDocument(retry) /\ UNCHANGED <<receipt, references, view, job>>
  BY DEF FinishRetry, Inv, TypeOK
<1>2. retry' \in Docs \cup {None} /\ requests' \in 0..MaxRequests
  BY DEF FinishRetry, Inv, TypeOK
<1> QED
  BY <1>1, <1>2, StageDocumentInv

\* What a replay does to a document.
Replayed(old, new) ==
    \/ new = old
    \/ /\ new \in Document
       /\ old.status \in {"ignored", "failed"}
       /\ new.status \in Waiting
       /\ new.version = old.version + 1
       /\ new.supplier = old.supplier /\ new.site = old.site /\ new.items = old.items

LEMMA ReplayShape ==
    ASSUME TypeOK, NEW from \in Docs, NEW restoreIgnored \in BOOLEAN,
           NEW retryFailed \in BOOLEAN, Replay(from, restoreIgnored, retryFailed)
    PROVE  /\ doc' \in [Docs -> Document]
           /\ \A d \in Docs : /\ Replayed(doc[d], doc'[d])
                              /\ doc'[d] = doc[d] \/ RowFree(d)
<1> DEFINE restored == {d \in Docs : d >= from /\ restoreIgnored /\ doc[d].status = "ignored"}
           retried  == {d \in Docs : d >= from /\ retryFailed /\ doc[d].status = "failed"}
           New(d) == CASE d \in restored -> Marked(doc[d], "needs_matching")
                       [] d \in retried  -> Marked(doc[d], "received")
                       [] OTHER          -> doc[d]
<1>1. \A d \in restored \cup retried : RowFree(d)
  BY DEF Replay
<1>8. doc' = [d \in Docs |-> New(d)]
  BY DEF Replay, Marked
<1>2. \A d \in Docs : /\ d \in restored => doc[d].status = "ignored"
                      /\ d \in retried => doc[d].status = "failed"
  OBVIOUS
<1> HIDE DEF restored, retried
<1>3. "needs_matching" \in Statuses /\ "received" \in Statuses
      /\ "needs_matching" \in Waiting /\ "received" \in Waiting
  BY DEF Statuses, Waiting
<1>4. ASSUME NEW d \in Docs
      PROVE  /\ doc'[d] \in Document /\ Replayed(doc[d], doc'[d])
             /\ doc'[d] = doc[d] \/ RowFree(d)
  <2>1. doc[d] \in Document
    BY DEF TypeOK
  <2>2. CASE d \in restored
    <3>1. doc'[d] = Marked(doc[d], "needs_matching")
      BY <1>2, <1>8, <2>2
    <3>2. doc[d].status = "ignored" /\ RowFree(d)
      BY <1>1, <1>2, <2>2
    <3> QED
      BY <1>3, <2>1, <3>1, <3>2, MarkedType DEF Replayed
  <2>3. CASE d \in retried
    <3>1. doc'[d] = Marked(doc[d], "received")
      BY <1>2, <1>8, <2>3
    <3>2. doc[d].status = "failed" /\ RowFree(d)
      BY <1>1, <1>2, <2>3
    <3> QED
      BY <1>3, <2>1, <3>1, <3>2, MarkedType DEF Replayed
  <2>4. CASE d \notin restored /\ d \notin retried
    BY <1>8, <2>1, <2>4 DEF Replayed
  <2> QED
    BY <2>2, <2>3, <2>4
<1> QED
  BY <1>4, <1>8

LEMMA ReplayInv ==
    ASSUME Inv, NEW from \in Docs, NEW restoreIgnored \in BOOLEAN,
           NEW retryFailed \in BOOLEAN, Replay(from, restoreIgnored, retryFailed)
    PROVE  Inv'
<1>1. /\ doc' \in [Docs -> Document]
      /\ \A d \in Docs : Replayed(doc[d], doc'[d]) /\ (doc'[d] = doc[d] \/ RowFree(d))
  <2>1. TypeOK
    BY DEF Inv
  <2> QED
    BY <2>1, ReplayShape
<1>2. UNCHANGED <<receipt, references, view, job, retry>>
  BY DEF Replay
<1>3. requests' \in 0..MaxRequests
  <2>1. Count
    BY DEF Replay
  <2> QED
    BY <2>1, BufferAssumption DEF Count, Inv, TypeOK
<1>4. ASSUME NEW d \in Docs
      PROVE  /\ doc'[d].status = "absent" <=> doc'[d].version = 0
             /\ doc'[d].status = "imported" <=> receipt'[d] # None
             /\ doc'[d].status = "absent" => doc[d].status = "absent"
  <2>1. /\ doc[d].status = "absent" <=> doc[d].version = 0
        /\ doc[d].status = "imported" <=> receipt[d] # None
    <3>1. \A e \in Docs : /\ doc[e].status = "absent" <=> doc[e].version = 0
                          /\ doc[e].status = "imported" <=> receipt[e] # None
      BY DEF Inv, TypeOK
    <3> QED
      BY <3>1, Zenon
  <2>2. doc[d].version + 1 # 0
    BY DEF Inv, TypeOK, Document
  <2>3. Replayed(doc[d], doc'[d])
    BY <1>1
  <2> QED
    BY <1>2, <2>1, <2>2, <2>3 DEF Replayed, Waiting
<1>5. TypeOK'
  BY <1>1, <1>2, <1>3, <1>4 DEF Inv, TypeOK, references
<1>6. ASSUME NEW u \in Users, job[u] # None
      PROVE  /\ \A d \in Rows(job[u]) : doc'[d] = doc[d]
             /\ \A f \in job[u].fill :
                  /\ doc'[f[1]].status # "absent"
                  /\ doc'[f[1]].items[f[2]].target = doc[f[1]].items[f[2]].target
  <2>1. job[u] \in Job /\ JobLocks(u)
    BY <1>6 DEF Inv, TypeOK, Locks
  <2>2. \A d \in Rows(job[u]) : d \in Docs /\ ~RowFree(d)
    BY <1>6, <2>1 DEF Rows, RowFree, Job
  <2>3. ASSUME NEW f \in job[u].fill
        PROVE  /\ doc'[f[1]].status # "absent"
               /\ doc'[f[1]].items[f[2]].target = doc[f[1]].items[f[2]].target
    <3>1. f[1] \in Docs /\ doc[f[1]].status # "absent"
      BY <2>1 DEF Job, JobLocks
    <3> QED
      BY <1>1, <1>4, <3>1 DEF Replayed
  <2> QED
    BY <1>1, <2>2, <2>3
<1>7. Locks'
  BY <1>2, <1>6, LocksKept DEF Inv, TypeOK
<1> QED
  BY <1>5, <1>7 DEF Inv

LEMMA BeginResolveInv ==
    ASSUME Inv, NEW u \in Users, NEW supplier \in Suppliers, NEW site \in Sites \cup {None},
           NEW picks \in Picks, NEW remember \in SUBSET {"supplier", "materials"},
           BeginResolve(u, supplier, site, picks, remember)
    PROVE  Inv'
<1> DEFINE id == view[u].id
           mapped == IF "supplier" \in remember THEN Mappable(id) ELSE {}
           fill == IF "materials" \in remember
                   THEN Fillable(id, supplier, picks, mapped) ELSE {}
           j == [id |-> id, supplier |-> supplier, site |-> site, picks |-> picks,
                 remember |-> remember, mapped |-> mapped, fill |-> fill, base |-> doc]
<1>1. /\ LockCurrent(u) /\ doc[id].status \notin Protected
      /\ job' = [job EXCEPT ![u] = j]
      /\ UNCHANGED <<doc, receipt, references, view, retry, requests>>
  BY DEF BeginResolve
<1>2. /\ \A p \in DOMAIN picks : ItemFree(id, p)
      /\ \A d \in mapped : RowFree(d)
      /\ \A f \in fill : ItemFree(f[1], f[2])
  BY DEF BeginResolve
<1>3. id \in Docs /\ job[u] = None /\ RowFree(id) /\ view[u] # None
  BY <1>1, OpenDocument DEF LockCurrent
<1>4. \A d \in mapped : /\ d \in Docs /\ d # id
                        /\ doc[d].status \in Waiting /\ doc[d].supplier = None
  BY DEF Mappable
<1>5. \A f \in fill : /\ f \in Docs \X Lines /\ f[1] # id
                      /\ doc[f[1]].status \in Waiting
                      /\ doc[f[1]].items[f[2]].target = None
                      /\ \E p \in DOMAIN picks : KeyOf[id][p] = KeyOf[f[1]][f[2]]
  BY DEF Fillable
<1> HIDE DEF mapped, fill
<1>6. j \in Job
  <2>1. mapped \in SUBSET Docs /\ fill \in SUBSET (Docs \X Lines)
    BY <1>4, <1>5
  <2>2. doc \in [Docs -> Document]
    BY DEF Inv, TypeOK
  <2> QED
    BY <1>3, <2>1, <2>2 DEF Job
<1>7. /\ j.id = id /\ j.mapped = mapped /\ j.fill = fill /\ j.picks = picks
      /\ j # None => job'[u] = j
  BY <1>1 DEF Inv, TypeOK
<1>8. TypeOK'
  <2>1. job' \in [Users -> Job \cup {None}]
    BY <1>1, <1>6 DEF Inv, TypeOK
  <2> QED
    BY <1>1, <2>1 DEF Inv, TypeOK, references
<1>9. job'[u] = j /\ \A w \in Users \ {u} : job'[w] = job[w]
  BY <1>1 DEF Inv, TypeOK
<1> HIDE DEF j, id
<1>10. JobLocks(u)'
  <2>1. \A f \in fill : doc[f[1]].status # "absent"
    BY <1>5 DEF Waiting
  <2> QED
    BY <1>1, <1>3, <1>4, <1>5, <1>7, <1>9, <2>1 DEF JobLocks, id
<1>11. ASSUME NEW w \in Users, w # u, job[w] # None
       PROVE  /\ JobLocks(w)' /\ JobsApart(u, w)' /\ JobsApart(w, u)'
  <2>1. JobLocks(w) /\ job'[w] = job[w] /\ job[w] \in Job
    BY <1>9, <1>11 DEF Inv, Locks, TypeOK
  <2>2. JobLocks(w)'
    BY <1>1, <2>1 DEF JobLocks
  <2>3. \A d \in {id} \cup mapped : d \notin Rows(job[w])
    BY <1>2, <1>3, <1>11 DEF RowFree
  <2>4. Rows(j) = {id} \cup mapped
    BY <1>7 DEF Rows
  <2>5. ASSUME NEW f \in fill
        PROVE  f \notin job[w].fill /\ ~(f[1] = job[w].id /\ f[2] \in DOMAIN job[w].picks)
    <3>1. f = <<f[1], f[2]>> /\ ItemFree(f[1], f[2])
      BY <1>2, <1>5
    <3> QED
      BY <1>11, <3>1 DEF ItemFree
  <2>6. \A p \in DOMAIN picks : <<id, p>> \notin job[w].fill
    BY <1>2, <1>11 DEF ItemFree
  <2>7. \A p \in DOMAIN job[w].picks : <<job[w].id, p>> \notin fill
    BY <2>5
  <2>8. Rows(j) \cap Rows(job[w]) = {} /\ fill \cap job[w].fill = {}
    BY <2>3, <2>4, <2>5
  <2>9. Rows(job'[u]) = Rows(j) /\ Rows(job'[w]) = Rows(job[w])
    BY <1>9, <2>1
  <2> QED
    BY <1>7, <1>9, <2>1, <2>2, <2>6, <2>7, <2>8, <2>9 DEF JobsApart, Rows
<1>12. ASSUME NEW v \in Users, NEW w \in Users, v # w, job'[v] # None, job'[w] # None
       PROVE  JobsApart(v, w)'
  <2>1. CASE v = u \/ w = u
    BY <1>9, <1>11, <1>12, <2>1
  <2>2. CASE v # u /\ w # u
    <3>1. job'[v] = job[v] /\ job'[w] = job[w] /\ JobsApart(v, w)
      BY <1>9, <1>12, <2>2 DEF Inv, Locks
    <3> QED
      BY <3>1 DEF JobsApart, Rows
  <2> QED
    BY <2>1, <2>2
<1>13. \A w \in Users : job'[w] # None => JobLocks(w)'
  BY <1>9, <1>10, <1>11
<1>14. Locks'
  BY <1>12, <1>13 DEF Locks
<1> QED
  BY <1>8, <1>14 DEF Inv

\* The documents that a resolution writes, and those it does not.
LEMMA CommitShape ==
    ASSUME Inv, NEW u \in Users, CommitResolve(u)
    PROVE  /\ job[u] # None /\ job[u] \in Job /\ JobLocks(u)
           /\ \A d \in Docs :
                \/ d = job[u].id /\ doc'[d] = Resolved(job[u])
                \/ /\ d # job[u].id /\ d \in job[u].mapped \cup FilledDocs(job[u])
                   /\ doc[d].status # "absent"
                   /\ PropagatedFrom(job[u], d, doc[d], doc'[d])
                \/ d \notin Rows(job[u]) \cup FilledDocs(job[u]) /\ doc'[d] = doc[d]
           /\ \A d \in Docs : doc'[d] \in Document
           /\ doc' \in [Docs -> Document]
<1> DEFINE j == job[u]
           New(d) == CASE d = j.id -> Resolved(j)
                       [] d # j.id /\ d \in j.mapped \cup FilledDocs(j) -> Propagated(j, d)
                       [] OTHER -> doc[d]
<1>1. j # None /\ j \in Job /\ JobLocks(u)
  BY DEF CommitResolve, Inv, TypeOK, Locks
<1>2. doc' = [d \in Docs |-> New(d)]
  BY DEF CommitResolve
<1>3. \A f \in j.fill : doc[f[1]].status # "absent"
                        /\ \E p \in DOMAIN j.picks : KeyOf[j.id][p] = KeyOf[f[1]][f[2]]
  BY <1>1 DEF JobLocks
<1>4. \A d \in j.mapped : doc[d].status # "absent"
  BY <1>1 DEF JobLocks, Waiting
<1>5. Resolved(j) \in Document
  BY <1>1, ResolvedShape DEF Inv
<1>6. \A d \in Docs : doc'[d] = New(d) /\ doc[d] \in Document
  BY <1>2 DEF Inv, TypeOK
<1> HIDE DEF j
<1>7. ASSUME NEW d \in Docs, d # j.id, d \in j.mapped \cup FilledDocs(j)
      PROVE  doc'[d] = Propagated(j, d) /\ doc[d].status # "absent"
             /\ PropagatedFrom(j, d, doc[d], Propagated(j, d))
  <2>1. doc[d].status # "absent"
    BY <1>3, <1>4, <1>7 DEF FilledDocs
  <2> QED
    BY <1>1, <1>3, <1>6, <1>7, <2>1, PropagatedShape DEF Inv
<1>8. \A d \in Docs : d = j.id => doc'[d] = Resolved(j)
  BY <1>6
<1>9. \A d \in Docs : d \notin Rows(j) \cup FilledDocs(j) => doc'[d] = doc[d]
  BY <1>6 DEF Rows
<1> HIDE DEF New
<1>10. \A d \in Docs : doc'[d] \in Document
  BY <1>5, <1>6, <1>7, <1>8, <1>9 DEF PropagatedFrom, Rows
<1> QED
  BY <1>1, <1>2, <1>7, <1>8, <1>9, <1>10 DEF j, Rows

LEMMA CommitResolveInv == ASSUME Inv, NEW u \in Users, CommitResolve(u) PROVE Inv'
<1> DEFINE j == job[u]
<1>1. /\ j # None /\ j \in Job /\ JobLocks(u)
      /\ doc' \in [Docs -> Document]
      /\ \A d \in Docs :
           \/ d = j.id /\ doc'[d] = Resolved(j)
           \/ /\ d # j.id /\ d \in j.mapped \cup FilledDocs(j)
              /\ doc[d].status # "absent"
              /\ PropagatedFrom(j, d, doc[d], doc'[d])
           \/ d \notin Rows(j) \cup FilledDocs(j) /\ doc'[d] = doc[d]
  BY CommitShape
<1>2. /\ job' = [job EXCEPT ![u] = None] /\ view' = [view EXCEPT ![u] = None]
      /\ UNCHANGED <<receipt, active, retry, requests>>
      /\ \A w \in Users \ {u} : job[w] # None => FilledDocs(j) \cap Rows(job[w]) = {}
  BY DEF CommitResolve, Answer
<1>3. /\ Resolved(j) \in Document /\ Resolved(j).status \in Waiting
      /\ Resolved(j).version = doc[j.id].version + 1
      /\ \A l \in Lines \ DOMAIN j.picks : Resolved(j).items[l] = doc[j.id].items[l]
  BY <1>1, ResolvedShape DEF Inv
<1>4. doc[j.id].status \notin Protected
  BY <1>1 DEF JobLocks
<1>5. supplierMatch' \in [Senders -> Suppliers \cup {None}]
  BY <1>1, BufferAssumption DEF CommitResolve, Inv, TypeOK, Job
<1>6. materialMatch' \in [Suppliers -> [Keys -> Targets \cup {None}]]
  <2>1. ASSUME NEW k \in Keys, NEW p \in DOMAIN j.picks, KeyOf[j.id][p] = k
        PROVE  PickFor(j, k) \in Targets \cup {None}
    <3>1. (CHOOSE q \in DOMAIN j.picks : KeyOf[j.id][q] = k) \in DOMAIN j.picks
      BY <2>1
    <3>2. j.picks \in Picks
      BY <1>1 DEF Job
    <3> QED
      BY <3>1, <3>2, PicksType DEF PickFor
  <2>2. j.supplier \in Suppliers
    BY <1>1 DEF Job
  <2> DEFINE remembered == [k \in Keys |->
               IF \E p \in DOMAIN j.picks : KeyOf[j.id][p] = k /\ j.picks[p] # None
               THEN PickFor(j, k) ELSE materialMatch[j.supplier][k]]
  <2>3. materialMatch \in [Suppliers -> [Keys -> Targets \cup {None}]]
    BY DEF Inv, TypeOK
  <2>4. remembered \in [Keys -> Targets \cup {None}]
    BY <2>1, <2>2, <2>3
  <2>5. \/ materialMatch' = [materialMatch EXCEPT ![j.supplier] = remembered]
        \/ materialMatch' = materialMatch
    BY DEF CommitResolve
  <2> HIDE DEF remembered, j
  <2> QED
    BY <2>2, <2>3, <2>4, <2>5
<1> HIDE DEF j
<1>7. ASSUME NEW d \in Docs
      PROVE  /\ doc'[d].status = "absent" <=> doc'[d].version = 0
             /\ doc'[d].status = "imported" <=> receipt'[d] # None
             /\ doc'[d].status = "absent" => doc[d].status = "absent"
  <2>1. /\ doc[d].status = "absent" <=> doc[d].version = 0
        /\ doc[d].status = "imported" <=> receipt[d] # None
    BY DEF Inv, TypeOK
  <2>2. doc[d].version + 1 # 0
    BY DEF Inv, TypeOK, Document
  <2>3. CASE d = j.id /\ doc'[d] = Resolved(j)
    BY <1>2, <1>3, <1>4, <2>1, <2>2, <2>3 DEF Protected, Waiting
  <2>4. CASE doc[d].status # "absent" /\ PropagatedFrom(j, d, doc[d], doc'[d])
    <3>1. CASE doc[d].status \in Protected
      BY <1>2, <2>1, <2>4, <3>1 DEF PropagatedFrom
    <3>2. CASE doc[d].status \notin Protected
      BY <1>2, <2>1, <2>2, <2>4, <3>2 DEF PropagatedFrom, Protected, Waiting
    <3> QED
      BY <3>1, <3>2
  <2>5. CASE doc'[d] = doc[d]
    BY <1>2, <2>1, <2>5
  <2> QED
    BY <1>1, <2>3, <2>4, <2>5
<1>8. TypeOK'
  <2>1. job' \in [Users -> Job \cup {None}] /\ view' \in [Users -> View \cup {None}]
    BY <1>2 DEF Inv, TypeOK
  <2> QED
    BY <1>1, <1>2, <1>5, <1>6, <1>7, <2>1 DEF Inv, TypeOK
<1>9. \A w \in Users : job'[w] \in {job[w], None}
  BY <1>2 DEF Inv, TypeOK
<1>10. ASSUME NEW w \in Users, job'[w] # None
       PROVE  /\ view'[w] = view[w]
              /\ \A d \in Rows(job[w]) : doc'[d] = doc[d]
              /\ \A f \in job[w].fill :
                   /\ doc'[f[1]].status # "absent"
                   /\ doc'[f[1]].items[f[2]].target = doc[f[1]].items[f[2]].target
  <2>1. w # u /\ job[w] # None /\ view'[w] = view[w]
    BY <1>2, <1>10 DEF Inv, TypeOK
  <2>2. job[w] \in Job /\ JobLocks(w) /\ JobsApart(u, w) /\ JobsApart(w, u)
    BY <1>1, <2>1 DEF Inv, Locks, TypeOK, j
  <2>3. \A d \in Rows(job[w]) : d \in Docs /\ d \notin Rows(j) \cup FilledDocs(j)
    BY <1>2, <2>1, <2>2 DEF Rows, JobsApart, Job, j
  <2>4. \A d \in Rows(job[w]) : doc'[d] = doc[d]
    BY <1>1, <2>3 DEF Rows
  <2>5. ASSUME NEW f \in job[w].fill
        PROVE  /\ doc'[f[1]].status # "absent"
               /\ doc'[f[1]].items[f[2]].target = doc[f[1]].items[f[2]].target
    <3>1. f[1] \in Docs /\ f[2] \in Lines /\ f = <<f[1], f[2]>> /\ doc[f[1]].status # "absent"
      BY <2>2 DEF Job, JobLocks
    <3>2. f \notin j.fill /\ ~(f[1] = j.id /\ f[2] \in DOMAIN j.picks)
      BY <2>2, <3>1 DEF JobsApart, j
    <3>3. CASE f[1] = j.id /\ doc'[f[1]] = Resolved(j)
      BY <1>3, <1>7, <3>1, <3>2, <3>3
    <3>4. CASE PropagatedFrom(j, f[1], doc[f[1]], doc'[f[1]])
      BY <1>7, <3>1, <3>2, <3>4 DEF PropagatedFrom
    <3>5. CASE doc'[f[1]] = doc[f[1]]
      BY <3>1, <3>5
    <3> QED
      BY <1>1, <3>1, <3>3, <3>4, <3>5
  <2> QED
    BY <2>1, <2>4, <2>5
<1>11. Locks'
  BY <1>9, <1>10, LocksKept
<1> QED
  BY <1>8, <1>11 DEF Inv

\* Steps that leave the documents alone.
LEMMA QuietInv ==
    ASSUME Inv, UNCHANGED <<doc, receipt, supplierMatch, materialMatch>>,
           active' \subseteq References,
           view' \in [Users -> View \cup {None}],
           job' \in [Users -> Job \cup {None}],
           \A u \in Users : job'[u] \in {job[u], None},
           \A u \in Users : job'[u] # None => view'[u] = view[u],
           retry' \in Docs \cup {None}, requests' \in 0..MaxRequests
    PROVE  Inv'
<1>1. TypeOK'
  BY DEF Inv, TypeOK
<1>2. ASSUME NEW u \in Users, job'[u] # None, NEW f \in job[u].fill
      PROVE  doc'[f[1]].status # "absent"
  BY <1>2 DEF Inv, Locks, JobLocks
<1>3. Locks'
  BY <1>2, LocksKept
<1> QED
  BY <1>1, <1>3 DEF Inv

LEMMA OpenInv == ASSUME Inv, NEW u \in Users, NEW d \in Docs, Open(u, d) PROVE Inv'
<1>1. doc[d] \in Document
  BY DEF Inv, TypeOK
<1>2. view' \in [Users -> View \cup {None}]
  BY <1>1 DEF Open, Inv, TypeOK, View
<1>3. \A w \in Users : job[w] # None => view'[w] = view[w]
  BY DEF Open, Inv, TypeOK
<1>4. requests' \in 0..MaxRequests
  BY BufferAssumption DEF Open, Count, Inv, TypeOK
<1>5. UNCHANGED <<doc, receipt, references, job, retry>>
  BY DEF Open
<1> QED
  BY <1>2, <1>3, <1>4, <1>5, QuietInv DEF Inv, TypeOK, references

LEMMA BeginRetryInv == ASSUME Inv, NEW u \in Users, BeginRetry(u) PROVE Inv'
<1>1. view[u] # None /\ job[u] = None /\ retry' = view[u].id
      /\ UNCHANGED <<doc, receipt, references, job, requests>>
  BY DEF BeginRetry
<1>2. view' \in [Users -> View \cup {None}] /\ \A w \in Users \ {u} : view'[w] = view[w]
  BY DEF BeginRetry, Answer, Inv, TypeOK
<1>3. retry' \in Docs \cup {None}
  BY <1>1 DEF Inv, TypeOK, View
<1>4. \A w \in Users : job[w] # None => view'[w] = view[w]
  BY <1>1, <1>2
<1> QED
  BY <1>1, <1>2, <1>3, <1>4, QuietInv DEF Inv, TypeOK, references

LEMMA AbortResolveInv == ASSUME Inv, NEW u \in Users, AbortResolve(u) PROVE Inv'
<1>1. UNCHANGED <<doc, receipt, references, retry, requests>>
  BY DEF AbortResolve
<1>2. job' = [job EXCEPT ![u] = None] /\ view' = [view EXCEPT ![u] = None]
  BY DEF AbortResolve, Answer
<1>3. /\ job' \in [Users -> Job \cup {None}] /\ view' \in [Users -> View \cup {None}]
      /\ \A w \in Users : /\ job'[w] \in {job[w], None}
                          /\ job'[w] # None => view'[w] = view[w]
  BY <1>2 DEF Inv, TypeOK
<1> QED
  BY <1>1, <1>3, QuietInv DEF Inv, TypeOK, references

LEMMA LoseRetryInv == ASSUME Inv, LoseRetry PROVE Inv'
BY QuietInv DEF LoseRetry, Inv, TypeOK, references

LEMMA ToggleActiveInv == ASSUME Inv, NEW r \in Volatile, ToggleActive(r) PROVE Inv'
<1>1. active' \subseteq References
  BY BufferAssumption DEF ToggleActive, Inv, TypeOK, References
<1>2. requests' \in 0..MaxRequests
  BY BufferAssumption DEF ToggleActive, Count, Inv, TypeOK
<1>3. UNCHANGED <<doc, receipt, supplierMatch, materialMatch, view, job, retry>>
  BY DEF ToggleActive
<1> QED
  BY <1>1, <1>2, <1>3, QuietInv DEF Inv, TypeOK

LEMMA StutterInv == ASSUME Inv, UNCHANGED vars PROVE Inv'
BY QuietInv DEF vars, Inv, TypeOK

LEMMA InitInv == Init => Inv
<1> SUFFICES ASSUME Init PROVE Inv
  OBVIOUS
<1>1. Absent \in Document /\ Absent.status = "absent" /\ Absent.version = 0
  BY AbsentType
<1>2. doc = [d \in Docs |-> Absent] /\ receipt = [d \in Docs |-> None]
  BY DEF Init
<1>3. \A d \in Docs : /\ doc[d].status = "absent" <=> doc[d].version = 0
                      /\ doc[d].status = "imported" <=> receipt[d] # None
  BY <1>1, <1>2
<1>4. TypeOK
  BY <1>1, <1>2, <1>3, BufferAssumption DEF Init, TypeOK
<1>5. Locks
  BY DEF Init, Locks
<1> QED
  BY <1>4, <1>5 DEF Inv

LEMMA UserStepInv == ASSUME Inv, NEW u \in Users, UserStep(u) PROVE Inv'
<1>1. CASE \E d \in Docs : Open(u, d)
  BY <1>1, OpenInv
<1>2. CASE Ignore(u)
  BY <1>2, IgnoreInv
<1>3. CASE Restore(u)
  BY <1>3, RestoreInv
<1>4. CASE \E l \in Lines : SetItemUse(u, l)
  BY <1>4, SetItemUseInv
<1>5. CASE Import(u)
  BY <1>5, ImportInv
<1>6. CASE BeginRetry(u)
  BY <1>6, BeginRetryInv
<1>7. ASSUME NEW r \in Resolutions, BeginResolve(u, r.supplier, r.site, r.picks, r.remember)
      PROVE  Inv'
  <2>1. /\ r.supplier \in Suppliers /\ r.site \in Sites \cup {None} /\ r.picks \in Picks
        /\ r.remember \in SUBSET {"supplier", "materials"}
    BY BufferAssumption
  <2> QED
    BY <1>7, <2>1, BeginResolveInv
<1>8. CASE CommitResolve(u)
  BY <1>8, CommitResolveInv
<1>9. CASE AbortResolve(u)
  BY <1>9, AbortResolveInv
<1> QED
  BY <1>1, <1>2, <1>3, <1>4, <1>5, <1>6, <1>7, <1>8, <1>9 DEF UserStep

LEMMA NextInv == Inv /\ [Next]_vars => Inv'
<1> SUFFICES ASSUME Inv, [Next]_vars PROVE Inv'
  OBVIOUS
<1>1. CASE \E d \in Docs : Stage(d)
  BY <1>1, StageInv
<1>2. ASSUME NEW from \in Docs, NEW restoreIgnored \in BOOLEAN, NEW retryFailed \in BOOLEAN,
             Replay(from, restoreIgnored, retryFailed)
      PROVE  Inv'
  BY <1>2, ReplayInv
<1>3. CASE FinishRetry
  BY <1>3, FinishRetryInv
<1>4. CASE LoseRetry
  BY <1>4, LoseRetryInv
<1>5. CASE \E u \in Users : UserStep(u)
  BY <1>5, UserStepInv
<1>6. CASE \E r \in Volatile : ToggleActive(r)
  BY <1>6, ToggleActiveInv
<1>7. CASE Done \/ UNCHANGED vars
  BY <1>7, StutterInv DEF Done
<1> QED
  BY <1>1, <1>2, <1>3, <1>4, <1>5, <1>6, <1>7 DEF Next

\* Documents, receipts, matches, resolutions and what users see are what they
\* should be, and a document is imported exactly if it has a receipt.
THEOREM TypeInvariant == Spec => []TypeOK
<1>1. Inv => TypeOK
  BY DEF Inv
<1> QED
  BY <1>1, InitInv, NextInv, PTL DEF Spec

-----------------------------------------------------------------------------
(* Versions                                                                *)

\* A document changes together with its version, unless it stays ignored or
\* imported.
Forward(old, new) ==
    \/ new = old
    \/ new.version = old.version + 1
    \/ old.status \in Protected /\ new.status = old.status /\ new.version = old.version

LEMMA StageForward ==
    ASSUME Inv, NEW id \in Docs, StageDocument(id)
    PROVE  \A d \in Docs : Forward(doc[d], doc'[d])
<1>1. PICK outcome \in {"parsed", "failed"} : doc' = [doc EXCEPT ![id] = Staged(id, outcome)]
  BY DEF StageDocument
<1>2. doc'[id] = Staged(id, outcome) /\ \A d \in Docs \ {id} : doc'[d] = doc[d]
  BY <1>1 DEF Inv, TypeOK
<1>3. StagedFrom(doc[id], Staged(id, outcome), outcome)
  BY StagedShape DEF Inv
<1>4. Forward(doc[id], doc'[id])
  BY <1>2, <1>3 DEF StagedFrom, Forward
<1> QED
  BY <1>2, <1>4 DEF Forward

\* A request that writes the document the user has open.
LEMMA RequestForward ==
    ASSUME Inv, NEW id \in Docs, NEW new, doc' = [doc EXCEPT ![id] = new],
           new.version = doc[id].version + 1
    PROVE  \A d \in Docs : Forward(doc[d], doc'[d])
BY DEF Inv, TypeOK, Forward

LEMMA UserForward ==
    ASSUME Inv, NEW u \in Users, UserStep(u)
    PROVE  \A d \in Docs : Forward(doc[d], doc'[d])
<1> DEFINE id == view[u].id
<1>1. CASE LockCurrent(u) /\ \E s \in Statuses : doc' = [doc EXCEPT ![id] = Marked(doc[id], s)]
  BY <1>1, OpenDocument, MarkedType, RequestForward
<1>2. ASSUME NEW l \in Lines, SetItemUse(u, l) PROVE \A d \in Docs : Forward(doc[d], doc'[d])
  <2> DEFINE mid(use) == [doc[id] EXCEPT !.items[l].use = use, !.version = @ + 1]
             new(use) == [mid(use) EXCEPT !.status = Readiness(mid(use))]
  <2>1. LockCurrent(u) /\ \E use \in {"included", "excluded"} : doc' = [doc EXCEPT ![id] = new(use)]
    BY <1>2 DEF SetItemUse
  <2>2. id \in Docs /\ doc[id] \in Document
    BY <2>1, OpenDocument
  <2>3. \A use : mid(use).version = doc[id].version + 1
    BY <2>2 DEF Document
  <2>4. \A use : new(use).version = mid(use).version
    <3>1. \A use : "version" \in DOMAIN mid(use)
      BY <2>2 DEF Document
    <3> HIDE DEF mid
    <3> QED
      BY <3>1
  <2> HIDE DEF mid, new
  <2> QED
    BY <2>1, <2>2, <2>3, <2>4, RequestForward
<1>3. CASE CommitResolve(u)
  <2>1. \A d \in Docs : \/ d = job[u].id /\ doc'[d] = Resolved(job[u])
                        \/ PropagatedFrom(job[u], d, doc[d], doc'[d])
                        \/ doc'[d] = doc[d]
    BY <1>3, CommitShape
  <2>2. job[u] \in Job
    BY <1>3, CommitShape
  <2>3. Resolved(job[u]).version = doc[job[u].id].version + 1
    BY <2>2, ResolvedShape DEF Inv
  <2> QED
    BY <2>1, <2>3 DEF Forward, PropagatedFrom
<1>4. CASE doc' = doc
  BY <1>4 DEF Forward
<1>5. CASE Ignore(u) \/ Restore(u) \/ Import(u)
  <2>1. "ignored" \in Statuses /\ "imported" \in Statuses /\ Readiness(doc[id]) \in Statuses
    BY ReadinessType DEF Statuses, Protected, Waiting
  <2> QED
    BY <1>1, <1>5, <2>1 DEF Ignore, Restore, Import, Marked
<1> QED
  BY <1>2, <1>3, <1>4, <1>5 DEF UserStep, Open, BeginRetry, BeginResolve, AbortResolve

LEMMA StepForward ==
    ASSUME Inv, [Next]_vars
    PROVE  \A d \in Docs : Forward(doc[d], doc'[d])
<1>1. CASE \E d \in Docs : Stage(d)
  BY <1>1, StageForward DEF Stage
<1>2. ASSUME NEW from \in Docs, NEW restoreIgnored \in BOOLEAN, NEW retryFailed \in BOOLEAN,
             Replay(from, restoreIgnored, retryFailed)
      PROVE  \A d \in Docs : Forward(doc[d], doc'[d])
  <2>1. \A d \in Docs : Replayed(doc[d], doc'[d])
    BY <1>2, ReplayShape DEF Inv
  <2> QED
    BY <2>1 DEF Replayed, Forward
<1>3. CASE FinishRetry
  BY <1>3, StageForward DEF FinishRetry, Inv, TypeOK
<1>4. CASE \E u \in Users : UserStep(u)
  BY <1>4, UserForward
<1>5. CASE doc' = doc
  BY <1>5 DEF Forward
<1> QED
  BY <1>1, <1>2, <1>3, <1>4, <1>5 DEF Next, LoseRetry, ToggleActive, Done, vars

LEMMA ViewStep ==
    ASSUME Inv, [Next]_vars, NEW u \in Users
    PROVE  \/ view'[u] \in {view[u], None}
           \/ doc' = doc /\ \E d \in Docs : /\ doc[d].status # "absent"
                                            /\ view'[u] = [id |-> d, doc |-> doc[d]]
<1>0. view \in [Users -> View \cup {None}]
  BY DEF Inv, TypeOK
<1>1. CASE view' = view
  BY <1>1
<1>2. CASE \E w \in Users : view' = [view EXCEPT ![w] = None]
  BY <1>0, <1>2
<1>3. CASE \E w \in Users, d \in Docs : Open(w, d)
  BY <1>0, <1>3 DEF Open
<1>4. ASSUME NEW w \in Users, UserStep(w)
      PROVE  \/ view' = view \/ view' = [view EXCEPT ![w] = None]
             \/ \E d \in Docs : Open(w, d)
  BY <1>4 DEF UserStep, Ignore, Restore, SetItemUse, Import, BeginRetry, BeginResolve,
              CommitResolve, AbortResolve, Answer
<1>5. CASE \E w \in Users : UserStep(w)
  BY <1>1, <1>2, <1>3, <1>4, <1>5
<1>6. CASE ~ \E w \in Users : UserStep(w)
  BY <1>1, <1>6 DEF Next, Stage, Replay, FinishRetry, LoseRetry, ToggleActive, Done, vars
<1> QED
  BY <1>5, <1>6

LEMMA ViewsNext == ASSUME Inv, ViewsBehind, [Next]_vars PROVE ViewsBehind'
<1> SUFFICES ASSUME NEW u \in Users, view'[u] # None
             PROVE  LET d == view'[u].id
                    IN  /\ view'[u].doc.version # 0
                        /\ view'[u].doc.version <= doc'[d].version
                        /\ view'[u].doc.version = doc'[d].version /\ doc'[d].status \notin Protected
                             => view'[u].doc = doc'[d]
  BY DEF ViewsBehind
<1>1. CASE view'[u] = view[u]
  <2> DEFINE d == view[u].id
  <2>1. d \in Docs /\ view[u].doc \in Document
    BY <1>1 DEF Inv, TypeOK, View
  <2>2. doc[d] \in Document /\ doc[d].version \in Nat /\ view[u].doc.version \in Nat
    BY <2>1 DEF Inv, TypeOK, Document
  <2>3. /\ view[u].doc.version # 0
        /\ view[u].doc.version <= doc[d].version
        /\ view[u].doc.version = doc[d].version /\ doc[d].status \notin Protected
             => view[u].doc = doc[d]
    BY <1>1 DEF ViewsBehind
  <2>4. Forward(doc[d], doc'[d])
    BY <2>1, StepForward
  <2> HIDE DEF d
  <2>5. CASE doc'[d] = doc[d]
    BY <1>1, <2>3, <2>5 DEF d
  <2>6. CASE doc'[d].version = doc[d].version + 1
    BY <1>1, <2>2, <2>3, <2>6 DEF d
  <2>7. CASE doc[d].status \in Protected /\ doc'[d].status = doc[d].status
             /\ doc'[d].version = doc[d].version
    BY <1>1, <2>3, <2>7 DEF d
  <2> QED
    BY <2>4, <2>5, <2>6, <2>7 DEF Forward
<1>2. ASSUME NEW d \in Docs, doc' = doc, doc[d].status # "absent",
             view'[u] = [id |-> d, doc |-> doc[d]]
      PROVE  view'[u].id = d /\ view'[u].doc = doc'[d] /\ doc'[d].version # 0
             /\ doc'[d].version <= doc'[d].version
  <2>1. doc[d].version # 0 /\ doc[d].version \in Nat
    BY <1>2 DEF Inv, TypeOK, Document
  <2> QED
    BY <1>2, <2>1
<1> QED
  BY <1>1, <1>2, ViewStep

LEMMA InvAndViews == Spec => [](Inv /\ ViewsBehind)
<1>1. Init => ViewsBehind
  BY DEF Init, ViewsBehind
<1>2. Inv /\ ViewsBehind /\ [Next]_vars => ViewsBehind'
  BY ViewsNext
<1> QED
  BY <1>1, <1>2, InitInv, NextInv, PTL DEF Spec

-----------------------------------------------------------------------------
(* The properties                                                          *)

LEMMA ReceiptStep ==
    ASSUME Inv, [Next]_vars, NEW d \in Docs, receipt'[d] # receipt[d]
    PROVE  \E u \in Users : Import(u) /\ view[u].id = d /\ receipt'[d] = Content(doc[d])
<1>1. PICK u \in Users : Import(u)
  BY DEF Next, Stage, Replay, FinishRetry, LoseRetry, ToggleActive, Done, vars, UserStep,
         Open, Ignore, Restore, SetItemUse, BeginRetry, BeginResolve, CommitResolve,
         AbortResolve
<1>2. receipt' = [receipt EXCEPT ![view[u].id] = Content(doc[view[u].id])]
  BY <1>1 DEF Import
<1> QED
  BY <1>1, <1>2 DEF Inv, TypeOK

\* What is imported is what the user was shown.  The argument: every step that
\* changes a document that is not imported changes its version, so equal
\* versions mean that the view is not behind.
THEOREM ImportsSeen == Spec => ImportsWhatWasSeen
<1>1. ASSUME Inv, ViewsBehind, [Next]_vars, NEW d \in Docs, receipt'[d] # receipt[d]
      PROVE  \E u \in Users : /\ view[u] # None /\ view[u].id = d /\ view'[u] = None
                              /\ receipt'[d] = Content(view[u].doc)
  <2>1. PICK u \in Users : Import(u) /\ view[u].id = d /\ receipt'[d] = Content(doc[d])
    BY <1>1, ReceiptStep
  <2>2. view[u] # None /\ doc[d].version = view[u].doc.version /\ doc[d].status = "ready"
        /\ view'[u] = None
    BY <1>1, <2>1 DEF Import, LockCurrent, Answer, Inv, TypeOK
  <2>3. view[u].doc = doc[d]
    BY <1>1, <2>1, <2>2 DEF ViewsBehind, Protected
  <2> QED
    BY <2>1, <2>2, <2>3
<1>2. Inv /\ ViewsBehind /\ [Next]_vars =>
        [\A d \in Docs : receipt'[d] # receipt[d] =>
           \E u \in Users : /\ view[u] # None /\ view[u].id = d /\ view'[u] = None
                            /\ receipt'[d] = Content(view[u].doc)]_vars
  BY <1>1
<1> QED
  BY <1>2, InvAndViews, PTL DEF Spec, ImportsWhatWasSeen

\* Receipts are complete because Import looks at supplier, site, lines and
\* quantities itself.
THEOREM CompleteReceipts == Spec => []ReceiptsComplete
<1>1. Init => ReceiptsComplete
  BY DEF Init, ReceiptsComplete
<1>2. ASSUME Inv, ReceiptsComplete, [Next]_vars PROVE ReceiptsComplete'
  <2> SUFFICES ASSUME NEW d \in Docs, receipt'[d] # None, receipt'[d] # receipt[d]
               PROVE  /\ receipt'[d].supplier # None
                      /\ receipt'[d].site # None
                      /\ DOMAIN receipt'[d].targets # {}
                      /\ \A l \in DOMAIN receipt'[d].targets :
                            receipt'[d].targets[l] \in Targets \ Vanishing
    BY <1>2 DEF ReceiptsComplete
  <2>1. PICK u \in Users : Import(u) /\ view[u].id = d /\ receipt'[d] = Content(doc[d])
    BY <1>2, ReceiptStep
  <2>2. Complete(doc[d])
    BY <2>1 DEF Import
  <2>3. active \subseteq References /\ None \notin References
    BY <1>2, BufferAssumption DEF Inv, TypeOK, References
  <2>4. /\ receipt'[d].supplier = doc[d].supplier /\ receipt'[d].site = doc[d].site
        /\ DOMAIN receipt'[d].targets = Included(doc[d])
        /\ \A l \in Included(doc[d]) : receipt'[d].targets[l] = doc[d].items[l].target
    BY <2>1 DEF Content
  <2>5. \A l \in Included(doc[d]) : doc[d].items[l].target \in Targets \cup {None}
    BY <1>2 DEF Included, Inv, TypeOK, Document, Item
  <2> QED
    BY <2>2, <2>3, <2>4, <2>5 DEF Complete, StagedReady
<1> QED
  BY <1>1, <1>2, InvAndViews, PTL DEF Spec

\* What ChoicesStand says of one document.
Kept(old, new) ==
    /\ old.supplier # None => new.supplier = old.supplier
    /\ new.site = old.site
    /\ \A l \in Lines :
         /\ new.items[l].use = old.items[l].use
         /\ old.items[l].target # None => new.items[l].target = old.items[l].target

LEMMA StageKeeps ==
    ASSUME Inv, NEW id \in Docs, StageDocument(id)
    PROVE  \A d \in Docs : Kept(doc[d], doc'[d])
<1>1. PICK outcome \in {"parsed", "failed"} : doc' = [doc EXCEPT ![id] = Staged(id, outcome)]
  BY DEF StageDocument
<1>2. doc'[id] = Staged(id, outcome) /\ \A d \in Docs \ {id} : doc'[d] = doc[d]
  BY <1>1 DEF Inv, TypeOK
<1>3. StagedFrom(doc[id], Staged(id, outcome), outcome)
  BY StagedShape DEF Inv
<1>4. Kept(doc[id], doc'[id])
  BY <1>2, <1>3 DEF StagedFrom, Kept
<1> QED
  BY <1>2, <1>4 DEF Kept

LEMMA UserKeeps ==
    ASSUME Inv, NEW u \in Users, UserStep(u), NEW d \in Docs
    PROVE  Answered(d) \/ Kept(doc[d], doc'[d])
<1>0. view \in [Users -> View \cup {None}]
  BY DEF Inv, TypeOK
<1>1. ASSUME LockCurrent(u), Answer(u), NEW new, doc' = [doc EXCEPT ![view[u].id] = new]
      PROVE  Answered(d) \/ Kept(doc[d], doc'[d])
  <2>1. CASE d = view[u].id
    BY <1>0, <1>1, <2>1 DEF LockCurrent, Answer, Answered
  <2>2. CASE d # view[u].id
    BY <1>1, <2>2 DEF Kept, Inv, TypeOK
  <2> QED
    BY <2>1, <2>2
<1>2. CASE CommitResolve(u)
  <2>1. /\ job[u] \in Job /\ JobLocks(u)
        /\ \/ d = job[u].id
           \/ d # job[u].id /\ PropagatedFrom(job[u], d, doc[d], doc'[d])
           \/ doc'[d] = doc[d]
    BY <1>2, CommitShape
  <2>2. CASE d = job[u].id
    BY <1>0, <1>2, <2>1, <2>2 DEF JobLocks, CommitResolve, Answer, Answered
  <2>3. CASE PropagatedFrom(job[u], d, doc[d], doc'[d])
    <3>1. doc[d].supplier # None => doc'[d].supplier = doc[d].supplier
      BY <2>1, <2>3 DEF PropagatedFrom, JobLocks
    <3>2. ASSUME NEW l \in Lines, doc[d].items[l].target # None
          PROVE  doc'[d].items[l] = doc[d].items[l]
      <4>1. <<d, l>> \notin job[u].fill
        BY <2>1, <3>2 DEF JobLocks
      <4> QED
        BY <2>3, <4>1 DEF PropagatedFrom
    <3> QED
      BY <2>3, <3>1, <3>2 DEF PropagatedFrom, Kept
  <2>4. CASE doc'[d] = doc[d]
    BY <2>4 DEF Kept
  <2> QED
    BY <2>1, <2>2, <2>3, <2>4
<1>3. CASE doc' = doc
  BY <1>3 DEF Kept
<1>4. CASE \E l \in Lines : SetItemUse(u, l)
  BY <1>1, <1>4 DEF SetItemUse
<1>5. CASE Ignore(u) \/ Restore(u) \/ Import(u)
  <2>1. LockCurrent(u) /\ Answer(u) /\ \E new : doc' = [doc EXCEPT ![view[u].id] = new]
    <3>1. CASE Ignore(u)
      <4>1. doc' = [doc EXCEPT ![view[u].id] = Marked(doc[view[u].id], "ignored")]
        BY <3>1 DEF Ignore, Marked
      <4> QED
        BY <3>1, <4>1 DEF Ignore
    <3>2. CASE Restore(u)
      <4>1. doc' = [doc EXCEPT ![view[u].id] =
                      Marked(doc[view[u].id], Readiness(doc[view[u].id]))]
        BY <3>2 DEF Restore, Marked
      <4> QED
        BY <3>2, <4>1 DEF Restore
    <3>3. CASE Import(u)
      <4>1. doc' = [doc EXCEPT ![view[u].id] = Marked(doc[view[u].id], "imported")]
        BY <3>3 DEF Import, Marked
      <4> QED
        BY <3>3, <4>1 DEF Import
    <3> QED
      BY <1>5, <3>1, <3>2, <3>3
  <2> QED
    BY <1>1, <2>1
<1> QED
  BY <1>2, <1>3, <1>4, <1>5 DEF UserStep, Open, BeginRetry, BeginResolve, AbortResolve

\* What users have decided stays, whatever is staged, replayed, retried or
\* remembered elsewhere: a propagation writes only lines and suppliers that it
\* found empty and locked.
THEOREM ChoicesAreKept == Spec => ChoicesStand
<1>1. ASSUME Inv, [Next]_vars, NEW d \in Docs PROVE Answered(d) \/ Kept(doc[d], doc'[d])
  <2>1. CASE \E id \in Docs : Stage(id)
    BY <1>1, <2>1, StageKeeps DEF Stage
  <2>2. ASSUME NEW from \in Docs, NEW restoreIgnored \in BOOLEAN, NEW retryFailed \in BOOLEAN,
               Replay(from, restoreIgnored, retryFailed)
        PROVE  Kept(doc[d], doc'[d])
    <3>1. Replayed(doc[d], doc'[d])
      BY <1>1, <2>2, ReplayShape DEF Inv
    <3> QED
      BY <3>1 DEF Replayed, Kept
  <2>3. CASE FinishRetry
    BY <1>1, <2>3, StageKeeps DEF FinishRetry, Inv, TypeOK
  <2>4. CASE \E u \in Users : UserStep(u)
    BY <1>1, <2>4, UserKeeps
  <2>5. CASE doc' = doc
    BY <2>5 DEF Kept
  <2> QED
    BY <1>1, <2>1, <2>2, <2>3, <2>4, <2>5 DEF Next, LoseRetry, ToggleActive, Done, vars
<1>2. Inv /\ [Next]_vars =>
        [\A d \in Docs : \/ Answered(d)
                         \/ /\ doc[d].supplier # None => doc'[d].supplier = doc[d].supplier
                            /\ doc'[d].site = doc[d].site
                            /\ \A l \in Lines :
                                 /\ doc'[d].items[l].use = doc[d].items[l].use
                                 /\ doc[d].items[l].target # None =>
                                      doc'[d].items[l].target = doc[d].items[l].target]_vars
  BY <1>1 DEF Kept
<1> QED
  BY <1>2, InvAndViews, PTL DEF Spec, ChoicesStand

-----------------------------------------------------------------------------
(* Refinement                                                              *)

phases == [d \in Docs |-> Phase(doc[d].status)]

LEMMA PhaseOf ==
    /\ Phase("absent") = "unknown"
    /\ \A s \in Waiting : Phase(s) = "open"
    /\ \A s \in Protected : Phase(s) = s
BY DEF Protected, Waiting, Phase

\* One document changes its phase.
LEMMA OnePhase ==
    ASSUME NEW id \in Docs, \A d \in Docs \ {id} : doc'[d].status = doc[d].status
    PROVE  /\ phases' = [phases EXCEPT ![id] = Phase(doc'[id].status)]
           /\ phases[id] = Phase(doc[id].status)
BY DEF phases

LEMMA StageRefines ==
    ASSUME Inv, Inv', NEW id \in Docs, StageDocument(id), UNCHANGED receipt
    PROVE  [Ledger!Next]_<<phases, receipt>>
<1>1. PICK outcome \in {"parsed", "failed"} : doc' = [doc EXCEPT ![id] = Staged(id, outcome)]
  BY DEF StageDocument
<1>2. doc'[id] = Staged(id, outcome) /\ \A d \in Docs \ {id} : doc'[d] = doc[d]
  BY <1>1 DEF Inv, TypeOK
<1>3. StagedFrom(doc[id], doc'[id], outcome)
  BY <1>2, StagedShape DEF Inv
<1>4. \A d \in Docs \ {id} : doc'[d].status = doc[d].status
  BY <1>2
<1>5. CASE doc[id].status = "absent"
  <2>1. doc'[id].status \in Waiting
    BY <1>3, <1>5 DEF StagedFrom, Protected
  <2>2. phases' = [phases EXCEPT ![id] = "open"]
    BY <1>4, <2>1, OnePhase, PhaseOf
  <2>3. phases[id] = "unknown"
    BY <1>4, <1>5, OnePhase, PhaseOf
  <2>4. Ledger!Arrive(id)
    BY <2>2, <2>3 DEF Ledger!Arrive, phases
  <2> QED
    BY <2>4 DEF Ledger!Next, phases
<1>6. CASE doc[id].status # "absent"
  <2>1. doc[id].status \in Protected \cup Waiting
    BY <1>6 DEF Inv, TypeOK, Document, Statuses
  <2>2. Phase(doc'[id].status) = Phase(doc[id].status)
    BY <1>3, <2>1, PhaseOf DEF StagedFrom
  <2>3. phases' = phases
    BY <1>4, <2>2 DEF phases
  <2> QED
    BY <2>3
<1> QED
  BY <1>5, <1>6

LEMMA ReplayRefines ==
    ASSUME Inv, Inv', NEW from \in Docs, NEW restoreIgnored \in BOOLEAN,
           NEW retryFailed \in BOOLEAN, Replay(from, restoreIgnored, retryFailed)
    PROVE  [Ledger!Next]_<<phases, receipt>>
<1> DEFINE restored == {d \in Docs : doc[d].status = "ignored" /\ doc'[d].status # "ignored"}
<1>1. \A d \in Docs : Replayed(doc[d], doc'[d])
  BY ReplayShape DEF Inv
<1>2. ASSUME NEW d \in Docs
      PROVE  Phase(doc'[d].status) = IF d \in restored THEN "open" ELSE Phase(doc[d].status)
  <2>1. Replayed(doc[d], doc'[d])
    BY <1>1
  <2>2. "failed" \in Waiting /\ "ignored" \notin Waiting
    BY DEF Waiting
  <2> QED
    BY <2>1, <2>2, PhaseOf DEF Replayed
<1>3. phases' = [d \in Docs |-> IF d \in restored THEN "open" ELSE phases[d]]
  BY <1>2 DEF phases
<1>4. \A d \in restored : phases[d] = "ignored"
  BY PhaseOf DEF phases, Protected
<1>5. UNCHANGED receipt
  BY DEF Replay
<1>6. restored \in SUBSET Docs
  OBVIOUS
<1> HIDE DEF restored
<1>7. Ledger!TakeUp(restored)
  BY <1>3, <1>4, <1>5, <1>6 DEF Ledger!TakeUp, phases
<1> QED
  BY <1>6, <1>7 DEF Ledger!Next, phases

\* A request that leaves the document in work.
LEMMA StillOpen ==
    ASSUME UNCHANGED receipt,
           \A d \in Docs : \/ doc'[d].status = doc[d].status
                           \/ doc[d].status \in Waiting /\ doc'[d].status \in Waiting
    PROVE  UNCHANGED <<phases, receipt>>
<1>1. \A d \in Docs : Phase(doc'[d].status) = Phase(doc[d].status)
  BY PhaseOf
<1> QED
  BY <1>1 DEF phases

LEMMA OpenIsKnown ==
    ASSUME Inv, ViewsBehind, NEW u \in Users, view[u] # None
    PROVE  view[u].id \in Docs /\ doc[view[u].id].status # "absent"
<1>1. view[u] \in View
  BY DEF Inv, TypeOK
<1>2. view[u].id \in Docs /\ view[u].doc.version \in Nat
  BY <1>1 DEF View, Document
<1>3. doc[view[u].id].version # 0
  <2>1. view[u].doc.version # 0 /\ view[u].doc.version <= doc[view[u].id].version
    BY DEF ViewsBehind
  <2> QED
    BY <1>2, <2>1
<1> QED
  BY <1>2, <1>3 DEF Inv, TypeOK

LEMMA UserRefines ==
    ASSUME Inv, Inv', ViewsBehind, NEW u \in Users, UserStep(u)
    PROVE  [Ledger!Next]_<<phases, receipt>>
<1> DEFINE id == view[u].id
<1>1. ASSUME LockCurrent(u), NEW s \in Statuses, doc' = [doc EXCEPT ![id] = Marked(doc[id], s)]
      PROVE  /\ id \in Docs /\ doc[id].status # "absent" /\ doc'[id].status = s
             /\ \A d \in Docs \ {id} : doc'[d].status = doc[d].status
  <2>1. id \in Docs /\ doc[id].status # "absent" /\ doc[id] \in Document
    BY <1>1, OpenDocument, OpenIsKnown DEF LockCurrent
  <2>2. doc'[id] = Marked(doc[id], s) /\ \A d \in Docs \ {id} : doc'[d] = doc[d]
    BY <1>1, <2>1 DEF Inv, TypeOK
  <2> QED
    BY <2>1, <2>2, MarkedType
<1>2. CASE Ignore(u)
  <2>1. doc' = [doc EXCEPT ![id] = Marked(doc[id], "ignored")] /\ LockCurrent(u)
        /\ doc[id].status \notin Protected /\ UNCHANGED receipt
    BY <1>2 DEF Ignore, Marked
  <2>2. /\ id \in Docs /\ doc[id].status # "absent" /\ doc'[id].status = "ignored"
        /\ \A d \in Docs \ {id} : doc'[d].status = doc[d].status
    BY <1>1, <2>1 DEF Statuses, Protected
  <2>3. doc[id].status \in Waiting
    BY <2>1, <2>2 DEF Inv, TypeOK, Document, Statuses
  <2>4. phases[id] = "open" /\ phases' = [phases EXCEPT ![id] = "ignored"]
    BY <2>2, <2>3, OnePhase, PhaseOf DEF Protected
  <2>5. Ledger!PutAside(id)
    BY <2>1, <2>4 DEF Ledger!PutAside, phases
  <2> QED
    BY <2>2, <2>5 DEF Ledger!Next, phases
<1>3. CASE Restore(u)
  <2>1. doc' = [doc EXCEPT ![id] = Marked(doc[id], Readiness(doc[id]))] /\ LockCurrent(u)
        /\ doc[id].status = "ignored" /\ UNCHANGED receipt
    BY <1>3 DEF Restore, Marked
  <2>2. Readiness(doc[id]) \in Statuses /\ Readiness(doc[id]) \in Waiting
    BY ReadinessType DEF Statuses, Waiting
  <2>3. /\ id \in Docs /\ doc'[id].status \in Waiting
        /\ \A d \in Docs \ {id} : doc'[d].status = doc[d].status
    BY <1>1, <2>1, <2>2
  <2>4. phases[id] = "ignored" /\ phases' = [phases EXCEPT ![id] = "open"]
    BY <2>1, <2>3, OnePhase, PhaseOf DEF Protected
  <2>5. phases' = [d \in Docs |-> IF d \in {id} THEN "open" ELSE phases[d]]
    BY <2>4 DEF phases
  <2>6. Ledger!TakeUp({id})
    BY <2>1, <2>4, <2>5 DEF Ledger!TakeUp, phases
  <2> QED
    BY <2>3, <2>6 DEF Ledger!Next, phases
<1>4. CASE Import(u)
  <2>1. /\ doc' = [doc EXCEPT ![id] = Marked(doc[id], "imported")] /\ LockCurrent(u)
        /\ doc[id].status = "ready" /\ receipt[id] = None
        /\ receipt' = [receipt EXCEPT ![id] = Content(doc[id])]
    BY <1>4 DEF Import, Marked
  <2>2. /\ id \in Docs /\ doc'[id].status = "imported"
        /\ \A d \in Docs \ {id} : doc'[d].status = doc[d].status
    BY <1>1, <2>1 DEF Statuses, Protected
  <2>3. "ready" \in Waiting /\ "imported" \in Protected
    BY DEF Waiting, Protected
  <2>4. phases[id] = "open" /\ phases' = [phases EXCEPT ![id] = "imported"]
    BY <2>1, <2>2, <2>3, OnePhase, PhaseOf
  <2>5. receipt'[id] = Content(doc[id]) /\ receipt'[id] # None
    <3>1. receipt \in [Docs -> Receipt \cup {None}] /\ doc[id] \in Document
      BY <2>2 DEF Inv, TypeOK
    <3>2. Content(doc[id]) \in Receipt /\ None \notin Receipt
      BY <3>1, ContentType, BufferAssumption
    <3> QED
      BY <2>1, <2>2, <3>1, <3>2
  <2>6. Ledger!Import(id)
    BY <2>1, <2>4, <2>5 DEF Ledger!Import, phases
  <2> QED
    BY <2>2, <2>6 DEF Ledger!Next, phases
<1>5. ASSUME NEW l \in Lines, SetItemUse(u, l)
      PROVE  UNCHANGED <<phases, receipt>>
  <2> DEFINE mid(use) == [doc[id] EXCEPT !.items[l].use = use, !.version = @ + 1]
             new(use) == [mid(use) EXCEPT !.status = Readiness(mid(use))]
  <2>1. LockCurrent(u) /\ doc[id].status \notin Protected /\ UNCHANGED receipt
        /\ \E use \in {"included", "excluded"} : doc' = [doc EXCEPT ![id] = new(use)]
    BY <1>5 DEF SetItemUse
  <2>2. id \in Docs /\ doc[id] \in Document /\ doc[id].status # "absent"
    BY <2>1, OpenDocument, OpenIsKnown DEF LockCurrent
  <2>3. \A use : new(use).status \in Waiting
    <3>1. \A use : "status" \in DOMAIN mid(use)
      BY <2>2 DEF Document
    <3>2. \A use : Readiness(mid(use)) \in Waiting
      BY ReadinessType DEF Waiting
    <3> HIDE DEF mid
    <3> QED
      BY <3>1, <3>2
  <2>4. doc[id].status \in Waiting
    BY <2>1, <2>2 DEF Document, Statuses
  <2> HIDE DEF mid, new
  <2>5. doc'[id].status \in Waiting /\ \A d \in Docs \ {id} : doc'[d] = doc[d]
    BY <2>1, <2>2, <2>3 DEF Inv, TypeOK
  <2> QED
    BY <2>1, <2>4, <2>5, StillOpen
<1>6. CASE CommitResolve(u)
  <2>1. /\ job[u] # None /\ job[u] \in Job /\ JobLocks(u)
        /\ \A d \in Docs :
             \/ d = job[u].id /\ doc'[d] = Resolved(job[u])
             \/ doc[d].status # "absent" /\ PropagatedFrom(job[u], d, doc[d], doc'[d])
             \/ doc'[d] = doc[d]
    BY <1>6, CommitShape
  <2>2. Resolved(job[u]).status \in Waiting
    BY <2>1, ResolvedShape DEF Inv
  <2>3. view[u] # None /\ view[u].id = job[u].id /\ doc[job[u].id].status \notin Protected
    BY <2>1 DEF JobLocks
  <2>4. doc[job[u].id].status # "absent"
    BY <2>3, OpenIsKnown
  <2>5. \A d \in Docs : doc[d].status \in Protected \cup Waiting \cup {"absent"}
    BY DEF Inv, TypeOK, Document, Statuses
  <2>6. \A d \in Docs : \/ doc'[d].status = doc[d].status
                        \/ doc[d].status \in Waiting /\ doc'[d].status \in Waiting
    BY <2>1, <2>2, <2>3, <2>4, <2>5 DEF PropagatedFrom
  <2>7. UNCHANGED receipt
    BY <1>6 DEF CommitResolve
  <2> QED
    BY <2>6, <2>7, StillOpen
<1>7. CASE doc' = doc /\ receipt' = receipt
  BY <1>7, StillOpen
<1> QED
  BY <1>2, <1>3, <1>4, <1>5, <1>6, <1>7
     DEF UserStep, Open, BeginRetry, BeginResolve, AbortResolve

\* The buffer implements ImportLedger: what staging anew, replays, retries and
\* resolutions do to a document is none of what would undo a decision.
THEOREM BufferImplementsLedger == Spec => KeepsLedger
<1>1. Init => Ledger!Init
  <2> SUFFICES ASSUME Init PROVE Ledger!Init
    OBVIOUS
  <2>1. \A d \in Docs : Phase(doc[d].status) = "unknown"
    BY AbsentType, PhaseOf DEF Init
  <2> QED
    BY <2>1 DEF Init, Ledger!Init
<1>2. ASSUME Inv, Inv', ViewsBehind, [Next]_vars
      PROVE  [Ledger!Next]_<<phases, receipt>>
  <2>1. CASE \E d \in Docs : Stage(d)
    BY <1>2, <2>1, StageRefines DEF Stage
  <2>2. ASSUME NEW from \in Docs, NEW restoreIgnored \in BOOLEAN, NEW retryFailed \in BOOLEAN,
               Replay(from, restoreIgnored, retryFailed)
        PROVE  [Ledger!Next]_<<phases, receipt>>
    BY <1>2, <2>2, ReplayRefines
  <2>3. CASE FinishRetry
    BY <1>2, <2>3, StageRefines DEF FinishRetry, Inv, TypeOK
  <2>4. CASE \E u \in Users : UserStep(u)
    BY <1>2, <2>4, UserRefines
  <2>5. CASE doc' = doc /\ receipt' = receipt
    BY <1>2, <2>5, StillOpen
  <2> QED
    BY <1>2, <2>1, <2>2, <2>3, <2>4, <2>5 DEF Next, LoseRetry, ToggleActive, Done, vars
<1>3. Inv /\ Inv' /\ ViewsBehind /\ [Next]_vars =>
        [Ledger!Next]_<<[d \in Docs |-> Phase(doc[d].status)], receipt>>
  BY <1>2 DEF phases
<1> QED
  BY <1>1, <1>3, InvAndViews, PTL DEF Spec, KeepsLedger, Ledger!Spec
=============================================================================
