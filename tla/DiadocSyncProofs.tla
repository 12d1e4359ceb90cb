--------------------------- MODULE DiadocSyncProofs ---------------------------
(***************************************************************************)
(* Theorems about DiadocSync, for any box, page size, number of documents  *)
(* and of requests, and any number of faults.                              *)
(***************************************************************************)
EXTENDS DiadocSync, TLAPS

\* The event a synchronisation is at exists, and belongs to its page.
AtEvent ==
    /\ sync.pc \in {"fetch", "stage", "advance"} => sync.box \in Boxes
    /\ sync.pc \in {"stage", "advance"} =>
         /\ sync.event \in Events /\ sync.event <= sync.last
         /\ sync.last \in Events /\ sync.last <= arrived
         /\ sync.part \in 1..Parts

\* The row a request has loaded has a date.
CopyDated == admin.pc = "assign" => admin.copy.from # 0

TypeInv == TypeOK /\ AtEvent /\ CopyDated

ToldType == [polling : {"enabled", "paused"}, replay : {0} \cup Dates]

LEMMA Idle ==
    /\ Blank \in StateType
    /\ IdleSync \in SyncType /\ IdleSync.pc = "idle"
    /\ IdleAdmin \in AdminType /\ IdleAdmin.pc = "idle"
<1>1. Blank \in StateType
  BY DEF Blank, StateType
<1>2. 0 \in 0..Parts
  BY SyncAssumption
<1> QED
  BY <1>1, <1>2 DEF IdleSync, SyncType, IdleAdmin, AdminType, Requests

LEMMA RequestKinds ==
    ASSUME NEW request \in Requests
    PROVE  \/ request.kind = "replay" /\ request.from \in Dates
           \/ request.kind \in {"paused", "enabled"} /\ request.from = 0
BY DEF Requests

\* A save leaves a well formed row.
LEMMA SavedState == ASSUME row \in StateType, NEW state \in StateType
                    PROVE  Saved(state) \in StateType /\ Saved(state).from = state.from
BY DEF Saved, StateType

\* What a request writes is well formed, and has a date if there was one.
LEMMA ChangeState ==
    ASSUME NEW state \in StateType, NEW request \in Requests
    PROVE  /\ Change(state, request) \in StateType
           /\ state.from # 0 => Change(state, request).from # 0
<1>1. 0 \notin Dates
  BY SyncAssumption DEF Dates
<1>2. CASE request.kind = "replay" /\ request.from \in Dates
  BY <1>1, <1>2 DEF Change, StateType
<1>3. CASE request.kind \in {"paused", "enabled"}
  BY <1>3 DEF Change, StateType
<1> QED
  BY <1>2, <1>3, RequestKinds

LEMMA StartState ==
    ASSUME TypeOK, Start
    PROVE  row' \in StateType /\ mem' = row' /\ row'.from # 0
<1>1. 0 \notin Dates /\ arrived + 1 \in Dates
  BY SyncAssumption DEF TypeOK, Dates
<1>2. ConfigFrom \in {0} \cup Dates
  BY SyncAssumption DEF Dates
<1>3. ConfigBox \in Boxes \cup {NoBox}
  BY SyncAssumption
<1> QED
  BY <1>1, <1>2, <1>3 DEF TypeOK, Start, StateType

\* Only a reload fills the copy, from a row that has a date.
LEMMA CopyDatedKept == TypeOK /\ CopyDated /\ [Next]_vars => CopyDated'
<1> SUFFICES ASSUME TypeOK, CopyDated, [Next]_vars PROVE CopyDated'
  OBVIOUS
<1>1. CASE Crash
  BY <1>1, Idle DEF Crash, CopyDated
<1>2. ASSUME NEW request \in Requests, Ask(request) PROVE CopyDated'
  <2>1. admin'.pc = "load"
    BY <1>2, Idle DEF Ask, AdminType
  <2> QED
    BY <2>1 DEF CopyDated
<1>3. CASE Reload
  BY <1>3, Idle DEF TypeOK, Reload, CopyDated, AdminType
<1>4. CASE Assign
  BY <1>4 DEF TypeOK, Assign, CopyDated, AdminType
<1>5. CASE UNCHANGED admin
  BY <1>5 DEF CopyDated
<1>6. CASE Start \/ Arrive \/ Work \/ FailSync \/ Grant \/ SelectBox \/ SelectNone
  <2>1. UNCHANGED admin
    BY <1>6 DEF Start, Arrive, Work, BeginSync, UseToken, RefreshToken, Snapshot,
                Fetch, Stage, Advance, FailSync, Grant, SelectBox, SelectNone
  <2> QED
    BY <1>5, <2>1
<1> QED
  BY <1>1, <1>2, <1>3, <1>4, <1>5, <1>6 DEF Next, vars

\* The type invariant is inductive with the place of the synchronisation.
LEMMA TypeInvInductive == TypeInv /\ [Next]_vars => TypeInv'
<1> SUFFICES ASSUME TypeInv, [Next]_vars PROVE TypeOK' /\ AtEvent'
  BY CopyDatedKept DEF TypeInv
<1> USE DEF TypeInv
<1>1. CASE Start
  BY <1>1, StartState DEF TypeOK, Start, AtEvent
<1>2. CASE Crash
  <2>1. faults' \in 0..MaxFaults
    BY <1>2, SyncAssumption DEF TypeOK, Crash, Fault
  <2>2. AtEvent'
    BY <1>2, Idle DEF Crash, AtEvent
  <2> QED
    BY <1>2, <2>1, <2>2, Idle DEF TypeOK, Crash
<1>3. CASE Arrive
  BY <1>3, SyncAssumption DEF TypeOK, Arrive, AtEvent, Events
<1>4. CASE BeginSync
  <2>1. sync' \in SyncType /\ sync'.pc = "token"
    BY <1>4, Idle DEF BeginSync, SyncType
  <2> QED
    BY <1>4, <2>1 DEF TypeOK, BeginSync, PollMuFree, AtEvent
<1>5. CASE UseToken
  <2>1. sync' \in SyncType /\ sync'.pc \in {"idle", "snapshot"} /\ sync.pc = "token"
    BY <1>5, Idle DEF TypeOK, UseToken, Finish, SyncType
  <2> QED
    BY <1>5, <2>1 DEF TypeOK, UseToken, AtEvent
<1>6. CASE RefreshToken
  <2>1. mem' \in StateType /\ mem'.from = mem.from
    BY <1>6 DEF TypeOK, RefreshToken, StateType
  <2>2. row' = row \/ (row' \in StateType /\ row'.from = mem.from)
    BY <1>6, <2>1, SavedState DEF TypeOK, RefreshToken
  <2>3. sync' \in SyncType /\ sync'.pc \in {"idle", "snapshot"} /\ sync.pc = "token"
    BY <1>6, Idle DEF TypeOK, RefreshToken, Finish, SyncType
  <2>4. tokens' \in Nat /\ faults' \in 0..MaxFaults
    BY <1>6, SyncAssumption DEF TypeOK, RefreshToken, Fault
  <2> QED
    BY <1>6, <2>1, <2>2, <2>3, <2>4 DEF TypeOK, RefreshToken, AtEvent
<1>7. CASE Snapshot
  <2>1. sync.pc = "snapshot"
    BY <1>7 DEF Snapshot
  <2>2. CASE mem.polling = "enabled" /\ mem.box # NoBox
    <3>1. sync' = [sync EXCEPT !.pc = "fetch", !.box = mem.box,
                               !.cursor = mem.cursor, !.from = mem.from]
      BY <1>7, <2>2 DEF Snapshot
    <3>2. /\ mem.box \in Boxes /\ mem.cursor \in {0} \cup Events
          /\ mem.from \in {0} \cup Dates
      BY <2>2 DEF TypeOK, StateType
    <3>3. sync \in SyncType
      BY DEF TypeOK
    <3>4. sync' \in SyncType /\ sync'.pc = "fetch" /\ sync'.box \in Boxes
      BY <3>1, <3>2, <3>3 DEF SyncType
    <3> QED
      BY <1>7, <2>1, <3>4 DEF TypeOK, Snapshot, AtEvent
  <2>3. CASE ~(mem.polling = "enabled" /\ mem.box # NoBox)
    <3>1. sync' \in SyncType /\ sync'.pc = "idle"
      BY <1>7, <2>3, Idle DEF Snapshot, Finish
    <3> QED
      BY <1>7, <2>1, <3>1 DEF TypeOK, Snapshot, AtEvent
  <2> QED
    BY <2>2, <2>3
<1>8. CASE Fetch
  <2>1. First \in Nat \ {0}
    BY <1>8, SyncAssumption DEF TypeOK, First, SyncType, Events, Dates
  <2>2. First <= arrived => Last \in Events /\ First \in Events /\ First <= Last /\ Last <= arrived
    BY <2>1, SyncAssumption DEF TypeOK, Last, FullPage, Events
  <2>3. 1 \in 1..Parts /\ 1 \in 0..Parts
    BY SyncAssumption
  <2>4. CASE First <= arrived
    <3>1. /\ sync' \in SyncType /\ sync'.pc = "stage" /\ sync'.box = sync.box
          /\ sync'.event = First /\ sync'.last = Last /\ sync'.part = 1
      BY <1>8, <2>2, <2>3, <2>4 DEF TypeOK, Fetch, Page, SyncType
    <3> QED
      BY <1>8, <2>2, <2>3, <2>4, <3>1 DEF TypeOK, Fetch, AtEvent
  <2>5. CASE ~(First <= arrived)
    BY <1>8, <2>5, Idle DEF TypeOK, Fetch, Finish, AtEvent
  <2> QED
    BY <2>4, <2>5
<1>9. CASE Stage
  <2>1. staged' \subseteq Boxes \X Events \X (1..Parts)
    BY <1>9 DEF TypeOK, Stage, AtEvent
  <2>2. CASE sync.part < Parts
    <3>1. sync.part + 1 \in 1..Parts /\ sync.part + 1 \in 0..Parts
      BY <1>9, <2>2, SyncAssumption DEF Stage, AtEvent
    <3>2. /\ sync' \in SyncType /\ sync'.pc = "stage" /\ sync'.box = sync.box
          /\ sync'.event = sync.event /\ sync'.last = sync.last
          /\ sync'.part = sync.part + 1
      BY <1>9, <2>2, <3>1 DEF TypeOK, Stage, SyncType
    <3> QED
      BY <1>9, <2>1, <3>1, <3>2 DEF TypeOK, Stage, AtEvent
  <2>3. CASE ~(sync.part < Parts)
    <3>1. /\ sync' \in SyncType /\ sync'.pc = "advance" /\ sync'.box = sync.box
          /\ sync'.event = sync.event /\ sync'.last = sync.last
          /\ sync'.part = sync.part
      BY <1>9, <2>3 DEF TypeOK, Stage, SyncType
    <3> QED
      BY <1>9, <2>1, <3>1 DEF TypeOK, Stage, AtEvent
  <2> QED
    BY <2>2, <2>3
<1>10. CASE Advance
  <2>1. mem' \in StateType /\ mem'.from = mem.from
    BY <1>10 DEF TypeOK, Advance, StateType, AtEvent
  <2>2. row' = row \/ (row' \in StateType /\ row'.from = mem.from)
    BY <1>10, <2>1, SavedState DEF TypeOK, Advance
  <2>3. told' \in ToldType /\ faults' \in 0..MaxFaults
    BY <1>10, SyncAssumption DEF TypeOK, Advance, Fault, ToldType
  <2>4. \/ /\ sync.event < sync.last
           /\ sync' = [sync EXCEPT !.pc = "stage", !.event = @ + 1, !.part = 1]
        \/ sync' = [sync EXCEPT !.pc = "fetch", !.cursor = sync.event]
        \/ sync' = IdleSync
    BY <1>10 DEF Advance, Finish
  <2>5. sync' \in SyncType /\ AtEvent'
    <3>1. CASE /\ sync.event < sync.last
               /\ sync' = [sync EXCEPT !.pc = "stage", !.event = @ + 1, !.part = 1]
      <4>1. sync.event + 1 \in Events /\ sync.event + 1 <= sync.last
        BY <1>10, <3>1, SyncAssumption DEF Advance, AtEvent, Events
      <4>2. 1 \in 1..Parts /\ 1 \in 0..Parts
        BY SyncAssumption
      <4>3. sync' \in SyncType
        BY <3>1, <4>1, <4>2 DEF TypeOK, SyncType
      <4>4. sync'.box = sync.box /\ sync'.event = sync.event + 1
            /\ sync'.last = sync.last /\ sync'.part = 1
        BY <3>1, <4>1, <4>2 DEF TypeOK, SyncType
      <4> QED
        BY <1>10, <4>1, <4>2, <4>3, <4>4 DEF Advance, AtEvent
    <3>2. CASE sync' = [sync EXCEPT !.pc = "fetch", !.cursor = sync.event]
      BY <1>10, <3>2 DEF TypeOK, Advance, AtEvent, SyncType
    <3>3. CASE sync' = IdleSync
      BY <3>3, Idle DEF AtEvent
    <3> QED
      BY <2>4, <3>1, <3>2, <3>3
  <2> QED
    BY <1>10, <2>1, <2>2, <2>3, <2>5 DEF TypeOK, Advance, ToldType
<1>11. CASE FailSync
  BY <1>11, Idle, SyncAssumption DEF TypeOK, FailSync, Fault, Finish, AtEvent
<1>12. ASSUME NEW request \in Requests, Ask(request) PROVE TypeOK' /\ AtEvent'
  <2>1. row' \in StateType /\ row'.from # 0
    BY <1>12, ChangeState DEF TypeOK, Ask
  <2>2. admin' \in AdminType /\ sync.pc = "idle"
    BY <1>12, Idle DEF Ask, AdminType, PollMuFree
  <2>3. told' \in ToldType
    BY <1>12, RequestKinds DEF TypeOK, Ask, ToldType
  <2>4. requests' \in 0..MaxRequests
    BY <1>12, SyncAssumption DEF TypeOK, Ask
  <2> QED
    BY <1>12, <2>1, <2>2, <2>3, <2>4 DEF TypeOK, Ask, AtEvent, ToldType
<1>13. CASE Reload
  <2>1. admin' \in AdminType /\ sync.pc = "idle"
    BY <1>13, Idle DEF TypeOK, Reload, AdminType
  <2>2. faults' \in 0..MaxFaults
    BY <1>13, SyncAssumption DEF TypeOK, Reload, Fault
  <2> QED
    BY <1>13, <2>1, <2>2 DEF TypeOK, Reload, AtEvent
<1>14. CASE Assign
  <2>1. admin' \in AdminType /\ sync.pc = "idle"
    BY <1>14, Idle DEF TypeOK, Assign, AdminType
  <2>2. mem' \in StateType /\ mem'.from # 0
    BY <1>14 DEF TypeOK, Assign, AdminType, CopyDated
  <2>3. told' \in ToldType
    <3>1. admin.request \in Requests
      BY DEF TypeOK, AdminType
    <3> QED
      BY <1>14, <3>1, RequestKinds DEF TypeOK, Assign, ToldType
  <2> QED
    BY <1>14, <2>1, <2>2, <2>3 DEF TypeOK, Assign, AtEvent, ToldType
<1>15. CASE Grant
  <2>1. mem' \in StateType /\ mem'.from = mem.from
    BY <1>15 DEF TypeOK, Grant, StateType
  <2>2. row' = row \/ (row' \in StateType /\ row'.from = mem.from)
    BY <1>15, <2>1, SavedState DEF TypeOK, Grant
  <2>3. tokens' \in Nat /\ faults' \in 0..MaxFaults
    BY <1>15, SyncAssumption DEF TypeOK, Grant, Fault
  <2> QED
    BY <1>15, <2>1, <2>2, <2>3 DEF TypeOK, Grant, AtEvent
<1>16. CASE SelectBox
  <2>1. mem' \in StateType /\ mem'.from = mem.from
    BY <1>16, SyncAssumption DEF TypeOK, SelectBox, StateType
  <2>2. row' = row \/ (row' \in StateType /\ row'.from = mem.from)
    BY <1>16, <2>1, SavedState DEF TypeOK, SelectBox
  <2>3. faults' \in 0..MaxFaults
    BY <1>16, SyncAssumption DEF TypeOK, SelectBox, Fault
  <2> QED
    BY <1>16, <2>1, <2>2, <2>3 DEF TypeOK, SelectBox, AtEvent
<1>17. CASE SelectNone
  <2>1. faults' \in 0..MaxFaults
    BY <1>17, SyncAssumption DEF TypeOK, SelectNone, Fault
  <2> QED
    BY <1>17, <2>1 DEF TypeOK, SelectNone, AtEvent
<1>18. CASE UNCHANGED vars
  BY <1>18 DEF TypeOK, vars, AtEvent
<1> QED
  BY <1>1, <1>2, <1>3, <1>4, <1>5, <1>6, <1>7, <1>8, <1>9, <1>10, <1>11, <1>12,
     <1>13, <1>14, <1>15, <1>16, <1>17, <1>18 DEF Next, Work

LEMMA InitTyped == Init => TypeInv
<1>1. 0 \in 0..MaxEvents /\ 0 \in 0..MaxRequests /\ 0 \in 0..MaxFaults
  BY SyncAssumption
<1>2. [polling |-> "enabled", replay |-> 0] \in ToldType
  BY DEF ToldType
<1>3. Init => TypeOK
  <2> SUFFICES ASSUME Init PROVE TypeOK
    OBVIOUS
  <2>1. row \in StateType /\ mem \in StateType /\ sync \in SyncType /\ admin \in AdminType
    BY Idle DEF Init
  <2>2. sync.pc = "idle" /\ ~up
    BY Idle DEF Init
  <2>3. arrived \in 0..MaxEvents /\ requests \in 0..MaxRequests /\ faults \in 0..MaxFaults
    BY <1>1 DEF Init
  <2> QED
    BY <1>2, <2>1, <2>2, <2>3, Idle DEF Init, TypeOK, ToldType
<1>4. Init => AtEvent /\ CopyDated
  BY Idle DEF Init, AtEvent, CopyDated
<1> QED
  BY <1>3, <1>4 DEF TypeInv

\* The type invariant holds in every reachable state: a synchronisation and
\* a request never overlap, and a running manager always has a date.
THEOREM TypeInvariant == Spec => []TypeOK
<1>1. Init => TypeInv
  BY InitTyped
<1>2. TypeInv => TypeOK
  BY DEF TypeInv
<1> QED
  BY <1>1, <1>2, TypeInvInductive, PTL DEF Spec
-----------------------------------------------------------------------------
(* The cursor                                                              *)

\* The events a synchronisation has behind it are in the buffer, and the
\* documents it has staged of the one it is at.
SyncStaged ==
    /\ sync.pc \in {"fetch", "stage", "advance"} => mem.from = sync.from
    /\ sync.pc = "fetch" =>
         \A e \in Events : sync.from <= e /\ e <= sync.cursor => InBuffer(e)
    /\ sync.pc \in {"stage", "advance"} =>
         \A e \in Events : sync.from <= e /\ e < sync.event => InBuffer(e)
    /\ sync.pc = "stage" =>
         \A p \in 1..Parts : p < sync.part =>
            \E b \in Boxes : <<b, sync.event, p>> \in staged
    /\ sync.pc = "advance" => InBuffer(sync.event)

CopyBehind == admin.pc = "assign" => Behind(admin.copy)

CursorInv == StagedBehindCursor /\ SyncStaged /\ CopyBehind

\* A state whose cursor is empty is behind everything.
LEMMA EmptyCursor == ASSUME NEW state, state.cursor = 0 PROVE Behind(state)
BY SyncAssumption DEF Behind, Events

\* What is in the buffer stays there.
LEMMA BufferGrows ==
    ASSUME [Next]_vars
    PROVE  staged \subseteq staged' /\ \A e : InBuffer(e) => InBuffer(e)'
<1>1. staged \subseteq staged'
  BY DEF Next, vars, Start, Crash, Arrive, Work, BeginSync, UseToken, RefreshToken,
         Snapshot, Fetch, Stage, Advance, FailSync, Ask, Reload, Assign, Grant,
         SelectBox, SelectNone
<1> QED
  BY <1>1 DEF InBuffer

\* Being behind depends on the cursor and the date only, and lasts.
LEMMA BehindKept ==
    ASSUME [Next]_vars, NEW s, NEW t, Behind(s), t.cursor = s.cursor, t.from = s.from
    PROVE  \A e \in Events : t.from <= e /\ e <= t.cursor => InBuffer(e)'
BY BufferGrows DEF Behind

\* A step that leaves the synchronisation where it is leaves its events staged.
LEMMA SyncStagedKept ==
    ASSUME [Next]_vars, SyncStaged, sync' = sync,
           sync.pc \in {"fetch", "stage", "advance"} => mem'.from = mem.from
    PROVE  SyncStaged'
BY BufferGrows DEF SyncStaged

\* The saves of the manager: the row is as the copy, or as it was.
LEMMA SaveBehind ==
    ASSUME [Next]_vars, StagedBehindCursor, Behind(mem)',
           row' = row \/ (row'.cursor = mem'.cursor /\ row'.from = mem'.from)
    PROVE  StagedBehindCursor'
<1>1. CASE row' = row
  <2>1. Behind(row)'
    BY <1>1, BehindKept DEF StagedBehindCursor, Behind
  <2> QED
    BY <2>1 DEF StagedBehindCursor
<1>2. CASE row'.cursor = mem'.cursor /\ row'.from = mem'.from
  BY <1>2 DEF StagedBehindCursor, Behind
<1> QED
  BY <1>1, <1>2

LEMMA SavedCursor ==
    ASSUME row \in StateType, NEW state \in StateType
    PROVE  Saved(state).cursor = state.cursor /\ Saved(state).from = state.from
BY DEF Saved, StateType

\* Steps that leave the row and the manager's copy alone.
LEMMA WorkStaged ==
    ASSUME TypeInv, CursorInv, [Next]_vars,
           \/ Arrive \/ BeginSync \/ UseToken \/ Snapshot \/ Fetch \/ Stage
           \/ FailSync \/ SelectNone \/ UNCHANGED vars
    PROVE  CursorInv'
<1>0. UNCHANGED <<row, mem, admin>>
  BY DEF vars, Arrive, BeginSync, UseToken, Snapshot, Fetch, Stage, FailSync, SelectNone
<1>1. StagedBehindCursor' /\ CopyBehind'
  BY <1>0, BehindKept DEF CursorInv, StagedBehindCursor, CopyBehind, Behind
<1> SUFFICES SyncStaged'
  BY <1>1 DEF CursorInv
<1>2. CASE sync' = sync
  BY <1>0, <1>2, SyncStagedKept DEF CursorInv
<1>3. CASE sync'.pc \in {"idle", "token", "snapshot"}
  BY <1>3 DEF SyncStaged
<1>4. CASE Snapshot /\ sync'.pc \notin {"idle", "token", "snapshot"}
  <2>1. sync'.pc = "fetch" /\ sync'.cursor = mem.cursor /\ sync'.from = mem.from
    BY <1>4, Idle DEF Snapshot, Finish, TypeInv, TypeOK, SyncType
  <2> QED
    BY <1>0, <2>1, BufferGrows DEF SyncStaged, CursorInv, StagedBehindCursor, Behind
<1>5. CASE Fetch /\ sync'.pc \notin {"idle", "token", "snapshot"}
  <2>1. /\ sync.pc = "fetch" /\ sync'.pc = "stage" /\ sync'.from = sync.from
        /\ sync'.event = First /\ sync'.part = 1
    BY <1>5, Idle DEF Fetch, Page, Finish, TypeInv, TypeOK, SyncType
  <2>2. \A e \in Events : sync.from <= e /\ e < First => e <= sync.cursor
    BY SyncAssumption DEF First, TypeInv, TypeOK, SyncType, Events, Dates
  <2>3. \A e \in Events : sync.from <= e /\ e < First => InBuffer(e)'
    BY <2>1, <2>2, BufferGrows DEF SyncStaged, CursorInv
  <2>4. \A p \in 1..Parts : ~(p < 1)
    BY SyncAssumption
  <2> QED
    BY <1>0, <2>1, <2>3, <2>4 DEF SyncStaged, CursorInv
<1>6. CASE Stage
  <2>1. sync.pc = "stage" /\ sync.box \in Boxes /\ sync.part \in 1..Parts
    BY <1>6 DEF Stage, TypeInv, AtEvent
  <2>2. <<sync.box, sync.event, sync.part>> \in staged'
    BY <1>6 DEF Stage
  <2>3. \A p \in 1..Parts : p < sync.part + 1 => p < sync.part \/ p = sync.part
    BY <2>1, SyncAssumption
  <2>4. \A p \in 1..Parts : p < sync.part + 1 =>
          \E b \in Boxes : <<b, sync.event, p>> \in staged'
    BY <2>1, <2>2, <2>3, BufferGrows DEF SyncStaged, CursorInv
  <2>5. sync'.event = sync.event /\ sync'.from = sync.from
    BY <1>6 DEF Stage, TypeInv, TypeOK, SyncType
  <2>6. CASE sync.part < Parts
    <3>1. sync'.pc = "stage" /\ sync'.part = sync.part + 1
      BY <1>6, <2>6 DEF Stage, TypeInv, TypeOK, SyncType
    <3> QED
      BY <1>0, <2>1, <2>4, <2>5, <3>1, BufferGrows DEF SyncStaged, CursorInv
  <2>7. CASE ~(sync.part < Parts)
    <3>1. sync'.pc = "advance"
      BY <1>6, <2>7 DEF Stage, TypeInv, TypeOK, SyncType
    <3>2. \A p \in 1..Parts : p < sync.part + 1
      BY <2>1, <2>7, SyncAssumption
    <3>3. InBuffer(sync.event)'
      BY <2>4, <2>5, <3>2 DEF InBuffer
    <3> QED
      BY <1>0, <2>1, <2>5, <3>1, <3>3, BufferGrows DEF SyncStaged, CursorInv
  <2> QED
    BY <2>6, <2>7
<1>7. BeginSync \/ UseToken \/ FailSync => sync'.pc \in {"idle", "token", "snapshot"}
  BY Idle DEF BeginSync, UseToken, FailSync, Finish, TypeInv, TypeOK, SyncType
<1>8. Arrive \/ SelectNone \/ UNCHANGED vars => sync' = sync
  BY DEF Arrive, SelectNone, vars
<1> QED
  BY <1>2, <1>3, <1>4, <1>5, <1>6, <1>7, <1>8

LEMMA CursorInvInductive == TypeInv /\ CursorInv /\ [Next]_vars => CursorInv'
<1> SUFFICES ASSUME TypeInv, CursorInv, [Next]_vars PROVE CursorInv'
  OBVIOUS
<1>0. /\ StagedBehindCursor /\ SyncStaged /\ CopyBehind
      /\ row \in StateType /\ mem \in StateType /\ sync \in SyncType /\ admin \in AdminType
  BY DEF CursorInv, TypeInv, TypeOK
<1>1. CASE Start
  <2>1. sync' = sync /\ sync.pc = "idle" /\ admin' = admin /\ admin.pc = "idle"
    BY <1>1 DEF Start, TypeInv, TypeOK
  <2>2. mem' = row'
    BY <1>1 DEF Start
  <2>3. \/ row'.cursor = 0
        \/ row'.cursor = row.cursor /\ (row'.from = row.from \/ row.from = 0)
    BY <1>0, <1>1 DEF Start, StateType
  <2>4. \A e \in Events : 0 <= e /\ ~(e <= 0)
    BY SyncAssumption DEF Events
  <2>5. Behind(row)'
    BY <1>0, <2>3, <2>4, BufferGrows DEF StagedBehindCursor, Behind
  <2> QED
    BY <2>1, <2>2, <2>5 DEF CursorInv, StagedBehindCursor, SyncStaged, CopyBehind, Behind
<1>2. CASE Crash
  <2>1. row' = row /\ mem'.cursor = 0 /\ sync'.pc = "idle" /\ admin'.pc = "idle"
    BY <1>2, Idle DEF Crash, Blank
  <2>2. Behind(mem)'
    BY <2>1, SyncAssumption DEF Behind, Events
  <2> QED
    BY <1>0, <2>1, <2>2, SaveBehind DEF CursorInv, SyncStaged, CopyBehind
<1>3. CASE RefreshToken \/ Grant
  <2>1. /\ mem' \in StateType /\ mem'.cursor = mem.cursor /\ mem'.from = mem.from
        /\ row' = row \/ row' = Saved(mem')
        /\ admin' = admin
    BY <1>0, <1>3 DEF RefreshToken, Grant, StateType, TypeInv, TypeOK
  <2>2. Behind(mem)'
    BY <1>0, <2>1, BehindKept DEF StagedBehindCursor, Behind
  <2>3. StagedBehindCursor'
    BY <1>0, <2>1, <2>2, SavedCursor, SaveBehind
  <2>4. CopyBehind'
    BY <1>0, <2>1, BehindKept DEF CopyBehind, Behind
  <2>5. sync' = sync \/ sync'.pc \in {"idle", "snapshot"}
    BY <1>0, <1>3, Idle DEF RefreshToken, Grant, Finish, SyncType
  <2>6. SyncStaged'
    <3>1. CASE sync' = sync
      BY <1>0, <2>1, <3>1, SyncStagedKept
    <3>2. CASE sync'.pc \in {"idle", "snapshot"}
      BY <3>2 DEF SyncStaged
    <3> QED
      BY <2>5, <3>1, <3>2
  <2> QED
    BY <2>3, <2>4, <2>6 DEF CursorInv
<1>4. CASE Advance
  <2>1. /\ mem' \in StateType /\ mem'.cursor = sync.event /\ mem'.from = mem.from
        /\ row' = row \/ row' = Saved(mem')
        /\ admin' = admin /\ sync.pc = "advance" /\ sync.event \in Events
    BY <1>0, <1>4 DEF Advance, StateType, TypeInv, AtEvent
  <2>2. mem.from = sync.from
        /\ \A e \in Events : sync.from <= e /\ e <= sync.event => InBuffer(e)'
    <3>1. \A e \in Events : e <= sync.event => e < sync.event \/ e = sync.event
      BY <2>1, SyncAssumption DEF Events
    <3> QED
      BY <1>0, <2>1, <3>1, BufferGrows DEF SyncStaged
  <2>3. Behind(mem)'
    BY <2>1, <2>2 DEF Behind
  <2>4. StagedBehindCursor'
    BY <1>0, <2>1, <2>3, SavedCursor, SaveBehind
  <2>5. CopyBehind'
    BY <1>0, <2>1, BehindKept DEF CopyBehind, Behind
  <2>6. SyncStaged'
    <3>1. CASE sync' = [sync EXCEPT !.pc = "stage", !.event = @ + 1, !.part = 1]
      <4>1. /\ sync'.pc = "stage" /\ sync'.event = sync.event + 1
            /\ sync'.part = 1 /\ sync'.from = sync.from
        BY <1>0, <3>1 DEF SyncType
      <4>2. \A e \in Events : e < sync.event + 1 => e <= sync.event
        BY <2>1, SyncAssumption DEF Events
      <4>3. \A p \in 1..Parts : ~(p < 1)
        BY SyncAssumption
      <4> QED
        BY <2>1, <2>2, <4>1, <4>2, <4>3 DEF SyncStaged
    <3>2. CASE sync' = [sync EXCEPT !.pc = "fetch", !.cursor = sync.event]
      <4>1. sync'.pc = "fetch" /\ sync'.cursor = sync.event /\ sync'.from = sync.from
        BY <1>0, <3>2 DEF SyncType
      <4> QED
        BY <2>1, <2>2, <4>1 DEF SyncStaged
    <3>3. CASE sync' = IdleSync
      BY <3>3, Idle DEF SyncStaged
    <3> QED
      BY <1>4, <3>1, <3>2, <3>3 DEF Advance, Finish
  <2> QED
    BY <2>4, <2>5, <2>6 DEF CursorInv
<1>5. CASE SelectBox
  <2>1. /\ mem' \in StateType /\ mem'.from = mem.from
        /\ mem'.cursor = mem.cursor \/ mem'.cursor = 0
        /\ row' = row \/ row' = Saved(mem')
        /\ admin' = admin /\ sync' = sync
    BY <1>0, <1>5, SyncAssumption DEF SelectBox, StateType
  <2>2. \A e \in Events : ~(e <= 0)
    BY SyncAssumption DEF Events
  <2>3. Behind(mem)'
    BY <1>0, <2>1, <2>2, BufferGrows DEF StagedBehindCursor, Behind
  <2>4. StagedBehindCursor'
    BY <1>0, <2>1, <2>3, SavedCursor, SaveBehind
  <2>5. CopyBehind'
    BY <1>0, <2>1, BehindKept DEF CopyBehind, Behind
  <2>6. SyncStaged'
    BY <1>0, <2>1, SyncStagedKept
  <2> QED
    BY <2>4, <2>5, <2>6 DEF CursorInv
<1>6. ASSUME NEW request \in Requests, Ask(request) PROVE CursorInv'
  <2>1. /\ mem' = mem /\ sync' = sync /\ sync.pc = "idle" /\ admin'.pc = "load"
        /\ row' = Change(row, request)
    BY <1>6, Idle DEF Ask, PollMuFree, AdminType
  <2>2. row'.cursor = 0 \/ (row'.cursor = row.cursor /\ row'.from = row.from)
    BY <1>0, <2>1 DEF Change, StateType
  <2>3. \A e \in Events : ~(e <= 0)
    BY SyncAssumption DEF Events
  <2>4. StagedBehindCursor'
    BY <1>0, <2>1, <2>2, <2>3, BufferGrows DEF StagedBehindCursor, Behind
  <2> QED
    BY <2>1, <2>4 DEF CursorInv, CopyBehind, SyncStaged
<1>7. CASE Reload
  <2>1. /\ row' = row /\ mem' = mem /\ sync' = sync
        /\ admin'.pc = "assign" => admin'.copy = row
    BY <1>0, <1>7, Idle DEF Reload, AdminType
  <2>2. StagedBehindCursor'
    BY <1>0, <2>1, BufferGrows DEF StagedBehindCursor, Behind
  <2>3. SyncStaged'
    BY <1>0, <2>1, SyncStagedKept
  <2> QED
    BY <2>1, <2>2, <2>3 DEF CursorInv, CopyBehind, StagedBehindCursor, Behind
<1>8. CASE Assign
  <2>1. /\ row' = row /\ mem' = admin.copy /\ sync' = sync
        /\ admin.pc = "assign" /\ admin'.pc = "idle" /\ sync.pc = "idle"
    BY <1>0, <1>8 DEF Assign, AdminType, TypeInv, TypeOK
  <2>2. Behind(mem)'
    BY <1>0, <2>1, BufferGrows DEF CopyBehind, Behind
  <2> QED
    BY <1>0, <2>1, <2>2, SaveBehind DEF CursorInv, CopyBehind, SyncStaged
<1> QED
  BY <1>1, <1>2, <1>3, <1>4, <1>5, <1>6, <1>7, <1>8, WorkStaged DEF Next, Work

\* "Each qualifying attachment is stored and parsed before its event cursor is
\* advanced": no cursor, saved or in memory, is ever past an event whose
\* documents are not in the buffer, whatever fails or is asked meanwhile.
THEOREM CursorIsBehind == Spec => []StagedBehindCursor
<1>1. Init => TypeInv /\ CursorInv
  BY InitTyped, Idle, EmptyCursor
     DEF Init, CursorInv, StagedBehindCursor, SyncStaged, CopyBehind, Blank
<1>2. TypeInv /\ CursorInv /\ [Next]_vars => (TypeInv /\ CursorInv)'
  BY TypeInvInductive, CursorInvInductive
<1>3. CursorInv => StagedBehindCursor
  BY DEF CursorInv
<1> QED
  BY <1>1, <1>2, <1>3, PTL DEF Spec
-----------------------------------------------------------------------------
(* The switch                                                              *)

\* Whatever the administrator has been told, the row and the copy say so, and
\* what is under way has still to look at them.
PauseInv ==
    /\ told.polling = "paused" =>
         /\ row.polling = "paused"
         /\ up => mem.polling = "paused"
         /\ sync.pc \in {"idle", "token", "snapshot"}
    /\ admin.pc # "idle" /\ admin.request.kind = "paused" => row.polling = "paused"
    /\ admin.pc = "assign" => admin.copy.polling = row.polling

\* The saves of the manager do not touch the switch.
LEMMA SwitchKept ==
    ASSUME TypeInv, RefreshToken \/ Advance \/ Grant \/ SelectBox
    PROVE  /\ row'.polling = row.polling /\ mem'.polling = mem.polling
           /\ up' = up /\ admin' = admin
           /\ told'.polling = told.polling
<1>1. row \in StateType /\ mem \in StateType /\ told \in ToldType
  BY DEF TypeInv, TypeOK, ToldType
<1>2. mem' \in StateType /\ mem'.polling = mem.polling
  <2>1. CASE RefreshToken \/ Grant
    BY <1>1, <2>1 DEF RefreshToken, Grant, StateType, TypeInv, TypeOK
  <2>2. CASE Advance
    BY <1>1, <2>2 DEF Advance, StateType, TypeInv, AtEvent
  <2>3. CASE SelectBox
    BY <1>1, <2>3, SyncAssumption DEF SelectBox, StateType
  <2> QED
    BY <2>1, <2>2, <2>3
<1>3. row' = row \/ row' = Saved(mem')
  BY DEF RefreshToken, Advance, Grant, SelectBox
<1>4. row'.polling = row.polling
  BY <1>1, <1>2, <1>3 DEF Saved, StateType
<1>5. told'.polling = told.polling
  BY <1>1 DEF RefreshToken, Advance, Grant, SelectBox, ToldType
<1> QED
  BY <1>2, <1>4, <1>5 DEF RefreshToken, Advance, Grant, SelectBox

LEMMA PauseInvInductive == TypeInv /\ PauseInv /\ [Next]_vars => PauseInv'
<1> SUFFICES ASSUME TypeInv, PauseInv, [Next]_vars PROVE PauseInv'
  OBVIOUS
<1>0. /\ row \in StateType /\ mem \in StateType /\ told \in ToldType
      /\ sync \in SyncType /\ admin \in AdminType
  BY DEF TypeInv, TypeOK, ToldType
<1>1. CASE Start
  <2>1. row'.polling = row.polling /\ mem' = row'
        /\ UNCHANGED <<told, sync, admin>>
    BY <1>0, <1>1 DEF Start, StateType
  <2> QED
    BY <2>1 DEF PauseInv
<1>2. CASE Crash
  BY <1>2, Idle DEF Crash, PauseInv
<1>3. CASE RefreshToken \/ Grant \/ SelectBox
  <2>1. sync' = sync \/ (sync.pc = "token" /\ sync'.pc \in {"idle", "snapshot"})
    BY <1>0, <1>3, Idle DEF RefreshToken, Grant, SelectBox, Finish, SyncType
  <2> QED
    BY <1>3, <2>1, SwitchKept DEF PauseInv
<1>4. CASE Advance
  BY <1>4, SwitchKept DEF PauseInv, Advance
<1>5. CASE BeginSync \/ UseToken \/ Snapshot \/ Fetch \/ Stage \/ FailSync
  <2>1. UNCHANGED <<row, up, mem, admin, told>>
    BY <1>5 DEF BeginSync, UseToken, Snapshot, Fetch, Stage, FailSync
  <2>2. told.polling = "paused" => sync'.pc \in {"idle", "token", "snapshot"}
    <3> SUFFICES ASSUME told.polling = "paused"
                 PROVE  sync'.pc \in {"idle", "token", "snapshot"}
      OBVIOUS
    <3>1. sync.pc \in {"idle", "token", "snapshot"} /\ (up => mem.polling = "paused")
      BY DEF PauseInv
    <3>2. sync.pc # "idle" => up
      BY DEF TypeInv, TypeOK
    <3> QED
      BY <1>0, <1>5, <3>1, <3>2, Idle
         DEF BeginSync, UseToken, Snapshot, Fetch, Stage, FailSync, Finish, SyncType
  <2> QED
    BY <2>1, <2>2 DEF PauseInv
<1>6. ASSUME NEW request \in Requests, Ask(request) PROVE PauseInv'
  <2>1. /\ UNCHANGED <<up, mem, sync>> /\ sync.pc = "idle"
        /\ row' = Change(row, request)
        /\ admin'.pc = "load" /\ admin'.request = request
    BY <1>6, Idle DEF Ask, PollMuFree, AdminType, IdleAdmin
  <2>2. CASE request.kind = "replay"
    <3>1. row'.polling = row.polling /\ told'.polling = told.polling
      BY <1>0, <1>6, <2>1, <2>2 DEF Ask, Change, StateType, ToldType
    <3> QED
      BY <2>1, <2>2, <3>1 DEF PauseInv
  <2>3. CASE request.kind = "enabled"
    <3>1. told'.polling = "enabled"
      BY <1>0, <1>6, <2>3 DEF Ask, ToldType
    <3> QED
      BY <2>1, <2>3, <3>1 DEF PauseInv
  <2>4. CASE request.kind = "paused"
    <3>1. row'.polling = "paused" /\ told' = told
      BY <1>0, <1>6, <2>1, <2>4 DEF Ask, Change, StateType
    <3> QED
      BY <2>1, <2>4, <3>1 DEF PauseInv
  <2> QED
    BY <2>2, <2>3, <2>4, RequestKinds
<1>7. CASE Reload
  <2>1. /\ UNCHANGED <<row, up, mem, sync, told>> /\ admin.pc = "load"
        /\ \/ admin'.pc = "idle"
           \/ admin'.pc = "assign" /\ admin'.copy = row /\ admin'.request = admin.request
    BY <1>0, <1>7, Idle DEF Reload, AdminType
  <2> QED
    BY <2>1 DEF PauseInv
<1>8. CASE Assign
  <2>1. /\ UNCHANGED <<row, up, sync>> /\ mem'.polling = row.polling
        /\ admin'.pc = "idle" /\ sync.pc = "idle"
    BY <1>0, <1>8 DEF Assign, AdminType, PauseInv, TypeInv, TypeOK
  <2>2. told'.polling = "paused" => row.polling = "paused"
    <3>1. admin.request \in Requests /\ admin.pc = "assign"
      BY <1>0, <1>8 DEF Assign, AdminType
    <3>2. told'.polling = "paused" =>
            told.polling = "paused" \/ admin.request.kind = "paused"
      BY <1>0, <1>8, <3>1, RequestKinds DEF Assign, ToldType
    <3> QED
      BY <3>1, <3>2 DEF PauseInv
  <2> QED
    BY <2>1, <2>2 DEF PauseInv
<1>9. CASE Arrive \/ SelectNone \/ UNCHANGED vars
  BY <1>9 DEF Arrive, SelectNone, vars, PauseInv
<1> QED
  BY <1>1, <1>2, <1>3, <1>4, <1>5, <1>6, <1>7, <1>8, <1>9 DEF Next, Work

\* While the administrator has been told that polling is paused nothing is
\* staged, although the callback goes on saving its own copy of the row.
THEOREM PauseStands == Spec => PauseIsObeyed
<1>1. Init => TypeInv /\ PauseInv
  BY InitTyped, Idle DEF Init, PauseInv
<1>2. TypeInv /\ PauseInv /\ [Next]_vars => (TypeInv /\ PauseInv)'
  BY TypeInvInductive, PauseInvInductive
<1>3. PauseInv /\ [Next]_vars => [told.polling = "paused" => staged' = staged]_vars
  BY DEF PauseInv, Next, Work, vars, Start, Crash, Arrive, BeginSync, UseToken,
         RefreshToken, Snapshot, Fetch, Stage, Advance, FailSync, Ask, Reload,
         Assign, Grant, SelectBox, SelectNone
<1> QED
  BY <1>1, <1>2, <1>3, PTL DEF Spec, PauseIsObeyed
=============================================================================
