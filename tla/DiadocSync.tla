------------------------------ MODULE DiadocSync ------------------------------
(***************************************************************************)
(* The synchronisation with Diadoc (internal/integrations/diadoc/          *)
(* manager.go, store.go; services/diadocState.go).  A worker fetches pages *)
(* of events, stages their documents, and after each event moves a cursor. *)
(* The cursor, the tokens and the box are one row of the database, of      *)
(* which the manager keeps a copy in memory; every save writes the whole   *)
(* copy.  The worker and the administrator's requests exclude each other   *)
(* by pollMu, the authorization callback takes stateMu only, for each of   *)
(* its two saves.  A critical section of stateMu is one step.              *)
(*                                                                         *)
(* Events of the box are numbered in the order of their index keys and     *)
(* times; a cursor is the number of an event, and 0 the empty one.         *)
(***************************************************************************)
EXTENDS Integers

CONSTANTS Boxes,        \* spellings of the identifier of one box
          NoBox,
          ConfigBox,    \* diadoc.box_id, or NoBox
          ApiBox,       \* the identifier GetMyOrganizations returns
          ConfigFrom,   \* diadoc.event_timestamp_from, or 0
          Parts,        \* documents of an event
          EventLimit,   \* diadoc.event_limit
          MaxEvents, MaxRequests, MaxTokens, MaxFaults      \* bounds

ASSUME SyncAssumption ==
    /\ NoBox \notin Boxes
    /\ ConfigBox \in Boxes \cup {NoBox}
    /\ ApiBox \in Boxes
    /\ MaxEvents \in Nat
    /\ ConfigFrom \in 0..(MaxEvents + 1)
    /\ Parts \in Nat \ {0}
    /\ EventLimit \in Nat \ {0}
    /\ MaxRequests \in Nat /\ MaxTokens \in Nat /\ MaxFaults \in Nat

VARIABLES row,          \* integration_diadoc.state
          up, mem,      \* the process, and its copy of the row
          arrived,      \* events of the box so far
          staged,       \* identities in integration_diadoc.documents
          sync,         \* the worker, or a synchronisation on request
          admin,        \* a request that changes the row
          grant,        \* the authorization callback
          told,         \* what the administrator may rely on
          tokens, requests, faults      \* counters

vars == <<row, up, mem, arrived, staged, sync, admin, grant, told,
          tokens, requests, faults>>

Dates == 1..(MaxEvents + 1)
Events == 1..MaxEvents

Blank == [box |-> NoBox, token |-> 0, cursor |-> 0, from |-> 0, polling |-> "enabled"]
IdleSync == [pc |-> "idle", box |-> NoBox, cursor |-> 0, from |-> 0,
             event |-> 0, last |-> 0, part |-> 0]
Requests == [kind : {"replay"}, from : Dates] \cup [kind : {"paused", "enabled"}, from : {0}]
IdleAdmin == [pc |-> "idle", request |-> [kind |-> "enabled", from |-> 0], copy |-> Blank]

PollMuFree == sync.pc = "idle" /\ admin.pc = "idle"

\* Save writes everything but the switch.
Saved(state) == [state EXCEPT !.polling = row.polling]

Fault == faults < MaxFaults /\ faults' = faults + 1

-----------------------------------------------------------------------------

\* NewManager: a configured box replaces the stored one, if it is written
\* differently, and then cursor and date start anew.
Start ==
    /\ ~up
    /\ LET moved == ConfigBox # NoBox /\ ConfigBox # row.box
           from  == IF moved THEN 0 ELSE row.from
           state == [row EXCEPT
                       !.box    = IF moved THEN ConfigBox ELSE @,
                       !.cursor = IF moved THEN 0 ELSE @,
                       !.from   = CASE from # 0       -> from
                                    [] from = 0 /\ ConfigFrom # 0 -> ConfigFrom
                                    [] OTHER          -> arrived + 1]
       IN  row' = state /\ mem' = state
    /\ up' = TRUE
    /\ UNCHANGED <<arrived, staged, sync, admin, grant, told, tokens, requests, faults>>

Crash ==
    /\ up
    /\ Fault
    /\ up' = FALSE
    /\ mem' = Blank
    /\ sync' = IdleSync
    /\ admin' = IdleAdmin
    /\ grant' = "idle"
    /\ UNCHANGED <<row, arrived, staged, told, tokens, requests>>

Arrive ==
    /\ arrived < MaxEvents
    /\ arrived' = arrived + 1
    /\ UNCHANGED <<row, up, mem, staged, sync, admin, grant, told, tokens, requests, faults>>

-----------------------------------------------------------------------------
(* Sync: the ticker, a wake-up or a request starts it; pollMu is held.     *)

Finish == sync' = IdleSync

BeginSync ==
    /\ up
    /\ PollMuFree
    /\ sync' = [IdleSync EXCEPT !.pc = "token"]
    /\ UNCHANGED <<row, up, mem, arrived, staged, admin, grant, told, tokens, requests, faults>>

\* accessToken: there is no token, or it is valid.
UseToken ==
    /\ sync.pc = "token"
    /\ IF mem.token = 0 THEN Finish ELSE sync' = [sync EXCEPT !.pc = "snapshot"]
    /\ UNCHANGED <<row, up, mem, arrived, staged, admin, grant, told, tokens, requests, faults>>

\* accessToken: it has to be refreshed, and is saved, or the save fails.
RefreshToken ==
    /\ sync.pc = "token"
    /\ mem.token # 0
    /\ tokens < MaxTokens
    /\ tokens' = tokens + 1
    /\ mem' = [mem EXCEPT !.token = tokens + 1]
    /\ \/ /\ row' = Saved(mem')
          /\ sync' = [sync EXCEPT !.pc = "snapshot"]
          /\ UNCHANGED faults
       \/ Fault /\ Finish /\ UNCHANGED row
    /\ UNCHANGED <<up, arrived, staged, admin, grant, told, requests>>

Snapshot ==
    /\ sync.pc = "snapshot"
    /\ IF mem.polling = "enabled" /\ mem.box # NoBox
       THEN sync' = [sync EXCEPT !.pc = "fetch", !.box = mem.box,
                                 !.cursor = mem.cursor, !.from = mem.from]
       ELSE Finish
    /\ UNCHANGED <<row, up, mem, arrived, staged, admin, grant, told, tokens, requests, faults>>

\* GetNewEvents returns events after the cursor and not before the date, in
\* their order, from First to Last; sync.cursor moves from page to page.
First == IF sync.cursor < sync.from THEN sync.from ELSE sync.cursor + 1
FullPage == First + EventLimit - 1
Last == IF arrived < FullPage THEN arrived ELSE FullPage
Page == [sync EXCEPT !.pc = "stage", !.event = First, !.last = Last, !.part = 1]

\* Mutant: a page that is not full is taken for the end.
FetchFullPages ==
    /\ sync.pc = "fetch"
    /\ IF FullPage <= arrived THEN sync' = Page ELSE Finish
    /\ UNCHANGED <<row, up, mem, arrived, staged, admin, grant, told, tokens, requests, faults>>

Fetch ==
    /\ sync.pc = "fetch"
    /\ IF First <= arrived THEN sync' = Page ELSE Finish
    /\ UNCHANGED <<row, up, mem, arrived, staged, admin, grant, told, tokens, requests, faults>>

\* processEvent: one document after the other is downloaded, parsed and
\* staged; a failed download is staged as well.
Stage ==
    /\ sync.pc = "stage"
    /\ staged' = staged \cup {<<sync.box, sync.event, sync.part>>}
    /\ sync' = IF sync.part < Parts THEN [sync EXCEPT !.part = @ + 1]
                                    ELSE [sync EXCEPT !.pc = "advance"]
    /\ UNCHANGED <<row, up, mem, arrived, admin, grant, told, tokens, requests, faults>>

\* setAfterIndexKey, then the next event, the next page, or the end: a page
\* that is not full is the last, and so may be any that a request fetches.
Advance ==
    /\ sync.pc = "advance"
    /\ mem' = [mem EXCEPT !.cursor = sync.event]
    /\ told' = [told EXCEPT !.replay = 0]
    /\ \/ /\ row' = Saved(mem')
          /\ \/ /\ sync.event < sync.last
                /\ sync' = [sync EXCEPT !.pc = "stage", !.event = @ + 1, !.part = 1]
             \/ /\ sync.event = sync.last
                /\ sync.last = FullPage
                /\ sync' = [sync EXCEPT !.pc = "fetch", !.cursor = sync.event]
             \/ sync.event = sync.last /\ Finish
          /\ UNCHANGED faults
       \/ Fault /\ Finish /\ UNCHANGED row
    /\ UNCHANGED <<up, arrived, staged, admin, grant, tokens, requests>>

\* Mutant: an event that fails is passed over.
PassOver ==
    /\ sync.pc \in {"token", "fetch", "stage"}
    /\ Fault
    /\ IF sync.pc = "stage" THEN sync' = [sync EXCEPT !.pc = "advance"] ELSE Finish
    /\ UNCHANGED <<row, up, mem, arrived, staged, admin, grant, told, tokens, requests>>

\* Diadoc or the database refuses, and Sync returns the error.
FailSync ==
    /\ sync.pc \in {"token", "fetch", "stage"}
    /\ Fault
    /\ Finish
    /\ UNCHANGED <<row, up, mem, arrived, staged, admin, grant, told, tokens, requests>>

-----------------------------------------------------------------------------
(* UpdateState and Replay: under pollMu the row is written, loaded, and    *)
(* made the manager's copy.  Requests that are refused leave no trace.     *)

Change(state, request) ==
    IF request.kind = "replay" THEN [state EXCEPT !.from = request.from, !.cursor = 0]
                               ELSE [state EXCEPT !.polling = request.kind]

\* Mutant: the synchronisation is not locked.
AskUnlocked(request) ==
    /\ up
    /\ admin.pc = "idle"
    /\ requests < MaxRequests
    /\ request.from <= arrived + 1        \* not in the future
    /\ requests' = requests + 1
    /\ row' = Change(row, request)
    /\ admin' = [IdleAdmin EXCEPT !.pc = "load", !.request = request]
    /\ told' = CASE request.kind = "replay"  -> [told EXCEPT !.replay = 0]
                 [] request.kind = "enabled" -> [told EXCEPT !.polling = "enabled"]
                 [] request.kind = "paused"  -> told
    /\ UNCHANGED <<up, mem, arrived, staged, sync, grant, tokens, faults>>

Ask(request) ==
    /\ up
    /\ PollMuFree
    /\ requests < MaxRequests
    /\ request.from <= arrived + 1        \* not in the future
    /\ requests' = requests + 1
    /\ row' = Change(row, request)
    /\ admin' = [IdleAdmin EXCEPT !.pc = "load", !.request = request]
    /\ told' = CASE request.kind = "replay"  -> [told EXCEPT !.replay = 0]
                 [] request.kind = "enabled" -> [told EXCEPT !.polling = "enabled"]
                 [] request.kind = "paused"  -> told
    /\ UNCHANGED <<up, mem, arrived, staged, sync, grant, tokens, faults>>

\* ReloadState reads the row before it takes stateMu, or fails to read it.
Reload ==
    /\ admin.pc = "load"
    /\ \/ /\ admin' = [admin EXCEPT !.pc = "assign", !.copy = row]
          /\ UNCHANGED faults
       \/ Fault /\ admin' = IdleAdmin
    /\ UNCHANGED <<row, up, mem, arrived, staged, sync, grant, told, tokens, requests>>

Assign ==
    /\ admin.pc = "assign"
    /\ mem' = admin.copy
    /\ admin' = [admin EXCEPT !.pc = "idle", !.copy = Blank]
    /\ told' = IF admin.request.kind = "replay"
               THEN [told EXCEPT !.replay = admin.request.from]
               ELSE [told EXCEPT !.polling = admin.request.kind]
    /\ UNCHANGED <<row, up, arrived, staged, sync, grant, tokens, requests, faults>>

-----------------------------------------------------------------------------
(* CompleteAuthorization, for a callback whose state is the expected one.  *)

\* saveToken
Grant ==
    /\ up
    /\ grant = "idle"
    /\ tokens < MaxTokens
    /\ tokens' = tokens + 1
    /\ mem' = [mem EXCEPT !.token = tokens + 1]
    /\ \/ row' = Saved(mem') /\ grant' = "box" /\ UNCHANGED faults
       \/ Fault /\ UNCHANGED <<row, grant>>
    /\ UNCHANGED <<up, arrived, staged, sync, admin, told, requests>>

\* GetMyOrganizations, selectBox and setBoxID.  A configured or stored box is
\* found whatever its spelling; otherwise a single one is taken.
SelectBox ==
    /\ grant = "box"
    /\ grant' = "idle"
    /\ mem' = [mem EXCEPT !.box = ApiBox,
                          !.cursor = IF mem.box \in {NoBox, ApiBox} THEN @ ELSE 0]
    /\ \/ row' = Saved(mem') /\ UNCHANGED faults
       \/ Fault /\ UNCHANGED row
    /\ UNCHANGED <<up, arrived, staged, sync, admin, told, tokens, requests>>

\* The list fails, or there are several boxes to choose from.
SelectNone ==
    /\ grant = "box"
    /\ Fault
    /\ grant' = "idle"
    /\ UNCHANGED <<row, up, mem, arrived, staged, sync, admin, told, tokens, requests>>

-----------------------------------------------------------------------------
Init ==
    /\ row = Blank
    /\ up = FALSE /\ mem = Blank
    /\ arrived = 0 /\ staged = {}
    /\ sync = IdleSync /\ admin = IdleAdmin /\ grant = "idle"
    /\ told = [polling |-> "enabled", replay |-> 0]
    /\ tokens = 0 /\ requests = 0 /\ faults = 0

Work == BeginSync \/ UseToken \/ RefreshToken \/ Snapshot \/ Fetch \/ Stage \/ Advance

Next ==
    \/ Start \/ Crash \/ Arrive
    \/ Work \/ FailSync
    \/ \E request \in Requests : Ask(request)
    \/ Reload \/ Assign
    \/ Grant \/ SelectBox \/ SelectNone

\* The worker goes on, woken by its ticker at the latest, and so do the
\* requests that have begun.  Nobody is bound to start, to ask, to authorize.
Fairness == WF_vars(Work) /\ WF_vars(Reload \/ Assign) /\ WF_vars(SelectBox)

Spec == Init /\ [][Next]_vars /\ Fairness
-----------------------------------------------------------------------------
(* Properties                                                              *)

StateType == [box : Boxes \cup {NoBox}, token : Nat, cursor : {0} \cup Events,
              from : {0} \cup Dates, polling : {"enabled", "paused"}]
SyncType == [pc : {"idle", "token", "snapshot", "fetch", "stage", "advance"},
             box : Boxes \cup {NoBox}, cursor : {0} \cup Events,
             from : {0} \cup Dates, event : {0} \cup Events,
             last : {0} \cup Events, part : 0..Parts]
AdminType == [pc : {"idle", "load", "assign"}, request : Requests, copy : StateType]

\* Type invariant: a synchronisation and a request never overlap, nothing
\* runs in a process that is down, and a manager always has a starting date.
TypeOK ==
    /\ row \in StateType
    /\ up \in BOOLEAN
    /\ mem \in StateType
    /\ arrived \in 0..MaxEvents
    /\ staged \subseteq Boxes \X Events \X (1..Parts)
    /\ sync \in SyncType
    /\ admin \in AdminType
    /\ grant \in {"idle", "box"}
    /\ told \in [polling : {"enabled", "paused"}, replay : {0} \cup Dates]
    /\ tokens \in Nat /\ requests \in 0..MaxRequests /\ faults \in 0..MaxFaults
    /\ sync.pc = "idle" \/ admin.pc = "idle"
    /\ ~up => sync.pc = "idle" /\ admin.pc = "idle" /\ grant = "idle"
    /\ up => row.from # 0 /\ mem.from # 0

\* All documents of the event are in the buffer.
InBuffer(e) == \A p \in 1..Parts : \E b \in Boxes : <<b, e, p>> \in staged

Behind(state) == \A e \in Events : state.from <= e /\ e <= state.cursor => InBuffer(e)

\* "Each qualifying attachment is stored and parsed before its event cursor
\* is advanced": no cursor, in the row or in memory, is past an event whose
\* documents are not all in the buffer; not after a crash, not when the box
\* is selected or the row replaced while a synchronisation is under way.
StagedBehindCursor == Behind(row) /\ Behind(mem)

\* While the administrator has been told that polling is paused, nothing is
\* staged: no synchronisation is still under way, and no save, reload or
\* restart turns the switch back.
PauseIsObeyed == [][ told.polling = "paused" => staged' = staged ]_vars

\* Every event is staged in the end, unless its date is excluded by a replay:
\* failed synchronisations are repeated, and no event is passed over.
EveryEventStaged ==
    <>[](up /\ mem.token # 0 /\ mem.polling = "enabled" /\ mem.box # NoBox) =>
      \A e \in Events :
         [](e <= arrived /\ mem.from <= e => <>(InBuffer(e) \/ e < mem.from))
=============================================================================
