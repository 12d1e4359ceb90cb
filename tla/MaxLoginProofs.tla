---------------------------- MODULE MaxLoginProofs ----------------------------
(***************************************************************************)
(* Theorems about MaxLogin, for any windows, sessions, users, contacts,    *)
(* accounts, requests and bounds.                                          *)
(***************************************************************************)
EXTENDS MaxLogin, TLAPS

-----------------------------------------------------------------------------
(* What the steps do to single rows.                                       *)

\* Changing the status of some requests leaves the others, and everything
\* else about these, alone.
LEMMA WithStatusType ==
    ASSUME TypeOK, NEW of \in SUBSET Requests, NEW status \in Statuses,
           \A r \in of : Existing(r)
    PROVE  WithStatus(of, status) \in [Requests -> RequestRows \cup {Null}]
BY DEF TypeOK, WithStatus, Existing, RequestRows

\* A phone number leads to an account and a user, or to none.
LEMMA ResolvedType ==
    ASSUME TypeOK, NEW phone
    PROVE  /\ Resolved(phone).account \in Accounts \cup {Null}
           /\ Resolved(phone).user \in Users \cup {Null}
<1>1. CASE \E who \in Candidates(phone) : Candidates(phone) = {who}
  <2> DEFINE chosen == CHOOSE who \in Candidates(phone) : TRUE
  <2>1. chosen \in Candidates(phone)
    BY <1>1
  <2>2. chosen \in Accounts \X Users
    BY <2>1 DEF Candidates
  <2> QED
    BY <1>1, <2>2 DEF Resolved
<1>2. CASE ~\E who \in Candidates(phone) : Candidates(phone) = {who}
  BY <1>2 DEF Resolved
<1> QED
  BY <1>1, <1>2

\* An update makes an account known, and keeps the contact it has.
LEMMA UpsertedType ==
    ASSUME TypeOK, NEW a \in Accounts
    PROVE  /\ Upserted(a) \in [Accounts -> AccountRows \cup {Null}]
           /\ Upserted(a)[a] \in AccountRows /\ Upserted(a)[a].active
           /\ \A other \in Accounts \ {a} : Upserted(a)[other] = accounts[other]
           /\ accounts[a] # Null => Upserted(a)[a].contact = accounts[a].contact
BY DEF TypeOK, Upserted, AccountRows

\* An account that has become known shares its contact.
LEMMA SharedType ==
    ASSUME NEW known \in [Accounts -> AccountRows \cup {Null}], NEW a \in Accounts,
           known[a] \in AccountRows, NEW contact \in Contacts
    PROVE  /\ [known EXCEPT ![a].contact = contact] \in [Accounts -> AccountRows \cup {Null}]
           /\ [known EXCEPT ![a].contact = contact][a] \in AccountRows
           /\ [known EXCEPT ![a].contact = contact][a].active = known[a].active
           /\ [known EXCEPT ![a].contact = contact][a].contact = contact
           /\ \A other \in Accounts \ {a} :
                 [known EXCEPT ![a].contact = contact][other] = known[other]
BY DEF AccountRows

\* An account that is blocked stays known.
LEMMA StoppedType ==
    ASSUME TypeOK, NEW a \in Accounts, accounts[a] # Null
    PROVE  /\ [accounts EXCEPT ![a].active = FALSE] \in [Accounts -> AccountRows \cup {Null}]
           /\ [accounts EXCEPT ![a].active = FALSE][a] \in AccountRows
           /\ [accounts EXCEPT ![a].active = FALSE][a].active = FALSE
           /\ [accounts EXCEPT ![a].active = FALSE][a].contact = accounts[a].contact
           /\ \A other \in Accounts \ {a} :
                 [accounts EXCEPT ![a].active = FALSE][other] = accounts[other]
BY DEF TypeOK, AccountRows

\* What a saved update has done to the account of its actor.
SavedAccount(update) ==
    LET a == update.actor IN
    /\ accounts' \in [Accounts -> AccountRows \cup {Null}]
    /\ \A other \in Accounts \ {a} : accounts'[other] = accounts[other]
    /\ accounts'[a] = Null => accounts[a] = Null /\ update.kind = "stopped"
    /\ accounts'[a] # Null => (accounts'[a].active <=> update.kind # "stopped")
    /\ accounts[a] # Null /\ accounts[a].contact # Null => accounts'[a].contact # Null
    /\ update.kind = "contact" => accounts'[a].contact # Null
    /\ edited' = edited \ {a}
    /\ unbound' = IF update.kind = "contact" THEN unbound \ {a} ELSE unbound

\* A saved update changes the account of its actor only; it makes that one
\* known and active, unless it says the bot was stopped.
LEMMA SavedAccounts ==
    ASSUME TypeOK, NEW n \in DOMAIN feed, SaveUpdate(n)
    PROVE  SavedAccount(feed[n])
<1> DEFINE update == feed[n]
           a == update.actor
<1>0. update \in Updates /\ a \in Accounts /\ update.kind \in Kinds
  <2>1. feed[n] \in Updates
    BY DEF TypeOK
  <2> QED
    BY <2>1 DEF Updates
<1>f. /\ edited' = edited \ {a}
      /\ unbound' = IF update.kind = "contact" THEN unbound \ {a} ELSE unbound
  BY DEF SaveUpdate
<1>1. CASE update.kind = "stopped"
  <2>1. accounts' = IF accounts[a] = Null THEN accounts
                    ELSE [accounts EXCEPT ![a].active = FALSE]
    BY <1>1 DEF SaveUpdate
  <2>2. CASE accounts[a] = Null
    BY <1>0, <1>f, <1>1, <2>1, <2>2 DEF SavedAccount, TypeOK
  <2>3. CASE accounts[a] # Null
    <3> DEFINE blocked == [accounts EXCEPT ![a].active = FALSE]
    <3>1. /\ blocked \in [Accounts -> AccountRows \cup {Null}]
          /\ blocked[a] \in AccountRows /\ blocked[a].active = FALSE
          /\ blocked[a].contact = accounts[a].contact
          /\ \A other \in Accounts \ {a} : blocked[other] = accounts[other]
      BY <1>0, <2>3, StoppedType
    <3>2. accounts' = blocked
      BY <2>1, <2>3
    <3> HIDE DEF blocked
    <3> QED
      BY <1>0, <1>f, <1>1, <2>3, <3>1, <3>2, LoginAssumption DEF SavedAccount
  <2> QED
    BY <2>2, <2>3
<1>2. CASE update.kind \in {"started", "approve", "decline"}
  <2>1. accounts' = Upserted(a)
    BY <1>2 DEF SaveUpdate
  <2> QED
    BY <1>0, <1>f, <1>2, <2>1, UpsertedType, LoginAssumption DEF SavedAccount
<1>3. CASE update.kind = "contact"
  <2>1. accounts' = IF Upserted(a)[a].contact # Null THEN Upserted(a)
                    ELSE [Upserted(a) EXCEPT ![a].contact = ContactOf[a]]
    BY <1>3 DEF SaveUpdate
  <2>2. ContactOf[a] \in Contacts /\ ContactOf[a] # Null
    BY <1>0, LoginAssumption
  <2>3. CASE Upserted(a)[a].contact # Null
    BY <1>0, <1>f, <1>3, <2>1, <2>3, UpsertedType, LoginAssumption DEF SavedAccount
  <2>4. CASE Upserted(a)[a].contact = Null
    <3> DEFINE known == Upserted(a)
    <3>1. /\ known \in [Accounts -> AccountRows \cup {Null}]
          /\ known[a] \in AccountRows /\ known[a].active
          /\ \A other \in Accounts \ {a} : known[other] = accounts[other]
      BY <1>0, UpsertedType
    <3> HIDE DEF known
    <3>2. accounts' = [known EXCEPT ![a].contact = ContactOf[a]]
      BY <2>1, <2>4 DEF known
    <3> QED
      BY <1>0, <1>f, <1>3, <2>2, <3>1, <3>2, SharedType, LoginAssumption DEF SavedAccount
  <2> QED
    BY <2>3, <2>4
<1> QED
  BY <1>0, <1>1, <1>2, <1>3 DEF Kinds

-----------------------------------------------------------------------------
(* Types, and how requests move on.                                        *)

\* Completions and callbacks name requests that are there.
Named ==
    /\ \A b \in Browsers : calls[b] # Null => Existing(calls[b].request)
    /\ \A n \in DOMAIN feed :
          IF feed[n].kind \in {"approve", "decline"}
          THEN feed[n].request # Null /\ Existing(feed[n].request)
          ELSE feed[n].request = Null

\* What may become of a request: it keeps whom it is for, and its status
\* only moves on.
Moved(old, new) ==
    /\ new \in RequestRows
    /\ new.session = old.session /\ new.phone = old.phone
    /\ new.account = old.account /\ new.user = old.user
    /\ \/ new.status = old.status
       \/ old.status = "pending" /\ new.status \in Statuses \ {"consumed"}
       \/ old.status = "approved" /\ new.status \in {"consumed", "expired"}

RequestsMoved(new) ==
    /\ new \in [Requests -> RequestRows \cup {Null}]
    /\ \A r \in Requests : Existing(r) => Moved(requests[r], new[r])

\* Doing nothing to the requests is a move.
LEMMA Unmoved == ASSUME TypeOK PROVE RequestsMoved(requests)
BY DEF TypeOK, RequestsMoved, Moved, Existing

\* A change of status that the lifecycle of requests allows is a move.
LEMMA WithStatusMoves ==
    ASSUME TypeOK, NEW of \in SUBSET Requests, NEW status \in Statuses,
           \A r \in of : /\ Existing(r)
                         /\ \/ requests[r].status = "pending" /\ status # "consumed"
                            \/ requests[r].status = "approved" /\ status \in {"consumed", "expired"}
    PROVE  RequestsMoved(WithStatus(of, status))
<1>1. requests \in [Requests -> RequestRows \cup {Null}]
  BY DEF TypeOK
<1>2. ASSUME NEW r \in Requests, Existing(r)
      PROVE  Moved(requests[r], WithStatus(of, status)[r])
  <2>1. requests[r] \in RequestRows
    BY <1>1, <1>2 DEF Existing
  <2>2. CASE r \in of
    <3>1. WithStatus(of, status)[r] = [requests[r] EXCEPT !.status = status]
      BY <2>2 DEF WithStatus
    <3> QED BY <2>1, <2>2, <3>1 DEF Moved, RequestRows
  <2>3. CASE r \notin of
    BY <2>1, <2>3 DEF WithStatus, Moved
  <2> QED BY <2>2, <2>3
<1>3. ASSUME NEW r \in Requests
      PROVE  WithStatus(of, status)[r] \in RequestRows \cup {Null}
  <2>1. CASE Existing(r)
    BY <1>2, <2>1 DEF Moved
  <2>2. CASE ~Existing(r)
    BY <1>1, <2>2 DEF WithStatus, Existing
  <2> QED BY <2>1, <2>2
<1>4. WithStatus(of, status) \in [Requests -> RequestRows \cup {Null}]
  BY <1>3 DEF WithStatus
<1> QED BY <1>2, <1>4 DEF RequestsMoved

\* A request that is not there yet can be added.
LEMMA AddingMoves ==
    ASSUME NEW moved, RequestsMoved(moved), NEW r \in Requests, ~Existing(r), NEW row \in RequestRows
    PROVE  RequestsMoved([moved EXCEPT ![r] = row])
BY DEF RequestsMoved

\* A decision of its account moves the request it is about, which is not
\* pending after it and approved only by the choice; the others stay as they
\* are, and so does every request when anybody else decides.
LEMMA DecidedMoves ==
    ASSUME TypeOK, NEW update \in Updates, NEW known, update.request # Null,
           Existing(update.request), update.kind \in {"approve", "decline"}
    PROVE  /\ RequestsMoved(Decided(update, known))
           /\ \A r \in Requests \ {update.request} : Decided(update, known)[r] = requests[r]
           /\ ~Pending(update.request) => Decided(update, known) = requests
           /\ Addressed(update) => Decided(update, known)[update.request].status # "pending"
           /\ Decided(update, known)[update.request].status = "approved" =>
                 \/ requests[update.request].status = "approved"
                 \/ /\ requests[update.request].status = "pending"
                    /\ update.kind = "approve" /\ Addressed(update)
<1> DEFINE r == update.request
<1>0. r \in Requests /\ requests[r] \in RequestRows
  BY DEF TypeOK, Updates, Existing
<1>1. CASE ~Addressed(update) \/ ~Pending(r)
  <2>1. Decided(update, known) = requests
    BY <1>1 DEF Decided
  <2> QED
    BY <1>0, <1>1, <2>1, Unmoved DEF Pending
<1>2. ASSUME Pending(r),
             NEW status \in {"expired", "declined", "approved"}, Decided(update, known) = WithStatus({r}, status),
             status = "approved" => update.kind = "approve"
      PROVE  /\ RequestsMoved(Decided(update, known))
             /\ \A q \in Requests \ {r} : Decided(update, known)[q] = requests[q]
             /\ Decided(update, known)[r].status # "pending"
             /\ Decided(update, known)[r].status = "approved" => update.kind = "approve"
  <2>1. RequestsMoved(WithStatus({r}, status))
    BY <1>0, <1>2, WithStatusMoves DEF Pending, Statuses
  <2>2. WithStatus({r}, status)[r].status = status
    BY <1>0 DEF WithStatus, RequestRows
  <2> QED
    BY <1>0, <1>2, <2>1, <2>2 DEF WithStatus
<1>3. CASE Addressed(update) /\ Pending(r)
  <2>1. \/ Decided(update, known) = WithStatus({r}, "expired")
        \/ Decided(update, known) = WithStatus({r}, "declined")
        \/ update.kind = "approve" /\ Decided(update, known) = WithStatus({r}, "approved")
    BY <1>3 DEF Decided
  <2> QED
    BY <1>2, <1>3, <2>1 DEF Pending
<1> QED
  BY <1>1, <1>3

\* The row of an update that is there.
LEMMA UpdateAt ==
    ASSUME TypeOK, Named, NEW n \in DOMAIN feed
    PROVE  /\ feed[n] \in Updates /\ feed[n].actor \in Accounts /\ feed[n].kind \in Kinds
           /\ n \in Nat /\ 1 <= n /\ n <= Len(feed)
           /\ feed[n].kind \in {"approve", "decline"} =>
                 feed[n].request # Null /\ feed[n].request \in Requests /\ Existing(feed[n].request)
           /\ feed[n].kind \notin {"approve", "decline"} => feed[n].request = Null
<1>1. feed[n] \in Updates /\ n \in 1..Len(feed)
  BY DEF TypeOK
<1> QED
  BY <1>1 DEF Named, Updates

\* A saved update moves requests as it may, and only decides the one that it
\* names.
LEMMA SavedMoves ==
    ASSUME TypeOK, Named, NEW n \in DOMAIN feed, SaveUpdate(n)
    PROVE  /\ RequestsMoved(requests')
           /\ \A r \in Requests :
                 r # feed[n].request \/ requests[r].status # "pending" => requests'[r] = requests[r]
           /\ feed[n].request # Null =>
                 /\ Addressed(feed[n]) => requests'[feed[n].request].status # "pending"
                 /\ requests'[feed[n].request].status = "approved" =>
                       \/ requests[feed[n].request].status = "approved"
                       \/ /\ requests[feed[n].request].status = "pending"
                          /\ feed[n].kind = "approve" /\ Addressed(feed[n])
<1>1. CASE feed[n].kind \in {"approve", "decline"}
  <2>1. PICK known : requests' = Decided(feed[n], known)
    BY <1>1 DEF SaveUpdate
  <2>2. feed[n] \in Updates /\ feed[n].request # Null /\ Existing(feed[n].request)
    BY <1>1, UpdateAt
  <2> QED
    BY <1>1, <2>1, <2>2, DecidedMoves DEF Pending
<1>2. CASE feed[n].kind \in {"started", "stopped", "contact"}
  <2>1. requests' = requests
    BY <1>2 DEF SaveUpdate
  <2> QED
    BY <1>2, <2>1, UpdateAt, Unmoved
<1> QED
  BY <1>1, <1>2, UpdateAt DEF Kinds

\* A saved update queues at most one more reply to itself.
LEMMA SavedReplies ==
    ASSUME TypeOK, NEW n \in DOMAIN feed, SaveUpdate(n)
    PROVE  replies' = replies \/ replies' = [replies EXCEPT ![n] = @ + 1]
<1>1. feed[n].kind \in Kinds
  <2>1. feed[n] \in Updates
    BY DEF TypeOK
  <2> QED
    BY <2>1 DEF Updates
<1> QED
  BY <1>1 DEF SaveUpdate, Kinds

\* The older requests of the session of a new one are given up, and nothing
\* else changes.
Older(session) == {q \in Requests : Existing(q) /\ requests[q].session = session /\ Undecided(q)}

LEMMA NewRequest ==
    ASSUME TypeOK, NEW b \in Browsers, RequestMaxLogin(b)
    PROVE  \E r \in Requests, row \in RequestRows :
              /\ ~Existing(r) /\ row.session = SessionOf[b] /\ row.status = "pending"
              /\ requests' = [WithStatus(Older(SessionOf[b]), "expired") EXCEPT ![r] = row]
              /\ RequestsMoved(requests')
<1> DEFINE older == {q \in Requests : Existing(q) /\ requests[q].session = SessionOf[b] /\ Undecided(q)}
           row(phone) == [session |-> SessionOf[b], phone |-> phone, account |-> Resolved(phone).account,
                          user |-> Resolved(phone).user, status |-> "pending", lapsed |-> FALSE]
<1>1. PICK phone \in Contacts, r \in Requests :
         /\ requests[r] = Null
         /\ requests' = [WithStatus(older, "expired") EXCEPT ![r] = row(phone)]
  BY DEF RequestMaxLogin
<1>2. row(phone) \in RequestRows
  <2>1. SessionOf[b] \in Sessions
    BY DEF Sessions
  <2> QED
    BY <2>1, ResolvedType DEF RequestRows, Statuses
<1>3. older = Older(SessionOf[b])
  BY DEF Older
<1>4. RequestsMoved(WithStatus(older, "expired"))
  BY WithStatusMoves DEF Undecided, Statuses
<1>5. RequestsMoved(requests')
  BY <1>1, <1>2, <1>4, AddingMoves DEF Existing
<1> QED
  BY <1>1, <1>2, <1>3, <1>5 DEF Existing

-----------------------------------------------------------------------------
(* How far the bot is.                                                     *)

\* The marker, or what counts while there is none.
Base == IF poller.marker = Null THEN acked ELSE poller.marker

\* Neither the marker nor a batch is ever ahead of the updates, and a batch
\* begins behind the marker.
Polling ==
    /\ acked <= Len(feed)
    /\ poller # Null =>
          /\ poller.next >= 1
          /\ poller.marker # Null => acked <= poller.marker /\ poller.marker <= Len(feed)
          /\ poller.next <= poller.last => poller.last <= Len(feed) /\ Base < poller.next

Bounded == TypeOK /\ Named /\ Polling

\* The update to be processed is there.
LEMMA NextUpdate ==
    ASSUME Bounded, poller # Null, poller.next <= poller.last
    PROVE  poller.next \in DOMAIN feed
BY DEF Bounded, TypeOK, Polling, PollerStates

\* A poll begins a batch behind the marker, and acknowledges what is before.
LEMMA Polled ==
    ASSUME Bounded, Poll
    PROVE  /\ Base < Len(feed) /\ Base \in Nat /\ acked' = Base
           /\ poller' \in PollerStates
           /\ poller'.marker = poller.marker /\ poller'.next = Base + 1
           /\ poller'.last \in Nat /\ poller'.next <= poller'.last /\ poller'.last <= Len(feed)
<1> DEFINE until == IF Base + Limit < Len(feed) THEN Base + Limit ELSE Len(feed)
           begun == [poller EXCEPT !.next = Base + 1]
<1>1. poller \in PollerStates /\ Base \in Nat
  BY DEF Poll, Idle, Bounded, TypeOK, PollerStates, Base
<1>2. Base < Len(feed) /\ acked' = Base
  BY DEF Poll, Base
<1>3. until \in Nat /\ Base + 1 <= until /\ until <= Len(feed)
  BY <1>1, <1>2, LoginAssumption DEF Bounded, TypeOK
<1>4. begun \in PollerStates /\ begun.marker = poller.marker /\ begun.next = Base + 1
  BY <1>1 DEF PollerStates
<1>5. poller' = [begun EXCEPT !.last = until]
  BY DEF Poll, Base
<1> HIDE DEF begun, until
<1> QED
  BY <1>1, <1>2, <1>3, <1>4, <1>5 DEF PollerStates

\* Processing moves to the next update, and the marker at the end of the
\* page, unless it had none.
LEMMA Processed ==
    ASSUME Bounded, ProcessUpdate
    PROVE  /\ poller \in PollerStates /\ poller.next <= poller.last
           /\ poller' \in PollerStates
           /\ poller'.last = poller.last /\ poller'.next = poller.next + 1
           /\ \/ /\ poller'.marker = IF poller.next = poller.last THEN poller.last ELSE poller.marker
                 /\ unmarked' = unmarked
              \/ /\ poller.next = poller.last /\ poller'.marker = poller.marker
                 /\ unmarked' = unmarked + 1
<1> DEFINE marker == IF poller.next = poller.last THEN poller.last ELSE poller.marker
           further == [poller EXCEPT !.next = poller.next + 1]
<1>1. poller \in PollerStates /\ poller.next <= poller.last
  BY DEF ProcessUpdate, Bounded, TypeOK
<1>2. marker \in Nat \cup {Null}
  BY <1>1 DEF PollerStates
<1>3. /\ further \in PollerStates /\ further.marker = poller.marker
      /\ further.last = poller.last /\ further.next = poller.next + 1
  BY <1>1 DEF PollerStates
<1>4. CASE /\ poller' = [poller EXCEPT !.next = @ + 1,
                         !.marker = IF poller.next = poller.last THEN poller.last ELSE @]
           /\ unmarked' = unmarked
  <2>1. poller' = [further EXCEPT !.marker = marker]
    BY <1>1, <1>4 DEF PollerStates
  <2> HIDE DEF further, marker
  <2>2. /\ poller' \in PollerStates
        /\ poller'.last = poller.last /\ poller'.next = poller.next + 1 /\ poller'.marker = marker
    BY <1>2, <1>3, <2>1 DEF PollerStates
  <2> QED
    BY <1>1, <1>4, <2>2 DEF marker
<1>5. CASE poller.next = poller.last /\ poller' = further /\ unmarked' = unmarked + 1
  BY <1>1, <1>3, <1>5
<1> QED
  BY <1>1, <1>4, <1>5 DEF ProcessUpdate

\* A batch that is left is over, and the marker where it was.
LEMMA Left ==
    ASSUME Bounded, FailUpdate
    PROVE  /\ poller \in PollerStates /\ poller.next <= poller.last
           /\ poller' \in PollerStates
           /\ poller'.marker = poller.marker /\ poller'.next > poller'.last /\ poller'.next >= 1
<1>1. poller \in PollerStates /\ poller.next <= poller.last
  BY DEF FailUpdate, Bounded, TypeOK
<1>2. poller' = [poller EXCEPT !.next = poller.last + 1]
  BY DEF FailUpdate, LeaveBatch
<1> QED
  BY <1>1, <1>2 DEF PollerStates

\* However the step goes, requests keep their rows and move on.
LEMMA RequestsMove ==
    ASSUME Bounded, [Next]_vars
    PROVE  RequestsMoved(requests')
<1> USE DEF Bounded
<1>1. ASSUME NEW b \in Browsers, Browse(b) PROVE RequestsMoved(requests')
  <2>1. CASE RequestMaxLogin(b)
    BY <2>1, NewRequest
  <2>2. CASE BeginComplete(b)
    <3>1. PICK r \in Requests : /\ Existing(r)
                                /\ \/ requests' = requests
                                   \/ /\ requests[r].status = "pending"
                                      /\ requests' = WithStatus({r}, "expired")
      BY <2>2 DEF BeginComplete
    <3>2. CASE requests' = requests
      BY <3>2, Unmoved
    <3>3. CASE requests[r].status = "pending" /\ requests' = WithStatus({r}, "expired")
      <4>1. RequestsMoved(WithStatus({r}, "expired"))
        BY <3>1, <3>3, WithStatusMoves DEF Statuses
      <4> QED
        BY <3>3, <4>1
    <3> QED
      BY <3>1, <3>2, <3>3
  <2>3. CASE LoadUser(b) \/ Consume(b)
    <3> DEFINE of == {q \in {calls[b].request} : requests[q].status = "approved"}
    <3>1. PICK status \in {"expired", "consumed"} :
             requests' = requests \/ requests' = WithStatus(of, status)
      BY <2>3 DEF LoadUser, Consume
    <3>2. calls[b].request \in Requests /\ Existing(calls[b].request)
      BY <2>3 DEF LoadUser, Consume, AtStep, Named, TypeOK, CompletionRows
    <3>3. RequestsMoved(WithStatus(of, status))
      BY <3>2, WithStatusMoves DEF Statuses
    <3> QED
      BY <3>1, <3>3, Unmoved
  <2>4. CASE Enter(b) \/ FailComplete(b) \/ Login(b) \/ Logout(b)
    BY <2>4, Unmoved DEF Enter, FailComplete, Login, Logout
  <2> QED
    BY <1>1, <2>1, <2>2, <2>3, <2>4 DEF Browse
<1>2. ASSUME NEW r \in Requests, Lapse(r) PROVE RequestsMoved(requests')
  BY <1>2 DEF Lapse, TypeOK, RequestsMoved, Moved, Existing, RequestRows
<1>3. CASE ProcessUpdate
  BY <1>3, NextUpdate, SavedMoves DEF ProcessUpdate
<1>4. CASE FailUpdate
  BY <1>4, NextUpdate, SavedMoves, Unmoved DEF FailUpdate
<1>5. CASE Send \/ Poll \/ Crash \/ Start \/ EditAccount \/ EditContact \/ Ban \/ UNCHANGED vars
  BY <1>5, Unmoved DEF Send, Poll, Crash, Start, EditAccount, EditContact, Ban, vars
<1> QED
  BY <1>1, <1>2, <1>3, <1>4, <1>5 DEF Next

\* Updates and bounds only grow: an update keeps its place.
LEMMA FeedGrows ==
    ASSUME Bounded, [Next]_vars
    PROVE  /\ feed' \in Seq(Updates) /\ Len(feed) <= Len(feed') /\ Len(feed') <= MaxUpdates
           /\ \A n \in DOMAIN feed : n \in DOMAIN feed' /\ feed'[n] = feed[n]
           /\ ~Send => feed' = feed
<1>1. CASE Send
  <2>1. PICK a \in Accounts, kind \in Kinds, r \in Requests \cup {Null} :
           feed' = Append(feed, [kind |-> kind, actor |-> a, request |-> r])
    BY <1>1 DEF Send
  <2>2. [kind |-> kind, actor |-> a, request |-> r] \in Updates
    BY DEF Updates
  <2>3. Len(feed) < MaxUpdates /\ feed \in Seq(Updates)
    BY <1>1 DEF Send, Bounded, TypeOK
  <2> QED
    BY <1>1, <2>1, <2>2, <2>3, LoginAssumption
<1>2. CASE ~Send
  <2>1. feed' = feed
    BY <1>2 DEF Next, Browse, RequestMaxLogin, BeginComplete, LoadUser, Enter, Consume, FailComplete,
                Login, Logout, Lapse, Poll, ProcessUpdate, FailUpdate, Crash, Start, EditAccount, EditContact, Ban, bot, vars
  <2> QED
    BY <1>2, <2>1 DEF Bounded, TypeOK
<1> QED
  BY <1>1, <1>2

\* Accounts keep their type, and change only with updates and as
\* administrators edit or delete a row.
LEMMA AccountsKept ==
    ASSUME Bounded, [Next]_vars
    PROVE  /\ accounts' \in [Accounts -> AccountRows \cup {Null}]
           /\ ProcessUpdate \/ FailUpdate \/ accounts' = accounts
                 \/ EditAccount
<1>1. CASE ProcessUpdate
  BY <1>1, NextUpdate, SavedAccounts DEF ProcessUpdate, SavedAccount, Bounded
<1>2. CASE FailUpdate
  <2>1. accounts' = accounts \/ SaveUpdate(poller.next)
    BY <1>2 DEF FailUpdate, people
  <2>2. poller.next \in DOMAIN feed
    BY <1>2, NextUpdate DEF FailUpdate
  <2> QED
    BY <1>2, <2>1, <2>2, SavedAccounts DEF SavedAccount, Bounded, TypeOK
<1>3. CASE EditAccount
  BY <1>3 DEF EditAccount, Bounded, TypeOK
<1>4. CASE ~ProcessUpdate /\ ~FailUpdate /\ ~EditAccount
  <2>1. accounts' = accounts
    BY <1>4 DEF Next, Browse, RequestMaxLogin, BeginComplete, LoadUser, Enter, Consume, FailComplete,
                Login, Logout, Lapse, Send, Poll, Crash, Start, EditContact, Ban, people, bot, vars
  <2> QED
    BY <2>1 DEF Bounded, TypeOK
<1> QED
  BY <1>1, <1>2, <1>3, <1>4

\* Replies, faults and pages without a marker are counted.
LEMMA RepliesCounted ==
    ASSUME Bounded, [Next]_vars
    PROVE  /\ replies' \in [1..MaxUpdates -> Nat]
           /\ \/ replies' = replies
              \/ /\ ProcessUpdate \/ FailUpdate
                 /\ poller.next \in DOMAIN feed /\ replies' = [replies EXCEPT ![poller.next] = @ + 1]
           /\ faults' \in Nat /\ unmarked' \in Nat /\ unmarked' >= unmarked
           /\ faults' = faults \/ faults' = faults + 1
<1>0. /\ faults' \in Nat /\ unmarked' \in Nat /\ unmarked' >= unmarked
      /\ faults' = faults \/ faults' = faults + 1
  <2>1. faults' = faults \/ Fault
    BY DEF Next, Browse, RequestMaxLogin, BeginComplete, LoadUser, Enter, Consume, FailComplete,
             Login, Logout, Lapse, Send, Poll, ProcessUpdate, FailUpdate, Crash, Start, EditAccount, EditContact, Ban, vars
  <2>2. unmarked' = unmarked \/ unmarked' = unmarked + 1
    BY DEF Next, Browse, RequestMaxLogin, BeginComplete, LoadUser, Enter, Consume, FailComplete, Login,
           Logout, Lapse, Send, Poll, ProcessUpdate, FailUpdate, Crash, Start, EditAccount, EditContact, Ban,
           bot, vars
  <2> QED
    BY <2>1, <2>2 DEF Fault, Bounded, TypeOK
<1>1. CASE replies' = replies
  BY <1>0, <1>1 DEF Bounded, TypeOK
<1>2. CASE replies' # replies
  <2>1. ProcessUpdate \/ FailUpdate
    BY <1>2 DEF Next, Browse, RequestMaxLogin, BeginComplete, LoadUser, Enter, Consume, FailComplete,
                Login, Logout, Lapse, Send, Poll, Crash, Start, EditAccount, EditContact, Ban, bot, vars
  <2>2. poller # Null /\ poller.next <= poller.last /\ SaveUpdate(poller.next)
    BY <1>2, <2>1 DEF ProcessUpdate, FailUpdate
  <2>3. poller.next \in DOMAIN feed
    BY <2>2, NextUpdate
  <2>4. replies' = [replies EXCEPT ![poller.next] = @ + 1]
    BY <1>2, <2>2, <2>3, SavedReplies DEF Bounded
  <2> QED
    <3>1. feed \in Seq(Updates) /\ Len(feed) <= MaxUpdates /\ replies \in [1..MaxUpdates -> Nat]
      BY DEF Bounded, TypeOK
    <3>2. poller.next \in 1..MaxUpdates
      BY <2>3, <3>1, LoginAssumption
    <3>3. replies' \in [1..MaxUpdates -> Nat]
      BY <2>4, <3>1, <3>2
    <3> QED
      BY <1>0, <2>1, <2>3, <2>4, <3>3
<1> QED
  BY <1>1, <1>2

\* Completions are begun, go on and end in the window that runs them.
CallsMoved ==
    \/ calls' = calls
    \/ \E b \in Browsers :
          /\ calls' \in [Browsers -> CompletionRows \cup {Null}]
          /\ \A other \in Browsers \ {b} : calls'[other] = calls[other]
          /\ \/ calls'[b] = Null
             \/ calls[b] # Null /\ calls'[b] # Null /\ calls'[b].request = calls[b].request
             \/ /\ BeginComplete(b) /\ calls'[b] # Null /\ Existing(calls'[b].request)
                /\ requests[calls'[b].request].session = SessionOf[b]
                /\ requests[calls'[b].request].status = "approved"
                /\ requests' = requests /\ calls'[b].step = "load"

LEMMA CallsMove ==
    ASSUME Bounded, [Next]_vars
    PROVE  CallsMoved
<1> USE DEF Bounded
<1>0. calls \in [Browsers -> CompletionRows \cup {Null}]
  BY DEF TypeOK
<1>1. CASE \E b \in Browsers : BeginComplete(b)
  <2>1. PICK b \in Browsers : BeginComplete(b)
    BY <1>1
  <2>2. CASE calls' = calls
    BY <2>2 DEF CallsMoved
  <2>3. CASE calls' # calls
    <3>1. PICK r \in Requests :
             /\ Existing(r) /\ requests[r].session = SessionOf[b] /\ requests[r].status = "approved"
             /\ calls' = [calls EXCEPT ![b] = [request |-> r, step |-> "load", user |-> Null]]
             /\ requests' = requests
      BY <2>1, <2>3 DEF BeginComplete
    <3>2. [request |-> r, step |-> "load", user |-> Null] \in CompletionRows
      BY DEF CompletionRows
    <3> QED
      BY <1>0, <2>1, <3>1, <3>2, LoginAssumption DEF CallsMoved
  <2> QED
    BY <2>2, <2>3
<1>2. CASE \E b \in Browsers : LoadUser(b)
  <2>1. PICK b \in Browsers : LoadUser(b)
    BY <1>2
  <2> DEFINE r == calls[b].request
  <2>2. calls[b] # Null /\ calls[b] \in CompletionRows /\ r \in Requests
    BY <1>0, <2>1 DEF LoadUser, AtStep, CompletionRows
  <2>3. requests[r] \in RequestRows /\ requests[r].user \in Users \cup {Null}
    BY <2>2 DEF Named, Existing, TypeOK, RequestRows
  <2>4. CASE calls' = [calls EXCEPT ![b] = Null]
    BY <1>0, <2>4 DEF CallsMoved
  <2>5. CASE calls' # [calls EXCEPT ![b] = Null]
    <3> DEFINE loaded == [calls[b] EXCEPT !.step = "login"]
               going == [loaded EXCEPT !.user = requests[r].user]
    <3>1. calls' = [calls EXCEPT ![b] = [calls[b] EXCEPT !.step = "login", !.user = requests[r].user]]
      BY <1>0, <2>1, <2>5 DEF LoadUser
    <3>2. calls' = [calls EXCEPT ![b] = going]
      BY <3>1
    <3>3. loaded \in CompletionRows /\ loaded.request = r
      BY <2>2 DEF CompletionRows
    <3> HIDE DEF loaded
    <3>4. going \in CompletionRows /\ going.request = r
      BY <2>3, <3>3 DEF CompletionRows
    <3> HIDE DEF going
    <3> QED
      BY <1>0, <2>2, <3>2, <3>4, LoginAssumption DEF CallsMoved
  <2> QED
    BY <2>4, <2>5
<1>3. CASE \E b \in Browsers : Enter(b)
  <2>1. PICK b \in Browsers : Enter(b)
    BY <1>3
  <2>2. calls[b] # Null /\ calls[b] \in CompletionRows
    BY <1>0, <2>1 DEF Enter, AtStep
  <2> DEFINE going == [calls[b] EXCEPT !.step = "consume"]
  <2>3. calls' = [calls EXCEPT ![b] = going]
    BY <2>1 DEF Enter
  <2>4. going \in CompletionRows /\ going.request = calls[b].request
    BY <2>2 DEF CompletionRows
  <2> HIDE DEF going
  <2> QED
    BY <1>0, <2>2, <2>3, <2>4, LoginAssumption DEF CallsMoved
<1>4. CASE \E b \in Browsers : Consume(b) \/ FailComplete(b)
  BY <1>0, <1>4 DEF CallsMoved, Consume, FailComplete
<1>5. CASE ~\E b \in Browsers : BeginComplete(b) \/ LoadUser(b) \/ Enter(b) \/ Consume(b) \/ FailComplete(b)
  <2>1. calls' = calls
    BY <1>5 DEF Next, Browse, RequestMaxLogin, Login, Logout, Lapse, Send, Poll, ProcessUpdate, FailUpdate,
                Crash, Start, EditAccount, EditContact, Ban, web, vars
  <2> QED
    BY <2>1 DEF CallsMoved
<1> QED
  BY <1>1, <1>2, <1>3, <1>4, <1>5

\* A login counts for the request of its completion, which goes on to mark
\* it as consumed.
EnteredMoved ==
    \/ entered' = entered
    \/ \E b \in Browsers :
          /\ AtStep(b, "login") /\ calls[b] \in CompletionRows
          /\ calls'[b] # Null /\ calls'[b].step = "consume" /\ calls'[b].request = calls[b].request
          /\ \A other \in Browsers \ {b} : calls'[other] = calls[other]
          /\ entered' = [entered EXCEPT ![calls[b].request] = @ + 1]
          /\ requests' = requests /\ faults' = faults /\ feed' = feed

LEMMA EnteredMove ==
    ASSUME Bounded, [Next]_vars
    PROVE  EnteredMoved
<1>1. ASSUME NEW b \in Browsers, Enter(b) PROVE EnteredMoved
  <2>1. AtStep(b, "login") /\ calls[b] \in CompletionRows /\ calls \in [Browsers -> CompletionRows \cup {Null}]
    BY <1>1 DEF Enter, AtStep, Bounded, TypeOK
  <2> DEFINE going == [calls[b] EXCEPT !.step = "consume"]
  <2>2. calls' = [calls EXCEPT ![b] = going]
    BY <1>1 DEF Enter
  <2>3. going \in CompletionRows /\ going.step = "consume" /\ going.request = calls[b].request
    BY <2>1 DEF CompletionRows
  <2> HIDE DEF going
  <2>4. /\ entered' = [entered EXCEPT ![calls[b].request] = @ + 1]
        /\ requests' = requests /\ faults' = faults /\ feed' = feed
    BY <1>1 DEF Enter, bot
  <2> QED
    BY <2>1, <2>2, <2>3, <2>4, LoginAssumption DEF EnteredMoved
<1>2. CASE ~\E b \in Browsers : Enter(b)
  <2>1. entered' = entered
    BY <1>2 DEF Next, Browse, RequestMaxLogin, BeginComplete, LoadUser, Consume, FailComplete, Login, Logout,
                Lapse, Send, Poll, ProcessUpdate, FailUpdate, Crash, Start, EditAccount, EditContact, Ban, web, vars
  <2> QED
    BY <2>1 DEF EnteredMoved
<1> QED
  BY <1>1, <1>2

\* Logging in gives a session a user, and opens a row of logins.
LEMMA LoginUserType ==
    ASSUME TypeOK, NEW session \in Sessions, NEW user \in Users \cup {Null}, LoginUser(session, user)
    PROVE  /\ sessions' \in [Sessions -> Users \cup {Null}]
           /\ logins' \subseteq Sessions \X (Users \cup {Null})
BY DEF TypeOK, LoginUser

LEMMA SessionsKept ==
    ASSUME Bounded, [Next]_vars
    PROVE  /\ sessions' \in [Sessions -> Users \cup {Null}]
           /\ logins' \subseteq Sessions \X (Users \cup {Null})
<1> USE DEF Bounded
<1>0. \A b \in Browsers : SessionOf[b] \in Sessions
  BY DEF Sessions
<1>1. ASSUME NEW b \in Browsers, Enter(b)
      PROVE  sessions' \in [Sessions -> Users \cup {Null}] /\ logins' \subseteq Sessions \X (Users \cup {Null})
  <2>1. calls[b].user \in Users \cup {Null} /\ LoginUser(SessionOf[b], calls[b].user)
    BY <1>1 DEF Enter, AtStep, TypeOK, CompletionRows
  <2> QED
    BY <1>0, <2>1, LoginUserType
<1>2. ASSUME NEW b \in Browsers, Login(b)
      PROVE  sessions' \in [Sessions -> Users \cup {Null}] /\ logins' \subseteq Sessions \X (Users \cup {Null})
  <2>1. PICK user \in Users : LoginUser(SessionOf[b], user)
    BY <1>2 DEF Login
  <2> QED
    BY <1>0, <2>1, LoginUserType
<1>3. ASSUME NEW b \in Browsers, Logout(b)
      PROVE  sessions' \in [Sessions -> Users \cup {Null}] /\ logins' \subseteq Sessions \X (Users \cup {Null})
  BY <1>0, <1>3 DEF Logout, TypeOK
<1>4. CASE ~\E b \in Browsers : Enter(b) \/ Login(b) \/ Logout(b)
  <2>1. sessions' = sessions /\ logins' = logins
    BY <1>4 DEF Next, Browse, RequestMaxLogin, BeginComplete, LoadUser, Consume, FailComplete,
                Lapse, Send, Poll, ProcessUpdate, FailUpdate, Crash, Start, EditAccount, EditContact, Ban, web, vars
  <2> QED
    BY <2>1 DEF TypeOK
<1> QED
  BY <1>1, <1>2, <1>3, <1>4

\* What administrators change keeps its type, and so does what is
\* remembered of it.
LEMMA OfficeKept ==
    ASSUME Bounded, [Next]_vars
    PROVE  /\ linked' \subseteq Contacts \X Users /\ banned' \subseteq Users
           /\ edited' \subseteq Accounts /\ unbound' \subseteq Accounts
           /\ changes' \in Nat
<1>1. CASE EditAccount \/ EditContact \/ Ban
  BY <1>1 DEF EditAccount, EditContact, Ban, Change, people, bot, Bounded, TypeOK
<1>2. CASE ~(EditAccount \/ EditContact \/ Ban)
  <2>1. linked' = linked /\ banned' = banned
    BY <1>2 DEF Next, Browse, RequestMaxLogin, BeginComplete, LoadUser, Enter, Consume, FailComplete, Login,
                Logout, Lapse, Send, Poll, ProcessUpdate, FailUpdate, Crash, Start, vars
  <2>2. changes' = changes \/ Change
    BY <1>2 DEF Next, Browse, RequestMaxLogin, BeginComplete, LoadUser, Enter, Consume, FailComplete, Login,
                Logout, Lapse, Send, Poll, ProcessUpdate, FailUpdate, Crash, Start, vars
  <2>3. edited' \subseteq edited /\ unbound' \subseteq unbound
    <3>1. CASE ProcessUpdate \/ FailUpdate
      <4>1. SaveUpdate(poller.next) \/ (edited' = edited /\ unbound' = unbound)
        BY <3>1 DEF ProcessUpdate, FailUpdate, people
      <4> QED
        BY <4>1 DEF SaveUpdate
    <3>2. CASE ~(ProcessUpdate \/ FailUpdate)
      BY <1>2, <3>2 DEF Next, Browse, RequestMaxLogin, BeginComplete, LoadUser, Enter, Consume, FailComplete,
                        Login, Logout, Lapse, Send, Poll, Crash, Start, people, bot, vars
    <3> QED
      BY <3>1, <3>2
  <2> QED
    BY <2>1, <2>2, <2>3 DEF Change, Bounded, TypeOK
<1> QED
  BY <1>1, <1>2

\* The poller keeps its type, and stays within the updates that are there.
LEMMA PollingKept ==
    ASSUME Bounded, [Next]_vars
    PROVE  /\ acked' \in Nat /\ poller' \in PollerStates \cup {Null}
           /\ Polling'
<1>0. /\ acked \in Nat /\ acked <= Len(feed) /\ poller \in PollerStates \cup {Null}
      /\ Len(feed) \in Nat /\ Len(feed') \in Nat /\ Len(feed) <= Len(feed')
  BY FeedGrows DEF Bounded, TypeOK, Polling
<1>1. CASE Poll
  <2>1. feed' = feed
    BY <1>1 DEF Poll
  <2>2. poller.marker # Null => poller.marker \in Nat
    BY <1>1 DEF Poll, Idle, Bounded, TypeOK, PollerStates
  <2> QED
    BY <1>0, <1>1, <2>1, <2>2, Polled DEF Polling, Base, PollerStates
<1>2. CASE ProcessUpdate
  <2>1. feed' = feed /\ acked' = acked
    BY <1>2 DEF ProcessUpdate
  <2>2. /\ poller \in PollerStates /\ poller # Null /\ poller.next <= poller.last
        /\ poller.last <= Len(feed) /\ Base < poller.next /\ poller.next >= 1
        /\ poller.marker # Null => acked <= poller.marker /\ poller.marker <= Len(feed)
    BY <1>2, Processed DEF ProcessUpdate, Bounded, Polling
  <2>3. /\ poller.next \in Nat /\ poller.last \in Nat /\ poller.marker \in Nat \cup {Null} /\ Base \in Nat
        /\ acked <= Base
    BY <1>0, <2>2 DEF PollerStates, Base
  <2>4. /\ poller' \in PollerStates /\ poller'.last = poller.last /\ poller'.next = poller.next + 1
        /\ \/ poller'.marker = IF poller.next = poller.last THEN poller.last ELSE poller.marker
           \/ poller.next = poller.last /\ poller'.marker = poller.marker
    BY <1>2, Processed
  <2>5. CASE poller.next = poller.last
    BY <1>0, <2>1, <2>2, <2>3, <2>4, <2>5 DEF Polling
  <2>6. CASE poller.next # poller.last
    BY <1>0, <2>1, <2>2, <2>3, <2>4, <2>6 DEF Polling, Base
  <2> QED
    BY <2>5, <2>6
<1>3. CASE FailUpdate
  <2>1. feed' = feed /\ acked' = acked /\ poller # Null
    BY <1>3 DEF FailUpdate
  <2>2. poller.next' \in Nat /\ poller.last' \in Nat
    BY <1>3, Left DEF PollerStates
  <2> QED
    BY <1>0, <1>3, <2>1, <2>2, Left DEF Polling, Bounded
<1>4. CASE Start \/ Crash
  <2>1. feed' = feed /\ acked' = acked
    BY <1>4 DEF Start, Crash
  <2>2. poller' = Null \/ poller' = [marker |-> Null, next |-> 1, last |-> 0]
    BY <1>4 DEF Start, Crash
  <2> QED
    BY <1>0, <2>1, <2>2 DEF Polling, PollerStates
<1>5. CASE Send
  <2>1. poller' = poller /\ acked' = acked
    BY <1>5 DEF Send
  <2>2. poller # Null => poller.marker \in Nat \cup {Null} /\ poller.last \in Nat
    BY <1>0 DEF PollerStates
  <2> QED
    BY <1>0, <2>1, <2>2 DEF Polling, Base, Bounded
<1>6. CASE ~(Poll \/ ProcessUpdate \/ FailUpdate \/ Start \/ Crash \/ Send)
  <2>1. poller' = poller /\ acked' = acked /\ feed' = feed
    BY <1>6 DEF Next, Browse, RequestMaxLogin, BeginComplete, LoadUser, Enter, Consume, FailComplete, Login,
                Logout, Lapse, EditAccount, EditContact, Ban, bot, vars
  <2> QED
    BY <1>0, <2>1 DEF Polling, Base, Bounded
<1> QED
  BY <1>1, <1>2, <1>3, <1>4, <1>5, <1>6

\* Requests, once there, keep being there and whom they are for.
LEMMA Remaining ==
    ASSUME Bounded, [Next]_vars, NEW r, Existing(r), r \in Requests
    PROVE  /\ requests'[r] # Null /\ requests[r] \in RequestRows /\ requests'[r] \in RequestRows
           /\ requests'[r].session = requests[r].session
           /\ requests'[r].account = requests[r].account
BY RequestsMove, LoginAssumption DEF RequestsMoved, Moved, Existing, Bounded, TypeOK

LEMMA NamedKept ==
    ASSUME Bounded, [Next]_vars
    PROVE  Named'
<1>1. ASSUME NEW b \in Browsers, calls'[b] # Null PROVE requests'[calls'[b].request] # Null
  <2>1. calls \in [Browsers -> CompletionRows \cup {Null}]
    BY DEF Bounded, TypeOK
  <2>2. CASE calls'[b] = calls[b] \/ (calls[b] # Null /\ calls'[b].request = calls[b].request)
    <3>1. Existing(calls[b].request) /\ calls[b].request \in Requests
      BY <1>1, <2>1, <2>2 DEF Bounded, Named, CompletionRows
    <3>2. requests'[calls[b].request] # Null
      BY <3>1, Remaining DEF Existing
    <3>3. calls'[b].request = calls[b].request
      BY <2>2
    <3>4. requests'[calls'[b].request] # Null
      BY <3>2, <3>3
    <3> QED
      BY <3>4 DEF Existing
  <2>3. CASE Existing(calls'[b].request) /\ requests' = requests
    BY <2>3 DEF Existing
  <2> QED
    BY <1>1, <2>2, <2>3, CallsMove DEF CallsMoved
<1>2. ASSUME NEW n \in DOMAIN feed
      PROVE  IF feed[n].kind \in {"approve", "decline"}
             THEN feed[n].request # Null /\ requests'[feed[n].request] # Null
             ELSE feed[n].request = Null
  <2>1. CASE feed[n].kind \in {"approve", "decline"}
    <3>1. feed[n].request # Null /\ feed[n].request \in Requests /\ Existing(feed[n].request)
      BY <2>1, UpdateAt DEF Bounded
    <3> QED
      BY <2>1, <3>1, Remaining
  <2>2. CASE feed[n].kind \notin {"approve", "decline"}
    BY <2>2 DEF Bounded, Named
  <2> QED
    BY <2>1, <2>2
<1>3. ASSUME NEW n \in DOMAIN feed'
      PROVE  IF feed'[n].kind \in {"approve", "decline"}
             THEN feed'[n].request # Null /\ requests'[feed'[n].request] # Null
             ELSE feed'[n].request = Null
  <2>1. CASE n \in DOMAIN feed
    <3>1. feed'[n] = feed[n]
      BY <2>1, FeedGrows
    <3> QED
      BY <1>2, <2>1, <3>1 DEF Existing
  <2>2. CASE n \notin DOMAIN feed
    <3>1. Send
      BY <1>3, <2>2, FeedGrows
    <3>2. PICK a \in Accounts, kind \in Kinds, r \in Requests \cup {Null} :
             /\ IF kind \in {"approve", "decline"}
                THEN r # Null /\ Existing(r)
                ELSE r = Null
             /\ feed' = Append(feed, [kind |-> kind, actor |-> a, request |-> r])
      BY <3>1 DEF Send
    <3>3. feed'[n] = [kind |-> kind, actor |-> a, request |-> r]
      BY <1>3, <2>2, <3>2 DEF Bounded, TypeOK
    <3>4. requests' = requests
      BY <3>1 DEF Send
    <3> QED
      BY <3>2, <3>3, <3>4 DEF Existing
  <2> QED
    BY <2>1, <2>2
<1> QED
  BY <1>1, <1>3 DEF Named, Existing

LEMMA CallsTyped ==
    ASSUME Bounded, [Next]_vars
    PROVE  calls' \in [Browsers -> CompletionRows \cup {Null}]
BY CallsMove DEF CallsMoved, Bounded, TypeOK

LEMMA EnteredTyped ==
    ASSUME Bounded, [Next]_vars
    PROVE  entered' \in [Requests -> Nat]
<1>1. CASE entered' = entered
  BY <1>1 DEF Bounded, TypeOK
<1>2. CASE entered' # entered
  <2>1. PICK r \in Requests : entered' = [entered EXCEPT ![r] = @ + 1]
    BY <1>2, EnteredMove DEF EnteredMoved, CompletionRows
  <2> QED
    BY <2>1 DEF Bounded, TypeOK
<1> QED
  BY <1>1, <1>2

\* The accounts known at the start are well formed.
LEMMA StartingAccounts ==
    ASSUME Init
    PROVE  accounts \in [Accounts -> AccountRows \cup {Null}]
<1>1. accounts = [a \in Accounts |->
          IF Known[a] = Null THEN Null ELSE [contact |-> Known[a], active |-> TRUE]]
  BY DEF Init
<1>2. \A a \in Accounts : Known[a] # Null => [contact |-> Known[a], active |-> TRUE] \in AccountRows
  BY LoginAssumption DEF AccountRows
<1> QED
  BY <1>1, <1>2

\* In the beginning nothing is under way.
LEMMA StartsBounded == ASSUME Init PROVE Bounded
<1>1. TypeOK
  BY StartingAccounts, LoginAssumption DEF Init, TypeOK, PollerStates
<1>2. Named /\ Polling
  BY DEF Init, Named, Polling
<1> QED
  BY <1>1, <1>2 DEF Bounded

LEMMA StaysBounded == ASSUME Bounded, [Next]_vars PROVE Bounded'
<1>1. requests' \in [Requests -> RequestRows \cup {Null}]
  BY RequestsMove DEF RequestsMoved
<1>2. TypeOK'
  BY <1>1, CallsTyped, SessionsKept, AccountsKept, OfficeKept, FeedGrows, PollingKept, RepliesCounted,
     EnteredTyped DEF TypeOK
<1> QED
  BY <1>2, NamedKept, PollingKept DEF Bounded

\* Every variable has its type, whatever is named is there, and the bot
\* never works on an update that does not exist.
THEOREM TypeInvariant == Spec => [](TypeOK /\ Polling)
<1>1. Init => Bounded
  BY StartsBounded
<1>2. Bounded /\ [Next]_vars => Bounded'
  BY StaysBounded
<1>3. Bounded => TypeOK /\ Polling
  BY DEF Bounded
<1> QED
  BY <1>1, <1>2, <1>3, PTL DEF Spec

-----------------------------------------------------------------------------
(* What the updates have come to.                                          *)

\* The last update that the bot has dealt with: before it everything has
\* been applied, beyond it perhaps some that will be applied again.
Position ==
    IF poller = Null THEN acked
    ELSE IF poller.next <= poller.last THEN poller.next - 1 ELSE Base

\* The accounts show an update, or a later one of the same account, or what
\* administrators have made of it since.
InEffect(known, over, cut, updates, n) ==
    LET a == updates[n].actor IN
    /\ \/ \E k \in DOMAIN updates : k > n /\ updates[k].actor = a
       \/ a \in over
       \/ (known[a] # Null /\ known[a].active) <=> updates[n].kind # "stopped"
    /\ updates[n].kind = "contact" => a \in cut \/ (known[a] # Null /\ known[a].contact # Null)

Reflected == \A n \in 1..Position : InEffect(accounts, edited, unbound, feed, n)

\* An update that has not been dealt with yet has queued a reply only when
\* something failed after that, or its page came without a marker.
Replied ==
    \A n \in 1..MaxUpdates :
       replies[n] <= 1 + faults + unmarked /\ (n > Position => replies[n] <= faults + unmarked)

Applying == Bounded /\ Reflected /\ Replied

LEMMA PositionWithin == ASSUME Bounded PROVE Position \in Nat /\ Position <= Len(feed)
BY DEF Bounded, TypeOK, Polling, Position, Base, PollerStates

\* The position moves on with each update, and falls back only when
\* something fails or a page comes without a marker.
LEMMA PositionMoves ==
    ASSUME Bounded, [Next]_vars
    PROVE  /\ Position' \in Nat
           /\ \/ /\ ProcessUpdate /\ poller.next \in DOMAIN feed /\ SaveUpdate(poller.next)
                 /\ Position = poller.next - 1
                 /\ Position' = poller.next \/ (Position' <= Position /\ unmarked' = unmarked + 1)
              \/ /\ ~ProcessUpdate
                 /\ Position' = Position \/ (Position' <= Position /\ faults' = faults + 1)
<1>0. /\ acked \in Nat /\ acked <= Len(feed) /\ poller \in PollerStates \cup {Null}
      /\ poller # Null => /\ poller.next \in Nat /\ poller.last \in Nat /\ poller.marker \in Nat \cup {Null}
                          /\ acked <= Base /\ Base \in Nat
                          /\ poller.next <= poller.last => Base < poller.next
  BY DEF Bounded, TypeOK, Polling, PollerStates, Base
<1>1. CASE ProcessUpdate
  <2>1. acked' = acked /\ poller # Null /\ SaveUpdate(poller.next)
    BY <1>1 DEF ProcessUpdate
  <2>2. /\ poller.next <= poller.last
        /\ poller' \in PollerStates /\ poller'.last = poller.last /\ poller'.next = poller.next + 1
        /\ \/ poller'.marker = IF poller.next = poller.last THEN poller.last ELSE poller.marker
           \/ poller.next = poller.last /\ poller'.marker = poller.marker /\ unmarked' = unmarked + 1
    BY <1>1, Processed
  <2>3. poller' # Null /\ poller.next \in DOMAIN feed
    BY <2>1, <2>2, NextUpdate, LoginAssumption
  <2>4. CASE poller'.marker = IF poller.next = poller.last THEN poller.last ELSE poller.marker
    <3>1. Position' = poller.next
      BY <1>0, <2>1, <2>2, <2>3, <2>4, LoginAssumption DEF Position, Base
    <3> QED
      BY <1>0, <1>1, <2>1, <2>2, <2>3, <3>1 DEF Position
  <2>5. CASE poller.next = poller.last /\ poller'.marker = poller.marker /\ unmarked' = unmarked + 1
    <3>1. Position' = Base
      BY <1>0, <2>1, <2>2, <2>3, <2>5 DEF Position, Base
    <3>2. Position = poller.next - 1 /\ Base <= poller.next - 1
      BY <1>0, <2>1, <2>2 DEF Position
    <3> QED
      BY <1>0, <1>1, <2>1, <2>3, <2>5, <3>1, <3>2
  <2> QED
    BY <2>2, <2>4, <2>5
<1>2. CASE Poll
  <2>1. /\ Base \in Nat /\ acked' = Base /\ poller' \in PollerStates /\ poller'.next = Base + 1
        /\ poller'.next <= poller'.last
    BY <1>2, Polled
  <2>2. Position' = Base /\ poller # Null /\ poller.next > poller.last
    BY <2>1, <1>2, LoginAssumption DEF Position, Poll, Idle
  <2>3. Position = Base /\ ~ProcessUpdate
    BY <1>0, <2>2 DEF Position, ProcessUpdate
  <2> QED
    BY <2>1, <2>2, <2>3
<1>3. CASE FailUpdate /\ ~ProcessUpdate
  <2>1. /\ poller # Null /\ poller.next <= poller.last /\ poller' \in PollerStates
        /\ poller'.marker = poller.marker /\ poller'.next > poller'.last
    BY <1>3, Left DEF FailUpdate
  <2>2. acked' = acked /\ faults' = faults + 1
    BY <1>3 DEF FailUpdate, Fault
  <2>3. Position' = Base /\ Position = poller.next - 1
    <3>1. poller' # Null /\ ~(poller'.next <= poller'.last)
      BY <2>1, LoginAssumption DEF PollerStates
    <3> QED
      BY <2>1, <2>2, <3>1 DEF Position, Base
  <2> QED
    BY <1>0, <1>3, <2>1, <2>2, <2>3
<1>4. CASE Crash
  <2>1. poller' = Null /\ poller # Null /\ acked' = acked /\ faults' = faults + 1 /\ ~ProcessUpdate
    BY <1>4, LoginAssumption, Processed DEF Crash, Fault
  <2>2. Position' = acked
    BY <2>1 DEF Position
  <2> QED
    BY <1>0, <2>1, <2>2 DEF Position
<1>5. CASE Start
  <2>1. /\ poller = Null /\ poller' = [marker |-> Null, next |-> 1, last |-> 0] /\ acked' = acked
        /\ ~ProcessUpdate
    BY <1>5 DEF Start, ProcessUpdate
  <2>2. poller' \in PollerStates
    BY <2>1 DEF PollerStates
  <2> QED
    BY <1>0, <2>1, <2>2, LoginAssumption DEF Position, Base
<1>6. CASE ~(Poll \/ ProcessUpdate \/ FailUpdate \/ Start \/ Crash)
  <2>1. poller' = poller /\ acked' = acked
    BY <1>6 DEF Next, Browse, RequestMaxLogin, BeginComplete, LoadUser, Enter, Consume, FailComplete, Login,
                Logout, Lapse, Send, EditAccount, EditContact, Ban, bot, vars
  <2> QED
    BY <1>6, <2>1, PositionWithin DEF Position, Base
<1> QED
  BY <1>1, <1>2, <1>3, <1>4, <1>5, <1>6

\* An update stays in effect when a later one is applied, and is in effect
\* when it has been applied itself.
LEMMA SavedInEffect ==
    ASSUME Bounded, NEW m \in DOMAIN feed, SaveUpdate(m)
    PROVE  /\ InEffect(accounts', edited', unbound', feed, m)
           /\ \A n \in 1..(m - 1) : InEffect(accounts, edited, unbound, feed, n) => InEffect(accounts', edited', unbound', feed, n)
<1>1. SavedAccount(feed[m]) /\ feed[m].actor \in Accounts
  BY SavedAccounts, UpdateAt DEF Bounded
<1>2. InEffect(accounts', edited', unbound', feed, m)
  BY <1>1 DEF InEffect, SavedAccount
<1>3. ASSUME NEW n \in 1..(m - 1), InEffect(accounts, edited, unbound, feed, n)
      PROVE  InEffect(accounts', edited', unbound', feed, n)
  <2>0. n \in DOMAIN feed /\ m > n
    BY UpdateAt DEF Bounded, TypeOK
  <2>1. feed[n].actor \in Accounts
    BY <2>0, UpdateAt DEF Bounded
  <2>2. CASE feed[n].actor = feed[m].actor
    BY <1>1, <1>3, <2>0, <2>2 DEF InEffect, SavedAccount
  <2>3. CASE feed[n].actor # feed[m].actor
    BY <1>1, <1>3, <2>1, <2>3 DEF InEffect, SavedAccount
  <2> QED
    BY <2>2, <2>3
<1> QED
  BY <1>2, <1>3

\* No step takes an update that the bot has dealt with out of effect.
LEMMA InEffectKept ==
    ASSUME Bounded, [Next]_vars, ~ProcessUpdate, NEW n \in 1..Position, InEffect(accounts, edited, unbound, feed, n)
    PROVE  InEffect(accounts', edited', unbound', feed', n)
<1>0. n \in DOMAIN feed /\ n < Position + 1 /\ feed[n] \in Updates /\ feed[n].actor \in Accounts
  BY PositionWithin, UpdateAt DEF Bounded, TypeOK
<1>1. InEffect(accounts', edited', unbound', feed, n)
  <2>1. CASE FailUpdate
    <3>1. UNCHANGED <<accounts, edited, unbound>> \/ SaveUpdate(poller.next)
      BY <2>1 DEF FailUpdate, people
    <3>2. poller.next \in DOMAIN feed /\ poller.next \in Nat /\ Position = poller.next - 1
      <4>1. poller # Null /\ poller.next <= poller.last /\ poller \in PollerStates
        BY <2>1, Left DEF FailUpdate
      <4> QED
        BY <4>1, NextUpdate DEF Position, PollerStates
    <3>3. n \in 1..(poller.next - 1)
      BY <3>2
    <3> QED
      BY <3>1, <3>2, <3>3, SavedInEffect
  <2>2. CASE ~FailUpdate /\ ~EditAccount
    <3>1. UNCHANGED people
      BY <2>2 DEF Next, Browse, RequestMaxLogin, BeginComplete, LoadUser, Enter, Consume, FailComplete, Login,
                  Logout, Lapse, Send, Poll, Crash, Start, EditContact, Ban, people, bot, vars
    <3> QED
      BY <3>1 DEF people
  <2>3. ASSUME NEW a \in Accounts, NEW row \in AccountRows \cup {Null},
               accounts' = [accounts EXCEPT ![a] = row], edited' = edited \cup {a},
               unbound' = IF row = Null \/ row.contact = Null THEN unbound \cup {a} ELSE unbound
        PROVE  InEffect(accounts', edited', unbound', feed, n)
    <3>1. accounts'[a] = row /\ \A other \in Accounts \ {a} : accounts'[other] = accounts[other]
      BY <2>3 DEF Bounded, TypeOK
    <3>2. CASE feed[n].actor = a
      BY <1>0, <2>3, <3>1, <3>2 DEF InEffect
    <3>3. CASE feed[n].actor # a
      BY <1>0, <2>3, <3>1, <3>3 DEF InEffect
    <3> QED
      BY <3>2, <3>3
  <2>4. CASE EditAccount
    BY <2>3, <2>4 DEF EditAccount
  <2> QED
    BY <2>1, <2>2, <2>4
<1>2. /\ feed'[n] = feed[n]
      /\ \A k \in DOMAIN feed : k \in DOMAIN feed' /\ feed'[k] = feed[k]
  BY <1>0, FeedGrows
<1> QED
  BY <1>1, <1>2 DEF InEffect

LEMMA ReflectedKept ==
    ASSUME Bounded, Reflected, [Next]_vars
    PROVE  \A n \in 1..Position' : InEffect(accounts', edited', unbound', feed', n)
<1>1. CASE ProcessUpdate
  <2>1. /\ poller.next \in DOMAIN feed /\ SaveUpdate(poller.next)
        /\ Position = poller.next - 1 /\ Position' \in Nat /\ Position' <= poller.next
        /\ poller.next \in Nat
    BY <1>1, PositionMoves, UpdateAt, PositionWithin DEF Bounded
  <2>2. feed' = feed
    BY <1>1 DEF ProcessUpdate
  <2>3. \A n \in 1..(poller.next - 1) : InEffect(accounts', edited', unbound', feed, n)
    BY <2>1, SavedInEffect DEF Reflected
  <2>4. InEffect(accounts', edited', unbound', feed, poller.next)
    BY <2>1, SavedInEffect
  <2> QED
    BY <2>1, <2>2, <2>3, <2>4
<1>2. CASE ~ProcessUpdate
  <2>1. Position' \in Nat /\ Position \in Nat /\ Position' <= Position
    BY <1>2, PositionMoves, PositionWithin
  <2>2. \A n \in 1..Position : InEffect(accounts', edited', unbound', feed', n)
    BY <1>2, InEffectKept DEF Reflected
  <2> QED
    BY <2>1, <2>2
<1> QED
  BY <1>1, <1>2

LEMMA RepliedKept ==
    ASSUME Bounded, Replied, [Next]_vars
    PROVE  Replied'
<1> SUFFICES ASSUME NEW n \in 1..MaxUpdates
             PROVE  /\ replies'[n] <= 1 + faults' + unmarked'
                    /\ n > Position' => replies'[n] <= faults' + unmarked'
  BY DEF Replied
<1>0. /\ replies[n] \in Nat /\ replies'[n] \in Nat /\ faults \in Nat /\ faults' \in Nat /\ n \in Nat
      /\ unmarked \in Nat /\ unmarked' \in Nat /\ faults' >= faults /\ unmarked' >= unmarked
      /\ Position \in Nat /\ Position' \in Nat
      /\ replies[n] <= 1 + faults + unmarked /\ (n > Position => replies[n] <= faults + unmarked)
  <2>1. /\ replies' \in [1..MaxUpdates -> Nat] /\ faults' \in Nat
        /\ unmarked' \in Nat /\ unmarked' >= unmarked /\ (faults' = faults \/ faults' = faults + 1)
    BY RepliesCounted
  <2>2. Position \in Nat /\ Position' \in Nat
    BY PositionWithin, PositionMoves
  <2>3. replies \in [1..MaxUpdates -> Nat] /\ faults \in Nat /\ unmarked \in Nat /\ n \in Nat
    BY LoginAssumption DEF Bounded, TypeOK
  <2>4. replies[n] <= 1 + faults + unmarked /\ (n > Position => replies[n] <= faults + unmarked)
    BY DEF Replied
  <2> QED
    BY <2>1, <2>2, <2>3, <2>4
<1>1. CASE ProcessUpdate
  <2>1. Position = poller.next - 1 /\ poller.next \in Nat
    BY <1>1, PositionMoves, UpdateAt DEF Bounded
  <2>2. Position' = poller.next \/ unmarked' = unmarked + 1
    BY <1>1, PositionMoves
  <2>3. replies'[n] = replies[n] \/ (n = poller.next /\ replies'[n] = replies[n] + 1)
    BY RepliesCounted DEF Bounded, TypeOK
  <2> QED
    BY <1>0, <2>1, <2>2, <2>3
<1>2. CASE FailUpdate /\ ~ProcessUpdate
  <2>1. Position = poller.next - 1 /\ faults' = faults + 1
    <3>1. poller # Null /\ poller.next <= poller.last
      BY <1>2 DEF FailUpdate
    <3> QED
      BY <1>2, <3>1 DEF FailUpdate, Fault, Position
  <2>2. replies'[n] = replies[n] \/ (n = poller.next /\ replies'[n] = replies[n] + 1)
    BY RepliesCounted DEF Bounded, TypeOK
  <2>3. poller.next \in Nat
    BY <1>2, Left DEF PollerStates
  <2>4. replies'[n] <= faults' + unmarked'
    BY <1>0, <2>1, <2>2, <2>3
  <2> QED
    BY <1>0, <2>4
<1>3. CASE ~ProcessUpdate /\ ~FailUpdate
  <2>1. replies' = replies
    BY <1>3, RepliesCounted
  <2>2. Position' = Position \/ faults' = faults + 1
    BY <1>3, PositionMoves
  <2> QED
    BY <1>0, <2>1, <2>2
<1> QED
  BY <1>1, <1>2, <1>3

\* Once the bot has nothing left to fetch every update has taken effect, but
\* for what administrators have made of the accounts since, and no update has
\* queued more replies than one, one for each failure and one for each page
\* without a marker: pages that are fetched again are applied again, but never
\* undone and never skipped.
THEOREM NoUpdateIsLost == Spec => []UpdatesTakeEffect
<1>1. Init => Applying
  <2> SUFFICES ASSUME Init PROVE Reflected /\ Replied /\ Bounded
    BY DEF Applying
  <2>1. Bounded
    BY StartsBounded
  <2>2. Position = 0
    BY LoginAssumption DEF Init, Position, Base
  <2>3. Reflected
    BY <2>2 DEF Reflected
  <2>4. Replied
    BY DEF Init, Replied
  <2> QED
    BY <2>1, <2>3, <2>4
<1>2. Applying /\ [Next]_vars => Applying'
  <2> SUFFICES ASSUME Applying, [Next]_vars PROVE Applying'
    OBVIOUS
  <2>1. Bounded /\ Reflected /\ Replied
    BY DEF Applying
  <2>2. Bounded' /\ Replied'
    BY <2>1, StaysBounded, RepliedKept
  <2>3. Reflected'
    BY <2>1, ReflectedKept DEF Reflected
  <2> QED
    BY <2>2, <2>3 DEF Applying
<1>3. Applying => UpdatesTakeEffect
  <2> SUFFICES ASSUME Applying PROVE UpdatesTakeEffect
    OBVIOUS
  <2>1. \A n \in 1..MaxUpdates : replies[n] <= 1 + faults + unmarked
    BY DEF Applying, Replied
  <2>2. ASSUME poller # Null, Idle, poller.marker = Len(feed), NEW n \in DOMAIN feed
        PROVE  InEffect(accounts, edited, unbound, feed, n)
    <3>1. Bounded /\ Reflected /\ feed \in Seq(Updates) /\ Len(feed) # Null
      BY LoginAssumption DEF Applying, Bounded, TypeOK
    <3>2. poller \in PollerStates
      BY <2>2, <3>1 DEF Bounded, TypeOK
    <3>3. Position = Len(feed)
      BY <2>2, <3>1, <3>2 DEF Position, Base, Idle, PollerStates
    <3> QED
      BY <2>2, <3>1, <3>3 DEF Reflected
  <2> QED
    BY <2>1, <2>2 DEF UpdatesTakeEffect, InEffect
<1> QED
  BY <1>1, <1>2, <1>3, PTL DEF Spec

-----------------------------------------------------------------------------
(* Why a request changes.                                                  *)

\* An update under way decides the request.
Deciding(r) ==
    /\ ProcessUpdate \/ FailUpdate
    /\ poller.next \in DOMAIN feed /\ feed[poller.next].request = r

\* Its completion ends with the request expired or used up.
Ending(b, r) ==
    /\ LoadUser(b) \/ Consume(b)
    /\ calls[b] # Null /\ calls[b].request = r /\ calls'[b] = Null

\* A request changes its status because its session asks anew, because it is
\* pending and has lapsed or is decided, or because its completion ends.
StatusChange(r) ==
    \/ /\ \E b \in Browsers : RequestMaxLogin(b) /\ requests[r].session = SessionOf[b]
       /\ requests'[r].status = "expired"
    \/ /\ requests[r].status = "pending"
       /\ requests'[r].status = "approved" =>
             Deciding(r) /\ feed[poller.next].kind = "approve" /\ Addressed(feed[poller.next])
    \/ requests[r].status = "approved" /\ \E b \in Browsers : Ending(b, r)

LEMMA StatusChanges ==
    ASSUME Bounded, [Next]_vars, NEW r \in Requests, Existing(r), requests'[r].status # requests[r].status
    PROVE  StatusChange(r)
<1> USE DEF Bounded
<1>0. requests[r] \in RequestRows /\ requests \in [Requests -> RequestRows \cup {Null}]
  BY DEF TypeOK, Existing
<1>1. ASSUME NEW b \in Browsers, Browse(b) PROVE StatusChange(r)
  <2>1. CASE RequestMaxLogin(b)
    <3>1. PICK q \in Requests, row \in RequestRows :
             /\ ~Existing(q)
             /\ requests' = [WithStatus(Older(SessionOf[b]), "expired") EXCEPT ![q] = row]
      BY <2>1, NewRequest
    <3>2. requests'[r] = WithStatus(Older(SessionOf[b]), "expired")[r]
      BY <3>1 DEF WithStatus
    <3>3. CASE r \in Older(SessionOf[b])
      <4>1. requests[r].session = SessionOf[b]
        BY <3>3 DEF Older
      <4>2. requests'[r].status = "expired"
        BY <1>0, <3>2, <3>3 DEF WithStatus, RequestRows
      <4> QED
        BY <2>1, <4>1, <4>2 DEF StatusChange
    <3>4. CASE r \notin Older(SessionOf[b])
      BY <3>2, <3>4 DEF WithStatus
    <3> QED
      BY <3>3, <3>4
  <2>2. CASE BeginComplete(b)
    <3>1. PICK q \in Requests :
             requests' = requests \/ (requests[q].status = "pending" /\ requests' = WithStatus({q}, "expired"))
      BY <2>2 DEF BeginComplete
    <3>2. requests[q].status = "pending" /\ requests' = WithStatus({q}, "expired") /\ q = r
      BY <3>1 DEF WithStatus
    <3>3. requests'[r].status = "expired"
      BY <1>0, <3>2 DEF WithStatus, RequestRows
    <3> QED
      BY <3>2, <3>3 DEF StatusChange
  <2>3. CASE LoadUser(b) \/ Consume(b)
    <3> DEFINE of == {q \in {calls[b].request} : requests[q].status = "approved"}
    <3>1. calls[b] # Null /\ calls \in [Browsers -> CompletionRows \cup {Null}]
      BY <2>3 DEF LoadUser, Consume, AtStep, TypeOK
    <3>2. PICK status \in {"expired", "consumed"} :
             requests' = requests \/ (calls' = [calls EXCEPT ![b] = Null] /\ requests' = WithStatus(of, status))
      BY <2>3 DEF LoadUser, Consume
    <3>3. calls' = [calls EXCEPT ![b] = Null] /\ requests' = WithStatus(of, status)
      BY <3>2
    <3>4. r = calls[b].request /\ requests[r].status = "approved"
      BY <3>3 DEF WithStatus
    <3> QED
      BY <2>3, <3>1, <3>3, <3>4 DEF StatusChange, Ending
  <2>4. CASE Enter(b) \/ FailComplete(b) \/ Login(b) \/ Logout(b)
    BY <2>4 DEF Enter, FailComplete, Login, Logout
  <2> QED
    BY <1>1, <2>1, <2>2, <2>3, <2>4 DEF Browse
<1>2. ASSUME NEW q \in Requests, Lapse(q) PROVE StatusChange(r)
  <2>1. requests' = [requests EXCEPT ![q] = [requests[q] EXCEPT !.lapsed = TRUE]]
    BY <1>2 DEF Lapse
  <2>2. requests[q] \in RequestRows
    BY <1>0, <1>2 DEF Lapse, Existing
  <2>3. requests'[r].status = requests[r].status
    BY <1>0, <2>1, <2>2 DEF RequestRows
  <2> QED
    BY <2>3
<1>3. CASE ProcessUpdate \/ FailUpdate
  <2>1. poller # Null /\ poller.next <= poller.last /\ SaveUpdate(poller.next)
    BY <1>3 DEF ProcessUpdate, FailUpdate
  <2>2. poller.next \in DOMAIN feed
    BY <2>1, NextUpdate
  <2>3. feed[poller.next].request = r /\ requests[r].status = "pending"
    BY <2>1, <2>2, SavedMoves
  <2>4. r # Null
    BY LoginAssumption
  <2>5. requests'[r].status = "approved" => feed[poller.next].kind = "approve" /\ Addressed(feed[poller.next])
    BY <2>1, <2>2, <2>3, <2>4, SavedMoves
  <2> QED
    BY <1>3, <2>2, <2>3, <2>5 DEF StatusChange, Deciding
<1>4. CASE Send \/ Poll \/ Crash \/ Start \/ EditAccount \/ EditContact \/ Ban \/ UNCHANGED vars
  BY <1>4 DEF Send, Poll, Crash, Start, EditAccount, EditContact, Ban, vars
<1> QED
  BY <1>1, <1>2, <1>3, <1>4 DEF Next

\* A request appears only when its session asks for one, and is pending then;
\* every other request of the session is decided.
NewRow(r) ==
    \E b \in Browsers :
       /\ RequestMaxLogin(b)
       /\ requests'[r].session = SessionOf[b] /\ requests'[r].status = "pending"
       /\ \A q \in Requests \ {r} : Existing(q) /\ requests[q].session = SessionOf[b] =>
             requests'[q].status \notin {"pending", "approved"}
       /\ \A q \in Requests \ {r} : ~Existing(q) => requests'[q] = Null

LEMMA NewRows ==
    ASSUME Bounded, [Next]_vars, NEW r \in Requests, ~Existing(r), requests'[r] # Null
    PROVE  NewRow(r)
<1> USE DEF Bounded
<1>0. requests \in [Requests -> RequestRows \cup {Null}] /\ requests[r] = Null
  BY DEF TypeOK, Existing
<1>1. ASSUME NEW b \in Browsers, Browse(b) PROVE NewRow(r)
  <2>1. CASE RequestMaxLogin(b)
    <3>1. PICK new \in Requests, row \in RequestRows :
             /\ ~Existing(new) /\ row.session = SessionOf[b] /\ row.status = "pending"
             /\ requests' = [WithStatus(Older(SessionOf[b]), "expired") EXCEPT ![new] = row]
      BY <2>1, NewRequest
    <3> DEFINE given == WithStatus(Older(SessionOf[b]), "expired")
    <3>2. /\ requests'[new] = row
          /\ \A q \in Requests \ {new} : requests'[q] = given[q]
      BY <3>1 DEF WithStatus
    <3>3. \A q \in Requests : ~Existing(q) => given[q] = Null
      BY <1>0 DEF WithStatus, Older, Existing
    <3>4. \A q \in Requests : Existing(q) /\ requests[q].session = SessionOf[b] =>
             given[q].status \notin {"pending", "approved"}
      BY <1>0 DEF WithStatus, Older, Existing, Undecided, RequestRows
    <3> HIDE DEF given
    <3>5. new = r
      BY <3>2, <3>3
    <3> QED
      BY <2>1, <3>1, <3>2, <3>3, <3>4, <3>5 DEF NewRow
  <2>2. CASE BeginComplete(b)
    <3>1. PICK q \in Requests : Existing(q) /\ (requests' = requests \/ requests' = WithStatus({q}, "expired"))
      BY <2>2 DEF BeginComplete
    <3> QED
      BY <1>0, <3>1 DEF WithStatus, Existing
  <2>3. CASE LoadUser(b) \/ Consume(b)
    <3> DEFINE of == {q \in {calls[b].request} : requests[q].status = "approved"}
    <3>1. PICK status \in {"expired", "consumed"} : requests' = requests \/ requests' = WithStatus(of, status)
      BY <2>3 DEF LoadUser, Consume
    <3>2. Existing(calls[b].request)
      BY <2>3 DEF LoadUser, Consume, AtStep, Named
    <3> QED
      BY <1>0, <3>1, <3>2 DEF WithStatus, Existing
  <2>4. CASE Enter(b) \/ FailComplete(b) \/ Login(b) \/ Logout(b)
    BY <1>0, <2>4 DEF Enter, FailComplete, Login, Logout
  <2> QED
    BY <1>1, <2>1, <2>2, <2>3, <2>4 DEF Browse
<1>2. ASSUME NEW q \in Requests, Lapse(q) PROVE NewRow(r)
  BY <1>0, <1>2 DEF Lapse, Existing
<1>3. CASE ProcessUpdate \/ FailUpdate
  <2>1. poller # Null /\ poller.next <= poller.last /\ SaveUpdate(poller.next)
    BY <1>0, <1>3 DEF ProcessUpdate, FailUpdate
  <2>2. poller.next \in DOMAIN feed
    BY <2>1, NextUpdate
  <2>3. r # feed[poller.next].request
    BY <2>2, UpdateAt, LoginAssumption DEF Kinds
  <2> QED
    BY <1>0, <2>1, <2>2, <2>3, SavedMoves
<1>4. CASE Send \/ Poll \/ Crash \/ Start \/ EditAccount \/ EditContact \/ Ban \/ UNCHANGED vars
  BY <1>0, <1>4 DEF Send, Poll, Crash, Start, EditAccount, EditContact, Ban, vars
<1> QED
  BY <1>1, <1>2, <1>3, <1>4 DEF Next

-----------------------------------------------------------------------------
(* Decisions stand.                                                        *)

\* A session has at most one undecided request.
OneUndecided ==
    \A r, q \in Requests :
       Existing(r) /\ Existing(q) /\ Undecided(r) /\ Undecided(q)
          /\ requests[r].session = requests[q].session => r = q

\* An undecided request that is not new was undecided before.
LEMMA UndecidedBefore ==
    ASSUME Bounded, [Next]_vars, NEW r \in Requests, Existing(r),
           requests'[r].status \in {"pending", "approved"}
    PROVE  Undecided(r) /\ requests'[r].session = requests[r].session
BY RequestsMove DEF RequestsMoved, Moved, Undecided

LEMMA OneUndecidedKept ==
    ASSUME Bounded, OneUndecided, [Next]_vars
    PROVE  OneUndecided'
<1> SUFFICES ASSUME NEW r \in Requests, NEW q \in Requests, requests'[r] # Null, requests'[q] # Null,
                    requests'[r].status \in {"pending", "approved"},
                    requests'[q].status \in {"pending", "approved"},
                    requests'[r].session = requests'[q].session
             PROVE  r = q
  BY DEF OneUndecided, Existing, Undecided
<1>1. CASE Existing(r) /\ Existing(q)
  BY <1>1, UndecidedBefore DEF OneUndecided
<1>2. CASE ~Existing(r)
  <2>1. NewRow(r)
    BY <1>2, NewRows
  <2> QED
    BY <2>1, UndecidedBefore DEF NewRow
<1>3. CASE ~Existing(q)
  <2>1. NewRow(q)
    BY <1>3, NewRows
  <2> QED
    BY <2>1, UndecidedBefore DEF NewRow
<1> QED
  BY <1>1, <1>2, <1>3

\* Requests are decided once: a session has one undecided request at a time,
\* and a status only moves on, although updates are applied again and
\* windows complete side by side.
THEOREM DecidedForGood == Spec => DecisionsStand
<1> DEFINE Kept ==
       /\ \A r \in Requests : Existing(r) =>
             \/ requests'[r].status = requests[r].status
             \/ requests[r].status = "pending" /\ requests'[r].status \in Statuses \ {"consumed"}
             \/ requests[r].status = "approved" /\ requests'[r].status \in {"consumed", "expired"}
       /\ \A r, q \in Requests :
             Existing(r)' /\ Existing(q)' /\ Undecided(r)' /\ Undecided(q)'
                /\ requests'[r].session = requests'[q].session => r = q
<1>1. Init => Bounded /\ OneUndecided
  BY StartsBounded DEF Init, OneUndecided, Existing
<1>2. Bounded /\ OneUndecided /\ [Next]_vars => Bounded' /\ OneUndecided'
  BY StaysBounded, OneUndecidedKept
<1>3. Bounded /\ OneUndecided /\ [Next]_vars => Kept
  <2> SUFFICES ASSUME Bounded, OneUndecided, [Next]_vars PROVE Kept
    OBVIOUS
  <2>1. ASSUME NEW r \in Requests, Existing(r)
        PROVE  \/ requests'[r].status = requests[r].status
               \/ requests[r].status = "pending" /\ requests'[r].status \in Statuses \ {"consumed"}
               \/ requests[r].status = "approved" /\ requests'[r].status \in {"consumed", "expired"}
    BY <2>1, RequestsMove DEF RequestsMoved, Moved
  <2>2. OneUndecided'
    BY OneUndecidedKept
  <2> QED
    BY <2>1, <2>2 DEF OneUndecided
<1>4. Bounded /\ OneUndecided /\ [Next]_vars => [Kept]_vars
  BY <1>3
<1> HIDE DEF Kept
<1>5. Spec => [][Kept]_vars
  BY <1>1, <1>2, <1>4, PTL DEF Spec
<1> QED
  BY <1>5 DEF Kept, DecisionsStand

-----------------------------------------------------------------------------
(* Logins follow approvals.                                                *)

\* A completion works on an approved request of its session, and on that
\* session alone.
Exclusive ==
    /\ \A b \in Browsers : calls[b] # Null =>
          requests[calls[b].request].session = SessionOf[b] /\ requests[calls[b].request].status = "approved"
    /\ \A b, c \in Browsers :
          calls[b] # Null /\ calls[c] # Null /\ SessionOf[b] = SessionOf[c] => b = c

\* As long as a completion runs, its request stays approved.
LEMMA ApprovedMeanwhile ==
    ASSUME Bounded, Exclusive, [Next]_vars, NEW b \in Browsers, calls[b] # Null, calls'[b] # Null
    PROVE  /\ calls[b].request \in Requests /\ Existing(calls[b].request)
           /\ requests'[calls[b].request].session = SessionOf[b]
           /\ requests'[calls[b].request].status = "approved"
<1> DEFINE r == calls[b].request
<1>1. r \in Requests /\ Existing(r) /\ requests[r].session = SessionOf[b] /\ requests[r].status = "approved"
  BY DEF Bounded, TypeOK, CompletionRows, Named, Exclusive
<1>2. requests'[r].session = SessionOf[b]
  BY <1>1, Remaining
<1>3. requests'[r].status = "approved"
  <2> SUFFICES ASSUME requests'[r].status # "approved" PROVE FALSE
    OBVIOUS
  <2>1. StatusChange(r)
    BY <1>1, StatusChanges
  <2>2. ASSUME NEW other \in Browsers, RequestMaxLogin(other), requests[r].session = SessionOf[other]
        PROVE  FALSE
    BY <1>1, <2>2 DEF RequestMaxLogin, SessionFree
  <2>3. ASSUME NEW other \in Browsers, Ending(other, r) PROVE FALSE
    <3>1. requests[r].session = SessionOf[other] /\ other # b
      BY <2>3 DEF Ending, Exclusive
    <3> QED
      BY <1>1, <2>3, <3>1 DEF Ending, Exclusive
  <2> QED
    BY <1>1, <2>1, <2>2, <2>3 DEF StatusChange
<1> QED
  BY <1>1, <1>2, <1>3

LEMMA ExclusiveKept ==
    ASSUME Bounded, Exclusive, [Next]_vars
    PROVE  Exclusive'
<1>0. \A b \in Browsers : calls'[b] # Null /\ calls[b] # Null => calls'[b].request = calls[b].request
  BY CallsMove DEF CallsMoved, BeginComplete, SessionFree
<1>1. ASSUME NEW b \in Browsers, calls'[b] # Null, calls[b] = Null
      PROVE  /\ BeginComplete(b) /\ requests[calls'[b].request].session = SessionOf[b]
             /\ requests[calls'[b].request].status = "approved" /\ requests' = requests
             /\ \A other \in Browsers \ {b} : calls'[other] = calls[other]
  BY <1>1, CallsMove DEF CallsMoved
<1>2. ASSUME NEW b \in Browsers, calls'[b] # Null
      PROVE  requests'[calls'[b].request].session = SessionOf[b] /\ requests'[calls'[b].request].status = "approved"
  <2>1. CASE calls[b] = Null
    BY <1>1, <1>2, <2>1
  <2>2. CASE calls[b] # Null
    BY <1>0, <1>2, <2>2, ApprovedMeanwhile
  <2> QED
    BY <2>1, <2>2
<1>3. ASSUME NEW b \in Browsers, NEW c \in Browsers, calls'[b] # Null, calls'[c] # Null, SessionOf[b] = SessionOf[c]
      PROVE  b = c
  <2>1. CASE calls[b] # Null /\ calls[c] # Null
    BY <1>3, <2>1 DEF Exclusive
  <2>2. CASE calls[b] = Null
    BY <1>1, <1>3, <2>2 DEF BeginComplete, SessionFree
  <2>3. CASE calls[c] = Null
    BY <1>1, <1>3, <2>3 DEF BeginComplete, SessionFree
  <2> QED
    BY <2>1, <2>2, <2>3
<1> QED
  BY <1>2, <1>3 DEF Exclusive

\* Among the updates is an approval of a request by an account, and before
\* it no refusal of that account.
Choice(updates, a, r) ==
    \E n \in DOMAIN updates :
       /\ updates[n] = [kind |-> "approve", actor |-> a, request |-> r]
       /\ \A k \in 1..(n - 1) :
             updates[k].actor = a /\ updates[k].request = r => updates[k].kind = "approve"

\* A choice once made stays among the updates.
LEMMA ChoiceStays ==
    ASSUME Bounded, [Next]_vars, NEW a, NEW r, Choice(feed, a, r)
    PROVE  Choice(feed', a, r)
<1>1. PICK n \in DOMAIN feed :
         /\ feed[n] = [kind |-> "approve", actor |-> a, request |-> r]
         /\ \A k \in 1..(n - 1) : feed[k].actor = a /\ feed[k].request = r => feed[k].kind = "approve"
  BY DEF Choice
<1>2. \A k \in 1..(n - 1) : k \in DOMAIN feed
  BY UpdateAt DEF Bounded, TypeOK
<1>3. \A k \in DOMAIN feed : k \in DOMAIN feed' /\ feed'[k] = feed[k]
  BY FeedGrows
<1> QED
  BY <1>1, <1>2, <1>3 DEF Choice

\* What was approved, and what has logged a session in, has been chosen; an
\* update that the bot has dealt with has decided its request, if it came
\* from the account of that.
Chosen ==
    /\ \A r \in Requests : Existing(r) /\ requests[r].status \in {"approved", "consumed"} =>
          Choice(feed, requests[r].account, r)
    /\ \A r \in Requests : entered[r] > 0 => Existing(r) /\ Choice(feed, requests[r].account, r)
    /\ \A n \in 1..Position : feed[n].request # Null /\ Addressed(feed[n]) =>
          requests[feed[n].request].status # "pending"

LEMMA ApprovedByChoice ==
    ASSUME Bounded, Chosen, [Next]_vars, NEW r \in Requests, requests'[r] # Null,
           requests'[r].status \in {"approved", "consumed"}
    PROVE  Choice(feed', requests'[r].account, r)
<1>1. Existing(r)
  BY NewRows DEF NewRow
<1>2. requests'[r].account = requests[r].account /\ Moved(requests[r], requests'[r])
  BY <1>1, RequestsMove DEF RequestsMoved, Moved
<1>3. CASE requests[r].status \in {"approved", "consumed"}
  BY <1>1, <1>2, <1>3, ChoiceStays DEF Chosen
<1>4. CASE requests[r].status \notin {"approved", "consumed"}
  <2>1. requests'[r].status = "approved" /\ requests[r].status = "pending"
    BY <1>2, <1>4 DEF Moved
  <2>2. StatusChange(r)
    BY <1>1, <2>1, StatusChanges
  <2>3. Deciding(r) /\ feed[poller.next].kind = "approve" /\ Addressed(feed[poller.next])
    BY <2>1, <2>2 DEF StatusChange
  <2> DEFINE n == poller.next
  <2>4. n \in DOMAIN feed /\ n \in Nat /\ Position = n - 1
    <3>1. n \in DOMAIN feed /\ poller # Null /\ poller.next <= poller.last
      BY <2>3 DEF Deciding, ProcessUpdate, FailUpdate
    <3> QED
      BY <3>1, UpdateAt DEF Position, Bounded
  <2>5. feed[n] \in Updates /\ feed[n].request = r /\ feed[n].actor = requests[r].account
    <3>1. feed[n].request = r /\ Addressed(feed[n])
      BY <2>3 DEF Deciding
    <3> QED
      BY <2>4, <3>1, UpdateAt DEF Bounded, Addressed
  <2>6. feed[n] = [kind |-> "approve", actor |-> requests[r].account, request |-> r]
    BY <2>3, <2>5 DEF Updates
  <2>7. \A k \in 1..(n - 1) : ~(feed[k].actor = requests[r].account /\ feed[k].request = r)
    BY <2>1, <2>4, LoginAssumption DEF Chosen, Addressed
  <2>8. Choice(feed, requests[r].account, r)
    BY <2>4, <2>6, <2>7 DEF Choice
  <2> QED
    BY <1>2, <2>8, ChoiceStays
<1> QED
  BY <1>3, <1>4

LEMMA EnteredByChoice ==
    ASSUME Bounded, Exclusive, Chosen, [Next]_vars, NEW r \in Requests, entered'[r] > 0
    PROVE  requests'[r] # Null /\ Choice(feed', requests'[r].account, r)
<1>1. Existing(r) /\ Choice(feed, requests[r].account, r)
  <2>1. CASE entered'[r] = entered[r]
    BY <2>1 DEF Chosen
  <2>2. CASE entered'[r] # entered[r]
    <3>1. PICK b \in Browsers : calls[b] # Null /\ calls[b].request = r
      BY <2>2, EnteredMove DEF EnteredMoved, AtStep, Bounded, TypeOK
    <3>2. Existing(r) /\ requests[r].status = "approved"
      BY <3>1 DEF Exclusive, Bounded, Named
    <3> QED
      BY <3>2 DEF Chosen
  <2> QED
    BY <2>1, <2>2
<1> QED
  BY <1>1, Remaining, ChoiceStays

LEMMA DealtWithIsDecided ==
    ASSUME Bounded, Chosen, [Next]_vars, NEW n \in 1..Position', feed'[n].request # Null,
           requests'[feed'[n].request].account = feed'[n].actor
    PROVE  requests'[feed'[n].request].status # "pending"
<1>0. Position \in Nat /\ Position <= Len(feed) /\ Position' \in Nat
  BY PositionWithin, PositionMoves
<1>1. CASE n <= Position
  <2>1. n \in 1..Position /\ n \in DOMAIN feed /\ feed'[n] = feed[n]
    BY <1>0, <1>1, FeedGrows DEF Bounded, TypeOK
  <2>2. feed[n].request \in Requests /\ Existing(feed[n].request)
    BY <2>1, UpdateAt DEF Bounded
  <2>3. Moved(requests[feed[n].request], requests'[feed[n].request])
    BY <2>2, RequestsMove DEF RequestsMoved
  <2>4. requests[feed[n].request].status # "pending"
    BY <2>1, <2>3 DEF Chosen, Moved, Addressed
  <2> QED
    BY <2>1, <2>3, <2>4 DEF Moved
<1>2. CASE n > Position
  <2>1. /\ ProcessUpdate /\ poller.next \in DOMAIN feed /\ SaveUpdate(poller.next)
        /\ n = poller.next
    BY <1>0, <1>2, PositionMoves, UpdateAt DEF Bounded
  <2>2. feed' = feed
    BY <2>1 DEF ProcessUpdate
  <2>3. feed[n].request \in Requests /\ Existing(feed[n].request)
    BY <2>1, <2>2, UpdateAt DEF Bounded
  <2>4. Addressed(feed[n])
    BY <2>2, <2>3, Remaining DEF Addressed
  <2> QED
    BY <2>1, <2>2, <2>4, SavedMoves DEF Bounded
<1> QED
  BY <1>0, <1>1, <1>2

LEMMA ChosenKept ==
    ASSUME Bounded, Exclusive, Chosen, [Next]_vars
    PROVE  Chosen'
BY ApprovedByChoice, EnteredByChoice, DealtWithIsDecided DEF Chosen, Existing, Addressed

\* Some completion is about to mark a request as consumed.
Consuming(r) == \E b \in Browsers : AtStep(b, "consume") /\ calls[b].request = r

\* A request logs its session in once, and once more for each failure; one
\* that is neither used up nor about to be has done so only for failures.
Counted ==
    \A r \in Requests :
       /\ entered[r] <= 1 + faults
       /\ Existing(r) /\ Undecided(r) /\ ~Consuming(r) => entered[r] <= faults

\* A completion at its last statement fails there, or uses its request up.
LEMMA LastStatement ==
    ASSUME Bounded, Exclusive, [Next]_vars, NEW b \in Browsers, AtStep(b, "consume")
    PROVE  \/ calls'[b] = calls[b]
           \/ faults' = faults + 1
           \/ requests'[calls[b].request].status = "consumed"
<1> SUFFICES ASSUME calls'[b] # calls[b], faults' # faults + 1
             PROVE  requests'[calls[b].request].status = "consumed"
  OBVIOUS
<1>0. /\ calls[b] # Null /\ calls[b].step = "consume" /\ calls \in [Browsers -> CompletionRows \cup {Null}]
      /\ calls[b].request \in Requests /\ requests[calls[b].request] \in RequestRows
      /\ requests[calls[b].request].status = "approved"
  BY DEF AtStep, Bounded, TypeOK, CompletionRows, Exclusive, Named, Existing
<1>1. Consume(b)
  <2>1. PICK c \in Browsers : Browse(c)
    BY DEF Next, Lapse, Send, Poll, ProcessUpdate, FailUpdate, Crash, Start, EditAccount, EditContact, Ban, web,
           vars
  <2>2. BeginComplete(c) \/ LoadUser(c) \/ Enter(c) \/ Consume(c) \/ FailComplete(c)
    BY <2>1 DEF Browse, RequestMaxLogin, Login, Logout, web
  <2>3. c = b
    BY <1>0, <2>2 DEF BeginComplete, LoadUser, Enter, Consume, FailComplete
  <2> QED
    BY <1>0, <2>2, <2>3 DEF BeginComplete, SessionFree, LoadUser, Enter, AtStep, FailComplete, Fault
<1>2. requests' = WithStatus({calls[b].request}, "consumed")
  <2>1. {r \in {calls[b].request} : requests[r].status = "approved"} = {calls[b].request}
    BY <1>0
  <2> QED
    BY <1>1, <2>1 DEF Consume
<1> QED
  BY <1>0, <1>2 DEF WithStatus, RequestRows

LEMMA CountedKept ==
    ASSUME Bounded, Exclusive, Chosen, Counted, [Next]_vars
    PROVE  Counted'
<1> SUFFICES ASSUME NEW r \in Requests
             PROVE  /\ entered'[r] <= 1 + faults'
                    /\ requests'[r] # Null /\ requests'[r].status \in {"pending", "approved"} /\ ~Consuming(r)' =>
                          entered'[r] <= faults'
  BY DEF Counted, Existing, Undecided
<1>0. /\ entered[r] \in Nat /\ entered'[r] \in Nat /\ faults \in Nat /\ faults' \in Nat
      /\ faults' = faults \/ faults' = faults + 1
      /\ entered[r] <= 1 + faults
  BY EnteredTyped, RepliesCounted DEF Counted, Bounded, TypeOK
<1>1. CASE entered'[r] = entered[r]
  <2>1. ASSUME requests'[r] # Null, requests'[r].status \in {"pending", "approved"}, ~Consuming(r)', faults' = faults
        PROVE  entered[r] <= faults
    <3>1. CASE ~Existing(r)
      BY <1>0, <3>1 DEF Chosen
    <3>2. CASE Existing(r) /\ ~Consuming(r)
      BY <2>1, <3>2, UndecidedBefore DEF Counted
    <3>3. CASE Existing(r) /\ Consuming(r)
      <4>1. PICK b \in Browsers : AtStep(b, "consume") /\ calls[b].request = r
        BY <3>3 DEF Consuming
      <4>2. calls'[b] # calls[b]
        BY <2>1, <4>1 DEF Consuming, AtStep
      <4> QED
        BY <1>0, <2>1, <4>1, <4>2, LastStatement
    <3> QED
      BY <3>1, <3>2, <3>3
  <2> QED
    BY <1>0, <1>1, <2>1
<1>2. CASE entered'[r] # entered[r]
  <2>1. PICK b \in Browsers :
           /\ AtStep(b, "login") /\ calls[b] \in CompletionRows /\ calls[b].request = r
           /\ calls'[b] # Null /\ calls'[b].step = "consume" /\ calls'[b].request = r
           /\ entered' = [entered EXCEPT ![r] = @ + 1] /\ faults' = faults
    BY <1>2, EnteredMove DEF EnteredMoved, Bounded, TypeOK
  <2>2. Existing(r) /\ Undecided(r) /\ requests[r].session = SessionOf[b]
    BY <2>1 DEF AtStep, Exclusive, Bounded, Named, Undecided
  <2>3. ~Consuming(r)
    BY <2>1, <2>2 DEF Consuming, AtStep, Exclusive
  <2>4. entered[r] <= faults
    BY <2>2, <2>3 DEF Counted
  <2>5. Consuming(r)'
    BY <2>1 DEF Consuming, AtStep
  <2>6. entered'[r] = entered[r] + 1
    BY <2>1 DEF Bounded, TypeOK
  <2> QED
    BY <1>0, <2>1, <2>4, <2>5, <2>6
<1> QED
  BY <1>1, <1>2

\* Whatever windows, callbacks of other accounts, updates applied again and
\* failures do, a request has logged its session in only if its own account
\* chose to before refusing it, and once, but for completions that failed.
THEOREM ChosenOnce == Spec => []OneLoginPerApproval
<1> DEFINE Inv == Bounded /\ Exclusive /\ Chosen /\ Counted
<1>1. Init => Inv
  <2> SUFFICES ASSUME Init PROVE Inv
    OBVIOUS
  <2>1. Position = 0
    BY LoginAssumption DEF Init, Position, Base
  <2>2. Exclusive /\ Counted
    BY DEF Init, Exclusive, Counted
  <2>3. Chosen
    BY <2>1 DEF Init, Chosen, Existing
  <2> QED
    BY <2>2, <2>3, StartsBounded
<1>2. Inv /\ [Next]_vars => Inv'
  BY StaysBounded, ExclusiveKept, ChosenKept, CountedKept
<1>3. Inv => OneLoginPerApproval
  BY DEF Chosen, Counted, Choice, OneLoginPerApproval
<1> HIDE DEF Inv
<1> QED
  BY <1>1, <1>2, <1>3, PTL DEF Spec
===============================================================================
