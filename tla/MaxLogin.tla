------------------------------- MODULE MaxLogin -------------------------------
(***************************************************************************)
(* Logins approved in the MAX messenger.  A browser asks for a login by    *)
(* phone number and polls until it is decided (services/userMaxAuth.go,    *)
(* userLogin.go, user.go); the bot fetches the updates of MAX in batches   *)
(* and applies each in a transaction (maxbot/poller.go, processor.go,      *)
(* store.go, store_auth.go); administrators edit and delete accounts and   *)
(* change whom a contact belongs to (services/maxUser.gen.go,              *)
(* entityContact.gen.go).  How messages reach the messenger is the subject *)
(* of MaxOutbox.                                                           *)
(*                                                                         *)
(* A completion is a sequence of statements under the session's advisory   *)
(* lock, and in no transaction: it may end between any two of them.        *)
(***************************************************************************)
EXTENDS Integers, Sequences

CONSTANTS Null,
          Browsers,     \* windows that ask and poll
          SessionOf,    \* the session of each; several may share one
          Users, Contacts, Accounts,
          ContactOf,    \* the contact each account shares, if it shares one
          Known,        \* accounts and their contacts at the start, or Null
          Linked,       \* contacts and users that belong together at the start
          Requests,     \* names of requests; none is used twice
          Limit,        \* updates in a batch
          MaxUpdates,   \* bound on the updates of MAX
          MaxUnmarked,  \* bound on pages without a marker
          MaxEvents     \* bound on crashes, failed statements, failed calls, what
                        \* administrators commit and plain logins, taken together

VARIABLES requests,     \* max_auth_requests
          calls,        \* the completion each browser is in, Null when none
          sessions,     \* the user of each session, Null when anonymous
          logins,       \* open rows of logins: <<session, user>>
          accounts,     \* max_users: [contact, active], Null while there is no row
          edited,       \* history: accounts administrators have changed since an
                        \* update of theirs was applied
          unbound,      \* history: accounts that administrators have deleted or
                        \* left without a contact since they shared one
          linked,       \* active entity_contacts: <<contact, user>>
          banned,
          feed,         \* the updates of MAX, in their order
          acked,        \* updates MAX will not send again
          poller,       \* [marker, next, last], Null while the bot is down
          replies,      \* how many replies each update has queued
          entered,      \* how often each request has logged its session in
          unmarked,     \* pages that came without a marker
          faults, changes

people == <<accounts, edited, unbound>>
bot == <<people, feed, acked, poller, replies, unmarked>>
web == <<calls, sessions, logins, entered>>
vars == <<requests, calls, sessions, logins, accounts, edited, unbound, linked, banned, feed,
          acked, poller, replies, unmarked, entered, faults, changes>>

Sessions == {SessionOf[b] : b \in Browsers}

Statuses == {"pending", "approved", "declined", "expired", "consumed"}
Kinds == {"started", "stopped", "contact", "approve", "decline"}

RequestRows ==
    [session : Sessions, phone : Contacts, account : Accounts \cup {Null},
     user : Users \cup {Null}, status : Statuses, lapsed : BOOLEAN]
AccountRows == [contact : Contacts \cup {Null}, active : BOOLEAN]
CompletionRows == [request : Requests, step : {"load", "login", "consume"}, user : Users \cup {Null}]
PollerStates == [marker : Nat \cup {Null}, next : Nat, last : Nat]
Updates == [kind : Kinds, actor : Accounts, request : Requests \cup {Null}]

ASSUME LoginAssumption ==
    /\ Known \in [Accounts -> Contacts \cup {Null}]
    /\ ContactOf \in [Accounts -> Contacts] /\ Linked \subseteq Contacts \X Users
    /\ Null \notin Users \cup Contacts \cup Accounts \cup Requests \cup Nat
    /\ Null \notin RequestRows \cup AccountRows \cup CompletionRows \cup PollerStates
    /\ Limit \in Nat \ {0}
    /\ MaxUpdates \in Nat /\ MaxUnmarked \in Nat /\ MaxEvents \in Nat

\* Every variable has its type, and no more updates arrive than the bound.
TypeOK ==
    /\ requests \in [Requests -> RequestRows \cup {Null}]
    /\ calls \in [Browsers -> CompletionRows \cup {Null}]
    /\ sessions \in [Sessions -> Users \cup {Null}]
    /\ logins \subseteq Sessions \X (Users \cup {Null})
    /\ accounts \in [Accounts -> AccountRows \cup {Null}]
    /\ edited \subseteq Accounts /\ unbound \subseteq Accounts
    /\ linked \subseteq Contacts \X Users /\ banned \subseteq Users
    /\ feed \in Seq(Updates) /\ Len(feed) <= MaxUpdates
    /\ acked \in Nat
    /\ poller \in PollerStates \cup {Null}
    /\ replies \in [1..MaxUpdates -> Nat]
    /\ entered \in [Requests -> Nat]
    /\ unmarked \in Nat /\ faults \in Nat /\ changes \in Nat

-----------------------------------------------------------------------------
Init ==
    /\ requests = [r \in Requests |-> Null]
    /\ calls = [b \in Browsers |-> Null]
    /\ sessions = [s \in Sessions |-> Null]
    /\ logins = {}
    /\ accounts = [a \in Accounts |->
          IF Known[a] = Null THEN Null ELSE [contact |-> Known[a], active |-> TRUE]]
    /\ edited = {} /\ unbound = {}
    /\ linked = Linked
    /\ banned = {}
    /\ feed = <<>> /\ acked = 0
    /\ poller = [marker |-> Null, next |-> 1, last |-> 0]
    /\ replies = [n \in 1..MaxUpdates |-> 0]
    /\ entered = [r \in Requests |-> 0]
    /\ unmarked = 0 /\ faults = 0 /\ changes = 0

Fault == faults + changes < MaxEvents /\ faults' = faults + 1
Change == faults + changes < MaxEvents /\ changes' = changes + 1

-----------------------------------------------------------------------------
(* Browsers.                                                               *)

\* The advisory lock of the session.
SessionFree(b) ==
    \A other \in Browsers : SessionOf[other] = SessionOf[b] => calls[other] = Null

Existing(r) == requests[r] # Null
Undecided(r) == requests[r].status \in {"pending", "approved"}

\* Who a phone number leads to: accounts, their contact and a user of it.
Candidates(phone) ==
    {who \in Accounts \X Users :
       LET a == who[1] IN
       /\ accounts[a] # Null /\ accounts[a].active /\ accounts[a].contact = phone
       /\ <<phone, who[2]>> \in linked /\ who[2] \notin banned}

Resolved(phone) ==
    IF \E who \in Candidates(phone) : Candidates(phone) = {who}
    THEN LET who == CHOOSE who \in Candidates(phone) : TRUE
         IN  [account |-> who[1], user |-> who[2]]
    ELSE [account |-> Null, user |-> Null]

Reusable(r, session, phone) ==
    /\ Existing(r) /\ requests[r].session = session /\ requests[r].phone = phone
    /\ requests[r].account # Null /\ Undecided(r) /\ ~requests[r].lapsed

WithStatus(of, status) ==
    [r \in Requests |-> IF r \in of THEN [requests[r] EXCEPT !.status = status] ELSE requests[r]]

\* Older requests of the session are given up and a new one is made, unless
\* one for this number is still good.  When the number leads to one user a
\* message with buttons is queued.
RequestMaxLogin(b) ==
    /\ SessionFree(b)
    /\ \E phone \in Contacts, r \in Requests :
          LET session == SessionOf[b]
              older == {q \in Requests : Existing(q) /\ requests[q].session = session /\ Undecided(q)}
              who == Resolved(phone)
          IN  /\ requests[r] = Null
              /\ ~\E q \in Requests : Reusable(q, session, phone)
              /\ requests' = [WithStatus(older, "expired") EXCEPT ![r] =
                   [session |-> session, phone |-> phone, account |-> who.account,
                    user |-> who.user, status |-> "pending", lapsed |-> FALSE]]
    /\ UNCHANGED <<web, bot, linked, banned, faults, changes>>

\* The time of a request is up.  Of decided ones it is never asked.
Lapse(r) ==
    /\ Existing(r) /\ Undecided(r) /\ ~requests[r].lapsed
    /\ requests' = [requests EXCEPT ![r].lapsed = TRUE]
    /\ UNCHANGED <<web, bot, linked, banned, faults, changes>>

\* Expires the request if it is time, reads its status, and goes on when it
\* has been approved.
BeginComplete(b) ==
    /\ SessionFree(b)
    /\ \E r \in Requests :
          /\ Existing(r) /\ requests[r].session = SessionOf[b]
          /\ IF requests[r].status = "approved"
             THEN /\ calls' = [calls EXCEPT ![b] = [request |-> r, step |-> "load", user |-> Null]]
                  /\ UNCHANGED requests
             ELSE /\ requests[r].status = "pending" /\ requests[r].lapsed
                  /\ requests' = WithStatus({r}, "expired")
                  /\ UNCHANGED calls
    /\ UNCHANGED <<sessions, logins, entered, bot, linked, banned, faults, changes>>

AtStep(b, step) == calls[b] # Null /\ calls[b].step = step

\* The account is active and still has the contact, the contact the user.
StillLinked(r, known) ==
    LET a == requests[r].account IN
    /\ a # Null /\ known[a] # Null /\ known[a].active /\ known[a].contact = requests[r].phone
    /\ <<requests[r].phone, requests[r].user>> \in linked

LoadUser(b) ==
    /\ AtStep(b, "load")
    /\ LET r == calls[b].request IN
       IF requests[r].status = "approved" /\ ~requests[r].lapsed /\ StillLinked(r, accounts)
       THEN /\ calls' = [calls EXCEPT ![b] =
                  IF requests[r].user \in banned THEN Null
                  ELSE [@ EXCEPT !.step = "login", !.user = requests[r].user]]
            /\ UNCHANGED requests
       ELSE /\ requests' = WithStatus({q \in {r} : requests[q].status = "approved"}, "expired")
            /\ calls' = [calls EXCEPT ![b] = Null]
    /\ UNCHANGED <<sessions, logins, entered, bot, linked, banned, faults, changes>>

\* The session is given the user, after a row of logins has been opened or
\* found open.
LoginUser(session, user) ==
    /\ logins' = logins \cup {<<session, user>>}
    /\ sessions' = [sessions EXCEPT ![session] = user]

Enter(b) ==
    /\ AtStep(b, "login")
    /\ LoginUser(SessionOf[b], calls[b].user)
    /\ calls' = [calls EXCEPT ![b].step = "consume"]
    /\ entered' = [entered EXCEPT ![calls[b].request] = @ + 1]
    /\ UNCHANGED <<requests, bot, linked, banned, faults, changes>>

Consume(b) ==
    /\ AtStep(b, "consume")
    /\ requests' = WithStatus({r \in {calls[b].request} : requests[r].status = "approved"}, "consumed")
    /\ calls' = [calls EXCEPT ![b] = Null]
    /\ UNCHANGED <<sessions, logins, entered, bot, linked, banned, faults, changes>>

\* A statement fails, or the connection is lost.
FailComplete(b) ==
    /\ Fault /\ calls[b] # Null
    /\ calls' = [calls EXCEPT ![b] = Null]
    /\ UNCHANGED <<requests, sessions, logins, entered, bot, linked, banned, changes>>

\* With a password, and out again; neither takes the lock.
Login(b) ==
    /\ Change
    /\ \E user \in Users \ banned : LoginUser(SessionOf[b], user)
    /\ UNCHANGED <<requests, calls, entered, bot, linked, banned, faults>>

Logout(b) ==
    /\ sessions[SessionOf[b]] # Null
    /\ logins' = logins \ {<<SessionOf[b], sessions[SessionOf[b]]>>}
    /\ sessions' = [sessions EXCEPT ![SessionOf[b]] = Null]
    /\ UNCHANGED <<requests, calls, entered, bot, linked, banned, faults, changes>>

-----------------------------------------------------------------------------
(* The bot.                                                                *)

\* What people do in the messenger.  The buttons of a request go to its
\* account, but a callback may come from any.
Send ==
    /\ Len(feed) < MaxUpdates
    /\ \E a \in Accounts, kind \in Kinds, r \in Requests \cup {Null} :
          /\ IF kind \in {"approve", "decline"}
             THEN r # Null /\ Existing(r)
             ELSE r = Null
          /\ feed' = Append(feed, [kind |-> kind, actor |-> a, request |-> r])
    /\ UNCHANGED <<requests, web, people, linked, banned, acked, poller, replies, unmarked, faults,
                   changes>>

Idle == poller # Null /\ poller.next > poller.last

\* MAX sends what follows the marker, or what was not acknowledged.
Poll ==
    /\ Idle
    /\ LET from == IF poller.marker = Null THEN acked ELSE poller.marker IN
       /\ from < Len(feed)
       /\ acked' = from
       /\ poller' = [poller EXCEPT !.next = from + 1,
                       !.last = IF from + Limit < Len(feed) THEN from + Limit ELSE Len(feed)]
    /\ UNCHANGED <<requests, web, people, linked, banned, feed, replies, unmarked, faults, changes>>

\* An update of an account makes it known, and active again.
Upserted(a) ==
    [accounts EXCEPT ![a] =
       IF @ = Null THEN [contact |-> Null, active |-> TRUE] ELSE [@ EXCEPT !.active = TRUE]]

\* Mutant: whatever the status.
StillPending(r) == requests[r].status # "expired"

Pending(r) == requests[r].status = "pending"

\* Mutant: whoever has pressed the button.
AddressedToAnyone(update) == TRUE

\* The button was pressed by the account that the request is for.
Addressed(update) == requests[update.request].account = update.actor

\* A decision of its account in time is taken as long as the request is
\* pending; anybody else's changes nothing.  Approval asks for the account,
\* the contact and the user once more.
Decided(update, known) ==
    LET r == update.request
        good == StillLinked(r, known) /\ requests[r].user \notin banned
    IN  IF ~Addressed(update) \/ ~Pending(r) THEN requests
        ELSE IF requests[r].lapsed THEN WithStatus({r}, "expired")
        ELSE IF update.kind = "decline" THEN WithStatus({r}, "declined")
        ELSE IF good THEN WithStatus({r}, "approved") ELSE WithStatus({r}, "expired")

\* One update in one transaction.  What administrators had made of the
\* account is over.
SaveUpdate(n) ==
    LET update == feed[n]
        a == update.actor
        known == Upserted(a)
        reply == [replies EXCEPT ![n] = @ + 1]
    IN  /\ edited' = edited \ {a}
        /\ unbound' = IF update.kind = "contact" THEN unbound \ {a} ELSE unbound
        /\ CASE update.kind = "stopped" ->
                 /\ accounts' = IF accounts[a] = Null THEN accounts
                                ELSE [accounts EXCEPT ![a].active = FALSE]
                 /\ UNCHANGED <<requests, replies>>
            [] update.kind = "started" ->
                 accounts' = known /\ replies' = reply /\ UNCHANGED requests
            [] update.kind = "contact" ->
                 IF known[a].contact # Null
                 THEN accounts' = known /\ UNCHANGED <<requests, replies>>
                 ELSE /\ accounts' = [known EXCEPT ![a].contact = ContactOf[a]]
                      /\ replies' = reply /\ UNCHANGED requests
            [] update.kind \in {"approve", "decline"} ->
                 accounts' = known /\ requests' = Decided(update, known) /\ UNCHANGED replies

\* After the last update of a page the marker moves on; but when MAX has
\* sent none it stays, and the page will be fetched again.
ProcessUpdate ==
    /\ poller # Null /\ poller.next <= poller.last
    /\ SaveUpdate(poller.next)
    /\ \/ /\ poller' = [poller EXCEPT !.next = @ + 1,
                          !.marker = IF poller.next = poller.last THEN poller.last ELSE @]
          /\ UNCHANGED unmarked
       \/ /\ poller.next = poller.last /\ unmarked < MaxUnmarked
          /\ poller' = [poller EXCEPT !.next = @ + 1]
          /\ unmarked' = unmarked + 1
    /\ UNCHANGED <<web, linked, banned, feed, acked, faults, changes>>

\* Mutant: the marker moves on all the same.
SkipBatch == [poller EXCEPT !.next = poller.last + 1, !.marker = poller.last]

\* The batch will be fetched again.
LeaveBatch == [poller EXCEPT !.next = poller.last + 1]

\* The transaction fails, or it is committed and the state of the decision
\* cannot be read after it.
FailUpdate ==
    /\ Fault
    /\ poller # Null /\ poller.next <= poller.last
    /\ \/ UNCHANGED <<requests, people, replies>>
       \/ feed[poller.next].kind \in {"approve", "decline"} /\ SaveUpdate(poller.next)
    /\ poller' = LeaveBatch
    /\ UNCHANGED <<web, linked, banned, feed, acked, unmarked, changes>>

Crash ==
    /\ Fault /\ poller # Null
    /\ poller' = Null
    /\ UNCHANGED <<requests, web, people, linked, banned, feed, acked, replies, unmarked, changes>>

Start ==
    /\ poller = Null
    /\ poller' = [marker |-> Null, next |-> 1, last |-> 0]
    /\ UNCHANGED <<requests, web, people, linked, banned, feed, acked, replies, unmarked, faults,
                   changes>>

-----------------------------------------------------------------------------
(* Administrators.                                                         *)

\* Messages to an account, sent or not, keep its row from being deleted:
\* those with the buttons of a request, and replies.
Addressee(a) ==
    \/ \E r \in Requests : Existing(r) /\ requests[r].account = a
    \/ \E n \in DOMAIN feed : feed[n].actor = a /\ replies[n] > 0

\* The row of an account is made, changed in any way, or deleted.
EditAccount ==
    /\ Change
    /\ \E a \in Accounts, row \in AccountRows \cup {Null} :
          /\ row # accounts[a] /\ (row = Null => ~Addressee(a))
          /\ accounts' = [accounts EXCEPT ![a] = row]
          /\ edited' = edited \cup {a}
          /\ unbound' = IF row = Null \/ row.contact = Null THEN unbound \cup {a} ELSE unbound
    /\ UNCHANGED <<requests, web, linked, banned, feed, acked, poller, replies, unmarked, faults>>

\* A contact is given to a user or taken away.
EditContact ==
    /\ Change
    /\ \E pair \in Contacts \X Users :
          linked' = IF pair \in linked THEN linked \ {pair} ELSE linked \cup {pair}
    /\ UNCHANGED <<requests, web, bot, banned, faults>>

Ban ==
    /\ Change
    /\ \E user \in Users \ banned : banned' = banned \cup {user}
    /\ UNCHANGED <<requests, web, bot, linked, faults>>

Browse(b) ==
    \/ RequestMaxLogin(b) \/ BeginComplete(b) \/ LoadUser(b) \/ Enter(b) \/ Consume(b)
    \/ FailComplete(b) \/ Login(b) \/ Logout(b)

Next ==
    \/ \E b \in Browsers : Browse(b)
    \/ \E r \in Requests : Lapse(r)
    \/ Send \/ Poll \/ ProcessUpdate \/ FailUpdate \/ Crash \/ Start
    \/ EditAccount \/ EditContact \/ Ban

Spec == Init /\ [][Next]_vars

-----------------------------------------------------------------------------
(* Properties.                                                             *)

\* A request logs its session in only if its own account has chosen to,
\* before refusing it, and once, but for completions that failed before they
\* could mark it as consumed: callbacks of other accounts, two windows that
\* poll at once, an update that is applied again or a phone number asked for
\* anew neither make nor repeat a login.
OneLoginPerApproval ==
    \A r \in Requests : entered[r] > 0 =>
       LET own == requests[r].account IN
       /\ entered[r] <= 1 + faults
       /\ \E n \in DOMAIN feed :
             /\ feed[n] = [kind |-> "approve", actor |-> own, request |-> r]
             /\ \A k \in 1..(n - 1) :
                   feed[k].actor = own /\ feed[k].request = r => feed[k].kind = "approve"

\* Of a session at most one request is undecided, and what was decided, was
\* used up or has expired stays so, although updates are applied again.
DecisionsStand ==
    [][/\ \A r \in Requests : Existing(r) =>
             \/ requests'[r].status = requests[r].status
             \/ requests[r].status = "pending" /\ requests'[r].status \in Statuses \ {"consumed"}
             \/ requests[r].status = "approved" /\ requests'[r].status \in {"consumed", "expired"}
       /\ \A r, q \in Requests :
             Existing(r)' /\ Existing(q)' /\ Undecided(r)' /\ Undecided(q)'
                /\ requests'[r].session = requests'[q].session => r = q]_vars

\* When the bot has nothing left to fetch no update is lost: an account is
\* there and active unless its last update says otherwise, or administrators
\* have changed it after that update was applied; and it has a contact if it
\* has shared one, unless they have taken it away since.  The updates of a
\* page queue their replies again only as often as something failed or a page
\* came without a marker.
UpdatesTakeEffect ==
    /\ poller # Null /\ Idle /\ poller.marker = Len(feed) =>
          \A n \in DOMAIN feed : LET a == feed[n].actor IN
             /\ \/ \E k \in DOMAIN feed : k > n /\ feed[k].actor = a
                \/ a \in edited
                \/ (accounts[a] # Null /\ accounts[a].active) <=> feed[n].kind # "stopped"
             /\ feed[n].kind = "contact" =>
                   a \in unbound \/ (accounts[a] # Null /\ accounts[a].contact # Null)
    /\ \A n \in 1..MaxUpdates : replies[n] <= 1 + faults + unmarked
=============================================================================
