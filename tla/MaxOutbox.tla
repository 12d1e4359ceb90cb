------------------------------ MODULE MaxOutbox ------------------------------
(***************************************************************************)
(* The queue of outgoing MAX messages, max_out_messages, and the senders   *)
(* that empty it (internal/maxbot/store.go, sender.go; migrations/000037). *)
(* A sender claims the oldest message that is due, sends it, and marks it  *)
(* sent, failed, or due again later.  Each call of the store is one        *)
(* statement of the database; between two of them the sender may be slow,  *)
(* lose the database, or die with its process.  A message left behind is   *)
(* requeued when its lock has expired.                                     *)
(*                                                                         *)
(* Time is kept in ages and countdowns that Tick moves, not in timestamps. *)
(***************************************************************************)
EXTENDS Integers

CONSTANTS Messages,     \* ids, in the order of created_at
          Senders,      \* processes of cmd/max, overlapping in a deployment
          MaxAttempts,  \* sender_max_attempts
          LockTimeout,  \* sender_lock_timeout
          HoldLimit,    \* longest time between a claim and its mark
          BaseDelay, MaxDelay,      \* sender_retry_base_delay, _max_delay
          MaxFaults     \* bound on crashes, database errors, lost answers

ASSUME OutboxAssumption ==
    /\ Messages \subseteq Nat
    /\ MaxAttempts \in Nat \ {0}
    /\ LockTimeout \in Nat \ {0}
    /\ HoldLimit \in Nat \ {0}
    /\ BaseDelay \in Nat \ {0}
    /\ MaxDelay \in Nat \ {0}
    /\ MaxFaults \in Nat

VARIABLES status,       \* of each message, "none" before it is queued
          attempts,     \* attempt_count
          lockAge,      \* time since locked_at, or NotLocked
          wait,         \* time until next_attempt_at
          pc, job,      \* what each sender does, and with which message
          faults,       \* crashes, database errors and lost answers so far
          delivered     \* times each message has reached its reader

vars == <<status, attempts, lockAge, wait, pc, job, faults, delivered>>
queue == <<status, attempts, lockAge, wait>>

NotLocked == -1
NoJob == -1

Idle == [msg |-> NoJob, attempt |-> 0, held |-> 0, result |-> "none"]
Holding(s) == pc[s] \in {"send", "mark"}

-----------------------------------------------------------------------------
\* Mutant: every claim is taken back, however fresh.
AnyClaim(m) == status[m] = "sending"

\* Mutant: nobody takes a claim back.
NoClaim(m) == FALSE

\* The claims RequeueStale takes back.
Stale(m) ==
    /\ status[m] = "sending"
    /\ lockAge[m] # NotLocked
    /\ lockAge[m] > LockTimeout

\* The messages ClaimNext chooses from.
Due(m) == status[m] = "pending" /\ wait[m] = 0

\* retryDelay: doubled with every attempt, up to the maximum.
RetryDelay(attempt) ==
    LET delay == BaseDelay * 2 ^ (attempt - 1)
    IN  IF delay \in 0..MaxDelay THEN delay ELSE MaxDelay

\* Mutant: one attempt too many.
GivesUpLate(s) == job[s].result = "refused" \/ job[s].attempt > MaxAttempts

\* No further attempt after an error that would only repeat itself.
GivesUp(s) == job[s].result = "refused" \/ job[s].attempt >= MaxAttempts

-----------------------------------------------------------------------------
\* queueMessage, in a transaction of the application or of an update
Queue(m) ==
    /\ status[m] = "none"
    /\ status' = [status EXCEPT ![m] = "pending"]
    /\ UNCHANGED <<attempts, lockAge, wait, pc, job, faults, delivered>>

Start(s) ==
    /\ pc[s] = "down"
    /\ pc' = [pc EXCEPT ![s] = "wait"]
    /\ UNCHANGED <<queue, job, faults, delivered>>

\* At the start, at every tick of the ticker and at every notification:
\* RequeueStale, then drain.
Requeue(s) ==
    /\ pc[s] = "wait"
    /\ status'  = [m \in Messages |-> IF Stale(m) THEN "pending" ELSE status[m]]
    /\ lockAge' = [m \in Messages |-> IF Stale(m) THEN NotLocked ELSE lockAge[m]]
    /\ wait'    = [m \in Messages |-> IF Stale(m) THEN 0 ELSE wait[m]]
    /\ pc' = [pc EXCEPT ![s] = "drain"]
    /\ UNCHANGED <<attempts, job, faults, delivered>>

\* ClaimNext: the oldest message that is due.
Claim(s) ==
    /\ pc[s] = "drain"
    /\ \E m \in Messages :
          /\ Due(m)
          /\ \A k \in Messages : Due(k) => m <= k
          /\ status' = [status EXCEPT ![m] = "sending"]
          /\ lockAge' = [lockAge EXCEPT ![m] = 0]
          /\ attempts' = [attempts EXCEPT ![m] = @ + 1]
          /\ job' = [job EXCEPT ![s] = [msg |-> m, attempt |-> attempts[m] + 1,
                                        held |-> 0, result |-> "none"]]
    /\ pc' = [pc EXCEPT ![s] = "send"]
    /\ UNCHANGED <<wait, faults, delivered>>

NothingDue(s) ==
    /\ pc[s] = "drain"
    /\ \A m \in Messages : ~Due(m)
    /\ pc' = [pc EXCEPT ![s] = "wait"]
    /\ UNCHANGED <<queue, job, faults, delivered>>

\* SendMessage: delivered, refused for good, or an error worth a retry.
Send(s) ==
    /\ pc[s] = "send"
    /\ \E result \in {"ok", "refused", "retry"} :
          /\ job' = [job EXCEPT ![s].result = result]
          /\ delivered' = IF result = "ok" THEN [delivered EXCEPT ![job[s].msg] = @ + 1]
                                           ELSE delivered
    /\ pc' = [pc EXCEPT ![s] = "mark"]
    /\ UNCHANGED <<queue, faults>>

\* Delivered, but the answer is lost: the sender sees an error.
LoseAnswer(s) ==
    /\ pc[s] = "send"
    /\ faults < MaxFaults
    /\ faults' = faults + 1
    /\ job' = [job EXCEPT ![s].result = "retry"]
    /\ delivered' = [delivered EXCEPT ![job[s].msg] = @ + 1]
    /\ pc' = [pc EXCEPT ![s] = "mark"]
    /\ UNCHANGED queue

\* Mutant: whatever could be sent or given up is marked as sent.
MarkOrGiveUp(s) ==
    /\ pc[s] = "mark"
    /\ LET m    == job[s].msg
           done == job[s].result = "ok" \/ GivesUp(s)
       IN  /\ status' = [status EXCEPT ![m] = IF done THEN "sent" ELSE "pending"]
           /\ lockAge' = [lockAge EXCEPT ![m] = NotLocked]
           /\ wait' = [wait EXCEPT ![m] = IF done THEN 0 ELSE RetryDelay(job[s].attempt)]
    /\ pc' = [pc EXCEPT ![s] = "drain"]
    /\ job' = [job EXCEPT ![s] = Idle]
    /\ UNCHANGED <<attempts, faults, delivered>>

\* Mutant: a delivered message is scheduled again.
MarkForgetting(s) ==
    /\ pc[s] = "mark"
    /\ LET m    == job[s].msg
           done == GivesUp(s)
       IN  /\ status' = [status EXCEPT ![m] =
                           CASE job[s].result = "ok" /\ done -> "sent"
                             [] job[s].result # "ok" /\ done -> "failed"
                             [] OTHER                        -> "pending"]
           /\ lockAge' = [lockAge EXCEPT ![m] = NotLocked]
           /\ wait' = [wait EXCEPT ![m] = IF done THEN 0 ELSE RetryDelay(job[s].attempt)]
    /\ pc' = [pc EXCEPT ![s] = "drain"]
    /\ job' = [job EXCEPT ![s] = Idle]
    /\ UNCHANGED <<attempts, faults, delivered>>

\* MarkSent, MarkFailed or MarkRetry.  Each writes the row of its id,
\* whatever has become of it.
Mark(s) ==
    /\ pc[s] = "mark"
    /\ LET m    == job[s].msg
           done == job[s].result = "ok" \/ GivesUp(s)
       IN  /\ status' = [status EXCEPT ![m] =
                           CASE job[s].result = "ok"           -> "sent"
                             [] job[s].result # "ok" /\ done   -> "failed"
                             [] OTHER                          -> "pending"]
           /\ lockAge' = [lockAge EXCEPT ![m] = NotLocked]
           /\ wait' = [wait EXCEPT ![m] = IF done THEN 0 ELSE RetryDelay(job[s].attempt)]
    /\ pc' = [pc EXCEPT ![s] = "drain"]
    /\ job' = [job EXCEPT ![s] = Idle]
    /\ UNCHANGED <<attempts, faults, delivered>>

\* A claim or a mark fails, or was done but its answer is lost: drain
\* returns, and what it was sending stays marked as being sent.
LoseDatabase(s) ==
    /\ pc[s] \in {"drain", "send", "mark"}
    /\ faults < MaxFaults
    /\ faults' = faults + 1
    /\ pc' = [pc EXCEPT ![s] = "wait"]
    /\ job' = [job EXCEPT ![s] = Idle]
    /\ UNCHANGED <<queue, delivered>>

\* The process dies or is shut down.
Crash(s) ==
    /\ pc[s] # "down"
    /\ faults < MaxFaults
    /\ faults' = faults + 1
    /\ pc' = [pc EXCEPT ![s] = "down"]
    /\ job' = [job EXCEPT ![s] = Idle]
    /\ UNCHANGED <<queue, delivered>>

\* Time passes, though not for longer than a sender takes with a message.
Tick ==
    /\ \A s \in Senders : Holding(s) => job[s].held < HoldLimit
    /\ lockAge' = [m \in Messages |->
                     IF lockAge[m] \in 0..LockTimeout THEN lockAge[m] + 1 ELSE lockAge[m]]
    /\ wait' = [m \in Messages |-> IF wait[m] > 0 THEN wait[m] - 1 ELSE 0]
    /\ job' = [s \in Senders |->
                 IF Holding(s) THEN [job[s] EXCEPT !.held = @ + 1] ELSE job[s]]
    /\ UNCHANGED <<status, attempts, pc, faults, delivered>>

Init ==
    /\ status = [m \in Messages |-> "none"]
    /\ attempts = [m \in Messages |-> 0]
    /\ lockAge = [m \in Messages |-> NotLocked]
    /\ wait = [m \in Messages |-> 0]
    /\ pc = [s \in Senders |-> "down"]
    /\ job = [s \in Senders |-> Idle]
    /\ faults = 0
    /\ delivered = [m \in Messages |-> 0]

Work(s) == Requeue(s) \/ Claim(s) \/ NothingDue(s) \/ Send(s) \/ Mark(s)

Next ==
    \/ \E m \in Messages : Queue(m)
    \/ \E s \in Senders : \/ Start(s) \/ Work(s)
                          \/ LoseAnswer(s) \/ LoseDatabase(s) \/ Crash(s)
    \/ Tick

\* A running sender goes on, woken by its ticker at the latest, and time
\* passes.  Nobody is bound to start a sender or to queue a message.
Fairness ==
    /\ \A s \in Senders : WF_vars(Work(s))
    /\ WF_vars(Tick)

Spec == Init /\ [][Next]_vars /\ Fairness
-----------------------------------------------------------------------------
(* Properties                                                              *)

Ended(m) == status[m] \in {"sent", "failed"}

\* Type invariant: a message being sent is locked and no other is; a sender
\* has a message exactly between its claim and its mark.
TypeOK ==
    /\ status \in [Messages -> {"none", "pending", "sending", "sent", "failed"}]
    /\ attempts \in [Messages -> Nat]
    /\ lockAge \in [Messages -> {NotLocked} \cup 0..(LockTimeout + 1)]
    /\ \A m \in Messages : status[m] = "sending" <=> lockAge[m] # NotLocked
    /\ wait \in [Messages -> 0..MaxDelay]
    /\ pc \in [Senders -> {"down", "wait", "drain", "send", "mark"}]
    /\ job \in [Senders -> [msg : Messages \cup {NoJob}, attempt : Nat, held : 0..HoldLimit,
                            result : {"none", "ok", "refused", "retry"}]]
    /\ \A s \in Senders :
          /\ Holding(s) => job[s].msg \in Messages /\ job[s].attempt >= 1
          /\ ~Holding(s) => job[s] = Idle
          /\ pc[s] = "mark" => job[s].result # "none"
    /\ faults \in 0..MaxFaults
    /\ delivered \in [Messages -> Nat]

\* A claim is exclusive as long as a sender is never slower than the lock
\* timeout: whoever holds a message finds it as it left it, and nobody else
\* holds it.
ExclusiveClaims ==
    HoldLimit <= LockTimeout =>
      \A s \in Senders :
         Holding(s) =>
           /\ status[job[s].msg] = "sending"
           /\ lockAge[job[s].msg] = job[s].held
           /\ attempts[job[s].msg] = job[s].attempt
           /\ \A t \in Senders : Holding(t) /\ job[t].msg = job[s].msg => t = s

\* ... and then no mark overwrites the outcome of a message: what was sent
\* is not sent again, what failed stays failed.
OutcomesStand ==
    [][HoldLimit <= LockTimeout =>
         \A m \in Messages : Ended(m) => status'[m] = status[m]]_vars

\* A message is tried at most sender_max_attempts times, and once more for
\* each crash or lost database connection: a claim taken back has used up
\* an attempt, and is not subject to the limit.
AttemptsBounded ==
    HoldLimit <= LockTimeout => \A m \in Messages : attempts[m] <= MaxAttempts + faults

\* A message reaches its reader once, unless something went wrong between
\* its delivery and its mark.
DeliveredOnceWithoutFaults ==
    HoldLimit <= LockTimeout => \A m \in Messages : delivered[m] <= 1 + faults

\* What is marked as sent has been delivered, however slow the senders are.
SentWasDelivered == \A m \in Messages : status[m] = "sent" => delivered[m] >= 1

\* No message is forgotten: while some sender is up, every queued message
\* is sent or given up in the end, and that is the end of it, through
\* crashes, lost connections and claims that overtake each other.
EveryMessageEnds ==
    <>[](\E s \in Senders : pc[s] # "down") =>
      \A m \in Messages : [](status[m] # "none" => <>[]Ended(m))
=============================================================================
