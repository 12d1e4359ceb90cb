---------------------------- MODULE MaxOutboxProofs ----------------------------
(***************************************************************************)
(* Theorems about MaxOutbox, for any messages, senders, limits and delays. *)
(***************************************************************************)
EXTENDS MaxOutbox, TLAPS

JobType == [msg : Messages \cup {NoJob}, attempt : Nat, held : 0..HoldLimit,
            result : {"none", "ok", "refused", "retry"}]

\* A delay is between zero and the maximum.
LEMMA RetryDelayBounded == \A n : RetryDelay(n) \in 0..MaxDelay
BY OutboxAssumption DEF RetryDelay

\* A sender without a message has the job of an idle one.
LEMMA IdleJob == Idle \in JobType
BY OutboxAssumption DEF Idle, JobType, NoJob

\* The type invariant holds in every reachable state.
THEOREM TypeInvariant == Spec => []TypeOK
<1> USE OutboxAssumption DEF JobType
<1>1. Init => TypeOK
  BY IdleJob DEF Init, TypeOK, Holding, NotLocked, Idle
<1>2. TypeOK /\ [Next]_vars => TypeOK'
  <2> SUFFICES ASSUME TypeOK, [Next]_vars PROVE TypeOK'
    OBVIOUS
  <2>1. ASSUME NEW m \in Messages, Queue(m) PROVE TypeOK'
    BY <2>1 DEF TypeOK, Queue, Holding, NotLocked
  <2>2. ASSUME NEW s \in Senders, Start(s) PROVE TypeOK'
    BY <2>2 DEF TypeOK, Start, queue, Holding, NotLocked
  <2>3. ASSUME NEW s \in Senders, Requeue(s) PROVE TypeOK'
    BY <2>3 DEF TypeOK, Requeue, Stale, Holding, NotLocked
  <2>4. ASSUME NEW s \in Senders, Claim(s) PROVE TypeOK'
    <3> PICK m \in Messages :
           /\ Due(m)
           /\ status' = [status EXCEPT ![m] = "sending"]
           /\ lockAge' = [lockAge EXCEPT ![m] = 0]
           /\ attempts' = [attempts EXCEPT ![m] = @ + 1]
           /\ job' = [job EXCEPT ![s] = [msg |-> m, attempt |-> attempts[m] + 1,
                                         held |-> 0, result |-> "none"]]
      BY <2>4 DEF Claim
    <3> QED
      BY <2>4 DEF TypeOK, Claim, Holding, NotLocked
  <2>5. ASSUME NEW s \in Senders, NothingDue(s) PROVE TypeOK'
    BY <2>5 DEF TypeOK, NothingDue, queue, Holding, NotLocked
  <2>6. ASSUME NEW s \in Senders, Send(s) PROVE TypeOK'
    <3> PICK result \in {"ok", "refused", "retry"} :
           /\ job' = [job EXCEPT ![s].result = result]
           /\ delivered' = IF result = "ok" THEN [delivered EXCEPT ![job[s].msg] = @ + 1]
                                            ELSE delivered
      BY <2>6 DEF Send
    <3>1. Holding(s) /\ job[s].msg \in Messages
      BY <2>6 DEF Send, Holding, TypeOK
    <3>2. delivered' \in [Messages -> Nat]
      BY <3>1 DEF TypeOK
    <3> QED
      BY <2>6, <3>1, <3>2 DEF TypeOK, Send, queue, Holding, NotLocked
  <2>7. ASSUME NEW s \in Senders, LoseAnswer(s) PROVE TypeOK'
    <3>1. Holding(s) /\ job[s].msg \in Messages
      BY <2>7 DEF LoseAnswer, Holding, TypeOK
    <3>2. delivered' \in [Messages -> Nat]
      BY <2>7, <3>1 DEF LoseAnswer, TypeOK
    <3> QED
      BY <2>7, <3>1, <3>2 DEF TypeOK, LoseAnswer, queue, Holding, NotLocked
  <2>8. ASSUME NEW s \in Senders, Mark(s) PROVE TypeOK'
    <3>1. Holding(s) /\ job[s].msg \in Messages
      BY <2>8 DEF Mark, Holding, TypeOK
    <3>2. wait' \in [Messages -> 0..MaxDelay]
      BY <2>8, <3>1, RetryDelayBounded DEF Mark, TypeOK
    <3> QED
      BY <2>8, <3>1, <3>2 DEF TypeOK, Mark, Idle, Holding, NotLocked, NoJob
  <2>9. ASSUME NEW s \in Senders, LoseDatabase(s) PROVE TypeOK'
    BY <2>9 DEF TypeOK, LoseDatabase, queue, Idle, Holding, NotLocked, NoJob
  <2>10. ASSUME NEW s \in Senders, Crash(s) PROVE TypeOK'
    BY <2>10 DEF TypeOK, Crash, queue, Idle, Holding, NotLocked, NoJob
  <2>11. CASE Tick
    <3>1. lockAge' \in [Messages -> {NotLocked} \cup 0..(LockTimeout + 1)]
      BY <2>11 DEF TypeOK, Tick, NotLocked
    <3>2. \A m \in Messages : lockAge'[m] # NotLocked <=> lockAge[m] # NotLocked
      BY <2>11 DEF TypeOK, Tick, NotLocked
    <3>3. \A s \in Senders : Holding(s) => job'[s] = [job[s] EXCEPT !.held = @ + 1]
      BY <2>11 DEF Tick
    <3>4. \A s \in Senders : job'[s] \in JobType
      BY <2>11 DEF TypeOK, Tick
    <3> QED
      BY <2>11, <3>1, <3>2, <3>3, <3>4 DEF TypeOK, Tick, Holding
  <2>12. CASE UNCHANGED vars
    BY <2>12 DEF TypeOK, vars, Holding
  <2> QED
    BY <2>1, <2>2, <2>3, <2>4, <2>5, <2>6, <2>7, <2>8, <2>9, <2>10, <2>11, <2>12
    DEF Next, Work
<1> QED
  BY <1>1, <1>2, PTL DEF Spec

-----------------------------------------------------------------------------
\* Exclusive claims are kept by every step: what is requeued is held by
\* nobody, because nobody holds a message beyond the lock timeout.
LEMMA ExclusiveStep == TypeOK /\ ExclusiveClaims /\ [Next]_vars => ExclusiveClaims'
<1> SUFFICES ASSUME TypeOK, ExclusiveClaims, [Next]_vars, HoldLimit <= LockTimeout
             PROVE  ExclusiveClaims'
  BY DEF ExclusiveClaims
<1> USE OutboxAssumption DEF ExclusiveClaims, TypeOK
<1>1. ASSUME NEW m \in Messages, Queue(m) PROVE ExclusiveClaims'
  BY <1>1 DEF Queue, Holding
<1>2. ASSUME NEW s \in Senders, Start(s) PROVE ExclusiveClaims'
  BY <1>2 DEF Start, queue, Holding
<1>3. ASSUME NEW s \in Senders, Requeue(s) PROVE ExclusiveClaims'
  <2>1. ASSUME NEW t \in Senders, Holding(t) PROVE ~Stale(job[t].msg)
    BY <2>1 DEF Stale
  <2>2. \A t \in Senders : Holding(t)' => Holding(t) /\ job'[t] = job[t]
    BY <1>3 DEF Requeue, Holding
  <2> QED
    BY <1>3, <2>1, <2>2 DEF Requeue
<1>4. ASSUME NEW s \in Senders, Claim(s) PROVE ExclusiveClaims'
  <2> PICK m \in Messages :
         /\ Due(m)
         /\ status' = [status EXCEPT ![m] = "sending"]
         /\ lockAge' = [lockAge EXCEPT ![m] = 0]
         /\ attempts' = [attempts EXCEPT ![m] = @ + 1]
         /\ job' = [job EXCEPT ![s] = [msg |-> m, attempt |-> attempts[m] + 1,
                                       held |-> 0, result |-> "none"]]
    BY <1>4 DEF Claim
  <2>1. \A t \in Senders : Holding(t) => job[t].msg # m
    BY DEF Due
  <2>2. \A t \in Senders \ {s} : Holding(t)' => Holding(t) /\ job'[t] = job[t]
    BY <1>4 DEF Claim, Holding
  <2> QED
    BY <1>4, <2>1, <2>2 DEF Claim
<1>5. ASSUME NEW s \in Senders, NothingDue(s) PROVE ExclusiveClaims'
  BY <1>5 DEF NothingDue, queue, Holding
<1>6. ASSUME NEW s \in Senders, Send(s) PROVE ExclusiveClaims'
  BY <1>6 DEF Send, queue, Holding
<1>7. ASSUME NEW s \in Senders, LoseAnswer(s) PROVE ExclusiveClaims'
  BY <1>7 DEF LoseAnswer, queue, Holding
<1>8. ASSUME NEW s \in Senders, Mark(s) PROVE ExclusiveClaims'
  <2>1. \A t \in Senders : Holding(t)' =>
           Holding(t) /\ job'[t] = job[t] /\ job[t].msg # job[s].msg
    BY <1>8 DEF Mark, Holding
  <2>2. \A m \in Messages \ {job[s].msg} :
           status'[m] = status[m] /\ lockAge'[m] = lockAge[m] /\ attempts'[m] = attempts[m]
    BY <1>8 DEF Mark
  <2>3. ASSUME NEW t \in Senders, Holding(t)'
        PROVE  /\ job'[t] = job[t]
               /\ job[t].msg \in Messages \ {job[s].msg}
               /\ Holding(t)
    BY <2>1, <2>3
  <2>4. ASSUME NEW t \in Senders, Holding(t)'
        PROVE  /\ status'[job'[t].msg] = "sending"
               /\ lockAge'[job'[t].msg] = job'[t].held
               /\ attempts'[job'[t].msg] = job'[t].attempt
    <3>1. /\ job'[t] = job[t] /\ job[t].msg \in Messages \ {job[s].msg}
          /\ status[job[t].msg] = "sending"
          /\ lockAge[job[t].msg] = job[t].held
          /\ attempts[job[t].msg] = job[t].attempt
      BY <2>3, <2>4
    <3>2. \A m \in Messages \ {job[s].msg} :
             status'[m] = status[m] /\ lockAge'[m] = lockAge[m] /\ attempts'[m] = attempts[m]
      BY <2>2
    <3> HIDE DEF TypeOK, ExclusiveClaims
    <3> QED
      BY <3>1, <3>2
  <2>5. ASSUME NEW t \in Senders, Holding(t)', NEW u \in Senders, Holding(u)',
               job'[u].msg = job'[t].msg
        PROVE  u = t
    BY <2>3, <2>5
  <2> QED
    BY <2>4, <2>5
<1>9. ASSUME NEW s \in Senders, LoseDatabase(s) PROVE ExclusiveClaims'
  BY <1>9 DEF LoseDatabase, queue, Holding
<1>10. ASSUME NEW s \in Senders, Crash(s) PROVE ExclusiveClaims'
  BY <1>10 DEF Crash, queue, Holding
<1>11. CASE Tick
  <2>1. \A t \in Senders : Holding(t)' =>
           /\ Holding(t)
           /\ job'[t] = [job[t] EXCEPT !.held = @ + 1]
           /\ job[t].held \in 0..LockTimeout
    BY <1>11 DEF Tick, Holding
  <2>2. ASSUME NEW t \in Senders, Holding(t)' PROVE lockAge'[job[t].msg] = job'[t].held
    <3>1. job[t].msg \in Messages /\ lockAge[job[t].msg] = job[t].held
      BY <2>1, <2>2
    <3>2. lockAge'[job[t].msg] = job[t].held + 1
      BY <1>11, <2>1, <2>2, <3>1 DEF Tick
    <3>3. job[t] \in JobType /\ job'[t] = [job[t] EXCEPT !.held = @ + 1]
      BY <2>1, <2>2 DEF JobType, Holding
    <3>4. job'[t].held = job[t].held + 1
      BY <3>3 DEF JobType
    <3> QED
      BY <3>2, <3>4
  <2> QED
    BY <1>11, <2>1, <2>2 DEF Tick, Holding
<1>12. CASE UNCHANGED vars
  BY <1>12 DEF vars, Holding
<1> QED
  BY <1>1, <1>2, <1>3, <1>4, <1>5, <1>6, <1>7, <1>8, <1>9, <1>10, <1>11, <1>12
  DEF Next, Work

\* While no sender is slower than the lock timeout, a message is held by one
\* sender at a time, which finds it as it claimed it.
THEOREM ClaimsAreExclusive == Spec => []ExclusiveClaims
<1>1. Init => ExclusiveClaims
  BY DEF Init, ExclusiveClaims, Holding
<1> QED
  BY <1>1, TypeInvariant, ExclusiveStep, PTL DEF Spec

-----------------------------------------------------------------------------
\* Only a mark of the message itself changes the outcome of a message, and
\* its holder finds it still being sent.
LEMMA OutcomeStep ==
    ASSUME TypeOK, ExclusiveClaims, [Next]_vars, HoldLimit <= LockTimeout,
           NEW m \in Messages, Ended(m)
    PROVE  status'[m] = status[m]
<1> USE DEF Ended, TypeOK
<1>1. ASSUME NEW k \in Messages, Queue(k) PROVE status'[m] = status[m]
  BY <1>1 DEF Queue
<1>2. ASSUME NEW s \in Senders, Start(s) \/ NothingDue(s) \/ Send(s) \/ LoseAnswer(s)
                                  \/ LoseDatabase(s) \/ Crash(s)
      PROVE  status'[m] = status[m]
  BY <1>2 DEF Start, NothingDue, Send, LoseAnswer, LoseDatabase, Crash, queue
<1>3. ASSUME NEW s \in Senders, Requeue(s) PROVE status'[m] = status[m]
  BY <1>3 DEF Requeue, Stale
<1>4. ASSUME NEW s \in Senders, Claim(s) PROVE status'[m] = status[m]
  BY <1>4 DEF Claim, Due
<1>5. ASSUME NEW s \in Senders, Mark(s) PROVE status'[m] = status[m]
  <2>1. job[s].msg # m
    BY <1>5 DEF Mark, Holding, ExclusiveClaims
  <2> QED
    BY <1>5, <2>1 DEF Mark
<1>6. CASE Tick \/ UNCHANGED vars
  BY <1>6 DEF Tick, vars
<1> QED
  BY <1>1, <1>2, <1>3, <1>4, <1>5, <1>6 DEF Next, Work

\* While no sender is slower than the lock timeout, what was sent is never
\* sent again and what failed is never taken up again.
THEOREM OutcomesAreFinal == Spec => OutcomesStand
<1>1. TypeOK /\ ExclusiveClaims /\ [Next]_vars =>
         (HoldLimit <= LockTimeout =>
            \A m \in Messages : Ended(m) => status'[m] = status[m])
  BY OutcomeStep
<1> QED
  BY <1>1, TypeInvariant, ClaimsAreExclusive, PTL DEF Spec, OutcomesStand

-----------------------------------------------------------------------------
(* Attempts and deliveries are paid for: a message that nobody holds has   *)
(* an attempt left, or a fault to blame for its absence.                   *)

Held(m) == \E s \in Senders : Holding(s) /\ job[s].msg = m

AttemptsPaid ==
    HoldLimit <= LockTimeout =>
      \A m \in Messages :
         /\ attempts[m] <= MaxAttempts + faults
         /\ ~Ended(m) /\ ~Held(m) => attempts[m] < MaxAttempts + faults

\* Every step keeps the account of attempts: a mark gives up at the limit,
\* and whoever loses a claim counts a fault.
LEMMA AttemptsStep ==
    TypeOK /\ ExclusiveClaims /\ AttemptsPaid /\ [Next]_vars => AttemptsPaid'
<1> SUFFICES ASSUME TypeOK, ExclusiveClaims, AttemptsPaid, [Next]_vars,
                    HoldLimit <= LockTimeout, NEW m \in Messages
             PROVE  /\ attempts'[m] <= MaxAttempts + faults'
                    /\ ~Ended(m)' /\ ~Held(m)' => attempts'[m] < MaxAttempts + faults'
  BY DEF AttemptsPaid
<1> DEFINE Paid == /\ attempts'[m] <= MaxAttempts + faults'
                   /\ ~Ended(m)' /\ ~Held(m)' => attempts'[m] < MaxAttempts + faults'
<1>0. /\ attempts[m] \in Nat /\ faults \in Nat /\ MaxAttempts \in Nat \ {0}
      /\ attempts[m] <= MaxAttempts + faults
      /\ ~Ended(m) /\ ~Held(m) => attempts[m] < MaxAttempts + faults
  BY OutboxAssumption DEF TypeOK, AttemptsPaid
<1>1. ASSUME NEW k \in Messages, Queue(k) PROVE Paid
  <2>1. ~Ended(m)' /\ ~Held(m)' => ~Ended(m) /\ ~Held(m)
    BY <1>1 DEF Queue, Held, Holding, Ended, TypeOK
  <2> QED
    BY <1>0, <1>1, <2>1 DEF Queue
<1>2. ASSUME NEW s \in Senders, Start(s) \/ NothingDue(s) PROVE Paid
  <2>1. ~Ended(m)' /\ ~Held(m)' => ~Ended(m) /\ ~Held(m)
    BY <1>2 DEF Start, NothingDue, queue, Held, Holding, Ended, TypeOK
  <2> QED
    BY <1>0, <1>2, <2>1 DEF Start, NothingDue, queue
<1>3. ASSUME NEW s \in Senders, Requeue(s) PROVE Paid
  <2>1. ~Ended(m)' /\ ~Held(m)' => ~Ended(m) /\ ~Held(m)
    BY <1>3 DEF Requeue, Stale, Held, Holding, Ended, TypeOK
  <2> QED
    BY <1>0, <1>3, <2>1 DEF Requeue
<1>4. ASSUME NEW s \in Senders, Claim(s) PROVE Paid
  <2> PICK k \in Messages :
         /\ Due(k)
         /\ status' = [status EXCEPT ![k] = "sending"]
         /\ attempts' = [attempts EXCEPT ![k] = @ + 1]
         /\ job' = [job EXCEPT ![s] = [msg |-> k, attempt |-> attempts[k] + 1,
                                       held |-> 0, result |-> "none"]]
    BY <1>4 DEF Claim
  <2>0. faults' = faults /\ pc' = [pc EXCEPT ![s] = "send"] /\ pc[s] = "drain"
    BY <1>4 DEF Claim
  <2>1. CASE k = m
    <3>1. ~Ended(m) /\ ~Held(m)
      BY <2>1 DEF Due, Ended, Held, ExclusiveClaims
    <3>2. Held(m)'
      BY <2>0, <2>1 DEF Held, Holding, TypeOK
    <3>3. attempts'[m] = attempts[m] + 1
      BY <2>1 DEF TypeOK
    <3> QED
      BY <1>0, <2>0, <3>1, <3>2, <3>3
  <2>2. CASE k # m
    <3>1. ~Ended(m)' /\ ~Held(m)' => ~Ended(m) /\ ~Held(m)
      BY <2>0, <2>2 DEF Held, Holding, Ended, TypeOK
    <3>2. attempts'[m] = attempts[m]
      BY <2>2 DEF TypeOK
    <3> QED
      BY <1>0, <2>0, <3>1, <3>2
  <2> QED
    BY <2>1, <2>2
<1>5. ASSUME NEW s \in Senders, Send(s) PROVE Paid
  <2>1. ~Ended(m)' /\ ~Held(m)' => ~Ended(m) /\ ~Held(m)
    BY <1>5 DEF Send, queue, Held, Holding, Ended, TypeOK
  <2> QED
    BY <1>0, <1>5, <2>1 DEF Send, queue
<1>6. ASSUME NEW s \in Senders, Mark(s) PROVE Paid
  <2>1. CASE job[s].msg = m
    <3>1. attempts'[m] = attempts[m] /\ faults' = faults /\ attempts[m] = job[s].attempt
      BY <1>6, <2>1 DEF Mark, ExclusiveClaims, Holding
    <3>2. Ended(m)' \/ ~GivesUp(s)
      BY <1>6, <2>1 DEF Mark, Ended, TypeOK
    <3>3. ~GivesUp(s) => attempts[m] < MaxAttempts
      BY <1>0, <3>1 DEF GivesUp
    <3> QED
      BY <1>0, <3>1, <3>2, <3>3
  <2>2. CASE job[s].msg # m
    <3>1. ~Ended(m)' /\ ~Held(m)' => ~Ended(m) /\ ~Held(m)
      BY <1>6, <2>2 DEF Mark, Held, Holding, Ended, TypeOK
    <3> QED
      BY <1>0, <1>6, <3>1 DEF Mark
  <2> QED
    BY <2>1, <2>2
<1>7. ASSUME NEW s \in Senders, LoseAnswer(s) \/ LoseDatabase(s) \/ Crash(s) PROVE Paid
  <2>1. faults' = faults + 1 /\ attempts'[m] = attempts[m]
    BY <1>7 DEF LoseAnswer, LoseDatabase, Crash, queue
  <2> QED
    BY <1>0, <2>1
<1>8. CASE Tick
  <2>1. ~Ended(m)' /\ ~Held(m)' => ~Ended(m) /\ ~Held(m)
    BY <1>8 DEF Tick, Held, Holding, Ended, TypeOK
  <2> QED
    BY <1>0, <1>8, <2>1 DEF Tick
<1>9. CASE UNCHANGED vars
  BY <1>0, <1>9 DEF vars, Held, Holding, Ended
<1> QED
  BY <1>1, <1>2, <1>3, <1>4, <1>5, <1>6, <1>7, <1>8, <1>9 DEF Next, Work

\* No message is tried more often than the limit and the faults allow.
THEOREM AttemptsAreBounded == Spec => []AttemptsBounded
<1>1. Init => AttemptsPaid
  <2> SUFFICES ASSUME Init PROVE AttemptsPaid
    OBVIOUS
  <2>1. (\A m \in Messages : attempts[m] = 0) /\ faults = 0
    BY DEF Init
  <2>2. MaxAttempts \in Nat \ {0}
    BY OutboxAssumption
  <2>3. ASSUME NEW m \in Messages
        PROVE  attempts[m] <= MaxAttempts + faults /\ attempts[m] < MaxAttempts + faults
    BY <2>1, <2>2
  <2> QED
    BY <2>3 DEF AttemptsPaid
<1>2. TypeOK /\ AttemptsPaid => AttemptsBounded
  BY DEF AttemptsPaid, AttemptsBounded
<1> QED
  BY <1>1, <1>2, TypeInvariant, ClaimsAreExclusive, AttemptsStep, PTL DEF Spec

-----------------------------------------------------------------------------
\* A message that is not known to be delivered has been delivered only as
\* often as something went wrong.
Known(m) == \E s \in Senders : pc[s] = "mark" /\ job[s].result = "ok" /\ job[s].msg = m

DeliveriesPaid ==
    HoldLimit <= LockTimeout =>
      \A m \in Messages :
         /\ delivered[m] <= 1 + faults
         /\ status[m] # "sent" /\ ~Known(m) => delivered[m] <= faults

\* Every step keeps the account of deliveries.
LEMMA DeliveriesStep ==
    TypeOK /\ ExclusiveClaims /\ DeliveriesPaid /\ [Next]_vars => DeliveriesPaid'
<1> SUFFICES ASSUME TypeOK, ExclusiveClaims, DeliveriesPaid, [Next]_vars,
                    HoldLimit <= LockTimeout, NEW m \in Messages
             PROVE  /\ delivered'[m] <= 1 + faults'
                    /\ status'[m] # "sent" /\ ~Known(m)' => delivered'[m] <= faults'
  BY DEF DeliveriesPaid
<1> DEFINE Paid == /\ delivered'[m] <= 1 + faults'
                   /\ status'[m] # "sent" /\ ~Known(m)' => delivered'[m] <= faults'
<1>0. /\ delivered[m] \in Nat /\ faults \in Nat
      /\ delivered[m] <= 1 + faults
      /\ status[m] # "sent" /\ ~Known(m) => delivered[m] <= faults
  BY OutboxAssumption DEF TypeOK, DeliveriesPaid
<1>1. ASSUME NEW k \in Messages, Queue(k) PROVE Paid
  BY <1>0, <1>1 DEF Queue, Known, TypeOK
<1>2. ASSUME NEW s \in Senders, Start(s) \/ NothingDue(s) PROVE Paid
  <2>1. Known(m) => Known(m)'
    BY <1>2 DEF Start, NothingDue, queue, Known, TypeOK
  <2> QED
    BY <1>0, <1>2, <2>1 DEF Start, NothingDue, queue
<1>3. ASSUME NEW s \in Senders, Requeue(s) PROVE Paid
  <2>1. Known(m) => Known(m)'
    BY <1>3 DEF Requeue, Known, TypeOK
  <2>2. status[m] = "sent" => status'[m] = "sent"
    BY <1>3 DEF Requeue, Stale
  <2> QED
    BY <1>0, <1>3, <2>1, <2>2 DEF Requeue
<1>4. ASSUME NEW s \in Senders, Claim(s) PROVE Paid
  <2>1. Known(m) => Known(m)'
    BY <1>4 DEF Claim, Known, TypeOK
  <2>2. status[m] = "sent" => status'[m] = "sent"
    BY <1>4 DEF Claim, Due, TypeOK
  <2> QED
    BY <1>0, <1>4, <2>1, <2>2 DEF Claim
<1>5. ASSUME NEW s \in Senders, Send(s) PROVE Paid
  <2> PICK result \in {"ok", "refused", "retry"} :
         /\ job' = [job EXCEPT ![s].result = result]
         /\ delivered' = IF result = "ok" THEN [delivered EXCEPT ![job[s].msg] = @ + 1]
                                          ELSE delivered
    BY <1>5 DEF Send
  <2>0. /\ pc[s] = "send" /\ pc' = [pc EXCEPT ![s] = "mark"]
        /\ status' = status /\ faults' = faults
    BY <1>5 DEF Send, queue
  <2>1. CASE job[s].msg = m /\ result = "ok"
    <3>1. status[m] # "sent" /\ ~Known(m)
      BY <2>0, <2>1 DEF ExclusiveClaims, Holding, Known
    <3>2. Known(m)'
      BY <2>0, <2>1 DEF Known, TypeOK
    <3>3. delivered'[m] = delivered[m] + 1
      BY <2>1 DEF TypeOK
    <3> QED
      BY <1>0, <2>0, <3>1, <3>2, <3>3
  <2>2. CASE ~(job[s].msg = m /\ result = "ok")
    <3>1. delivered'[m] = delivered[m]
      BY <2>2 DEF TypeOK
    <3>2. Known(m) => Known(m)'
      BY <2>0 DEF Known, TypeOK
    <3> QED
      BY <1>0, <2>0, <3>1, <3>2
  <2> QED
    BY <2>1, <2>2
<1>6. ASSUME NEW s \in Senders, Mark(s) PROVE Paid
  <2>0. delivered' = delivered /\ faults' = faults
    BY <1>6 DEF Mark
  <2>1. CASE job[s].msg = m
    <3>1. status[m] # "sent"
      BY <1>6, <2>1 DEF Mark, ExclusiveClaims, Holding
    <3>2. job[s].result = "ok" => status'[m] = "sent"
      BY <1>6, <2>1 DEF Mark, TypeOK
    <3>3. job[s].result # "ok" => ~Known(m)
      BY <1>6, <2>1 DEF Mark, ExclusiveClaims, Holding, Known
    <3> QED
      BY <1>0, <2>0, <3>1, <3>2, <3>3
  <2>2. CASE job[s].msg # m
    <3>1. Known(m) => Known(m)'
      BY <1>6, <2>2 DEF Mark, Known, TypeOK
    <3>2. status'[m] = status[m]
      BY <1>6, <2>2 DEF Mark, TypeOK
    <3> QED
      BY <1>0, <2>0, <3>1, <3>2
  <2> QED
    BY <2>1, <2>2
<1>7. ASSUME NEW s \in Senders, LoseAnswer(s) PROVE Paid
  <2>0. faults' = faults + 1 /\ status' = status
    BY <1>7 DEF LoseAnswer, queue
  <2>1. CASE job[s].msg = m
    <3>1. status[m] # "sent" /\ ~Known(m)
      BY <1>7, <2>1 DEF LoseAnswer, ExclusiveClaims, Holding, Known
    <3>2. delivered'[m] = delivered[m] + 1
      BY <1>7, <2>1 DEF LoseAnswer, TypeOK
    <3> QED
      BY <1>0, <2>0, <3>1, <3>2
  <2>2. CASE job[s].msg # m
    <3>1. delivered'[m] = delivered[m]
      BY <1>7, <2>2 DEF LoseAnswer, TypeOK
    <3> QED
      BY <1>0, <2>0, <3>1
  <2> QED
    BY <2>1, <2>2
<1>8. ASSUME NEW s \in Senders, LoseDatabase(s) \/ Crash(s) PROVE Paid
  BY <1>0, <1>8 DEF LoseDatabase, Crash, queue
<1>9. CASE Tick
  <2>1. Known(m) => Known(m)'
    BY <1>9 DEF Tick, Known, Holding, TypeOK
  <2> QED
    BY <1>0, <1>9, <2>1 DEF Tick
<1>10. CASE UNCHANGED vars
  BY <1>0, <1>10 DEF vars, Known
<1> QED
  BY <1>1, <1>2, <1>3, <1>4, <1>5, <1>6, <1>7, <1>8, <1>9, <1>10 DEF Next, Work

\* A message reaches its reader once, and once more for each fault at most.
THEOREM DeliveriesAreBounded == Spec => []DeliveredOnceWithoutFaults
<1>1. Init => DeliveriesPaid
  <2> SUFFICES ASSUME Init PROVE DeliveriesPaid
    OBVIOUS
  <2>1. (\A m \in Messages : delivered[m] = 0) /\ faults = 0
    BY DEF Init
  <2>2. ASSUME NEW m \in Messages PROVE delivered[m] <= 1 + faults /\ delivered[m] <= faults
    BY <2>1
  <2> QED
    BY <2>2 DEF DeliveriesPaid
<1>2. DeliveriesPaid => DeliveredOnceWithoutFaults
  BY DEF DeliveriesPaid, DeliveredOnceWithoutFaults
<1> QED
  BY <1>1, <1>2, TypeInvariant, ClaimsAreExclusive, DeliveriesStep, PTL DEF Spec

-----------------------------------------------------------------------------
\* Nothing counts as sent on hearsay: what is marked as sent, and what a
\* sender is about to mark as sent, has been delivered.  Unlike the bounds
\* above, this needs no assumption about the lock timeout.
SentOrKnownDelivered ==
    \A m \in Messages : status[m] = "sent" \/ Known(m) => delivered[m] >= 1

\* A mark says "sent" only of a message its own sender saw accepted, and
\* nothing takes a delivery back.
LEMMA SentStep == TypeOK /\ SentOrKnownDelivered /\ [Next]_vars => SentOrKnownDelivered'
<1> SUFFICES ASSUME TypeOK, SentOrKnownDelivered, [Next]_vars, NEW m \in Messages,
                    status'[m] = "sent" \/ Known(m)'
             PROVE  delivered'[m] >= 1
  BY DEF SentOrKnownDelivered
<1>0. /\ delivered[m] \in Nat
      /\ status[m] = "sent" \/ Known(m) => delivered[m] >= 1
  BY DEF TypeOK, SentOrKnownDelivered
<1> DEFINE Stands == /\ delivered'[m] = delivered[m]
                     /\ status[m] = "sent" \/ Known(m)
<1>1. ASSUME NEW k \in Messages, Queue(k) PROVE Stands
  BY <1>1 DEF Queue, Known, TypeOK
<1>2. ASSUME NEW s \in Senders,
             Start(s) \/ NothingDue(s) \/ LoseDatabase(s) \/ Crash(s)
      PROVE  Stands
  <2>1. delivered' = delivered /\ status' = status
    BY <1>2 DEF Start, NothingDue, LoseDatabase, Crash, queue
  <2>2. Known(m)' => Known(m)
    BY <1>2 DEF Start, NothingDue, LoseDatabase, Crash, Known, TypeOK
  <2> QED
    BY <2>1, <2>2
<1>3. ASSUME NEW s \in Senders, Requeue(s) PROVE Stands
  <2>1. Known(m)' => Known(m)
    BY <1>3 DEF Requeue, Known, TypeOK
  <2>2. status'[m] = "sent" => status[m] = "sent"
    BY <1>3 DEF Requeue
  <2> QED
    BY <1>3, <2>1, <2>2 DEF Requeue
<1>4. ASSUME NEW s \in Senders, Claim(s) PROVE Stands
  <2>1. Known(m)' => Known(m)
    BY <1>4 DEF Claim, Known, TypeOK
  <2>2. status'[m] = "sent" => status[m] = "sent"
    BY <1>4 DEF Claim, TypeOK
  <2> QED
    BY <1>4, <2>1, <2>2 DEF Claim
<1>5. ASSUME NEW s \in Senders, Send(s) PROVE delivered'[m] >= 1
  <2> PICK result \in {"ok", "refused", "retry"} :
         /\ job' = [job EXCEPT ![s].result = result]
         /\ delivered' = IF result = "ok" THEN [delivered EXCEPT ![job[s].msg] = @ + 1]
                                          ELSE delivered
    BY <1>5 DEF Send
  <2>0. pc' = [pc EXCEPT ![s] = "mark"] /\ status' = status
    BY <1>5 DEF Send, queue
  <2>1. CASE job[s].msg = m /\ result = "ok"
    BY <1>0, <2>1 DEF TypeOK
  <2>2. CASE ~(job[s].msg = m /\ result = "ok")
    <3>1. delivered'[m] = delivered[m]
      BY <2>2 DEF TypeOK
    <3>2. Known(m)' => Known(m)
      BY <2>0, <2>2 DEF Known, TypeOK
    <3> QED
      BY <1>0, <2>0, <3>1, <3>2
  <2> QED
    BY <2>1, <2>2
<1>6. ASSUME NEW s \in Senders, Mark(s) PROVE Stands
  <2>1. Known(m)' => Known(m)
    BY <1>6 DEF Mark, Known, TypeOK
  <2>2. status'[m] = "sent" => status[m] = "sent" \/ Known(m)
    BY <1>6 DEF Mark, Known, TypeOK
  <2> QED
    BY <1>6, <2>1, <2>2 DEF Mark
<1>7. ASSUME NEW s \in Senders, LoseAnswer(s) PROVE delivered'[m] >= 1
  <2>1. Known(m)' => Known(m)
    BY <1>7 DEF LoseAnswer, Known, TypeOK
  <2>2. delivered'[m] \in {delivered[m], delivered[m] + 1}
    BY <1>7 DEF LoseAnswer, TypeOK
  <2> QED
    BY <1>0, <1>7, <2>1, <2>2 DEF LoseAnswer, queue
<1>8. CASE Tick
  <2>1. Known(m)' => Known(m)
    BY <1>8 DEF Tick, Known, Holding, TypeOK
  <2> QED
    BY <1>0, <1>8, <2>1 DEF Tick
<1>9. CASE UNCHANGED vars
  BY <1>0, <1>9 DEF vars, Known
<1> QED
  BY <1>0, <1>1, <1>2, <1>3, <1>4, <1>5, <1>6, <1>7, <1>8, <1>9 DEF Next, Work

\* What the queue records as sent has reached its reader, however slow the
\* senders are, whatever claims overtake each other and whatever crashes.
THEOREM SentMeansDelivered == Spec => []SentWasDelivered
<1>1. Init => SentOrKnownDelivered
  BY DEF Init, SentOrKnownDelivered, Known
<1>2. SentOrKnownDelivered => SentWasDelivered
  BY DEF SentOrKnownDelivered, SentWasDelivered
<1> QED
  BY <1>1, <1>2, TypeInvariant, SentStep, PTL DEF Spec
================================================================================
