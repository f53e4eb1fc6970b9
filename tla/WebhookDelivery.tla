--------------------------- MODULE WebhookDelivery ---------------------------
(***************************************************************************)
(* The webhook outbox: flows fan events out to WebhookEvent rows, a fleet  *)
(* of worker processes claims rows under a lease, posts them and writes    *)
(* the outcome back, and an operator may re-queue a failed row.            *)
(*                                                                         *)
(* Each event stands for one row of one endpoint.  Events are numbered in  *)
(* the order of createdAt.  A worker that crashes comes back with another  *)
(* WORKER_ID: the rows it had claimed then belong to Gone.                 *)
(***************************************************************************)
EXTENDS Naturals, FiniteSets

CONSTANTS
  EventBound,   \* number of events that may be dispatched
  Worker,       \* worker processes
  None,         \* SQL NULL
  Gone,         \* a WORKER_ID whose process is dead
  MaxAttempts,  \* WebhookEvent.maxAttempts
  Batch,        \* BATCH, the rows one claim may take
  Faults,       \* bound on crashes and failed writes
  Requeues,     \* bound on manual retries
  Stalls        \* bound on pauses of a live worker longer than LEASE_TTL_MS

ASSUME WebhookAssumption ==
  /\ EventBound \in Nat /\ MaxAttempts \in Nat \ {0} /\ Batch \in Nat \ {0}
  /\ Faults \in Nat /\ Requeues \in Nat /\ Stalls \in Nat
  /\ Gone \notin Worker /\ None \notin Worker /\ None # Gone /\ None \notin Nat

Event == 1..EventBound

VARIABLES
  row,       \* committed WebhookEvent rows
  flow,      \* the transaction of the business flow that raises the event,
             \* and the dispatchWebhookEvent call it does not await
  task,      \* what each worker is doing with each event of its batch
  retrying,  \* for each event, the retry requests that have checked it and will update it
  faults,    \* crashes and failed writes so far
  requeues,  \* manual retries so far
  stalls,    \* pauses so far
  sends      \* history: requests made for the event since it was queued, or
             \* taken out of the failed state

vars == <<row, flow, task, retrying, faults, requeues, stalls, sends>>

NoRow == [exists |-> FALSE, delivered |-> FALSE, attempts |-> 0,
          nextRetryAt |-> "due", processingBy |-> None, leased |-> FALSE]

NoTask == [pc |-> "none", attempts |-> 0]

TypeOK ==
  /\ row \in [Event -> [exists: BOOLEAN, delivered: BOOLEAN, attempts: 0..MaxAttempts,
                        nextRetryAt: {"due", "later", "null"},
                        processingBy: Worker \cup {None, Gone}, leased: BOOLEAN]]
  /\ flow \in [Event -> [tx: {"none", "open", "committed"},
                         call: {"none", "find", "create", "inserted", "failed"}]]
  /\ task \in [Worker -> [Event -> [pc: {"none", "claimed", "send", "ok", "fail"},
                                    attempts: 0..MaxAttempts]]]
  /\ retrying \in [Event -> Nat]
  /\ faults \in 0..Faults
  /\ requeues \in 0..Requeues
  /\ stalls \in 0..Stalls
  /\ sends \in [Event -> Nat]

Init ==
  /\ row = [e \in Event |-> NoRow]
  /\ flow = [e \in Event |-> [tx |-> "none", call |-> "none"]]
  /\ task = [w \in Worker |-> [e \in Event |-> NoTask]]
  /\ retrying = [e \in Event |-> 0]
  /\ faults = 0
  /\ requeues = 0
  /\ stalls = 0
  /\ sends = [e \in Event |-> 0]

-----------------------------------------------------------------------------
\* dispatchWebhookEvent runs on the flow's transaction client, but the flow
\* starts it with `void`: the flow returns, and its transaction commits, while
\* the two statements of the call are still on their way.

FlowStart(e) ==
  /\ flow[e].tx = "none"
  /\ \A d \in 1..(e - 1) : flow[d].tx # "none"
  /\ flow' = [flow EXCEPT ![e] = [tx |-> "open", call |-> "find"]]
  /\ UNCHANGED <<row, task, retrying, faults, requeues, stalls, sends>>

\* A statement on the client of a transaction that has ended is an error, which
\* the call's .catch swallows.
DispatchFind(e) ==
  /\ flow[e].call = "find"
  /\ flow' = [flow EXCEPT ![e].call = IF flow[e].tx = "open" THEN "create" ELSE "failed"]
  /\ UNCHANGED <<row, task, retrying, faults, requeues, stalls, sends>>

DispatchCreate(e) ==
  /\ flow[e].call = "create"
  /\ flow' = [flow EXCEPT ![e].call = IF flow[e].tx = "open" THEN "inserted" ELSE "failed"]
  /\ UNCHANGED <<row, task, retrying, faults, requeues, stalls, sends>>

FlowCommit(e) ==
  /\ flow[e].tx = "open"
  /\ flow' = [flow EXCEPT ![e].tx = "committed"]
  /\ row' = [row EXCEPT ![e].exists = (flow[e].call = "inserted")]
  /\ UNCHANGED <<task, retrying, faults, requeues, stalls, sends>>

-----------------------------------------------------------------------------
\* The worker.

\* Mutant: the lease of another worker is not looked at.
ClaimableUnowned(e) ==
  /\ row[e].exists
  /\ ~row[e].delivered
  /\ row[e].attempts < MaxAttempts
  /\ row[e].nextRetryAt = "due"

\* Mutant: deliveredAt is not looked at.
ClaimableDelivered(e) ==
  /\ row[e].exists
  /\ row[e].attempts < MaxAttempts
  /\ row[e].nextRetryAt = "due"
  /\ row[e].processingBy = None \/ ~row[e].leased

\* The WHERE of claimBatch.
Claimable(e) ==
  /\ row[e].exists
  /\ ~row[e].delivered
  /\ row[e].attempts < MaxAttempts
  /\ row[e].nextRetryAt = "due"
  /\ row[e].processingBy = None \/ ~row[e].leased

\* ORDER BY createdAt LIMIT BATCH.
NextBatch ==
  {e \in Event : /\ Claimable(e)
                 /\ Cardinality({d \in 1..(e - 1) : Claimable(d)}) < Batch}

\* The loop polls again once every delivery of its batch has settled.
Settled(w) == \A e \in Event : task[w][e].pc = "none"

ClaimBatch(w) ==
  /\ Settled(w)
  /\ NextBatch # {}
  /\ row' = [e \in Event |->
               IF e \in NextBatch
                 THEN [row[e] EXCEPT !.processingBy = w, !.leased = TRUE]
                 ELSE row[e]]
  /\ task' = [task EXCEPT ![w] = [e \in Event |->
                IF e \in NextBatch THEN [NoTask EXCEPT !.pc = "claimed"] ELSE NoTask]]
  /\ UNCHANGED <<flow, retrying, faults, requeues, stalls, sends>>

\* deliverBatch reads the claimed rows that are still its own, and posts them.
FetchBatch(w) ==
  /\ \E e \in Event : task[w][e].pc = "claimed"
  /\ task' = [task EXCEPT ![w] = [e \in Event |->
                IF task[w][e].pc = "claimed" /\ row[e].processingBy = w
                  THEN [pc |-> "send", attempts |-> row[e].attempts] ELSE NoTask]]
  /\ UNCHANGED <<row, flow, retrying, faults, requeues, stalls, sends>>

\* deliver: 2xx, or an error, another status or the 10 s timeout.
Deliver(w, e) ==
  /\ task[w][e].pc = "send"
  /\ \E outcome \in {"ok", "fail"} : task' = [task EXCEPT ![w][e].pc = outcome]
  /\ sends' = [sends EXCEPT ![e] = @ + 1]
  /\ UNCHANGED <<row, flow, retrying, faults, requeues, stalls>>

\* releaseLease after a success.
ReleaseDelivered(w, e) ==
  /\ task[w][e].pc = "ok"
  /\ row' = [row EXCEPT ![e].delivered = TRUE, ![e].processingBy = None,
                        ![e].leased = FALSE]
  /\ task' = [task EXCEPT ![w][e] = NoTask]
  /\ UNCHANGED <<flow, retrying, faults, requeues, stalls, sends>>

\* releaseLease after a failure, final once the counter reaches limit.
ReleaseFailedAt(w, e, limit) ==
  LET nextAttempt == task[w][e].attempts + 1
  IN /\ task[w][e].pc = "fail"
     /\ row' = [row EXCEPT
                  ![e].attempts = nextAttempt, ![e].processingBy = None, ![e].leased = FALSE,
                  ![e].nextRetryAt = IF nextAttempt >= limit THEN "null" ELSE "later"]
     /\ task' = [task EXCEPT ![w][e] = NoTask]
     /\ UNCHANGED <<flow, retrying, faults, requeues, stalls, sends>>

\* Mutants: the last attempt is given up, or never recognised as the last.
ReleaseFailedEarly(w, e) == ReleaseFailedAt(w, e, MaxAttempts - 1)
ReleaseFailedLate(w, e) == ReleaseFailedAt(w, e, MaxAttempts + 1)

\* releaseLease after a failure: the attempt counter comes from the row as it
\* was fetched.
ReleaseFailed(w, e) == ReleaseFailedAt(w, e, MaxAttempts)

\* The write itself fails: after a success the catch block counts a failed
\* attempt, after a failure the rejection is swallowed and the lease remains.
WriteFails(w, e) ==
  /\ task[w][e].pc \in {"ok", "fail"}
  /\ faults < Faults
  /\ faults' = faults + 1
  /\ task' = [task EXCEPT ![w][e] = IF @.pc = "ok" THEN [@ EXCEPT !.pc = "fail"] ELSE NoTask]
  /\ UNCHANGED <<row, flow, retrying, requeues, stalls, sends>>

\* The process dies, or is stopped and exits after the 2 s drain window.
Crash(w) ==
  /\ ~Settled(w)
  /\ faults < Faults
  /\ faults' = faults + 1
  /\ task' = [task EXCEPT ![w] = [e \in Event |-> NoTask]]
  /\ row' = [e \in Event |->
               IF row[e].processingBy = w THEN [row[e] EXCEPT !.processingBy = Gone]
               ELSE row[e]]
  /\ UNCHANGED <<flow, retrying, requeues, stalls, sends>>

\* processingAt is more than LEASE_TTL_MS ago.  A delivery takes 10 s at most,
\* so the lease outlives the work ...
LeaseExpires(e) ==
  /\ row[e].leased
  /\ \A w \in Worker : task[w][e].pc = "none"
  /\ row' = [row EXCEPT ![e].leased = FALSE]
  /\ UNCHANGED <<flow, task, retrying, faults, requeues, stalls, sends>>

\* ... unless the worker, or its connection to the database, is paused.
Stall(e) ==
  /\ row[e].leased
  /\ stalls < Stalls
  /\ stalls' = stalls + 1
  /\ row' = [row EXCEPT ![e].leased = FALSE]
  /\ UNCHANGED <<flow, task, retrying, faults, requeues, sends>>

\* The backoff has passed.
RetryDue(e) ==
  /\ row[e].nextRetryAt = "later"
  /\ row' = [row EXCEPT ![e].nextRetryAt = "due"]
  /\ UNCHANGED <<flow, task, retrying, faults, requeues, stalls, sends>>

-----------------------------------------------------------------------------
\* POST /webhooks/events/:id/retry: the checks, and the update by id, which may
\* find the event no longer failed: in delivery again, or delivered.

Failed(e) == row[e].exists /\ ~row[e].delivered /\ row[e].nextRetryAt = "null"

RetryCheck(e) ==
  /\ Failed(e)
  /\ requeues < Requeues
  /\ requeues' = requeues + 1
  /\ retrying' = [retrying EXCEPT ![e] = @ + 1]
  /\ UNCHANGED <<row, flow, task, faults, stalls, sends>>

RetryUpdate(e) ==
  /\ retrying[e] > 0
  /\ row' = [row EXCEPT ![e].attempts = 0, ![e].nextRetryAt = "due"]
  /\ sends' = [sends EXCEPT ![e] = IF Failed(e) THEN 0 ELSE @]
  /\ retrying' = [retrying EXCEPT ![e] = @ - 1]
  /\ UNCHANGED <<flow, task, faults, requeues, stalls>>

-----------------------------------------------------------------------------
Dispatch(e) == FlowStart(e) \/ DispatchFind(e) \/ DispatchCreate(e) \/ FlowCommit(e)

Work(w) ==
  \/ ClaimBatch(w) \/ FetchBatch(w)
  \/ \E e \in Event : Deliver(w, e) \/ ReleaseDelivered(w, e) \/ ReleaseFailed(w, e)

Clock(e) == LeaseExpires(e) \/ Stall(e) \/ RetryDue(e)

Next ==
  \/ \E e \in Event : Dispatch(e) \/ Clock(e)
  \/ \E w \in Worker : Work(w) \/ Crash(w) \/ \E e \in Event : WriteFails(w, e)
  \/ \E e \in Event : RetryCheck(e) \/ RetryUpdate(e)

\* The poll loop re-arms itself after every batch, fetch has a timeout, time
\* passes and a request that was checked is carried out.  Nothing is assumed of
\* new events, of the answers of the endpoint or of failures.
Fairness ==
  /\ \A w \in Worker : WF_vars(Work(w))
  /\ \A e \in Event : WF_vars(RetryDue(e)) /\ WF_vars(LeaseExpires(e)) /\ WF_vars(RetryUpdate(e))

Spec == Init /\ [][Next]_vars

FairSpec == Spec /\ Fairness

-----------------------------------------------------------------------------
\* Properties.

\* Two workers never deliver the same event at the same time, whatever crashes,
\* failed writes and re-queues happen between, unless one of them was paused for
\* longer than the lease: the claim, the fetch and the release agree on the owner.
ExclusiveDelivery ==
  stalls = 0 =>
    \A e \in Event : \A v, w \in Worker :
      task[v][e].pc # "none" /\ task[w][e].pc # "none" => v = w

\* Once deliveredAt is written, the endpoint gets no further request for the
\* event (unless a worker was paused), even if a retry request that was checked
\* before is applied after.
NoSendAfterDelivered ==
  [][\A e \in Event : stalls = 0 /\ row[e].delivered => sends'[e] <= sends[e]]_vars

\* An event is reported as failed only after maxAttempts requests since it was
\* queued or last taken out of the failed state (unless a worker was paused and
\* wrote an older counter back): retry requests that overlap give it more
\* attempts, never fewer.
FailedMeansExhausted ==
  \A e \in Event : stalls = 0 /\ Failed(e) => sends[e] >= MaxAttempts

\* Every committed row is eventually delivered or reported as failed: leases of
\* dead workers expire, swallowed write errors do not lose the row, and even
\* stale writes of a stalled worker do not keep it cycling.
EventuallySettled ==
  \A e \in Event : row[e].exists ~> (row[e].delivered \/ Failed(e))

\* "Fans out a business event to all enabled WebhookEndpoint rows for the
\* tenant": when a flow has committed, its event has been queued or is about to.
FanOutComplete ==
  \A e \in Event : flow[e].tx = "committed" => row[e].exists
=============================================================================
