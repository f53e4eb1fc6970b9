------------------------ MODULE WebhookDeliveryProofs ------------------------
(***************************************************************************)
(* Machine-checked proofs about WebhookDelivery, for any number of events, *)
(* workers, concurrent retry requests, attempts, faults and pauses.        *)
(***************************************************************************)
EXTENDS WebhookDelivery, TLAPS

-----------------------------------------------------------------------------
\* The inductive invariant.  ExclusiveDelivery follows from what a lease means
\* to its owner, FailedMeansExhausted from how far the attempt counter of the
\* row, and the copy a worker has fetched, may be from the requests made.

EventRow == [exists: BOOLEAN, delivered: BOOLEAN, attempts: 0..MaxAttempts,
             nextRetryAt: {"due", "later", "null"},
             processingBy: Worker \cup {None, Gone}, leased: BOOLEAN]

Job == [pc: {"none", "claimed", "send", "ok", "fail"}, attempts: 0..MaxAttempts]

\* While no live worker was paused for longer than the lease (s is the number of
\* pauses), a worker that is busy with an event still owns it, and the event is
\* due and not delivered.
Held(x, w, y, s) ==
  s = 0 /\ y.pc # "none" =>
    /\ x.processingBy = w /\ x.leased
    /\ ~x.delivered
    /\ x.nextRetryAt = "due"

\* The counter a worker has fetched allows another attempt, and is never ahead
\* of the n requests made.
Counted(y, n, s) ==
  /\ y.pc # "none" => y.attempts < MaxAttempts
  /\ (s = 0 /\ y.pc = "send") => y.attempts <= n
  /\ (s = 0 /\ y.pc \in {"ok", "fail"}) => y.attempts + 1 <= n

\* Neither is the row's own counter, and the row is given up only after all.
Tallied(x, n, s) ==
  /\ x.processingBy # None => x.attempts < MaxAttempts
  /\ s = 0 => x.attempts <= n
  /\ (s = 0 /\ x.nextRetryAt = "null") => n >= MaxAttempts

\* All of it, for one event.
Consistent(e) ==
  /\ Tallied(row[e], sends[e], stalls)
  /\ \A w \in Worker : /\ Held(row[e], w, task[w][e], stalls)
                       /\ Counted(task[w][e], sends[e], stalls)

IndInv == TypeOK /\ \A e \in Event : Consistent(e)

-----------------------------------------------------------------------------
\* What the type invariant says of one event, one worker and the bounds.
LEMMA Typed ==
  ASSUME TypeOK
  PROVE  /\ \A e \in Event : row[e] \in EventRow /\ sends[e] \in Nat
         /\ \A w \in Worker, e \in Event : task[w][e] \in Job
         /\ row \in [Event -> EventRow] /\ task \in [Worker -> [Event -> Job]]
         /\ sends \in [Event -> Nat]
         /\ MaxAttempts \in Nat \ {0} /\ stalls \in Nat
  BY WebhookAssumption DEF TypeOK, EventRow, Job

\* A step that changes the row, the task and the request count of one event
\* preserves the invariant when it does so for that event.
LEMMA EventStep ==
  ASSUME IndInv, NEW e \in Event, NEW x \in EventRow, NEW n \in Nat,
         NEW w \in Worker, NEW y \in Job,
         row' = [row EXCEPT ![e] = x], sends' = [sends EXCEPT ![e] = n],
         task' = [task EXCEPT ![w][e] = y],
         UNCHANGED <<flow, retrying, requeues, stalls>>, faults' \in 0..Faults,
         Tallied(x, n, stalls), Held(x, w, y, stalls), Counted(y, n, stalls),
         \A v \in Worker \ {w} : Held(x, v, task[v][e], stalls) /\ Counted(task[v][e], n, stalls)
  PROVE  IndInv'
<1>0. TypeOK /\ \A d \in Event : Consistent(d)
  BY DEF IndInv
<1>1. /\ row' \in [Event -> EventRow] /\ sends' \in [Event -> Nat]
      /\ task' \in [Worker -> [Event -> Job]]
      /\ row'[e] = x /\ sends'[e] = n /\ task'[w][e] = y
      /\ \A v \in Worker : v # w => task'[v][e] = task[v][e]
      /\ \A d \in Event : d # e => /\ row'[d] = row[d] /\ sends'[d] = sends[d]
                                   /\ \A v \in Worker : task'[v][d] = task[v][d]
  BY <1>0, Typed
<1>2. TypeOK'
  BY <1>0, <1>1 DEF TypeOK, EventRow, Job
<1>3. ASSUME NEW d \in Event PROVE Consistent(d)'
  <2>1. CASE d = e
    BY <1>1, <2>1 DEF Consistent, Tallied, Held, Counted
  <2>2. CASE d # e
    BY <1>0, <1>1, <2>2 DEF Consistent, Tallied, Held, Counted
  <2> QED
    BY <2>1, <2>2
<1> QED
  BY <1>2, <1>3 DEF IndInv

\* A step that changes the row of one event and how often it was sent.
LEMMA RowStep ==
  ASSUME IndInv, NEW e \in Event, NEW x \in EventRow, NEW n \in Nat,
         row' = [row EXCEPT ![e] = x], sends' = [sends EXCEPT ![e] = n],
         UNCHANGED <<task, faults>>,
         flow' \in [Event -> [tx: {"none", "open", "committed"},
                              call: {"none", "find", "create", "inserted", "failed"}]],
         retrying' \in [Event -> Nat], requeues' \in 0..Requeues,
         stalls' \in 0..Stalls, stalls' = 0 => stalls = 0,
         Tallied(x, n, stalls'),
         \A v \in Worker : Held(x, v, task[v][e], stalls') /\ Counted(task[v][e], n, stalls')
  PROVE  IndInv'
<1>0. TypeOK /\ \A d \in Event : Consistent(d)
  BY DEF IndInv
<1>1. /\ row' \in [Event -> EventRow] /\ sends' \in [Event -> Nat]
      /\ row'[e] = x /\ sends'[e] = n
      /\ \A d \in Event : d # e => row'[d] = row[d] /\ sends'[d] = sends[d]
  BY <1>0, Typed
<1>2. TypeOK'
  BY <1>0, <1>1 DEF TypeOK, EventRow, Job
<1>3. ASSUME NEW d \in Event PROVE Consistent(d)'
  <2>1. CASE d = e
    BY <1>1, <2>1 DEF Consistent, Tallied, Held, Counted
  <2>2. CASE d # e
    BY <1>0, <1>1, <2>2 DEF Consistent, Tallied, Held, Counted
  <2> QED
    BY <2>1, <2>2
<1> QED
  BY <1>2, <1>3 DEF IndInv

\* A step that changes none of the rows, tasks, requests and pauses.
LEMMA ElsewhereStep ==
  ASSUME IndInv, UNCHANGED <<row, task, stalls, sends>>, TypeOK' PROVE IndInv'
  BY DEF IndInv, Consistent, Tallied, Held, Counted

LEMMA InitInv == Init => IndInv
<1> SUFFICES ASSUME Init PROVE IndInv
  OBVIOUS
<1>1. TypeOK
  BY WebhookAssumption DEF Init, TypeOK, NoRow, NoTask
<1>2. ASSUME NEW e \in Event PROVE Consistent(e)
  <2>1. row[e] = NoRow /\ sends[e] = 0 /\ \A w \in Worker : task[w][e] = NoTask
    BY DEF Init
  <2> QED
    BY <2>1 DEF Consistent, Tallied, Held, Counted, NoRow, NoTask
<1> QED
  BY <1>1, <1>2 DEF IndInv

-----------------------------------------------------------------------------
\* The business flow raises the event; a commit only makes the row exist.
LEMMA DispatchInv == ASSUME IndInv, NEW e \in Event, Dispatch(e) PROVE IndInv'
<1>0. TypeOK /\ Consistent(e)
  BY DEF IndInv
<1>1. CASE FlowStart(e)
  BY <1>0, <1>1, ElsewhereStep DEF FlowStart, TypeOK
<1>2. CASE DispatchFind(e)
  BY <1>0, <1>2, ElsewhereStep DEF DispatchFind, TypeOK
<1>3. CASE DispatchCreate(e)
  BY <1>0, <1>3, ElsewhereStep DEF DispatchCreate, TypeOK
<1>4. CASE FlowCommit(e)
  <2> PICK b \in BOOLEAN : b <=> flow[e].call = "inserted"
    <3>1. CASE flow[e].call = "inserted"
      BY <3>1
    <3>2. CASE flow[e].call # "inserted"
      BY <3>2
    <3> QED
      BY <3>1, <3>2
  <2> DEFINE x == [row[e] EXCEPT !.exists = b]
  <2>1. row[e] \in EventRow /\ sends[e] \in Nat
    BY <1>0, Typed
  <2>2. /\ x \in EventRow /\ x.delivered = row[e].delivered /\ x.attempts = row[e].attempts
        /\ x.nextRetryAt = row[e].nextRetryAt /\ x.processingBy = row[e].processingBy
        /\ x.leased = row[e].leased
    BY <2>1 DEF EventRow
  <2>3. (flow[e].call = "inserted") = b
    OBVIOUS
  <2>4. row' = [row EXCEPT ![e] = x]
    <3>1. row' = [row EXCEPT ![e].exists = (flow[e].call = "inserted")]
      BY <1>4 DEF FlowCommit
    <3> QED
      BY <2>3, <3>1
  <2> HIDE DEF x
  <2>5. /\ UNCHANGED <<task, retrying, faults, requeues, stalls, sends>>
        /\ flow' \in [Event -> [tx: {"none", "open", "committed"},
                                call: {"none", "find", "create", "inserted", "failed"}]]
    BY <1>0, <1>4 DEF FlowCommit, TypeOK
  <2>6. sends' = [sends EXCEPT ![e] = sends[e]]
    BY <1>0, <2>5 DEF TypeOK
  <2>7. Tallied(x, sends[e], stalls')
    BY <1>0, <2>2, <2>5 DEF Consistent, Tallied
  <2>8. \A v \in Worker : Held(x, v, task[v][e], stalls') /\ Counted(task[v][e], sends[e], stalls')
    BY <1>0, <2>2, <2>5 DEF Consistent, Held, Counted
  <2> QED
    BY <1>0, <2>1, <2>2, <2>4, <2>5, <2>6, <2>7, <2>8, RowStep DEF TypeOK
<1> QED
  BY <1>1, <1>2, <1>3, <1>4 DEF Dispatch

\* A lease runs out, a worker is paused, or the backoff of a row has passed.
LEMMA ClockInv == ASSUME IndInv, NEW e \in Event, Clock(e) PROVE IndInv'
<1>0. /\ TypeOK /\ Consistent(e) /\ row[e] \in EventRow /\ sends[e] \in Nat
      /\ stalls \in Nat /\ \A v \in Worker : task[v][e] \in Job
  BY Typed DEF IndInv
<1>1. CASE LeaseExpires(e) \/ Stall(e)
  <2> DEFINE x == [row[e] EXCEPT !.leased = FALSE]
  <2>1. /\ x \in EventRow /\ x.delivered = row[e].delivered /\ x.attempts = row[e].attempts
        /\ x.nextRetryAt = row[e].nextRetryAt /\ x.processingBy = row[e].processingBy
    BY <1>0 DEF EventRow
  <2>2. row' = [row EXCEPT ![e] = x] /\ UNCHANGED <<flow, task, retrying, faults, requeues, sends>>
    BY <1>1 DEF LeaseExpires, Stall
  <2>3. sends' = [sends EXCEPT ![e] = sends[e]]
    BY <1>0, <2>2 DEF TypeOK
  <2> HIDE DEF x
  <2>4. /\ stalls' \in 0..Stalls
        /\ stalls' = 0 => stalls = 0
        /\ stalls' = 0 => \A w \in Worker : task[w][e].pc = "none"
    <3>1. CASE LeaseExpires(e)
      BY <1>0, <3>1 DEF LeaseExpires, TypeOK
    <3>2. CASE Stall(e)
      <4>1. stalls' = stalls + 1 /\ stalls < Stalls /\ Stalls \in Nat
        BY <3>2, WebhookAssumption DEF Stall
      <4> QED
        BY <1>0, <4>1
    <3> QED
      BY <1>1, <3>1, <3>2
  <2>5. Tallied(x, sends[e], stalls')
    BY <1>0, <2>1, <2>4 DEF Consistent, Tallied
  <2>6. \A v \in Worker : Held(x, v, task[v][e], stalls') /\ Counted(task[v][e], sends[e], stalls')
    BY <1>0, <2>1, <2>4 DEF Consistent, Held, Counted
  <2> QED
    BY <1>0, <2>1, <2>2, <2>3, <2>4, <2>5, <2>6, RowStep DEF TypeOK
<1>2. CASE RetryDue(e)
  <2> DEFINE x == [row[e] EXCEPT !.nextRetryAt = "due"]
  <2>1. /\ x \in EventRow /\ x.delivered = row[e].delivered /\ x.attempts = row[e].attempts
        /\ x.nextRetryAt = "due" /\ x.processingBy = row[e].processingBy /\ x.leased = row[e].leased
    BY <1>0 DEF EventRow
  <2>2. /\ row' = [row EXCEPT ![e] = x]
        /\ UNCHANGED <<flow, task, retrying, faults, requeues, stalls, sends>>
    BY <1>2 DEF RetryDue
  <2>3. sends' = [sends EXCEPT ![e] = sends[e]]
    BY <1>0, <2>2 DEF TypeOK
  <2> HIDE DEF x
  <2>5. Tallied(x, sends[e], stalls')
    BY <1>0, <2>1, <2>2 DEF Consistent, Tallied
  <2>6. \A v \in Worker : Held(x, v, task[v][e], stalls') /\ Counted(task[v][e], sends[e], stalls')
    BY <1>0, <2>1, <2>2 DEF Consistent, Held, Counted
  <2> QED
    BY <1>0, <2>1, <2>2, <2>3, <2>5, <2>6, RowStep DEF TypeOK
<1> QED
  BY <1>1, <1>2 DEF Clock

\* A worker takes its next batch: nobody is busy with a row it may claim.
LEMMA ClaimInv == ASSUME IndInv, NEW w \in Worker, ClaimBatch(w) PROVE IndInv'
<1>0. /\ TypeOK /\ Settled(w) /\ (\A e \in Event : Consistent(e))
      /\ row \in [Event -> EventRow] /\ task \in [Worker -> [Event -> Job]] /\ sends \in [Event -> Nat]
      /\ MaxAttempts \in Nat \ {0}
      /\ UNCHANGED <<flow, retrying, faults, requeues, stalls, sends>>
  BY Typed DEF IndInv, ClaimBatch
<1>1. \A e \in NextBatch : Claimable(e) /\ e \in Event
  BY DEF NextBatch
<1> PICK B : B = NextBatch
  OBVIOUS
<1>2. ASSUME NEW e \in Event
      PROVE  /\ row'[e] \in EventRow /\ \A v \in Worker : task'[v][e] \in Job
             /\ Consistent(e)'
  <2> PICK old, n, s : old = row[e] /\ n = sends[e] /\ s = stalls
    OBVIOUS
  <2>0. /\ old \in EventRow /\ sends'[e] = n /\ n \in Nat /\ stalls' = s
        /\ Tallied(old, n, s)
        /\ \A v \in Worker : task[v][e] \in Job /\ Held(old, v, task[v][e], s) /\ Counted(task[v][e], n, s)
    BY <1>0 DEF Consistent
  <2>1. CASE e \in B
    <3>1. /\ row'[e] = [old EXCEPT !.processingBy = w, !.leased = TRUE]
          /\ task'[w][e] = [NoTask EXCEPT !.pc = "claimed"]
          /\ \A v \in Worker : v # w => task'[v][e] = task[v][e]
      BY <1>0, <2>1 DEF ClaimBatch
    <3>2. /\ row'[e] \in EventRow /\ row'[e].processingBy = w /\ row'[e].leased
          /\ row'[e].delivered = old.delivered /\ row'[e].attempts = old.attempts
          /\ row'[e].nextRetryAt = old.nextRetryAt
      BY <2>0, <3>1 DEF EventRow
    <3>3. task'[w][e] \in Job /\ task'[w][e].pc = "claimed" /\ task'[w][e].attempts = 0
      BY <1>0, <3>1 DEF Job, NoTask
    <3>4. /\ ~old.delivered /\ old.attempts < MaxAttempts /\ old.nextRetryAt = "due"
          /\ old.processingBy = None \/ ~old.leased
      BY <1>1, <2>1 DEF Claimable
    <3>5. s = 0 => \A v \in Worker : task[v][e].pc = "none"
      BY <2>0, <3>4, WebhookAssumption DEF Held
    <3>6. Tallied(row'[e], n, s)
      BY <2>0, <3>2, <3>4 DEF Tallied
    <3>7. \A v \in Worker : Held(row'[e], v, task'[v][e], s) /\ Counted(task'[v][e], n, s)
      <4>1. Held(row'[e], w, task'[w][e], s) /\ Counted(task'[w][e], n, s)
        BY <1>0, <3>2, <3>3, <3>4 DEF Held, Counted
      <4>2. ASSUME NEW v \in Worker, v # w
            PROVE  Held(row'[e], v, task'[v][e], s) /\ Counted(task'[v][e], n, s)
        BY <2>0, <3>1, <3>5, <4>2 DEF Held
      <4> QED
        BY <4>1, <4>2
    <3> QED
      BY <2>0, <3>1, <3>2, <3>3, <3>6, <3>7 DEF Consistent
  <2>2. CASE e \notin B
    <3>1. row'[e] = old /\ task'[w][e] = NoTask /\ \A v \in Worker : v # w => task'[v][e] = task[v][e]
      BY <1>0, <2>2 DEF ClaimBatch
    <3>2. NoTask \in Job /\ NoTask.pc = "none"
      BY <1>0 DEF Job, NoTask
    <3>3. \A v \in Worker : Held(old, v, task'[v][e], s) /\ Counted(task'[v][e], n, s)
      BY <2>0, <3>1, <3>2 DEF Held, Counted
    <3> QED
      BY <2>0, <3>1, <3>2, <3>3 DEF Consistent
  <2> QED
    BY <2>1, <2>2
<1>3. row' \in [Event -> EventRow] /\ task' \in [Worker -> [Event -> Job]]
  <2>1. row' \in [Event -> EventRow]
    BY <1>2 DEF ClaimBatch
  <2>2. task' \in [Worker -> [Event -> Job]]
    <3>1. /\ DOMAIN task' = Worker /\ task' = [v \in Worker |-> task'[v]]
          /\ \A v \in Worker : v # w => task'[v] = task[v]
          /\ task'[w] = [e \in Event |-> IF e \in NextBatch THEN [NoTask EXCEPT !.pc = "claimed"] ELSE NoTask]
      BY <1>0 DEF ClaimBatch
    <3> QED
      BY <1>0, <1>2, <3>1
  <2> QED
    BY <2>1, <2>2
<1>4. TypeOK'
  BY <1>0, <1>3 DEF TypeOK, EventRow, Job
<1> QED
  BY <1>2, <1>4 DEF IndInv

\* deliverBatch keeps the claimed rows that are still the worker's own, with the
\* attempt counter they have now.
LEMMA FetchInv == ASSUME IndInv, NEW w \in Worker, FetchBatch(w) PROVE IndInv'
<1>0. /\ TypeOK /\ (\A e \in Event : Consistent(e))
      /\ row \in [Event -> EventRow] /\ task \in [Worker -> [Event -> Job]] /\ sends \in [Event -> Nat]
      /\ MaxAttempts \in Nat \ {0}
      /\ UNCHANGED <<row, flow, retrying, faults, requeues, stalls, sends>>
  BY Typed DEF IndInv, FetchBatch
<1>1. \A v \in Worker : v # w => task'[v] = task[v]
  BY <1>0 DEF FetchBatch
<1>2. ASSUME NEW e \in Event PROVE task'[w][e] \in Job /\ Consistent(e)'
  <2> PICK x, n, s : x = row[e] /\ n = sends[e] /\ s = stalls
    OBVIOUS
  <2>0. /\ x \in EventRow /\ n \in Nat /\ row'[e] = x /\ sends'[e] = n /\ stalls' = s
        /\ Tallied(x, n, s)
        /\ \A v \in Worker : Held(x, v, task[v][e], s) /\ Counted(task[v][e], n, s)
    BY <1>0 DEF Consistent
  <2>1. /\ task'[w][e] \in Job
        /\ Held(x, w, task'[w][e], s) /\ Counted(task'[w][e], n, s)
    <3>1. CASE task[w][e].pc = "claimed" /\ x.processingBy = w
      <4>1. task'[w][e] = [pc |-> "send", attempts |-> x.attempts]
        BY <1>0, <3>1 DEF FetchBatch
      <4>2. x.attempts \in 0..MaxAttempts /\ x.attempts < MaxAttempts
        BY <2>0, <3>1, WebhookAssumption DEF Tallied, EventRow
      <4>3. Held(x, w, task'[w][e], s)
        BY <2>0, <3>1, <4>1 DEF Held
      <4>4. Counted(task'[w][e], n, s)
        BY <2>0, <4>1, <4>2 DEF Counted, Tallied
      <4> QED
        BY <4>1, <4>2, <4>3, <4>4 DEF Job
    <3>2. CASE ~(task[w][e].pc = "claimed" /\ x.processingBy = w)
      <4>1. task'[w][e] = NoTask
        BY <1>0, <3>2 DEF FetchBatch
      <4> QED
        BY <1>0, <4>1 DEF NoTask, Job, Held, Counted
    <3> QED
      BY <3>1, <3>2
  <2>2. \A v \in Worker : Held(x, v, task'[v][e], s) /\ Counted(task'[v][e], n, s)
    BY <1>1, <2>0, <2>1
  <2> QED
    BY <2>0, <2>1, <2>2 DEF Consistent
<1>3. task' \in [Worker -> [Event -> Job]]
  <2>1. task'[w] \in [Event -> Job]
    <3>1. task'[w] = [e \in Event |->
                        IF task[w][e].pc = "claimed" /\ row[e].processingBy = w
                          THEN [pc |-> "send", attempts |-> row[e].attempts] ELSE NoTask]
      BY <1>0 DEF FetchBatch
    <3> QED
      BY <1>2, <3>1
  <2> QED
    BY <1>0, <1>1, <2>1 DEF FetchBatch
<1>4. TypeOK'
  BY <1>0, <1>3 DEF TypeOK, EventRow, Job
<1> QED
  BY <1>0, <1>2, <1>4 DEF IndInv

\* A process that dies leaves its rows to nobody, and has no task any more.
LEMMA CrashInv == ASSUME IndInv, NEW w \in Worker, Crash(w) PROVE IndInv'
<1>0. /\ TypeOK /\ (\A e \in Event : Consistent(e))
      /\ row \in [Event -> EventRow] /\ task \in [Worker -> [Event -> Job]] /\ sends \in [Event -> Nat]
      /\ MaxAttempts \in Nat \ {0} /\ faults' \in 0..Faults
      /\ UNCHANGED <<flow, retrying, requeues, stalls, sends>>
  BY Typed, WebhookAssumption DEF IndInv, Crash, TypeOK
<1>1. /\ \A v \in Worker : v # w => task'[v] = task[v]
      /\ \A e \in Event : task'[w][e] = NoTask
      /\ NoTask \in Job /\ NoTask.pc = "none"
  BY <1>0 DEF Crash, NoTask, Job
<1>2. ASSUME NEW e \in Event PROVE row'[e] \in EventRow /\ Consistent(e)'
  <2> PICK old, n, s : old = row[e] /\ n = sends[e] /\ s = stalls
    OBVIOUS
  <2>0. /\ old \in EventRow /\ sends'[e] = n /\ stalls' = s
        /\ Tallied(old, n, s)
        /\ \A v \in Worker : Held(old, v, task[v][e], s) /\ Counted(task[v][e], n, s)
    BY <1>0 DEF Consistent
  <2>1. row'[e] = IF old.processingBy = w THEN [old EXCEPT !.processingBy = Gone] ELSE old
    BY <1>0 DEF Crash
  <2>2. /\ row'[e] \in EventRow /\ row'[e].delivered = old.delivered
        /\ row'[e].attempts = old.attempts /\ row'[e].nextRetryAt = old.nextRetryAt
        /\ row'[e].leased = old.leased
        /\ row'[e].processingBy = IF old.processingBy = w THEN Gone ELSE old.processingBy
    <3>1. CASE old.processingBy = w
      BY <2>0, <2>1, <3>1 DEF EventRow
    <3>2. CASE old.processingBy # w
      BY <2>0, <2>1, <3>2
    <3> QED
      BY <3>1, <3>2
  <2>3. Tallied(row'[e], n, s)
    BY <2>0, <2>2, WebhookAssumption DEF Tallied
  <2>4. \A v \in Worker : Held(row'[e], v, task'[v][e], s) /\ Counted(task'[v][e], n, s)
    BY <1>1, <2>0, <2>2 DEF Held, Counted
  <2> QED
    BY <2>0, <2>2, <2>3, <2>4 DEF Consistent
<1>3. row' \in [Event -> EventRow]
  BY <1>2 DEF Crash
<1>4. task' \in [Worker -> [Event -> Job]]
  <2>1. task'[w] = [e \in Event |-> NoTask]
    BY <1>0 DEF Crash
  <2> QED
    BY <1>0, <1>1, <2>1 DEF Crash
<1>5. TypeOK'
  BY <1>0, <1>3, <1>4 DEF TypeOK, EventRow, Job
<1> QED
  BY <1>2, <1>5 DEF IndInv

\* A delivery, its outcome, and the write of the outcome or its failure.
LEMMA DeliveryInv ==
  ASSUME IndInv, NEW w \in Worker, NEW e \in Event,
         \/ Deliver(w, e) \/ ReleaseDelivered(w, e) \/ ReleaseFailed(w, e) \/ WriteFails(w, e)
  PROVE  IndInv'
<1> PICK old, n, t : old = row[e] /\ n = sends[e] /\ t = task[w][e]
  OBVIOUS
<1>0. /\ TypeOK /\ old \in EventRow /\ n \in Nat /\ t \in Job
      /\ row \in [Event -> EventRow] /\ task \in [Worker -> [Event -> Job]] /\ sends \in [Event -> Nat]
      /\ MaxAttempts \in Nat \ {0} /\ faults \in 0..Faults /\ Faults \in Nat
      /\ Tallied(old, n, stalls) /\ Held(old, w, t, stalls) /\ Counted(t, n, stalls)
      /\ \A v \in Worker : Held(old, v, task[v][e], stalls) /\ Counted(task[v][e], n, stalls)
  BY Typed, WebhookAssumption DEF IndInv, Consistent, TypeOK
<1>1. row = [row EXCEPT ![e] = old] /\ sends = [sends EXCEPT ![e] = n]
  BY <1>0
<1>2. t.pc # "none" /\ stalls = 0 => \A v \in Worker \ {w} : task[v][e].pc = "none"
  BY <1>0 DEF Held
<1>3. CASE Deliver(w, e)
  <2> PICK outcome \in {"ok", "fail"} : task' = [task EXCEPT ![w][e].pc = outcome]
    BY <1>3 DEF Deliver
  <2> DEFINE y == [t EXCEPT !.pc = outcome]
  <2>1. y \in Job /\ y.pc = outcome /\ y.attempts = t.attempts /\ t.pc = "send"
    BY <1>0, <1>3 DEF Job, Deliver
  <2>2. task' = [task EXCEPT ![w][e] = y]
    BY <1>0
  <2> HIDE DEF y
  <2>3. row' = [row EXCEPT ![e] = old] /\ sends' = [sends EXCEPT ![e] = n + 1]
    BY <1>0, <1>1, <1>3 DEF Deliver
  <2>4. UNCHANGED <<flow, retrying, faults, requeues, stalls>>
    BY <1>3 DEF Deliver
  <2>5. t.attempts < MaxAttempts /\ (stalls = 0 => t.attempts <= n) /\ t.attempts \in Nat
    BY <1>0, <2>1 DEF Counted, Job
  <2>6. Tallied(old, n + 1, stalls) /\ Held(old, w, y, stalls) /\ Counted(y, n + 1, stalls)
    BY <1>0, <2>1, <2>5 DEF Tallied, Held, Counted, EventRow
  <2>7. \A v \in Worker \ {w} : Held(old, v, task[v][e], stalls) /\ Counted(task[v][e], n + 1, stalls)
    <3> SUFFICES ASSUME NEW v \in Worker \ {w}
                 PROVE  Held(old, v, task[v][e], stalls) /\ Counted(task[v][e], n + 1, stalls)
      OBVIOUS
    <3>1. task[v][e] \in Job /\ Held(old, v, task[v][e], stalls) /\ Counted(task[v][e], n, stalls)
      BY <1>0
    <3>2. task[v][e].attempts \in Nat
      BY <3>1 DEF Job
    <3> QED
      BY <1>0, <3>1, <3>2 DEF Counted
  <2>8. n + 1 \in Nat /\ faults' \in 0..Faults
    BY <1>0, <2>4
  <2> QED
    BY <1>0, <2>1, <2>2, <2>3, <2>4, <2>6, <2>7, <2>8, EventStep
<1>4. CASE ReleaseDelivered(w, e)
  <2> DEFINE x == [old EXCEPT !.delivered = TRUE, !.processingBy = None, !.leased = FALSE]
  <2>1. /\ x \in EventRow /\ x.processingBy = None /\ x.attempts = old.attempts
        /\ x.nextRetryAt = old.nextRetryAt /\ t.pc = "ok"
    BY <1>0, <1>4 DEF EventRow, ReleaseDelivered
  <2>2. row' = [row EXCEPT ![e] = x]
    BY <1>0, <1>4 DEF ReleaseDelivered
  <2> HIDE DEF x
  <2>3. /\ sends' = [sends EXCEPT ![e] = n] /\ task' = [task EXCEPT ![w][e] = NoTask]
        /\ UNCHANGED <<flow, retrying, faults, requeues, stalls>>
    BY <1>1, <1>4 DEF ReleaseDelivered
  <2>4. NoTask \in Job /\ NoTask.pc = "none"
    BY <1>0 DEF NoTask, Job
  <2>5. Tallied(x, n, stalls) /\ Held(x, w, NoTask, stalls) /\ Counted(NoTask, n, stalls)
    BY <1>0, <2>1, <2>4 DEF Tallied, Held, Counted
  <2>6. \A v \in Worker \ {w} : Held(x, v, task[v][e], stalls) /\ Counted(task[v][e], n, stalls)
    BY <1>0, <1>2, <2>1 DEF Held
  <2> QED
    BY <1>0, <2>1, <2>2, <2>3, <2>4, <2>5, <2>6, EventStep
<1>5. CASE ReleaseFailed(w, e)
  <2> DEFINE k == t.attempts + 1
             x == [old EXCEPT !.attempts = k, !.processingBy = None, !.leased = FALSE,
                              !.nextRetryAt = IF k >= MaxAttempts THEN "null" ELSE "later"]
  <2>1. t.pc = "fail" /\ k \in 0..MaxAttempts /\ (stalls = 0 => k <= n)
    BY <1>0, <1>5 DEF ReleaseFailed, ReleaseFailedAt, Counted, Job
  <2>2. row' = [row EXCEPT ![e] = x]
    BY <1>0, <1>5 DEF ReleaseFailed, ReleaseFailedAt
  <2> HIDE DEF k
  <2>3. /\ x \in EventRow /\ x.processingBy = None /\ x.attempts = k
        /\ x.nextRetryAt = IF k >= MaxAttempts THEN "null" ELSE "later"
    BY <1>0, <2>1 DEF EventRow
  <2> HIDE DEF x
  <2>4. /\ sends' = [sends EXCEPT ![e] = n] /\ task' = [task EXCEPT ![w][e] = NoTask]
        /\ UNCHANGED <<flow, retrying, faults, requeues, stalls>>
    BY <1>1, <1>5 DEF ReleaseFailed, ReleaseFailedAt
  <2>5. NoTask \in Job /\ NoTask.pc = "none"
    BY <1>0 DEF NoTask, Job
  <2>6. Tallied(x, n, stalls) /\ Held(x, w, NoTask, stalls) /\ Counted(NoTask, n, stalls)
    BY <1>0, <2>1, <2>3, <2>5 DEF Tallied, Held, Counted
  <2>7. \A v \in Worker \ {w} : Held(x, v, task[v][e], stalls) /\ Counted(task[v][e], n, stalls)
    BY <1>0, <1>2, <2>1 DEF Held
  <2> QED
    BY <1>0, <2>2, <2>3, <2>4, <2>5, <2>6, <2>7, EventStep
<1>6. CASE WriteFails(w, e)
  <2> DEFINE y == IF t.pc = "ok" THEN [t EXCEPT !.pc = "fail"] ELSE NoTask
  <2>1. /\ y \in Job /\ t.pc \in {"ok", "fail"}
        /\ \/ t.pc = "ok" /\ y.pc = "fail" /\ y.attempts = t.attempts
           \/ y = NoTask
    <3>1. t.pc \in {"ok", "fail"}
      BY <1>6 DEF WriteFails
    <3>2. CASE t.pc = "ok"
      BY <1>0, <3>2 DEF Job
    <3>3. CASE t.pc = "fail"
      BY <1>0, <3>3 DEF Job, NoTask
    <3> QED
      BY <3>1, <3>2, <3>3
  <2>2. task' = [task EXCEPT ![w][e] = y]
    BY <1>0, <1>6 DEF WriteFails
  <2> HIDE DEF y
  <2>3. /\ row' = [row EXCEPT ![e] = old] /\ sends' = [sends EXCEPT ![e] = n]
        /\ UNCHANGED <<flow, retrying, requeues, stalls>> /\ faults' \in 0..Faults
    BY <1>0, <1>1, <1>6 DEF WriteFails
  <2>4. Held(old, w, y, stalls) /\ Counted(y, n, stalls)
    BY <1>0, <2>1 DEF Held, Counted, NoTask
  <2> QED
    BY <1>0, <2>1, <2>2, <2>3, <2>4, EventStep
<1> QED
  BY <1>3, <1>4, <1>5, <1>6

\* A retry request checks the row, and updates it whatever has happened since.
LEMMA RetryInv ==
  ASSUME IndInv, NEW e \in Event, RetryUpdate(e) \/ RetryCheck(e)
  PROVE  IndInv'
<1>0. TypeOK
  BY DEF IndInv
<1>1. CASE RetryCheck(e)
  <2>1. /\ UNCHANGED <<row, flow, task, faults, stalls, sends>>
        /\ retrying' \in [Event -> Nat] /\ requeues' \in 0..Requeues
    BY <1>0, <1>1, WebhookAssumption DEF RetryCheck, TypeOK
  <2>2. TypeOK'
    BY <1>0, <2>1 DEF TypeOK
  <2> QED
    BY <2>1, <2>2, ElsewhereStep
<1>2. CASE RetryUpdate(e)
  <2> PICK old, m : old = row[e] /\ m = sends[e]
    OBVIOUS
  <2>0. /\ e \in Event /\ old \in EventRow /\ m \in Nat
        /\ row \in [Event -> EventRow] /\ sends \in [Event -> Nat]
        /\ MaxAttempts \in Nat \ {0} /\ Tallied(old, m, stalls)
        /\ \A v \in Worker : task[v][e] \in Job /\ Held(old, v, task[v][e], stalls)
                                                /\ Counted(task[v][e], m, stalls)
    BY <1>0, <1>2, Typed DEF IndInv, Consistent, RetryUpdate, TypeOK
  <2> DEFINE x == [old EXCEPT !.attempts = 0, !.nextRetryAt = "due"]
             n == IF Failed(e) THEN 0 ELSE m
  <2>1. /\ x \in EventRow /\ x.attempts = 0 /\ x.nextRetryAt = "due" /\ x.leased = old.leased
        /\ x.delivered = old.delivered /\ x.processingBy = old.processingBy
    <3>1. old \in EventRow /\ 0 \in 0..MaxAttempts
      BY <2>0
    <3> QED
      BY <3>1 DEF EventRow
  <2>2. /\ row' = [row EXCEPT ![e] = x]
        /\ sends' = [sends EXCEPT ![e] = n]
        /\ UNCHANGED <<flow, task, faults, requeues, stalls>>
        /\ retrying' \in [Event -> Nat]
    <3>1. /\ retrying \in [Event -> Nat] /\ retrying[e] > 0
          /\ retrying' = [retrying EXCEPT ![e] = @ - 1]
      BY <1>0, <1>2 DEF RetryUpdate, TypeOK
    <3>2. retrying[e] - 1 \in Nat
      BY <2>0, <3>1
    <3>3. retrying' \in [Event -> Nat]
      BY <3>1, <3>2
    <3> QED
      BY <1>2, <2>0, <3>3 DEF RetryUpdate
  <2>3. n \in Nat /\ (n = m \/ (n = 0 /\ old.nextRetryAt = "null"))
    BY <2>0 DEF Failed
  <2> HIDE DEF x, n
  <2>4. Tallied(x, n, stalls)
    BY <2>0, <2>1, <2>3 DEF Tallied
  <2>5. \A v \in Worker : Held(x, v, task[v][e], stalls) /\ Counted(task[v][e], n, stalls)
    BY <2>0, <2>1, <2>3 DEF Held, Counted
  <2> QED
    BY <1>0, <2>0, <2>1, <2>2, <2>3, <2>4, <2>5, RowStep DEF TypeOK
<1> QED
  BY <1>1, <1>2

-----------------------------------------------------------------------------
LEMMA NextInv == IndInv /\ [Next]_vars => IndInv'
<1> SUFFICES ASSUME IndInv, [Next]_vars PROVE IndInv'
  OBVIOUS
<1>1. CASE UNCHANGED vars
  BY <1>1 DEF vars, IndInv, TypeOK, Consistent
<1>2. ASSUME NEW w \in Worker, Work(w) \/ Crash(w) \/ \E e \in Event : WriteFails(w, e) PROVE IndInv'
  BY <1>2, ClaimInv, FetchInv, CrashInv, DeliveryInv DEF Work
<1> QED
  BY <1>1, <1>2, DispatchInv, ClockInv, RetryInv DEF Next

\* The invariant holds in every reachable state.
LEMMA Invariance == Spec => []IndInv
  BY InitInv, NextInv, PTL DEF Spec

\* Type correctness of the rows, the flows, the workers' tasks and the bounds:
\* in particular no attempt counter ever passes maxAttempts, not even one that
\* a paused worker writes back.
THEOREM TypeCorrect == Spec => []TypeOK
<1>1. IndInv => TypeOK
  BY DEF IndInv
<1> QED
  BY <1>1, Invariance, PTL

\* The lease excludes: for any number of workers, crashes, failed writes and
\* manual retries, no event is in the hands of two workers unless a live worker
\* was paused for longer than its lease.
THEOREM LeaseExcludes == Spec => []ExclusiveDelivery
<1>1. IndInv => ExclusiveDelivery
  BY DEF IndInv, Consistent, Held, ExclusiveDelivery
<1> QED
  BY <1>1, Invariance, PTL

\* An event is reported as failed only after maxAttempts requests since it was
\* queued or taken out of the failed state, however many retry requests overlap.
THEOREM FailureIsExhaustion == Spec => []FailedMeansExhausted
<1>1. IndInv => FailedMeansExhausted
  BY DEF IndInv, Consistent, Tallied, Failed, FailedMeansExhausted
<1> QED
  BY <1>1, Invariance, PTL

\* Once deliveredAt is written, no step sends the event again unless a live
\* worker was paused, even if a retry request re-queues the row.
THEOREM DeliveredIsFinal == Spec => NoSendAfterDelivered
<1> DEFINE Body(e) == stalls = 0 /\ row[e].delivered => sends'[e] <= sends[e]
<1>1. ASSUME IndInv, [Next]_vars, NEW e \in Event PROVE Body(e)
  <2>0. /\ TypeOK /\ sends \in [Event -> Nat]
        /\ \A w \in Worker : Held(row[e], w, task[w][e], stalls)
    BY <1>1 DEF IndInv, Consistent, TypeOK
  <2>1. CASE sends' = sends
    BY <2>0, <2>1
  <2>2. ASSUME NEW w \in Worker, NEW d \in Event, Deliver(w, d) PROVE Body(e)
    BY <2>0, <2>2 DEF Deliver, Held
  <2>3. ASSUME NEW d \in Event, RetryUpdate(d) PROVE Body(e)
    <3>1. sends'[e] = sends[e] \/ sends'[e] = 0
      BY <2>0, <2>3 DEF RetryUpdate
    <3> QED
      BY <2>0, <3>1
  <2>4. \/ sends' = sends
        \/ \E w \in Worker, d \in Event : Deliver(w, d)
        \/ \E d \in Event : RetryUpdate(d)
    <3>1. CASE UNCHANGED vars
      BY <3>1 DEF vars
    <3>2. ASSUME NEW d \in Event, Dispatch(d) \/ Clock(d) PROVE sends' = sends
      BY <3>2 DEF Dispatch, FlowStart, DispatchFind, DispatchCreate, FlowCommit,
                  Clock, LeaseExpires, Stall, RetryDue
    <3>3. ASSUME NEW w \in Worker, Crash(w) \/ ClaimBatch(w) \/ FetchBatch(w) PROVE sends' = sends
      BY <3>3 DEF Crash, ClaimBatch, FetchBatch
    <3>4. ASSUME NEW w \in Worker, NEW d \in Event,
                 ReleaseDelivered(w, d) \/ ReleaseFailed(w, d) \/ WriteFails(w, d)
          PROVE  sends' = sends
      BY <3>4 DEF ReleaseDelivered, ReleaseFailed, ReleaseFailedAt, WriteFails
    <3>5. ASSUME NEW d \in Event, RetryCheck(d) PROVE sends' = sends
      BY <3>5 DEF RetryCheck
    <3> QED
      BY <1>1, <3>1, <3>2, <3>3, <3>4, <3>5 DEF Next, Work
  <2> QED
    BY <2>1, <2>2, <2>3, <2>4
<1>2. IndInv /\ [Next]_vars => [\A e \in Event : Body(e)]_vars
  BY <1>1
<1> QED
  BY <1>2, Invariance, PTL DEF Spec, NoSendAfterDelivered
=============================================================================
