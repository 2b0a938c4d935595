---------------------------- MODULE EffectOutbox ----------------------------
(***************************************************************************)
(* The effect outbox of the orchestration kernel                           *)
(* (crates/engine/src/orchestration/effects.rs, steering.rs, recovery.rs): *)
(* work for the outside world, kept in SQLite, claimed under a lease by    *)
(* one of several workers, and reconciled when the engine starts again.    *)
(*                                                                         *)
(* Each transaction of the code is one action.  Between two of them other  *)
(* workers, the owner, a receipt, the clock or a crash may act.            *)
(*                                                                         *)
(* Time is kept as what is compared with it: whether a lease has lapsed    *)
(* and whether a retry is due.  A worker's own timer runs for lease_ms     *)
(* from a moment after the claim, so when it fires the lease has lapsed.   *)
(***************************************************************************)
EXTENDS Integers

CONSTANTS
  Workers, NoWorker,
  Threads,
  Kinds,           \* kinds of effects that are enqueued
  NumEffects,      \* bound: effects ever enqueued
  MaxAttempts,     \* the retry budget, DEFAULT_MAX_ATTEMPTS
  MaxLapses,       \* bound: leases that lapse under a worker that still runs
  MaxErrors,       \* bound: store errors that end a worker's step
  MaxCrashes       \* bound

ASSUME OutboxAssumption ==
  /\ NoWorker \notin Workers
  /\ Kinds \subseteq {"start", "steer", "respond", "cleanup", "title"}
  /\ {NumEffects, MaxAttempts, MaxLapses, MaxErrors, MaxCrashes} \subseteq Nat

VARIABLES
  effect,    \* the table orchestration_effect_outbox, by ordinal
  worker,    \* where each worker is in EffectWorker::step
  host,      \* the process: down, resolving (recover_mailbox), up
  open,      \* history: dispatches of process work that its executor did not
             \* declare safe to retry
  used       \* how much of each bound is spent

vars == <<effect, worker, host, open, used>>

-----------------------------------------------------------------------------
(* Rows *)

Ids == 1 .. NumEffects

\* "start" stands for the effects that start, interrupt or restart a turn,
\* "cleanup" for the replay-safe ones.
ProcessBound(kind) == kind \in {"start", "steer", "respond"}

Active   == {"running", "uncertain"}
Terminal == {"succeeded", "failed", "cancelled"}
Status   == {"none", "pending"} \union Active \union Terminal

Effect == [ st        : Status,                \* none: not enqueued yet
            kind      : Kinds \union {"none"},
            thread    : Threads \union {"none"},
            attempt   : Nat,
            ready     : BOOLEAN,               \* available_at <= now
            owner     : Workers \union {NoWorker},
            lapsed    : BOOLEAN,               \* lease_expires_at <= now
            started   : BOOLEAN,               \* dispatch_started
            admitted  : BOOLEAN,               \* a steer whose runtime is still bound
            confirmed : BOOLEAN ]              \* a row of steering_acceptances

NoEffect == [ st |-> "none", kind |-> "none", thread |-> "none", attempt |-> 0,
              ready |-> FALSE, owner |-> NoWorker, lapsed |-> FALSE,
              started |-> FALSE, admitted |-> FALSE, confirmed |-> FALSE ]

SameLane(r, s) ==
  r.thread = s.thread /\ ((r.kind = "title") = (s.kind = "title"))

\* Mutant of Settle: the lease's owner stays on the row.
SettleOwned(r, s) == [r EXCEPT !.st = s, !.lapsed = FALSE]

\* status = s, lease_owner = NULL, lease_expires_at = NULL
Settle(r, s) == [r EXCEPT !.st = s, !.owner = NoWorker, !.lapsed = FALSE]

Outcomes == {"succeeded", "retry", "failed", "uncertain"}

Worker == [ pc      : {"idle", "claimed", "executing", "ended", "lost", "abandoning"},
            id      : Ids \union {0},
            attempt : Nat,
            outcome : Outcomes,
            lapsed  : BOOLEAN ]    \* the lease of its claim has lapsed

Idle == [ pc |-> "idle", id |-> 0, attempt |-> 0, outcome |-> "failed",
          lapsed |-> FALSE ]

Init ==
  /\ effect = [e \in Ids |-> NoEffect]
  /\ worker = [w \in Workers |-> Idle]
  /\ host = "up"
  /\ open = [e \in Ids |-> 0]
  /\ used = [lapses |-> 0, errors |-> 0, crashes |-> 0]

Bound == [lapses |-> MaxLapses, errors |-> MaxErrors, crashes |-> MaxCrashes]

Spend(what) ==
  /\ used[what] < Bound[what]
  /\ used' = [used EXCEPT ![what] = used[what] + 1]

-----------------------------------------------------------------------------
(* The owner: Store::dispatch with an accepted command *)

\* cancel_process
Retirable(r, t) ==
  /\ r.thread = t
  /\ ProcessBound(r.kind)
  /\ r.st \in {"pending", "running"} \/ (r.kind = "steer" /\ r.st = "uncertain")

CancelProcess(E, t) ==
  [e \in Ids |-> IF Retirable(E[e], t) THEN Settle(E[e], "cancelled") ELSE E[e]]

\* retire_for_start: a new turn drops the doubt about steering of the turns
\* before it.  `over` are the steers whose turn has ended.
RetireForStart(E, t, over) ==
  [e \in Ids |->
     IF E[e].thread = t /\ E[e].kind = "steer" /\ E[e].st = "uncertain" /\ e \in over
       THEN Settle(E[e], "cancelled") ELSE E[e]]

\* The ordinal the next row gets.
NextOrdinal(e) == /\ effect[e].st = "none"
                  /\ \A f \in Ids : f < e => effect[f].st # "none"

\* A command's plan: retire the thread's process work, enqueue an effect, or
\* both in one transaction.
RetireWork(t) ==
  /\ host = "up"
  /\ \E e \in Ids : Retirable(effect[e], t)
  /\ effect' = CancelProcess(effect, t)
  /\ UNCHANGED <<worker, host, open, used>>

Enqueue(t, k) ==
  /\ host = "up"
  /\ \E e \in Ids, cancel \in BOOLEAN, over \in SUBSET Ids :
       LET E == IF cancel THEN CancelProcess(effect, t) ELSE effect
       IN  /\ NextOrdinal(e)
           /\ over \subseteq {f \in Ids : k = "start" /\ E[f].kind = "steer"}
           /\ effect' = [RetireForStart(E, t, over) EXCEPT ![e] =
                           [NoEffect EXCEPT !.st = "pending", !.kind = k,
                              !.thread = t, !.ready = TRUE,
                              !.admitted = (k = "steer")]]
  /\ UNCHANGED <<worker, host, open, used>>

\* steering::confirm: the adapter's receipt for a dispatched steer.  It lifts
\* the doubt and does not touch a running claim.  A receipt for a row that is
\* over is recorded too, and nothing in the outbox reads it.
Confirm(e) ==
  /\ host = "up"
  /\ effect[e].kind = "steer" /\ effect[e].started /\ effect[e].st \notin Terminal
  /\ effect[e].admitted /\ ~effect[e].confirmed
  /\ effect' = [effect EXCEPT ![e] =
                  [IF effect[e].st = "uncertain" THEN Settle(effect[e], "succeeded")
                                                 ELSE effect[e]
                     EXCEPT !.confirmed = TRUE]]
  /\ UNCHANGED <<worker, host, open, used>>

-----------------------------------------------------------------------------
(* EffectWorker::step *)

\* Mutant of Expire: dispatched process work is given to the next worker.
ExpireRequeues(r) ==
  IF r.st = "running" /\ r.lapsed
    THEN [Settle(r, "pending") EXCEPT !.ready = TRUE] ELSE r

\* Mutant of Expire: a claim that was never begun is not taken back.
ExpireBegun(r) ==
  IF r.st = "running" /\ r.lapsed /\ r.started
    THEN [Settle(r, IF ProcessBound(r.kind) THEN "uncertain" ELSE "pending")
            EXCEPT !.ready = TRUE]
    ELSE r

\* claim_effect, first half: a lapsed lease is taken back.  Process work that
\* was dispatched becomes uncertain, the rest is pending again.
Expire(r) ==
  IF r.st = "running" /\ r.lapsed
    THEN [Settle(r, IF ProcessBound(r.kind) /\ r.started THEN "uncertain"
                                                         ELSE "pending")
            EXCEPT !.ready = TRUE]
    ELSE r

\* Mutant of Head: an effect in doubt does not hold its lane.
HeadPastDoubt(E, e) ==
  /\ E[e].st = "pending"
  /\ \A f \in Ids : SameLane(E[f], E[e]) =>
       E[f].st # "running" /\ ~(E[f].st = "pending" /\ f < e)

\* Mutant of Head: a retry that is not due lets later effects pass.
HeadPastRetry(E, e) ==
  /\ E[e].st = "pending"
  /\ \A f \in Ids : SameLane(E[f], E[e]) =>
       E[f].st \notin Active /\ ~(E[f].st = "pending" /\ E[f].ready /\ f < e)

\* NEXT_PENDING_EFFECT: the head of a lane in which nothing is active.
Head(E, e) ==
  /\ E[e].st = "pending"
  /\ \A f \in Ids : SameLane(E[f], E[e]) =>
       E[f].st \notin Active /\ ~(E[f].st = "pending" /\ f < e)

Expired == [e \in Ids |-> Expire(effect[e])]

Claimable == {e \in Ids : Head(Expired, e) /\ Expired[e].ready}

Claim(w) ==
  /\ host = "up"
  /\ worker[w].pc = "idle"
  /\ \E e \in Claimable :
       /\ effect' = [Expired EXCEPT ![e].st = "running", ![e].attempt = @ + 1,
                                    ![e].owner = w, ![e].started = FALSE]
       /\ worker' = [worker EXCEPT ![w] = [Idle EXCEPT !.pc = "claimed", !.id = e,
                                             !.attempt = Expired[e].attempt + 1]]
  /\ UNCHANGED <<host, open, used>>

\* Nothing to claim: the lapsed leases are taken back all the same.
ClaimNone(w) ==
  /\ host = "up"
  /\ worker[w].pc = "idle"
  /\ Claimable = {} /\ Expired # effect
  /\ effect' = Expired
  /\ UNCHANGED <<worker, host, open, used>>

\* Mutant of Holds: no fence but the status.
HoldsUnfenced(r, w) == r.st = "running"

\* The row is still the claim of w.
Holds(r, w) ==
  /\ r.st = "running"
  /\ r.owner = w
  /\ r.attempt = worker[w].attempt

\* The end of a step.
Leave(w) == worker' = [worker EXCEPT ![w] = Idle]

Count(e, n) ==
  IF ProcessBound(effect[e].kind) THEN [open EXCEPT ![e] = @ + n] ELSE open

\* begin_effect: the dispatch is recorded before the executor is entered.
Begin(w) ==
  /\ worker[w].pc = "claimed"
  /\ LET e == worker[w].id
     IN  IF Holds(effect[e], w) /\ ~effect[e].started
           THEN /\ effect' = [effect EXCEPT ![e].started = TRUE]
                /\ open' = Count(e, 1)
                /\ worker' = [worker EXCEPT ![w].pc = "executing"]
           ELSE Leave(w) /\ UNCHANGED <<effect, open>>
  /\ UNCHANGED <<host, used>>

\* The executor returns.  "retry" is its word that the dispatch had no effect
\* that a second one would repeat.  Once the lease has lapsed the outcome does
\* not count: finish_effect compares the lease with the time it was observed.
ExecEnds(w) ==
  /\ worker[w].pc = "executing"
  /\ \E o \in Outcomes :
       /\ worker' = [worker EXCEPT
                       ![w].pc      = IF worker[w].lapsed THEN "lost" ELSE "ended",
                       ![w].outcome = IF worker[w].lapsed THEN @ ELSE o]
       /\ open' = IF o = "retry" THEN Count(worker[w].id, -1) ELSE open
  /\ UNCHANGED <<effect, host, used>>

\* The worker's timer fires and the executor's future is dropped.  The lease
\* has lapsed by then, so the outcome the timer stands for, uncertain or retry,
\* is never recorded.
TimesOut(w) ==
  /\ worker[w].pc = "executing"
  /\ worker[w].lapsed
  /\ worker' = [worker EXCEPT ![w].pc = "lost"]
  /\ UNCHANGED <<effect, host, open, used>>

\* The owner cancelled the effect and the signal reached the registered token:
\* the step returns and leaves the row alone.  The signal follows the commit and
\* may find another claim's token in the map, so it may also never come.
Cancelled(w) ==
  /\ worker[w].pc = "executing"
  /\ effect[worker[w].id].st = "cancelled"
  /\ Leave(w)
  /\ UNCHANGED <<effect, host, open, used>>

\* finish_effect: what the row becomes; a receipt wins over the outcome.
Proven(r) == r.kind = "steer" /\ r.confirmed

Finished(r, o) ==
  CASE Proven(r) \/ o = "succeeded"                  -> Settle(r, "succeeded")
    [] ~Proven(r) /\ o = "uncertain"                 -> Settle(r, "uncertain")
    [] ~Proven(r) /\ o = "retry" /\ r.attempt < MaxAttempts
                                     -> [Settle(r, "pending") EXCEPT !.ready = FALSE]
    [] OTHER                                         -> Settle(r, "failed")

Finish(w) ==
  /\ worker[w].pc = "ended"
  /\ LET e == worker[w].id
     IN  IF Holds(effect[e], w)
           THEN /\ effect' = [effect EXCEPT ![e] = Finished(effect[e], worker[w].outcome)]
                /\ Leave(w)
           ELSE /\ worker' = [worker EXCEPT ![w].pc = "lost", ![w].outcome = "failed"]
                /\ UNCHANGED effect
  /\ UNCHANGED <<host, open, used>>

\* The claim was lost: to a cancellation, which needs nothing, or otherwise.
Lost(w) ==
  /\ worker[w].pc = "lost"
  /\ IF effect[worker[w].id].st = "cancelled"
       THEN Leave(w)
       ELSE worker' = [worker EXCEPT ![w].pc = "abandoning"]
  /\ UNCHANGED <<effect, host, open, used>>

\* abandon_effect: fenced by the claim and not by the lease.
Abandoned(r) ==
  IF Proven(r) THEN Settle(r, "succeeded")
  ELSE [Settle(r, IF ProcessBound(r.kind) THEN "uncertain" ELSE "pending")
          EXCEPT !.ready = TRUE]

Abandon(w) ==
  /\ worker[w].pc = "abandoning"
  /\ LET e == worker[w].id
     IN  effect' = IF Holds(effect[e], w)
                     THEN [effect EXCEPT ![e] = Abandoned(effect[e])] ELSE effect
  /\ Leave(w)
  /\ UNCHANGED <<host, open, used>>

\* The store returns an error, and the step ends with the row as it is.
StoreFails(w) ==
  /\ worker[w].pc \notin {"idle", "executing"}
  /\ Spend("errors")
  /\ Leave(w)
  /\ UNCHANGED <<effect, host, open>>

-----------------------------------------------------------------------------
(* The clock *)

Orphan(e) == \A w \in Workers : worker[w].id # e \/ worker[w].attempt # effect[e].attempt

Lapse(e) ==
  /\ effect[e].st = "running" /\ ~effect[e].lapsed
  /\ effect' = [effect EXCEPT ![e].lapsed = TRUE]
  /\ worker' = [w \in Workers |->
                  IF Holds(effect[e], w) /\ worker[w].id = e
                    THEN [worker[w] EXCEPT !.lapsed = TRUE] ELSE worker[w]]
  /\ UNCHANGED <<host, open>>

\* The lease of a claim that nobody works on lapses in the end.
OrphanLapses(e) == Orphan(e) /\ Lapse(e) /\ UNCHANGED used

\* A worker is slower than its lease.
LeaseLapses(e) == ~Orphan(e) /\ Lapse(e) /\ Spend("lapses")

\* The backoff of a retry is over.
RetryDue(e) ==
  /\ effect[e].st = "pending" /\ ~effect[e].ready
  /\ effect' = [effect EXCEPT ![e].ready = TRUE]
  /\ UNCHANGED <<worker, host, open, used>>

-----------------------------------------------------------------------------
(* Restart *)

Crash ==
  /\ host # "down"
  /\ Spend("crashes")
  /\ host' = "down"
  /\ worker' = [w \in Workers |-> Idle]
  /\ UNCHANGED <<effect, open>>

\* Kernel::recover, the updates of its transaction in order: receipts are
\* honoured, dispatched process work is in doubt, the other process work is
\* retired, as is steering in doubt, and replay-safe work is requeued.
Honour(r)  == IF Proven(r) /\ r.st \in Active THEN Settle(r, "succeeded") ELSE r
Doubt(r)   == IF ProcessBound(r.kind) /\ r.st = "running" /\ r.started
                THEN Settle(r, "uncertain") ELSE r
Retire(r)  == IF ProcessBound(r.kind) /\ r.st \in {"pending", "running"}
                THEN Settle(r, "cancelled") ELSE r
Retain(r)  == IF r.kind = "steer" /\ r.st = "uncertain"
                THEN Settle(r, "cancelled") ELSE r
Requeue(r) == IF r.st = "running" /\ ~ProcessBound(r.kind)
                THEN [Settle(r, "pending") EXCEPT !.ready = TRUE, !.started = FALSE]
                ELSE r

Recovered(r) == [Requeue(Retain(Retire(Doubt(Honour(r))))) EXCEPT !.admitted = FALSE]

Recover ==
  /\ host = "down"
  /\ host' = "resolving"
  /\ effect' = [e \in Ids |-> Recovered(effect[e])]
  /\ UNCHANGED <<worker, open, used>>

\* recover_mailbox disposes of what is uncertain, one transaction each, before
\* the workers start.
Disposable(r) == r.st = "uncertain" /\ r.kind \in {"start", "steer"}

Resolve(e) ==
  /\ host = "resolving"
  /\ Disposable(effect[e])
  /\ effect' = [effect EXCEPT ![e] = Settle(effect[e], "cancelled")]
  /\ UNCHANGED <<worker, host, open, used>>

StartWorkers ==
  /\ host = "resolving"
  /\ \A e \in Ids : ~Disposable(effect[e])
  /\ host' = "up"
  /\ UNCHANGED <<effect, worker, open, used>>

-----------------------------------------------------------------------------

OwnerStep == \/ \E t \in Threads : RetireWork(t) \/ \E k \in Kinds : Enqueue(t, k)
             \/ \E e \in Ids : Confirm(e)

WorkerStep(w) == \/ Claim(w) \/ ClaimNone(w) \/ Begin(w)
                 \/ ExecEnds(w) \/ TimesOut(w) \/ Cancelled(w)
                 \/ Finish(w) \/ Lost(w) \/ Abandon(w)

TimeStep(e) == OrphanLapses(e) \/ RetryDue(e)

HostStep == Recover \/ (\E e \in Ids : Resolve(e)) \/ StartWorkers

Next == \/ OwnerStep
        \/ \E w \in Workers : WorkerStep(w) \/ StoreFails(w)
        \/ \E e \in Ids : TimeStep(e) \/ LeaseLapses(e)
        \/ Crash \/ HostStep

Spec == Init /\ [][Next]_vars

\* The workers loop, timers fire, a stopped engine is started again.
Fairness == /\ \A w \in Workers : WF_vars(WorkerStep(w))
            /\ \A e \in Ids : WF_vars(TimeStep(e))
            /\ WF_vars(HostStep)

FairSpec == Spec /\ Fairness

-----------------------------------------------------------------------------
(* Properties *)

\* Every variable has the shape its declaration says, and a row has a lease
\* exactly while it is running.
OutboxTypeOK ==
  /\ effect \in [Ids -> Effect]
  /\ worker \in [Workers -> Worker]
  /\ host \in {"down", "resolving", "up"}
  /\ open \in [Ids -> Int]
  /\ used \in [{"lapses", "errors", "crashes"} -> Nat]
  /\ \A e \in Ids : effect[e].st = "running" <=> effect[e].owner # NoWorker

\* NEXT_PENDING_EFFECT's barriers: in one lane of one thread at most one
\* effect is running or in doubt.
LaneExclusive ==
  \A e, f \in Ids :
    /\ effect[e].st \in Active /\ effect[f].st \in Active
    /\ SameLane(effect[e], effect[f])
    => e = f

\* "Per-thread FIFO effect lanes": once an effect has been claimed, every
\* earlier one of its lane is over, and stays so.
Fifo ==
  \A e, f \in Ids :
    /\ f < e /\ SameLane(effect[e], effect[f]) /\ effect[e].attempt > 0
    => effect[f].st \in Terminal

\* "Expired process work is never stolen": process work is dispatched a second
\* time only after the executor said of the first that a retry is safe,
\* whatever leases, cancellations, errors and restarts come in between.
NoBlindReplay == \A e \in Ids : open[e] <= 1

\* A worker whose lease has not lapsed still holds its claim, unless the owner
\* cancelled it: no stale worker's outcome is written over it.
LiveClaim ==
  \A w \in Workers :
    worker[w].pc # "idle" /\ ~worker[w].lapsed =>
      LET r == effect[worker[w].id]
      IN  \/ r.st = "running" /\ r.owner = w /\ r.attempt = worker[w].attempt
          \/ r.st = "cancelled"

\* Every effect that is enqueued is over in the end, or its lane is held by
\* one in doubt.
Settles ==
  \A e \in Ids :
    <>[](\/ effect[e].st \in Terminal \union {"none"}
         \/ \E f \in Ids : SameLane(effect[e], effect[f]) /\ effect[f].st = "uncertain")

-----------------------------------------------------------------------------
(* What the documents say of it and the code does not do *)

\* recover_mailbox, "Owning process is gone and kernel recorded terminal
\* disposal": when the workers start again no lane is held by the doubt of a
\* process that is gone.
RestartReleases == [][StartWorkers => \A e \in Ids : effect[e].st # "uncertain"]_vars

-----------------------------------------------------------------------------
(* The inductive invariant of the safety properties *)

\* A row has a lease exactly while it is running.
RowOK(r) ==
  /\ r.st = "running" <=> r.owner # NoWorker
  /\ r.lapsed => r.st = "running"
  /\ r.st = "none" => r.attempt = 0

\* Ordinals are given in order, and the lanes are exclusive and in order.
TableOK(E) ==
  /\ \A e \in Ids : RowOK(E[e])
  /\ \A e, f \in Ids : f < e /\ E[f].st = "none" => E[e].st = "none"
  /\ \A e, f \in Ids : E[e].st \in Active /\ E[f].st \in Active
                          /\ SameLane(E[e], E[f]) => e = f
  /\ \A e, f \in Ids : f < e /\ SameLane(E[e], E[f]) /\ E[e].attempt > 0
                          => E[f].st \in Terminal

\* An open dispatch is of process work that cannot be claimed.
DispatchOK(E, n) ==
  \A e \in Ids :
    /\ n[e] <= 1
    /\ n[e] = 1 => /\ ProcessBound(E[e].kind)
                   /\ \/ E[e].st = "running" /\ E[e].started
                      \/ E[e].st \in {"uncertain"} \union Terminal

\* Of a worker: it works on a row, only while the host is up; its claim is on
\* the row until its lease lapses or the owner cancels; it knows of a lapse;
\* and if it is about to record a safe retry the dispatch is not open.
ClaimOK(w) ==
  LET r == effect[worker[w].id]
  IN  worker[w].pc # "idle" =>
        /\ worker[w].id \in Ids
        /\ host = "up"
        /\ ~worker[w].lapsed => Holds(r, w) \/ r.st = "cancelled"
        /\ Holds(r, w) /\ r.lapsed => worker[w].lapsed
        /\ worker[w].pc = "ended" /\ worker[w].outcome = "retry" /\ Holds(r, w)
             => open[worker[w].id] <= 0

OutboxInv ==
  /\ OutboxTypeOK
  /\ TableOK(effect)
  /\ DispatchOK(effect, open)
  /\ \A w \in Workers : ClaimOK(w)

=============================================================================
