------------------------ MODULE EffectOutbox_proofs -------------------------
(***************************************************************************)
(* The safety properties of the outbox, proved for any number of effects,  *)
(* workers, threads, lapses, errors and crashes.                           *)
(***************************************************************************)
EXTENDS EffectOutbox, TLAPS

-----------------------------------------------------------------------------
(* Rows *)

\* Where a process effect may be while a dispatch of it is open.
Shut(r) == (r.st = "running" /\ r.started) \/ r.st = "uncertain" \/ r.st \in Terminal

\* r becomes s without a claim: the row keeps its identity and its count of
\* claims, and becomes neither active nor unsettled.
Quiet(r, s) ==
  /\ s \in Effect
  /\ s.kind = r.kind /\ s.thread = r.thread /\ s.attempt = r.attempt
  /\ s.st \in Active => r.st \in Active
  /\ r.st \in Terminal => s.st \in Terminal
  /\ s.st = "none" <=> r.st = "none"
  /\ RowOK(s)

\* What a settled row is.
LEMMA SettleFields ==
  ASSUME NEW r \in Effect, NEW s \in Status
  PROVE  /\ Settle(r, s) \in Effect
         /\ Settle(r, s).st = s /\ Settle(r, s).owner = NoWorker
         /\ ~Settle(r, s).lapsed
         /\ Settle(r, s).kind = r.kind /\ Settle(r, s).thread = r.thread
         /\ Settle(r, s).attempt = r.attempt
         /\ Settle(r, s).started = r.started
         /\ Settle(r, s).confirmed = r.confirmed
         /\ Settle(r, s).ready = r.ready
         /\ Settle(r, s).admitted = r.admitted
  BY DEF Settle, Effect

\* The readiness, the receipt and the runtime of a row are no part of Quiet.
LEMMA QuietFlags ==
  ASSUME NEW r, NEW s, Quiet(r, s), NEW b \in BOOLEAN
  PROVE  /\ Quiet(r, [s EXCEPT !.ready = b])
         /\ Quiet(r, [s EXCEPT !.confirmed = b])
         /\ Quiet(r, [s EXCEPT !.admitted = b])
  BY DEF Quiet, Effect, RowOK

LEMMA QuietSelf ==
  ASSUME NEW r \in Effect, RowOK(r)
  PROVE  Quiet(r, r)
  BY DEF Quiet

\* To settle a row that is neither empty nor over is quiet.
LEMMA QuietSettle ==
  ASSUME NEW r \in Effect, RowOK(r), r.st \notin Terminal \union {"none"},
         NEW s \in {"pending"} \union Terminal \union {"uncertain"},
         s = "uncertain" => r.st \in Active
  PROVE  Quiet(r, Settle(r, s))
  BY SettleFields DEF Quiet, RowOK, Active, Terminal, Status

LEMMA QuietTrans ==
  ASSUME NEW r, NEW s, NEW u, Quiet(r, s), Quiet(s, u)
  PROVE  Quiet(r, u)
  BY DEF Quiet

-----------------------------------------------------------------------------
(* Tables *)

\* Quiet changes keep the order of the ordinals and of the lanes.
LEMMA QuietTable ==
  ASSUME NEW E, NEW F, TableOK(E), \A e \in Ids : Quiet(E[e], F[e])
  PROVE  TableOK(F)
<1> USE DEF Quiet
<1>1. \A e \in Ids : RowOK(F[e])
  OBVIOUS
<1>2. \A e, f \in Ids : f < e /\ F[f].st = "none" => F[e].st = "none"
  BY DEF TableOK
<1>3. \A e, f \in Ids : SameLane(F[e], F[f]) <=> SameLane(E[e], E[f])
  BY DEF SameLane
<1>4. \A e, f \in Ids : F[e].st \in Active /\ F[f].st \in Active
                          /\ SameLane(F[e], F[f]) => e = f
  BY <1>3 DEF TableOK
<1>5. \A e, f \in Ids : f < e /\ SameLane(F[e], F[f]) /\ F[e].attempt > 0
                          => F[f].st \in Terminal
  BY <1>3 DEF TableOK
<1> QED BY <1>1, <1>2, <1>4, <1>5 DEF TableOK

\* A new row at the next ordinal keeps them too.
LEMMA AppendTable ==
  ASSUME NEW E, NEW F, TableOK(E), NEW e \in Ids,
         E[e].st = "none", \A f \in Ids : f < e => E[f].st # "none",
         F[e].st = "pending", F[e].attempt = 0, RowOK(F[e]),
         \A f \in Ids : f # e => F[f] = E[f]
  PROVE  TableOK(F)
<1>1. \A f \in Ids : RowOK(F[f])
  BY DEF TableOK
<1>2. \A g, f \in Ids : f < g /\ F[f].st = "none" => F[g].st = "none"
  BY DEF TableOK, Ids
<1>3. \A g, f \in Ids : F[g].st \in Active /\ F[f].st \in Active
                          /\ SameLane(F[g], F[f]) => g = f
  BY DEF TableOK, Active
<1>4. \A g \in Ids : e < g => E[g].st = "none" /\ E[g].attempt = 0
  BY DEF TableOK, RowOK
<1>5. \A g, f \in Ids : f < g /\ SameLane(F[g], F[f]) /\ F[g].attempt > 0
                          => F[f].st \in Terminal
  <2>1. SUFFICES ASSUME NEW g \in Ids, NEW f \in Ids, f < g,
                        SameLane(F[g], F[f]), F[g].attempt > 0
                 PROVE  F[f].st \in Terminal
    OBVIOUS
  <2>2. g # e
    BY <2>1
  <2>3. f # e
    BY <1>4, <2>1, <2>2
  <2> QED BY <2>1, <2>2, <2>3 DEF TableOK
<1> QED BY <1>1, <1>2, <1>3, <1>5 DEF TableOK

\* So does the claim of the head of a lane.
LEMMA ClaimTable ==
  ASSUME NEW E, NEW F, TableOK(E), NEW e \in Ids, Head(E, e),
         F[e].st = "running", RowOK(F[e]), \A f \in Ids : E[f].st \in Status,
         F[e].kind = E[e].kind, F[e].thread = E[e].thread,
         \A f \in Ids : f # e => F[f] = E[f]
  PROVE  TableOK(F)
<1>1. \A f \in Ids : RowOK(F[f])
  BY DEF TableOK
<1>2. \A g, f \in Ids : f < g /\ F[f].st = "none" => F[g].st = "none"
  BY DEF TableOK, Head
<1>3. \A g, f \in Ids : SameLane(F[g], F[f]) <=> SameLane(E[g], E[f])
  BY DEF SameLane
<1>4. \A f \in Ids : f # e /\ SameLane(F[f], F[e]) => F[f].st \notin Active
  BY <1>3 DEF Head
<1>5. \A g, f \in Ids : SameLane(F[g], F[f]) => SameLane(F[f], F[g])
  BY DEF SameLane
<1>6. \A g, f \in Ids : F[g].st \in Active /\ F[f].st \in Active
                          /\ SameLane(F[g], F[f]) => g = f
  BY <1>3, <1>4, <1>5 DEF TableOK
<1>7. \A g, f \in Ids : f < g /\ SameLane(F[g], F[f]) /\ F[g].attempt > 0
                          => F[f].st \in Terminal
  <2>1. SUFFICES ASSUME NEW g \in Ids, NEW f \in Ids, f < g,
                        SameLane(F[g], F[f]), F[g].attempt > 0
                 PROVE  F[f].st \in Terminal
    OBVIOUS
  <2>2. CASE g = e
    <3>1. f # e /\ F[f] = E[f] /\ SameLane(E[f], E[e])
      BY <2>1, <2>2, <1>3, <1>5 DEF Ids
    <3>2. E[f].st \notin Active /\ E[f].st # "pending" /\ E[f].st # "none"
      BY <2>1, <2>2, <3>1 DEF Head, TableOK
    <3> QED BY <3>1, <3>2 DEF Status
  <2>3. CASE g # e
    <3>1. E[f].st \in Terminal
      BY <2>1, <2>3, <1>3 DEF TableOK
    <3>2. f # e
      BY <3>1 DEF Head, Terminal
    <3> QED BY <3>1, <3>2
  <2> QED BY <2>2, <2>3
<1> QED BY <1>1, <1>2, <1>6, <1>7 DEF TableOK

-----------------------------------------------------------------------------
(* Steps *)

\* The row is the claim of w with attempt n.
Mine(r, w, n) == r.st = "running" /\ r.owner = w /\ r.attempt = n

\* To the worker w the change from r to s is no surprise: it takes the claim
\* away only if its lease has lapsed or the owner cancels.
Calm(r, s, w, n) ==
  /\ Mine(s, w, n) => Mine(r, w, n) /\ (s.lapsed => r.lapsed)
  /\ Mine(r, w, n) => Mine(s, w, n) \/ s.st = "cancelled" \/ r.lapsed
  /\ r.st = "cancelled" => s.st = "cancelled"

\* An open dispatch stays where it cannot be claimed.
Keeps(r, s) ==
  ProcessBound(r.kind) /\ Shut(r) => ProcessBound(s.kind) /\ Shut(s)

\* A change that none of the invariants minds.
Benign(r, s) ==
  /\ Quiet(r, s)
  /\ Keeps(r, s)
  /\ \A w \in Workers, n \in Nat : Calm(r, s, w, n)

LEMMA BenignSelf ==
  ASSUME NEW r \in Effect, RowOK(r)
  PROVE  Benign(r, r)
  BY QuietSelf DEF Benign, Keeps, Calm

LEMMA BenignTrans ==
  ASSUME NEW r, NEW s, NEW u, Benign(r, s), Benign(s, u)
  PROVE  Benign(r, u)
<1>1. Quiet(r, u)
  BY QuietTrans DEF Benign
<1>2. Keeps(r, u)
  BY DEF Benign, Keeps
<1>3. ASSUME NEW w \in Workers, NEW n \in Nat
      PROVE  Calm(r, u, w, n)
  BY DEF Benign, Calm, Quiet, RowOK, Mine
<1> QED BY <1>1, <1>2, <1>3 DEF Benign

\* A cancellation; the end of a doubt; a lapsed lease that is taken back.
LEMMA BenignSettle ==
  ASSUME NEW r \in Effect, RowOK(r), r.st \notin Terminal \union {"none"},
         NEW s \in {"pending"} \union Terminal \union {"uncertain"},
         \/ s = "cancelled"
         \/ s \in Terminal /\ r.st = "uncertain"
         \/ r.lapsed /\ (s = "uncertain" \/ ~(ProcessBound(r.kind) /\ r.started))
  PROVE  Benign(r, Settle(r, s))
<1>1. /\ s \in Status
      /\ s # "running"
      /\ s = "uncertain" => r.st \in Active
  BY DEF Status, Terminal, Active, RowOK
<1>2. Quiet(r, Settle(r, s))
  BY <1>1, QuietSettle
<1>3. Keeps(r, Settle(r, s))
  BY <1>1, SettleFields DEF Keeps, Shut, RowOK, Terminal
<1>4. ASSUME NEW w \in Workers, NEW n \in Nat
      PROVE  Calm(r, Settle(r, s), w, n)
  BY <1>1, SettleFields DEF Calm, Mine, Terminal, RowOK
<1> QED BY <1>2, <1>3, <1>4 DEF Benign

LEMMA BenignFlags ==
  ASSUME NEW r, NEW s, Benign(r, s), NEW b \in BOOLEAN
  PROVE  /\ Benign(r, [s EXCEPT !.ready = b])
         /\ Benign(r, [s EXCEPT !.confirmed = b])
<1>1. s \in Effect
  BY DEF Benign, Quiet
<1> DEFINE u == [s EXCEPT !.ready = b]
           v == [s EXCEPT !.confirmed = b]
<1>2. /\ u.st = s.st /\ u.owner = s.owner /\ u.attempt = s.attempt
      /\ u.lapsed = s.lapsed /\ u.started = s.started /\ u.kind = s.kind
      /\ v.st = s.st /\ v.owner = s.owner /\ v.attempt = s.attempt
      /\ v.lapsed = s.lapsed /\ v.started = s.started /\ v.kind = s.kind
  BY <1>1 DEF Effect
<1>3. Quiet(r, u) /\ Quiet(r, v)
  BY QuietFlags DEF Benign
<1> HIDE DEF u, v
<1>4. Benign(r, u) /\ Benign(r, v)
  BY <1>2, <1>3 DEF Benign, Keeps, Calm, Mine, Shut
<1> QED BY <1>4 DEF u, v

\* A worker that a step leaves alone keeps its invariant when the row it works
\* on changes calmly.
LEMMA ClaimKept ==
  ASSUME OutboxTypeOK, NEW w \in Workers, ClaimOK(w),
         worker'[w] = worker[w], host' = host,
         worker[w].pc # "idle" =>
           LET e == worker[w].id
           IN  /\ Calm(effect[e], effect'[e], w, worker[w].attempt)
               /\ Mine(effect[e], w, worker[w].attempt) /\ open[e] <= 0 => open'[e] <= 0
  PROVE  ClaimOK(w)'
  BY DEF ClaimOK, Holds, Calm, Mine

\* The table's part of the invariant.
LEMMA QuietStep ==
  ASSUME OutboxInv, effect' \in [Ids -> Effect], open' = open,
         \A e \in Ids : Quiet(effect[e], effect'[e]) /\ Keeps(effect[e], effect'[e])
  PROVE  TableOK(effect') /\ DispatchOK(effect', open')
<1>1. TableOK(effect')
  BY QuietTable DEF OutboxInv
<1>2. DispatchOK(effect', open)
  BY DEF OutboxInv, DispatchOK, Keeps, Shut
<1> QED BY <1>1, <1>2

LEMMA BenignStep ==
  ASSUME OutboxInv, effect' \in [Ids -> Effect], UNCHANGED <<worker, host, open, used>>,
         \A e \in Ids : Benign(effect[e], effect'[e])
  PROVE  OutboxInv'
<1>1. TableOK(effect') /\ DispatchOK(effect', open')
  BY QuietStep DEF Benign
<1>2. OutboxTypeOK'
  BY <1>1 DEF OutboxInv, OutboxTypeOK, TableOK, RowOK
<1>3. ASSUME NEW w \in Workers
      PROVE  ClaimOK(w)'
  <2>1. worker[w].attempt \in Nat
    BY DEF OutboxInv, OutboxTypeOK, Worker
  <2>2. ClaimOK(w)
    BY DEF OutboxInv
  <2>3. worker[w].pc # "idle" => worker[w].id \in Ids
    BY <2>2 DEF ClaimOK
  <2> QED BY <2>1, <2>2, <2>3, ClaimKept DEF Benign, OutboxInv
<1> QED BY <1>1, <1>2, <1>3 DEF OutboxInv

-----------------------------------------------------------------------------
(* The owner *)

\* What the invariant says of one row.
LEMMA Rows ==
  ASSUME OutboxInv
  PROVE  \A e \in Ids : effect[e] \in Effect /\ RowOK(effect[e])
  BY DEF OutboxInv, OutboxTypeOK, TableOK

LEMMA CancelBenign ==
  ASSUME NEW E, NEW t, \A e \in Ids : E[e] \in Effect /\ RowOK(E[e])
  PROVE  \A e \in Ids : Benign(E[e], CancelProcess(E, t)[e])
<1>1. ASSUME NEW e \in Ids, Retirable(E[e], t)
      PROVE  Benign(E[e], Settle(E[e], "cancelled"))
  BY <1>1, BenignSettle DEF Retirable, Terminal
<1>2. \A e \in Ids : Benign(E[e], E[e])
  BY BenignSelf
<1> QED BY <1>1, <1>2 DEF CancelProcess

LEMMA RetireBenign ==
  ASSUME NEW E, NEW t, NEW over, \A e \in Ids : E[e] \in Effect /\ RowOK(E[e])
  PROVE  \A e \in Ids : Benign(E[e], RetireForStart(E, t, over)[e])
<1>1. ASSUME NEW e \in Ids, E[e].st = "uncertain"
      PROVE  Benign(E[e], Settle(E[e], "cancelled"))
  BY <1>1, BenignSettle DEF Terminal
<1>2. \A e \in Ids : Benign(E[e], E[e])
  BY BenignSelf
<1> QED BY <1>1, <1>2 DEF RetireForStart

LEMMA RetireWorkInv ==
  ASSUME OutboxInv, NEW t \in Threads, RetireWork(t)
  PROVE  OutboxInv'
<1>1. \A e \in Ids : Benign(effect[e], effect'[e])
  BY Rows, CancelBenign DEF RetireWork
<1>2. effect' \in [Ids -> Effect]
  <2>1. effect' = CancelProcess(effect, t)
    BY DEF RetireWork
  <2>2. \A e \in Ids : effect'[e] \in Effect
    BY <1>1 DEF Benign, Quiet
  <2> QED BY <2>1, <2>2 DEF CancelProcess
<1> QED BY <1>1, <1>2, BenignStep DEF RetireWork

LEMMA EnqueueInv ==
  ASSUME OutboxInv, NEW t \in Threads, NEW k \in Kinds, Enqueue(t, k)
  PROVE  OutboxInv'
<1>1. PICK e \in Ids, cancel \in BOOLEAN, over \in SUBSET Ids :
         LET E == IF cancel THEN CancelProcess(effect, t) ELSE effect
         IN  /\ NextOrdinal(e)
             /\ effect' = [RetireForStart(E, t, over) EXCEPT ![e] =
                             [NoEffect EXCEPT !.st = "pending", !.kind = k,
                                !.thread = t, !.ready = TRUE,
                                !.admitted = (k = "steer")]]
  BY DEF Enqueue
<1> DEFINE E == IF cancel THEN CancelProcess(effect, t) ELSE effect
           G == RetireForStart(E, t, over)
           new == [NoEffect EXCEPT !.st = "pending", !.kind = k, !.thread = t,
                     !.ready = TRUE, !.admitted = (k = "steer")]
<1>2. \A f \in Ids : Benign(effect[f], E[f])
  BY Rows, CancelBenign, BenignSelf
<1>3. \A f \in Ids : E[f] \in Effect /\ RowOK(E[f])
  BY <1>2 DEF Benign, Quiet
<1> HIDE DEF E
<1>4. \A f \in Ids : Benign(effect[f], G[f])
  BY <1>2, <1>3, RetireBenign, BenignTrans
<1>5. DOMAIN G = Ids /\ G = [f \in Ids |-> G[f]]
  BY DEF RetireForStart
<1>6. effect' = [G EXCEPT ![e] = new]
  BY <1>1 DEF E
<1>7. /\ new \in Effect /\ new.st = "pending" /\ new.attempt = 0
      /\ new.owner = NoWorker /\ ~new.lapsed
  BY DEF Effect, NoEffect, Status
<1>8. RowOK(new)
  BY <1>7 DEF RowOK
<1>9. effect[e].st = "none" /\ \A f \in Ids : f < e => effect[f].st # "none"
  BY <1>1 DEF NextOrdinal
<1> HIDE DEF G, new
<1>10. /\ effect'[e] = new
       /\ \A f \in Ids : f # e => effect'[f] = G[f]
       /\ effect' \in [Ids -> Effect]
  BY <1>4, <1>5, <1>6, <1>7 DEF Benign, Quiet
<1>11. TableOK(effect')
  <2>1. TableOK(G)
    BY <1>4, QuietTable DEF Benign, OutboxInv
  <2>2. G[e].st = "none" /\ \A f \in Ids : f < e => G[f].st # "none"
    BY <1>4, <1>9 DEF Benign, Quiet
  <2> QED BY <2>1, <2>2, <1>7, <1>8, <1>10, AppendTable
<1>12. \A f \in Ids : Keeps(effect[f], effect'[f])
  BY <1>4, <1>9, <1>10 DEF Keeps, Shut, Terminal, Benign
<1>13. DispatchOK(effect', open')
  <2>1. open' = open
    BY DEF Enqueue
  <2> QED BY <2>1, <1>12 DEF OutboxInv, DispatchOK, Keeps, Shut
<1>14. \A f \in Ids, w \in Workers, n \in Nat : Calm(effect[f], effect'[f], w, n)
  BY <1>4, <1>7, <1>9, <1>10 DEF Calm, Mine, Benign
<1>15. UNCHANGED <<worker, host, open, used>>
  BY DEF Enqueue
<1>16. OutboxTypeOK'
  BY <1>10, <1>11, <1>15 DEF OutboxInv, OutboxTypeOK, TableOK, RowOK
<1>17. ASSUME NEW w \in Workers
       PROVE  ClaimOK(w)'
  <2>1. worker[w].attempt \in Nat /\ ClaimOK(w) /\ OutboxTypeOK
    BY DEF OutboxInv, OutboxTypeOK, Worker
  <2>2. worker[w].pc # "idle" => worker[w].id \in Ids
    BY <2>1 DEF ClaimOK
  <2> QED BY <2>1, <2>2, <1>14, <1>15, ClaimKept
<1> QED BY <1>11, <1>13, <1>16, <1>17 DEF OutboxInv

LEMMA ConfirmInv ==
  ASSUME OutboxInv, NEW e \in Ids, Confirm(e)
  PROVE  OutboxInv'
<1> DEFINE base == IF effect[e].st = "uncertain" THEN Settle(effect[e], "succeeded")
                                                 ELSE effect[e]
<1>1. Benign(effect[e], base)
  BY Rows, BenignSelf, BenignSettle DEF Terminal
<1>2. effect' = [effect EXCEPT ![e] = [base EXCEPT !.confirmed = TRUE]]
  BY DEF Confirm
<1> HIDE DEF base
<1>3. Benign(effect[e], [base EXCEPT !.confirmed = TRUE])
  BY <1>1, BenignFlags
<1>4. effect \in [Ids -> Effect]
  BY DEF OutboxInv, OutboxTypeOK
<1>5. effect' \in [Ids -> Effect]
  BY <1>2, <1>3, <1>4 DEF Benign, Quiet
<1>6. \A f \in Ids : Benign(effect[f], effect'[f])
  BY <1>2, <1>3, <1>4, Rows, BenignSelf
<1> QED BY <1>5, <1>6, BenignStep DEF Confirm

LEMMA RetryDueInv ==
  ASSUME OutboxInv, NEW e \in Ids, RetryDue(e)
  PROVE  OutboxInv'
<1>1. effect' = [effect EXCEPT ![e] = [effect[e] EXCEPT !.ready = TRUE]]
  BY DEF RetryDue
<1>2. Benign(effect[e], [effect[e] EXCEPT !.ready = TRUE])
  BY Rows, BenignSelf, BenignFlags
<1>3. effect \in [Ids -> Effect]
  BY DEF OutboxInv, OutboxTypeOK
<1>4. effect' \in [Ids -> Effect]
  BY <1>1, <1>2, <1>3 DEF Benign, Quiet
<1>5. \A f \in Ids : Benign(effect[f], effect'[f])
  BY <1>1, <1>2, <1>3, Rows, BenignSelf
<1> QED BY <1>4, <1>5, BenignStep DEF RetryDue

-----------------------------------------------------------------------------
(* The workers *)

LEMMA IdleWorker == Idle \in Worker /\ Idle.pc = "idle"
  BY DEF Idle, Worker, Outcomes

\* The workers that a step of w leaves alone keep their invariants.
LEMMA OthersKept ==
  ASSUME OutboxInv, NEW w \in Workers, host' = host, ClaimOK(w)',
         \A v \in Workers : v # w => worker'[v] = worker[v],
         \A v \in Workers, e \in Ids, n \in Nat :
           v # w => /\ Calm(effect[e], effect'[e], v, n)
                    /\ Mine(effect[e], v, n) /\ open[e] <= 0 => open'[e] <= 0
  PROVE  \A v \in Workers : ClaimOK(v)'
<1>1. ASSUME NEW v \in Workers, v # w
      PROVE  ClaimOK(v)'
  <2>1. worker[v].attempt \in Nat /\ ClaimOK(v) /\ OutboxTypeOK
    BY DEF OutboxInv, OutboxTypeOK, Worker
  <2>2. worker[v].pc # "idle" => worker[v].id \in Ids
    BY <2>1 DEF ClaimOK
  <2> QED BY <1>1, <2>1, <2>2, ClaimKept
<1> QED BY <1>1

\* A step that changes only w.
LEMMA WorkerOnly ==
  ASSUME OutboxInv, NEW w \in Workers, UNCHANGED <<effect, host, open>>,
         used' \in [{"lapses", "errors", "crashes"} -> Nat],
         NEW r \in Worker, worker' = [worker EXCEPT ![w] = r], ClaimOK(w)'
  PROVE  OutboxInv'
<1>1. worker \in [Workers -> Worker]
  BY DEF OutboxInv, OutboxTypeOK
<1>2. worker' \in [Workers -> Worker] /\ \A v \in Workers : v # w => worker'[v] = worker[v]
  BY <1>1
<1>3. \A v \in Workers : ClaimOK(v)'
  <2>1. \A v \in Workers, e \in Ids, n \in Nat :
           /\ Calm(effect[e], effect'[e], v, n)
           /\ Mine(effect[e], v, n) /\ open[e] <= 0 => open'[e] <= 0
    BY DEF Calm
  <2> QED BY <2>1, <1>2, OthersKept
<1>4. OutboxTypeOK'
  BY <1>2 DEF OutboxInv, OutboxTypeOK
<1> QED BY <1>3, <1>4 DEF OutboxInv

LEMMA LeaveInv ==
  ASSUME OutboxInv, NEW w \in Workers, UNCHANGED <<effect, host, open>>,
         used' \in [{"lapses", "errors", "crashes"} -> Nat], Leave(w)
  PROVE  OutboxInv'
<1>1. worker' = [worker EXCEPT ![w] = Idle]
  BY DEF Leave
<1>2. worker'[w] = Idle
  BY <1>1 DEF OutboxInv, OutboxTypeOK
<1>3. ClaimOK(w)'
  BY <1>2, IdleWorker DEF ClaimOK
<1> QED BY <1>1, <1>3, IdleWorker, WorkerOnly

LEMMA CancelledInv ==
  ASSUME OutboxInv, NEW w \in Workers, Cancelled(w)
  PROVE  OutboxInv'
  BY LeaveInv DEF Cancelled, OutboxInv, OutboxTypeOK

LEMMA SpendType ==
  ASSUME OutboxTypeOK, NEW what \in {"lapses", "errors", "crashes"}, Spend(what)
  PROVE  used' \in [{"lapses", "errors", "crashes"} -> Nat]
  BY DEF Spend, OutboxTypeOK

LEMMA StoreFailsInv ==
  ASSUME OutboxInv, NEW w \in Workers, StoreFails(w)
  PROVE  OutboxInv'
  BY SpendType, LeaveInv DEF StoreFails, OutboxInv

\* A worker that moves on without touching its claim.
LEMMA TimesOutInv ==
  ASSUME OutboxInv, NEW w \in Workers, TimesOut(w)
  PROVE  OutboxInv'
<1> DEFINE r == [worker[w] EXCEPT !.pc = "lost"]
<1>1. worker[w] \in Worker /\ worker \in [Workers -> Worker]
  BY DEF OutboxInv, OutboxTypeOK
<1>2. r \in Worker /\ worker' = [worker EXCEPT ![w] = r]
  BY <1>1 DEF Worker, TimesOut
<1>3. /\ r.pc = "lost" /\ r.id = worker[w].id /\ r.attempt = worker[w].attempt
      /\ r.lapsed = worker[w].lapsed
  BY <1>1 DEF Worker
<1> HIDE DEF r
<1>4. worker'[w] = r
  BY <1>1, <1>2
<1>5. ClaimOK(w)'
  BY <1>3, <1>4 DEF OutboxInv, ClaimOK, Holds, TimesOut
<1>6. used' \in [{"lapses", "errors", "crashes"} -> Nat]
  BY DEF TimesOut, OutboxInv, OutboxTypeOK
<1> QED BY <1>2, <1>5, <1>6, WorkerOnly DEF TimesOut

LEMMA LostInv ==
  ASSUME OutboxInv, NEW w \in Workers, Lost(w)
  PROVE  OutboxInv'
<1>1. used' \in [{"lapses", "errors", "crashes"} -> Nat] /\ UNCHANGED <<effect, host, open>>
  BY DEF Lost, OutboxInv, OutboxTypeOK
<1>2. CASE Leave(w)
  BY <1>1, <1>2, LeaveInv
<1>3. CASE worker' = [worker EXCEPT ![w].pc = "abandoning"]
  <2> DEFINE r == [worker[w] EXCEPT !.pc = "abandoning"]
  <2>1. worker[w] \in Worker /\ worker \in [Workers -> Worker]
    BY DEF OutboxInv, OutboxTypeOK
  <2>2. r \in Worker /\ worker' = [worker EXCEPT ![w] = r]
    BY <1>3, <2>1 DEF Worker
  <2>3. /\ r.pc = "abandoning" /\ r.id = worker[w].id /\ r.attempt = worker[w].attempt
        /\ r.lapsed = worker[w].lapsed
    BY <2>1 DEF Worker
  <2> HIDE DEF r
  <2>4. worker'[w] = r /\ worker[w].pc # "idle"
    BY <2>1, <2>2 DEF Lost
  <2>5. ClaimOK(w)'
    BY <1>1, <2>3, <2>4 DEF OutboxInv, ClaimOK, Holds
  <2> QED BY <1>1, <2>2, <2>5, WorkerOnly
<1> QED BY <1>2, <1>3 DEF Lost

-----------------------------------------------------------------------------
(* Claims *)

LEMMA ExpireBenign ==
  ASSUME NEW r \in Effect, RowOK(r)
  PROVE  Benign(r, Expire(r))
<1>1. CASE r.st = "running" /\ r.lapsed
  <2> DEFINE s == IF ProcessBound(r.kind) /\ r.started THEN "uncertain" ELSE "pending"
  <2>1. Benign(r, Settle(r, s))
    BY <1>1, BenignSettle DEF Terminal
  <2>2. Expire(r) = [Settle(r, s) EXCEPT !.ready = TRUE]
    BY <1>1 DEF Expire
  <2> DEFINE u == Settle(r, s)
  <2> HIDE DEF u
  <2>3. Benign(r, [u EXCEPT !.ready = TRUE])
    BY <2>1, BenignFlags DEF u
  <2> QED BY <2>2, <2>3 DEF u
<1>2. CASE ~(r.st = "running" /\ r.lapsed)
  BY <1>2, BenignSelf DEF Expire
<1> QED BY <1>1, <1>2

LEMMA ExpiredBenign ==
  ASSUME OutboxInv
  PROVE  /\ Expired \in [Ids -> Effect]
         /\ \A e \in Ids : Benign(effect[e], Expired[e])
<1>1. \A e \in Ids : Benign(effect[e], Expired[e])
  BY Rows, ExpireBenign DEF Expired
<1>2. \A e \in Ids : Expired[e] \in Effect
  BY <1>1 DEF Benign, Quiet
<1> QED BY <1>1, <1>2 DEF Expired

LEMMA ClaimNoneInv ==
  ASSUME OutboxInv, NEW w \in Workers, ClaimNone(w)
  PROVE  OutboxInv'
  BY ExpiredBenign, BenignStep DEF ClaimNone

\* The row and the worker of a claim.
LEMMA ClaimedFields ==
  ASSUME NEW r \in Effect, NEW w \in Workers, NEW e \in Ids, NEW n \in Nat
  PROVE  LET s == [r EXCEPT !.st = "running", !.attempt = n,
                            !.owner = w, !.started = FALSE]
             v == [Idle EXCEPT !.pc = "claimed", !.id = e, !.attempt = n]
         IN  /\ s \in Effect /\ s.st = "running" /\ s.owner = w /\ s.attempt = n
             /\ s.kind = r.kind /\ s.thread = r.thread /\ s.lapsed = r.lapsed
             /\ v \in Worker /\ v.pc = "claimed" /\ v.id = e /\ v.attempt = n
             /\ ~v.lapsed
<1>1. "running" \in Status
  BY DEF Status, Active
<1> QED BY <1>1 DEF Effect, Worker, Idle, Outcomes

LEMMA ClaimInv ==
  ASSUME OutboxInv, NEW w \in Workers, Claim(w)
  PROVE  OutboxInv'
<1>1. PICK e \in Claimable :
        /\ effect' = [Expired EXCEPT ![e].st = "running", ![e].attempt = @ + 1,
                                     ![e].owner = w, ![e].started = FALSE]
        /\ worker' = [worker EXCEPT ![w] = [Idle EXCEPT !.pc = "claimed", !.id = e,
                                              !.attempt = Expired[e].attempt + 1]]
  BY DEF Claim
<1>2. /\ UNCHANGED <<host, open, used>> /\ host = "up"
      /\ e \in Ids /\ Head(Expired, e)
  BY DEF Claim, Claimable
<1>3. /\ Expired \in [Ids -> Effect]
      /\ \A f \in Ids : Benign(effect[f], Expired[f])
  BY ExpiredBenign
<1> DEFINE r == Expired[e]
           s == [r EXCEPT !.st = "running", !.attempt = r.attempt + 1,
                          !.owner = w, !.started = FALSE]
           v == [Idle EXCEPT !.pc = "claimed", !.id = e, !.attempt = r.attempt + 1]
<1>4. r \in Effect /\ RowOK(r) /\ r.st = "pending" /\ r.attempt \in Nat /\ ~r.lapsed
  BY <1>2, <1>3 DEF Benign, Quiet, Head, RowOK, Effect
<1>5. effect' = [Expired EXCEPT ![e] = s]
  BY <1>1, <1>2, <1>3 DEF Effect
<1>6. worker' = [worker EXCEPT ![w] = v]
  BY <1>1
<1> HIDE DEF r
<1>7. r.attempt + 1 \in Nat
  BY <1>4
<1>8. /\ s \in Effect /\ s.st = "running" /\ s.owner = w /\ s.attempt = r.attempt + 1
      /\ s.kind = r.kind /\ s.thread = r.thread /\ s.lapsed = r.lapsed
      /\ v \in Worker /\ v.pc = "claimed" /\ v.id = e /\ v.attempt = r.attempt + 1
      /\ ~v.lapsed
  BY <1>2, <1>4, <1>7, ClaimedFields
<1> HIDE DEF s, v
<1>9. /\ effect' \in [Ids -> Effect] /\ effect'[e] = s
      /\ \A f \in Ids : f # e => effect'[f] = Expired[f]
  BY <1>2, <1>3, <1>5, <1>8
<1>10. RowOK(s)
  BY <1>8, OutboxAssumption DEF RowOK
<1>11. TableOK(Expired)
  BY <1>3, QuietTable DEF Benign, OutboxInv
<1>12. TableOK(effect')
  <2>1. \A f \in Ids : Expired[f].st \in Status
    BY <1>3 DEF Effect
  <2> QED BY <1>2, <1>8, <1>9, <1>10, <1>11, <2>1, ClaimTable DEF r
<1>13. DispatchOK(effect', open')
  <2>1. DispatchOK(Expired, open)
    BY <1>3 DEF Benign, Keeps, Shut, OutboxInv, DispatchOK
  <2>2. open[e] # 1
    BY <1>2, <1>4, <2>1 DEF DispatchOK, r, Terminal
  <2> QED BY <1>2, <1>9, <2>1, <2>2 DEF DispatchOK
<1>14. worker \in [Workers -> Worker]
  BY DEF OutboxInv, OutboxTypeOK
<1>15. /\ worker' \in [Workers -> Worker] /\ worker'[w] = v
       /\ \A u \in Workers : u # w => worker'[u] = worker[u]
  BY <1>6, <1>8, <1>14
<1>16. OutboxTypeOK'
  BY <1>2, <1>9, <1>12, <1>15 DEF OutboxInv, OutboxTypeOK, TableOK, RowOK
<1>17. ClaimOK(w)'
  BY <1>2, <1>4, <1>8, <1>9, <1>15 DEF ClaimOK, Holds
<1>18. \A u \in Workers, f \in Ids, n \in Nat :
         u # w => /\ Calm(effect[f], effect'[f], u, n)
                  /\ Mine(effect[f], u, n) /\ open[f] <= 0 => open'[f] <= 0
  <2>1. SUFFICES ASSUME NEW u \in Workers, NEW f \in Ids, NEW n \in Nat, u # w
                 PROVE  Calm(effect[f], effect'[f], u, n)
    BY <1>2
  <2>2. Calm(effect[f], Expired[f], u, n)
    BY <1>3 DEF Benign
  <2>3. CASE f = e
    BY <2>1, <2>2, <2>3, <1>4, <1>8, <1>9 DEF Calm, Mine, r
  <2> QED BY <2>2, <2>3, <1>9
<1>19. \A u \in Workers : ClaimOK(u)'
  BY <1>2, <1>15, <1>17, <1>18, OthersKept
<1> QED BY <1>12, <1>13, <1>16, <1>19 DEF OutboxInv

-----------------------------------------------------------------------------
(* Dispatches *)

\* What the invariant says of a worker that is in a step.
LEMMA InStep ==
  ASSUME OutboxInv, NEW w \in Workers, worker[w].pc # "idle"
  PROVE  /\ worker[w].id \in Ids /\ host = "up" /\ worker[w] \in Worker
         /\ worker[w].attempt \in Nat /\ ClaimOK(w)
         /\ effect[worker[w].id] \in Effect /\ RowOK(effect[worker[w].id])
         /\ open[worker[w].id] \in Int
<1>1. ClaimOK(w) /\ worker[w] \in Worker
  BY DEF OutboxInv, OutboxTypeOK
<1>2. worker[w].id \in Ids /\ host = "up" /\ worker[w].attempt \in Nat
  BY <1>1 DEF ClaimOK, Worker
<1> QED BY <1>1, <1>2, Rows DEF OutboxInv, OutboxTypeOK

LEMMA BeginInv ==
  ASSUME OutboxInv, NEW w \in Workers, Begin(w)
  PROVE  OutboxInv'
<1> DEFINE e == worker[w].id
<1>1. CASE Leave(w) /\ UNCHANGED <<effect, open>>
  BY <1>1, LeaveInv DEF Begin, OutboxInv, OutboxTypeOK
<1>2. CASE /\ Holds(effect[e], w) /\ ~effect[e].started
           /\ effect' = [effect EXCEPT ![e].started = TRUE]
           /\ open' = Count(e, 1)
           /\ worker' = [worker EXCEPT ![w].pc = "executing"]
  <2>1. /\ worker[w].pc = "claimed" /\ UNCHANGED <<host, used>>
        /\ effect \in [Ids -> Effect] /\ worker \in [Workers -> Worker]
        /\ open \in [Ids -> Int] /\ DispatchOK(effect, open)
    BY DEF Begin, OutboxInv, OutboxTypeOK
  <2>2. /\ e \in Ids /\ host = "up" /\ worker[w] \in Worker /\ ClaimOK(w)
        /\ effect[e] \in Effect /\ RowOK(effect[e]) /\ open[e] \in Int
    BY <2>1, InStep
  <2> DEFINE r == effect[e]
             s == [r EXCEPT !.started = TRUE]
             v == [worker[w] EXCEPT !.pc = "executing"]
  <2>3. /\ effect' = [effect EXCEPT ![e] = s] /\ worker' = [worker EXCEPT ![w] = v]
    BY <1>2
  <2>4. /\ v \in Worker /\ v.pc = "executing" /\ v.id = e
        /\ v.attempt = worker[w].attempt /\ v.lapsed = worker[w].lapsed
    BY <2>2 DEF Worker
  <2> HIDE DEF e, v
  <2>5. /\ s \in Effect /\ s.st = r.st /\ s.owner = r.owner /\ s.attempt = r.attempt
        /\ s.kind = r.kind /\ s.thread = r.thread /\ s.lapsed = r.lapsed
        /\ s.started
    BY <2>2 DEF Effect
  <2> HIDE DEF r, s
  <2>6. /\ effect' \in [Ids -> Effect] /\ effect'[e] = s
        /\ \A f \in Ids : f # e => effect'[f] = effect[f]
        /\ worker' \in [Workers -> Worker] /\ worker'[w] = v
        /\ \A u \in Workers : u # w => worker'[u] = worker[u]
    BY <2>1, <2>2, <2>3, <2>4, <2>5
  <2>7. /\ open' \in [Ids -> Int]
        /\ \A f \in Ids : f # e => open'[f] = open[f]
        /\ open'[e] = IF ProcessBound(r.kind) THEN open[e] + 1 ELSE open[e]
    BY <1>2, <2>1, <2>2 DEF Count, r
  <2>8. open[e] <= 0
    <3>1. open[e] # 1
      BY <1>2, <2>1, <2>2 DEF DispatchOK, Holds, Terminal
    <3> QED BY <2>1, <2>2, <3>1 DEF DispatchOK
  <2>9. r.st = "running" /\ r.owner = w /\ r.attempt = worker[w].attempt
    BY <1>2 DEF Holds, r, e
  <2>10. \A f \in Ids : Quiet(effect[f], effect'[f])
    <3>1. Quiet(r, s)
      BY <2>2, <2>5 DEF Quiet, RowOK, r
    <3>2. \A f \in Ids : Quiet(effect[f], effect[f])
      BY Rows, QuietSelf
    <3> QED BY <2>6, <3>1, <3>2 DEF r
  <2>11. TableOK(effect')
    BY <2>10, QuietTable DEF OutboxInv
  <2>12. DispatchOK(effect', open')
    BY <2>1, <2>2, <2>5, <2>6, <2>7, <2>8, <2>9 DEF DispatchOK
  <2>13. OutboxTypeOK'
    BY <2>1, <2>6, <2>7, <2>11 DEF OutboxInv, OutboxTypeOK, TableOK, RowOK
  <2>14. ClaimOK(w)'
    BY <2>1, <2>2, <2>4, <2>5, <2>6, <2>9 DEF ClaimOK, Holds, r, e
  <2>15. \A u \in Workers, f \in Ids, n \in Nat :
           u # w => /\ Calm(effect[f], effect'[f], u, n)
                    /\ Mine(effect[f], u, n) /\ open[f] <= 0 => open'[f] <= 0
    BY <2>5, <2>6, <2>7, <2>9 DEF Calm, Mine, r
  <2>16. \A u \in Workers : ClaimOK(u)'
    BY <2>1, <2>6, <2>14, <2>15, OthersKept
  <2> QED BY <2>11, <2>12, <2>13, <2>16 DEF OutboxInv
<1> QED BY <1>1, <1>2 DEF Begin

LEMMA ExecEndsInv ==
  ASSUME OutboxInv, NEW w \in Workers, ExecEnds(w)
  PROVE  OutboxInv'
<1> DEFINE e == worker[w].id
<1>1. PICK o \in Outcomes :
        /\ worker' = [worker EXCEPT
                        ![w].pc      = IF worker[w].lapsed THEN "lost" ELSE "ended",
                        ![w].outcome = IF worker[w].lapsed THEN @ ELSE o]
        /\ open' = IF o = "retry" THEN Count(e, -1) ELSE open
  BY DEF ExecEnds
<1>2. /\ worker[w].pc = "executing" /\ UNCHANGED <<effect, host, used>>
      /\ worker \in [Workers -> Worker] /\ open \in [Ids -> Int]
      /\ DispatchOK(effect, open)
  BY DEF ExecEnds, OutboxInv, OutboxTypeOK
<1>3. e \in Ids /\ worker[w] \in Worker /\ ClaimOK(w) /\ open[e] \in Int
  BY <1>2, InStep
<1> DEFINE x == IF worker[w].lapsed THEN worker[w].outcome ELSE o
           v == [worker[w] EXCEPT !.pc = IF worker[w].lapsed THEN "lost" ELSE "ended",
                                  !.outcome = x]
<1>4. worker' = [worker EXCEPT ![w] = v]
  BY <1>1, <1>2 DEF Worker
<1>5. x \in Outcomes
  BY <1>3 DEF Worker
<1>6. /\ v \in Worker /\ v.pc = (IF worker[w].lapsed THEN "lost" ELSE "ended")
      /\ v.id = e /\ v.attempt = worker[w].attempt /\ v.lapsed = worker[w].lapsed
      /\ v.outcome = x
  <2> HIDE DEF x
  <2> QED BY <1>3, <1>5 DEF Worker
<1> HIDE DEF e, v
<1>7. /\ worker' \in [Workers -> Worker] /\ worker'[w] = v
      /\ \A u \in Workers : u # w => worker'[u] = worker[u]
  BY <1>2, <1>4, <1>6
<1>8. /\ open' \in [Ids -> Int]
      /\ \A f \in Ids : open'[f] <= open[f]
      /\ o = "retry" /\ ProcessBound(effect[e].kind) => open'[e] = open[e] - 1
  BY <1>1, <1>2, <1>3 DEF Count
<1>9. DispatchOK(effect', open')
  <2>1. \A f \in Ids : open[f] \in Int /\ open'[f] \in Int
    BY <1>2, <1>8
  <2>2. \A f \in Ids : open'[f] <= 1 /\ (open'[f] = 1 => open[f] = 1)
    BY <1>2, <1>8, <2>1 DEF DispatchOK
  <2> QED BY <1>2, <2>2 DEF DispatchOK
<1>10. o = "retry" => open'[e] <= 0
  <2>1. open'[e] \in Int /\ open[e] <= 1 /\ open'[e] <= open[e]
    BY <1>2, <1>3, <1>8 DEF DispatchOK
  <2>2. ~ProcessBound(effect[e].kind) => open[e] # 1
    BY <1>2, <1>3 DEF DispatchOK
  <2> QED BY <1>3, <1>8, <2>1, <2>2
<1>11. ClaimOK(w)'
  BY <1>2, <1>3, <1>6, <1>7, <1>10 DEF ClaimOK, Holds, e
<1>12. \A u \in Workers, f \in Ids, n \in Nat :
         u # w => /\ Calm(effect[f], effect'[f], u, n)
                  /\ Mine(effect[f], u, n) /\ open[f] <= 0 => open'[f] <= 0
  BY <1>2, <1>8 DEF Calm
<1>13. \A u \in Workers : ClaimOK(u)'
  BY <1>2, <1>7, <1>11, <1>12, OthersKept
<1>14. OutboxTypeOK'
  BY <1>2, <1>7, <1>8 DEF OutboxInv, OutboxTypeOK
<1>15. TableOK(effect')
  BY <1>2 DEF OutboxInv
<1> QED BY <1>9, <1>13, <1>14, <1>15 DEF OutboxInv

-----------------------------------------------------------------------------
(* The end of a claim *)

\* A worker gives the claim that it holds away and leaves.
LEMMA ReleaseInv ==
  ASSUME OutboxInv, NEW w \in Workers, worker[w].pc # "idle",
         UNCHANGED <<host, open, used>>, Leave(w),
         Holds(effect[worker[w].id], w), NEW s,
         effect' = [effect EXCEPT ![worker[w].id] = s],
         Quiet(effect[worker[w].id], s), s.st # "running",
         open[worker[w].id] = 1 => Shut(s)
  PROVE  OutboxInv'
<1> DEFINE e == worker[w].id
<1>1. /\ effect \in [Ids -> Effect] /\ worker \in [Workers -> Worker]
      /\ DispatchOK(effect, open)
  BY DEF OutboxInv, OutboxTypeOK
<1>2. e \in Ids /\ s \in Effect
  BY InStep DEF Quiet
<1>3. effect[e].st = "running" /\ effect[e].owner = w
  BY DEF Holds
<1>4. worker' = [worker EXCEPT ![w] = Idle]
  BY DEF Leave
<1> HIDE DEF e
<1>5. /\ effect' \in [Ids -> Effect] /\ effect'[e] = s
      /\ \A f \in Ids : f # e => effect'[f] = effect[f]
      /\ worker' \in [Workers -> Worker] /\ worker'[w] = Idle
      /\ \A u \in Workers : u # w => worker'[u] = worker[u]
  BY <1>1, <1>2, <1>4, IdleWorker DEF e
<1>6. \A f \in Ids : Quiet(effect[f], effect'[f])
  BY <1>5, Rows, QuietSelf DEF e
<1>7. TableOK(effect')
  BY <1>6, QuietTable DEF OutboxInv
<1>8. DispatchOK(effect', open')
  <2>1. s.kind = effect[e].kind
    BY DEF Quiet, e
  <2>2. open[e] = 1 => Shut(s)
    BY DEF e
  <2> QED BY <1>1, <1>5, <2>1, <2>2 DEF DispatchOK, Shut
<1>9. OutboxTypeOK'
  BY <1>5, <1>7 DEF OutboxInv, OutboxTypeOK, TableOK, RowOK
<1>10. ClaimOK(w)'
  BY <1>5, IdleWorker DEF ClaimOK
<1>11. \A u \in Workers, f \in Ids, n \in Nat :
         u # w => /\ Calm(effect[f], effect'[f], u, n)
                  /\ Mine(effect[f], u, n) /\ open[f] <= 0 => open'[f] <= 0
  <2>1. \A u \in Workers, n \in Nat : u # w => Calm(effect[e], s, u, n)
    BY <1>3 DEF Calm, Mine, e
  <2> QED BY <1>5, <2>1 DEF Calm
<1>12. \A u \in Workers : ClaimOK(u)'
  BY <1>5, <1>10, <1>11, OthersKept
<1> QED BY <1>7, <1>8, <1>9, <1>12 DEF OutboxInv

\* What a running row can be turned into.
LEMMA RunningSettles ==
  ASSUME NEW r \in Effect, RowOK(r), r.st = "running",
         NEW s \in {"pending"} \union Terminal \union {"uncertain"}, NEW b \in BOOLEAN
  PROVE  /\ Quiet(r, Settle(r, s)) /\ Settle(r, s).st = s
         /\ Quiet(r, [Settle(r, s) EXCEPT !.ready = b])
         /\ [Settle(r, s) EXCEPT !.ready = b].st = s
<1> DEFINE u == Settle(r, s)
<1>1. s \in Status
  BY DEF Status, Active
<1>2. Quiet(r, u)
  BY QuietSettle DEF Active, Terminal
<1>3. u \in Effect /\ u.st = s
  BY <1>1, SettleFields
<1> HIDE DEF u
<1>4. Quiet(r, [u EXCEPT !.ready = b])
  BY <1>2, QuietFlags
<1>5. [u EXCEPT !.ready = b].st = s
  BY <1>3 DEF Effect
<1> QED BY <1>2, <1>3, <1>4, <1>5 DEF u

LEMMA FinishInv ==
  ASSUME OutboxInv, NEW w \in Workers, Finish(w)
  PROVE  OutboxInv'
<1> DEFINE e == worker[w].id
           r == effect[e]
           o == worker[w].outcome
<1>1. /\ worker[w].pc = "ended" /\ UNCHANGED <<host, open, used>>
      /\ worker \in [Workers -> Worker]
  BY DEF Finish, OutboxInv, OutboxTypeOK
<1>2. /\ worker[w] \in Worker /\ ClaimOK(w) /\ r \in Effect /\ RowOK(r)
      /\ open[e] \in Int
  BY <1>1, InStep
<1>3. CASE /\ Holds(r, w)
           /\ effect' = [effect EXCEPT ![e] = Finished(r, o)]
           /\ Leave(w)
  <2>1. r.st = "running" /\ (o = "retry" => open[e] <= 0)
    BY <1>1, <1>2, <1>3 DEF ClaimOK, Holds
  <2> HIDE DEF r, o
  <2>2. CASE Proven(r) \/ o = "succeeded"
    <3>1. Finished(r, o) = Settle(r, "succeeded")
      BY <2>2 DEF Finished
    <3>2. Quiet(r, Finished(r, o)) /\ Finished(r, o).st = "succeeded"
      BY <1>2, <2>1, <3>1, RunningSettles DEF Terminal
    <3> QED BY <1>1, <1>3, <3>2, ReleaseInv DEF Shut, Terminal, r
  <2>3. CASE ~Proven(r) /\ o = "uncertain"
    <3>1. Finished(r, o) = Settle(r, "uncertain")
      BY <2>3 DEF Finished
    <3>2. Quiet(r, Finished(r, o)) /\ Finished(r, o).st = "uncertain"
      BY <1>2, <2>1, <3>1, RunningSettles DEF Terminal
    <3> QED BY <1>1, <1>3, <3>2, ReleaseInv DEF Shut, Terminal, r
  <2>4. CASE ~Proven(r) /\ o = "retry" /\ r.attempt < MaxAttempts
    <3>1. Finished(r, o) = [Settle(r, "pending") EXCEPT !.ready = FALSE]
      BY <2>4 DEF Finished
    <3>2. Quiet(r, Finished(r, o)) /\ Finished(r, o).st = "pending"
      BY <1>2, <2>1, <3>1, RunningSettles DEF Terminal
    <3>3. open[e] # 1
      BY <1>2, <2>1, <2>4
    <3> QED BY <1>1, <1>3, <3>2, <3>3, ReleaseInv DEF r
  <2>5. CASE /\ ~Proven(r) /\ o # "succeeded" /\ o # "uncertain"
             /\ ~(o = "retry" /\ r.attempt < MaxAttempts)
    <3>1. Finished(r, o) = Settle(r, "failed")
      BY <2>5 DEF Finished
    <3>2. Quiet(r, Finished(r, o)) /\ Finished(r, o).st = "failed"
      BY <1>2, <2>1, <3>1, RunningSettles DEF Terminal
    <3> QED BY <1>1, <1>3, <3>2, ReleaseInv DEF Shut, Terminal, r
  <2> QED BY <2>2, <2>3, <2>4, <2>5
<1>4. CASE /\ worker' = [worker EXCEPT ![w].pc = "lost", ![w].outcome = "failed"]
           /\ UNCHANGED effect
  <2> DEFINE v == [worker[w] EXCEPT !.pc = "lost", !.outcome = "failed"]
  <2>1. worker' = [worker EXCEPT ![w] = v]
    BY <1>1, <1>4 DEF Worker
  <2>2. /\ v \in Worker /\ v.pc = "lost" /\ v.id = e
        /\ v.attempt = worker[w].attempt /\ v.lapsed = worker[w].lapsed
    BY <1>2 DEF Worker, Outcomes
  <2> HIDE DEF v
  <2>3. worker'[w] = v
    BY <1>1, <2>1
  <2>4. ClaimOK(w)'
    BY <1>1, <1>2, <1>4, <2>2, <2>3 DEF ClaimOK, Holds
  <2>5. used' \in [{"lapses", "errors", "crashes"} -> Nat]
    BY <1>1 DEF OutboxInv, OutboxTypeOK
  <2> QED BY <1>1, <1>4, <2>1, <2>2, <2>4, <2>5, WorkerOnly
<1> QED BY <1>3, <1>4 DEF Finish

LEMMA AbandonInv ==
  ASSUME OutboxInv, NEW w \in Workers, Abandon(w)
  PROVE  OutboxInv'
<1> DEFINE e == worker[w].id
           r == effect[e]
<1>1. worker[w].pc = "abandoning" /\ UNCHANGED <<host, open, used>> /\ Leave(w)
  BY DEF Abandon
<1>2. /\ r \in Effect /\ RowOK(r) /\ e \in Ids /\ DispatchOK(effect, open)
  BY <1>1, InStep DEF OutboxInv
<1>3. CASE Holds(r, w) /\ effect' = [effect EXCEPT ![e] = Abandoned(r)]
  <2>1. r.st = "running"
    BY <1>3 DEF Holds
  <2>2. open[e] = 1 => ProcessBound(r.kind)
    BY <1>2 DEF DispatchOK
  <2> HIDE DEF r
  <2>3. CASE Proven(r)
    <3>1. Quiet(r, Abandoned(r)) /\ Abandoned(r).st = "succeeded"
      BY <1>2, <2>1, <2>3, RunningSettles DEF Terminal, Abandoned
    <3> QED BY <1>1, <1>3, <3>1, ReleaseInv DEF Shut, Terminal, r
  <2>4. CASE ~Proven(r) /\ ProcessBound(r.kind)
    <3>1. Abandoned(r) = [Settle(r, "uncertain") EXCEPT !.ready = TRUE]
      BY <2>4 DEF Abandoned
    <3>2. Quiet(r, Abandoned(r)) /\ Abandoned(r).st = "uncertain"
      BY <1>2, <2>1, <3>1, RunningSettles
    <3> QED BY <1>1, <1>3, <3>2, ReleaseInv DEF Shut, Terminal, r
  <2>5. CASE ~Proven(r) /\ ~ProcessBound(r.kind)
    <3>1. Abandoned(r) = [Settle(r, "pending") EXCEPT !.ready = TRUE]
      BY <2>5 DEF Abandoned
    <3>2. Quiet(r, Abandoned(r)) /\ Abandoned(r).st = "pending"
      BY <1>2, <2>1, <3>1, RunningSettles
    <3> QED BY <1>1, <1>3, <2>2, <2>5, <3>2, ReleaseInv DEF r
  <2> QED BY <2>3, <2>4, <2>5
<1>4. CASE effect' = effect
  BY <1>1, <1>4, LeaveInv DEF OutboxInv, OutboxTypeOK
<1> QED BY <1>3, <1>4 DEF Abandon

-----------------------------------------------------------------------------
(* The clock *)

LEMMA LapseInv ==
  ASSUME OutboxInv, NEW e \in Ids, Lapse(e),
         used' \in [{"lapses", "errors", "crashes"} -> Nat]
  PROVE  OutboxInv'
<1> DEFINE r == effect[e]
           s == [r EXCEPT !.lapsed = TRUE]
<1>1. /\ r.st = "running" /\ UNCHANGED <<host, open>>
      /\ effect' = [effect EXCEPT ![e] = s]
      /\ worker' = [w \in Workers |->
                      IF Holds(r, w) /\ worker[w].id = e
                        THEN [worker[w] EXCEPT !.lapsed = TRUE] ELSE worker[w]]
  BY DEF Lapse
<1>2. /\ effect \in [Ids -> Effect] /\ worker \in [Workers -> Worker]
      /\ r \in Effect /\ RowOK(r)
  BY Rows DEF OutboxInv, OutboxTypeOK
<1>3. /\ s \in Effect /\ s.st = "running" /\ s.owner = r.owner
      /\ s.attempt = r.attempt /\ s.kind = r.kind /\ s.thread = r.thread
      /\ s.started = r.started
  BY <1>1, <1>2 DEF Effect
<1> HIDE DEF s
<1>4. /\ effect' \in [Ids -> Effect] /\ effect'[e] = s
      /\ \A f \in Ids : f # e => effect'[f] = effect[f]
  BY <1>1, <1>2, <1>3
<1>5. \A f \in Ids : Quiet(effect[f], effect'[f]) /\ Keeps(effect[f], effect'[f])
  <2>1. Quiet(r, s) /\ Keeps(r, s)
    BY <1>1, <1>2, <1>3 DEF Quiet, RowOK, Keeps, Shut
  <2>2. \A f \in Ids : Quiet(effect[f], effect[f]) /\ Keeps(effect[f], effect[f])
    BY Rows, QuietSelf DEF Keeps
  <2> QED BY <1>4, <2>1, <2>2
<1>6. TableOK(effect') /\ DispatchOK(effect', open')
  BY <1>1, <1>4, <1>5, QuietStep
<1>7. \A w \in Workers : /\ worker'[w] \in Worker
                         /\ worker'[w].pc = worker[w].pc
                         /\ worker'[w].id = worker[w].id
                         /\ worker'[w].attempt = worker[w].attempt
                         /\ worker'[w].outcome = worker[w].outcome
                         /\ worker[w].lapsed => worker'[w].lapsed
                         /\ Holds(r, w) /\ worker[w].id = e => worker'[w].lapsed
                         /\ ~(Holds(r, w) /\ worker[w].id = e) => worker'[w] = worker[w]
  <2>1. SUFFICES ASSUME NEW w \in Workers
                 PROVE  /\ worker'[w] \in Worker
                        /\ worker'[w].pc = worker[w].pc
                        /\ worker'[w].id = worker[w].id
                        /\ worker'[w].attempt = worker[w].attempt
                        /\ worker'[w].outcome = worker[w].outcome
                        /\ worker[w].lapsed => worker'[w].lapsed
                        /\ Holds(r, w) /\ worker[w].id = e => worker'[w].lapsed
                        /\ ~(Holds(r, w) /\ worker[w].id = e) => worker'[w] = worker[w]
    OBVIOUS
  <2>2. CASE Holds(r, w) /\ worker[w].id = e
    <3>1. worker'[w] = [worker[w] EXCEPT !.lapsed = TRUE]
      BY <1>1, <2>2
    <3> DEFINE v == [worker[w] EXCEPT !.lapsed = TRUE]
    <3>2. worker[w] \in Worker
      BY <1>2
    <3>3. /\ v \in Worker /\ v.pc = worker[w].pc /\ v.id = worker[w].id
          /\ v.attempt = worker[w].attempt /\ v.outcome = worker[w].outcome /\ v.lapsed
      BY <3>2 DEF Worker
    <3> HIDE DEF v
    <3>4. worker'[w] = v
      BY <3>1 DEF v
    <3> QED BY <2>2, <3>3, <3>4
  <2>3. CASE ~(Holds(r, w) /\ worker[w].id = e)
    <3>1. worker'[w] = worker[w]
      BY <1>1, <2>3
    <3> QED BY <1>2, <2>3, <3>1
  <2> QED BY <2>2, <2>3
<1>8. worker' \in [Workers -> Worker]
  BY <1>1, <1>7
<1>9. OutboxTypeOK'
  BY <1>1, <1>4, <1>6, <1>8 DEF OutboxInv, OutboxTypeOK, TableOK, RowOK
<1>10. ASSUME NEW w \in Workers
       PROVE  ClaimOK(w)'
  <2>1. ClaimOK(w)
    BY DEF OutboxInv
  <2>2. CASE worker[w].id = e
    BY <1>1, <1>3, <1>4, <1>7, <2>1, <2>2 DEF ClaimOK, Holds
  <2>3. CASE worker[w].id # e
    BY <1>1, <1>4, <1>7, <2>1, <2>3 DEF ClaimOK, Holds
  <2> QED BY <2>2, <2>3
<1> QED BY <1>6, <1>9, <1>10 DEF OutboxInv

LEMMA OrphanLapsesInv ==
  ASSUME OutboxInv, NEW e \in Ids, OrphanLapses(e)
  PROVE  OutboxInv'
  BY LapseInv DEF OrphanLapses, OutboxInv, OutboxTypeOK

LEMMA LeaseLapsesInv ==
  ASSUME OutboxInv, NEW e \in Ids, LeaseLapses(e)
  PROVE  OutboxInv'
  BY LapseInv, SpendType DEF LeaseLapses, OutboxInv

-----------------------------------------------------------------------------
(* Restart *)

LEMMA CrashInv ==
  ASSUME OutboxInv, Crash
  PROVE  OutboxInv'
<1>1. used' \in [{"lapses", "errors", "crashes"} -> Nat]
  BY SpendType DEF Crash, OutboxInv
<1>2. worker' \in [Workers -> Worker] /\ \A w \in Workers : worker'[w].pc = "idle"
  BY IdleWorker DEF Crash
<1>3. OutboxTypeOK'
  BY <1>1, <1>2 DEF Crash, OutboxInv, OutboxTypeOK
<1>4. \A w \in Workers : ClaimOK(w)'
  BY <1>2 DEF ClaimOK
<1>5. TableOK(effect') /\ DispatchOK(effect', open')
  BY DEF Crash, OutboxInv
<1> QED BY <1>3, <1>4, <1>5 DEF OutboxInv

\* Before the host is up nobody works, and the rows need only be kept in order.
LEMMA DownStep ==
  ASSUME OutboxInv, host # "up", host' \in {"down", "resolving", "up"},
         UNCHANGED <<worker, open, used>>, effect' \in [Ids -> Effect],
         \A e \in Ids : Quiet(effect[e], effect'[e]) /\ Keeps(effect[e], effect'[e])
  PROVE  OutboxInv'
<1>1. TableOK(effect') /\ DispatchOK(effect', open')
  BY QuietStep
<1>2. OutboxTypeOK'
  BY <1>1 DEF OutboxInv, OutboxTypeOK, TableOK, RowOK
<1>3. \A w \in Workers : worker[w].pc = "idle"
  BY DEF OutboxInv, ClaimOK
<1>4. \A w \in Workers : ClaimOK(w)'
  BY <1>3 DEF ClaimOK
<1> QED BY <1>1, <1>2, <1>4 DEF OutboxInv

\* Each update of Kernel::recover is quiet and keeps an open dispatch shut.
LEMMA SettleKeeps ==
  ASSUME NEW r \in Effect, RowOK(r), r.st \notin Terminal \union {"none"},
         NEW s \in {"pending"} \union Terminal \union {"uncertain"},
         s = "uncertain" => r.st \in Active,
         s = "pending" => ~ProcessBound(r.kind)
  PROVE  Quiet(r, Settle(r, s)) /\ Keeps(r, Settle(r, s))
<1>1. s \in Status
  BY DEF Status, Active
<1> QED BY <1>1, QuietSettle, SettleFields DEF Keeps, Shut

LEMMA KeepsTrans ==
  ASSUME NEW r, NEW s, NEW u, Keeps(r, s), Keeps(s, u)
  PROVE  Keeps(r, u)
  BY DEF Keeps

LEMMA RecoveredKeeps ==
  ASSUME NEW r \in Effect, RowOK(r)
  PROVE  Quiet(r, Recovered(r)) /\ Keeps(r, Recovered(r))
<1> DEFINE Good(a, b) == Quiet(a, b) /\ Keeps(a, b)
<1>1. ASSUME NEW q \in Effect, RowOK(q)
      PROVE  Good(q, q)
  BY <1>1, QuietSelf DEF Keeps
<1>2. ASSUME NEW q \in Effect, RowOK(q)
      PROVE  Good(q, Honour(q))
  BY <1>1, <1>2, SettleKeeps DEF Honour, Active, Terminal
<1>3. ASSUME NEW q \in Effect, RowOK(q)
      PROVE  Good(q, Doubt(q))
  BY <1>1, <1>3, SettleKeeps DEF Doubt, Active, Terminal
<1>4. ASSUME NEW q \in Effect, RowOK(q)
      PROVE  Good(q, Retire(q))
  BY <1>1, <1>4, SettleKeeps DEF Retire, Active, Terminal
<1>5. ASSUME NEW q \in Effect, RowOK(q)
      PROVE  Good(q, Retain(q))
  BY <1>1, <1>5, SettleKeeps DEF Retain, Active, Terminal
<1>6. ASSUME NEW q \in Effect, RowOK(q)
      PROVE  Good(q, Requeue(q))
  <2>1. CASE q.st = "running" /\ ~ProcessBound(q.kind)
    <3> DEFINE s == Settle(q, "pending")
               u == [s EXCEPT !.ready = TRUE, !.started = FALSE]
    <3>1. Good(q, s) /\ s \in Effect
      BY <1>6, <2>1, SettleKeeps DEF Active, Terminal, Quiet
    <3>2. Requeue(q) = u
      BY <2>1 DEF Requeue
    <3> HIDE DEF s
    <3>3. /\ u \in Effect /\ u.st = s.st /\ u.owner = s.owner /\ u.lapsed = s.lapsed
          /\ u.kind = s.kind /\ u.thread = s.thread /\ u.attempt = s.attempt
      BY <3>1 DEF Effect
    <3> HIDE DEF u
    <3>4. Quiet(q, u)
      BY <3>1, <3>3 DEF Quiet, RowOK
    <3>5. Keeps(q, u)
      BY <2>1 DEF Keeps
    <3> QED BY <3>2, <3>4, <3>5
  <2>2. CASE ~(q.st = "running" /\ ~ProcessBound(q.kind))
    BY <1>1, <1>6, <2>2 DEF Requeue
  <2> QED BY <2>1, <2>2
<1>7. ASSUME NEW q, NEW b, Good(q, b)
      PROVE  b \in Effect /\ RowOK(b)
  BY <1>7 DEF Quiet
<1>8. ASSUME NEW q, NEW b, NEW c, Good(q, b), Good(b, c)
      PROVE  Good(q, c)
  BY <1>8, QuietTrans, KeepsTrans
<1> DEFINE r1 == Honour(r)
           r2 == Doubt(r1)
           r3 == Retire(r2)
           r4 == Retain(r3)
           r5 == Requeue(r4)
           r6 == [r5 EXCEPT !.admitted = FALSE]
<1>9. Recovered(r) = r6
  BY DEF Recovered
<1> HIDE DEF Good
<1>10. Good(r, r1) /\ r1 \in Effect /\ RowOK(r1)
  BY <1>2, <1>7
<1> HIDE DEF r1
<1>11. Good(r, r2) /\ r2 \in Effect /\ RowOK(r2)
  BY <1>3, <1>7, <1>8, <1>10
<1> HIDE DEF r2
<1>12. Good(r, r3) /\ r3 \in Effect /\ RowOK(r3)
  BY <1>4, <1>7, <1>8, <1>11
<1> HIDE DEF r3
<1>13. Good(r, r4) /\ r4 \in Effect /\ RowOK(r4)
  BY <1>5, <1>7, <1>8, <1>12
<1> HIDE DEF r4
<1>14. Good(r, r5) /\ r5 \in Effect /\ RowOK(r5)
  BY <1>6, <1>7, <1>8, <1>13
<1> HIDE DEF r5
<1>15. Quiet(r, r6)
  BY <1>14, QuietFlags DEF Good
<1>16. r6.st = r5.st /\ r6.kind = r5.kind /\ r6.started = r5.started
  BY <1>14 DEF Effect
<1> HIDE DEF r6
<1>17. Keeps(r, r6)
  BY <1>14, <1>16 DEF Good, Keeps, Shut
<1> QED BY <1>9, <1>15, <1>17

LEMMA RecoverInv ==
  ASSUME OutboxInv, Recover
  PROVE  OutboxInv'
<1>1. effect' = [e \in Ids |-> Recovered(effect[e])]
  BY DEF Recover
<1>2. \A e \in Ids : Quiet(effect[e], effect'[e]) /\ Keeps(effect[e], effect'[e])
  BY <1>1, Rows, RecoveredKeeps
<1>3. \A e \in Ids : effect'[e] \in Effect
  BY <1>2 DEF Quiet
<1>4. effect' \in [Ids -> Effect]
  BY <1>1, <1>3
<1> QED BY <1>2, <1>4, DownStep DEF Recover

LEMMA ResolveInv ==
  ASSUME OutboxInv, NEW e \in Ids, Resolve(e)
  PROVE  OutboxInv'
<1> DEFINE s == Settle(effect[e], "cancelled")
<1>1. effect' = [effect EXCEPT ![e] = s] /\ effect \in [Ids -> Effect]
  BY DEF Resolve, OutboxInv, OutboxTypeOK
<1>2. Quiet(effect[e], s) /\ Keeps(effect[e], s)
  BY Rows, SettleKeeps DEF Resolve, Disposable, Terminal
<1>3. \A f \in Ids : Quiet(effect[f], effect[f]) /\ Keeps(effect[f], effect[f])
  BY Rows, QuietSelf DEF Keeps
<1> HIDE DEF s
<1>4. effect' \in [Ids -> Effect]
  BY <1>1, <1>2 DEF Quiet
<1>5. \A f \in Ids : Quiet(effect[f], effect'[f]) /\ Keeps(effect[f], effect'[f])
  BY <1>1, <1>2, <1>3
<1>6. host # "up" /\ host' \in {"down", "resolving", "up"}
  BY DEF Resolve
<1> QED BY <1>4, <1>5, <1>6, DownStep DEF Resolve

LEMMA StartWorkersInv ==
  ASSUME OutboxInv, StartWorkers
  PROVE  OutboxInv'
<1>1. \A f \in Ids : Quiet(effect[f], effect'[f]) /\ Keeps(effect[f], effect'[f])
  BY Rows, QuietSelf DEF Keeps, StartWorkers
<1>2. effect' \in [Ids -> Effect]
  BY DEF StartWorkers, OutboxInv, OutboxTypeOK
<1> QED BY <1>1, <1>2, DownStep DEF StartWorkers

-----------------------------------------------------------------------------
(* The invariant *)

LEMMA InitInv == Init => OutboxInv
<1>1. SUFFICES ASSUME Init PROVE OutboxInv
  OBVIOUS
<1>2. NoEffect \in Effect /\ NoEffect.st = "none" /\ NoEffect.attempt = 0
      /\ NoEffect.owner = NoWorker /\ ~NoEffect.lapsed
  BY DEF NoEffect, Effect, Status
<1>3. \A e \in Ids : effect[e] = NoEffect /\ open[e] = 0
  BY <1>1 DEF Init
<1>4. \A w \in Workers : worker[w] = Idle
  BY <1>1 DEF Init
<1>5. OutboxTypeOK
  BY <1>1, <1>2, <1>3, IdleWorker DEF Init, OutboxTypeOK
<1>6. TableOK(effect)
  BY <1>2, <1>3 DEF TableOK, RowOK, Active
<1>7. DispatchOK(effect, open)
  BY <1>3 DEF DispatchOK
<1>8. \A w \in Workers : ClaimOK(w)
  BY <1>4, IdleWorker DEF ClaimOK
<1> QED BY <1>5, <1>6, <1>7, <1>8 DEF OutboxInv

LEMMA NextInv == OutboxInv /\ [Next]_vars => OutboxInv'
<1>1. SUFFICES ASSUME OutboxInv, [Next]_vars PROVE OutboxInv'
  OBVIOUS
<1>2. ASSUME NEW t \in Threads, RetireWork(t) PROVE OutboxInv'
  BY <1>1, <1>2, RetireWorkInv
<1>3. ASSUME NEW t \in Threads, NEW k \in Kinds, Enqueue(t, k) PROVE OutboxInv'
  BY <1>1, <1>3, EnqueueInv
<1>4. ASSUME NEW e \in Ids, Confirm(e) PROVE OutboxInv'
  BY <1>1, <1>4, ConfirmInv
<1>5. ASSUME NEW w \in Workers, WorkerStep(w) \/ StoreFails(w) PROVE OutboxInv'
  BY <1>1, <1>5, ClaimInv, ClaimNoneInv, BeginInv, ExecEndsInv, TimesOutInv,
     CancelledInv, FinishInv, LostInv, AbandonInv, StoreFailsInv DEF WorkerStep
<1>6. ASSUME NEW e \in Ids, TimeStep(e) \/ LeaseLapses(e) PROVE OutboxInv'
  BY <1>1, <1>6, OrphanLapsesInv, RetryDueInv, LeaseLapsesInv DEF TimeStep
<1>7. CASE Crash
  BY <1>1, <1>7, CrashInv
<1>8. CASE HostStep
  BY <1>1, <1>8, RecoverInv, ResolveInv, StartWorkersInv DEF HostStep
<1>9. CASE UNCHANGED vars
  <2>1. UNCHANGED <<effect, worker, host, open, used>>
    BY <1>9 DEF vars
  <2> QED BY <1>1, <2>1 DEF OutboxInv, OutboxTypeOK, TableOK, DispatchOK, ClaimOK, Holds
<1> QED BY <1>1, <1>2, <1>3, <1>4, <1>5, <1>6, <1>7, <1>8, <1>9 DEF Next, OwnerStep

LEMMA InvImplies ==
  OutboxInv => OutboxTypeOK /\ LaneExclusive /\ Fifo /\ NoBlindReplay /\ LiveClaim
<1>1. SUFFICES ASSUME OutboxInv
               PROVE  OutboxTypeOK /\ LaneExclusive /\ Fifo /\ NoBlindReplay /\ LiveClaim
  OBVIOUS
<1>2. OutboxTypeOK
  BY <1>1 DEF OutboxInv
<1>3. LaneExclusive /\ Fifo
  BY <1>1 DEF OutboxInv, TableOK, LaneExclusive, Fifo
<1>4. NoBlindReplay
  BY <1>1 DEF OutboxInv, DispatchOK, NoBlindReplay
<1>5. LiveClaim
  BY <1>1 DEF OutboxInv, ClaimOK, Holds, LiveClaim
<1> QED BY <1>2, <1>3, <1>4, <1>5

LEMMA OutboxInvariant == Spec => []OutboxInv
  BY InitInv, NextInv, PTL DEF Spec

\* The outbox, its workers and its history always have their types, and a row
\* has a lease owner exactly while it is running (the updates of effects.rs that settle one).
THEOREM OutboxTypeCorrect == Spec => []OutboxTypeOK
  BY OutboxInvariant, InvImplies, PTL

\* The barriers of NEXT_PENDING_EFFECT keep every lane of every thread to one
\* effect that is running or in doubt, for any number of workers and effects,
\* through lapsed leases, cancellations, store errors and restarts.
THEOREM LanesExclusive == Spec => []LaneExclusive
  BY OutboxInvariant, InvImplies, PTL

\* Claims follow the order in which the effects of a lane were enqueued: once
\* one is claimed all the earlier ones are over for good, retries included.
THEOREM LanesFifo == Spec => []Fifo
  BY OutboxInvariant, InvImplies, PTL

\* begin_effect, the expiry of claim_effect, finish_effect, abandon_effect and
\* Kernel::recover never let process work be dispatched again unless its
\* executor said that a retry is safe.
THEOREM ProcessWorkNotReplayed == Spec => []NoBlindReplay
  BY OutboxInvariant, InvImplies, PTL

\* The fence of finish_effect and abandon_effect (status, lease_owner and
\* attempt_count) protects a worker whose lease has not lapsed from every
\* other worker.
THEOREM LiveClaimsKept == Spec => []LiveClaim
  BY OutboxInvariant, InvImplies, PTL

=============================================================================
