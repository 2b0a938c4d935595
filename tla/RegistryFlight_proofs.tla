------------------------ MODULE RegistryFlight_proofs -----------------------
(***************************************************************************)
(* No batch is stranded in flight: InFlightCarried, proved for every       *)
(* number of devices and rows, with or without the HTTPS cycle beside the  *)
(* socket, and for every loss, crash, replay, purge and wipe.              *)
(***************************************************************************)
EXTENDS RegistrySync_proofs

-----------------------------------------------------------------------------
(* The inductive invariant *)

\* A batch on its way: about to be sent, in the HTTPS cycle's hands, on the
\* socket, or acknowledged there.
Flying(id, out, todo, up, down) ==
  \/ \E x \in out \union todo : x.batch = id
  \/ \E i \in DOMAIN up : up[i].t = "push" /\ up[i].push.batch = id
  \/ \E i \in DOMAIN down : down[i].t = "ack" /\ down[i].batch = id

\* A device's hands are empty whenever its code drops what they hold: the
\* actor's when it dials or takes new batches, the cycle's when it goes idle.
FlightOK(d, cn, sk, out, up, down, h) ==
  /\ cn = "down" => sk = "closed" /\ up = <<>> /\ down = <<>>
  /\ cn # "pushing" => out = {}
  /\ h.ph \notin {"push", "acking"} => h.todo = {}
  /\ \A b \in d.pending : b.inFlight => Flying(b.batch, out, h.todo, up, down)

FlightInv ==
  \A c \in Devices :
    FlightOK(doc[c], conn[c], socket[c], sending[c], c2s[c], s2c[c], http[c])

\* A step that touches one device at most.
OthersStay(c) ==
  \A x \in Devices \ {c} :
    /\ doc'[x] = doc[x] /\ conn'[x] = conn[x] /\ socket'[x] = socket[x]
    /\ sending'[x] = sending[x] /\ c2s'[x] = c2s[x] /\ s2c'[x] = s2c[x]
    /\ http'[x] = http[x]

\* It keeps the invariant if it leaves that device good.
LEMMA OneFlight ==
  ASSUME FlightInv, NEW c \in Devices, OthersStay(c),
         FlightOK(doc'[c], conn'[c], socket'[c], sending'[c], c2s'[c], s2c'[c], http'[c])
  PROVE  FlightInv'
<1>1. ASSUME NEW x \in Devices
      PROVE  FlightOK(doc'[x], conn'[x], socket'[x], sending'[x], c2s'[x], s2c'[x], http'[x])
  BY DEF OthersStay, FlightInv
<1> QED BY <1>1 DEF FlightInv

-----------------------------------------------------------------------------
(* The marks on a replica's batches *)

\* A new batch is not in flight.
LEMMA EnqueueMarks ==
  ASSUME NEW d \in Replica, NEW c, NEW ops, NEW now
  PROVE  \A b \in EnqueueOps(d, c, ops, now).pending : b.inFlight => b \in d.pending
  BY DEF EnqueueOps, Replica

\* Local writes put nothing in flight.
LEMMA WriteMarks ==
  ASSUME NEW d \in Replica, NEW c, NEW now \in Nat
  PROVE  /\ \A k, kind, set : \A b \in Write(d, c, k, kind, set, now).pending :
              b.inFlight => b \in d.pending
         /\ \A ks : \A b \in DeleteRows(d, c, ks, now).pending :
              b.inFlight => b \in d.pending
<1> DEFINE ticked == [d EXCEPT !.clock = Tick(d.clock, now)]
<1>1. ticked \in Replica /\ ticked.pending = d.pending
  BY TickType DEF Replica
<1>2. /\ \A k, kind, set : \E ops : Write(d, c, k, kind, set, now) = EnqueueOps(ticked, c, ops, now)
      /\ \A ks : \E ops : DeleteRows(d, c, ks, now) = EnqueueOps(ticked, c, ops, now)
  BY DEF Write, DeleteRows
<1> HIDE DEF ticked
<1>3. \A ops : \A b \in EnqueueOps(ticked, c, ops, now).pending : b.inFlight => b \in d.pending
  BY <1>1, EnqueueMarks
<1> QED BY <1>2, <1>3

\* Nor does a state frame, whatever it re-seeds.
LEMMA StateMarks ==
  ASSUME NEW d \in Replica, NEW c, NEW seq \in Nat, NEW full \in BOOLEAN,
         NEW rows \in [Keys -> Row], NEW now
  PROVE  \A b \in ApplyState(d, c, seq, full, rows, now).pending : b.inFlight => b \in d.pending
<1> DEFINE moved == [d EXCEPT !.cursor = seq, !.touched = TRUE]
           kept  == [moved EXCEPT !.auth = PutAuthoritative(d.auth, rows)]
           taken == [moved EXCEPT !.auth = rows]
<1>1. /\ kept \in Replica /\ kept.pending = d.pending
      /\ taken \in Replica /\ taken.pending = d.pending
  BY PutAuthoritativeType DEF Replica
<1>2. \/ ApplyState(d, c, seq, full, rows, now) = kept
      \/ \E ops : ApplyState(d, c, seq, full, rows, now) = EnqueueOps(kept, c, ops, now)
      \/ \E ops : ApplyState(d, c, seq, full, rows, now) = EnqueueOps(taken, c, ops, now)
  BY DEF ApplyState
<1> HIDE DEF kept, taken
<1>3. \A ops : \A b \in EnqueueOps(kept, c, ops, now).pending : b.inFlight => b \in d.pending
  BY <1>1, EnqueueMarks
<1>4. \A ops : \A b \in EnqueueOps(taken, c, ops, now).pending : b.inFlight => b \in d.pending
  BY <1>1, EnqueueMarks
<1> QED BY <1>1, <1>2, <1>3, <1>4

\* A disconnect and a restart leave nothing in flight.
LEMMA ClearedMarks ==
  ASSUME NEW d \in Replica
  PROVE  /\ \A b \in MarkDisconnected(d).pending : ~b.inFlight
         /\ \A b \in Reload(d).pending : ~b.inFlight
         /\ \A c \in Devices, now \in Times : \A b \in Boot(d, c, now).pending : ~b.inFlight
<1>1. \A b \in MarkDisconnected(d).pending : ~b.inFlight
  BY DEF MarkDisconnected, Replica, Batch
<1>2. Reload(d) \in Replica /\ \A b \in Reload(d).pending : ~b.inFlight
  BY <1>1, MarkTypes DEF Reload, Replica
<1>3. ASSUME NEW c \in Devices, NEW now \in Times, NEW b \in Boot(d, c, now).pending
      PROVE  ~b.inFlight
  <2>1. now \in Nat
    BY SyncAssumption
  <2>2. \A k, kind, set : \A x \in Write(Reload(d), c, k, kind, set, now).pending :
           x.inFlight => x \in Reload(d).pending
    BY <1>2, <2>1, WriteMarks
  <2> QED BY <1>2, <1>3, <2>2 DEF Boot
<1> QED BY <1>1, <1>2, <1>3

\* Taking the pushable batches marks them, and no other.
LEMMA TakenMarks ==
  ASSUME NEW d \in Replica, NEW b \in TakePushable(d).pending
  PROVE  \/ \E x \in Pushable(d) : x.batch = b.batch
         \/ \E x \in d.pending : x.inFlight /\ x.batch = b.batch
<1>1. PICK x \in d.pending : b = [x EXCEPT !.inFlight = TRUE]
  BY DEF TakePushable, Replica
<1>2. x.batch = b.batch
  BY <1>1 DEF Replica, Batch
<1> QED BY <1>2 DEF Pushable

-----------------------------------------------------------------------------
(* Every step keeps it *)

\* A device whose session ended, or whose process restarted.
LEMMA DownFlight ==
  ASSUME NEW d, \A b \in d.pending : ~b.inFlight,
         NEW h, h.ph \notin {"push", "acking"} => h.todo = {}
  PROVE  FlightOK(d, "down", "closed", {}, <<>>, <<>>, h)
  BY DEF FlightOK

\* Spawning the cycle takes no batch.
LEMMA SpawnedTodo ==
  ASSUME NEW h \in HttpCycle
  PROVE  /\ Spawned(h).todo = h.todo
         /\ (h.ph \notin {"push", "acking"} => h.todo = {}) =>
              (Spawned(h).ph \notin {"push", "acking"} => Spawned(h).todo = {})
         /\ Spawned(IdleHttp).todo = {}
  BY DEF Spawned, HttpCycle, IdleHttp

\* Local writes, the save and the crash keep FlightInv.
LEMMA LocalFlight ==
  ASSUME TypeOK, FlightInv, NEW c \in Devices, LocalStep(c)
  PROVE  FlightInv'
<1>d. /\ doc[c] \in Replica /\ saved[c] \in Replica
      /\ FlightOK(doc[c], conn[c], socket[c], sending[c], c2s[c], s2c[c], http[c])
  BY DEF TypeOK, FlightInv
<1>1. ASSUME NEW d, \A b \in d.pending : b.inFlight => b \in doc[c].pending, Mutate(c, d)
      PROVE  FlightInv'
  <2>1. FlightOK(d, conn[c], socket[c], sending[c], c2s[c], s2c[c], http[c])
    BY <1>d, <1>1 DEF FlightOK
  <2>2. /\ doc' = [doc EXCEPT ![c] = d]
        /\ UNCHANGED <<conn, socket, sending, c2s, s2c, http>>
    BY <1>1 DEF Mutate
  <2>3. OthersStay(c) /\ doc'[c] = d
    BY <2>2 DEF OthersStay, TypeOK
  <2> QED BY <2>1, <2>2, <2>3, OneFlight
<1>2. Times \subseteq Nat
  BY SyncAssumption
<1>3. CASE Upsert(c)
  <2>1. PICK k \in WriteKeys, x \in Sets, now \in Times :
               Mutate(c, Write(doc[c], c, k, "upsert", x, now))
    BY <1>3 DEF Upsert
  <2> QED BY <1>d, <1>1, <1>2, <2>1, WriteMarks
<1>4. CASE Update(c)
  <2>1. PICK k \in WriteKeys, x \in Sets, now \in Times :
               Mutate(c, Write(doc[c], c, k, "update", x, now))
    BY <1>4 DEF Update
  <2> QED BY <1>d, <1>1, <1>2, <2>1, WriteMarks
<1>5. CASE Delete(c)
  <2>1. PICK ks \in (SUBSET WriteKeys) \ {{}}, now \in Times :
               Mutate(c, DeleteRows(doc[c], c, ks, now))
    BY <1>5 DEF Delete
  <2> QED BY <1>d, <1>1, <1>2, <2>1, WriteMarks
<1>6. CASE SaveSnapshot(c)
  BY <1>6 DEF SaveSnapshot, FlightInv
<1>7. CASE Crash(c)
  <2>1. PICK now \in Times : doc' = [doc EXCEPT ![c] = Boot(saved[c], c, now)]
    BY <1>7 DEF Crash
  <2>2. \A b \in Boot(saved[c], c, now).pending : ~b.inFlight
    BY <1>d, ClearedMarks
  <2>3. FlightOK(Boot(saved[c], c, now), "down", "closed", {}, <<>>, <<>>, Spawned(IdleHttp))
    BY <2>2, SpawnedTodo, IdleHttpType, DownFlight
  <2>4. /\ conn' = [conn EXCEPT ![c] = "down"] /\ socket' = [socket EXCEPT ![c] = "closed"]
        /\ c2s' = [c2s EXCEPT ![c] = <<>>] /\ s2c' = [s2c EXCEPT ![c] = <<>>]
        /\ sending' = [sending EXCEPT ![c] = {}]
        /\ http' = [http EXCEPT ![c] = Spawned(IdleHttp)]
    BY <1>7 DEF Crash
  <2>5. OthersStay(c)
    BY <2>1, <2>4 DEF OthersStay, TypeOK
  <2>6. /\ doc'[c] = Boot(saved[c], c, now) /\ conn'[c] = "down" /\ socket'[c] = "closed"
        /\ sending'[c] = {} /\ c2s'[c] = <<>> /\ s2c'[c] = <<>>
        /\ http'[c] = Spawned(IdleHttp)
    BY <2>1, <2>4 DEF TypeOK
  <2> QED BY <2>3, <2>5, <2>6, OneFlight
<1> QED BY <1>3, <1>4, <1>5, <1>6, <1>7 DEF LocalStep

\* The end of a session lets every batch be pushed again.
LEMMA EndFlight ==
  ASSUME TypeOK, FlightInv, NEW c \in Devices, NEW d \in Replica, EndSession(c, d)
  PROVE  FlightInv'
<1>1. http[c] \in HttpCycle /\ (http[c].ph \notin {"push", "acking"} => http[c].todo = {})
  BY DEF TypeOK, FlightInv, FlightOK
<1>2. FlightOK(MarkDisconnected(d), "down", "closed", {}, <<>>, <<>>, Spawned(http[c]))
  BY <1>1, ClearedMarks, SpawnedTodo, DownFlight
<1>3. /\ doc' = [doc EXCEPT ![c] = MarkDisconnected(d)]
      /\ conn' = [conn EXCEPT ![c] = "down"] /\ socket' = [socket EXCEPT ![c] = "closed"]
      /\ c2s' = [c2s EXCEPT ![c] = <<>>] /\ s2c' = [s2c EXCEPT ![c] = <<>>]
      /\ sending' = [sending EXCEPT ![c] = {}]
      /\ http' = [http EXCEPT ![c] = Spawned(http[c])]
  BY DEF EndSession
<1>4. OthersStay(c)
  BY <1>3 DEF OthersStay, TypeOK
<1>5. /\ doc'[c] = MarkDisconnected(d) /\ conn'[c] = "down" /\ socket'[c] = "closed"
      /\ sending'[c] = {} /\ c2s'[c] = <<>> /\ s2c'[c] = <<>> /\ http'[c] = Spawned(http[c])
  BY <1>3 DEF TypeOK
<1> QED BY <1>2, <1>4, <1>5, OneFlight

\* The actor takes a replica's pushable batches, its hands empty.
LEMMA TakeFlight ==
  ASSUME TypeOK, FlightInv, NEW c \in Devices, sending[c] = {}, conn[c] # "down",
         NEW d \in Replica, \A b \in d.pending : b.inFlight => b \in doc[c].pending,
         doc' = [doc EXCEPT ![c] = TakePushable(d)], StartPush(c, Pushable(d)),
         NEW q \in Seq(Frame), s2c' = [s2c EXCEPT ![c] = q],
         \A i \in DOMAIN s2c[c] : s2c[c][i].t = "ack" =>
            \E j \in DOMAIN q : q[j] = s2c[c][i],
         UNCHANGED <<socket, c2s, http>>
  PROVE  FlightInv'
<1>d. FlightOK(doc[c], conn[c], socket[c], sending[c], c2s[c], s2c[c], http[c])
  BY DEF FlightInv
<1>1. /\ conn'[c] \in {"pushing", "up"} /\ (conn'[c] = "up" => Pushable(d) = {})
      /\ sending'[c] = Pushable(d) /\ doc'[c] = TakePushable(d) /\ s2c'[c] = q
  BY DEF StartPush, TypeOK
<1>2. ASSUME NEW b \in TakePushable(d).pending
      PROVE  Flying(b.batch, Pushable(d), http[c].todo, c2s[c], q)
  <2>1. CASE \E x \in Pushable(d) : x.batch = b.batch
    BY <2>1 DEF Flying
  <2>2. CASE \E x \in d.pending : x.inFlight /\ x.batch = b.batch
    <3>1. Flying(b.batch, {}, http[c].todo, c2s[c], s2c[c])
      BY <1>d, <2>2 DEF FlightOK
    <3> QED BY <3>1 DEF Flying
  <2> QED BY <2>1, <2>2, TakenMarks
<1>3. FlightOK(TakePushable(d), conn'[c], socket[c], Pushable(d), c2s[c], q, http[c])
  BY <1>d, <1>1, <1>2 DEF FlightOK
<1>4. OthersStay(c)
  BY DEF OthersStay, StartPush, TypeOK
<1> QED BY <1>1, <1>3, <1>4, OneFlight

\* A frame that is no ack can leave the socket.
LEMMA TailAcks ==
  ASSUME NEW q \in Seq(Frame), q # <<>>
  PROVE  /\ Tail(q) \in Seq(Frame)
         /\ Head(q) = q[1]
         /\ \A i \in DOMAIN q : i # 1 => \E j \in DOMAIN Tail(q) : Tail(q)[j] = q[i]
<1>1. Tail(q) \in Seq(Frame) /\ Head(q) = q[1]
  OBVIOUS
<1>2. ASSUME NEW i \in DOMAIN q, i # 1
      PROVE  i - 1 \in DOMAIN Tail(q) /\ Tail(q)[i - 1] = q[i]
  BY <1>2
<1> QED BY <1>1, <1>2

\* The steps of the session actor keep FlightInv.
LEMMA SessionFlight ==
  ASSUME TypeOK, FlightInv, NEW c \in Devices, SessionStep(c)
  PROVE  FlightInv'
<1>d. /\ doc[c] \in Replica /\ s2c[c] \in Seq(Frame) /\ c2s[c] \in Seq(ClientFrame)
      /\ sending[c] \in SUBSET Batch
      /\ FlightOK(doc[c], conn[c], socket[c], sending[c], c2s[c], s2c[c], http[c])
  BY DEF TypeOK, FlightInv
<1>1. CASE Dial(c)
  <2>1. /\ conn[c] = "down" /\ conn' = [conn EXCEPT ![c] = "hello"]
        /\ socket' = [socket EXCEPT ![c] = "new"]
        /\ c2s' = [c2s EXCEPT ![c] = <<[t |-> "hello", cursor |-> HelloCursor(doc[c])]>>]
        /\ UNCHANGED <<doc, s2c, sending, http>>
    BY <1>1 DEF Dial
  <2>2. OthersStay(c) /\ conn'[c] = "hello"
    BY <2>1 DEF OthersStay, TypeOK
  <2>3. FlightOK(doc[c], "hello", socket'[c], sending[c], c2s'[c], s2c[c], http[c])
    BY <1>d, <2>1 DEF FlightOK, Flying
  <2> QED BY <2>1, <2>2, <2>3, OneFlight
<1>2. CASE RecvState(c)
  <2> DEFINE m == Head(s2c[c])
  <2>1. /\ conn[c] = "hello" /\ s2c[c] # <<>> /\ m.t = "state"
        /\ s2c' = [s2c EXCEPT ![c] = Tail(s2c[c])] /\ UNCHANGED <<socket, c2s, http>>
    BY <1>2 DEF RecvState
  <2>2. PICK now \in Times :
          LET d == ApplyState(doc[c], c, m.seq, m.full, m.rows, now)
          IN  doc' = [doc EXCEPT ![c] = TakePushable(d)] /\ StartPush(c, Pushable(d))
    BY <1>2 DEF RecvState
  <2> DEFINE d == ApplyState(doc[c], c, m.seq, m.full, m.rows, now)
  <2>3. m \in Frame /\ m = s2c[c][1]
    BY <1>d, <2>1
  <2>4. m.seq \in Nat /\ m.full \in BOOLEAN /\ m.rows \in [Keys -> Row]
    BY <2>1, <2>3, FrameTypes
  <2>5. d \in Replica /\ \A b \in d.pending : b.inFlight => b \in doc[c].pending
    BY <1>d, <2>4, ApplyStateType, StateMarks, SyncAssumption
  <2>6. doc' = [doc EXCEPT ![c] = TakePushable(d)] /\ StartPush(c, Pushable(d))
    BY <2>2
  <2>7. Tail(s2c[c]) \in Seq(Frame)
        /\ \A i \in DOMAIN s2c[c] : s2c[c][i].t = "ack" =>
             \E j \in DOMAIN Tail(s2c[c]) : Tail(s2c[c])[j] = s2c[c][i]
    BY <1>d, <2>1, <2>3, TailAcks
  <2>8. sending[c] = {}
    BY <1>d, <2>1 DEF FlightOK
  <2> HIDE DEF m, d
  <2> QED BY <2>1, <2>5, <2>6, <2>7, <2>8, TakeFlight
<1>3. CASE SendPush(c)
  <2> DEFINE b == Oldest(sending[c])
             f == [t |-> "push", push |-> b]
  <2>1. /\ conn[c] = "pushing" /\ sending[c] # {}
        /\ c2s' = [c2s EXCEPT ![c] = Append(c2s[c], f)]
        /\ StartPush(c, sending[c] \ {b}) /\ UNCHANGED <<doc, socket, s2c, http>>
    BY <1>3 DEF SendPush
  <2>2. f.t = "push" /\ f.push = b /\ b \in sending[c]
    BY <1>d, <2>1, OldestType
  <2> HIDE DEF b, f
  <2>3. /\ Append(c2s[c], f)[Len(c2s[c]) + 1] = f
        /\ Len(c2s[c]) + 1 \in DOMAIN Append(c2s[c], f)
        /\ \A i \in DOMAIN c2s[c] : i \in DOMAIN Append(c2s[c], f) /\ Append(c2s[c], f)[i] = c2s[c][i]
    BY <1>d
  <2>4. /\ sending'[c] = sending[c] \ {b} /\ conn'[c] \in {"up", "pushing"}
        /\ conn'[c] = "up" => sending[c] \ {b} = {}
        /\ c2s'[c] = Append(c2s[c], f) /\ OthersStay(c)
    BY <2>1 DEF StartPush, OthersStay, TypeOK
  <2>5. ASSUME NEW id, Flying(id, sending[c], http[c].todo, c2s[c], s2c[c])
        PROVE  Flying(id, sending[c] \ {b}, http[c].todo, Append(c2s[c], f), s2c[c])
    BY <2>2, <2>3, <2>5 DEF Flying
  <2>6. FlightOK(doc[c], conn'[c], socket[c], sending[c] \ {b}, Append(c2s[c], f), s2c[c], http[c])
    BY <1>d, <2>4, <2>5 DEF FlightOK
  <2> QED BY <2>1, <2>4, <2>6, OneFlight
<1>4. CASE Nudge(c)
  <2>1. /\ conn[c] = "up" /\ doc' = [doc EXCEPT ![c] = TakePushable(doc[c])]
        /\ StartPush(c, Pushable(doc[c])) /\ UNCHANGED <<socket, c2s, s2c, http>>
    BY <1>4 DEF Nudge
  <2>2. sending[c] = {} /\ s2c' = [s2c EXCEPT ![c] = s2c[c]]
    BY <1>d, <2>1 DEF FlightOK, TypeOK
  <2> QED BY <1>d, <2>1, <2>2, TakeFlight
<1>5. CASE RecvRows(c)
  <2> DEFINE m == Head(s2c[c])
             d == ApplyRows(doc[c], m.seq, m.rows)
  <2>1. conn[c] = "up" /\ s2c[c] # <<>> /\ m.t = "rows"
    BY <1>5 DEF RecvRows
  <2>2. m \in Frame /\ m = s2c[c][1]
    BY <1>d, <2>1
  <2>3. m.seq \in Nat /\ m.rows \in [Keys -> Row]
    BY <2>1, <2>2, FrameTypes
  <2>4. d \in Replica /\ d.pending = doc[c].pending
    BY <1>d, <2>3, ApplyRowsType DEF ApplyRows, Replica
  <2>5. CASE Gap(doc[c], m.seq)
    <3>1. EndSession(c, d)
      BY <1>5, <2>5 DEF RecvRows
    <3> HIDE DEF d
    <3> QED BY <2>4, <3>1, EndFlight
  <2>6. CASE ~Gap(doc[c], m.seq)
    <3>1. /\ doc' = [doc EXCEPT ![c] = d] /\ s2c' = [s2c EXCEPT ![c] = Tail(s2c[c])]
          /\ UNCHANGED <<conn, socket, c2s, sending, http>>
      BY <1>5, <2>6 DEF RecvRows
    <3> HIDE DEF d
    <3>2. \A i \in DOMAIN s2c[c] : s2c[c][i].t = "ack" =>
             \E j \in DOMAIN Tail(s2c[c]) : Tail(s2c[c])[j] = s2c[c][i]
      BY <1>d, <2>1, <2>2, TailAcks
    <3>t. ASSUME NEW id, Flying(id, sending[c], http[c].todo, c2s[c], s2c[c])
          PROVE  Flying(id, sending[c], http[c].todo, c2s[c], Tail(s2c[c]))
      BY <3>2, <3>t DEF Flying
    <3>3. FlightOK(d, conn[c], socket[c], sending[c], c2s[c], Tail(s2c[c]), http[c])
      BY <1>d, <2>1, <2>4, <3>t DEF FlightOK
    <3>4. OthersStay(c) /\ doc'[c] = d /\ s2c'[c] = Tail(s2c[c])
      BY <3>1 DEF OthersStay, TypeOK
    <3> QED BY <3>1, <3>3, <3>4, OneFlight
  <2> QED BY <2>5, <2>6
<1>6. CASE RecvAck(c)
  <2> DEFINE m == Head(s2c[c])
             d == AckBatch(doc[c], m.batch)
  <2>1. /\ conn[c] = "up" /\ s2c[c] # <<>> /\ m.t = "ack"
        /\ doc' = [doc EXCEPT ![c] = d] /\ s2c' = [s2c EXCEPT ![c] = Tail(s2c[c])]
        /\ UNCHANGED <<conn, socket, c2s, sending, http>>
    BY <1>6 DEF RecvAck
  <2>2. \A b \in d.pending : b \in doc[c].pending /\ b.batch # m.batch
    BY <1>d DEF AckBatch, Replica
  <2> HIDE DEF d
  <2>3. ASSUME NEW b \in d.pending, b.inFlight
        PROVE  Flying(b.batch, sending[c], http[c].todo, c2s[c], Tail(s2c[c]))
    <3>1. Flying(b.batch, sending[c], http[c].todo, c2s[c], s2c[c])
      BY <1>d, <2>2, <2>3 DEF FlightOK
    <3>2. ASSUME NEW i \in DOMAIN s2c[c], s2c[c][i].t = "ack", s2c[c][i].batch = b.batch
          PROVE  \E j \in DOMAIN Tail(s2c[c]) : Tail(s2c[c])[j] = s2c[c][i]
      <4>1. i # 1
        BY <1>d, <2>1, <2>2, <2>3, <3>2, TailAcks
      <4> QED BY <1>d, <2>1, <4>1, TailAcks
    <3> QED BY <3>1, <3>2 DEF Flying
  <2>4. FlightOK(d, conn[c], socket[c], sending[c], c2s[c], Tail(s2c[c]), http[c])
    BY <1>d, <2>1, <2>3 DEF FlightOK
  <2>5. OthersStay(c) /\ doc'[c] = d /\ s2c'[c] = Tail(s2c[c])
    BY <2>1 DEF OthersStay, TypeOK
  <2> QED BY <2>1, <2>4, <2>5, OneFlight
<1>7. CASE RecvClose(c)
  BY <1>d, <1>7, EndFlight DEF RecvClose
<1> QED BY <1>1, <1>2, <1>3, <1>4, <1>5, <1>6, <1>7 DEF SessionStep

\* The HTTPS cycle of one device moves on.
LEMMA CycleFlight ==
  ASSUME TypeOK, FlightInv, NEW c \in Devices, NEW d, doc' = [doc EXCEPT ![c] = d],
         NEW h, http' = [http EXCEPT ![c] = h],
         h.ph \notin {"push", "acking"} => h.todo = {},
         \A b \in d.pending : b.inFlight =>
            Flying(b.batch, sending[c], h.todo, c2s[c], s2c[c]),
         UNCHANGED <<conn, socket, sending, c2s, s2c>>
  PROVE  FlightInv'
<1>1. FlightOK(d, conn[c], socket[c], sending[c], c2s[c], s2c[c], h)
  BY DEF FlightInv, FlightOK
<1>2. OthersStay(c) /\ doc'[c] = d /\ http'[c] = h
  BY DEF OthersStay, TypeOK
<1> QED BY <1>1, <1>2, OneFlight

\* The steps of the HTTPS cycle and its failures keep FlightInv.
LEMMA HttpFlight ==
  ASSUME TypeOK, FlightInv, NEW c \in Devices,
         HttpStep(c) \/ HttpPushFails(c) \/ HttpPullFails(c) \/ RoomRows(c)
  PROVE  FlightInv'
<1>d. /\ doc[c] \in Replica /\ http[c] \in HttpCycle /\ doc = [doc EXCEPT ![c] = doc[c]]
      /\ FlightOK(doc[c], conn[c], socket[c], sending[c], c2s[c], s2c[c], http[c])
  BY DEF TypeOK, FlightInv
<1>0. \A b \in doc[c].pending : b.inFlight =>
        Flying(b.batch, sending[c], http[c].todo, c2s[c], s2c[c])
  BY <1>d DEF FlightOK
<1>1. CASE HttpTake(c)
  <2> DEFINE h == [http[c] EXCEPT !.ph = "push", !.todo = Pushable(doc[c])]
  <2>1. /\ http[c].ph = "spawned" /\ http' = [http EXCEPT ![c] = h]
        /\ doc' = [doc EXCEPT ![c] = TakePushable(doc[c])]
        /\ UNCHANGED <<conn, socket, sending, c2s, s2c>>
    BY <1>1 DEF HttpTake, SetHttp
  <2>2. h.ph = "push" /\ h.todo = Pushable(doc[c])
    BY <1>d DEF HttpCycle
  <2> HIDE DEF h
  <2>3. http[c].todo = {}
    BY <1>d, <2>1 DEF FlightOK
  <2>4. ASSUME NEW b \in TakePushable(doc[c]).pending
        PROVE  Flying(b.batch, sending[c], Pushable(doc[c]), c2s[c], s2c[c])
    <3>1. CASE \E x \in Pushable(doc[c]) : x.batch = b.batch
      BY <3>1 DEF Flying
    <3>2. CASE \E x \in doc[c].pending : x.inFlight /\ x.batch = b.batch
      BY <1>0, <2>3, <3>2 DEF Flying
    <3> QED BY <1>d, <3>1, <3>2, TakenMarks
  <2> QED BY <2>1, <2>2, <2>4, CycleFlight
<1>2. CASE HttpAck(c)
  <2> DEFINE b == Oldest(http[c].todo)
             h == [http[c] EXCEPT !.ph = "push", !.todo = @ \ {b}]
             d == AckBatch(doc[c], b.batch)
  <2>1. /\ http' = [http EXCEPT ![c] = h] /\ doc' = [doc EXCEPT ![c] = d]
        /\ UNCHANGED <<conn, socket, sending, c2s, s2c>>
    BY <1>2 DEF HttpAck, SetHttp
  <2>2. h.ph = "push" /\ h.todo = http[c].todo \ {b}
    BY <1>d DEF HttpCycle
  <2>3. \A x \in d.pending : x \in doc[c].pending /\ x.batch # b.batch
    BY <1>d DEF AckBatch, Replica
  <2> HIDE DEF b, h, d
  <2>4. \A x \in d.pending : x.inFlight => Flying(x.batch, sending[c], h.todo, c2s[c], s2c[c])
    BY <1>0, <2>2, <2>3 DEF Flying
  <2> QED BY <2>1, <2>2, <2>4, CycleFlight
<1>3. CASE HttpPull(c)
  <2> DEFINE h == [http[c] EXCEPT !.ph = "pulling", !.since = doc[c].cursor]
  <2>1. /\ http[c].todo = {} /\ http' = [http EXCEPT ![c] = h]
        /\ UNCHANGED <<doc, conn, socket, sending, c2s, s2c>>
    BY <1>3 DEF HttpPull, SetHttp
  <2>2. h.todo = http[c].todo
    BY <1>d DEF HttpCycle
  <2> HIDE DEF h
  <2> QED BY <1>d, <1>0, <2>1, <2>2, CycleFlight
<1>4. CASE HttpApply(c)
  <2> DEFINE m == http[c].answer
  <2>1. m.seq \in Nat /\ m.full \in BOOLEAN /\ m.rows \in [Keys -> Row]
    BY <1>d DEF HttpCycle
  <2>2. PICK now \in Times :
          doc' = [doc EXCEPT ![c] = ApplyState(doc[c], c, m.seq, m.full, m.rows, now)]
    BY <1>4 DEF HttpApply
  <2>3. /\ http[c].ph = "answered" /\ http' = [http EXCEPT ![c] = IdleHttp]
        /\ UNCHANGED <<conn, socket, sending, c2s, s2c>>
    BY <1>4 DEF HttpApply, SetHttp
  <2>4. http[c].todo = {} /\ IdleHttp.todo = {}
    BY <1>d, <2>3 DEF FlightOK, IdleHttp
  <2> HIDE DEF m
  <2>5. \A b \in ApplyState(doc[c], c, m.seq, m.full, m.rows, now).pending :
          b.inFlight => b \in doc[c].pending
    BY <1>d, <2>1, StateMarks
  <2> QED BY <1>0, <2>2, <2>3, <2>4, <2>5, CycleFlight
<1>5. CASE HttpPushFails(c)
  <2> DEFINE h == [http[c] EXCEPT !.ph = "push", !.todo = {}]
  <2>1. /\ http' = [http EXCEPT ![c] = h] /\ doc' = [doc EXCEPT ![c] = MarkDisconnected(doc[c])]
        /\ UNCHANGED <<conn, socket, sending, c2s, s2c>>
    BY <1>5 DEF HttpPushFails, SetHttp
  <2>2. h.ph = "push"
    BY <1>d DEF HttpCycle
  <2>3. \A b \in MarkDisconnected(doc[c]).pending : ~b.inFlight
    BY <1>d, ClearedMarks
  <2> HIDE DEF h
  <2> QED BY <2>1, <2>2, <2>3, CycleFlight
<1>6. CASE HttpPullFails(c)
  <2>1. /\ http[c].ph \in {"pulling", "answered"} /\ http' = [http EXCEPT ![c] = IdleHttp]
        /\ UNCHANGED <<doc, conn, socket, sending, c2s, s2c>>
    BY <1>6 DEF HttpPullFails, SetHttp
  <2>2. http[c].todo = {} /\ IdleHttp.todo = {}
    BY <1>d, <2>1 DEF FlightOK, IdleHttp
  <2> QED BY <1>d, <1>0, <2>1, <2>2, CycleFlight
<1>7. CASE RoomRows(c)
  <2> DEFINE h == [http[c] EXCEPT !.ph = "answered", !.answer = Answer(room, http[c].since)]
  <2>1. /\ http[c].ph = "pulling" /\ http' = [http EXCEPT ![c] = h]
        /\ UNCHANGED <<doc, conn, socket, sending, c2s, s2c>>
    BY <1>7 DEF RoomRows, SetHttp
  <2>2. h.todo = http[c].todo
    BY <1>d DEF HttpCycle
  <2>3. http[c].todo = {}
    BY <1>d, <2>1 DEF FlightOK
  <2> HIDE DEF h
  <2> QED BY <1>d, <1>0, <2>1, <2>2, <2>3, CycleFlight
<1> QED BY <1>1, <1>2, <1>3, <1>4, <1>5, <1>6, <1>7 DEF HttpStep

\* A lost connection and a failed dial keep FlightInv.
LEMMA FailureFlight ==
  ASSUME TypeOK, FlightInv, NEW c \in Devices, Failure(c)
  PROVE  FlightInv'
<1>d. /\ doc[c] \in Replica /\ http[c] \in HttpCycle /\ doc = [doc EXCEPT ![c] = doc[c]]
      /\ FlightOK(doc[c], conn[c], socket[c], sending[c], c2s[c], s2c[c], http[c])
  BY DEF TypeOK, FlightInv
<1>1. CASE Disconnect(c)
  BY <1>d, <1>1, EndFlight DEF Disconnect
<1>2. CASE DialFails(c)
  <2>1. /\ http' = [http EXCEPT ![c] = Spawned(http[c])]
        /\ UNCHANGED <<doc, conn, socket, sending, c2s, s2c>>
    BY <1>2 DEF DialFails
  <2>2. /\ Spawned(http[c]).todo = http[c].todo
        /\ (Spawned(http[c]).ph \notin {"push", "acking"} => http[c].todo = {})
    BY <1>d, SpawnedTodo DEF FlightOK
  <2> QED BY <1>d, <2>1, <2>2, CycleFlight DEF FlightOK
<1>3. CASE HttpPushFails(c) \/ HttpPullFails(c)
  BY <1>3, HttpFlight
<1> QED BY <1>1, <1>2, <1>3 DEF Failure

\* A broadcast and its replies lengthen open sockets only.
LEMMA PublishFlight ==
  ASSUME TypeOK, FlightInv, NEW ops, NEW reply \in [Devices -> Seq(Frame)],
         \A c \in Devices : socket[c] = "closed" => reply[c] = <<>>,
         Publish(ops, reply), ops \in [Keys -> Op], NEW c \in Devices
  PROVE  /\ FlightOK(doc[c], conn[c], socket[c], sending[c], c2s[c], s2c'[c], http[c])
         /\ \E q \in Seq(Frame) : s2c'[c] = q \o reply[c]
<1> DEFINE f == [t |-> "rows", seq |-> room'.seq, rows |-> MergedRows(room, ops)]
<1>1. s2c[c] \in Seq(Frame) /\ FlightOK(doc[c], conn[c], socket[c], sending[c], c2s[c], s2c[c], http[c])
  BY DEF TypeOK, FlightInv
<1>2. f \in Frame
  <2>1. room'.seq \in Nat /\ MergedRows(room, ops) \in [Keys -> Row]
    BY ApplyPushBatchType DEF Publish, TypeOK, Room
  <2> QED BY <2>1 DEF Frame
<1>3. \/ s2c'[c] = s2c[c] \o reply[c]
      \/ socket[c] = "ready" /\ s2c'[c] = Append(s2c[c], f) \o reply[c]
  <2>1. PICK missed : s2c' = [x \in Devices |->
         (IF socket[x] = "ready" /\ x \notin missed /\ Touched(room, ops) # {}
            THEN Append(s2c[x], f) ELSE s2c[x]) \o reply[x]]
    BY DEF Publish
  <2> HIDE DEF f
  <2> QED BY <2>1
<1> HIDE DEF f
<1>4. Append(s2c[c], f) \in Seq(Frame)
  BY <1>1, <1>2
<1>5. socket[c] = "closed" => s2c'[c] = s2c[c]
  <2>1. s2c[c] \o <<>> = s2c[c]
    BY <1>1
  <2> QED BY <1>3, <2>1
<1>l. \A i \in DOMAIN s2c[c] : i \in DOMAIN s2c'[c] /\ s2c'[c][i] = s2c[c][i]
  <2>1. \A i \in DOMAIN s2c[c] : i \in DOMAIN Append(s2c[c], f) /\ Append(s2c[c], f)[i] = s2c[c][i]
    BY <1>1, <1>2
  <2>2. ASSUME NEW q \in Seq(Frame)
        PROVE  \A i \in DOMAIN q : i \in DOMAIN (q \o reply[c]) /\ (q \o reply[c])[i] = q[i]
    <3>1. reply[c] \in Seq(Frame)
      OBVIOUS
    <3> QED BY <3>1
  <2> QED BY <1>1, <1>3, <1>4, <2>1, <2>2
<1>6. ASSUME NEW id, Flying(id, sending[c], http[c].todo, c2s[c], s2c[c])
      PROVE  Flying(id, sending[c], http[c].todo, c2s[c], s2c'[c])
  BY <1>l, <1>6 DEF Flying
<1>7. FlightOK(doc[c], conn[c], socket[c], sending[c], c2s[c], s2c'[c], http[c])
  BY <1>1, <1>5, <1>6 DEF FlightOK
<1> QED BY <1>1, <1>3, <1>4, <1>7

\* The room's steps keep FlightInv.
LEMMA RoomFlight ==
  ASSUME TypeOK, FlightInv, NEW c \in Devices, RoomStep(c)
  PROVE  FlightInv'
<1>d. /\ c2s[c] \in Seq(ClientFrame) /\ s2c[c] \in Seq(Frame) /\ http[c] \in HttpCycle
      /\ FlightOK(doc[c], conn[c], socket[c], sending[c], c2s[c], s2c[c], http[c])
  BY DEF TypeOK, FlightInv
<1>1. CASE RoomHello(c)
  <2> DEFINE a == Answer(room, Head(c2s[c]).cursor)
             f == [t |-> "state", seq |-> a.seq, full |-> a.full, rows |-> a.rows]
  <2>1. /\ socket[c] # "closed" /\ c2s[c] # <<>> /\ Head(c2s[c]).t = "hello"
        /\ s2c' = [s2c EXCEPT ![c] = Append(s2c[c], f)]
        /\ socket' = [socket EXCEPT ![c] = "ready"]
        /\ c2s' = [c2s EXCEPT ![c] = Tail(c2s[c])]
        /\ UNCHANGED <<doc, conn, sending, http>>
    BY <1>1 DEF RoomHello
  <2>f. f \in Frame
    <3>1. a \in [seq : Nat, full : BOOLEAN, rows : [Keys -> Row]]
      BY <2>1, C2sHeadType, AnswerType DEF TypeOK
    <3> HIDE DEF a
    <3> QED BY <3>1 DEF Frame
  <2> HIDE DEF f
  <2>2. OthersStay(c) /\ s2c'[c] = Append(s2c[c], f) /\ socket'[c] = "ready" /\ c2s'[c] = Tail(c2s[c])
    BY <2>1 DEF OthersStay, TypeOK
  <2>3. /\ \A i \in DOMAIN s2c[c] : i \in DOMAIN Append(s2c[c], f) /\ Append(s2c[c], f)[i] = s2c[c][i]
        /\ \A i \in DOMAIN c2s[c] : i # 1 => i - 1 \in DOMAIN Tail(c2s[c]) /\ Tail(c2s[c])[i - 1] = c2s[c][i]
        /\ Head(c2s[c]) = c2s[c][1]
    BY <1>d, <2>1, <2>f, SMTT(30)
  <2>4. ASSUME NEW id, Flying(id, sending[c], http[c].todo, c2s[c], s2c[c])
        PROVE  Flying(id, sending[c], http[c].todo, Tail(c2s[c]), Append(s2c[c], f))
    BY <2>1, <2>3, <2>4 DEF Flying
  <2>5. FlightOK(doc[c], conn[c], "ready", sending[c], Tail(c2s[c]), Append(s2c[c], f), http[c])
    BY <1>d, <2>1, <2>4 DEF FlightOK
  <2> QED BY <2>1, <2>2, <2>5, OneFlight
<1>2. CASE RoomPush(c)
  <2> DEFINE b == Head(c2s[c]).push
             ack == [t |-> "ack", batch |-> b.batch]
             reply == [NoReply EXCEPT ![c] = <<ack>>]
  <2>1. /\ socket[c] # "closed" /\ c2s[c] # <<>> /\ Head(c2s[c]).t = "push"
        /\ Publish(b.ops, reply)
        /\ c2s' = [c2s EXCEPT ![c] = Tail(c2s[c])]
        /\ UNCHANGED <<doc, conn, socket, sending, http>>
    BY <1>2 DEF RoomPush
  <2>2. b \in Batch /\ b.ops \in [Keys -> Op]
    BY <2>1, C2sHeadType DEF Batch
  <2>3. ack \in Frame
    BY <2>2 DEF Batch, Frame
  <2>a. ack.t = "ack" /\ ack.batch = b.batch
    OBVIOUS
  <2> HIDE DEF ack
  <2>4. /\ reply \in [Devices -> Seq(Frame)] /\ reply[c] = <<ack>>
        /\ \A x \in Devices : socket[x] = "closed" => reply[x] = <<>>
    <3>1. reply[c] = <<ack>> /\ \A x \in Devices : x # c => reply[x] = <<>>
      BY NoReplyType DEF NoReply
    <3>2. <<ack>> \in Seq(Frame)
      BY <2>3
    <3> QED BY <2>1, <3>1, <3>2, NoReplyType
  <2>5. b = c2s[c][1].push
    BY <1>d, <2>1
  <2> HIDE DEF b, reply
  <2>6. \A x \in Devices :
          /\ FlightOK(doc[x], conn[x], socket[x], sending[x], c2s[x], s2c'[x], http[x])
          /\ \E q \in Seq(Frame) : s2c'[x] = q \o reply[x]
    BY <2>1, <2>2, <2>4, PublishFlight
  <2>7. PICK q \in Seq(Frame) : s2c'[c] = q \o <<ack>>
    BY <2>4, <2>6
  <2>8. Len(q) + 1 \in DOMAIN s2c'[c] /\ s2c'[c][Len(q) + 1] = ack
    BY <2>3, <2>7
  <2>9. \A i \in DOMAIN c2s[c] : i # 1 => i - 1 \in DOMAIN Tail(c2s[c]) /\ Tail(c2s[c])[i - 1] = c2s[c][i]
    BY <1>d, <2>1
  <2>10. ASSUME NEW id, Flying(id, sending[c], http[c].todo, c2s[c], s2c'[c])
         PROVE  Flying(id, sending[c], http[c].todo, Tail(c2s[c]), s2c'[c])
    BY <2>5, <2>8, <2>9, <2>10, <2>a DEF Flying
  <2>11. FlightOK(doc[c], conn[c], socket[c], sending[c], Tail(c2s[c]), s2c'[c], http[c])
    <3>1. conn[c] # "down"
      BY <1>d, <2>1 DEF FlightOK
    <3> QED BY <2>6, <2>10, <3>1 DEF FlightOK
  <2>12. \A x \in Devices : c2s'[x] = IF x = c THEN Tail(c2s[c]) ELSE c2s[x]
    BY <2>1 DEF TypeOK
  <2> QED BY <2>1, <2>6, <2>11, <2>12 DEF FlightInv
<1>3. CASE RoomPost(c)
  <2> DEFINE h == [http[c] EXCEPT !.ph = "acking"]
  <2>1. /\ http[c].ph = "push" /\ http[c].todo # {} /\ Publish(Oldest(http[c].todo).ops, NoReply)
        /\ http' = [http EXCEPT ![c] = h]
        /\ UNCHANGED <<doc, conn, socket, sending, c2s>>
    BY <1>3 DEF RoomPost, SetHttp
  <2>2. h.ph = "acking" /\ h.todo = http[c].todo
    BY <1>d DEF HttpCycle
  <2>3. Oldest(http[c].todo).ops \in [Keys -> Op]
    BY <1>d, <2>1, OldestType DEF HttpCycle, Batch
  <2>4. \A x \in Devices : FlightOK(doc[x], conn[x], socket[x], sending[x], c2s[x], s2c'[x], http[x])
    BY <2>1, <2>3, NoReplyType, PublishFlight DEF NoReply
  <2> HIDE DEF h
  <2>5. FlightOK(doc[c], conn[c], socket[c], sending[c], c2s[c], s2c'[c], h)
    BY <2>2, <2>4 DEF FlightOK
  <2>6. \A x \in Devices : http'[x] = IF x = c THEN h ELSE http[x]
    BY <2>1 DEF TypeOK
  <2> QED BY <2>1, <2>4, <2>5, <2>6 DEF FlightInv
<1>4. CASE RoomRows(c)
  BY <1>4, HttpFlight
<1> QED BY <1>1, <1>2, <1>3, <1>4 DEF RoomStep

\* Late pushes, the alarm and the wipe keep FlightInv.
LEMMA RoomAloneFlight ==
  ASSUME TypeOK, FlightInv, RoomLate \/ RoomAlarm \/ RoomAlarmEnds \/ RoomAlarmFails \/ RoomReset
  PROVE  FlightInv'
<1>1. CASE RoomLate
  <2>1. PICK b \in late : /\ Publish(b.ops, NoReply)
                          /\ UNCHANGED <<doc, conn, socket, sending, c2s, http>>
    BY <1>1 DEF RoomLate
  <2>2. b.ops \in [Keys -> Op]
    BY DEF TypeOK, Batch
  <2>3. \A x \in Devices : FlightOK(doc[x], conn[x], socket[x], sending[x], c2s[x], s2c'[x], http[x])
    BY <2>1, <2>2, NoReplyType, PublishFlight DEF NoReply
  <2> QED BY <2>1, <2>3 DEF FlightInv
<1>2. CASE RoomAlarm \/ RoomAlarmEnds \/ RoomAlarmFails
  BY <1>2 DEF RoomAlarm, RoomAlarmEnds, RoomAlarmFails, FlightInv
<1>3. CASE RoomReset
  <2>1. /\ socket' = [c \in Devices |-> "closed"]
        /\ UNCHANGED <<doc, conn, sending, c2s, s2c, http>>
    BY <1>3 DEF RoomReset
  <2> QED BY <2>1 DEF FlightInv, FlightOK
<1> QED BY <1>1, <1>2, <1>3

\* FlightInv is inductive.
LEMMA FlightStep == TypeOK /\ FlightInv /\ [Next]_vars => FlightInv'
<1> SUFFICES ASSUME TypeOK, FlightInv, [Next]_vars PROVE FlightInv'
  OBVIOUS
<1>1. CASE UNCHANGED vars
  BY <1>1 DEF vars, FlightInv
<1>2. ASSUME NEW c \in Devices,
             LocalStep(c) \/ SessionStep(c) \/ HttpStep(c) \/ Failure(c) \/ RoomStep(c)
      PROVE  FlightInv'
  BY <1>2, LocalFlight, SessionFlight, HttpFlight, FailureFlight, RoomFlight
<1>3. CASE RoomLate \/ RoomAlarm \/ RoomAlarmEnds \/ RoomAlarmFails \/ RoomReset
  BY <1>3, RoomAloneFlight
<1> QED BY <1>1, <1>2, <1>3 DEF Next

\* FlightInv holds at the start.
LEMMA InitFlight == Init => FlightInv
<1> SUFFICES ASSUME Init, NEW c \in Devices
             PROVE  FlightOK(doc[c], conn[c], socket[c], sending[c], c2s[c], s2c[c], http[c])
  BY DEF FlightInv
<1>1. NewDoc \in Replica
  BY TableTypes DEF NewDoc, Replica, Clock
<1>2. PICK now \in Times : doc[c] = Boot(NewDoc, c, now)
  BY DEF Init
<1>3. \A b \in doc[c].pending : ~b.inFlight
  BY <1>1, <1>2, ClearedMarks
<1>4. /\ conn[c] = "down" /\ socket[c] = "closed" /\ c2s[c] = <<>> /\ s2c[c] = <<>>
      /\ sending[c] = {} /\ http[c] = Spawned(IdleHttp)
  BY DEF Init
<1>5. Spawned(IdleHttp).todo = {}
  BY IdleHttpType, SpawnedTodo
<1> QED BY <1>3, <1>4, <1>5, DownFlight

\* registry.rs, spawn_offline_sync: a batch marked in flight with nothing to
\* carry it is "stranded until process restart".  Whatever frames, answers and
\* connections are lost, whichever of the socket and the HTTPS cycle a batch was
\* handed to, and however the two overlap, no batch is ever stranded.
THEOREM NothingStranded == Spec => []InFlightCarried
<1>1. Init => FlightInv
  BY InitFlight
<1>2. TypeOK /\ FlightInv /\ [Next]_vars => FlightInv'
  BY FlightStep
<1>3. FlightInv => InFlightCarried
  BY DEF FlightInv, FlightOK, Flying, InFlightCarried
<1> QED BY <1>1, <1>2, <1>3, TypeCorrect, PTL DEF Spec

=============================================================================
