----------------------- MODULE RegistryCursor_proofs ------------------------
(***************************************************************************)
(* What a replica's cursor promises: CursorComplete and NoGhostRows,       *)
(* proved for every number of devices and rows, any loss of broadcasts,    *)
(* disconnects, crashes, replayed pushes and GC horizons, where the socket *)
(* is the only transport and the room is never wiped.                      *)
(*                                                                         *)
(* The rows above a replica's cursor are on their way to it, or it is      *)
(* about to ask for them (CursorInv).  A replica that shows a row the room *)
(* has purged is behind gcFloor now, and stays behind it until a frame     *)
(* that takes the row away: the purge forgets the tombstone, but a frame   *)
(* under way may still carry it (GhostInv).                                *)
(***************************************************************************)
EXTENDS RegistryCursor, RegistrySync_proofs

-----------------------------------------------------------------------------
(* What the replica's operators do to its rows and its cursor *)

\* enqueue_ops leaves server truth and the cursor alone.
LEMMA EnqueueKeeps ==
  ASSUME NEW d \in Replica, NEW c, NEW ops, NEW now
  PROVE  /\ EnqueueOps(d, c, ops, now).auth = d.auth
         /\ EnqueueOps(d, c, ops, now).cursor = d.cursor
  BY DEF EnqueueOps, Replica

\* A replica whose clock ticked is a replica.
LEMMA TickedReplica ==
  ASSUME NEW d \in Replica, NEW now \in Nat
  PROVE  /\ [d EXCEPT !.clock = Tick(d.clock, now)] \in Replica
         /\ [d EXCEPT !.clock = Tick(d.clock, now)].auth = d.auth
         /\ [d EXCEPT !.clock = Tick(d.clock, now)].cursor = d.cursor
<1>1. Tick(d.clock, now) \in Clock
  BY TickType DEF Replica
<1> QED BY <1>1 DEF Replica

\* write and delete_row_ops leave server truth and the cursor alone.
LEMMA WritesKeep ==
  ASSUME NEW d \in Replica, NEW c, NEW now \in Nat
  PROVE  /\ \A k, kind, set : /\ Write(d, c, k, kind, set, now).auth = d.auth
                              /\ Write(d, c, k, kind, set, now).cursor = d.cursor
         /\ \A ks : /\ DeleteRows(d, c, ks, now).auth = d.auth
                    /\ DeleteRows(d, c, ks, now).cursor = d.cursor
<1> DEFINE ticked == [d EXCEPT !.clock = Tick(d.clock, now)]
<1>1. ticked \in Replica /\ ticked.auth = d.auth /\ ticked.cursor = d.cursor
  BY TickedReplica
<1>2. \A k, kind, set : \E ops : Write(d, c, k, kind, set, now) = EnqueueOps(ticked, c, ops, now)
  BY DEF Write
<1>3. \A ks : \E ops : DeleteRows(d, c, ks, now) = EnqueueOps(ticked, c, ops, now)
  BY DEF DeleteRows
<1> HIDE DEF ticked
<1>4. \A ops : /\ EnqueueOps(ticked, c, ops, now).auth = d.auth
               /\ EnqueueOps(ticked, c, ops, now).cursor = d.cursor
  BY <1>1, EnqueueKeeps
<1>5. ASSUME NEW k, NEW kind, NEW set
      PROVE  /\ Write(d, c, k, kind, set, now).auth = d.auth
             /\ Write(d, c, k, kind, set, now).cursor = d.cursor
  BY <1>2, <1>4
<1>6. ASSUME NEW ks
      PROVE  /\ DeleteRows(d, c, ks, now).auth = d.auth
             /\ DeleteRows(d, c, ks, now).cursor = d.cursor
  BY <1>3, <1>4
<1> QED BY <1>5, <1>6

\* So do acknowledging and marking batches, and going through a snapshot.
LEMMA MarksKeep ==
  ASSUME NEW d \in Replica
  PROVE  /\ TakePushable(d).auth = d.auth /\ TakePushable(d).cursor = d.cursor
         /\ MarkDisconnected(d).auth = d.auth /\ MarkDisconnected(d).cursor = d.cursor
         /\ Reload(d).auth = d.auth /\ Reload(d).cursor = d.cursor
         /\ \A b : AckBatch(d, b).auth = d.auth /\ AckBatch(d, b).cursor = d.cursor
<1>1. MarkDisconnected(d) \in Replica
  BY MarkTypes
<1>2. MarkDisconnected(d).auth = d.auth /\ MarkDisconnected(d).cursor = d.cursor
  BY DEF MarkDisconnected, Replica
<1>3. Reload(d).auth = d.auth /\ Reload(d).cursor = d.cursor
  BY <1>1, <1>2 DEF Reload, Replica
<1>4. TakePushable(d).auth = d.auth /\ TakePushable(d).cursor = d.cursor
  BY DEF TakePushable, Replica
<1>5. \A b : AckBatch(d, b).auth = d.auth /\ AckBatch(d, b).cursor = d.cursor
  BY DEF AckBatch, Replica
<1> QED BY <1>2, <1>3, <1>4, <1>5

\* WorkspaceHost::open boots with the snapshot's server truth and cursor.
LEMMA BootKeeps ==
  ASSUME NEW d \in Replica, NEW c \in Devices, NEW now \in Times
  PROVE  Boot(d, c, now).auth = d.auth /\ Boot(d, c, now).cursor = d.cursor
<1>1. Reload(d) \in Replica /\ now \in Nat
  BY MarkTypes, SyncAssumption
<1> QED BY <1>1, MarksKeep, WritesKeep DEF Boot

\* apply_state's re-seed leaves the rows and the cursor the frame gave.
LEMMA ApplyStateKeeps ==
  ASSUME NEW d \in Replica, NEW c, NEW seq \in Nat, NEW full \in BOOLEAN,
         NEW rows \in [Keys -> Row], NEW now
  PROVE  /\ ApplyState(d, c, seq, full, rows, now).cursor = seq
         /\ ApplyState(d, c, seq, full, rows, now).auth =
              IF full /\ ~(seq < d.cursor) THEN rows ELSE PutAuthoritative(d.auth, rows)
<1> DEFINE moved == [d EXCEPT !.cursor = seq, !.touched = TRUE]
           kept  == [moved EXCEPT !.auth = PutAuthoritative(d.auth, rows)]
           taken == [moved EXCEPT !.auth = rows]
<1>1. kept \in Replica /\ taken \in Replica
  BY PutAuthoritativeType DEF Replica
<1>2. /\ kept.cursor = seq /\ kept.auth = PutAuthoritative(d.auth, rows)
      /\ taken.cursor = seq /\ taken.auth = rows
  BY DEF Replica
<1>3. CASE ~full
  BY <1>2, <1>3 DEF ApplyState
<1>4. CASE full /\ seq < d.cursor
  <2>1. ApplyState(d, c, seq, full, rows, now) = EnqueueOps(kept, c, SeedOps(d.auth, Keys), now)
    BY <1>4 DEF ApplyState
  <2> HIDE DEF kept
  <2>2. \A ops : /\ EnqueueOps(kept, c, ops, now).auth = kept.auth
                 /\ EnqueueOps(kept, c, ops, now).cursor = kept.cursor
    BY <1>1, EnqueueKeeps
  <2> QED BY <1>2, <1>4, <2>1, <2>2
<1>5. CASE full /\ ~(seq < d.cursor)
  <2> DEFINE ks == {k \in Keys : ~Exists(rows[k])}
  <2>1. ApplyState(d, c, seq, full, rows, now) = EnqueueOps(taken, c, SeedOps(d.auth, ks), now)
    BY <1>5 DEF ApplyState
  <2> HIDE DEF taken, ks
  <2>2. \A ops : /\ EnqueueOps(taken, c, ops, now).auth = taken.auth
                 /\ EnqueueOps(taken, c, ops, now).cursor = taken.cursor
    BY <1>1, EnqueueKeeps
  <2> QED BY <1>2, <1>5, <2>1, <2>2
<1> QED BY <1>3, <1>4, <1>5

\* Complete speaks of a replica's rows and cursor only.
LEMMA SameComplete ==
  ASSUME NEW r, NEW d, NEW e, e.auth = d.auth, e.cursor = d.cursor, Complete(r, d)
  PROVE  Complete(r, e)
  BY DEF Complete

\* What is on a socket is judged by the cursor of the replica only.
LEMMA SameLink ==
  ASSUME NEW r, NEW d, NEW e, e.cursor = d.cursor, NEW cn, NEW sk, NEW up, NEW down,
         LinkOK(r, d, cn, sk, up, down)
  PROVE  LinkOK(r, e, cn, sk, up, down)
  BY DEF LinkOK, StateOK

-----------------------------------------------------------------------------
(* The room moves forward *)

\* A step of the room: a row stays, goes away, or is newer than every seq the
\* room has given so far.
Advance(r, s) ==
  /\ s.seq >= r.seq
  /\ \A k \in Keys : \/ s.rows[k] = r.rows[k]
                     \/ ~Exists(s.rows[k])
                     \/ s.rows[k].seq > r.seq

\* A room's seqs are numbers.
LEMMA RoomNats ==
  ASSUME NEW r \in Room
  PROVE  r.seq \in Nat /\ \A k \in Keys : r.rows[k] \in Row /\ r.rows[k].seq \in Nat
  BY DEF Room, Row

\* A replica stays complete when the room moves forward.
LEMMA AdvanceComplete ==
  ASSUME NEW r \in Room, NEW s \in Room, Advance(r, s),
         NEW d \in Replica, Complete(r, d)
  PROVE  Complete(s, d)
<1>1. d.cursor \in Nat
  BY DEF Replica
<1> QED BY <1>1, RoomNats DEF Advance, Complete

\* So does a table that carries a range of seqs,
LEMMA AdvanceCarries ==
  ASSUME NEW r \in Room, NEW s \in Room, Advance(r, s), NEW rows,
         NEW lo \in Int, NEW hi \in Int, lo <= r.seq, hi <= r.seq, Carries(r, rows, lo, hi)
  PROVE  Carries(s, rows, lo, hi)
  BY RoomNats DEF Advance, Carries

\* the broadcasts on a socket,
LEMMA AdvanceRows ==
  ASSUME NEW r \in Room, NEW s \in Room, Advance(r, s),
         NEW down \in Seq(Frame), RowsOK(r, down)
  PROVE  RowsOK(s, down)
<1>1. ASSUME NEW i \in DOMAIN down, down[i].t = "rows"
      PROVE  /\ down[i].seq <= s.seq
             /\ Carries(s, down[i].rows, down[i].seq - 1, down[i].seq)
  <2>1. down[i].seq \in Nat
    BY <1>1, FrameTypes
  <2>2. down[i].seq <= r.seq /\ Carries(r, down[i].rows, down[i].seq - 1, down[i].seq)
    BY <1>1 DEF RowsOK
  <2>3. down[i].seq - 1 \in Int /\ down[i].seq - 1 <= r.seq
    BY <2>1, <2>2, RoomNats
  <2>4. Carries(s, down[i].rows, down[i].seq - 1, down[i].seq)
    BY <2>1, <2>2, <2>3, AdvanceCarries
  <2>5. down[i].seq <= s.seq
    BY <2>1, <2>2, RoomNats DEF Advance
  <2> QED BY <2>4, <2>5
<1> QED BY <1>1 DEF RowsOK

\* the answer to a hello,
LEMMA AdvanceState ==
  ASSUME NEW r \in Room, NEW s \in Room, Advance(r, s),
         NEW d \in Replica, Complete(r, d), NEW m \in Frame, StateOK(r, d, m)
  PROVE  StateOK(s, d, m)
<1> DEFINE lo == IF m.full THEN 0 ELSE d.cursor
<1>1. m.t = "state" /\ m.seq \in Nat /\ m.seq <= r.seq /\ Carries(r, m.rows, lo, m.seq)
  BY FrameTypes DEF StateOK
<1>2. lo \in Nat /\ lo <= r.seq
  BY RoomNats DEF Complete, Replica
<1>3. m.seq <= s.seq
  BY <1>1, RoomNats DEF Advance
<1> HIDE DEF lo
<1>4. Carries(s, m.rows, lo, m.seq)
  BY <1>1, <1>2, AdvanceCarries
<1> QED BY <1>1, <1>3, <1>4 DEF StateOK, lo

\* and with them everything on the socket.
LEMMA AdvanceLink ==
  ASSUME NEW r \in Room, NEW s \in Room, Advance(r, s),
         NEW d \in Replica, Complete(r, d), NEW cn, NEW sk, NEW up,
         NEW down \in Seq(Frame), LinkOK(r, d, cn, sk, up, down)
  PROVE  LinkOK(s, d, cn, sk, up, down)
<1>1. ASSUME sk = "ready", cn = "hello"
      PROVE  down # <<>> /\ StateOK(s, d, down[1]) /\ After(down, 2, down[1].seq)
  <2>1. down # <<>> /\ StateOK(r, d, down[1]) /\ After(down, 2, down[1].seq)
    BY <1>1 DEF LinkOK
  <2>2. down[1] \in Frame
    BY <2>1
  <2> QED BY <2>1, <2>2, AdvanceState
<1> QED BY <1>1 DEF LinkOK

\* applyPushBatch moves the room forward, and the rows it broadcasts are all
\* those it stamped with the new seq.
LEMMA PushAdvances ==
  ASSUME NEW r \in Room, SeqsOK(r), NEW ops \in [Keys -> Op]
  PROVE  /\ Advance(r, ApplyPushBatch(r, ops))
         /\ SeqsOK(ApplyPushBatch(r, ops))
         /\ Touched(r, ops) # {} =>
              /\ ApplyPushBatch(r, ops).seq = r.seq + 1
              /\ Carries(ApplyPushBatch(r, ops), MergedRows(r, ops), r.seq, r.seq + 1)
<1> DEFINE s == ApplyPushBatch(r, ops)
<1>1. CASE Touched(r, ops) = {}
  <2>1. s = r
    BY <1>1 DEF ApplyPushBatch
  <2>2. Advance(r, r)
    BY RoomNats DEF Advance
  <2> QED BY <1>1, <2>1, <2>2
<1>2. CASE Touched(r, ops) # {}
  <2>1. s.seq = r.seq + 1
    BY <1>2 DEF ApplyPushBatch, Room
  <2>2. ASSUME NEW k \in Keys
        PROVE  IF k \in Touched(r, ops) THEN s.rows[k].seq = r.seq + 1 /\ Exists(s.rows[k])
                                        ELSE s.rows[k] = r.rows[k]
    <3>1. s.rows[k] = IF k \in Touched(r, ops)
                        THEN [ApplyOp(r.rows[k], ops[k]) EXCEPT !.seq = r.seq + 1]
                        ELSE r.rows[k]
      BY <1>2 DEF ApplyPushBatch, Room
    <3>2. ApplyOp(r.rows[k], ops[k]) \in Row
      BY RoomNats, ApplyOpType
    <3>3. k \in Touched(r, ops) => Exists(ApplyOp(r.rows[k], ops[k]))
      BY RoomNats, ApplyOpExists DEF Touched
    <3> QED BY <3>1, <3>2, <3>3 DEF Row, Exists
  <2>3. ASSUME NEW k \in Keys
        PROVE  MergedRows(r, ops)[k] = IF k \in Touched(r, ops) THEN s.rows[k] ELSE NoRow
    BY DEF MergedRows
  <2>4. ~Exists(NoRow)
    BY DEF Exists, NoRow
  <2> HIDE DEF s
  <2>5. Advance(r, s)
    BY <2>1, <2>2, RoomNats DEF Advance
  <2>6. SeqsOK(s)
    BY <2>1, <2>2, RoomNats DEF SeqsOK
  <2>7. Carries(s, MergedRows(r, ops), r.seq, r.seq + 1)
    BY <2>1, <2>2, <2>3, <2>4, RoomNats DEF Carries, SeqsOK
  <2> QED BY <2>1, <2>5, <2>6, <2>7 DEF s
<1> QED BY <1>1, <1>2

\* The alarm only takes rows away.
LEMMA AlarmAdvances ==
  ASSUME NEW r \in Room, SeqsOK(r), NEW h
  PROVE  /\ Advance(r, AlarmFires(r, h)) /\ SeqsOK(AlarmFires(r, h))
         /\ Advance(r, AlarmEnds(r)) /\ SeqsOK(AlarmEnds(r))
         /\ Advance(r, AlarmFails(r)) /\ SeqsOK(AlarmFails(r))
<1>0. ~Exists(NoRow) /\ NoRow.seq = 0
  BY DEF Exists, NoRow
<1>1. ASSUME NEW s, s.seq = r.seq,
             \A k \in Keys : s.rows[k] = r.rows[k] \/ s.rows[k] = NoRow
      PROVE  Advance(r, s) /\ SeqsOK(s)
  BY <1>0, <1>1, RoomNats DEF Advance, SeqsOK
<1>2. /\ AlarmEnds(r).seq = r.seq /\ AlarmEnds(r).rows = r.rows
      /\ AlarmFails(r).seq = r.seq /\ AlarmFails(r).rows = r.rows
  BY DEF AlarmEnds, AlarmFails, Room
<1>3. /\ AlarmFires(r, h).seq = r.seq
      /\ \A k \in Keys : AlarmFires(r, h).rows[k] = r.rows[k] \/ AlarmFires(r, h).rows[k] = NoRow
  <2> DEFINE fired == [r EXCEPT !.alarm = FALSE]
             purged == Purge(fired, h)
  <2>1. fired \in Room /\ fired.seq = r.seq /\ fired.rows = r.rows
    BY DEF Room
  <2>2. AlarmFires(r, h) = IF ~r.dirty THEN fired
                           ELSE IF purged.seq > purged.backupSeq
                             THEN [purged EXCEPT !.putting = purged.seq]
                           ELSE [purged EXCEPT !.dirty = FALSE]
    BY DEF AlarmFires
  <2> HIDE DEF fired
  <2>3. /\ purged.seq = r.seq
        /\ \A k \in Keys : purged.rows[k] = r.rows[k] \/ purged.rows[k] = NoRow
    BY <2>1 DEF Purge, Room
  <2>4. purged \in Room
    BY <2>1, PurgeType
  <2> HIDE DEF purged
  <2>5. /\ AlarmFires(r, h).seq = IF ~r.dirty THEN fired.seq ELSE purged.seq
        /\ AlarmFires(r, h).rows = IF ~r.dirty THEN fired.rows ELSE purged.rows
    BY <2>2, <2>4 DEF Room
  <2> QED BY <2>1, <2>3, <2>5
<1> QED BY <1>1, <1>2, <1>3

-----------------------------------------------------------------------------
(* Frames on a socket *)

\* Where the frames of an extended channel are.
LEMMA SeqFacts ==
  ASSUME NEW q \in Seq(Frame), NEW a \in Seq(Frame)
  PROVE  /\ q \o a \in Seq(Frame)
         /\ Len(q \o a) = Len(q) + Len(a)
         /\ \A i \in 1 .. Len(q) : (q \o a)[i] = q[i]
         /\ \A i \in 1 .. Len(a) : (q \o a)[Len(q) + i] = a[i]
  OBVIOUS

\* Where the frames of a channel are once its head is taken.
LEMMA TailFacts ==
  ASSUME NEW q \in Seq(Frame), q # <<>>
  PROVE  /\ Tail(q) \in Seq(Frame)
         /\ Head(q) = q[1] /\ q[1] \in Frame /\ 1 \in DOMAIN q
         /\ \A i \in DOMAIN Tail(q) : i + 1 \in DOMAIN q /\ Tail(q)[i] = q[i + 1]
  OBVIOUS

\* Taking a frame leaves the other broadcasts good.
LEMMA TailRows ==
  ASSUME NEW r, NEW q \in Seq(Frame), q # <<>>, RowsOK(r, q)
  PROVE  RowsOK(r, Tail(q))
<1>1. ASSUME NEW i \in DOMAIN Tail(q), NEW j \in DOMAIN Tail(q), i < j
      PROVE  i + 1 < j + 1
  <2>1. i \in Int /\ j \in Int
    BY TailFacts
  <2> QED BY <1>1, <2>1
<1> QED BY <1>1, TailFacts DEF RowsOK

\* Taking a frame leaves the others newer.
LEMMA TailAfter ==
  ASSUME NEW q \in Seq(Frame), q # <<>>, NEW n \in Nat, NEW x, After(q, n + 1, x)
  PROVE  After(Tail(q), n, x)
<1>1. ASSUME NEW i \in DOMAIN Tail(q), i >= n
      PROVE  i + 1 \in DOMAIN q /\ Tail(q)[i] = q[i + 1] /\ i + 1 >= n + 1
  <2>1. i \in Int
    BY TailFacts
  <2> QED BY <1>1, <2>1, TailFacts
<1> QED BY <1>1 DEF After

\* Acks change nothing of what the invariant says of a socket.
Acks(a) == \A i \in DOMAIN a : a[i].t = "ack"

\* Acks behind the frames of a socket disturb nothing.
LEMMA AppendAcks ==
  ASSUME NEW r, NEW q \in Seq(Frame), NEW a \in Seq(Frame), Acks(a)
  PROVE  /\ RowsOK(r, q) => RowsOK(r, q \o a)
         /\ \A n \in Nat : \A x : After(q, n, x) => After(q \o a, n, x)
<1>1. ASSUME NEW i \in DOMAIN (q \o a), (q \o a)[i].t # "ack"
      PROVE  i \in DOMAIN q /\ (q \o a)[i] = q[i]
  BY <1>1, SeqFacts DEF Acks
<1>2. RowsOK(r, q) => RowsOK(r, q \o a)
  BY <1>1 DEF RowsOK
<1>3. ASSUME NEW n \in Nat, NEW x, After(q, n, x) PROVE After(q \o a, n, x)
  BY <1>1, <1>3 DEF After
<1> QED BY <1>2, <1>3

\* A broadcast newer than all before it extends what is on a socket.
LEMMA AppendRowsFrame ==
  ASSUME NEW s, NEW q \in Seq(Frame), RowsOK(s, q), NEW f \in Frame, f.t = "rows",
         f.seq <= s.seq, Carries(s, f.rows, f.seq - 1, f.seq),
         \A i \in DOMAIN q : q[i].t = "rows" => q[i].seq < f.seq
  PROVE  /\ RowsOK(s, Append(q, f))
         /\ \A n \in Nat : \A x : x < f.seq /\ After(q, n, x) => After(Append(q, f), n, x)
<1>1. ASSUME NEW i \in DOMAIN Append(q, f)
      PROVE  \/ i \in DOMAIN q /\ Append(q, f)[i] = q[i]
             \/ i = Len(q) + 1 /\ Append(q, f)[i] = f
  OBVIOUS
<1>2. \A i \in DOMAIN q : i \in 1 .. Len(q)
  OBVIOUS
<1>3. Len(q) \in Nat
  OBVIOUS
<1>4. RowsOK(s, Append(q, f))
  <2>1. ASSUME NEW i \in DOMAIN Append(q, f), Append(q, f)[i].t = "rows"
        PROVE  /\ Append(q, f)[i].seq <= s.seq
               /\ Carries(s, Append(q, f)[i].rows, Append(q, f)[i].seq - 1, Append(q, f)[i].seq)
    BY <1>1, <2>1 DEF RowsOK
  <2>2. ASSUME NEW i \in DOMAIN Append(q, f), NEW j \in DOMAIN Append(q, f), i < j,
               Append(q, f)[i].t = "rows", Append(q, f)[j].t = "rows"
        PROVE  Append(q, f)[i].seq < Append(q, f)[j].seq
    <3>1. i \in DOMAIN q /\ Append(q, f)[i] = q[i]
      <4>1. CASE i = Len(q) + 1
        <5>1. j <= Len(q) + 1
          BY <1>1, <1>2, <1>3
        <5>2. j \in Nat
          BY <1>1, <1>2, <1>3
        <5> QED BY <1>3, <2>2, <4>1, <5>1, <5>2
      <4> QED BY <1>1, <4>1
    <3> QED BY <1>1, <2>2, <3>1 DEF RowsOK
  <2> QED BY <2>1, <2>2 DEF RowsOK
<1>5. ASSUME NEW n \in Nat, NEW x, x < f.seq, After(q, n, x)
      PROVE  After(Append(q, f), n, x)
  BY <1>1, <1>5 DEF After
<1> QED BY <1>4, <1>5

-----------------------------------------------------------------------------
(* A replica applies a frame *)

\* The hello's answer makes the replica complete up to the answer's seq.
LEMMA StateCompletes ==
  ASSUME NEW r \in Room, SeqsOK(r), NEW d \in Replica, Complete(r, d),
         NEW c, NEW m \in Frame, StateOK(r, d, m), NEW now
  PROVE  Complete(r, ApplyState(d, c, m.seq, m.full, m.rows, now))
<1> DEFINE e == ApplyState(d, c, m.seq, m.full, m.rows, now)
           lo == IF m.full THEN 0 ELSE d.cursor
<1>1. /\ m.seq \in Nat /\ m.full \in BOOLEAN /\ m.rows \in [Keys -> Row]
      /\ m.seq <= r.seq /\ Carries(r, m.rows, lo, m.seq)
  BY FrameTypes DEF StateOK
<1>2. /\ e.cursor = m.seq
      /\ e.auth = IF m.full /\ ~(m.seq < d.cursor) THEN m.rows
                                                   ELSE PutAuthoritative(d.auth, m.rows)
  BY <1>1, ApplyStateKeeps
<1>3. d.cursor \in Nat
  BY DEF Replica
<1>4. ASSUME NEW k \in Keys, Exists(r.rows[k]), r.rows[k].seq <= m.seq
      PROVE  e.auth[k] = r.rows[k]
  <2>1. r.rows[k].seq \in Nat /\ r.rows[k].seq > 0
    BY <1>4, RoomNats DEF SeqsOK
  <2>2. CASE r.rows[k].seq > lo
    <3>1. m.rows[k] = r.rows[k]
      BY <1>1, <1>4, <2>2 DEF Carries
    <3> QED BY <1>2, <1>4, <3>1 DEF PutAuthoritative
  <2>3. CASE ~(r.rows[k].seq > lo)
    <3>1. ~m.full /\ r.rows[k].seq <= d.cursor
      BY <1>1, <1>3, <2>1, <2>3
    <3>2. ~Exists(m.rows[k])
      BY <1>1, <1>4, <2>3 DEF Carries
    <3>3. d.auth[k] = r.rows[k]
      BY <1>4, <3>1 DEF Complete
    <3> QED BY <1>2, <3>1, <3>2, <3>3 DEF PutAuthoritative
  <2> QED BY <2>2, <2>3
<1> HIDE DEF e, lo
<1>5. Complete(r, e)
  BY <1>1, <1>2, <1>4 DEF Complete
<1> QED BY <1>5 DEF e

\* A broadcast newer than the cursor keeps the replica complete: across a gap
\* the cursor holds, and the frame touches nothing below it.
LEMMA RowsComplete ==
  ASSUME NEW r \in Room, SeqsOK(r), NEW d \in Replica, Complete(r, d),
         NEW n \in Nat, NEW rows \in [Keys -> Row], n <= r.seq, n > d.cursor,
         Carries(r, rows, n - 1, n)
  PROVE  Complete(r, ApplyRows(d, n, rows))
<1> DEFINE e == ApplyRows(d, n, rows)
<1>1. /\ e.cursor = IF n = d.cursor + 1 THEN n ELSE d.cursor
      /\ e.auth = PutAuthoritative(d.auth, rows)
  BY DEF ApplyRows, Replica
<1>2. d.cursor \in Nat
  BY DEF Replica
<1>3. ASSUME NEW k \in Keys, Exists(r.rows[k]), r.rows[k].seq <= e.cursor
      PROVE  e.auth[k] = r.rows[k]
  <2>1. r.rows[k].seq \in Nat
    BY RoomNats
  <2>2. CASE r.rows[k].seq = n
    <3>1. rows[k] = r.rows[k]
      BY <1>3, <2>1, <2>2 DEF Carries
    <3> QED BY <1>1, <1>3, <3>1 DEF PutAuthoritative
  <2>3. CASE r.rows[k].seq # n
    <3>1. r.rows[k].seq <= d.cursor
      BY <1>1, <1>2, <1>3, <2>1, <2>3
    <3>2. ~Exists(rows[k])
      BY <1>2, <1>3, <2>1, <3>1 DEF Carries
    <3>3. d.auth[k] = r.rows[k]
      BY <1>3, <3>1 DEF Complete
    <3> QED BY <1>1, <3>2, <3>3 DEF PutAuthoritative
  <2> QED BY <2>2, <2>3
<1>4. e.cursor <= r.seq
  BY <1>1 DEF Complete
<1> HIDE DEF e
<1>5. Complete(r, e)
  BY <1>3, <1>4 DEF Complete
<1> QED BY <1>5 DEF e

-----------------------------------------------------------------------------
(* The invariant is inductive *)

\* What the invariant says of one device.
DeviceOK(r, d, sv, cn, sk, up, down, h) ==
  /\ Complete(r, d)
  /\ Complete(r, sv)
  /\ RowsOK(r, down)
  /\ LinkOK(r, d, cn, sk, up, down)
  /\ h.ph = "idle"

\* CursorInv, device by device.
LEMMA InvUnfolds ==
  CursorInv <=>
    /\ SeqsOK(room)
    /\ \A c \in Devices : DeviceOK(room, doc[c], saved[c], conn[c], socket[c],
                                   c2s[c], s2c[c], http[c])
  BY DEF CursorInv, DeviceOK

\* A step of one device that leaves the room and the other devices alone.
OthersKeep(c) ==
  \A x \in Devices \ {c} :
    /\ doc'[x] = doc[x] /\ saved'[x] = saved[x] /\ conn'[x] = conn[x]
    /\ socket'[x] = socket[x] /\ c2s'[x] = c2s[x] /\ s2c'[x] = s2c[x]
    /\ http'[x] = http[x]

\* A step of one device that leaves it good keeps the invariant.
LEMMA OneDevice ==
  ASSUME CursorInv, NEW c \in Devices, room' = room, OthersKeep(c),
         DeviceOK(room, doc'[c], saved'[c], conn'[c], socket'[c], c2s'[c], s2c'[c], http'[c])
  PROVE  CursorInv'
<1>1. \A x \in Devices : DeviceOK(room', doc'[x], saved'[x], conn'[x], socket'[x],
                                  c2s'[x], s2c'[x], http'[x])
  BY InvUnfolds DEF OthersKeep
<1>2. SeqsOK(room')
  BY InvUnfolds
<1> QED BY <1>1, <1>2 DEF CursorInv, DeviceOK

\* A replica whose rows and cursor are as they were.
LEMMA SameDevice ==
  ASSUME NEW r, NEW d, NEW e, e.auth = d.auth, e.cursor = d.cursor, NEW sv,
         NEW cn, NEW sk, NEW up, NEW down, NEW h,
         DeviceOK(r, d, sv, cn, sk, up, down, h)
  PROVE  /\ DeviceOK(r, e, sv, cn, sk, up, down, h)
         /\ DeviceOK(r, e, e, cn, sk, up, down, h)
  BY SameComplete, SameLink DEF DeviceOK

\* A device without a connection.
LEMMA DownOK ==
  ASSUME NEW r, NEW d, NEW sv, Complete(r, d), Complete(r, sv), NEW h, h.ph = "idle"
  PROVE  DeviceOK(r, d, sv, "down", "closed", <<>>, <<>>, h)
<1>1. RowsOK(r, <<>>)
  BY DEF RowsOK
<1>2. LinkOK(r, d, "down", "closed", <<>>, <<>>)
  BY DEF LinkOK
<1> QED BY <1>1, <1>2 DEF DeviceOK

\* Without a transport the HTTPS cycle never starts.
LEMMA NeverSpawned ==
  ASSUME ~HasTransport, NEW h, h.ph = "idle"
  PROVE  Spawned(h) = h /\ Spawned(IdleHttp).ph = "idle"
  BY DEF Spawned, IdleHttp

\* Local writes, the save and the crash keep CursorInv.
LEMMA LocalCursor ==
  ASSUME ~HasTransport, TypeOK, CursorInv, NEW c \in Devices, LocalStep(c)
  PROVE  CursorInv'
<1>d. /\ doc[c] \in Replica /\ saved[c] \in Replica
      /\ DeviceOK(room, doc[c], saved[c], conn[c], socket[c], c2s[c], s2c[c], http[c])
  BY InvUnfolds DEF TypeOK
<1>1. ASSUME NEW d, d.auth = doc[c].auth, d.cursor = doc[c].cursor, Mutate(c, d)
      PROVE  CursorInv'
  <2>1. DeviceOK(room, d, saved[c], conn[c], socket[c], c2s[c], s2c[c], http[c])
    BY <1>d, <1>1, SameDevice
  <2>2. /\ doc' = [doc EXCEPT ![c] = d]
        /\ UNCHANGED <<room, saved, conn, socket, c2s, s2c, http>>
    BY <1>1 DEF Mutate
  <2>3. OthersKeep(c)
    BY <2>2 DEF OthersKeep, TypeOK
  <2>4. doc'[c] = d
    BY <2>2 DEF TypeOK
  <2> QED BY <2>1, <2>2, <2>3, <2>4, OneDevice
<1>2. Times \subseteq Nat
  BY SyncAssumption
<1>3. CASE Upsert(c)
  <2>1. PICK k \in WriteKeys, x \in Sets, now \in Times :
               Mutate(c, Write(doc[c], c, k, "upsert", x, now))
    BY <1>3 DEF Upsert
  <2> QED BY <1>d, <1>1, <1>2, <2>1, WritesKeep
<1>4. CASE Update(c)
  <2>1. PICK k \in WriteKeys, x \in Sets, now \in Times :
               Mutate(c, Write(doc[c], c, k, "update", x, now))
    BY <1>4 DEF Update
  <2> QED BY <1>d, <1>1, <1>2, <2>1, WritesKeep
<1>5. CASE Delete(c)
  <2>1. PICK ks \in (SUBSET WriteKeys) \ {{}}, now \in Times :
               Mutate(c, DeleteRows(doc[c], c, ks, now))
    BY <1>5 DEF Delete
  <2> QED BY <1>d, <1>1, <1>2, <2>1, WritesKeep
<1>6. CASE SaveSnapshot(c)
  <2>1. DeviceOK(room, doc[c], doc[c], conn[c], socket[c], c2s[c], s2c[c], http[c])
    BY <1>d DEF DeviceOK
  <2>2. /\ saved' = [saved EXCEPT ![c] = doc[c]]
        /\ UNCHANGED <<room, doc, conn, socket, c2s, s2c, http>>
    BY <1>6 DEF SaveSnapshot
  <2>3. OthersKeep(c)
    BY <2>2 DEF OthersKeep, TypeOK
  <2>4. saved'[c] = doc[c]
    BY <2>2 DEF TypeOK
  <2> QED BY <2>1, <2>2, <2>3, <2>4, OneDevice
<1>7. CASE Crash(c)
  <2>1. PICK now \in Times : /\ doc' = [doc EXCEPT ![c] = Boot(saved[c], c, now)]
                             /\ saved' = [saved EXCEPT ![c] = Boot(saved[c], c, now)]
    BY <1>7 DEF Crash
  <2>2. Complete(room, Boot(saved[c], c, now))
    BY <1>d, BootKeeps, SameComplete DEF DeviceOK
  <2>3. Spawned(IdleHttp).ph = "idle"
    BY <1>d, NeverSpawned DEF DeviceOK
  <2>4. DeviceOK(room, Boot(saved[c], c, now), Boot(saved[c], c, now), "down", "closed",
                 <<>>, <<>>, Spawned(IdleHttp))
    BY <2>2, <2>3, DownOK
  <2>5. /\ conn' = [conn EXCEPT ![c] = "down"] /\ socket' = [socket EXCEPT ![c] = "closed"]
        /\ c2s' = [c2s EXCEPT ![c] = <<>>] /\ s2c' = [s2c EXCEPT ![c] = <<>>]
        /\ http' = [http EXCEPT ![c] = Spawned(IdleHttp)] /\ room' = room
    BY <1>7 DEF Crash
  <2>6. OthersKeep(c)
    BY <2>1, <2>5 DEF OthersKeep, TypeOK
  <2>7. /\ doc'[c] = Boot(saved[c], c, now) /\ saved'[c] = Boot(saved[c], c, now)
        /\ conn'[c] = "down" /\ socket'[c] = "closed" /\ c2s'[c] = <<>> /\ s2c'[c] = <<>>
        /\ http'[c] = Spawned(IdleHttp)
    BY <2>1, <2>5 DEF TypeOK
  <2> QED BY <2>4, <2>5, <2>6, <2>7, OneDevice
<1> QED BY <1>3, <1>4, <1>5, <1>6, <1>7 DEF LocalStep

\* A session that ends with a complete replica.
LEMMA EndCursor ==
  ASSUME ~HasTransport, TypeOK, CursorInv, NEW c \in Devices, NEW d \in Replica,
         Complete(room, d), EndSession(c, d), UNCHANGED <<room, saved>>
  PROVE  CursorInv'
<1>1. http[c].ph = "idle" /\ Complete(room, saved[c])
  BY DEF CursorInv
<1>2. Complete(room, MarkDisconnected(d))
  BY MarksKeep, SameComplete
<1>3. DeviceOK(room, MarkDisconnected(d), saved[c], "down", "closed", <<>>, <<>>, http[c])
  BY <1>1, <1>2, DownOK
<1>4. Spawned(http[c]) = http[c]
  BY <1>1, NeverSpawned
<1>5. /\ doc' = [doc EXCEPT ![c] = MarkDisconnected(d)]
      /\ conn' = [conn EXCEPT ![c] = "down"] /\ socket' = [socket EXCEPT ![c] = "closed"]
      /\ c2s' = [c2s EXCEPT ![c] = <<>>] /\ s2c' = [s2c EXCEPT ![c] = <<>>]
      /\ http' = [http EXCEPT ![c] = http[c]]
  BY <1>4 DEF EndSession
<1>6. OthersKeep(c)
  BY <1>5 DEF OthersKeep, TypeOK
<1>7. /\ doc'[c] = MarkDisconnected(d) /\ saved'[c] = saved[c]
      /\ conn'[c] = "down" /\ socket'[c] = "closed" /\ c2s'[c] = <<>> /\ s2c'[c] = <<>>
      /\ http'[c] = http[c]
  BY <1>5 DEF TypeOK
<1> QED BY <1>3, <1>6, <1>7, OneDevice

\* The steps of the session actor keep CursorInv.
LEMMA SessionCursor ==
  ASSUME ~HasTransport, TypeOK, CursorInv, NEW c \in Devices, SessionStep(c)
  PROVE  CursorInv'
<1>d. /\ doc[c] \in Replica /\ saved[c] \in Replica /\ s2c[c] \in Seq(Frame) /\ room \in Room
      /\ Complete(room, doc[c]) /\ Complete(room, saved[c]) /\ RowsOK(room, s2c[c])
      /\ LinkOK(room, doc[c], conn[c], socket[c], c2s[c], s2c[c])
      /\ http[c].ph = "idle" /\ SeqsOK(room)
  BY DEF TypeOK, CursorInv
<1>0. conn[c] \in {"down", "hello", "pushing", "up"} /\ socket[c] \in {"new", "ready", "closed"}
  BY DEF TypeOK
<1>1. CASE Dial(c)
  <2> DEFINE up == <<[t |-> "hello", cursor |-> HelloCursor(doc[c])]>>
  <2>1. /\ conn[c] = "down" /\ conn' = [conn EXCEPT ![c] = "hello"]
        /\ socket' = [socket EXCEPT ![c] = "new"] /\ c2s' = [c2s EXCEPT ![c] = up]
        /\ UNCHANGED <<room, doc, saved, s2c, http>>
    BY <1>1 DEF Dial
  <2>2. s2c[c] = <<>>
    BY <1>d, <2>1 DEF LinkOK
  <2>3. HelloCursor(doc[c]) \in {NoCursor, doc[c].cursor}
    BY DEF HelloCursor
  <2>4. LinkOK(room, doc[c], "hello", "new", up, <<>>)
    BY <2>3 DEF LinkOK
  <2>5. DeviceOK(room, doc[c], saved[c], "hello", "new", up, <<>>, http[c])
    BY <1>d, <2>2, <2>4 DEF DeviceOK
  <2> HIDE DEF up
  <2>6. OthersKeep(c)
    BY <2>1 DEF OthersKeep, TypeOK
  <2>7. conn'[c] = "hello" /\ socket'[c] = "new" /\ c2s'[c] = up
    BY <2>1 DEF TypeOK
  <2> QED BY <2>1, <2>2, <2>5, <2>6, <2>7, OneDevice
<1>2. CASE RecvState(c)
  <2> DEFINE m == Head(s2c[c])
  <2>1. conn[c] = "hello" /\ s2c[c] # <<>> /\ s2c' = [s2c EXCEPT ![c] = Tail(s2c[c])]
        /\ UNCHANGED <<room, saved, socket, c2s, http>>
    BY <1>2 DEF RecvState
  <2>2. socket[c] = "ready"
    BY <1>d, <2>1 DEF LinkOK
  <2>3. m = s2c[c][1] /\ m \in Frame
    BY <1>d, <2>1, TailFacts
  <2>4. StateOK(room, doc[c], m) /\ After(s2c[c], 2, m.seq)
    BY <1>d, <2>1, <2>2, <2>3 DEF LinkOK
  <2>5. m.seq \in Nat /\ m.full \in BOOLEAN /\ m.rows \in [Keys -> Row]
    BY <2>3, <2>4, FrameTypes DEF StateOK
  <2>6. PICK now \in Times :
          LET d == ApplyState(doc[c], c, m.seq, m.full, m.rows, now)
          IN  doc' = [doc EXCEPT ![c] = TakePushable(d)] /\ StartPush(c, Pushable(d))
    BY <1>2 DEF RecvState
  <2> DEFINE d == ApplyState(doc[c], c, m.seq, m.full, m.rows, now)
             e == TakePushable(d)
  <2>7. d \in Replica
    BY <1>d, <2>5, ApplyStateType, SyncAssumption
  <2>8. Complete(room, d)
    BY <1>d, <2>3, <2>4, StateCompletes
  <2>9. d.cursor = m.seq
    BY <1>d, <2>5, ApplyStateKeeps
  <2>10. doc' = [doc EXCEPT ![c] = e] /\ StartPush(c, Pushable(d))
    BY <2>6
  <2> HIDE DEF m, d
  <2>11. Complete(room, e) /\ e.cursor = m.seq
    BY <2>7, <2>8, <2>9, MarksKeep, SameComplete
  <2> HIDE DEF e
  <2>12. After(Tail(s2c[c]), 1, e.cursor)
    BY <1>d, <2>1, <2>4, <2>11, TailAfter
  <2>13. RowsOK(room, Tail(s2c[c]))
    BY <1>d, <2>1, TailRows
  <2>14. conn'[c] \in {"pushing", "up"} /\ s2c'[c] = Tail(s2c[c]) /\ doc'[c] = e
    BY <2>1, <2>10 DEF StartPush, TypeOK
  <2>15. LinkOK(room, e, conn'[c], "ready", c2s[c], Tail(s2c[c]))
    BY <1>d, <2>2, <2>12, <2>14 DEF LinkOK
  <2>16. DeviceOK(room, e, saved[c], conn'[c], "ready", c2s[c], Tail(s2c[c]), http[c])
    BY <1>d, <2>11, <2>13, <2>15 DEF DeviceOK
  <2>17. OthersKeep(c)
    BY <2>1, <2>10 DEF OthersKeep, StartPush, TypeOK
  <2> QED BY <2>1, <2>2, <2>14, <2>16, <2>17, OneDevice
<1>3. CASE SendPush(c)
  <2> DEFINE f == [t |-> "push", push |-> Oldest(sending[c])]
  <2>1. /\ conn[c] = "pushing" /\ c2s' = [c2s EXCEPT ![c] = Append(c2s[c], f)]
        /\ UNCHANGED <<room, doc, saved, socket, s2c, http>>
    BY <1>3 DEF SendPush
  <2>2. conn'[c] \in {"pushing", "up"}
    BY <1>3 DEF SendPush, StartPush, TypeOK
  <2>3. socket[c] = "ready" /\ \A i \in DOMAIN c2s[c] : c2s[c][i].t = "push"
    BY <1>d, <1>0, <2>1 DEF LinkOK
  <2>4. c2s[c] \in Seq(ClientFrame)
    BY DEF TypeOK
  <2>5. f.t = "push"
    OBVIOUS
  <2> HIDE DEF f
  <2>6. \A i \in DOMAIN Append(c2s[c], f) : Append(c2s[c], f)[i].t = "push"
    BY <2>3, <2>4, <2>5
  <2>7. LinkOK(room, doc[c], conn'[c], "ready", Append(c2s[c], f), s2c[c])
    BY <1>d, <2>1, <2>2, <2>3, <2>6 DEF LinkOK
  <2>8. DeviceOK(room, doc[c], saved[c], conn'[c], "ready", Append(c2s[c], f), s2c[c], http[c])
    BY <1>d, <2>7 DEF DeviceOK
  <2>9. OthersKeep(c) /\ c2s'[c] = Append(c2s[c], f)
    BY <1>3, <2>1 DEF OthersKeep, SendPush, StartPush, TypeOK
  <2> QED BY <2>1, <2>3, <2>8, <2>9, OneDevice
<1>4. CASE Nudge(c)
  <2>1. /\ conn[c] = "up" /\ doc' = [doc EXCEPT ![c] = TakePushable(doc[c])]
        /\ UNCHANGED <<room, saved, socket, c2s, s2c, http>>
    BY <1>4 DEF Nudge
  <2>2. conn'[c] \in {"pushing", "up"}
    BY <1>4 DEF Nudge, StartPush, TypeOK
  <2>3. LinkOK(room, doc[c], conn'[c], socket[c], c2s[c], s2c[c])
    BY <1>d, <2>1, <2>2 DEF LinkOK
  <2>4. DeviceOK(room, doc[c], saved[c], conn'[c], socket[c], c2s[c], s2c[c], http[c])
    BY <1>d, <2>3 DEF DeviceOK
  <2>5. DeviceOK(room, TakePushable(doc[c]), saved[c], conn'[c], socket[c], c2s[c], s2c[c], http[c])
    BY <1>d, <2>4, MarksKeep, SameDevice
  <2>6. OthersKeep(c) /\ doc'[c] = TakePushable(doc[c])
    BY <1>4, <2>1 DEF OthersKeep, Nudge, StartPush, TypeOK
  <2> QED BY <2>1, <2>5, <2>6, OneDevice
<1>5. CASE RecvRows(c)
  <2> DEFINE m == Head(s2c[c])
             d == ApplyRows(doc[c], m.seq, m.rows)
  <2>1. conn[c] = "up" /\ s2c[c] # <<>> /\ m.t = "rows" /\ UNCHANGED <<room, saved>>
    BY <1>5 DEF RecvRows
  <2>2. m = s2c[c][1] /\ m \in Frame /\ 1 \in DOMAIN s2c[c]
    BY <1>d, <2>1, TailFacts
  <2>3. m.seq \in Nat /\ m.rows \in [Keys -> Row]
    BY <2>1, <2>2, FrameTypes
  <2>4. m.seq <= room.seq /\ Carries(room, m.rows, m.seq - 1, m.seq)
    BY <1>d, <2>1, <2>2 DEF RowsOK
  <2>5. m.seq > doc[c].cursor
    BY <1>d, <2>1, <2>2 DEF LinkOK, After
  <2>6. Complete(room, d) /\ d \in Replica
    BY <1>d, <2>3, <2>4, <2>5, RowsComplete, ApplyRowsType
  <2>7. CASE Gap(doc[c], m.seq)
    <3>1. EndSession(c, d)
      BY <1>5, <2>7 DEF RecvRows
    <3> HIDE DEF d
    <3> QED BY <2>1, <2>6, <3>1, EndCursor
  <2>8. CASE ~Gap(doc[c], m.seq)
    <3>1. /\ doc' = [doc EXCEPT ![c] = d] /\ s2c' = [s2c EXCEPT ![c] = Tail(s2c[c])]
          /\ UNCHANGED <<conn, socket, c2s, http>>
      BY <1>5, <2>8 DEF RecvRows
    <3>2. d.cursor \in Nat /\ d.cursor <= m.seq
      BY <1>d, <2>3, <2>5 DEF ApplyRows, Replica
    <3> HIDE DEF d
    <3>3. ASSUME NEW i \in DOMAIN Tail(s2c[c]), i >= 1
          PROVE  /\ Tail(s2c[c])[i].t # "state"
                 /\ Tail(s2c[c])[i].t = "rows" => Tail(s2c[c])[i].seq > d.cursor
      <4>1. i + 1 \in DOMAIN s2c[c] /\ Tail(s2c[c])[i] = s2c[c][i + 1] /\ i \in Nat
        BY <1>d, <2>1, TailFacts
      <4>2. s2c[c][i + 1] \in Frame /\ 1 < i + 1 /\ i + 1 >= 1
        BY <1>d, <3>3, <4>1
      <4>3. s2c[c][i + 1].t # "state"
        BY <1>d, <2>1, <4>1, <4>2 DEF LinkOK, After
      <4>4. ASSUME s2c[c][i + 1].t = "rows" PROVE s2c[c][i + 1].seq > d.cursor
        <5>1. s2c[c][1].seq < s2c[c][i + 1].seq
          BY <1>d, <2>1, <2>2, <4>1, <4>2, <4>4 DEF RowsOK
        <5>2. s2c[c][i + 1].seq \in Nat
          BY <4>2, <4>4, FrameTypes
        <5> QED BY <2>2, <2>3, <3>2, <5>1, <5>2
      <4> QED BY <4>1, <4>3, <4>4
    <3>4. After(Tail(s2c[c]), 1, d.cursor)
      BY <3>3 DEF After
    <3>5. RowsOK(room, Tail(s2c[c]))
      BY <1>d, <2>1, TailRows
    <3>6. socket[c] = "ready" /\ \A i \in DOMAIN c2s[c] : c2s[c][i].t = "push"
      BY <1>d, <1>0, <2>1 DEF LinkOK
    <3>7. LinkOK(room, d, "up", "ready", c2s[c], Tail(s2c[c]))
      BY <3>4, <3>6 DEF LinkOK
    <3>8. DeviceOK(room, d, saved[c], "up", "ready", c2s[c], Tail(s2c[c]), http[c])
      BY <1>d, <2>6, <3>5, <3>7 DEF DeviceOK
    <3>9. OthersKeep(c) /\ doc'[c] = d /\ s2c'[c] = Tail(s2c[c])
      BY <2>1, <3>1 DEF OthersKeep, TypeOK
    <3> QED BY <2>1, <3>1, <3>6, <3>8, <3>9, OneDevice
  <2> QED BY <2>7, <2>8
<1>6. CASE RecvAck(c)
  <2> DEFINE d == AckBatch(doc[c], Head(s2c[c]).batch)
  <2>1. /\ conn[c] = "up" /\ s2c[c] # <<>>
        /\ doc' = [doc EXCEPT ![c] = d]
        /\ s2c' = [s2c EXCEPT ![c] = Tail(s2c[c])]
        /\ UNCHANGED <<room, saved, conn, socket, c2s, http>>
    BY <1>6 DEF RecvAck
  <2>2. d.auth = doc[c].auth /\ d.cursor = doc[c].cursor
    BY <1>d, MarksKeep
  <2> HIDE DEF d
  <2>3. socket[c] = "ready" /\ \A i \in DOMAIN c2s[c] : c2s[c][i].t = "push"
    BY <1>d, <1>0, <2>1 DEF LinkOK
  <2>4. After(s2c[c], 1, doc[c].cursor)
    BY <1>d, <2>1 DEF LinkOK
  <2>5. After(Tail(s2c[c]), 1, doc[c].cursor)
    <3>1. ASSUME NEW i \in DOMAIN Tail(s2c[c]), i >= 1
          PROVE  i + 1 \in DOMAIN s2c[c] /\ Tail(s2c[c])[i] = s2c[c][i + 1] /\ i + 1 >= 1
      BY <1>d, <2>1, TailFacts
    <3> QED BY <2>4, <3>1 DEF After
  <2>6. RowsOK(room, Tail(s2c[c]))
    BY <1>d, <2>1, TailRows
  <2>7. LinkOK(room, doc[c], "up", "ready", c2s[c], Tail(s2c[c]))
    BY <2>3, <2>5 DEF LinkOK
  <2>8. DeviceOK(room, doc[c], saved[c], "up", "ready", c2s[c], Tail(s2c[c]), http[c])
    BY <1>d, <2>6, <2>7 DEF DeviceOK
  <2>9. DeviceOK(room, d, saved[c], "up", "ready", c2s[c], Tail(s2c[c]), http[c])
    BY <2>2, <2>8, SameDevice
  <2>10. OthersKeep(c) /\ doc'[c] = d /\ s2c'[c] = Tail(s2c[c])
    BY <2>1 DEF OthersKeep, TypeOK
  <2> QED BY <2>1, <2>3, <2>9, <2>10, OneDevice
<1>7. CASE RecvClose(c)
  <2>1. EndSession(c, doc[c]) /\ UNCHANGED <<room, saved>>
    BY <1>7 DEF RecvClose
  <2> QED BY <1>d, <2>1, EndCursor
<1> QED BY <1>1, <1>2, <1>3, <1>4, <1>5, <1>6, <1>7 DEF SessionStep

\* Without a transport the HTTPS cycle takes no step.
LEMMA HttpCursor ==
  ASSUME CursorInv, NEW c \in Devices,
         HttpStep(c) \/ HttpPushFails(c) \/ HttpPullFails(c) \/ RoomPost(c) \/ RoomRows(c)
  PROVE  FALSE
<1>1. http[c].ph = "idle"
  BY DEF CursorInv
<1> QED BY <1>1 DEF HttpStep, HttpTake, HttpAck, HttpPull, HttpApply, HttpPushFails,
                    HttpPullFails, RoomPost, RoomRows

\* Lost sockets and failed dials keep CursorInv.
LEMMA FailureCursor ==
  ASSUME ~HasTransport, TypeOK, CursorInv, NEW c \in Devices, Failure(c)
  PROVE  CursorInv'
<1>d. doc[c] \in Replica /\ Complete(room, doc[c]) /\ http[c].ph = "idle"
  BY DEF TypeOK, CursorInv
<1>1. CASE Disconnect(c)
  <2>1. EndSession(c, doc[c]) /\ UNCHANGED <<room, saved>>
    BY <1>1 DEF Disconnect
  <2> QED BY <1>d, <2>1, EndCursor
<1>2. CASE DialFails(c)
  <2>1. http' = http
    BY <1>d, <1>2, NeverSpawned DEF DialFails, TypeOK
  <2>2. UNCHANGED <<room, doc, saved, conn, socket, c2s, s2c>>
    BY <1>2 DEF DialFails
  <2> QED BY <2>1, <2>2 DEF CursorInv
<1> QED BY <1>1, <1>2, HttpCursor DEF Failure

\* A step of the room that sends nothing.
LEMMA QuietRoom ==
  ASSUME TypeOK, TypeOK', CursorInv, Advance(room, room'), SeqsOK(room'),
         UNCHANGED <<doc, saved, conn, socket, c2s, s2c, http>>
  PROVE  CursorInv'
<1>1. room \in Room /\ room' \in Room
  BY DEF TypeOK
<1>2. ASSUME NEW c \in Devices
      PROVE  DeviceOK(room', doc[c], saved[c], conn[c], socket[c], c2s[c], s2c[c], http[c])
  <2>1. doc[c] \in Replica /\ saved[c] \in Replica /\ s2c[c] \in Seq(Frame)
    BY DEF TypeOK
  <2>2. DeviceOK(room, doc[c], saved[c], conn[c], socket[c], c2s[c], s2c[c], http[c])
    BY InvUnfolds
  <2> QED BY <1>1, <2>1, <2>2, AdvanceComplete, AdvanceRows, AdvanceLink DEF DeviceOK
<1> QED BY <1>2 DEF CursorInv, DeviceOK

\* The broadcast of a batch, with acks behind it, to every ready socket that
\* does not miss it.
LEMMA PublishCursor ==
  ASSUME TypeOK, TypeOK', CursorInv, NEW ops \in [Keys -> Op],
         NEW reply \in [Devices -> Seq(Frame)],
         \A c \in Devices : Acks(reply[c]) /\ (socket[c] # "ready" => reply[c] = <<>>),
         Publish(ops, reply)
  PROVE  /\ SeqsOK(room')
         /\ \A c \in Devices : DeviceOK(room', doc[c], saved[c], conn[c], socket[c],
                                        c2s[c], s2c'[c], http[c])
<1> DEFINE f == [t |-> "rows", seq |-> room'.seq, rows |-> MergedRows(room, ops)]
<1>1. room \in Room /\ room' \in Room /\ room' = ApplyPushBatch(room, ops) /\ SeqsOK(room)
  BY DEF TypeOK, Publish, CursorInv
<1>2. /\ Advance(room, room') /\ SeqsOK(room')
      /\ Touched(room, ops) # {} =>
           /\ room'.seq = room.seq + 1
           /\ Carries(room', MergedRows(room, ops), room.seq, room.seq + 1)
  BY <1>1, PushAdvances
<1>3. PICK missed : s2c' = [c \in Devices |->
         (IF socket[c] = "ready" /\ c \notin missed /\ Touched(room, ops) # {}
            THEN Append(s2c[c], f) ELSE s2c[c]) \o reply[c]]
  BY DEF Publish
<1>4. f \in Frame /\ f.t = "rows" /\ f.seq = room'.seq /\ f.rows = MergedRows(room, ops)
  <2>1. room'.seq \in Nat /\ MergedRows(room, ops) \in [Keys -> Row]
    BY <1>1, ApplyPushBatchType DEF Room
  <2> QED BY <2>1 DEF Frame
<1> HIDE DEF f
<1>5. ASSUME NEW c \in Devices
      PROVE  DeviceOK(room', doc[c], saved[c], conn[c], socket[c], c2s[c], s2c'[c], http[c])
  <2> DEFINE d == doc[c]
             q == s2c[c]
  <2>1. d \in Replica /\ saved[c] \in Replica /\ q \in Seq(Frame) /\ reply[c] \in Seq(Frame)
    BY DEF TypeOK
  <2>2. DeviceOK(room, d, saved[c], conn[c], socket[c], c2s[c], q, http[c])
    BY InvUnfolds
  <2>3. /\ Complete(room', d) /\ Complete(room', saved[c])
        /\ RowsOK(room', q) /\ LinkOK(room', d, conn[c], socket[c], c2s[c], q)
    BY <1>1, <1>2, <2>1, <2>2, AdvanceComplete, AdvanceRows, AdvanceLink DEF DeviceOK
  <2>4. ASSUME NEW p \in Seq(Frame), p = q \/ (socket[c] = "ready" /\ p = Append(q, f)
                                                /\ Touched(room, ops) # {})
        PROVE  /\ RowsOK(room', p)
               /\ socket[c] # "ready" => p = <<>>
               /\ socket[c] = "ready" /\ conn[c] = "hello" =>
                    p # <<>> /\ p[1] = q[1] /\ After(p, 2, q[1].seq)
               /\ conn[c] \in {"pushing", "up"} => After(p, 1, d.cursor)
    <3>1. CASE p = q
      BY <2>3, <3>1 DEF LinkOK
    <3>2. CASE socket[c] = "ready" /\ p = Append(q, f) /\ Touched(room, ops) # {}
      <4>1. room.seq \in Nat /\ room'.seq = room.seq + 1 /\ f.seq = room.seq + 1
        BY <1>1, <1>2, <1>4, <3>2, RoomNats
      <4>2. Carries(room', f.rows, f.seq - 1, f.seq)
        <5>1. f.seq - 1 = room.seq
          BY <4>1
        <5> QED BY <1>2, <1>4, <3>2, <4>1, <5>1
      <4>3. ASSUME NEW i \in DOMAIN q, q[i].t = "rows" PROVE q[i].seq < f.seq
        <5>1. q[i] \in Frame
          BY <2>1
        <5>2. q[i].seq \in Nat
          BY <4>3, <5>1, FrameTypes
        <5>3. q[i].seq <= room.seq
          BY <2>2, <4>3 DEF DeviceOK, RowsOK
        <5> QED BY <4>1, <5>2, <5>3
      <4>4. f.seq <= room'.seq
        BY <4>1
      <4>5. /\ RowsOK(room', p)
            /\ \A n \in Nat : \A x : x < f.seq /\ After(q, n, x) => After(p, n, x)
        BY <1>4, <2>1, <2>3, <3>2, <4>2, <4>3, <4>4, AppendRowsFrame
      <4>6. ASSUME conn[c] = "hello"
            PROVE  p # <<>> /\ p[1] = q[1] /\ After(p, 2, q[1].seq)
        <5>1. q # <<>> /\ StateOK(room, d, q[1]) /\ After(q, 2, q[1].seq)
          BY <2>2, <3>2, <4>6 DEF DeviceOK, LinkOK
        <5>2. q[1] \in Frame
          BY <2>1, <5>1
        <5>3. q[1].seq \in Nat /\ q[1].seq <= room.seq
          BY <5>1, <5>2, FrameTypes DEF StateOK
        <5>4. q[1].seq < f.seq
          BY <4>1, <5>3
        <5>5. p # <<>> /\ p[1] = q[1]
          BY <2>1, <3>2, <5>1
        <5> QED BY <4>5, <5>1, <5>4, <5>5
      <4>7. ASSUME conn[c] \in {"pushing", "up"} PROVE After(p, 1, d.cursor)
        <5>1. After(q, 1, d.cursor)
          BY <2>2, <4>7 DEF DeviceOK, LinkOK
        <5>2. d.cursor \in Nat /\ d.cursor <= room.seq
          BY <2>1, <2>2 DEF DeviceOK, Complete, Replica
        <5>3. d.cursor < f.seq
          BY <4>1, <5>2
        <5> QED BY <4>5, <5>1, <5>3
      <4> QED BY <3>2, <4>5, <4>6, <4>7
    <3> QED BY <2>4, <3>1, <3>2
  <2>5. PICK p \in Seq(Frame) :
          /\ p = q \/ (socket[c] = "ready" /\ p = Append(q, f) /\ Touched(room, ops) # {})
          /\ s2c'[c] = p \o reply[c]
    <3>1. q \in Seq(Frame) /\ Append(q, f) \in Seq(Frame)
      BY <1>4, <2>1
    <3> QED BY <1>3, <3>1
  <2>6. Acks(reply[c]) /\ (socket[c] # "ready" => reply[c] = <<>>)
    OBVIOUS
  <2>7. RowsOK(room', s2c'[c])
    BY <2>1, <2>4, <2>5, <2>6, AppendAcks
  <2>8. \A n \in Nat : \A x : After(p, n, x) => After(s2c'[c], n, x)
    BY <2>1, <2>5, <2>6, AppendAcks
  <2>9. p # <<>> => s2c'[c] # <<>> /\ s2c'[c][1] = p[1]
    BY <2>1, <2>5, SeqFacts
  <2>10. socket[c] # "ready" => s2c'[c] = <<>>
    BY <2>1, <2>4, <2>5, <2>6
  <2>11. ASSUME socket[c] = "ready", conn[c] = "hello"
         PROVE  /\ s2c'[c] # <<>> /\ StateOK(room', d, s2c'[c][1])
                /\ After(s2c'[c], 2, s2c'[c][1].seq)
    <3>1. p # <<>> /\ p[1] = q[1] /\ After(p, 2, q[1].seq)
      BY <2>4, <2>5, <2>11
    <3>2. StateOK(room', d, q[1])
      BY <2>3, <2>11 DEF LinkOK
    <3> QED BY <2>8, <2>9, <3>1, <3>2
  <2>12. ASSUME conn[c] \in {"pushing", "up"} PROVE After(s2c'[c], 1, d.cursor)
    BY <2>4, <2>5, <2>8, <2>12
  <2>13. LinkOK(room', d, conn[c], socket[c], c2s[c], s2c'[c])
    BY <2>3, <2>10, <2>11, <2>12 DEF LinkOK
  <2> QED BY <2>2, <2>3, <2>7, <2>13 DEF DeviceOK
<1> QED BY <1>2, <1>5

\* The room's answer to a hello, Carries with its cursor.
LEMMA AnswerCarries ==
  ASSUME NEW r \in Room, SeqsOK(r), NEW d \in Replica, Complete(r, d),
         NEW x \in {NoCursor, d.cursor}, NEW a, a = Answer(r, x)
  PROVE  a.seq = r.seq /\ Carries(r, a.rows, IF a.full THEN 0 ELSE d.cursor, a.seq)
<1>1. a.seq = r.seq /\ a.full = NeedsFull(r, x)
      /\ a.rows = RowsSince(r, IF NeedsFull(r, x) THEN 0 ELSE x)
  BY DEF Answer
<1>2. ~NeedsFull(r, x) => x = d.cursor
  BY DEF NeedsFull
<1>3. a.rows = RowsSince(r, IF a.full THEN 0 ELSE d.cursor)
  BY <1>1, <1>2
<1>4. d.cursor \in Nat /\ ~Exists(NoRow)
  BY DEF Replica, Exists, NoRow
<1>5. ASSUME NEW lo \in Nat PROVE Carries(r, RowsSince(r, lo), lo, r.seq)
  BY <1>4, RoomNats DEF Carries, RowsSince
<1> QED BY <1>1, <1>3, <1>4, <1>5

\* The room's answers to a hello and to a push keep CursorInv.
LEMMA RoomStepCursor ==
  ASSUME TypeOK, TypeOK', CursorInv, NEW c \in Devices, RoomStep(c)
  PROVE  CursorInv'
<1>d. /\ doc[c] \in Replica /\ room \in Room /\ c2s[c] \in Seq(ClientFrame)
      /\ s2c[c] \in Seq(Frame) /\ socket[c] \in {"new", "ready", "closed"}
      /\ Complete(room, doc[c]) /\ Complete(room, saved[c]) /\ SeqsOK(room)
      /\ LinkOK(room, doc[c], conn[c], socket[c], c2s[c], s2c[c])
      /\ RowsOK(room, s2c[c]) /\ http[c].ph = "idle"
  BY DEF TypeOK, CursorInv
<1>1. CASE RoomHello(c)
  <2> DEFINE x == Head(c2s[c]).cursor
             a == Answer(room, x)
             f == [t |-> "state", seq |-> a.seq, full |-> a.full, rows |-> a.rows]
  <2>1. /\ socket[c] # "closed" /\ c2s[c] # <<>> /\ Head(c2s[c]).t = "hello"
        /\ s2c' = [s2c EXCEPT ![c] = Append(s2c[c], f)]
        /\ socket' = [socket EXCEPT ![c] = "ready"]
        /\ c2s' = [c2s EXCEPT ![c] = Tail(c2s[c])]
        /\ UNCHANGED <<room, doc, saved, conn, http>>
    BY <1>1 DEF RoomHello
  <2>2. socket[c] = "new"
    <3>1. Head(c2s[c]) = c2s[c][1] /\ 1 \in DOMAIN c2s[c]
      BY <1>d, <2>1
    <3> QED BY <1>d, <2>1, <3>1 DEF LinkOK
  <2>3. conn[c] = "hello" /\ s2c[c] = <<>> /\ x \in {NoCursor, doc[c].cursor} /\ Tail(c2s[c]) = <<>>
    <3>1. conn[c] = "hello" /\ s2c[c] = <<>>
      BY <1>d, <2>2 DEF LinkOK
    <3>2. PICK y \in {NoCursor, doc[c].cursor} : c2s[c] = <<[t |-> "hello", cursor |-> y]>>
      BY <1>d, <2>2 DEF LinkOK
    <3>3. Head(c2s[c]) = [t |-> "hello", cursor |-> y] /\ Tail(c2s[c]) = <<>>
      BY <3>2
    <3> QED BY <3>1, <3>3
  <2>4. a.seq = room.seq /\ Carries(room, a.rows, IF a.full THEN 0 ELSE doc[c].cursor, a.seq)
    BY <1>d, <2>3, AnswerCarries
  <2> HIDE DEF x, a
  <2>5. /\ f.t = "state" /\ f.seq = room.seq /\ f.full = a.full /\ f.rows = a.rows
    BY <2>4
  <2> HIDE DEF f
  <2>6. StateOK(room, doc[c], f)
    BY <1>d, <2>4, <2>5, RoomNats DEF StateOK
  <2>7. Append(s2c[c], f) = <<f>>
    BY <2>3
  <2>8. RowsOK(room, <<f>>) /\ After(<<f>>, 2, f.seq)
    BY <2>5 DEF RowsOK, After
  <2>9. LinkOK(room, doc[c], "hello", "ready", <<>>, <<f>>)
    BY <2>6, <2>8 DEF LinkOK
  <2>10. DeviceOK(room, doc[c], saved[c], "hello", "ready", <<>>, <<f>>, http[c])
    BY <1>d, <2>8, <2>9 DEF DeviceOK
  <2>11. OthersKeep(c) /\ s2c'[c] = <<f>> /\ socket'[c] = "ready" /\ c2s'[c] = <<>>
    <3>1. s2c' = [s2c EXCEPT ![c] = <<f>>] /\ c2s' = [c2s EXCEPT ![c] = <<>>]
      BY <2>1, <2>3, <2>7
    <3>2. c \in DOMAIN s2c /\ c \in DOMAIN c2s /\ c \in DOMAIN socket
      BY DEF TypeOK
    <3>3. socket' = [socket EXCEPT ![c] = "ready"] /\ UNCHANGED <<doc, saved, conn, http>>
      BY <2>1
    <3> QED BY <3>1, <3>2, <3>3 DEF OthersKeep
  <2> QED BY <2>1, <2>3, <2>10, <2>11, OneDevice
<1>2. CASE RoomPush(c)
  <2> DEFINE b == Head(c2s[c]).push
             reply == [NoReply EXCEPT ![c] = <<[t |-> "ack", batch |-> b.batch]>>]
  <2>1. /\ socket[c] # "closed" /\ c2s[c] # <<>> /\ Head(c2s[c]).t = "push"
        /\ Publish(b.ops, reply)
        /\ c2s' = [c2s EXCEPT ![c] = Tail(c2s[c])]
        /\ UNCHANGED <<doc, saved, conn, socket, http>>
    BY <1>2 DEF RoomPush
  <2>2. b \in Batch
    BY <2>1, C2sHeadType
  <2>3. socket[c] = "ready"
    <3>1. Head(c2s[c]) = c2s[c][1] /\ 1 \in DOMAIN c2s[c]
      BY <1>d, <2>1
    <3> QED BY <1>d, <2>1, <3>1 DEF LinkOK
  <2>4. [t |-> "ack", batch |-> b.batch] \in Frame
    BY <2>2 DEF Batch, Frame
  <2>5. reply \in [Devices -> Seq(Frame)]
    BY <2>4, NoReplyType
  <2>6. \A y \in Devices : Acks(reply[y]) /\ (socket[y] # "ready" => reply[y] = <<>>)
    BY <2>3 DEF NoReply, Acks
  <2> HIDE DEF b, reply
  <2>7. /\ SeqsOK(room')
        /\ \A y \in Devices : DeviceOK(room', doc[y], saved[y], conn[y], socket[y],
                                       c2s[y], s2c'[y], http[y])
    BY <2>1, <2>2, <2>5, <2>6, PublishCursor DEF Batch
  <2>8. \A i \in DOMAIN Tail(c2s[c]) : Tail(c2s[c])[i].t = "push"
    <3>1. \A i \in DOMAIN c2s[c] : c2s[c][i].t = "push"
      BY <1>d, <2>3 DEF LinkOK
    <3>2. ASSUME NEW i \in DOMAIN Tail(c2s[c])
          PROVE  i + 1 \in DOMAIN c2s[c] /\ Tail(c2s[c])[i] = c2s[c][i + 1]
      BY <1>d, <2>1
    <3> QED BY <3>1, <3>2
  <2>9. LinkOK(room', doc[c], conn[c], socket[c], Tail(c2s[c]), s2c'[c])
    BY <2>3, <2>7, <2>8 DEF LinkOK, DeviceOK
  <2>10. \A y \in Devices : c2s'[y] = IF y = c THEN Tail(c2s[c]) ELSE c2s[y]
    BY <2>1 DEF TypeOK
  <2> QED BY <2>1, <2>7, <2>9, <2>10 DEF CursorInv, DeviceOK
<1> QED BY <1>1, <1>2, HttpCursor DEF RoomStep

\* Late pushes and the alarm keep CursorInv.
LEMMA RoomAloneCursor ==
  ASSUME MaxResets = 0, TypeOK, TypeOK', CursorInv,
         RoomLate \/ RoomAlarm \/ RoomAlarmEnds \/ RoomAlarmFails \/ RoomReset
  PROVE  CursorInv'
<1>0. room \in Room /\ SeqsOK(room)
  BY DEF TypeOK, CursorInv
<1>1. CASE RoomLate
  <2>1. PICK b \in late : /\ Publish(b.ops, NoReply)
                          /\ UNCHANGED <<doc, saved, conn, socket, c2s, http>>
    BY <1>1 DEF RoomLate
  <2>2. b.ops \in [Keys -> Op]
    BY DEF TypeOK, Batch
  <2>3. \A y \in Devices : Acks(NoReply[y]) /\ NoReply[y] = <<>>
    BY DEF NoReply, Acks
  <2>4. /\ SeqsOK(room')
        /\ \A y \in Devices : DeviceOK(room', doc[y], saved[y], conn[y], socket[y],
                                       c2s[y], s2c'[y], http[y])
    BY <2>1, <2>2, <2>3, NoReplyType, PublishCursor
  <2> QED BY <2>1, <2>4 DEF CursorInv, DeviceOK
<1>2. CASE RoomAlarm
  <2>1. /\ \E h : room' = AlarmFires(room, h)
        /\ UNCHANGED <<doc, saved, conn, socket, c2s, s2c, http>>
    BY <1>2 DEF RoomAlarm
  <2> QED BY <1>0, <2>1, AlarmAdvances, QuietRoom
<1>3. CASE RoomAlarmEnds
  <2>1. /\ room' = AlarmEnds(room)
        /\ UNCHANGED <<doc, saved, conn, socket, c2s, s2c, http>>
    BY <1>3 DEF RoomAlarmEnds
  <2> QED BY <1>0, <2>1, AlarmAdvances, QuietRoom
<1>f. CASE RoomAlarmFails
  <2>1. /\ room' = AlarmFails(room)
        /\ UNCHANGED <<doc, saved, conn, socket, c2s, s2c, http>>
    BY <1>f DEF RoomAlarmFails
  <2> QED BY <1>0, <2>1, AlarmAdvances, QuietRoom
<1>4. ~RoomReset
  <2>1. used.resets \in Nat
    BY DEF TypeOK
  <2> QED BY <2>1 DEF RoomReset, Spend, Bound
<1> QED BY <1>1, <1>2, <1>3, <1>f, <1>4

\* CursorInv is inductive where the socket is the only transport and no reset happens.
LEMMA CursorStep ==
  ASSUME ~HasTransport, MaxResets = 0, TypeOK, TypeOK', CursorInv, [Next]_vars
  PROVE  CursorInv'
<1>1. CASE UNCHANGED vars
  BY <1>1 DEF vars, CursorInv
<1>2. ASSUME NEW c \in Devices,
             LocalStep(c) \/ SessionStep(c) \/ HttpStep(c) \/ Failure(c) \/ RoomStep(c)
      PROVE  CursorInv'
  BY <1>2, LocalCursor, SessionCursor, HttpCursor, FailureCursor, RoomStepCursor
<1>3. CASE RoomLate \/ RoomAlarm \/ RoomAlarmEnds \/ RoomAlarmFails \/ RoomReset
  BY <1>3, RoomAloneCursor
<1> QED BY <1>1, <1>2, <1>3 DEF Next

\* CursorInv holds at the start.
LEMMA InitCursor ==
  ASSUME ~HasTransport, Init
  PROVE  CursorInv
<1>1. NewDoc \in Replica /\ ~Exists(NoRow) /\ NoRow.seq = 0
  BY TableTypes DEF NewDoc, Replica, Clock, Exists, NoRow
<1>2. room.seq = 0 /\ \A k \in Keys : room.rows[k] = NoRow
  BY DEF Init, NewRoom, EmptyTable
<1>3. SeqsOK(room)
  BY <1>1, <1>2 DEF SeqsOK
<1>4. PICK now \in Times : doc = [c \in Devices |-> Boot(NewDoc, c, now)]
  BY DEF Init
<1>5. ASSUME NEW c \in Devices
      PROVE  DeviceOK(room, doc[c], saved[c], conn[c], socket[c], c2s[c], s2c[c], http[c])
  <2>1. doc[c] = Boot(NewDoc, c, now) /\ saved[c] = doc[c]
    BY <1>4 DEF Init
  <2>2. doc[c].cursor = 0
    BY <1>1, <2>1, BootKeeps DEF NewDoc
  <2>3. Complete(room, doc[c])
    BY <1>1, <1>2, <2>2 DEF Complete
  <2>4. IdleHttp.ph = "idle"
    BY DEF IdleHttp
  <2>5. /\ conn[c] = "down" /\ socket[c] = "closed" /\ c2s[c] = <<>> /\ s2c[c] = <<>>
        /\ http[c] = Spawned(IdleHttp)
    BY DEF Init
  <2>6. http[c].ph = "idle"
    BY <2>4, <2>5, NeverSpawned
  <2> QED BY <2>1, <2>3, <2>5, <2>6, DownOK
<1> QED BY <1>3, <1>5, InvUnfolds

\* The cursor's promise, RegistryDoc::cursor: "the last server seq this replica
\* has fully applied".  On a client without the HTTPS transport and a room
\* that is never reset, for any number of devices and rows, and whatever is
\* lost, dropped, replayed, crashed or garbage-collected, no row the room
\* changed at or below a replica's cursor is missing from it or stale in it.
THEOREM CursorIsComplete ==
  ASSUME ~HasTransport, MaxResets = 0
  PROVE  Spec => []CursorComplete
<1>1. Init => CursorInv
  BY InitCursor
<1>2. TypeOK /\ TypeOK' /\ CursorInv /\ [Next]_vars => CursorInv'
  BY CursorStep
<1>3. CursorInv => CursorComplete
  BY DEF CursorInv, Complete, CursorComplete
<1> QED BY <1>1, <1>2, <1>3, TypeCorrect, PTL DEF Spec

-----------------------------------------------------------------------------
(* The second inductive invariant: what the room has purged *)

\* NoGhostRows of one replica.
GhostFree(r, d) ==
  \A k \in Keys : d.auth[k].st = "live" /\ ~Exists(r.rows[k]) => d.cursor < r.gcFloor

\* For every row the room has purged there is a seq at or below gcFloor where it
\* was deleted for the last time: a replica past it does not show the row, the
\* frame of that seq deletes it, and no later frame on the socket has it.
PurgedOK(r, d, down) ==
  \A k \in Keys : ~Exists(r.rows[k]) =>
    \E q \in 0 .. r.gcFloor :
      /\ q <= d.cursor => d.auth[k].st # "live"
      /\ \A i \in DOMAIN down : down[i].t = "rows" =>
           /\ down[i].seq = q => down[i].rows[k].st = "deleted"
           /\ down[i].seq > q => ~Exists(down[i].rows[k])

\* The rows and the cursor that the hello's answer will leave.
StateView(d, m) ==
  [ auth   |-> IF m.full /\ ~(m.seq < d.cursor) THEN m.rows
                                                ELSE PutAuthoritative(d.auth, m.rows),
    cursor |-> m.seq ]

\* Both copies of a replica, and what is under way to it.
DeviceGhost(r, d, sv, cn, sk, down) ==
  /\ GhostFree(r, d)
  /\ GhostFree(r, sv)
  /\ sk = "ready" /\ cn = "hello" => PurgedOK(r, StateView(d, down[1]), down)
  /\ cn \in {"pushing", "up"} => PurgedOK(r, d, down)

GhostInv ==
  /\ room.gcFloor <= room.seq
  /\ \A c \in Devices : DeviceGhost(room, doc[c], saved[c], conn[c], socket[c], s2c[c])

-----------------------------------------------------------------------------
(* The parts of the second invariant *)

\* The parts speak of a replica's rows and cursor only.
LEMMA SameGhost ==
  ASSUME NEW d, NEW e, e.auth = d.auth, e.cursor = d.cursor, NEW r
  PROVE  /\ GhostFree(r, d) => GhostFree(r, e)
         /\ \A m : StateView(e, m) = StateView(d, m)
         /\ \A down : PurgedOK(r, d, down) => PurgedOK(r, e, down)
  BY DEF GhostFree, StateView, PurgedOK

\* Whatever is still on the socket, a replica good for it shows no ghost.
LEMMA PurgedGhost ==
  ASSUME NEW r \in Room, NEW d, d.cursor \in Nat, NEW down, PurgedOK(r, d, down)
  PROVE  GhostFree(r, d)
<1> SUFFICES ASSUME NEW k \in Keys, d.auth[k].st = "live", ~Exists(r.rows[k])
             PROVE  d.cursor < r.gcFloor
  BY DEF GhostFree
<1>1. PICK q \in 0 .. r.gcFloor : q <= d.cursor => d.auth[k].st # "live"
  BY DEF PurgedOK
<1> QED BY <1>1 DEF Room

\* Fewer frames are as good.
LEMMA PurgedTail ==
  ASSUME NEW r, NEW d, NEW down \in Seq(Frame), down # <<>>, PurgedOK(r, d, down)
  PROVE  PurgedOK(r, d, Tail(down))
  BY TailFacts DEF PurgedOK

\* Acks say nothing of rows.
LEMMA PurgedAcks ==
  ASSUME NEW r, NEW d, NEW q \in Seq(Frame), NEW a \in Seq(Frame), Acks(a), PurgedOK(r, d, q)
  PROVE  PurgedOK(r, d, q \o a)
<1>1. ASSUME NEW i \in DOMAIN (q \o a), (q \o a)[i].t = "rows"
      PROVE  i \in DOMAIN q /\ (q \o a)[i] = q[i]
  BY <1>1, SeqFacts DEF Acks
<1> QED BY <1>1 DEF PurgedOK

\* A broadcast newer than gcFloor that carries no purged row.
LEMMA PurgedAppend ==
  ASSUME NEW r \in Room, NEW d, NEW q \in Seq(Frame), PurgedOK(r, d, q),
         NEW f \in Frame, f.t = "rows", f.seq > r.gcFloor,
         \A k \in Keys : ~Exists(r.rows[k]) => ~Exists(f.rows[k])
  PROVE  PurgedOK(r, d, Append(q, f))
<1>1. ASSUME NEW i \in DOMAIN Append(q, f)
      PROVE  \/ i \in DOMAIN q /\ Append(q, f)[i] = q[i]
             \/ Append(q, f)[i] = f
  OBVIOUS
<1>2. f.seq \in Nat /\ r.gcFloor \in Nat
  BY FrameTypes DEF Room
<1>3. ASSUME NEW k \in Keys, ~Exists(r.rows[k])
      PROVE  \E q0 \in 0 .. r.gcFloor :
               /\ q0 <= d.cursor => d.auth[k].st # "live"
               /\ \A i \in DOMAIN Append(q, f) : Append(q, f)[i].t = "rows" =>
                    /\ Append(q, f)[i].seq = q0 => Append(q, f)[i].rows[k].st = "deleted"
                    /\ Append(q, f)[i].seq > q0 => ~Exists(Append(q, f)[i].rows[k])
  <2>1. PICK q0 \in 0 .. r.gcFloor :
               /\ q0 <= d.cursor => d.auth[k].st # "live"
               /\ \A i \in DOMAIN q : q[i].t = "rows" =>
                    /\ q[i].seq = q0 => q[i].rows[k].st = "deleted"
                    /\ q[i].seq > q0 => ~Exists(q[i].rows[k])
    BY <1>3 DEF PurgedOK
  <2>2. f.seq # q0
    BY <1>2
  <2>3. ~Exists(f.rows[k])
    BY <1>3
  <2>4. ASSUME NEW i \in DOMAIN Append(q, f), Append(q, f)[i].t = "rows"
        PROVE  /\ Append(q, f)[i].seq = q0 => Append(q, f)[i].rows[k].st = "deleted"
               /\ Append(q, f)[i].seq > q0 => ~Exists(Append(q, f)[i].rows[k])
    BY <1>1, <2>1, <2>2, <2>3, <2>4
  <2> QED BY <2>1, <2>4
<1> QED BY <1>3 DEF PurgedOK

-----------------------------------------------------------------------------
(* The room purges and moves forward *)

\* What a step of the room may do to the rows it no longer has: they were gone
\* before, or they were tombstones and gcFloor has risen to their seq.
Purges(r, s) ==
  /\ s.gcFloor \in Nat /\ s.gcFloor >= r.gcFloor
  /\ \A k \in Keys : ~Exists(s.rows[k]) =>
       \/ ~Exists(r.rows[k])
       \/ r.rows[k].st = "deleted" /\ r.rows[k].seq <= s.gcFloor

\* A complete replica that shows no ghost shows none after the purge.
LEMMA PurgeGhostFree ==
  ASSUME NEW r \in Room, NEW s, Purges(r, s),
         NEW d \in Replica, Complete(r, d), GhostFree(r, d)
  PROVE  GhostFree(s, d)
<1> SUFFICES ASSUME NEW k \in Keys, d.auth[k].st = "live", ~Exists(s.rows[k])
             PROVE  d.cursor < s.gcFloor
  BY DEF GhostFree
<1>1. d.cursor \in Nat /\ r.gcFloor \in Nat /\ r.rows[k].seq \in Nat
  BY RoomNats DEF Replica, Room
<1>2. CASE ~Exists(r.rows[k])
  BY <1>1, <1>2 DEF GhostFree, Purges
<1>3. CASE Exists(r.rows[k])
  <2>1. r.rows[k].st = "deleted" /\ r.rows[k].seq <= s.gcFloor
    BY <1>3 DEF Purges
  <2>2. r.rows[k].seq > d.cursor
    BY <1>1, <1>3, <2>1 DEF Complete
  <2> QED BY <1>1, <2>1, <2>2 DEF Purges
<1> QED BY <1>2, <1>3

\* What was good for the frames on a socket still is: the tombstone purged now
\* was last stamped at a seq whose frame, if it is under way, carries it.
LEMMA PurgePurged ==
  ASSUME NEW r \in Room, NEW s, Purges(r, s), NEW d, d.cursor \in Nat, Complete(r, d),
         NEW down \in Seq(Frame), RowsOK(r, down), PurgedOK(r, d, down)
  PROVE  PurgedOK(s, d, down)
<1> SUFFICES ASSUME NEW k \in Keys, ~Exists(s.rows[k])
             PROVE  \E q \in 0 .. s.gcFloor :
                      /\ q <= d.cursor => d.auth[k].st # "live"
                      /\ \A i \in DOMAIN down : down[i].t = "rows" =>
                           /\ down[i].seq = q => down[i].rows[k].st = "deleted"
                           /\ down[i].seq > q => ~Exists(down[i].rows[k])
  BY DEF PurgedOK
<1>1. r.gcFloor \in Nat /\ s.gcFloor \in Nat /\ s.gcFloor >= r.gcFloor /\ r.rows[k].seq \in Nat
  BY RoomNats DEF Room, Purges
<1>2. CASE ~Exists(r.rows[k])
  <2>1. 0 .. r.gcFloor \subseteq 0 .. s.gcFloor
    BY <1>1
  <2> QED BY <1>2, <2>1 DEF PurgedOK
<1>3. CASE Exists(r.rows[k])
  <2> DEFINE q == r.rows[k].seq
  <2>1. r.rows[k].st = "deleted" /\ q <= s.gcFloor
    BY <1>3 DEF Purges
  <2>2. q \in 0 .. s.gcFloor
    BY <1>1, <2>1
  <2>3. q <= d.cursor => d.auth[k].st # "live"
    BY <1>3, <2>1 DEF Complete
  <2>4. ASSUME NEW i \in DOMAIN down, down[i].t = "rows"
        PROVE  /\ down[i].seq = q => down[i].rows[k].st = "deleted"
               /\ down[i].seq > q => ~Exists(down[i].rows[k])
    <3>1. down[i] \in Frame
      OBVIOUS
    <3>2. down[i].seq \in Nat
      BY <2>4, <3>1, FrameTypes
    <3>3. Carries(r, down[i].rows, down[i].seq - 1, down[i].seq)
      BY <2>4 DEF RowsOK
    <3> QED BY <1>1, <1>3, <2>1, <3>2, <3>3 DEF Carries
  <2> QED BY <2>2, <2>3, <2>4
<1> QED BY <1>2, <1>3

\* The hello's answer, applied, is complete.
LEMMA ViewComplete ==
  ASSUME NEW r \in Room, SeqsOK(r), NEW d \in Replica, Complete(r, d),
         NEW m \in Frame, StateOK(r, d, m)
  PROVE  Complete(r, StateView(d, m)) /\ StateView(d, m).cursor \in Nat
<1> DEFINE e == ApplyState(d, 0, m.seq, m.full, m.rows, 0)
<1>1. m.seq \in Nat /\ m.full \in BOOLEAN /\ m.rows \in [Keys -> Row]
  BY FrameTypes DEF StateOK
<1>2. Complete(r, e)
  BY StateCompletes
<1>3. e.auth = StateView(d, m).auth /\ e.cursor = StateView(d, m).cursor
  BY <1>1, ApplyStateKeeps DEF StateView
<1>4. StateView(d, m).cursor = m.seq
  BY DEF StateView
<1> HIDE DEF e
<1>5. Complete(r, StateView(d, m))
  BY <1>2, <1>3, SameComplete
<1> QED BY <1>1, <1>4, <1>5

\* A device that was good for the room is good for the room after a purge.
LEMMA PurgeDevice ==
  ASSUME NEW r \in Room, SeqsOK(r), NEW s, Purges(r, s), NEW d \in Replica, NEW sv \in Replica,
         NEW cn, NEW sk, NEW up, NEW down \in Seq(Frame), NEW h,
         DeviceOK(r, d, sv, cn, sk, up, down, h), DeviceGhost(r, d, sv, cn, sk, down)
  PROVE  DeviceGhost(s, d, sv, cn, sk, down)
<1>1. /\ Complete(r, d) /\ Complete(r, sv) /\ RowsOK(r, down)
      /\ LinkOK(r, d, cn, sk, up, down) /\ d.cursor \in Nat
  BY DEF DeviceOK, Replica
<1>2. GhostFree(s, d) /\ GhostFree(s, sv)
  BY <1>1, PurgeGhostFree DEF DeviceGhost
<1>3. ASSUME cn \in {"pushing", "up"} PROVE PurgedOK(s, d, down)
  BY <1>1, <1>3, PurgePurged DEF DeviceGhost
<1>4. ASSUME sk = "ready", cn = "hello" PROVE PurgedOK(s, StateView(d, down[1]), down)
  <2>1. down # <<>> /\ StateOK(r, d, down[1])
    BY <1>1, <1>4 DEF LinkOK
  <2>2. down[1] \in Frame
    BY <2>1
  <2>3. Complete(r, StateView(d, down[1])) /\ StateView(d, down[1]).cursor \in Nat
    BY <1>1, <2>1, <2>2, ViewComplete
  <2> QED BY <1>1, <1>4, <2>3, PurgePurged DEF DeviceGhost
<1> QED BY <1>2, <1>3, <1>4 DEF DeviceGhost

\* The alarm purges, and gcFloor stays a seq the room has given.
LEMMA AlarmPurges ==
  ASSUME NEW r \in Room, SeqsOK(r), r.gcFloor <= r.seq, NEW h
  PROVE  /\ Purges(r, AlarmFires(r, h)) /\ AlarmFires(r, h).gcFloor <= AlarmFires(r, h).seq
         /\ Purges(r, AlarmEnds(r)) /\ AlarmEnds(r).gcFloor <= AlarmEnds(r).seq
         /\ Purges(r, AlarmFails(r)) /\ AlarmFails(r).gcFloor <= AlarmFails(r).seq
<1>0. r.gcFloor \in Nat /\ r.seq \in Nat
  BY DEF Room
<1>1. ASSUME NEW s, s.gcFloor = r.gcFloor, s.seq = r.seq, s.rows = r.rows
      PROVE  Purges(r, s) /\ s.gcFloor <= s.seq
  BY <1>0, <1>1 DEF Purges
<1>2. /\ AlarmEnds(r).gcFloor = r.gcFloor /\ AlarmEnds(r).seq = r.seq /\ AlarmEnds(r).rows = r.rows
      /\ AlarmFails(r).gcFloor = r.gcFloor /\ AlarmFails(r).seq = r.seq /\ AlarmFails(r).rows = r.rows
  BY DEF AlarmEnds, AlarmFails, Room
<1>3. Purges(r, AlarmFires(r, h)) /\ AlarmFires(r, h).gcFloor <= AlarmFires(r, h).seq
  <2> DEFINE fired == [r EXCEPT !.alarm = FALSE]
             ks == Expired(fired, h)
             purged == Purge(fired, h)
             s == AlarmFires(r, h)
  <2>1. /\ fired \in Room /\ fired.seq = r.seq /\ fired.rows = r.rows
        /\ fired.gcFloor = r.gcFloor
    BY DEF Room
  <2>2. s = IF ~r.dirty THEN fired
            ELSE IF purged.seq > purged.backupSeq
              THEN [purged EXCEPT !.putting = purged.seq]
            ELSE [purged EXCEPT !.dirty = FALSE]
    BY DEF AlarmFires
  <2> HIDE DEF fired
  <2>3. /\ purged \in Room /\ purged.seq = r.seq /\ purged.gcFloor = RaisedFloor(fired, ks)
        /\ \A k \in Keys : purged.rows[k] = IF k \in ks THEN NoRow ELSE r.rows[k]
    BY <2>1, PurgeType DEF Purge, Room
  <2>4. ks \in SUBSET Keys /\ \A k \in ks : r.rows[k].st = "deleted"
    BY <2>1 DEF Expired
  <2> HIDE DEF ks, purged, s
  <2>5. /\ RaisedFloor(fired, ks) \in Nat
        /\ RaisedFloor(fired, ks) >= r.gcFloor
        /\ \A k \in ks : RaisedFloor(fired, ks) >= r.rows[k].seq
        /\ \/ RaisedFloor(fired, ks) = r.gcFloor
           \/ \E k \in ks : RaisedFloor(fired, ks) = r.rows[k].seq
    BY <2>1, <2>4, RaisedFloorSpec
  <2>6. RaisedFloor(fired, ks) <= r.seq
    <3>1. \A k \in ks : r.rows[k].seq <= r.seq
      BY <1>0, <2>4, RoomNats DEF SeqsOK, Exists
    <3> QED BY <2>5, <3>1
  <2>7. \/ s.gcFloor = r.gcFloor /\ s.seq = r.seq /\ s.rows = r.rows
        \/ s.gcFloor = purged.gcFloor /\ s.seq = purged.seq /\ s.rows = purged.rows
    BY <2>1, <2>2, <2>3 DEF Room
  <2>8. CASE s.gcFloor = purged.gcFloor /\ s.seq = purged.seq /\ s.rows = purged.rows
    <3>1. ASSUME NEW k \in Keys, ~Exists(s.rows[k])
          PROVE  \/ ~Exists(r.rows[k])
                 \/ r.rows[k].st = "deleted" /\ r.rows[k].seq <= s.gcFloor
      <4>1. CASE k \in ks
        <5>1. r.rows[k].seq \in Nat
          BY RoomNats
        <5> QED BY <2>3, <2>4, <2>5, <2>8, <4>1, <5>1
      <4>2. CASE k \notin ks
        BY <2>3, <2>8, <3>1, <4>2
      <4> QED BY <4>1, <4>2
    <3>2. s.gcFloor \in Nat /\ s.gcFloor >= r.gcFloor /\ s.gcFloor <= s.seq
      BY <2>3, <2>5, <2>6, <2>8
    <3>3. Purges(r, s)
      BY <3>1, <3>2 DEF Purges
    <3> QED BY <3>2, <3>3 DEF s
  <2> QED BY <1>1, <2>7, <2>8 DEF s
<1> QED BY <1>1, <1>2, <1>3

\* applyPushBatch purges nothing, and what it broadcasts is newer than gcFloor
\* and of rows the room has.
LEMMA PushPurges ==
  ASSUME NEW r \in Room, r.gcFloor <= r.seq, NEW ops \in [Keys -> Op], NEW s,
         s = ApplyPushBatch(r, ops)
  PROVE  /\ Purges(r, s)
         /\ s.gcFloor <= s.seq
         /\ Touched(r, ops) # {} => s.seq > s.gcFloor
         /\ \A k \in Keys : ~Exists(s.rows[k]) => ~Exists(MergedRows(r, ops)[k])
<1>0. r.gcFloor \in Nat /\ r.seq \in Nat /\ ~Exists(NoRow)
  BY DEF Room, Exists, NoRow
<1>1. \A k \in Keys : MergedRows(r, ops)[k] = IF k \in Touched(r, ops) THEN s.rows[k] ELSE NoRow
  BY DEF MergedRows
<1>2. CASE Touched(r, ops) = {}
  <2>1. s = r
    BY <1>2 DEF ApplyPushBatch
  <2> QED BY <1>0, <1>1, <1>2, <2>1 DEF Purges
<1>3. CASE Touched(r, ops) # {}
  <2>1. s.seq = r.seq + 1 /\ s.gcFloor = r.gcFloor
    BY <1>3 DEF ApplyPushBatch, Room
  <2>2. ASSUME NEW k \in Keys, ~Exists(s.rows[k]) PROVE ~Exists(r.rows[k])
    <3>1. s.rows[k] = IF k \in Touched(r, ops)
                        THEN [ApplyOp(r.rows[k], ops[k]) EXCEPT !.seq = r.seq + 1]
                        ELSE r.rows[k]
      BY <1>3 DEF ApplyPushBatch, Room
    <3>2. ApplyOp(r.rows[k], ops[k]) \in Row
      BY RoomNats, ApplyOpType
    <3>3. k \in Touched(r, ops) => Exists(ApplyOp(r.rows[k], ops[k]))
      BY RoomNats, ApplyOpExists DEF Touched
    <3> QED BY <2>2, <3>1, <3>2, <3>3 DEF Row, Exists
  <2> QED BY <1>0, <1>1, <2>1, <2>2 DEF Purges
<1> QED BY <1>2, <1>3

-----------------------------------------------------------------------------
(* Such frames, applied *)

\* The hello's answer: everything the room had, or what it changed since a
\* cursor that gcFloor has not passed.
LEMMA AnswerPurged ==
  ASSUME NEW r \in Room, SeqsOK(r), NEW d \in Replica, Complete(r, d), GhostFree(r, d),
         NEW x \in {NoCursor, d.cursor}, NEW f \in Frame, f.t = "state",
         f.seq = Answer(r, x).seq, f.full = Answer(r, x).full, f.rows = Answer(r, x).rows
  PROVE  PurgedOK(r, StateView(d, f), <<f>>)
<1>1. /\ f.seq = r.seq /\ f.full = NeedsFull(r, x)
      /\ f.rows = RowsSince(r, IF NeedsFull(r, x) THEN 0 ELSE x)
  BY DEF Answer
<1>2. d.cursor \in Nat /\ d.cursor <= r.seq /\ r.gcFloor \in Nat /\ r.seq \in Nat
  BY DEF Replica, Complete, Room
<1>3. ASSUME NEW k \in Keys, ~Exists(r.rows[k])
      PROVE  StateView(d, f).auth[k].st # "live"
  <2>1. \A lo \in Nat : RowsSince(r, lo)[k] = NoRow
    <3>1. r.rows[k].seq = 0
      BY <1>3 DEF SeqsOK
    <3> QED BY <3>1 DEF RowsSince
  <2>2. f.rows[k] = NoRow /\ NoRow.st = "missing"
    BY <1>1, <1>2, <2>1 DEF NeedsFull, NoRow
  <2>3. CASE f.full
    BY <1>1, <1>2, <2>2, <2>3 DEF StateView
  <2>4. CASE ~f.full
    <3>1. ~(d.cursor < r.gcFloor)
      BY <1>1, <2>4 DEF NeedsFull
    <3>2. d.auth[k].st # "live"
      BY <1>3, <3>1 DEF GhostFree
    <3>3. StateView(d, f).auth[k] = d.auth[k]
      BY <2>2, <2>4 DEF StateView, PutAuthoritative, Exists
    <3> QED BY <3>2, <3>3
  <2> QED BY <2>3, <2>4
<1>4. 0 \in 0 .. r.gcFloor
  BY <1>2
<1>5. \A i \in DOMAIN <<f>> : <<f>>[i].t # "rows"
  OBVIOUS
<1> QED BY <1>3, <1>4, <1>5 DEF PurgedOK

\* A broadcast newer than the cursor, in order or across a gap.
LEMMA RowsPurged ==
  ASSUME NEW r \in Room, NEW d \in Replica, NEW down \in Seq(Frame), down # <<>>,
         down[1].t = "rows", down[1].seq > d.cursor, PurgedOK(r, d, down)
  PROVE  PurgedOK(r, ApplyRows(d, down[1].seq, down[1].rows), Tail(down))
<1> DEFINE n == down[1].seq
           rows == down[1].rows
           e == ApplyRows(d, n, rows)
<1>1. n \in Nat /\ d.cursor \in Nat /\ 1 \in DOMAIN down /\ r.gcFloor \in Nat
  <2>1. down[1] \in Frame /\ 1 \in DOMAIN down
    BY TailFacts
  <2> QED BY <2>1, FrameTypes DEF Replica, Room
<1>2. /\ e.cursor = IF n = d.cursor + 1 THEN n ELSE d.cursor
      /\ e.auth = PutAuthoritative(d.auth, rows)
  BY DEF ApplyRows, Replica
<1> SUFFICES ASSUME NEW k \in Keys, ~Exists(r.rows[k])
             PROVE  \E q \in 0 .. r.gcFloor :
                      /\ q <= e.cursor => e.auth[k].st # "live"
                      /\ \A i \in DOMAIN Tail(down) : Tail(down)[i].t = "rows" =>
                           /\ Tail(down)[i].seq = q => Tail(down)[i].rows[k].st = "deleted"
                           /\ Tail(down)[i].seq > q => ~Exists(Tail(down)[i].rows[k])
  BY DEF PurgedOK
<1>3. PICK q \in 0 .. r.gcFloor :
        /\ q <= d.cursor => d.auth[k].st # "live"
        /\ \A i \in DOMAIN down : down[i].t = "rows" =>
             /\ down[i].seq = q => down[i].rows[k].st = "deleted"
             /\ down[i].seq > q => ~Exists(down[i].rows[k])
  BY DEF PurgedOK
<1>4. (n = q => rows[k].st = "deleted") /\ (n > q => ~Exists(rows[k]))
  BY <1>1, <1>3
<1>5. e.auth[k] = IF Exists(rows[k]) THEN rows[k] ELSE d.auth[k]
  BY <1>2 DEF PutAuthoritative
<1> HIDE DEF n, rows, e
<1>6. q \in Nat
  BY <1>1
<1>7. q <= e.cursor => e.auth[k].st # "live"
  <2>1. CASE q <= d.cursor
    <3>1. n > q
      BY <1>1, <1>6, <2>1 DEF n
    <3> QED BY <1>3, <1>4, <1>5, <2>1, <3>1
  <2>2. CASE ~(q <= d.cursor) /\ q <= e.cursor
    <3>1. n = q
      BY <1>1, <1>2, <1>6, <2>2
    <3> QED BY <1>4, <1>5, <3>1 DEF Exists
  <2> QED BY <2>1, <2>2
<1>8. \A i \in DOMAIN Tail(down) : Tail(down)[i].t = "rows" =>
        /\ Tail(down)[i].seq = q => Tail(down)[i].rows[k].st = "deleted"
        /\ Tail(down)[i].seq > q => ~Exists(Tail(down)[i].rows[k])
  BY <1>3, TailFacts
<1> QED BY <1>7, <1>8

-----------------------------------------------------------------------------
(* The second invariant is inductive *)

\* A step of one device that leaves it good keeps the invariant.
LEMMA OneGhost ==
  ASSUME GhostInv, NEW c \in Devices, room' = room, OthersKeep(c),
         DeviceGhost(room, doc'[c], saved'[c], conn'[c], socket'[c], s2c'[c])
  PROVE  GhostInv'
<1>1. ASSUME NEW x \in Devices
      PROVE  DeviceGhost(room', doc'[x], saved'[x], conn'[x], socket'[x], s2c'[x])
  BY DEF OthersKeep, GhostInv
<1> QED BY <1>1 DEF GhostInv

\* A device without a connection.
LEMMA DownGhost ==
  ASSUME NEW r, NEW d, NEW sv, GhostFree(r, d), GhostFree(r, sv)
  PROVE  DeviceGhost(r, d, sv, "down", "closed", <<>>)
  BY DEF DeviceGhost

\* Local writes, the save and the crash keep GhostInv.
LEMMA LocalGhost ==
  ASSUME TypeOK, GhostInv, NEW c \in Devices, LocalStep(c)
  PROVE  GhostInv'
<1>d. /\ doc[c] \in Replica /\ saved[c] \in Replica
      /\ DeviceGhost(room, doc[c], saved[c], conn[c], socket[c], s2c[c])
  BY DEF TypeOK, GhostInv
<1>1. ASSUME NEW d, d.auth = doc[c].auth, d.cursor = doc[c].cursor, Mutate(c, d)
      PROVE  GhostInv'
  <2>1. DeviceGhost(room, d, saved[c], conn[c], socket[c], s2c[c])
    BY <1>d, <1>1, SameGhost DEF DeviceGhost
  <2>2. /\ doc' = [doc EXCEPT ![c] = d]
        /\ UNCHANGED <<room, saved, conn, socket, c2s, s2c, http>>
    BY <1>1 DEF Mutate
  <2>3. OthersKeep(c) /\ doc'[c] = d
    BY <2>2 DEF OthersKeep, TypeOK
  <2> QED BY <2>1, <2>2, <2>3, OneGhost
<1>2. Times \subseteq Nat
  BY SyncAssumption
<1>3. CASE Upsert(c)
  <2>1. PICK k \in WriteKeys, x \in Sets, now \in Times :
               Mutate(c, Write(doc[c], c, k, "upsert", x, now))
    BY <1>3 DEF Upsert
  <2> QED BY <1>d, <1>1, <1>2, <2>1, WritesKeep
<1>4. CASE Update(c)
  <2>1. PICK k \in WriteKeys, x \in Sets, now \in Times :
               Mutate(c, Write(doc[c], c, k, "update", x, now))
    BY <1>4 DEF Update
  <2> QED BY <1>d, <1>1, <1>2, <2>1, WritesKeep
<1>5. CASE Delete(c)
  <2>1. PICK ks \in (SUBSET WriteKeys) \ {{}}, now \in Times :
               Mutate(c, DeleteRows(doc[c], c, ks, now))
    BY <1>5 DEF Delete
  <2> QED BY <1>d, <1>1, <1>2, <2>1, WritesKeep
<1>6. CASE SaveSnapshot(c)
  <2>1. DeviceGhost(room, doc[c], doc[c], conn[c], socket[c], s2c[c])
    BY <1>d DEF DeviceGhost
  <2>2. /\ saved' = [saved EXCEPT ![c] = doc[c]]
        /\ UNCHANGED <<room, doc, conn, socket, c2s, s2c, http>>
    BY <1>6 DEF SaveSnapshot
  <2>3. OthersKeep(c) /\ saved'[c] = doc[c]
    BY <2>2 DEF OthersKeep, TypeOK
  <2> QED BY <2>1, <2>2, <2>3, OneGhost
<1>7. CASE Crash(c)
  <2>1. PICK now \in Times : /\ doc' = [doc EXCEPT ![c] = Boot(saved[c], c, now)]
                             /\ saved' = [saved EXCEPT ![c] = Boot(saved[c], c, now)]
    BY <1>7 DEF Crash
  <2>2. GhostFree(room, Boot(saved[c], c, now))
    BY <1>d, BootKeeps, SameGhost DEF DeviceGhost
  <2>3. /\ conn' = [conn EXCEPT ![c] = "down"] /\ socket' = [socket EXCEPT ![c] = "closed"]
        /\ c2s' = [c2s EXCEPT ![c] = <<>>] /\ s2c' = [s2c EXCEPT ![c] = <<>>]
        /\ http' = [http EXCEPT ![c] = Spawned(IdleHttp)] /\ room' = room
    BY <1>7 DEF Crash
  <2>4. OthersKeep(c)
    BY <2>1, <2>3 DEF OthersKeep, TypeOK
  <2>5. /\ doc'[c] = Boot(saved[c], c, now) /\ saved'[c] = Boot(saved[c], c, now)
        /\ conn'[c] = "down" /\ socket'[c] = "closed" /\ s2c'[c] = <<>>
    BY <2>1, <2>3 DEF TypeOK
  <2> QED BY <2>2, <2>3, <2>4, <2>5, DownGhost, OneGhost
<1> QED BY <1>3, <1>4, <1>5, <1>6, <1>7 DEF LocalStep

\* A session that ends with a replica that shows no ghost.
LEMMA EndGhost ==
  ASSUME TypeOK, GhostInv, NEW c \in Devices, NEW d \in Replica,
         GhostFree(room, d), EndSession(c, d), UNCHANGED <<room, saved>>
  PROVE  GhostInv'
<1>1. GhostFree(room, saved[c])
  BY DEF GhostInv, DeviceGhost
<1>2. GhostFree(room, MarkDisconnected(d))
  BY MarksKeep, SameGhost
<1>3. /\ doc' = [doc EXCEPT ![c] = MarkDisconnected(d)]
      /\ conn' = [conn EXCEPT ![c] = "down"] /\ socket' = [socket EXCEPT ![c] = "closed"]
      /\ c2s' = [c2s EXCEPT ![c] = <<>>] /\ s2c' = [s2c EXCEPT ![c] = <<>>]
      /\ http' = [http EXCEPT ![c] = Spawned(http[c])]
  BY DEF EndSession
<1>4. OthersKeep(c)
  BY <1>3 DEF OthersKeep, TypeOK
<1>5. /\ doc'[c] = MarkDisconnected(d) /\ saved'[c] = saved[c]
      /\ conn'[c] = "down" /\ socket'[c] = "closed" /\ s2c'[c] = <<>>
  BY <1>3 DEF TypeOK
<1> QED BY <1>1, <1>2, <1>4, <1>5, DownGhost, OneGhost

\* The steps of the session actor keep GhostInv.
LEMMA SessionGhost ==
  ASSUME TypeOK, CursorInv, GhostInv, NEW c \in Devices, SessionStep(c)
  PROVE  GhostInv'
<1>d. /\ doc[c] \in Replica /\ s2c[c] \in Seq(Frame) /\ room \in Room
      /\ Complete(room, doc[c]) /\ RowsOK(room, s2c[c]) /\ SeqsOK(room)
      /\ LinkOK(room, doc[c], conn[c], socket[c], c2s[c], s2c[c])
      /\ DeviceGhost(room, doc[c], saved[c], conn[c], socket[c], s2c[c])
  BY DEF TypeOK, CursorInv, GhostInv
<1>g. GhostFree(room, doc[c]) /\ GhostFree(room, saved[c])
  BY <1>d DEF DeviceGhost
<1>1. CASE Dial(c)
  <2>1. /\ conn' = [conn EXCEPT ![c] = "hello"] /\ socket' = [socket EXCEPT ![c] = "new"]
        /\ \E x : c2s' = [c2s EXCEPT ![c] = x]
        /\ UNCHANGED <<room, doc, saved, s2c, http>>
    BY <1>1 DEF Dial
  <2>2. OthersKeep(c) /\ conn'[c] = "hello" /\ socket'[c] = "new"
    BY <2>1 DEF OthersKeep, TypeOK
  <2>3. DeviceGhost(room, doc[c], saved[c], "hello", "new", s2c[c])
    BY <1>g DEF DeviceGhost
  <2> QED BY <2>1, <2>2, <2>3, OneGhost
<1>2. CASE RecvState(c)
  <2> DEFINE m == Head(s2c[c])
  <2>1. conn[c] = "hello" /\ s2c[c] # <<>> /\ s2c' = [s2c EXCEPT ![c] = Tail(s2c[c])]
        /\ UNCHANGED <<room, saved, socket, c2s, http>>
    BY <1>2 DEF RecvState
  <2>2. socket[c] = "ready"
    BY <1>d, <2>1 DEF LinkOK
  <2>3. m = s2c[c][1] /\ m \in Frame
    BY <1>d, <2>1, TailFacts
  <2>4. StateOK(room, doc[c], m)
    BY <1>d, <2>1, <2>2, <2>3 DEF LinkOK
  <2>5. m.seq \in Nat /\ m.full \in BOOLEAN /\ m.rows \in [Keys -> Row]
    BY <2>3, <2>4, FrameTypes DEF StateOK
  <2>6. PICK now \in Times :
          LET d == ApplyState(doc[c], c, m.seq, m.full, m.rows, now)
          IN  doc' = [doc EXCEPT ![c] = TakePushable(d)] /\ StartPush(c, Pushable(d))
    BY <1>2 DEF RecvState
  <2> DEFINE d == ApplyState(doc[c], c, m.seq, m.full, m.rows, now)
             e == TakePushable(d)
             v == StateView(doc[c], m)
  <2>7. d \in Replica
    BY <1>d, <2>5, ApplyStateType, SyncAssumption
  <2>8. d.auth = v.auth /\ d.cursor = v.cursor /\ v.cursor = m.seq
    BY <1>d, <2>5, ApplyStateKeeps DEF StateView
  <2>9. doc' = [doc EXCEPT ![c] = e] /\ StartPush(c, Pushable(d))
    BY <2>6
  <2>10. PurgedOK(room, v, s2c[c])
    BY <1>d, <2>1, <2>2, <2>3 DEF DeviceGhost
  <2> HIDE DEF m, d, v
  <2>11. e.auth = v.auth /\ e.cursor = v.cursor
    BY <2>7, <2>8, MarksKeep
  <2> HIDE DEF e
  <2>12. PurgedOK(room, v, Tail(s2c[c]))
    BY <1>d, <2>1, <2>10, PurgedTail
  <2>13. PurgedOK(room, e, Tail(s2c[c]))
    BY <2>11, <2>12, SameGhost
  <2>14. GhostFree(room, e)
    BY <1>d, <2>5, <2>8, <2>11, <2>13, PurgedGhost
  <2>15. conn'[c] \in {"pushing", "up"} /\ s2c'[c] = Tail(s2c[c]) /\ doc'[c] = e
    BY <2>1, <2>9 DEF StartPush, TypeOK
  <2>16. DeviceGhost(room, e, saved[c], conn'[c], socket[c], Tail(s2c[c]))
    BY <1>g, <2>13, <2>14, <2>15 DEF DeviceGhost
  <2>17. OthersKeep(c)
    BY <2>1, <2>9 DEF OthersKeep, StartPush, TypeOK
  <2> QED BY <2>1, <2>15, <2>16, <2>17, OneGhost
<1>3. CASE SendPush(c)
  <2>1. /\ conn[c] = "pushing" /\ \E x : c2s' = [c2s EXCEPT ![c] = x]
        /\ UNCHANGED <<room, doc, saved, socket, s2c, http>>
    BY <1>3 DEF SendPush
  <2>2. conn'[c] \in {"pushing", "up"} /\ OthersKeep(c)
    BY <1>3, <2>1 DEF SendPush, StartPush, OthersKeep, TypeOK
  <2>3. DeviceGhost(room, doc[c], saved[c], conn'[c], socket[c], s2c[c])
    BY <1>d, <2>1, <2>2 DEF DeviceGhost
  <2> QED BY <2>1, <2>2, <2>3, OneGhost
<1>4. CASE Nudge(c)
  <2> DEFINE e == TakePushable(doc[c])
  <2>1. /\ conn[c] = "up" /\ doc' = [doc EXCEPT ![c] = e]
        /\ UNCHANGED <<room, saved, socket, c2s, s2c, http>>
    BY <1>4 DEF Nudge
  <2>2. e.auth = doc[c].auth /\ e.cursor = doc[c].cursor
    BY <1>d, MarksKeep
  <2> HIDE DEF e
  <2>3. conn'[c] \in {"pushing", "up"} /\ OthersKeep(c) /\ doc'[c] = e
    BY <1>4, <2>1 DEF Nudge, StartPush, OthersKeep, TypeOK
  <2>4. PurgedOK(room, doc[c], s2c[c])
    BY <1>d, <2>1 DEF DeviceGhost
  <2>5. DeviceGhost(room, e, saved[c], conn'[c], socket[c], s2c[c])
    BY <1>g, <2>2, <2>3, <2>4, SameGhost DEF DeviceGhost
  <2> QED BY <2>1, <2>3, <2>5, OneGhost
<1>5. CASE RecvRows(c)
  <2> DEFINE m == Head(s2c[c])
             d == ApplyRows(doc[c], m.seq, m.rows)
  <2>1. conn[c] = "up" /\ s2c[c] # <<>> /\ m.t = "rows" /\ UNCHANGED <<room, saved>>
    BY <1>5 DEF RecvRows
  <2>2. m = s2c[c][1] /\ m \in Frame /\ 1 \in DOMAIN s2c[c]
    BY <1>d, <2>1, TailFacts
  <2>3. m.seq \in Nat /\ m.rows \in [Keys -> Row]
    BY <2>1, <2>2, FrameTypes
  <2>4. m.seq > doc[c].cursor
    BY <1>d, <2>1, <2>2 DEF LinkOK, After
  <2>5. PurgedOK(room, doc[c], s2c[c])
    BY <1>d, <2>1 DEF DeviceGhost
  <2>6. PurgedOK(room, d, Tail(s2c[c]))
    BY <1>d, <2>1, <2>2, <2>4, <2>5, RowsPurged
  <2>7. d \in Replica
    BY <1>d, <2>3, ApplyRowsType
  <2> HIDE DEF d
  <2>8. GhostFree(room, d)
    BY <1>d, <2>6, <2>7, PurgedGhost DEF Replica
  <2>9. CASE Gap(doc[c], m.seq)
    <3>1. EndSession(c, d)
      BY <1>5, <2>9 DEF RecvRows, d
    <3> QED BY <2>1, <2>7, <2>8, <3>1, EndGhost
  <2>10. CASE ~Gap(doc[c], m.seq)
    <3>1. /\ doc' = [doc EXCEPT ![c] = d] /\ s2c' = [s2c EXCEPT ![c] = Tail(s2c[c])]
          /\ UNCHANGED <<conn, socket, c2s, http>>
      BY <1>5, <2>10 DEF RecvRows, d
    <3>2. OthersKeep(c) /\ doc'[c] = d /\ s2c'[c] = Tail(s2c[c])
      BY <2>1, <3>1 DEF OthersKeep, TypeOK
    <3>3. DeviceGhost(room, d, saved[c], conn[c], socket[c], Tail(s2c[c]))
      BY <1>g, <2>1, <2>6, <2>8 DEF DeviceGhost
    <3> QED BY <2>1, <3>1, <3>2, <3>3, OneGhost
  <2> QED BY <2>9, <2>10
<1>6. CASE RecvAck(c)
  <2> DEFINE d == AckBatch(doc[c], Head(s2c[c]).batch)
  <2>1. /\ conn[c] = "up" /\ s2c[c] # <<>>
        /\ doc' = [doc EXCEPT ![c] = d]
        /\ s2c' = [s2c EXCEPT ![c] = Tail(s2c[c])]
        /\ UNCHANGED <<room, saved, conn, socket, c2s, http>>
    BY <1>6 DEF RecvAck
  <2>2. d.auth = doc[c].auth /\ d.cursor = doc[c].cursor
    BY <1>d, MarksKeep
  <2> HIDE DEF d
  <2>3. PurgedOK(room, doc[c], Tail(s2c[c]))
    BY <1>d, <2>1, PurgedTail DEF DeviceGhost
  <2>4. DeviceGhost(room, d, saved[c], conn[c], socket[c], Tail(s2c[c]))
    BY <1>g, <2>1, <2>2, <2>3, SameGhost DEF DeviceGhost
  <2>5. OthersKeep(c) /\ doc'[c] = d /\ s2c'[c] = Tail(s2c[c])
    BY <2>1 DEF OthersKeep, TypeOK
  <2> QED BY <2>1, <2>4, <2>5, OneGhost
<1>7. CASE RecvClose(c)
  BY <1>d, <1>g, <1>7, EndGhost DEF RecvClose
<1> QED BY <1>1, <1>2, <1>3, <1>4, <1>5, <1>6, <1>7 DEF SessionStep

\* Lost sockets and failed dials keep GhostInv.
LEMMA FailureGhost ==
  ASSUME TypeOK, CursorInv, GhostInv, NEW c \in Devices, Failure(c)
  PROVE  GhostInv'
<1>d. doc[c] \in Replica /\ GhostFree(room, doc[c])
  BY DEF TypeOK, GhostInv, DeviceGhost
<1>1. CASE Disconnect(c)
  BY <1>d, <1>1, EndGhost DEF Disconnect
<1>2. CASE DialFails(c)
  BY <1>2 DEF DialFails, GhostInv
<1> QED BY <1>1, <1>2, HttpCursor DEF Failure

\* A batch the room applies and broadcasts, with acks behind it.
LEMMA PublishGhost ==
  ASSUME TypeOK, CursorInv, GhostInv, NEW ops \in [Keys -> Op],
         NEW reply \in [Devices -> Seq(Frame)],
         \A c \in Devices : Acks(reply[c]),
         Publish(ops, reply), UNCHANGED <<doc, saved, conn, socket>>
  PROVE  GhostInv'
<1> DEFINE f == [t |-> "rows", seq |-> room'.seq, rows |-> MergedRows(room, ops)]
<1>1. /\ room \in Room /\ room' = ApplyPushBatch(room, ops) /\ SeqsOK(room)
      /\ room.gcFloor <= room.seq /\ room' \in Room
  BY ApplyPushBatchType DEF TypeOK, Publish, CursorInv, GhostInv
<1>2. /\ Purges(room, room') /\ room'.gcFloor <= room'.seq
      /\ Touched(room, ops) # {} => room'.seq > room'.gcFloor
      /\ \A k \in Keys : ~Exists(room'.rows[k]) => ~Exists(MergedRows(room, ops)[k])
  BY <1>1, PushPurges
<1>3. PICK missed : s2c' = [c \in Devices |->
         (IF socket[c] = "ready" /\ c \notin missed /\ Touched(room, ops) # {}
            THEN Append(s2c[c], f) ELSE s2c[c]) \o reply[c]]
  BY DEF Publish
<1>4. f \in Frame /\ f.t = "rows" /\ f.seq = room'.seq /\ f.rows = MergedRows(room, ops)
  <2>1. room'.seq \in Nat /\ MergedRows(room, ops) \in [Keys -> Row]
    BY <1>1, ApplyPushBatchType DEF Room
  <2> QED BY <2>1 DEF Frame
<1> HIDE DEF f
<1>5. ASSUME NEW c \in Devices
      PROVE  DeviceGhost(room', doc[c], saved[c], conn[c], socket[c], s2c'[c])
  <2> DEFINE q == s2c[c]
  <2>1. doc[c] \in Replica /\ saved[c] \in Replica /\ q \in Seq(Frame) /\ reply[c] \in Seq(Frame)
    BY DEF TypeOK
  <2>2. /\ DeviceOK(room, doc[c], saved[c], conn[c], socket[c], c2s[c], q, http[c])
        /\ DeviceGhost(room, doc[c], saved[c], conn[c], socket[c], q)
    BY InvUnfolds DEF GhostInv
  <2>3. DeviceGhost(room', doc[c], saved[c], conn[c], socket[c], q)
    BY <1>1, <1>2, <2>1, <2>2, PurgeDevice
  <2>4. \/ s2c'[c] = q \o reply[c]
        \/ Touched(room, ops) # {} /\ s2c'[c] = Append(q, f) \o reply[c]
    BY <1>3
  <2>5. ASSUME NEW v, PurgedOK(room', v, q) PROVE PurgedOK(room', v, s2c'[c])
    <3>1. CASE s2c'[c] = q \o reply[c]
      BY <2>1, <2>5, <3>1, PurgedAcks
    <3>2. CASE Touched(room, ops) # {} /\ s2c'[c] = Append(q, f) \o reply[c]
      <4>1. PurgedOK(room', v, Append(q, f))
        BY <1>1, <1>2, <1>4, <2>1, <2>5, <3>2, PurgedAppend
      <4>2. Append(q, f) \in Seq(Frame)
        BY <1>4, <2>1
      <4> QED BY <2>1, <3>2, <4>1, <4>2, PurgedAcks
    <3> QED BY <2>4, <3>1, <3>2
  <2>6. ASSUME socket[c] = "ready", conn[c] = "hello"
        PROVE  PurgedOK(room', StateView(doc[c], s2c'[c][1]), s2c'[c])
    <3>1. q # <<>>
      BY <2>2, <2>6 DEF DeviceOK, LinkOK
    <3>2. s2c'[c][1] = q[1]
      <4>1. Append(q, f) \in Seq(Frame) /\ Append(q, f)[1] = q[1] /\ 1 \in 1 .. Len(q)
            /\ 1 \in 1 .. Len(Append(q, f))
        BY <1>4, <2>1, <3>1
      <4> QED BY <2>1, <2>4, <4>1, SeqFacts
    <3> QED BY <2>3, <2>5, <2>6, <3>2 DEF DeviceGhost
  <2> QED BY <2>3, <2>5, <2>6 DEF DeviceGhost
<1> QED BY <1>2, <1>5 DEF GhostInv

\* The room's answers keep GhostInv.
LEMMA RoomStepGhost ==
  ASSUME TypeOK, CursorInv, GhostInv, NEW c \in Devices, RoomStep(c)
  PROVE  GhostInv'
<1>d. /\ doc[c] \in Replica /\ room \in Room /\ c2s[c] \in Seq(ClientFrame)
      /\ s2c[c] \in Seq(Frame) /\ socket[c] \in {"new", "ready", "closed"}
      /\ Complete(room, doc[c]) /\ SeqsOK(room)
      /\ LinkOK(room, doc[c], conn[c], socket[c], c2s[c], s2c[c])
      /\ GhostFree(room, doc[c]) /\ GhostFree(room, saved[c])
  BY DEF TypeOK, CursorInv, GhostInv, DeviceGhost
<1>1. CASE RoomHello(c)
  <2> DEFINE x == Head(c2s[c]).cursor
             a == Answer(room, x)
             f == [t |-> "state", seq |-> a.seq, full |-> a.full, rows |-> a.rows]
  <2>1. /\ socket[c] # "closed" /\ c2s[c] # <<>> /\ Head(c2s[c]).t = "hello"
        /\ s2c' = [s2c EXCEPT ![c] = Append(s2c[c], f)]
        /\ socket' = [socket EXCEPT ![c] = "ready"]
        /\ c2s' = [c2s EXCEPT ![c] = Tail(c2s[c])]
        /\ UNCHANGED <<room, doc, saved, conn, http>>
    BY <1>1 DEF RoomHello
  <2>2. socket[c] = "new"
    <3>1. Head(c2s[c]) = c2s[c][1] /\ 1 \in DOMAIN c2s[c]
      BY <1>d, <2>1
    <3> QED BY <1>d, <2>1, <3>1 DEF LinkOK
  <2>3. conn[c] = "hello" /\ s2c[c] = <<>> /\ x \in {NoCursor, doc[c].cursor}
    <3>1. conn[c] = "hello" /\ s2c[c] = <<>>
      BY <1>d, <2>2 DEF LinkOK
    <3>2. PICK y \in {NoCursor, doc[c].cursor} : c2s[c] = <<[t |-> "hello", cursor |-> y]>>
      BY <1>d, <2>2 DEF LinkOK
    <3>3. Head(c2s[c]) = [t |-> "hello", cursor |-> y]
      BY <3>2
    <3> QED BY <3>1, <3>3
  <2>4. f \in Frame
    <3>1. a \in [seq : Nat, full : BOOLEAN, rows : [Keys -> Row]]
      BY <2>1, C2sHeadType, AnswerType DEF TypeOK
    <3> HIDE DEF a
    <3> QED BY <3>1 DEF Frame
  <2>5. f.t = "state" /\ f.seq = a.seq /\ f.full = a.full /\ f.rows = a.rows
    OBVIOUS
  <2> HIDE DEF x, f
  <2>6. PurgedOK(room, StateView(doc[c], f), <<f>>)
    BY <1>d, <2>3, <2>4, <2>5, AnswerPurged
  <2>7. Append(s2c[c], f) = <<f>> /\ <<f>>[1] = f
    BY <2>3
  <2>8. DeviceGhost(room, doc[c], saved[c], "hello", "ready", <<f>>)
    BY <1>d, <2>6, <2>7 DEF DeviceGhost
  <2>9. OthersKeep(c) /\ s2c'[c] = <<f>> /\ socket'[c] = "ready"
    BY <2>1, <2>7 DEF OthersKeep, TypeOK
  <2> QED BY <2>1, <2>3, <2>8, <2>9, OneGhost
<1>2. CASE RoomPush(c)
  <2> DEFINE b == Head(c2s[c]).push
             reply == [NoReply EXCEPT ![c] = <<[t |-> "ack", batch |-> b.batch]>>]
  <2>1. /\ c2s[c] # <<>> /\ Head(c2s[c]).t = "push"
        /\ Publish(b.ops, reply) /\ UNCHANGED <<doc, saved, conn, socket>>
    BY <1>2 DEF RoomPush
  <2>2. b \in Batch
    BY <2>1, C2sHeadType
  <2>3. [t |-> "ack", batch |-> b.batch] \in Frame
    BY <2>2 DEF Batch, Frame
  <2>4. reply \in [Devices -> Seq(Frame)]
    BY <2>3, NoReplyType
  <2>5. \A y \in Devices : Acks(reply[y])
    BY DEF NoReply, Acks
  <2> HIDE DEF b, reply
  <2> QED BY <2>1, <2>2, <2>4, <2>5, PublishGhost DEF Batch
<1> QED BY <1>1, <1>2, HttpCursor DEF RoomStep

\* Late pushes and the alarm keep GhostInv.
LEMMA RoomAloneGhost ==
  ASSUME MaxResets = 0, TypeOK, CursorInv, GhostInv,
         RoomLate \/ RoomAlarm \/ RoomAlarmEnds \/ RoomAlarmFails \/ RoomReset
  PROVE  GhostInv'
<1>0. room \in Room /\ SeqsOK(room) /\ room.gcFloor <= room.seq
  BY DEF TypeOK, CursorInv, GhostInv
<1>1. CASE RoomLate
  <2>1. PICK b \in late : Publish(b.ops, NoReply) /\ UNCHANGED <<doc, saved, conn, socket>>
    BY <1>1 DEF RoomLate
  <2>2. b.ops \in [Keys -> Op]
    BY DEF TypeOK, Batch
  <2>3. \A y \in Devices : Acks(NoReply[y])
    BY DEF NoReply, Acks
  <2> QED BY <2>1, <2>2, <2>3, NoReplyType, PublishGhost
<1>2. ASSUME Purges(room, room'), room'.gcFloor <= room'.seq,
             UNCHANGED <<doc, saved, conn, socket, s2c>>
      PROVE  GhostInv'
  <2>1. ASSUME NEW c \in Devices
        PROVE  DeviceGhost(room', doc[c], saved[c], conn[c], socket[c], s2c[c])
    <3>1. doc[c] \in Replica /\ saved[c] \in Replica /\ s2c[c] \in Seq(Frame)
      BY DEF TypeOK
    <3>2. /\ DeviceOK(room, doc[c], saved[c], conn[c], socket[c], c2s[c], s2c[c], http[c])
          /\ DeviceGhost(room, doc[c], saved[c], conn[c], socket[c], s2c[c])
      BY InvUnfolds DEF GhostInv
    <3> QED BY <1>0, <1>2, <3>1, <3>2, PurgeDevice
  <2> QED BY <1>2, <2>1 DEF GhostInv
<1>3. CASE RoomAlarm
  <2>1. /\ \E h : room' = AlarmFires(room, h)
        /\ UNCHANGED <<doc, saved, conn, socket, s2c>>
    BY <1>3 DEF RoomAlarm
  <2> QED BY <1>0, <1>2, <2>1, AlarmPurges
<1>4. CASE RoomAlarmEnds
  BY <1>0, <1>2, <1>4, AlarmPurges DEF RoomAlarmEnds
<1>5. CASE RoomAlarmFails
  BY <1>0, <1>2, <1>5, AlarmPurges DEF RoomAlarmFails
<1>6. ~RoomReset
  <2>1. used.resets \in Nat
    BY DEF TypeOK
  <2> QED BY <2>1 DEF RoomReset, Spend, Bound
<1> QED BY <1>1, <1>3, <1>4, <1>5, <1>6

\* GhostInv is inductive where the socket is the only transport and no reset happens.
LEMMA GhostStep ==
  ASSUME MaxResets = 0, TypeOK, CursorInv, GhostInv, [Next]_vars
  PROVE  GhostInv'
<1>1. CASE UNCHANGED vars
  BY <1>1 DEF vars, GhostInv
<1>2. ASSUME NEW c \in Devices,
             LocalStep(c) \/ SessionStep(c) \/ HttpStep(c) \/ Failure(c) \/ RoomStep(c)
      PROVE  GhostInv'
  BY <1>2, LocalGhost, SessionGhost, HttpCursor, FailureGhost, RoomStepGhost
<1>3. CASE RoomLate \/ RoomAlarm \/ RoomAlarmEnds \/ RoomAlarmFails \/ RoomReset
  BY <1>3, RoomAloneGhost
<1> QED BY <1>1, <1>2, <1>3 DEF Next

\* GhostInv holds at the start: no replica has any row.
LEMMA InitGhost == Init => GhostInv
<1> SUFFICES ASSUME Init PROVE GhostInv
  OBVIOUS
<1>1. NewDoc \in Replica /\ \A k \in Keys : NewDoc.auth[k].st = "missing"
  BY TableTypes DEF NewDoc, Replica, Clock, EmptyTable, NoRow
<1>2. room.gcFloor = 0 /\ room.seq = 0
  BY DEF Init, NewRoom
<1>3. ASSUME NEW c \in Devices
      PROVE  DeviceGhost(room, doc[c], saved[c], conn[c], socket[c], s2c[c])
  <2>1. PICK now \in Times : doc[c] = Boot(NewDoc, c, now)
    BY DEF Init
  <2>2. \A k \in Keys : doc[c].auth[k].st = "missing"
    BY <1>1, <2>1, BootKeeps
  <2>3. saved[c] = doc[c] /\ conn[c] = "down" /\ socket[c] = "closed" /\ s2c[c] = <<>>
    BY DEF Init
  <2> QED BY <2>2, <2>3, DownGhost DEF GhostFree
<1> QED BY <1>2, <1>3 DEF GhostInv

\* Tombstone GC never brings a deleted row back: on a client without the HTTPS
\* transport and a room that is never reset, a replica whose cursor the room
\* would answer with a delta does not show as live a row whose tombstone the
\* alarm has purged, whatever broadcasts were lost, whichever frames were under
\* way at the purge, and from whichever snapshot a device restarted.
THEOREM GhostsNeverShow ==
  ASSUME ~HasTransport, MaxResets = 0
  PROVE  Spec => []NoGhostRows
<1>1. Init => CursorInv /\ GhostInv
  BY InitCursor, InitGhost
<1>2. TypeOK /\ TypeOK' /\ CursorInv /\ GhostInv /\ [Next]_vars => CursorInv' /\ GhostInv'
  BY CursorStep, GhostStep
<1>3. TypeOK /\ GhostInv => NoGhostRows
  <2> SUFFICES ASSUME TypeOK, GhostInv, NEW c \in Devices, NEW k \in Keys,
                      doc[c].auth[k].st = "live", doc[c].cursor >= room.gcFloor
               PROVE  Exists(room.rows[k])
    BY DEF NoGhostRows
  <2>1. doc[c].cursor \in Nat /\ room.gcFloor \in Nat
    BY DEF TypeOK, Replica, Room
  <2> QED BY <2>1 DEF GhostInv, DeviceGhost, GhostFree
<1> QED BY <1>1, <1>2, <1>3, TypeCorrect, PTL DEF Spec

=============================================================================
