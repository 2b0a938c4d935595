----------------------- MODULE RegistryFlicker_proofs -----------------------
(***************************************************************************)
(* An acknowledgment never makes a row flicker: NoFlicker, proved for      *)
(* every number of devices, rows and pending batches, and any disconnects, *)
(* crashes, replayed pushes and GC horizons, where the socket is the only  *)
(* transport, loses no broadcast, and the room is never wiped.             *)
(*                                                                         *)
(* The acknowledged batch is the oldest one pending, and by the time its   *)
(* ack is read the rows below it already show what it did: applying it     *)
(* there again changes nothing, so neither does taking it away.            *)
(***************************************************************************)
EXTENDS RegistryCursor_proofs, RegistryFlight_proofs

-----------------------------------------------------------------------------
(* What a device displays *)

\* Batches with an id each: what a replica has pending.
Numbered(P) ==
  /\ IsFiniteSet(P)
  /\ \A b \in P : b.batch \in Nat
  /\ \A a, b \in P : a.batch = b.batch => a = b

\* Induction on the subsets of P, by a smallest one.
LEMMA SmallestSubset ==
  ASSUME NEW P, IsFiniteSet(P), NEW T, T \subseteq SUBSET P, T # {}
  PROVE  \E s \in T : \A t \in T : t \subseteq s => t = s
<1>1. IsWellFoundedOn(StrictSubsetOrdering(P), SUBSET P)
  BY FS_StrictSubsetOrderingWellFounded, FS_FiniteSubsetsOfFinite
<1>2. PICK s \in T : \A t \in T : ~(<<t, s>> \in StrictSubsetOrdering(P))
  BY <1>1, WFMin
<1>3. ASSUME NEW t \in T, t \subseteq s PROVE t = s
  BY <1>2, <1>3 DEF StrictSubsetOrdering
<1> QED BY <1>3

\* The batch that was written last, of some.
LEMMA NewestIs ==
  ASSUME NEW P, Numbered(P), NEW s \in SUBSET P, s # {}
  PROVE  Newest(s) \in s /\ \A c \in s : c.batch <= Newest(s).batch
<1> DEFINE T == {t \in SUBSET s : t # {} /\ ~\E b \in t : \A c \in t : c.batch <= b.batch}
<1>1. IsFiniteSet(s) /\ T \subseteq SUBSET s
  BY FS_Subset DEF Numbered
<1>2. SUFFICES ASSUME s \in T PROVE FALSE
  <2>1. \E b \in s : \A c \in s : c.batch <= b.batch
    BY <1>2
  <2> QED BY <2>1 DEF Newest
<1>3. PICK t \in T : \A u \in T : u \subseteq t => u = t
  <2> HIDE DEF T
  <2> QED BY <1>1, <1>2, SmallestSubset
<1>4. PICK x \in t : TRUE
  BY <1>3
<1>5. \A b \in t : b.batch \in Nat
  BY <1>3 DEF Numbered
<1>6. t \ {x} # {} /\ t \ {x} \in SUBSET s /\ t \ {x} # t
  <2>1. t \ {x} # {}
    BY <1>3, <1>4, <1>5
  <2> QED BY <1>3, <1>4, <2>1
<1>7. PICK m \in t \ {x} : \A c \in t \ {x} : c.batch <= m.batch
  <2>1. t \ {x} \notin T
    <3> HIDE DEF T
    <3> QED BY <1>3, <1>6
  <2> QED BY <1>6, <2>1
<1>8. \E b \in t : \A c \in t : c.batch <= b.batch
  <2>1. CASE x.batch <= m.batch
    BY <1>7, <2>1
  <2>2. CASE m.batch <= x.batch
    BY <1>4, <1>5, <1>7, <2>2
  <2> QED BY <1>4, <1>5, <1>7, <2>1, <2>2
<1> QED BY <1>3, <1>8

\* Whatever batch no other is newer than is that one.
LEMMA NewestOnly ==
  ASSUME NEW P, Numbered(P), NEW s \in SUBSET P, NEW b \in s, \A c \in s : c.batch <= b.batch
  PROVE  Newest(s) = b
<1>1. Newest(s) \in s /\ b.batch <= Newest(s).batch
  BY NewestIs
<1>2. Newest(s).batch \in Nat /\ b.batch \in Nat /\ Newest(s).batch <= b.batch
  BY <1>1 DEF Numbered
<1>3. Newest(s).batch = b.batch
  BY <1>1, <1>2
<1> QED BY <1>1, <1>3 DEF Numbered

\* f is a row with base a and the operations on k of ever more of P's batches.
Layers(a, k, P, f) ==
  f = [s \in SUBSET P |-> IF s = {} THEN a
                          ELSE ApplyOp(f[s \ {Newest(s)}], Newest(s).ops[k])]

\* The batches of a replica can be laid on a row one after another.
LEMMA LayersExist ==
  ASSUME NEW a, NEW k, NEW P, Numbered(P)
  PROVE  \E f : Layers(a, k, P, f)
<1> DEFINE T == {s \in SUBSET P : ~\E f : Layers(a, k, s, f)}
<1>1. SUFFICES ASSUME P \in T PROVE FALSE
  OBVIOUS
<1>2. PICK s \in T : \A t \in T : t \subseteq s => t = s
  <2>1. T \subseteq SUBSET P /\ T # {} /\ IsFiniteSet(P)
    BY <1>1 DEF Numbered
  <2> HIDE DEF T
  <2> QED BY <2>1, SmallestSubset
<1>3. s # {}
  <2>1. Layers(a, k, {}, [x \in {{}} |-> a])
    BY DEF Layers
  <2> QED BY <1>2, <2>1
<1> DEFINE n == Newest(s)
<1>4. n \in s /\ (\A c \in s : c.batch <= n.batch) /\ s \in SUBSET P
  BY <1>2, <1>3, NewestIs
<1>5. PICK g : Layers(a, k, s \ {n}, g)
  <2>1. s \ {n} \in SUBSET P /\ s \ {n} \subseteq s /\ s \ {n} # s
    BY <1>4
  <2>2. s \ {n} \notin T
    <3> HIDE DEF T, n
    <3> QED BY <1>2, <2>1
  <2> QED BY <2>1, <2>2
<1> HIDE DEF T, n
<1> DEFINE f == [t \in SUBSET s |-> IF n \in t THEN ApplyOp(g[t \ {n}], n.ops[k]) ELSE g[t]]
<1>6. ASSUME NEW t \in SUBSET s, t # {}
      PROVE  f[t] = ApplyOp(f[t \ {Newest(t)}], Newest(t).ops[k])
  <2>1. t \in SUBSET P /\ Newest(t) \in t
    BY <1>4, <1>6, NewestIs
  <2>2. CASE n \in t
    <3>1. Newest(t) = n
      BY <1>4, <2>1, <2>2, NewestOnly
    <3>2. t \ {n} \in SUBSET s /\ n \notin t \ {n}
      OBVIOUS
    <3>3. f[t] = ApplyOp(g[t \ {n}], n.ops[k]) /\ f[t \ {n}] = g[t \ {n}]
      BY <2>2, <3>2
    <3> QED BY <3>1, <3>3
  <2>3. CASE n \notin t
    <3>1. t \in SUBSET (s \ {n}) /\ t \ {Newest(t)} \in SUBSET s /\ n \notin t \ {Newest(t)}
      BY <2>3
    <3>2. g[t] = ApplyOp(g[t \ {Newest(t)}], Newest(t).ops[k])
      BY <1>5, <1>6, <3>1 DEF Layers
    <3>3. f[t] = g[t] /\ f[t \ {Newest(t)}] = g[t \ {Newest(t)}]
      BY <2>3, <3>1
    <3> QED BY <3>2, <3>3
  <2> QED BY <2>2, <2>3
<1>7. f[{}] = a
  <2>1. g[{}] = a
    BY <1>5 DEF Layers
  <2> QED BY <2>1
<1>8. Layers(a, k, s, f)
  <2>1. \A t \in SUBSET s : f[t] = IF t = {} THEN a
                               ELSE ApplyOp(f[t \ {Newest(t)}], Newest(t).ops[k])
    BY <1>6, <1>7
  <2>2. f = [t \in SUBSET s |-> f[t]]
    OBVIOUS
  <2> HIDE DEF f
  <2> QED BY <2>1, <2>2 DEF Layers
<1> QED BY <1>2, <1>8 DEF T

\* What a device shows: its row under its pending batches, the oldest first.
LEMMA OverlayLayers ==
  ASSUME NEW d, NEW k, Numbered(d.pending)
  PROVE  \E f : Layers(d.auth[k], k, d.pending, f) /\ OverlayRow(d, k) = f[d.pending]
<1> DEFINE f == CHOOSE f : Layers(d.auth[k], k, d.pending, f)
<1>1. Layers(d.auth[k], k, d.pending, f)
  BY LayersExist
<1>2. OverlayRow(d, k) = f[d.pending]
  BY DEF OverlayRow, MapThenFoldSet, Layers
<1> QED BY <1>1, <1>2

\* The oldest batch can be dropped if it does nothing to the row below.
LEMMA DropOldest ==
  ASSUME NEW d, NEW e, NEW k, Numbered(d.pending), NEW b \in d.pending,
         \A x \in d.pending : b.batch <= x.batch,
         ~Changed(d.auth[k], b.ops[k]),
         e.auth = d.auth, e.pending = d.pending \ {b}
  PROVE  OverlayRow(e, k) = OverlayRow(d, k)
<1> DEFINE a == d.auth[k]
           P == d.pending
<1>1. Numbered(e.pending) /\ e.auth[k] = a
  BY FS_RemoveElement DEF Numbered
<1>2. PICK f : Layers(a, k, P, f) /\ OverlayRow(d, k) = f[P]
  BY OverlayLayers
<1>3. PICK h : Layers(a, k, P \ {b}, h) /\ OverlayRow(e, k) = h[P \ {b}]
  BY <1>1, OverlayLayers
<1>4. ApplyOp(a, b.ops[k]) = a
  BY DEF ApplyOp
<1> DEFINE T == {s \in SUBSET P : b \in s /\ f[s] # h[s \ {b}]}
<1>5. SUFFICES ASSUME P \in T PROVE FALSE
  BY <1>2, <1>3
<1>6. PICK s \in T : \A t \in T : t \subseteq s => t = s
  <2>1. T \subseteq SUBSET P /\ T # {} /\ IsFiniteSet(P)
    BY <1>5 DEF Numbered
  <2> HIDE DEF T
  <2> QED BY <2>1, SmallestSubset
<1> DEFINE n == Newest(s)
<1>7. /\ s \in SUBSET P /\ b \in s /\ f[s] # h[s \ {b}]
      /\ n \in s /\ (\A c \in s : c.batch <= n.batch)
  BY <1>6, NewestIs
<1> HIDE DEF n
<1>8. f[s] = ApplyOp(f[s \ {n}], n.ops[k])
  BY <1>2, <1>7 DEF Layers, n
<1>9. CASE n = b
  <2>1. s = {b}
    <3>1. ASSUME NEW c \in s PROVE c = b
      <4>1. c.batch <= b.batch /\ b.batch <= c.batch /\ c \in P /\ b \in P
        BY <1>7, <1>9, <3>1
      <4>2. c.batch \in Nat /\ b.batch \in Nat
        BY <4>1 DEF Numbered
      <4> QED BY <4>1, <4>2 DEF Numbered
    <3> QED BY <1>7, <3>1
  <2>2. f[{}] = a /\ h[{}] = a
    BY <1>2, <1>3 DEF Layers
  <2> QED BY <1>4, <1>7, <1>8, <1>9, <2>1, <2>2
<1>10. CASE n # b
  <2>1. f[s \ {n}] = h[(s \ {n}) \ {b}]
    <3>1. s \ {n} \in SUBSET P /\ s \ {n} \subseteq s /\ s \ {n} # s /\ b \in s \ {n}
      BY <1>7, <1>10
    <3>2. s \ {n} \notin T
      <4> HIDE DEF T
      <4> QED BY <1>6, <3>1
    <3> QED BY <3>1, <3>2
  <2>2. Newest(s \ {b}) = n
    <3>1. s \ {b} \in SUBSET P /\ n \in s \ {b} /\ \A c \in s \ {b} : c.batch <= n.batch
      BY <1>7, <1>10
    <3> QED BY <3>1, NewestOnly
  <2>3. h[s \ {b}] = ApplyOp(h[(s \ {b}) \ {n}], n.ops[k])
    <3>1. s \ {b} \in SUBSET (P \ {b}) /\ s \ {b} # {}
      BY <1>7, <1>10
    <3> QED BY <1>3, <2>2, <3>1 DEF Layers
  <2>4. (s \ {b}) \ {n} = (s \ {n}) \ {b}
    OBVIOUS
  <2> QED BY <1>7, <1>8, <2>1, <2>3, <2>4
<1> QED BY <1>9, <1>10

-----------------------------------------------------------------------------
(* The inductive invariant *)

HasRow(m, k) == m.t = "rows" /\ Exists(m.rows[k])

\* Where row k of a replica comes from once it has read the first n frames on
\* its socket: the last of them that has the row, or 0, the replica itself.
Source(down, n, k, i) ==
  /\ i \in 0 .. n
  /\ i # 0 => HasRow(down[i], k)
  /\ \A j \in i + 1 .. n : ~HasRow(down[j], k)

RowFrom(d, down, i, k) == IF i = 0 THEN d.auth[k] ELSE down[i].rows[k]

\* A row shows what the room has, whose tombstones the alarm may have purged.
Agrees(row, kept) == IF Exists(kept) THEN row = kept ELSE row.st # "live"

\* Once it has read all of its socket, a replica shows the room's table.
Mirror(r, d, down) ==
  \A k \in Keys, i \in 0 .. Len(down) :
    Source(down, Len(down), k, i) => Agrees(RowFrom(d, down, i, k), r.rows[k])

\* The hello's answer counts as read.
MirrorOK(r, d, cn, sk, down) ==
  /\ sk = "ready" /\ cn = "hello" => Mirror(r, StateView(d, down[1]), down)
  /\ cn \in {"pushing", "up"} => Mirror(r, d, down)

\* When the replica reads the ack of a batch it still has, the batch changes
\* none of its rows.
AcksQuiet(d, down) ==
  \A n \in DOMAIN down : down[n].t = "ack" =>
    \A b \in d.pending : b.batch = down[n].batch =>
      \A k \in Keys, i \in 0 .. n - 1 :
        Source(down, n - 1, k, i) => ~Changed(RowFrom(d, down, i, k), b.ops[k])

\* Batches have distinct ids, none newer than the replica's clock.
BatchesOK(d, c) ==
  /\ Numbered(d.pending)
  /\ \A b \in d.pending : b.batch <= Stamp(d.clock, c)
  /\ d.clock.counter <= MaxCounter

Ids(S) == {b.batch : b \in S}
AckIds(down) == {down[i].batch : i \in {j \in DOMAIN down : down[j].t = "ack"}}
PushIds(up) == {up[i].push.batch : i \in {j \in DOMAIN up : up[j].t = "push"}}

Before(A, B) == \A x \in A, y \in B : x < y

AcksInOrder(down) ==
  \A i, j \in DOMAIN down :
    i < j /\ down[i].t = "ack" /\ down[j].t = "ack" => down[i].batch < down[j].batch

PushesInOrder(up) ==
  \A i, j \in DOMAIN up :
    i < j /\ up[i].t = "push" /\ up[j].t = "push" => up[i].push.batch < up[j].push.batch

\* The ids of batches under way are in the order they were written in: those
\* acknowledged, those pushed, those about to be, and those not yet taken.
InLine(d, c, out, up, down) ==
  /\ AcksInOrder(down)
  /\ PushesInOrder(up)
  /\ \A x, y \in out : x.batch = y.batch => x = y
  /\ Before(AckIds(down), PushIds(up))
  /\ Before(AckIds(down) \union PushIds(up), Ids(out))
  /\ Before(AckIds(down) \union PushIds(up) \union Ids(out), Ids(Pushable(d)))
  /\ \A x \in AckIds(down) \union PushIds(up) \union Ids(out) : x <= Stamp(d.clock, c)

\* A copy of a batch under way has the operations of the batch.
SameOps(d, out, up) ==
  \A b \in d.pending :
    /\ \A x \in out : x.batch = b.batch => x.ops = b.ops
    /\ \A i \in DOMAIN up : up[i].t = "push" /\ up[i].push.batch = b.batch
                              => up[i].push.ops = b.ops

LineOK(d, c, cn, out, up, down) ==
  /\ BatchesOK(d, c)
  /\ InLine(d, c, out, up, down)
  /\ SameOps(d, out, up)
  /\ AcksQuiet(d, down)
  /\ cn \in {"down", "hello"} => AckIds(down) = {} /\ PushIds(up) = {}

DeviceLine(c, r, d, sv, cn, sk, out, up, down) ==
  /\ LineOK(d, c, cn, out, up, down)
  /\ BatchesOK(sv, c)
  /\ MirrorOK(r, d, cn, sk, down)

LineInv ==
  \A c \in Devices :
    DeviceLine(c, room, doc[c], saved[c], conn[c], socket[c], sending[c], c2s[c], s2c[c])
-----------------------------------------------------------------------------
(* What the merge rule says of a batch applied before *)

\* An operation that was applied changes nothing when it is applied again.
LEMMA AppliedQuiet ==
  ASSUME NEW row \in Row, NEW op \in Op
  PROVE  ~Changed(ApplyOp(row, op), op)
<1>1. CASE ~Changed(row, op)
  BY <1>1 DEF ApplyOp
<1>2. CASE Changed(row, op) /\ op.op = "delete"
  <2>1. ApplyOp(row, op).st = "deleted" /\ ApplyOp(row, op).delHlc = op.hlc
    BY <1>2 DEF ApplyOp, Tombstone, Row
  <2> QED BY <1>2, <2>1 DEF Changed, DeleteBeats, HlcNewer, Op, Hlc
<1>3. CASE Changed(row, op) /\ op.op # "delete"
  <2> DEFINE w == WriteFields(row, op)
  <2>1. ApplyOp(row, op) = w /\ w.st = "live" /\ op.op # "none"
    BY <1>3 DEF ApplyOp, WriteFields, Row, Changed
  <2>2. ASSUME NEW f \in Fields PROVE ~FieldWins(w, op, f)
    <3>1. w.clocks[f] = IF FieldWins(row, op, f) THEN ClockFor(op, f) ELSE row.clocks[f]
      BY DEF WriteFields, Row
    <3>2. ClockFor(op, f) \in Hlc
      BY ClockForType
    <3> QED BY <3>1, <3>2 DEF FieldWins, HlcNewer, Hlc
  <2> HIDE DEF w
  <2> QED BY <1>3, <2>1, <2>2 DEF Changed
<1> QED BY <1>1, <1>2, <1>3

\* Changed looks at no seq.
LEMMA SeqQuiet ==
  ASSUME NEW row \in Row, NEW n \in Nat, NEW op \in Op
  PROVE  Changed([row EXCEPT !.seq = n], op) = Changed(row, op)
<1> DEFINE new == [row EXCEPT !.seq = n]
<1>1. /\ new.st = row.st /\ new.delHlc = row.delHlc /\ new.fields = row.fields
      /\ new.clocks = row.clocks
  BY DEF Row
<1> HIDE DEF new
<1>2. Changed(new, op) = Changed(row, op)
  BY <1>1 DEF Changed, DeleteBeats, Writable, FieldWins, AllClocks
<1> QED BY <1>2 DEF new

\* What changes nothing in the room changes nothing where the row agrees.
LEMMA AgreesQuiet ==
  ASSUME NEW kept, NEW row \in Row, Agrees(row, kept), NEW op \in Op, ~Changed(kept, op)
  PROVE  ~Changed(row, op)
<1>1. CASE Exists(kept)
  BY <1>1 DEF Agrees
<1>2. CASE ~Exists(kept)
  <2>1. kept.st = "missing" /\ row.st \in {"missing", "deleted"}
    BY <1>2 DEF Exists, Agrees, Row
  <2>2. op.op \in {"none", "update"}
    BY <2>1 DEF Changed, DeleteBeats, Writable, Op
  <2> QED BY <2>1, <2>2 DEF Changed, Writable
<1> QED BY <1>1, <1>2

\* The rows a batch leaves in the room are rows it would not change.
LEMMA PushQuiet ==
  ASSUME NEW r \in Room, NEW ops \in [Keys -> Op], NEW k \in Keys
  PROVE  ~Changed(ApplyPushBatch(r, ops).rows[k], ops[k])
<1>1. r.rows[k] \in Row /\ ops[k] \in Op /\ r.seq + 1 \in Nat
  BY DEF Room
<1>2. CASE k \in Touched(r, ops)
  <2>1. ApplyPushBatch(r, ops).rows[k] = [ApplyOp(r.rows[k], ops[k]) EXCEPT !.seq = r.seq + 1]
    BY <1>2 DEF ApplyPushBatch, Room
  <2>2. ApplyOp(r.rows[k], ops[k]) \in Row /\ ~Changed(ApplyOp(r.rows[k], ops[k]), ops[k])
    BY <1>1, ApplyOpType, AppliedQuiet
  <2> QED BY <1>1, <2>1, <2>2, SeqQuiet
<1>3. CASE k \notin Touched(r, ops)
  <2>1. ApplyPushBatch(r, ops).rows[k] = r.rows[k]
    BY <1>3 DEF ApplyPushBatch, Room
  <2>2. ~Changed(r.rows[k], ops[k])
    BY <1>3 DEF Touched
  <2> QED BY <2>1, <2>2
<1> QED BY <1>2, <1>3

-----------------------------------------------------------------------------
(* What a replica will show *)

\* A frame behind the n-th does not matter yet.
LEMMA SourceBefore ==
  ASSUME NEW q \in Seq(Frame), NEW f \in Frame, NEW d, NEW k, NEW n \in 0 .. Len(q), NEW i,
         Source(Append(q, f), n, k, i)
  PROVE  Source(q, n, k, i) /\ RowFrom(d, Append(q, f), i, k) = RowFrom(d, q, i, k)
<1>1. Len(q) \in Nat /\ \A j \in 1 .. n : j \in 1 .. Len(q) /\ Append(q, f)[j] = q[j]
  OBVIOUS
<1>2. i \in 0 .. n /\ \A j \in i + 1 .. n : j \in 1 .. n
  BY <1>1 DEF Source
<1>3. i # 0 => Append(q, f)[i] = q[i]
  BY <1>1, <1>2
<1>4. \A j \in i + 1 .. n : Append(q, f)[j] = q[j]
  BY <1>1, <1>2
<1> QED BY <1>2, <1>3, <1>4 DEF Source, RowFrom

\* The last frame has the row, or it is found before it.
LEMMA SourceLast ==
  ASSUME NEW q \in Seq(Frame), NEW f \in Frame, NEW d, NEW k, NEW i,
         Source(Append(q, f), Len(q) + 1, k, i)
  PROVE  IF HasRow(f, k)
           THEN RowFrom(d, Append(q, f), i, k) = f.rows[k]
           ELSE /\ Source(q, Len(q), k, i)
                /\ RowFrom(d, Append(q, f), i, k) = RowFrom(d, q, i, k)
<1>1. /\ Len(q) \in Nat /\ Append(q, f)[Len(q) + 1] = f
      /\ \A j \in 1 .. Len(q) : Append(q, f)[j] = q[j]
  OBVIOUS
<1>2. i \in 0 .. Len(q) + 1 /\ (i # 0 => HasRow(Append(q, f)[i], k))
      /\ \A j \in i + 1 .. Len(q) + 1 : ~HasRow(Append(q, f)[j], k)
  BY DEF Source
<1>3. CASE i = Len(q) + 1
  BY <1>1, <1>2, <1>3 DEF RowFrom
<1>4. CASE i # Len(q) + 1
  <2>1. i \in 0 .. Len(q) /\ Len(q) + 1 \in i + 1 .. Len(q) + 1
    BY <1>1, <1>2, <1>4
  <2>2. ~HasRow(f, k)
    BY <1>1, <1>2, <2>1
  <2>3. \A j \in i + 1 .. Len(q) : j \in i + 1 .. Len(q) + 1
    BY <1>1, <2>1
  <2>4. Source(Append(q, f), Len(q), k, i)
    BY <1>2, <2>1, <2>3 DEF Source
  <2>5. Len(q) \in 0 .. Len(q)
    BY <1>1
  <2>6. Source(q, Len(q), k, i) /\ RowFrom(d, Append(q, f), i, k) = RowFrom(d, q, i, k)
    BY <2>4, <2>5, SourceBefore
  <2> QED BY <2>2, <2>6
<1> QED BY <1>3, <1>4

\* The first frame, read, gives the row that it has.
Read(d, m, e) ==
  \A k \in Keys : e.auth[k] = IF HasRow(m, k) THEN m.rows[k] ELSE d.auth[k]

\* A row has the source it had before the first frame was read.
Shifts(d, e, q) ==
  \A k \in Keys, n \in 0 .. Len(Tail(q)) : \A i :
    Source(Tail(q), n, k, i) =>
      \E j \in 0 .. n + 1 : /\ Source(q, n + 1, k, j)
                            /\ RowFrom(e, Tail(q), i, k) = RowFrom(d, q, j, k)

\* It does.
LEMMA SourceTail ==
  ASSUME NEW q \in Seq(Frame), q # <<>>, NEW d, NEW e, Read(d, q[1], e)
  PROVE  Shifts(d, e, q)
<1> SUFFICES ASSUME NEW k \in Keys, NEW n \in 0 .. Len(Tail(q)), NEW i,
                    Source(Tail(q), n, k, i)
             PROVE  \E j \in 0 .. n + 1 : /\ Source(q, n + 1, k, j)
                                          /\ RowFrom(e, Tail(q), i, k) = RowFrom(d, q, j, k)
  BY DEF Shifts
<1>1. /\ Len(q) \in Nat /\ Len(Tail(q)) = Len(q) - 1 /\ Len(q) >= 1
      /\ \A j \in 1 .. Len(q) - 1 : Tail(q)[j] = q[j + 1]
  OBVIOUS
<1>2. n \in Nat /\ n <= Len(q) - 1 /\ i \in 0 .. n
  BY <1>1 DEF Source
<1>3. \A j \in i + 2 .. n + 1 : j - 1 \in i + 1 .. n /\ q[j] = Tail(q)[j - 1]
  BY <1>1, <1>2
<1>4. \A j \in i + 2 .. n + 1 : ~HasRow(q[j], k)
  BY <1>3 DEF Source
<1>5. CASE i # 0
  <2>1. i + 1 \in 0 .. n + 1 /\ Tail(q)[i] = q[i + 1] /\ i + 1 # 0 /\ (i + 1) + 1 = i + 2
    BY <1>1, <1>2, <1>5
  <2>2. HasRow(q[i + 1], k)
    BY <1>5, <2>1 DEF Source
  <2>3. Source(q, n + 1, k, i + 1)
    BY <1>4, <2>1, <2>2 DEF Source
  <2> QED BY <1>5, <2>1, <2>3 DEF RowFrom
<1>6. CASE i = 0 /\ HasRow(q[1], k)
  <2>1. 1 \in 0 .. n + 1 /\ 1 + 1 = i + 2
    BY <1>2, <1>6
  <2>2. Source(q, n + 1, k, 1)
    BY <1>4, <1>6, <2>1 DEF Source
  <2> QED BY <1>6, <2>1, <2>2 DEF RowFrom, Read
<1>7. CASE i = 0 /\ ~HasRow(q[1], k)
  <2>1. 0 \in 0 .. n + 1 /\ \A j \in 0 + 1 .. n + 1 : j = 1 \/ j \in i + 2 .. n + 1
    BY <1>2, <1>7
  <2>2. Source(q, n + 1, k, 0)
    BY <1>4, <1>7, <2>1 DEF Source
  <2> QED BY <1>7, <2>1, <2>2 DEF RowFrom, Read
<1> QED BY <1>5, <1>6, <1>7

\* A row is read from a table.
LEMMA RowFromType ==
  ASSUME NEW q \in Seq(Frame), NEW d, d.auth \in [Keys -> Row], NEW n \in 0 .. Len(q),
         NEW k \in Keys, NEW i, Source(q, n, k, i)
  PROVE  RowFrom(d, q, i, k) \in Row
<1>1. CASE i = 0
  BY <1>1 DEF RowFrom
<1>2. CASE i # 0
  <2>1. i \in 1 .. Len(q) /\ HasRow(q[i], k)
    BY <1>2 DEF Source
  <2>2. q[i] \in Frame
    BY <2>1
  <2>3. q[i].rows \in [Keys -> Row]
    BY <2>1, <2>2, FrameTypes DEF HasRow
  <2> QED BY <1>2, <2>3 DEF RowFrom
<1> QED BY <1>1, <1>2

-----------------------------------------------------------------------------
(* It will show the room's table *)

\* What agreed with the room's rows before a step agrees with them after it.
Tracks(r, s, k) == \A row : Agrees(row, r.rows[k]) => Agrees(row, s.rows[k])

\* A room whose rows a replica tracks.
LEMMA MirrorTracks ==
  ASSUME NEW r, NEW s, \A k \in Keys : Tracks(r, s, k), NEW d, NEW q, Mirror(r, d, q)
  PROVE  Mirror(s, d, q)
  BY DEF Mirror, Tracks

\* Mirror speaks of a replica's rows only.
LEMMA SameMirror ==
  ASSUME NEW d, NEW e, e.auth = d.auth, NEW r, NEW q, Mirror(r, d, q)
  PROVE  Mirror(r, e, q)
  BY DEF Mirror, RowFrom

\* A frame that brings the rows that are not tracked.
LEMMA MirrorAppend ==
  ASSUME NEW r, NEW s, NEW q \in Seq(Frame), NEW f \in Frame, NEW d, Mirror(r, d, q),
         \A k \in Keys : IF HasRow(f, k) THEN Agrees(f.rows[k], s.rows[k]) ELSE Tracks(r, s, k)
  PROVE  Mirror(s, d, Append(q, f))
<1> SUFFICES ASSUME NEW k \in Keys, NEW i \in 0 .. Len(q) + 1,
                    Source(Append(q, f), Len(q) + 1, k, i)
             PROVE  Agrees(RowFrom(d, Append(q, f), i, k), s.rows[k])
  <2>1. Len(Append(q, f)) = Len(q) + 1
    OBVIOUS
  <2> QED BY <2>1 DEF Mirror
<1>1. CASE HasRow(f, k)
  BY <1>1, SourceLast
<1>2. CASE ~HasRow(f, k)
  <2>1. /\ Source(q, Len(q), k, i)
        /\ RowFrom(d, Append(q, f), i, k) = RowFrom(d, q, i, k)
    BY <1>2, SourceLast
  <2>2. Agrees(RowFrom(d, q, i, k), r.rows[k])
    BY <2>1 DEF Mirror, Source
  <2> QED BY <1>2, <2>1, <2>2 DEF Tracks
<1> QED BY <1>1, <1>2

\* The first frame, read, takes nothing from what the replica will show.
LEMMA MirrorTail ==
  ASSUME NEW r, NEW q \in Seq(Frame), q # <<>>, NEW d, NEW e, Read(d, q[1], e),
         Mirror(r, d, q)
  PROVE  Mirror(r, e, Tail(q))
<1> DEFINE n == Len(Tail(q))
<1>1. n + 1 = Len(q) /\ n \in 0 .. Len(Tail(q))
  OBVIOUS
<1>2. ASSUME NEW k \in Keys, NEW i \in 0 .. n, Source(Tail(q), n, k, i)
      PROVE  Agrees(RowFrom(e, Tail(q), i, k), r.rows[k])
  <2> HIDE DEF n
  <2>1. Shifts(d, e, q)
    BY SourceTail
  <2>2. PICK j \in 0 .. n + 1 : /\ Source(q, n + 1, k, j)
                                /\ RowFrom(e, Tail(q), i, k) = RowFrom(d, q, j, k)
    BY <1>1, <1>2, <2>1 DEF Shifts
  <2> QED BY <1>1, <2>2 DEF Mirror
<1> QED BY <1>2 DEF Mirror

\* A broadcast batch: the rows it changed are in the frame.
LEMMA PushMirror ==
  ASSUME NEW r \in Room, NEW ops \in [Keys -> Op], NEW d, NEW q \in Seq(Frame), Mirror(r, d, q),
         NEW f \in Frame, f.t = "rows", f.rows = MergedRows(r, ops)
  PROVE  Mirror(ApplyPushBatch(r, ops), d, IF Touched(r, ops) # {} THEN Append(q, f) ELSE q)
<1> DEFINE s == ApplyPushBatch(r, ops)
<1>1. CASE Touched(r, ops) = {}
  <2>1. s = r
    BY <1>1 DEF ApplyPushBatch
  <2> QED BY <1>1, <2>1
<1>2. CASE Touched(r, ops) # {}
  <2>1. ASSUME NEW k \in Keys
        PROVE  IF HasRow(f, k) THEN Agrees(f.rows[k], s.rows[k]) ELSE Tracks(r, s, k)
    <3>1. f.rows[k] = IF k \in Touched(r, ops) THEN s.rows[k] ELSE NoRow
      BY DEF MergedRows
    <3>2. CASE k \in Touched(r, ops)
      <4>1. s.rows[k] = [ApplyOp(r.rows[k], ops[k]) EXCEPT !.seq = r.seq + 1]
        BY <1>2, <3>2 DEF ApplyPushBatch, Room
      <4>2. ApplyOp(r.rows[k], ops[k]) \in Row
        BY RoomNats, ApplyOpType
      <4>3. Exists(ApplyOp(r.rows[k], ops[k]))
        BY <3>2, RoomNats, ApplyOpExists DEF Touched
      <4>4. Exists(s.rows[k])
        BY <4>1, <4>2, <4>3 DEF Row, Exists
      <4> QED BY <3>1, <3>2, <4>4 DEF HasRow, Agrees
    <3>3. CASE k \notin Touched(r, ops)
      <4>1. s.rows[k] = r.rows[k]
        BY <1>2, <3>3 DEF ApplyPushBatch, Room
      <4>2. ~HasRow(f, k)
        BY <3>1, <3>3 DEF HasRow, Exists, NoRow
      <4> QED BY <4>1, <4>2 DEF Tracks
    <3> QED BY <3>2, <3>3
  <2> HIDE DEF s
  <2>2. Mirror(s, d, Append(q, f))
    BY <2>1, MirrorAppend
  <2> QED BY <1>2, <2>2 DEF s
<1> QED BY <1>1, <1>2

\* The alarm takes away tombstones only, and a row that shows one is not live.
LEMMA AlarmTracks ==
  ASSUME NEW r \in Room, NEW k \in Keys, NEW h
  PROVE  /\ Tracks(r, AlarmFires(r, h), k)
         /\ Tracks(r, AlarmEnds(r), k)
         /\ Tracks(r, AlarmFails(r), k)
<1>1. AlarmEnds(r).rows = r.rows /\ AlarmFails(r).rows = r.rows
  BY DEF AlarmEnds, AlarmFails, Room
<1>2. \/ AlarmFires(r, h).rows[k] = r.rows[k]
      \/ AlarmFires(r, h).rows[k] = NoRow /\ r.rows[k].st = "deleted"
  <2> DEFINE fired == [r EXCEPT !.alarm = FALSE]
             purged == Purge(fired, h)
             s == AlarmFires(r, h)
  <2>1. fired \in Room /\ fired.rows = r.rows
    BY DEF Room
  <2>2. s = IF ~r.dirty THEN fired
            ELSE IF purged.seq > purged.backupSeq
              THEN [purged EXCEPT !.putting = purged.seq]
            ELSE [purged EXCEPT !.dirty = FALSE]
    BY DEF AlarmFires
  <2> HIDE DEF fired
  <2>3. purged \in Room
    BY <2>1, PurgeType
  <2>4. purged.rows[k] = IF k \in Expired(fired, h) THEN NoRow ELSE r.rows[k]
    BY <2>1 DEF Purge, Room
  <2>5. k \in Expired(fired, h) => r.rows[k].st = "deleted"
    BY <2>1 DEF Expired
  <2> HIDE DEF purged, s
  <2>6. s.rows = r.rows \/ s.rows = purged.rows
    BY <2>1, <2>2, <2>3 DEF Room
  <2> QED BY <2>4, <2>5, <2>6 DEF s
<1> QED BY <1>1, <1>2 DEF Tracks, Agrees, Exists, NoRow

\* The hello's answer brings a complete replica without ghosts to the room's
\* table.
LEMMA AnswerMirror ==
  ASSUME NEW r \in Room, SeqsOK(r), NEW d \in Replica, Complete(r, d), GhostFree(r, d),
         NEW x \in {NoCursor, d.cursor}, NEW f \in Frame, f.t = "state",
         f.seq = Answer(r, x).seq, f.full = Answer(r, x).full, f.rows = Answer(r, x).rows
  PROVE  Mirror(r, StateView(d, f), <<f>>)
<1>1. /\ f.seq = r.seq /\ f.full = NeedsFull(r, x)
      /\ f.rows = RowsSince(r, IF NeedsFull(r, x) THEN 0 ELSE x)
  BY DEF Answer
<1>2. d.cursor \in Nat /\ d.cursor <= r.seq /\ r.gcFloor \in Nat /\ r.seq \in Nat
  BY DEF Replica, Complete, Room
<1>3. ASSUME NEW k \in Keys
      PROVE  Agrees(StateView(d, f).auth[k], r.rows[k])
  <2>1. /\ r.rows[k].seq \in Nat
        /\ IF Exists(r.rows[k]) THEN r.rows[k].seq > 0 ELSE r.rows[k].seq = 0
    BY RoomNats DEF SeqsOK
  <2>2. CASE f.full
    <3>1. StateView(d, f).auth[k] = IF r.rows[k].seq > 0 THEN r.rows[k] ELSE NoRow
      BY <1>1, <1>2, <2>2 DEF StateView, RowsSince
    <3> QED BY <2>1, <3>1 DEF Agrees, NoRow
  <2>3. CASE ~f.full
    <3>1. x = d.cursor /\ ~(d.cursor < r.gcFloor)
      BY <1>1, <2>3 DEF NeedsFull
    <3>2. f.rows[k] = IF r.rows[k].seq > d.cursor THEN r.rows[k] ELSE NoRow
      BY <1>1, <2>3, <3>1 DEF RowsSince
    <3>3. StateView(d, f).auth[k] = IF Exists(f.rows[k]) THEN f.rows[k] ELSE d.auth[k]
      BY <2>3 DEF StateView, PutAuthoritative
    <3>4. Exists(r.rows[k]) /\ r.rows[k].seq <= d.cursor => d.auth[k] = r.rows[k]
      BY DEF Complete
    <3>5. ~Exists(r.rows[k]) => d.auth[k].st # "live"
      BY <3>1 DEF GhostFree
    <3>6. ~Exists(NoRow)
      BY DEF Exists, NoRow
    <3> QED BY <1>2, <2>1, <3>2, <3>3, <3>4, <3>5, <3>6 DEF Agrees
  <2> QED BY <2>2, <2>3
<1>4. ASSUME NEW k \in Keys, NEW i, Source(<<f>>, 1, k, i) PROVE i = 0
  <2>1. ~HasRow(<<f>>[1], k)
    BY DEF HasRow
  <2>2. i \in {0, 1}
    BY <1>4 DEF Source
  <2> QED BY <1>4, <2>1, <2>2 DEF Source
<1>5. Len(<<f>>) = 1
  OBVIOUS
<1> QED BY <1>3, <1>4, <1>5 DEF Mirror, RowFrom

-----------------------------------------------------------------------------
(* Batches are numbered by the clock *)

\* What a replica may become: what it has pending, it had, or wrote since.
Fresh(c, d, e) ==
  /\ \A b \in e.pending : \/ \E x \in d.pending : x.batch = b.batch /\ x.ops = b.ops
                          \/ b.batch > Stamp(d.clock, c)
  /\ \A b \in Pushable(e) : \/ \E x \in Pushable(d) : x.batch = b.batch
                            \/ b.batch > Stamp(d.clock, c)
  /\ Stamp(e.clock, c) >= Stamp(d.clock, c)
  /\ BatchesOK(e, c)

\* One thing after another.
LEMMA FreshTwice ==
  ASSUME NEW c \in Devices, NEW d \in Replica, NEW e \in Replica, NEW g \in Replica,
         Fresh(c, d, e), Fresh(c, e, g)
  PROVE  Fresh(c, d, g)
<1>1. /\ Stamp(d.clock, c) \in Nat /\ Stamp(e.clock, c) \in Nat /\ Stamp(g.clock, c) \in Nat
      /\ \A b \in g.pending : b.batch \in Nat
      /\ \A b \in e.pending : b.batch \in Nat
  BY StampType DEF Replica, Hlc, Batch
<1>2. ASSUME NEW b \in g.pending
      PROVE  \/ \E x \in d.pending : x.batch = b.batch /\ x.ops = b.ops
             \/ b.batch > Stamp(d.clock, c)
  <2>1. CASE b.batch > Stamp(e.clock, c)
    BY <1>1, <2>1 DEF Fresh
  <2>2. CASE \E x \in e.pending : x.batch = b.batch /\ x.ops = b.ops
    <3>1. PICK x \in e.pending : x.batch = b.batch /\ x.ops = b.ops
      BY <2>2
    <3> QED BY <3>1 DEF Fresh
  <2> QED BY <2>1, <2>2 DEF Fresh
<1>3. ASSUME NEW b \in Pushable(g)
      PROVE  \/ \E x \in Pushable(d) : x.batch = b.batch
             \/ b.batch > Stamp(d.clock, c)
  <2>1. CASE b.batch > Stamp(e.clock, c)
    <3>1. b \in g.pending
      BY DEF Pushable
    <3> QED BY <1>1, <2>1, <3>1 DEF Fresh
  <2>2. CASE \E x \in Pushable(e) : x.batch = b.batch
    <3>1. PICK x \in Pushable(e) : x.batch = b.batch
      BY <2>2
    <3> QED BY <3>1 DEF Fresh
  <2> QED BY <2>1, <2>2 DEF Fresh
<1>4. Stamp(g.clock, c) >= Stamp(d.clock, c)
  BY <1>1 DEF Fresh
<1> QED BY <1>2, <1>3, <1>4 DEF Fresh

\* The clock ticks, or nothing else that matters here happens.
LEMMA TickFresh ==
  ASSUME NEW c \in Devices, NEW d \in Replica, BatchesOK(d, c), NEW now \in Nat,
         NEW e, e.pending = d.pending, e.clock \in {d.clock, Tick(d.clock, now)}
  PROVE  Fresh(c, d, e)
<1>1. d.clock \in Clock /\ d.clock.counter <= MaxCounter
  BY DEF BatchesOK, Replica
<1>2. e.clock \in Clock /\ e.clock.counter <= MaxCounter /\ Stamp(e.clock, c) >= Stamp(d.clock, c)
  <2>1. CASE e.clock = d.clock
    <3>1. Stamp(d.clock, c) \in Nat
      BY <1>1, StampType DEF Hlc
    <3> QED BY <1>1, <2>1, <3>1
  <2>2. CASE e.clock = Tick(d.clock, now)
    <3>1. /\ Tick(d.clock, now) \in Clock /\ Tick(d.clock, now).counter <= MaxCounter
          /\ Index(Tick(d.clock, now)) > Index(d.clock)
      BY <1>1, TickLater
    <3>2. Stamp(Tick(d.clock, now), c) > Stamp(d.clock, c)
      BY <1>1, <3>1, StampLater
    <3>3. Stamp(Tick(d.clock, now), c) \in Nat /\ Stamp(d.clock, c) \in Nat
      BY <1>1, <3>1, StampType DEF Hlc
    <3> QED BY <2>2, <3>1, <3>2, <3>3
  <2> QED BY <2>1, <2>2
<1>3. Stamp(e.clock, c) \in Nat /\ Stamp(d.clock, c) \in Nat
  BY <1>1, <1>2, StampType DEF Hlc
<1>4. \A b \in d.pending : b.batch \in Nat /\ b.batch <= Stamp(d.clock, c)
  BY DEF BatchesOK, Numbered
<1>5. \A b \in e.pending : b.batch <= Stamp(e.clock, c)
  BY <1>2, <1>3, <1>4
<1>6. BatchesOK(e, c)
  BY <1>2, <1>5 DEF BatchesOK
<1>7. Pushable(e) = Pushable(d)
  BY DEF Pushable
<1> QED BY <1>2, <1>6, <1>7 DEF Fresh

\* enqueue_ops: a fresh tick numbers the new batch.
LEMMA EnqueueFresh ==
  ASSUME NEW c \in Devices, NEW d \in Replica, BatchesOK(d, c),
         NEW ops, NEW now \in Nat
  PROVE  Fresh(c, d, EnqueueOps(d, c, ops, now))
<1> DEFINE clock == Tick(d.clock, now)
           n == [batch |-> Stamp(clock, c), ops |-> ops, inFlight |-> FALSE]
           e == EnqueueOps(d, c, ops, now)
<1>1. CASE ops = NoOps
  <2>1. e = d
    BY <1>1 DEF EnqueueOps
  <2> QED BY <2>1, TickFresh
<1>2. CASE ops # NoOps
  <2>1. e.pending = d.pending \union {n} /\ e.clock = clock
    BY <1>2 DEF EnqueueOps, Replica
  <2>2. d.clock \in Clock /\ d.clock.counter <= MaxCounter
    BY DEF BatchesOK, Replica
  <2>3. clock \in Clock /\ clock.counter <= MaxCounter /\ Index(clock) > Index(d.clock)
    BY <2>2, TickLater
  <2>4. Stamp(clock, c) > Stamp(d.clock, c)
    BY <2>2, <2>3, StampLater
  <2>5. Stamp(clock, c) \in Nat /\ Stamp(d.clock, c) \in Nat
    BY <2>2, <2>3, StampType DEF Hlc
  <2>6. n.batch = Stamp(clock, c) /\ ~n.inFlight
    OBVIOUS
  <2> HIDE DEF clock, n, e
  <2>7. \A b \in d.pending : b.batch \in Nat /\ b.batch <= Stamp(d.clock, c)
    BY DEF BatchesOK, Numbered
  <2>8. \A b \in e.pending : b.batch \in Nat /\ b.batch <= Stamp(e.clock, c)
    BY <2>1, <2>4, <2>5, <2>6, <2>7
  <2>9. Numbered(e.pending)
    <3>1. IsFiniteSet(e.pending)
      BY <2>1, FS_AddElement DEF BatchesOK, Numbered
    <3>2. \A b \in d.pending : b.batch # n.batch
      BY <2>4, <2>5, <2>6, <2>7
    <3>3. \A a, b \in e.pending : a.batch = b.batch => a = b
      BY <2>1, <3>2 DEF BatchesOK, Numbered
    <3> QED BY <2>8, <3>1, <3>3 DEF Numbered
  <2>10. BatchesOK(e, c)
    BY <2>1, <2>3, <2>8, <2>9 DEF BatchesOK
  <2>11. \A b \in e.pending : b \in d.pending \/ b.batch > Stamp(d.clock, c)
    BY <2>1, <2>4, <2>6
  <2>12. Stamp(e.clock, c) >= Stamp(d.clock, c)
    BY <2>1, <2>4, <2>5
  <2> QED BY <2>10, <2>11, <2>12 DEF Fresh, Pushable, e
<1> QED BY <1>1, <1>2

\* write and delete_row_ops.
LEMMA WritesFresh ==
  ASSUME NEW c \in Devices, NEW d \in Replica, BatchesOK(d, c), NEW now \in Nat
  PROVE  /\ \A k \in Keys, kind \in {"upsert", "update"},
               set \in [Fields -> Values \union {Null, Unset}] :
              Fresh(c, d, Write(d, c, k, kind, set, now))
         /\ \A ks \in SUBSET Keys : Fresh(c, d, DeleteRows(d, c, ks, now))
<1> DEFINE ticked == [d EXCEPT !.clock = Tick(d.clock, now)]
<1>1. /\ ticked \in Replica /\ ticked.pending = d.pending /\ ticked.clock = Tick(d.clock, now)
  BY TickedReplica DEF Replica
<1>2. /\ \A k, kind, set : \E ops : Write(d, c, k, kind, set, now) = EnqueueOps(ticked, c, ops, now)
      /\ \A ks : \E ops : DeleteRows(d, c, ks, now) = EnqueueOps(ticked, c, ops, now)
  BY DEF Write, DeleteRows
<1> HIDE DEF ticked
<1>3. Fresh(c, d, ticked)
  BY <1>1, TickFresh
<1>4. BatchesOK(ticked, c)
  BY <1>3 DEF Fresh
<1>5. \A ops : Fresh(c, ticked, EnqueueOps(ticked, c, ops, now))
  BY <1>1, <1>4, EnqueueFresh
<1>6. ASSUME NEW e \in Replica, \E ops : e = EnqueueOps(ticked, c, ops, now)
      PROVE  Fresh(c, d, e)
  <2>1. Fresh(c, ticked, e)
    BY <1>5, <1>6
  <2> QED BY <1>1, <1>3, <2>1, FreshTwice
<1>7. ASSUME NEW k \in Keys, NEW kind \in {"upsert", "update"},
             NEW set \in [Fields -> Values \union {Null, Unset}]
      PROVE  Fresh(c, d, Write(d, c, k, kind, set, now))
  BY <1>2, <1>6, WriteType
<1>8. ASSUME NEW ks \in SUBSET Keys PROVE Fresh(c, d, DeleteRows(d, c, ks, now))
  BY <1>2, <1>6, DeleteRowsType
<1> QED BY <1>7, <1>8

\* apply_state, which may re-seed.
LEMMA StateFresh ==
  ASSUME NEW c \in Devices, NEW d \in Replica, BatchesOK(d, c), NEW seq \in Nat,
         NEW full \in BOOLEAN, NEW rows \in [Keys -> Row], NEW now \in Nat
  PROVE  Fresh(c, d, ApplyState(d, c, seq, full, rows, now))
<1> DEFINE moved == [d EXCEPT !.cursor = seq, !.touched = TRUE]
           kept  == [moved EXCEPT !.auth = PutAuthoritative(d.auth, rows)]
           taken == [moved EXCEPT !.auth = rows]
           e == ApplyState(d, c, seq, full, rows, now)
<1>1. /\ kept \in Replica /\ kept.pending = d.pending /\ kept.clock = d.clock
      /\ taken \in Replica /\ taken.pending = d.pending /\ taken.clock = d.clock
  BY PutAuthoritativeType DEF Replica
<1>2. \/ e = kept
      \/ \E ops : e = EnqueueOps(kept, c, ops, now)
      \/ \E ops : e = EnqueueOps(taken, c, ops, now)
  BY DEF ApplyState
<1>3. e \in Replica
  BY ApplyStateType
<1> HIDE DEF kept, taken, e
<1>4. ASSUME NEW m \in {kept, taken}
      PROVE  Fresh(c, d, m) /\ \A ops : Fresh(c, m, EnqueueOps(m, c, ops, now))
  <2>1. Fresh(c, d, m)
    BY <1>1, TickFresh
  <2> QED BY <1>1, <2>1, EnqueueFresh DEF Fresh
<1>5. ASSUME NEW m \in {kept, taken}, NEW ops, e = EnqueueOps(m, c, ops, now)
      PROVE  Fresh(c, d, e)
  <2>1. Fresh(c, d, m) /\ Fresh(c, m, e) /\ m \in Replica
    BY <1>1, <1>4, <1>5
  <2> QED BY <1>3, <2>1, FreshTwice
<1>6. Fresh(c, d, e)
  BY <1>2, <1>4, <1>5
<1> QED BY <1>6 DEF e

\* Batches whose marks are set or cleared.
Marked(P, x) == {[b EXCEPT !.inFlight = x] : b \in P}

\* They are the same batches.
LEMMA Remarked ==
  ASSUME NEW P \in SUBSET Batch, Numbered(P), NEW x \in BOOLEAN
  PROVE  /\ Numbered(Marked(P, x))
         /\ \A b \in Marked(P, x) : \E a \in P : a.batch = b.batch /\ a.ops = b.ops
<1> DEFINE f == [b \in P |-> [b EXCEPT !.inFlight = x]]
           Q == Marked(P, x)
<1>1. IsFiniteSet({f[b] : b \in P})
  <2>1. f = [b \in P |-> f[b]]
    OBVIOUS
  <2> HIDE DEF f
  <2> QED BY <2>1, FiniteRange DEF Numbered
<1>2. IsFiniteSet(Q)
  BY <1>1 DEF Marked
<1>3. \A b \in Q : \E a \in P : /\ b = [a EXCEPT !.inFlight = x]
                              /\ a.batch = b.batch /\ a.ops = b.ops
  BY DEF Batch, Marked
<1>4. \A a, b \in Q : a.batch = b.batch => a = b
  BY <1>3 DEF Numbered
<1>5. \A b \in Q : b.batch \in Nat
  BY <1>3 DEF Numbered
<1> QED BY <1>2, <1>3, <1>4, <1>5 DEF Numbered

\* take_pushable leaves nothing to take.
LEMMA TakeFresh ==
  ASSUME NEW c \in Devices, NEW d \in Replica, BatchesOK(d, c)
  PROVE  Fresh(c, d, TakePushable(d)) /\ Pushable(TakePushable(d)) = {}
<1> DEFINE e == TakePushable(d)
<1>1. e.pending = Marked(d.pending, TRUE) /\ e.clock = d.clock
  BY DEF TakePushable, Replica, Marked
<1>2. d.pending \in SUBSET Batch /\ Numbered(d.pending) /\ Stamp(d.clock, c) \in Nat
  BY StampType DEF Replica, BatchesOK, Hlc
<1> HIDE DEF e
<1>3. /\ Numbered(e.pending)
      /\ \A b \in e.pending : \E a \in d.pending : a.batch = b.batch /\ a.ops = b.ops
  BY <1>1, <1>2, Remarked
<1>4. Pushable(e) = {} /\ \A b \in Pushable(e) : FALSE
  BY <1>1, <1>2 DEF Pushable, Marked, Batch
<1>5. BatchesOK(e, c)
  BY <1>1, <1>3 DEF BatchesOK
<1>6. Stamp(e.clock, c) >= Stamp(d.clock, c)
  BY <1>1, <1>2
<1>7. Fresh(c, d, e)
  <2>1. \A b \in Pushable(e) : \/ \E x \in Pushable(d) : x.batch = b.batch
                               \/ b.batch > Stamp(d.clock, c)
    BY <1>4
  <2>2. \A b \in e.pending : \/ \E x \in d.pending : x.batch = b.batch /\ x.ops = b.ops
                            \/ b.batch > Stamp(d.clock, c)
    BY <1>3
  <2> QED BY <1>5, <1>6, <2>1, <2>2 DEF Fresh
<1> QED BY <1>4, <1>7 DEF e

\* ack_batch only takes away.
LEMMA AckFresh ==
  ASSUME NEW c \in Devices, NEW d \in Replica, BatchesOK(d, c), NEW batch
  PROVE  Fresh(c, d, AckBatch(d, batch))
<1> DEFINE e == AckBatch(d, batch)
<1>1. e.pending = {b \in d.pending : b.batch # batch} /\ e.clock = d.clock
  BY DEF AckBatch, Replica
<1>2. Stamp(d.clock, c) \in Nat
  BY StampType DEF Replica, Hlc
<1> HIDE DEF e
<1>3. IsFiniteSet(e.pending)
  BY <1>1, FS_Subset DEF BatchesOK, Numbered
<1>4. BatchesOK(e, c)
  BY <1>1, <1>3 DEF BatchesOK, Numbered
<1>5. Fresh(c, d, e)
  BY <1>1, <1>2, <1>4 DEF Fresh, Pushable
<1> QED BY <1>5 DEF e

\* A disconnect and a restart keep the numbers.
LEMMA ClearedBatches ==
  ASSUME NEW c \in Devices, NEW d \in Replica, BatchesOK(d, c)
  PROVE  /\ BatchesOK(MarkDisconnected(d), c)
         /\ \A now \in Times : BatchesOK(Boot(d, c, now), c)
<1> DEFINE e == MarkDisconnected(d)
           g == Reload(d)
<1>1. /\ e.pending = Marked(d.pending, FALSE) /\ e.clock = d.clock
      /\ g.pending = e.pending /\ g.clock = e.clock /\ g \in Replica
  BY MarkTypes DEF Reload, MarkDisconnected, Replica, Marked
<1>2. d.pending \in SUBSET Batch /\ Numbered(d.pending)
  BY DEF Replica, BatchesOK
<1> HIDE DEF e, g
<1>3. /\ Numbered(e.pending)
      /\ \A b \in e.pending : \E a \in d.pending : a.batch = b.batch /\ a.ops = b.ops
  BY <1>1, <1>2, Remarked
<1>4. BatchesOK(e, c) /\ BatchesOK(g, c)
  BY <1>1, <1>3 DEF BatchesOK
<1>5. ASSUME NEW now \in Times PROVE BatchesOK(Boot(d, c, now), c)
  <2>1. now \in Nat /\ FullSet \in [Fields -> Values \union {Null, Unset}]
    BY SyncAssumption, CoreAssumption DEF FullSet
  <2>2. DeviceRow[c] # NoHost => DeviceRow[c] \in Keys
    BY SyncAssumption
  <2>3. DeviceRow[c] # NoHost => Fresh(c, g, Write(g, c, DeviceRow[c], "upsert", FullSet, now))
    BY <1>1, <1>4, <2>1, <2>2, WritesFresh
  <2> QED BY <1>4, <2>3 DEF Boot, Fresh, g
<1> QED BY <1>4, <1>5 DEF e

-----------------------------------------------------------------------------
(* The line of batches *)

\* The ids on a socket are numbers.
LEMMA IdTypes ==
  ASSUME NEW out \in SUBSET Batch, NEW up \in Seq(ClientFrame), NEW down \in Seq(Frame)
  PROVE  AckIds(down) \union PushIds(up) \union Ids(out) \subseteq Nat
<1>1. AckIds(down) \subseteq Nat
  <2>1. \A i \in DOMAIN down : down[i] \in Frame
    OBVIOUS
  <2> QED BY <2>1, FrameTypes DEF AckIds, Hlc
<1>2. PushIds(up) \subseteq Nat
  <2>1. \A i \in DOMAIN up : up[i] \in ClientFrame
    OBVIOUS
  <2>2. \A m \in ClientFrame : m.t = "push" => m.push.batch \in Nat
    BY DEF ClientFrame, Batch, Hlc
  <2> QED BY <2>1, <2>2 DEF PushIds
<1>3. Ids(out) \subseteq Nat
  BY DEF Ids, Batch, Hlc
<1> QED BY <1>1, <1>2, <1>3

\* A replica that writes, takes or retires batches keeps its place in the line.
LEMMA FreshLine ==
  ASSUME NEW c \in Devices, NEW d \in Replica, NEW e \in Replica, Fresh(c, d, e), NEW cn,
         NEW out \in SUBSET Batch, NEW up \in Seq(ClientFrame), NEW down \in Seq(Frame),
         LineOK(d, c, cn, out, up, down)
  PROVE  /\ InLine(e, c, out, up, down)
         /\ SameOps(e, out, up)
         /\ e.auth = d.auth => LineOK(e, c, cn, out, up, down)
<1> DEFINE ids == AckIds(down) \union PushIds(up) \union Ids(out)
<1>1. ids \subseteq Nat
  BY IdTypes
<1>2. Stamp(d.clock, c) \in Nat /\ Stamp(e.clock, c) \in Nat
  BY StampType DEF Replica, Hlc
<1>3. \A x \in ids : x <= Stamp(d.clock, c)
  BY DEF LineOK, InLine
<1>4. \A x \in ids, n \in Nat : n > Stamp(d.clock, c) => x < n
  BY <1>1, <1>2, <1>3
<1>5. \A b \in e.pending : b.batch \in Nat
  BY DEF Replica, Batch, Hlc
<1>6. InLine(e, c, out, up, down)
  <2>1. ASSUME NEW x \in ids, NEW y \in Ids(Pushable(e)) PROVE x < y
    <3>1. PICK b \in Pushable(e) : y = b.batch
      BY DEF Ids
    <3>2. b \in e.pending
      BY DEF Pushable
    <3>3. CASE \E a \in Pushable(d) : a.batch = b.batch
      <4>1. y \in Ids(Pushable(d))
        BY <3>1, <3>3 DEF Ids
      <4>2. Before(ids, Ids(Pushable(d)))
        BY DEF LineOK, InLine
      <4> QED BY <4>1, <4>2 DEF Before
    <3>4. CASE b.batch > Stamp(d.clock, c)
      BY <1>4, <1>5, <3>1, <3>2, <3>4
    <3> QED BY <3>3, <3>4 DEF Fresh
  <2>2. ASSUME NEW x \in ids PROVE x <= Stamp(e.clock, c)
    BY <1>1, <1>2, <1>3 DEF Fresh
  <2>3. Before(ids, Ids(Pushable(e)))
    BY <2>1 DEF Before
  <2> HIDE DEF ids
  <2> QED BY <2>2, <2>3 DEF LineOK, InLine, ids
<1>7. ASSUME NEW b \in e.pending, b.batch \in ids
      PROVE  \E a \in d.pending : a.batch = b.batch /\ a.ops = b.ops
  <2>1. ~(b.batch > Stamp(d.clock, c))
    BY <1>2, <1>3, <1>5, <1>7
  <2> QED BY <2>1 DEF Fresh
<1>8. SameOps(e, out, up)
  <2>1. ASSUME NEW b \in e.pending, NEW x \in out, x.batch = b.batch PROVE x.ops = b.ops
    <3>1. b.batch \in ids
      BY <2>1 DEF Ids
    <3>2. PICK a \in d.pending : a.batch = b.batch /\ a.ops = b.ops
      BY <1>7, <3>1
    <3> QED BY <2>1, <3>2 DEF LineOK, SameOps
  <2>2. ASSUME NEW b \in e.pending, NEW i \in DOMAIN up, up[i].t = "push", up[i].push.batch = b.batch
        PROVE  up[i].push.ops = b.ops
    <3>1. b.batch \in ids
      BY <2>2 DEF PushIds
    <3>2. PICK a \in d.pending : a.batch = b.batch /\ a.ops = b.ops
      BY <1>7, <3>1
    <3> QED BY <2>2, <3>2 DEF LineOK, SameOps
  <2> QED BY <2>1, <2>2 DEF SameOps
<1>9. ASSUME e.auth = d.auth PROVE AcksQuiet(e, down)
  <2>1. ASSUME NEW n \in DOMAIN down, down[n].t = "ack", NEW b \in e.pending,
               b.batch = down[n].batch, NEW k \in Keys, NEW i \in 0 .. n - 1,
               Source(down, n - 1, k, i)
        PROVE  ~Changed(RowFrom(e, down, i, k), b.ops[k])
    <3>1. b.batch \in ids
      BY <2>1 DEF AckIds
    <3>2. PICK a \in d.pending : a.batch = b.batch /\ a.ops = b.ops
      BY <1>7, <3>1
    <3>3. RowFrom(e, down, i, k) = RowFrom(d, down, i, k)
      BY <1>9 DEF RowFrom
    <3> QED BY <2>1, <3>2, <3>3 DEF LineOK, AcksQuiet
  <2> QED BY <2>1 DEF AcksQuiet
<1>10. BatchesOK(e, c)
  BY DEF Fresh
<1> QED BY <1>6, <1>8, <1>9, <1>10 DEF LineOK

\* A device with nothing under way.
LEMMA IdleLine ==
  ASSUME NEW c, NEW d, BatchesOK(d, c), NEW cn, NEW up, PushIds(up) = {},
         NEW down, AckIds(down) = {}
  PROVE  LineOK(d, c, cn, {}, up, down)
<1>1. (\A i \in DOMAIN down : down[i].t # "ack") /\ (\A i \in DOMAIN up : up[i].t # "push")
  BY DEF AckIds, PushIds
<1>2. AcksInOrder(down) /\ PushesInOrder(up) /\ AcksQuiet(d, down) /\ SameOps(d, {}, up)
  BY <1>1 DEF AcksInOrder, PushesInOrder, AcksQuiet, SameOps
<1>3. InLine(d, c, {}, up, down)
  BY <1>2 DEF InLine, Before, Ids
<1> QED BY <1>2, <1>3 DEF LineOK

\* The actor takes the batches that nobody has taken, its hands empty.
LEMMA TakeLine ==
  ASSUME NEW c \in Devices, NEW d \in Replica, NEW cn, NEW up \in Seq(ClientFrame),
         NEW down \in Seq(Frame), LineOK(d, c, cn, {}, up, down), NEW new \in {"pushing", "up"}
  PROVE  LineOK(TakePushable(d), c, new, Pushable(d), up, down)
<1> DEFINE e == TakePushable(d)
<1>1. e \in Replica /\ e.auth = d.auth /\ e.clock = d.clock
  BY MarkTypes, MarksKeep DEF TakePushable, Replica
<1>2. BatchesOK(d, c) /\ Fresh(c, d, e) /\ Pushable(e) = {}
  BY TakeFresh DEF LineOK
<1> HIDE DEF e
<1>3. LineOK(e, c, cn, {}, up, down)
  BY <1>1, <1>2, FreshLine
<1>4. Ids({}) = {} /\ \A x \in Pushable(d) : x \in d.pending
  BY DEF Ids, Pushable
<1>5. InLine(e, c, Pushable(d), up, down)
  <2>1. /\ AcksInOrder(down) /\ PushesInOrder(up) /\ Before(AckIds(down), PushIds(up))
        /\ Before(AckIds(down) \union PushIds(up), Ids(Pushable(d)))
        /\ \A x \in AckIds(down) \union PushIds(up) : x <= Stamp(d.clock, c)
    BY <1>4 DEF LineOK, InLine, Before
  <2>2. \A x, y \in Pushable(d) : x.batch = y.batch => x = y
    BY <1>2, <1>4 DEF BatchesOK, Numbered
  <2>3. \A x \in Ids(Pushable(d)) : x <= Stamp(d.clock, c)
    BY <1>2, <1>4 DEF BatchesOK, Ids
  <2>4. Before(AckIds(down) \union PushIds(up) \union Ids(Pushable(d)), Ids(Pushable(e)))
    BY <1>2, <1>4 DEF Before
  <2> QED BY <1>1, <2>1, <2>2, <2>3, <2>4 DEF InLine
<1>6. SameOps(e, Pushable(d), up)
  <2>1. ASSUME NEW b \in e.pending, NEW x \in Pushable(d), x.batch = b.batch
        PROVE  x.ops = b.ops
    <3>1. x \in d.pending /\ x.batch <= Stamp(d.clock, c) /\ x.batch \in Nat
          /\ Stamp(d.clock, c) \in Nat
      BY <1>2, <1>4, StampType DEF BatchesOK, Numbered, Replica, Hlc
    <3>2. PICK a \in d.pending : a.batch = b.batch /\ a.ops = b.ops
      BY <1>2, <2>1, <3>1 DEF Fresh
    <3> QED BY <1>2, <2>1, <3>1, <3>2 DEF BatchesOK, Numbered
  <2> QED BY <1>3, <2>1 DEF SameOps, LineOK
<1>7. LineOK(e, c, new, Pushable(d), up, down)
  BY <1>3, <1>5, <1>6 DEF LineOK
<1> QED BY <1>7 DEF e

\* The ids on a socket with one frame more.
LEMMA AckAppend ==
  ASSUME NEW q \in Seq(Frame), NEW f \in Frame
  PROVE  AckIds(Append(q, f)) = IF f.t = "ack" THEN AckIds(q) \union {f.batch} ELSE AckIds(q)
<1>1. ASSUME NEW i \in DOMAIN Append(q, f)
      PROVE  \/ i \in DOMAIN q /\ Append(q, f)[i] = q[i]
             \/ Append(q, f)[i] = f
  OBVIOUS
<1>2. \E i \in DOMAIN Append(q, f) : Append(q, f)[i] = f
  <2>1. Len(q) + 1 \in DOMAIN Append(q, f) /\ Append(q, f)[Len(q) + 1] = f
    OBVIOUS
  <2> QED BY <2>1
<1>3. \A i \in DOMAIN q : i \in DOMAIN Append(q, f) /\ Append(q, f)[i] = q[i]
  OBVIOUS
<1> QED BY <1>1, <1>2, <1>3 DEF AckIds

\* And in the other direction.
LEMMA PushAppend ==
  ASSUME NEW q \in Seq(ClientFrame), NEW f \in ClientFrame, f.t = "push"
  PROVE  PushIds(Append(q, f)) = PushIds(q) \union {f.push.batch}
<1>1. ASSUME NEW i \in DOMAIN Append(q, f)
      PROVE  \/ i \in DOMAIN q /\ Append(q, f)[i] = q[i]
             \/ Append(q, f)[i] = f
  OBVIOUS
<1>2. \E i \in DOMAIN Append(q, f) : Append(q, f)[i] = f
  <2>1. Len(q) + 1 \in DOMAIN Append(q, f) /\ Append(q, f)[Len(q) + 1] = f
    OBVIOUS
  <2> QED BY <2>1
<1>3. \A i \in DOMAIN q : i \in DOMAIN Append(q, f) /\ Append(q, f)[i] = q[i]
  OBVIOUS
<1> QED BY <1>1, <1>2, <1>3 DEF PushIds

\* The actor sends the oldest batch it has taken.
LEMMA SendLine ==
  ASSUME NEW c \in Devices, NEW d \in Replica, NEW out \in SUBSET Batch, out # {},
         NEW up \in Seq(ClientFrame), NEW down \in Seq(Frame), NEW cn,
         LineOK(d, c, cn, out, up, down), NEW new \in {"pushing", "up"}, NEW b, b = Oldest(out)
  PROVE  LineOK(d, c, new, out \ {b}, Append(up, [t |-> "push", push |-> b]), down)
<1> DEFINE f == [t |-> "push", push |-> b]
<1>1. b \in out /\ b \in Batch /\ (\A x \in out : b.batch <= x.batch) /\ f \in ClientFrame
  BY OldestType DEF ClientFrame
<1>2. f.t = "push" /\ f.push = b
  OBVIOUS
<1> HIDE DEF f
<1>3. PushIds(Append(up, f)) = PushIds(up) \union {b.batch}
  BY <1>1, <1>2, PushAppend
<1>4. b.batch \in Ids(out) /\ Ids(out \ {b}) \subseteq Ids(out)
  BY <1>1 DEF Ids
<1>5. AckIds(down) \union PushIds(up) \union Ids(out) \subseteq Nat
  BY IdTypes
<1>6. \A i \in DOMAIN Append(up, f) :
        \/ i \in DOMAIN up /\ i <= Len(up) /\ Append(up, f)[i] = up[i]
        \/ i = Len(up) + 1 /\ Append(up, f)[i] = f
  OBVIOUS
<1>7. PushesInOrder(Append(up, f))
  <2> SUFFICES ASSUME NEW i \in DOMAIN Append(up, f), NEW j \in DOMAIN Append(up, f), i < j,
                      Append(up, f)[i].t = "push", Append(up, f)[j].t = "push"
               PROVE  Append(up, f)[i].push.batch < Append(up, f)[j].push.batch
    BY DEF PushesInOrder
  <2>1. i \in DOMAIN up /\ Append(up, f)[i] = up[i]
    <3>1. i \in Nat /\ j \in Nat /\ j <= Len(up) + 1 /\ Len(up) \in Nat
      OBVIOUS
    <3> QED BY <1>6, <3>1
  <2>2. CASE j \in DOMAIN up /\ Append(up, f)[j] = up[j]
    BY <2>1, <2>2 DEF LineOK, InLine, PushesInOrder
  <2>3. CASE Append(up, f)[j] = f
    <3>1. up[i].push.batch \in PushIds(up)
      BY <2>1 DEF PushIds
    <3> QED BY <1>2, <1>4, <2>1, <2>3, <3>1 DEF LineOK, InLine, Before
  <2> QED BY <1>6, <2>2, <2>3
<1>8. InLine(d, c, out \ {b}, Append(up, f), down)
  <2>1. \A y \in Ids(out \ {b}) : b.batch < y
    <3>1. ASSUME NEW x \in out \ {b} PROVE b.batch < x.batch
      <4>1. b.batch # x.batch
        BY <1>1 DEF LineOK, InLine
      <4>2. b.batch \in Nat /\ x.batch \in Nat
        BY <1>1 DEF Batch, Hlc
      <4> QED BY <1>1, <4>1, <4>2
    <3> QED BY <3>1 DEF Ids
  <2>2. Before(AckIds(down) \union PushIds(Append(up, f)), Ids(out \ {b}))
    BY <1>3, <1>4, <2>1 DEF LineOK, InLine, Before
  <2>3. Before(AckIds(down), PushIds(Append(up, f)))
    BY <1>3, <1>4 DEF LineOK, InLine, Before
  <2>4. /\ Before(AckIds(down) \union PushIds(Append(up, f)) \union Ids(out \ {b}), Ids(Pushable(d)))
        /\ \A x \in AckIds(down) \union PushIds(Append(up, f)) \union Ids(out \ {b}) :
             x <= Stamp(d.clock, c)
    BY <1>3, <1>4 DEF LineOK, InLine, Before
  <2> QED BY <1>7, <2>2, <2>3, <2>4 DEF LineOK, InLine
<1>9. SameOps(d, out \ {b}, Append(up, f))
  <2>1. ASSUME NEW x \in d.pending, NEW i \in DOMAIN Append(up, f), Append(up, f)[i].t = "push",
               Append(up, f)[i].push.batch = x.batch
        PROVE  Append(up, f)[i].push.ops = x.ops
    BY <1>1, <1>2, <1>6, <2>1 DEF LineOK, SameOps
  <2> QED BY <2>1 DEF LineOK, SameOps
<1>10. LineOK(d, c, new, out \ {b}, Append(up, f), down)
  BY <1>8, <1>9 DEF LineOK
<1> QED BY <1>10 DEF f


\* The replica reads the first frame on its socket.
LEMMA TailLine ==
  ASSUME NEW c \in Devices, NEW d \in Replica, NEW e \in Replica, Fresh(c, d, e), NEW cn,
         NEW out \in SUBSET Batch, NEW up \in Seq(ClientFrame), NEW down \in Seq(Frame),
         down # <<>>, Read(d, down[1], e), LineOK(d, c, cn, out, up, down)
  PROVE  LineOK(e, c, cn, out, up, Tail(down))
<1>1. /\ Len(down) \in Nat /\ Len(Tail(down)) = Len(down) - 1
      /\ \A n \in DOMAIN Tail(down) : /\ n \in Nat /\ n >= 1 /\ n + 1 \in DOMAIN down
                                      /\ n - 1 \in 0 .. Len(Tail(down))
                                      /\ Tail(down)[n] = down[n + 1]
  OBVIOUS
<1>2. AckIds(Tail(down)) \subseteq AckIds(down)
  BY <1>1 DEF AckIds
<1>3. InLine(e, c, out, up, down) /\ SameOps(e, out, up)
  BY FreshLine
<1>4. AcksInOrder(Tail(down))
  <2> SUFFICES ASSUME NEW i \in DOMAIN Tail(down), NEW j \in DOMAIN Tail(down), i < j,
                      Tail(down)[i].t = "ack", Tail(down)[j].t = "ack"
               PROVE  Tail(down)[i].batch < Tail(down)[j].batch
    BY DEF AcksInOrder
  <2>1. i + 1 < j + 1
    BY <1>1
  <2> QED BY <1>1, <1>3, <2>1 DEF InLine, AcksInOrder
<1>5. InLine(e, c, out, up, Tail(down))
  BY <1>2, <1>3, <1>4 DEF InLine, Before
<1>6. AcksQuiet(e, Tail(down))
  <2>1. Shifts(d, e, down)
    BY SourceTail
  <2>2. ASSUME NEW n \in DOMAIN Tail(down), Tail(down)[n].t = "ack", NEW b \in e.pending,
               b.batch = Tail(down)[n].batch, NEW k \in Keys, NEW i \in 0 .. n - 1,
               Source(Tail(down), n - 1, k, i)
        PROVE  ~Changed(RowFrom(e, Tail(down), i, k), b.ops[k])
    <3>1. PICK j \in 0 .. (n - 1) + 1 : /\ Source(down, (n - 1) + 1, k, j)
                                        /\ RowFrom(e, Tail(down), i, k) = RowFrom(d, down, j, k)
      BY <1>1, <2>1, <2>2 DEF Shifts
    <3>2. (n - 1) + 1 = (n + 1) - 1 /\ n + 1 \in DOMAIN down
      BY <1>1
    <3>3. b.batch \in AckIds(down)
      BY <1>1, <2>2 DEF AckIds
    <3>4. b.batch \in Nat /\ Stamp(d.clock, c) \in Nat /\ b.batch <= Stamp(d.clock, c)
      BY <3>3, StampType DEF LineOK, InLine, Replica, Batch, Hlc
    <3>5. PICK a \in d.pending : a.batch = b.batch /\ a.ops = b.ops
      <4>1. ~(b.batch > Stamp(d.clock, c))
        BY <3>4
      <4>2. b \in e.pending
        BY <2>2
      <4> QED BY <4>1, <4>2 DEF Fresh
    <3>6. ~Changed(RowFrom(d, down, j, k), a.ops[k])
      BY <1>1, <2>2, <3>1, <3>2, <3>5 DEF LineOK, AcksQuiet
    <3> QED BY <3>1, <3>5, <3>6
  <2> QED BY <2>2 DEF AcksQuiet
<1>7. cn \in {"down", "hello"} => AckIds(Tail(down)) = {} /\ PushIds(up) = {}
  BY <1>2 DEF LineOK
<1>8. BatchesOK(e, c)
  BY DEF Fresh
<1> QED BY <1>3, <1>5, <1>6, <1>7, <1>8 DEF LineOK

\* A frame that acknowledges nothing arrives.
LEMMA RowsLine ==
  ASSUME NEW c, NEW d \in Replica, NEW cn, NEW out, NEW up, NEW down \in Seq(Frame), NEW f \in Frame,
         f.t # "ack", LineOK(d, c, cn, out, up, down)
  PROVE  LineOK(d, c, cn, out, up, Append(down, f))
<1> DEFINE q == Append(down, f)
<1>1. AckIds(q) = AckIds(down)
  BY AckAppend
<1>2. \A i \in DOMAIN q : /\ i \in Nat /\ i >= 1
                          /\ q[i].t = "ack" => i \in DOMAIN down /\ q[i] = down[i]
                                               /\ i - 1 \in 0 .. Len(down)
  OBVIOUS
<1>3. AcksQuiet(d, q)
  <2>0. \A z \in Keys, m \in 0 .. Len(down) : \A y : Source(q, m, z, y) =>
           Source(down, m, z, y) /\ RowFrom(d, q, y, z) = RowFrom(d, down, y, z)
    BY SourceBefore
  <2>1. ASSUME NEW n \in DOMAIN q, q[n].t = "ack", NEW b \in d.pending,
               b.batch = q[n].batch, NEW k \in Keys, NEW i \in 0 .. n - 1,
               Source(q, n - 1, k, i)
        PROVE  ~Changed(RowFrom(d, q, i, k), b.ops[k])
    <3>1. n - 1 \in 0 .. Len(down) /\ n \in DOMAIN down /\ q[n] = down[n]
      BY <1>2, <2>1
    <3>2. Source(down, n - 1, k, i) /\ RowFrom(d, q, i, k) = RowFrom(d, down, i, k)
      BY <2>0, <2>1, <3>1
    <3> QED BY <2>1, <3>1, <3>2 DEF LineOK, AcksQuiet
  <2> QED BY <2>1 DEF AcksQuiet
<1> HIDE DEF q
<1>4. AcksInOrder(q)
  BY <1>2 DEF AcksInOrder, LineOK, InLine
<1>5. LineOK(d, c, cn, out, up, q)
  BY <1>1, <1>3, <1>4 DEF LineOK, InLine
<1> QED BY <1>5 DEF q

\* The room acknowledges the first push on the socket, which changes no row
\* that the replica will then show.
LEMMA AckLine ==
  ASSUME NEW c, NEW d \in Replica, NEW cn, NEW out, NEW up \in Seq(ClientFrame),
         NEW down \in Seq(Frame), LineOK(d, c, cn, out, up, down),
         up # <<>>, up[1].t = "push", NEW r, Mirror(r, d, down),
         \A k \in Keys : ~Changed(r.rows[k], up[1].push.ops[k]),
         NEW f \in Frame, f.t = "ack", f.batch = up[1].push.batch
  PROVE  LineOK(d, c, cn, out, Tail(up), Append(down, f))
<1> DEFINE q == Append(down, f)
           x == up[1].push
<1>1. AckIds(q) = AckIds(down) \union {x.batch}
  BY AckAppend
<1>2. \A i \in DOMAIN q : /\ i \in Nat /\ i >= 1 /\ i - 1 \in 0 .. Len(down)
                          /\ \/ i \in DOMAIN down /\ q[i] = down[i]
                             \/ i = Len(down) + 1 /\ q[i] = f
  OBVIOUS
<1>3. /\ 1 \in DOMAIN up
      /\ \A i \in DOMAIN Tail(up) : /\ i \in Nat /\ i + 1 > 1 /\ i + 1 \in DOMAIN up
                                    /\ Tail(up)[i] = up[i + 1]
  OBVIOUS
<1>4. x.batch \in PushIds(up) /\ PushIds(Tail(up)) \subseteq PushIds(up)
  BY <1>3 DEF PushIds
<1>5. \A y \in PushIds(Tail(up)) : x.batch < y
  <2>1. ASSUME NEW i \in DOMAIN Tail(up), Tail(up)[i].t = "push"
        PROVE  x.batch < Tail(up)[i].push.batch
    BY <1>3, <2>1 DEF LineOK, InLine, PushesInOrder
  <2> QED BY <2>1 DEF PushIds
<1>6. cn \notin {"down", "hello"}
  BY <1>4 DEF LineOK
<1>7. PushesInOrder(Tail(up))
  <2> SUFFICES ASSUME NEW i \in DOMAIN Tail(up), NEW j \in DOMAIN Tail(up), i < j,
                      Tail(up)[i].t = "push", Tail(up)[j].t = "push"
               PROVE  Tail(up)[i].push.batch < Tail(up)[j].push.batch
    BY DEF PushesInOrder
  <2>1. i + 1 < j + 1
    BY <1>3
  <2> QED BY <1>3, <2>1 DEF LineOK, InLine, PushesInOrder
<1>8. SameOps(d, out, Tail(up))
  BY <1>3 DEF SameOps, LineOK
<1>9. AcksQuiet(d, q)
  <2>0. \A z \in Keys, m \in 0 .. Len(down) : \A y : Source(q, m, z, y) =>
           Source(down, m, z, y) /\ RowFrom(d, q, y, z) = RowFrom(d, down, y, z)
    BY SourceBefore
  <2>1. ASSUME NEW n \in DOMAIN q, q[n].t = "ack", NEW b \in d.pending,
               b.batch = q[n].batch, NEW k \in Keys, NEW i \in 0 .. n - 1,
               Source(q, n - 1, k, i)
        PROVE  ~Changed(RowFrom(d, q, i, k), b.ops[k])
    <3>1. n - 1 \in 0 .. Len(down)
      BY <1>2
    <3>2. Source(down, n - 1, k, i) /\ RowFrom(d, q, i, k) = RowFrom(d, down, i, k)
      BY <2>0, <2>1, <3>1
    <3>3. CASE n \in DOMAIN down /\ q[n] = down[n]
      BY <2>1, <3>2, <3>3 DEF LineOK, AcksQuiet
    <3>4. CASE n = Len(down) + 1 /\ q[n] = f
      <4>1. n - 1 = Len(down)
        BY <3>4
      <4>2. Agrees(RowFrom(d, down, i, k), r.rows[k])
        BY <3>2, <4>1 DEF Mirror
      <4>3. RowFrom(d, down, i, k) \in Row
        BY <3>1, <3>2, RowFromType DEF Replica
      <4>4. b.ops = x.ops
        BY <1>3, <2>1, <3>4 DEF LineOK, SameOps
      <4>5. b.ops[k] \in Op /\ ~Changed(r.rows[k], b.ops[k])
        BY <4>4 DEF Replica, Batch
      <4>6. ~Changed(RowFrom(d, down, i, k), b.ops[k])
        BY <4>2, <4>3, <4>5, AgreesQuiet
      <4> QED BY <3>2, <4>6
    <3> QED BY <1>2, <3>3, <3>4
  <2> QED BY <2>1 DEF AcksQuiet
<1> HIDE DEF q, x
<1>10. AcksInOrder(q)
  <2> SUFFICES ASSUME NEW i \in DOMAIN q, NEW j \in DOMAIN q, i < j,
                      q[i].t = "ack", q[j].t = "ack"
               PROVE  q[i].batch < q[j].batch
    BY DEF AcksInOrder
  <2>1. i \in DOMAIN down /\ q[i] = down[i]
    <3>1. j <= Len(down) + 1 /\ Len(down) \in Nat
      BY <1>2
    <3> QED BY <1>2, <3>1
  <2>2. CASE j \in DOMAIN down /\ q[j] = down[j]
    BY <2>1, <2>2 DEF LineOK, InLine, AcksInOrder
  <2>3. CASE q[j] = f
    <3>1. q[i].batch \in AckIds(down)
      BY <2>1 DEF AckIds
    <3> QED BY <1>4, <2>3, <3>1 DEF LineOK, InLine, Before, x
  <2> QED BY <1>2, <2>2, <2>3
<1>11. InLine(d, c, out, Tail(up), q)
  BY <1>1, <1>4, <1>5, <1>7, <1>10 DEF LineOK, InLine, Before
<1>12. LineOK(d, c, cn, out, Tail(up), q)
  BY <1>6, <1>8, <1>9, <1>11 DEF LineOK
<1> QED BY <1>12 DEF q

-----------------------------------------------------------------------------
(* The invariant is inductive *)

\* A step of one device that leaves it good keeps the invariant.
LEMMA OneLine ==
  ASSUME LineInv, NEW c \in Devices, room' = room, OthersKeep(c),
         \A x \in Devices \ {c} : sending'[x] = sending[x],
         DeviceLine(c, room, doc'[c], saved'[c], conn'[c], socket'[c], sending'[c],
                    c2s'[c], s2c'[c])
  PROVE  LineInv'
<1>1. ASSUME NEW x \in Devices
      PROVE  DeviceLine(x, room', doc'[x], saved'[x], conn'[x], socket'[x], sending'[x],
                        c2s'[x], s2c'[x])
  BY DEF OthersKeep, LineInv
<1> QED BY <1>1 DEF LineInv

\* What will be shown depends on a replica's rows and cursor only.
LEMMA SameMirrorOK ==
  ASSUME NEW d, NEW e, e.auth = d.auth, e.cursor = d.cursor, NEW r, NEW cn, NEW sk, NEW down,
         MirrorOK(r, d, cn, sk, down)
  PROVE  MirrorOK(r, e, cn, sk, down)
<1>1. \A m : StateView(e, m) = StateView(d, m)
  BY SameGhost
<1>2. Mirror(r, d, down) => Mirror(r, e, down)
  BY SameMirror
<1> QED BY <1>1, <1>2 DEF MirrorOK

\* A device whose replica only wrote.
LEMMA FreshDevice ==
  ASSUME NEW c \in Devices, NEW d \in Replica, NEW e \in Replica, Fresh(c, d, e),
         e.auth = d.auth, e.cursor = d.cursor, NEW r, NEW sv, NEW cn, NEW sk,
         NEW out \in SUBSET Batch, NEW up \in Seq(ClientFrame), NEW down \in Seq(Frame),
         DeviceLine(c, r, d, sv, cn, sk, out, up, down)
  PROVE  DeviceLine(c, r, e, sv, cn, sk, out, up, down)
<1>1. LineOK(e, c, cn, out, up, down)
  BY FreshLine DEF DeviceLine
<1>2. MirrorOK(r, e, cn, sk, down)
  BY SameMirrorOK DEF DeviceLine
<1> QED BY <1>1, <1>2 DEF DeviceLine

\* A device without a connection.
LEMMA DownLine ==
  ASSUME NEW c, NEW d, NEW sv, BatchesOK(d, c), BatchesOK(sv, c), NEW r
  PROVE  DeviceLine(c, r, d, sv, "down", "closed", {}, <<>>, <<>>)
<1>1. PushIds(<<>>) = {} /\ AckIds(<<>>) = {}
  BY DEF PushIds, AckIds
<1>2. LineOK(d, c, "down", {}, <<>>, <<>>)
  BY <1>1, IdleLine
<1> QED BY <1>2 DEF DeviceLine, MirrorOK

\* Local writes, the save and the crash keep LineInv.
LEMMA LocalLine ==
  ASSUME TypeOK, LineInv, NEW c \in Devices, LocalStep(c)
  PROVE  LineInv'
<1>d. /\ doc[c] \in Replica /\ saved[c] \in Replica
      /\ sending[c] \in SUBSET Batch /\ c2s[c] \in Seq(ClientFrame) /\ s2c[c] \in Seq(Frame)
      /\ DeviceLine(c, room, doc[c], saved[c], conn[c], socket[c], sending[c], c2s[c], s2c[c])
  BY DEF TypeOK, LineInv
<1>b. BatchesOK(doc[c], c) /\ BatchesOK(saved[c], c)
  BY <1>d DEF DeviceLine, LineOK
<1>1. ASSUME NEW d \in Replica, d.auth = doc[c].auth, d.cursor = doc[c].cursor,
             Fresh(c, doc[c], d), Mutate(c, d)
      PROVE  LineInv'
  <2>1. DeviceLine(c, room, d, saved[c], conn[c], socket[c], sending[c], c2s[c], s2c[c])
    BY <1>d, <1>1, FreshDevice
  <2>2. /\ doc' = [doc EXCEPT ![c] = d]
        /\ UNCHANGED <<room, saved, conn, socket, sending, c2s, s2c, http>>
    BY <1>1 DEF Mutate
  <2>3. OthersKeep(c) /\ doc'[c] = d
    BY <2>2 DEF OthersKeep, TypeOK
  <2> QED BY <2>1, <2>2, <2>3, OneLine
<1>2. Times \subseteq Nat /\ WriteKeys \subseteq Keys
      /\ Sets \subseteq [Fields -> Values \union {Null, Unset}]
  BY SyncAssumption DEF Sets
<1>w. ASSUME NEW now \in Nat
      PROVE  /\ \A k, kind, set : /\ Write(doc[c], c, k, kind, set, now).auth = doc[c].auth
                                 /\ Write(doc[c], c, k, kind, set, now).cursor = doc[c].cursor
             /\ \A ks : /\ DeleteRows(doc[c], c, ks, now).auth = doc[c].auth
                        /\ DeleteRows(doc[c], c, ks, now).cursor = doc[c].cursor
  BY <1>d, WritesKeep
<1>3. CASE Upsert(c)
  <2>1. PICK k \in WriteKeys, x \in Sets, now \in Times :
               Mutate(c, Write(doc[c], c, k, "upsert", x, now))
    BY <1>3 DEF Upsert
  <2> DEFINE d == Write(doc[c], c, k, "upsert", x, now)
  <2>2. d \in Replica
    BY <1>d, <1>2, WriteType
  <2>3. d.auth = doc[c].auth /\ d.cursor = doc[c].cursor
    BY <1>2, <1>w
  <2>4. Fresh(c, doc[c], d)
    BY <1>d, <1>b, <1>2, WritesFresh
  <2> HIDE DEF d
  <2>5. Mutate(c, d)
    BY <2>1 DEF d
  <2> QED BY <1>1, <2>2, <2>3, <2>4, <2>5
<1>4. CASE Update(c)
  <2>1. PICK k \in WriteKeys, x \in Sets, now \in Times :
               Mutate(c, Write(doc[c], c, k, "update", x, now))
    BY <1>4 DEF Update
  <2> DEFINE d == Write(doc[c], c, k, "update", x, now)
  <2>2. d \in Replica
    BY <1>d, <1>2, WriteType
  <2>3. d.auth = doc[c].auth /\ d.cursor = doc[c].cursor
    BY <1>2, <1>w
  <2>4. Fresh(c, doc[c], d)
    BY <1>d, <1>b, <1>2, WritesFresh
  <2> HIDE DEF d
  <2>5. Mutate(c, d)
    BY <2>1 DEF d
  <2> QED BY <1>1, <2>2, <2>3, <2>4, <2>5
<1>5. CASE Delete(c)
  <2>1. PICK ks \in (SUBSET WriteKeys) \ {{}}, now \in Times :
               Mutate(c, DeleteRows(doc[c], c, ks, now))
    BY <1>5 DEF Delete
  <2> DEFINE d == DeleteRows(doc[c], c, ks, now)
  <2>k. ks \in SUBSET Keys /\ now \in Nat
    BY <1>2
  <2>2. d \in Replica
    BY <1>d, <2>k, DeleteRowsType
  <2>3. d.auth = doc[c].auth /\ d.cursor = doc[c].cursor
    BY <1>2, <1>w
  <2>4. Fresh(c, doc[c], d)
    BY <1>d, <1>b, <2>k, WritesFresh
  <2> HIDE DEF d
  <2>5. Mutate(c, d)
    BY <2>1 DEF d
  <2> QED BY <1>1, <2>2, <2>3, <2>4, <2>5
<1>6. CASE SaveSnapshot(c)
  <2>1. DeviceLine(c, room, doc[c], doc[c], conn[c], socket[c], sending[c], c2s[c], s2c[c])
    BY <1>b, <1>d DEF DeviceLine
  <2>2. /\ saved' = [saved EXCEPT ![c] = doc[c]]
        /\ UNCHANGED <<room, doc, conn, socket, sending, c2s, s2c, http>>
    BY <1>6 DEF SaveSnapshot
  <2>3. OthersKeep(c) /\ saved'[c] = doc[c]
    BY <2>2 DEF OthersKeep, TypeOK
  <2> QED BY <2>1, <2>2, <2>3, OneLine
<1>7. CASE Crash(c)
  <2>1. PICK now \in Times : /\ doc' = [doc EXCEPT ![c] = Boot(saved[c], c, now)]
                             /\ saved' = [saved EXCEPT ![c] = Boot(saved[c], c, now)]
    BY <1>7 DEF Crash
  <2>2. BatchesOK(Boot(saved[c], c, now), c)
    BY <1>b, <1>d, ClearedBatches
  <2>3. /\ conn' = [conn EXCEPT ![c] = "down"] /\ socket' = [socket EXCEPT ![c] = "closed"]
        /\ c2s' = [c2s EXCEPT ![c] = <<>>] /\ s2c' = [s2c EXCEPT ![c] = <<>>]
        /\ sending' = [sending EXCEPT ![c] = {}]
        /\ http' = [http EXCEPT ![c] = Spawned(IdleHttp)] /\ room' = room
    BY <1>7 DEF Crash
  <2>4. OthersKeep(c) /\ \A x \in Devices \ {c} : sending'[x] = sending[x]
    BY <2>1, <2>3 DEF OthersKeep, TypeOK
  <2>5. /\ doc'[c] = Boot(saved[c], c, now) /\ saved'[c] = Boot(saved[c], c, now)
        /\ conn'[c] = "down" /\ socket'[c] = "closed" /\ sending'[c] = {}
        /\ c2s'[c] = <<>> /\ s2c'[c] = <<>>
    BY <2>1, <2>3 DEF TypeOK
  <2>6. DeviceLine(c, room, doc'[c], saved'[c], conn'[c], socket'[c], sending'[c],
                   c2s'[c], s2c'[c])
    BY <2>2, <2>5, DownLine
  <2> QED BY <2>3, <2>4, <2>6, OneLine
<1> QED BY <1>3, <1>4, <1>5, <1>6, <1>7 DEF LocalStep

\* A session that ends.
LEMMA EndLine ==
  ASSUME TypeOK, LineInv, NEW c \in Devices, NEW d \in Replica, BatchesOK(d, c),
         EndSession(c, d), UNCHANGED <<room, saved>>
  PROVE  LineInv'
<1>1. BatchesOK(saved[c], c) /\ BatchesOK(MarkDisconnected(d), c)
  BY ClearedBatches DEF LineInv, DeviceLine
<1>2. /\ doc' = [doc EXCEPT ![c] = MarkDisconnected(d)]
      /\ conn' = [conn EXCEPT ![c] = "down"] /\ socket' = [socket EXCEPT ![c] = "closed"]
      /\ c2s' = [c2s EXCEPT ![c] = <<>>] /\ s2c' = [s2c EXCEPT ![c] = <<>>]
      /\ sending' = [sending EXCEPT ![c] = {}]
      /\ http' = [http EXCEPT ![c] = Spawned(http[c])]
  BY DEF EndSession
<1>3. OthersKeep(c) /\ \A x \in Devices \ {c} : sending'[x] = sending[x]
  BY <1>2 DEF OthersKeep, TypeOK
<1>4. /\ doc'[c] = MarkDisconnected(d) /\ saved'[c] = saved[c] /\ sending'[c] = {}
      /\ conn'[c] = "down" /\ socket'[c] = "closed" /\ c2s'[c] = <<>> /\ s2c'[c] = <<>>
  BY <1>2 DEF TypeOK
<1> QED BY <1>1, <1>3, <1>4, DownLine, OneLine

\* A rows frame, applied.
LEMMA RowsRead ==
  ASSUME NEW c \in Devices, NEW d \in Replica, BatchesOK(d, c), NEW m \in Frame, m.t = "rows"
  PROVE  /\ Fresh(c, d, ApplyRows(d, m.seq, m.rows))
         /\ Read(d, m, ApplyRows(d, m.seq, m.rows))
<1> DEFINE e == ApplyRows(d, m.seq, m.rows)
<1>1. e.pending = d.pending /\ e.clock = d.clock /\ e.auth = PutAuthoritative(d.auth, m.rows)
  BY DEF ApplyRows, Replica
<1> HIDE DEF e
<1>2. 0 \in Nat /\ e.clock \in {d.clock, Tick(d.clock, 0)}
  BY <1>1
<1>3. Fresh(c, d, e)
  BY <1>1, <1>2, TickFresh
<1>4. Read(d, m, e)
  BY <1>1 DEF Read, PutAuthoritative, HasRow
<1> QED BY <1>3, <1>4 DEF e

\* A frame that brings no rows.
LEMMA NoRowsRead ==
  ASSUME NEW d, NEW e, e.auth = d.auth, NEW m, m.t # "rows"
  PROVE  Read(d, m, e)
  BY DEF Read, HasRow

\* The steps of the session actor keep LineInv.
LEMMA SessionLine ==
  ASSUME TypeOK, CursorInv, FlightInv, LineInv, NEW c \in Devices, SessionStep(c)
  PROVE  LineInv'
<1>d. /\ doc[c] \in Replica /\ s2c[c] \in Seq(Frame) /\ c2s[c] \in Seq(ClientFrame)
      /\ sending[c] \in SUBSET Batch
      /\ LinkOK(room, doc[c], conn[c], socket[c], c2s[c], s2c[c])
      /\ LineOK(doc[c], c, conn[c], sending[c], c2s[c], s2c[c])
      /\ BatchesOK(doc[c], c) /\ BatchesOK(saved[c], c)
      /\ MirrorOK(room, doc[c], conn[c], socket[c], s2c[c])
  BY DEF TypeOK, CursorInv, LineInv, DeviceLine, LineOK
<1>f. /\ conn[c] = "down" => c2s[c] = <<>> /\ s2c[c] = <<>>
      /\ conn[c] # "pushing" => sending[c] = {}
  BY DEF FlightInv, FlightOK
<1>1. CASE Dial(c)
  <2> DEFINE hello == [t |-> "hello", cursor |-> HelloCursor(doc[c])]
  <2>1. /\ conn[c] = "down" /\ conn' = [conn EXCEPT ![c] = "hello"]
        /\ socket' = [socket EXCEPT ![c] = "new"]
        /\ c2s' = [c2s EXCEPT ![c] = <<hello>>]
        /\ UNCHANGED <<room, doc, saved, s2c, sending, http>>
    BY <1>1 DEF Dial
  <2>2. OthersKeep(c) /\ conn'[c] = "hello" /\ socket'[c] = "new" /\ c2s'[c] = <<hello>>
    BY <2>1 DEF OthersKeep, TypeOK
  <2>3. PushIds(<<hello>>) = {} /\ AckIds(<<>>) = {}
    BY DEF PushIds, AckIds
  <2>4. s2c[c] = <<>> /\ sending[c] = {}
    BY <1>f, <2>1
  <2>5. LineOK(doc[c], c, "hello", {}, <<hello>>, <<>>)
    BY <1>d, <2>3, IdleLine
  <2>6. DeviceLine(c, room, doc[c], saved[c], "hello", "new", {}, <<hello>>, <<>>)
    BY <1>d, <2>5 DEF DeviceLine, MirrorOK
  <2> HIDE DEF hello
  <2> QED BY <2>1, <2>2, <2>4, <2>6, OneLine
<1>2. CASE RecvState(c)
  <2> DEFINE m == Head(s2c[c])
  <2>1. conn[c] = "hello" /\ s2c[c] # <<>> /\ m.t = "state"
        /\ s2c' = [s2c EXCEPT ![c] = Tail(s2c[c])]
        /\ UNCHANGED <<room, saved, socket, c2s, http>>
    BY <1>2 DEF RecvState
  <2>2. socket[c] = "ready"
    BY <1>d, <2>1 DEF LinkOK
  <2>3. m = s2c[c][1] /\ m \in Frame /\ Tail(s2c[c]) \in Seq(Frame)
    BY <1>d, <2>1, TailFacts
  <2>4. m.seq \in Nat /\ m.full \in BOOLEAN /\ m.rows \in [Keys -> Row]
    BY <2>1, <2>3, FrameTypes
  <2>5. PICK now \in Times :
          LET d == ApplyState(doc[c], c, m.seq, m.full, m.rows, now)
          IN  doc' = [doc EXCEPT ![c] = TakePushable(d)] /\ StartPush(c, Pushable(d))
    BY <1>2 DEF RecvState
  <2> DEFINE d == ApplyState(doc[c], c, m.seq, m.full, m.rows, now)
             e == TakePushable(d)
             v == StateView(doc[c], m)
  <2>n. now \in Nat
    BY SyncAssumption
  <2>6. d \in Replica
    BY <1>d, <2>4, <2>n, ApplyStateType
  <2>7. d.auth = v.auth
    BY <1>d, <2>4, ApplyStateKeeps DEF StateView
  <2>8. BatchesOK(d, c)
    BY <1>d, <2>4, <2>n, StateFresh DEF Fresh
  <2>9. doc' = [doc EXCEPT ![c] = e] /\ StartPush(c, Pushable(d))
    BY <2>5
  <2>10. Mirror(room, v, s2c[c])
    BY <1>d, <2>1, <2>2, <2>3 DEF MirrorOK
  <2>m. s2c[c][1].t # "rows"
    BY <2>1, <2>3
  <2> HIDE DEF m, d, v
  <2>11. e.auth = v.auth
    BY <2>6, <2>7, MarksKeep
  <2> HIDE DEF e
  <2>12. Mirror(room, e, Tail(s2c[c]))
    <3>1. Read(v, s2c[c][1], e)
      BY <2>11, <2>m, NoRowsRead
    <3> QED BY <1>d, <2>1, <2>10, <3>1, MirrorTail
  <2>13. /\ conn'[c] \in {"pushing", "up"} /\ sending'[c] = Pushable(d)
         /\ s2c'[c] = Tail(s2c[c]) /\ doc'[c] = e
    BY <2>1, <2>9 DEF StartPush, TypeOK
  <2>14. PushIds(c2s[c]) = {} /\ AckIds(Tail(s2c[c])) = {}
    <3>1. AckIds(s2c[c]) = {} /\ PushIds(c2s[c]) = {}
      BY <1>d, <2>1 DEF LineOK
    <3>2. AckIds(Tail(s2c[c])) \subseteq AckIds(s2c[c])
      BY <1>d, <2>1, TailFacts DEF AckIds
    <3> QED BY <3>1, <3>2
  <2>15. LineOK(d, c, "hello", {}, c2s[c], Tail(s2c[c]))
    BY <2>8, <2>14, IdleLine
  <2>16. LineOK(e, c, conn'[c], Pushable(d), c2s[c], Tail(s2c[c]))
    BY <1>d, <2>3, <2>6, <2>13, <2>15, TakeLine DEF e
  <2>17. DeviceLine(c, room, e, saved[c], conn'[c], socket[c], Pushable(d), c2s[c], Tail(s2c[c]))
    BY <1>d, <2>12, <2>13, <2>16 DEF DeviceLine, MirrorOK
  <2>18. OthersKeep(c) /\ \A x \in Devices \ {c} : sending'[x] = sending[x]
    BY <2>1, <2>9 DEF OthersKeep, StartPush, TypeOK
  <2> QED BY <2>1, <2>13, <2>17, <2>18, OneLine
<1>3. CASE SendPush(c)
  <2> DEFINE b == Oldest(sending[c])
             q == Append(c2s[c], [t |-> "push", push |-> b])
  <2>1. /\ conn[c] = "pushing" /\ sending[c] # {}
        /\ c2s' = [c2s EXCEPT ![c] = q] /\ StartPush(c, sending[c] \ {b})
        /\ UNCHANGED <<room, doc, saved, socket, s2c, http>>
    BY <1>3 DEF SendPush
  <2> HIDE DEF q
  <2>2. /\ conn'[c] \in {"pushing", "up"} /\ sending'[c] = sending[c] \ {b} /\ c2s'[c] = q
        /\ OthersKeep(c) /\ \A x \in Devices \ {c} : sending'[x] = sending[x]
    BY <2>1 DEF StartPush, OthersKeep, TypeOK
  <2>3. LineOK(doc[c], c, conn'[c], sending[c] \ {b}, q, s2c[c])
    <3>1. b = Oldest(sending[c])
      OBVIOUS
    <3> HIDE DEF b
    <3>2. PICK out \in SUBSET Batch : out = sending[c]
      BY <1>d
    <3>3. out # {} /\ b = Oldest(out) /\ LineOK(doc[c], c, conn[c], out, c2s[c], s2c[c])
      BY <1>d, <2>1, <3>1, <3>2
    <3>4. \A new \in {"pushing", "up"} : LineOK(doc[c], c, new, out \ {b}, q, s2c[c])
      BY <1>d, <3>3, SendLine DEF q
    <3> QED BY <2>2, <3>2, <3>4
  <2>4. DeviceLine(c, room, doc[c], saved[c], conn'[c], socket[c], sending[c] \ {b}, q, s2c[c])
    BY <1>d, <2>1, <2>2, <2>3 DEF DeviceLine, MirrorOK
  <2> QED BY <2>1, <2>2, <2>4, OneLine
<1>4. CASE Nudge(c)
  <2> DEFINE e == TakePushable(doc[c])
  <2>1. /\ conn[c] = "up" /\ doc' = [doc EXCEPT ![c] = e] /\ StartPush(c, Pushable(doc[c]))
        /\ UNCHANGED <<room, saved, socket, c2s, s2c, http>>
    BY <1>4 DEF Nudge
  <2>2. e.auth = doc[c].auth
    BY <1>d, MarksKeep
  <2> HIDE DEF e
  <2>3. /\ conn'[c] \in {"pushing", "up"} /\ sending'[c] = Pushable(doc[c]) /\ doc'[c] = e
        /\ OthersKeep(c) /\ \A x \in Devices \ {c} : sending'[x] = sending[x]
    BY <2>1 DEF StartPush, OthersKeep, TypeOK
  <2>4. LineOK(doc[c], c, conn[c], {}, c2s[c], s2c[c])
    BY <1>d, <1>f, <2>1
  <2>5. LineOK(e, c, conn'[c], Pushable(doc[c]), c2s[c], s2c[c])
    BY <1>d, <2>3, <2>4, TakeLine DEF e
  <2>6. Mirror(room, e, s2c[c])
    BY <1>d, <2>1, <2>2, SameMirror DEF MirrorOK
  <2>7. DeviceLine(c, room, e, saved[c], conn'[c], socket[c], Pushable(doc[c]), c2s[c], s2c[c])
    BY <1>d, <2>3, <2>5, <2>6 DEF DeviceLine, MirrorOK
  <2> QED BY <2>1, <2>3, <2>7, OneLine
<1>r. ASSUME conn[c] = "up", s2c[c] # <<>>, NEW d \in Replica, Fresh(c, doc[c], d),
             Read(doc[c], s2c[c][1], d),
             doc' = [doc EXCEPT ![c] = d], s2c' = [s2c EXCEPT ![c] = Tail(s2c[c])],
             UNCHANGED <<room, saved, conn, socket, c2s, sending, http>>
      PROVE  LineInv'
  <2>1. LineOK(d, c, conn[c], sending[c], c2s[c], Tail(s2c[c]))
    BY <1>d, <1>r, TailLine
  <2>2. Mirror(room, d, Tail(s2c[c]))
    BY <1>d, <1>r, MirrorTail DEF MirrorOK
  <2>3. DeviceLine(c, room, d, saved[c], conn[c], socket[c], sending[c], c2s[c], Tail(s2c[c]))
    BY <1>d, <1>r, <2>1, <2>2 DEF DeviceLine, MirrorOK
  <2>4. OthersKeep(c) /\ doc'[c] = d /\ s2c'[c] = Tail(s2c[c])
    BY <1>r DEF OthersKeep, TypeOK
  <2> QED BY <1>r, <2>3, <2>4, OneLine
<1>5. CASE RecvRows(c)
  <2> DEFINE m == Head(s2c[c])
             d == ApplyRows(doc[c], m.seq, m.rows)
  <2>1. conn[c] = "up" /\ s2c[c] # <<>> /\ m.t = "rows" /\ UNCHANGED <<room, saved>>
    BY <1>5 DEF RecvRows
  <2>2. m = s2c[c][1] /\ m \in Frame
    BY <1>d, <2>1, TailFacts
  <2>3. m.seq \in Nat /\ m.rows \in [Keys -> Row]
    BY <2>1, <2>2, FrameTypes
  <2>4. d \in Replica /\ Fresh(c, doc[c], d) /\ Read(doc[c], m, d)
    BY <1>d, <2>1, <2>2, <2>3, ApplyRowsType, RowsRead
  <2> HIDE DEF d
  <2>5. CASE Gap(doc[c], m.seq)
    <3>1. EndSession(c, d)
      BY <1>5, <2>5 DEF RecvRows, d
    <3>2. BatchesOK(d, c)
      BY <2>4 DEF Fresh
    <3> QED BY <2>1, <2>4, <3>1, <3>2, EndLine
  <2>6. CASE ~Gap(doc[c], m.seq)
    <3>1. /\ doc' = [doc EXCEPT ![c] = d] /\ s2c' = [s2c EXCEPT ![c] = Tail(s2c[c])]
          /\ UNCHANGED <<conn, socket, c2s, sending, http>>
      BY <1>5, <2>6 DEF RecvRows, d
    <3> QED BY <1>r, <2>1, <2>2, <2>4, <3>1
  <2> QED BY <2>5, <2>6
<1>6. CASE RecvAck(c)
  <2> DEFINE m == Head(s2c[c])
             d == AckBatch(doc[c], m.batch)
  <2>1. /\ conn[c] = "up" /\ s2c[c] # <<>> /\ m.t = "ack"
        /\ doc' = [doc EXCEPT ![c] = d] /\ s2c' = [s2c EXCEPT ![c] = Tail(s2c[c])]
        /\ UNCHANGED <<room, saved, conn, socket, c2s, sending, http>>
    BY <1>6 DEF RecvAck
  <2>2. m = s2c[c][1]
    BY <1>d, <2>1, TailFacts
  <2>3. d \in Replica /\ d.auth = doc[c].auth /\ Fresh(c, doc[c], d)
    BY <1>d, AckBatchType, MarksKeep, AckFresh
  <2>m. s2c[c][1].t # "rows"
    BY <2>1, <2>2
  <2> HIDE DEF d, m
  <2>4. Read(doc[c], s2c[c][1], d)
    BY <2>3, <2>m, NoRowsRead
  <2> QED BY <1>r, <2>1, <2>3, <2>4
<1>7. CASE RecvClose(c)
  <2>1. EndSession(c, doc[c]) /\ UNCHANGED <<room, saved>>
    BY <1>7 DEF RecvClose
  <2> QED BY <1>d, <2>1, EndLine
<1> QED BY <1>1, <1>2, <1>3, <1>4, <1>5, <1>6, <1>7 DEF SessionStep

\* Lost sockets and failed dials keep LineInv.
LEMMA FailureLine ==
  ASSUME TypeOK, CursorInv, LineInv, NEW c \in Devices, Failure(c)
  PROVE  LineInv'
<1>d. doc[c] \in Replica /\ BatchesOK(doc[c], c)
  BY DEF TypeOK, LineInv, DeviceLine, LineOK
<1>1. CASE Disconnect(c)
  <2>1. EndSession(c, doc[c]) /\ UNCHANGED <<room, saved>>
    BY <1>1 DEF Disconnect
  <2> QED BY <1>d, <2>1, EndLine
<1>2. CASE DialFails(c)
  BY <1>2 DEF DialFails, LineInv
<1> QED BY <1>1, <1>2, HttpCursor DEF Failure

\* A batch the room applies and broadcasts to every ready socket.
LEMMA PublishLine ==
  ASSUME ~Lossy, TypeOK, CursorInv, LineInv, NEW ops \in [Keys -> Op],
         NEW reply \in [Devices -> Seq(Frame)], Publish(ops, reply), NEW c \in Devices
  PROVE  \E q \in Seq(Frame) :
           /\ s2c'[c] = q \o reply[c]
           /\ DeviceLine(c, room', doc[c], saved[c], conn[c], socket[c], sending[c], c2s[c], q)
<1> DEFINE f == [t |-> "rows", seq |-> room'.seq, rows |-> MergedRows(room, ops)]
           p == s2c[c]
           q == IF Touched(room, ops) # {} THEN Append(p, f) ELSE p
<1>1. room \in Room /\ room' = ApplyPushBatch(room, ops) /\ room' \in Room
  BY ApplyPushBatchType DEF TypeOK, Publish
<1>2. f \in Frame /\ f.t = "rows" /\ f.rows = MergedRows(room, ops)
  <2>1. room'.seq \in Nat /\ MergedRows(room, ops) \in [Keys -> Row]
    BY <1>1, ApplyPushBatchType DEF Room
  <2> QED BY <2>1 DEF Frame
<1>3. s2c'[c] = (IF socket[c] = "ready" THEN q ELSE p) \o reply[c]
  <2>1. PICK missed \in {{}} : s2c' = [x \in Devices |->
         (IF socket[x] = "ready" /\ x \notin missed /\ Touched(room, ops) # {}
            THEN Append(s2c[x], f) ELSE s2c[x]) \o reply[x]]
    BY DEF Publish
  <2> HIDE DEF f
  <2> QED BY <2>1
<1>d. /\ doc[c] \in Replica /\ p \in Seq(Frame)
      /\ LinkOK(room, doc[c], conn[c], socket[c], c2s[c], p)
      /\ LineOK(doc[c], c, conn[c], sending[c], c2s[c], p)
      /\ BatchesOK(saved[c], c)
      /\ MirrorOK(room, doc[c], conn[c], socket[c], p)
  BY DEF TypeOK, CursorInv, LineInv, DeviceLine
<1> HIDE DEF f, p
<1>4. q \in Seq(Frame) /\ (p # <<>> => q[1] = p[1])
  BY <1>2, <1>d
<1>5. ASSUME NEW d, Mirror(room, d, p) PROVE Mirror(room', d, q)
  BY <1>1, <1>2, <1>5, <1>d, PushMirror
<1>6. LineOK(doc[c], c, conn[c], sending[c], c2s[c], q)
  <2>1. f.t # "ack"
    BY <1>2
  <2>2. LineOK(doc[c], c, conn[c], sending[c], c2s[c], Append(p, f))
    BY <1>2, <1>d, <2>1, RowsLine
  <2> QED BY <1>d, <2>2
<1> HIDE DEF q
<1>7. CASE socket[c] = "ready"
  <2>1. conn[c] = "hello" => p # <<>>
    BY <1>7, <1>d DEF LinkOK
  <2>2. MirrorOK(room', doc[c], conn[c], socket[c], q)
    BY <1>4, <1>5, <1>7, <1>d, <2>1 DEF MirrorOK
  <2>3. DeviceLine(c, room', doc[c], saved[c], conn[c], socket[c], sending[c], c2s[c], q)
    BY <1>6, <1>d, <2>2 DEF DeviceLine
  <2> QED BY <1>3, <1>4, <1>7, <2>3
<1>8. CASE socket[c] # "ready"
  <2>1. conn[c] \notin {"pushing", "up"}
    <3>1. socket[c] \in {"new", "closed"}
      BY <1>8 DEF TypeOK
    <3> QED BY <1>d, <3>1 DEF LinkOK
  <2>2. MirrorOK(room', doc[c], conn[c], socket[c], p)
    BY <1>8, <2>1 DEF MirrorOK
  <2>3. DeviceLine(c, room', doc[c], saved[c], conn[c], socket[c], sending[c], c2s[c], p)
    BY <1>d, <2>2 DEF DeviceLine
  <2> QED BY <1>3, <1>8, <1>d, <2>3
<1> QED BY <1>7, <1>8

\* A batch nobody waits for.
LEMMA SilentLine ==
  ASSUME ~Lossy, TypeOK, CursorInv, LineInv, NEW ops \in [Keys -> Op], Publish(ops, NoReply),
         UNCHANGED <<doc, saved, conn, socket, sending, c2s>>
  PROVE  LineInv'
<1>1. ASSUME NEW c \in Devices
      PROVE  DeviceLine(c, room', doc[c], saved[c], conn[c], socket[c], sending[c], c2s[c], s2c'[c])
  <2>1. PICK q \in Seq(Frame) :
           /\ s2c'[c] = q \o NoReply[c]
           /\ DeviceLine(c, room', doc[c], saved[c], conn[c], socket[c], sending[c], c2s[c], q)
    BY NoReplyType, PublishLine
  <2>2. q \o NoReply[c] = q
    BY DEF NoReply
  <2> QED BY <2>1, <2>2
<1> QED BY <1>1 DEF LineInv

\* The room's answers keep LineInv.
LEMMA RoomStepLine ==
  ASSUME ~Lossy, TypeOK, CursorInv, GhostInv, FlightInv, LineInv, NEW c \in Devices, RoomStep(c)
  PROVE  LineInv'
<1>d. /\ doc[c] \in Replica /\ room \in Room /\ c2s[c] \in Seq(ClientFrame)
      /\ s2c[c] \in Seq(Frame) /\ socket[c] \in {"new", "ready", "closed"}
      /\ Complete(room, doc[c]) /\ SeqsOK(room) /\ GhostFree(room, doc[c])
      /\ LinkOK(room, doc[c], conn[c], socket[c], c2s[c], s2c[c])
      /\ LineOK(doc[c], c, conn[c], sending[c], c2s[c], s2c[c])
      /\ BatchesOK(doc[c], c) /\ BatchesOK(saved[c], c)
  BY DEF TypeOK, CursorInv, GhostInv, DeviceGhost, LineInv, DeviceLine, LineOK
<1>1. CASE RoomHello(c)
  <2> DEFINE x == Head(c2s[c]).cursor
             a == Answer(room, x)
             f == [t |-> "state", seq |-> a.seq, full |-> a.full, rows |-> a.rows]
  <2>1. /\ socket[c] # "closed" /\ c2s[c] # <<>> /\ Head(c2s[c]).t = "hello"
        /\ s2c' = [s2c EXCEPT ![c] = Append(s2c[c], f)]
        /\ socket' = [socket EXCEPT ![c] = "ready"]
        /\ c2s' = [c2s EXCEPT ![c] = Tail(c2s[c])]
        /\ UNCHANGED <<room, doc, saved, conn, sending, http>>
    BY <1>1 DEF RoomHello
  <2>2. socket[c] = "new"
    <3>1. Head(c2s[c]) = c2s[c][1] /\ 1 \in DOMAIN c2s[c]
      BY <1>d, <2>1
    <3> QED BY <1>d, <2>1, <3>1 DEF LinkOK
  <2>3. conn[c] = "hello" /\ s2c[c] = <<>> /\ x \in {NoCursor, doc[c].cursor} /\ Tail(c2s[c]) = <<>>
    <3>1. conn[c] = "hello" /\ s2c[c] = <<>>
      BY <1>d, <2>2 DEF LinkOK
    <3>2. PICK y \in {NoCursor, doc[c].cursor} : c2s[c] = <<[t |-> "hello", cursor |-> y]>>
      BY <1>d, <2>2 DEF LinkOK
    <3>3. Head(c2s[c]) = [t |-> "hello", cursor |-> y] /\ Tail(c2s[c]) = <<>>
      BY <3>2
    <3> QED BY <3>1, <3>3
  <2>4. f \in Frame
    <3>1. a \in [seq : Nat, full : BOOLEAN, rows : [Keys -> Row]]
      BY <2>1, C2sHeadType, AnswerType DEF TypeOK
    <3> HIDE DEF a
    <3> QED BY <3>1 DEF Frame
  <2>5. f.t = "state" /\ f.seq = a.seq /\ f.full = a.full /\ f.rows = a.rows
    OBVIOUS
  <2> HIDE DEF x, f
  <2>6. Mirror(room, StateView(doc[c], f), <<f>>)
    BY <1>d, <2>3, <2>4, <2>5, AnswerMirror
  <2>7. Append(s2c[c], f) = <<f>> /\ <<f>>[1] = f
    BY <2>3
  <2>8. PushIds(<<>>) = {} /\ AckIds(<<f>>) = {} /\ sending[c] = {}
    BY <2>3, <2>5 DEF PushIds, AckIds, FlightInv, FlightOK
  <2>9. LineOK(doc[c], c, "hello", {}, <<>>, <<f>>)
    BY <1>d, <2>8, IdleLine
  <2>10. DeviceLine(c, room, doc[c], saved[c], "hello", "ready", {}, <<>>, <<f>>)
    BY <1>d, <2>6, <2>7, <2>9 DEF DeviceLine, MirrorOK
  <2>11. OthersKeep(c) /\ s2c'[c] = <<f>> /\ socket'[c] = "ready" /\ c2s'[c] = <<>>
    BY <2>1, <2>3, <2>7 DEF OthersKeep, TypeOK
  <2> QED BY <2>1, <2>3, <2>8, <2>10, <2>11, OneLine
<1>2. CASE RoomPush(c)
  <2> DEFINE b == Head(c2s[c]).push
             ack == [t |-> "ack", batch |-> b.batch]
             reply == [NoReply EXCEPT ![c] = <<ack>>]
  <2>1. /\ c2s[c] # <<>> /\ Head(c2s[c]).t = "push"
        /\ Publish(b.ops, reply) /\ c2s' = [c2s EXCEPT ![c] = Tail(c2s[c])]
        /\ UNCHANGED <<doc, saved, conn, socket, sending>>
    BY <1>2 DEF RoomPush
  <2>2. b \in Batch /\ b.ops \in [Keys -> Op]
    BY <2>1, C2sHeadType DEF Batch
  <2>3. ack \in Frame /\ ack.t = "ack" /\ ack.batch = b.batch
    BY <2>2 DEF Batch, Frame
  <2> HIDE DEF ack
  <2>4. /\ reply \in [Devices -> Seq(Frame)] /\ reply[c] = <<ack>>
        /\ \A x \in Devices : x # c => reply[x] = <<>>
    <3>1. reply[c] = <<ack>> /\ \A x \in Devices : x # c => reply[x] = <<>>
      BY NoReplyType DEF NoReply
    <3>2. <<ack>> \in Seq(Frame)
      BY <2>3
    <3> QED BY <3>1, <3>2, NoReplyType
  <2>5. b = c2s[c][1].push /\ c2s[c][1].t = "push" /\ 1 \in DOMAIN c2s[c]
    BY <1>d, <2>1
  <2>6. room' = ApplyPushBatch(room, b.ops)
    BY <2>1 DEF Publish
  <2> HIDE DEF b, reply
  <2>7. \A x \in Devices : \E q \in Seq(Frame) :
           /\ s2c'[x] = q \o reply[x]
           /\ DeviceLine(x, room', doc[x], saved[x], conn[x], socket[x], sending[x], c2s[x], q)
    BY <2>1, <2>2, <2>4, PublishLine
  <2>8. ASSUME NEW x \in Devices, x # c
        PROVE  DeviceLine(x, room', doc[x], saved[x], conn[x], socket[x], sending[x],
                          c2s'[x], s2c'[x])
    <3>1. PICK q \in Seq(Frame) :
           /\ s2c'[x] = q \o reply[x]
           /\ DeviceLine(x, room', doc[x], saved[x], conn[x], socket[x], sending[x], c2s[x], q)
      BY <2>7
    <3>2. q \o <<>> = q
      OBVIOUS
    <3>3. c2s'[x] = c2s[x]
      BY <2>1, <2>8 DEF TypeOK
    <3> QED BY <2>4, <2>8, <3>1, <3>2, <3>3
  <2>9. DeviceLine(c, room', doc[c], saved[c], conn[c], socket[c], sending[c], Tail(c2s[c]), s2c'[c])
    <3>1. PICK q \in Seq(Frame) :
           /\ s2c'[c] = q \o reply[c]
           /\ DeviceLine(c, room', doc[c], saved[c], conn[c], socket[c], sending[c], c2s[c], q)
      BY <2>7
    <3>2. s2c'[c] = Append(q, ack)
      BY <2>3, <2>4, <3>1
    <3>3. conn[c] \in {"pushing", "up"}
      <4>1. PushIds(c2s[c]) # {}
        BY <2>5 DEF PushIds
      <4>2. conn[c] \in {"down", "hello", "pushing", "up"}
        BY DEF TypeOK
      <4> QED BY <1>d, <4>1, <4>2 DEF LineOK
    <3>4. Mirror(room', doc[c], q) /\ LineOK(doc[c], c, conn[c], sending[c], c2s[c], q)
      BY <3>1, <3>3 DEF DeviceLine, MirrorOK
    <3>5. \A k \in Keys : ~Changed(room'.rows[k], c2s[c][1].push.ops[k])
      BY <1>d, <2>2, <2>5, <2>6, PushQuiet
    <3>6. LineOK(doc[c], c, conn[c], sending[c], Tail(c2s[c]), Append(q, ack))
      BY <1>d, <2>1, <2>3, <2>5, <3>4, <3>5, AckLine
    <3>7. Mirror(room', doc[c], Append(q, ack))
      <4>1. \A k \in Keys : ~HasRow(ack, k) /\ Tracks(room', room', k)
        BY <2>3 DEF HasRow, Tracks
      <4> QED BY <2>3, <3>4, <4>1, MirrorAppend
    <3> QED BY <1>d, <3>2, <3>3, <3>6, <3>7 DEF DeviceLine, MirrorOK
  <2>10. c2s'[c] = Tail(c2s[c])
    BY <2>1 DEF TypeOK
  <2> QED BY <2>1, <2>8, <2>9, <2>10 DEF LineInv
<1> QED BY <1>1, <1>2, HttpCursor DEF RoomStep

\* Late pushes and the alarm keep LineInv.
LEMMA RoomAloneLine ==
  ASSUME MaxResets = 0, ~Lossy, TypeOK, CursorInv, LineInv,
         RoomLate \/ RoomAlarm \/ RoomAlarmEnds \/ RoomAlarmFails \/ RoomReset
  PROVE  LineInv'
<1>0. room \in Room
  BY DEF TypeOK
<1>1. CASE RoomLate
  <2>1. PICK b \in late : /\ Publish(b.ops, NoReply)
                          /\ UNCHANGED <<doc, saved, conn, socket, sending, c2s>>
    BY <1>1 DEF RoomLate
  <2>2. b.ops \in [Keys -> Op]
    BY DEF TypeOK, Batch
  <2> QED BY <2>1, <2>2, SilentLine
<1>2. ASSUME \A k \in Keys : Tracks(room, room', k),
             UNCHANGED <<doc, saved, conn, socket, sending, c2s, s2c>>
      PROVE  LineInv'
  <2>1. ASSUME NEW c \in Devices
        PROVE  DeviceLine(c, room', doc[c], saved[c], conn[c], socket[c], sending[c], c2s[c], s2c[c])
    <3>1. \A d : Mirror(room, d, s2c[c]) => Mirror(room', d, s2c[c])
      BY <1>2, MirrorTracks
    <3> QED BY <3>1 DEF LineInv, DeviceLine, MirrorOK
  <2> QED BY <1>2, <2>1 DEF LineInv
<1>3. CASE RoomAlarm
  <2>1. /\ \E h : room' = AlarmFires(room, h)
        /\ UNCHANGED <<doc, saved, conn, socket, sending, c2s, s2c>>
    BY <1>3 DEF RoomAlarm
  <2> QED BY <1>0, <1>2, <2>1, AlarmTracks
<1>4. CASE RoomAlarmEnds
  BY <1>0, <1>2, <1>4, AlarmTracks DEF RoomAlarmEnds
<1>5. CASE RoomAlarmFails
  BY <1>0, <1>2, <1>5, AlarmTracks DEF RoomAlarmFails
<1>6. ~RoomReset
  <2>1. used.resets \in Nat
    BY DEF TypeOK
  <2> QED BY <2>1 DEF RoomReset, Spend, Bound
<1> QED BY <1>1, <1>3, <1>4, <1>5, <1>6

\* LineInv is inductive where the socket is the only transport and loses no
\* broadcast, and no reset happens.
LEMMA LineStep ==
  ASSUME MaxResets = 0, ~Lossy, TypeOK, CursorInv, GhostInv, FlightInv, LineInv, [Next]_vars
  PROVE  LineInv'
<1>1. CASE UNCHANGED vars
  BY <1>1 DEF vars, LineInv
<1>2. ASSUME NEW c \in Devices,
             LocalStep(c) \/ SessionStep(c) \/ HttpStep(c) \/ Failure(c) \/ RoomStep(c)
      PROVE  LineInv'
  BY <1>2, LocalLine, SessionLine, HttpCursor, FailureLine, RoomStepLine
<1>3. CASE RoomLate \/ RoomAlarm \/ RoomAlarmEnds \/ RoomAlarmFails \/ RoomReset
  BY <1>3, RoomAloneLine
<1> QED BY <1>1, <1>2, <1>3 DEF Next

\* LineInv holds at the start: nothing is under way.
LEMMA InitLine == Init => LineInv
<1> SUFFICES ASSUME Init PROVE LineInv
  OBVIOUS
<1>1. NewDoc \in Replica
  BY TableTypes DEF NewDoc, Replica, Clock
<1>2. ASSUME NEW c \in Devices PROVE BatchesOK(NewDoc, c)
  <2>1. NewDoc.pending = {} /\ NewDoc.clock.counter = 0
    BY DEF NewDoc
  <2>2. MaxCounter \in Nat
    BY CoreAssumption
  <2> QED BY <2>1, <2>2, FS_EmptySet DEF BatchesOK, Numbered
<1>3. ASSUME NEW c \in Devices
      PROVE  DeviceLine(c, room, doc[c], saved[c], conn[c], socket[c], sending[c], c2s[c], s2c[c])
  <2>1. PICK now \in Times : doc[c] = Boot(NewDoc, c, now)
    BY DEF Init
  <2>2. BatchesOK(doc[c], c)
    BY <1>1, <1>2, <2>1, ClearedBatches
  <2>3. /\ saved[c] = doc[c] /\ conn[c] = "down" /\ socket[c] = "closed" /\ sending[c] = {}
        /\ c2s[c] = <<>> /\ s2c[c] = <<>>
    BY DEF Init
  <2> QED BY <2>2, <2>3, DownLine
<1> QED BY <1>3 DEF LineInv

-----------------------------------------------------------------------------
(* The acknowledged batch changes nothing *)

\* A batch that is acknowledged is the oldest one pending.
LEMMA AckedIsOldest ==
  ASSUME NEW c, NEW d \in Replica, NEW cn, NEW sk, NEW up \in Seq(ClientFrame),
         NEW down \in Seq(Frame), NEW h, h.todo = {}, down # <<>>, down[1].t = "ack",
         FlightOK(d, cn, sk, {}, up, down, h), InLine(d, c, {}, up, down),
         NEW b \in d.pending, b.batch = down[1].batch, NEW x \in d.pending
  PROVE  b.batch <= x.batch
<1>1. b.batch \in Nat /\ x.batch \in Nat
  BY DEF Replica, Batch, Hlc
<1>2. 1 \in DOMAIN down /\ b.batch \in AckIds(down)
  <2>1. 1 \in DOMAIN down
    OBVIOUS
  <2> QED BY <2>1 DEF AckIds
<1>3. CASE ~x.inFlight
  <2>1. x.batch \in Ids(Pushable(d))
    BY <1>3 DEF Ids, Pushable
  <2>2. b.batch < x.batch
    BY <1>2, <2>1 DEF InLine, Before
  <2> QED BY <1>1, <2>2
<1>4. CASE x.inFlight
  <2>1. Flying(x.batch, {}, {}, up, down)
    BY <1>4 DEF FlightOK
  <2>2. CASE x.batch \in PushIds(up)
    <3>1. b.batch < x.batch
      BY <1>2, <2>2 DEF InLine, Before
    <3> QED BY <1>1, <3>1
  <2>3. ASSUME NEW i \in DOMAIN down, down[i].t = "ack", down[i].batch = x.batch
        PROVE  b.batch <= x.batch
    <3>1. i = 1 \/ 1 < i
      OBVIOUS
    <3>2. 1 < i => b.batch < x.batch
      BY <1>2, <2>3 DEF InLine, AcksInOrder
    <3> QED BY <1>1, <2>3, <3>1, <3>2
  <2>4. \/ x.batch \in PushIds(up)
        \/ \E i \in DOMAIN down : down[i].t = "ack" /\ down[i].batch = x.batch
    BY <2>1 DEF Flying, PushIds
  <2> QED BY <2>2, <2>3, <2>4
<1>5. x.inFlight \in BOOLEAN
  BY DEF Replica, Batch
<1> QED BY <1>3, <1>4

\* What is displayed depends on the rows and the batches alone.
LEMMA SameOverlay ==
  ASSUME NEW d, NEW e, NEW k, e.auth = d.auth, e.pending = d.pending
  PROVE  OverlayRow(e, k) = OverlayRow(d, k)
BY DEF OverlayRow

\* Retiring it changes no row.
LEMMA AckQuiet ==
  ASSUME NEW c, NEW d \in Replica, NEW cn, NEW sk, NEW up \in Seq(ClientFrame),
         NEW down \in Seq(Frame), NEW h, h.todo = {}, down # <<>>, down[1].t = "ack",
         FlightOK(d, cn, sk, {}, up, down, h), LineOK(d, c, cn, {}, up, down),
         NEW k \in Keys
  PROVE  OverlayRow(AckBatch(d, down[1].batch), k) = OverlayRow(d, k)
<1> DEFINE e == AckBatch(d, down[1].batch)
<1>1. e.auth = d.auth /\ e.pending = {b \in d.pending : b.batch # down[1].batch}
  BY DEF AckBatch, Replica
<1> HIDE DEF e
<1>2. CASE \A b \in d.pending : b.batch # down[1].batch
  <2>1. e.pending = d.pending
    BY <1>1, <1>2
  <2> QED BY <1>1, <2>1, SameOverlay DEF e
<1>3. ASSUME NEW b \in d.pending, b.batch = down[1].batch
      PROVE  OverlayRow(e, k) = OverlayRow(d, k)
  <2>1. Numbered(d.pending)
    BY DEF LineOK, BatchesOK
  <2>2. e.pending = d.pending \ {b}
    BY <1>1, <1>3, <2>1 DEF Numbered
  <2>3. InLine(d, c, {}, up, down)
    BY DEF LineOK
  <2>4. \A x \in d.pending : b.batch <= x.batch
    BY <1>3, <2>3, AckedIsOldest
  <2>5. ~Changed(d.auth[k], b.ops[k])
    <3>1. 1 \in DOMAIN down /\ 0 \in 0 .. 1 - 1 /\ 1 - 1 = 0
      OBVIOUS
    <3>2. Source(down, 1 - 1, k, 0) /\ RowFrom(d, down, 0, k) = d.auth[k]
      BY DEF Source, RowFrom
    <3>3. AcksQuiet(d, down)
      BY DEF LineOK
    <3>4. ~Changed(RowFrom(d, down, 0, k), b.ops[k])
      BY <1>3, <3>1, <3>2, <3>3 DEF AcksQuiet
    <3> QED BY <3>2, <3>4
  <2> QED BY <1>1, <2>1, <2>2, <2>4, <2>5, DropOldest
<1> QED BY <1>2, <1>3 DEF e

\* NoFlicker.  The room sends a push's rows before its ack (registry-room.ts)
\* so that a device can drop its own copy of the batch when it reads the ack
\* (registry.rs, ack_batch) and display the same rows as before.  It does, for
\* however many batches, rows and devices, after any disconnect, crash,
\* replayed push or refusal, and whatever the alarm purged, as long as the
\* frames of a socket arrive in order and none is lost.
THEOREM AcksDoNotFlicker ==
  ASSUME ~HasTransport, MaxResets = 0, ~Lossy
  PROVE  Spec => NoFlicker
<1> DEFINE Inv == TypeOK /\ CursorInv /\ GhostInv /\ FlightInv /\ LineInv
<1>1. Init => CursorInv /\ GhostInv /\ FlightInv /\ LineInv
  BY InitCursor, InitGhost, InitFlight, InitLine
<1>2. TypeOK /\ TypeOK' /\ CursorInv /\ GhostInv /\ FlightInv /\ LineInv /\ [Next]_vars
        => CursorInv' /\ GhostInv' /\ FlightInv' /\ LineInv'
  BY CursorStep, GhostStep, FlightStep, LineStep
<1>3. ASSUME Inv, NEW c \in Devices, RecvAck(c), NEW k \in Keys
      PROVE  OverlayRow(doc'[c], k) = OverlayRow(doc[c], k)
  <2>1. /\ doc[c] \in Replica /\ c2s[c] \in Seq(ClientFrame) /\ s2c[c] \in Seq(Frame)
        /\ doc \in [Devices -> Replica]
    BY <1>3 DEF TypeOK
  <2>2. /\ FlightOK(doc[c], conn[c], socket[c], sending[c], c2s[c], s2c[c], http[c])
        /\ LineOK(doc[c], c, conn[c], sending[c], c2s[c], s2c[c])
        /\ http[c].ph = "idle"
    BY <1>3 DEF FlightInv, LineInv, DeviceLine, CursorInv
  <2>3. conn[c] = "up" /\ s2c[c] # <<>> /\ s2c[c][1].t = "ack"
    BY <1>3, <2>1 DEF RecvAck
  <2>4. sending[c] = {} /\ http[c].todo = {}
    BY <2>2, <2>3 DEF FlightOK
  <2>5. doc'[c] = AckBatch(doc[c], s2c[c][1].batch)
    BY <1>3, <2>1 DEF RecvAck
  <2>6. FlightOK(doc[c], conn[c], socket[c], {}, c2s[c], s2c[c], http[c])
    BY <2>2, <2>4
  <2>7. LineOK(doc[c], c, conn[c], {}, c2s[c], s2c[c])
    BY <2>2, <2>4
  <2> QED BY <2>1, <2>3, <2>4, <2>5, <2>6, <2>7, AckQuiet
<1>4. TypeOK /\ CursorInv /\ GhostInv /\ FlightInv /\ LineInv =>
        [\A c \in Devices : RecvAck(c) =>
           \A k \in Keys : LET before == OverlayRow(doc[c], k)
                               after  == OverlayRow(doc'[c], k)
                           IN  /\ (before.st = "live") = (after.st = "live")
                               /\ before.st = "live" => before.fields = after.fields]_vars
  BY <1>3
<1> QED BY <1>1, <1>2, <1>4, TypeCorrect, PTL DEF Spec, NoFlicker
=============================================================================
