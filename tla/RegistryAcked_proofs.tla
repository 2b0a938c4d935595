------------------------ MODULE RegistryAcked_proofs ------------------------
(***************************************************************************)
(* What a device was told was accepted, the room bears out for good:       *)
(* AckedHeld, proved for every number of devices and rows, with or without *)
(* the HTTPS cycle, for every loss, replay and purge, in a system that     *)
(* neither wipes its room nor loses a replica.  Both are needed: a wiped   *)
(* room has nothing to show, and a replica that restarts from an old       *)
(* snapshot may give two batches the same id.                              *)
(*                                                                         *)
(* The argument.  Every clock is a fresh tick of one device, so the clocks *)
(* of deletes and the clocks of writes are two disjoint sets.  Every row   *)
(* anywhere, in the room, in a replica, in a frame, is one whose           *)
(* re-creation the room bears out already, so a re-seed tells the room     *)
(* nothing new.  Every other operation anywhere is plain: one clock, and   *)
(* an upsert that writes.  Merging such operations never takes back what   *)
(* the room has borne out, and a purge takes back only what is older than  *)
(* its horizon.                                                            *)
(***************************************************************************)
EXTENDS RegistrySync_proofs

-----------------------------------------------------------------------------
(* The inductive invariant *)

\* What the invariant is relative to: the room's rows, the newest horizon, and
\* two sets of clocks, those of deletes and those of writes.
World(rows, h, D, W) == [rows |-> rows, h |-> h, del |-> D, wr |-> W]

\* The room bears out an operation, or it is older than the purged tombstones.
Held(w, k, op) == Holds(w.rows[k], op) \/ op.hlc < w.h

\* An operation with one clock; if an upsert, it writes something.
Plain(op) ==
  /\ op.clocks = NoClocks
  /\ op.op = "upsert" => op.set # NoSet

\* An operation somewhere in the system.
OpGood(w, k, op) ==
  /\ op \in Op
  /\ op.op = "delete" => op.hlc \in w.del
  /\ op.op # "delete" => \A f \in Fields : op.set[f] # Unset => ClockFor(op, f) \in w.wr
  /\ Plain(op) \/ Held(w, k, op)

\* A row as merges make them: its clocks are clocks that were given, and a field
\* with a value has one.
RowSound(w, x) ==
  /\ WellFormed(x)
  /\ x.delHlc \in w.del \union {NoHlc}
  /\ \A f \in Fields : x.clocks[f] \in w.wr \union {NoHlc}
  /\ \A f \in Fields : x.fields[f] # Null => x.clocks[f] # NoHlc

\* A row somewhere in the system.
RowGood(w, k, x) == RowSound(w, x) /\ Held(w, k, RowToSeedOp(x))

TableGood(w, t) == \A k \in Keys : RowGood(w, k, t[k])

\* A row that was revived has a field newer than the delete it outlived.
Revived(w, r) ==
  r.st = "live" /\ r.delHlc # NoHlc =>
    (\E f \in Fields : r.clocks[f] > r.delHlc) \/ r.delHlc < w.h

WorldOK(w) ==
  /\ w.rows \in [Keys -> Row] /\ w.h \in Nat
  /\ w.del \subseteq Nat /\ w.wr \subseteq Nat /\ w.del \intersect w.wr = {}
  /\ TableGood(w, w.rows)
  /\ \A k \in Keys : Revived(w, w.rows[k])

\* Device c will never stamp x again.
Spent(clock, c, x) == \A n \in Nat : n > Index(clock) => Nth(n, c) # x

\* A batch of device c somewhere in the system: two with one id are one batch.
BatchGood(w, c, d, b) ==
  /\ \A k \in Keys : OpGood(w, k, b.ops[k])
  /\ Spent(d.clock, c, b.batch)
  /\ \A p \in d.pending : p.batch = b.batch => p.ops = b.ops

\* An ack on its way to device c: the room bears out the batch it retires.
AckGood(w, c, d, id) ==
  /\ Spent(d.clock, c, id)
  /\ \A p \in d.pending : p.batch = id => \A k \in Keys : Held(w, k, p.ops[k])

DocGood(w, c, d) ==
  /\ d.clock.counter <= MaxCounter
  /\ TableGood(w, d.auth)
  /\ \A b \in d.pending : BatchGood(w, c, d, b)

UpGood(w, c, d, up) ==
  \A i \in DOMAIN up : up[i].t = "push" => BatchGood(w, c, d, up[i].push)

DownGood(w, c, d, down) ==
  \A i \in DOMAIN down : IF down[i].t = "ack" THEN AckGood(w, c, d, down[i].batch)
                                              ELSE TableGood(w, down[i].rows)

CycleGood(w, c, d, h) ==
  /\ \A b \in h.todo : BatchGood(w, c, d, b)
  /\ h.ph = "acking" => AckGood(w, c, d, Oldest(h.todo).batch)
  /\ TableGood(w, h.answer.rows)

DeviceHeld(w, c, d, out, up, down, h) ==
  /\ DocGood(w, c, d)
  /\ \A b \in out : BatchGood(w, c, d, b)
  /\ UpGood(w, c, d, up)
  /\ DownGood(w, c, d, down)
  /\ CycleGood(w, c, d, h)

LateGood(w, S) == \A b \in S : \A k \in Keys : OpGood(w, k, b.ops[k])

HeldFor(w) ==
  /\ WorldOK(w)
  /\ \A x \in w.del \union w.wr : \A c \in Devices : Spent(doc[c].clock, c, x)
  /\ \A c \in Devices : DeviceHeld(w, c, doc[c], sending[c], c2s[c], s2c[c], http[c])
  /\ LateGood(w, late)
  /\ \A a \in acked : Held(w, a.key, a)

HeldInv == \E D, W \in SUBSET Nat : HeldFor(World(room.rows, horizon, D, W))

-----------------------------------------------------------------------------
(* The clocks of one device are its own, and go forward *)

\* encodeHlc: two devices never give the same clock, and one device never
\* gives the same clock twice.
LEMMA NthUnique ==
  ASSUME NEW c \in Devices, NEW e \in Devices, NEW n \in Nat, NEW i \in Nat,
         Nth(n, c) = Nth(i, e)
  PROVE  n = i /\ c = e
<1>0. /\ NumDevices \in Nat /\ c \in Nat /\ e \in Nat /\ c < NumDevices /\ e < NumDevices
      /\ n * NumDevices \in Nat /\ i * NumDevices \in Nat
  BY CoreAssumption DEF Devices
<1>1. n * NumDevices + c = i * NumDevices + e
  BY DEF Nth
<1>2. CASE n < i
  <2>1. n * NumDevices + NumDevices <= i * NumDevices
    BY <1>0, <1>2, Multiples
  <2> QED BY <1>0, <1>1, <2>1
<1>3. CASE i < n
  <2>1. i * NumDevices + NumDevices <= n * NumDevices
    BY <1>0, <1>3, Multiples
  <2> QED BY <1>0, <1>1, <2>1
<1>4. CASE n = i
  BY <1>0, <1>1, <1>4
<1> QED BY <1>2, <1>3, <1>4

\* A stamp that was given is spent, for its device and every other.
LEMMA GivenSpent ==
  ASSUME NEW c \in Devices, NEW e \in Devices, NEW n \in Nat,
         NEW clock \in Clock, e = c => n <= Index(clock)
  PROVE  Spent(clock, e, Nth(n, c))
<1> SUFFICES ASSUME NEW i \in Nat, i > Index(clock), Nth(i, e) = Nth(n, c)
             PROVE  FALSE
  BY DEF Spent
<1>1. i = n /\ e = c
  BY NthUnique
<1> QED BY <1>1, StampNth

\* What is spent stays spent.
LEMMA SpentLater ==
  ASSUME NEW old \in Clock, NEW new \in Clock, Index(new) >= Index(old),
         NEW c \in Devices, NEW x, Spent(old, c, x)
  PROVE  Spent(new, c, x)
  BY StampNth DEF Spent

-----------------------------------------------------------------------------
(* Merging good operations *)

\* The clock and set of a written field.
LEMMA OpClocks ==
  ASSUME NEW op \in Op
  PROVE  /\ op.hlc \in Nat
         /\ \A f \in Fields : ClockFor(op, f) \in Nat
         /\ Plain(op) => \A f \in Fields : ClockFor(op, f) = op.hlc
         /\ Plain(op) /\ op.op = "upsert" => \E f \in Fields : op.set[f] # Unset
<1>1. op.hlc \in Nat /\ \A f \in Fields : ClockFor(op, f) \in Nat
  BY ClockForType DEF Op, Hlc
<1>2. Plain(op) => \A f \in Fields : ClockFor(op, f) = op.hlc
  BY DEF Plain, NoClocks, ClockFor
<1>3. ASSUME op.set # NoSet PROVE \E f \in Fields : op.set[f] # Unset
  BY <1>3 DEF Op, NoSet
<1> QED BY <1>1, <1>2, <1>3 DEF Plain

\* What a merge leaves, field by field.
LEMMA Written ==
  ASSUME NEW row \in Row, NEW op \in Op, op.op # "delete", Changed(row, op)
  PROVE  LET x == ApplyOp(row, op)
         IN  /\ x \in Row /\ x.st = "live" /\ x.delHlc = row.delHlc
             /\ \A f \in Fields :
                  IF FieldWins(row, op, f)
                    THEN x.fields[f] = op.set[f] /\ x.clocks[f] = ClockFor(op, f)
                    ELSE x.fields[f] = row.fields[f] /\ x.clocks[f] = row.clocks[f]
             /\ \A f \in Fields : x.clocks[f] >= row.clocks[f]
<1> DEFINE x == WriteFields(row, op)
<1>1. ApplyOp(row, op) = x /\ x \in Row
  BY WriteFieldsType DEF ApplyOp
<1>2. x.st = "live" /\ x.delHlc = row.delHlc
  BY DEF WriteFields, Row
<1>3. \A f \in Fields : x.fields[f] = IF FieldWins(row, op, f) THEN op.set[f] ELSE row.fields[f]
  BY DEF WriteFields, Row
<1>4. \A f \in Fields : x.clocks[f] = IF FieldWins(row, op, f) THEN ClockFor(op, f) ELSE row.clocks[f]
  BY DEF WriteFields, Row
<1>5. ASSUME NEW f \in Fields PROVE x.clocks[f] >= row.clocks[f]
  <2>1. row.clocks[f] \in Nat \union {-1} /\ ClockFor(op, f) \in Nat
    BY OpClocks DEF Row, Hlc, NoHlc
  <2>2. FieldWins(row, op, f) => ClockFor(op, f) > row.clocks[f]
    BY DEF FieldWins, HlcNewer
  <2> HIDE DEF x
  <2> QED BY <1>4, <2>1, <2>2
<1> HIDE DEF x
<1> QED BY <1>1, <1>2, <1>3, <1>4, <1>5

\* What a delete leaves.
LEMMA Buried ==
  ASSUME NEW row \in Row, NEW op \in Op, op.op = "delete", Changed(row, op)
  PROVE  LET x == ApplyOp(row, op)
         IN  /\ x \in Row /\ x.st = "deleted" /\ x.delHlc = op.hlc
             /\ x.fields = NoFields /\ x.clocks = NoClocks
  BY TombstoneType DEF ApplyOp, Tombstone, Row

\* applyOp makes sound rows.
LEMMA MergeSound ==
  ASSUME NEW w, NEW k \in Keys, NEW row, RowSound(w, row), NEW op, OpGood(w, k, op)
  PROVE  RowSound(w, ApplyOp(row, op))
<1> DEFINE x == ApplyOp(row, op)
<1> SUFFICES RowSound(w, x)
  OBVIOUS
<1>1. row \in Row /\ op \in Op /\ WellFormed(x)
  BY ApplyOpWellFormed DEF RowSound, OpGood, WellFormed
<1>2. CASE ~Changed(row, op)
  BY <1>2 DEF ApplyOp
<1>3. CASE Changed(row, op) /\ op.op = "delete"
  <2>1. x.delHlc = op.hlc /\ x.fields = NoFields /\ x.clocks = NoClocks
    BY <1>1, <1>3, Buried
  <2> HIDE DEF x
  <2> QED BY <1>1, <1>3, <2>1 DEF RowSound, OpGood, NoFields, NoClocks
<1>4. CASE Changed(row, op) /\ op.op # "delete"
  <2>1. /\ x.delHlc = row.delHlc
        /\ \A f \in Fields :
             IF FieldWins(row, op, f)
               THEN x.fields[f] = op.set[f] /\ x.clocks[f] = ClockFor(op, f)
               ELSE x.fields[f] = row.fields[f] /\ x.clocks[f] = row.clocks[f]
    BY <1>1, <1>4, Written
  <2>2. \A f \in Fields : FieldWins(row, op, f) => ClockFor(op, f) \in w.wr
    BY <1>4 DEF FieldWins, OpGood
  <2>3. \A f \in Fields : ClockFor(op, f) # NoHlc
    BY <1>1, OpClocks DEF NoHlc
  <2> HIDE DEF x
  <2>4. \A f \in Fields : x.clocks[f] \in w.wr \union {NoHlc}
    BY <2>1, <2>2 DEF RowSound
  <2>5. \A f \in Fields : x.fields[f] # Null => x.clocks[f] # NoHlc
    BY <2>1, <2>3 DEF RowSound
  <2> QED BY <1>1, <2>1, <2>4, <2>5 DEF RowSound
<1> QED BY <1>2, <1>3, <1>4

\* What the shapes of a row say about its clocks.
LEMMA ShapeClocks ==
  ASSUME NEW row, WellFormed(row)
  PROVE  /\ row \in Row
         /\ AllClocks(row) \subseteq Nat \union {-1}
         /\ row.st = "missing" => AllClocks(row) = {-1}
         /\ row.st = "deleted" => /\ \A g \in AllClocks(row) : g = row.delHlc \/ g = -1
                                  /\ \A f \in Fields : row.clocks[f] = -1
                                  /\ row.delHlc \in Nat
<1>1. row \in Row /\ AllClocks(row) \subseteq Nat \union {-1}
  BY DEF WellFormed, Row, AllClocks, Hlc, NoHlc
<1>2. row.st = "missing" => AllClocks(row) = {-1}
  BY DEF WellFormed, NoRow, NoClocks, NoHlc, AllClocks
<1>3. ASSUME row.st = "deleted"
      PROVE  /\ \A g \in AllClocks(row) : g = row.delHlc \/ g = -1
             /\ \A f \in Fields : row.clocks[f] = -1
             /\ row.delHlc \in Nat
  <2>1. \A f \in Fields : row.clocks[f] = -1
    BY <1>3 DEF WellFormed, NoClocks, NoHlc
  <2>2. row.delHlc \in Nat
    BY <1>1, <1>3 DEF WellFormed, NoHlc, AllClocks
  <2> QED BY <2>1, <2>2 DEF AllClocks
<1> QED BY <1>1, <1>2, <1>3

\* A revival leaves a field newer than the delete it outlives.
LEMMA MergeRevives ==
  ASSUME NEW w, w.h \in Nat, NEW k \in Keys, w.rows[k].st = "deleted", RowSound(w, w.rows[k]),
         NEW op, OpGood(w, k, op), op.op # "delete", Changed(w.rows[k], op)
  PROVE  \/ \E f \in Fields : ApplyOp(w.rows[k], op).clocks[f] > w.rows[k].delHlc
         \/ w.rows[k].delHlc < w.h
<1> DEFINE r == w.rows[k]
           x == ApplyOp(r, op)
<1>1. /\ r \in Row /\ op \in Op /\ r.delHlc \in Nat /\ \A f \in Fields : r.clocks[f] = -1
      /\ \A g \in AllClocks(r) : g = r.delHlc \/ g = -1
  BY ShapeClocks DEF RowSound, OpGood
<1>2. op.op = "upsert" /\ op.hlc > r.delHlc /\ op.hlc \in Nat
  BY <1>1, OpClocks DEF Changed, Writable, HlcNewer, Op
<1>3. CASE Plain(op)
  <2>1. PICK f \in Fields : op.set[f] # Unset
    BY <1>1, <1>2, <1>3, OpClocks
  <2>2. ClockFor(op, f) = op.hlc
    BY <1>1, <1>3, OpClocks
  <2>3. FieldWins(r, op, f)
    BY <1>1, <1>2, <2>1, <2>2 DEF FieldWins, HlcNewer
  <2>4. x.clocks[f] = op.hlc
    BY <1>1, <1>2, <2>2, <2>3, Written
  <2> QED BY <1>2, <2>4
<1>4. CASE Held(w, k, op)
  <2>1. ~Holds(r, op)
    BY <1>1, <1>2 DEF Holds, Reaches
  <2> QED BY <1>1, <1>2, <1>4, <2>1 DEF Held
<1> QED BY <1>3, <1>4 DEF OpGood

\* A merge takes back nothing the room bore out.
LEMMA MergeKeeps ==
  ASSUME NEW w, w.h \in Nat, NEW k \in Keys, RowSound(w, w.rows[k]),
         NEW op, OpGood(w, k, op), NEW a, a.hlc \in Nat, Held(w, k, a)
  PROVE  Holds(ApplyOp(w.rows[k], op), a) \/ a.hlc < w.h
<1> DEFINE r == w.rows[k]
           x == ApplyOp(r, op)
<1>1. WellFormed(r) /\ r \in Row /\ op \in Op /\ op.hlc \in Nat /\ WellFormed(x) /\ x \in Row
  BY ApplyOpWellFormed, OpClocks DEF RowSound, OpGood, WellFormed
<1>2. SUFFICES ASSUME Holds(r, a), ~(a.hlc < w.h), Changed(r, op) PROVE Holds(x, a)
  BY DEF Held, ApplyOp
<1>3. CASE a.op = "upsert"
  <2>1. PICK h \in AllClocks(r) : h >= a.hlc
    BY <1>2, <1>3 DEF Holds, Reaches
  <2>2. PICK g \in AllClocks(x) : g >= h
    BY <1>1, ClocksMoveForward
  <2>3. g \in Nat \union {-1} /\ h \in Nat \union {-1}
    BY <1>1, ShapeClocks
  <2>4. g >= a.hlc
    BY <2>1, <2>2, <2>3
  <2> HIDE DEF x
  <2> QED BY <1>3, <2>4 DEF Holds, Reaches
<1>4. CASE a.op = "delete"
  <2>1. CASE op.op = "delete"
    <3>1. x.st = "deleted" /\ x.delHlc = op.hlc
      BY <1>1, <1>2, <2>1, Buried
    <3>2. CASE r.st = "deleted"
      <4>1. r.delHlc >= a.hlc /\ r.delHlc \in Nat
        BY <1>1, <1>2, <1>4, <3>2, ShapeClocks DEF Holds
      <4>2. op.hlc > r.delHlc
        BY <1>2, <2>1, <3>2 DEF Changed, DeleteBeats, HlcNewer
      <4>3. op.hlc >= a.hlc
        BY <1>1, <4>1, <4>2
      <4> HIDE DEF x
      <4> QED BY <1>4, <3>1, <4>3 DEF Holds
    <3>3. CASE r.st # "deleted"
      <4>1. PICK f \in Fields : r.clocks[f] > a.hlc
        BY <1>2, <1>4, <3>3 DEF Holds
      <4>2. r.st = "live" /\ r.clocks[f] \in AllClocks(r)
        BY <1>2, <1>4, <3>3 DEF Holds, AllClocks
      <4>3. op.hlc > r.clocks[f]
        BY <1>2, <2>1, <4>2 DEF Changed, DeleteBeats, HlcNewer
      <4>4. r.clocks[f] \in Nat \union {-1}
        BY <1>1, <4>2, ShapeClocks
      <4>5. op.hlc >= a.hlc
        BY <1>1, <4>1, <4>3, <4>4
      <4> HIDE DEF x
      <4> QED BY <1>4, <3>1, <4>5 DEF Holds
    <3> QED BY <3>2, <3>3
  <2>2. CASE op.op # "delete"
    <3>1. x.st = "live" /\ \A f \in Fields : x.clocks[f] >= r.clocks[f]
      BY <1>1, <1>2, <2>2, Written
    <3>t. \A f \in Fields : x.clocks[f] \in Nat \union {-1} /\ r.clocks[f] \in Nat \union {-1}
      BY <1>1, ShapeClocks DEF AllClocks
    <3>2. \E f \in Fields : x.clocks[f] > a.hlc
      <4>1. CASE r.st = "deleted"
        <5>1. r.delHlc >= a.hlc /\ r.delHlc \in Nat
          BY <1>1, <1>2, <1>4, <4>1, ShapeClocks DEF Holds
        <5>2. ~(r.delHlc < w.h)
          BY <1>2, <5>1
        <5>3. \E f \in Fields : x.clocks[f] > r.delHlc
          BY <1>2, <2>2, <4>1, <5>2, MergeRevives
        <5> HIDE DEF x
        <5> QED BY <3>t, <5>1, <5>3
      <4>2. CASE r.st # "deleted"
        <5>1. PICK f \in Fields : r.clocks[f] > a.hlc
          BY <1>2, <1>4, <4>2 DEF Holds
        <5> HIDE DEF x
        <5> QED BY <3>1, <3>t, <5>1
      <4> QED BY <4>1, <4>2
    <3> HIDE DEF x
    <3> QED BY <1>4, <3>1, <3>2 DEF Holds
  <2> QED BY <2>1, <2>2
<1>5. CASE a.op \notin {"upsert", "delete"}
  BY <1>5 DEF Holds
<1> QED BY <1>3, <1>4, <1>5

\* The room bears out what it has just merged.
LEMMA MergeHolds ==
  ASSUME NEW w, w.h \in Nat, w.del \intersect w.wr = {}, NEW k \in Keys,
         RowSound(w, w.rows[k]), Revived(w, w.rows[k]), NEW op, OpGood(w, k, op)
  PROVE  Holds(ApplyOp(w.rows[k], op), op) \/ op.hlc < w.h
<1> DEFINE r == w.rows[k]
           x == ApplyOp(r, op)
<1>1. WellFormed(r) /\ r \in Row /\ op \in Op /\ op.hlc \in Nat
      /\ \A f \in Fields : r.clocks[f] \in Nat \union {-1}
  BY OpClocks, ShapeClocks DEF RowSound, OpGood, AllClocks
<1>2. SUFFICES ASSUME ~(op.hlc < w.h) PROVE Holds(x, op)
  OBVIOUS
<1>3. CASE op.op = "upsert"
  <2>1. CASE ~Plain(op)
    BY <1>1, <1>2, <2>1, MergeKeeps DEF OpGood
  <2>2. CASE Plain(op)
    <3>1. CASE r.st = "deleted" /\ ~Changed(r, op)
      <4>1. r.delHlc >= op.hlc
        BY <1>1, <1>3, <3>1, ShapeClocks DEF Changed, Writable, HlcNewer
      <4>2. x = r /\ r.delHlc \in AllClocks(r)
        BY <3>1 DEF ApplyOp, AllClocks
      <4> QED BY <1>3, <4>1, <4>2 DEF Holds, Reaches
    <3>2. CASE r.st # "deleted" \/ Changed(r, op)
      <4>1. PICK f \in Fields : op.set[f] # Unset
        BY <1>1, <1>3, <2>2, OpClocks
      <4>2. ClockFor(op, f) = op.hlc
        BY <1>1, <2>2, OpClocks
      <4>3. CASE Changed(r, op)
        <5>1. /\ FieldWins(r, op, f) => x.clocks[f] = op.hlc
              /\ ~FieldWins(r, op, f) => x.clocks[f] = r.clocks[f]
          BY <1>1, <1>3, <4>2, <4>3, Written
        <5>2. ~FieldWins(r, op, f) => r.clocks[f] >= op.hlc
          BY <1>1, <4>1, <4>2 DEF FieldWins, HlcNewer
        <5>3. x.clocks[f] >= op.hlc /\ x.clocks[f] \in AllClocks(x)
          BY <1>1, <5>1, <5>2 DEF AllClocks
        <5> HIDE DEF x
        <5> QED BY <1>3, <5>3 DEF Holds, Reaches
      <4>4. CASE ~Changed(r, op)
        <5>1. r.st = "live" /\ ~FieldWins(r, op, f)
          BY <1>1, <1>3, <3>2, <4>4 DEF Changed, Writable, Row
        <5>2. r.clocks[f] >= op.hlc
          BY <1>1, <4>1, <4>2, <5>1 DEF FieldWins, HlcNewer
        <5>3. x = r /\ r.clocks[f] \in AllClocks(r)
          BY <4>4 DEF ApplyOp, AllClocks
        <5> QED BY <1>3, <5>2, <5>3 DEF Holds, Reaches
      <4> QED BY <4>3, <4>4
    <3> QED BY <3>1, <3>2
  <2> QED BY <2>1, <2>2
<1>4. CASE op.op = "delete"
  <2>1. CASE Changed(r, op)
    <3>1. x.st = "deleted" /\ x.delHlc = op.hlc
      BY <1>1, <1>4, <2>1, Buried
    <3> HIDE DEF x
    <3> QED BY <1>1, <1>4, <3>1 DEF Holds
  <2>2. CASE ~Changed(r, op)
    <3>x. x = r
      BY <2>2 DEF ApplyOp
    <3>1. CASE r.st = "deleted"
      <4>1. r.delHlc >= op.hlc
        BY <1>1, <1>4, <2>2, <3>1, ShapeClocks DEF Changed, DeleteBeats, HlcNewer
      <4> QED BY <1>4, <3>x, <3>1, <4>1 DEF Holds
    <3>2. CASE r.st = "live"
      <4>1. PICK g \in AllClocks(r) : ~(op.hlc > g)
        BY <1>4, <2>2, <3>2 DEF Changed, DeleteBeats, HlcNewer
      <4>2. \E f \in Fields : r.clocks[f] > op.hlc
        <5>1. CASE g = r.delHlc
          <6>1. g \in Nat /\ g >= op.hlc
            BY <1>1, <4>1, ShapeClocks
          <6>2. \E f \in Fields : r.clocks[f] > r.delHlc
            BY <1>1, <1>2, <3>2, <5>1, <6>1 DEF Revived, NoHlc
          <6> QED BY <1>1, <5>1, <6>1, <6>2
        <5>2. CASE \E f \in Fields : g = r.clocks[f]
          <6>1. PICK f \in Fields : g = r.clocks[f]
            BY <5>2
          <6>2. g \in Nat /\ g >= op.hlc
            BY <1>1, <4>1, <6>1
          <6>3. g \in w.wr /\ op.hlc \in w.del
            BY <1>4, <6>1, <6>2 DEF RowSound, OpGood, NoHlc
          <6>4. g # op.hlc
            BY <6>3
          <6> QED BY <1>1, <6>1, <6>2, <6>4
        <5> QED BY <4>1, <5>1, <5>2 DEF AllClocks
      <4> QED BY <1>4, <3>x, <3>2, <4>2 DEF Holds
    <3>3. CASE r.st = "missing"
      BY <1>4, <2>2, <3>3 DEF Changed, DeleteBeats
    <3> QED BY <1>1, <3>1, <3>2, <3>3 DEF Row
  <2> QED BY <2>1, <2>2
<1>5. CASE op.op \notin {"upsert", "delete"}
  BY <1>5 DEF Holds
<1> QED BY <1>3, <1>4, <1>5

\* Nor does it leave a live row whose delete is newer than all its fields.
LEMMA MergeRevived ==
  ASSUME NEW w, w.h \in Nat, NEW k \in Keys,
         RowSound(w, w.rows[k]), Revived(w, w.rows[k]), NEW op, OpGood(w, k, op)
  PROVE  Revived(w, ApplyOp(w.rows[k], op))
<1> DEFINE r == w.rows[k]
           x == ApplyOp(r, op)
<1>1. WellFormed(r) /\ r \in Row /\ op \in Op /\ WellFormed(x)
  BY ApplyOpWellFormed DEF RowSound, OpGood, WellFormed
<1>2. SUFFICES ASSUME x.st = "live", x.delHlc # NoHlc, Changed(r, op)
               PROVE  (\E f \in Fields : x.clocks[f] > x.delHlc) \/ x.delHlc < w.h
  BY DEF Revived, ApplyOp
<1>3. op.op # "delete"
  <2>1. op.op = "delete" => x.st = "deleted"
    BY <1>1, <1>2, Buried
  <2> QED BY <1>2, <2>1
<1>4. /\ x.delHlc = r.delHlc
      /\ \A f \in Fields : x.clocks[f] >= r.clocks[f]
  BY <1>1, <1>2, <1>3, Written
<1>t. \A f \in Fields : x.clocks[f] \in Nat \union {-1} /\ r.clocks[f] \in Nat \union {-1}
  BY <1>1, ShapeClocks DEF AllClocks
<1>d. r.delHlc \in Nat \union {-1} /\ r.delHlc # -1
  BY <1>1, <1>2, <1>4, ShapeClocks DEF AllClocks, NoHlc
<1>5. CASE r.st = "live"
  <2>1. (\E f \in Fields : r.clocks[f] > r.delHlc) \/ r.delHlc < w.h
    BY <1>5, <1>d DEF Revived, NoHlc
  <2> HIDE DEF x
  <2> QED BY <1>4, <1>t, <1>d, <2>1
<1>6. CASE r.st = "deleted"
  <2>1. (\E f \in Fields : x.clocks[f] > r.delHlc) \/ r.delHlc < w.h
    BY <1>2, <1>3, <1>6, MergeRevives
  <2> HIDE DEF x
  <2> QED BY <1>4, <2>1
<1>7. CASE r.st = "missing"
  BY <1>1, <1>7, <1>d, ShapeClocks, SMTT(30) DEF AllClocks
<1> QED BY <1>1, <1>5, <1>6, <1>7 DEF Row

\* A row bears out its own re-creation, but for a live row without a clock.
Bare(x) == x.st = "live" /\ \A g \in AllClocks(x) : g = -1

LEMMA SelfHolds ==
  ASSUME NEW x, WellFormed(x)
  PROVE  /\ RowToSeedOp(x) \in Op
         /\ ~Bare(x) => Holds(x, RowToSeedOp(x))
         /\ Bare(x) => ~Holds(x, RowToSeedOp(x)) /\ RowToSeedOp(x).hlc = 0
<1> DEFINE op == RowToSeedOp(x)
<1>1. x \in Row /\ op \in Op /\ AllClocks(x) \subseteq Nat \union {-1}
  BY ShapeClocks, RowToSeedOpType
<1>2. CASE x.st = "missing"
  BY <1>1, <1>2 DEF RowToSeedOp, NoOp, Holds, Bare
<1>3. CASE x.st = "deleted"
  <2>1. op.op = "delete" /\ op.hlc = x.delHlc /\ x.delHlc \in Nat
    BY <1>3, ShapeClocks DEF RowToSeedOp, WellFormed, NoHlc
  <2> HIDE DEF op
  <2> QED BY <1>1, <1>3, <2>1 DEF Holds, Bare, op
<1>4. CASE x.st = "live"
  <2>1. /\ MaxClock(x) \in AllClocks(x) /\ \A g \in AllClocks(x) : MaxClock(x) >= g
    BY <1>1, MaxClockSpec
  <2>2. op.op = "upsert" /\ op.hlc = IF MaxClock(x) # NoHlc THEN MaxClock(x) ELSE 0
    BY <1>4 DEF RowToSeedOp, SeedHlc
  <2>3. Holds(x, op) <=> \E g \in AllClocks(x) : g >= op.hlc
    BY <2>2 DEF Holds, Reaches
  <2> HIDE DEF op
  <2>4. CASE MaxClock(x) = -1
    <3>1. \A g \in AllClocks(x) : g = -1
      BY <1>1, <2>1, <2>4
    <3>2. op.hlc = 0 /\ ~Holds(x, op)
      BY <2>2, <2>3, <2>4, <3>1 DEF NoHlc
    <3> QED BY <1>1, <1>4, <3>1, <3>2 DEF Bare, op
  <2>5. CASE MaxClock(x) # -1
    <3>1. op.hlc = MaxClock(x) /\ MaxClock(x) \in Nat
      BY <1>1, <2>1, <2>2, <2>5 DEF NoHlc
    <3>2. Holds(x, op) /\ ~Bare(x)
      BY <2>1, <2>3, <2>5, <3>1 DEF Bare
    <3> QED BY <1>1, <3>2 DEF op
  <2> QED BY <2>4, <2>5
<1> QED BY <1>1, <1>2, <1>3, <1>4 DEF Row

\* A merge makes a live row without a clock only out of one, or out of a re-seed
\* of what was purged.
LEMMA MergeSelf ==
  ASSUME NEW w, w.h \in Nat, NEW k \in Keys, RowGood(w, k, w.rows[k]),
         NEW op, OpGood(w, k, op)
  PROVE  LET x == ApplyOp(w.rows[k], op)
         IN  Holds(x, RowToSeedOp(x)) \/ RowToSeedOp(x).hlc < w.h
<1> DEFINE r == w.rows[k]
           x == ApplyOp(r, op)
<1>1. /\ WellFormed(r) /\ r \in Row /\ op \in Op /\ WellFormed(x) /\ op.hlc \in Nat
      /\ \A f \in Fields : ClockFor(op, f) \in Nat
  BY ApplyOpWellFormed, OpClocks DEF RowGood, RowSound, OpGood, WellFormed
<1>2. SUFFICES ASSUME Bare(x) PROVE 0 < w.h
  BY <1>1, SelfHolds
<1>3. CASE Bare(r)
  BY <1>1, <1>3, SelfHolds DEF RowGood, Held
<1>4. CASE ~Bare(r)
  <2>1. Changed(r, op) /\ op.op # "delete"
    <3>1. Changed(r, op)
      BY <1>2, <1>4 DEF ApplyOp
    <3>2. op.op = "delete" => x.st = "deleted"
      BY <1>1, <3>1, Buried
    <3> QED BY <1>2, <3>1, <3>2 DEF Bare
  <2>2. /\ x.delHlc = r.delHlc
        /\ \A f \in Fields : x.clocks[f] >= r.clocks[f]
        /\ \A f \in Fields : FieldWins(r, op, f) => x.clocks[f] = ClockFor(op, f)
    BY <1>1, <2>1, Written
  <2>3. x.delHlc = -1 /\ \A f \in Fields : x.clocks[f] = -1
    BY <1>2 DEF Bare, AllClocks
  <2>t. \A f \in Fields : r.clocks[f] \in Nat \union {-1}
    BY <1>1, ShapeClocks DEF AllClocks
  <2> HIDE DEF x
  <2>4. r.delHlc = -1 /\ \A f \in Fields : r.clocks[f] = -1
    BY <2>2, <2>3, <2>t
  <2>5. \A g \in AllClocks(r) : g = -1
    BY <2>4 DEF AllClocks
  <2>6. r.st = "missing"
    BY <1>1, <1>4, <2>4, <2>5, ShapeClocks DEF Bare, Row
  <2>7. op.op = "upsert"
    BY <2>1, <2>6 DEF Changed, Writable
  <2>8. ~Plain(op)
    <3>1. SUFFICES ASSUME NEW f \in Fields, op.set[f] # Unset PROVE FALSE
      BY <1>1, <2>7, OpClocks
    <3>2. FieldWins(r, op, f)
      BY <1>1, <2>4, <3>1 DEF FieldWins, HlcNewer
    <3>3. ClockFor(op, f) = -1
      BY <2>2, <2>3, <3>2
    <3> QED BY <1>1, <3>3
  <2>9. ~Holds(r, op)
    BY <1>1, <2>5, <2>7 DEF Holds, Reaches
  <2> QED BY <1>1, <2>8, <2>9 DEF OpGood, Held
<1> QED BY <1>3, <1>4

-----------------------------------------------------------------------------
(* From one world to the next *)

\* Nothing borne out is taken back, and no clock is forgotten.
Grows(w, v) ==
  /\ w.del \subseteq v.del /\ w.wr \subseteq v.wr
  /\ \A k \in Keys : \A a : a.hlc \in Nat /\ Held(w, k, a) => Held(v, k, a)

\* What was good stays good.
LEMMA GoodGrows ==
  ASSUME NEW w, NEW v, Grows(w, v)
  PROVE  /\ \A k \in Keys : \A op : OpGood(w, k, op) => OpGood(v, k, op)
         /\ \A k \in Keys : \A x : RowGood(w, k, x) => RowGood(v, k, x)
         /\ \A t : TableGood(w, t) => TableGood(v, t)
<1>1. ASSUME NEW k \in Keys, NEW op, OpGood(w, k, op) PROVE OpGood(v, k, op)
  <2>1. op.hlc \in Nat
    BY <1>1, OpClocks DEF OpGood
  <2> QED BY <1>1, <2>1 DEF OpGood, Grows
<1>2. ASSUME NEW k \in Keys, NEW x, RowGood(w, k, x) PROVE RowGood(v, k, x)
  <2>1. RowToSeedOp(x).hlc \in Nat
    BY <1>2, SelfHolds, OpClocks DEF RowGood, RowSound
  <2>2. RowSound(v, x)
    BY <1>2 DEF RowGood, RowSound, Grows
  <2> QED BY <1>2, <2>1, <2>2 DEF RowGood, Grows
<1> QED BY <1>1, <1>2 DEF TableGood

\* New clocks change nothing else.
LEMMA ClocksGrow ==
  ASSUME NEW rows, NEW h, NEW D, NEW W, NEW E \in SUBSET Nat, NEW X \in SUBSET Nat,
         D \subseteq E, W \subseteq X, E \intersect X = {}, WorldOK(World(rows, h, D, W))
  PROVE  /\ Grows(World(rows, h, D, W), World(rows, h, E, X))
         /\ WorldOK(World(rows, h, E, X))
<1> DEFINE w == World(rows, h, D, W)
           v == World(rows, h, E, X)
<1>1. /\ w.rows = rows /\ w.h = h /\ w.del = D /\ w.wr = W
      /\ v.rows = rows /\ v.h = h /\ v.del = E /\ v.wr = X
  BY DEF World
<1> HIDE DEF w, v
<1>2. Grows(w, v)
  BY <1>1 DEF Grows, Held
<1>3. TableGood(v, v.rows)
  BY <1>1, <1>2, GoodGrows DEF w, WorldOK
<1>4. WorldOK(v)
  BY <1>1, <1>3 DEF w, WorldOK, Revived
<1> QED BY <1>2, <1>4 DEF w, v

\* A world grows if each row bears out what it did.
LEMMA RowsGrow ==
  ASSUME NEW w, NEW v, WorldOK(w), v.rows \in [Keys -> Row], v.h \in Nat,
         v.del = w.del, v.wr = w.wr,
         \A k \in Keys : RowSound(v, v.rows[k]) /\ Revived(v, v.rows[k]),
         \A k \in Keys : Held(v, k, RowToSeedOp(v.rows[k])),
         \A k \in Keys : \A a : a.hlc \in Nat /\ Held(w, k, a) => Held(v, k, a)
  PROVE  Grows(w, v) /\ WorldOK(v)
<1>1. Grows(w, v)
  BY DEF Grows
<1>2. TableGood(v, v.rows)
  BY DEF TableGood, RowGood
<1> QED BY <1>1, <1>2 DEF WorldOK

\* The seq of a row says nothing of its clocks.
LEMMA SeqAside ==
  ASSUME NEW x \in Row, NEW n \in Nat
  PROVE  LET y == [x EXCEPT !.seq = n]
         IN  /\ y.st = x.st /\ y.delHlc = x.delHlc /\ y.fields = x.fields /\ y.clocks = x.clocks
             /\ AllClocks(y) = AllClocks(x)
             /\ RowToSeedOp(y) = RowToSeedOp(x)
             /\ \A a : Holds(y, a) = Holds(x, a)
             /\ \A w : RowSound(w, x) /\ Exists(x) => RowSound(w, y)
             /\ \A w : Revived(w, y) = Revived(w, x)
<1> DEFINE y == [x EXCEPT !.seq = n]
<1>1. y \in Row /\ y.st = x.st /\ y.delHlc = x.delHlc /\ y.fields = x.fields /\ y.clocks = x.clocks
  BY DEF Row
<1> HIDE DEF y
<1>2. AllClocks(y) = AllClocks(x)
  BY <1>1 DEF AllClocks
<1>3. RowToSeedOp(y) = RowToSeedOp(x)
  BY <1>1, <1>2 DEF RowToSeedOp, MaxClock
<1>4. \A a : Holds(y, a) = Holds(x, a)
  BY <1>1, <1>2 DEF Holds, Reaches
<1>5. \A w : RowSound(w, x) /\ Exists(x) => RowSound(w, y)
  BY <1>1 DEF RowSound, WellFormed, Exists
<1>6. \A w : Revived(w, y) = Revived(w, x)
  BY <1>1 DEF Revived
<1> QED BY <1>1, <1>2, <1>3, <1>4, <1>5, <1>6 DEF y

\* A row that is not there is good.
LEMMA NoRowGood ==
  ASSUME NEW w
  PROVE  /\ \A k : RowGood(w, k, NoRow)
         /\ Revived(w, NoRow)
         /\ \A k : OpGood(w, k, NoOp)
<1>1. RowSound(w, NoRow) /\ Revived(w, NoRow)
  BY ConstantTypes DEF RowSound, Revived, WellFormed, NoRow, NoFields, NoClocks
<1>2. RowToSeedOp(NoRow) = NoOp /\ \A r : Holds(r, NoOp)
  BY DEF RowToSeedOp, NoRow, NoOp, Holds
<1>3. \A k : OpGood(w, k, NoOp)
  BY ConstantTypes DEF OpGood, NoOp, Plain, NoSet
<1> QED BY <1>1, <1>2, <1>3 DEF RowGood, Held

\* applyPushBatch: the room bears out the batch, and all it did before.
LEMMA PushGrows ==
  ASSUME NEW r \in Room, NEW h, NEW D, NEW W, WorldOK(World(r.rows, h, D, W)),
         NEW ops \in [Keys -> Op], \A k \in Keys : OpGood(World(r.rows, h, D, W), k, ops[k])
  PROVE  LET w == World(r.rows, h, D, W)
             v == World(ApplyPushBatch(r, ops).rows, h, D, W)
         IN  /\ Grows(w, v) /\ WorldOK(v)
             /\ \A k \in Keys : Held(v, k, ops[k])
             /\ TableGood(v, MergedRows(r, ops))
<1> DEFINE w == World(r.rows, h, D, W)
           v == World(ApplyPushBatch(r, ops).rows, h, D, W)
<1>1. /\ w.rows = r.rows /\ w.h = h /\ w.del = D /\ w.wr = W
      /\ v.rows = ApplyPushBatch(r, ops).rows /\ v.h = h /\ v.del = D /\ v.wr = W
  BY DEF World
<1>w. WorldOK(w) /\ \A k \in Keys : OpGood(w, k, ops[k])
  OBVIOUS
<1>2. ApplyPushBatch(r, ops) \in Room /\ r.seq + 1 \in Nat
  BY ApplyPushBatchType DEF Room
<1> HIDE DEF w, v
<1>3. ASSUME NEW k \in Keys
      PROVE  \/ v.rows[k] = ApplyOp(w.rows[k], ops[k])
             \/ /\ v.rows[k] = [ApplyOp(w.rows[k], ops[k]) EXCEPT !.seq = r.seq + 1]
                /\ Changed(w.rows[k], ops[k])
  BY <1>1 DEF ApplyPushBatch, Touched, ApplyOp, Room
<1>4. ASSUME NEW k \in Keys
      PROVE  /\ RowSound(v, v.rows[k]) /\ Revived(v, v.rows[k])
             /\ Held(v, k, RowToSeedOp(v.rows[k]))
             /\ Held(v, k, ops[k])
             /\ \A a : a.hlc \in Nat /\ Held(w, k, a) => Held(v, k, a)
  <2> DEFINE x == ApplyOp(w.rows[k], ops[k])
  <2>1. /\ w.h \in Nat /\ RowGood(w, k, w.rows[k]) /\ RowSound(w, w.rows[k])
        /\ Revived(w, w.rows[k]) /\ OpGood(w, k, ops[k]) /\ w.del \intersect w.wr = {}
    BY <1>w DEF WorldOK, TableGood, RowGood
  <2>2. RowSound(w, x) /\ Revived(w, x) /\ x \in Row
    BY <2>1, MergeSound, MergeRevived, SMTT(30) DEF RowSound, WellFormed
  <2>3. Holds(x, ops[k]) \/ ops[k].hlc < w.h
    BY <2>1, MergeHolds
  <2>4. Holds(x, RowToSeedOp(x)) \/ RowToSeedOp(x).hlc < w.h
    BY <2>1, MergeSelf
  <2>5. ASSUME NEW a, a.hlc \in Nat, Held(w, k, a) PROVE Holds(x, a) \/ a.hlc < w.h
    BY <2>1, <2>5, MergeKeeps
  <2>6. Changed(w.rows[k], ops[k]) => Exists(x)
    BY <2>1, ApplyOpExists DEF RowSound, WellFormed, OpGood
  <2>x. \/ v.rows[k] = x
        \/ v.rows[k] = [x EXCEPT !.seq = r.seq + 1] /\ Exists(x)
    BY <1>3, <2>6
  <2> HIDE DEF x
  <2>7. /\ RowSound(w, v.rows[k]) /\ Revived(w, v.rows[k])
        /\ RowToSeedOp(v.rows[k]) = RowToSeedOp(x)
        /\ \A a : Holds(v.rows[k], a) = Holds(x, a)
    <3>1. CASE v.rows[k] = x
      BY <2>2, <3>1
    <3>2. CASE v.rows[k] = [x EXCEPT !.seq = r.seq + 1] /\ Exists(x)
      BY <1>2, <2>2, <3>2, SeqAside
    <3> QED BY <2>x, <3>1, <3>2
  <2>8. RowSound(v, v.rows[k]) /\ Revived(v, v.rows[k])
    BY <1>1, <2>7 DEF RowSound, Revived
  <2> QED BY <1>1, <2>3, <2>4, <2>5, <2>7, <2>8 DEF Held
<1>5. Grows(w, v) /\ WorldOK(v)
  <2>1. v.rows \in [Keys -> Row] /\ v.h \in Nat
    BY <1>1, <1>2, <1>w DEF Room, WorldOK
  <2> QED BY <1>1, <1>w, <1>4, <2>1, RowsGrow
<1>6. TableGood(v, MergedRows(r, ops))
  <2>1. \A k \in Keys : MergedRows(r, ops)[k] = v.rows[k] \/ MergedRows(r, ops)[k] = NoRow
    BY <1>1 DEF MergedRows
  <2>2. TableGood(v, v.rows)
    BY <1>5 DEF WorldOK
  <2> QED BY <2>1, <2>2, NoRowGood DEF TableGood
<1> QED BY <1>4, <1>5, <1>6 DEF w, v

\* The purge takes back only what is older than its horizon.
LEMMA PurgeGrows ==
  ASSUME NEW r \in Room, NEW h \in Nat, NEW D, NEW W, WorldOK(World(r.rows, h, D, W)),
         NEW s \in Room, NEW g \in Nat, g >= h,
         \A k \in Keys : \/ s.rows[k] = r.rows[k]
                         \/ s.rows[k] = NoRow /\ r.rows[k].st = "deleted" /\ r.rows[k].delHlc < g
  PROVE  LET w == World(r.rows, h, D, W)
             v == World(s.rows, g, D, W)
         IN  Grows(w, v) /\ WorldOK(v)
<1> DEFINE w == World(r.rows, h, D, W)
           v == World(s.rows, g, D, W)
<1>1. /\ w.rows = r.rows /\ w.h = h /\ w.del = D /\ w.wr = W
      /\ v.rows = s.rows /\ v.h = g /\ v.del = D /\ v.wr = W
  BY DEF World
<1>w. WorldOK(w)
  OBVIOUS
<1> HIDE DEF w, v
<1>2. ASSUME NEW k \in Keys, NEW a, a.hlc \in Nat, Held(w, k, a) PROVE Held(v, k, a)
  <2>1. CASE s.rows[k] = r.rows[k]
    BY <1>1, <1>2, <2>1 DEF Held
  <2>2. CASE s.rows[k] = NoRow /\ r.rows[k].st = "deleted" /\ r.rows[k].delHlc < g
    <3>1. /\ r.rows[k].delHlc \in Nat
          /\ \A x \in AllClocks(r.rows[k]) : x = r.rows[k].delHlc \/ x = -1
      BY <1>1, <1>w, <2>2, ShapeClocks DEF WorldOK, TableGood, RowGood, RowSound
    <3>2. Holds(r.rows[k], a) /\ a.op \in {"upsert", "delete"} => r.rows[k].delHlc >= a.hlc
      BY <1>2, <2>2, <3>1 DEF Holds, Reaches
    <3>3. a.op \notin {"upsert", "delete"} => Holds(s.rows[k], a)
      BY DEF Holds
    <3> QED BY <1>1, <1>2, <2>2, <3>1, <3>2, <3>3 DEF Held
  <2> QED BY <2>1, <2>2
<1>3. ASSUME NEW k \in Keys
      PROVE  /\ RowSound(v, v.rows[k]) /\ Revived(v, v.rows[k])
             /\ Held(v, k, RowToSeedOp(v.rows[k]))
  <2>1. CASE s.rows[k] = r.rows[k]
    <3>1. RowGood(w, k, w.rows[k]) /\ Revived(w, w.rows[k]) /\ r.rows[k].delHlc \in Int
      BY <1>1, <1>w DEF WorldOK, TableGood, Room, Row, Hlc, NoHlc
    <3>2. RowToSeedOp(w.rows[k]).hlc \in Nat
      BY <3>1, SelfHolds, OpClocks DEF RowGood, RowSound
    <3>3. Held(v, k, RowToSeedOp(v.rows[k]))
      BY <1>1, <1>2, <2>1, <3>1, <3>2 DEF RowGood
    <3>4. RowSound(v, v.rows[k])
      BY <1>1, <2>1, <3>1 DEF RowGood, RowSound
    <3>5. Revived(v, v.rows[k])
      BY <1>1, <2>1, <3>1 DEF Revived
    <3> QED BY <3>3, <3>4, <3>5
  <2>2. CASE s.rows[k] = NoRow
    BY <1>1, <2>2, NoRowGood DEF RowGood
  <2> QED BY <2>1, <2>2
<1>4. v.rows \in [Keys -> Row]
  BY <1>1 DEF Room
<1> QED BY <1>1, <1>w, <1>2, <1>3, <1>4, RowsGrow DEF w, v

-----------------------------------------------------------------------------
(* From one replica to the next *)

\* Later(c, d, e): e is what became of device c's replica d.  A batch of e is one
\* of d, or its id is a clock that d had not given.
Later(c, d, e) ==
  /\ Index(e.clock) >= Index(d.clock)
  /\ \A p \in e.pending :
       \/ \E q \in d.pending : q.batch = p.batch /\ q.ops = p.ops
       \/ \E n \in Nat : n > Index(d.clock) /\ p.batch = Nth(n, c)

\* A good step of it, and the clocks it gave.
DocStep(w, v, c, d, e) ==
  /\ Grows(w, v) /\ WorldOK(v) /\ Later(c, d, e)
  /\ e \in Replica /\ DocGood(v, c, e)
  /\ \A x \in v.del \union v.wr :
       x \in w.del \union w.wr \/ \E n \in Nat : n <= Index(e.clock) /\ x = Nth(n, c)

\* What was good beside the old replica is good beside the new one.
LEMMA LaterGood ==
  ASSUME NEW w, NEW v, NEW c \in Devices, NEW d \in Replica, NEW e, DocStep(w, v, c, d, e)
  PROVE  /\ \A b : BatchGood(w, c, d, b) => BatchGood(v, c, e, b)
         /\ \A id : AckGood(w, c, d, id) => AckGood(v, c, e, id)
<1>0. /\ d.clock \in Clock /\ e.clock \in Clock /\ Index(e.clock) >= Index(d.clock)
      /\ Grows(w, v) /\ d.pending \in SUBSET Batch
  BY DEF DocStep, Later, Replica
<1>1. ASSUME NEW id, Spent(d.clock, c, id), NEW p \in e.pending, p.batch = id
      PROVE  \E q \in d.pending : q.batch = id /\ q.ops = p.ops
  <2>1. \A n \in Nat : n > Index(d.clock) => Nth(n, c) # id
    BY <1>1 DEF Spent
  <2> QED BY <1>1, <2>1 DEF DocStep, Later
<1>2. ASSUME NEW b, BatchGood(w, c, d, b) PROVE BatchGood(v, c, e, b)
  <2>1. Spent(d.clock, c, b.batch) /\ \A p \in d.pending : p.batch = b.batch => p.ops = b.ops
    BY <1>2 DEF BatchGood
  <2>2. Spent(e.clock, c, b.batch)
    BY <1>0, <2>1, SpentLater
  <2>3. \A k \in Keys : OpGood(v, k, b.ops[k])
    BY <1>0, <1>2, GoodGrows DEF BatchGood
  <2>4. \A p \in e.pending : p.batch = b.batch => p.ops = b.ops
    BY <1>1, <2>1
  <2> QED BY <2>2, <2>3, <2>4 DEF BatchGood
<1>3. ASSUME NEW id, AckGood(w, c, d, id) PROVE AckGood(v, c, e, id)
  <2>1. Spent(d.clock, c, id)
    BY <1>3 DEF AckGood
  <2>2. Spent(e.clock, c, id)
    BY <1>0, <2>1, SpentLater
  <2>3. ASSUME NEW p \in e.pending, p.batch = id, NEW k \in Keys
        PROVE  Held(v, k, p.ops[k])
    <3>1. PICK q \in d.pending : q.batch = id /\ q.ops = p.ops
      BY <1>1, <2>1, <2>3
    <3>2. Held(w, k, p.ops[k])
      BY <1>3, <3>1 DEF AckGood
    <3>3. p.ops[k].hlc \in Nat
      BY <1>0, <3>1, OpClocks DEF Batch
    <3> QED BY <1>0, <3>2, <3>3 DEF Grows
  <2> QED BY <2>2, <2>3 DEF AckGood
<1> QED BY <1>2, <1>3

\* So are the sockets and the cycle.
LEMMA LaterDevice ==
  ASSUME NEW w, NEW v, NEW c \in Devices, NEW d \in Replica, NEW e, DocStep(w, v, c, d, e)
  PROVE  /\ \A up : UpGood(w, c, d, up) => UpGood(v, c, e, up)
         /\ \A down : DownGood(w, c, d, down) => DownGood(v, c, e, down)
         /\ \A h : CycleGood(w, c, d, h) => CycleGood(v, c, e, h)
<1>1. /\ \A b : BatchGood(w, c, d, b) => BatchGood(v, c, e, b)
      /\ \A id : AckGood(w, c, d, id) => AckGood(v, c, e, id)
  BY LaterGood
<1>2. \A t : TableGood(w, t) => TableGood(v, t)
  BY GoodGrows DEF DocStep
<1>3. \A up : UpGood(w, c, d, up) => UpGood(v, c, e, up)
  BY <1>1 DEF UpGood
<1>4. \A down : DownGood(w, c, d, down) => DownGood(v, c, e, down)
  BY <1>1, <1>2 DEF DownGood
<1>5. \A h : CycleGood(w, c, d, h) => CycleGood(v, c, e, h)
  BY <1>1, <1>2 DEF CycleGood
<1> QED BY <1>3, <1>4, <1>5

\* Two steps are a step.
LEMMA StepTwice ==
  ASSUME NEW u, NEW w, NEW v, NEW c \in Devices, NEW d \in Replica, NEW e, NEW f,
         DocStep(u, w, c, d, e), DocStep(w, v, c, e, f)
  PROVE  DocStep(u, v, c, d, f)
<1>1. /\ d.clock \in Clock /\ e.clock \in Clock /\ f.clock \in Clock
      /\ Index(d.clock) \in Nat /\ Index(e.clock) \in Nat /\ Index(f.clock) \in Nat
  BY StampNth DEF DocStep, Replica
<1>2. Grows(u, v)
  BY DEF DocStep, Grows
<1>3. Index(e.clock) >= Index(d.clock) /\ Index(f.clock) >= Index(e.clock)
  BY DEF DocStep, Later
<1>4. ASSUME NEW p \in f.pending
      PROVE  \/ \E q \in d.pending : q.batch = p.batch /\ q.ops = p.ops
             \/ \E n \in Nat : n > Index(d.clock) /\ p.batch = Nth(n, c)
  <2>1. CASE \E q \in e.pending : q.batch = p.batch /\ q.ops = p.ops
    BY <2>1 DEF DocStep, Later
  <2>2. CASE \E n \in Nat : n > Index(e.clock) /\ p.batch = Nth(n, c)
    BY <1>1, <1>3, <2>2
  <2> QED BY <2>1, <2>2 DEF DocStep, Later
<1>5. ASSUME NEW x \in v.del \union v.wr
      PROVE  x \in u.del \union u.wr \/ \E n \in Nat : n <= Index(f.clock) /\ x = Nth(n, c)
  <2>1. x \in w.del \union w.wr \/ \E n \in Nat : n <= Index(f.clock) /\ x = Nth(n, c)
    BY DEF DocStep
  <2>2. ASSUME x \in w.del \union w.wr
        PROVE  x \in u.del \union u.wr \/ \E n \in Nat : n <= Index(e.clock) /\ x = Nth(n, c)
    BY <2>2 DEF DocStep
  <2> QED BY <1>1, <1>3, <2>1, <2>2
<1> QED BY <1>1, <1>2, <1>3, <1>4, <1>5 DEF DocStep, Later

\* A change of the table or of the marks alone.
LEMMA QuietStep ==
  ASSUME NEW w, WorldOK(w), NEW c \in Devices, NEW d \in Replica, DocGood(w, c, d),
         NEW e \in Replica, e.clock = d.clock, TableGood(w, e.auth),
         \A p \in e.pending : \E q \in d.pending : q.batch = p.batch /\ q.ops = p.ops
  PROVE  DocStep(w, w, c, d, e)
<1>1. Grows(w, w)
  BY DEF Grows
<1>2. Index(d.clock) \in Nat
  BY StampNth DEF Replica
<1>3. Later(c, d, e)
  BY <1>2 DEF Later
<1>4. ASSUME NEW p \in e.pending PROVE BatchGood(w, c, e, p)
  <2>1. PICK q \in d.pending : q.batch = p.batch /\ q.ops = p.ops
    OBVIOUS
  <2>2. BatchGood(w, c, d, q)
    BY DEF DocGood
  <2>3. ASSUME NEW r \in e.pending, r.batch = p.batch PROVE r.ops = p.ops
    <3>1. PICK s \in d.pending : s.batch = r.batch /\ s.ops = r.ops
      OBVIOUS
    <3> QED BY <2>1, <2>2, <2>3, <3>1 DEF BatchGood
  <2> QED BY <2>1, <2>2, <2>3 DEF BatchGood
<1>5. DocGood(w, c, e)
  BY <1>4 DEF DocGood
<1> QED BY <1>1, <1>3, <1>5 DEF DocStep

\* enqueue_ops: a batch of good operations, under a new id.
LEMMA EnqueueStep ==
  ASSUME NEW w, WorldOK(w), NEW c \in Devices, NEW d \in Replica, DocGood(w, c, d),
         NEW ops \in [Keys -> Op], \A k \in Keys : OpGood(w, k, ops[k]), NEW now \in Nat
  PROVE  DocStep(w, w, c, d, EnqueueOps(d, c, ops, now))
<1> DEFINE e == EnqueueOps(d, c, ops, now)
           t == Tick(d.clock, now)
           b == [batch |-> Stamp(t, c), ops |-> ops, inFlight |-> FALSE]
<1>1. CASE ops = NoOps
  <2>1. e = d
    BY <1>1 DEF EnqueueOps
  <2> HIDE DEF e
  <2>2. DocStep(w, w, c, d, d)
    BY QuietStep DEF DocGood
  <2> QED BY <2>1, <2>2 DEF e
<1>2. CASE ops # NoOps
  <2>0. d.clock \in Clock /\ d.clock.counter <= MaxCounter
    BY DEF Replica, DocGood
  <2>1. t \in Clock /\ t.counter <= MaxCounter /\ Index(t) > Index(d.clock)
    BY <2>0, TickLater
  <2>2. Stamp(t, c) = Nth(Index(t), c) /\ Index(t) \in Nat /\ Index(d.clock) \in Nat
    BY <2>0, <2>1, StampNth
  <2>3. /\ e \in Replica /\ e.clock = t /\ e.auth = d.auth
        /\ e.pending = d.pending \union {b}
    <3>1. e \in Replica
      BY EnqueueOpsType
    <3>2. e = [d EXCEPT !.clock = t, !.touched = TRUE, !.pending = d.pending \union {b}]
      BY <1>2 DEF EnqueueOps
    <3> HIDE DEF t, b
    <3> QED BY <3>1, <3>2 DEF Replica
  <2>4. b.batch = Nth(Index(t), c) /\ b.ops = ops
    BY <2>2
  <2> HIDE DEF e, t, b
  <2>5. Later(c, d, e)
    BY <2>1, <2>2, <2>3, <2>4 DEF Later
  <2>6. ASSUME NEW q \in d.pending PROVE q.batch # b.batch
    <3>1. Spent(d.clock, c, q.batch)
      BY DEF DocGood, BatchGood
    <3> QED BY <2>1, <2>2, <2>4, <3>1 DEF Spent
  <2>7. ASSUME NEW p \in e.pending PROVE BatchGood(w, c, e, p)
    <3>1. CASE p \in d.pending
      <4>1. BatchGood(w, c, d, p)
        BY <3>1 DEF DocGood
      <4>2. Spent(e.clock, c, p.batch)
        BY <2>0, <2>1, <2>2, <2>3, <4>1, SpentLater DEF BatchGood
      <4>3. \A q \in e.pending : q.batch = p.batch => q.ops = p.ops
        BY <2>3, <2>6, <3>1, <4>1 DEF BatchGood
      <4> QED BY <4>1, <4>2, <4>3 DEF BatchGood
    <3>2. CASE p = b
      <4>1. Spent(e.clock, c, p.batch)
        BY <2>1, <2>2, <2>3, <2>4, <3>2, GivenSpent
      <4>2. \A q \in e.pending : q.batch = p.batch => q.ops = p.ops
        BY <2>3, <2>6, <3>2
      <4> QED BY <2>4, <3>2, <4>1, <4>2 DEF BatchGood
    <3> QED BY <2>3, <3>1, <3>2
  <2>8. DocGood(w, c, e)
    BY <2>1, <2>3, <2>7 DEF DocGood
  <2> QED BY <2>3, <2>5, <2>8 DEF DocStep, Grows, e
<1> QED BY <1>1, <1>2

\* A tick of the clock for one operation, a delete or a write.
LEMMA TickStep ==
  ASSUME NEW rows, NEW h, NEW D \in SUBSET Nat, NEW W \in SUBSET Nat,
         WorldOK(World(rows, h, D, W)), NEW c \in Devices, NEW d \in Replica,
         DocGood(World(rows, h, D, W), c, d),
         \A x \in D \union W : Spent(d.clock, c, x), NEW now \in Nat,
         NEW x, x = Stamp(Tick(d.clock, now), c)
  PROVE  LET e == [d EXCEPT !.clock = Tick(d.clock, now)]
         IN  /\ DocStep(World(rows, h, D, W), World(rows, h, D \union {x}, W), c, d, e)
             /\ DocStep(World(rows, h, D, W), World(rows, h, D, W \union {x}), c, d, e)
             /\ x \in Nat
<1> DEFINE Good(E, X) ==
             /\ DocStep(World(rows, h, D, W), World(rows, h, E, X), c, d,
                        [d EXCEPT !.clock = Tick(d.clock, now)])
             /\ x \in Nat
<1>1. ASSUME NEW E, NEW X, \/ E = D \union {x} /\ X = W
                           \/ E = D /\ X = W \union {x}
      PROVE  Good(E, X)
  <2> DEFINE w == World(rows, h, D, W)
             v == World(rows, h, E, X)
             t == Tick(d.clock, now)
             e == [d EXCEPT !.clock = t]
  <2>0. d.clock \in Clock /\ d.clock.counter <= MaxCounter
    BY DEF Replica, DocGood
  <2>1. t \in Clock /\ t.counter <= MaxCounter /\ Index(t) > Index(d.clock)
    BY <2>0, TickLater
  <2>2. x = Nth(Index(t), c) /\ Index(t) \in Nat /\ Index(d.clock) \in Nat /\ x \in Nat
    BY <2>0, <2>1, StampNth, StampType DEF Hlc
  <2>3. x \notin D \union W
    BY <2>1, <2>2 DEF Spent
  <2>4. D \intersect W = {} /\ w.del = D /\ w.wr = W /\ v.del = E /\ v.wr = X
    BY DEF WorldOK, World
  <2>5. /\ E \in SUBSET Nat /\ X \in SUBSET Nat /\ D \subseteq E /\ W \subseteq X
        /\ E \intersect X = {}
    BY <1>1, <2>2, <2>3, <2>4
  <2>6. Grows(w, v) /\ WorldOK(v)
    BY <2>5, ClocksGrow
  <2>7. e \in Replica /\ e.clock = t /\ e.auth = d.auth /\ e.pending = d.pending
    BY <2>1 DEF Replica
  <2>w. DocGood(w, c, d)
    OBVIOUS
  <2>z. \A y \in v.del \union v.wr : y \in w.del \union w.wr \/ y = x
    BY <1>1, <2>4
  <2> HIDE DEF w, v, t, e
  <2>8. Later(c, d, e)
    BY <2>1, <2>2, <2>7 DEF Later
  <2>9. ASSUME NEW p \in e.pending PROVE BatchGood(v, c, e, p)
    <3>1. BatchGood(w, c, d, p)
      BY <2>7, <2>w DEF DocGood
    <3>2. Spent(e.clock, c, p.batch)
      BY <2>0, <2>1, <2>2, <2>7, <3>1, SpentLater DEF BatchGood
    <3> QED BY <2>6, <2>7, <3>1, <3>2, GoodGrows DEF BatchGood
  <2>10. DocGood(v, c, e)
    BY <2>1, <2>6, <2>7, <2>9, <2>w, GoodGrows DEF DocGood
  <2>11. \A y \in v.del \union v.wr :
           y \in w.del \union w.wr \/ \E n \in Nat : n <= Index(e.clock) /\ y = Nth(n, c)
    BY <2>2, <2>7, <2>z
  <2>12. DocStep(w, v, c, d, e)
    BY <2>6, <2>7, <2>8, <2>10, <2>11 DEF DocStep
  <2> QED BY <2>2, <2>5, <2>12 DEF w, v, t, e
<1>2. Good(D \union {x}, W) /\ Good(D, W \union {x})
  <2> HIDE DEF Good
  <2> QED BY <1>1
<1> QED BY <1>2

\* write: an upsert that writes something, or an update.
LEMMA WriteStep ==
  ASSUME NEW rows, NEW h, NEW D \in SUBSET Nat, NEW W \in SUBSET Nat,
         WorldOK(World(rows, h, D, W)), NEW c \in Devices, NEW d \in Replica,
         DocGood(World(rows, h, D, W), c, d),
         \A x \in D \union W : Spent(d.clock, c, x), NEW now \in Nat,
         NEW k \in Keys, NEW kind \in {"upsert", "update"},
         NEW set \in [Fields -> Values \union {Null, Unset}], kind = "upsert" => set # NoSet
  PROVE  \E X \in SUBSET Nat :
           DocStep(World(rows, h, D, W), World(rows, h, D, X), c, d,
                   Write(d, c, k, kind, set, now))
<1> DEFINE t == Tick(d.clock, now)
           x == Stamp(t, c)
           X == W \union {x}
           v == World(rows, h, D, X)
           op == [op |-> kind, set |-> set, hlc |-> x, clocks |-> NoClocks]
           ops == [NoOps EXCEPT ![k] = op]
           ticked == [d EXCEPT !.clock = t]
<1>1. /\ DocStep(World(rows, h, D, W), v, c, d, ticked)
      /\ x \in Nat /\ X \in SUBSET Nat
  <2>1. x = Stamp(Tick(d.clock, now), c) /\ X = W \union {x}
    OBVIOUS
  <2> HIDE DEF x, X
  <2> QED BY <2>1, TickStep
<1>2. WorldOK(v) /\ ticked \in Replica /\ DocGood(v, c, ticked)
  BY <1>1 DEF DocStep
<1>3. Write(d, c, k, kind, set, now) = EnqueueOps(ticked, c, ops, now)
  BY DEF Write
<1>4. v.wr = X /\ x \in X
  BY DEF World
<1> HIDE DEF x, X, v, ticked
<1>5. op \in Op /\ op.op = kind /\ op.set = set /\ op.hlc = x /\ op.clocks = NoClocks
  BY <1>1 DEF Op, NoClocks, Hlc
<1> HIDE DEF op
<1>6. Plain(op)
  BY <1>5 DEF Plain
<1>7. OpGood(v, k, op)
  BY <1>4, <1>5, <1>6, OpClocks DEF OpGood
<1>8. ops \in [Keys -> Op] /\ \A j \in Keys : ops[j] = op \/ ops[j] = NoOp
  BY <1>5, TableTypes DEF NoOps
<1>9. \A j \in Keys : OpGood(v, j, ops[j])
  <2>1. ops[k] = op /\ \A j \in Keys : j # k => ops[j] = NoOp
    BY <1>8, TableTypes DEF NoOps
  <2> QED BY <1>7, <2>1, NoRowGood
<1> HIDE DEF ops
<1>10. DocStep(v, v, c, ticked, EnqueueOps(ticked, c, ops, now))
  BY <1>2, <1>8, <1>9, EnqueueStep
<1>11. DocStep(World(rows, h, D, W), v, c, d, Write(d, c, k, kind, set, now))
  BY <1>1, <1>3, <1>10, StepTwice
<1> QED BY <1>1, <1>11 DEF v

\* delete_row_ops: one clock for the whole cascade.
LEMMA DeleteStep ==
  ASSUME NEW rows, NEW h, NEW D \in SUBSET Nat, NEW W \in SUBSET Nat,
         WorldOK(World(rows, h, D, W)), NEW c \in Devices, NEW d \in Replica,
         DocGood(World(rows, h, D, W), c, d),
         \A x \in D \union W : Spent(d.clock, c, x), NEW now \in Nat,
         NEW ks \in SUBSET Keys
  PROVE  \E E \in SUBSET Nat :
           DocStep(World(rows, h, D, W), World(rows, h, E, W), c, d,
                   DeleteRows(d, c, ks, now))
<1> DEFINE t == Tick(d.clock, now)
           x == Stamp(t, c)
           E == D \union {x}
           v == World(rows, h, E, W)
           op == [op |-> "delete", set |-> NoSet, hlc |-> x, clocks |-> NoClocks]
           ops == [k \in Keys |-> IF k \in ks THEN op ELSE NoOp]
           ticked == [d EXCEPT !.clock = t]
<1>1. /\ DocStep(World(rows, h, D, W), v, c, d, ticked)
      /\ x \in Nat /\ E \in SUBSET Nat
  <2>1. x = Stamp(Tick(d.clock, now), c) /\ E = D \union {x}
    OBVIOUS
  <2> HIDE DEF x, E
  <2> QED BY <2>1, TickStep
<1>2. WorldOK(v) /\ ticked \in Replica /\ DocGood(v, c, ticked)
  BY <1>1 DEF DocStep
<1>3. DeleteRows(d, c, ks, now) = EnqueueOps(ticked, c, ops, now)
  BY DEF DeleteRows
<1>4. v.del = E /\ x \in E
  BY DEF World
<1> HIDE DEF x, E, v, ticked
<1>5. op \in Op /\ op.op = "delete" /\ op.hlc = x /\ op.clocks = NoClocks
  BY <1>1 DEF Op, NoClocks, NoSet, Hlc
<1> HIDE DEF op
<1>7. \A k \in Keys : OpGood(v, k, op)
  BY <1>4, <1>5 DEF OpGood, Plain
<1>8. ops \in [Keys -> Op] /\ \A k \in Keys : OpGood(v, k, ops[k])
  BY <1>5, <1>7, ConstantTypes, NoRowGood
<1> HIDE DEF ops
<1>10. DocStep(v, v, c, ticked, EnqueueOps(ticked, c, ops, now))
  BY <1>2, <1>8, EnqueueStep
<1>11. DocStep(World(rows, h, D, W), v, c, d, DeleteRows(d, c, ks, now))
  BY <1>1, <1>3, <1>10, StepTwice
<1> QED BY <1>1, <1>11 DEF v

\* rowToSeedOp: a re-seed of a good row tells the room nothing new.
LEMMA SeedGood ==
  ASSUME NEW w, NEW k \in Keys, NEW x, RowGood(w, k, x)
  PROVE  OpGood(w, k, RowToSeedOp(x))
<1> DEFINE op == RowToSeedOp(x)
<1>1. /\ WellFormed(x) /\ x \in Row /\ op \in Op /\ Held(w, k, op)
      /\ x.delHlc \in w.del \union {NoHlc}
  BY SelfHolds DEF RowGood, RowSound, WellFormed
<1>2. CASE x.st = "missing"
  BY <1>2, NoRowGood DEF RowToSeedOp
<1>3. CASE x.st = "deleted"
  <2>1. op.op = "delete" /\ op.hlc = x.delHlc /\ x.delHlc # NoHlc
    BY <1>1, <1>3 DEF RowToSeedOp, WellFormed
  <2> HIDE DEF op
  <2> QED BY <1>1, <2>1 DEF OpGood, op
<1>4. CASE x.st = "live"
  <2>1. /\ op.op = "upsert" /\ op.clocks = x.clocks
        /\ op.set = [f \in Fields |-> IF x.fields[f] # Null THEN x.fields[f] ELSE Unset]
    BY <1>4 DEF RowToSeedOp
  <2>2. ASSUME NEW f \in Fields, op.set[f] # Unset PROVE ClockFor(op, f) \in w.wr
    <3>1. x.fields[f] # Null
      BY <2>1, <2>2
    <3>2. x.clocks[f] # NoHlc /\ x.clocks[f] \in w.wr
      BY <3>1 DEF RowGood, RowSound
    <3> HIDE DEF op
    <3> QED BY <2>1, <3>2 DEF ClockFor
  <2> HIDE DEF op
  <2> QED BY <1>1, <2>1, <2>2 DEF OpGood, op
<1> QED BY <1>1, <1>2, <1>3, <1>4 DEF Row

\* apply_state: the frame's rows, and perhaps a re-seed.
LEMMA StateStep ==
  ASSUME NEW w, WorldOK(w), NEW c \in Devices, NEW d \in Replica, DocGood(w, c, d),
         NEW seq \in Nat, NEW full \in BOOLEAN, NEW rows \in [Keys -> Row],
         TableGood(w, rows), NEW now \in Nat
  PROVE  DocStep(w, w, c, d, ApplyState(d, c, seq, full, rows, now))
<1> DEFINE moved == [d EXCEPT !.cursor = seq, !.touched = TRUE]
           kept  == [moved EXCEPT !.auth = PutAuthoritative(d.auth, rows)]
           taken == [moved EXCEPT !.auth = rows]
<1>1. d.auth \in [Keys -> Row] /\ TableGood(w, d.auth)
  BY DEF Replica, DocGood
<1>2. /\ kept \in Replica /\ kept.clock = d.clock /\ kept.pending = d.pending
      /\ kept.auth = PutAuthoritative(d.auth, rows)
      /\ taken \in Replica /\ taken.clock = d.clock /\ taken.pending = d.pending
      /\ taken.auth = rows
  BY <1>1, PutAuthoritativeType DEF Replica
<1>3. TableGood(w, PutAuthoritative(d.auth, rows))
  BY <1>1 DEF TableGood, PutAuthoritative
<1>s. \A ks : /\ SeedOps(d.auth, ks) \in [Keys -> Op]
              /\ \A k \in Keys : OpGood(w, k, SeedOps(d.auth, ks)[k])
  <2>1. \A k \in Keys : OpGood(w, k, RowToSeedOp(d.auth[k])) /\ OpGood(w, k, NoOp)
    BY <1>1, SeedGood, NoRowGood DEF TableGood
  <2> QED BY <1>1, <2>1, SeedOpsType DEF SeedOps
<1>c. \/ ApplyState(d, c, seq, full, rows, now) = kept
      \/ \E ks : ApplyState(d, c, seq, full, rows, now) = EnqueueOps(kept, c, SeedOps(d.auth, ks), now)
      \/ \E ks : ApplyState(d, c, seq, full, rows, now) = EnqueueOps(taken, c, SeedOps(d.auth, ks), now)
  BY DEF ApplyState
<1> HIDE DEF kept, taken
<1>4. DocStep(w, w, c, d, kept) /\ DocStep(w, w, c, d, taken)
  BY <1>2, <1>3, QuietStep
<1>5. DocGood(w, c, kept) /\ DocGood(w, c, taken)
  BY <1>4 DEF DocStep
<1>6. ASSUME NEW ks
      PROVE  /\ DocStep(w, w, c, d, EnqueueOps(kept, c, SeedOps(d.auth, ks), now))
             /\ DocStep(w, w, c, d, EnqueueOps(taken, c, SeedOps(d.auth, ks), now))
  <2>1. /\ DocStep(w, w, c, kept, EnqueueOps(kept, c, SeedOps(d.auth, ks), now))
        /\ DocStep(w, w, c, taken, EnqueueOps(taken, c, SeedOps(d.auth, ks), now))
    BY <1>2, <1>5, <1>s, EnqueueStep
  <2> QED BY <1>4, <2>1, StepTwice
<1> QED BY <1>4, <1>6, <1>c

\* apply_rows, ack_batch and the marks.
LEMMA QuietSteps ==
  ASSUME NEW w, WorldOK(w), NEW c \in Devices, NEW d \in Replica, DocGood(w, c, d)
  PROVE  /\ \A seq \in Nat, rows \in [Keys -> Row] :
              TableGood(w, rows) => DocStep(w, w, c, d, ApplyRows(d, seq, rows))
         /\ \A id : DocStep(w, w, c, d, AckBatch(d, id))
         /\ DocStep(w, w, c, d, TakePushable(d))
         /\ DocStep(w, w, c, d, MarkDisconnected(d))
<1>0. d.auth \in [Keys -> Row] /\ TableGood(w, d.auth) /\ d.pending \in SUBSET Batch
  BY DEF Replica, DocGood
<1>1. ASSUME NEW seq \in Nat, NEW rows \in [Keys -> Row], TableGood(w, rows)
      PROVE  DocStep(w, w, c, d, ApplyRows(d, seq, rows))
  <2> DEFINE e == ApplyRows(d, seq, rows)
  <2>1. e \in Replica
    BY ApplyRowsType
  <2>2. e.clock = d.clock /\ e.pending = d.pending /\ e.auth = PutAuthoritative(d.auth, rows)
    BY DEF ApplyRows, Replica
  <2> HIDE DEF e
  <2>3. TableGood(w, e.auth)
    BY <1>0, <1>1, <2>2 DEF TableGood, PutAuthoritative
  <2>4. DocStep(w, w, c, d, e)
    BY <2>1, <2>2, <2>3, QuietStep
  <2> QED BY <2>4 DEF e
<1>2. ASSUME NEW id PROVE DocStep(w, w, c, d, AckBatch(d, id))
  <2> DEFINE e == AckBatch(d, id)
  <2>1. e \in Replica
    BY AckBatchType
  <2>2. e.clock = d.clock /\ e.pending \subseteq d.pending /\ e.auth = d.auth
    BY DEF AckBatch, Replica
  <2> HIDE DEF e
  <2>3. DocStep(w, w, c, d, e)
    BY <1>0, <2>1, <2>2, QuietStep
  <2> QED BY <2>3 DEF e
<1>3. ASSUME NEW mark \in BOOLEAN, NEW e \in Replica,
             e = [d EXCEPT !.pending = {[b EXCEPT !.inFlight = mark] : b \in d.pending}]
      PROVE  DocStep(w, w, c, d, e)
  <2>1. e.clock = d.clock /\ e.auth = d.auth
        /\ e.pending = {[b EXCEPT !.inFlight = mark] : b \in d.pending}
    BY <1>3 DEF Replica
  <2>2. \A p \in e.pending : \E q \in d.pending : q.batch = p.batch /\ q.ops = p.ops
    BY <1>0, <2>1 DEF Batch
  <2> QED BY <1>0, <2>1, <2>2, QuietStep
<1>4. DocStep(w, w, c, d, TakePushable(d)) /\ DocStep(w, w, c, d, MarkDisconnected(d))
  BY <1>3, MarkTypes DEF TakePushable, MarkDisconnected
<1> QED BY <1>1, <1>2, <1>4

-----------------------------------------------------------------------------
(* The invariant, device by device *)

\* A world that grows leaves a device as good as it was.
LEMMA DeviceGrows ==
  ASSUME NEW w, NEW v, Grows(w, v), NEW c \in Devices, NEW d \in Replica
  PROVE  /\ \A b : BatchGood(w, c, d, b) => BatchGood(v, c, d, b)
         /\ \A id : AckGood(w, c, d, id) => AckGood(v, c, d, id)
         /\ DocGood(w, c, d) => DocGood(v, c, d)
         /\ \A up : UpGood(w, c, d, up) => UpGood(v, c, d, up)
         /\ \A down : DownGood(w, c, d, down) => DownGood(v, c, d, down)
         /\ \A h : CycleGood(w, c, d, h) => CycleGood(v, c, d, h)
<1>1. \A b : BatchGood(w, c, d, b) => BatchGood(v, c, d, b)
  BY GoodGrows DEF BatchGood
<1>2. ASSUME NEW id, AckGood(w, c, d, id) PROVE AckGood(v, c, d, id)
  <2>1. ASSUME NEW p \in d.pending, NEW k \in Keys PROVE p.ops[k].hlc \in Nat
    BY OpClocks DEF Replica, Batch
  <2> QED BY <1>2, <2>1 DEF AckGood, Grows
<1>3. \A t : TableGood(w, t) => TableGood(v, t)
  BY GoodGrows
<1>4. DocGood(w, c, d) => DocGood(v, c, d)
  BY <1>1, <1>3 DEF DocGood
<1>5. \A up : UpGood(w, c, d, up) => UpGood(v, c, d, up)
  BY <1>1 DEF UpGood
<1>6. \A down : DownGood(w, c, d, down) => DownGood(v, c, d, down)
  BY <1>2, <1>3 DEF DownGood
<1>7. \A h : CycleGood(w, c, d, h) => CycleGood(v, c, d, h)
  BY <1>1, <1>2, <1>3 DEF CycleGood
<1> QED BY <1>1, <1>2, <1>4, <1>5, <1>6, <1>7

\* What is owed to the network and to the history.
LEMMA RestGrows ==
  ASSUME NEW w, NEW v, Grows(w, v)
  PROVE  /\ \A S : LateGood(w, S) => LateGood(v, S)
         /\ TypeOK => \A a \in acked : Held(w, a.key, a) => Held(v, a.key, a)
<1>1. \A S : LateGood(w, S) => LateGood(v, S)
  BY GoodGrows DEF LateGood
<1>2. ASSUME TypeOK, NEW a \in acked PROVE a.key \in Keys /\ a.hlc \in Nat
  BY <1>2 DEF TypeOK, Hlc
<1> QED BY <1>1, <1>2 DEF Grows

\* A step that touches one device at most.
OthersStay(c) ==
  \A x \in Devices \ {c} :
    /\ doc'[x] = doc[x] /\ sending'[x] = sending[x]
    /\ c2s'[x] = c2s[x] /\ s2c'[x] = s2c[x] /\ http'[x] = http[x]

\* It keeps the invariant if it leaves that device good.
LEMMA OneHeld ==
  ASSUME TypeOK, NEW D \in SUBSET Nat, NEW W \in SUBSET Nat,
         HeldFor(World(room.rows, horizon, D, W)),
         NEW c \in Devices, OthersStay(c), NEW E \in SUBSET Nat, NEW X \in SUBSET Nat,
         DocStep(World(room.rows, horizon, D, W), World(room.rows, horizon, E, X),
                 c, doc[c], doc'[c]),
         DeviceHeld(World(room.rows, horizon, E, X),
                    c, doc'[c], sending'[c], c2s'[c], s2c'[c], http'[c]),
         LateGood(World(room.rows, horizon, E, X), late'),
         \A a \in acked' : a \in acked \/ Held(World(room.rows, horizon, E, X), a.key, a),
         room'.rows = room.rows, horizon' = horizon
  PROVE  HeldInv'
<1> DEFINE w == World(room.rows, horizon, D, W)
           v == World(room.rows, horizon, E, X)
<1>s. SUFFICES HeldFor(World(room.rows, horizon, E, X))'
  BY DEF HeldInv
<1>v. World(room.rows, horizon, E, X)' = v
  BY DEF World
<1>1. /\ HeldFor(w) /\ DocStep(w, v, c, doc[c], doc'[c]) /\ LateGood(v, late')
      /\ DeviceHeld(v, c, doc'[c], sending'[c], c2s'[c], s2c'[c], http'[c])
      /\ \A a \in acked' : a \in acked \/ Held(v, a.key, a)
  OBVIOUS
<1> HIDE DEF w, v
<1>2. /\ \A x \in Devices : doc[x] \in Replica /\ doc[x].clock \in Clock
      /\ doc'[c] \in Replica /\ doc'[c].clock \in Clock
      /\ Grows(w, v) /\ WorldOK(v) /\ Index(doc'[c].clock) >= Index(doc[c].clock)
  BY <1>1 DEF TypeOK, Replica, DocStep, Later
<1>3. ASSUME NEW y \in v.del \union v.wr, NEW x \in Devices
      PROVE  Spent(doc'[x].clock, x, y)
  <2>1. CASE y \in w.del \union w.wr
    <3>1. Spent(doc[x].clock, x, y)
      BY <1>1, <2>1 DEF HeldFor
    <3>2. CASE x = c
      BY <1>2, <3>1, <3>2, SpentLater
    <3>3. CASE x # c
      BY <3>1, <3>3 DEF OthersStay
    <3> QED BY <3>2, <3>3
  <2>2. CASE \E n \in Nat : n <= Index(doc'[c].clock) /\ y = Nth(n, c)
    <3>1. PICK n \in Nat : n <= Index(doc'[c].clock) /\ y = Nth(n, c)
      BY <2>2
    <3>2. doc'[x].clock \in Clock /\ (x = c => n <= Index(doc'[x].clock))
      BY <1>2, <3>1 DEF OthersStay
    <3> QED BY <3>1, <3>2, GivenSpent
  <2> QED BY <1>1, <2>1, <2>2 DEF DocStep
<1>4. ASSUME NEW x \in Devices
      PROVE  DeviceHeld(v, x, doc'[x], sending'[x], c2s'[x], s2c'[x], http'[x])
  <2>1. CASE x = c
    BY <1>1, <2>1
  <2>2. CASE x # c
    <3>1. DeviceHeld(w, x, doc[x], sending[x], c2s[x], s2c[x], http[x])
      BY <1>1 DEF HeldFor
    <3>2. DeviceHeld(v, x, doc[x], sending[x], c2s[x], s2c[x], http[x])
      BY <1>2, <3>1, DeviceGrows DEF DeviceHeld
    <3> QED BY <2>2, <3>2 DEF OthersStay
  <2> QED BY <2>1, <2>2
<1>5. ASSUME NEW a \in acked' PROVE Held(v, a.key, a)
  <2>1. \A b \in acked : Held(v, b.key, b)
    BY <1>1, <1>2, RestGrows DEF HeldFor
  <2> QED BY <1>1, <2>1
<1> QED BY <1>1, <1>2, <1>3, <1>4, <1>5, <1>v DEF HeldFor

\* A step of the room alone, which leaves every replica as it is.
LEMMA RoomHeld ==
  ASSUME TypeOK, NEW D \in SUBSET Nat, NEW W \in SUBSET Nat,
         HeldFor(World(room.rows, horizon, D, W)),
         Grows(World(room.rows, horizon, D, W), World(room'.rows, horizon', D, W)),
         WorldOK(World(room'.rows, horizon', D, W)),
         \A x \in Devices :
           /\ UpGood(World(room'.rows, horizon', D, W), x, doc[x], c2s'[x])
           /\ DownGood(World(room'.rows, horizon', D, W), x, doc[x], s2c'[x])
           /\ CycleGood(World(room'.rows, horizon', D, W), x, doc[x], http'[x]),
         UNCHANGED <<doc, sending, late, acked>>
  PROVE  HeldInv'
<1> DEFINE w == World(room.rows, horizon, D, W)
           v == World(room'.rows, horizon', D, W)
<1>s. SUFFICES HeldFor(World(room.rows, horizon, D, W))'
  BY DEF HeldInv
<1>v. World(room.rows, horizon, D, W)' = v
  BY DEF World
<1>1. /\ HeldFor(w) /\ Grows(w, v) /\ WorldOK(v) /\ v.del = w.del /\ v.wr = w.wr
      /\ \A x \in Devices : /\ UpGood(v, x, doc[x], c2s'[x])
                            /\ DownGood(v, x, doc[x], s2c'[x])
                            /\ CycleGood(v, x, doc[x], http'[x])
  BY DEF World
<1> HIDE DEF w, v
<1>2. ASSUME NEW x \in Devices
      PROVE  /\ DocGood(v, x, doc[x])
             /\ \A b \in sending[x] : BatchGood(v, x, doc[x], b)
  <2>1. DeviceHeld(w, x, doc[x], sending[x], c2s[x], s2c[x], http[x]) /\ doc[x] \in Replica
    BY <1>1 DEF HeldFor, TypeOK
  <2> QED BY <1>1, <2>1, DeviceGrows DEF DeviceHeld
<1>3. LateGood(v, late) /\ \A a \in acked : Held(v, a.key, a)
  BY <1>1, RestGrows DEF HeldFor
<1>4. \A x \in Devices : DeviceHeld(v, x, doc[x], sending[x], c2s'[x], s2c'[x], http'[x])
  BY <1>1, <1>2 DEF DeviceHeld
<1>5. \A y \in v.del \union v.wr : \A x \in Devices : Spent(doc[x].clock, x, y)
  BY <1>1 DEF HeldFor
<1> QED BY <1>1, <1>3, <1>4, <1>5, <1>v DEF HeldFor

-----------------------------------------------------------------------------
(* The steps of a device *)

\* A step of device c's replica that gives no clock, and what it leaves beside
\* the replica.
LEMMA QuietHeld ==
  ASSUME TypeOK, NEW D \in SUBSET Nat, NEW W \in SUBSET Nat, NEW w,
         w = World(room.rows, horizon, D, W), HeldFor(w),
         NEW c \in Devices, OthersStay(c), DocStep(w, w, c, doc[c], doc'[c]),
         \A b \in sending'[c] : BatchGood(w, c, doc'[c], b),
         UpGood(w, c, doc'[c], c2s'[c]), DownGood(w, c, doc'[c], s2c'[c]),
         CycleGood(w, c, doc'[c], http'[c]), LateGood(w, late'),
         \A a \in acked' : a \in acked \/ Held(w, a.key, a),
         room'.rows = room.rows, horizon' = horizon
  PROVE  HeldInv'
<1>1. DeviceHeld(w, c, doc'[c], sending'[c], c2s'[c], s2c'[c], http'[c])
  BY DEF DeviceHeld, DocStep
<1> QED BY <1>1, OneHeld

\* A step that leaves the replica too.
LEMMA SameStep ==
  ASSUME NEW w, WorldOK(w), NEW c \in Devices, NEW d \in Replica, DocGood(w, c, d)
  PROVE  DocStep(w, w, c, d, d)
  BY QuietStep DEF DocGood

\* What the invariant says of device c.
LEMMA HeldFacts ==
  ASSUME TypeOK, NEW w, HeldFor(w), NEW c \in Devices
  PROVE  /\ WorldOK(w) /\ doc[c] \in Replica /\ DocGood(w, c, doc[c])
         /\ \A b \in sending[c] : BatchGood(w, c, doc[c], b)
         /\ UpGood(w, c, doc[c], c2s[c]) /\ DownGood(w, c, doc[c], s2c[c])
         /\ CycleGood(w, c, doc[c], http[c]) /\ LateGood(w, late)
         /\ DocStep(w, w, c, doc[c], doc[c])
  BY SameStep DEF HeldFor, DeviceHeld, TypeOK

\* A local write or delete keeps HeldInv.
LEMMA MutateHeld ==
  ASSUME TypeOK, NEW D \in SUBSET Nat, NEW W \in SUBSET Nat,
         HeldFor(World(room.rows, horizon, D, W)),
         NEW c \in Devices, NEW d, Mutate(c, d),
         \E E, X \in SUBSET Nat : DocStep(World(room.rows, horizon, D, W),
                                          World(room.rows, horizon, E, X), c, doc[c], d)
  PROVE  HeldInv'
<1> DEFINE w == World(room.rows, horizon, D, W)
<1>1. PICK E, X \in SUBSET Nat : DocStep(w, World(room.rows, horizon, E, X), c, doc[c], d)
  OBVIOUS
<1> DEFINE v == World(room.rows, horizon, E, X)
<1>2. /\ doc' = [doc EXCEPT ![c] = d]
      /\ UNCHANGED <<room, sending, c2s, s2c, http, late, acked, horizon>>
  BY DEF Mutate
<1>3. HeldFor(w) /\ DocStep(w, v, c, doc[c], d)
  BY <1>1
<1>4. OthersStay(c) /\ doc'[c] = d
  BY <1>2 DEF OthersStay, TypeOK
<1> HIDE DEF w, v
<1>5. DeviceHeld(v, c, d, sending[c], c2s[c], s2c[c], http[c])
  BY <1>3, HeldFacts, LaterGood, LaterDevice DEF DeviceHeld, DocStep
<1>6. LateGood(v, late)
  BY <1>3, HeldFacts, RestGrows DEF DocStep
<1> USE DEF w, v
<1>7. UNCHANGED <<room.rows, horizon>>
  BY <1>2
<1> QED BY <1>1, <1>2, <1>3, <1>4, <1>5, <1>6, <1>7, OneHeld

\* The typed API, the save and the restart keep HeldInv: no replica is lost.
LEMMA LocalHeld ==
  ASSUME MaxCrashes = 0, TypeOK, HeldInv, NEW c \in Devices, LocalStep(c)
  PROVE  HeldInv'
<1>w. PICK D, W \in SUBSET Nat : HeldFor(World(room.rows, horizon, D, W))
  BY DEF HeldInv
<1> DEFINE w == World(room.rows, horizon, D, W)
<1>0. /\ WorldOK(w) /\ doc[c] \in Replica /\ DocGood(w, c, doc[c])
      /\ \A x \in D \union W : Spent(doc[c].clock, c, x)
  <2>1. w.del = D /\ w.wr = W /\ HeldFor(w)
    BY <1>w DEF World
  <2> HIDE DEF w
  <2> QED BY <2>1, HeldFacts DEF HeldFor
<1>1. CASE Upsert(c)
  <2>1. PICK k \in WriteKeys, s \in Sets, now \in Times :
          Mutate(c, Write(doc[c], c, k, "upsert", s, now))
    BY <1>1 DEF Upsert
  <2>2. k \in Keys /\ now \in Nat /\ s \in [Fields -> Values \union {Null, Unset}] /\ s # NoSet
    BY SyncAssumption DEF Sets
  <2>3. \E E, X \in SUBSET Nat : DocStep(w, World(room.rows, horizon, E, X), c, doc[c],
                                         Write(doc[c], c, k, "upsert", s, now))
    BY <1>0, <2>2, WriteStep
  <2> QED BY <1>w, <2>1, <2>3, MutateHeld
<1>2. CASE Update(c)
  <2>1. PICK k \in WriteKeys, s \in Sets, now \in Times :
          Mutate(c, Write(doc[c], c, k, "update", s, now))
    BY <1>2 DEF Update
  <2>2. k \in Keys /\ now \in Nat /\ s \in [Fields -> Values \union {Null, Unset}]
    BY SyncAssumption DEF Sets
  <2>3. \E E, X \in SUBSET Nat : DocStep(w, World(room.rows, horizon, E, X), c, doc[c],
                                         Write(doc[c], c, k, "update", s, now))
    BY <1>0, <2>2, WriteStep
  <2> QED BY <1>w, <2>1, <2>3, MutateHeld
<1>3. CASE Delete(c)
  <2>1. PICK ks \in SUBSET WriteKeys, now \in Times : Mutate(c, DeleteRows(doc[c], c, ks, now))
    BY <1>3 DEF Delete
  <2>2. ks \in SUBSET Keys /\ now \in Nat
    BY SyncAssumption
  <2>3. \E E, X \in SUBSET Nat : DocStep(w, World(room.rows, horizon, E, X), c, doc[c],
                                         DeleteRows(doc[c], c, ks, now))
    BY <1>0, <2>2, DeleteStep
  <2> QED BY <1>w, <2>1, <2>3, MutateHeld
<1>4. CASE SaveSnapshot(c) \/ Crash(c)
  <2>1. used.crashes \in Nat /\ used["crashes"] = used.crashes /\ Bound["crashes"] = MaxCrashes
    BY DEF TypeOK, Bound
  <2> QED BY <1>4, <2>1 DEF SaveSnapshot, Crash, Spend
<1> QED BY <1>1, <1>2, <1>3, <1>4 DEF LocalStep

\* What a spawned cycle holds.
LEMMA SpawnedHolds ==
  ASSUME NEW h \in HttpCycle
  PROVE  /\ Spawned(h).todo = h.todo /\ Spawned(h).answer = h.answer
         /\ Spawned(h).ph = "acking" => h.ph = "acking"
         /\ IdleHttp.todo = {} /\ IdleHttp.ph = "idle"
         /\ \A k \in Keys : IdleHttp.answer.rows[k] = NoRow
  BY DEF Spawned, HttpCycle, IdleHttp, NoAnswer, EmptyTable

\* The end of a session keeps HeldInv: its pushes were good.
LEMMA EndHeld ==
  ASSUME TypeOK, NEW D \in SUBSET Nat, NEW W \in SUBSET Nat, NEW w,
         w = World(room.rows, horizon, D, W), HeldFor(w),
         NEW c \in Devices, NEW d, DocStep(w, w, c, doc[c], d), EndSession(c, d),
         UNCHANGED <<room, acked, horizon>>
  PROVE  HeldInv'
<1>1. /\ doc' = [doc EXCEPT ![c] = MarkDisconnected(d)]
      /\ c2s' = [c2s EXCEPT ![c] = <<>>] /\ s2c' = [s2c EXCEPT ![c] = <<>>]
      /\ sending' = [sending EXCEPT ![c] = {}]
      /\ http' = [http EXCEPT ![c] = Spawned(http[c])]
      /\ late' = late \union Orphans(c)
  BY DEF EndSession
<1>2. /\ OthersStay(c) /\ doc'[c] = MarkDisconnected(d) /\ sending'[c] = {}
      /\ c2s'[c] = <<>> /\ s2c'[c] = <<>> /\ http'[c] = Spawned(http[c])
  BY <1>1 DEF OthersStay, TypeOK
<1>3. DocStep(w, w, c, doc[c], MarkDisconnected(d))
  <2>1. d \in Replica /\ WorldOK(w) /\ DocGood(w, c, d) /\ doc[c] \in Replica
    BY DEF DocStep, TypeOK
  <2>2. DocStep(w, w, c, d, MarkDisconnected(d))
    BY <2>1, QuietSteps
  <2> QED BY <2>1, <2>2, StepTwice
<1>4. UpGood(w, c, doc'[c], <<>>) /\ DownGood(w, c, doc'[c], <<>>)
  BY DEF UpGood, DownGood
<1>5. CycleGood(w, c, doc'[c], Spawned(http[c]))
  <2>0. doc[c] \in Replica /\ CycleGood(w, c, doc[c], http[c])
    BY HeldFacts
  <2>1. CycleGood(w, c, MarkDisconnected(d), http[c])
    BY <1>3, <2>0, LaterDevice
  <2>2. http[c] \in HttpCycle
    BY DEF TypeOK
  <2> QED BY <1>2, <2>1, <2>2, SpawnedHolds DEF CycleGood
<1>6. LateGood(w, late')
  <2>1. \A b \in Orphans(c) : BatchGood(w, c, doc[c], b)
    BY HeldFacts DEF Orphans, UpGood
  <2> QED BY <1>1, <2>1, HeldFacts DEF LateGood, BatchGood
<1>7. room'.rows = room.rows
  OBVIOUS
<1> QED BY <1>2, <1>3, <1>4, <1>5, <1>6, <1>7, QuietHeld

\* The actor's channel, frame by frame.
LEMMA FrameMoves ==
  ASSUME NEW w, NEW c, NEW d
  PROVE  /\ \A q \in Seq(Frame) : q # <<>> /\ DownGood(w, c, d, q) =>
              /\ DownGood(w, c, d, Tail(q)) /\ Head(q) \in Frame
              /\ Head(q).t = "ack" => AckGood(w, c, d, Head(q).batch)
              /\ Head(q).t # "ack" => TableGood(w, Head(q).rows)
         /\ \A q \in Seq(Frame), f \in Frame :
              /\ DownGood(w, c, d, q)
              /\ IF f.t = "ack" THEN AckGood(w, c, d, f.batch) ELSE TableGood(w, f.rows)
              => DownGood(w, c, d, Append(q, f))
         /\ \A q \in Seq(ClientFrame) : q # <<>> /\ UpGood(w, c, d, q) =>
              /\ UpGood(w, c, d, Tail(q))
              /\ Head(q).t = "push" => BatchGood(w, c, d, Head(q).push)
         /\ \A q \in Seq(ClientFrame) : \A b : UpGood(w, c, d, q) /\ BatchGood(w, c, d, b)
              => UpGood(w, c, d, Append(q, [t |-> "push", push |-> b]))
<1>1. ASSUME NEW q \in Seq(Frame), q # <<>>, DownGood(w, c, d, q)
      PROVE  /\ DownGood(w, c, d, Tail(q)) /\ Head(q) \in Frame
             /\ Head(q).t = "ack" => AckGood(w, c, d, Head(q).batch)
             /\ Head(q).t # "ack" => TableGood(w, Head(q).rows)
  <2>1. /\ Head(q) \in Frame /\ 1 \in DOMAIN q /\ Head(q) = q[1]
        /\ \A i \in DOMAIN Tail(q) : i + 1 \in DOMAIN q /\ Tail(q)[i] = q[i + 1]
    BY <1>1
  <2> QED BY <1>1, <2>1 DEF DownGood
<1>2. ASSUME NEW q \in Seq(Frame), NEW f \in Frame, DownGood(w, c, d, q),
             IF f.t = "ack" THEN AckGood(w, c, d, f.batch) ELSE TableGood(w, f.rows)
      PROVE  DownGood(w, c, d, Append(q, f))
  <2>1. \A i \in DOMAIN Append(q, f) : \/ i \in DOMAIN q /\ Append(q, f)[i] = q[i]
                                       \/ Append(q, f)[i] = f
    BY <1>2
  <2> QED BY <1>2, <2>1 DEF DownGood
<1>3. ASSUME NEW q \in Seq(ClientFrame), q # <<>>, UpGood(w, c, d, q)
      PROVE  /\ UpGood(w, c, d, Tail(q))
             /\ Head(q).t = "push" => BatchGood(w, c, d, Head(q).push)
  <2>1. /\ 1 \in DOMAIN q /\ Head(q) = q[1]
        /\ \A i \in DOMAIN Tail(q) : i + 1 \in DOMAIN q /\ Tail(q)[i] = q[i + 1]
    BY <1>3
  <2> QED BY <1>3, <2>1 DEF UpGood
<1>4. ASSUME NEW q \in Seq(ClientFrame), NEW b, UpGood(w, c, d, q), BatchGood(w, c, d, b)
      PROVE  UpGood(w, c, d, Append(q, [t |-> "push", push |-> b]))
  <2> DEFINE f == [t |-> "push", push |-> b]
  <2>1. f.push = b
    OBVIOUS
  <2> HIDE DEF f
  <2>2. \A i \in DOMAIN Append(q, f) : \/ i \in DOMAIN q /\ Append(q, f)[i] = q[i]
                                       \/ Append(q, f)[i] = f
    BY <1>4
  <2>3. UpGood(w, c, d, Append(q, f))
    BY <1>4, <2>1, <2>2 DEF UpGood
  <2> QED BY <2>3 DEF f
<1> QED BY <1>1, <1>2, <1>3, <1>4

\* Taking the pushable batches of a replica hands over good ones.
LEMMA TakeStep ==
  ASSUME NEW w, WorldOK(w), NEW c \in Devices, NEW d \in Replica, NEW e, DocStep(w, w, c, d, e)
  PROVE  /\ DocStep(w, w, c, d, TakePushable(e))
         /\ \A b \in Pushable(e) : BatchGood(w, c, TakePushable(e), b)
<1>1. e \in Replica /\ DocGood(w, c, e)
  BY DEF DocStep
<1>2. DocStep(w, w, c, e, TakePushable(e))
  BY <1>1, QuietSteps
<1>3. \A b \in Pushable(e) : BatchGood(w, c, e, b)
  BY <1>1 DEF Pushable, DocGood
<1> QED BY <1>1, <1>2, <1>3, StepTwice, LaterGood

\* What an ack tells its device is borne out.
LEMMA OpsOfHeld ==
  ASSUME NEW w, NEW c, NEW d, NEW id, AckGood(w, c, d, id)
  PROVE  \A a \in OpsOf(d, id) : Held(w, a.key, a)
<1> SUFFICES ASSUME NEW a \in OpsOf(d, id) PROVE Held(w, a.key, a)
  OBVIOUS
<1>1. PICK b \in d.pending, k \in Keys :
        b.batch = id /\ a = [key |-> k, op |-> b.ops[k].op, hlc |-> b.ops[k].hlc]
  BY DEF OpsOf
<1>2. a.key = k /\ a.op = b.ops[k].op /\ a.hlc = b.ops[k].hlc
  BY <1>1
<1>3. Held(w, k, b.ops[k])
  BY <1>1 DEF AckGood
<1> QED BY <1>2, <1>3 DEF Held, Holds

\* The session actor keeps HeldInv.
LEMMA SessionHeld ==
  ASSUME TypeOK, HeldInv, NEW c \in Devices, SessionStep(c)
  PROVE  HeldInv'
<1>w. PICK D, W \in SUBSET Nat : HeldFor(World(room.rows, horizon, D, W))
  BY DEF HeldInv
<1> DEFINE w == World(room.rows, horizon, D, W)
<1>h. w = World(room.rows, horizon, D, W) /\ HeldFor(w)
  BY <1>w
<1> HIDE DEF w
<1>d. /\ WorldOK(w) /\ doc[c] \in Replica /\ DocGood(w, c, doc[c])
      /\ \A b \in sending[c] : BatchGood(w, c, doc[c], b)
      /\ UpGood(w, c, doc[c], c2s[c]) /\ DownGood(w, c, doc[c], s2c[c])
      /\ CycleGood(w, c, doc[c], http[c]) /\ LateGood(w, late)
      /\ DocStep(w, w, c, doc[c], doc[c])
  BY <1>h, HeldFacts
<1>t. s2c[c] \in Seq(Frame) /\ c2s[c] \in Seq(ClientFrame) /\ sending[c] \in SUBSET Batch
  BY DEF TypeOK
<1>1. CASE Dial(c)
  <2> DEFINE f == [t |-> "hello", cursor |-> HelloCursor(doc[c])]
  <2>1. /\ c2s' = [c2s EXCEPT ![c] = <<f>>]
        /\ UNCHANGED <<room, doc, s2c, sending, http, late, acked, horizon>>
    BY <1>1 DEF Dial
  <2>2. UpGood(w, c, doc[c], <<f>>)
    BY DEF UpGood
  <2> HIDE DEF f
  <2>3. OthersStay(c) /\ c2s'[c] = <<f>> /\ room'.rows = room.rows
    BY <2>1 DEF OthersStay, TypeOK
  <2> QED BY <1>h, <1>d, <2>1, <2>2, <2>3, QuietHeld
<1>2. CASE RecvState(c)
  <2> DEFINE m == Head(s2c[c])
  <2>1. /\ s2c[c] # <<>> /\ m.t = "state" /\ s2c' = [s2c EXCEPT ![c] = Tail(s2c[c])]
        /\ UNCHANGED <<room, c2s, http, late, acked, horizon>>
    BY <1>2 DEF RecvState
  <2>2. PICK now \in Times :
          LET d == ApplyState(doc[c], c, m.seq, m.full, m.rows, now)
          IN  doc' = [doc EXCEPT ![c] = TakePushable(d)] /\ StartPush(c, Pushable(d))
    BY <1>2 DEF RecvState
  <2> DEFINE d == ApplyState(doc[c], c, m.seq, m.full, m.rows, now)
             e == TakePushable(d)
  <2>3. m \in Frame /\ TableGood(w, m.rows) /\ DownGood(w, c, doc[c], Tail(s2c[c]))
    BY <1>d, <1>t, <2>1, FrameMoves
  <2>4. m.seq \in Nat /\ m.full \in BOOLEAN /\ m.rows \in [Keys -> Row] /\ now \in Nat
    BY <2>1, <2>3, FrameTypes, SyncAssumption
  <2>5. /\ doc' = [doc EXCEPT ![c] = e] /\ sending' = [sending EXCEPT ![c] = Pushable(d)]
    BY <2>2 DEF StartPush
  <2> HIDE DEF m
  <2>6. DocStep(w, w, c, doc[c], d)
    BY <1>d, <2>3, <2>4, StateStep
  <2> HIDE DEF d
  <2>7. DocStep(w, w, c, doc[c], e) /\ \A b \in Pushable(d) : BatchGood(w, c, e, b)
    BY <1>d, <2>6, TakeStep
  <2> HIDE DEF e
  <2>8. /\ OthersStay(c) /\ doc'[c] = e /\ sending'[c] = Pushable(d)
        /\ s2c'[c] = Tail(s2c[c]) /\ room'.rows = room.rows
    BY <2>1, <2>5 DEF OthersStay, TypeOK
  <2>9. UpGood(w, c, e, c2s[c]) /\ DownGood(w, c, e, Tail(s2c[c])) /\ CycleGood(w, c, e, http[c])
    BY <1>d, <2>3, <2>7, LaterDevice
  <2> QED BY <1>h, <1>d, <2>1, <2>7, <2>8, <2>9, QuietHeld
<1>3. CASE SendPush(c)
  <2> DEFINE b == Oldest(sending[c])
             q == Append(c2s[c], [t |-> "push", push |-> b])
  <2>1. /\ sending[c] # {} /\ c2s' = [c2s EXCEPT ![c] = q]
        /\ sending' = [sending EXCEPT ![c] = sending[c] \ {b}]
        /\ UNCHANGED <<room, doc, s2c, http, late, acked, horizon>>
    BY <1>3 DEF SendPush, StartPush
  <2>2. b \in sending[c]
    BY <1>t, <2>1, OldestType
  <2> HIDE DEF b
  <2>3. UpGood(w, c, doc[c], q)
    BY <1>d, <1>t, <2>2, FrameMoves
  <2> HIDE DEF q
  <2>4. /\ OthersStay(c) /\ c2s'[c] = q /\ sending'[c] \subseteq sending[c]
        /\ room'.rows = room.rows
    BY <2>1 DEF OthersStay, TypeOK
  <2> QED BY <1>h, <1>d, <2>1, <2>3, <2>4, QuietHeld
<1>4. CASE Nudge(c)
  <2> DEFINE e == TakePushable(doc[c])
  <2>1. /\ doc' = [doc EXCEPT ![c] = e] /\ sending' = [sending EXCEPT ![c] = Pushable(doc[c])]
        /\ UNCHANGED <<room, c2s, s2c, http, late, acked, horizon>>
    BY <1>4 DEF Nudge, StartPush
  <2>2. DocStep(w, w, c, doc[c], e) /\ \A b \in Pushable(doc[c]) : BatchGood(w, c, e, b)
    BY <1>d, TakeStep
  <2> HIDE DEF e
  <2>3. /\ OthersStay(c) /\ doc'[c] = e /\ sending'[c] = Pushable(doc[c])
        /\ room'.rows = room.rows
    BY <2>1 DEF OthersStay, TypeOK
  <2>4. UpGood(w, c, e, c2s[c]) /\ DownGood(w, c, e, s2c[c]) /\ CycleGood(w, c, e, http[c])
    BY <1>d, <2>2, LaterDevice
  <2> QED BY <1>h, <1>d, <2>1, <2>2, <2>3, <2>4, QuietHeld
<1>5. CASE RecvRows(c)
  <2> DEFINE m == Head(s2c[c])
             d == ApplyRows(doc[c], m.seq, m.rows)
  <2>1. s2c[c] # <<>> /\ m.t = "rows" /\ UNCHANGED <<room, acked, horizon>>
    BY <1>5 DEF RecvRows
  <2>2. m \in Frame /\ TableGood(w, m.rows) /\ DownGood(w, c, doc[c], Tail(s2c[c]))
    BY <1>d, <1>t, <2>1, FrameMoves
  <2>3. m.seq \in Nat /\ m.rows \in [Keys -> Row]
    BY <2>1, <2>2, FrameTypes
  <2>4. DocStep(w, w, c, doc[c], d)
    <3> HIDE DEF m
    <3> QED BY <1>d, <2>2, <2>3, QuietSteps
  <2>5. CASE Gap(doc[c], m.seq)
    <3>1. EndSession(c, d)
      BY <1>5, <2>5 DEF RecvRows
    <3> HIDE DEF d
    <3> QED BY <1>h, <2>1, <2>4, <3>1, EndHeld
  <2>6. CASE ~Gap(doc[c], m.seq)
    <3>1. /\ doc' = [doc EXCEPT ![c] = d] /\ s2c' = [s2c EXCEPT ![c] = Tail(s2c[c])]
          /\ UNCHANGED <<c2s, sending, http, late>>
      BY <1>5, <2>6 DEF RecvRows
    <3> HIDE DEF d
    <3>2. OthersStay(c) /\ doc'[c] = d /\ s2c'[c] = Tail(s2c[c]) /\ room'.rows = room.rows
      BY <2>1, <3>1 DEF OthersStay, TypeOK
    <3>3. /\ UpGood(w, c, d, c2s[c]) /\ DownGood(w, c, d, Tail(s2c[c]))
          /\ CycleGood(w, c, d, http[c]) /\ \A b \in sending[c] : BatchGood(w, c, d, b)
      BY <1>d, <2>2, <2>4, LaterDevice, LaterGood
    <3> QED BY <1>h, <1>d, <2>1, <2>4, <3>1, <3>2, <3>3, QuietHeld
  <2> QED BY <2>5, <2>6
<1>6. CASE RecvAck(c)
  <2> DEFINE m == Head(s2c[c])
             d == AckBatch(doc[c], m.batch)
  <2>1. /\ s2c[c] # <<>> /\ m.t = "ack" /\ doc' = [doc EXCEPT ![c] = d]
        /\ acked' = acked \union OpsOf(doc[c], m.batch)
        /\ s2c' = [s2c EXCEPT ![c] = Tail(s2c[c])]
        /\ UNCHANGED <<room, c2s, sending, http, late, horizon>>
    BY <1>6 DEF RecvAck
  <2>2. AckGood(w, c, doc[c], m.batch) /\ DownGood(w, c, doc[c], Tail(s2c[c]))
    BY <1>d, <1>t, <2>1, FrameMoves
  <2>3. DocStep(w, w, c, doc[c], d)
    <3> HIDE DEF m
    <3> QED BY <1>d, QuietSteps
  <2>4. \A a \in acked' : a \in acked \/ Held(w, a.key, a)
    <3> HIDE DEF m
    <3> QED BY <2>1, <2>2, OpsOfHeld
  <2> HIDE DEF m, d
  <2>5. OthersStay(c) /\ doc'[c] = d /\ s2c'[c] = Tail(s2c[c]) /\ room'.rows = room.rows
    BY <2>1 DEF OthersStay, TypeOK
  <2>6. /\ UpGood(w, c, d, c2s[c]) /\ DownGood(w, c, d, Tail(s2c[c]))
        /\ CycleGood(w, c, d, http[c]) /\ \A b \in sending[c] : BatchGood(w, c, d, b)
    BY <1>d, <2>2, <2>3, LaterDevice, LaterGood
  <2> QED BY <1>h, <1>d, <2>1, <2>3, <2>4, <2>5, <2>6, QuietHeld
<1>7. CASE RecvClose(c)
  <2>1. EndSession(c, doc[c]) /\ UNCHANGED <<room, acked, horizon>>
    BY <1>7 DEF RecvClose
  <2> QED BY <1>h, <1>d, <2>1, EndHeld
<1> QED BY <1>1, <1>2, <1>3, <1>4, <1>5, <1>6, <1>7 DEF SessionStep

\* The ack of a good batch is good once the room bears the batch out.
LEMMA AckFromBatch ==
  ASSUME NEW w, NEW v, NEW c, NEW d, NEW b, BatchGood(w, c, d, b),
         \A k \in Keys : Held(v, k, b.ops[k])
  PROVE  AckGood(v, c, d, b.batch)
  BY DEF BatchGood, AckGood

\* A row the room answers with is good.
LEMMA AnswerGood ==
  ASSUME NEW w, WorldOK(w), NEW r, r.rows = w.rows, NEW cursor
  PROVE  TableGood(w, Answer(r, cursor).rows)
<1>1. /\ \A k \in Keys : \/ Answer(r, cursor).rows[k] = w.rows[k]
                         \/ Answer(r, cursor).rows[k] = NoRow
      /\ TableGood(w, w.rows)
  BY DEF Answer, RowsSince, WorldOK
<1> QED BY <1>1, NoRowGood DEF TableGood

\* The HTTPS cycle, beside its replica.
LEMMA CycleHeld ==
  ASSUME TypeOK, NEW D \in SUBSET Nat, NEW W \in SUBSET Nat, NEW w,
         w = World(room.rows, horizon, D, W), HeldFor(w),
         NEW c \in Devices, NEW e, DocStep(w, w, c, doc[c], e),
         NEW h, CycleGood(w, c, e, h), LateGood(w, late'),
         \A a \in acked' : a \in acked \/ Held(w, a.key, a),
         doc' = [doc EXCEPT ![c] = e], http' = [http EXCEPT ![c] = h],
         UNCHANGED <<room, c2s, s2c, sending, horizon>>
  PROVE  HeldInv'
<1>1. doc[c] \in Replica /\ OthersStay(c) /\ doc'[c] = e /\ http'[c] = h
  BY DEF OthersStay, TypeOK
<1>2. /\ UpGood(w, c, doc[c], c2s[c]) /\ DownGood(w, c, doc[c], s2c[c])
      /\ \A b \in sending[c] : BatchGood(w, c, doc[c], b)
  BY HeldFacts
<1>3. /\ UpGood(w, c, e, c2s[c]) /\ DownGood(w, c, e, s2c[c])
      /\ \A b \in sending[c] : BatchGood(w, c, e, b)
  BY <1>1, <1>2, LaterDevice, LaterGood
<1>4. room'.rows = room.rows
  OBVIOUS
<1> QED BY <1>1, <1>3, <1>4, QuietHeld

\* The steps of the HTTPS cycle, its failures and its GET keep HeldInv.
LEMMA HttpHeld ==
  ASSUME TypeOK, HeldInv, NEW c \in Devices,
         HttpStep(c) \/ HttpPushFails(c) \/ HttpPullFails(c) \/ RoomRows(c)
  PROVE  HeldInv'
<1>w. PICK D, W \in SUBSET Nat : HeldFor(World(room.rows, horizon, D, W))
  BY DEF HeldInv
<1> DEFINE w == World(room.rows, horizon, D, W)
<1>h. w = World(room.rows, horizon, D, W) /\ HeldFor(w) /\ w.rows = room.rows
  BY <1>w DEF World
<1> HIDE DEF w
<1>d. /\ WorldOK(w) /\ doc[c] \in Replica /\ DocGood(w, c, doc[c])
      /\ CycleGood(w, c, doc[c], http[c]) /\ LateGood(w, late)
      /\ DocStep(w, w, c, doc[c], doc[c])
  BY <1>h, HeldFacts
<1>t. http[c] \in HttpCycle /\ doc = [doc EXCEPT ![c] = doc[c]]
  BY DEF TypeOK
<1>i. \A e : CycleGood(w, c, e, IdleHttp)
  BY <1>t, SpawnedHolds, NoRowGood DEF CycleGood, TableGood
<1>1. CASE HttpTake(c)
  <2> DEFINE h == [http[c] EXCEPT !.ph = "push", !.todo = Pushable(doc[c])]
             e == TakePushable(doc[c])
  <2>1. /\ http' = [http EXCEPT ![c] = h] /\ doc' = [doc EXCEPT ![c] = e]
        /\ UNCHANGED <<room, c2s, s2c, sending, late, acked, horizon>>
    BY <1>1 DEF HttpTake, SetHttp
  <2>2. h.ph = "push" /\ h.todo = Pushable(doc[c]) /\ h.answer = http[c].answer
    BY <1>t DEF HttpCycle
  <2>3. DocStep(w, w, c, doc[c], e) /\ \A b \in Pushable(doc[c]) : BatchGood(w, c, e, b)
    BY <1>d, TakeStep
  <2> HIDE DEF h, e
  <2>4. CycleGood(w, c, e, h)
    BY <1>d, <2>2, <2>3 DEF CycleGood
  <2> QED BY <1>h, <1>d, <2>1, <2>3, <2>4, CycleHeld
<1>2. CASE HttpAck(c)
  <2> DEFINE b == Oldest(http[c].todo)
             h == [http[c] EXCEPT !.ph = "push", !.todo = @ \ {b}]
             e == AckBatch(doc[c], b.batch)
  <2>1. /\ http[c].ph = "acking"
        /\ http' = [http EXCEPT ![c] = h] /\ doc' = [doc EXCEPT ![c] = e]
        /\ acked' = acked \union OpsOf(doc[c], b.batch)
        /\ UNCHANGED <<room, c2s, s2c, sending, late, horizon>>
    BY <1>2 DEF HttpAck, SetHttp
  <2>2. h.ph = "push" /\ h.todo = http[c].todo \ {b} /\ h.answer = http[c].answer
    BY <1>t DEF HttpCycle
  <2>3. AckGood(w, c, doc[c], b.batch)
    BY <1>d, <2>1 DEF CycleGood
  <2>4. \A a \in acked' : a \in acked \/ Held(w, a.key, a)
    <3> HIDE DEF b
    <3> QED BY <2>1, <2>3, OpsOfHeld
  <2> HIDE DEF b
  <2>5. DocStep(w, w, c, doc[c], e)
    BY <1>d, QuietSteps
  <2> HIDE DEF h, e
  <2>6. CycleGood(w, c, e, http[c])
    BY <1>d, <2>5, LaterDevice
  <2>7. CycleGood(w, c, e, h)
    BY <2>2, <2>6 DEF CycleGood
  <2> QED BY <1>h, <1>d, <2>1, <2>4, <2>5, <2>7, CycleHeld
<1>3. CASE HttpPull(c)
  <2> DEFINE h == [http[c] EXCEPT !.ph = "pulling", !.since = doc[c].cursor]
  <2>1. /\ http' = [http EXCEPT ![c] = h]
        /\ UNCHANGED <<room, doc, c2s, s2c, sending, late, acked, horizon>>
    BY <1>3 DEF HttpPull, SetHttp
  <2>2. h.ph = "pulling" /\ h.todo = http[c].todo /\ h.answer = http[c].answer
    BY <1>t DEF HttpCycle
  <2> HIDE DEF h
  <2>3. CycleGood(w, c, doc[c], h)
    BY <1>d, <2>2 DEF CycleGood
  <2> QED BY <1>h, <1>d, <1>t, <2>1, <2>3, CycleHeld
<1>4. CASE HttpApply(c)
  <2> DEFINE m == http[c].answer
  <2>1. m.seq \in Nat /\ m.full \in BOOLEAN /\ m.rows \in [Keys -> Row] /\ TableGood(w, m.rows)
    BY <1>d, <1>t DEF HttpCycle, CycleGood
  <2>2. PICK now \in Times :
          doc' = [doc EXCEPT ![c] = ApplyState(doc[c], c, m.seq, m.full, m.rows, now)]
    BY <1>4 DEF HttpApply
  <2>3. /\ http' = [http EXCEPT ![c] = IdleHttp] /\ now \in Nat
        /\ UNCHANGED <<room, c2s, s2c, sending, late, acked, horizon>>
    BY <1>4, SyncAssumption DEF HttpApply, SetHttp
  <2> HIDE DEF m
  <2>4. DocStep(w, w, c, doc[c], ApplyState(doc[c], c, m.seq, m.full, m.rows, now))
    BY <1>d, <2>1, <2>3, StateStep
  <2> QED BY <1>h, <1>d, <1>i, <2>2, <2>3, <2>4, CycleHeld
<1>5. CASE HttpPushFails(c)
  <2> DEFINE h == [http[c] EXCEPT !.ph = "push", !.todo = {}]
             e == MarkDisconnected(doc[c])
  <2>1. /\ http[c].todo # {}
        /\ http' = [http EXCEPT ![c] = h] /\ doc' = [doc EXCEPT ![c] = e]
        /\ late' = late \union {Oldest(http[c].todo)}
        /\ UNCHANGED <<room, c2s, s2c, sending, acked, horizon>>
    BY <1>5 DEF HttpPushFails, SetHttp
  <2>2. h.ph = "push" /\ h.todo = {} /\ h.answer = http[c].answer
    BY <1>t DEF HttpCycle
  <2>3. DocStep(w, w, c, doc[c], e)
    BY <1>d, QuietSteps
  <2> HIDE DEF h, e
  <2>4. CycleGood(w, c, e, h)
    BY <1>d, <2>2 DEF CycleGood
  <2>5. Oldest(http[c].todo) \in http[c].todo
    BY <1>t, <2>1, OldestType DEF HttpCycle
  <2>6. LateGood(w, late')
    BY <1>d, <2>1, <2>5 DEF LateGood, CycleGood, BatchGood
  <2> QED BY <1>h, <1>d, <2>1, <2>3, <2>4, <2>6, CycleHeld
<1>6. CASE HttpPullFails(c)
  <2>1. /\ http' = [http EXCEPT ![c] = IdleHttp]
        /\ UNCHANGED <<room, doc, c2s, s2c, sending, late, acked, horizon>>
    BY <1>6 DEF HttpPullFails, SetHttp
  <2> QED BY <1>h, <1>d, <1>t, <1>i, <2>1, CycleHeld
<1>7. CASE RoomRows(c)
  <2> DEFINE h == [http[c] EXCEPT !.ph = "answered", !.answer = Answer(room, http[c].since)]
  <2>1. /\ http' = [http EXCEPT ![c] = h]
        /\ UNCHANGED <<room, doc, c2s, s2c, sending, late, acked, horizon>>
    BY <1>7 DEF RoomRows, SetHttp
  <2>2. /\ h.ph = "answered" /\ h.todo = http[c].todo
        /\ h.answer = Answer(room, http[c].since)
    BY <1>t DEF HttpCycle
  <2>3. TableGood(w, Answer(room, http[c].since).rows)
    BY <1>h, <1>d, AnswerGood
  <2> HIDE DEF h
  <2>4. CycleGood(w, c, doc[c], h)
    BY <1>d, <2>2, <2>3 DEF CycleGood
  <2> QED BY <1>h, <1>d, <1>t, <2>1, <2>4, CycleHeld
<1> QED BY <1>1, <1>2, <1>3, <1>4, <1>5, <1>6, <1>7 DEF HttpStep

\* A lost connection and a failed dial keep HeldInv.
LEMMA FailureHeld ==
  ASSUME TypeOK, HeldInv, NEW c \in Devices, Failure(c)
  PROVE  HeldInv'
<1>w. PICK D, W \in SUBSET Nat : HeldFor(World(room.rows, horizon, D, W))
  BY DEF HeldInv
<1> DEFINE w == World(room.rows, horizon, D, W)
<1>h. w = World(room.rows, horizon, D, W) /\ HeldFor(w)
  BY <1>w
<1> HIDE DEF w
<1>d. CycleGood(w, c, doc[c], http[c]) /\ LateGood(w, late) /\ DocStep(w, w, c, doc[c], doc[c])
  BY <1>h, HeldFacts
<1>1. CASE Disconnect(c)
  <2>1. EndSession(c, doc[c]) /\ UNCHANGED <<room, acked, horizon>>
    BY <1>1 DEF Disconnect
  <2> QED BY <1>h, <1>d, <2>1, EndHeld
<1>2. CASE DialFails(c)
  <2>1. /\ http' = [http EXCEPT ![c] = Spawned(http[c])] /\ doc' = [doc EXCEPT ![c] = doc[c]]
        /\ UNCHANGED <<room, c2s, s2c, sending, late, acked, horizon>>
    BY <1>2 DEF DialFails, TypeOK
  <2>2. CycleGood(w, c, doc[c], Spawned(http[c]))
    BY <1>d, SpawnedHolds DEF CycleGood, TypeOK
  <2> QED BY <1>h, <1>d, <2>1, <2>2, CycleHeld
<1>3. CASE HttpPushFails(c) \/ HttpPullFails(c)
  BY <1>3, HttpHeld
<1> QED BY <1>1, <1>2, <1>3 DEF Failure

-----------------------------------------------------------------------------
(* The steps of the room *)

\* Every socket gets good frames, then its reply.
Heard(v, reply) ==
  \A x \in Devices : \E q \in Seq(Frame) : DownGood(v, x, doc[x], q) /\ s2c'[x] = q \o reply[x]

\* A broadcast and its replies, over a batch that is good.
LEMMA PublishHeld ==
  ASSUME TypeOK, NEW D \in SUBSET Nat, NEW W \in SUBSET Nat, NEW w, NEW v,
         w = World(room.rows, horizon, D, W), HeldFor(w),
         v = World(room'.rows, horizon, D, W),
         NEW ops \in [Keys -> Op], \A k \in Keys : OpGood(w, k, ops[k]),
         NEW reply, Publish(ops, reply)
  PROVE  /\ Grows(w, v) /\ WorldOK(v) /\ \A k \in Keys : Held(v, k, ops[k])
         /\ Heard(v, reply)
<1> DEFINE f == [t |-> "rows", seq |-> room'.seq, rows |-> MergedRows(room, ops)]
<1>1. room' = ApplyPushBatch(room, ops) /\ room \in Room
  BY DEF Publish, TypeOK
<1>2. /\ Grows(w, v) /\ WorldOK(v) /\ \A k \in Keys : Held(v, k, ops[k])
      /\ TableGood(v, MergedRows(room, ops))
  <2>1. WorldOK(World(room.rows, horizon, D, W))
    BY DEF HeldFor
  <2> QED BY <1>1, <2>1, PushGrows
<1>3. f \in Frame /\ f.t = "rows" /\ f.rows = MergedRows(room, ops)
  <2>1. room'.seq \in Nat /\ MergedRows(room, ops) \in [Keys -> Row]
    BY <1>1, ApplyPushBatchType DEF Room
  <2> QED BY <2>1 DEF Frame
<1>4. ASSUME NEW x \in Devices
      PROVE  \E q \in Seq(Frame) : DownGood(v, x, doc[x], q) /\ s2c'[x] = q \o reply[x]
  <2>1. s2c'[x] = s2c[x] \o reply[x] \/ s2c'[x] = Append(s2c[x], f) \o reply[x]
    <3>1. PICK missed : s2c' = [y \in Devices |->
           (IF socket[y] = "ready" /\ y \notin missed /\ Touched(room, ops) # {}
              THEN Append(s2c[y], f) ELSE s2c[y]) \o reply[y]]
      BY DEF Publish
    <3> HIDE DEF f
    <3> QED BY <3>1
  <2>2. s2c[x] \in Seq(Frame) /\ doc[x] \in Replica /\ DownGood(w, x, doc[x], s2c[x])
    BY HeldFacts DEF TypeOK
  <2>3. DownGood(v, x, doc[x], s2c[x])
    BY <1>2, <2>2, DeviceGrows
  <2>4. TableGood(v, f.rows) /\ f.t # "ack"
    BY <1>2, <1>3
  <2> HIDE DEF f
  <2>5. f \in Frame
    BY <1>3 DEF f
  <2>6. Append(s2c[x], f) \in Seq(Frame)
    BY <2>2, <2>5
  <2>7. DownGood(v, x, doc[x], Append(s2c[x], f))
    BY <2>2, <2>3, <2>4, <2>5, FrameMoves
  <2> QED BY <2>1, <2>2, <2>3, <2>6, <2>7
<1> QED BY <1>2, <1>4 DEF Heard

\* The room's answers keep HeldInv.
LEMMA RoomStepHeld ==
  ASSUME TypeOK, HeldInv, NEW c \in Devices, RoomStep(c)
  PROVE  HeldInv'
<1>w. PICK D, W \in SUBSET Nat : HeldFor(World(room.rows, horizon, D, W))
  BY DEF HeldInv
<1> DEFINE w == World(room.rows, horizon, D, W)
           v == World(room'.rows, horizon, D, W)
<1>h. /\ w = World(room.rows, horizon, D, W) /\ HeldFor(w) /\ w.rows = room.rows
      /\ v = World(room'.rows, horizon, D, W)
  BY <1>w DEF World
<1> HIDE DEF w, v
<1>d. \A x \in Devices :
        /\ WorldOK(w) /\ doc[x] \in Replica
        /\ UpGood(w, x, doc[x], c2s[x]) /\ DownGood(w, x, doc[x], s2c[x])
        /\ CycleGood(w, x, doc[x], http[x]) /\ DocStep(w, w, x, doc[x], doc[x])
  BY <1>h, HeldFacts
<1>t. /\ c2s[c] \in Seq(ClientFrame) /\ s2c[c] \in Seq(Frame) /\ http[c] \in HttpCycle
  BY DEF TypeOK
<1>1. CASE RoomHello(c)
  <2> DEFINE a == Answer(room, Head(c2s[c]).cursor)
             f == [t |-> "state", seq |-> a.seq, full |-> a.full, rows |-> a.rows]
  <2>1. /\ c2s[c] # <<>> /\ Head(c2s[c]).t = "hello"
        /\ s2c' = [s2c EXCEPT ![c] = Append(s2c[c], f)]
        /\ c2s' = [c2s EXCEPT ![c] = Tail(c2s[c])]
        /\ UNCHANGED <<room, doc, sending, http, late, acked, horizon>>
    BY <1>1 DEF RoomHello
  <2>2. f \in Frame /\ TableGood(w, f.rows) /\ f.t # "ack"
    <3>1. a \in [seq : Nat, full : BOOLEAN, rows : [Keys -> Row]]
      BY <2>1, C2sHeadType, AnswerType DEF TypeOK
    <3>2. TableGood(w, a.rows)
      BY <1>h, <1>d, AnswerGood
    <3> HIDE DEF a
    <3> QED BY <3>1, <3>2 DEF Frame
  <2> HIDE DEF f
  <2>3. DownGood(w, c, doc[c], Append(s2c[c], f)) /\ UpGood(w, c, doc[c], Tail(c2s[c]))
    BY <1>d, <1>t, <2>1, <2>2, FrameMoves
  <2>4. /\ OthersStay(c) /\ s2c'[c] = Append(s2c[c], f) /\ c2s'[c] = Tail(c2s[c])
        /\ room'.rows = room.rows
    BY <2>1 DEF OthersStay, TypeOK
  <2> QED BY <1>h, <1>d, <2>1, <2>3, <2>4, HeldFacts, QuietHeld
<1>2. CASE RoomPush(c)
  <2> DEFINE b == Head(c2s[c]).push
             ack == [t |-> "ack", batch |-> b.batch]
             reply == [NoReply EXCEPT ![c] = <<ack>>]
  <2>1. /\ c2s[c] # <<>> /\ Head(c2s[c]).t = "push" /\ Publish(b.ops, reply)
        /\ c2s' = [c2s EXCEPT ![c] = Tail(c2s[c])]
        /\ UNCHANGED <<doc, sending, http, late, acked, horizon>>
    BY <1>2 DEF RoomPush
  <2>2. b \in Batch /\ b.ops \in [Keys -> Op]
    BY <2>1, C2sHeadType DEF Batch
  <2>3. ack \in Frame /\ ack.t = "ack" /\ ack.batch = b.batch
    BY <2>2 DEF Batch, Frame
  <2>4. BatchGood(w, c, doc[c], b) /\ UpGood(w, c, doc[c], Tail(c2s[c]))
    BY <1>d, <1>t, <2>1, FrameMoves
  <2> HIDE DEF b, ack
  <2>5. reply[c] = <<ack>> /\ \A x \in Devices : x # c => reply[x] = <<>>
    BY NoReplyType DEF NoReply
  <2> HIDE DEF reply
  <2>6. /\ Grows(w, v) /\ WorldOK(v) /\ \A k \in Keys : Held(v, k, b.ops[k])
        /\ Heard(v, reply)
    <3>1. \A k \in Keys : OpGood(w, k, b.ops[k])
      BY <2>4 DEF BatchGood
    <3> QED BY <1>h, <2>1, <2>2, <3>1, PublishHeld
  <2>7. AckGood(v, c, doc[c], ack.batch)
    BY <2>3, <2>4, <2>6, AckFromBatch
  <2>8. ASSUME NEW x \in Devices PROVE DownGood(v, x, doc[x], s2c'[x])
    <3>1. PICK q \in Seq(Frame) : DownGood(v, x, doc[x], q) /\ s2c'[x] = q \o reply[x]
      BY <2>6 DEF Heard
    <3>2. CASE x # c
      <4>1. s2c'[x] = q
        BY <2>5, <3>1, <3>2
      <4> QED BY <3>1, <4>1
    <3>3. CASE x = c
      <4>0. q \o <<ack>> = Append(q, ack)
        BY <2>3
      <4>1. s2c'[x] = Append(q, ack)
        BY <2>5, <3>1, <3>3, <4>0
      <4> QED BY <2>3, <2>7, <3>1, <3>3, <4>1, FrameMoves
    <3> QED BY <3>2, <3>3
  <2>9. ASSUME NEW x \in Devices
        PROVE  UpGood(v, x, doc[x], c2s'[x]) /\ CycleGood(v, x, doc[x], http'[x])
    <3>1. c2s'[x] = IF x = c THEN Tail(c2s[c]) ELSE c2s[x]
      BY <2>1 DEF TypeOK
    <3>2. UpGood(w, x, doc[x], c2s'[x]) /\ CycleGood(w, x, doc[x], http[x])
      BY <1>d, <2>4, <3>1
    <3> QED BY <1>d, <2>1, <2>6, <3>2, DeviceGrows
  <2>10. horizon' = horizon
    BY <2>1
  <2> QED BY <1>h, <2>1, <2>6, <2>8, <2>9, <2>10, RoomHeld
<1>3. CASE RoomPost(c)
  <2> DEFINE b == Oldest(http[c].todo)
             h == [http[c] EXCEPT !.ph = "acking"]
  <2>1. /\ http[c].todo # {} /\ Publish(b.ops, NoReply) /\ http' = [http EXCEPT ![c] = h]
        /\ UNCHANGED <<doc, sending, c2s, late, acked, horizon>>
    BY <1>3 DEF RoomPost, SetHttp
  <2>2. h.ph = "acking" /\ h.todo = http[c].todo /\ h.answer = http[c].answer
    BY <1>t DEF HttpCycle
  <2>3. b \in http[c].todo /\ b.ops \in [Keys -> Op]
    BY <1>t, <2>1, OldestType DEF HttpCycle, Batch
  <2>4. BatchGood(w, c, doc[c], b)
    BY <1>d, <2>3 DEF CycleGood
  <2>b. b = Oldest(http[c].todo)
    OBVIOUS
  <2> HIDE DEF b, h
  <2>5. /\ Grows(w, v) /\ WorldOK(v) /\ \A k \in Keys : Held(v, k, b.ops[k])
        /\ Heard(v, NoReply)
    <3>1. \A k \in Keys : OpGood(w, k, b.ops[k])
      BY <2>4 DEF BatchGood
    <3> QED BY <1>h, <2>1, <2>3, <3>1, PublishHeld
  <2>6. AckGood(v, c, doc[c], b.batch)
    BY <2>4, <2>5, AckFromBatch
  <2>7. ASSUME NEW x \in Devices PROVE DownGood(v, x, doc[x], s2c'[x])
    <3>1. PICK q \in Seq(Frame) : DownGood(v, x, doc[x], q) /\ s2c'[x] = q \o <<>>
      BY <2>5 DEF Heard, NoReply
    <3> QED BY <3>1
  <2>8. ASSUME NEW x \in Devices
        PROVE  UpGood(v, x, doc[x], c2s'[x]) /\ CycleGood(v, x, doc[x], http'[x])
    <3>1. UpGood(v, x, doc[x], c2s[x]) /\ CycleGood(v, x, doc[x], http[x])
      BY <1>d, <2>5, DeviceGrows
    <3>2. http'[x] = IF x = c THEN h ELSE http[x]
      BY <2>1 DEF TypeOK
    <3>3. x = c => CycleGood(v, x, doc[x], h)
      BY <2>2, <2>6, <2>b, <3>1 DEF CycleGood
    <3> QED BY <2>1, <3>1, <3>2, <3>3
  <2>9. horizon' = horizon
    BY <2>1
  <2> QED BY <1>h, <2>1, <2>5, <2>7, <2>8, <2>9, RoomHeld
<1>4. CASE RoomRows(c)
  BY <1>4, HttpHeld
<1> QED BY <1>1, <1>2, <1>3, <1>4 DEF RoomStep

\* Late pushes and the alarm keep HeldInv; the room is never wiped.
LEMMA RoomAloneHeld ==
  ASSUME MaxResets = 0, TypeOK, HeldInv,
         RoomLate \/ RoomAlarm \/ RoomAlarmEnds \/ RoomAlarmFails \/ RoomReset
  PROVE  HeldInv'
<1>w. PICK D, W \in SUBSET Nat : HeldFor(World(room.rows, horizon, D, W))
  BY DEF HeldInv
<1> DEFINE w == World(room.rows, horizon, D, W)
<1>h. w = World(room.rows, horizon, D, W) /\ HeldFor(w)
  BY <1>w
<1> HIDE DEF w
<1>d. /\ \A x \in Devices : /\ doc[x] \in Replica /\ WorldOK(w)
                            /\ UpGood(w, x, doc[x], c2s[x]) /\ DownGood(w, x, doc[x], s2c[x])
                            /\ CycleGood(w, x, doc[x], http[x])
      /\ WorldOK(w) /\ LateGood(w, late)
  BY <1>h, HeldFacts DEF HeldFor
<1>1. CASE RoomLate
  <2> DEFINE v == World(room'.rows, horizon, D, W)
  <2>h. v = World(room'.rows, horizon, D, W)
    OBVIOUS
  <2> HIDE DEF v
  <2>1. PICK b \in late : /\ Publish(b.ops, NoReply)
                          /\ UNCHANGED <<doc, sending, c2s, http, late, acked, horizon>>
    BY <1>1 DEF RoomLate
  <2>2. b.ops \in [Keys -> Op] /\ \A k \in Keys : OpGood(w, k, b.ops[k])
    BY <1>d DEF TypeOK, Batch, LateGood
  <2>3. Grows(w, v) /\ WorldOK(v) /\ Heard(v, NoReply)
    BY <1>h, <2>h, <2>1, <2>2, PublishHeld
  <2>4. ASSUME NEW x \in Devices PROVE DownGood(v, x, doc[x], s2c'[x])
    <3>1. PICK q \in Seq(Frame) : DownGood(v, x, doc[x], q) /\ s2c'[x] = q \o <<>>
      BY <2>3 DEF Heard, NoReply
    <3> QED BY <3>1
  <2>5. \A x \in Devices : UpGood(v, x, doc[x], c2s[x]) /\ CycleGood(v, x, doc[x], http[x])
    BY <1>d, <2>3, DeviceGrows
  <2>6. horizon' = horizon
    BY <2>1
  <2> QED BY <1>h, <2>h, <2>1, <2>3, <2>4, <2>5, <2>6, RoomHeld
<1>2. CASE RoomAlarm
  <2> DEFINE v == World(room'.rows, horizon', D, W)
  <2>h. v = World(room'.rows, horizon', D, W)
    OBVIOUS
  <2> HIDE DEF v
  <2>1. PICK h \in Horizons :
          /\ room' = AlarmFires(room, h)
          /\ horizon' = IF room.dirty /\ h > horizon THEN h ELSE horizon
    BY <1>2 DEF RoomAlarm
  <2>2. UNCHANGED <<doc, sending, c2s, s2c, http, late, acked>>
    BY <1>2 DEF RoomAlarm
  <2>3. /\ room \in Room /\ room' \in Room /\ horizon \in Nat /\ h \in Nat
        /\ \A k \in Keys : room.rows[k].delHlc \in Int
    <3>1. room \in Room /\ horizon \in Nat
      BY DEF TypeOK
    <3>2. \A k \in Keys : room.rows[k].delHlc \in Nat \union {-1}
      BY <3>1 DEF Room, Row, Hlc, NoHlc
    <3>3. h \in Nat
      BY <3>2 DEF Horizons
    <3> QED BY <2>1, <3>1, <3>2, <3>3, AlarmTypes
  <2>4. horizon' \in Nat /\ horizon' >= horizon /\ (room.dirty => horizon' >= h)
    BY <2>1, <2>3
  <2>5. ASSUME NEW k \in Keys
        PROVE  \/ room'.rows[k] = room.rows[k]
               \/ /\ room'.rows[k] = NoRow /\ room.rows[k].st = "deleted"
                  /\ room.rows[k].delHlc < horizon'
    <3> DEFINE fired == [room EXCEPT !.alarm = FALSE]
    <3>1. fired.rows = room.rows /\ fired \in Room
      BY <2>3 DEF Room
    <3>2. \/ room' = fired
          \/ room.dirty /\ room'.rows = Purge(fired, h).rows
      <4>1. Purge(fired, h) \in Room
        BY <3>1, PurgeType
      <4> HIDE DEF fired
      <4>2. \/ room' = fired
            \/ room.dirty /\ room' = [Purge(fired, h) EXCEPT !.putting = Purge(fired, h).seq]
            \/ room.dirty /\ room' = [Purge(fired, h) EXCEPT !.dirty = FALSE]
        BY <2>1 DEF AlarmFires, fired
      <4> QED BY <4>1, <4>2 DEF Room
    <3> HIDE DEF fired
    <3>3. Purge(fired, h).rows[k] = IF k \in Expired(fired, h) THEN NoRow ELSE fired.rows[k]
      BY <3>1 DEF Purge, Room
    <3>4. k \in Expired(fired, h) => room.rows[k].st = "deleted" /\ room.rows[k].delHlc < h
      BY <3>1 DEF Expired
    <3> QED BY <2>3, <2>4, <3>1, <3>2, <3>3, <3>4
  <2>6. Grows(w, v) /\ WorldOK(v)
    BY <1>h, <1>d, <2>h, <2>3, <2>4, <2>5, PurgeGrows
  <2>7. \A x \in Devices : /\ UpGood(v, x, doc[x], c2s[x]) /\ DownGood(v, x, doc[x], s2c[x])
                           /\ CycleGood(v, x, doc[x], http[x])
    BY <1>d, <2>6, DeviceGrows
  <2> QED BY <1>h, <2>h, <2>2, <2>6, <2>7, RoomHeld
<1>3. CASE RoomAlarmEnds \/ RoomAlarmFails
  <2>1. UNCHANGED <<doc, sending, c2s, s2c, http, late, acked, horizon>>
    BY <1>3 DEF RoomAlarmEnds, RoomAlarmFails
  <2>2. room'.rows = room.rows
    BY <1>3 DEF RoomAlarmEnds, RoomAlarmFails, AlarmEnds, AlarmFails, TypeOK, Room
  <2>3. Grows(w, w)
    BY DEF Grows
  <2>4. horizon' = horizon
    BY <2>1
  <2> QED BY <1>h, <1>d, <2>1, <2>2, <2>3, <2>4, RoomHeld
<1>4. CASE RoomReset
  <2>1. used.resets \in Nat /\ used["resets"] = used.resets /\ Bound["resets"] = MaxResets
    BY DEF TypeOK, Bound
  <2> QED BY <1>4, <2>1 DEF RoomReset, Spend
<1> QED BY <1>1, <1>2, <1>3, <1>4

\* HeldInv is inductive.
LEMMA HeldStep ==
  ASSUME MaxCrashes = 0, MaxResets = 0
  PROVE  TypeOK /\ HeldInv /\ [Next]_vars => HeldInv'
<1> SUFFICES ASSUME TypeOK, HeldInv, [Next]_vars PROVE HeldInv'
  OBVIOUS
<1>1. CASE UNCHANGED vars
  BY <1>1 DEF vars, HeldInv, HeldFor
<1>2. ASSUME NEW c \in Devices,
             LocalStep(c) \/ SessionStep(c) \/ HttpStep(c) \/ Failure(c) \/ RoomStep(c)
      PROVE  HeldInv'
  BY <1>2, LocalHeld, SessionHeld, HttpHeld, FailureHeld, RoomStepHeld
<1>3. CASE RoomLate \/ RoomAlarm \/ RoomAlarmEnds \/ RoomAlarmFails \/ RoomReset
  BY <1>3, RoomAloneHeld
<1> QED BY <1>1, <1>2, <1>3 DEF Next

-----------------------------------------------------------------------------
(* The start *)

\* A new replica that boots is good; the clocks it gives are of writes.
LEMMA BootHeld ==
  ASSUME Fields # {}, NEW c \in Devices, NEW now \in Times
  PROVE  \E X \in SUBSET Nat :
           DocStep(World(EmptyTable, 0, {}, {}), World(EmptyTable, 0, {}, X),
                   c, Reload(NewDoc), Boot(NewDoc, c, now))
<1> DEFINE w == World(EmptyTable, 0, {}, {})
           d == Reload(NewDoc)
<1>1. WorldOK(w)
  <2>1. w.rows = EmptyTable /\ w.h = 0 /\ w.del = {} /\ w.wr = {}
    BY DEF World
  <2>2. \A k \in Keys : EmptyTable[k] = NoRow
    BY DEF EmptyTable
  <2> HIDE DEF w
  <2> QED BY <2>1, <2>2, NoRowGood, TableTypes DEF WorldOK, TableGood
<1>2. /\ d \in Replica /\ d.clock = NewDoc.clock /\ d.pending = {} /\ d.auth = EmptyTable
      /\ d.clock.counter <= MaxCounter
  <2>1. NewDoc \in Replica
    BY TableTypes DEF NewDoc, Replica, Clock
  <2>2. d \in Replica
    BY <2>1, MarkTypes
  <2>3. d.clock = NewDoc.clock /\ d.pending = {} /\ d.auth = EmptyTable
    BY DEF Reload, MarkDisconnected, NewDoc
  <2>4. NewDoc.clock.counter = 0 /\ 0 <= MaxCounter
    BY CoreAssumption DEF NewDoc
  <2> QED BY <2>2, <2>3, <2>4
<1> HIDE DEF d
<1>3. DocGood(w, c, d)
  <2>1. TableGood(w, EmptyTable)
    BY NoRowGood DEF TableGood, EmptyTable
  <2> QED BY <1>2, <2>1 DEF DocGood
<1>4. DocStep(w, w, c, d, d)
  BY <1>1, <1>2, <1>3, SameStep
<1>5. CASE DeviceRow[c] = NoHost
  BY <1>4, <1>5 DEF Boot, d
<1>6. CASE DeviceRow[c] # NoHost
  <2>1. DeviceRow[c] \in Keys /\ now \in Nat
    BY <1>6, SyncAssumption
  <2>2. FullSet \in [Fields -> Values \union {Null, Unset}] /\ FullSet # NoSet
    <3>1. \A f \in Fields : FullSet[f] \in Values
      BY CoreAssumption DEF FullSet
    <3>2. PICK f \in Fields : TRUE
      OBVIOUS
    <3>3. FullSet[f] # NoSet[f]
      BY <3>1, <3>2, CoreAssumption DEF NoSet
    <3> QED BY <3>1, <3>3 DEF FullSet
  <2>3. \E X \in SUBSET Nat :
          DocStep(w, World(EmptyTable, 0, {}, X), c, d,
                  Write(d, c, DeviceRow[c], "upsert", FullSet, now))
    BY <1>1, <1>2, <1>3, <2>1, <2>2, WriteStep
  <2> QED BY <1>6, <2>3 DEF Boot, d
<1> QED BY <1>5, <1>6

\* HeldInv holds at the start.
LEMMA InitHeld ==
  ASSUME Fields # {}
  PROVE  Init => HeldInv
<1> SUFFICES ASSUME Init PROVE HeldInv
  OBVIOUS
<1> DEFINE W == {x \in Nat : \A c \in Devices : Spent(doc[c].clock, c, x)}
           w == World(EmptyTable, 0, {}, W)
<1>1. TypeOK
  BY InitType
<1>2. /\ room.rows = EmptyTable /\ horizon = 0 /\ late = {} /\ acked = {}
      /\ \A c \in Devices : /\ c2s[c] = <<>> /\ s2c[c] = <<>> /\ sending[c] = {}
                            /\ http[c] = Spawned(IdleHttp)
  BY DEF Init, NewRoom
<1>3. PICK now \in Times : \A c \in Devices : doc[c] = Boot(NewDoc, c, now)
  BY DEF Init
<1>w. w.del = {} /\ w.wr = W /\ w = World(EmptyTable, 0, {}, W) /\ W \in SUBSET Nat
  BY DEF World
<1> HIDE DEF w
<1>4. ASSUME NEW c \in Devices PROVE WorldOK(w) /\ DocGood(w, c, doc[c])
  <2>1. PICK X \in SUBSET Nat :
          DocStep(World(EmptyTable, 0, {}, {}), World(EmptyTable, 0, {}, X),
                  c, Reload(NewDoc), doc[c])
    BY <1>3, BootHeld
  <2> DEFINE v == World(EmptyTable, 0, {}, X)
  <2>2. v.wr = X /\ v.del = {} /\ World(EmptyTable, 0, {}, {}).wr = {}
        /\ World(EmptyTable, 0, {}, {}).del = {}
    BY DEF World
  <2>3. WorldOK(v) /\ DocGood(v, c, doc[c])
    BY <2>1 DEF DocStep
  <2>4. ASSUME NEW x \in X PROVE x \in W
    <3>1. PICK n \in Nat : n <= Index(doc[c].clock) /\ x = Nth(n, c)
      BY <2>1, <2>2, <2>4 DEF DocStep
    <3>2. \A e \in Devices : Spent(doc[e].clock, e, Nth(n, c))
      BY <1>1, <3>1, GivenSpent DEF TypeOK, Replica
    <3> QED BY <3>1, <3>2, <2>4
  <2> HIDE DEF W
  <2>5. Grows(v, w) /\ WorldOK(w)
    <3>1. /\ {} \in SUBSET Nat /\ W \in SUBSET Nat /\ X \subseteq W
          /\ {} \subseteq {} /\ {} \intersect W = {}
      BY <1>w, <2>4
    <3>2. /\ Grows(World(EmptyTable, 0, {}, X), World(EmptyTable, 0, {}, W))
          /\ WorldOK(World(EmptyTable, 0, {}, W))
      BY <2>3, <3>1, ClocksGrow
    <3> QED BY <1>w, <3>2
  <2>6. doc[c] \in Replica
    BY <1>1 DEF TypeOK
  <2> HIDE DEF v
  <2> QED BY <2>3, <2>5, <2>6, DeviceGrows
<1>5. WorldOK(w)
  <2>1. PICK c \in Devices : TRUE
    BY CoreAssumption DEF Devices
  <2> QED BY <1>4
<1>6. ASSUME NEW c \in Devices
      PROVE  DeviceHeld(w, c, doc[c], sending[c], c2s[c], s2c[c], http[c])
  <2>1. CycleGood(w, c, doc[c], Spawned(IdleHttp))
    BY IdleHttpType, SpawnedHolds, NoRowGood DEF CycleGood, TableGood
  <2> QED BY <1>2, <1>4, <2>1 DEF DeviceHeld, UpGood, DownGood
<1>7. \A x \in W : \A c \in Devices : Spent(doc[c].clock, c, x)
  OBVIOUS
<1> HIDE DEF W
<1>8. HeldFor(w)
  BY <1>2, <1>5, <1>6, <1>7, <1>w DEF HeldFor, LateGood
<1>9. HeldFor(World(room.rows, horizon, {}, W))
  BY <1>2, <1>8, <1>w
<1> QED BY <1>9, <1>w DEF HeldInv

-----------------------------------------------------------------------------

\* push_pending and the ack: "accepted" is for good.  Once a device has been told
\* that its create or its delete was taken, the room bears it out ever after,
\* whatever other devices write, whichever old pushes still arrive, in whatever
\* order and however often, whichever replica re-seeds its rows, and whichever
\* tombstones GC removes: only what is older than them may be undone.
THEOREM AcceptedStays ==
  ASSUME MaxCrashes = 0, MaxResets = 0, Fields # {}
  PROVE  Spec => []AckedHeld
<1>1. Init => HeldInv
  BY InitHeld
<1>2. TypeOK /\ HeldInv /\ [Next]_vars => HeldInv'
  BY HeldStep
<1>3. HeldInv => AckedHeld
  <2> SUFFICES ASSUME HeldInv PROVE AckedHeld
    OBVIOUS
  <2>1. PICK D, W \in SUBSET Nat : HeldFor(World(room.rows, horizon, D, W))
    BY DEF HeldInv
  <2>2. World(room.rows, horizon, D, W).rows = room.rows
        /\ World(room.rows, horizon, D, W).h = horizon
    BY DEF World
  <2> QED BY <2>1, <2>2 DEF HeldFor, Held, AckedHeld
<1> QED BY <1>1, <1>2, <1>3, TypeCorrect, PTL DEF Spec

=============================================================================
