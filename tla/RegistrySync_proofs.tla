------------------------ MODULE RegistrySync_proofs -------------------------
(***************************************************************************)
(* Registry synchronisation, proved for every number of devices, keys,     *)
(* fields and values, and every bound: first the merge rule, which stays   *)
(* within its types, changes nothing when it is applied again and moves    *)
(* the clocks of a row only forward, then the replica, the room and the    *)
(* client.                                                                 *)
(***************************************************************************)
EXTENDS RegistrySync, FiniteSetTheorems, SequenceTheorems, TLAPS

-----------------------------------------------------------------------------
(* The merge rule *)

\* ClockFor (registry-core.ts, clockFor) is a clock for every operation.
LEMMA ClockForType ==
  ASSUME NEW op \in Op, NEW f \in Fields
  PROVE  ClockFor(op, f) \in Hlc
  BY DEF ClockFor, Op, Hlc, NoHlc

\* The empty row and the empty operation are a row and an operation.
LEMMA ConstantTypes ==
  /\ NoRow \in Row
  /\ NoOp \in Op
  BY CoreAssumption DEF NoRow, Row, NoFields, NoClocks, Hlc, NoHlc, NoOp, Op, NoSet

\* A delete leaves a row.
LEMMA TombstoneType ==
  ASSUME NEW row \in Row, NEW op \in Op
  PROVE  Tombstone(row, op) \in Row
  BY DEF Tombstone, Row, Op, NoFields, NoClocks, Hlc, NoHlc

\* applyOp's per-field writes leave a row.
LEMMA WriteFieldsType ==
  ASSUME NEW row \in Row, NEW op \in Op
  PROVE  WriteFields(row, op) \in Row
  BY ClockForType DEF WriteFields, FieldWins, Row, Op

\* applyOp returns a row.
LEMMA ApplyOpType ==
  ASSUME NEW row \in Row, NEW op \in Op
  PROVE  ApplyOp(row, op) \in Row
  BY TombstoneType, WriteFieldsType DEF ApplyOp

-----------------------------------------------------------------------------

\* docs/registry-sync.md: "Re-applying any op is a no-op (`>` compare)".  The
\* row an operation leaves is one the same operation no longer changes.
THEOREM ApplyOpIdempotent ==
  ASSUME NEW row \in Row, NEW op \in Op
  PROVE  ApplyOp(ApplyOp(row, op), op) = ApplyOp(row, op)
<1>1. CASE ~Changed(row, op)
  BY <1>1 DEF ApplyOp
<1>2. CASE Changed(row, op) /\ op.op = "delete"
  <2>1. ApplyOp(row, op) = Tombstone(row, op)
    BY <1>2 DEF ApplyOp
  <2>2. /\ Tombstone(row, op).st = "deleted"
        /\ Tombstone(row, op).delHlc = op.hlc
    BY DEF Tombstone, Row
  <2>3. ~Changed(Tombstone(row, op), op)
    BY <1>2, <2>2 DEF Changed, DeleteBeats, HlcNewer, Op, Hlc
  <2> QED BY <2>1, <2>3 DEF ApplyOp
<1>3. CASE Changed(row, op) /\ op.op # "delete"
  <2> DEFINE w == WriteFields(row, op)
  <2>1. ApplyOp(row, op) = w
    BY <1>3 DEF ApplyOp
  <2>2. w.st = "live"
    BY DEF WriteFields, Row
  <2>3. ASSUME NEW f \in Fields PROVE ~FieldWins(w, op, f)
    <3>1. w.clocks[f] = IF FieldWins(row, op, f) THEN ClockFor(op, f)
                                                 ELSE row.clocks[f]
      BY DEF WriteFields, Row
    <3>2. ClockFor(op, f) \in Hlc
      BY ClockForType
    <3> QED BY <3>1, <3>2 DEF FieldWins, HlcNewer, Hlc
  <2>4. ~Changed(w, op)
    BY <1>3, <2>2, <2>3 DEF Changed
  <2> QED BY <2>1, <2>4 DEF ApplyOp
<1> QED BY <1>1, <1>2, <1>3

\* applyOp, "an update never creates or revives": what an update finds missing
\* or deleted it leaves as it was.
THEOREM UpdateNeverRevives ==
  ASSUME NEW row \in Row, NEW op \in Op, op.op = "update", row.st # "live"
  PROVE  ApplyOp(row, op) = row
  BY DEF ApplyOp, Changed, Writable, Row

\* A row is never forgotten by a merge.
LEMMA ApplyOpExists ==
  ASSUME NEW row \in Row, NEW op \in Op, Exists(row) \/ Changed(row, op)
  PROVE  Exists(ApplyOp(row, op))
  BY DEF ApplyOp, Exists, Tombstone, WriteFields, Row

\* What every row in a table looks like: a missing row has nothing, and a
\* tombstone has lost its fields and their clocks.
WellFormed(row) ==
  /\ row \in Row
  /\ row.st = "missing" => row = NoRow
  /\ row.st = "deleted" => row.clocks = NoClocks /\ row.delHlc # NoHlc

\* applyOp keeps a row in one of the shapes the room stores: a missing row has no
\* clock, a tombstone has only its own.
LEMMA ApplyOpWellFormed ==
  ASSUME NEW row, WellFormed(row), NEW op \in Op
  PROVE  WellFormed(ApplyOp(row, op))
<1>1. row \in Row /\ ApplyOp(row, op) \in Row
  BY ApplyOpType DEF WellFormed
<1>2. CASE ~Changed(row, op)
  BY <1>2 DEF ApplyOp
<1>3. CASE Changed(row, op) /\ op.op = "delete"
  BY <1>1, <1>3 DEF ApplyOp, WellFormed, Tombstone, Row, Op, Hlc, NoHlc
<1>4. CASE Changed(row, op) /\ op.op # "delete"
  BY <1>1, <1>4 DEF ApplyOp, WellFormed, WriteFields, Row
<1> QED BY <1>2, <1>3, <1>4

\* A merge never takes a row back in time: whatever clock stood on the row,
\* one at least as new stands on it afterwards.
THEOREM ClocksMoveForward ==
  ASSUME NEW row, WellFormed(row), NEW op \in Op, NEW h \in AllClocks(row)
  PROVE  \E g \in AllClocks(ApplyOp(row, op)) : g >= h
<1> row \in Row
  BY DEF WellFormed
<1>h. h \in Hlc \union {NoHlc}
  BY DEF AllClocks, Row
<1>1. CASE ~Changed(row, op)
  BY <1>1, <1>h DEF ApplyOp, Hlc, NoHlc
<1>2. CASE Changed(row, op) /\ op.op = "delete"
  <2>1. ApplyOp(row, op) = Tombstone(row, op)
    BY <1>2 DEF ApplyOp
  <2>2. op.hlc \in AllClocks(Tombstone(row, op))
    BY DEF Tombstone, Row, AllClocks
  <2>3. op.hlc >= h
    <3>1. CASE row.st = "missing"
      <4>1. h = NoHlc
        BY <3>1 DEF WellFormed, NoRow, NoClocks, AllClocks
      <4> QED BY <4>1 DEF Op, Hlc, NoHlc
    <3>2. CASE row.st = "deleted"
      <4>1. op.hlc > row.delHlc
        BY <1>2, <3>2 DEF Changed, DeleteBeats, HlcNewer
      <4>2. h = row.delHlc \/ h = NoHlc
        BY <3>2 DEF WellFormed, NoClocks, AllClocks
      <4> QED BY <1>h, <4>1, <4>2 DEF Op, Hlc, NoHlc
    <3>3. CASE row.st = "live"
      <4>1. op.hlc > h
        BY <1>2, <3>3 DEF Changed, DeleteBeats, HlcNewer
      <4> QED BY <1>h, <4>1 DEF Op, Hlc, NoHlc
    <3> QED BY <3>1, <3>2, <3>3 DEF Row
  <2> QED BY <2>1, <2>2, <2>3
<1>3. CASE Changed(row, op) /\ op.op # "delete"
  <2> DEFINE w == WriteFields(row, op)
  <2>1. ApplyOp(row, op) = w
    BY <1>3 DEF ApplyOp
  <2>2. CASE h = row.delHlc
    <3>1. w.delHlc = row.delHlc
      BY DEF WriteFields, Row
    <3> QED BY <1>h, <2>1, <2>2, <3>1 DEF AllClocks, Hlc, NoHlc
  <2>3. ASSUME NEW f \in Fields, h = row.clocks[f]
        PROVE  \E g \in AllClocks(w) : g >= h
    <3>1. w.clocks[f] = IF FieldWins(row, op, f) THEN ClockFor(op, f)
                                                 ELSE row.clocks[f]
      BY DEF WriteFields, Row
    <3>2. w.clocks[f] >= h
      BY <1>h, <2>3, <3>1, ClockForType DEF FieldWins, HlcNewer, Hlc, NoHlc
    <3>3. w.clocks[f] \in AllClocks(w)
      BY DEF AllClocks
    <3> QED BY <3>2, <3>3
  <2> QED BY <2>1, <2>2, <2>3 DEF AllClocks
<1> QED BY <1>1, <1>2, <1>3

-----------------------------------------------------------------------------
(* The maximum of a finite set of integers, and the minimum of any set of  *)
(* naturals, exist: what the CHOOSE of MaxClock, RaisedFloor and Oldest    *)
(* picks satisfies its predicate.                                          *)

\* A finite set has no infinite chain of subsets.
LEMMA StrictSubset ==
  ASSUME NEW S, NEW A \in SUBSET S, NEW B \in SUBSET S, A \subseteq B, A # B
  PROVE  <<A, B>> \in StrictSubsetOrdering(S)
  BY DEF StrictSubsetOrdering

\* A finite set of integers has a greatest element (maxClock, the alarm's gcFloor).
LEMMA FiniteMax ==
  ASSUME NEW S, IsFiniteSet(S), S # {}, S \subseteq Int
  PROVE  \E m \in S : \A x \in S : m >= x
<1> DEFINE IsAbove(U, x) == \A y \in S : y \in U <=> y >= x
           T == {U \in SUBSET S : \E x \in S : IsAbove(U, x)}
<1>1. ASSUME NEW x \in S PROVE \E U \in SUBSET S : IsAbove(U, x)
  <2>1. IsAbove({y \in S : y >= x}, x)
    OBVIOUS
  <2> QED BY <2>1
<1>2. T # {} /\ T \subseteq FiniteSubsetsOf(S)
  <2>1. T # {}
    <3>1. PICK x \in S : TRUE
      OBVIOUS
    <3>2. PICK U \in SUBSET S : IsAbove(U, x)
      BY <1>1
    <3> QED BY <3>2
  <2> QED BY <2>1, FS_FiniteSubsetsOfFinite
<1>3. PICK U \in T : \A V \in T : ~ (<<V, U>> \in StrictSubsetOrdering(S))
  <2> HIDE DEF T
  <2> QED BY <1>2, FS_StrictSubsetOrderingWellFounded, WFMin
<1>4. PICK m \in S : IsAbove(U, m)
  OBVIOUS
<1>5. ASSUME NEW y \in S, ~(m >= y) PROVE FALSE
  <2>1. PICK V \in SUBSET S : IsAbove(V, y)
    BY <1>1
  <2>2. V \subseteq U
    BY <1>4, <1>5, <2>1
  <2>3. m \in U /\ m \notin V
    BY <1>4, <1>5, <2>1
  <2>4. <<V, U>> \in StrictSubsetOrdering(S)
    BY <2>2, <2>3, StrictSubset
  <2> QED BY <1>3, <2>1, <2>4
<1> QED BY <1>5

\* A nonempty set of naturals has a least element (the oldest batch).
LEMMA NatMin ==
  ASSUME NEW S, S # {}, S \subseteq Nat
  PROVE  \E m \in S : \A x \in S : m <= x
<1> DEFINE IsBelow(U, x) == \A y \in S : y \in U <=> y <= x
           T == {U \in SUBSET S : \E x \in S : IsBelow(U, x)}
<1>1. ASSUME NEW x \in S PROVE \E U \in SUBSET S : IsBelow(U, x)
  <2>1. IsBelow({y \in S : y <= x}, x)
    OBVIOUS
  <2> QED BY <2>1
<1>2. T # {} /\ T \subseteq FiniteSubsetsOf(S)
  <2>1. T # {}
    <3>1. PICK x \in S : TRUE
      OBVIOUS
    <3>2. PICK U \in SUBSET S : IsBelow(U, x)
      BY <1>1
    <3> QED BY <3>2
  <2>2. ASSUME NEW U \in T PROVE IsFiniteSet(U)
    <3>1. PICK x \in S : IsBelow(U, x)
      OBVIOUS
    <3>2. U \in SUBSET Nat /\ x \in Nat /\ \A s \in U : s <= x
      BY <3>1
    <3> QED BY <3>2, FS_BoundedSetOfNaturals
  <2> QED BY <2>1, <2>2 DEF FiniteSubsetsOf
<1>3. PICK U \in T : \A V \in T : ~ (<<V, U>> \in StrictSubsetOrdering(S))
  <2> HIDE DEF T
  <2> QED BY <1>2, FS_StrictSubsetOrderingWellFounded, WFMin
<1>4. PICK m \in S : IsBelow(U, m)
  OBVIOUS
<1>5. ASSUME NEW y \in S, ~(m <= y) PROVE FALSE
  <2>1. PICK V \in SUBSET S : IsBelow(V, y)
    BY <1>1
  <2>2. V \subseteq U
    BY <1>4, <1>5, <2>1
  <2>3. m \in U /\ m \notin V
    BY <1>4, <1>5, <2>1
  <2>4. <<V, U>> \in StrictSubsetOrdering(S)
    BY <2>2, <2>3, StrictSubset
  <2> QED BY <1>3, <2>1, <2>4
<1> QED BY <1>5

\* The range of a function with a finite domain is finite.
LEMMA FiniteRange ==
  ASSUME NEW S, IsFiniteSet(S), NEW f, f = [x \in S |-> f[x]]
  PROVE  IsFiniteSet({f[x] : x \in S})
<1>1. f \in Surjection(S, {f[x] : x \in S})
  BY DEF Surjection
<1> QED BY <1>1, FS_Surjection

\* maxClock finds the newest clock of a row.
LEMMA MaxClockSpec ==
  ASSUME NEW row \in Row
  PROVE  /\ MaxClock(row) \in AllClocks(row)
         /\ \A g \in AllClocks(row) : MaxClock(row) >= g
         /\ MaxClock(row) \in Hlc \union {NoHlc}
<1>1. IsFiniteSet({row.clocks[f] : f \in Fields})
  BY CoreAssumption, FiniteRange DEF Row
<1>2. IsFiniteSet(AllClocks(row))
  BY <1>1, FS_AddElement, FS_Union, FS_Singleton DEF AllClocks
<1>3. AllClocks(row) # {} /\ AllClocks(row) \subseteq Hlc \union {NoHlc}
  BY DEF AllClocks, Row
<1>4. \E h \in AllClocks(row) : \A g \in AllClocks(row) : h >= g
  BY <1>2, <1>3, FiniteMax DEF Hlc, NoHlc
<1> QED BY <1>3, <1>4 DEF MaxClock

\* rowToSeedOp returns an operation.
LEMMA RowToSeedOpType ==
  ASSUME NEW row \in Row
  PROVE  RowToSeedOp(row) \in Op
<1>1. CASE row.st = "missing"
  BY <1>1, ConstantTypes DEF RowToSeedOp
<1>2. CASE row.st = "deleted"
  BY <1>2 DEF RowToSeedOp, Row, Op, NoSet, NoClocks, SeedHlc, Hlc, NoHlc
<1>3. CASE row.st = "live"
  <2> DEFINE h == IF MaxClock(row) # NoHlc THEN MaxClock(row) ELSE SeedHlc
             s == [f \in Fields |-> IF row.fields[f] # Null THEN row.fields[f] ELSE Unset]
  <2>1. h \in Hlc
    BY MaxClockSpec DEF SeedHlc, Hlc, NoHlc
  <2>2. s \in [Fields -> Values \union {Null, Unset}]
    BY DEF Row
  <2>3. RowToSeedOp(row) = [op |-> "upsert", set |-> s, hlc |-> h, clocks |-> row.clocks]
    BY <1>3 DEF RowToSeedOp
  <2> HIDE DEF h, s
  <2> QED BY <2>1, <2>2, <2>3 DEF Op, Row
<1> QED BY <1>1, <1>2, <1>3 DEF Row

-----------------------------------------------------------------------------
(* The replica's operators stay within their types *)

\* The empty table and the empty batch.
LEMMA TableTypes ==
  /\ EmptyTable \in [Keys -> Row]
  /\ NoOps \in [Keys -> Op]
  BY ConstantTypes DEF EmptyTable, NoOps

\* Devices are numbered.
LEMMA DeviceNat ==
  ASSUME NEW c \in Devices
  PROVE  c \in Nat
  BY CoreAssumption DEF Devices

\* HlcClock::next returns a clock.
LEMMA TickType ==
  ASSUME NEW clock \in Clock, NEW now \in Nat
  PROVE  Tick(clock, now) \in Clock
  BY CoreAssumption DEF Tick, Clock

\* Its encoding is a clock value.
LEMMA StampType ==
  ASSUME NEW clock \in Clock, NEW c \in Devices
  PROVE  Stamp(clock, c) \in Hlc
<1>1. clock.ms \in Nat /\ clock.counter \in Nat /\ MaxCounter + 1 \in Nat
      /\ NumDevices \in Nat /\ c \in Nat
  BY CoreAssumption, DeviceNat DEF Clock
<1>2. \A a, b \in Nat : a * b \in Nat
  OBVIOUS
<1>3. clock.ms * (MaxCounter + 1) + clock.counter \in Nat
  BY <1>1, <1>2
<1> QED BY <1>1, <1>2, <1>3 DEF Stamp, EncodeHlc, Hlc

\* The number of a reading of the clock.
Index(clock) == clock.ms * (MaxCounter + 1) + clock.counter

\* The n-th clock of device c.
Nth(n, c) == n * NumDevices + c

\* A multiple of a positive number is at least as far from a smaller one.
LEMMA Multiples ==
  ASSUME NEW a \in Nat, NEW b \in Nat, NEW m \in Nat, a < b
  PROVE  a * m + m <= b * m
<1>1. (a + 1) * m = a * m + m
  OBVIOUS
<1>2. PICK e \in Nat : b = (a + 1) + e
  <2>1. b - (a + 1) \in Nat /\ b = (a + 1) + (b - (a + 1))
    OBVIOUS
  <2> QED BY <2>1
<1>3. ((a + 1) + e) * m = (a + 1) * m + e * m /\ e * m \in Nat
  OBVIOUS
<1>4. a * m \in Nat /\ b * m = (a * m + m) + e * m
  BY <1>1, <1>2, <1>3
<1> QED BY <1>3, <1>4

\* A stamp is the clock its reading numbers.
LEMMA StampNth ==
  ASSUME NEW clock \in Clock, NEW c \in Devices
  PROVE  /\ Index(clock) \in Nat
         /\ Stamp(clock, c) = Nth(Index(clock), c)
<1>1. clock.ms \in Nat /\ clock.counter \in Nat /\ MaxCounter + 1 \in Nat
  BY CoreAssumption DEF Clock
<1>2. \A a, b \in Nat : a * b \in Nat
  OBVIOUS
<1> QED BY <1>1, <1>2 DEF Stamp, EncodeHlc, Nth, Index

\* HlcClock::next goes forward, whatever the wall clock reads.
LEMMA TickLater ==
  ASSUME NEW clock \in Clock, clock.counter <= MaxCounter, NEW now \in Nat
  PROVE  /\ Tick(clock, now) \in Clock
         /\ Tick(clock, now).counter <= MaxCounter
         /\ Index(Tick(clock, now)) > Index(clock)
<1> DEFINE t == Tick(clock, now)
           m == MaxCounter + 1
<1>0. /\ clock.ms \in Nat /\ clock.counter \in Nat /\ m \in Nat /\ MaxCounter \in Nat
      /\ clock.counter < m /\ clock.ms * m \in Nat /\ now * m \in Nat
  <2>1. \A a, b \in Nat : a * b \in Nat
    OBVIOUS
  <2> QED BY <2>1, CoreAssumption DEF Clock
<1>1. t \in Clock
  BY TickType
<1>2. CASE now > clock.ms
  <2>1. t.ms = now /\ t.counter = 0
    BY <1>2 DEF Tick
  <2>2. clock.ms * m + m <= now * m
    BY <1>0, <1>2, Multiples
  <2>3. Index(t) = now * m + 0 /\ Index(clock) = clock.ms * m + clock.counter
    BY <2>1 DEF Index
  <2> HIDE DEF m, t
  <2> QED BY <1>0, <1>1, <2>1, <2>2, <2>3 DEF t
<1>3. CASE ~(now > clock.ms) /\ clock.counter + 1 > MaxCounter
  <2>1. t.ms = clock.ms + 1 /\ t.counter = 0
    BY <1>3 DEF Tick
  <2>2. clock.ms * m + m <= (clock.ms + 1) * m
    BY <1>0, Multiples
  <2>3. Index(t) = (clock.ms + 1) * m + 0 /\ Index(clock) = clock.ms * m + clock.counter
    BY <2>1 DEF Index
  <2>4. (clock.ms + 1) * m \in Nat
    BY <1>0
  <2> HIDE DEF m, t
  <2> QED BY <1>0, <1>1, <2>1, <2>2, <2>3, <2>4 DEF t
<1>4. CASE ~(now > clock.ms) /\ ~(clock.counter + 1 > MaxCounter)
  <2>1. t.ms = clock.ms /\ t.counter = clock.counter + 1
    BY <1>4 DEF Tick, Clock
  <2>3. Index(t) = clock.ms * m + (clock.counter + 1) /\ Index(clock) = clock.ms * m + clock.counter
    BY <2>1 DEF Index
  <2>5. t.counter <= MaxCounter
    BY <1>0, <1>4, <2>1
  <2> HIDE DEF m, t
  <2> QED BY <1>0, <1>1, <2>3, <2>5 DEF t
<1> QED BY <1>2, <1>3, <1>4

\* A later reading of one device's clock is a newer clock.
LEMMA StampLater ==
  ASSUME NEW old \in Clock, NEW new \in Clock, Index(new) > Index(old), NEW c \in Devices
  PROVE  Stamp(new, c) > Stamp(old, c)
<1>1. Index(old) * NumDevices + NumDevices <= Index(new) * NumDevices
  BY StampNth, Multiples, CoreAssumption
<1>2. Index(old) * NumDevices \in Nat /\ Index(new) * NumDevices \in Nat /\ NumDevices \in Nat \ {0}
  <2>1. \A a, b \in Nat : a * b \in Nat
    OBVIOUS
  <2> QED BY <2>1, StampNth, CoreAssumption
<1> QED BY <1>1, <1>2, StampNth, DeviceNat DEF Nth

\* enqueue_ops returns a replica.
LEMMA EnqueueOpsType ==
  ASSUME NEW d \in Replica, NEW c \in Devices, NEW ops \in [Keys -> Op], NEW now \in Nat
  PROVE  EnqueueOps(d, c, ops, now) \in Replica
<1> DEFINE clock == Tick(d.clock, now)
           b == [batch |-> Stamp(clock, c), ops |-> ops, inFlight |-> FALSE]
<1>1. clock \in Clock
  BY TickType DEF Replica
<1>2. b \in Batch
  BY <1>1, StampType DEF Batch
<1>3. CASE ops = NoOps
  BY <1>3 DEF EnqueueOps
<1>4. CASE ops # NoOps
  <2>1. EnqueueOps(d, c, ops, now) =
          [d EXCEPT !.clock = clock, !.touched = TRUE, !.pending = d.pending \union {b}]
    BY <1>4 DEF EnqueueOps
  <2> HIDE DEF clock, b
  <2> QED BY <1>1, <1>2, <2>1 DEF Replica
<1> QED BY <1>3, <1>4

\* write returns a replica.
LEMMA WriteType ==
  ASSUME NEW d \in Replica, NEW c \in Devices, NEW k \in Keys,
         NEW kind \in {"upsert", "update"},
         NEW set \in [Fields -> Values \union {Null, Unset}], NEW now \in Nat
  PROVE  Write(d, c, k, kind, set, now) \in Replica
<1> DEFINE clock == Tick(d.clock, now)
           op == [op |-> kind, set |-> set, hlc |-> Stamp(clock, c), clocks |-> NoClocks]
           ops == [NoOps EXCEPT ![k] = op]
           ticked == [d EXCEPT !.clock = clock]
<1>1. clock \in Clock
  BY TickType DEF Replica
<1>2. op \in Op
  BY <1>1, StampType DEF Op, NoClocks
<1>3. Write(d, c, k, kind, set, now) = EnqueueOps(ticked, c, ops, now)
  BY DEF Write
<1> HIDE DEF clock, op
<1>4. ticked \in Replica
  BY <1>1 DEF Replica
<1>5. ops \in [Keys -> Op]
  BY <1>2, TableTypes
<1> HIDE DEF ticked, ops
<1> QED BY <1>3, <1>4, <1>5, EnqueueOpsType

\* delete_row_ops returns a replica.
LEMMA DeleteRowsType ==
  ASSUME NEW d \in Replica, NEW c \in Devices, NEW ks \in SUBSET Keys, NEW now \in Nat
  PROVE  DeleteRows(d, c, ks, now) \in Replica
<1> DEFINE clock == Tick(d.clock, now)
           op == [op |-> "delete", set |-> NoSet, hlc |-> Stamp(clock, c), clocks |-> NoClocks]
           ops == [k \in Keys |-> IF k \in ks THEN op ELSE NoOp]
<1>1. clock \in Clock
  BY TickType DEF Replica
<1>2. op \in Op
  BY <1>1, StampType DEF Op, NoClocks, NoSet
<1>3. DeleteRows(d, c, ks, now) = EnqueueOps([d EXCEPT !.clock = clock], c, ops, now)
  BY DEF DeleteRows
<1> HIDE DEF clock, op
<1>4. [d EXCEPT !.clock = clock] \in Replica
  BY <1>1 DEF Replica
<1>5. ops \in [Keys -> Op]
  BY <1>2, ConstantTypes
<1> HIDE DEF ops
<1> QED BY <1>3, <1>4, <1>5, EnqueueOpsType

\* put_authoritative returns a table.
LEMMA PutAuthoritativeType ==
  ASSUME NEW auth \in [Keys -> Row], NEW rows \in [Keys -> Row]
  PROVE  PutAuthoritative(auth, rows) \in [Keys -> Row]
  BY DEF PutAuthoritative

\* A re-seed is a batch.
LEMMA SeedOpsType ==
  ASSUME NEW auth \in [Keys -> Row], NEW ks
  PROVE  SeedOps(auth, ks) \in [Keys -> Op]
  BY RowToSeedOpType, ConstantTypes DEF SeedOps

\* apply_state returns a replica.
LEMMA ApplyStateType ==
  ASSUME NEW d \in Replica, NEW c \in Devices, NEW seq \in Nat, NEW full \in BOOLEAN,
         NEW rows \in [Keys -> Row], NEW now \in Nat
  PROVE  ApplyState(d, c, seq, full, rows, now) \in Replica
<1> DEFINE moved == [d EXCEPT !.cursor = seq, !.touched = TRUE]
           kept  == [moved EXCEPT !.auth = PutAuthoritative(d.auth, rows)]
           taken == [moved EXCEPT !.auth = rows]
<1>1. d.auth \in [Keys -> Row]
  BY DEF Replica
<1>2. kept \in Replica /\ taken \in Replica
  BY <1>1, PutAuthoritativeType DEF Replica
<1>3. CASE ~full
  BY <1>2, <1>3 DEF ApplyState
<1>4. CASE full /\ seq < d.cursor
  <2>1. ApplyState(d, c, seq, full, rows, now) = EnqueueOps(kept, c, SeedOps(d.auth, Keys), now)
    BY <1>4 DEF ApplyState
  <2> HIDE DEF kept
  <2> QED BY <1>1, <1>2, <2>1, SeedOpsType, EnqueueOpsType
<1>5. CASE full /\ ~(seq < d.cursor)
  <2> DEFINE ks == {k \in Keys : ~Exists(rows[k])}
  <2>1. ApplyState(d, c, seq, full, rows, now) = EnqueueOps(taken, c, SeedOps(d.auth, ks), now)
    BY <1>5 DEF ApplyState
  <2> HIDE DEF taken, ks
  <2> QED BY <1>1, <1>2, <2>1, SeedOpsType, EnqueueOpsType
<1> QED BY <1>3, <1>4, <1>5

\* apply_rows returns a replica.
LEMMA ApplyRowsType ==
  ASSUME NEW d \in Replica, NEW seq \in Nat, NEW rows \in [Keys -> Row]
  PROVE  ApplyRows(d, seq, rows) \in Replica
  BY PutAuthoritativeType DEF ApplyRows, Replica

\* ack_batch returns a replica.
LEMMA AckBatchType ==
  ASSUME NEW d \in Replica, NEW batch
  PROVE  AckBatch(d, batch) \in Replica
  BY DEF AckBatch, Replica

\* take_pushable, mark_disconnected and a reload return replicas and batches.
LEMMA MarkTypes ==
  ASSUME NEW d \in Replica
  PROVE  /\ Pushable(d) \in SUBSET Batch
         /\ TakePushable(d) \in Replica
         /\ MarkDisconnected(d) \in Replica
         /\ Reload(d) \in Replica
<1>1. ASSUME NEW x \in BOOLEAN
      PROVE  {[b EXCEPT !.inFlight = x] : b \in d.pending} \in SUBSET Batch
  BY DEF Replica, Batch
<1>2. Pushable(d) \in SUBSET Batch
  BY DEF Pushable, Replica
<1>3. TakePushable(d) \in Replica
  BY <1>1 DEF TakePushable, Replica
<1>4. MarkDisconnected(d) \in Replica
  BY <1>1 DEF MarkDisconnected, Replica
<1> QED BY <1>2, <1>3, <1>4 DEF Reload, Replica

\* The oldest of some batches is one of them.
LEMMA OldestType ==
  ASSUME NEW S \in SUBSET Batch, S # {}
  PROVE  /\ Oldest(S) \in S
         /\ \A b \in S : Oldest(S).batch <= b.batch
<1> DEFINE ids == {b.batch : b \in S}
<1>1. ids # {} /\ ids \subseteq Nat
  BY DEF Batch, Hlc
<1>2. \E m \in ids : \A x \in ids : m <= x
  <2> HIDE DEF ids
  <2> QED BY <1>1, NatMin
<1>3. \E b \in S : \A c \in S : b.batch <= c.batch
  BY <1>2
<1> QED BY <1>3 DEF Oldest

\* A device that boots has a replica.
LEMMA BootType ==
  ASSUME NEW d \in Replica, NEW c \in Devices, NEW now \in Times
  PROVE  Boot(d, c, now) \in Replica
<1>1. now \in Nat
  BY SyncAssumption
<1>2. Reload(d) \in Replica
  BY MarkTypes
<1>3. FullSet \in [Fields -> Values \union {Null, Unset}]
  BY CoreAssumption DEF FullSet
<1>4. CASE DeviceRow[c] = NoHost
  BY <1>2, <1>4 DEF Boot
<1>5. CASE DeviceRow[c] # NoHost
  <2>1. DeviceRow[c] \in Keys
    BY <1>5, SyncAssumption
  <2> QED BY <1>1, <1>2, <1>3, <1>5, <2>1, WriteType DEF Boot
<1> QED BY <1>4, <1>5

-----------------------------------------------------------------------------
(* The room's operators stay within their types *)

\* The answer to a hello or a GET is a well-typed state.
LEMMA AnswerType ==
  ASSUME NEW r \in Room, NEW cursor \in Nat \union {NoCursor}
  PROVE  Answer(r, cursor) \in [seq : Nat, full : BOOLEAN, rows : [Keys -> Row]]
<1>1. \A x : RowsSince(r, x) \in [Keys -> Row]
  BY ConstantTypes DEF RowsSince, Room
<1>2. NeedsFull(r, cursor) \in BOOLEAN
  BY DEF NeedsFull
<1> QED BY <1>1, <1>2 DEF Answer, Room

\* applyPushBatch returns a room, and rows to broadcast.
LEMMA ApplyPushBatchType ==
  ASSUME NEW r \in Room, NEW ops \in [Keys -> Op]
  PROVE  /\ ApplyPushBatch(r, ops) \in Room
         /\ MergedRows(r, ops) \in [Keys -> Row]
<1> DEFINE rows == [k \in Keys |-> IF k \in Touched(r, ops)
                        THEN [ApplyOp(r.rows[k], ops[k]) EXCEPT !.seq = r.seq + 1]
                        ELSE r.rows[k]]
<1>1. rows \in [Keys -> Row]
  <2>1. ASSUME NEW k \in Keys PROVE ApplyOp(r.rows[k], ops[k]) \in Row
    BY ApplyOpType DEF Room
  <2>2. r.seq + 1 \in Nat
    BY DEF Room
  <2>3. ASSUME NEW row \in Row PROVE [row EXCEPT !.seq = r.seq + 1] \in Row
    BY <2>2 DEF Row
  <2> QED BY <2>1, <2>3 DEF Room
<1>2. ApplyPushBatch(r, ops) \in Room
  <2>1. CASE Touched(r, ops) = {}
    BY <2>1 DEF ApplyPushBatch
  <2>2. CASE Touched(r, ops) # {}
    <3>1. ApplyPushBatch(r, ops) = [r EXCEPT !.rows = rows, !.seq = r.seq + 1,
                                             !.dirty = TRUE, !.alarm = TRUE]
      BY <2>2 DEF ApplyPushBatch
    <3>2. r.seq + 1 \in Nat
      BY DEF Room
    <3> HIDE DEF rows
    <3>3. \A n \in Nat : [r EXCEPT !.rows = rows, !.seq = n,
                                   !.dirty = TRUE, !.alarm = TRUE] \in Room
      BY <1>1 DEF Room
    <3> QED BY <3>1, <3>2, <3>3
  <2> QED BY <2>1, <2>2
<1> QED BY <1>2, ConstantTypes DEF MergedRows, Room

\* The raised gcFloor is a seq.
LEMMA RaisedFloorSpec ==
  ASSUME NEW r \in Room, NEW ks \in SUBSET Keys
  PROVE  /\ RaisedFloor(r, ks) \in Nat
         /\ RaisedFloor(r, ks) >= r.gcFloor
         /\ \A k \in ks : RaisedFloor(r, ks) >= r.rows[k].seq
         /\ \/ RaisedFloor(r, ks) = r.gcFloor
            \/ \E k \in ks : RaisedFloor(r, ks) = r.rows[k].seq
<1> DEFINE f == [k \in ks |-> r.rows[k].seq]
           S == {r.gcFloor} \union {r.rows[k].seq : k \in ks}
<1>1. IsFiniteSet(ks)
  BY CoreAssumption, FS_Subset
<1>2. IsFiniteSet({f[k] : k \in ks})
  <2> HIDE DEF f
  <2>1. f = [k \in ks |-> f[k]]
    BY DEF f
  <2> QED BY <1>1, <2>1, FiniteRange
<1>3. {r.rows[k].seq : k \in ks} = {f[k] : k \in ks}
  OBVIOUS
<1>4. IsFiniteSet(S)
  BY <1>2, <1>3, FS_Union, FS_Singleton
<1>5. S # {} /\ S \subseteq Nat
  BY DEF Room, Row
<1>6. \E s \in S : \A t \in S : s >= t
  <2>1. S \subseteq Int
    BY <1>5
  <2> HIDE DEF S
  <2> QED BY <1>4, <1>5, <2>1, FiniteMax
<1>7. RaisedFloor(r, ks) \in S /\ \A t \in S : RaisedFloor(r, ks) >= t
  BY <1>6 DEF RaisedFloor
<1> QED BY <1>5, <1>7

\* The purge returns a room.
LEMMA PurgeType ==
  ASSUME NEW r \in Room, NEW h
  PROVE  Purge(r, h) \in Room
<1>1. Expired(r, h) \in SUBSET Keys
  BY DEF Expired
<1>2. RaisedFloor(r, Expired(r, h)) \in Nat
  BY <1>1, RaisedFloorSpec
<1>3. [k \in Keys |-> IF k \in Expired(r, h) THEN NoRow ELSE r.rows[k]] \in [Keys -> Row]
  BY ConstantTypes DEF Room
<1> QED BY <1>2, <1>3 DEF Purge, Room

\* Both halves of the alarm, and the reset, return rooms.
LEMMA AlarmTypes ==
  ASSUME NEW r \in Room, NEW h
  PROVE  /\ AlarmFires(r, h) \in Room
         /\ AlarmEnds(r) \in Room
         /\ AlarmFails(r) \in Room
         /\ Reset(r) \in Room
<1> DEFINE fired == [r EXCEPT !.alarm = FALSE]
           purged == Purge(fired, h)
<1>1. fired \in Room
  BY DEF Room
<1>2. purged \in Room
  <2> HIDE DEF fired
  <2> QED BY <1>1, PurgeType
<1>3. AlarmFires(r, h) \in Room
  <2>1. AlarmFires(r, h) = IF ~r.dirty THEN fired
                           ELSE IF purged.seq > purged.backupSeq
                             THEN [purged EXCEPT !.putting = purged.seq]
                           ELSE [purged EXCEPT !.dirty = FALSE]
    BY DEF AlarmFires
  <2> HIDE DEF fired, purged
  <2> QED BY <1>1, <1>2, <2>1 DEF Room
<1>4. AlarmEnds(r) \in Room /\ AlarmFails(r) \in Room
  BY DEF AlarmEnds, AlarmFails, Room
<1>5. Reset(r) \in Room
  BY TableTypes DEF Reset, NewRoom, Room
<1> QED BY <1>3, <1>4, <1>5

-----------------------------------------------------------------------------
(* Type correctness *)

\* Spending a bound keeps the counters typed.
LEMMA SpendType ==
  ASSUME TypeOK, NEW what \in {"writes", "drops", "crashes", "alarms", "resets"},
         Spend(what)
  PROVE  used' \in [{"writes", "drops", "crashes", "alarms", "resets"} -> Nat]
  BY DEF TypeOK, Spend

\* Spawning an HTTPS cycle returns one.
LEMMA HttpTypes ==
  ASSUME NEW h \in HttpCycle
  PROVE  Spawned(h) \in HttpCycle /\ IdleHttp \in HttpCycle
<1>1. NoAnswer \in [seq : Nat, full : BOOLEAN, rows : [Keys -> Row]]
  BY TableTypes DEF NoAnswer
<1>2. IdleHttp \in HttpCycle
  BY <1>1 DEF IdleHttp, HttpCycle
<1>3. Spawned(h) \in HttpCycle
  BY DEF Spawned, HttpCycle
<1> QED BY <1>2, <1>3

\* The idle HTTPS cycle.
LEMMA IdleHttpType == IdleHttp \in HttpCycle
<1>1. NoAnswer \in [seq : Nat, full : BOOLEAN, rows : [Keys -> Row]]
  BY TableTypes DEF NoAnswer
<1> QED BY <1>1 DEF IdleHttp, HttpCycle

\* What a dead socket leaves in the network are batches.
LEMMA OrphansType ==
  ASSUME TypeOK, NEW c \in Devices
  PROVE  Orphans(c) \in SUBSET Batch
<1>1. c2s[c] \in Seq(ClientFrame)
  BY DEF TypeOK
<1>2. ASSUME NEW i \in DOMAIN c2s[c], c2s[c][i].t = "push"
      PROVE  c2s[c][i].push \in Batch
  <2>1. c2s[c][i] \in ClientFrame
    BY <1>1
  <2> QED BY <1>2, <2>1 DEF ClientFrame
<1> QED BY <1>2 DEF Orphans

\* TypeOK holds at the start.
LEMMA InitType == Init => TypeOK
<1> SUFFICES ASSUME Init PROVE TypeOK
  OBVIOUS
<1>1. NewDoc \in Replica
  BY TableTypes DEF NewDoc, Replica, Clock
<1>2. doc \in [Devices -> Replica] /\ saved \in [Devices -> Replica]
  <2>1. PICK now \in Times : doc = [c \in Devices |-> Boot(NewDoc, c, now)]
    BY DEF Init
  <2> QED BY <1>1, <2>1, BootType DEF Init
<1>3. room \in Room
  BY TableTypes DEF Init, NewRoom, Room
<1>4. http \in [Devices -> HttpCycle]
  BY IdleHttpType, HttpTypes DEF Init
<1>5. /\ c2s \in [Devices -> Seq(ClientFrame)]
      /\ s2c \in [Devices -> Seq(Frame)]
  BY DEF Init
<1>6. /\ conn \in [Devices -> {"down", "hello", "pushing", "up"}]
      /\ socket \in [Devices -> {"new", "ready", "closed"}]
      /\ nudged \in [Devices -> BOOLEAN]
      /\ sending \in [Devices -> SUBSET Batch]
      /\ backup \in Nat
      /\ late \in SUBSET Batch
      /\ acked \in SUBSET [key : Keys, op : {"upsert", "update", "delete"}, hlc : Hlc]
      /\ horizon \in Nat
      /\ used \in [{"writes", "drops", "crashes", "alarms", "resets"} -> Nat]
  BY DEF Init
<1> QED BY <1>2, <1>3, <1>4, <1>5, <1>6 DEF TypeOK

\* Local writes, the save and the crash keep TypeOK.
LEMMA LocalType ==
  ASSUME TypeOK, NEW c \in Devices, LocalStep(c)
  PROVE  TypeOK'
<1>1. ASSUME NEW d \in Replica, Mutate(c, d) PROVE TypeOK'
  <2>1. used' \in [{"writes", "drops", "crashes", "alarms", "resets"} -> Nat]
    BY <1>1, SpendType DEF Mutate
  <2>2. doc' \in [Devices -> Replica] /\ nudged' \in [Devices -> BOOLEAN]
    BY <1>1 DEF Mutate, TypeOK
  <2> QED BY <1>1, <2>1, <2>2 DEF Mutate, TypeOK
<1>2. doc[c] \in Replica /\ saved[c] \in Replica
  BY DEF TypeOK
<1>3. Sets \subseteq [Fields -> Values \union {Null, Unset}]
  BY DEF Sets
<1>4. WriteKeys \subseteq Keys /\ Times \subseteq Nat
  BY SyncAssumption
<1>5. CASE Upsert(c)
  BY <1>1, <1>2, <1>3, <1>4, <1>5, WriteType DEF Upsert
<1>6. CASE Update(c)
  BY <1>1, <1>2, <1>3, <1>4, <1>6, WriteType DEF Update
<1>7. CASE Delete(c)
  <2>1. PICK ks \in (SUBSET WriteKeys) \ {{}}, now \in Times :
               Mutate(c, DeleteRows(doc[c], c, ks, now))
    BY <1>7 DEF Delete
  <2>2. DeleteRows(doc[c], c, ks, now) \in Replica
    BY <1>2, <1>4, DeleteRowsType
  <2> QED BY <1>1, <2>1, <2>2
<1>8. CASE SaveSnapshot(c)
  BY <1>8 DEF SaveSnapshot, TypeOK
<1>9. CASE Crash(c)
  <2>1. used' \in [{"writes", "drops", "crashes", "alarms", "resets"} -> Nat]
    BY <1>9, SpendType DEF Crash
  <2>2. doc' \in [Devices -> Replica] /\ saved' \in [Devices -> Replica]
    BY <1>2, <1>9, BootType DEF Crash, TypeOK
  <2>3. http' \in [Devices -> HttpCycle]
    BY <1>9, IdleHttpType, HttpTypes DEF Crash, TypeOK
  <2>4. late' \in SUBSET Batch
    <3>1. http[c].todo \in SUBSET Batch
      BY DEF TypeOK, HttpCycle
    <3> QED BY <1>9, <3>1, OrphansType DEF Crash, TypeOK
  <2>5. c2s' \in [Devices -> Seq(ClientFrame)] /\ s2c' \in [Devices -> Seq(Frame)]
    BY <1>9 DEF Crash, TypeOK
  <2> QED BY <1>9, <2>1, <2>2, <2>3, <2>4, <2>5 DEF Crash, TypeOK
<1> QED BY <1>5, <1>6, <1>7, <1>8, <1>9 DEF LocalStep

\* What ends a session leaves well typed.
LEMMA EndSessionType ==
  ASSUME TypeOK, NEW c \in Devices, NEW d \in Replica, EndSession(c, d)
  PROVE  /\ doc' \in [Devices -> Replica]
         /\ conn' \in [Devices -> {"down", "hello", "pushing", "up"}]
         /\ socket' \in [Devices -> {"new", "ready", "closed"}]
         /\ c2s' \in [Devices -> Seq(ClientFrame)]
         /\ s2c' \in [Devices -> Seq(Frame)]
         /\ sending' \in [Devices -> SUBSET Batch]
         /\ http' \in [Devices -> HttpCycle]
         /\ late' \in SUBSET Batch
<1>1. doc' \in [Devices -> Replica]
  BY MarkTypes DEF EndSession, TypeOK
<1>2. http' \in [Devices -> HttpCycle]
  BY HttpTypes DEF EndSession, TypeOK
<1>3. late' \in SUBSET Batch
  BY OrphansType DEF EndSession, TypeOK
<1> QED BY <1>1, <1>2, <1>3 DEF EndSession, TypeOK

\* What the actor takes from its socket and its replica.
LEMMA HeadType ==
  ASSUME TypeOK, NEW c \in Devices, s2c[c] # <<>>
  PROVE  /\ Head(s2c[c]) \in Frame
         /\ [s2c EXCEPT ![c] = Tail(s2c[c])] \in [Devices -> Seq(Frame)]
  BY DEF TypeOK

\* push_pending keeps what it sends typed.
LEMMA StartPushType ==
  ASSUME TypeOK, NEW c \in Devices, NEW S \in SUBSET Batch, StartPush(c, S)
  PROVE  /\ sending' \in [Devices -> SUBSET Batch]
         /\ conn' \in [Devices -> {"down", "hello", "pushing", "up"}]
  BY DEF TypeOK, StartPush

\* The fields of a frame, by its tag.
LEMMA FrameTypes ==
  ASSUME NEW m \in Frame
  PROVE  /\ m.t = "state" => m.seq \in Nat /\ m.full \in BOOLEAN /\ m.rows \in [Keys -> Row]
         /\ m.t = "rows" => m.seq \in Nat /\ m.rows \in [Keys -> Row]
         /\ m.t = "ack" => m.batch \in Hlc
  BY DEF Frame

\* The history of acknowledged operations is typed.
LEMMA OpsOfType ==
  ASSUME NEW d \in Replica, NEW batch
  PROVE  OpsOf(d, batch) \in SUBSET [key : Keys, op : {"upsert", "update", "delete"}, hlc : Hlc]
<1>1. ASSUME NEW b \in d.pending, NEW k \in Keys, b.ops[k].op # "none"
      PROVE  [key |-> k, op |-> b.ops[k].op, hlc |-> b.ops[k].hlc]
               \in [key : Keys, op : {"upsert", "update", "delete"}, hlc : Hlc]
  <2>1. b.ops[k] \in Op
    BY DEF Replica, Batch
  <2> QED BY <1>1, <2>1 DEF Op
<1> QED BY <1>1 DEF OpsOf

\* The steps of the session actor keep TypeOK.
LEMMA SessionType ==
  ASSUME TypeOK, NEW c \in Devices, SessionStep(c)
  PROVE  TypeOK'
<1>d. doc[c] \in Replica
  BY DEF TypeOK
<1>1. CASE Dial(c)
  <2>1. HelloCursor(doc[c]) \in Nat \union {NoCursor}
    BY <1>d DEF HelloCursor, Replica
  <2>2. [t |-> "hello", cursor |-> HelloCursor(doc[c])] \in ClientFrame
    BY <2>1 DEF ClientFrame
  <2>3. c2s' \in [Devices -> Seq(ClientFrame)]
    BY <1>1, <2>2 DEF Dial, TypeOK
  <2> QED BY <1>1, <2>3 DEF Dial, TypeOK
<1>2. CASE RecvState(c)
  <2> DEFINE m == Head(s2c[c])
  <2>1. m \in Frame /\ m.t = "state" /\ s2c' \in [Devices -> Seq(Frame)]
    BY <1>2, HeadType DEF RecvState
  <2>2. m.seq \in Nat /\ m.full \in BOOLEAN /\ m.rows \in [Keys -> Row]
    BY <2>1, FrameTypes
  <2>3. PICK now \in Times :
          LET d == ApplyState(doc[c], c, m.seq, m.full, m.rows, now)
          IN  doc' = [doc EXCEPT ![c] = TakePushable(d)] /\ StartPush(c, Pushable(d))
    BY <1>2 DEF RecvState
  <2> DEFINE d == ApplyState(doc[c], c, m.seq, m.full, m.rows, now)
  <2>4. d \in Replica
    BY <1>d, <2>2, ApplyStateType, SyncAssumption
  <2>5. doc' = [doc EXCEPT ![c] = TakePushable(d)] /\ StartPush(c, Pushable(d))
    BY <2>3
  <2> HIDE DEF m, d
  <2>6. doc' \in [Devices -> Replica]
    BY <2>4, <2>5, MarkTypes DEF TypeOK
  <2>7. /\ sending' \in [Devices -> SUBSET Batch]
        /\ conn' \in [Devices -> {"down", "hello", "pushing", "up"}]
    BY <2>4, <2>5, MarkTypes, StartPushType
  <2> QED BY <1>2, <2>1, <2>6, <2>7 DEF RecvState, TypeOK
<1>3. CASE SendPush(c)
  <2> DEFINE b == Oldest(sending[c])
  <2>1. sending[c] \in SUBSET Batch /\ sending[c] # {}
    BY <1>3 DEF TypeOK, SendPush
  <2>2. b \in Batch
    BY <2>1, OldestType
  <2>3. /\ c2s' = [c2s EXCEPT ![c] = Append(c2s[c], [t |-> "push", push |-> b])]
        /\ StartPush(c, sending[c] \ {b})
    BY <1>3 DEF SendPush
  <2> HIDE DEF b
  <2>4. [t |-> "push", push |-> b] \in ClientFrame
    BY <2>2 DEF ClientFrame
  <2>5. c2s' \in [Devices -> Seq(ClientFrame)]
    BY <2>3, <2>4 DEF TypeOK
  <2>6. /\ sending' \in [Devices -> SUBSET Batch]
        /\ conn' \in [Devices -> {"down", "hello", "pushing", "up"}]
    BY <2>1, <2>3, StartPushType
  <2> QED BY <1>3, <2>5, <2>6 DEF SendPush, TypeOK
<1>4. CASE Nudge(c)
  <2>1. doc' \in [Devices -> Replica]
    BY <1>d, <1>4, MarkTypes DEF Nudge, TypeOK
  <2>2. /\ sending' \in [Devices -> SUBSET Batch]
        /\ conn' \in [Devices -> {"down", "hello", "pushing", "up"}]
    BY <1>d, <1>4, MarkTypes, StartPushType DEF Nudge
  <2> QED BY <1>4, <2>1, <2>2 DEF Nudge, TypeOK
<1>5. CASE RecvRows(c)
  <2> DEFINE m == Head(s2c[c])
             d == ApplyRows(doc[c], m.seq, m.rows)
  <2>1. m \in Frame /\ m.t = "rows" /\ [s2c EXCEPT ![c] = Tail(s2c[c])] \in [Devices -> Seq(Frame)]
    BY <1>5, HeadType DEF RecvRows
  <2>2. m.seq \in Nat /\ m.rows \in [Keys -> Row]
    BY <2>1, FrameTypes
  <2>3. d \in Replica
    BY <1>d, <2>2, ApplyRowsType
  <2>4. CASE Gap(doc[c], m.seq)
    <3>1. EndSession(c, d)
      BY <1>5, <2>4 DEF RecvRows
    <3> HIDE DEF d
    <3> QED BY <1>5, <2>3, <3>1, EndSessionType DEF RecvRows, TypeOK
  <2>5. CASE ~Gap(doc[c], m.seq)
    <3>1. /\ doc' = [doc EXCEPT ![c] = d]
          /\ s2c' = [s2c EXCEPT ![c] = Tail(s2c[c])]
          /\ UNCHANGED <<conn, socket, c2s, sending, http, late>>
      BY <1>5, <2>5 DEF RecvRows
    <3> HIDE DEF d
    <3>2. doc' \in [Devices -> Replica]
      BY <2>3, <3>1 DEF TypeOK
    <3> QED BY <1>5, <2>1, <3>1, <3>2 DEF RecvRows, TypeOK
  <2> QED BY <2>4, <2>5
<1>6. CASE RecvAck(c)
  <2>1. doc' \in [Devices -> Replica]
    BY <1>d, <1>6, AckBatchType DEF RecvAck, TypeOK
  <2>2. acked' \in SUBSET [key : Keys, op : {"upsert", "update", "delete"}, hlc : Hlc]
    BY <1>d, <1>6, OpsOfType DEF RecvAck, TypeOK
  <2>3. s2c' \in [Devices -> Seq(Frame)]
    BY <1>6, HeadType DEF RecvAck
  <2> QED BY <1>6, <2>1, <2>2, <2>3 DEF RecvAck, TypeOK
<1>7. CASE RecvClose(c)
  BY <1>d, <1>7, EndSessionType DEF RecvClose, TypeOK
<1> QED BY <1>1, <1>2, <1>3, <1>4, <1>5, <1>6, <1>7 DEF SessionStep

\* The steps of the HTTPS cycle keep TypeOK.
LEMMA HttpStepType ==
  ASSUME TypeOK, NEW c \in Devices, HttpStep(c)
  PROVE  TypeOK'
<1>d. doc[c] \in Replica /\ http[c] \in HttpCycle
  BY DEF TypeOK
<1>1. CASE HttpTake(c)
  <2>1. doc' \in [Devices -> Replica]
    BY <1>d, <1>1, MarkTypes DEF HttpTake, TypeOK
  <2>2. [http[c] EXCEPT !.ph = "push", !.todo = Pushable(doc[c])] \in HttpCycle
    BY <1>d, MarkTypes DEF HttpCycle
  <2>3. http' \in [Devices -> HttpCycle]
    BY <1>1, <2>2 DEF HttpTake, SetHttp, TypeOK
  <2> QED BY <1>1, <2>1, <2>3 DEF HttpTake, TypeOK
<1>2. CASE HttpAck(c)
  <2>1. doc' \in [Devices -> Replica]
    BY <1>d, <1>2, AckBatchType DEF HttpAck, TypeOK
  <2>2. acked' \in SUBSET [key : Keys, op : {"upsert", "update", "delete"}, hlc : Hlc]
    BY <1>d, <1>2, OpsOfType DEF HttpAck, TypeOK
  <2>3. \A b : [http[c] EXCEPT !.ph = "push", !.todo = @ \ {b}] \in HttpCycle
    BY <1>d DEF HttpCycle
  <2>4. http' \in [Devices -> HttpCycle]
    BY <1>2, <2>3 DEF HttpAck, SetHttp, TypeOK
  <2> QED BY <1>2, <2>1, <2>2, <2>4 DEF HttpAck, TypeOK
<1>3. CASE HttpPull(c)
  <2>1. [http[c] EXCEPT !.ph = "pulling", !.since = doc[c].cursor] \in HttpCycle
    BY <1>d DEF HttpCycle, Replica
  <2>2. http' \in [Devices -> HttpCycle]
    BY <1>3, <2>1 DEF HttpPull, SetHttp, TypeOK
  <2> QED BY <1>3, <2>2 DEF HttpPull, TypeOK
<1>4. CASE HttpApply(c)
  <2> DEFINE m == http[c].answer
  <2>1. m.seq \in Nat /\ m.full \in BOOLEAN /\ m.rows \in [Keys -> Row]
    BY <1>d DEF HttpCycle
  <2>2. PICK now \in Times :
          doc' = [doc EXCEPT ![c] = ApplyState(doc[c], c, m.seq, m.full, m.rows, now)]
    BY <1>4 DEF HttpApply
  <2> HIDE DEF m
  <2>3. doc' \in [Devices -> Replica]
    BY <1>d, <2>1, <2>2, ApplyStateType, SyncAssumption DEF TypeOK
  <2>4. http' \in [Devices -> HttpCycle]
    BY <1>4, IdleHttpType DEF HttpApply, SetHttp, TypeOK
  <2> QED BY <1>4, <2>3, <2>4 DEF HttpApply, TypeOK
<1> QED BY <1>1, <1>2, <1>3, <1>4 DEF HttpStep

\* Failures keep TypeOK.
LEMMA FailureType ==
  ASSUME TypeOK, NEW c \in Devices, Failure(c)
  PROVE  TypeOK'
<1>d. doc[c] \in Replica /\ http[c] \in HttpCycle
  BY DEF TypeOK
<1>u. used' \in [{"writes", "drops", "crashes", "alarms", "resets"} -> Nat]
  BY SpendType DEF Failure, Disconnect, DialFails, HttpPushFails, HttpPullFails
<1>1. CASE Disconnect(c)
  BY <1>d, <1>u, <1>1, EndSessionType DEF Disconnect, TypeOK
<1>2. CASE DialFails(c)
  <2>1. http' \in [Devices -> HttpCycle]
    BY <1>d, <1>2, HttpTypes DEF DialFails, TypeOK
  <2> QED BY <1>u, <1>2, <2>1 DEF DialFails, TypeOK
<1>3. CASE HttpPushFails(c)
  <2>1. doc' \in [Devices -> Replica]
    BY <1>d, <1>3, MarkTypes DEF HttpPushFails, TypeOK
  <2>2. [http[c] EXCEPT !.ph = "push", !.todo = {}] \in HttpCycle
    BY <1>d DEF HttpCycle
  <2>3. http' \in [Devices -> HttpCycle]
    BY <1>3, <2>2 DEF HttpPushFails, SetHttp, TypeOK
  <2>4. Oldest(http[c].todo) \in Batch
    BY <1>d, <1>3, OldestType DEF HttpPushFails, HttpCycle
  <2>5. late' \in SUBSET Batch
    BY <1>3, <2>4 DEF HttpPushFails, TypeOK
  <2> QED BY <1>u, <1>3, <2>1, <2>3, <2>5 DEF HttpPushFails, TypeOK
<1>4. CASE HttpPullFails(c)
  <2>1. http' \in [Devices -> HttpCycle]
    BY <1>4, IdleHttpType DEF HttpPullFails, SetHttp, TypeOK
  <2> QED BY <1>u, <1>4, <2>1 DEF HttpPullFails, TypeOK
<1> QED BY <1>1, <1>2, <1>3, <1>4 DEF Failure

\* Applying and broadcasting a batch.
LEMMA PublishType ==
  ASSUME TypeOK, NEW ops \in [Keys -> Op],
         NEW reply \in [Devices -> Seq(Frame)], Publish(ops, reply)
  PROVE  room' \in Room /\ s2c' \in [Devices -> Seq(Frame)]
<1> DEFINE f == [t |-> "rows", seq |-> room'.seq, rows |-> MergedRows(room, ops)]
<1>1. room' \in Room
  BY ApplyPushBatchType DEF Publish, TypeOK
<1>2. f \in Frame
  <2>1. room'.seq \in Nat /\ MergedRows(room, ops) \in [Keys -> Row]
    BY <1>1, ApplyPushBatchType DEF Room, TypeOK
  <2> QED BY <2>1 DEF Frame
<1>3. \E missed : s2c' = [c \in Devices |->
         (IF socket[c] = "ready" /\ c \notin missed /\ Touched(room, ops) # {}
            THEN Append(s2c[c], f) ELSE s2c[c]) \o reply[c]]
  BY DEF Publish
<1> HIDE DEF f
<1>4. ASSUME NEW c \in Devices
      PROVE  Append(s2c[c], f) \o reply[c] \in Seq(Frame) /\ s2c[c] \o reply[c] \in Seq(Frame)
  BY <1>2 DEF TypeOK
<1> QED BY <1>1, <1>3, <1>4

\* The frame the room reads next, by its tag.
LEMMA C2sHeadType ==
  ASSUME TypeOK, NEW c \in Devices, c2s[c] # <<>>
  PROVE  /\ Head(c2s[c]) \in ClientFrame
         /\ [c2s EXCEPT ![c] = Tail(c2s[c])] \in [Devices -> Seq(ClientFrame)]
         /\ Head(c2s[c]).t = "hello" => Head(c2s[c]).cursor \in Nat \union {NoCursor}
         /\ Head(c2s[c]).t = "push" => Head(c2s[c]).push \in Batch
<1>1. Head(c2s[c]) \in ClientFrame
  BY DEF TypeOK
<1>2. [c2s EXCEPT ![c] = Tail(c2s[c])] \in [Devices -> Seq(ClientFrame)]
  BY DEF TypeOK
<1> QED BY <1>1, <1>2 DEF ClientFrame

\* No reply is a reply to everyone.
LEMMA NoReplyType == NoReply \in [Devices -> Seq(Frame)]
  BY DEF NoReply

\* The room's answers keep TypeOK.
LEMMA RoomStepType ==
  ASSUME TypeOK, NEW c \in Devices, RoomStep(c)
  PROVE  TypeOK'
<1>1. CASE RoomHello(c)
  <2> DEFINE a == Answer(room, Head(c2s[c]).cursor)
             f == [t |-> "state", seq |-> a.seq, full |-> a.full, rows |-> a.rows]
  <2>1. a \in [seq : Nat, full : BOOLEAN, rows : [Keys -> Row]]
    BY <1>1, C2sHeadType, AnswerType DEF RoomHello, TypeOK
  <2>2. s2c' = [s2c EXCEPT ![c] = Append(s2c[c], f)]
    BY <1>1 DEF RoomHello
  <2>3. f \in Frame
    <3> HIDE DEF a
    <3> QED BY <2>1 DEF Frame
  <2> HIDE DEF f
  <2>4. s2c' \in [Devices -> Seq(Frame)]
    BY <2>2, <2>3 DEF TypeOK
  <2>5. c2s' \in [Devices -> Seq(ClientFrame)]
    BY <1>1, C2sHeadType DEF RoomHello
  <2> QED BY <1>1, <2>4, <2>5 DEF RoomHello, TypeOK
<1>2. CASE RoomPush(c)
  <2> DEFINE b == Head(c2s[c]).push
             reply == [NoReply EXCEPT ![c] = <<[t |-> "ack", batch |-> b.batch]>>]
  <2>1. b \in Batch /\ c2s' \in [Devices -> Seq(ClientFrame)]
    BY <1>2, C2sHeadType DEF RoomPush
  <2>2. [t |-> "ack", batch |-> b.batch] \in Frame
    BY <2>1 DEF Batch, Frame
  <2>3. reply \in [Devices -> Seq(Frame)]
    BY <2>2, NoReplyType
  <2>4. Publish(b.ops, reply)
    BY <1>2 DEF RoomPush
  <2> HIDE DEF b, reply
  <2>5. room' \in Room /\ s2c' \in [Devices -> Seq(Frame)]
    BY <2>1, <2>3, <2>4, PublishType DEF Batch
  <2> QED BY <1>2, <2>1, <2>5 DEF RoomPush, TypeOK
<1>3. CASE RoomPost(c)
  <2>1. http[c] \in HttpCycle /\ http[c].todo # {}
    BY <1>3 DEF RoomPost, TypeOK
  <2>2. Oldest(http[c].todo) \in Batch
    BY <2>1, OldestType DEF HttpCycle
  <2>3. room' \in Room /\ s2c' \in [Devices -> Seq(Frame)]
    BY <1>3, <2>2, NoReplyType, PublishType DEF RoomPost, Batch
  <2>4. [http[c] EXCEPT !.ph = "acking"] \in HttpCycle
    BY <2>1 DEF HttpCycle
  <2>5. http' \in [Devices -> HttpCycle]
    BY <1>3, <2>4 DEF RoomPost, SetHttp, TypeOK
  <2> QED BY <1>3, <2>3, <2>5 DEF RoomPost, TypeOK
<1>4. CASE RoomRows(c)
  <2>1. http[c] \in HttpCycle /\ http[c].since \in Nat
    BY DEF HttpCycle, TypeOK
  <2>2. Answer(room, http[c].since) \in [seq : Nat, full : BOOLEAN, rows : [Keys -> Row]]
    BY <2>1, AnswerType DEF TypeOK
  <2>3. [http[c] EXCEPT !.ph = "answered", !.answer = Answer(room, http[c].since)] \in HttpCycle
    BY <2>1, <2>2 DEF HttpCycle
  <2>4. http' \in [Devices -> HttpCycle]
    BY <1>4, <2>3 DEF RoomRows, SetHttp, TypeOK
  <2> QED BY <1>4, <2>4 DEF RoomRows, TypeOK
<1> QED BY <1>1, <1>2, <1>3, <1>4 DEF RoomStep

\* Late pushes, the alarm and the reset keep TypeOK.
LEMMA RoomAloneType ==
  ASSUME TypeOK, RoomLate \/ RoomAlarm \/ RoomAlarmEnds \/ RoomAlarmFails \/ RoomReset
  PROVE  TypeOK'
<1>1. CASE RoomLate
  <2>1. PICK b \in late : Publish(b.ops, NoReply)
    BY <1>1 DEF RoomLate
  <2>2. b.ops \in [Keys -> Op]
    BY DEF TypeOK, Batch
  <2>3. room' \in Room /\ s2c' \in [Devices -> Seq(Frame)]
    BY <2>1, <2>2, NoReplyType, PublishType
  <2> QED BY <1>1, <2>3 DEF RoomLate, TypeOK
<1>2. CASE RoomAlarm
  <2>1. used' \in [{"writes", "drops", "crashes", "alarms", "resets"} -> Nat]
    BY <1>2, SpendType DEF RoomAlarm
  <2>2. PICK h \in Horizons : /\ room' = AlarmFires(room, h)
                              /\ horizon' = IF room.dirty /\ h > horizon THEN h ELSE horizon
    BY <1>2 DEF RoomAlarm
  <2>3. h \in Nat
    <3>1. ASSUME NEW k \in Keys PROVE room.rows[k].delHlc \in Hlc \union {NoHlc}
      BY DEF TypeOK, Room, Row
    <3> QED BY <3>1 DEF Horizons, Hlc, NoHlc
  <2>4. room' \in Room /\ horizon' \in Nat
    BY <2>2, <2>3, AlarmTypes DEF TypeOK
  <2> QED BY <1>2, <2>1, <2>4 DEF RoomAlarm, TypeOK
<1>3. CASE RoomAlarmEnds
  <2>1. room' \in Room /\ backup' \in Nat
    BY <1>3, AlarmTypes DEF RoomAlarmEnds, TypeOK, Room
  <2> QED BY <1>3, <2>1 DEF RoomAlarmEnds, TypeOK
<1>f. CASE RoomAlarmFails
  <2>1. used' \in [{"writes", "drops", "crashes", "alarms", "resets"} -> Nat]
    BY <1>f, SpendType DEF RoomAlarmFails
  <2>2. room' \in Room /\ backup' \in Nat
    BY <1>f, AlarmTypes DEF RoomAlarmFails, TypeOK, Room
  <2> QED BY <1>f, <2>1, <2>2 DEF RoomAlarmFails, TypeOK
<1>4. CASE RoomReset
  <2>1. used' \in [{"writes", "drops", "crashes", "alarms", "resets"} -> Nat]
    BY <1>4, SpendType DEF RoomReset
  <2>2. room' \in Room
    BY <1>4, AlarmTypes DEF RoomReset, TypeOK
  <2> QED BY <1>4, <2>1, <2>2 DEF RoomReset, TypeOK
<1> QED BY <1>1, <1>2, <1>3, <1>f, <1>4

\* TypeOK is inductive.
LEMMA TypeStep == TypeOK /\ [Next]_vars => TypeOK'
<1> SUFFICES ASSUME TypeOK, [Next]_vars PROVE TypeOK'
  OBVIOUS
<1>1. CASE UNCHANGED vars
  BY <1>1 DEF vars, TypeOK
<1>2. ASSUME NEW c \in Devices,
             LocalStep(c) \/ SessionStep(c) \/ HttpStep(c) \/ Failure(c) \/ RoomStep(c)
      PROVE  TypeOK'
  BY <1>2, LocalType, SessionType, HttpStepType, FailureType, RoomStepType
<1>3. CASE RoomLate \/ RoomAlarm \/ RoomAlarmEnds \/ RoomAlarmFails \/ RoomReset
  BY <1>3, RoomAloneType
<1> QED BY <1>1, <1>2, <1>3 DEF Next

\* Every variable of every reachable state has the shape its declaration says:
\* in particular every frame a replica applies carries well-formed rows and a
\* cursor that is a seq of the room.
THEOREM TypeCorrect == Spec => []TypeOK
<1>1. Init => TypeOK
  BY InitType
<1>2. TypeOK /\ [Next]_vars => TypeOK'
  BY TypeStep
<1> QED BY <1>1, <1>2, PTL DEF Spec

=============================================================================
