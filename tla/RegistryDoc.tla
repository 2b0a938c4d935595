----------------------------- MODULE RegistryDoc ----------------------------
(***************************************************************************)
(* The replica of the registry on one device (crates/doc/src/registry.rs): *)
(* server truth (auth), the sync cursor, the clock, and the batches this   *)
(* device wrote and the room has not acknowledged.  No variables: each     *)
(* operator is one method, from a replica to the next one.                 *)
(*                                                                         *)
(* `pending` is a Vec in the code.  Every batch id is a fresh tick of the  *)
(* replica's own clock, so the Vec's order is the order of the ids and the *)
(* set of batches carries the same information.  A batch is a function of  *)
(* the keys: every caller of enqueue_ops names a row at most once, and     *)
(* operations on distinct rows commute.  The code cuts a batch of more     *)
(* than 400 operations into several; here there are fewer keys than that.  *)
(* gc_floor is stored by the code and never read, and is left out.         *)
(***************************************************************************)
EXTENDS RegistryCore, SequencesExt

Clock == [ms : Nat, counter : Nat]

Batch == [batch : Hlc, ops : [Keys -> Op], inFlight : BOOLEAN]

Replica == [ auth    : [Keys -> Row],
             cursor  : Nat,
             clock   : Clock,
             pending : SUBSET Batch,
             touched : BOOLEAN ]   \* generation > 0: mutated since it was loaded

NewDoc == [ auth |-> EmptyTable, cursor |-> 0,
            clock |-> [ms |-> 0, counter |-> 0],
            pending |-> {}, touched |-> FALSE ]

-----------------------------------------------------------------------------
(* The clock: HlcClock::next.  `now` is the wall clock, free to go back. *)

Tick(clock, now) ==
  IF now > clock.ms
    THEN [ms |-> now, counter |-> 0]
  ELSE IF clock.counter + 1 > MaxCounter
    THEN [ms |-> clock.ms + 1, counter |-> 0]
  ELSE [clock EXCEPT !.counter = clock.counter + 1]

Stamp(clock, device) == EncodeHlc(clock.ms, clock.counter, device)

-----------------------------------------------------------------------------
(* Local writes *)

NoOps == [k \in Keys |-> NoOp]

EnqueueOps(d, device, ops, now) ==
  IF ops = NoOps THEN d
  ELSE LET clock == Tick(d.clock, now)
       IN  [d EXCEPT !.clock   = clock,
                     !.touched = TRUE,
                     !.pending = d.pending \union
                        {[batch |-> Stamp(clock, device), ops |-> ops,
                          inFlight |-> FALSE]}]

\* write: one upsert or update, stamped with its own tick of the clock.
Write(d, device, key, kind, set, now) ==
  LET clock == Tick(d.clock, now)
      op    == [op |-> kind, set |-> set, hlc |-> Stamp(clock, device),
                clocks |-> NoClocks]
  IN  EnqueueOps([d EXCEPT !.clock = clock], device,
                 [NoOps EXCEPT ![key] = op], now)

\* delete_row_ops: one clock for every row of the cascade.
DeleteRows(d, device, keys, now) ==
  LET clock == Tick(d.clock, now)
      op    == [op |-> "delete", set |-> NoSet, hlc |-> Stamp(clock, device),
                clocks |-> NoClocks]
  IN  EnqueueOps([d EXCEPT !.clock = clock], device,
                 [k \in Keys |-> IF k \in keys THEN op ELSE NoOp], now)

-----------------------------------------------------------------------------
(* Overlay reads: server truth with the pending batches applied in order. *)

\* The batch that was written last.
Newest(batches) ==
  CHOOSE b \in batches : \A c \in batches : c.batch <= b.batch

OverlayRow(d, key) ==
  MapThenFoldSet(LAMBDA op, row : ApplyOp(row, op), d.auth[key],
                 LAMBDA b : b.ops[key], Newest, d.pending)

RowExists(d, key) == OverlayRow(d, key).st = "live"

-----------------------------------------------------------------------------
(* Server frames *)

PutAuthoritative(auth, rows) ==
  [k \in Keys |-> IF Exists(rows[k]) THEN rows[k] ELSE auth[k]]

SeedOps(auth, keys) ==
  [k \in Keys |-> IF k \in keys THEN RowToSeedOp(auth[k]) ELSE NoOp]

\* Mutant of ApplyState: the cursor is one behind the frame.
ApplyStateBehind(d, device, seq, full, rows, now) ==
  [d EXCEPT !.cursor = seq - 1, !.touched = TRUE,
            !.auth = IF full THEN rows ELSE PutAuthoritative(d.auth, rows)]

\* Mutant of ApplyState: a full state replaces and never re-seeds.
ApplyStateNoSeed(d, device, seq, full, rows, now) ==
  [d EXCEPT !.cursor = seq, !.touched = TRUE,
            !.auth = PutAuthoritative(d.auth, rows)]

ApplyState(d, device, seq, full, rows, now) ==
  LET moved == [d EXCEPT !.cursor = seq, !.touched = TRUE]
  IN  IF ~full
        THEN [moved EXCEPT !.auth = PutAuthoritative(d.auth, rows)]
      ELSE IF seq < d.cursor     \* the room lost state: keep all, re-seed all
        THEN EnqueueOps([moved EXCEPT !.auth = PutAuthoritative(d.auth, rows)],
                        device, SeedOps(d.auth, Keys), now)
      ELSE EnqueueOps([moved EXCEPT !.auth = rows], device,
                      SeedOps(d.auth, {k \in Keys : ~Exists(rows[k])}), now)

\* The broadcast skips frames this replica never saw.
Gap(d, seq) == seq > d.cursor + 1

\* Mutant of ApplyRows: the cursor follows the frame across a gap.
ApplyRowsJump(d, seq, rows) ==
  [d EXCEPT !.auth    = PutAuthoritative(d.auth, rows),
            !.touched = TRUE,
            !.cursor  = IF seq > d.cursor THEN seq ELSE d.cursor]

ApplyRows(d, seq, rows) ==
  [d EXCEPT !.auth    = PutAuthoritative(d.auth, rows),
            !.touched = TRUE,
            !.cursor  = IF seq = d.cursor + 1 THEN seq ELSE d.cursor]

AckBatch(d, batch) ==
  [d EXCEPT !.pending = {b \in d.pending : b.batch # batch},
            !.touched = d.touched \/ \E b \in d.pending : b.batch = batch]

Pushable(d) == {b \in d.pending : ~b.inFlight}

TakePushable(d) ==
  [d EXCEPT !.pending = {[b EXCEPT !.inFlight = TRUE] : b \in d.pending}]

\* Mutant of MarkDisconnected: what was in flight stays so.
StillInFlight(d) == d

MarkDisconnected(d) ==
  [d EXCEPT !.pending = {[b EXCEPT !.inFlight = FALSE] : b \in d.pending}]

\* Mutant of Reload: the snapshot keeps the in-flight marks.
ReloadInFlight(d) == [d EXCEPT !.touched = FALSE]

\* to_bytes, then from_bytes in the next process: in_flight is not written
\* and generation restarts.
Reload(d) == [MarkDisconnected(d) EXCEPT !.touched = FALSE]

\* The batch to send next.
Oldest(batches) ==
  CHOOSE b \in batches : \A c \in batches : b.batch <= c.batch

=============================================================================
