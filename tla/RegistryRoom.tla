---------------------------- MODULE RegistryRoom ----------------------------
(***************************************************************************)
(* The room: the Durable Object that owns the table                        *)
(* (edge/src/registry-room.ts).  Events run one at a time and their SQLite *)
(* writes commit together, so each handler is one operator from a room to  *)
(* the next; the alarm awaits the upload of the backup and is two.         *)
(***************************************************************************)
EXTENDS RegistryCore

Room == [ rows      : [Keys -> Row],
          seq       : Nat,
          gcFloor   : Nat,
          dirty     : BOOLEAN,       \* meta backupDirty
          backupSeq : Nat,           \* meta backupSeq
          alarm     : BOOLEAN,       \* an alarm is scheduled
          putting   : Nat ]          \* seq of the upload under way, 0 = none

NewRoom == [ rows |-> EmptyTable, seq |-> 0, gcFloor |-> 0, dirty |-> FALSE,
             backupSeq |-> 0, alarm |-> FALSE, putting |-> 0 ]

-----------------------------------------------------------------------------

\* A client that has nothing says hello without a cursor.
NoCursor == -1

RowsSince(room, cursor) ==
  [k \in Keys |-> IF room.rows[k].seq > cursor THEN room.rows[k] ELSE NoRow]

\* The hello answer, and GET /rows?since=: the delta, or everything for a
\* cursor that may have missed purged deletes or that the room never gave.
NeedsFull(room, cursor) ==
  cursor = NoCursor \/ cursor < room.gcFloor \/ cursor > room.seq

Answer(room, cursor) ==
  [ seq  |-> room.seq,
    full |-> NeedsFull(room, cursor),
    rows |-> RowsSince(room, IF NeedsFull(room, cursor) THEN 0 ELSE cursor) ]

-----------------------------------------------------------------------------

Touched(room, ops) == {k \in Keys : Changed(room.rows[k], ops[k])}

\* Every row the batch changes is stamped with the one new seq.  A batch that
\* changes nothing leaves the seq alone.
ApplyPushBatch(room, ops) ==
  IF Touched(room, ops) = {} THEN room
  ELSE [room EXCEPT
          !.rows = [k \in Keys |->
                      IF k \in Touched(room, ops)
                        THEN [ApplyOp(room.rows[k], ops[k])
                                EXCEPT !.seq = room.seq + 1]
                        ELSE room.rows[k]],
          !.seq   = room.seq + 1,
          !.dirty = TRUE,
          !.alarm = TRUE]

\* The merged rows the batch changed, for every ready socket.
MergedRows(room, ops) ==
  [k \in Keys |-> IF k \in Touched(room, ops)
                    THEN ApplyPushBatch(room, ops).rows[k] ELSE NoRow]

-----------------------------------------------------------------------------
(* The daily alarm *)

Expired(room, horizon) ==
  {k \in Keys : room.rows[k].st = "deleted" /\ room.rows[k].delHlc < horizon}

\* gcFloor rises to the newest seq among the purged tombstones.
RaisedFloor(room, purged) ==
  CHOOSE s \in {room.gcFloor} \union {room.rows[k].seq : k \in purged} :
    \A t \in {room.gcFloor} \union {room.rows[k].seq : k \in purged} : s >= t

\* Mutant of Purge: the floor stays where it was.
PurgeKeepFloor(room, horizon) ==
  [room EXCEPT
     !.rows = [k \in Keys |-> IF k \in Expired(room, horizon)
                                THEN NoRow ELSE room.rows[k]]]

Purge(room, horizon) ==
  [room EXCEPT
     !.rows    = [k \in Keys |-> IF k \in Expired(room, horizon)
                                   THEN NoRow ELSE room.rows[k]],
     !.gcFloor = RaisedFloor(room, Expired(room, horizon))]

\* Up to the await: an idle room lets the chain of alarms end; otherwise purge,
\* and start the upload if the seq passed the last one.
AlarmFires(room, horizon) ==
  LET fired  == [room EXCEPT !.alarm = FALSE]
      purged == Purge(fired, horizon)
  IN  IF ~room.dirty THEN fired
      ELSE IF purged.seq > purged.backupSeq
        THEN [purged EXCEPT !.putting = purged.seq]
      ELSE [purged EXCEPT !.dirty = FALSE]

\* After it: the upload is recorded and the room declared clean.
AlarmEnds(room) ==
  [room EXCEPT !.backupSeq = room.putting, !.dirty = FALSE, !.putting = 0]

\* Or the upload throws: nothing is recorded, and the runtime runs the alarm
\* again.
AlarmFails(room) == [room EXCEPT !.putting = 0, !.alarm = TRUE]

\* POST /reset deletes the rows and ALL of meta: the seq, the floor and the
\* backup's bookkeeping.  The scheduled alarm survives it.
Reset(room) ==
  [NewRoom EXCEPT !.alarm = room.alarm, !.putting = room.putting]

=============================================================================
