------------------------------ MODULE ChatRoom ------------------------------
(***************************************************************************)
(* The relay room of one chat: ChatRoom (edge/src/chat-room.ts) over the   *)
(* log of edge/src/chat-log.ts.  A room is an append-only log of opaque    *)
(* update batches and one checkpoint that a client wrote.                  *)
(*                                                                         *)
(* `log` keeps what was ever appended.  The rows table is its part above   *)
(* `floor`; the entries at and below it have been deleted and are history. *)
(* A checkpoint is the set of batches its snapshot holds, and its frontier *)
(* names the same set.                                                     *)
(***************************************************************************)
EXTENDS Integers, Sequences, FiniteSets, FiniteSetsExt

NoDevice == "none"

NewRoom == [log |-> <<>>, floor |-> 0, has |-> FALSE, ckpt |-> {}]

HeadSeq(r) == Len(r.log)

\* SELECT FROM rows: what has not been deleted
Rows(r) == r.floor + 1 .. HeadSeq(r)

\* rowsAfter, as a function from seq to batch
RowsAfter(r, after, excluded) ==
  [s \in {s \in Rows(r) : s > after /\ r.log[s].device # excluded} |-> r.log[s].batch]

\* The row a batch already has: batch_id is UNIQUE in the table, so a batch
\* whose row was deleted is new again.
RowOf(r, b) == {s \in Rows(r) : r.log[s].batch = b}

AppendRow(r, d, b) ==
  IF RowOf(r, b) # {} THEN r
  ELSE [r EXCEPT !.log = Append(r.log, [device |-> d, batch |-> b])]

\* The seq the ack names: the original one for a replay.
AckSeq(r, b) == IF RowOf(r, b) # {} THEN CHOOSE s \in RowOf(r, b) : TRUE
                  ELSE HeadSeq(r) + 1

\* The answer to a hello, and the first frame of a pull.
State(r) == [head |-> HeadSeq(r), rows |-> HeadSeq(r) - r.floor,
             seq |-> r.floor, has |-> r.has, frontier |-> r.ckpt]

\* POST /checkpoint: floor_regression, ahead_of_head.  bad_frontier does not
\* happen: the client sends an encoded version vector, which has a length even
\* if it names nothing.
Acceptable(r, seq) == r.floor <= seq /\ seq <= HeadSeq(r)

\* Mutant of CommitCheckpoint: every row is deleted, those after seq too.
CommitCheckpointAll(r, seq, content) ==
  [r EXCEPT !.floor = HeadSeq(r), !.has = TRUE, !.ckpt = content]

\* commitCheckpoint: replace the blob, delete the rows it covers
CommitCheckpoint(r, seq, content) ==
  [r EXCEPT !.floor = seq, !.has = TRUE, !.ckpt = content]

\* What a reader that loads everything from the room gets.
Readable(r) == {r.log[s].batch : s \in Rows(r)} \union r.ckpt

\* The batches that were ever rows.
Admitted(r) == {r.log[s].batch : s \in 1 .. HeadSeq(r)}

=============================================================================
