----------------------------- MODULE ChatClient -----------------------------
(***************************************************************************)
(* The state a device keeps for one chat and what each answer of the room  *)
(* does to it: the client (crates/sync/src/chat_client.rs, Shared) and its *)
(* document sink (crates/engine/src/chat2_host.rs, chat_persistence.rs).   *)
(*                                                                         *)
(* The document is the set of batches it was given.  A batch names the     *)
(* ones its author saw (D[b]); one whose history is incomplete is parked   *)
(* in memory: not visible, and left out of every snapshot.                 *)
(*                                                                         *)
(* The generation counters are kept as what they are compared for: whether *)
(* a task's sample of one still holds (no gap, no new epoch since).        *)
(***************************************************************************)
EXTENDS ChatRoom

Larger(a, b) == IF a < b THEN b ELSE a

Visible(H, D) == {b \in H : D[b] \subseteq H}

\* `view` is Shared::server, the last state the room told this client.
NoView == [known |-> FALSE, rows |-> 0, has |-> FALSE]
ViewOf(st) == [known |-> TRUE, rows |-> st.rows, has |-> st.has]

\* A client over a document and the cursor stored with it.  `boot`: the host
\* has its one check for a missing checkpoint ahead of it.
NewClient(held, cursor, host) ==
  [ held    |-> held,
    cursor  |-> cursor,   \* Shared::cursor
    pcursor |-> cursor,   \* ChatPersistence::cursor
    gap     |-> FALSE,    \* gap_repair
    needs   |-> FALSE,    \* needs_checkpoint
    asking  |-> FALSE,    \* rows_req_outstanding
    caught  |-> FALSE,    \* caught_up
    blocked |-> FALSE,    \* quota_blocked
    retry   |-> FALSE,    \* retry_at is set
    resumed |-> FALSE,    \* Actor::resumed
    asked   |-> 0,        \* refresh_requested
    done    |-> 0,        \* refresh_completed
    view    |-> NoView,
    sSame   |-> FALSE,    \* the session's sample of causal_gap_generation
    hSame   |-> FALSE,    \* the HTTPS cycle's samples of the same,
    hRow    |-> FALSE,    \*   of row_gap_generation,
    hEpoch  |-> FALSE,    \*   and of http_replay_epoch
    boot    |-> host,
    event   |-> FALSE ]   \* ServerReset or PushRejected waits for the host

\* The HTTPS cycle is over and with it what it sampled.
CycleOver(c) == [c EXCEPT !.hSame = FALSE, !.hRow = FALSE, !.hEpoch = FALSE]

\* Mutant of ApplyRow: the cursor jumps over a gap.
ApplyRowJump(c, s, b, D) ==
  IF D[b] \subseteq c.held
    THEN [c EXCEPT !.held = c.held \union {b},
                   !.cursor = Larger(c.cursor, s), !.pcursor = Larger(c.pcursor, s)]
    ELSE [c EXCEPT !.held = c.held \union {b},
                   !.needs = TRUE, !.sSame = FALSE, !.hSame = FALSE]

\* Mutant of ApplyRow: a parked row moves the cursor.
ApplyRowParked(c, s, b, D) ==
  LET walk == s <= c.cursor + 1
      cur  == IF walk THEN Larger(c.cursor, s) ELSE c.cursor
  IN  [c EXCEPT !.held = c.held \union {b}, !.gap = c.gap \/ ~walk,
                !.hRow = c.hRow /\ walk, !.cursor = Larger(c.cursor, cur),
                !.pcursor = Larger(c.pcursor, cur)]

\* apply_remote_row and import_row: the cursor walks, it never jumps; a row
\* that is parked on missing history does not move it.
ApplyRow(c, s, b, D) ==
  LET walk == s <= c.cursor + 1
      cur  == IF walk THEN Larger(c.cursor, s) ELSE c.cursor
      g    == [c EXCEPT !.held = c.held \union {b},
                        !.gap = c.gap \/ ~walk, !.hRow = c.hRow /\ walk]
  IN  IF D[b] \subseteq c.held
        THEN [g EXCEPT !.cursor = cur, !.pcursor = Larger(c.pcursor, cur)]
        ELSE [g EXCEPT !.needs = TRUE, !.sSame = FALSE, !.hSame = FALSE]

\* An ack on the socket.  `left`: other batches are still pending.
ApplyAck(c, s, left) ==
  LET walk == s <= c.cursor + 1
      cur  == IF walk THEN Larger(c.cursor, s) ELSE c.cursor
  IN  [c EXCEPT !.cursor = cur, !.pcursor = Larger(c.pcursor, cur),
                !.gap = c.gap \/ ~walk, !.hRow = c.hRow /\ walk,
                !.blocked = c.blocked /\ left,
                !.retry = c.retry \/ (c.blocked /\ left)]

\* The ack of a POST: the pull that follows walks the gap.
ApplyHttpAck(c, s) ==
  LET cur == IF s <= c.cursor + 1 THEN Larger(c.cursor, s) ELSE c.cursor
  IN  [c EXCEPT !.cursor = cur, !.pcursor = Larger(c.pcursor, cur)]

\* contains_frontier, and the two cases that do not ask it
Contained(c, st, D) ==
  \/ ~st.has
  \/ ~c.needs /\ st.frontier # {} /\ st.frontier \subseteq Visible(c.held, D)

\* plan_catch_up: the seq to read rows after
CatchUpAfter(cursor, st, contained) ==
  LET own == IF cursor > st.head THEN 0 ELSE cursor
  IN  IF ~st.has THEN own ELSE IF contained THEN Larger(own, st.seq) ELSE st.seq

\* apply_checkpoint: a snapshot carries its whole history
ApplyCheckpoint(c, blob, seq) ==
  [c EXCEPT !.held = c.held \union blob, !.pcursor = Larger(c.pcursor, seq)]

=============================================================================
