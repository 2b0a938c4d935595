---------------------------- MODULE RegistrySync ----------------------------
(***************************************************************************)
(* Registry synchronisation: one room, and on every device a replica       *)
(* (RegistryDoc) driven by two tasks that share it under a lock,           *)
(*                                                                         *)
(*   - the session actor (crates/sync/src/registry.rs, run, run_session,   *)
(*     handle_frame): dial, hello, state, push, then frames and nudges     *)
(*     until the socket dies;                                              *)
(*   - the HTTPS cycle (spawn_offline_sync): POST the unsent batches, then *)
(*     GET the delta.  It is spawned when the socket is down and runs on   *)
(*     beside the next session.                                            *)
(*                                                                         *)
(* A device may crash and restart from its last saved snapshot.  Sockets   *)
(* are FIFO and die with what is in them, except that a push already on    *)
(* its way, or a POST that timed out, may still reach the room later and   *)
(* more than once (`late`).  Presence, probes and statistics change no     *)
(* row: a failed probe is a dropped socket.                                *)
(***************************************************************************)
EXTENDS RegistryDoc, RegistryRoom

CONSTANTS
  DeviceRow,     \* the row each device's host writes at boot; NoHost: the
                 \* replica and the client are used on their own
  NoHost,
  WriteKeys,     \* the rows that local writes touch
  Clearing,      \* local writes may clear a field
  Times,         \* readings of the wall clock, in ms
  HasTransport,  \* the client has the HTTPS seam (production) or not
  Lossy,         \* a broadcast may miss a socket (hibernation, half-dead)
  MaxWrites, MaxDrops, MaxCrashes, MaxAlarms, MaxResets   \* bounds

ASSUME SyncAssumption ==
  /\ NoHost \notin Keys
  /\ DeviceRow \in [Devices -> Keys \union {NoHost}]
  /\ WriteKeys \subseteq Keys
  /\ Times \subseteq Nat \ {0}
  /\ {HasTransport, Lossy, Clearing} \subseteq BOOLEAN
  /\ {MaxWrites, MaxDrops, MaxCrashes, MaxAlarms, MaxResets} \subseteq Nat

VARIABLES
  room,      \* the Durable Object
  backup,    \* seq of the copy of the table in R2
  doc,       \* the replica on each device
  saved,     \* its last snapshot in the device's DocsStore
  conn,      \* where the session actor is: down, hello, pushing, up
  socket,    \* the room's side of the socket: new, ready (hello answered), closed
  c2s, s2c,  \* the two directions of the socket
  sending,   \* batches the actor took and has yet to put on the socket
  nudged,    \* a nudge waits in the actor's channel
  http,      \* the HTTPS cycle
  late,      \* pushes that left a device and may still reach the room
  acked,     \* history: operations whose batch was acknowledged to its device
  horizon,   \* history: the newest GC horizon a purge used
  used       \* how much of each bound is spent

vars == <<room, backup, doc, saved, conn, socket, c2s, s2c, sending, nudged,
          http, late, acked, horizon, used>>

-----------------------------------------------------------------------------

NoAnswer == [seq |-> 0, full |-> FALSE, rows |-> EmptyTable]
IdleHttp == [ph |-> "idle", todo |-> {}, since |-> 0, answer |-> NoAnswer]

\* spawn_offline_sync: nothing without a transport, one cycle at a time.
Spawned(h) ==
  IF HasTransport /\ h.ph = "idle" THEN [h EXCEPT !.ph = "spawned"] ELSE h

Bound == [writes  |-> MaxWrites, drops |-> MaxDrops, crashes |-> MaxCrashes,
          alarms |-> MaxAlarms, resets |-> MaxResets]

Spend(what) ==
  /\ used[what] < Bound[what]
  /\ used' = [used EXCEPT ![what] = used[what] + 1]

\* Boot (WorkspaceHost::open): load, upsert this device's row, save at once.
FullSet == [f \in Fields |-> CHOOSE v \in Values : TRUE]
Boot(snapshot, c, now) ==
  IF DeviceRow[c] = NoHost THEN Reload(snapshot)
  ELSE Write(Reload(snapshot), c, DeviceRow[c], "upsert", FullSet, now)

\* What a socket that dies under the room leaves behind in the network.
Orphans(c) ==
  IF socket[c] = "closed" THEN {}
  ELSE {c2s[c][i].push : i \in {j \in DOMAIN c2s[c] : c2s[c][j].t = "push"}}

Init ==
  /\ room = NewRoom
  /\ backup = 0
  /\ \E now \in Times : doc = [c \in Devices |-> Boot(NewDoc, c, now)]
  /\ saved = doc
  /\ conn = [c \in Devices |-> "down"]
  /\ socket = [c \in Devices |-> "closed"]
  /\ c2s = [c \in Devices |-> <<>>]
  /\ s2c = [c \in Devices |-> <<>>]
  /\ sending = [c \in Devices |-> {}]
  /\ nudged = [c \in Devices |-> FALSE]
  /\ http = [c \in Devices |-> Spawned(IdleHttp)]
  /\ late = {}
  /\ acked = {}
  /\ horizon = 0
  /\ used = [writes |-> 0, drops |-> 0, crashes |-> 0, alarms |-> 0, resets |-> 0]

-----------------------------------------------------------------------------
(* Local writes: the typed API, then WorkspaceHost::mutate's nudge *)

Mutate(c, d) ==
  /\ Spend("writes")
  /\ doc' = [doc EXCEPT ![c] = d]
  /\ nudged' = [nudged EXCEPT ![c] = TRUE]
  /\ UNCHANGED <<room, backup, saved, conn, socket, c2s, s2c, sending, http,
                 late, acked, horizon>>

Sets == [Fields -> Values \union {Unset} \union (IF Clearing THEN {Null} ELSE {})]
          \ {NoSet}

\* upsert_chat, claim_chat, upsert_space, upsert_session, ...
Upsert(c) ==
  \E k \in WriteKeys, s \in Sets, now \in Times :
    Mutate(c, Write(doc[c], c, k, "upsert", s, now))

\* rename_*, set_*: only a row this device can see.
Update(c) ==
  \E k \in WriteKeys, s \in Sets, now \in Times :
    /\ RowExists(doc[c], k)
    /\ Mutate(c, Write(doc[c], c, k, "update", s, now))

\* delete_chat, delete_space: one batch for the whole cascade, whether or not
\* the rows are there.
Delete(c) ==
  \E ks \in (SUBSET WriteKeys) \ {{}}, now \in Times :
    Mutate(c, DeleteRows(doc[c], c, ks, now))

\* The debounced save of the snapshot.  One that no crash will load is skipped.
SaveSnapshot(c) ==
  /\ saved[c] # doc[c]
  /\ used.crashes < MaxCrashes
  /\ saved' = [saved EXCEPT ![c] = doc[c]]
  /\ UNCHANGED <<room, backup, doc, conn, socket, c2s, s2c, sending, nudged,
                 http, late, acked, horizon, used>>

-----------------------------------------------------------------------------
(* The session actor *)

\* run: the dial succeeds and the hello goes out with the cursor of this
\* moment, or without one if the replica is brand new.
HelloCursor(d) ==
  IF d.cursor = 0 /\ d.pending = {} /\ ~d.touched THEN NoCursor ELSE d.cursor

Dial(c) ==
  /\ conn[c] = "down"
  /\ conn' = [conn EXCEPT ![c] = "hello"]
  /\ socket' = [socket EXCEPT ![c] = "new"]
  /\ c2s' = [c2s EXCEPT ![c] = <<[t |-> "hello", cursor |-> HelloCursor(doc[c])]>>]
  /\ UNCHANGED <<room, backup, doc, saved, s2c, sending, nudged, http,
                 late, acked, used, horizon>>

\* The dial fails or times out: sync over HTTPS during the backoff.
\* Without the transport that is only a longer backoff.
DialFails(c) ==
  /\ conn[c] = "down"
  /\ Spend("drops")
  /\ http' = [http EXCEPT ![c] = Spawned(http[c])]
  /\ UNCHANGED <<room, backup, doc, saved, conn, socket, c2s, s2c, sending,
                 nudged, late, acked, horizon>>

\* SessionEnd::Reconnect, with the replica d the last frame left.
EndSession(c, d) ==
  /\ doc' = [doc EXCEPT ![c] = MarkDisconnected(d)]
  /\ conn' = [conn EXCEPT ![c] = "down"]
  /\ socket' = [socket EXCEPT ![c] = "closed"]
  /\ c2s' = [c2s EXCEPT ![c] = <<>>]
  /\ s2c' = [s2c EXCEPT ![c] = <<>>]
  /\ sending' = [sending EXCEPT ![c] = {}]
  /\ http' = [http EXCEPT ![c] = Spawned(http[c])]
  /\ late' = late \union Orphans(c)

\* The socket dies, a deadline passes (no state, no probe answer), or the
\* host asks for a redial.
Disconnect(c) ==
  /\ conn[c] # "down"
  /\ Spend("drops")
  /\ EndSession(c, doc[c])
  /\ UNCHANGED <<room, backup, saved, nudged, acked, horizon>>

\* The room closed the socket: the actor reads what came before and finds the
\* end, or its next send fails.
RecvClose(c) ==
  /\ conn[c] # "down"
  /\ socket[c] = "closed"
  /\ s2c[c] = <<>> \/ conn[c] = "pushing"
  /\ EndSession(c, doc[c])
  /\ UNCHANGED <<room, backup, saved, nudged, acked, used, horizon>>

\* push_pending: the batches left to send, and the steady state after the last.
StartPush(c, batches) ==
  /\ sending' = [sending EXCEPT ![c] = batches]
  /\ conn' = [conn EXCEPT ![c] = IF batches = {} THEN "up" ELSE "pushing"]

\* The hello's answer: apply it, then take everything pending to push it.  The
\* code would skip a broadcast that came before it; the room sends none to a
\* socket that has not said hello.
RecvState(c) ==
  /\ conn[c] = "hello"
  /\ s2c[c] # <<>> /\ Head(s2c[c]).t = "state"
  /\ \E now \in Times :
       LET m == Head(s2c[c])
           d == ApplyState(doc[c], c, m.seq, m.full, m.rows, now)
       IN  /\ doc' = [doc EXCEPT ![c] = TakePushable(d)]
           /\ StartPush(c, Pushable(d))
  /\ s2c' = [s2c EXCEPT ![c] = Tail(s2c[c])]
  /\ UNCHANGED <<room, backup, saved, socket, c2s, nudged, http, late, acked, used, horizon>>

\* push_pending sends one batch after another and handles no frame between.
SendPush(c) ==
  /\ conn[c] = "pushing"
  /\ sending[c] # {}
  /\ LET b == Oldest(sending[c])
     IN  /\ c2s' = [c2s EXCEPT ![c] = Append(c2s[c], [t |-> "push", push |-> b])]
         /\ StartPush(c, sending[c] \ {b})
  /\ UNCHANGED <<room, backup, doc, saved, socket, s2c, nudged, http,
                 late, acked, used, horizon>>

\* A nudge: take what is not in flight and push it.
Nudge(c) ==
  /\ conn[c] = "up"
  /\ nudged[c]
  /\ nudged' = [nudged EXCEPT ![c] = FALSE]
  /\ doc' = [doc EXCEPT ![c] = TakePushable(doc[c])]
  /\ StartPush(c, Pushable(doc[c]))
  /\ UNCHANGED <<room, backup, saved, socket, c2s, s2c, http, late, acked, used, horizon>>

\* A rows frame: its rows always apply; across a gap the cursor holds and the
\* session ends, for the next hello to fetch what was missed.
RecvRows(c) ==
  /\ conn[c] = "up"
  /\ s2c[c] # <<>> /\ Head(s2c[c]).t = "rows"
  /\ LET m == Head(s2c[c])
         d == ApplyRows(doc[c], m.seq, m.rows)
     IN  IF Gap(doc[c], m.seq)
           THEN EndSession(c, d)
           ELSE /\ doc' = [doc EXCEPT ![c] = d]
                /\ s2c' = [s2c EXCEPT ![c] = Tail(s2c[c])]
                /\ UNCHANGED <<conn, socket, c2s, sending, http, late>>
  /\ UNCHANGED <<room, backup, saved, nudged, acked, used, horizon>>

\* Acknowledged operations, for the history.
OpsOf(d, batch) ==
  UNION {{[key |-> k, op |-> b.ops[k].op, hlc |-> b.ops[k].hlc] :
            k \in {x \in Keys : b.ops[x].op # "none"}} :
         b \in {p \in d.pending : p.batch = batch}}

RecvAck(c) ==
  /\ conn[c] = "up"
  /\ s2c[c] # <<>> /\ Head(s2c[c]).t = "ack"
  /\ LET m == Head(s2c[c])
     IN  /\ doc' = [doc EXCEPT ![c] = AckBatch(doc[c], m.batch)]
         /\ acked' = acked \union OpsOf(doc[c], m.batch)
  /\ s2c' = [s2c EXCEPT ![c] = Tail(s2c[c])]
  /\ UNCHANGED <<room, backup, saved, conn, socket, c2s, sending, nudged, http,
                 late, used, horizon>>

\* The process dies and comes back from its snapshot (WorkspaceHost::open).
Crash(c) ==
  /\ Spend("crashes")
  /\ \E now \in Times :
       LET d == Boot(saved[c], c, now)
       IN  doc' = [doc EXCEPT ![c] = d] /\ saved' = [saved EXCEPT ![c] = d]
  /\ conn' = [conn EXCEPT ![c] = "down"]
  /\ socket' = [socket EXCEPT ![c] = "closed"]
  /\ c2s' = [c2s EXCEPT ![c] = <<>>]
  /\ s2c' = [s2c EXCEPT ![c] = <<>>]
  /\ sending' = [sending EXCEPT ![c] = {}]
  /\ nudged' = [nudged EXCEPT ![c] = FALSE]
  /\ http' = [http EXCEPT ![c] = Spawned(IdleHttp)]
  /\ late' = late \union Orphans(c)
                  \union (IF http[c].ph = "push" THEN http[c].todo ELSE {})
  /\ UNCHANGED <<room, backup, acked, horizon>>

-----------------------------------------------------------------------------
(* The HTTPS cycle *)

SetHttp(c, h) == http' = [http EXCEPT ![c] = h]

HttpTake(c) ==
  /\ http[c].ph = "spawned"
  /\ SetHttp(c, [http[c] EXCEPT !.ph = "push", !.todo = Pushable(doc[c])])
  /\ doc' = [doc EXCEPT ![c] = TakePushable(doc[c])]
  /\ UNCHANGED <<room, backup, saved, conn, socket, c2s, s2c, sending, nudged,
                 late, acked, used, horizon>>

\* The POST's answer retires the batch.
HttpAck(c) ==
  /\ http[c].ph = "acking"
  /\ LET b == Oldest(http[c].todo)
     IN  /\ SetHttp(c, [http[c] EXCEPT !.ph = "push", !.todo = @ \ {b}])
         /\ doc' = [doc EXCEPT ![c] = AckBatch(doc[c], b.batch)]
         /\ acked' = acked \union OpsOf(doc[c], b.batch)
  /\ UNCHANGED <<room, backup, saved, conn, socket, c2s, s2c, sending, nudged,
                 late, used, horizon>>

\* Mutant of HttpPushFails: the batches stay marked in flight.
HttpPushStrands(c) ==
  /\ http[c].ph \in {"push", "acking"}
  /\ http[c].todo # {}
  /\ Spend("drops")
  /\ SetHttp(c, [http[c] EXCEPT !.ph = "push", !.todo = {}])
  /\ late' = late \union {Oldest(http[c].todo)}
  /\ UNCHANGED <<room, backup, doc, saved, conn, socket, c2s, s2c, sending,
                 nudged, acked, horizon>>

\* The POST fails, or its answer is lost or unreadable: stop pushing, let
\* everything be pushed again, and go on to the pull.
HttpPushFails(c) ==
  /\ http[c].ph \in {"push", "acking"}
  /\ http[c].todo # {}
  /\ Spend("drops")
  /\ SetHttp(c, [http[c] EXCEPT !.ph = "push", !.todo = {}])
  /\ doc' = [doc EXCEPT ![c] = MarkDisconnected(doc[c])]
  /\ late' = late \union {Oldest(http[c].todo)}
  /\ UNCHANGED <<room, backup, saved, conn, socket, c2s, s2c, sending, nudged, acked, horizon>>

\* GET /rows?since=cursor leaves; the lock is released until the answer.
HttpPull(c) ==
  /\ http[c].ph = "push"
  /\ http[c].todo = {}
  /\ SetHttp(c, [http[c] EXCEPT !.ph = "pulling", !.since = doc[c].cursor])
  /\ UNCHANGED <<room, backup, doc, saved, conn, socket, c2s, s2c, sending,
                 nudged, late, acked, used, horizon>>

HttpApply(c) ==
  /\ http[c].ph = "answered"
  /\ \E now \in Times :
       LET m == http[c].answer
       IN  doc' = [doc EXCEPT ![c] =
                     ApplyState(doc[c], c, m.seq, m.full, m.rows, now)]
  /\ SetHttp(c, IdleHttp)
  /\ UNCHANGED <<room, backup, saved, conn, socket, c2s, s2c, sending, nudged,
                 late, acked, used, horizon>>

HttpPullFails(c) ==
  /\ http[c].ph \in {"pulling", "answered"}
  /\ Spend("drops")
  /\ SetHttp(c, IdleHttp)
  /\ UNCHANGED <<room, backup, doc, saved, conn, socket, c2s, s2c, sending,
                 nudged, late, acked, horizon>>

-----------------------------------------------------------------------------
(* The room *)

\* Mutant of Publish: the ack goes out before the rows.
AckFirst(ops, reply) ==
  /\ room' = ApplyPushBatch(room, ops)
  /\ s2c' = [c \in Devices |->
               s2c[c] \o reply[c] \o
                 (IF socket[c] = "ready" /\ Touched(room, ops) # {}
                    THEN <<[t |-> "rows", seq |-> room'.seq,
                            rows |-> MergedRows(room, ops)]>>
                    ELSE <<>>)]

\* Apply a batch and broadcast what it changed to every ready socket; on a
\* lossy network some of them miss the frame.  `reply` is appended to the
\* sender's socket after the broadcast.
Publish(ops, reply) ==
  /\ room' = ApplyPushBatch(room, ops)
  /\ \E missed \in IF Lossy /\ Touched(room, ops) # {}
                     THEN SUBSET {c \in Devices : socket[c] = "ready"} ELSE {{}} :
       s2c' = [c \in Devices |->
                 (IF socket[c] = "ready" /\ c \notin missed /\ Touched(room, ops) # {}
                    THEN Append(s2c[c], [t    |-> "rows",
                                         seq  |-> room'.seq,
                                         rows |-> MergedRows(room, ops)])
                    ELSE s2c[c]) \o reply[c]]

NoReply == [c \in Devices |-> <<>>]

RoomHello(c) ==
  /\ socket[c] # "closed"
  /\ c2s[c] # <<>> /\ Head(c2s[c]).t = "hello"
  /\ LET a == Answer(room, Head(c2s[c]).cursor)
     IN  s2c' = [s2c EXCEPT ![c] =
                   Append(s2c[c], [t |-> "state", seq |-> a.seq,
                                   full |-> a.full, rows |-> a.rows])]
  /\ socket' = [socket EXCEPT ![c] = "ready"]
  /\ c2s' = [c2s EXCEPT ![c] = Tail(c2s[c])]
  /\ UNCHANGED <<room, backup, doc, saved, conn, sending, nudged, http, late,
                 acked, used, horizon>>

\* A push over the socket: the merged rows first, then the ack.
RoomPush(c) ==
  /\ socket[c] # "closed"
  /\ c2s[c] # <<>> /\ Head(c2s[c]).t = "push"
  /\ LET b == Head(c2s[c]).push
     IN  Publish(b.ops, [NoReply EXCEPT ![c] = <<[t |-> "ack", batch |-> b.batch]>>])
  /\ c2s' = [c2s EXCEPT ![c] = Tail(c2s[c])]
  /\ UNCHANGED <<backup, doc, saved, conn, socket, sending, nudged, http, late,
                 acked, used, horizon>>

\* POST /push: the same, and the ack is the response.
RoomPost(c) ==
  /\ http[c].ph = "push"
  /\ http[c].todo # {}
  /\ Publish(Oldest(http[c].todo).ops, NoReply)
  /\ SetHttp(c, [http[c] EXCEPT !.ph = "acking"])
  /\ UNCHANGED <<backup, doc, saved, conn, socket, c2s, sending, nudged, late,
                 acked, used, horizon>>

\* A push of a dead socket or of a POST its device gave up on.
RoomLate ==
  \E b \in late :
    /\ Touched(room, b.ops) # {}
    /\ Publish(b.ops, NoReply)
    /\ UNCHANGED <<backup, doc, saved, conn, socket, c2s, sending, nudged, http,
                   late, acked, used, horizon>>

\* GET /rows?since=
RoomRows(c) ==
  /\ http[c].ph = "pulling"
  /\ SetHttp(c, [http[c] EXCEPT !.ph = "answered",
                                !.answer = Answer(room, http[c].since)])
  /\ UNCHANGED <<room, backup, doc, saved, conn, socket, c2s, s2c, sending,
                 nudged, late, acked, used, horizon>>

\* The horizon is 30 days ago: any tombstone may be on either side of it.
Horizons == {0} \union {room.rows[k].delHlc + 1 : k \in Keys}

RoomAlarm ==
  /\ room.alarm
  /\ room.putting = 0
  /\ Spend("alarms")
  /\ \E h \in Horizons : /\ room' = AlarmFires(room, h)
                         /\ horizon' = IF room.dirty /\ h > horizon THEN h ELSE horizon
  /\ UNCHANGED <<backup, doc, saved, conn, socket, c2s, s2c, sending, nudged,
                 http, late, acked>>

RoomAlarmEnds ==
  /\ room.putting # 0
  /\ backup' = room.putting
  /\ room' = AlarmEnds(room)
  /\ UNCHANGED <<doc, saved, conn, socket, c2s, s2c, sending, nudged, http,
                 late, acked, used, horizon>>

\* The upload throws, whether or not the copy reached R2.
RoomAlarmFails ==
  /\ room.putting # 0
  /\ Spend("drops")
  /\ backup' \in {backup, room.putting}
  /\ room' = AlarmFails(room)
  /\ UNCHANGED <<doc, saved, conn, socket, c2s, s2c, sending, nudged, http,
                 late, acked, horizon>>

\* The operator's wipe closes every socket.
RoomReset ==
  /\ Spend("resets")
  /\ room' = Reset(room)
  /\ socket' = [c \in Devices |-> "closed"]
  /\ UNCHANGED <<backup, doc, saved, conn, c2s, s2c, sending, nudged, http,
                 late, acked, horizon>>

-----------------------------------------------------------------------------

LocalStep(c)   == Upsert(c) \/ Update(c) \/ Delete(c) \/ SaveSnapshot(c) \/ Crash(c)

SessionStep(c) == \/ Dial(c) \/ RecvState(c) \/ SendPush(c) \/ Nudge(c) \/ RecvRows(c) \/ RecvAck(c) \/ RecvClose(c)

HttpStep(c)    == HttpTake(c) \/ HttpAck(c) \/ HttpPull(c) \/ HttpApply(c)

Failure(c)     == Disconnect(c) \/ DialFails(c) \/ HttpPushFails(c) \/ HttpPullFails(c)

RoomStep(c)    == RoomHello(c) \/ RoomPush(c) \/ RoomPost(c) \/ RoomRows(c)

Next ==
  \/ \E c \in Devices : \/ LocalStep(c) \/ SessionStep(c) \/ HttpStep(c)
                        \/ Failure(c) \/ RoomStep(c)
  \/ RoomLate \/ RoomAlarm \/ RoomAlarmEnds \/ RoomAlarmFails \/ RoomReset

Spec == Init /\ [][Next]_vars

\* The actor's loop, the HTTPS task and the room keep running; nothing makes
\* a user write, a socket fail, or an old push arrive.
Fairness ==
  \A c \in Devices : /\ WF_vars(SessionStep(c)) /\ WF_vars(HttpStep(c))
                     /\ WF_vars(RoomStep(c))

FairSpec == Spec /\ Fairness

-----------------------------------------------------------------------------
(* Properties *)

Frame == [t : {"state"}, seq : Nat, full : BOOLEAN, rows : [Keys -> Row]]
  \union [t : {"rows"}, seq : Nat, rows : [Keys -> Row]]
  \union [t : {"ack"}, batch : Hlc]

ClientFrame == [t : {"hello"}, cursor : Nat \union {NoCursor}]
  \union [t : {"push"}, push : Batch]

HttpCycle == [ ph     : {"idle", "spawned", "push", "acking", "pulling", "answered"},
               todo   : SUBSET Batch,
               since  : Nat,
               answer : [seq : Nat, full : BOOLEAN, rows : [Keys -> Row]] ]

\* Every variable has the shape its declaration says.
TypeOK ==
  /\ room \in Room
  /\ backup \in Nat
  /\ doc \in [Devices -> Replica]
  /\ saved \in [Devices -> Replica]
  /\ conn \in [Devices -> {"down", "hello", "pushing", "up"}]
  /\ socket \in [Devices -> {"new", "ready", "closed"}]
  /\ nudged \in [Devices -> BOOLEAN]
  /\ sending \in [Devices -> SUBSET Batch]
  /\ c2s \in [Devices -> Seq(ClientFrame)]
  /\ s2c \in [Devices -> Seq(Frame)]
  /\ http \in [Devices -> HttpCycle]
  /\ late \in SUBSET Batch
  /\ acked \in SUBSET [key : Keys, op : {"upsert", "update", "delete"}, hlc : Hlc]
  /\ horizon \in Nat
  /\ used \in [{"writes", "drops", "crashes", "alarms", "resets"} -> Nat]

\* RegistryDoc::cursor, "the last server seq this replica has fully applied":
\* every row the room last changed at or below a replica's cursor is in the
\* replica as the room has it.  A row that is not is never sent again.
CursorComplete ==
  \A c \in Devices, k \in Keys :
    Exists(room.rows[k]) /\ room.rows[k].seq <= doc[c].cursor
      => doc[c].auth[k] = room.rows[k]

\* Tombstone GC (alarm, gcFloor): a replica whose cursor the room would answer
\* with a delta does not still show as live a row whose tombstone was purged.
NoGhostRows ==
  \A c \in Devices, k \in Keys :
    doc[c].auth[k].st = "live" /\ doc[c].cursor >= room.gcFloor
      => Exists(room.rows[k])

\* The row has seen a write or a delete at clock h or later.
Reaches(row, h) == \E g \in AllClocks(row) : g >= h

\* The row bears out an operation: a create by a clock at least as new, a
\* delete by a tombstone at least as new or a field written after it.
Holds(row, a) ==
  CASE a.op = "upsert" -> Reaches(row, a.hlc)
    [] a.op = "delete" -> \/ row.st = "deleted" /\ row.delHlc >= a.hlc
                          \/ row.st = "live" /\ \E f \in Fields : row.clocks[f] > a.hlc
    [] OTHER -> TRUE

\* Once a device has been told its create or delete was accepted, the room
\* bears it out for good, whatever old pushes still arrive: an acknowledged
\* delete is not undone by an older write.  What is older than the tombstones
\* that GC removed is the exception.
AckedHeld ==
  \A a \in acked : Holds(room.rows[a.key], a) \/ a.hlc < horizon

\* "Rows go out BEFORE the ack ... no between-frames flicker window": on a
\* socket that loses nothing, retiring an acknowledged batch does not change
\* what the device displays.
NoFlicker ==
  [][\A c \in Devices : RecvAck(c) =>
       \A k \in Keys : LET before == OverlayRow(doc[c], k)
                           after  == OverlayRow(doc'[c], k)
                       IN  /\ (before.st = "live") = (after.st = "live")
                           /\ before.st = "live" => before.fields = after.fields]_vars

\* registry.rs, spawn_offline_sync: a batch marked in flight with nothing to
\* carry it is "stranded until process restart".  Every such batch is about to
\* be sent, on the socket, acknowledged, or in the HTTPS cycle's hands.
InFlightCarried ==
  \A c \in Devices : \A b \in doc[c].pending :
    b.inFlight =>
      \/ \E x \in sending[c] \union http[c].todo : x.batch = b.batch
      \/ \E i \in DOMAIN c2s[c] : c2s[c][i].t = "push" /\ c2s[c][i].push.batch = b.batch
      \/ \E i \in DOMAIN s2c[c] : s2c[c][i].t = "ack" /\ s2c[c][i].batch = b.batch

\* A replica that shows exactly the room's table and owes it nothing.
InSync(c) ==
  /\ doc[c].pending = {}
  /\ \A k \in Keys : IF Exists(room.rows[k]) THEN doc[c].auth[k] = room.rows[k]
                                              ELSE doc[c].auth[k].st # "live"

\* When writes and failures stop, every replica converges to the room's table
\* and every write has been pushed.
Converges == \A c \in Devices : <>[]InSync(c)

=============================================================================
