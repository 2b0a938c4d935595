----------------------------- MODULE ChatRelay ------------------------------
(***************************************************************************)
(* Chat synchronisation: one relay room (ChatRoom) and on every device a   *)
(* document that four tasks share with the user,                           *)
(*                                                                         *)
(*   - the session actor (crates/sync/src/chat_client.rs, run_session):    *)
(*     hello, state, a plan, perhaps the checkpoint, the backfill, then    *)
(*     frames until the socket dies;                                       *)
(*   - the HTTPS cycle (spawn_offline_sync): POST what is pending, GET the *)
(*     rows, perhaps the checkpoint.  Spawned whenever the socket is down, *)
(*     it runs on beside the next session;                                 *)
(*   - the checkpoint post (crates/engine/src/doc_host.rs,                 *)
(*     spawn_chat2_checkpoint): sample the cursor, export, POST;           *)
(*   - the persister (crates/engine/src/chat_persistence.rs): sample the   *)
(*     cursor, export, save.                                               *)
(*                                                                         *)
(* A step is what happens between two awaits, or between two uses of the   *)
(* lock where another task can tell the difference.  Sockets are FIFO and  *)
(* die with what is in them, but a push that has left may still reach the  *)
(* room (`late`).  Presence, probes, sidecar files and statistics change   *)
(* neither log nor document: a failed probe is a dropped socket.           *)
(***************************************************************************)
EXTENDS ChatClient

CONSTANTS
  Devices,
  Host,          \* the device that runs the chat's agent, or NoDevice
  Transport,     \* the devices whose client has the HTTPS seam (production: all)
  Threshold,     \* rows a room may hold before a client posts a checkpoint
  PageRows,      \* rows in the body of one pull
  MaxRepairs,    \* MAX_GAP_REPAIRS_PER_SESSION
  Writers, Woken, Mortal,    \* bounds: who may write, be woken, crash,
  Posters,                   \*   and post a checkpoint for the room's size
  Faults,                    \* bound: of "drop", "post", "quota", "reset", "crash"
  MaxWrites, MaxBig, MaxWakes, MaxFaults   \* bounds

ASSUME ChatAssumption ==
  /\ NoDevice \notin Devices
  /\ Host \in Devices \union {NoDevice}
  /\ Transport \union Writers \union Woken \union Mortal \union Posters \subseteq Devices
  /\ Faults \subseteq {"drop", "post", "quota", "reset", "crash"}
  /\ {Threshold, PageRows, MaxRepairs, MaxWrites, MaxBig, MaxWakes, MaxFaults}
       \subseteq Nat

VARIABLES
  deps,      \* the batches written so far, each as the set its author saw
  room,      \* the Durable Object
  outbox,    \* the table chat_outbox of each device
  rejected,  \* its rows with needs_checkpoint = 1
  cl,        \* the client and the document of each device
  disk,      \* its last saved snapshot
  flush,     \* the persister: the cursor it sampled, or NoFlush
  ses,       \* the session actor
  socket,    \* the room's side of the socket: new, ready (hello answered), closed
  c2s, s2c,  \* the two directions of the socket
  http,      \* the HTTPS cycle
  post,      \* the checkpoint post
  late,      \* pushes that left a device and may still reach the room
  wanted,    \* history: for each ticket, the rows there were when it was given
  used       \* how much of each bound is spent

vars == <<deps, room, outbox, rejected, cl, disk, flush, ses, socket, c2s, s2c,
          http, post, late, wanted, used>>

wire  == <<socket, c2s, s2c, late>>
store == <<outbox, rejected>>
files == <<disk, flush>>

-----------------------------------------------------------------------------

NoFlush == -1

NoState == State(NewRoom)

NoSession == [ ph       |-> "down",
               seq      |-> 0,         \* of the checkpoint to fetch
               blob     |-> {},        \* the checkpoint fetched
               ticket   |-> 0,         \* refresh_ticket of the backfill
               inFlight |-> {},        \* in_flight
               repairs  |-> 0,         \* gap_repairs
               refresh  |-> 0 ]        \* refresh_in_flight, 0: none

NoRows == [s \in {} |-> 0]

IdleHttp == [ ph     |-> "idle",
              todo   |-> {},           \* batches left to POST
              seq    |-> 0,            \* of the ack on its way
              after  |-> 0,            \* the cursor of the pull
              ticket |-> 0,
              st     |-> NoState,
              rows   |-> NoRows,
              whole  |-> FALSE,        \* the body ends with rowsDone
              blob   |-> {} ]

NoPost == [ph |-> "idle", seq |-> 0, content |-> {}, covers |-> {}]

\* spawn_offline_sync: nothing without a transport, one cycle at a time
Spawned(d, h) ==
  IF d \in Transport /\ h.ph = "idle" THEN [h EXCEPT !.ph = "spawned"] ELSE h

\* One more of what a bound counts
Spend(what, bound) ==
  /\ used[what] < bound
  /\ used' = [used EXCEPT ![what] = used[what] + 1]

Fault(kind) == kind \in Faults /\ Spend("faults", MaxFaults)

Init ==
  /\ deps = <<>>
  /\ room = NewRoom
  /\ outbox = [d \in Devices |-> {}]
  /\ rejected = [d \in Devices |-> {}]
  /\ cl = [d \in Devices |-> NewClient({}, 0, d = Host)]
  /\ disk = [d \in Devices |-> [doc |-> {}, cursor |-> 0]]
  /\ flush = [d \in Devices |-> NoFlush]
  /\ ses = [d \in Devices |-> NoSession]
  /\ socket = [d \in Devices |-> "closed"]
  /\ c2s = [d \in Devices |-> <<>>]
  /\ s2c = [d \in Devices |-> <<>>]
  /\ http = [d \in Devices |-> Spawned(d, IdleHttp)]
  /\ post = [d \in Devices |-> NoPost]
  /\ late = {}
  /\ wanted = [d \in Devices |-> <<>>]
  /\ used = [what \in {"big", "wakes", "faults"} |-> 0]

\* Shared::pending: what the outbox holds and was not rejected
Pending(d) == outbox[d] \ rejected[d]

Doc(d) == Visible(cl[d].held, deps)

SetClient(d, c) == cl' = [cl EXCEPT ![d] = c]
Send(d, m) == c2s' = [c2s EXCEPT ![d] = Append(c2s[d], m)]

\* Mutant of RowsReq: a device that has nothing yet leaves its own rows out too.
RowsReqOwn(after, own) == [t |-> "rowsReq", after |-> after, excludeOwn |-> TRUE]

RowsReq(after, own) == [t |-> "rowsReq", after |-> after, excludeOwn |-> own]

-----------------------------------------------------------------------------
(* The user and the host *)

\* A commit in the document: the local-update subscription stores the batch in
\* the outbox, then enqueue_batch queues it.  A batch over the row cap is
\* stored as rejected, and the host's watcher hears of it.
Write(d) ==
  \E big \in BOOLEAN :
    LET b == Len(deps) + 1
    IN  /\ d \in Writers /\ b <= MaxWrites
        /\ deps' = Append(deps, Doc(d))
        /\ outbox' = [outbox EXCEPT ![d] = outbox[d] \union {b}]
        /\ IF big
             THEN /\ Spend("big", MaxBig)
                  /\ rejected' = [rejected EXCEPT ![d] = rejected[d] \union {b}]
             ELSE UNCHANGED <<rejected, used>>
        /\ SetClient(d, [cl[d] EXCEPT !.held = cl[d].held \union {b},
                                      !.event = cl[d].event \/ (big /\ d = Host)])
        /\ UNCHANGED <<room, files, ses, wire, http, post, wanted>>

\* request_catch_up, for a command that must see the chat as it is now
RequestCatchUp(d) ==
  /\ d \in Woken
  /\ Spend("wakes", MaxWakes)
  /\ SetClient(d, [cl[d] EXCEPT !.asked = cl[d].asked + 1])
  /\ wanted' = [wanted EXCEPT ![d] = Append(wanted[d], Admitted(room))]
  /\ UNCHANGED <<deps, room, store, files, ses, wire, http, post>>

-----------------------------------------------------------------------------
(* The persister.  A save that no crash will load is skipped. *)

\* flush_sync: read the cursor first,
FlushSample(d) ==
  /\ flush[d] = NoFlush
  /\ d \in Mortal /\ "crash" \in Faults /\ used.faults < MaxFaults
  /\ disk[d] # [doc |-> Doc(d), cursor |-> cl[d].pcursor]
  /\ flush' = [flush EXCEPT ![d] = cl[d].pcursor]
  /\ UNCHANGED <<deps, room, store, cl, disk, ses, wire, http, post, wanted, used>>

\* then export, and save both in one transaction.
FlushSave(d) ==
  /\ flush[d] # NoFlush
  /\ disk' = [disk EXCEPT ![d] = [doc |-> Doc(d), cursor |-> flush[d]]]
  /\ flush' = [flush EXCEPT ![d] = NoFlush]
  /\ UNCHANGED <<deps, room, store, cl, ses, wire, http, post, wanted, used>>

-----------------------------------------------------------------------------
(* The session actor *)

\* run: the dial succeeds and the hello goes out
Dial(d) ==
  /\ ses[d].ph = "down"
  /\ ses' = [ses EXCEPT ![d] = [NoSession EXCEPT !.ph = "hello"]]
  /\ SetClient(d, [cl[d] EXCEPT !.asking = FALSE])
  /\ socket' = [socket EXCEPT ![d] = "new"]
  /\ Send(d, [t |-> "hello"])
  /\ UNCHANGED <<deps, room, store, files, s2c, http, post, late, wanted, used>>

\* The dial fails or times out: sync over HTTPS during the backoff.
DialFails(d) ==
  /\ d \in Transport
  /\ ses[d].ph = "down"
  /\ Fault("drop")
  /\ http' = [http EXCEPT ![d] = Spawned(d, http[d])]
  /\ UNCHANGED <<deps, room, store, cl, files, ses, wire, post, wanted>>

\* What a socket that dies under the room leaves behind in the network.
Orphans(d) ==
  IF socket[d] = "closed" THEN {}
  ELSE UNION {{[device |-> d, batch |-> b] : b \in c2s[d][i].batches} :
                i \in {j \in DOMAIN c2s[d] : c2s[d][j].t = "push"}}

\* SessionEnd::Reconnect, with the client c the last step left.  A session
\* that had joined ends the epoch of the HTTPS cycle.
EndSession(d, c) ==
  /\ SetClient(d, [c EXCEPT !.hEpoch = c.hEpoch /\ ses[d].ph = "hello",
                            !.sSame = FALSE])
  /\ ses' = [ses EXCEPT ![d] = NoSession]
  /\ socket' = [socket EXCEPT ![d] = "closed"]
  /\ c2s' = [c2s EXCEPT ![d] = <<>>]
  /\ s2c' = [s2c EXCEPT ![d] = <<>>]
  /\ http' = [http EXCEPT ![d] = Spawned(d, http[d])]
  /\ late' = late \union Orphans(d)

\* The socket dies, a deadline passes (no state, no rows, no probe answer, the
\* checkpoint's fetch), or the host asks for a redial.
Disconnect(d) ==
  /\ ses[d].ph # "down"
  /\ Fault("drop")
  /\ EndSession(d, cl[d])
  /\ UNCHANGED <<deps, room, store, files, post, wanted>>

\* The room closed the socket: the actor reads what came before, then its end.
RecvClose(d) ==
  /\ ses[d].ph # "down"
  /\ socket[d] = "closed"
  /\ s2c[d] = <<>>
  /\ EndSession(d, cl[d])
  /\ UNCHANGED <<deps, room, store, files, post, wanted, used>>

\* push_pending, for a session that has `sent` in flight
Unsent(d, sent) == IF cl[d].blocked THEN {} ELSE Pending(d) \ sent

\* The hello's answer and the catch-up plan.  A head below the cursor is a
\* wiped room: the stored cursor is void, and the host's watcher hears of it.
\* The plan's seq becomes the cursor at once; the request for rows and the
\* pending pushes go out before the checkpoint is fetched.
RecvState(d) ==
  /\ ses[d].ph = "hello"
  /\ s2c[d] # <<>>
  /\ LET c     == cl[d]
         st    == Head(s2c[d]).st
         wiped == c.cursor > st.head
         cont  == Contained(c, st, deps)
         after == CatchUpAfter(c.cursor, st, cont)
         push  == Unsent(d, {})
     IN  /\ SetClient(d, [c EXCEPT
                !.view = ViewOf(st), !.asking = FALSE, !.cursor = after,
                !.pcursor = IF wiped THEN 0 ELSE c.pcursor,
                !.event = c.event \/ (wiped /\ d = Host),
                !.needs = c.needs /\ ~cont, !.sSame = ~cont])
         /\ ses' = [ses EXCEPT ![d].ph = IF cont THEN "filling" ELSE "fetching",
                               ![d].seq = IF cont THEN 0 ELSE st.seq,
                               ![d].ticket = c.asked, ![d].inFlight = push]
         /\ c2s' = [c2s EXCEPT ![d] =
              c2s[d] \o <<RowsReq(after, c.resumed /\ ~c.needs)>>
                     \o (IF push = {} THEN <<>> ELSE <<[t |-> "push", batches |-> push]>>)]
  /\ s2c' = [s2c EXCEPT ![d] = Tail(s2c[d])]
  /\ UNCHANGED <<deps, room, store, files, socket, http, post, late, wanted, used>>

\* GET /checkpoint for the session: what is there now, or nothing (404)
Fetch(d) ==
  /\ ses[d].ph = "fetching"
  /\ IF room.has
       THEN /\ ses' = [ses EXCEPT ![d].ph = "importing", ![d].blob = room.ckpt]
            /\ UNCHANGED <<cl, wire, http>>
       ELSE EndSession(d, cl[d])
  /\ UNCHANGED <<deps, room, store, files, post, wanted, used>>

\* The import.  Frames that came meanwhile are handled after it.
Import(d) ==
  /\ ses[d].ph = "importing"
  /\ LET c == ApplyCheckpoint(cl[d], ses[d].blob, ses[d].seq)
     IN  SetClient(d, [c EXCEPT !.cursor = Larger(c.cursor, ses[d].seq),
                                !.needs = c.needs /\ ~c.sSame, !.sSame = FALSE])
  /\ ses' = [ses EXCEPT ![d].ph = "filling", ![d].blob = {}, ![d].seq = 0]
  /\ UNCHANGED <<deps, room, store, files, wire, http, post, wanted, used>>

\* maybe_repair_gap, with the client and the session s that a frame left and
\* the frames that follow it.  Only the checkpoint restores missing history,
\* so that is left to the next session; rows are asked for again, MaxRepairs
\* times.
RepairGap(d, left, s, rest) ==
  \E c \in {left} :
    LET repair == ~c.needs /\ ~c.asking /\ c.gap
        asked  == [c EXCEPT !.gap = c.gap /\ ~repair, !.asking = c.asking \/ repair]
    IN  IF c.needs \/ (repair /\ s.repairs = MaxRepairs)
          THEN EndSession(d, asked)
          ELSE /\ SetClient(d, asked)
               /\ ses' = [ses EXCEPT ![d] =
                            [s EXCEPT !.repairs = s.repairs + (IF repair THEN 1 ELSE 0)]]
               /\ s2c' = [s2c EXCEPT ![d] = rest]
               /\ IF repair THEN Send(d, RowsReq(c.cursor, FALSE)) ELSE UNCHANGED c2s
               /\ UNCHANGED <<socket, http, late>>

\* A frame that leaves the client as c.  Only the steady state looks for gaps.
Handled(d, c, rest) ==
  IF ses[d].ph = "up" THEN RepairGap(d, c, ses[d], rest)
  ELSE /\ SetClient(d, c)
       /\ s2c' = [s2c EXCEPT ![d] = rest]
       /\ UNCHANGED <<ses, socket, c2s, http, late>>

Frame(d, t) ==
  /\ ses[d].ph \in {"filling", "up"}
  /\ s2c[d] # <<>>
  /\ Head(s2c[d]).t = t

\* A row, of a backfill or relayed live
RecvRow(d) ==
  /\ Frame(d, "rows")
  /\ LET m == Head(s2c[d])
         s == Min(DOMAIN m.rows)
         left == [m EXCEPT !.rows = [t \in DOMAIN m.rows \ {s} |-> m.rows[t]]]
         rest == IF DOMAIN left.rows = {} /\ ~m.done THEN Tail(s2c[d])
                 ELSE <<left>> \o Tail(s2c[d])
     IN  /\ DOMAIN m.rows # {}
         /\ Handled(d, ApplyRow(cl[d], s, m.rows[s], deps), rest)
  /\ UNCHANGED <<deps, room, store, files, post, wanted, used>>

RecvAck(d) ==
  /\ Frame(d, "ack")
  /\ LET m == Head(s2c[d])
     IN  /\ outbox' = [outbox EXCEPT ![d] = outbox[d] \ {m.batch}]
         /\ Handled(d, ApplyAck(cl[d], m.seq, Pending(d) \ {m.batch} # {}), Tail(s2c[d]))
  /\ UNCHANGED <<deps, room, rejected, files, post, wanted, used>>

\* The room's quota is used up: from here on push_head owns the queue.
RecvQuota(d) ==
  /\ Frame(d, "quota")
  /\ Handled(d, [cl[d] EXCEPT !.blocked = TRUE, !.retry = TRUE], Tail(s2c[d]))
  /\ UNCHANGED <<deps, room, store, files, post, wanted, used>>

\* Mutant of Joined: the backfill answers the newest ticket, whenever it was given.
JoinedNewest(d, c, head) ==
  [c EXCEPT !.resumed = TRUE,
            !.caught = c.caught \/ ~c.needs,
            !.done = IF ~c.needs /\ ~c.gap /\ c.cursor >= head THEN c.asked ELSE c.done]

\* rowsDone of the first backfill: the session has joined
Joined(d, c, head) ==
  [c EXCEPT !.resumed = TRUE,
            !.caught = c.caught \/ ~c.needs,
            !.done = IF ~c.needs /\ ~c.gap /\ c.cursor >= head
                       THEN Larger(c.done, ses[d].ticket) ELSE c.done]

\* rowsDone of a later request, perhaps the one made for a ticket
Refreshed(d, c, head) ==
  LET ticket == ses[d].refresh
      whole  == ticket # 0 /\ c.cursor >= head /\ ~c.needs /\ ~c.gap
      short  == ticket # 0 /\ c.cursor < head
  IN  [c EXCEPT !.asking = FALSE,
                !.done = IF whole THEN Larger(c.done, ticket) ELSE c.done,
                !.gap = c.gap \/ short, !.hRow = c.hRow /\ ~short]

RecvDone(d) ==
  /\ Frame(d, "rows")
  /\ LET m == Head(s2c[d])
     IN  /\ DOMAIN m.rows = {}
         /\ IF ses[d].ph = "filling"
              THEN RepairGap(d, Joined(d, cl[d], m.head), [ses[d] EXCEPT !.ph = "up", !.ticket = 0],
                             Tail(s2c[d]))
              ELSE RepairGap(d, Refreshed(d, cl[d], m.head), [ses[d] EXCEPT !.refresh = 0],
                             Tail(s2c[d]))
  /\ UNCHANGED <<deps, room, store, files, post, wanted, used>>

\* The steady state reads for a ticket, after the request that is out.
Refresh(d) ==
  /\ ses[d].ph = "up"
  /\ ses[d].refresh = 0
  /\ cl[d].asked > cl[d].done
  /\ ~cl[d].asking
  /\ SetClient(d, [cl[d] EXCEPT !.asking = TRUE])
  /\ ses' = [ses EXCEPT ![d].refresh = cl[d].asked]
  /\ Send(d, RowsReq(cl[d].cursor, FALSE))
  /\ UNCHANGED <<deps, room, store, files, socket, s2c, http, post, late, wanted, used>>

\* A nudge: push_pending sends what this session has not sent yet.
PushPending(d) ==
  /\ ses[d].ph = "up"
  /\ LET sent == ses[d].inFlight \intersect Pending(d)
     IN  /\ Unsent(d, sent) # {}
         /\ Send(d, [t |-> "push", batches |-> Unsent(d, sent)])
         /\ ses' = [ses EXCEPT ![d].inFlight = sent \union Unsent(d, sent)]
  /\ UNCHANGED <<deps, room, store, cl, files, socket, s2c, http, post, late, wanted, used>>

\* The quota clock: push_head sends the oldest batch.
PushHead(d) ==
  /\ ses[d].ph = "up"
  /\ cl[d].retry
  /\ SetClient(d, [cl[d] EXCEPT !.retry = FALSE])
  /\ IF Pending(d) = {} THEN UNCHANGED c2s
     ELSE Send(d, [t |-> "push", batches |-> {Min(Pending(d))}])
  /\ UNCHANGED <<deps, room, store, files, ses, socket, s2c, http, post, late, wanted, used>>

-----------------------------------------------------------------------------
(* The HTTPS cycle *)

SetHttp(d, h) == http' = [http EXCEPT ![d] = h]

\* The batches that are left, and after them the pull: sample the cursor, the
\* ticket and the generations, then ask.
Push(d, c, todo) ==
  IF todo # {}
    THEN /\ SetHttp(d, [IdleHttp EXCEPT !.ph = "push", !.todo = todo])
         /\ SetClient(d, c)
    ELSE /\ SetHttp(d, [IdleHttp EXCEPT !.ph = "pulling", !.after = c.cursor,
                                        !.ticket = c.asked])
         /\ SetClient(d, [c EXCEPT !.hEpoch = TRUE, !.hRow = TRUE])

HttpStart(d) ==
  /\ http[d].ph = "spawned"
  /\ Push(d, cl[d], Pending(d))
  /\ UNCHANGED <<deps, room, store, files, ses, wire, post, wanted, used>>

\* The queue of every ready socket but `except`'s, with the row of a push
\* that is not a replay
Relayed(b, except) ==
  LET s == AckSeq(room, b)
      live == {d \in Devices : /\ socket[d] = "ready" /\ d # except
                               /\ RowOf(room, b) = {}}
      m == [t |-> "rows", rows |-> [i \in {s} |-> b], done |-> FALSE, head |-> 0]
  IN  [d \in Devices |-> IF d \in live THEN Append(s2c[d], m) ELSE s2c[d]]

\* POST /rows: append and relay; the ack is on its way back.
HttpPost(d) ==
  /\ http[d].ph = "push"
  /\ LET b == Min(http[d].todo)
     IN  /\ room' = AppendRow(room, d, b)
         /\ s2c' = Relayed(b, NoDevice)
         /\ SetHttp(d, [http[d] EXCEPT !.ph = "acking", !.seq = AckSeq(room, b)])
  /\ UNCHANGED <<deps, store, cl, files, ses, socket, c2s, late, post, wanted, used>>

\* The quota is used up (429): the cycle leaves its other batches.
HttpQuota(d) ==
  /\ http[d].ph = "push"
  /\ Fault("quota")
  /\ Push(d, cl[d], {})
  /\ UNCHANGED <<deps, room, store, files, ses, wire, post, wanted>>

\* The request fails or its answer is lost; it may have left, and reach the
\* room yet.
HttpPostFails(d) ==
  /\ http[d].ph = "push"
  /\ Fault("drop")
  /\ Push(d, cl[d], {})
  /\ late' = late \union {[device |-> d, batch |-> Min(http[d].todo)]}
  /\ UNCHANGED <<deps, room, store, files, ses, socket, c2s, s2c, post, wanted>>

HttpAck(d) ==
  /\ http[d].ph = "acking"
  /\ LET b == Min(http[d].todo)
     IN  /\ outbox' = [outbox EXCEPT ![d] = outbox[d] \ {b}]
         /\ Push(d, ApplyHttpAck(cl[d], http[d].seq), http[d].todo \ {b})
  /\ UNCHANGED <<deps, room, rejected, files, ses, wire, post, wanted, used>>

\* GET /rows: the state and a page of rows, with rowsDone if they are all
HttpGet(d) ==
  /\ http[d].ph = "pulling"
  /\ LET all  == RowsAfter(room, http[d].after, NoDevice)
         page == {s \in DOMAIN all : Cardinality({t \in DOMAIN all : t <= s}) <= PageRows}
     IN  SetHttp(d, [http[d] EXCEPT !.ph = "answered", !.st = State(room),
                                    !.rows = [s \in page |-> all[s]],
                                    !.whole = (page = DOMAIN all)])
  /\ UNCHANGED <<deps, room, store, cl, files, ses, wire, post, wanted, used>>

\* The pull or the fetch of the checkpoint fails.
HttpFails(d) ==
  /\ http[d].ph \in {"pulling", "fetching"}
  /\ Fault("drop")
  /\ SetHttp(d, IdleHttp)
  /\ SetClient(d, CycleOver(cl[d]))
  /\ UNCHANGED <<deps, room, store, files, ses, wire, post, wanted>>

\* The plan's seq, once what it stands for is in the document
Adopt(c, st, after, same) ==
  [c EXCEPT !.cursor = IF c.cursor > st.head THEN after ELSE Larger(c.cursor, after),
            !.needs = c.needs /\ ~same]

\* Mutant of Apply: a pull answers the newest ticket, whenever it was given.
ApplyNewest(d, c, h) ==
  IF DOMAIN h.rows # {}
    THEN SetClient(d, c) /\ SetHttp(d, [h EXCEPT !.ph = "applying", !.after = 0, !.blob = {}])
    ELSE /\ SetClient(d, [CycleOver(c) EXCEPT !.caught = TRUE, !.gap = FALSE,
                                              !.done = Larger(c.done, c.asked)])
         /\ SetHttp(d, IdleHttp)

\* The rows that are left, and after them the end of the body.  rowsDone
\* vouches for the cursor only if no session ended meanwhile, and lifts a gap
\* only if none appeared meanwhile.
Apply(d, left, h) ==
  \E c \in {left} :
    LET whole == h.whole /\ c.hEpoch /\ c.cursor >= h.st.head /\ ~c.needs
        gap   == c.gap /\ ~(whole /\ c.hRow)
    IN  IF DOMAIN h.rows # {}
          THEN SetClient(d, c) /\ SetHttp(d, [h EXCEPT !.ph = "applying", !.after = 0, !.blob = {}])
          ELSE /\ SetClient(d, [CycleOver(c) EXCEPT
                    !.caught = c.caught \/ whole, !.gap = gap,
                    !.done = IF whole /\ ~gap THEN Larger(c.done, h.ticket) ELSE c.done])
               /\ SetHttp(d, IdleHttp)

\* The state frame of the body.  An answer asked for above the cursor that
\* the session has meanwhile gone back to is discarded.
HttpState(d) ==
  /\ http[d].ph = "answered"
  /\ LET h     == http[d]
         wiped == h.after > h.st.head
         c     == [cl[d] EXCEPT !.view = ViewOf(h.st),
                                !.pcursor = IF wiped THEN 0 ELSE cl[d].pcursor]
         cont  == Contained(c, h.st, deps)
     IN  IF c.cursor < h.after /\ ~wiped
           THEN SetClient(d, CycleOver(c)) /\ SetHttp(d, IdleHttp)
           ELSE IF cont
             THEN Apply(d, Adopt(c, h.st, CatchUpAfter(h.after, h.st, TRUE), TRUE), h)
             ELSE /\ SetClient(d, [c EXCEPT !.hSame = TRUE])
                  /\ SetHttp(d, [h EXCEPT !.ph = "fetching", !.after = 0])
  /\ UNCHANGED <<deps, room, store, files, ses, wire, post, wanted, used>>

HttpFetch(d) ==
  /\ http[d].ph = "fetching"
  /\ IF room.has
       THEN /\ SetHttp(d, [http[d] EXCEPT !.ph = "importing", !.blob = room.ckpt])
            /\ UNCHANGED cl
       ELSE SetHttp(d, IdleHttp) /\ SetClient(d, CycleOver(cl[d]))
  /\ UNCHANGED <<deps, room, store, files, ses, wire, post, wanted, used>>

HttpImport(d) ==
  /\ http[d].ph = "importing"
  /\ LET st == http[d].st
         c  == ApplyCheckpoint(cl[d], http[d].blob, st.seq)
     IN  Apply(d, [Adopt(c, st, st.seq, c.hSame) EXCEPT !.hSame = FALSE], http[d])
  /\ UNCHANGED <<deps, room, store, files, ses, wire, post, wanted, used>>

HttpRow(d) ==
  /\ http[d].ph = "applying"
  /\ LET h == http[d]
         s == Min(DOMAIN h.rows)
     IN  Apply(d, ApplyRow(cl[d], s, h.rows[s], deps),
               [h EXCEPT !.rows = [t \in DOMAIN h.rows \ {s} |-> h.rows[t]]])
  /\ UNCHANGED <<deps, room, store, files, ses, wire, post, wanted, used>>

-----------------------------------------------------------------------------
(* The checkpoint post *)

\* spawn_chat2_checkpoint: one in flight; the cursor is sampled first.
StartPost(d) ==
  post' = [post EXCEPT ![d] = IF post[d].ph # "idle" THEN post[d]
                              ELSE [NoPost EXCEPT !.ph = "sampled", !.seq = cl[d].cursor]]

\* The quiesce tick finds more rows in the room than it should keep, or the
\* ten-second loop finds a batch that no push can deliver.
PostDue(d) ==
  /\ post[d].ph = "idle"
  /\ cl[d].view.known
  /\ (d \in Posters /\ cl[d].view.rows > Threshold) \/ rejected[d] # {}
  /\ StartPost(d)
  /\ UNCHANGED <<deps, room, store, cl, files, ses, wire, http, wanted, used>>

\* The host's one check, once the room is known or after two minutes: content,
\* and no checkpoint in the room
Bootstrap(d) ==
  /\ cl[d].boot
  /\ SetClient(d, [cl[d] EXCEPT !.boot = FALSE])
  /\ IF cl[d].view.known /\ ~cl[d].view.has /\ Doc(d) # {}
       THEN StartPost(d) ELSE UNCHANGED post
  /\ UNCHANGED <<deps, room, store, files, ses, wire, http, wanted, used>>

\* The host's watcher takes an event; a post in flight swallows it.
HostEvent(d) ==
  /\ cl[d].event
  /\ SetClient(d, [cl[d] EXCEPT !.event = FALSE])
  /\ StartPost(d)
  /\ UNCHANGED <<deps, room, store, files, ses, wire, http, wanted, used>>

\* Mutant of Export: the obligations are retired before the room has answered.
ExportRetires(d) ==
  /\ post[d].ph = "sampled"
  /\ post' = [post EXCEPT ![d].ph = "exported", ![d].content = Doc(d)]
  /\ outbox' = [outbox EXCEPT ![d] = outbox[d] \ rejected[d]]
  /\ rejected' = [rejected EXCEPT ![d] = {}]
  /\ UNCHANGED <<deps, room, cl, files, ses, wire, http, wanted, used>>

Export(d) ==
  /\ post[d].ph = "sampled"
  /\ post' = [post EXCEPT ![d].ph = "exported", ![d].content = Doc(d),
                          ![d].covers = rejected[d] \intersect Doc(d)]
  /\ UNCHANGED <<deps, room, store, cl, files, ses, wire, http, wanted, used>>

Commit(d) ==
  room' = IF Acceptable(room, post[d].seq)
            THEN CommitCheckpoint(room, post[d].seq, post[d].content) ELSE room

\* The POST and its answer: the obligations it covers are retired, and the
\* client's view of the room is brought up to date (note_checkpoint).
PostCheckpoint(d) ==
  /\ post[d].ph = "exported"
  /\ Commit(d)
  /\ LET ok   == Acceptable(room, post[d].seq)
         gone == IF ok THEN post[d].covers ELSE {}
     IN  /\ outbox' = [outbox EXCEPT ![d] = outbox[d] \ gone]
         /\ rejected' = [rejected EXCEPT ![d] = rejected[d] \ gone]
         /\ SetClient(d, IF ok /\ cl[d].view.known
                           THEN [cl[d] EXCEPT !.view.rows = 0, !.view.has = TRUE]
                           ELSE cl[d])
  /\ post' = [post EXCEPT ![d] = NoPost]
  /\ UNCHANGED <<deps, files, ses, wire, http, wanted, used>>

\* The POST arrives and its answer does not, or it does not arrive.
PostFails(d) ==
  /\ post[d].ph = "exported"
  /\ Fault("post")
  /\ Commit(d) \/ UNCHANGED room
  /\ post' = [post EXCEPT ![d] = NoPost]
  /\ UNCHANGED <<deps, store, cl, files, ses, wire, http, wanted>>

-----------------------------------------------------------------------------
(* The room: each frame is one event of the Durable Object *)

Received(d, t) ==
  /\ socket[d] # "closed"
  /\ c2s[d] # <<>>
  /\ Head(c2s[d]).t = t

RoomHello(d) ==
  /\ Received(d, "hello")
  /\ socket' = [socket EXCEPT ![d] = "ready"]
  /\ c2s' = [c2s EXCEPT ![d] = Tail(c2s[d])]
  /\ s2c' = [s2c EXCEPT ![d] = Append(s2c[d], [t |-> "state", st |-> State(room)])]
  /\ UNCHANGED <<deps, room, store, cl, files, ses, http, post, late, wanted, used>>


RoomRows(d) ==
  /\ Received(d, "rowsReq")
  /\ LET m == Head(c2s[d])
         rows == RowsAfter(room, m.after, IF m.excludeOwn THEN d ELSE NoDevice)
     IN  s2c' = [s2c EXCEPT ![d] = Append(s2c[d],
                   [t |-> "rows", rows |-> rows, done |-> TRUE, head |-> HeadSeq(room)])]
  /\ c2s' = [c2s EXCEPT ![d] = Tail(c2s[d])]
  /\ UNCHANGED <<deps, room, store, cl, files, ses, socket, http, post, late, wanted, used>>

\* The queue of the room without the first batch of its pushes
PushTaken(d) ==
  LET m == Head(c2s[d])
      left == m.batches \ {Min(m.batches)}
  IN  c2s' = [c2s EXCEPT ![d] = (IF left = {} THEN <<>>
                                 ELSE <<[m EXCEPT !.batches = left]>>) \o Tail(c2s[d])]

\* Append, relay to the other sockets, ack
RoomPush(d) ==
  /\ Received(d, "push")
  /\ LET b == Min(Head(c2s[d]).batches)
         ack == [t |-> "ack", batch |-> b, seq |-> AckSeq(room, b)]
     IN  /\ room' = AppendRow(room, d, b)
         /\ s2c' = [Relayed(b, d) EXCEPT ![d] = Append(s2c[d], ack)]
  /\ PushTaken(d)
  /\ UNCHANGED <<deps, store, cl, files, ses, socket, http, post, late, wanted, used>>

RoomQuota(d) ==
  /\ Received(d, "push")
  /\ Fault("quota")
  /\ s2c' = [s2c EXCEPT ![d] = Append(s2c[d], [t |-> "quota"])]
  /\ PushTaken(d)
  /\ UNCHANGED <<deps, room, store, cl, files, ses, socket, http, post, late, wanted>>

\* A push from a socket or a request that its device has given up
RoomLate ==
  \E p \in late :
    /\ room' = AppendRow(room, p.device, p.batch)
    /\ s2c' = Relayed(p.batch, NoDevice)
    /\ late' = late \ {p}
    /\ UNCHANGED <<deps, store, cl, files, ses, socket, c2s, http, post, wanted, used>>

-----------------------------------------------------------------------------
(* Faults *)

\* POST /reset: the operator wipes the room and closes its sockets.
Reset ==
  /\ room # NewRoom
  /\ Fault("reset")
  /\ room' = NewRoom
  /\ socket' = [d \in Devices |-> "closed"]
  /\ c2s' = [d \in Devices |-> <<>>]
  /\ wanted' = [d \in Devices |-> [i \in DOMAIN wanted[d] |-> {}]]
  /\ UNCHANGED <<deps, store, cl, files, ses, s2c, http, post, late>>

\* Mutant of Reopened: the outbox is not replayed into the snapshot.
ReopenedBare(d) == disk[d].doc

\* The document a restarted engine opens: the snapshot, and the outbox
Reopened(d) == disk[d].doc \union outbox[d]

\* The engine's process dies and starts again.
Crash(d) ==
  /\ d \in Mortal
  /\ Fault("crash")
  /\ cl' = [cl EXCEPT ![d] = NewClient(Reopened(d), disk[d].cursor, d = Host)]
  /\ flush' = [flush EXCEPT ![d] = NoFlush]
  /\ ses' = [ses EXCEPT ![d] = NoSession]
  /\ socket' = [socket EXCEPT ![d] = "closed"]
  /\ c2s' = [c2s EXCEPT ![d] = <<>>]
  /\ s2c' = [s2c EXCEPT ![d] = <<>>]
  /\ http' = [http EXCEPT ![d] = Spawned(d, IdleHttp)]
  /\ post' = [post EXCEPT ![d] = NoPost]
  /\ late' = late \union Orphans(d)
  /\ wanted' = [wanted EXCEPT ![d] = <<>>]
  /\ UNCHANGED <<deps, room, store, disk>>

-----------------------------------------------------------------------------

Actor(d) == \/ Dial(d) \/ RecvClose(d) \/ RecvState(d) \/ Fetch(d) \/ Import(d)
            \/ RecvRow(d) \/ RecvAck(d) \/ RecvQuota(d) \/ RecvDone(d)

Clock(d) == Refresh(d) \/ PushPending(d) \/ PushHead(d)

Cycle(d) == \/ HttpStart(d) \/ HttpPost(d) \/ HttpAck(d) \/ HttpGet(d)
            \/ HttpState(d) \/ HttpFetch(d) \/ HttpImport(d) \/ HttpRow(d)

Poster(d) == PostDue(d) \/ Bootstrap(d) \/ HostEvent(d) \/ Export(d) \/ PostCheckpoint(d)

Persister(d) == FlushSample(d) \/ FlushSave(d)

Room(d) == RoomHello(d) \/ RoomRows(d) \/ RoomPush(d)

Failure(d) == \/ DialFails(d) \/ Disconnect(d) \/ HttpQuota(d) \/ HttpPostFails(d)
              \/ HttpFails(d) \/ PostFails(d) \/ RoomQuota(d) \/ Crash(d)

Next ==
  \/ \E d \in Devices : \/ Write(d) \/ RequestCatchUp(d)
                        \/ Actor(d) \/ Clock(d) \/ Cycle(d) \/ Poster(d)
                        \/ Persister(d) \/ Room(d) \/ Failure(d)
  \/ RoomLate
  \/ Reset

Spec == Init /\ [][Next]_vars

\* Every task goes on: tokio schedules it, the backoff ends, the timers fire,
\* the room handles what it receives.  Nothing is assumed of the user, of
\* faults, and of pushes that were given up.
FairSpec ==
  /\ Spec
  /\ \A d \in Devices : /\ WF_vars(Actor(d) \/ Clock(d)) /\ WF_vars(Cycle(d))
                        /\ WF_vars(Poster(d)) /\ WF_vars(Room(d))

-----------------------------------------------------------------------------
(* Properties *)

Batches == 1 .. Len(deps)

\* Types, and what ties them: a batch awaiting the room is in its author's
\* document whatever crashed in between, and no ticket is answered unasked.
ChatTypeOK ==
  /\ deps \in Seq(SUBSET Nat)
  /\ room \in [log : Seq([device : Devices, batch : Batches]), floor : Nat,
               has : BOOLEAN, ckpt : SUBSET Batches]
  /\ room.floor <= HeadSeq(room)
  /\ \A d \in Devices :
       /\ rejected[d] \subseteq outbox[d]
       /\ outbox[d] \subseteq cl[d].held
       /\ cl[d].held \subseteq Batches
       /\ cl[d].cursor \in Nat /\ cl[d].pcursor \in Nat
       /\ cl[d].done <= cl[d].asked /\ cl[d].asked = Len(wanted[d])
       /\ disk[d].doc \subseteq Batches /\ disk[d].cursor \in Nat
       /\ ses[d].repairs \in 0 .. MaxRepairs
       /\ socket[d] = "ready" => ses[d].ph # "down"

\* What device d would hold after its next catch-up, if it had to make one
\* from client c now.
CaughtUpFrom(d, c) ==
  LET st    == State(room)
      cont  == Contained(c, st, deps)
      after == CatchUpAfter(c.cursor, st, cont)
      rows  == RowsAfter(room, after, IF c.resumed /\ ~c.needs THEN d ELSE NoDevice)
  IN  c.held \union (IF cont THEN {} ELSE room.ckpt) \union {rows[s] : s \in DOMAIN rows}

\* Whenever a session dies, the next catch-up brings everything the room has:
\* neither the cursor nor excludeOwn nor the frontier test skips a batch that
\* the document lacks.
ReconnectComplete ==
  \A d \in Devices : Readable(room) \subseteq CaughtUpFrom(d, cl[d])

\* The same of an engine that dies now and opens its last snapshot.
RestartComplete ==
  \A d \in Devices :
    Readable(room) \subseteq CaughtUpFrom(d, NewClient(Reopened(d), disk[d].cursor, FALSE))

\* catch_up_completed: the newest ticket it is true of, 0 for none
Completed(d) ==
  IF cl[d].caught /\ ~cl[d].needs /\ ~cl[d].gap THEN cl[d].done ELSE 0

\* A ticket is completed only once every row there was when it was given is
\* in the document: an older answer never completes a newer ticket.
TicketFresh ==
  \A d \in Devices : \A i \in 1 .. Completed(d) : wanted[d][i] \subseteq Doc(d)

Log == INSTANCE ChatLog WITH after <- deps, chat <- Readable(room), unsent <- outbox,
                             docs <- [d \in Devices |-> Doc(d)]

\* The relay implements the log of ChatLog: compaction, replays, retries and
\* restarts are stuttering steps.  What the room can serve never shrinks, a
\* batch leaves its author's outbox only once the room can serve it, and no
\* document shows a batch without its history.
RefinesLog == Log!Spec

\* Once writes and faults stop, everyone has every row, has nothing
\* left to send, and has an answer to every ticket.
Converges ==
  <>[](\A d \in Devices : /\ Admitted(room) \subseteq Doc(d)
                          /\ outbox[d] = {}
                          /\ Completed(d) = cl[d].asked)

\* "Rows with `seq <= seqFloor` are gone - covered by the checkpoint"
\* (edge/src/chat-log.ts): whatever was compacted away is in the snapshot
\* that stands for it.
CheckpointCovers ==
  \A s \in 1 .. room.floor : room.log[s].batch \in room.ckpt

=============================================================================
