# noches: a TLA+ development

noches is a desktop client for coding agents.  Each device runs an engine that
keeps chats, spaces, sessions and devices in documents, syncs them with other
devices through Durable Objects on the edge, and drives external agent
processes through an orchestration kernel that keeps its work in SQLite.  This
directory models the parts of it whose correctness depends on the order of
things: what two devices, a room, a lost message or a crash can do between two
lines of code.

## Inventory

| part | state | operations | talks to | what is hard |
|---|---|---|---|---|
| registry merge rule (`edge/src/registry-core.ts`, mirrored in `crates/doc/src/registry.rs`) | none | apply an upsert, update or delete to a row; turn a row into a re-seed | room and replica run the same rule | operations arrive in any order, more than once |
| registry replica (`crates/doc/src/registry.rs`) | server truth, cursor, clock, pending batches | local writes, state, rows and ack frames, snapshot | session actor and HTTPS cycle share it under a lock | a cursor that claims too much hides rows for good |
| registry room (`edge/src/registry-room.ts`) | rows, seq, gcFloor, backup marks | hello, push, GET, POST, alarm, reset | every device | deletes are garbage collected, the alarm awaits an upload |
| registry client (`crates/sync/src/registry.rs`, `crates/engine/src/workspace_host.rs`) | session phase, nudges, the HTTPS cycle, the last snapshot | dial, handshake, push, frames, redial, debounced save, boot | room | two transports move one replica; crashes between a push and a save |
| effect outbox (`crates/engine/src/orchestration/effects.rs`, `recovery.rs`) | effects with status, attempt, lease | enqueue, claim, begin, finish, abandon, cancel, resolve, recover | workers, agents | a lease that expires under a live worker; not running a turn twice |
| orchestration kernel (`store.rs`, `command.rs`, `projection.rs`) | events, projections, receipts | dispatch a command | outbox, publication | replayed commands, rebuild equals replay |
| session publication (`sync_publish.rs`) | publication journal | publish a summary | registry | published order and epochs |
| chat relay: room (`edge/src/chat-room.ts`, `chat-log.ts`) | append log, seq floor, checkpoint | hello, rows, push, POST /checkpoint, pull, reset | every device | replayed pushes, compaction under a reader |
| chat relay: client (`crates/sync/src/chat_client.rs`, `crates/engine/src/chat2_host.rs`) | cursor, gap marks, tickets, quota clock, session, HTTPS cycle | join, backfill, repair, push, catch-up | room, document | two transports and a checkpoint post move one cursor |
| chat persistence (`crates/engine/src/chat_persistence.rs`, `doc_host.rs`, `crates/store/src/lib.rs`) | snapshot with its cursor, outbox table, the checkpoint post | save, reopen, post | client, room | a cursor saved with a document that does not hold what it claims |
| command ledger (`crates/doc/src/commands.rs`) | commands in a chat's document | post, claim, settle | host device | run once although every device sees it |
| device relay (`edge/src/device-room.ts`, `crates/rpc/src/device_room.rs`) | sockets, calls in flight | call, reply, cancel | devices | a host that goes away under a call |
| queue, mailbox, scheduler | queued messages, deliveries | enqueue, deliver, hold | outbox | delivery racing the end of a turn |
| instance lock, run journal, updater | lock file, journal | acquire, recover, admit | process start | two processes, stale locks |

Properties that make them correct: a replica misses nothing below its cursor;
an acknowledged write stays; deletes do not come back; devices converge; what is
displayed does not flicker (registry).  One runner per lane, no effect with
outside consequences dispatched twice without anyone knowing, nothing lost by a
restart (outbox).  A command applied once, projections equal to the replay of
the events (kernel).  A chat only grows, is read with its history and reaches
everyone; a reconnect or a restart skips nothing; an answer that says "caught up"
is not older than the question (chat relay).

## Modules

| module | models | notes |
|---|---|---|
| `RegistryCore` | `registry-core.ts`: `applyOp`, `maxClock`, `rowToSeedOp` and their Rust mirror | pure operators on rows and operations |
| `RegistryDoc` | `RegistryDoc` and `HlcClock` in `crates/doc/src/registry.rs` | one operator per method, from a replica to the next |
| `RegistryRoom` | `RegistryRoom` in `edge/src/registry-room.ts` | one operator per handler; the alarm is two, because it awaits |
| `RegistrySync` | the client actor, the HTTPS cycle, the host's boot and save, and the room, together | the state machine: variables, actions, `Spec`, `FairSpec`, the properties |
| `RegistryCursor` | nothing: the inductive invariant of `CursorComplete` | |
| `EffectOutbox` | the outbox's table, `EffectWorker::step`, receipts, cancellation and the startup reconciliation (`effects.rs`, `steering.rs`, `recovery.rs`, `runner.rs`) | a state machine of its own; one action per SQLite transaction |
| `ChatRoom` | `edge/src/chat-room.ts` and `chat-log.ts` | one operator per query or statement on a room |
| `ChatClient` | `Shared` in `crates/sync/src/chat_client.rs` and its sink in `chat2_host.rs` | one operator per answer, from a client to the next |
| `ChatRelay` | the session actor, the HTTPS cycle, the checkpoint post, the persister and the room, together | the state machine of chat sync |
| `ChatLog` | what the relay promises (`docs/chat2-sync.md`) | abstract: no room, cursor, frame or checkpoint; `ChatRelay` refines it |
| `ChatCursor` | nothing: the inductive invariant of the chat's catch-up properties | |
| `MCRegistrySync`, `MCEffectOutbox`, `MCChatRelay` | instances for TLC | |
| `RegistrySync_proofs`, `RegistryCursor_proofs`, `RegistryFlight_proofs`, `RegistryAcked_proofs`, `RegistryFlicker_proofs` | theorems about the registry | see Proofs |
| `EffectOutbox_proofs`, `ChatRelay_proofs`, `ChatCursor_proofs` | theorems about the outbox and the chat relay | see Proofs |

Data is abstracted to what the properties tell apart.  Kind and id of a row are
one key.  A clock `ms-counter-device` is the number it spells in the mixed base
of its parts: the fixed-width string's order is that number's order.  A table is
a total function from keys to rows, with `NoRow` where there is none, and a
batch a function from keys to operations.

| code | model |
|---|---|
| `RegistryDoc { authoritative, server_seq, clock, pending, generation }` | `doc[c]` with `auth`, `cursor`, `clock`, `pending`, `touched` |
| the snapshot in `DocsStore` | `saved[c]` |
| `Actor::run`, `run_session`: dial, hello, `push_pending`, steady loop | `conn[c]` = `down`, `hello`, `pushing`, `up` |
| the room's socket and its `ready` mark | `socket[c]` |
| the two directions of the WebSocket | `c2s[c]`, `s2c[c]` |
| batches `push_pending` took and has not sent | `sending[c]` |
| the nudge channel (capacity 1) | `nudged[c]` |
| `spawn_offline_sync` | `http[c]`, with its phase, remaining batches, cursor and answer |
| requests and frames that outlive their socket or their caller | `late` |
| rows, `meta` and the scheduled alarm of the room | `room` |
| the copy in R2 | `backup` (its seq) |

`acked` and `horizon` are history variables for the properties; `used` counts
what each bound has left.  Actions bear the names of what they model: `Dial`,
`RecvState`, `SendPush`, `Nudge`, `RecvRows`, `RecvAck`, `RecvClose` (session);
`HttpTake`, `HttpAck`, `HttpPull`, `HttpApply` and their failures (HTTPS);
`Upsert`, `Update`, `Delete`, `SaveSnapshot`, `Crash` (host); `RoomHello`,
`RoomPush`, `RoomPost`, `RoomRows`, `RoomLate`, `RoomAlarm`, `RoomAlarmEnds`,
`RoomAlarmFails`, `RoomReset` (room).  `PROJECT.json` maps each definition to
its lines.

### The outbox

| code | model |
|---|---|
| a row of `orchestration_effect_outbox`, in the order of `ordinal` | `effect[e]` |
| `available_at <= now`, `lease_expires_at <= now` | `ready`, `lapsed` |
| `orchestration_steering_acceptances` | `confirmed` |
| `orchestration_steering_inputs` and `orchestration_runtime_targets` (a steer's runtime is the one it was admitted for) | `admitted` |
| where `EffectWorker::step` is, and the `Effect` it holds in memory | `worker[w]` |
| the process: dead, in `recover_mailbox`, workers running | `host` |

Effects are of five kinds: `start` stands for the requests that start, interrupt
or restart a turn, `steer` and `respond` for theirs, `cleanup` for the
replay-safe ones in the provider lane and `title` for the title lane.  The
clock is not a number: nothing compares times except with the present, so a
lease lapses and a backoff ends by actions of their own.  The worker's timer is
as long as the lease and starts after it, so `TimesOut` needs a lapsed lease;
for the same reason an executor that returns after the lapse has its outcome
refused, and one that returns before it may still be overtaken on its way to
`finish_effect`.  `begin_effect` is called with the time of the claim and its
test of the lease always holds; `Begin` has none.

Actions: `RetireWork`, `Enqueue`, `Confirm` (the owner); `Claim`, `ClaimNone`,
`Begin`, `ExecEnds`, `TimesOut`, `Cancelled`, `Finish`, `Lost`, `Abandon`,
`StoreFails` (a worker); `OrphanLapses`, `LeaseLapses`, `RetryDue` (the clock);
`Crash`, `Recover`, `Resolve`, `StartWorkers` (the process).  `open` is a history
variable: how often process work was dispatched, less the times its executor
answered that a retry is safe.

### The chat relay

| code | model |
|---|---|
| the table `rows` and `meta` of the room | `room`: `log`, of which `floor` and below is deleted, `has`, `ckpt` |
| an update batch (opaque bytes with causal dependencies) | a number `b`; `deps[b]` is what its author saw |
| a document, with the updates Loro parks for want of history | `cl[d].held`; `Doc(d)` is its visible part |
| `Shared`: cursor, gaps, tickets, quota | the other fields of `cl[d]` |
| the version vector of a checkpoint, and "the document contains it" | the set of batches, and `Contained` |
| `chat_outbox` and its `needs_checkpoint` rows | `outbox`, `rejected` |
| snapshot and cursor in `DocsStore`; a save under way | `disk`, `flush` |
| `run_session` up to the steady loop | `ses[d]` = `down`, `hello`, `fetching`, `importing`, `filling`, `up` |
| `spawn_offline_sync` | `http[d]` |
| `spawn_chat2_checkpoint` | `post[d]` = `idle`, `sampled`, `exported` |
| pushes that outlive their socket or request | `late` |

The generation counters of `Shared` (`causal_gap_generation`,
`row_gap_generation`, `http_replay_epoch`) are only compared with a task's
earlier sample, so each task keeps whether its sample still holds.  A
ticket is a number; `wanted` is a history variable, the rows there were when
it was given.

A step is what happens between two awaits.  Where the code releases the lock in
the middle, the step is split if another task can tell (`flush_sync` and
`spawn_chat2_checkpoint` sample the cursor and export later: two steps), and
kept whole if it cannot (`apply_remote_row` releases the lock around the call of
the sink).  Frames that arrive behind `rowsDone` while the checkpoint is fetched
are handled after the join.  A push frame carries a set of batches that the room
takes one by one in order: what lies between is the queue of the socket.

Actions: `Write`, `RequestCatchUp` (user and host); `FlushSample`, `FlushSave`
(persister); `Dial`, `RecvState`, `Fetch`, `Import`, `RecvRow`, `RecvDone`,
`RecvAck`, `RecvQuota`, `RecvClose` (actor); `Refresh`, `PushPending`,
`PushHead` (its timers and nudges); `HttpStart` to `HttpRow` (HTTPS cycle);
`PostDue`, `Bootstrap`, `HostEvent`, `Export`, `PostCheckpoint` (checkpoint
post); `RoomHello`, `RoomRows`, `RoomPush`, `RoomLate` (room); `DialFails`,
`Disconnect`, `HttpPostFails`, `HttpFails`, `PostFails`, `RoomQuota`,
`HttpQuota`, `Crash`, `Reset` (faults).

`ChatLog` says the same without any of it: a chat is a set of batches that only
grows, a batch is its author's to send until the chat has it, a device shows
what the chat has and never a batch without its history, and forgets only when
its engine starts again.  `RefinesLog` is its specification under the mapping
`after <- deps`, `chat <- Readable(room)` (rows and checkpoint together),
`unsent <- outbox`, `docs <- Doc`: appending, acknowledging, compacting,
replaying and repairing are `Publish`, `Read` or stuttering.

## Runs

Runs of the registry are instances of `MCRegistrySync`, runs of the outbox of
`MCEffectOutbox`, runs of the chat relay of `MCChatRelay`.

| run | checks | shows |
|---|---|---|
| `RegistrySocket` | `TypeOK`, `CursorComplete`, `AckedHeld` | two devices on sockets that drop and broadcasts that miss a device |
| `RegistryConverge` | `NoGhostRows`, `NoFlicker`, `Converges` | two devices race, one loses its connection, and the alarm purges tombstones while it is away and its upload may fail; rows go out before the ack; both end with the room's table |
| `RegistryReset` | `Converges` | a wipe that the device can detect is healed by its re-seed |
| `RegistryHttps` | `InFlightCarried` | the HTTPS cycle runs beside the session, through a drop and a crash; nothing is stranded in flight |
| `OutboxLanes` | `OutboxTypeOK`, `LaneExclusive`, `Fifo`, `NoBlindReplay`, `LiveClaim` | two workers, all kinds of effects, a lapsed lease, a store error, cancellations, receipts and a restart |
| `OutboxSettles` | `Settles` | no effect is forgotten: each is over in the end or behind one in doubt |
| `ClaimHttpsConverges` | `Converges`, refuted | a stale HTTPS answer undoes an acknowledged write on the device, for good |
| `ClaimRestart` | `RestartReleases`, refuted | an answer dispatched before a crash holds its lane after it |
| `ChatConverges` | `TicketFresh`, `Converges` | a socket or a request is lost, the quota runs out, or the room is wiped; the session and the HTTPS cycle share a client; everyone gets every row and every ticket its answer |
| `ChatCheckpoints` | `TicketFresh`, `RefinesLog` | an oversize batch travels by checkpoint, posted with a lost answer or around a crash |
| `ChatRestarts` | `ChatTypeOK`, `ReconnectComplete`, `RestartComplete`, `CatchUpInv`, `RefinesLog` | two writers, compaction after every second row, saves and a crash between any two steps |
| `ClaimCheckpoint` | `CheckpointCovers`, refuted | a checkpoint deletes rows that its snapshot does not hold |

The three refuted runs are the findings of `PROJECT.json`, each with the sentence
it contradicts.  `ClaimHttpsConverges` has its cause in `apply_rows` and
`apply_state`, which put rows and cursor in place without comparing seqs: right
on one FIFO socket (and proved so below), wrong beside a second transport.
`ClaimCheckpoint` has its in the order of `RecvState`: the plan's seq becomes the
cursor before the checkpoint it stands for is imported, and a checkpoint post
that samples the cursor in between vouches for rows the document does not have.

### Bounds

Two devices are enough for a race and a peer that missed it; where the property
is about one device and the room (`RegistryReset`, `RegistryHttps`,
`ClaimHttpsConverges`) there is one, so that more of its own steps fit.
`RegistrySocket` has two rows, so that a broadcast can pass over one that a
cursor must not hide, with symmetry between them; the other runs have one.  One
field tells apart every outcome of the merge except those between fields.  Two
writes suffice to create and delete a row, or to have an old and a new value;
one drop, crash, alarm or reset each to meet the failure the run is about.
`RegistryReset` allows no drop and no crash: a push left over from a dead
socket can bring the wiped room's seq up to the device's cursor, and then the
wipe goes unnoticed (see "Read in the code"), and a crash after the wipe reloads
a snapshot from before it.  `AckedHeld` is checked without crashes: the runs give
a wall clock of one value, and a reloaded clock would repeat.  All bounds (`MaxWrites`, `MaxDrops`,
`MaxCrashes`, `MaxAlarms`, `MaxResets`) are in guards and are constants.  When
they are spent the system rests, so the runs do not check for deadlock; that
nothing rests too early is what `Converges` says.

The outbox has one thread, since no condition of the code relates the effects of
two, and two effects: an order, a barrier and a replay are each between two.
Two workers are one that is slow and one that takes over, and are
interchangeable in `OutboxLanes`.  One lapse, one store error and one crash can
meet in one behaviour.  `MaxAttempts` is 2, so that the budget is spent and not
spent.  `OutboxSettles` has one kind of process work and one replay-safe kind.

Chat runs have two devices: a writer and a reader, or two writers.  All faults
of a chat share one budget (`MaxFaults`, of the kinds in `Faults`), so a run
meets each of its faults at every point but never two of them; `Writers`,
`Woken`, `Mortal` and `Posters` say who writes, asks, crashes and compacts.  A
device outside `Transport` has a client without the HTTPS seam; in production all
have it, and leaving it off one device only removes interleavings.  In
`ChatRestarts` device `b` compacts at two rows, so that the next reader needs the
checkpoint, while `a` crashes with snapshots of any age; in `ChatCheckpoints`
checkpoints come from oversize batches alone.  `PageRows` is 2 and `MaxRepairs` the code's 3.  `CatchUpInv` speaks of the rooms of
`ChatRestarts` that have no checkpoint yet.  `ChatRestarts` and
`ChatCheckpoints` stay below the two checkpoint traces under "Read in the code"
(three writes, or a second post at the same seq), and `ChatConverges` has no
checkpoints for the third.  When writes, wakes and faults are spent, a converged
system still dials, saves and posts only as long as something changes, so these
runs do not check for deadlock either.

### Fairness

`FairSpec` has weak fairness of each device's session steps, of its HTTPS
cycle's steps and of the room's steps for it.  The actor is a loop that always
dials again after a backoff, the HTTPS task is spawned on a running executor,
and the room handles every event that reached it.  Nothing is assumed of
users, of failures, of the alarm, of saving, or of `late` pushes.  A dial that
fails uses up a drop: after finitely many failures the network works.

The outbox's `FairSpec` has weak fairness of each worker (a loop that sleeps at
most until `next_effect_wake`), of each row's clock (a backoff ends, and the
lease of a claim that nobody works on lapses), and of the process (a stopped
engine is started again, and startup runs to its end).  That an executor returns
is not assumed: the lease lapses or it does not, and where it lapses the timer
ends the step.  Weak fairness of a worker's step as a whole says that a step
under way goes on, by the executor or by the timer.

The chat's `FairSpec` has weak fairness, per device, of the actor with its timers
and nudges (one task, so one condition), of the HTTPS cycle, of the checkpoint
post and of the room's steps for it: four tasks that tokio or the Durable Object's event loop schedule, none
of which waits for a user.  Nothing is assumed of writes, wakes, saves, faults
or `late` pushes.

## Proofs

All in TLAPS, for every number of devices, every finite set of keys and of
fields, and every bound (`CoreAssumption`, `SyncAssumption`, `OutboxAssumption`,
`ChatAssumption`).

* `ApplyOpIdempotent`, `UpdateNeverRevives`, `ClocksMoveForward`
  (`RegistrySync_proofs`): the merge rule.  The last one is for rows in the
  shapes the room stores (`WellFormed`: a tombstone has no field clocks), which
  `ApplyOpWellFormed` shows the merge keeps.
* `TypeCorrect` (`RegistrySync_proofs`): `Spec => []TypeOK`, with one lemma per
  group of actions.  `TypeOK` is inductive as it stands.
* `CursorIsComplete` (`RegistryCursor_proofs`): `Spec => []CursorComplete` where
  there is no HTTPS transport and no reset.  Both assumptions are needed: with
  the transport a broadcast older than a pull puts an old row back below the
  cursor, and after a reset a device may be behind a room it has rows ahead of.
* `NothingStranded` (`RegistryFlight_proofs`): `Spec => []InFlightCarried`, with
  every failure of the model and no further assumption.
* `GhostsNeverShow` (`RegistryCursor_proofs`): `Spec => []NoGhostRows`, where
  there is no HTTPS transport and no reset, for the reasons of `CursorIsComplete`.
* `AcceptedStays` (`RegistryAcked_proofs`): `Spec => []AckedHeld` where nothing
  crashes, the room is not wiped and rows have a field; with or without HTTPS.
  Both failures do break the property.  A device that restarts from an old
  snapshot at the same reading of the wall clock repeats its clocks, and a
  create and a delete of one row can then have the same one: TLC finds it with
  one crash.  A wiped room has nothing to show for anything.  A row without
  fields could be created by an operation that leaves no clock.
* `AcksDoNotFlicker` (`RegistryFlicker_proofs`): `Spec => NoFlicker`, where there
  is no HTTPS transport, no reset, and the socket loses no broadcast.  TLC
  refutes the property where any one of the three is dropped: the answer of a pull
  taken before the push puts the old row back between the broadcast and the ack;
  a lost broadcast is not there to precede the ack; and a wiped room that has
  climbed back to a device's cursor answers its hello with nothing, and its
  push, which changes nothing, with an ack alone.
* `OutboxTypeCorrect`, `LanesExclusive`, `LanesFifo`, `ProcessWorkNotReplayed`,
  `LiveClaimsKept` (`EffectOutbox_proofs`): every safety property of the outbox,
  for any number of effects, workers, threads, lapses, errors and crashes.
* `ChatTypes` (`ChatRelay_proofs`): `Spec => []ChatTypeOK`, with every failure,
  checkpoint and wipe.
* `ImplementsLog` (`ChatRelay_proofs`): `Spec /\ [][Serves]_vars => RefinesLog`,
  where `Serves` says of a step that the room still serves what it served.  Two
  steps can fail it: a wipe, and a checkpoint that lacks what it replaces (run
  `ClaimCheckpoint`).  It takes for granted only that part of the log that the
  room alone decides; that batches come from outboxes and leave them in time,
  and that documents are whole, is proved.
* `PlainChatIsLog` (`ChatRelay_proofs`): `Spec => RefinesLog` without such a
  condition, for chats with no checkpoint (`NoCheckpoints`: no host's device, no
  device that posts, no batch too large for a row) and no wipe.
* `Reconnects`, `Restarts`, `TicketsAreFresh` (`ChatCursor_proofs`): `Spec =>
  [](~room.has => ...)` of `ReconnectComplete`, `RestartComplete` and
  `TicketFresh`, and `CatchUpHolds`, the invariant they come from, all where
  `SocketRestarts` holds: the room is not wiped, and a device that may restart
  has no HTTPS seam.  Disconnects, lost answers, late pushes, quota errors, the
  HTTPS cycle beside the session and restarts are all in.  The conditions are
  needed.  Once a checkpoint is there, a device can have moved its cursor to
  that of a hollow one (`ClaimCheckpoint`); a wiped room has a log that cursors
  are ahead of; and a restart with the HTTPS seam loses a batch (the first
  chat trace below).
* `PlainChatCatchesUp` (`ChatCursor_proofs`): the three together and without the
  condition on the room, where `NoCheckpoints` and `SocketRestarts` hold.

`CursorComplete` is not inductive: a replica's next frame is on the socket, and
the invariant has to say that it is a good one.  `CursorInv` (`RegistryCursor`)
says, of the room, that every row has the seq of an accepted batch; of both
copies of a replica, that it is complete up to its cursor; of a broadcast with
seq n, that it has every row the room still has at n; of the answer to a hello,
that it carries every row after the cursor it answers; and of the order on a
socket, that nothing precedes the answer, that broadcasts ascend, and that those
after the answer are newer than it.  Every step of the room is an `Advance`: it
replaces rows by rows with newer seqs, or purges them.  All parts are stable
under `Advance` (lemmas `AdvanceComplete` to `AdvanceLink`), so a step has to be
looked at only for the device that takes it.

The outbox's properties support each other and are proved together, from
`OutboxInv`.  `TableOK` adds to the order of the lanes that ordinals are given
without gaps and that only a running row has a lease.  `DispatchOK` says where
process work may be while a dispatch of it is open: running and begun, in doubt,
or over; none of these can be claimed.  `ClaimOK` ties a worker to its row: it
holds the claim until its lease lapses or the owner cancels, it knows of the
lapse, and if it is about to record a safe retry, no dispatch is open.  Most
steps are `Benign`: no row becomes active or unsettled, no open dispatch becomes
claimable, and no claim is taken from a worker whose lease has not lapsed; one
lemma, `BenignStep`, covers them all.  `Claim`, `Enqueue`, `Begin`, `ExecEnds`,
`Finish` and the lapse of a lease are looked at one by one.  After a crash all
workers are idle, so recovery needs only the part about rows (`DownStep`).

`InFlightCarried` needs to know what may be dropped (`FlightInv`): a device
without a session has nothing on its socket, only the step that sends pushes has
batches in its hands, and only a cycle that pushes has batches left to POST.
Whatever ends a session or a cycle then unmarks everything that was on its way.

`NoGhostRows` (`GhostInv`) needs the frames on the way to a replica.  The purge
forgets the tombstone, and an older broadcast on the socket may still carry the
row: `PurgedOK` says that of every purged row there is a seq, at or below the GC
floor, where it was deleted last; a replica past it does not show the row, the
frame of that seq deletes it, and no later frame has it.  For a replica that
waits for its hello's answer the same is said of the state the answer will leave
(`StateView`).  A step of the room keeps it because a purge raises the floor over
the tombstones it takes; the rest is `CursorInv`'s.

`AckedHeld` (`HeldInv`) is about what an operation can do to what the room has.
All clocks are fresh ticks of one device, so there are two disjoint sets of
clocks, those of deletes and those of writes, that grow with the system
(`World`).  Every row in the room, in a replica or in a frame is one whose
re-creation the room bears out already (`TableGood`), so that a re-seed tells the
room nothing; every other operation anywhere is `Plain`, with one clock.
Merging such operations never takes back what the room has borne out, and a purge
takes back only what is older than the horizon.  A device's batches have ids that
its clock has passed (`Spent`), so that an ack retires the batch it was for.

`NoFlicker` (`LineInv`) is about the order of what is under way between a device
and the room.  `InLine`: acks on the socket, pushes on the socket, batches in
the actor's hands and batches not yet taken have ids in this order, and ascend on
the way, so that the batch an ack retires is the oldest one pending.  `Mirror`:
the rows of a replica and the broadcasts on its way leave it with the room's
table, but for purged tombstones.  `AcksQuiet`: at the place of an ack, between
the broadcasts ahead of it and those behind, the batch it is for changes no row
any more; the room sends the rows ahead of the ack and has merged the operation
into them, or found that it changes nothing.  The room's part comes from the
merge rule (`AppliedQuiet`, `PushQuiet`), that a missed frame cannot go unnoticed
from `CursorInv`, and purges from `GhostInv`.  `DropOldest` then takes the oldest
batch out of the overlay.  What a device displays is a fold over its pending
batches; the lemmas about it (`LayersExist`, `NewestIs`, `DropOldest`) are proved
by a smallest counterexample among the subsets of a finite set, which needs no
induction theorem with an operator for a parameter.

The chat's proofs follow where a batch can be.  `Within(O, P, R, N)` bounds every
client, snapshot, frame, request and post: what device `d` holds is in `O[d]`,
what it sends in `P[d]`, what the room hands out in `R`, and its tickets are at
most `N[d]`.  Each action keeps it for fixed sets (one lemma per action, and
`StepWithin` for all), and it is monotone in them (`WithinGrows`).  It is used
twice: `Base` with all batches ever written, which gives the types, and `Sourced`
with what is still in the device's outbox or served by the room.  The second is
what the refinement needs: the batch of an ack, and those a checkpoint retires,
are served by the room when they leave the outbox, a row the room adds comes
from an outbox or is a replay, and a document shows only such batches.  `Causal`
and `Saved` complete `Provenance`.  Every step has one of eight `Effect`s, and
each of those is a step of the log or a stutter (`StepLogs`; `CrashLogs` for
restarts).  `NoPosts` is the invariant of chats without checkpoints: nothing is
rejected, no post is begun, and nothing waits for the host's watcher.

`CatchUpInv` (`ChatCursor`) is about what may be skipped.  Of a room without a
checkpoint it says, per device: both cursors, the persister's sample and the
saved snapshot pass only rows that are shown (`CursorsOK`); a pending batch
comes with its history, or that is pending too or a row of the room
(`PendingOK`); a client that has joined holds every row that bears its name, so
that `excludeOwn` leaves out nothing it lacks (`OwnRows`).  Requests, answers,
acks and pushes under way agree with that (`UpOK`, `DownOK`): an answer brings
all that its reader lacks up to the answer's head, and the history of what is
pending.  `InOrder` is why a restart is safe on the socket: a snapshot that is
older than the outbox reopens with batches whose history is missing, and a
session that joins asks for rows before it pushes, so that it reads their
history before any ack could walk the cursor over them.  Over HTTPS the push
comes first, hence `SocketRestarts`; a device that does not restart pushes only
what it shows (`HttpOK`).  `TicketsOK` follows a ticket with the answer meant
for it.  The room only appends, documents only grow and an outbox is refilled
only by writes: `Later` and `Kept` say so, and under them the parts that a step
does not touch stay true (`FitsLater`, `OthersQuiet`).  So every action has one
lemma, about the device that takes it, and the room's steps are looked at once
for all others.  The proof also uses `Causal` of `ChatRelay_proofs`: a shown
batch has its history.

Only model-checked: `Converges` and `Settles`, which are liveness under fairness
and out of this prover's reach.

## Read in the code, without a run

* `row_to_seed_op` carries the clocks of present fields only: the clock of a
  cleared field and the delete clock of a revived row are not restored by a
  re-seed, although `RowOp::clocks` says recovery "never coarsens causality".
* `HlcClock::next` never takes in a received clock, so a device whose wall clock
  is behind can overwrite a value it displays and lose (`docs/registry-sync.md`:
  "lexicographic order = causal order").
* The clock is saved with the debounced snapshot, after the push it stamped has
  left: a crash in between and a wall clock set back repeat clocks.
* A delete clears field clocks, so a replayed write from before it applies to a
  field that the reviving upsert left out.
* `apply_rows` overwrites a row that an HTTPS pull has already brought to a
  newer seq, while the cursor stays beyond it, although `RegistryDoc::cursor` is
  "the last server seq this replica has fully applied".
* `POST /reset` says that "every client detects `state.seq < cursor` on its next
  hello": a device whose cursor does not exceed the seq that the wiped room has
  reached again is answered with a delta and keeps its older rows to itself.
* A push handled while `alarm` awaits the upload is declared clean by it without
  being in the copy; it is backed up with the next push.
* `claim_effect` takes a lapsed lease back without looking for a receipt, so a
  steer that was confirmed while it ran is left in doubt, although "persisted
  proof wins" where the worker reports (`finish_effect`).  It is safe, and lasts
  until the thread is stopped, a new turn starts or the engine restarts.
* `Cancellations::register` replaces whatever token the effect has: a worker
  that was slow to register may put its old one over that of a newer claim.
* `POST /reset` erases `backupSeq`, so the next backup may replace a larger copy.
* `registry-room.ts:321-324` says that a client from before the GC horizon reacts
  to a full resync "by replacing".  `apply_state` (`registry.rs:489`) pushes every
  row missing from the answer back with its old clocks, so a row that was deleted
  and purged while the device was away lives again.
* Replay-safe effects that outlive their lease are claimed again without the
  attempt budget or a backoff (`effects.rs:352`, `442`, `493`, `634`), although
  `docs/orchestration/kernel.md:83` bounds retries.
* Chat: a wiped room whose head has grown to the device's cursor again is not
  recognised as wiped (`RecvState` compares the two), and while a post is in
  flight the watcher's reset event starts no second one.
* Chat: two batches of one device can reach the room in the wrong order, because
  a push it gave up on lands late or a quota error takes the first and not the
  second.  Say the second is a row already, the first is acked, and the engine
  dies with a snapshot from before both: the outbox reopens with the second one,
  which is parked.  Where the HTTPS cycle is first, it pushes that batch again,
  the room replays its row, and the ack moves the cursor over it and retires it
  without asking whether it is parked (`chat_client.rs:1490-1508`); the row ack
  next to it saves that cursor.  If the engine then dies before the document has
  the first batch, the device never asks for the second again, although
  `chat_client.rs:1770` has the cursor claim "every row <= cursor is reflected
  in the doc".  TLC finds it with one device and two writes, and not without
  the seam.
* Chat: a used-up quota followed by a lost socket stalls the queue.  `push_head`
  disarms the clock, its ack dies with the socket, `quota_blocked` stays set and
  nothing arms the clock again until the next quota error or a restart.  One
  fault is not enough, which is what `ChatConverges` shows.
* Chat: the room accepts a checkpoint at the seq of the last one, and a device
  that lacks an oversize batch then replaces the copy that held it, after its
  author has retired it (`chat-log.ts:137`).
* Chat: a checkpoint that lands between the state frame and the request for rows
  makes the answer to that request incomplete; the session still joins as caught
  up with its cursor below the head (`chat_client.rs:1270`), until the next live
  row, wake or reconnect finds the gap.
* Chat: an oversize batch that reached the room in a checkpoint is announced to
  no connected peer; `Converges` and the tickets speak of rows only.

## Not modelled

Presence, probes' timing, statistics and per-device push counters change no row.
A frame or operation the room rejects (`validateOp`, size limits) is left out:
every batch of the model is valid, and the client cuts batches at 400 operations
to keep them so.  The migration from the legacy workspace document and the epoch
that zeroes the cursor of an old snapshot happen once, before the first
connection.  A save that fails is a save that did not happen; the one at boot is
taken to succeed.

Of the outbox, `cancel_effect` is left out, because nothing but tests calls it,
and so is `resolve_uncertain` with an accepted outcome.  Cancellation tokens are
reduced to what they can do, end a step early after the row was cancelled.  The
wall clock does not go back.  A command's plan may enqueue several effects in
one transaction; the model enqueues them one at a time, and a claim in between
meets nothing that it would not meet after the last.  What executors do, and
what recovery repairs in projections and threads, belongs to other parts.

Of the chat relay: presence, probes (a failed one is a dropped socket), sidecar
files, the nightly backup, failures of the local store, statistics, and the
one-time repair of a cursor from an older build (`apply_cursor_amnesty`).  The
room rejects a push for good only for its size, which `enqueue` tests first, so
the model has the test on the device.  When the first join of a client
fails its owner builds a new one; the model's client goes on.  Of the document
host, eviction, adoption of older documents and the transcript's views.

The repository is about 386 thousand lines, most of them user interface, wire
types, provider adapters and platform code without an order of events to get
wrong beyond their calls of the parts above.

`PROJECT.json` lists every other part of the repository with
the reason it is not modelled.

## Plan

1. Done: the registry.
2. Done: the effect outbox, with the proofs of its safety properties.
3. Done: the chat relay, refined to an abstract log.
4. Done: proofs of the registry's safety invariants, of the chat's types, of its
   refinement and of its catch-up properties.
5. Proofs left: what `ReconnectComplete` and `TicketFresh` come to in a room
   with checkpoints, once a post no longer vouches for rows that the document
   lacks.
6. Left out of this development for now: the command ledger and the queue, the
   kernel's dispatch and projections, publication, the device relay, the
   instance lock and the updater's admission.
