----------------------------- MODULE ChatCursor -----------------------------
(***************************************************************************)
(* Why a chat's catch-up may skip what it skips: the inductive invariant   *)
(* behind ReconnectComplete, RestartComplete and TicketFresh, of a room    *)
(* that has no checkpoint yet.                                             *)
(*                                                                         *)
(* The parts are operators of a room r, the histories D of the batches,    *)
(* and of a device d: what its document holds (H), its outbox o, and what  *)
(* is on its way to and from it (up, down), so that a lemma can speak of a *)
(* part before and after a step.                                           *)
(***************************************************************************)
EXTENDS ChatRelay

\* Who may open an old snapshot syncs over the socket only, and nobody wipes
\* the room.
SocketRestarts ==
  /\ "reset" \notin Faults
  /\ "crash" \in Faults => Transport \intersect Mortal = {}

\* Row s of the room is batch b, and the batches of the rows up to n.
RowIs(r, s, b) == s \in 1 .. HeadSeq(r) /\ r.log[s].batch = b
RowsTo(r, n) == {r.log[s].batch : s \in 1 .. n}

\* The document shows every row up to n.
Shows(r, D, H, n) == n <= HeadSeq(r) /\ RowsTo(r, n) \subseteq Visible(H, D)

\* Both cursors, the one the persister sampled, and the one it saved (k) pass
\* only rows that are shown.
CursorsOK(r, D, H, cursor, pcursor, sampled, k) ==
  /\ Shows(r, D, H, cursor) /\ Shows(r, D, H, pcursor) /\ Shows(r, D, H, sampled)
  /\ k.cursor <= HeadSeq(r) /\ RowsTo(r, k.cursor) \subseteq k.doc

\* What is pending comes with its history, unless that is pending too or a row
\* of the room; where `shown`, the document has that history.
PendingOK(r, D, H, o, shown) ==
  /\ \A b \in o : D[b] \subseteq o \union Admitted(r)
  /\ shown => o \subseteq Visible(H, D)

\* A client that has joined once holds every row that names its device, so
\* that excludeOwn leaves out nothing it lacks.
OwnRows(r, d, H, resumed) ==
  resumed => \A s \in 1 .. HeadSeq(r) : r.log[s].device = d => r.log[s].batch \in H

\* What is on the way to the room: a request that leaves out only rows that
\* are shown or its device's, and batches that are pending or shown.
UpOK(r, D, H, o, resumed, m) ==
  /\ m.t = "rowsReq" => Shows(r, D, H, m.after) /\ (m.excludeOwn => resumed)
  /\ m.t = "push" => m.batches \subseteq o \union Visible(H, D)

IsRequest(m) == m.t = "rowsReq"
IsAnswer(m) == m.t = "rows" /\ m.done

\* The answer to a request brings, of the rows up to its head and of the
\* device's, all that the document lacks, and the history of what is pending.
Answers(r, D, d, H, o, m) ==
  /\ m.head <= HeadSeq(r)
  /\ \A s \in 1 .. HeadSeq(r) :
       s <= m.head \/ r.log[s].device = d => r.log[s].batch \in H \/ s \in DOMAIN m.rows
  /\ \A b \in o : D[b] \subseteq H \union {m.rows[s] : s \in DOMAIN m.rows}

\* What is on the way from the room.
DownOK(r, D, d, H, o, m) ==
  /\ m.t = "state" => ~m.st.has
  /\ m.t = "rows" => /\ m.done \/ DOMAIN m.rows # {}
                     /\ \A s \in DOMAIN m.rows : RowIs(r, s, m.rows[s])
  /\ IsAnswer(m) => Answers(r, D, d, H, o, m)
  /\ m.t = "ack" => RowIs(r, m.seq, m.batch) /\ m.batch \in o \union Visible(H, D)

\* One request is out at a time.  A session that still fills its document reads
\* the answer before any ack, because the room reads the request before any
\* push.
InOrder(ph, asking, up, down) ==
  LET requests == {i \in DOMAIN up : IsRequest(up[i])}
      answers  == {i \in DOMAIN down : IsAnswer(down[i])}
  IN  /\ \A i, j \in requests : i = j
      /\ \A i, j \in answers : i = j
      /\ requests = {} \/ answers = {}
      /\ ph = "hello" \/ (ph = "up" /\ ~asking) => requests = {} /\ answers = {}
      /\ ph # "up" =>
           /\ \A i \in DOMAIN up : up[i].t = "push" =>
                answers # {} \/ \E j \in requests : j < i
           /\ \A i \in DOMAIN down : down[i].t = "ack" => \E j \in answers : j < i

\* The HTTPS cycle: it pushes what is shown, and reads rows of the room.
HttpOK(r, D, H, h) ==
  /\ h.ph \notin {"fetching", "importing"}
  /\ h.ph \in {"push", "acking"} => h.todo \subseteq Visible(H, D)
  /\ h.ph = "acking" => RowIs(r, h.seq, Min(h.todo))
  /\ h.ph \in {"answered", "applying"} =>
       /\ ~h.st.has /\ h.st.head <= HeadSeq(r)
       /\ \A s \in DOMAIN h.rows : RowIs(r, s, h.rows[s])

\* A ticket that was answered shows what it was given for (w), and an answer on
\* its way, to the session s or to its HTTPS cycle h, reaches as far as the
\* ticket it is for.
TicketsOK(r, D, H, w, done, s, down, h) ==
  /\ \A i \in 1 .. done : w[i] \subseteq Visible(H, D)
  /\ \A j \in DOMAIN down : IsAnswer(down[j]) =>
       \A i \in 1 .. s.ticket \union 1 .. s.refresh : w[i] \subseteq RowsTo(r, down[j].head)
  /\ h.ph \in {"answered", "applying"} =>
       \A i \in 1 .. h.ticket : w[i] \subseteq RowsTo(r, h.st.head)

\* A device whose document is client c's, with outbox o, saved snapshot k, the
\* cursor f that its persister sampled, and the tickets w.
Fits(r, D, d, o, f, k, w, c, s, up, down, h) ==
  /\ CursorsOK(r, D, c.held, c.cursor, c.pcursor, f, k)
  /\ PendingOK(r, D, c.held, o, s.ph = "up" \/ d \in Transport)
  /\ OwnRows(r, d, c.held, c.resumed)
  /\ \A i \in DOMAIN up : UpOK(r, D, c.held, o, c.resumed, up[i])
  /\ \A i \in DOMAIN down : DownOK(r, D, d, c.held, o, down[i])
  /\ s.ph \notin {"fetching", "importing"}
  /\ InOrder(s.ph, c.asking, up, down)
  /\ HttpOK(r, D, c.held, h)
  /\ TicketsOK(r, D, c.held, w, c.done, s, down, h)

DeviceOK(d) ==
  Fits(room, deps, d, outbox[d], flush[d], disk[d], wanted[d],
       cl[d], ses[d], c2s[d], s2c[d], http[d])

\* A ticket was given for rows of the room, a saved document lacks nothing of
\* what it shows, and the HTTPS cycle runs only where there is the seam for it.
TicketRows == \A d \in Devices : \A i \in DOMAIN wanted[d] : wanted[d][i] \subseteq Admitted(room)
Snapshots  == \A d \in Devices : \A b \in disk[d].doc : deps[b] \subseteq disk[d].doc
Cycling    == \A d \in Devices : http[d].ph # "idle" => d \in Transport

\* Until the room has a checkpoint, its log is all there ever was of the chat.
CatchUpInv ==
  ~room.has => /\ room.floor = 0 /\ room.ckpt = {}
               /\ TicketRows /\ Snapshots /\ Cycling
               /\ \A d \in Devices : DeviceOK(d)

=============================================================================
