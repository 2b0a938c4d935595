-------------------------- MODULE ChatCursor_proofs --------------------------
(***************************************************************************)
(* CatchUpInv, for every number of devices, batches and faults, and what   *)
(* follows from it: a catch-up skips nothing that a document lacks.        *)
(*                                                                         *)
(* Two questions are kept apart.  What does a step do to the room and the  *)
(* documents?  It adds rows and batches, so every part of CatchUpInv stays *)
(* true of what the step does not touch: Later, Kept, FitsLater, StepLater *)
(* and OthersQuiet.  What does it do to the device that takes it?  That is *)
(* one lemma per action, with Now(d, c, s, up, down, h) for the device     *)
(* half-way through the step, in the room and the histories after it.      *)
(***************************************************************************)
EXTENDS ChatCursor, ChatRelay_proofs

-----------------------------------------------------------------------------
(* What becomes of a part while others act *)

\* The room r, the histories D and the document H of device d, later: rows
\* were added, and those of the device it has.
Later(d, r, D, H, r2, D2, H2) ==
  /\ H \subseteq H2 /\ \A b \in H : D2[b] = D[b]
  /\ HeadSeq(r) \in Nat /\ HeadSeq(r2) \in Nat /\ HeadSeq(r) <= HeadSeq(r2)
  /\ \A s \in 1 .. HeadSeq(r) : r2.log[s] = r.log[s]
  /\ \A s \in 1 .. HeadSeq(r2) :
       s \notin 1 .. HeadSeq(r) /\ r2.log[s].device = d => r2.log[s].batch \in H2

\* Its outbox, later: what left it is a row and shown, what came has its history.
Kept(r2, D2, H2, o, o2) ==
  /\ o \subseteq o2 \union (Visible(H2, D2) \intersect Admitted(r2))
  /\ \A b \in o2 \ o : /\ b \in H2
                       /\ D2[b] \subseteq H2 /\ D2[b] \subseteq o2 \union Admitted(r2)

LEMMA VisibleLater ==
  ASSUME NEW d, NEW r, NEW D, NEW H, NEW r2, NEW D2, NEW H2, Later(d, r, D, H, r2, D2, H2)
  PROVE  Visible(H, D) \subseteq Visible(H2, D2)
  BY DEF Visible, Later

LEMMA RowsLater ==
  ASSUME NEW d, NEW r, NEW D, NEW H, NEW r2, NEW D2, NEW H2, Later(d, r, D, H, r2, D2, H2)
  PROVE  /\ \A n \in Int : n <= HeadSeq(r) => RowsTo(r2, n) = RowsTo(r, n) /\ n <= HeadSeq(r2)
         /\ \A s, b : RowIs(r, s, b) => RowIs(r2, s, b)
         /\ Admitted(r) \subseteq Admitted(r2)
<1>1. \A s \in 1 .. HeadSeq(r) : s \in 1 .. HeadSeq(r2) /\ r2.log[s] = r.log[s]
  BY DEF Later
<1>2. ASSUME NEW n \in Int, n <= HeadSeq(r)
      PROVE  RowsTo(r2, n) = RowsTo(r, n) /\ n <= HeadSeq(r2)
  <2>1. \A s \in 1 .. n : r2.log[s] = r.log[s]
    BY <1>1, <1>2 DEF Later
  <2> QED BY <1>2, <2>1 DEF Later, RowsTo
<1> QED BY <1>1, <1>2 DEF RowIs, Admitted

LEMMA ShowsLater ==
  ASSUME NEW d, NEW r, NEW D, NEW H, NEW r2, NEW D2, NEW H2, Later(d, r, D, H, r2, D2, H2),
         NEW n \in Int, Shows(r, D, H, n)
  PROVE  Shows(r2, D2, H2, n)
  BY RowsLater, VisibleLater DEF Shows

LEMMA CursorsLater ==
  ASSUME NEW d, NEW r, NEW D, NEW H, NEW r2, NEW D2, NEW H2, Later(d, r, D, H, r2, D2, H2),
         NEW cursor \in Int, NEW pcursor \in Int, NEW sampled \in Int, NEW k, k.cursor \in Int,
         CursorsOK(r, D, H, cursor, pcursor, sampled, k)
  PROVE  CursorsOK(r2, D2, H2, cursor, pcursor, sampled, k)
  BY ShowsLater, RowsLater DEF CursorsOK

LEMMA PendingLater ==
  ASSUME NEW d, NEW r, NEW D, NEW H, NEW r2, NEW D2, NEW H2, Later(d, r, D, H, r2, D2, H2),
         NEW o, NEW o2, Kept(r2, D2, H2, o, o2), NEW shown, o \subseteq H,
         PendingOK(r, D, H, o, shown)
  PROVE  PendingOK(r2, D2, H2, o2, shown)
<1>1. Admitted(r) \subseteq Admitted(r2)
  BY RowsLater
<1>2. ASSUME NEW b \in o2
      PROVE  D2[b] \subseteq o2 \union Admitted(r2)
  <2>1. CASE b \in o
    <3>1. D2[b] = D[b]
      BY <2>1 DEF Later
    <3> QED BY <1>1, <2>1, <3>1 DEF PendingOK, Kept
  <2> QED BY <2>1 DEF Kept
<1>3. ASSUME shown
      PROVE  o2 \subseteq Visible(H2, D2)
  <2>1. ASSUME NEW b \in o2 \ o PROVE b \in Visible(H2, D2)
    BY DEF Kept, Visible
  <2> QED BY <1>3, <2>1, VisibleLater DEF PendingOK
<1> QED BY <1>2, <1>3 DEF PendingOK

LEMMA OwnLater ==
  ASSUME NEW d, NEW r, NEW D, NEW H, NEW r2, NEW D2, NEW H2, Later(d, r, D, H, r2, D2, H2),
         NEW resumed, OwnRows(r, d, H, resumed)
  PROVE  OwnRows(r2, d, H2, resumed)
  BY DEF OwnRows, Later

LEMMA UpLater ==
  ASSUME NEW d, NEW r, NEW D, NEW H, NEW r2, NEW D2, NEW H2, Later(d, r, D, H, r2, D2, H2),
         NEW o, NEW o2, Kept(r2, D2, H2, o, o2), NEW resumed, NEW resumed2,
         resumed => resumed2, NEW m, m.t = "rowsReq" => m.after \in Int,
         UpOK(r, D, H, o, resumed, m)
  PROVE  UpOK(r2, D2, H2, o2, resumed2, m)
<1>1. ASSUME m.t = "rowsReq" PROVE Shows(r2, D2, H2, m.after)
  BY <1>1, ShowsLater DEF UpOK
<1>2. o \union Visible(H, D) \subseteq o2 \union Visible(H2, D2)
  BY VisibleLater DEF Kept
<1> QED BY <1>1, <1>2 DEF UpOK

LEMMA AnswersLater ==
  ASSUME NEW d, NEW r, NEW D, NEW H, NEW r2, NEW D2, NEW H2, Later(d, r, D, H, r2, D2, H2),
         NEW o, NEW o2, Kept(r2, D2, H2, o, o2), o \subseteq H, NEW m, m.head \in Int,
         Answers(r, D, d, H, o, m)
  PROVE  Answers(r2, D2, d, H2, o2, m)
<1>1. m.head <= HeadSeq(r2)
  BY DEF Answers, Later
<1>2. ASSUME NEW s \in 1 .. HeadSeq(r2), s <= m.head \/ r2.log[s].device = d
      PROVE  r2.log[s].batch \in H2 \/ s \in DOMAIN m.rows
  <2>1. CASE s \in 1 .. HeadSeq(r)
    <3>1. r2.log[s] = r.log[s]
      BY <2>1 DEF Later
    <3>2. r.log[s].batch \in H \/ s \in DOMAIN m.rows
      BY <1>2, <2>1, <3>1 DEF Answers
    <3> QED BY <3>1, <3>2 DEF Later
  <2>2. CASE s \notin 1 .. HeadSeq(r)
    <3>1. ~(s <= m.head)
      BY <2>2 DEF Answers, Later
    <3> QED BY <1>2, <2>2, <3>1 DEF Later
  <2> QED BY <2>1, <2>2
<1>3. ASSUME NEW b \in o2
      PROVE  D2[b] \subseteq H2 \union {m.rows[s] : s \in DOMAIN m.rows}
  <2>1. CASE b \in o
    <3>1. D2[b] = D[b] /\ D[b] \subseteq H \union {m.rows[s] : s \in DOMAIN m.rows}
      BY <2>1 DEF Later, Answers
    <3> QED BY <3>1 DEF Later
  <2> QED BY <2>1 DEF Kept
<1> QED BY <1>1, <1>2, <1>3 DEF Answers

LEMMA DownLater ==
  ASSUME NEW d, NEW r, NEW D, NEW H, NEW r2, NEW D2, NEW H2, Later(d, r, D, H, r2, D2, H2),
         NEW o, NEW o2, Kept(r2, D2, H2, o, o2), o \subseteq H, NEW m,
         m.t = "rows" => m.head \in Int,
         DownOK(r, D, d, H, o, m)
  PROVE  DownOK(r2, D2, d, H2, o2, m)
<1>1. ASSUME IsAnswer(m) PROVE Answers(r2, D2, d, H2, o2, m)
  BY <1>1, AnswersLater DEF DownOK, IsAnswer
<1>2. m.t = "rows" => /\ m.done \/ DOMAIN m.rows # {}
                      /\ \A s \in DOMAIN m.rows : RowIs(r2, s, m.rows[s])
  BY RowsLater DEF DownOK
<1>3. m.t = "ack" => RowIs(r2, m.seq, m.batch)
  BY RowsLater DEF DownOK
<1>4. o \union Visible(H, D) \subseteq o2 \union Visible(H2, D2)
  BY VisibleLater DEF Kept
<1> QED BY <1>1, <1>2, <1>3, <1>4 DEF DownOK

LEMMA HttpLater ==
  ASSUME NEW d, NEW r, NEW D, NEW H, NEW r2, NEW D2, NEW H2, Later(d, r, D, H, r2, D2, H2),
         NEW h, h.st.head \in Int, HttpOK(r, D, H, h)
  PROVE  HttpOK(r2, D2, H2, h)
<1>1. h.ph \in {"push", "acking"} => h.todo \subseteq Visible(H2, D2)
  BY VisibleLater DEF HttpOK
<1>2. h.ph = "acking" => RowIs(r2, h.seq, Min(h.todo))
  BY RowsLater DEF HttpOK
<1>3. ASSUME h.ph \in {"answered", "applying"}
      PROVE  /\ ~h.st.has /\ h.st.head <= HeadSeq(r2)
             /\ \A s \in DOMAIN h.rows : RowIs(r2, s, h.rows[s])
  BY <1>3, RowsLater DEF HttpOK
<1> QED BY <1>1, <1>2, <1>3 DEF HttpOK

\* An answer reaches what it reached.
LEMMA TicketsLater ==
  ASSUME NEW d, NEW r, NEW D, NEW H, NEW r2, NEW D2, NEW H2, Later(d, r, D, H, r2, D2, H2),
         NEW w, NEW done, NEW s, NEW down, NEW h, h.st.head \in Int,
         h.ph \in {"answered", "applying"} => h.st.head <= HeadSeq(r),
         \A j \in DOMAIN down : IsAnswer(down[j]) =>
           down[j].head \in Int /\ down[j].head <= HeadSeq(r),
         TicketsOK(r, D, H, w, done, s, down, h)
  PROVE  TicketsOK(r2, D2, H2, w, done, s, down, h)
<1>1. \A i \in 1 .. done : w[i] \subseteq Visible(H2, D2)
  BY VisibleLater DEF TicketsOK
<1>2. ASSUME NEW j \in DOMAIN down, IsAnswer(down[j])
      PROVE  RowsTo(r2, down[j].head) = RowsTo(r, down[j].head)
  BY <1>2, RowsLater
<1>3. ASSUME h.ph \in {"answered", "applying"}
      PROVE  RowsTo(r2, h.st.head) = RowsTo(r, h.st.head)
  BY <1>3, RowsLater
<1> QED BY <1>1, <1>2, <1>3 DEF TicketsOK

-----------------------------------------------------------------------------
(* The room and the documents of one step *)

\* The room without a checkpoint: all rows are there.
Plain == ~room.has /\ room.floor = 0 /\ room.ckpt = {}

\* r2 is r and one more row.
Adds(r, r2, d, b) ==
  /\ HeadSeq(r2) = HeadSeq(r) + 1
  /\ \A s \in 1 .. HeadSeq(r) : r2.log[s] = r.log[s]
  /\ r2.log[HeadSeq(r2)] = [device |-> d, batch |-> b]

LEMMA AppendAdds ==
  ASSUME NEW r \in RoomIn, r.floor = 0, NEW d \in Devices, NEW b \in Nat
  PROVE  /\ HeadSeq(r) \in Nat
         /\ AppendRow(r, d, b).has = r.has /\ AppendRow(r, d, b).ckpt = r.ckpt
         /\ \/ b \in Admitted(r) /\ AppendRow(r, d, b) = r
            \/ b \notin Admitted(r) /\ Adds(r, AppendRow(r, d, b), d, b)
         /\ RowIs(AppendRow(r, d, b), AckSeq(r, b), b)
         /\ RowOf(r, b) = {} <=> b \notin Admitted(r)
<1>1. /\ r.log \in Seq([device : Devices, batch : Nat]) /\ HeadSeq(r) = Len(r.log)
      /\ Len(r.log) \in Nat
  BY DEF RoomIn, HeadSeq
<1>2. Rows(r) = 1 .. Len(r.log)
  BY <1>1 DEF Rows
<1>3. RowOf(r, b) = {} <=> b \notin Admitted(r)
  BY <1>1, <1>2 DEF RowOf, Admitted
<1>4. CASE RowOf(r, b) # {}
  <2>1. AppendRow(r, d, b) = r /\ AckSeq(r, b) \in RowOf(r, b)
    BY <1>4 DEF AppendRow, AckSeq
  <2>2. RowIs(r, AckSeq(r, b), b)
    BY <1>1, <1>2, <2>1 DEF RowOf, RowIs
  <2> QED BY <1>1, <1>3, <1>4, <2>1, <2>2
<1>5. CASE RowOf(r, b) = {}
  <2> DEFINE row == [device |-> d, batch |-> b]
             log == Append(r.log, row)
  <2>1. AppendRow(r, d, b) = [r EXCEPT !.log = log] /\ AckSeq(r, b) = HeadSeq(r) + 1
    BY <1>5 DEF AppendRow, AckSeq
  <2>2. row.batch = b
    OBVIOUS
  <2>3. row \in [device : Devices, batch : Nat]
    OBVIOUS
  <2> HIDE DEF row
  <2>4. /\ Len(log) = Len(r.log) + 1 /\ \A s \in 1 .. Len(r.log) : log[s] = r.log[s]
        /\ log[Len(r.log) + 1] = row
    BY <1>1, <2>3
  <2> HIDE DEF log
  <2>5. [r EXCEPT !.log = log].log = log
    BY DEF RoomIn
  <2>6. /\ HeadSeq(AppendRow(r, d, b)) = HeadSeq(r) + 1
        /\ AppendRow(r, d, b).log = log
    BY <1>1, <2>1, <2>4, <2>5 DEF HeadSeq
  <2>7. Adds(r, AppendRow(r, d, b), d, b)
    BY <1>1, <2>4, <2>6 DEF Adds, row
  <2>8. RowIs(AppendRow(r, d, b), AckSeq(r, b), b)
    BY <1>1, <2>1, <2>2, <2>4, <2>6 DEF RowIs
  <2> QED BY <1>1, <1>3, <1>5, <2>1, <2>7, <2>8 DEF RoomIn
<1> QED BY <1>4, <1>5

\* What a plain room serves is its rows.
LEMMA PlainServes ==
  ASSUME NEW r, r.floor = 0, r.ckpt = {}, HeadSeq(r) \in Nat
  PROVE  Readable(r) = Admitted(r) /\ RowsTo(r, HeadSeq(r)) = Admitted(r)
  BY DEF Readable, Admitted, Rows, RowsTo

\* The room of the invariant Base.
LEMMA BaseRoom ==
  ASSUME Base
  PROVE  /\ room \in RoomIn /\ room.floor <= HeadSeq(room) /\ HeadSeq(room) \in Nat
         /\ Readable(room) \subseteq Nat /\ Batches \subseteq Nat
<1>1. RoomOf(room, Batches) /\ Batches \subseteq Nat
  BY DEF Base, Batches
<1>2. room \in RoomIn /\ room.floor <= HeadSeq(room) /\ Readable(room) \subseteq Batches
  BY <1>1, RoomOfIn, RoomServes
<1>3. HeadSeq(room) \in Nat
  <2>1. room.log \in Seq([device : Devices, batch : Nat])
    BY <1>2 DEF RoomIn
  <2> QED BY <2>1 DEF HeadSeq
<1> QED BY <1>1, <1>2, <1>3

\* One row more or nothing, as long as the room stays without a checkpoint.
LEMMA RoomStep ==
  ASSUME Provenance, Next, "reset" \notin Faults, Plain, ~room'.has
  PROVE  /\ Plain' /\ Serves
         /\ \/ UNCHANGED room
            \/ \E d \in Devices : \E b \in outbox[d] : Adds(room, room', d, b)
<1>0. Base /\ Sourced
  BY DEF Provenance
<1>1. PICK O : O = Own
  OBVIOUS
<1>2. PICK P : P = Sendable
  OBVIOUS
<1>3. PICK R : R = Readable(room)
  OBVIOUS
<1>4. PICK N : N = Tickets
  OBVIOUS
<1>5. Within(O, P, R, N)
  BY <1>0, <1>1, <1>2, <1>3, <1>4 DEF Sourced
<1>6. /\ room \in RoomIn /\ R \subseteq Nat
  BY <1>0, <1>3, BaseRoom
<1>7. Frames(O, P, R, N)
  <2>1. ASSUME NEW d \in Devices
        PROVE  /\ O[d] = outbox[d] \union R /\ P[d] = O[d] \ rejected[d] /\ N[d] \in Nat
               /\ outbox[d] \subseteq Nat
    BY <1>0, <1>1, <1>2, <1>3, <1>4 DEF Own, Sendable, Tickets, Base
  <2> QED BY <1>3, <1>6, <2>1 DEF Frames, Pending
<1>8. RoomMoves(O)
  BY <1>5, <1>7, RoomMoved
<1>9. ~Compacts
  <2>1. ASSUME NEW d \in Devices, room' = CommitCheckpoint(room, post[d].seq, post[d].content)
        PROVE  FALSE
    BY <1>6, <2>1 DEF CommitCheckpoint, RoomIn
  <2> QED BY <2>1 DEF Compacts
<1>10. CASE UNCHANGED room
  BY <1>10 DEF Plain, Serves
<1>11. CASE Appends(O)
  <2>1. PICK d \in Devices : \E b \in O[d] : room' = AppendRow(room, d, b)
    BY <1>11 DEF Appends
  <2>2. PICK b \in O[d] : room' = AppendRow(room, d, b)
    BY <2>1
  <2>3. b \in Nat /\ b \in outbox[d] \union Readable(room)
    BY <1>0, <1>1, <1>3, <1>6, <2>2 DEF Own, Base
  <2>4. room'.floor = 0 /\ Readable(room) \subseteq Readable(room')
    <3>1. room.floor = 0 /\ room.floor <= HeadSeq(room)
      BY <1>0, BaseRoom DEF Plain
    <3>2. AppendRow(room, d, b).floor = room.floor
      BY <1>6, <2>3, AppendFacts
    <3>3. Readable(AppendRow(room, d, b)) = Readable(room) \union {b}
      BY <1>6, <2>3, <3>1, AppendFacts
    <3> QED BY <2>2, <3>1, <3>2, <3>3
  <2>5. /\ HeadSeq(room) \in Nat /\ room'.ckpt = {}
        /\ \/ UNCHANGED room
           \/ b \notin Admitted(room) /\ Adds(room, room', d, b)
    BY <1>6, <2>2, <2>3, AppendAdds DEF Plain
  <2>6. Readable(room) = Admitted(room)
    BY <2>5, PlainServes DEF Plain
  <2> QED BY <2>3, <2>4, <2>5, <2>6 DEF Plain, Serves
<1> QED BY <1>8, <1>9, <1>10, <1>11 DEF RoomMoves

LEMMA NextProvenance ==
  ASSUME Provenance, Next, "reset" \notin Faults, Plain, ~room'.has
  PROVE  Provenance'
  BY RoomStep, ProvenanceStep

\* Every device but one that restarts.
LEMMA StepLater ==
  ASSUME Provenance, Next, "reset" \notin Faults, Plain, ~room'.has,
         NEW d \in Devices, ~Crash(d)
  PROVE  Later(d, room, deps, cl[d].held, room', deps', cl'[d].held)
<1>1. /\ Base /\ Provenance' /\ Base' /\ Serves
  BY RoomStep, NextProvenance DEF Provenance
<1>2. /\ room \in RoomIn /\ HeadSeq(room) \in Nat /\ cl[d].held \subseteq Batches
      /\ deps \in Seq(SUBSET Nat) /\ \A e \in Devices : outbox[e] \subseteq cl[e].held
  BY <1>1, BaseRoom, BaseAt DEF Base
<1>3. /\ HeadSeq(room') \in Nat /\ HeadSeq(room) <= HeadSeq(room')
      /\ \A s \in 1 .. HeadSeq(room) : room'.log[s] = room.log[s]
      /\ \A s \in 1 .. HeadSeq(room') :
           s \notin 1 .. HeadSeq(room) /\ room'.log[s].device = d =>
             room'.log[s].batch \in outbox[d]
  <2>1. CASE UNCHANGED room
    BY <1>2, <2>1
  <2>2. CASE \E e \in Devices : \E b \in outbox[e] : Adds(room, room', e, b)
    <3>1. PICK e \in Devices : \E b \in outbox[e] : Adds(room, room', e, b)
      BY <2>2
    <3>2. PICK b \in outbox[e] : Adds(room, room', e, b)
      BY <3>1
    <3>3. \A s \in 1 .. HeadSeq(room') : s \notin 1 .. HeadSeq(room) => s = HeadSeq(room')
      BY <1>2, <3>2 DEF Adds
    <3> QED BY <1>2, <3>2, <3>3 DEF Adds
  <2> QED BY <2>1, <2>2, RoomStep
<1>4. cl[d].held \subseteq cl'[d].held /\ \A b \in cl[d].held : deps'[b] = deps[b]
  <2>1. CASE \E e \in Devices : Crash(e)
    <3>1. PICK e \in Devices : Crash(e)
      BY <2>1
    <3>2. \A x \in Devices \ {e} : cl'[x] = cl[x]
      BY <1>1, <3>1, ChatAssumption, BaseCrash
    <3> QED BY <3>1, <3>2 DEF Crash
  <2>2. CASE \A e \in Devices : ~Crash(e)
    <3>1. PICK O : O = Own'
      OBVIOUS
    <3>2. PICK R : R = Readable(room')
      OBVIOUS
    <3>3. \E P : Effect(Own', P, Readable(room'))
      BY <1>1, <2>2, SourcedStep DEF Provenance
    <3>4. PICK P : Effect(Own', P, Readable(room'))
      BY <3>3
    <3>5. Effect(O, P, R)
      BY <3>1, <3>2, <3>4
    <3>6. cl[d].held \subseteq cl'[d].held
      BY <3>5 DEF Effect, Reading, Saving, Retiring, Appending, Posting, Writing, Asking,
                  Wiping, Keeps, Learns, Becomes
    <3>7. \/ UNCHANGED deps
          \/ \E X \in SUBSET Nat : deps' = Append(deps, X)
      <4>1. ASSUME NEW e \in Devices, Write(e)
            PROVE  Doc(e) \in SUBSET Nat /\ deps' = Append(deps, Doc(e))
        BY <1>1, <4>1, BaseAt DEF Write
      <4> QED BY <3>5, <4>1 DEF Effect, Reading, Saving, Retiring, Appending, Posting, Writing,
                  Asking, Wiping, RequestCatchUp, Reset
    <3> QED BY <1>2, <3>6, <3>7 DEF Batches
  <2> QED BY <2>1, <2>2
<1> QED BY <1>2, <1>3, <1>4 DEF Later

-----------------------------------------------------------------------------
(* The steps of a session, as what they do to what Fits speaks of *)

\* A client that differs in nothing that matters here.
Alike(c, c2) ==
  /\ c2.held = c.held /\ c2.cursor = c.cursor /\ c2.pcursor = c.pcursor
  /\ c2.resumed = c.resumed /\ c2.done = c.done /\ (c.asking => c2.asking)

LEMMA OrderAsking ==
  ASSUME NEW ph, NEW a, NEW a2, NEW up, NEW down, InOrder(ph, a, up, down), a => a2
  PROVE  InOrder(ph, a2, up, down)
  BY DEF InOrder

LEMMA FitsAlike ==
  ASSUME NEW r, NEW D, NEW d, NEW o, NEW f, NEW k, NEW w, NEW c, NEW s, NEW up, NEW down, NEW h,
         Fits(r, D, d, o, f, k, w, c, s, up, down, h), NEW c2, Alike(c, c2)
  PROVE  Fits(r, D, d, o, f, k, w, c2, s, up, down, h)
<1>1. InOrder(s.ph, c2.asking, up, down)
  BY OrderAsking DEF Alike, Fits
<1> QED BY <1>1 DEF Fits, Alike

\* An HTTPS cycle that neither has a row nor pushes says nothing.
LEMMA HttpQuiet ==
  ASSUME NEW r, NEW D, NEW H, NEW w, NEW done, NEW s, NEW down, NEW h, NEW h2,
         h2.ph \in {"idle", "spawned", "pulling"},
         TicketsOK(r, D, H, w, done, s, down, h)
  PROVE  HttpOK(r, D, H, h2) /\ TicketsOK(r, D, H, w, done, s, down, h2)
  BY DEF HttpOK, TicketsOK

\* Nothing on a socket is in order in any phase that does not join.
LEMMA OrderNone ==
  ASSUME NEW ph, NEW a
  PROVE  InOrder(ph, a, <<>>, <<>>)
  BY DEF InOrder

LEMMA FitsSpawned ==
  ASSUME NEW r, NEW D, NEW d, NEW o, NEW f, NEW k, NEW w, NEW c, NEW s, NEW up, NEW down,
         NEW P, NEW R, NEW n, NEW h \in HttpIn(P, R, n),
         Fits(r, D, d, o, f, k, w, c, s, up, down, h)
  PROVE  Fits(r, D, d, o, f, k, w, c, s, up, down, Spawned(d, h))
<1>1. Spawned(d, h) = h \/ Spawned(d, h).ph = "spawned"
  BY DEF Spawned, HttpIn, HttpRec
<1> QED BY <1>1, HttpQuiet DEF Fits

\* A session ends.
LEMMA FitsEnd ==
  ASSUME NEW r, NEW D, NEW d, NEW o, NEW f, NEW k, NEW w, NEW c, NEW s, NEW up, NEW down,
         NEW P, NEW R, NEW n, NEW h \in HttpIn(P, R, n),
         Fits(r, D, d, o, f, k, w, c, s, up, down, h), NEW c2, Alike(c, c2)
  PROVE  Fits(r, D, d, o, f, k, w, c2, NoSession, <<>>, <<>>, Spawned(d, h))
<1>1. Fits(r, D, d, o, f, k, w, c2, s, up, down, Spawned(d, h))
  BY FitsAlike, FitsSpawned
<1>2. NoSession.ph = "down" /\ NoSession.ticket = 0 /\ NoSession.refresh = 0
  BY DEF NoSession
<1>3. TicketsOK(r, D, c2.held, w, c2.done, NoSession, <<>>, Spawned(d, h))
  BY <1>1 DEF Fits, TicketsOK
<1>4. PendingOK(r, D, c2.held, o, NoSession.ph = "up" \/ d \in Transport)
  BY <1>1, <1>2 DEF Fits, PendingOK
<1>5. \A i \in DOMAIN <<>> : FALSE
  OBVIOUS
<1> QED BY <1>1, <1>2, <1>3, <1>4, <1>5, OrderNone DEF Fits

LEMMA AppendAt ==
  ASSUME NEW S, NEW q \in Seq(S), NEW m
  PROVE  /\ \A i \in DOMAIN Append(q, m) :
              \/ i \in DOMAIN q /\ Append(q, m)[i] = q[i]
              \/ i \notin DOMAIN q /\ i = Len(q) + 1 /\ Append(q, m)[i] = m
         /\ \A i \in DOMAIN q : /\ i \in DOMAIN Append(q, m) /\ Append(q, m)[i] = q[i]
                                /\ i \in Int /\ i < Len(q) + 1
         /\ Len(q) + 1 \in DOMAIN Append(q, m) /\ Append(q, m)[Len(q) + 1] = m
         /\ Len(q) \in Nat
  OBVIOUS

\* A request from a session in the steady state that has none out.
LEMMA OrderAsk ==
  ASSUME NEW up \in Seq(Up(Nat)), NEW down, InOrder("up", FALSE, up, down), NEW m, IsRequest(m)
  PROVE  InOrder("up", TRUE, Append(up, m), down)
<1>1. /\ DOMAIN up = 1 .. Len(up) /\ Len(up) \in Nat
      /\ DOMAIN Append(up, m) = 1 .. Len(up) + 1
      /\ \A i \in 1 .. Len(up) : Append(up, m)[i] = up[i]
  OBVIOUS
<1> QED BY <1>1 DEF InOrder

LEMMA FitsAsk ==
  ASSUME NEW r, NEW D, NEW d, NEW o, NEW f, NEW k, NEW w, NEW c, NEW s,
         NEW up \in Seq(Up(Nat)), NEW down, NEW h,
         Fits(r, D, d, o, f, k, w, c, s, up, down, h), s.ph = "up", c.asking = FALSE,
         NEW c2, Alike(c, c2), c2.asking = TRUE, NEW s2, s2.ph = "up"
  PROVE  Fits(r, D, d, o, f, k, w, c2, s2, Append(up, RowsReq(c.cursor, FALSE)), down, h)
<1> DEFINE m == RowsReq(c.cursor, FALSE)
<1>1. Fits(r, D, d, o, f, k, w, c2, s, up, down, h) /\ c2.cursor = c.cursor
  BY FitsAlike DEF Alike
<1>2. UpOK(r, D, c2.held, o, c2.resumed, m)
  BY <1>1 DEF Fits, CursorsOK, UpOK, RowsReq
<1>3. InOrder("up", FALSE, up, down)
  BY DEF Fits
<1>4. IsRequest(m)
  BY DEF IsRequest, RowsReq
<1> HIDE DEF m
<1>5. ASSUME NEW i \in DOMAIN Append(up, m)
      PROVE  UpOK(r, D, c2.held, o, c2.resumed, Append(up, m)[i])
  <2>1. (i \in DOMAIN up /\ Append(up, m)[i] = up[i]) \/ Append(up, m)[i] = m
    BY <1>5, AppendAt
  <2> QED BY <1>1, <1>2, <2>1 DEF Fits
<1>6. InOrder(s2.ph, c2.asking, Append(up, m), down)
  BY <1>3, <1>4, OrderAsk
<1>7. \A j \in DOMAIN down : ~IsAnswer(down[j])
  BY <1>3 DEF InOrder
<1>8. TicketsOK(r, D, c2.held, w, c2.done, s2, down, h)
  BY <1>1, <1>7 DEF Fits, TicketsOK
<1>9. PendingOK(r, D, c2.held, o, s2.ph = "up" \/ d \in Transport)
  BY <1>1 DEF Fits
<1> QED BY <1>1, <1>5, <1>6, <1>8, <1>9 DEF Fits, m

\* The types of a device's state, with n tickets.
Formed(n, f, k, c, s, up, down, h) ==
  /\ n \in Nat /\ f \in Int /\ k.cursor \in Nat
  /\ c \in ClientIn(Nat, n) /\ s \in SessionIn(Nat, n)
  /\ up \in Seq(Up(Nat)) /\ down \in Seq(Down(Nat, Nat)) /\ h \in HttpIn(Nat, Nat, n)

FormedAt(d) == Formed(Len(wanted[d]), flush[d], disk[d], cl[d], ses[d], c2s[d], s2c[d], http[d])

LEMMA BaseFormed ==
  ASSUME Base, NEW d \in Devices
  PROVE  FormedAt(d)
<1>1. PICK O : O = Every
  OBVIOUS
<1>2. PICK P : P = Allowed
  OBVIOUS
<1>3. PICK R : R = Batches
  OBVIOUS
<1>4. PICK N : N = Tickets
  OBVIOUS
<1>5. PICK A : A = [e \in Devices |-> Nat]
  OBVIOUS
<1>6. PICK Q : Q = Nat
  OBVIOUS
<1>7. \A e \in Devices : /\ O[e] \subseteq A[e] /\ P[e] \subseteq A[e]
                         /\ N[e] \in Nat /\ N[e] \in Nat /\ N[e] <= N[e]
  BY <1>1, <1>2, <1>4, <1>5, BaseAt DEF Every, Allowed, Tickets
<1>8. Within(O, P, R, N) /\ R \subseteq Q
  BY <1>1, <1>2, <1>3, <1>4, <1>6 DEF Base, Batches
<1>9. Within(A, A, Q, N)
  <2> HIDE <1>1, <1>2, <1>3, <1>4, <1>5, <1>6
  <2> QED BY <1>7, <1>8, WithinGrows
<1>10. /\ cl[d] \in ClientIn(Nat, N[d]) /\ disk[d] \in DiskIn(Nat)
       /\ flush[d] \in Nat \union {NoFlush} /\ ses[d] \in SessionIn(Nat, N[d])
       /\ c2s[d] \in Seq(Up(Nat)) /\ s2c[d] \in Seq(Down(Nat, Nat))
       /\ http[d] \in HttpIn(Nat, Nat, N[d])
  <2>1. A[d] = Nat /\ Q = Nat
    BY <1>5, <1>6
  <2>2. /\ cl[d] \in ClientIn(A[d], N[d]) /\ disk[d] \in DiskIn(A[d])
        /\ flush[d] \in Nat \union {NoFlush} /\ ses[d] \in SessionIn(Q, N[d])
        /\ c2s[d] \in Seq(Up(A[d])) /\ s2c[d] \in Seq(Down(A[d], Q))
        /\ http[d] \in HttpIn(A[d], Q, N[d])
    BY <1>9, WithinAt
  <2> QED BY <2>1, <2>2
<1>11. N[d] = Len(wanted[d]) /\ Len(wanted[d]) \in Nat
  BY <1>4, BaseAt DEF Tickets
<1> QED BY <1>10, <1>11 DEF FormedAt, Formed, DiskIn, NoFlush

LEMMA FormedFields ==
  ASSUME NEW n, NEW f, NEW k, NEW c, NEW s, NEW up, NEW down, NEW h,
         Formed(n, f, k, c, s, up, down, h)
  PROVE  /\ f \in Int /\ k.cursor \in Int /\ c.cursor \in Nat /\ c.pcursor \in Nat
         /\ c.held \subseteq Nat /\ c.done \in Nat /\ c.asked \in Nat
         /\ c.asked <= n /\ c.done <= n
         /\ s.ticket \in Nat /\ s.refresh \in Nat
         /\ h.st.head \in Nat /\ h.after \in Nat /\ h.ticket \in Nat
         /\ \A i \in DOMAIN up : up[i].t = "rowsReq" => up[i].after \in Int
         /\ \A i \in DOMAIN down : down[i].t = "rows" =>
              /\ down[i].head \in Int /\ down[i].rows \in RowMap(Nat) /\ down[i].done \in BOOLEAN
<1>1. /\ f \in Int /\ k.cursor \in Int /\ c.cursor \in Nat /\ c.pcursor \in Nat
      /\ c.held \subseteq Nat /\ c.done \in Nat /\ c.asked \in Nat
      /\ c.asked <= n /\ c.done <= n
  BY DEF Formed, ClientIn
<1>2. s.ticket \in Nat /\ s.refresh \in Nat
  BY DEF Formed, SessionIn
<1>3. h.st.head \in Nat /\ h.after \in Nat /\ h.ticket \in Nat
  BY DEF Formed, HttpIn, HttpRec, StateIn
<1>4. ASSUME NEW i \in DOMAIN up, up[i].t = "rowsReq"
      PROVE  up[i].after \in Int
  <2>1. up[i] \in Up(Nat)
    BY DEF Formed
  <2> QED BY <1>4, <2>1 DEF Up
<1>5. ASSUME NEW i \in DOMAIN down, down[i].t = "rows"
      PROVE  down[i].head \in Int /\ down[i].rows \in RowMap(Nat) /\ down[i].done \in BOOLEAN
  <2>1. down[i] \in Down(Nat, Nat)
    BY DEF Formed
  <2> QED BY <1>5, <2>1 DEF Down
<1> QED BY <1>1, <1>2, <1>3, <1>4, <1>5

\* The same client with the document it has later.
Grown(c, c2) ==
  /\ c2.cursor = c.cursor /\ c2.pcursor = c.pcursor
  /\ c2.resumed = c.resumed /\ c2.done = c.done /\ (c.asking => c2.asking)

LEMMA FitsLater ==
  ASSUME NEW d, NEW r, NEW D, NEW c, NEW r2, NEW D2, NEW c2,
         Later(d, r, D, c.held, r2, D2, c2.held), Grown(c, c2),
         NEW o, NEW o2, Kept(r2, D2, c2.held, o, o2), o \subseteq c.held,
         NEW n, NEW f, NEW k, NEW w, NEW s, NEW up, NEW down, NEW h,
         Formed(n, f, k, c, s, up, down, h),
         Fits(r, D, d, o, f, k, w, c, s, up, down, h)
  PROVE  Fits(r2, D2, d, o2, f, k, w, c2, s, up, down, h)
<1> DEFINE H == c.held
           H2 == c2.held
<1>1. Later(d, r, D, H, r2, D2, H2) /\ Kept(r2, D2, H2, o, o2) /\ o \subseteq H
  OBVIOUS
<1>2. /\ f \in Int /\ k.cursor \in Int /\ c.cursor \in Int /\ c.pcursor \in Int
      /\ h.st.head \in Int
      /\ \A i \in DOMAIN up : up[i].t = "rowsReq" => up[i].after \in Int
      /\ \A i \in DOMAIN down : down[i].t = "rows" => down[i].head \in Int
  BY FormedFields
<1> HIDE DEF H, H2
<1>3. CursorsOK(r2, D2, H2, c2.cursor, c2.pcursor, f, k)
  BY <1>1, <1>2, CursorsLater DEF Grown, Fits, H
<1>4. PendingOK(r2, D2, H2, o2, s.ph = "up" \/ d \in Transport)
  <2>1. PendingOK(r, D, H, o, s.ph = "up" \/ d \in Transport)
    BY DEF Fits, H
  <2> QED BY <1>1, <2>1, PendingLater
<1>5. OwnRows(r2, d, H2, c2.resumed)
  BY <1>1, OwnLater DEF Grown, Fits, H
<1>6. ASSUME NEW i \in DOMAIN up
      PROVE  UpOK(r2, D2, H2, o2, c2.resumed, up[i])
  BY <1>1, <1>2, UpLater DEF Grown, Fits, H
<1>7. ASSUME NEW i \in DOMAIN down
      PROVE  DownOK(r2, D2, d, H2, o2, down[i])
  BY <1>1, <1>2, DownLater DEF Fits, H
<1>8. InOrder(s.ph, c2.asking, up, down)
  BY OrderAsking DEF Grown, Fits
<1>9. HttpOK(r2, D2, H2, h)
  BY <1>1, <1>2, HttpLater DEF Fits, H
<1>10. TicketsOK(r2, D2, H2, w, c2.done, s, down, h)
  <2>1. h.ph \in {"answered", "applying"} => h.st.head <= HeadSeq(r)
    BY DEF Fits, HttpOK
  <2>2. ASSUME NEW j \in DOMAIN down, IsAnswer(down[j])
        PROVE  down[j].head \in Int /\ down[j].head <= HeadSeq(r)
    <3>1. Answers(r, D, d, H, o, down[j])
      BY <2>2 DEF Fits, DownOK, H
    <3> QED BY <1>2, <2>2, <3>1 DEF IsAnswer, Answers
  <2>3. TicketsOK(r, D, H, w, c.done, s, down, h) /\ c2.done = c.done
    BY DEF Fits, H, Grown
  <2> QED BY <1>1, <1>2, <2>1, <2>2, <2>3, TicketsLater
<1> QED BY <1>3, <1>4, <1>5, <1>6, <1>7, <1>8, <1>9, <1>10 DEF Fits, H2

-----------------------------------------------------------------------------
(* A frame is handled *)

LEMMA TailAt ==
  ASSUME NEW S, NEW q \in Seq(S), q # <<>>
  PROVE  /\ 1 \in DOMAIN q /\ q[1] = Head(q)
         /\ \A i \in DOMAIN Tail(q) : /\ i \in Int /\ i + 1 \in DOMAIN q /\ i + 1 # 1
                                      /\ Tail(q)[i] = q[i + 1]
         /\ \A i \in DOMAIN q : /\ i \in Int /\ i >= 1
                                /\ i # 1 => i - 1 \in DOMAIN Tail(q) /\ Tail(q)[i - 1] = q[i]
  OBVIOUS

LEMMA ConsAt ==
  ASSUME NEW S, NEW q \in Seq(S), q # <<>>, NEW x
  PROVE  /\ DOMAIN (<<x>> \o Tail(q)) = DOMAIN q
         /\ (<<x>> \o Tail(q))[1] = x
         /\ \A i \in DOMAIN q : i # 1 => (<<x>> \o Tail(q))[i] = q[i]
<1> DEFINE T == S \union {x}
<1>1. q \in Seq(T) /\ x \in T
  BY SeqGrow
<1> HIDE DEF T
<1>2. Len(q) \in Nat /\ DOMAIN q = 1 .. Len(q) /\ Len(q) # 0
  BY <1>1
<1>3. Tail(q) \in Seq(T) /\ Len(Tail(q)) = Len(q) - 1
  BY <1>1
<1>4. <<x>> \in Seq(T) /\ Len(<<x>>) = 1 /\ <<x>>[1] = x
  BY <1>1
<1>5. \A i \in 1 .. Len(q) - 1 : Tail(q)[i] = q[i + 1]
  BY <1>1
<1>6. PICK p : p = <<x>>
  OBVIOUS
<1>7. PICK t : t = Tail(q)
  OBVIOUS
<1>8. /\ p \o t \in Seq(T) /\ Len(p \o t) = Len(q)
      /\ \A i \in 1 .. Len(q) : (p \o t)[i] = IF i <= 1 THEN p[i] ELSE t[i - 1]
  BY <1>2, <1>3, <1>4, <1>6, <1>7
<1>9. /\ DOMAIN (p \o t) = 1 .. Len(q) /\ (p \o t)[1] = x
      /\ \A i \in 1 .. Len(q) : i # 1 => (p \o t)[i] = q[i]
  BY <1>2, <1>4, <1>5, <1>6, <1>7, <1>8
<1> QED BY <1>2, <1>6, <1>7, <1>9

LEMMA OrderTail ==
  ASSUME NEW ph, NEW a, NEW up, NEW S, NEW down \in Seq(S), down # <<>>,
         InOrder(ph, a, up, down), ~IsAnswer(Head(down))
  PROVE  InOrder(ph, a, up, Tail(down))
<1> DEFINE requests == {i \in DOMAIN up : IsRequest(up[i])}
           answers  == {i \in DOMAIN down : IsAnswer(down[i])}
           left     == {i \in DOMAIN Tail(down) : IsAnswer(Tail(down)[i])}
<1>1. /\ \A i \in left : i \in Int /\ i + 1 \in answers
      /\ \A i \in answers : i \in Int /\ i - 1 \in left
  BY TailAt
<1>2. \A i \in DOMAIN Tail(down) : /\ i \in Int /\ i + 1 \in DOMAIN down
                                   /\ Tail(down)[i] = down[i + 1]
  BY TailAt
<1>3. /\ \A i, j \in requests : i = j
      /\ \A i, j \in answers : i = j
      /\ requests = {} \/ answers = {}
      /\ ph = "hello" \/ (ph = "up" /\ ~a) => requests = {} /\ answers = {}
  BY DEF InOrder
<1>4. ASSUME ph # "up"
      PROVE  /\ \A i \in DOMAIN up : up[i].t = "push" => answers # {} \/ \E j \in requests : j < i
             /\ \A i \in DOMAIN down : down[i].t = "ack" => \E j \in answers : j < i
  BY <1>4 DEF InOrder
<1>5. \A i, j \in left : i = j
  <2>1. ASSUME NEW i \in left, NEW j \in left PROVE i = j
    <3>1. i + 1 = j + 1 /\ i \in Int /\ j \in Int
      BY <1>1, <1>3
    <3> QED BY <3>1
  <2> QED BY <2>1
<1>6. answers = {} <=> left = {}
  BY <1>1
<1>7. ASSUME ph # "up", NEW i \in DOMAIN Tail(down), Tail(down)[i].t = "ack"
      PROVE  \E j \in left : j < i
  <2>1. i \in Int /\ i + 1 \in DOMAIN down /\ down[i + 1].t = "ack"
    BY <1>2, <1>7
  <2>2. PICK j \in answers : j < i + 1
    BY <1>4, <1>7, <2>1
  <2> QED BY <1>1, <2>1, <2>2
<1> HIDE DEF requests, answers, left
<1>8. /\ \A i, j \in requests : i = j
      /\ \A i, j \in left : i = j
      /\ requests = {} \/ left = {}
      /\ ph = "hello" \/ (ph = "up" /\ ~a) => requests = {} /\ left = {}
      /\ ph # "up" =>
           /\ \A i \in DOMAIN up : up[i].t = "push" => left # {} \/ \E j \in requests : j < i
           /\ \A i \in DOMAIN Tail(down) : Tail(down)[i].t = "ack" => \E j \in left : j < i
  BY <1>3, <1>4, <1>5, <1>6, <1>7
<1> QED BY <1>8 DEF InOrder, requests, left

LEMMA OrderHead ==
  ASSUME NEW ph, NEW a, NEW up, NEW S, NEW down \in Seq(S), down # <<>>,
         InOrder(ph, a, up, down), NEW x,
         IsAnswer(x) <=> IsAnswer(Head(down)), x.t = "ack" => Head(down).t = "ack"
  PROVE  InOrder(ph, a, up, <<x>> \o Tail(down))
<1> DEFINE q == <<x>> \o Tail(down)
<1>1. /\ DOMAIN q = DOMAIN down /\ q[1] = x /\ down[1] = Head(down)
      /\ \A i \in DOMAIN down : i # 1 => q[i] = down[i]
  BY ConsAt, TailAt
<1> HIDE DEF q
<1>2. /\ \A i \in DOMAIN down : IsAnswer(q[i]) <=> IsAnswer(down[i])
      /\ \A i \in DOMAIN down : q[i].t = "ack" => down[i].t = "ack"
  BY <1>1
<1>3. {i \in DOMAIN q : IsAnswer(q[i])} = {i \in DOMAIN down : IsAnswer(down[i])}
  BY <1>1, <1>2
<1>4. InOrder(ph, a, up, q)
  BY <1>1, <1>2, <1>3 DEF InOrder
<1> QED BY <1>4 DEF q

\* The answer that the session was filling its document from, or one asked for
\* later: nothing else is out.
LEMMA OrderDone ==
  ASSUME NEW ph, NEW a, NEW up, NEW S, NEW down \in Seq(S), down # <<>>,
         InOrder(ph, a, up, down), IsAnswer(Head(down))
  PROVE  InOrder("up", FALSE, up, Tail(down))
<1>1. ASSUME NEW i \in DOMAIN Tail(down), IsAnswer(Tail(down)[i])
      PROVE  FALSE
  <2>1. i + 1 \in DOMAIN down /\ IsAnswer(down[i + 1]) /\ 1 \in DOMAIN down /\ IsAnswer(down[1])
        /\ i + 1 # 1
    BY <1>1, TailAt
  <2> QED BY <2>1 DEF InOrder
<1>2. {i \in DOMAIN up : IsRequest(up[i])} = {}
  <2>1. 1 \in DOMAIN down /\ IsAnswer(down[1])
    BY TailAt
  <2> QED BY <2>1 DEF InOrder
<1> QED BY <1>1, <1>2 DEF InOrder

\* A session that still fills reads no ack.
LEMMA OrderAck ==
  ASSUME NEW ph, NEW a, NEW up, NEW S, NEW down \in Seq(S), down # <<>>,
         InOrder(ph, a, up, down), Head(down).t = "ack"
  PROVE  ph = "up"
<1>1. 1 \in DOMAIN down /\ down[1].t = "ack" /\ \A j \in DOMAIN down : j \in Int /\ j >= 1
  BY TailAt
<1> QED BY <1>1 DEF InOrder

\* The head of the queue is read, and it is not the answer.
LEMMA FitsTail ==
  ASSUME NEW r, NEW D, NEW d, NEW o, NEW f, NEW k, NEW w, NEW c, NEW s, NEW up, NEW S,
         NEW down \in Seq(S), NEW h, Fits(r, D, d, o, f, k, w, c, s, up, down, h),
         down # <<>>, ~IsAnswer(Head(down))
  PROVE  Fits(r, D, d, o, f, k, w, c, s, up, Tail(down), h)
<1>1. \A i \in DOMAIN Tail(down) : i + 1 \in DOMAIN down /\ Tail(down)[i] = down[i + 1]
  BY TailAt
<1>2. \A i \in DOMAIN Tail(down) : DownOK(r, D, d, c.held, o, Tail(down)[i])
  BY <1>1 DEF Fits
<1>3. InOrder(s.ph, c.asking, up, Tail(down))
  BY OrderTail DEF Fits
<1>4. TicketsOK(r, D, c.held, w, c.done, s, Tail(down), h)
  BY <1>1 DEF Fits, TicketsOK
<1> QED BY <1>2, <1>3, <1>4 DEF Fits

\* A row of it is read, which the document has by now.
LEMMA FitsLeft ==
  ASSUME NEW r, NEW D, NEW d, NEW o, NEW f, NEW k, NEW w, NEW c, NEW s, NEW up, NEW S,
         NEW down \in Seq(S), NEW h, Fits(r, D, d, o, f, k, w, c, s, up, down, h),
         down # <<>>, Head(down).t = "rows", NEW x \in DOMAIN Head(down).rows,
         Head(down).rows[x] \in c.held,
         NEW m, m.t = "rows", m.done = Head(down).done, m.head = Head(down).head,
         m.rows = [t \in DOMAIN Head(down).rows \ {x} |-> Head(down).rows[t]],
         m.done \/ DOMAIN m.rows # {}
  PROVE  Fits(r, D, d, o, f, k, w, c, s, up, <<m>> \o Tail(down), h)
<1> DEFINE q == <<m>> \o Tail(down)
           m0 == Head(down)
<1>1. /\ DOMAIN q = DOMAIN down /\ q[1] = m /\ down[1] = m0 /\ 1 \in DOMAIN down
      /\ \A i \in DOMAIN down : i # 1 => q[i] = down[i]
  BY ConsAt, TailAt
<1>2. /\ DOMAIN m.rows = DOMAIN m0.rows \ {x} /\ m0.rows[x] \in c.held
      /\ \A t \in DOMAIN m.rows : m.rows[t] = m0.rows[t]
      /\ m.t = "rows" /\ m0.t = "rows" /\ m.head = m0.head /\ (IsAnswer(m) <=> IsAnswer(m0))
  BY DEF IsAnswer
<1>3. InOrder(s.ph, c.asking, up, q)
  BY <1>2, OrderHead DEF Fits
<1> HIDE DEF q, m0
<1>4. DownOK(r, D, d, c.held, o, m0)
  BY <1>1 DEF Fits
<1>5. RowIs(r, x, m0.rows[x])
  BY <1>2, <1>4 DEF DownOK, m0
<1>6. ASSUME IsAnswer(m)
      PROVE  Answers(r, D, d, c.held, o, m)
  <2>1. Answers(r, D, d, c.held, o, m0)
    BY <1>2, <1>4, <1>6 DEF DownOK
  <2>2. ASSUME NEW t \in 1 .. HeadSeq(r), t <= m.head \/ r.log[t].device = d
        PROVE  r.log[t].batch \in c.held \/ t \in DOMAIN m.rows
    <3>1. r.log[t].batch \in c.held \/ t \in DOMAIN m0.rows
      BY <1>2, <2>1, <2>2 DEF Answers
    <3> QED BY <1>2, <1>5, <3>1 DEF RowIs
  <2>3. ASSUME NEW t \in DOMAIN m0.rows
        PROVE  m0.rows[t] \in c.held \union {m.rows[y] : y \in DOMAIN m.rows}
    <3>1. t = x \/ (t \in DOMAIN m.rows /\ m.rows[t] = m0.rows[t])
      BY <1>2
    <3> QED BY <1>2, <3>1
  <2>4. ASSUME NEW b \in o
        PROVE  D[b] \subseteq c.held \union {m.rows[y] : y \in DOMAIN m.rows}
    <3>1. ASSUME NEW z \in D[b], z \notin c.held
          PROVE  \E y \in DOMAIN m0.rows : z = m0.rows[y]
      BY <2>1, <3>1 DEF Answers
    <3>2. ASSUME NEW z \in D[b], z \notin c.held
          PROVE  z \in {m.rows[y] : y \in DOMAIN m.rows}
      <4>1. PICK y \in DOMAIN m0.rows : z = m0.rows[y]
        BY <3>1, <3>2
      <4> QED BY <2>3, <3>2, <4>1
    <3> QED BY <3>2
  <2>5. m.head <= HeadSeq(r)
    BY <1>2, <2>1 DEF Answers
  <2> QED BY <2>2, <2>4, <2>5 DEF Answers
<1>7. DownOK(r, D, d, c.held, o, m)
  BY <1>2, <1>4, <1>6 DEF DownOK
<1>8. \A i \in DOMAIN q : DownOK(r, D, d, c.held, o, q[i])
  BY <1>1, <1>7 DEF Fits
<1>9. TicketsOK(r, D, c.held, w, c.done, s, q, h)
  <2>1. TicketsOK(r, D, c.held, w, c.done, s, down, h)
    BY DEF Fits
  <2>2. \A i \in DOMAIN q : IsAnswer(q[i]) => IsAnswer(down[i]) /\ q[i].head = down[i].head
    BY <1>1, <1>2
  <2> QED BY <1>1, <2>1, <2>2 DEF TicketsOK
<1> QED BY <1>3, <1>8, <1>9 DEF Fits, q

\* A cursor walks to a row that is shown.
LEMMA Walk ==
  ASSUME NEW r, NEW D, NEW H, NEW n \in Int, Shows(r, D, H, n),
         NEW x, NEW b, RowIs(r, x, b), b \in Visible(H, D), x <= n + 1
  PROVE  Shows(r, D, H, Larger(n, x))
<1>1. x \in Int /\ r.log[x].batch = b
  BY DEF RowIs
<1>2. CASE n < x
  <2>1. Larger(n, x) = x /\ x = n + 1 /\ x <= HeadSeq(r)
    BY <1>1, <1>2 DEF Larger, RowIs
  <2>2. \A y \in 1 .. x : y \in 1 .. n \/ y = x
    BY <2>1
  <2> QED BY <1>1, <2>1, <2>2 DEF Shows, RowsTo
<1>3. CASE ~(n < x)
  BY <1>3 DEF Larger
<1> QED BY <1>2, <1>3

\* The client's cursors walk.
LEMMA FitsWalk ==
  ASSUME NEW r, NEW D, NEW d, NEW o, NEW f, NEW k, NEW w, NEW c, NEW s, NEW up, NEW down, NEW h,
         Fits(r, D, d, o, f, k, w, c, s, up, down, h),
         NEW c2, c2.held = c.held, c2.resumed = c.resumed, c2.done = c.done,
         c.asking => c2.asking,
         Shows(r, D, c.held, c2.cursor), Shows(r, D, c.held, c2.pcursor)
  PROVE  Fits(r, D, d, o, f, k, w, c2, s, up, down, h)
<1>1. InOrder(s.ph, c2.asking, up, down)
  BY OrderAsking DEF Fits
<1>2. CursorsOK(r, D, c2.held, c2.cursor, c2.pcursor, f, k)
  BY DEF Fits, CursorsOK
<1> QED BY <1>1, <1>2 DEF Fits

\* A row, an ack: the batch b at x is in the document, and if it is shown the
\* cursors walk.
LEMMA FitsStep ==
  ASSUME NEW r, NEW D, NEW d, NEW o, NEW f, NEW k, NEW w, NEW c, NEW s, NEW up, NEW down, NEW h,
         Fits(r, D, d, o, f, k, w, c, s, up, down, h), c.cursor \in Int,
         NEW x, NEW b, RowIs(r, x, b),
         NEW cur, cur = c.cursor \/ /\ b \in Visible(c.held, D) /\ x <= c.cursor + 1
                                    /\ cur = Larger(c.cursor, x),
         NEW c2, c2.held = c.held, c2.resumed = c.resumed, c2.done = c.done,
         c.asking => c2.asking, c2.cursor = cur,
         c2.pcursor = c.pcursor \/ c2.pcursor = Larger(c.pcursor, cur)
  PROVE  Fits(r, D, d, o, f, k, w, c2, s, up, down, h)
<1>1. Shows(r, D, c.held, c.cursor) /\ Shows(r, D, c.held, c.pcursor)
  BY DEF Fits, CursorsOK
<1>2. Shows(r, D, c.held, cur)
  BY <1>1, Walk
<1>3. Shows(r, D, c.held, c2.pcursor)
  BY <1>1, <1>2 DEF Larger
<1> QED BY <1>2, <1>3, FitsWalk

LEMMA RowsToGrow ==
  ASSUME NEW r, NEW a \in Int, NEW b \in Int, a <= b
  PROVE  RowsTo(r, a) \subseteq RowsTo(r, b)
<1>1. \A x \in 1 .. a : x \in 1 .. b
  OBVIOUS
<1> QED BY <1>1 DEF RowsTo

\* The answer is all read: the document has what the answer vouches for, and
\* shows what is pending; x is the ticket it was for.
LEMMA FitsAnswered ==
  ASSUME NEW r, NEW D, NEW d, NEW o, NEW n, NEW f, NEW k, NEW w, NEW c, NEW s, NEW up, NEW down,
         NEW h, Formed(n, f, k, c, s, up, down, h), o \subseteq c.held,
         Fits(r, D, d, o, f, k, w, c, s, up, down, h),
         down # <<>>, Head(down).t = "rows", DOMAIN Head(down).rows = {},
         NEW x \in {s.ticket, s.refresh},
         NEW c2, c2.held = c.held, c2.cursor = c.cursor, c2.pcursor = c.pcursor,
         c.resumed => c2.resumed,
         \/ c2.done = c.done
         \/ c.cursor >= Head(down).head /\ c2.done = Larger(c.done, x),
         NEW s2, s2.ph = "up"
  PROVE  Fits(r, D, d, o, f, k, w, c2, s2, up, Tail(down), h)
<1> DEFINE m == Head(down)
           H == c.held
<1>1. /\ down \in Seq(Down(Nat, Nat)) /\ 1 \in DOMAIN down /\ down[1] = m
      /\ \A i \in DOMAIN Tail(down) : i + 1 \in DOMAIN down /\ Tail(down)[i] = down[i + 1]
  <2>1. down \in Seq(Down(Nat, Nat))
    BY DEF Formed
  <2> QED BY <2>1, TailAt
<1>2. DownOK(r, D, d, H, o, m)
  BY <1>1 DEF Fits
<1>3. IsAnswer(m) /\ Answers(r, D, d, H, o, m)
  BY <1>2 DEF DownOK, IsAnswer
<1>4. InOrder("up", FALSE, up, Tail(down))
  BY <1>1, <1>3, OrderDone DEF Fits
<1>5. InOrder("up", c2.asking, up, Tail(down))
  BY <1>4, OrderAsking
<1>6. \A i \in DOMAIN Tail(down) : ~IsAnswer(Tail(down)[i])
  BY <1>4 DEF InOrder
<1>7. \A i \in DOMAIN Tail(down) : DownOK(r, D, d, H, o, Tail(down)[i])
  BY <1>1 DEF Fits
<1>8. \A i \in DOMAIN up : UpOK(r, D, H, o, c2.resumed, up[i])
  BY DEF Fits, UpOK
<1>9. OwnRows(r, d, H, c2.resumed)
  BY <1>3 DEF Answers, OwnRows
<1>10. PendingOK(r, D, H, o, TRUE)
  <2>1. \A b \in o : D[b] \subseteq H
    BY <1>3 DEF Answers
  <2>2. o \subseteq Visible(H, D)
    BY <2>1 DEF Visible
  <2> QED BY <2>2 DEF Fits, PendingOK
<1>11. \A i \in 1 .. c2.done : w[i] \subseteq Visible(H, D)
  <2>1. TicketsOK(r, D, H, w, c.done, s, down, h)
    BY DEF Fits
  <2>2. CASE c2.done = c.done
    BY <2>1, <2>2 DEF TicketsOK
  <2>3. CASE c.cursor >= m.head /\ c2.done = Larger(c.done, x)
    <3>1. /\ c.cursor \in Int /\ m.head \in Int /\ c.done \in Nat /\ x \in Nat
      BY <1>1, FormedFields
    <3>2. RowsTo(r, m.head) \subseteq RowsTo(r, c.cursor)
      BY <2>3, <3>1, RowsToGrow
    <3>3. RowsTo(r, c.cursor) \subseteq Visible(H, D)
      BY DEF Fits, CursorsOK, Shows
    <3>4. \A i \in 1 .. x : w[i] \subseteq RowsTo(r, m.head)
      BY <1>1, <1>3, <2>1 DEF TicketsOK
    <3>5. \A i \in 1 .. c2.done : i \in 1 .. c.done \/ i \in 1 .. x
      BY <2>3, <3>1 DEF Larger
    <3> QED BY <2>1, <3>2, <3>3, <3>4, <3>5 DEF TicketsOK
  <2> QED BY <2>2, <2>3
<1>12. TicketsOK(r, D, H, w, c2.done, s2, Tail(down), h)
  BY <1>6, <1>11 DEF Fits, TicketsOK
<1>13. CursorsOK(r, D, H, c2.cursor, c2.pcursor, f, k) /\ HttpOK(r, D, H, h)
  BY DEF Fits
<1>14. PendingOK(r, D, H, o, s2.ph = "up" \/ d \in Transport)
  BY <1>10 DEF PendingOK
<1> QED BY <1>5, <1>7, <1>8, <1>9, <1>12, <1>13, <1>14 DEF Fits

\* A push goes out.
LEMMA FitsPush ==
  ASSUME NEW r, NEW D, NEW d, NEW o, NEW f, NEW k, NEW w, NEW c, NEW s, NEW S,
         NEW up \in Seq(S), NEW down, NEW h,
         Fits(r, D, d, o, f, k, w, c, s, up, down, h),
         NEW m, m.t = "push", m.batches \subseteq o,
         s.ph = "up" \/ \E j \in DOMAIN up : IsRequest(up[j])
  PROVE  Fits(r, D, d, o, f, k, w, c, s, Append(up, m), down, h)
<1>1. UpOK(r, D, c.held, o, c.resumed, m) /\ ~IsRequest(m)
  BY DEF UpOK, IsRequest
<1>2. /\ \A i \in DOMAIN Append(up, m) :
              \/ i \in DOMAIN up /\ Append(up, m)[i] = up[i]
              \/ i \notin DOMAIN up /\ i = Len(up) + 1 /\ Append(up, m)[i] = m
      /\ \A i \in DOMAIN up : /\ i \in DOMAIN Append(up, m) /\ Append(up, m)[i] = up[i]
                              /\ i \in Int /\ i < Len(up) + 1
  BY AppendAt
<1>3. \A i \in DOMAIN Append(up, m) : UpOK(r, D, c.held, o, c.resumed, Append(up, m)[i])
  BY <1>1, <1>2 DEF Fits
<1>4. {i \in DOMAIN Append(up, m) : IsRequest(Append(up, m)[i])}
        = {i \in DOMAIN up : IsRequest(up[i])}
  BY <1>1, <1>2
<1>5. InOrder(s.ph, c.asking, Append(up, m), down)
  <2>1. InOrder(s.ph, c.asking, up, down)
    BY DEF Fits
  <2>2. ASSUME s.ph # "up", NEW i \in DOMAIN Append(up, m), Append(up, m)[i].t = "push"
        PROVE  \/ {j \in DOMAIN down : IsAnswer(down[j])} # {}
               \/ \E j \in {j \in DOMAIN up : IsRequest(up[j])} : j < i
    <3>1. CASE i \in DOMAIN up
      BY <1>2, <2>1, <2>2, <3>1 DEF InOrder
    <3>2. CASE i \notin DOMAIN up
      BY <1>2, <2>2, <3>2
    <3> QED BY <3>1, <3>2
  <2> QED BY <1>4, <2>1, <2>2 DEF InOrder
<1> QED BY <1>3, <1>5 DEF Fits

\* What of a session is not spoken of.
LEMMA FitsSession ==
  ASSUME NEW r, NEW D, NEW d, NEW o, NEW f, NEW k, NEW w, NEW c, NEW s, NEW up, NEW down, NEW h,
         Fits(r, D, d, o, f, k, w, c, s, up, down, h),
         NEW s2, s2.ph = s.ph, s2.ticket = s.ticket, s2.refresh = s.refresh
  PROVE  Fits(r, D, d, o, f, k, w, c, s2, up, down, h)
  BY DEF Fits, TicketsOK

\* The plan, once the room has answered the hello: with no checkpoint it is to
\* read on from the cursor, or from the start if the room's head is below it.
LEMMA FitsPlan ==
  ASSUME NEW r, NEW D, NEW d, NEW o, NEW n, NEW f, NEW k, NEW w, NEW c, NEW s, NEW up, NEW down,
         NEW h, Formed(n, f, k, c, s, up, down, h), HeadSeq(r) \in Nat,
         Fits(r, D, d, o, f, k, w, c, s, up, down, h),
         s.ph = "hello", down # <<>>, Head(down).t = "state",
         NEW c2, c2.held = c.held, c2.resumed = c.resumed, c2.done = c.done,
         c2.cursor \in {c.cursor, 0}, c2.pcursor \in {c.pcursor, 0},
         NEW own, own => c.resumed, NEW s2, s2.ph = "filling"
  PROVE  Fits(r, D, d, o, f, k, w, c2, s2, Append(up, RowsReq(c2.cursor, own)), Tail(down), h)
<1> DEFINE m == RowsReq(c2.cursor, own)
           H == c.held
<1>1. up \in Seq(Up(Nat)) /\ down \in Seq(Down(Nat, Nat)) /\ ~IsAnswer(Head(down))
  BY DEF Formed, IsAnswer
<1>2. Fits(r, D, d, o, f, k, w, c, s, up, Tail(down), h)
  BY <1>1, FitsTail
<1>3. Shows(r, D, H, 0)
  BY DEF Shows, RowsTo
<1>4. Shows(r, D, H, c2.cursor) /\ Shows(r, D, H, c2.pcursor)
  BY <1>3 DEF Fits, CursorsOK
<1>5. UpOK(r, D, H, o, c2.resumed, m) /\ IsRequest(m) /\ m.t # "push"
  BY <1>4 DEF UpOK, RowsReq, IsRequest
<1> HIDE DEF m
<1>6. /\ \A i \in DOMAIN Append(up, m) :
              \/ i \in DOMAIN up /\ Append(up, m)[i] = up[i]
              \/ i \notin DOMAIN up /\ i = Len(up) + 1 /\ Append(up, m)[i] = m
  BY <1>1, AppendAt
<1>7. /\ \A i \in DOMAIN up : ~IsRequest(up[i]) /\ up[i].t # "push"
      /\ \A i \in DOMAIN Tail(down) : ~IsAnswer(Tail(down)[i]) /\ Tail(down)[i].t # "ack"
  <2>1. InOrder("hello", c.asking, up, Tail(down))
    BY <1>2 DEF Fits
  <2> QED BY <2>1 DEF InOrder
<1>8. InOrder("filling", c2.asking, Append(up, m), Tail(down))
  BY <1>5, <1>6, <1>7 DEF InOrder
<1>9. \A i \in DOMAIN Append(up, m) : UpOK(r, D, H, o, c2.resumed, Append(up, m)[i])
  BY <1>5, <1>6 DEF Fits
<1>10. TicketsOK(r, D, H, w, c2.done, s2, Tail(down), h)
  BY <1>2, <1>7 DEF Fits, TicketsOK
<1>11. CursorsOK(r, D, H, c2.cursor, c2.pcursor, f, k)
  BY <1>4 DEF Fits, CursorsOK
<1>12. PendingOK(r, D, H, o, s2.ph = "up" \/ d \in Transport)
  BY DEF Fits, PendingOK
<1> QED BY <1>2, <1>8, <1>9, <1>10, <1>11, <1>12 DEF Fits, m

\* A session begins.
LEMMA FitsHello ==
  ASSUME NEW r, NEW D, NEW d, NEW o, NEW f, NEW k, NEW w, NEW c, NEW s, NEW h,
         Fits(r, D, d, o, f, k, w, c, s, <<>>, <<>>, h), s.ph = "down",
         NEW c2, c2.held = c.held, c2.cursor = c.cursor, c2.pcursor = c.pcursor,
         c2.resumed = c.resumed, c2.done = c.done, NEW s2, s2.ph = "hello"
  PROVE  Fits(r, D, d, o, f, k, w, c2, s2, Append(<<>>, [t |-> "hello"]), <<>>, h)
<1> DEFINE up == Append(<<>>, [t |-> "hello"])
<1>1. \A i \in DOMAIN up : up[i].t = "hello"
  BY DEF up
<1> HIDE DEF up
<1>2. InOrder("hello", c2.asking, up, <<>>)
  BY <1>1 DEF InOrder, IsRequest
<1>3. \A i \in DOMAIN up : UpOK(r, D, c2.held, o, c2.resumed, up[i])
  BY <1>1 DEF UpOK
<1>4. TicketsOK(r, D, c2.held, w, c2.done, s2, <<>>, h)
  BY DEF Fits, TicketsOK
<1>5. PendingOK(r, D, c2.held, o, s2.ph = "up" \/ d \in Transport)
  BY DEF Fits, PendingOK
<1>6. \A i \in DOMAIN <<>> : FALSE
  OBVIOUS
<1> QED BY <1>2, <1>3, <1>4, <1>5, <1>6 DEF Fits, up

-----------------------------------------------------------------------------
(* The steps of a device *)

\* A step from a state where CatchUpInv holds and there is no checkpoint yet.
Going ==
  /\ Provenance /\ Next /\ "reset" \notin Faults /\ Plain /\ ~room'.has
  /\ TicketRows /\ Cycling /\ \A d \in Devices : DeviceOK(d)

LaterAt(d) == Later(d, room, deps, cl[d].held, room', deps', cl'[d].held)
KeptAt(d) == Kept(room', deps', cl'[d].held, outbox[d], outbox'[d])

\* d as it was, but with client c, session s and sockets up and down, in what
\* the step makes of the rest.
Now(d, c, s, up, down, h) ==
  Fits(room', deps', d, outbox'[d], flush[d], disk[d], wanted[d], c, s, up, down, h)

LEMMA KeptSame ==
  ASSUME NEW d, outbox'[d] = outbox[d]
  PROVE  KeptAt(d)
  BY DEF KeptAt, Kept

LEMMA StepFits ==
  ASSUME Going, NEW d \in Devices, LaterAt(d), KeptAt(d),
         NEW c, c.held = cl'[d].held, Grown(cl[d], c)
  PROVE  Now(d, c, ses[d], c2s[d], s2c[d], http[d])
<1>1. Base /\ FormedAt(d)
  BY BaseFormed DEF Going, Provenance
<1>2. outbox[d] \subseteq cl[d].held
  BY <1>1 DEF Base
<1>3. Fits(room, deps, d, outbox[d], flush[d], disk[d], wanted[d],
           cl[d], ses[d], c2s[d], s2c[d], http[d])
  BY DEF Going, DeviceOK
<1> QED BY <1>1, <1>2, <1>3, FitsLater DEF FormedAt, LaterAt, KeptAt, Now

\* Each variable is a function on the devices.
LEMMA Domains ==
  ASSUME Base
  PROVE  /\ cl = [e \in Devices |-> cl[e]] /\ ses = [e \in Devices |-> ses[e]]
         /\ c2s = [e \in Devices |-> c2s[e]] /\ s2c = [e \in Devices |-> s2c[e]]
         /\ http = [e \in Devices |-> http[e]] /\ flush = [e \in Devices |-> flush[e]]
         /\ disk = [e \in Devices |-> disk[e]] /\ outbox = [e \in Devices |-> outbox[e]]
         /\ wanted = [e \in Devices |-> wanted[e]]
<1>1. outbox = [e \in Devices |-> outbox[e]] /\ wanted = [e \in Devices |-> wanted[e]]
  BY DEF Base
<1> QED BY <1>1
        DEF Base, Within, Clients, Disks, Flushes, Sessions, Ups, Downs, Https, Typed

LEMMA EndFits ==
  ASSUME Going, NEW d \in Devices, NEW c, NEW n, NEW k \in ClientIn(Nat, n), Alike(c, k),
         EndSession(d, k), NEW s, NEW up, NEW down,
         Now(d, c, s, up, down, http[d]), UNCHANGED <<files, wanted>>
  PROVE  DeviceOK(d)'
<1>1. Base /\ FormedAt(d)
  BY BaseFormed DEF Going, Provenance
<1> DEFINE same == k.hEpoch /\ ses[d].ph = "hello"
           c2 == [k EXCEPT !.hEpoch = same, !.sSame = FALSE]
<1>2. Alike(c, c2)
  BY DEF Alike, ClientIn
<1>3. cl'[d] = c2
  BY <1>1, Domains DEF EndSession, SetClient
<1> HIDE DEF c2
<1>4. ses'[d] = NoSession /\ c2s'[d] = <<>> /\ s2c'[d] = <<>> /\ http'[d] = Spawned(d, http[d])
  BY <1>1, Domains DEF EndSession
<1>5. flush'[d] = flush[d] /\ disk'[d] = disk[d] /\ wanted'[d] = wanted[d]
  BY DEF files
<1>6. http[d] \in HttpIn(Nat, Nat, Len(wanted[d]))
  BY <1>1 DEF FormedAt, Formed
<1>7. Now(d, c2, NoSession, <<>>, <<>>, Spawned(d, http[d]))
  BY <1>2, <1>6, FitsEnd DEF Now
<1> QED BY <1>3, <1>4, <1>5, <1>7 DEF DeviceOK, Now

LEMMA RepairFits ==
  ASSUME Going, NEW d \in Devices, NEW n, NEW left \in ClientIn(Nat, n),
         NEW s \in SessionIn(Nat, n), s.ph = "up", NEW rest,
         RepairGap(d, left, s, rest), UNCHANGED <<files, wanted>>,
         Now(d, left, s, c2s[d], rest, http[d])
  PROVE  DeviceOK(d)'
<1>1. Base /\ FormedAt(d)
  BY BaseFormed DEF Going, Provenance
<1> DEFINE repair == ~left.needs /\ ~left.asking /\ left.gap
           gap == left.gap /\ ~repair
           asking == left.asking \/ repair
           asked == [left EXCEPT !.gap = gap, !.asking = asking]
           n1 == s.repairs + (IF repair THEN 1 ELSE 0)
           s1 == [s EXCEPT !.repairs = n1]
<1>2. Alike(left, asked) /\ (repair => left.asking = FALSE /\ asked.asking = TRUE)
  <2>1. Alike(left, asked)
    BY DEF Alike, ClientIn
  <2>2. asked.asking = asking /\ left.asking \in BOOLEAN
    BY DEF ClientIn
  <2> QED BY <2>1, <2>2
<1>3. asked \in ClientIn(Nat, n)
  <2>1. gap \in BOOLEAN /\ asking \in BOOLEAN
    BY DEF ClientIn
  <2> HIDE DEF gap, asking
  <2> QED BY <2>1 DEF ClientIn
<1>4. s1.ph = "up" /\ s1.ticket = s.ticket /\ s1.refresh = s.refresh
  BY DEF SessionIn
<1>5. CASE left.needs \/ (repair /\ s.repairs = MaxRepairs)
  <2>1. EndSession(d, asked)
    BY <1>5 DEF RepairGap
  <2> HIDE DEF asked
  <2> QED BY <1>2, <1>3, <2>1, EndFits
<1>6. CASE ~(left.needs \/ (repair /\ s.repairs = MaxRepairs))
  <2>1. /\ SetClient(d, asked)
        /\ ses' = [ses EXCEPT ![d] = s1]
        /\ s2c' = [s2c EXCEPT ![d] = rest]
        /\ IF repair THEN Send(d, RowsReq(left.cursor, FALSE)) ELSE UNCHANGED c2s
        /\ UNCHANGED http
    BY <1>6 DEF RepairGap
  <2> HIDE DEF asked, s1, repair
  <2>2. cl'[d] = asked /\ ses'[d] = s1 /\ s2c'[d] = rest /\ http'[d] = http[d]
    BY <1>1, <2>1, Domains DEF SetClient
  <2>3. flush'[d] = flush[d] /\ disk'[d] = disk[d] /\ wanted'[d] = wanted[d]
    BY DEF files
  <2>4. CASE repair
    <3>1. c2s'[d] = Append(c2s[d], RowsReq(left.cursor, FALSE))
      BY <1>1, <2>1, <2>4, Domains DEF Send
    <3>2. c2s[d] \in Seq(Up(Nat))
      BY <1>1 DEF FormedAt, Formed
    <3>3. Now(d, asked, s1, Append(c2s[d], RowsReq(left.cursor, FALSE)), rest, http[d])
      BY <1>2, <1>4, <2>4, <3>2, FitsAsk DEF Now
    <3> QED BY <2>2, <2>3, <3>1, <3>3 DEF DeviceOK, Now
  <2>5. CASE ~repair
    <3>1. c2s'[d] = c2s[d]
      BY <2>1, <2>5
    <3>2. Now(d, asked, s, c2s[d], rest, http[d])
      BY <1>2, FitsAlike DEF Now
    <3>3. Now(d, asked, s1, c2s[d], rest, http[d])
      BY <1>4, <3>2, FitsSession DEF Now
    <3> QED BY <2>2, <2>3, <3>1, <3>3 DEF DeviceOK, Now
  <2> QED BY <2>4, <2>5
<1> QED BY <1>5, <1>6

LEMMA HandledFits ==
  ASSUME Going, NEW d \in Devices, NEW c \in ClientIn(Nat, Len(wanted[d])), NEW rest,
         Handled(d, c, rest), UNCHANGED <<files, wanted>>,
         Now(d, c, ses[d], c2s[d], rest, http[d])
  PROVE  DeviceOK(d)'
<1>1. Base /\ FormedAt(d)
  BY BaseFormed DEF Going, Provenance
<1>2. CASE ses[d].ph = "up"
  <2>1. RepairGap(d, c, ses[d], rest) /\ ses[d] \in SessionIn(Nat, Len(wanted[d]))
    BY <1>1, <1>2 DEF Handled, FormedAt, Formed
  <2> QED BY <1>2, <2>1, RepairFits
<1>3. CASE ses[d].ph # "up"
  <2>1. /\ cl'[d] = c /\ s2c'[d] = rest /\ ses'[d] = ses[d] /\ c2s'[d] = c2s[d]
        /\ http'[d] = http[d]
        /\ flush'[d] = flush[d] /\ disk'[d] = disk[d] /\ wanted'[d] = wanted[d]
    BY <1>1, <1>3, Domains DEF Handled, SetClient, files
  <2> QED BY <2>1 DEF DeviceOK, Now
<1> QED BY <1>2, <1>3

\* What a row and an ack do to a client.
LEMMA RowApplied ==
  ASSUME NEW n \in Nat, NEW c \in ClientIn(Nat, n), NEW x \in Nat, NEW b \in Nat, NEW D,
         NEW a, a = ApplyRow(c, x, b, D)
  PROVE  /\ a \in ClientIn(Nat, n) /\ a.held = c.held \union {b}
         /\ a.resumed = c.resumed /\ a.done = c.done /\ a.asking = c.asking
         /\ \/ a.cursor = c.cursor
            \/ D[b] \subseteq c.held /\ x <= c.cursor + 1 /\ a.cursor = Larger(c.cursor, x)
         /\ a.pcursor = c.pcursor \/ a.pcursor = Larger(c.pcursor, a.cursor)
<1>1. a \in ClientIn(Nat, n) /\ a.held = c.held \union {b}
  BY ApplyRowTyped
<1> DEFINE walk == x <= c.cursor + 1
           cur == IF walk THEN Larger(c.cursor, x) ELSE c.cursor
           pcur == Larger(c.pcursor, cur)
           gap == c.gap \/ ~walk
           row == c.hRow /\ walk
           held == c.held \union {b}
<1>2. a = IF D[b] \subseteq c.held
            THEN [[c EXCEPT !.held = held, !.gap = gap, !.hRow = row]
                   EXCEPT !.cursor = cur, !.pcursor = pcur]
            ELSE [[c EXCEPT !.held = held, !.gap = gap, !.hRow = row]
                   EXCEPT !.needs = TRUE, !.sSame = FALSE, !.hSame = FALSE]
  BY DEF ApplyRow
<1> HIDE DEF cur, pcur, gap, row, held
<1>3. /\ a.resumed = c.resumed /\ a.done = c.done /\ a.asking = c.asking
      /\ \/ a.cursor = c.cursor /\ a.pcursor = c.pcursor
         \/ D[b] \subseteq c.held /\ a.cursor = cur /\ a.pcursor = pcur
  BY <1>2 DEF ClientIn
<1> QED BY <1>1, <1>3 DEF cur, pcur

LEMMA AckWalks ==
  ASSUME NEW n \in Nat, NEW c \in ClientIn(Nat, n), NEW x \in Nat, NEW left \in BOOLEAN,
         NEW a, a = ApplyAck(c, x, left) \/ a = ApplyHttpAck(c, x)
  PROVE  /\ a \in ClientIn(Nat, n) /\ a.held = c.held
         /\ a.resumed = c.resumed /\ a.done = c.done /\ a.asking = c.asking
         /\ \/ a.cursor = c.cursor
            \/ x <= c.cursor + 1 /\ a.cursor = Larger(c.cursor, x)
         /\ a.pcursor = Larger(c.pcursor, a.cursor)
<1>1. a \in ClientIn(Nat, n) /\ a.held = c.held
  BY AckApplied, HttpAckApplied
<1> DEFINE walk == x <= c.cursor + 1
           cur == IF walk THEN Larger(c.cursor, x) ELSE c.cursor
           pcur == Larger(c.pcursor, cur)
           gap == c.gap \/ ~walk
           row == c.hRow /\ walk
           blocked == c.blocked /\ left
           retry == c.retry \/ (c.blocked /\ left)
<1>2. \/ a = [c EXCEPT !.cursor = cur, !.pcursor = pcur, !.gap = gap,
                       !.hRow = row, !.blocked = blocked, !.retry = retry]
      \/ a = [c EXCEPT !.cursor = cur, !.pcursor = pcur]
  BY DEF ApplyAck, ApplyHttpAck
<1> HIDE DEF cur, pcur, gap, row, blocked, retry
<1>3. /\ a.resumed = c.resumed /\ a.done = c.done /\ a.asking = c.asking
      /\ a.cursor = cur /\ a.pcursor = pcur
  BY <1>2 DEF ClientIn
<1> QED BY <1>1, <1>3 DEF cur, pcur

\* The document of a client that a frame left.
LEMMA RepairHeld ==
  ASSUME Base, NEW d \in Devices, NEW n, NEW c \in ClientIn(Nat, n), NEW s, NEW rest,
         RepairGap(d, c, s, rest)
  PROVE  cl'[d].held = c.held
<1> DEFINE repair == ~c.needs /\ ~c.asking /\ c.gap
           gap == c.gap /\ ~repair
           asking == c.asking \/ repair
           asked == [c EXCEPT !.gap = gap, !.asking = asking]
           same == asked.hEpoch /\ ses[d].ph = "hello"
<1>1. \/ cl' = [cl EXCEPT ![d] = [asked EXCEPT !.hEpoch = same, !.sSame = FALSE]]
      \/ cl' = [cl EXCEPT ![d] = asked]
  <2>1. EndSession(d, asked) \/ SetClient(d, asked)
    BY DEF RepairGap
  <2> HIDE DEF asked
  <2> QED BY <2>1 DEF EndSession, SetClient
<1> HIDE DEF same, gap, asking
<1>2. asked.held = c.held /\ [asked EXCEPT !.hEpoch = same, !.sSame = FALSE].held = c.held
  BY DEF ClientIn
<1> HIDE DEF asked
<1> QED BY <1>1, <1>2, Domains

LEMMA HandledHeld ==
  ASSUME Base, NEW d \in Devices, NEW n, NEW c \in ClientIn(Nat, n), NEW rest,
         Handled(d, c, rest)
  PROVE  cl'[d].held = c.held
<1>1. CASE ses[d].ph = "up"
  BY <1>1, RepairHeld DEF Handled
<1>2. CASE ses[d].ph # "up"
  BY <1>2, Domains DEF Handled, SetClient
<1> QED BY <1>1, <1>2

\* What is at the head of the queue of a device that reads it.
LEMMA FrameAt ==
  ASSUME Going, NEW d \in Devices, NEW t, Frame(d, t)
  PROVE  /\ s2c[d] \in Seq(Down(Nat, Nat)) /\ s2c[d] # <<>>
         /\ 1 \in DOMAIN s2c[d] /\ s2c[d][1] = Head(s2c[d])
         /\ Head(s2c[d]) \in Down(Nat, Nat) /\ Head(s2c[d]).t = t
         /\ t = "rows" => /\ Head(s2c[d]).rows \in RowMap(Nat)
                          /\ Head(s2c[d]).head \in Nat /\ Head(s2c[d]).done \in BOOLEAN
         /\ t = "ack" => Head(s2c[d]).batch \in Nat /\ Head(s2c[d]).seq \in Nat
         /\ DownOK(room, deps, d, cl[d].held, outbox[d], Head(s2c[d]))
<1>1. FormedAt(d)
  BY BaseFormed DEF Going, Provenance
<1>2. s2c[d] \in Seq(Down(Nat, Nat)) /\ s2c[d] # <<>>
  BY <1>1 DEF FormedAt, Formed, Frame
<1>3. 1 \in DOMAIN s2c[d] /\ s2c[d][1] = Head(s2c[d])
  BY <1>2, TailAt
<1>4. Head(s2c[d]) \in Down(Nat, Nat)
  BY <1>2, SeqHead
<1>5. DownOK(room, deps, d, cl[d].held, outbox[d], Head(s2c[d]))
  <2>1. Fits(room, deps, d, outbox[d], flush[d], disk[d], wanted[d],
             cl[d], ses[d], c2s[d], s2c[d], http[d])
    BY DEF Going, DeviceOK
  <2> QED BY <1>3, <2>1 DEF Fits
<1>6. Head(s2c[d]).t = t
  BY DEF Frame
<1> QED BY <1>2, <1>3, <1>4, <1>5, <1>6 DEF Down

LEMMA StillFits ==
  ASSUME Going, NEW d \in Devices, LaterAt(d), KeptAt(d), cl'[d].held = cl[d].held
  PROVE  Now(d, cl[d], ses[d], c2s[d], s2c[d], http[d])
<1>1. Grown(cl[d], cl[d])
  BY DEF Grown
<1> QED BY <1>1, StepFits

LEMMA GrownFits ==
  ASSUME Going, NEW d \in Devices, LaterAt(d), KeptAt(d)
  PROVE  /\ Now(d, [cl[d] EXCEPT !.held = cl'[d].held], ses[d], c2s[d], s2c[d], http[d])
         /\ [cl[d] EXCEPT !.held = cl'[d].held].held = cl'[d].held
         /\ Grown(cl[d], [cl[d] EXCEPT !.held = cl'[d].held])
<1> DEFINE c == [cl[d] EXCEPT !.held = cl'[d].held]
<1>1. cl[d] \in ClientIn(Nat, Len(wanted[d]))
  BY BaseFormed DEF Going, Provenance, FormedAt, Formed
<1>2. c.held = cl'[d].held /\ Grown(cl[d], c)
  BY <1>1 DEF Grown, ClientIn
<1> HIDE DEF c
<1>3. Now(d, c, ses[d], c2s[d], s2c[d], http[d])
  BY <1>2, StepFits
<1> QED BY <1>2, <1>3 DEF c

LEMMA RecvRowFits ==
  ASSUME Going, NEW d \in Devices, LaterAt(d), RecvRow(d)
  PROVE  DeviceOK(d)'
<1> DEFINE m == Head(s2c[d])
           x == Min(DOMAIN m.rows)
           b == m.rows[x]
           left == [m EXCEPT !.rows = [t \in DOMAIN m.rows \ {x} |-> m.rows[t]]]
           rest == IF DOMAIN left.rows = {} /\ ~m.done THEN Tail(s2c[d])
                   ELSE <<left>> \o Tail(s2c[d])
           c == ApplyRow(cl[d], x, b, deps)
           c1 == [cl[d] EXCEPT !.held = cl'[d].held]
<1>1. /\ Frame(d, "rows") /\ DOMAIN m.rows # {} /\ Handled(d, c, rest)
      /\ UNCHANGED <<files, wanted>> /\ room' = room /\ deps' = deps /\ outbox' = outbox
  BY DEF RecvRow, store
<1>2. /\ Base /\ FormedAt(d)
  BY BaseFormed DEF Going, Provenance
<1>3. /\ s2c[d] \in Seq(Down(Nat, Nat)) /\ s2c[d] # <<>>
      /\ m \in Down(Nat, Nat) /\ m.t = "rows"
      /\ m.rows \in RowMap(Nat) /\ m.head \in Nat /\ m.done \in BOOLEAN
      /\ DownOK(room, deps, d, cl[d].held, outbox[d], m)
  BY <1>1, FrameAt
<1>4. /\ x \in DOMAIN m.rows /\ x \in Nat /\ b \in Nat
  <2>1. DOMAIN m.rows \subseteq Nat /\ \A y \in DOMAIN m.rows : m.rows[y] \in Nat
    BY <1>3, RowMapFacts
  <2>2. x \in DOMAIN m.rows
    BY <1>1, <2>1, MinIn
  <2> QED BY <2>1, <2>2
<1>5. RowIs(room', x, b)
  BY <1>1, <1>3, <1>4 DEF DownOK
<1>6. cl[d] \in ClientIn(Nat, Len(wanted[d])) /\ Len(wanted[d]) \in Nat
  BY <1>2 DEF FormedAt, Formed
<1>7. /\ left.t = "rows" /\ left.done = m.done /\ left.head = m.head
      /\ left.rows = [t \in DOMAIN m.rows \ {x} |-> m.rows[t]]
  BY <1>3 DEF Down
<1> HIDE DEF m, x, b, left, c, rest
<1>8. /\ c \in ClientIn(Nat, Len(wanted[d])) /\ c.held = cl[d].held \union {b}
      /\ c.resumed = cl[d].resumed /\ c.done = cl[d].done /\ c.asking = cl[d].asking
      /\ \/ c.cursor = cl[d].cursor
         \/ /\ deps[b] \subseteq cl[d].held /\ x <= cl[d].cursor + 1
            /\ c.cursor = Larger(cl[d].cursor, x)
      /\ c.pcursor = cl[d].pcursor \/ c.pcursor = Larger(cl[d].pcursor, c.cursor)
  <2>1. PICK n : n = Len(wanted[d])
    OBVIOUS
  <2>2. PICK q : q = cl[d]
    OBVIOUS
  <2>3. PICK a : a = ApplyRow(q, x, b, deps)
    OBVIOUS
  <2>4. n \in Nat /\ q \in ClientIn(Nat, n)
    BY <1>6, <2>1, <2>2
  <2>5. /\ a \in ClientIn(Nat, n) /\ a.held = q.held \union {b}
        /\ a.resumed = q.resumed /\ a.done = q.done /\ a.asking = q.asking
        /\ \/ a.cursor = q.cursor
           \/ deps[b] \subseteq q.held /\ x <= q.cursor + 1 /\ a.cursor = Larger(q.cursor, x)
        /\ a.pcursor = q.pcursor \/ a.pcursor = Larger(q.pcursor, a.cursor)
    BY <1>4, <2>3, <2>4, RowApplied
  <2> QED BY <2>1, <2>2, <2>3, <2>5 DEF c
<1>9. cl'[d].held = c.held
  BY <1>1, <1>2, <1>8, HandledHeld
<1>10. KeptAt(d)
  BY <1>1, KeptSame
<1>11. /\ Now(d, c1, ses[d], c2s[d], s2c[d], http[d])
       /\ c1.held = c.held /\ Grown(cl[d], c1)
  BY <1>9, <1>10, GrownFits
<1>12. c1.asking = cl[d].asking
  BY <1>6 DEF ClientIn
<1> HIDE DEF c1
<1>13. b \in c1.held /\ (deps[b] \subseteq cl[d].held => b \in Visible(c1.held, deps'))
  BY <1>1, <1>8, <1>11 DEF Visible
<1>14. Now(d, c1, ses[d], c2s[d], rest, http[d])
  <2>1. CASE DOMAIN left.rows = {} /\ ~m.done
    <3>1. ~IsAnswer(Head(s2c[d])) /\ rest = Tail(s2c[d])
      BY <2>1 DEF IsAnswer, m, rest
    <3> QED BY <1>3, <1>11, <3>1, FitsTail DEF Now
  <2>2. CASE ~(DOMAIN left.rows = {} /\ ~m.done)
    <3>1. rest = <<left>> \o Tail(s2c[d]) /\ (left.done \/ DOMAIN left.rows # {})
      BY <1>3, <1>7, <2>2 DEF rest
    <3> QED BY <1>3, <1>4, <1>7, <1>11, <1>13, <3>1, FitsLeft DEF Now, m, b
  <2> QED BY <2>1, <2>2
<1>15. c1.cursor \in Int /\ c1.cursor = cl[d].cursor /\ c1.pcursor = cl[d].pcursor
  BY <1>6, <1>11 DEF Grown, ClientIn
<1>16. Now(d, c, ses[d], c2s[d], rest, http[d])
  <2> DEFINE cur == c.cursor
  <2>1. \/ cur = c1.cursor
        \/ b \in Visible(c1.held, deps') /\ x <= c1.cursor + 1 /\ cur = Larger(c1.cursor, x)
    BY <1>8, <1>13, <1>15
  <2>2. /\ c.held = c1.held /\ c.resumed = c1.resumed /\ c.done = c1.done
        /\ c1.asking => c.asking
        /\ c.pcursor = c1.pcursor \/ c.pcursor = Larger(c1.pcursor, cur)
    BY <1>8, <1>11, <1>12, <1>15 DEF Grown
  <2> QED BY <1>5, <1>14, <1>15, <2>1, <2>2, FitsStep DEF Now
<1> QED BY <1>1, <1>8, <1>16, HandledFits

LEMMA RecvAckFits ==
  ASSUME Going, NEW d \in Devices, LaterAt(d), RecvAck(d)
  PROVE  DeviceOK(d)'
<1> DEFINE m == Head(s2c[d])
           more == Pending(d) \ {m.batch} # {}
           c == ApplyAck(cl[d], m.seq, more)
           rest == Tail(s2c[d])
<1>1. /\ Frame(d, "ack") /\ Handled(d, c, rest)
      /\ outbox' = [outbox EXCEPT ![d] = outbox[d] \ {m.batch}]
      /\ UNCHANGED <<files, wanted>> /\ room' = room /\ deps' = deps
  BY DEF RecvAck
<1>2. Base /\ FormedAt(d)
  BY BaseFormed DEF Going, Provenance
<1>3. /\ s2c[d] \in Seq(Down(Nat, Nat)) /\ s2c[d] # <<>> /\ m.t = "ack"
      /\ m.batch \in Nat /\ m.seq \in Nat
      /\ DownOK(room, deps, d, cl[d].held, outbox[d], m)
  BY <1>1, FrameAt
<1>4. cl[d] \in ClientIn(Nat, Len(wanted[d])) /\ Len(wanted[d]) \in Nat
  BY <1>2 DEF FormedAt, Formed
<1>5. Fits(room, deps, d, outbox[d], flush[d], disk[d], wanted[d],
           cl[d], ses[d], c2s[d], s2c[d], http[d])
  BY DEF Going, DeviceOK
<1>6. outbox'[d] = outbox[d] \ {m.batch}
  BY <1>1, <1>2, Domains
<1> HIDE DEF m, c, more, rest
<1>7. ses[d].ph = "up"
  <2>1. InOrder(ses[d].ph, cl[d].asking, c2s[d], s2c[d])
    BY <1>5 DEF Fits
  <2> QED BY <1>3, <2>1, OrderAck DEF m
<1>8. RowIs(room, m.seq, m.batch) /\ m.batch \in Visible(cl[d].held, deps)
  BY <1>3, <1>5, <1>7 DEF DownOK, Fits, PendingOK
<1>9. /\ c \in ClientIn(Nat, Len(wanted[d])) /\ c.held = cl[d].held
      /\ c.resumed = cl[d].resumed /\ c.done = cl[d].done /\ c.asking = cl[d].asking
      /\ \/ c.cursor = cl[d].cursor
         \/ m.seq <= cl[d].cursor + 1 /\ c.cursor = Larger(cl[d].cursor, m.seq)
      /\ c.pcursor = Larger(cl[d].pcursor, c.cursor)
  <2>1. PICK n : n = Len(wanted[d])
    OBVIOUS
  <2>2. PICK q : q = cl[d]
    OBVIOUS
  <2>3. PICK x : x = m.seq
    OBVIOUS
  <2>4. PICK z : z = more
    OBVIOUS
  <2>5. PICK a : a = ApplyAck(q, x, z)
    OBVIOUS
  <2>6. n \in Nat /\ q \in ClientIn(Nat, n) /\ x \in Nat /\ z \in BOOLEAN
    BY <1>3, <1>4, <2>1, <2>2, <2>3, <2>4 DEF more
  <2>7. /\ a \in ClientIn(Nat, n) /\ a.held = q.held
        /\ a.resumed = q.resumed /\ a.done = q.done /\ a.asking = q.asking
        /\ \/ a.cursor = q.cursor
           \/ x <= q.cursor + 1 /\ a.cursor = Larger(q.cursor, x)
        /\ a.pcursor = Larger(q.pcursor, a.cursor)
    BY <2>5, <2>6, AckWalks
  <2> QED BY <2>1, <2>2, <2>3, <2>4, <2>5, <2>7 DEF c
<1>10. cl'[d].held = cl[d].held
  BY <1>1, <1>2, <1>9, HandledHeld
<1>11. KeptAt(d)
  BY <1>1, <1>6, <1>8, <1>10 DEF KeptAt, Kept, RowIs, Admitted
<1>12. Now(d, cl[d], ses[d], c2s[d], s2c[d], http[d])
  BY <1>10, <1>11, StillFits
<1>13. Now(d, cl[d], ses[d], c2s[d], rest, http[d])
  BY <1>3, <1>12, FitsTail DEF IsAnswer, Now, m, rest
<1>14. Now(d, c, ses[d], c2s[d], rest, http[d])
  <2> DEFINE cur == c.cursor
  <2>1. \/ cur = cl[d].cursor
        \/ /\ m.batch \in Visible(cl[d].held, deps') /\ m.seq <= cl[d].cursor + 1
           /\ cur = Larger(cl[d].cursor, m.seq)
    BY <1>1, <1>8, <1>9
  <2>2. RowIs(room', m.seq, m.batch) /\ cl[d].cursor \in Int
    BY <1>1, <1>4, <1>8 DEF ClientIn
  <2> QED BY <1>9, <1>13, <2>1, <2>2, FitsStep DEF Now
<1> QED BY <1>1, <1>9, <1>14, HandledFits

LEMMA RecvQuotaFits ==
  ASSUME Going, NEW d \in Devices, LaterAt(d), RecvQuota(d)
  PROVE  DeviceOK(d)'
<1> DEFINE c == [cl[d] EXCEPT !.blocked = TRUE, !.retry = TRUE]
           rest == Tail(s2c[d])
<1>1. /\ Frame(d, "quota") /\ Handled(d, c, rest)
      /\ UNCHANGED <<files, wanted>> /\ outbox' = outbox
  BY DEF RecvQuota, store
<1>2. Base /\ FormedAt(d)
  BY BaseFormed DEF Going, Provenance
<1>3. s2c[d] \in Seq(Down(Nat, Nat)) /\ s2c[d] # <<>> /\ Head(s2c[d]).t = "quota"
  BY <1>1, FrameAt
<1>4. cl[d] \in ClientIn(Nat, Len(wanted[d])) /\ Len(wanted[d]) \in Nat
  BY <1>2 DEF FormedAt, Formed
<1>5. c \in ClientIn(Nat, Len(wanted[d])) /\ Alike(cl[d], c) /\ c.held = cl[d].held
  BY <1>4 DEF ClientIn, Alike
<1> HIDE DEF c, rest
<1>6. cl'[d].held = cl[d].held
  BY <1>1, <1>2, <1>5, HandledHeld
<1>7. Now(d, cl[d], ses[d], c2s[d], s2c[d], http[d])
  BY <1>1, <1>6, KeptSame, StillFits
<1>8. Now(d, cl[d], ses[d], c2s[d], rest, http[d])
  BY <1>3, <1>7, FitsTail DEF IsAnswer, Now, rest
<1>9. Now(d, c, ses[d], c2s[d], rest, http[d])
  BY <1>5, <1>8, FitsAlike DEF Now
<1> QED BY <1>1, <1>5, <1>9, HandledFits

\* What the end of an answer does to a client.
LEMMA AnswerApplied ==
  ASSUME NEW n \in Nat, NEW c \in ClientIn(Nat, n), NEW d, NEW head \in Nat,
         ses[d].ticket \in 0 .. n, ses[d].refresh \in 0 .. n,
         NEW x, NEW a,
         \/ a = Joined(d, c, head) /\ x = ses[d].ticket
         \/ a = Refreshed(d, c, head) /\ x = ses[d].refresh
  PROVE  /\ a \in ClientIn(Nat, n) /\ a.held = c.held
         /\ a.cursor = c.cursor /\ a.pcursor = c.pcursor /\ (c.resumed => a.resumed)
         /\ a.done = c.done \/ (c.cursor >= head /\ a.done = Larger(c.done, x))
<1>1. a \in ClientIn(Nat, n) /\ a.held = c.held
  BY Answered
<1>2. CASE a = Joined(d, c, head) /\ x = ses[d].ticket
  <2> DEFINE caught == c.caught \/ ~c.needs
             done == IF ~c.needs /\ ~c.gap /\ c.cursor >= head
                       THEN Larger(c.done, ses[d].ticket) ELSE c.done
  <2>1. a = [c EXCEPT !.resumed = TRUE, !.caught = caught, !.done = done]
    BY <1>2 DEF Joined
  <2> HIDE DEF caught, done
  <2>2. a.cursor = c.cursor /\ a.pcursor = c.pcursor /\ a.resumed = TRUE /\ a.done = done
    BY <2>1 DEF ClientIn
  <2> QED BY <1>1, <1>2, <2>2 DEF done
<1>3. CASE a = Refreshed(d, c, head) /\ x = ses[d].refresh
  <2> DEFINE ticket == ses[d].refresh
             short == ticket # 0 /\ c.cursor < head
             done == IF ticket # 0 /\ c.cursor >= head /\ ~c.needs /\ ~c.gap
                       THEN Larger(c.done, ticket) ELSE c.done
             gap == c.gap \/ short
             row == c.hRow /\ ~short
  <2>1. a = [c EXCEPT !.asking = FALSE, !.done = done, !.gap = gap, !.hRow = row]
    BY <1>3 DEF Refreshed
  <2> HIDE DEF done, gap, row
  <2>2. a.cursor = c.cursor /\ a.pcursor = c.pcursor /\ a.resumed = c.resumed /\ a.done = done
    BY <2>1 DEF ClientIn
  <2> QED BY <1>1, <1>3, <2>2 DEF done
<1> QED BY <1>2, <1>3

LEMMA RecvDoneFits ==
  ASSUME Going, NEW d \in Devices, LaterAt(d), RecvDone(d)
  PROVE  DeviceOK(d)'
<1> DEFINE m == Head(s2c[d])
           rest == Tail(s2c[d])
<1>1. /\ Frame(d, "rows") /\ DOMAIN m.rows = {} /\ ses[d].ph \in {"filling", "up"}
      /\ UNCHANGED <<files, wanted>> /\ outbox' = outbox
      /\ \/ /\ ses[d].ph = "filling"
            /\ RepairGap(d, Joined(d, cl[d], m.head), [ses[d] EXCEPT !.ph = "up", !.ticket = 0],
                         rest)
         \/ /\ ses[d].ph = "up"
            /\ RepairGap(d, Refreshed(d, cl[d], m.head), [ses[d] EXCEPT !.refresh = 0], rest)
  BY DEF RecvDone, Frame, store
<1>2. Base /\ FormedAt(d)
  BY BaseFormed DEF Going, Provenance
<1>3. s2c[d] \in Seq(Down(Nat, Nat)) /\ s2c[d] # <<>> /\ m.t = "rows" /\ m.head \in Nat
  BY <1>1, FrameAt
<1>4. /\ cl[d] \in ClientIn(Nat, Len(wanted[d])) /\ Len(wanted[d]) \in Nat
      /\ ses[d] \in SessionIn(Nat, Len(wanted[d]))
  BY <1>2 DEF FormedAt, Formed
<1>5. ses[d].ticket \in 0 .. Len(wanted[d]) /\ ses[d].refresh \in 0 .. Len(wanted[d])
  BY <1>4 DEF SessionIn
<1> HIDE DEF m, rest
<1>6. PICK c, s, x :
        /\ RepairGap(d, c, s, rest) /\ x \in {ses[d].ticket, ses[d].refresh}
        /\ s \in SessionIn(Nat, Len(wanted[d])) /\ s.ph = "up"
        /\ \/ c = Joined(d, cl[d], m.head) /\ x = ses[d].ticket
           \/ c = Refreshed(d, cl[d], m.head) /\ x = ses[d].refresh
  <2>1. CASE /\ ses[d].ph = "filling"
             /\ RepairGap(d, Joined(d, cl[d], m.head), [ses[d] EXCEPT !.ph = "up", !.ticket = 0],
                          rest)
    <3>1. /\ [ses[d] EXCEPT !.ph = "up", !.ticket = 0] \in SessionIn(Nat, Len(wanted[d]))
      <4>1. 0 \in 0 .. Len(wanted[d])
        BY <1>4
      <4> QED BY <1>4, <4>1 DEF SessionIn
    <3>2. [ses[d] EXCEPT !.ph = "up", !.ticket = 0].ph = "up"
      BY <1>4 DEF SessionIn
    <3> QED BY <2>1, <3>1, <3>2
  <2>2. CASE /\ ses[d].ph = "up"
             /\ RepairGap(d, Refreshed(d, cl[d], m.head), [ses[d] EXCEPT !.refresh = 0], rest)
    <3>1. /\ [ses[d] EXCEPT !.refresh = 0] \in SessionIn(Nat, Len(wanted[d]))
      <4>1. 0 \in 0 .. Len(wanted[d])
        BY <1>4
      <4> QED BY <1>4, <4>1 DEF SessionIn
    <3>2. [ses[d] EXCEPT !.refresh = 0].ph = "up"
      BY <1>4, <2>2 DEF SessionIn
    <3> QED BY <2>2, <3>1, <3>2
  <2> QED BY <1>1, <2>1, <2>2
<1>7. /\ c \in ClientIn(Nat, Len(wanted[d])) /\ c.held = cl[d].held
      /\ c.cursor = cl[d].cursor /\ c.pcursor = cl[d].pcursor /\ (cl[d].resumed => c.resumed)
      /\ \/ c.done = cl[d].done
         \/ cl[d].cursor >= m.head /\ c.done = Larger(cl[d].done, x)
  <2>1. PICK n : n = Len(wanted[d])
    OBVIOUS
  <2>2. PICK q : q = cl[d]
    OBVIOUS
  <2>3. PICK y : y = m.head
    OBVIOUS
  <2>4. /\ n \in Nat /\ q \in ClientIn(Nat, n) /\ y \in Nat
        /\ ses[d].ticket \in 0 .. n /\ ses[d].refresh \in 0 .. n
        /\ \/ c = Joined(d, q, y) /\ x = ses[d].ticket
           \/ c = Refreshed(d, q, y) /\ x = ses[d].refresh
    BY <1>3, <1>4, <1>5, <1>6, <2>1, <2>2, <2>3
  <2>5. /\ c \in ClientIn(Nat, n) /\ c.held = q.held
        /\ c.cursor = q.cursor /\ c.pcursor = q.pcursor /\ (q.resumed => c.resumed)
        /\ c.done = q.done \/ (q.cursor >= y /\ c.done = Larger(q.done, x))
    BY <2>4, AnswerApplied
  <2> QED BY <2>1, <2>2, <2>3, <2>5
<1>8. cl'[d].held = cl[d].held
  BY <1>2, <1>6, <1>7, RepairHeld
<1>9. Now(d, cl[d], ses[d], c2s[d], s2c[d], http[d])
  BY <1>1, <1>8, KeptSame, StillFits
<1>10. Now(d, c, s, c2s[d], rest, http[d])
  <2>1. /\ Formed(Len(wanted[d]), flush[d], disk[d], cl[d], ses[d], c2s[d], s2c[d], http[d])
        /\ outbox'[d] \subseteq cl[d].held
    BY <1>1, <1>2 DEF FormedAt, Base
  <2>2. /\ Head(s2c[d]).t = "rows" /\ DOMAIN Head(s2c[d]).rows = {}
        /\ \/ c.done = cl[d].done
           \/ cl[d].cursor >= Head(s2c[d]).head /\ c.done = Larger(cl[d].done, x)
    BY <1>1, <1>3, <1>7 DEF m
  <2>3. PICK r, D, o, f, k, w, n :
          /\ r = room' /\ D = deps' /\ o = outbox'[d] /\ f = flush[d] /\ k = disk[d]
          /\ w = wanted[d] /\ n = Len(wanted[d])
    OBVIOUS
  <2>4. PICK q, e, up, down, h :
          q = cl[d] /\ e = ses[d] /\ up = c2s[d] /\ down = s2c[d] /\ h = http[d]
    OBVIOUS
  <2>5. /\ Formed(n, f, k, q, e, up, down, h) /\ o \subseteq q.held
        /\ Fits(r, D, d, o, f, k, w, q, e, up, down, h)
    BY <1>9, <2>1, <2>3, <2>4 DEF Now
  <2>6. /\ down # <<>> /\ Head(down).t = "rows" /\ DOMAIN Head(down).rows = {}
        /\ x \in {e.ticket, e.refresh} /\ s.ph = "up"
        /\ c.held = q.held /\ c.cursor = q.cursor /\ c.pcursor = q.pcursor
        /\ q.resumed => c.resumed
        /\ \/ c.done = q.done
           \/ q.cursor >= Head(down).head /\ c.done = Larger(q.done, x)
    BY <1>3, <1>6, <1>7, <2>2, <2>4
  <2>7. Fits(r, D, d, o, f, k, w, c, s, up, Tail(down), h)
    BY <2>5, <2>6, FitsAnswered
  <2> QED BY <2>3, <2>4, <2>7 DEF Now, rest
<1> QED BY <1>1, <1>6, <1>7, <1>10, RepairFits

LEMMA DeviceIs ==
  ASSUME NEW d \in Devices, UNCHANGED <<files, wanted>>,
         NEW c, NEW s, NEW up, NEW down, NEW h,
         cl'[d] = c, ses'[d] = s, c2s'[d] = up, s2c'[d] = down, http'[d] = h,
         Now(d, c, s, up, down, h)
  PROVE  DeviceOK(d)'
<1>1. flush'[d] = flush[d] /\ disk'[d] = disk[d] /\ wanted'[d] = wanted[d]
  BY DEF files
<1> QED BY <1>1 DEF DeviceOK, Now

LEMMA DialFits ==
  ASSUME Going, NEW d \in Devices, LaterAt(d), Dial(d)
  PROVE  DeviceOK(d)'
<1> DEFINE c == [cl[d] EXCEPT !.asking = FALSE]
           s == [NoSession EXCEPT !.ph = "hello"]
           m == [t |-> "hello"]
<1>1. Base /\ FormedAt(d)
  BY BaseFormed DEF Going, Provenance
<1>2. /\ ses[d].ph = "down" /\ cl' = [cl EXCEPT ![d] = c] /\ ses' = [ses EXCEPT ![d] = s]
      /\ c2s' = [c2s EXCEPT ![d] = Append(c2s[d], m)] /\ UNCHANGED <<s2c, http, files, wanted>>
      /\ outbox' = outbox
  BY DEF Dial, SetClient, Send, store
<1>3. c2s[d] = <<>> /\ s2c[d] = <<>>
  BY <1>1, <1>2 DEF Base, Within, Greeted, GreetOK
<1>4. cl[d] \in ClientIn(Nat, Len(wanted[d]))
  BY <1>1 DEF FormedAt, Formed
<1>5. /\ c.held = cl[d].held /\ c.cursor = cl[d].cursor /\ c.pcursor = cl[d].pcursor
      /\ c.resumed = cl[d].resumed /\ c.done = cl[d].done
  BY <1>4 DEF ClientIn
<1>6. s.ph = "hello"
  BY DEF NoSession
<1> HIDE DEF c, s
<1>7. /\ cl'[d] = c /\ ses'[d] = s /\ c2s'[d] = Append(<<>>, m) /\ s2c'[d] = <<>>
      /\ http'[d] = http[d]
  BY <1>1, <1>2, <1>3, Domains
<1>8. Now(d, cl[d], ses[d], c2s[d], s2c[d], http[d])
  BY <1>2, <1>5, <1>7, KeptSame, StillFits
<1>9. Now(d, c, s, Append(<<>>, m), <<>>, http[d])
  BY <1>2, <1>3, <1>5, <1>6, <1>8, FitsHello DEF Now
<1> QED BY <1>2, <1>7, <1>9, DeviceIs

LEMMA EndsFits ==
  ASSUME Going, NEW d \in Devices, LaterAt(d), RecvClose(d) \/ Disconnect(d)
  PROVE  DeviceOK(d)'
<1>1. EndSession(d, cl[d]) /\ UNCHANGED <<files, wanted>> /\ outbox' = outbox
  BY DEF RecvClose, Disconnect, store
<1>2. Base /\ FormedAt(d)
  BY BaseFormed DEF Going, Provenance
<1>3. cl[d] \in ClientIn(Nat, Len(wanted[d]))
  BY <1>2 DEF FormedAt, Formed
<1> DEFINE same == cl[d].hEpoch /\ ses[d].ph = "hello"
           c == [cl[d] EXCEPT !.hEpoch = same, !.sSame = FALSE]
<1>4. cl' = [cl EXCEPT ![d] = c]
  BY <1>1 DEF EndSession, SetClient
<1>5. c.held = cl[d].held
  BY <1>3 DEF ClientIn
<1> HIDE DEF c
<1>6. cl'[d].held = cl[d].held
  BY <1>2, <1>4, <1>5, Domains
<1>7. Now(d, cl[d], ses[d], c2s[d], s2c[d], http[d])
  BY <1>1, <1>6, KeptSame, StillFits
<1>8. Alike(cl[d], cl[d])
  BY DEF Alike
<1> QED BY <1>1, <1>3, <1>7, <1>8, EndFits

LEMMA DialFailsFits ==
  ASSUME Going, NEW d \in Devices, LaterAt(d), DialFails(d)
  PROVE  DeviceOK(d)'
<1>1. /\ http' = [http EXCEPT ![d] = Spawned(d, http[d])]
      /\ UNCHANGED <<cl, ses, c2s, s2c, files, wanted>> /\ outbox' = outbox
  BY DEF DialFails, wire, store
<1>2. Base /\ FormedAt(d)
  BY BaseFormed DEF Going, Provenance
<1>3. Now(d, cl[d], ses[d], c2s[d], s2c[d], http[d])
  BY <1>1, KeptSame, StillFits
<1>4. http'[d] = Spawned(d, http[d]) /\ http[d] \in HttpIn(Nat, Nat, Len(wanted[d]))
  BY <1>1, <1>2, Domains DEF FormedAt, Formed
<1>5. Now(d, cl[d], ses[d], c2s[d], s2c[d], Spawned(d, http[d]))
  BY <1>3, <1>4, FitsSpawned DEF Now
<1> QED BY <1>1, <1>4, <1>5, DeviceIs

LEMMA RefreshFits ==
  ASSUME Going, NEW d \in Devices, LaterAt(d), Refresh(d)
  PROVE  DeviceOK(d)'
<1> DEFINE c == [cl[d] EXCEPT !.asking = TRUE]
           s == [ses[d] EXCEPT !.refresh = cl[d].asked]
           m == RowsReq(cl[d].cursor, FALSE)
<1>1. Base /\ FormedAt(d)
  BY BaseFormed DEF Going, Provenance
<1>2. /\ ses[d].ph = "up" /\ ~cl[d].asking
      /\ cl' = [cl EXCEPT ![d] = c] /\ ses' = [ses EXCEPT ![d].refresh = cl[d].asked]
      /\ c2s' = [c2s EXCEPT ![d] = Append(c2s[d], m)]
      /\ UNCHANGED <<s2c, http, files, wanted>> /\ outbox' = outbox
  BY DEF Refresh, SetClient, Send, store
<1>3. /\ cl[d] \in ClientIn(Nat, Len(wanted[d])) /\ ses[d] \in SessionIn(Nat, Len(wanted[d]))
      /\ c2s[d] \in Seq(Up(Nat))
  BY <1>1 DEF FormedAt, Formed
<1>4. Alike(cl[d], c) /\ c.asking = TRUE /\ c.held = cl[d].held /\ cl[d].asking = FALSE
  BY <1>2, <1>3 DEF ClientIn, Alike
<1>5. s.ph = "up"
  BY <1>2, <1>3 DEF SessionIn
<1>6. ses'[d] = s
  BY <1>1, <1>2, Domains
<1> HIDE DEF c, s, m
<1>7. /\ cl'[d] = c /\ c2s'[d] = Append(c2s[d], m) /\ s2c'[d] = s2c[d] /\ http'[d] = http[d]
  BY <1>1, <1>2, Domains
<1>8. Now(d, cl[d], ses[d], c2s[d], s2c[d], http[d])
  BY <1>2, <1>4, <1>7, KeptSame, StillFits
<1>9. Now(d, c, s, Append(c2s[d], m), s2c[d], http[d])
  BY <1>2, <1>3, <1>4, <1>5, <1>8, FitsAsk DEF Now, m
<1> QED BY <1>2, <1>6, <1>7, <1>9, DeviceIs

LEMMA PushPendingFits ==
  ASSUME Going, NEW d \in Devices, LaterAt(d), PushPending(d)
  PROVE  DeviceOK(d)'
<1> DEFINE sent == ses[d].inFlight \intersect Pending(d)
           more == Unsent(d, sent)
           m == [t |-> "push", batches |-> more]
           out == sent \union more
           s == [ses[d] EXCEPT !.inFlight = out]
<1>1. Base /\ FormedAt(d)
  BY BaseFormed DEF Going, Provenance
<1>2. /\ ses[d].ph = "up" /\ ses' = [ses EXCEPT ![d].inFlight = out]
      /\ c2s' = [c2s EXCEPT ![d] = Append(c2s[d], m)]
      /\ UNCHANGED <<cl, s2c, http, files, wanted>> /\ outbox' = outbox
  BY DEF PushPending, Send, store
<1>3. m.t = "push" /\ m.batches \subseteq outbox'[d]
  BY <1>2 DEF Unsent, Pending
<1>4. ses[d] \in SessionIn(Nat, Len(wanted[d])) /\ c2s[d] \in Seq(Up(Nat))
  BY <1>1 DEF FormedAt, Formed
<1> HIDE DEF m, out
<1>5. s.ph = ses[d].ph /\ s.ticket = ses[d].ticket /\ s.refresh = ses[d].refresh
  BY <1>4 DEF SessionIn
<1>6. ses'[d] = s
  BY <1>1, <1>2, Domains
<1> HIDE DEF s
<1>7. /\ cl'[d] = cl[d] /\ c2s'[d] = Append(c2s[d], m) /\ s2c'[d] = s2c[d]
      /\ http'[d] = http[d]
  BY <1>1, <1>2, Domains
<1>8. Now(d, cl[d], ses[d], c2s[d], s2c[d], http[d])
  BY <1>2, <1>7, KeptSame, StillFits
<1>9. Now(d, cl[d], ses[d], Append(c2s[d], m), s2c[d], http[d])
  BY <1>2, <1>3, <1>4, <1>8, FitsPush DEF Now
<1>10. Now(d, cl[d], s, Append(c2s[d], m), s2c[d], http[d])
  BY <1>5, <1>9, FitsSession DEF Now
<1> QED BY <1>2, <1>6, <1>7, <1>10, DeviceIs

LEMMA PushHeadFits ==
  ASSUME Going, NEW d \in Devices, LaterAt(d), PushHead(d)
  PROVE  DeviceOK(d)'
<1> DEFINE c == [cl[d] EXCEPT !.retry = FALSE]
           m == [t |-> "push", batches |-> {Min(Pending(d))}]
<1>1. Base /\ FormedAt(d)
  BY BaseFormed DEF Going, Provenance
<1>2. /\ ses[d].ph = "up" /\ cl' = [cl EXCEPT ![d] = c]
      /\ \/ UNCHANGED c2s
         \/ Pending(d) # {} /\ c2s' = [c2s EXCEPT ![d] = Append(c2s[d], m)]
      /\ UNCHANGED <<ses, s2c, http, files, wanted>> /\ outbox' = outbox
  BY DEF PushHead, SetClient, Send, store
<1>3. Pending(d) # {} => m.batches \subseteq outbox'[d]
  <2>1. Pending(d) \subseteq Nat
    BY <1>1 DEF Base, Pending
  <2> QED BY <1>2, <2>1, MinIn DEF Pending
<1>4. cl[d] \in ClientIn(Nat, Len(wanted[d])) /\ c2s[d] \in Seq(Up(Nat))
  BY <1>1 DEF FormedAt, Formed
<1>5. Alike(cl[d], c) /\ c.held = cl[d].held /\ m.t = "push"
  BY <1>4 DEF ClientIn, Alike
<1> HIDE DEF c, m
<1>6. /\ cl'[d] = c /\ ses'[d] = ses[d] /\ s2c'[d] = s2c[d] /\ http'[d] = http[d]
      /\ c2s'[d] = c2s[d] \/ (Pending(d) # {} /\ c2s'[d] = Append(c2s[d], m))
  BY <1>1, <1>2, Domains
<1>7. Now(d, cl[d], ses[d], c2s[d], s2c[d], http[d])
  BY <1>2, <1>5, <1>6, KeptSame, StillFits
<1>8. Now(d, c, ses[d], c2s[d], s2c[d], http[d])
  BY <1>5, <1>7, FitsAlike DEF Now
<1>9. Now(d, c, ses[d], c2s'[d], s2c[d], http[d])
  <2>1. CASE c2s'[d] = c2s[d]
    BY <1>8, <2>1
  <2>2. CASE Pending(d) # {} /\ c2s'[d] = Append(c2s[d], m)
    <3>1. Now(d, c, ses[d], Append(c2s[d], m), s2c[d], http[d])
      BY <1>2, <1>3, <1>4, <1>5, <1>8, <2>2, FitsPush DEF Now
    <3> QED BY <2>2, <3>1
  <2> QED BY <1>6, <2>1, <2>2
<1> QED BY <1>2, <1>6, <1>9, DeviceIs

LEMMA RecvStateFits ==
  ASSUME Going, NEW d \in Devices, LaterAt(d), RecvState(d)
  PROVE  DeviceOK(d)'
<1> DEFINE st == Head(s2c[d]).st
           wiped == cl[d].cursor > st.head
           cont == Contained(cl[d], st, deps)
           after == CatchUpAfter(cl[d].cursor, st, cont)
           push == Unsent(d, {})
           pcur == IF wiped THEN 0 ELSE cl[d].pcursor
           event == cl[d].event \/ (wiped /\ d = Host)
           needs == cl[d].needs /\ ~cont
           same == ~cont
           own == cl[d].resumed /\ ~cl[d].needs
           c == [cl[d] EXCEPT !.view = ViewOf(st), !.asking = FALSE, !.cursor = after,
                              !.pcursor = pcur, !.event = event, !.needs = needs, !.sSame = same]
           ph == IF cont THEN "filling" ELSE "fetching"
           seq == IF cont THEN 0 ELSE st.seq
           s == [ses[d] EXCEPT !.ph = ph, !.seq = seq, !.ticket = cl[d].asked, !.inFlight = push]
           msg == [t |-> "push", batches |-> push]
           out == c2s[d] \o <<RowsReq(after, own)>> \o (IF push = {} THEN <<>> ELSE <<msg>>)
           rest == Tail(s2c[d])
<1>1. Base /\ FormedAt(d)
  BY BaseFormed DEF Going, Provenance
<1>2. /\ ses[d].ph = "hello" /\ s2c[d] # <<>> /\ cl' = [cl EXCEPT ![d] = c]
      /\ ses' = [ses EXCEPT ![d].ph = ph, ![d].seq = seq,
                            ![d].ticket = cl[d].asked, ![d].inFlight = push]
      /\ c2s' = [c2s EXCEPT ![d] = out] /\ s2c' = [s2c EXCEPT ![d] = rest]
      /\ UNCHANGED <<http, files, wanted>> /\ outbox' = outbox /\ UNCHANGED <<room, deps>>
  BY DEF RecvState, SetClient, store
<1>3. /\ cl[d] \in ClientIn(Nat, Len(wanted[d])) /\ ses[d] \in SessionIn(Nat, Len(wanted[d]))
      /\ c2s[d] \in Seq(Up(Nat)) /\ s2c[d] \in Seq(Down(Nat, Nat))
  BY <1>1 DEF FormedAt, Formed
<1>4. Fits(room, deps, d, outbox[d], flush[d], disk[d], wanted[d],
           cl[d], ses[d], c2s[d], s2c[d], http[d])
  BY DEF Going, DeviceOK
<1>5. Head(s2c[d]).t = "state" /\ ~st.has /\ st \in StateIn(Nat)
  <2>1. Head(s2c[d]).t = "state"
    BY <1>1, <1>2 DEF Base, Within, Greeted, GreetOK
  <2>2. s2c[d][1] = Head(s2c[d]) /\ 1 \in DOMAIN s2c[d] /\ Head(s2c[d]) \in Down(Nat, Nat)
    BY <1>2, <1>3, TailAt, SeqHead
  <2>3. DownOK(room, deps, d, cl[d].held, outbox[d], Head(s2c[d]))
    BY <1>4, <2>2 DEF Fits
  <2> QED BY <2>1, <2>2, <2>3 DEF DownOK, Down
<1>6. cont /\ after \in {cl[d].cursor, 0} /\ ph = "filling"
  BY <1>5 DEF Contained, CatchUpAfter
<1>7. cl[d].cursor \in Nat /\ after \in Nat /\ own \in BOOLEAN /\ (own => cl[d].resumed)
  BY <1>3, <1>6 DEF ClientIn
<1>8. push \subseteq outbox[d] /\ push \subseteq Nat
  BY <1>1 DEF Unsent, Pending, Base
<1>9. pcur \in {cl[d].pcursor, 0}
  OBVIOUS
<1> HIDE DEF st, wiped, cont, after, push, pcur, event, needs, same, own, ph, seq
<1>10. /\ c.held = cl[d].held /\ c.cursor = after /\ c.pcursor = pcur
       /\ c.resumed = cl[d].resumed /\ c.done = cl[d].done
  BY <1>3 DEF ClientIn
<1>11. s.ph = ph
  BY <1>3 DEF SessionIn
<1>12. ses'[d] = s
  BY <1>1, <1>2, Domains
<1> HIDE DEF c, s, out, rest
<1>13. /\ cl'[d] = c /\ c2s'[d] = out /\ s2c'[d] = rest /\ http'[d] = http[d]
  BY <1>1, <1>2, Domains
<1>14. Now(d, cl[d], ses[d], c2s[d], s2c[d], http[d])
  BY <1>2, <1>10, <1>13, KeptSame, StillFits
<1>15. Now(d, c, s, Append(c2s[d], RowsReq(after, own)), rest, http[d])
  <2>1. HeadSeq(room') \in Nat
    BY <1>1, <1>2, BaseRoom
  <2>2. PICK q, e, up, down, h, n :
          /\ q = cl[d] /\ e = ses[d] /\ up = c2s[d] /\ down = s2c[d] /\ h = http[d]
          /\ n = Len(wanted[d])
    OBVIOUS
  <2>3. PICK r, D, o, f, k, w :
          /\ r = room' /\ D = deps' /\ o = outbox'[d] /\ f = flush[d] /\ k = disk[d]
          /\ w = wanted[d]
    OBVIOUS
  <2>4. /\ Formed(n, f, k, q, e, up, down, h) /\ HeadSeq(r) \in Nat
        /\ Fits(r, D, d, o, f, k, w, q, e, up, down, h)
    BY <1>1, <1>14, <2>1, <2>2, <2>3 DEF Now, FormedAt
  <2>5. /\ e.ph = "hello" /\ down # <<>> /\ Head(down).t = "state"
        /\ c.held = q.held /\ c.resumed = q.resumed /\ c.done = q.done
        /\ c.cursor \in {q.cursor, 0} /\ c.pcursor \in {q.pcursor, 0}
        /\ (own => q.resumed) /\ s.ph = "filling"
    BY <1>2, <1>5, <1>6, <1>7, <1>9, <1>10, <1>11, <2>2
  <2>6. Fits(r, D, d, o, f, k, w, c, s, Append(up, RowsReq(c.cursor, own)), Tail(down), h)
    BY <2>4, <2>5, FitsPlan
  <2> QED BY <1>10, <2>2, <2>3, <2>6 DEF Now, rest
<1>16. Now(d, c, s, out, rest, http[d])
  <2> DEFINE up == Append(c2s[d], RowsReq(after, own))
  <2>1. up \in Seq(Up(Nat)) /\ (out = up \/ out = Append(up, msg))
    <3>1. RowsReq(after, own) \in Up(Nat) /\ (push # {} => msg \in Up(Nat))
      BY <1>7, <1>8 DEF RowsReq, Up
    <3>2. PICK m, p, x, y, e :
            m = RowsReq(after, own) /\ p = msg /\ x = c2s[d] /\ y = out /\ e = push
      OBVIOUS
    <3>3. /\ x \in Seq(Up(Nat)) /\ m \in Up(Nat) /\ (e # {} => p \in Up(Nat))
      BY <1>3, <3>1, <3>2
    <3>4. y = x \o <<m>> \o (IF e = {} THEN <<>> ELSE <<p>>)
      BY <3>2 DEF out
    <3> HIDE DEF msg
    <3>5. Append(x, m) \in Seq(Up(Nat)) /\ (y = Append(x, m) \/ y = Append(Append(x, m), p))
      <4>1. PICK S : S = Up(Nat)
        OBVIOUS
      <4>2. x \in Seq(S) /\ m \in S /\ (e # {} => p \in S)
        BY <3>3, <4>1
      <4>3. x \o <<m>> = Append(x, m) /\ Append(x, m) \in Seq(S)
        BY <4>2
      <4>4. PICK q \in Seq(S) : q = Append(x, m)
        BY <4>3
      <4>5. CASE e = {}
        BY <3>4, <4>1, <4>3, <4>4, <4>5
      <4>6. CASE e # {}
        <5>1. y = q \o <<p>>
          BY <3>4, <4>3, <4>4, <4>6
        <5>2. q \o <<p>> = Append(q, p)
          BY <4>2, <4>6
        <5> QED BY <4>1, <4>3, <4>4, <5>1, <5>2
      <4> QED BY <4>5, <4>6
    <3> QED BY <3>2, <3>5
  <2>2. \E j \in DOMAIN up : IsRequest(up[j])
    <3>1. Len(c2s[d]) + 1 \in DOMAIN up /\ up[Len(c2s[d]) + 1] = RowsReq(after, own)
      BY <1>3, AppendAt
    <3> QED BY <3>1 DEF IsRequest, RowsReq
  <2>3. msg.t = "push" /\ msg.batches \subseteq outbox'[d]
    BY <1>2, <1>8
  <2> HIDE DEF up, msg
  <2>4. Now(d, c, s, up, rest, http[d])
    BY <1>15 DEF up
  <2>5. Now(d, c, s, Append(up, msg), rest, http[d])
    BY <2>1, <2>2, <2>3, <2>4, FitsPush DEF Now
  <2> QED BY <2>1, <2>4, <2>5
<1> QED BY <1>2, <1>12, <1>13, <1>16, DeviceIs

\* A live row is relayed to a device.
RelayOf(s, b) == [t |-> "rows", rows |-> [i \in {s} |-> b], done |-> FALSE, head |-> 0]

LEMMA FitsRelay ==
  ASSUME NEW r, NEW D, NEW d, NEW o, NEW f, NEW k, NEW w, NEW c, NEW s, NEW up, NEW S,
         NEW down \in Seq(S), NEW h, Fits(r, D, d, o, f, k, w, c, s, up, down, h),
         NEW x, NEW b, RowIs(r, x, b)
  PROVE  Fits(r, D, d, o, f, k, w, c, s, up, Append(down, RelayOf(x, b)), h)
<1> DEFINE m == RelayOf(x, b)
<1>1. /\ ~IsAnswer(m) /\ m.t # "ack" /\ m.t # "state" /\ m.t = "rows"
      /\ DOMAIN m.rows # {} /\ \A i \in DOMAIN m.rows : RowIs(r, i, m.rows[i])
  BY DEF RelayOf, IsAnswer
<1>2. DownOK(r, D, d, c.held, o, m)
  BY <1>1 DEF DownOK
<1> HIDE DEF m
<1>3. /\ \A i \in DOMAIN Append(down, m) :
              \/ i \in DOMAIN down /\ Append(down, m)[i] = down[i]
              \/ i \notin DOMAIN down /\ i = Len(down) + 1 /\ Append(down, m)[i] = m
      /\ \A i \in DOMAIN down : i \in DOMAIN Append(down, m) /\ Append(down, m)[i] = down[i]
  BY AppendAt
<1>4. \A i \in DOMAIN Append(down, m) : DownOK(r, D, d, c.held, o, Append(down, m)[i])
  BY <1>2, <1>3 DEF Fits
<1>5. {i \in DOMAIN Append(down, m) : IsAnswer(Append(down, m)[i])}
        = {i \in DOMAIN down : IsAnswer(down[i])}
  BY <1>1, <1>3
<1>6. \A i \in DOMAIN Append(down, m) : Append(down, m)[i].t = "ack" =>
        i \in DOMAIN down /\ down[i].t = "ack"
  BY <1>1, <1>3
<1>7. InOrder(s.ph, c.asking, up, Append(down, m))
  <2>1. InOrder(s.ph, c.asking, up, down)
    BY DEF Fits
  <2> QED BY <1>5, <1>6, <2>1 DEF InOrder
<1>8. TicketsOK(r, D, c.held, w, c.done, s, Append(down, m), h)
  <2>1. TicketsOK(r, D, c.held, w, c.done, s, down, h)
    BY DEF Fits
  <2>2. \A i \in DOMAIN Append(down, m) : IsAnswer(Append(down, m)[i]) =>
          i \in DOMAIN down /\ IsAnswer(down[i]) /\ Append(down, m)[i] = down[i]
    BY <1>1, <1>3
  <2> QED BY <2>1, <2>2 DEF TicketsOK
<1> QED BY <1>4, <1>7, <1>8 DEF Fits, m

\* A device that the step does to no more than this.
Quiet(d) ==
  /\ outbox'[d] = outbox[d] /\ Alike(cl[d], cl'[d]) /\ ses'[d] = ses[d]
  /\ c2s'[d] = c2s[d] /\ http'[d] = http[d]
  /\ flush'[d] = flush[d] /\ disk'[d] = disk[d] /\ wanted'[d] = wanted[d]
  /\ \/ s2c'[d] = s2c[d]
     \/ \E x, b : RowIs(room', x, b) /\ s2c'[d] = Append(s2c[d], RelayOf(x, b))

LEMMA QuietFits ==
  ASSUME Going, NEW d \in Devices, LaterAt(d), Quiet(d)
  PROVE  DeviceOK(d)'
<1>1. Base /\ FormedAt(d)
  BY BaseFormed DEF Going, Provenance
<1>2. cl'[d].held = cl[d].held /\ Alike(cl[d], cl'[d])
  BY DEF Quiet, Alike
<1>3. Now(d, cl[d], ses[d], c2s[d], s2c[d], http[d])
  BY <1>2, KeptSame, StillFits DEF Quiet
<1>4. Now(d, cl'[d], ses[d], c2s[d], s2c[d], http[d])
  BY <1>2, <1>3, FitsAlike DEF Now
<1>5. Now(d, cl'[d], ses[d], c2s[d], s2c'[d], http[d])
  <2>1. CASE s2c'[d] = s2c[d]
    BY <1>4, <2>1
  <2>2. CASE \E x, b : RowIs(room', x, b) /\ s2c'[d] = Append(s2c[d], RelayOf(x, b))
    <3>1. PICK x, b : RowIs(room', x, b) /\ s2c'[d] = Append(s2c[d], RelayOf(x, b))
      BY <2>2
    <3>2. s2c[d] \in Seq(Down(Nat, Nat))
      BY <1>1 DEF FormedAt, Formed
    <3>3. Now(d, cl'[d], ses[d], c2s[d], Append(s2c[d], RelayOf(x, b)), http[d])
      BY <1>4, <3>1, <3>2, FitsRelay DEF Now
    <3> QED BY <3>1, <3>3
  <2> QED BY <2>1, <2>2 DEF Quiet
<1> QED BY <1>5 DEF Quiet, DeviceOK, Now

\* What a device holds that it does not have to send, is a row of the room.
LEMMA HeldFrom ==
  ASSUME Going, NEW d \in Devices
  PROVE  cl[d].held \subseteq outbox[d] \union Admitted(room)
<1>1. Base /\ Sourced
  BY DEF Going, Provenance
<1>2. cl[d].held \subseteq Own[d]
  BY <1>1 DEF Sourced, Within, Clients, Typed, ClientIn
<1>3. Readable(room) = Admitted(room)
  BY <1>1, BaseRoom, PlainServes DEF Going, Plain
<1> QED BY <1>2, <1>3 DEF Own

LEMMA WriteFits ==
  ASSUME Going, NEW d \in Devices, LaterAt(d), Write(d)
  PROVE  DeviceOK(d)'
<1>1. Base /\ FormedAt(d)
  BY BaseFormed DEF Going, Provenance
<1>2. PICK big \in BOOLEAN :
        /\ deps' = Append(deps, Doc(d))
        /\ outbox' = [outbox EXCEPT ![d] = outbox[d] \union {Len(deps) + 1}]
        /\ cl' = [cl EXCEPT ![d] =
             [cl[d] EXCEPT !.held = cl[d].held \union {Len(deps) + 1},
                           !.event = cl[d].event \/ (big /\ d = Host)]]
        /\ UNCHANGED <<room, files, ses, wire, http, wanted>>
  BY DEF Write, SetClient
<1> DEFINE b == Len(deps) + 1
           held == cl[d].held \union {b}
           event == cl[d].event \/ (big /\ d = Host)
           c == [cl[d] EXCEPT !.held = held, !.event = event]
<1>3. cl[d] \in ClientIn(Nat, Len(wanted[d]))
  BY <1>1 DEF FormedAt, Formed
<1>4. c.held = held /\ Grown(cl[d], c)
  BY <1>3 DEF ClientIn, Grown
<1>5. cl'[d] = c
  BY <1>1, <1>2, Domains
<1>6. outbox'[d] = outbox[d] \union {b}
  BY <1>1, <1>2, Domains
<1>7. deps'[b] = Doc(d) /\ Doc(d) \subseteq cl[d].held
  <2>1. deps \in Seq(SUBSET Nat) /\ Doc(d) \in SUBSET Nat /\ Doc(d) \subseteq cl[d].held
    BY <1>1, BaseAt DEF Base
  <2> QED BY <1>2, <2>1
<1>8. KeptAt(d)
  <2>1. cl[d].held \subseteq outbox[d] \union Admitted(room')
    BY <1>2, HeldFrom
  <2> HIDE DEF c, b
  <2>2. cl'[d].held = cl[d].held \union {b}
    BY <1>4, <1>5
  <2> QED BY <1>6, <1>7, <2>1, <2>2 DEF KeptAt, Kept
<1> HIDE DEF c
<1>9. Now(d, c, ses[d], c2s[d], s2c[d], http[d])
  BY <1>4, <1>5, <1>8, StepFits
<1> QED BY <1>2, <1>5, <1>9, DeviceIs DEF wire

\* The tickets that were given have not changed.
LEMMA FitsTickets ==
  ASSUME NEW r, NEW D, NEW d, NEW o, NEW n, NEW f, NEW k, NEW w, NEW c, NEW s, NEW up, NEW down,
         NEW h, Formed(n, f, k, c, s, up, down, h),
         Fits(r, D, d, o, f, k, w, c, s, up, down, h),
         NEW w2, \A i \in 1 .. n : w2[i] = w[i]
  PROVE  Fits(r, D, d, o, f, k, w2, c, s, up, down, h)
<1>1. /\ n \in Nat /\ c.done \in Nat /\ c.done <= n
      /\ s.ticket \in 0 .. n /\ s.refresh \in 0 .. n /\ h.ticket \in 0 .. n
  <2>1. n \in Nat /\ c.done \in Nat /\ c.done <= n
    BY FormedFields DEF Formed
  <2>2. s.ticket \in 0 .. n /\ s.refresh \in 0 .. n
    BY DEF Formed, SessionIn
  <2>3. h.ticket \in 0 .. n
    BY DEF Formed, HttpIn, HttpRec
  <2> QED BY <2>1, <2>2, <2>3
<1>2. /\ \A i \in 1 .. c.done : w2[i] = w[i]
      /\ \A i \in 1 .. s.ticket \union 1 .. s.refresh : w2[i] = w[i]
      /\ \A i \in 1 .. h.ticket : w2[i] = w[i]
  BY <1>1
<1>3. TicketsOK(r, D, c.held, w2, c.done, s, down, h)
  BY <1>2 DEF Fits, TicketsOK
<1> QED BY <1>3 DEF Fits

LEMMA RequestFits ==
  ASSUME Going, NEW d \in Devices, LaterAt(d), RequestCatchUp(d)
  PROVE  DeviceOK(d)'
<1> DEFINE c == [cl[d] EXCEPT !.asked = cl[d].asked + 1]
           w == Append(wanted[d], Admitted(room))
<1>1. Base /\ FormedAt(d)
  BY BaseFormed DEF Going, Provenance
<1>2. /\ cl' = [cl EXCEPT ![d] = c] /\ wanted' = [wanted EXCEPT ![d] = w]
      /\ UNCHANGED <<files, ses, wire, http>> /\ outbox' = outbox
  BY DEF RequestCatchUp, SetClient, store
<1>3. cl[d] \in ClientIn(Nat, Len(wanted[d]))
  BY <1>1 DEF FormedAt, Formed
<1>4. Alike(cl[d], c) /\ c.held = cl[d].held
  BY <1>3 DEF ClientIn, Alike
<1>5. \A i \in 1 .. Len(wanted[d]) : w[i] = wanted[d][i]
  <2>1. wanted[d] \in Seq(SUBSET Nat)
    BY <1>1 DEF Base
  <2> QED BY <2>1
<1> HIDE DEF c, w
<1>6. cl'[d] = c /\ wanted'[d] = w
  BY <1>1, <1>2, Domains
<1>7. Now(d, cl[d], ses[d], c2s[d], s2c[d], http[d])
  BY <1>2, <1>4, <1>6, KeptSame, StillFits
<1>8. Fits(room', deps', d, outbox'[d], flush[d], disk[d], w, cl[d], ses[d], c2s[d], s2c[d],
           http[d])
  BY <1>1, <1>5, <1>7, FitsTickets DEF Now, FormedAt
<1>9. Fits(room', deps', d, outbox'[d], flush[d], disk[d], w, c, ses[d], c2s[d], s2c[d], http[d])
  BY <1>4, <1>8, FitsAlike
<1> QED BY <1>2, <1>6, <1>9 DEF DeviceOK, files, wire

\* The persister: it samples a cursor that is shown, and saves what is shown
\* with it.
LEMMA FitsFiles ==
  ASSUME NEW r, NEW D, NEW d, NEW o, NEW f, NEW k, NEW w, NEW c, NEW s, NEW up, NEW down, NEW h,
         Fits(r, D, d, o, f, k, w, c, s, up, down, h),
         NEW f2, NEW k2, CursorsOK(r, D, c.held, c.cursor, c.pcursor, f2, k2)
  PROVE  Fits(r, D, d, o, f2, k2, w, c, s, up, down, h)
  BY DEF Fits

LEMMA FlushFits ==
  ASSUME Going, NEW d \in Devices, LaterAt(d), FlushSample(d) \/ FlushSave(d)
  PROVE  DeviceOK(d)'
<1>1. Base /\ FormedAt(d) /\ HeadSeq(room) \in Nat
  BY BaseFormed, BaseRoom DEF Going, Provenance
<1>2. /\ UNCHANGED <<room, deps, cl, ses, http, wanted, c2s, s2c>> /\ outbox' = outbox
  BY DEF FlushSample, FlushSave, store, wire
<1>3. Now(d, cl[d], ses[d], c2s[d], s2c[d], http[d])
  BY <1>2, KeptSame, StillFits
<1>4. CursorsOK(room', deps', cl[d].held, cl[d].cursor, cl[d].pcursor, flush[d], disk[d])
  BY <1>3 DEF Now, Fits
<1>5. CASE FlushSample(d)
  <2>1. flush'[d] = cl[d].pcursor /\ disk'[d] = disk[d]
    BY <1>1, <1>5, Domains DEF FlushSample
  <2>2. CursorsOK(room', deps', cl[d].held, cl[d].cursor, cl[d].pcursor, flush'[d], disk'[d])
    BY <1>4, <2>1 DEF CursorsOK
  <2>3. Fits(room', deps', d, outbox'[d], flush'[d], disk'[d], wanted[d],
             cl[d], ses[d], c2s[d], s2c[d], http[d])
    BY <1>3, <2>2, FitsFiles DEF Now
  <2> QED BY <1>2, <2>3 DEF DeviceOK
<1>6. CASE FlushSave(d)
  <2>1. /\ flush'[d] = NoFlush
        /\ disk'[d].doc = Visible(cl[d].held, deps) /\ disk'[d].cursor = flush[d]
    BY <1>1, <1>6, Domains DEF FlushSave, Doc
  <2>2. Shows(room', deps', cl[d].held, NoFlush)
    <3>1. RowsTo(room', NoFlush) = {} /\ NoFlush <= HeadSeq(room')
      BY <1>1, <1>2 DEF RowsTo, NoFlush
    <3> QED BY <3>1 DEF Shows
  <2>3. CursorsOK(room', deps', cl[d].held, cl[d].cursor, cl[d].pcursor, flush'[d], disk'[d])
    BY <1>2, <1>4, <2>1, <2>2 DEF CursorsOK, Shows
  <2>4. Fits(room', deps', d, outbox'[d], flush'[d], disk'[d], wanted[d],
             cl[d], ses[d], c2s[d], s2c[d], http[d])
    BY <1>3, <2>3, FitsFiles DEF Now
  <2> QED BY <1>2, <2>4 DEF DeviceOK
<1> QED BY <1>5, <1>6

\* The poster: with no checkpoint in the room, nothing of the catch-up moves.
LEMMA PosterFits ==
  ASSUME Going, NEW d \in Devices, LaterAt(d), Poster(d) \/ PostFails(d)
  PROVE  DeviceOK(d)'
<1>1. Base /\ FormedAt(d)
  BY BaseFormed DEF Going, Provenance
<1>2. UNCHANGED <<ses, http, flush, disk, wanted, c2s, s2c>>
  BY DEF Poster, PostFails, PostDue, Bootstrap, HostEvent, Export, PostCheckpoint, files, wire
<1>3. cl[d] \in ClientIn(Nat, Len(wanted[d]))
  BY <1>1 DEF FormedAt, Formed
<1>4. Alike(cl[d], cl'[d])
  <2>1. Alike(cl[d], cl[d])
    BY DEF Alike
  <2>2. CASE PostDue(d) \/ Export(d) \/ PostFails(d)
    BY <2>1, <2>2 DEF PostDue, Export, PostFails
  <2>3. CASE Bootstrap(d)
    <3>1. cl'[d] = [cl[d] EXCEPT !.boot = FALSE]
      BY <1>1, <2>3, Domains DEF Bootstrap, SetClient
    <3> QED BY <1>3, <3>1 DEF Alike, ClientIn
  <2>4. CASE HostEvent(d)
    <3>1. cl'[d] = [cl[d] EXCEPT !.event = FALSE]
      BY <1>1, <2>4, Domains DEF HostEvent, SetClient
    <3> QED BY <1>3, <3>1 DEF Alike, ClientIn
  <2>5. CASE PostCheckpoint(d)
    <3>1. \/ cl'[d] = cl[d]
          \/ cl'[d] = [cl[d] EXCEPT !.view.rows = 0, !.view.has = TRUE]
      BY <1>1, <2>5, Domains DEF PostCheckpoint, SetClient
    <3>2. CASE cl'[d] = cl[d]
      BY <2>1, <3>2
    <3>3. CASE cl'[d] = [cl[d] EXCEPT !.view.rows = 0, !.view.has = TRUE]
      BY <1>3, <3>3 DEF Alike, ClientIn
    <3> QED BY <3>1, <3>2, <3>3
  <2> QED BY <2>2, <2>3, <2>4, <2>5 DEF Poster
<1>5. outbox'[d] = outbox[d]
  <2>1. CASE PostCheckpoint(d)
    <3>1. ~Acceptable(room, post[d].seq)
      <4>1. SUFFICES ASSUME Acceptable(room, post[d].seq) PROVE FALSE
        OBVIOUS
      <4>2. room' = CommitCheckpoint(room, post[d].seq, post[d].content)
        BY <2>1, <4>1 DEF PostCheckpoint, Commit
      <4>3. room'.has = TRUE
        <5>1. room \in RoomIn
          BY <1>1, BaseRoom
        <5> QED BY <4>2, <5>1 DEF CommitCheckpoint, RoomIn
      <4> QED BY <4>3 DEF Going
    <3>2. outbox' = [outbox EXCEPT ![d] = outbox[d] \ {}]
      BY <2>1, <3>1 DEF PostCheckpoint
    <3> QED BY <1>1, <3>2, Domains
  <2>2. CASE ~PostCheckpoint(d)
    BY <2>2 DEF Poster, PostFails, PostDue, Bootstrap, HostEvent, Export, store
  <2> QED BY <2>1, <2>2
<1>6. Quiet(d)
  BY <1>2, <1>4, <1>5 DEF Quiet
<1> QED BY <1>6, QuietFits

\* Only the HTTPS cycle of a device with a transport ever runs.
LEMMA CyclingStep ==
  ASSUME Base, Next, Cycling
  PROVE  Cycling'
<1> DEFINE Moves(d) == \E x : /\ http' = [http EXCEPT ![d] = x]
                              /\ \/ http[d].ph # "idle"
                                 \/ x = Spawned(d, http[d]) \/ x = Spawned(d, IdleHttp)
<1>1. UNCHANGED http \/ \E d \in Devices : Moves(d)
  <2>1. ASSUME NEW d \in Devices, NEW c, EndSession(d, c)
        PROVE  Moves(d)
    BY <2>1 DEF EndSession
  <2>2. ASSUME NEW d \in Devices, NEW c, NEW s, NEW rest, RepairGap(d, c, s, rest)
        PROVE  UNCHANGED http \/ Moves(d)
    <3> DEFINE repair == ~c.needs /\ ~c.asking /\ c.gap
               asked == [c EXCEPT !.gap = c.gap /\ ~repair, !.asking = c.asking \/ repair]
    <3>1. EndSession(d, asked) \/ UNCHANGED http
      BY <2>2 DEF RepairGap
    <3> HIDE DEF asked, Moves
    <3> QED BY <2>1, <3>1
  <2>3. ASSUME NEW d \in Devices, NEW c, NEW rest, Handled(d, c, rest)
        PROVE  UNCHANGED http \/ Moves(d)
    <3>1. RepairGap(d, c, ses[d], rest) \/ UNCHANGED http
      BY <2>3 DEF Handled
    <3> HIDE DEF Moves
    <3> QED BY <2>2, <3>1
  <2>4. ASSUME NEW d \in Devices, Actor(d) \/ Disconnect(d)
        PROVE  UNCHANGED http \/ Moves(d)
    <3> HIDE DEF Moves
    <3>1. CASE Dial(d) \/ RecvState(d) \/ Import(d)
      BY <3>1 DEF Dial, RecvState, Import
    <3>2. CASE RecvClose(d) \/ Disconnect(d)
      <4>1. EndSession(d, cl[d])
        BY <3>2 DEF RecvClose, Disconnect
      <4> QED BY <2>1, <4>1
    <3>3. CASE Fetch(d)
      <4>1. EndSession(d, cl[d]) \/ UNCHANGED http
        BY <3>3 DEF Fetch
      <4> QED BY <2>1, <4>1
    <3>4. CASE RecvRow(d)
      <4>1. \E c, rest : Handled(d, c, rest)
        BY <3>4 DEF RecvRow
      <4> QED BY <2>3, <4>1
    <3>5. CASE RecvAck(d)
      <4>1. \E c, rest : Handled(d, c, rest)
        BY <3>5 DEF RecvAck
      <4> QED BY <2>3, <4>1
    <3>6. CASE RecvQuota(d)
      <4>1. \E c, rest : Handled(d, c, rest)
        BY <3>6 DEF RecvQuota
      <4> QED BY <2>3, <4>1
    <3>7. CASE RecvDone(d)
      <4>1. \E c, s, rest : RepairGap(d, c, s, rest)
        BY <3>7 DEF RecvDone
      <4> QED BY <2>2, <4>1
    <3> QED BY <2>4, <3>1, <3>2, <3>3, <3>4, <3>5, <3>6, <3>7 DEF Actor
  <2>5. ASSUME NEW d \in Devices, NEW c, NEW todo, Push(d, c, todo), http[d].ph # "idle"
        PROVE  Moves(d)
    BY <2>5 DEF Push, SetHttp
  <2>6. ASSUME NEW d \in Devices, NEW c, NEW h, Apply(d, c, h), http[d].ph # "idle"
        PROVE  Moves(d)
    BY <2>6 DEF Apply, SetHttp
  <2>7. ASSUME NEW d \in Devices, Cycle(d) \/ HttpQuota(d) \/ HttpPostFails(d) \/ HttpFails(d)
        PROVE  Moves(d)
    <3>1. http[d].ph # "idle"
      BY <2>7 DEF Cycle, HttpStart, HttpPost, HttpAck, HttpGet, HttpState, HttpFetch, HttpImport,
                  HttpRow, HttpQuota, HttpPostFails, HttpFails
    <3>2. CASE HttpPost(d) \/ HttpGet(d) \/ HttpFetch(d) \/ HttpFails(d)
      BY <3>1, <3>2 DEF HttpPost, HttpGet, HttpFetch, HttpFails, SetHttp
    <3> HIDE DEF Moves
    <3>3. CASE HttpStart(d) \/ HttpAck(d) \/ HttpQuota(d) \/ HttpPostFails(d)
      <4>1. \E c, todo : Push(d, c, todo)
        BY <3>3 DEF HttpStart, HttpAck, HttpQuota, HttpPostFails
      <4> QED BY <2>5, <3>1, <4>1
    <3>4. CASE HttpImport(d)
      <4>1. \E c, h : Apply(d, c, h)
        BY <3>4 DEF HttpImport
      <4> QED BY <2>6, <3>1, <4>1
    <3>5. CASE HttpRow(d)
      <4>1. \E c, h : Apply(d, c, h)
        BY <3>5 DEF HttpRow
      <4> QED BY <2>6, <3>1, <4>1
    <3>6. CASE HttpState(d)
      <4>1. (\E c, h : Apply(d, c, h)) \/ \E x : SetHttp(d, x)
        BY <3>6 DEF HttpState
      <4>2. (\E x : SetHttp(d, x)) => Moves(d)
        BY <3>1 DEF Moves, SetHttp
      <4> QED BY <2>6, <3>1, <4>1, <4>2
    <3> QED BY <2>7, <3>2, <3>3, <3>4, <3>5, <3>6 DEF Cycle
  <2>8. ASSUME NEW d \in Devices, DialFails(d) \/ Crash(d)
        PROVE  Moves(d)
    BY <2>8 DEF DialFails, Crash
  <2>9. ASSUME NEW d \in Devices,
               \/ Write(d) \/ RequestCatchUp(d) \/ Clock(d) \/ Poster(d) \/ Persister(d)
               \/ Room(d) \/ PostFails(d) \/ RoomQuota(d)
        PROVE  UNCHANGED http
    BY <2>9 DEF Write, RequestCatchUp, Clock, Refresh, PushPending, PushHead, Poster, PostDue,
                Bootstrap, HostEvent, Export, PostCheckpoint, Persister, FlushSample, FlushSave,
                Room, RoomHello, RoomRows, RoomPush, PostFails, RoomQuota
  <2>10. RoomLate \/ Reset => UNCHANGED http
    BY DEF RoomLate, Reset
  <2> HIDE DEF Moves
  <2> QED BY <2>4, <2>7, <2>8, <2>9, <2>10 DEF Next, Failure
<1>2. CASE UNCHANGED http
  BY <1>2 DEF Cycling
<1>3. CASE \E d \in Devices : Moves(d)
  <2>0. PICK d \in Devices : Moves(d)
    BY <1>3
  <2>1. PICK x :
          /\ http' = [http EXCEPT ![d] = x]
          /\ http[d].ph # "idle" \/ x = Spawned(d, http[d]) \/ x = Spawned(d, IdleHttp)
    BY <2>0
  <2>2. http'[d] = x /\ \A e \in Devices \ {d} : http'[e] = http[e]
    BY <2>1, Domains
  <2>3. x.ph # "idle" => d \in Transport
    BY <2>1 DEF Cycling, Spawned, IdleHttp
  <2> QED BY <2>2, <2>3 DEF Cycling
<1> QED BY <1>1, <1>2, <1>3

LEMMA TicketRowsStep ==
  ASSUME Going
  PROVE  TicketRows' /\ Admitted(room) \subseteq Admitted(room')
<1>1. Base /\ HeadSeq(room) \in Nat
  BY BaseRoom DEF Going, Provenance
<1>2. Admitted(room) \subseteq Admitted(room')
  <2>1. UNCHANGED room \/ \E d \in Devices : \E b \in outbox[d] : Adds(room, room', d, b)
    BY RoomStep DEF Going
  <2>2. CASE UNCHANGED room
    BY <2>2
  <2>3. CASE \E d, b : Adds(room, room', d, b)
    BY <1>1, <2>3 DEF Adds, Admitted
  <2> QED BY <2>1, <2>2, <2>3
<1>3. ASSUME NEW d \in Devices, NEW i \in DOMAIN wanted'[d]
      PROVE  wanted'[d][i] \subseteq Admitted(room')
  <2>1. wanted[d] \in Seq(SUBSET Nat) /\ wanted = [e \in Devices |-> wanted[e]]
    BY <1>1 DEF Base
  <2>2. \A j \in DOMAIN wanted[d] : wanted[d][j] \subseteq Admitted(room')
    BY <1>2 DEF Going, TicketRows
  <2>3. ~Reset
    BY DEF Going, Reset, Fault
  <2>4. UNCHANGED wanted \/ \E e \in Devices : RequestCatchUp(e) \/ Crash(e)
    BY <2>3, HistoryMoved DEF Going
  <2>5. CASE UNCHANGED wanted
    BY <2>2, <2>5
  <2>6. ASSUME NEW e \in Devices, RequestCatchUp(e)
        PROVE  wanted'[d][i] \subseteq Admitted(room')
    <3>1. wanted' = [wanted EXCEPT ![e] = Append(wanted[e], Admitted(room))]
      BY <2>6 DEF RequestCatchUp
    <3>2. CASE e = d
      <4>1. wanted'[d] = Append(wanted[d], Admitted(room))
        BY <2>1, <3>1, <3>2
      <4>2. \/ i \in DOMAIN wanted[d] /\ wanted'[d][i] = wanted[d][i]
            \/ wanted'[d][i] = Admitted(room)
        BY <2>1, <4>1, AppendAt
      <4> QED BY <1>2, <2>2, <4>2
    <3>3. CASE e # d
      <4>1. wanted'[d] = wanted[d]
        BY <2>1, <3>1, <3>3
      <4> QED BY <2>2, <4>1
    <3> QED BY <3>2, <3>3
  <2>7. ASSUME NEW e \in Devices, Crash(e)
        PROVE  wanted'[d][i] \subseteq Admitted(room')
    <3>1. wanted' = [wanted EXCEPT ![e] = <<>>]
      BY <2>7 DEF Crash
    <3>2. wanted'[d] = wanted[d]
      BY <2>1, <3>1
    <3> QED BY <2>2, <3>2
  <2> QED BY <2>4, <2>5, <2>6, <2>7
<1> QED BY <1>2, <1>3 DEF TicketRows

-----------------------------------------------------------------------------
(* The HTTPS cycle *)

LEMMA FitsHttp ==
  ASSUME NEW r, NEW D, NEW d, NEW o, NEW f, NEW k, NEW w, NEW c, NEW s, NEW up, NEW down, NEW h,
         Fits(r, D, d, o, f, k, w, c, s, up, down, h),
         NEW h2, HttpOK(r, D, c.held, h2),
         h2.ph \in {"answered", "applying"} =>
           \A i \in 1 .. h2.ticket : w[i] \subseteq RowsTo(r, h2.st.head)
  PROVE  Fits(r, D, d, o, f, k, w, c, s, up, down, h2)
  BY DEF Fits, TicketsOK

LEMMA PushFits ==
  ASSUME Going, NEW d \in Devices, NEW n, NEW c \in ClientIn(Nat, n), NEW todo,
         Push(d, c, todo), todo \subseteq Visible(c.held, deps'),
         Now(d, c, ses[d], c2s[d], s2c[d], http[d]),
         UNCHANGED <<files, wanted, ses, c2s, s2c>>
  PROVE  DeviceOK(d)'
<1>1. Base
  BY DEF Going, Provenance
<1> DEFINE h == [IdleHttp EXCEPT !.ph = "push", !.todo = todo]
           g == [IdleHttp EXCEPT !.ph = "pulling", !.after = c.cursor, !.ticket = c.asked]
           c2 == [c EXCEPT !.hEpoch = TRUE, !.hRow = TRUE]
<1>2. \/ http' = [http EXCEPT ![d] = h] /\ cl' = [cl EXCEPT ![d] = c]
      \/ http' = [http EXCEPT ![d] = g] /\ cl' = [cl EXCEPT ![d] = c2]
  BY DEF Push, SetHttp, SetClient
<1>3. h.ph = "push" /\ h.todo = todo /\ g.ph = "pulling" /\ Alike(c, c2)
  BY DEF IdleHttp, Alike, ClientIn
<1> HIDE DEF h, g, c2
<1>4. \/ http'[d] = h /\ cl'[d] = c
      \/ http'[d] = g /\ cl'[d] = c2
  BY <1>1, <1>2, Domains
<1>5. Now(d, c2, ses[d], c2s[d], s2c[d], http[d])
  BY <1>3, FitsAlike DEF Now
<1>6. HttpOK(room', deps', c.held, h) /\ HttpOK(room', deps', c2.held, g)
  BY <1>3 DEF HttpOK
<1>7. Now(d, c, ses[d], c2s[d], s2c[d], h) /\ Now(d, c2, ses[d], c2s[d], s2c[d], g)
  BY <1>3, <1>5, <1>6, FitsHttp DEF Now
<1> QED BY <1>4, <1>7, DeviceIs

LEMMA HttpStartFits ==
  ASSUME Going, NEW d \in Devices, LaterAt(d), HttpStart(d) \/ HttpQuota(d) \/ HttpPostFails(d)
  PROVE  DeviceOK(d)'
<1>1. Base /\ FormedAt(d)
  BY BaseFormed DEF Going, Provenance
<1>2. /\ UNCHANGED <<room, deps, files, wanted, ses, c2s, s2c>> /\ outbox' = outbox
      /\ Push(d, cl[d], {}) \/ (http[d].ph = "spawned" /\ Push(d, cl[d], Pending(d)))
  BY DEF HttpStart, HttpQuota, HttpPostFails, wire, store
<1>3. cl[d] \in ClientIn(Nat, Len(wanted[d]))
  BY <1>1 DEF FormedAt, Formed
<1>4. cl'[d].held = cl[d].held
  <2> DEFINE c2 == [cl[d] EXCEPT !.hEpoch = TRUE, !.hRow = TRUE]
  <2>1. cl' = [cl EXCEPT ![d] = cl[d]] \/ cl' = [cl EXCEPT ![d] = c2]
    BY <1>2 DEF Push, SetClient
  <2>2. c2.held = cl[d].held
    BY <1>3 DEF ClientIn
  <2> HIDE DEF c2
  <2> QED BY <1>1, <2>1, <2>2, Domains
<1>5. Now(d, cl[d], ses[d], c2s[d], s2c[d], http[d])
  BY <1>2, <1>4, KeptSame, StillFits
<1>6. http[d].ph = "spawned" => Pending(d) \subseteq Visible(cl[d].held, deps')
  BY <1>2, <1>5 DEF Going, Cycling, Now, Fits, PendingOK, Pending
<1> QED BY <1>2, <1>3, <1>5, <1>6, PushFits

\* The row of a push, relayed.
LEMMA RelayedAt ==
  ASSUME NEW b, NEW e, NEW d \in Devices
  PROVE  \/ Relayed(b, e)[d] = s2c[d]
         \/ /\ Relayed(b, e)[d] = Append(s2c[d], RelayOf(AckSeq(room, b), b))
            /\ d # e
  BY DEF Relayed, RelayOf

LEMMA HttpPostFits ==
  ASSUME Going, NEW d \in Devices, LaterAt(d), HttpPost(d)
  PROVE  DeviceOK(d)'
<1> DEFINE b == Min(http[d].todo)
           x == AckSeq(room, b)
           h == [http[d] EXCEPT !.ph = "acking", !.seq = x]
<1>1. Base /\ FormedAt(d)
  BY BaseFormed DEF Going, Provenance
<1>2. /\ http[d].ph = "push" /\ room' = AppendRow(room, d, b) /\ s2c' = Relayed(b, NoDevice)
      /\ http' = [http EXCEPT ![d] = h] /\ UNCHANGED <<cl, files, ses, c2s, wanted>>
      /\ outbox' = outbox
  BY DEF HttpPost, SetHttp, store
<1>3. http[d] \in HttpIn(Nat, Nat, Len(wanted[d])) /\ s2c[d] \in Seq(Down(Nat, Nat))
  BY <1>1 DEF FormedAt, Formed
<1>4. b \in Nat
  <2>1. http[d].todo # {} /\ http[d].todo \subseteq Nat
    BY <1>2, <1>3 DEF HttpIn, HttpRec
  <2> QED BY <2>1, MinIn
<1>5. h.ph = "acking" /\ h.todo = http[d].todo /\ h.seq = x
  BY <1>3 DEF HttpIn, HttpRec
<1>6. RowIs(room', x, b)
  <2>1. room \in RoomIn /\ room.floor = 0
    BY <1>1, BaseRoom DEF Going, Plain
  <2> HIDE DEF b, x
  <2>2. RowIs(AppendRow(room, d, b), AckSeq(room, b), b)
    BY <1>4, <2>1, AppendAdds
  <2> QED BY <1>2, <2>2 DEF x
<1>7. s2c'[d] = s2c[d] \/ s2c'[d] = Append(s2c[d], RelayOf(x, b))
  BY <1>2, RelayedAt
<1> HIDE DEF b, x, h
<1>8. /\ http'[d] = h /\ cl'[d] = cl[d] /\ ses'[d] = ses[d] /\ c2s'[d] = c2s[d]
  BY <1>1, <1>2, Domains
<1>9. Now(d, cl[d], ses[d], c2s[d], s2c[d], http[d])
  BY <1>2, <1>8, KeptSame, StillFits
<1>10. Now(d, cl[d], ses[d], c2s[d], s2c'[d], http[d])
  <2>1. CASE s2c'[d] = s2c[d]
    BY <1>9, <2>1
  <2>2. CASE s2c'[d] = Append(s2c[d], RelayOf(x, b))
    <3>1. Now(d, cl[d], ses[d], c2s[d], Append(s2c[d], RelayOf(x, b)), http[d])
      BY <1>3, <1>6, <1>9, FitsRelay DEF Now
    <3> QED BY <2>2, <3>1
  <2> QED BY <1>7, <2>1, <2>2
<1>11. HttpOK(room', deps', cl[d].held, h)
  <2>1. HttpOK(room', deps', cl[d].held, http[d])
    BY <1>10 DEF Now, Fits
  <2> QED BY <1>2, <1>5, <1>6, <2>1 DEF HttpOK, b
<1>12. Now(d, cl[d], ses[d], c2s[d], s2c'[d], h)
  BY <1>5, <1>10, <1>11, FitsHttp DEF Now
<1> QED BY <1>2, <1>8, <1>12, DeviceIs

LEMMA HttpAckFits ==
  ASSUME Going, NEW d \in Devices, LaterAt(d), HttpAck(d)
  PROVE  DeviceOK(d)'
<1> DEFINE b == Min(http[d].todo)
           x == http[d].seq
           left == http[d].todo \ {b}
           c == ApplyHttpAck(cl[d], x)
<1>1. Base /\ FormedAt(d)
  BY BaseFormed DEF Going, Provenance
<1>2. /\ http[d].ph = "acking" /\ outbox' = [outbox EXCEPT ![d] = outbox[d] \ {b}]
      /\ Push(d, c, left) /\ UNCHANGED <<room, deps, files, ses, c2s, s2c, wanted>>
  BY DEF HttpAck, wire
<1>3. /\ cl[d] \in ClientIn(Nat, Len(wanted[d])) /\ Len(wanted[d]) \in Nat
      /\ http[d] \in HttpIn(Nat, Nat, Len(wanted[d]))
  BY <1>1 DEF FormedAt, Formed
<1>4. HttpOK(room, deps, cl[d].held, http[d])
  BY DEF Going, DeviceOK, Fits
<1>5. x \in Nat /\ b \in http[d].todo
  <2>1. x \in Nat /\ http[d].todo \subseteq Nat /\ http[d].todo # {}
    BY <1>2, <1>3 DEF HttpIn, HttpRec
  <2> QED BY <2>1, MinIn
<1>6. /\ RowIs(room, x, b) /\ b \in Visible(cl[d].held, deps)
      /\ left \subseteq Visible(cl[d].held, deps)
  BY <1>2, <1>4, <1>5 DEF HttpOK
<1> HIDE DEF b, x, left, c
<1>7. /\ c \in ClientIn(Nat, Len(wanted[d])) /\ c.held = cl[d].held
      /\ c.resumed = cl[d].resumed /\ c.done = cl[d].done /\ c.asking = cl[d].asking
      /\ \/ c.cursor = cl[d].cursor
         \/ x <= cl[d].cursor + 1 /\ c.cursor = Larger(cl[d].cursor, x)
      /\ c.pcursor = Larger(cl[d].pcursor, c.cursor)
  <2>1. PICK n, q, y, z : n = Len(wanted[d]) /\ q = cl[d] /\ y = x /\ z = TRUE
    OBVIOUS
  <2>2. PICK a : a = ApplyHttpAck(q, y)
    OBVIOUS
  <2>3. n \in Nat /\ q \in ClientIn(Nat, n) /\ y \in Nat /\ z \in BOOLEAN
    BY <1>3, <1>5, <2>1
  <2>4. /\ a \in ClientIn(Nat, n) /\ a.held = q.held
        /\ a.resumed = q.resumed /\ a.done = q.done /\ a.asking = q.asking
        /\ \/ a.cursor = q.cursor
           \/ y <= q.cursor + 1 /\ a.cursor = Larger(q.cursor, y)
        /\ a.pcursor = Larger(q.pcursor, a.cursor)
    <3>1. a = ApplyAck(q, y, z) \/ a = ApplyHttpAck(q, y)
      BY <2>2
    <3> QED BY <2>3, <3>1, AckWalks
  <2> QED BY <2>1, <2>2, <2>4 DEF c
<1>8. cl'[d].held = cl[d].held
  <2> DEFINE c2 == [c EXCEPT !.hEpoch = TRUE, !.hRow = TRUE]
  <2>1. cl' = [cl EXCEPT ![d] = c] \/ cl' = [cl EXCEPT ![d] = c2]
    BY <1>2 DEF Push, SetClient
  <2>2. c2.held = c.held
    BY <1>7 DEF ClientIn
  <2> HIDE DEF c2
  <2> QED BY <1>1, <1>7, <2>1, <2>2, Domains
<1>9. outbox'[d] = outbox[d] \ {b}
  BY <1>1, <1>2, Domains
<1>10. KeptAt(d)
  BY <1>2, <1>6, <1>8, <1>9 DEF KeptAt, Kept, RowIs, Admitted
<1>11. Now(d, cl[d], ses[d], c2s[d], s2c[d], http[d])
  BY <1>8, <1>10, StillFits
<1>12. Now(d, c, ses[d], c2s[d], s2c[d], http[d])
  <2> DEFINE cur == c.cursor
  <2>1. \/ cur = cl[d].cursor
        \/ /\ b \in Visible(cl[d].held, deps') /\ x <= cl[d].cursor + 1
           /\ cur = Larger(cl[d].cursor, x)
    BY <1>2, <1>6, <1>7
  <2>2. RowIs(room', x, b) /\ cl[d].cursor \in Int
    BY <1>2, <1>3, <1>6 DEF ClientIn
  <2> QED BY <1>7, <1>11, <2>1, <2>2, FitsStep DEF Now
<1>13. left \subseteq Visible(c.held, deps')
  BY <1>2, <1>6, <1>7
<1> QED BY <1>2, <1>7, <1>12, <1>13, PushFits

LEMMA HttpGetFits ==
  ASSUME Going, NEW d \in Devices, LaterAt(d), HttpGet(d)
  PROVE  DeviceOK(d)'
<1> DEFINE all == RowsAfter(room, http[d].after, NoDevice)
           page == {s \in DOMAIN all : Cardinality({t \in DOMAIN all : t <= s}) <= PageRows}
           rows == [s \in page |-> all[s]]
           st == State(room)
           whole == page = DOMAIN all
           h == [http[d] EXCEPT !.ph = "answered", !.st = st, !.rows = rows, !.whole = whole]
<1>1. Base /\ FormedAt(d)
  BY BaseFormed DEF Going, Provenance
<1>2. /\ http' = [http EXCEPT ![d] = h] /\ UNCHANGED <<room, cl, files, ses, c2s, s2c, wanted>>
      /\ outbox' = outbox
  BY DEF HttpGet, SetHttp, store, wire
<1>3. http[d] \in HttpIn(Nat, Nat, Len(wanted[d])) /\ Len(wanted[d]) \in Nat
  BY <1>1 DEF FormedAt, Formed
<1>4. /\ ~st.has /\ st.head = HeadSeq(room)
  BY DEF Going, Plain, State
<1>5. \A s \in DOMAIN rows : RowIs(room, s, rows[s])
  <2>1. \A s \in DOMAIN all : RowIs(room, s, all[s])
    BY DEF Going, Plain, RowsAfter, Rows, RowIs
  <2> QED BY <2>1
<1> HIDE DEF rows, st, whole, all, page
<1>6. h.ph = "answered" /\ h.st = st /\ h.rows = rows /\ h.ticket = http[d].ticket
  BY <1>3 DEF HttpIn, HttpRec
<1> HIDE DEF h
<1>7. http'[d] = h /\ cl'[d] = cl[d] /\ ses'[d] = ses[d] /\ c2s'[d] = c2s[d] /\ s2c'[d] = s2c[d]
  BY <1>1, <1>2, Domains
<1>8. Now(d, cl[d], ses[d], c2s[d], s2c[d], http[d])
  BY <1>2, <1>7, KeptSame, StillFits
<1>9. HttpOK(room', deps', cl[d].held, h)
  BY <1>1, <1>2, <1>4, <1>5, <1>6, BaseRoom DEF HttpOK
<1>10. \A i \in 1 .. h.ticket : wanted[d][i] \subseteq RowsTo(room', h.st.head)
  <2>1. h.ticket \in 0 .. Len(wanted[d]) /\ wanted[d] \in Seq(SUBSET Nat)
    BY <1>1, <1>3, <1>6 DEF HttpIn, HttpRec, Base
  <2>2. 1 .. h.ticket \subseteq DOMAIN wanted[d]
    BY <1>3, <2>1
  <2>3. RowsTo(room', h.st.head) = Admitted(room)
    BY <1>2, <1>4, <1>6 DEF RowsTo, Admitted
  <2> QED BY <2>2, <2>3 DEF Going, TicketRows
<1>11. Now(d, cl[d], ses[d], c2s[d], s2c[d], h)
  BY <1>8, <1>9, <1>10, FitsHttp DEF Now
<1> QED BY <1>2, <1>7, <1>11, DeviceIs

\* The cycle ends, and its answer may complete its ticket.
LEMMA FitsPulled ==
  ASSUME NEW r, NEW D, NEW d, NEW o, NEW n, NEW f, NEW k, NEW w, NEW c, NEW s, NEW up, NEW down,
         NEW h, Formed(n, f, k, c, s, up, down, h),
         Fits(r, D, d, o, f, k, w, c, s, up, down, h),
         NEW c2, c2.held = c.held, c2.cursor = c.cursor, c2.pcursor = c.pcursor,
         c2.resumed = c.resumed, c.asking => c2.asking,
         \/ c2.done = c.done
         \/ /\ h.ph \in {"answered", "applying"} /\ c.cursor >= h.st.head
            /\ c2.done = Larger(c.done, h.ticket)
  PROVE  Fits(r, D, d, o, f, k, w, c2, s, up, down, IdleHttp)
<1> DEFINE H == c.held
<1>1. TicketsOK(r, D, H, w, c.done, s, down, h)
  BY DEF Fits
<1>2. \A i \in 1 .. c2.done : w[i] \subseteq Visible(H, D)
  <2>1. CASE c2.done = c.done
    BY <1>1, <2>1 DEF TicketsOK
  <2>2. CASE /\ h.ph \in {"answered", "applying"} /\ c.cursor >= h.st.head
             /\ c2.done = Larger(c.done, h.ticket)
    <3>1. /\ c.cursor \in Int /\ h.st.head \in Int /\ c.done \in Nat /\ h.ticket \in Nat
      BY FormedFields
    <3>2. RowsTo(r, h.st.head) \subseteq RowsTo(r, c.cursor)
      BY <2>2, <3>1, RowsToGrow
    <3>3. RowsTo(r, c.cursor) \subseteq Visible(H, D)
      BY DEF Fits, CursorsOK, Shows
    <3>4. \A i \in 1 .. h.ticket : w[i] \subseteq RowsTo(r, h.st.head)
      BY <1>1, <2>2 DEF TicketsOK
    <3>5. \A i \in 1 .. c2.done : i \in 1 .. c.done \/ i \in 1 .. h.ticket
      BY <2>2, <3>1 DEF Larger
    <3> QED BY <1>1, <3>2, <3>3, <3>4, <3>5 DEF TicketsOK
  <2> QED BY <2>1, <2>2
<1>3. IdleHttp.ph = "idle"
  BY DEF IdleHttp
<1>4. HttpOK(r, D, H, IdleHttp) /\ TicketsOK(r, D, H, w, c2.done, s, down, IdleHttp)
  BY <1>1, <1>2, <1>3 DEF HttpOK, TicketsOK
<1>5. InOrder(s.ph, c2.asking, up, down)
  BY OrderAsking DEF Fits
<1> QED BY <1>4, <1>5 DEF Fits

LEMMA ApplyFits ==
  ASSUME Going, NEW d \in Devices, NEW left \in ClientIn(Nat, Len(wanted[d])),
         NEW h \in HttpRec(Nat, Nat, Len(wanted[d])), http[d].ph \in {"answered", "applying"},
         h.st = http[d].st, h.ticket = http[d].ticket,
         DOMAIN h.rows \subseteq DOMAIN http[d].rows,
         \A s \in DOMAIN h.rows : h.rows[s] = http[d].rows[s],
         Apply(d, left, h), UNCHANGED <<files, wanted, ses, c2s, s2c>>,
         Now(d, left, ses[d], c2s[d], s2c[d], http[d])
  PROVE  DeviceOK(d)'
<1>1. Base /\ FormedAt(d)
  BY BaseFormed DEF Going, Provenance
<1> DEFINE h2 == [h EXCEPT !.ph = "applying", !.after = 0, !.blob = {}]
           whole == h.whole /\ left.hEpoch /\ left.cursor >= h.st.head /\ ~left.needs
           gap == left.gap /\ ~(whole /\ left.hRow)
           caught == left.caught \/ whole
           done == IF whole /\ ~gap THEN Larger(left.done, h.ticket) ELSE left.done
           c2 == [CycleOver(left) EXCEPT !.caught = caught, !.gap = gap, !.done = done]
<1>2. \/ /\ DOMAIN h.rows # {} /\ cl' = [cl EXCEPT ![d] = left]
         /\ http' = [http EXCEPT ![d] = h2]
      \/ /\ cl' = [cl EXCEPT ![d] = c2] /\ http' = [http EXCEPT ![d] = IdleHttp]
  BY DEF Apply, SetHttp, SetClient
<1>3. h2.ph = "applying" /\ h2.st = http[d].st /\ h2.ticket = http[d].ticket /\ h2.rows = h.rows
  BY DEF HttpRec
<1>4. \/ done = left.done
      \/ left.cursor >= http[d].st.head /\ done = Larger(left.done, http[d].ticket)
  OBVIOUS
<1> HIDE DEF h2, whole, gap, caught, done
<1>5. /\ c2.held = left.held /\ c2.cursor = left.cursor /\ c2.pcursor = left.pcursor
      /\ c2.resumed = left.resumed /\ c2.asking = left.asking /\ c2.done = done
  BY DEF CycleOver, ClientIn
<1> HIDE DEF c2
<1>6. \/ cl'[d] = left /\ http'[d] = h2
      \/ cl'[d] = c2 /\ http'[d] = IdleHttp
  BY <1>1, <1>2, Domains
<1>7. Now(d, left, ses[d], c2s[d], s2c[d], h2)
  <2>1. HttpOK(room', deps', left.held, http[d])
    BY DEF Now, Fits
  <2>2. HttpOK(room', deps', left.held, h2)
    BY <1>3, <2>1 DEF HttpOK
  <2>3. \A i \in 1 .. h2.ticket : wanted[d][i] \subseteq RowsTo(room', h2.st.head)
    BY <1>3 DEF Now, Fits, TicketsOK
  <2> QED BY <1>3, <2>2, <2>3, FitsHttp DEF Now
<1>8. Now(d, c2, ses[d], c2s[d], s2c[d], IdleHttp)
  <2>1. Formed(Len(wanted[d]), flush[d], disk[d], left, ses[d], c2s[d], s2c[d], http[d])
    BY <1>1 DEF FormedAt, Formed
  <2> QED BY <1>4, <1>5, <2>1, FitsPulled DEF Now
<1> QED BY <1>6, <1>7, <1>8, DeviceIs

LEMMA HttpRowFits ==
  ASSUME Going, NEW d \in Devices, LaterAt(d), HttpRow(d)
  PROVE  DeviceOK(d)'
<1> DEFINE x == Min(DOMAIN http[d].rows)
           b == http[d].rows[x]
           c == ApplyRow(cl[d], x, b, deps)
           c1 == [cl[d] EXCEPT !.held = cl'[d].held]
           rows == [t \in DOMAIN http[d].rows \ {x} |-> http[d].rows[t]]
           h == [http[d] EXCEPT !.rows = rows]
<1>1. Base /\ FormedAt(d)
  BY BaseFormed DEF Going, Provenance
<1>2. /\ http[d].ph = "applying" /\ Apply(d, c, h)
      /\ UNCHANGED <<room, deps, files, ses, c2s, s2c, wanted>> /\ outbox' = outbox
  BY DEF HttpRow, store, wire
<1>3. /\ cl[d] \in ClientIn(Nat, Len(wanted[d])) /\ Len(wanted[d]) \in Nat
      /\ http[d] \in HttpIn(Nat, Nat, Len(wanted[d]))
  BY <1>1 DEF FormedAt, Formed
<1>4. /\ http[d] \in HttpRec(Nat, Nat, Len(wanted[d])) /\ DOMAIN http[d].rows # {}
      /\ http[d].rows \in RowMap(Nat)
  BY <1>2, <1>3 DEF HttpIn, HttpRec
<1>5. x \in DOMAIN http[d].rows /\ x \in Nat /\ b \in Nat /\ rows \in RowMap(Nat)
  <2>1. DOMAIN http[d].rows \subseteq Nat /\ \A y \in DOMAIN http[d].rows : http[d].rows[y] \in Nat
    BY <1>4, RowMapFacts
  <2>2. x \in DOMAIN http[d].rows
    BY <1>4, <2>1, MinIn
  <2>3. \A y : [t \in DOMAIN http[d].rows \ {y} |-> http[d].rows[t]] \in RowMap(Nat)
    BY <1>4, RowMapFacts
  <2> QED BY <2>1, <2>2, <2>3
<1>6. RowIs(room', x, b)
  <2>1. HttpOK(room, deps, cl[d].held, http[d])
    BY DEF Going, DeviceOK, Fits
  <2> QED BY <1>2, <1>5, <2>1 DEF HttpOK
<1>7. DOMAIN rows \subseteq DOMAIN http[d].rows /\ \A s \in DOMAIN rows : rows[s] = http[d].rows[s]
  OBVIOUS
<1> HIDE DEF x, b, c, rows
<1>8. /\ h \in HttpRec(Nat, Nat, Len(wanted[d])) /\ h.rows = rows
      /\ h.st = http[d].st /\ h.ticket = http[d].ticket
  BY <1>4, <1>5 DEF HttpRec
<1> HIDE DEF h
<1>9. /\ c \in ClientIn(Nat, Len(wanted[d])) /\ c.held = cl[d].held \union {b}
      /\ c.resumed = cl[d].resumed /\ c.done = cl[d].done /\ c.asking = cl[d].asking
      /\ \/ c.cursor = cl[d].cursor
         \/ /\ deps[b] \subseteq cl[d].held /\ x <= cl[d].cursor + 1
            /\ c.cursor = Larger(cl[d].cursor, x)
      /\ c.pcursor = cl[d].pcursor \/ c.pcursor = Larger(cl[d].pcursor, c.cursor)
  <2>1. PICK n, q : n = Len(wanted[d]) /\ q = cl[d]
    OBVIOUS
  <2>2. PICK a : a = ApplyRow(q, x, b, deps)
    OBVIOUS
  <2>3. n \in Nat /\ q \in ClientIn(Nat, n)
    BY <1>3, <2>1
  <2>4. /\ a \in ClientIn(Nat, n) /\ a.held = q.held \union {b}
        /\ a.resumed = q.resumed /\ a.done = q.done /\ a.asking = q.asking
        /\ \/ a.cursor = q.cursor
           \/ deps[b] \subseteq q.held /\ x <= q.cursor + 1 /\ a.cursor = Larger(q.cursor, x)
        /\ a.pcursor = q.pcursor \/ a.pcursor = Larger(q.pcursor, a.cursor)
    BY <1>5, <2>2, <2>3, RowApplied
  <2> QED BY <2>1, <2>2, <2>4 DEF c
<1>10. cl'[d].held = c.held
  <2> DEFINE whole == h.whole /\ c.hEpoch /\ c.cursor >= h.st.head /\ ~c.needs
             gap == c.gap /\ ~(whole /\ c.hRow)
             caught == c.caught \/ whole
             done == IF whole /\ ~gap THEN Larger(c.done, h.ticket) ELSE c.done
             c2 == [CycleOver(c) EXCEPT !.caught = caught, !.gap = gap, !.done = done]
  <2>1. cl' = [cl EXCEPT ![d] = c] \/ cl' = [cl EXCEPT ![d] = c2]
    BY <1>2 DEF Apply, SetClient
  <2> HIDE DEF gap, caught, done
  <2>2. c2.held = c.held
    BY <1>9 DEF CycleOver, ClientIn
  <2> HIDE DEF c2
  <2> QED BY <1>1, <2>1, <2>2, Domains
<1>11. /\ Now(d, c1, ses[d], c2s[d], s2c[d], http[d])
       /\ c1.held = cl'[d].held /\ Grown(cl[d], c1) /\ c1.asking = cl[d].asking
  <2>1. c1.asking = cl[d].asking
    BY <1>3 DEF ClientIn
  <2> QED BY <1>2, <2>1, KeptSame, GrownFits
<1> HIDE DEF c1
<1>12. Now(d, c, ses[d], c2s[d], s2c[d], http[d])
  <2> DEFINE cur == c.cursor
  <2>1. /\ c1.cursor \in Int /\ c1.held = c.held
        /\ \/ cur = c1.cursor
           \/ b \in Visible(c1.held, deps') /\ x <= c1.cursor + 1 /\ cur = Larger(c1.cursor, x)
    <3>1. c1.cursor = cl[d].cursor /\ cl[d].cursor \in Int /\ c1.held = c.held
      BY <1>3, <1>10, <1>11 DEF Grown, ClientIn
    <3>2. deps[b] \subseteq cl[d].held => b \in Visible(c.held, deps')
      BY <1>2, <1>9 DEF Visible
    <3> QED BY <1>9, <3>1, <3>2
  <2>2. /\ c.resumed = c1.resumed /\ c.done = c1.done
        /\ c1.asking => c.asking
        /\ c.pcursor = c1.pcursor \/ c.pcursor = Larger(c1.pcursor, cur)
    BY <1>9, <1>11 DEF Grown
  <2> QED BY <1>6, <1>11, <2>1, <2>2, FitsStep DEF Now
<1> QED BY <1>2, <1>7, <1>8, <1>9, <1>12, ApplyFits

\* The plan of the cycle never raises a cursor.
LEMMA Adopted ==
  ASSUME NEW n \in Nat, NEW c \in ClientIn(Nat, n), NEW st, NEW own \in Nat, own <= c.cursor,
         NEW same \in BOOLEAN, NEW a, a = Adopt(c, st, own, same)
  PROVE  /\ a \in ClientIn(Nat, n) /\ a.held = c.held /\ a.pcursor = c.pcursor
         /\ a.resumed = c.resumed /\ a.done = c.done /\ a.asking = c.asking
         /\ a.cursor \in Nat /\ a.cursor <= c.cursor
<1> DEFINE above == c.cursor > st.head
           cur == IF above THEN own ELSE Larger(c.cursor, own)
           needs == c.needs /\ ~same
<1>1. c.cursor \in Nat
  BY DEF ClientIn
<1>2. a = [c EXCEPT !.cursor = cur, !.needs = needs]
  BY DEF Adopt
<1> HIDE DEF above, needs
<1>3. cur \in Nat /\ cur <= c.cursor
  BY <1>1 DEF Larger
<1>4. a \in ClientIn(Nat, n) /\ a.held = c.held
  BY AdoptTyped
<1> HIDE DEF cur
<1>5. /\ a.cursor = cur /\ a.pcursor = c.pcursor
      /\ a.resumed = c.resumed /\ a.done = c.done /\ a.asking = c.asking
  BY <1>2 DEF ClientIn
<1> QED BY <1>3, <1>4, <1>5

LEMMA ShowsLess ==
  ASSUME NEW r, NEW D, NEW H, NEW n \in Int, NEW m \in Int, m <= n, HeadSeq(r) \in Nat,
         Shows(r, D, H, n)
  PROVE  Shows(r, D, H, m)
<1>1. RowsTo(r, m) \subseteq RowsTo(r, n)
  BY RowsToGrow
<1> QED BY <1>1 DEF Shows

LEMMA OverFits ==
  ASSUME Going, NEW d \in Devices, NEW n, NEW c \in ClientIn(Nat, n),
         SetClient(d, CycleOver(c)), SetHttp(d, IdleHttp),
         UNCHANGED <<files, wanted, ses, c2s, s2c>>,
         Now(d, c, ses[d], c2s[d], s2c[d], http[d])
  PROVE  DeviceOK(d)'
<1> DEFINE c2 == CycleOver(c)
<1>1. Base
  BY DEF Going, Provenance
<1>2. Alike(c, c2)
  BY DEF Alike, CycleOver, ClientIn
<1> HIDE DEF c2
<1>3. cl'[d] = c2 /\ http'[d] = IdleHttp
  BY <1>1, Domains DEF SetClient, SetHttp, c2
<1>4. Now(d, c2, ses[d], c2s[d], s2c[d], http[d])
  BY <1>2, FitsAlike DEF Now
<1>5. IdleHttp.ph = "idle" /\ HttpOK(room', deps', c2.held, IdleHttp)
  BY DEF IdleHttp, HttpOK
<1>6. Now(d, c2, ses[d], c2s[d], s2c[d], IdleHttp)
  BY <1>4, <1>5, FitsHttp DEF Now
<1> QED BY <1>3, <1>6, DeviceIs

LEMMA HttpFailsFits ==
  ASSUME Going, NEW d \in Devices, LaterAt(d), HttpFails(d) \/ HttpFetch(d) \/ HttpImport(d)
  PROVE  DeviceOK(d)'
<1>1. Base /\ FormedAt(d)
  BY BaseFormed DEF Going, Provenance
<1>2. http[d].ph \notin {"fetching", "importing"}
  BY DEF Going, DeviceOK, Fits, HttpOK
<1>3. HttpFails(d)
  BY <1>2 DEF HttpFetch, HttpImport
<1>4. /\ SetClient(d, CycleOver(cl[d])) /\ SetHttp(d, IdleHttp) /\ outbox' = outbox
      /\ UNCHANGED <<room, deps, files, wanted, ses, c2s, s2c>>
  BY <1>3 DEF HttpFails, store, wire
<1>5. cl[d] \in ClientIn(Nat, Len(wanted[d]))
  BY <1>1 DEF FormedAt, Formed
<1>6. cl'[d].held = cl[d].held
  <2>1. cl'[d] = CycleOver(cl[d])
    BY <1>1, <1>4, Domains DEF SetClient
  <2> QED BY <1>5, <2>1, CycleOverTyped
<1>7. Now(d, cl[d], ses[d], c2s[d], s2c[d], http[d])
  BY <1>4, <1>6, KeptSame, StillFits
<1> QED BY <1>4, <1>5, <1>7, OverFits

LEMMA HttpStateFits ==
  ASSUME Going, NEW d \in Devices, LaterAt(d), HttpState(d)
  PROVE  DeviceOK(d)'
<1> DEFINE h == http[d]
           wiped == h.after > h.st.head
           view == ViewOf(h.st)
           pcur == IF wiped THEN 0 ELSE cl[d].pcursor
           c == [cl[d] EXCEPT !.view = view, !.pcursor = pcur]
           a == Adopt(c, h.st, CatchUpAfter(h.after, h.st, TRUE), TRUE)
<1>1. Base /\ FormedAt(d)
  BY BaseFormed DEF Going, Provenance
<1>2. h.ph = "answered" /\ ~h.st.has
  BY DEF Going, DeviceOK, Fits, HttpOK, HttpState
<1>3. /\ UNCHANGED <<room, deps, files, ses, c2s, s2c, wanted>> /\ outbox' = outbox
  BY DEF HttpState, store, wire
<1>4. IF c.cursor < h.after /\ ~wiped
        THEN SetClient(d, CycleOver(c)) /\ SetHttp(d, IdleHttp)
        ELSE Apply(d, a, h)
  <2>1. Contained(c, h.st, deps)
    BY <1>2 DEF Contained
  <2> QED BY <2>1 DEF HttpState
<1>5. /\ cl[d] \in ClientIn(Nat, Len(wanted[d])) /\ Len(wanted[d]) \in Nat
      /\ h \in HttpIn(Nat, Nat, Len(wanted[d]))
  BY <1>1 DEF FormedAt, Formed
<1>6. /\ h \in HttpRec(Nat, Nat, Len(wanted[d])) /\ h.st \in StateIn(Nat) /\ h.after \in Nat
      /\ h.st.head \in Nat
  BY <1>5 DEF HttpIn, HttpRec, StateIn
<1>7. pcur \in {0, cl[d].pcursor}
  OBVIOUS
<1>8. view \in [known : BOOLEAN, rows : Int, has : BOOLEAN]
  BY <1>6 DEF ViewOf, StateIn
<1> HIDE DEF pcur, view
<1>9. /\ c.held = cl[d].held /\ c.cursor = cl[d].cursor /\ c.pcursor = pcur
      /\ c.resumed = cl[d].resumed /\ c.done = cl[d].done /\ c.asking = cl[d].asking
      /\ c \in ClientIn(Nat, Len(wanted[d]))
  <2>1. PICK n, q : n = Len(wanted[d]) /\ q = cl[d]
    OBVIOUS
  <2>2. q \in ClientIn(Nat, n)
    BY <1>5, <2>1
  <2>3. q.pcursor \in Nat
    BY <2>2 DEF ClientIn
  <2>4. pcur \in Nat
    BY <1>7, <2>1, <2>3
  <2>5. PICK e : e = [q EXCEPT !.view = view, !.pcursor = pcur]
    OBVIOUS
  <2>6. e \in ClientIn(Nat, n)
    BY <1>8, <2>2, <2>4, <2>5 DEF ClientIn
  <2>7. /\ e.held = q.held /\ e.cursor = q.cursor /\ e.pcursor = pcur
        /\ e.resumed = q.resumed /\ e.done = q.done /\ e.asking = q.asking
    BY <2>2, <2>5 DEF ClientIn
  <2> QED BY <2>1, <2>5, <2>6, <2>7
<1> HIDE DEF c, a, h
<1>10. ~(c.cursor < h.after /\ ~wiped) =>
       /\ a \in ClientIn(Nat, Len(wanted[d])) /\ a.held = c.held /\ a.pcursor = c.pcursor
       /\ a.resumed = c.resumed /\ a.done = c.done /\ a.asking = c.asking
       /\ a.cursor \in Nat /\ a.cursor <= c.cursor
  <2>1. SUFFICES ASSUME ~(c.cursor < h.after /\ ~wiped)
                 PROVE  /\ a \in ClientIn(Nat, Len(wanted[d])) /\ a.held = c.held
                        /\ a.pcursor = c.pcursor
                        /\ a.resumed = c.resumed /\ a.done = c.done /\ a.asking = c.asking
                        /\ a.cursor \in Nat /\ a.cursor <= c.cursor
    OBVIOUS
  <2>2. PICK n, q, st, own, same, e :
          /\ n = Len(wanted[d]) /\ q = c /\ st = h.st /\ same = TRUE /\ e = a
          /\ own = CatchUpAfter(h.after, h.st, TRUE)
    OBVIOUS
  <2>3. e = Adopt(q, st, own, same)
    BY <2>2 DEF a
  <2>4. n \in Nat /\ q \in ClientIn(Nat, n) /\ same \in BOOLEAN
    BY <1>5, <1>9, <2>2
  <2>5. own \in Nat /\ own <= q.cursor
    <3>1. q.cursor \in Nat /\ q = c
      BY <2>2, <2>4 DEF ClientIn
    <3>2. own = IF h.after > h.st.head THEN 0 ELSE h.after
      BY <1>2, <2>2 DEF CatchUpAfter
    <3> QED BY <1>6, <2>1, <3>1, <3>2
  <2>6. /\ e \in ClientIn(Nat, n) /\ e.held = q.held /\ e.pcursor = q.pcursor
        /\ e.resumed = q.resumed /\ e.done = q.done /\ e.asking = q.asking
        /\ e.cursor \in Nat /\ e.cursor <= q.cursor
    BY <2>3, <2>4, <2>5, Adopted
  <2> QED BY <2>2, <2>6
<1>11. cl'[d].held = cl[d].held
  <2>1. CASE c.cursor < h.after /\ ~wiped
    <3>1. cl'[d] = CycleOver(c)
      BY <1>1, <1>4, <2>1, Domains DEF SetClient
    <3> QED BY <1>9, <3>1, CycleOverTyped
  <2>2. CASE ~(c.cursor < h.after /\ ~wiped)
    <3> DEFINE whole == h.whole /\ a.hEpoch /\ a.cursor >= h.st.head /\ ~a.needs
               gap == a.gap /\ ~(whole /\ a.hRow)
               caught == a.caught \/ whole
               done == IF whole /\ ~gap THEN Larger(a.done, h.ticket) ELSE a.done
               c2 == [CycleOver(a) EXCEPT !.caught = caught, !.gap = gap, !.done = done]
    <3>1. cl' = [cl EXCEPT ![d] = a] \/ cl' = [cl EXCEPT ![d] = c2]
      BY <1>4, <2>2 DEF Apply, SetClient
    <3> HIDE DEF gap, caught, done
    <3>2. c2.held = a.held
      BY <1>10, <2>2 DEF CycleOver, ClientIn
    <3> HIDE DEF c2
    <3> QED BY <1>1, <1>9, <1>10, <2>2, <3>1, <3>2, Domains
  <2> QED BY <2>1, <2>2
<1>12. Now(d, cl[d], ses[d], c2s[d], s2c[d], http[d])
  BY <1>3, <1>11, KeptSame, StillFits
<1>13. /\ HeadSeq(room') \in Nat /\ cl[d].cursor \in Nat /\ cl[d].pcursor \in Nat
       /\ Shows(room', deps', cl[d].held, cl[d].cursor)
       /\ Shows(room', deps', cl[d].held, cl[d].pcursor)
       /\ Shows(room', deps', cl[d].held, pcur)
  <2>1. HeadSeq(room') \in Nat /\ cl[d].cursor \in Nat /\ cl[d].pcursor \in Nat
    BY <1>1, <1>3, <1>5, BaseRoom DEF ClientIn
  <2>2. /\ Shows(room', deps', cl[d].held, cl[d].cursor)
        /\ Shows(room', deps', cl[d].held, cl[d].pcursor)
    BY <1>12 DEF Now, Fits, CursorsOK
  <2>3. Shows(room', deps', cl[d].held, 0)
    BY <2>1, <2>2, ShowsLess
  <2> QED BY <1>7, <2>1, <2>2, <2>3
<1>14. CASE c.cursor < h.after /\ ~wiped
  <2>1. Now(d, c, ses[d], c2s[d], s2c[d], http[d])
    BY <1>9, <1>12, <1>13, FitsWalk DEF Now
  <2> QED BY <1>3, <1>4, <1>9, <1>14, <2>1, OverFits
<1>15. CASE ~(c.cursor < h.after /\ ~wiped)
  <2>1. Shows(room', deps', cl[d].held, a.cursor)
    BY <1>9, <1>10, <1>13, <1>15, ShowsLess
  <2>2. /\ a.held = cl[d].held /\ a.pcursor = pcur /\ a.resumed = cl[d].resumed
        /\ a.done = cl[d].done /\ a.asking = cl[d].asking
    BY <1>9, <1>10, <1>15
  <2>3. Now(d, a, ses[d], c2s[d], s2c[d], http[d])
    BY <1>12, <1>13, <2>1, <2>2, FitsWalk DEF Now
  <2>4. /\ Apply(d, a, http[d]) /\ http[d].ph = "answered"
        /\ http[d] \in HttpRec(Nat, Nat, Len(wanted[d]))
    BY <1>2, <1>4, <1>6, <1>15 DEF h
  <2> QED BY <1>3, <1>10, <1>15, <2>3, <2>4, ApplyFits
<1> QED BY <1>14, <1>15

-----------------------------------------------------------------------------
(* The room answers a device. *)

\* The state, to a session that said hello
LEMMA FitsState ==
  ASSUME NEW r, NEW D, NEW d, NEW o, NEW f, NEW k, NEW w, NEW c, NEW s, NEW up, NEW h,
         Fits(r, D, d, o, f, k, w, c, s, up, <<>>, h),
         NEW m, m.t = "state", ~m.st.has
  PROVE  Fits(r, D, d, o, f, k, w, c, s, <<>>, Append(<<>>, m), h)
<1> DEFINE down == Append(<<>>, m)
<1>1. \A i \in DOMAIN down : down[i] = m
  OBVIOUS
<1>2. ~IsAnswer(m) /\ m.t # "ack" /\ DownOK(r, D, d, c.held, o, m)
  BY DEF IsAnswer, DownOK
<1> HIDE DEF down
<1>3. \A i \in DOMAIN down : ~IsAnswer(down[i]) /\ down[i].t # "ack"
                             /\ DownOK(r, D, d, c.held, o, down[i])
  BY <1>1, <1>2
<1>4. InOrder(s.ph, c.asking, <<>>, down)
  BY <1>3 DEF InOrder
<1>5. TicketsOK(r, D, c.held, w, c.done, s, down, h)
  BY <1>3 DEF Fits, TicketsOK
<1> QED BY <1>3, <1>4, <1>5 DEF Fits, down

LEMMA RoomHelloFits ==
  ASSUME Going, NEW d \in Devices, LaterAt(d), RoomHello(d)
  PROVE  DeviceOK(d)'
<1> DEFINE st == State(room)
           m == [t |-> "state", st |-> st]
<1>1. Base /\ FormedAt(d)
  BY BaseFormed DEF Going, Provenance
<1>2. /\ socket[d] # "closed" /\ c2s[d] # <<>> /\ Head(c2s[d]).t = "hello"
      /\ c2s' = [c2s EXCEPT ![d] = Tail(c2s[d])]
      /\ s2c' = [s2c EXCEPT ![d] = Append(s2c[d], m)]
      /\ UNCHANGED <<room, deps, cl, files, ses, http, wanted>> /\ outbox' = outbox
  BY DEF RoomHello, Received, store
<1>3. c2s[d] \in Seq(Up(Nat))
  BY <1>1 DEF FormedAt, Formed
<1>4. c2s[d] = <<[t |-> "hello"]>> /\ s2c[d] = <<>>
  <2>1. GreetOK(ses[d].ph, socket[d], c2s[d], s2c[d])
    BY <1>1 DEF Base, Within, Greeted
  <2>2. 1 \in DOMAIN c2s[d] /\ c2s[d][1].t = "hello"
    BY <1>2, <1>3, TailAt
  <2> QED BY <2>1, <2>2 DEF GreetOK, NoHello
<1>5. m.t = "state" /\ ~m.st.has
  BY DEF Going, Plain, State
<1> HIDE DEF m
<1>6. /\ c2s'[d] = <<>> /\ s2c'[d] = Append(<<>>, m)
      /\ cl'[d] = cl[d] /\ ses'[d] = ses[d] /\ http'[d] = http[d]
  <2>1. Tail(c2s[d]) = <<>>
    BY <1>4
  <2> QED BY <1>1, <1>2, <1>4, <2>1, Domains
<1>7. Now(d, cl[d], ses[d], c2s[d], s2c[d], http[d])
  BY <1>2, <1>6, KeptSame, StillFits
<1>8. Now(d, cl[d], ses[d], c2s[d], <<>>, http[d])
  BY <1>4, <1>7
<1>9. Now(d, cl[d], ses[d], <<>>, Append(<<>>, m), http[d])
  BY <1>5, <1>8, FitsState DEF Now
<1> QED BY <1>2, <1>6, <1>9, DeviceIs

\* The answer to a request
LEMMA AnswerFits ==
  ASSUME ChatAssumption, NEW r \in RoomIn, r.floor = 0, NEW D, NEW d, NEW H, NEW o, o \subseteq H,
         NEW resumed, OwnRows(r, d, H, resumed), NEW shown, PendingOK(r, D, H, o, shown),
         NEW q, q.t = "rowsReq", q.after \in Nat, UpOK(r, D, H, o, resumed, q),
         NEW m, m.t = "rows", m.done = TRUE, m.head = HeadSeq(r),
         m.rows = RowsAfter(r, q.after, IF q.excludeOwn THEN d ELSE NoDevice)
  PROVE  IsAnswer(m) /\ DownOK(r, D, d, H, o, m)
<1> DEFINE ex == IF q.excludeOwn THEN d ELSE NoDevice
<1>1. HeadSeq(r) \in Nat /\ \A s \in 1 .. HeadSeq(r) : r.log[s].device \in Devices
  <2>1. PICK S : S = [device : Devices, batch : Nat]
    OBVIOUS
  <2>2. r.log \in Seq(S)
    BY <2>1 DEF RoomIn
  <2>3. Len(r.log) \in Nat /\ \A s \in 1 .. Len(r.log) : r.log[s] \in S
    BY <2>2
  <2> QED BY <2>1, <2>3 DEF HeadSeq
<1>2. /\ DOMAIN m.rows = {s \in 1 .. HeadSeq(r) : s > q.after /\ r.log[s].device # ex}
      /\ \A s \in DOMAIN m.rows : m.rows[s] = r.log[s].batch
  BY DEF RowsAfter, Rows
<1>3. Shows(r, D, H, q.after) /\ (q.excludeOwn => resumed)
  BY DEF UpOK
<1>4. ASSUME NEW s \in 1 .. HeadSeq(r), s \notin DOMAIN m.rows
      PROVE  r.log[s].batch \in H
  <2>1. s <= q.after \/ r.log[s].device = ex
    BY <1>1, <1>2, <1>4
  <2>2. CASE s <= q.after
    <3>1. s \in 1 .. q.after
      BY <2>2
    <3> QED BY <1>3, <3>1 DEF Shows, RowsTo, Visible
  <2>3. CASE r.log[s].device = ex
    <3>1. q.excludeOwn /\ r.log[s].device = d
      BY <1>1, <2>3 DEF ChatAssumption
    <3> QED BY <1>3, <3>1 DEF OwnRows
  <2> QED BY <2>1, <2>2, <2>3
<1>5. \A b \in o : D[b] \subseteq H \union {m.rows[s] : s \in DOMAIN m.rows}
  <2>1. Admitted(r) \subseteq H \union {m.rows[s] : s \in DOMAIN m.rows}
    BY <1>2, <1>4 DEF Admitted
  <2> QED BY <2>1 DEF PendingOK
<1>6. Answers(r, D, d, H, o, m)
  BY <1>1, <1>4, <1>5 DEF Answers
<1>7. \A s \in DOMAIN m.rows : RowIs(r, s, m.rows[s])
  BY <1>2 DEF RowIs
<1> QED BY <1>6, <1>7 DEF DownOK, IsAnswer

LEMMA OrderAnswer ==
  ASSUME NEW ph, NEW a, NEW up \in Seq(Up(Nat)), up # <<>>, IsRequest(Head(up)),
         NEW S, NEW down \in Seq(S), NEW m, IsAnswer(m), InOrder(ph, a, up, down)
  PROVE  /\ InOrder(ph, a, Tail(up), Append(down, m))
         /\ \A i \in DOMAIN down : ~IsAnswer(down[i])
<1> DEFINE n == Len(down) + 1
           down2 == Append(down, m)
<1>1. /\ 1 \in DOMAIN up /\ up[1] = Head(up)
      /\ \A i \in DOMAIN Tail(up) : i \in Int /\ i + 1 \in DOMAIN up /\ i + 1 # 1
                                    /\ Tail(up)[i] = up[i + 1]
  BY TailAt
<1>2. /\ \A i \in DOMAIN down2 : \/ i \in DOMAIN down /\ down2[i] = down[i]
                                 \/ i = n /\ down2[i] = m
      /\ n \in DOMAIN down2 /\ down2[n] = m
  BY AppendAt
<1> HIDE DEF n, down2
<1>3. \A i \in DOMAIN up : IsRequest(up[i]) => i = 1
  BY <1>1 DEF InOrder
<1>4. \A i \in DOMAIN Tail(up) : ~IsRequest(Tail(up)[i])
  BY <1>1, <1>3
<1>5. \A i \in DOMAIN down : ~IsAnswer(down[i])
  BY <1>1 DEF InOrder
<1>6. ph # "hello" /\ (ph = "up" => a)
  BY <1>1 DEF InOrder
<1>7. ph # "up" => \A i \in DOMAIN down : down[i].t # "ack"
  BY <1>5 DEF InOrder
<1>8. m.t # "ack"
  BY DEF IsAnswer
<1>9. InOrder(ph, a, Tail(up), down2)
  BY <1>2, <1>4, <1>5, <1>6, <1>7, <1>8 DEF InOrder
<1> QED BY <1>5, <1>9 DEF down2

LEMMA FitsRows ==
  ASSUME ChatAssumption, NEW r \in RoomIn, r.floor = 0, NEW D, NEW d, NEW o, NEW n, NEW f, NEW k,
         NEW w, NEW c, NEW s, NEW up, NEW down, NEW h, Formed(n, f, k, c, s, up, down, h),
         Fits(r, D, d, o, f, k, w, c, s, up, down, h), o \subseteq c.held,
         \A i \in 1 .. n : w[i] \subseteq Admitted(r),
         up # <<>>, Head(up).t = "rowsReq",
         NEW m, m.t = "rows", m.done = TRUE, m.head = HeadSeq(r),
         m.rows = RowsAfter(r, Head(up).after, IF Head(up).excludeOwn THEN d ELSE NoDevice)
  PROVE  Fits(r, D, d, o, f, k, w, c, s, Tail(up), Append(down, m), h)
<1> DEFINE q == Head(up)
           down2 == Append(down, m)
<1>1. up \in Seq(Up(Nat)) /\ down \in Seq(Down(Nat, Nat))
  BY DEF Formed
<1>2. /\ 1 \in DOMAIN up /\ up[1] = q /\ q \in Up(Nat)
      /\ \A i \in DOMAIN Tail(up) : i + 1 \in DOMAIN up /\ Tail(up)[i] = up[i + 1]
  BY <1>1, TailAt, SeqHead
<1>3. q.after \in Nat
  BY <1>2 DEF Up
<1>4. \A i \in DOMAIN down2 : \/ i \in DOMAIN down /\ down2[i] = down[i]
                              \/ down2[i] = m
  BY <1>1, AppendAt
<1>5. IsAnswer(m) /\ DownOK(r, D, d, c.held, o, m)
  <2>1. UpOK(r, D, c.held, o, c.resumed, q) /\ OwnRows(r, d, c.held, c.resumed)
    BY <1>2 DEF Fits
  <2>2. PendingOK(r, D, c.held, o, s.ph = "up" \/ d \in Transport)
    BY DEF Fits
  <2>3. PICK z : z = (s.ph = "up" \/ d \in Transport)
    OBVIOUS
  <2>4. PendingOK(r, D, c.held, o, z)
    BY <2>2, <2>3
  <2> QED BY <1>3, <2>1, <2>4, AnswerFits
<1>6. InOrder(s.ph, c.asking, Tail(up), down2) /\ \A i \in DOMAIN down : ~IsAnswer(down[i])
  <2>1. IsRequest(Head(up)) /\ InOrder(s.ph, c.asking, up, down)
    BY DEF IsRequest, Fits
  <2> QED BY <1>1, <1>5, <2>1, OrderAnswer
<1> HIDE DEF down2
<1>7. \A i \in DOMAIN down2 : DownOK(r, D, d, c.held, o, down2[i])
  BY <1>4, <1>5 DEF Fits
<1>8. \A i \in DOMAIN Tail(up) : UpOK(r, D, c.held, o, c.resumed, Tail(up)[i])
  BY <1>2 DEF Fits
<1>9. TicketsOK(r, D, c.held, w, c.done, s, down2, h)
  <2>1. TicketsOK(r, D, c.held, w, c.done, s, down, h)
    BY DEF Fits
  <2>2. n \in Nat /\ s.ticket \in 0 .. n /\ s.refresh \in 0 .. n
    BY DEF Formed, SessionIn
  <2>3. \A i \in 1 .. s.ticket \union 1 .. s.refresh : w[i] \subseteq RowsTo(r, m.head)
    BY <2>2 DEF RowsTo, Admitted
  <2> QED BY <1>4, <1>6, <2>1, <2>3 DEF TicketsOK
<1> QED BY <1>6, <1>7, <1>8, <1>9 DEF Fits, down2

LEMMA RoomRowsFits ==
  ASSUME ChatAssumption, Going, NEW d \in Devices, LaterAt(d), RoomRows(d)
  PROVE  DeviceOK(d)'
<1> DEFINE q == Head(c2s[d])
           rows == RowsAfter(room, q.after, IF q.excludeOwn THEN d ELSE NoDevice)
           m == [t |-> "rows", rows |-> rows, done |-> TRUE, head |-> HeadSeq(room)]
<1>1. Base /\ FormedAt(d) /\ room \in RoomIn /\ room.floor = 0
  BY BaseFormed, BaseRoom DEF Going, Provenance, Plain
<1>2. /\ c2s[d] # <<>> /\ q.t = "rowsReq"
      /\ c2s' = [c2s EXCEPT ![d] = Tail(c2s[d])]
      /\ s2c' = [s2c EXCEPT ![d] = Append(s2c[d], m)]
      /\ UNCHANGED <<room, deps, cl, files, ses, http, wanted>> /\ outbox' = outbox
  BY DEF RoomRows, Received, store
<1>3. m.t = "rows" /\ m.done = TRUE /\ m.head = HeadSeq(room) /\ m.rows = rows
  OBVIOUS
<1> HIDE DEF m
<1>4. /\ c2s'[d] = Tail(c2s[d]) /\ s2c'[d] = Append(s2c[d], m)
      /\ cl'[d] = cl[d] /\ ses'[d] = ses[d] /\ http'[d] = http[d]
  BY <1>1, <1>2, Domains
<1>5. Now(d, cl[d], ses[d], c2s[d], s2c[d], http[d])
  BY <1>2, <1>4, KeptSame, StillFits
<1>6. \A i \in 1 .. Len(wanted[d]) : wanted[d][i] \subseteq Admitted(room)
  <2>1. wanted[d] \in Seq(SUBSET Nat)
    BY <1>1 DEF Base
  <2> QED BY <2>1 DEF Going, TicketRows
<1>7. Now(d, cl[d], ses[d], Tail(c2s[d]), Append(s2c[d], m), http[d])
  <2>1. PICK e, x, up, down, h, n :
          /\ e = cl[d] /\ x = ses[d] /\ up = c2s[d] /\ down = s2c[d] /\ h = http[d]
          /\ n = Len(wanted[d])
    OBVIOUS
  <2>2. PICK r, D, o, f, k, w :
          /\ r = room' /\ D = deps' /\ o = outbox'[d] /\ f = flush[d] /\ k = disk[d]
          /\ w = wanted[d]
    OBVIOUS
  <2>3. /\ Formed(n, f, k, e, x, up, down, h) /\ r \in RoomIn /\ r.floor = 0
        /\ Fits(r, D, d, o, f, k, w, e, x, up, down, h)
        /\ \A i \in 1 .. n : w[i] \subseteq Admitted(r)
    BY <1>1, <1>2, <1>5, <1>6, <2>1, <2>2 DEF Now, FormedAt
  <2>4. o \subseteq e.held
    BY <1>1, <1>2, <2>1, <2>2 DEF Base
  <2>5. /\ up # <<>> /\ Head(up).t = "rowsReq" /\ m.head = HeadSeq(r)
        /\ m.rows = RowsAfter(r, Head(up).after, IF Head(up).excludeOwn THEN d ELSE NoDevice)
    BY <1>2, <1>3, <2>1, <2>2
  <2>6. Fits(r, D, d, o, f, k, w, e, x, Tail(up), Append(down, m), h)
    BY <1>3, <2>3, <2>4, <2>5, FitsRows
  <2> QED BY <2>1, <2>2, <2>6 DEF Now
<1> QED BY <1>2, <1>4, <1>7, DeviceIs

\* A push, or a part of it, is taken: a session that still fills its document
\* has its answer already.
LEMMA OrderTaken ==
  ASSUME NEW ph, NEW a, NEW up \in Seq(Up(Nat)), up # <<>>, Head(up).t = "push",
         NEW down, InOrder(ph, a, up, down), NEW m, m.t = "push"
  PROVE  /\ InOrder(ph, a, Tail(up), down) /\ InOrder(ph, a, <<m>> \o Tail(up), down)
         /\ ph = "up" \/ \E i \in DOMAIN down : IsAnswer(down[i])
<1> DEFINE up2 == Tail(up)
           up3 == <<m>> \o Tail(up)
<1>1. /\ 1 \in DOMAIN up /\ up[1] = Head(up)
      /\ \A i \in DOMAIN up2 : i \in Int /\ i + 1 \in DOMAIN up /\ i + 1 # 1
                               /\ up2[i] = up[i + 1]
      /\ \A i \in DOMAIN up : i \in Int /\ i >= 1
                              /\ (i # 1 => i - 1 \in DOMAIN up2 /\ up2[i - 1] = up[i])
  BY TailAt
<1>2. /\ DOMAIN up3 = DOMAIN up /\ up3[1] = m
      /\ \A i \in DOMAIN up : i # 1 => up3[i] = up[i]
  BY ConsAt
<1> HIDE DEF up2, up3
<1>3. ~IsRequest(up[1]) /\ up[1].t = "push" /\ ~IsRequest(m)
  BY <1>1 DEF IsRequest
<1>4. {i \in DOMAIN up3 : IsRequest(up3[i])} = {i \in DOMAIN up : IsRequest(up[i])}
  BY <1>2, <1>3
<1>5. \A i \in DOMAIN up3 : up3[i].t = "push" => up[i].t = "push"
  BY <1>1, <1>2, <1>3
<1>6. InOrder(ph, a, up3, down)
  BY <1>2, <1>4, <1>5 DEF InOrder
<1>7. /\ \A i \in DOMAIN up2 : IsRequest(up2[i]) => i + 1 \in {j \in DOMAIN up : IsRequest(up[j])}
      /\ \A j \in DOMAIN up : IsRequest(up[j]) =>
           j - 1 \in {i \in DOMAIN up2 : IsRequest(up2[i])}
  BY <1>1, <1>3
<1>8. InOrder(ph, a, up2, down)
  <2> DEFINE requests == {i \in DOMAIN up2 : IsRequest(up2[i])}
             answers == {i \in DOMAIN down : IsAnswer(down[i])}
  <2>1. \A i, j \in requests : i = j
    <3>1. \A i, j \in requests : i + 1 = j + 1 /\ i \in Int /\ j \in Int
      BY <1>1, <1>7 DEF InOrder
    <3> QED BY <3>1
  <2>2. requests = {} \/ answers = {}
    BY <1>7 DEF InOrder
  <2>3. ph = "hello" \/ (ph = "up" /\ ~a) => requests = {} /\ answers = {}
    BY <1>7 DEF InOrder
  <2>4. ASSUME ph # "up", NEW i \in DOMAIN up2, up2[i].t = "push", answers = {}
        PROVE  \E j \in requests : j < i
    <3>1. i + 1 \in DOMAIN up /\ up[i + 1].t = "push" /\ i \in Int
      BY <1>1, <2>4
    <3>2. PICK j \in DOMAIN up : IsRequest(up[j]) /\ j < i + 1
      BY <2>4, <3>1 DEF InOrder
    <3>3. j - 1 \in requests /\ j - 1 < i
      BY <1>1, <1>7, <3>1, <3>2
    <3> QED BY <3>3
  <2>5. /\ \A i, j \in answers : i = j
        /\ ph # "up" => \A i \in DOMAIN down : down[i].t = "ack" => \E j \in answers : j < i
    BY DEF InOrder
  <2> HIDE DEF requests, answers
  <2>6. ph # "up" => \A i \in DOMAIN up2 : up2[i].t = "push" =>
                       answers # {} \/ \E j \in requests : j < i
    BY <2>4
  <2> QED BY <2>1, <2>2, <2>3, <2>5, <2>6 DEF InOrder, requests, answers
<1>9. ph = "up" \/ \E i \in DOMAIN down : IsAnswer(down[i])
  BY <1>1, <1>3 DEF InOrder
<1> QED BY <1>6, <1>8, <1>9 DEF up2, up3

LEMMA FitsTaken ==
  ASSUME NEW r, NEW D, NEW d, NEW o, NEW f, NEW k, NEW w, NEW c, NEW s, NEW down, NEW h,
         NEW up \in Seq(Up(Nat)), up # <<>>, Head(up).t = "push",
         Fits(r, D, d, o, f, k, w, c, s, up, down, h),
         NEW m, m.t = "push", m.batches \subseteq Head(up).batches
  PROVE  /\ Fits(r, D, d, o, f, k, w, c, s, Tail(up), down, h)
         /\ Fits(r, D, d, o, f, k, w, c, s, <<m>> \o Tail(up), down, h)
         /\ s.ph = "up" \/ \E i \in DOMAIN down : IsAnswer(down[i])
         /\ Head(up).batches \subseteq o \union Visible(c.held, D)
<1> DEFINE up2 == Tail(up)
           up3 == <<m>> \o Tail(up)
<1>1. /\ 1 \in DOMAIN up /\ up[1] = Head(up)
      /\ \A i \in DOMAIN up2 : i + 1 \in DOMAIN up /\ up2[i] = up[i + 1]
  BY TailAt
<1>2. /\ DOMAIN up3 = DOMAIN up /\ up3[1] = m
      /\ \A i \in DOMAIN up : i # 1 => up3[i] = up[i]
  BY ConsAt
<1>3. /\ InOrder(s.ph, c.asking, up2, down) /\ InOrder(s.ph, c.asking, up3, down)
      /\ s.ph = "up" \/ \E i \in DOMAIN down : IsAnswer(down[i])
  BY OrderTaken DEF Fits
<1> HIDE DEF up2, up3
<1>4. Head(up).batches \subseteq o \union Visible(c.held, D)
  BY <1>1 DEF Fits, UpOK
<1>5. UpOK(r, D, c.held, o, c.resumed, m)
  BY <1>4 DEF UpOK
<1>6. /\ \A i \in DOMAIN up2 : UpOK(r, D, c.held, o, c.resumed, up2[i])
      /\ \A i \in DOMAIN up3 : UpOK(r, D, c.held, o, c.resumed, up3[i])
  BY <1>1, <1>2, <1>5 DEF Fits
<1> QED BY <1>3, <1>4, <1>6 DEF Fits, up2, up3

\* An ack, or the word that the quota is used up
LEMMA FitsTold ==
  ASSUME NEW r, NEW D, NEW d, NEW o, NEW f, NEW k, NEW w, NEW c, NEW s, NEW up, NEW S,
         NEW down \in Seq(S), NEW h, Fits(r, D, d, o, f, k, w, c, s, up, down, h),
         s.ph = "up" \/ \E i \in DOMAIN down : IsAnswer(down[i]),
         NEW m, m.t \in {"ack", "quota"},
         m.t = "ack" => RowIs(r, m.seq, m.batch) /\ m.batch \in o \union Visible(c.held, D)
  PROVE  Fits(r, D, d, o, f, k, w, c, s, up, Append(down, m), h)
<1> DEFINE n == Len(down) + 1
           down2 == Append(down, m)
<1>1. /\ \A i \in DOMAIN down2 : \/ i \in DOMAIN down /\ down2[i] = down[i]
                                 \/ i \notin DOMAIN down /\ i = n /\ down2[i] = m
      /\ \A i \in DOMAIN down : i \in DOMAIN down2 /\ down2[i] = down[i] /\ i \in Int /\ i < n
  BY AppendAt
<1>2. ~IsAnswer(m) /\ DownOK(r, D, d, c.held, o, m)
  BY DEF IsAnswer, DownOK
<1> HIDE DEF n, down2
<1>3. {i \in DOMAIN down2 : IsAnswer(down2[i])} = {i \in DOMAIN down : IsAnswer(down[i])}
  BY <1>1, <1>2
<1>4. \A i \in DOMAIN down2 : DownOK(r, D, d, c.held, o, down2[i])
  BY <1>1, <1>2 DEF Fits
<1>5. InOrder(s.ph, c.asking, up, down2)
  <2>1. InOrder(s.ph, c.asking, up, down)
    BY DEF Fits
  <2>2. s.ph # "up" => \A i \in DOMAIN down2 : down2[i].t = "ack" =>
          \E j \in {i1 \in DOMAIN down : IsAnswer(down[i1])} : j < i
    BY <1>1, <2>1 DEF InOrder
  <2> QED BY <1>3, <2>1, <2>2 DEF InOrder
<1>6. TicketsOK(r, D, c.held, w, c.done, s, down2, h)
  BY <1>1, <1>2 DEF Fits, TicketsOK
<1> QED BY <1>4, <1>5, <1>6 DEF Fits, down2

\* A push that was taken, and what the device is told of it
LEMMA ToldFits ==
  ASSUME Going, NEW d \in Devices, LaterAt(d), Received(d, "push"), PushTaken(d),
         NEW m, m.t \in {"ack", "quota"}, s2c'[d] = Append(s2c[d], m),
         m.t = "ack" => /\ RowIs(room', m.seq, m.batch)
                        /\ m.batch = Min(Head(c2s[d]).batches),
         outbox' = outbox, UNCHANGED <<deps, cl, files, ses, http, wanted>>
  PROVE  DeviceOK(d)'
<1> DEFINE q == Head(c2s[d])
           left == q.batches \ {Min(q.batches)}
           x == [q EXCEPT !.batches = left]
<1>1. Base /\ FormedAt(d)
  BY BaseFormed DEF Going, Provenance
<1>2. /\ c2s[d] # <<>> /\ q.t = "push"
      /\ c2s' = [c2s EXCEPT ![d] = (IF left = {} THEN <<>> ELSE <<x>>) \o Tail(c2s[d])]
  BY DEF Received, PushTaken
<1>3. c2s[d] \in Seq(Up(Nat)) /\ s2c[d] \in Seq(Down(Nat, Nat))
  BY <1>1 DEF FormedAt, Formed
<1>4. q \in Up(Nat) /\ Tail(c2s[d]) \in Seq(Up(Nat))
  BY <1>2, <1>3, SeqHead
<1>5. /\ x.t = "push" /\ x.batches \subseteq q.batches /\ q.batches # {} /\ q.batches \subseteq Nat
  BY <1>2, <1>4 DEF Up
<1>6. Min(q.batches) \in q.batches
  BY <1>5, MinIn
<1> HIDE DEF x, left
<1>7. c2s'[d] = Tail(c2s[d]) \/ c2s'[d] = <<x>> \o Tail(c2s[d])
  <2>1. c2s'[d] = (IF left = {} THEN <<>> ELSE <<x>>) \o Tail(c2s[d])
    BY <1>1, <1>2, Domains
  <2>2. <<>> \o Tail(c2s[d]) = Tail(c2s[d])
    BY <1>4
  <2>3. CASE left = {}
    BY <2>1, <2>2, <2>3
  <2>4. CASE left # {}
    BY <2>1, <2>4
  <2> QED BY <2>3, <2>4
<1>8. Now(d, cl[d], ses[d], c2s[d], s2c[d], http[d])
  BY KeptSame, StillFits
<1>9. /\ Now(d, cl[d], ses[d], c2s'[d], s2c[d], http[d])
      /\ ses[d].ph = "up" \/ \E i \in DOMAIN s2c[d] : IsAnswer(s2c[d][i])
      /\ q.batches \subseteq outbox'[d] \union Visible(cl[d].held, deps')
  <2>1. /\ Now(d, cl[d], ses[d], Tail(c2s[d]), s2c[d], http[d])
        /\ Now(d, cl[d], ses[d], <<x>> \o Tail(c2s[d]), s2c[d], http[d])
        /\ ses[d].ph = "up" \/ \E i \in DOMAIN s2c[d] : IsAnswer(s2c[d][i])
        /\ q.batches \subseteq outbox'[d] \union Visible(cl[d].held, deps')
    <3>1. PICK e, z, up, down, h :
            e = cl[d] /\ z = ses[d] /\ up = c2s[d] /\ down = s2c[d] /\ h = http[d]
      OBVIOUS
    <3>2. PICK r, D, o, f, k, w :
            /\ r = room' /\ D = deps' /\ o = outbox'[d] /\ f = flush[d] /\ k = disk[d]
            /\ w = wanted[d]
      OBVIOUS
    <3>3. /\ up \in Seq(Up(Nat)) /\ up # <<>> /\ Head(up).t = "push"
          /\ Fits(r, D, d, o, f, k, w, e, z, up, down, h)
          /\ x.batches \subseteq Head(up).batches
      BY <1>2, <1>3, <1>5, <1>8, <3>1, <3>2 DEF Now
    <3>4. /\ Fits(r, D, d, o, f, k, w, e, z, Tail(up), down, h)
          /\ Fits(r, D, d, o, f, k, w, e, z, <<x>> \o Tail(up), down, h)
          /\ z.ph = "up" \/ \E i \in DOMAIN down : IsAnswer(down[i])
          /\ Head(up).batches \subseteq o \union Visible(e.held, D)
      BY <1>5, <3>3, FitsTaken
    <3> QED BY <3>1, <3>2, <3>4 DEF Now
  <2>2. CASE c2s'[d] = Tail(c2s[d])
    BY <2>1, <2>2
  <2>3. CASE c2s'[d] = <<x>> \o Tail(c2s[d])
    BY <2>1, <2>3
  <2> QED BY <1>7, <2>1, <2>2, <2>3
<1>10. Now(d, cl[d], ses[d], c2s'[d], Append(s2c[d], m), http[d])
  <2>1. m.t = "ack" => /\ RowIs(room', m.seq, m.batch)
                       /\ m.batch \in outbox'[d] \union Visible(cl[d].held, deps')
    BY <1>6, <1>9
  <2>2. PICK e, z, up, down, h, S :
          /\ e = cl[d] /\ z = ses[d] /\ up = c2s'[d] /\ down = s2c[d] /\ h = http[d]
          /\ S = Down(Nat, Nat)
    OBVIOUS
  <2>3. PICK r, D, o, f, k, w :
          /\ r = room' /\ D = deps' /\ o = outbox'[d] /\ f = flush[d] /\ k = disk[d]
          /\ w = wanted[d]
    OBVIOUS
  <2>4. /\ Fits(r, D, d, o, f, k, w, e, z, up, down, h) /\ down \in Seq(S)
        /\ z.ph = "up" \/ \E i \in DOMAIN down : IsAnswer(down[i])
        /\ m.t = "ack" => RowIs(r, m.seq, m.batch) /\ m.batch \in o \union Visible(e.held, D)
    BY <1>3, <1>9, <2>1, <2>2, <2>3 DEF Now
  <2>5. Fits(r, D, d, o, f, k, w, e, z, up, Append(down, m), h)
    BY <2>4, FitsTold
  <2> QED BY <2>2, <2>3, <2>5 DEF Now
<1> QED BY <1>10, DeviceIs

LEMMA RoomPushFits ==
  ASSUME Going, NEW d \in Devices, LaterAt(d), RoomPush(d) \/ RoomQuota(d)
  PROVE  DeviceOK(d)'
<1>1. Base /\ FormedAt(d)
  BY BaseFormed DEF Going, Provenance
<1>2. /\ Received(d, "push") /\ PushTaken(d) /\ outbox' = outbox
      /\ UNCHANGED <<deps, cl, files, ses, http, wanted>>
  BY DEF RoomPush, RoomQuota, store
<1>3. CASE RoomPush(d)
  <2> DEFINE b == Min(Head(c2s[d]).batches)
             x == AckSeq(room, b)
             m == [t |-> "ack", batch |-> b, seq |-> x]
  <2>1. room' = AppendRow(room, d, b) /\ s2c' = [Relayed(b, d) EXCEPT ![d] = Append(s2c[d], m)]
    BY <1>3 DEF RoomPush
  <2>2. b \in Nat
    <3>1. Head(c2s[d]) \in Up(Nat) /\ Head(c2s[d]).t = "push"
      BY <1>1, <1>2, SeqHead DEF Received, FormedAt, Formed
    <3>2. Head(c2s[d]).batches # {} /\ Head(c2s[d]).batches \subseteq Nat
      BY <3>1 DEF Up
    <3> QED BY <3>2, MinIn
  <2>3. RowIs(room', x, b)
    <3>1. room \in RoomIn /\ room.floor = 0
      BY <1>1, BaseRoom DEF Going, Plain
    <3> HIDE DEF b, x
    <3>2. RowIs(AppendRow(room, d, b), AckSeq(room, b), b)
      BY <2>2, <3>1, AppendAdds
    <3> QED BY <2>1, <3>2 DEF x
  <2>4. m.t = "ack" /\ m.seq = x /\ m.batch = b
    OBVIOUS
  <2> HIDE DEF m
  <2>5. s2c'[d] = Append(s2c[d], m)
    BY <2>1 DEF Relayed
  <2> HIDE DEF x
  <2> QED BY <1>2, <2>3, <2>4, <2>5, ToldFits
<1>4. CASE RoomQuota(d)
  <2>1. s2c' = [s2c EXCEPT ![d] = Append(s2c[d], [t |-> "quota"])]
    BY <1>4 DEF RoomQuota
  <2>2. s2c'[d] = Append(s2c[d], [t |-> "quota"])
    BY <1>1, <2>1, Domains
  <2>3. PICK m : m = [t |-> "quota"]
    OBVIOUS
  <2>4. m.t = "quota" /\ s2c'[d] = Append(s2c[d], m)
    BY <2>2, <2>3
  <2> QED BY <1>2, <2>4, ToldFits
<1> QED BY <1>3, <1>4

LEMMA RoomLateFits ==
  ASSUME Going, NEW d \in Devices, LaterAt(d), RoomLate
  PROVE  DeviceOK(d)'
<1>1. Base
  BY DEF Going, Provenance
<1>2. PICK p \in late :
        /\ room' = AppendRow(room, p.device, p.batch) /\ s2c' = Relayed(p.batch, NoDevice)
        /\ UNCHANGED <<cl, files, ses, c2s, http, wanted>> /\ outbox' = outbox
  BY DEF RoomLate, store
<1>3. p.device \in Devices /\ p.batch \in Nat
  BY <1>1 DEF Base, Within, LateIn
<1>4. RowIs(room', AckSeq(room, p.batch), p.batch)
  <2>1. room \in RoomIn /\ room.floor = 0
    BY <1>1, BaseRoom DEF Going, Plain
  <2>2. PICK e, b : e = p.device /\ b = p.batch
    OBVIOUS
  <2>3. RowIs(AppendRow(room, e, b), AckSeq(room, b), b)
    BY <1>3, <2>1, <2>2, AppendAdds
  <2> QED BY <1>2, <2>2, <2>3
<1>5. \/ s2c'[d] = s2c[d]
      \/ s2c'[d] = Append(s2c[d], RelayOf(AckSeq(room, p.batch), p.batch))
  BY <1>2, RelayedAt
<1>6. Alike(cl[d], cl'[d])
  BY <1>2 DEF Alike
<1>7. Quiet(d)
  BY <1>2, <1>4, <1>5, <1>6 DEF Quiet, files
<1> QED BY <1>7, QuietFits

-----------------------------------------------------------------------------
(* The other devices *)

\* What a step of device d does to the others: nothing.
Apart(d) ==
  \A e \in Devices \ {d} :
    /\ cl'[e] = cl[e] /\ ses'[e] = ses[e] /\ c2s'[e] = c2s[e] /\ s2c'[e] = s2c[e]
    /\ http'[e] = http[e]

LEMMA SessionApart ==
  ASSUME Base, NEW d \in Devices, Actor(d) \/ Disconnect(d) \/ DialFails(d) \/ Clock(d)
  PROVE  Apart(d)
<1>1. /\ cl = [e \in Devices |-> cl[e]] /\ ses = [e \in Devices |-> ses[e]]
      /\ c2s = [e \in Devices |-> c2s[e]] /\ s2c = [e \in Devices |-> s2c[e]]
      /\ http = [e \in Devices |-> http[e]]
  BY Domains
<1>2. ASSUME NEW c, EndSession(d, c)
      PROVE  Apart(d)
  BY <1>1, <1>2 DEF EndSession, SetClient, Apart
<1>3. ASSUME NEW c, NEW s, NEW rest, RepairGap(d, c, s, rest)
      PROVE  Apart(d)
  <2> DEFINE repair == ~c.needs /\ ~c.asking /\ c.gap
             asked == [c EXCEPT !.gap = c.gap /\ ~repair, !.asking = c.asking \/ repair]
             next == [s EXCEPT !.repairs = s.repairs + (IF repair THEN 1 ELSE 0)]
  <2>1. \/ EndSession(d, asked)
        \/ /\ SetClient(d, asked) /\ ses' = [ses EXCEPT ![d] = next]
           /\ s2c' = [s2c EXCEPT ![d] = rest] /\ UNCHANGED http
           /\ Send(d, RowsReq(c.cursor, FALSE)) \/ UNCHANGED c2s
    BY <1>3 DEF RepairGap
  <2> HIDE DEF asked, next
  <2> QED BY <1>1, <1>2, <2>1 DEF SetClient, Send, Apart
<1>4. ASSUME NEW c, NEW rest, Handled(d, c, rest)
      PROVE  Apart(d)
  <2>1. \/ RepairGap(d, c, ses[d], rest)
        \/ /\ SetClient(d, c) /\ s2c' = [s2c EXCEPT ![d] = rest]
           /\ UNCHANGED <<ses, c2s, http>>
    BY <1>4 DEF Handled
  <2> QED BY <1>1, <1>3, <2>1 DEF SetClient, Apart
<1>5. CASE RecvClose(d) \/ Disconnect(d) \/ Fetch(d)
  <2>1. \/ EndSession(d, cl[d])
        \/ \E s : /\ ses' = [ses EXCEPT ![d] = s]
                  /\ UNCHANGED <<cl, c2s, s2c, http>>
    <3>1. CASE Fetch(d) /\ room.has
      <4> DEFINE s == [ses[d] EXCEPT !.ph = "importing", !.blob = room.ckpt]
      <4>1. ses' = [ses EXCEPT ![d] = s] /\ UNCHANGED <<cl, c2s, s2c, http>>
        BY <1>1, <3>1 DEF Fetch, wire
      <4> QED BY <4>1
    <3> QED BY <1>5, <3>1 DEF RecvClose, Disconnect, Fetch
  <2> QED BY <1>1, <1>2, <2>1 DEF Apart
<1>6. CASE DialFails(d) \/ Dial(d) \/ Refresh(d) \/ PushPending(d) \/ PushHead(d)
  BY <1>1, <1>6 DEF DialFails, Dial, Refresh, PushPending, PushHead, SetClient, Send, wire, Apart
<1>7. CASE RecvRow(d)
  <2>1. \E c, rest : Handled(d, c, rest)
    BY <1>7 DEF RecvRow
  <2> QED BY <1>4, <2>1
<1>8. CASE RecvAck(d)
  <2>1. \E c, rest : Handled(d, c, rest)
    BY <1>8 DEF RecvAck
  <2> QED BY <1>4, <2>1
<1>9. CASE RecvQuota(d)
  <2>1. \E c, rest : Handled(d, c, rest)
    BY <1>9 DEF RecvQuota
  <2> QED BY <1>4, <2>1
<1>10. CASE RecvDone(d)
  <2>1. \E c, s, rest : RepairGap(d, c, s, rest)
    BY <1>10 DEF RecvDone
  <2> QED BY <1>3, <2>1
<1>11. CASE RecvState(d) \/ Import(d)
  <2>1. /\ \E c : SetClient(d, c)
        /\ UNCHANGED http
    BY <1>11 DEF RecvState, Import
  <2>2. \A e \in Devices \ {d} : ses'[e] = ses[e] /\ c2s'[e] = c2s[e] /\ s2c'[e] = s2c[e]
    BY <1>1, <1>11 DEF RecvState, Import, wire
  <2> QED BY <1>1, <2>1, <2>2 DEF SetClient, Apart
<1> QED BY <1>5, <1>6, <1>7, <1>8, <1>9, <1>10, <1>11 DEF Actor, Clock

LEMMA CycleApart ==
  ASSUME Base, NEW d \in Devices,
         \/ Cycle(d) /\ ~HttpPost(d)
         \/ HttpQuota(d) \/ HttpPostFails(d) \/ HttpFails(d)
  PROVE  Apart(d)
<1>1. cl = [e \in Devices |-> cl[e]] /\ http = [e \in Devices |-> http[e]]
  BY Domains
<1>2. UNCHANGED <<ses, c2s, s2c>>
  BY DEF Cycle, HttpStart, HttpAck, HttpGet, HttpState, HttpFetch, HttpImport, HttpRow, HttpQuota,
         HttpPostFails, HttpFails, wire
<1> DEFINE Steps == (UNCHANGED cl \/ \E c : SetClient(d, c)) /\ \E h : SetHttp(d, h)
<1>3. ASSUME NEW c, NEW h, Apply(d, c, h)
      PROVE  Steps
  <2> DEFINE whole == h.whole /\ c.hEpoch /\ c.cursor >= h.st.head /\ ~c.needs
             gap == c.gap /\ ~(whole /\ c.hRow)
             x == [h EXCEPT !.ph = "applying", !.after = 0, !.blob = {}]
             y == [CycleOver(c) EXCEPT
                     !.caught = c.caught \/ whole, !.gap = gap,
                     !.done = IF whole /\ ~gap THEN Larger(c.done, h.ticket) ELSE c.done]
  <2>1. \/ SetClient(d, c) /\ SetHttp(d, x)
        \/ SetClient(d, y) /\ SetHttp(d, IdleHttp)
    BY <1>3 DEF Apply
  <2> HIDE DEF x, y
  <2> QED BY <2>1
<1>4. ASSUME NEW c, NEW todo, Push(d, c, todo)
      PROVE  Steps
  BY <1>4 DEF Push
<1>5. Steps
  <2>1. CASE HttpGet(d) \/ HttpFetch(d) \/ HttpFails(d)
    BY <2>1 DEF HttpGet, HttpFetch, HttpFails
  <2> HIDE DEF Steps
  <2>2. CASE HttpStart(d) \/ HttpAck(d) \/ HttpQuota(d) \/ HttpPostFails(d)
    <3>1. \E c, todo : Push(d, c, todo)
      BY <2>2 DEF HttpStart, HttpAck, HttpQuota, HttpPostFails
    <3> QED BY <1>4, <3>1
  <2>3. CASE HttpImport(d)
    <3>1. \E c, h : Apply(d, c, h)
      BY <2>3 DEF HttpImport
    <3> QED BY <1>3, <3>1
  <2>4. CASE HttpRow(d)
    <3>1. \E c, h : Apply(d, c, h)
      BY <2>4 DEF HttpRow
    <3> QED BY <1>3, <3>1
  <2>5. CASE HttpState(d)
    <3>1. (\E c, h : Apply(d, c, h)) \/ \E c, h : SetClient(d, c) /\ SetHttp(d, h)
      BY <2>5 DEF HttpState
    <3> QED BY <1>3, <3>1 DEF Steps
  <2> QED BY <2>1, <2>2, <2>3, <2>4, <2>5 DEF Cycle
<1> QED BY <1>1, <1>2, <1>5 DEF SetClient, SetHttp, Apart

\* The steps of device d, but its restart
Acts(d) == \/ Write(d) \/ RequestCatchUp(d)
           \/ Actor(d) \/ Clock(d) \/ Cycle(d) \/ Poster(d)
           \/ Persister(d) \/ Room(d) \/ (Failure(d) /\ ~Crash(d))

\* What a device has on disk and asked for, nobody else touches.
LEMMA StoreApart ==
  ASSUME Base, NEW d \in Devices, Acts(d)
  PROVE  \A e \in Devices \ {d} : /\ outbox'[e] = outbox[e] /\ wanted'[e] = wanted[e]
                                  /\ flush'[e] = flush[e] /\ disk'[e] = disk[e]
<1>1. /\ outbox = [e \in Devices |-> outbox[e]] /\ wanted = [e \in Devices |-> wanted[e]]
      /\ flush = [e \in Devices |-> flush[e]] /\ disk = [e \in Devices |-> disk[e]]
  BY Domains
<1>2. CASE Write(d) \/ RequestCatchUp(d)
  BY <1>1, <1>2 DEF Write, RequestCatchUp, store, files
<1>3. CASE Actor(d) \/ Clock(d)
  <2>1. UNCHANGED <<files, wanted>>
    BY <1>3 DEF Actor, Clock, Dial, RecvClose, RecvState, Fetch, Import, RecvRow, RecvAck,
         RecvQuota, RecvDone, Refresh, PushPending, PushHead
  <2>2. UNCHANGED outbox \/ \E x : outbox' = [outbox EXCEPT ![d] = x]
    BY <1>3 DEF Actor, Clock, Dial, RecvClose, RecvState, Fetch, Import, RecvRow, RecvAck,
         RecvQuota, RecvDone, Refresh, PushPending, PushHead, store
  <2> QED BY <1>1, <2>1, <2>2 DEF files
<1>4. CASE Cycle(d)
  <2>1. UNCHANGED <<files, wanted>>
    BY <1>4 DEF Cycle, HttpStart, HttpPost, HttpAck, HttpGet, HttpState, HttpFetch, HttpImport,
         HttpRow
  <2>2. UNCHANGED outbox \/ \E x : outbox' = [outbox EXCEPT ![d] = x]
    BY <1>4 DEF Cycle, HttpStart, HttpPost, HttpAck, HttpGet, HttpState, HttpFetch, HttpImport,
         HttpRow, store
  <2> QED BY <1>1, <2>1, <2>2 DEF files
<1>5. CASE Poster(d)
  BY <1>1, <1>5 DEF Poster, PostDue, Bootstrap, HostEvent, Export, PostCheckpoint, store, files
<1>6. CASE Persister(d) \/ Room(d)
  BY <1>1, <1>6 DEF Persister, FlushSample, FlushSave, Room, RoomHello, RoomRows, RoomPush,
       store, files
<1>7. CASE Failure(d) /\ ~Crash(d)
  BY <1>7 DEF Failure, DialFails, Disconnect, HttpQuota, HttpPostFails, HttpFails, PostFails,
       RoomQuota, store, files
<1> QED BY <1>2, <1>3, <1>4, <1>5, <1>6, <1>7 DEF Acts

LEMMA OthersQuiet ==
  ASSUME Going, NEW d \in Devices, Acts(d), NEW e \in Devices \ {d}
  PROVE  Quiet(e)
<1>1. Base /\ FormedAt(d)
  BY BaseFormed DEF Going, Provenance
<1>2. /\ outbox'[e] = outbox[e] /\ wanted'[e] = wanted[e]
      /\ flush'[e] = flush[e] /\ disk'[e] = disk[e]
  BY <1>1, StoreApart
<1>3. Alike(cl[e], cl[e])
  BY DEF Alike
<1>4. /\ cl = [x \in Devices |-> cl[x]] /\ ses = [x \in Devices |-> ses[x]]
      /\ c2s = [x \in Devices |-> c2s[x]] /\ s2c = [x \in Devices |-> s2c[x]]
      /\ http = [x \in Devices |-> http[x]]
  BY <1>1, Domains
<1>5. CASE Apart(d)
  BY <1>2, <1>3, <1>5 DEF Apart, Quiet
<1>6. CASE RoomPush(d) \/ HttpPost(d)
  <2>1. PICK b \in Nat :
          /\ room' = AppendRow(room, d, b)
          /\ s2c'[e] = Relayed(b, d)[e] \/ s2c'[e] = Relayed(b, NoDevice)[e]
    <3>1. CASE RoomPush(d)
      <4> DEFINE b == Min(Head(c2s[d]).batches)
      <4>1. b \in Nat
        <5>1. Head(c2s[d]) \in Up(Nat) /\ Head(c2s[d]).t = "push"
          BY <1>1, <3>1, SeqHead DEF RoomPush, Received, FormedAt, Formed
        <5>2. Head(c2s[d]).batches # {} /\ Head(c2s[d]).batches \subseteq Nat
          BY <5>1 DEF Up
        <5> QED BY <5>2, MinIn
      <4>2. /\ room' = AppendRow(room, d, b)
            /\ \E x : s2c' = [Relayed(b, d) EXCEPT ![d] = x]
        BY <3>1 DEF RoomPush
      <4> HIDE DEF b
      <4>3. s2c'[e] = Relayed(b, d)[e]
        BY <4>2 DEF Relayed
      <4> QED BY <4>1, <4>2, <4>3
    <3>2. CASE HttpPost(d)
      <4> DEFINE b == Min(http[d].todo)
      <4>1. b \in Nat
        <5>1. http[d].ph = "push" /\ http[d] \in HttpIn(Nat, Nat, Len(wanted[d]))
          BY <1>1, <3>2 DEF HttpPost, FormedAt, Formed
        <5>2. http[d].todo # {} /\ http[d].todo \subseteq Nat
          BY <5>1 DEF HttpIn, HttpRec
        <5> QED BY <5>2, MinIn
      <4>2. room' = AppendRow(room, d, b) /\ s2c' = Relayed(b, NoDevice)
        BY <3>2 DEF HttpPost
      <4> HIDE DEF b
      <4> QED BY <4>1, <4>2
    <3> QED BY <1>6, <3>1, <3>2
  <2>2. RowIs(room', AckSeq(room, b), b)
    <3>1. room \in RoomIn /\ room.floor = 0
      BY <1>1, BaseRoom DEF Going, Plain
    <3>2. RowIs(AppendRow(room, d, b), AckSeq(room, b), b)
      BY <3>1, AppendAdds
    <3> QED BY <2>1, <3>2
  <2>3. s2c'[e] = s2c[e] \/ s2c'[e] = Append(s2c[e], RelayOf(AckSeq(room, b), b))
    BY <2>1, RelayedAt
  <2>4. cl'[e] = cl[e] /\ ses'[e] = ses[e] /\ http'[e] = http[e]
    BY <1>4, <1>6 DEF RoomPush, HttpPost, SetHttp
  <2>5. c2s'[e] = c2s[e]
    BY <1>4, <1>6 DEF RoomPush, PushTaken, HttpPost
  <2> QED BY <1>2, <1>3, <2>2, <2>3, <2>4, <2>5 DEF Quiet
<1>7. CASE Write(d) \/ RequestCatchUp(d) \/ Poster(d) \/ Persister(d) \/ PostFails(d)
  <2>1. UNCHANGED <<ses, c2s, s2c, http>>
    BY <1>7 DEF Write, RequestCatchUp, Poster, PostDue, Bootstrap, HostEvent, Export,
         PostCheckpoint, Persister, FlushSample, FlushSave, PostFails, wire
  <2>2. UNCHANGED cl \/ \E c : SetClient(d, c)
    BY <1>7 DEF Write, RequestCatchUp, Poster, PostDue, Bootstrap, HostEvent, Export,
         PostCheckpoint, Persister, FlushSample, FlushSave, PostFails
  <2> QED BY <1>4, <1>5, <2>1, <2>2 DEF SetClient, Apart
<1>8. CASE RoomHello(d) \/ RoomRows(d) \/ RoomQuota(d)
  <2>1. UNCHANGED <<cl, ses, http>> /\ \E x : s2c' = [s2c EXCEPT ![d] = x]
    BY <1>8 DEF RoomHello, RoomRows, RoomQuota
  <2>2. \E x : c2s' = [c2s EXCEPT ![d] = x]
    BY <1>8 DEF RoomHello, RoomRows, RoomQuota, PushTaken
  <2> QED BY <1>4, <1>5, <2>1, <2>2 DEF Apart
<1>9. CASE \/ Actor(d) \/ Clock(d) \/ DialFails(d) \/ Disconnect(d)
           \/ (Cycle(d) /\ ~HttpPost(d)) \/ HttpQuota(d) \/ HttpPostFails(d) \/ HttpFails(d)
  BY <1>1, <1>5, <1>9, SessionApart, CycleApart
<1> QED BY <1>6, <1>7, <1>8, <1>9 DEF Acts, Room, Failure

\* A step of a device that goes on
LEMMA ActsFits ==
  ASSUME ChatAssumption, Going, NEW d \in Devices, LaterAt(d), Acts(d)
  PROVE  DeviceOK(d)'
<1>1. ~Fetch(d) /\ ~Import(d)
  <2>1. ses[d].ph \notin {"fetching", "importing"}
    BY DEF Going, DeviceOK, Fits
  <2> QED BY <2>1 DEF Fetch, Import
<1>2. CASE Write(d) \/ RequestCatchUp(d) \/ Poster(d) \/ Persister(d) \/ PostFails(d)
  BY <1>2, WriteFits, RequestFits, PosterFits, FlushFits DEF Persister
<1>3. CASE Actor(d) \/ Disconnect(d)
  BY <1>1, <1>3, DialFits, EndsFits, RecvStateFits, RecvRowFits, RecvAckFits, RecvQuotaFits,
     RecvDoneFits DEF Actor
<1>4. CASE Clock(d) \/ DialFails(d)
  BY <1>4, RefreshFits, PushPendingFits, PushHeadFits, DialFailsFits DEF Clock
<1>5. CASE Cycle(d) \/ HttpQuota(d) \/ HttpPostFails(d) \/ HttpFails(d)
  BY <1>5, HttpStartFits, HttpPostFits, HttpAckFits, HttpGetFits, HttpStateFits, HttpRowFits,
     HttpFailsFits DEF Cycle
<1>6. CASE Room(d) \/ RoomQuota(d)
  BY <1>6, RoomHelloFits, RoomRowsFits, RoomPushFits DEF Room
<1> QED BY <1>2, <1>3, <1>4, <1>5, <1>6 DEF Acts, Failure

LEMMA SnapshotsStep ==
  ASSUME Provenance, Provenance', Next, Serves, Snapshots
  PROVE  Snapshots'
<1>1. Base /\ Base' /\ Causal /\ Saved
  BY DEF Provenance
<1>2. ASSUME NEW d \in Devices, NEW b \in disk[d].doc
      PROVE  b \in Batches /\ deps[b] \subseteq disk[d].doc
  BY <1>1, BaseAt DEF Saved, Snapshots
<1>3. ASSUME UNCHANGED disk, \A b \in Batches : deps'[b] = deps[b]
      PROVE  Snapshots'
  BY <1>2, <1>3 DEF Snapshots
<1>4. CASE \E d \in Devices : Crash(d)
  BY <1>3, <1>4 DEF Crash
<1>5. CASE \A d \in Devices : ~Crash(d)
  <2>1. PICK O, R : O = Own' /\ R = Readable(room')
    OBVIOUS
  <2>2. \E P : Effect(Own', P, Readable(room'))
    BY <1>1, <1>5, SourcedStep DEF Provenance
  <2>3. PICK P : Effect(O, P, R)
    BY <2>1, <2>2
  <2>4. ASSUME NEW d \in Devices, Saving(d)
        PROVE  Snapshots'
    <3>1. UNCHANGED deps /\ disk' = [disk EXCEPT ![d] = [doc |-> Doc(d), cursor |-> flush[d]]]
      BY <2>4 DEF Saving
    <3>2. /\ disk'[d].doc = Doc(d)
          /\ \A e \in Devices \ {d} : disk'[e] = disk[e]
      BY <1>1, <3>1, Domains
    <3>3. \A b \in Doc(d) : deps[b] \subseteq Doc(d)
      <4>1. cl[d].held \in SUBSET Batches
        BY <1>1, BaseAt
      <4> QED BY <1>1, <4>1, Shown DEF Doc
    <3> QED BY <3>1, <3>2, <3>3 DEF Snapshots
  <2>5. ASSUME NEW d \in Devices, Writing(d)
        PROVE  Snapshots'
    <3>1. UNCHANGED disk /\ deps' = Append(deps, Doc(d)) /\ deps \in Seq(SUBSET Nat)
      BY <1>1, <2>5 DEF Writing, Write, files, Base
    <3>2. Doc(d) \in SUBSET Nat
      BY <1>1, BaseAt
    <3>3. \A b \in Batches : deps'[b] = deps[b]
      BY <3>1, <3>2 DEF Batches
    <3> QED BY <1>3, <3>1, <3>3
  <2>6. ASSUME UNCHANGED <<disk, deps>>
        PROVE  Snapshots'
    BY <1>3, <2>6
  <2> QED BY <2>3, <2>4, <2>5, <2>6 DEF Effect, Reading, Retiring, Posting, Asking, Appending,
              Wiping, RequestCatchUp, files
<1> QED BY <1>4, <1>5

\* A device that restarts: only the socket can bring it what it lacks.
LEMMA CrashFits ==
  ASSUME ChatAssumption, SocketRestarts, Going, Snapshots, NEW d \in Devices, Crash(d)
  PROVE  \A e \in Devices : DeviceOK(e)'
<1>1. Base /\ Sourced /\ Causal /\ Saved
  BY DEF Going, Provenance
<1>2. /\ UNCHANGED <<room, deps, outbox, disk>> /\ d \notin Transport
      /\ cl' = [cl EXCEPT ![d] = NewClient(Reopened(d), disk[d].cursor, d = Host)]
      /\ flush' = [flush EXCEPT ![d] = NoFlush] /\ ses' = [ses EXCEPT ![d] = NoSession]
      /\ c2s' = [c2s EXCEPT ![d] = <<>>] /\ s2c' = [s2c EXCEPT ![d] = <<>>]
      /\ http' = [http EXCEPT ![d] = Spawned(d, IdleHttp)]
      /\ wanted' = [wanted EXCEPT ![d] = <<>>]
  BY DEF Crash, store, SocketRestarts, Fault
<1>3. /\ HeadSeq(room) \in Nat
      /\ \A e \in Devices : cl[e].held \subseteq Batches /\ outbox[e] \subseteq cl[e].held
  BY <1>1, BaseRoom, BaseAt DEF Base
<1>4. ASSUME NEW e \in Devices \ {d}
      PROVE  DeviceOK(e)'
  <2>1. /\ cl'[e] = cl[e] /\ ses'[e] = ses[e] /\ c2s'[e] = c2s[e] /\ s2c'[e] = s2c[e]
        /\ http'[e] = http[e] /\ flush'[e] = flush[e] /\ disk'[e] = disk[e]
        /\ wanted'[e] = wanted[e] /\ outbox'[e] = outbox[e]
    BY <1>1, <1>2, Domains
  <2>2. DeviceOK(e)
    BY DEF Going
  <2> QED BY <1>2, <2>1, <2>2 DEF DeviceOK
<1>5. DeviceOK(d)'
  <2> DEFINE H == Reopened(d)
             c == NewClient(H, disk[d].cursor, d = Host)
  <2>1. /\ cl'[d] = c /\ flush'[d] = NoFlush /\ ses'[d] = NoSession /\ c2s'[d] = <<>>
        /\ s2c'[d] = <<>> /\ http'[d] = Spawned(d, IdleHttp) /\ wanted'[d] = <<>>
        /\ disk'[d] = disk[d] /\ outbox'[d] = outbox[d]
    BY <1>1, <1>2, Domains
  <2>2. /\ c.held = H /\ c.cursor = disk[d].cursor /\ c.pcursor = disk[d].cursor
        /\ c.resumed = FALSE /\ c.asking = FALSE /\ c.done = 0
    BY DEF NewClient
  <2>3. /\ NoSession.ph = "down" /\ NoSession.ticket = 0 /\ NoSession.refresh = 0
        /\ Spawned(d, IdleHttp).ph = "idle"
    BY <1>2 DEF NoSession, Spawned, IdleHttp
  <2>4. /\ CursorsOK(room, deps, cl[d].held, cl[d].cursor, cl[d].pcursor, flush[d], disk[d])
        /\ \A b \in outbox[d] : deps[b] \subseteq outbox[d] \union Admitted(room)
    BY DEF Going, DeviceOK, Fits, PendingOK
  <2>5. Shows(room, deps, H, disk[d].cursor)
    <3>1. disk[d].doc \subseteq Visible(H, deps)
      BY DEF Visible, Reopened, Snapshots
    <3> QED BY <2>4, <3>1 DEF CursorsOK, Shows
  <2>6. Shows(room, deps, H, NoFlush)
    BY <1>3 DEF Shows, RowsTo, NoFlush
  <2>7. CursorsOK(room, deps, H, disk[d].cursor, disk[d].cursor, NoFlush, disk[d])
    BY <2>4, <2>5, <2>6 DEF CursorsOK
  <2>8. PendingOK(room, deps, H, outbox[d], NoSession.ph = "up" \/ d \in Transport)
    BY <1>2, <2>3, <2>4 DEF PendingOK
  <2>9. HttpOK(room, deps, H, Spawned(d, IdleHttp))
    BY <2>3 DEF HttpOK
  <2>10. TicketsOK(room, deps, H, <<>>, 0, NoSession, <<>>, Spawned(d, IdleHttp))
    BY <2>3 DEF TicketsOK
  <2>11. OwnRows(room, d, H, FALSE)
    BY DEF OwnRows
  <2>12. InOrder(NoSession.ph, FALSE, <<>>, <<>>)
    BY OrderNone
  <2>13. DOMAIN <<>> = {}
    OBVIOUS
  <2> HIDE DEF c, H
  <2>14. Fits(room, deps, d, outbox[d], NoFlush, disk[d], <<>>, c, NoSession, <<>>, <<>>,
              Spawned(d, IdleHttp))
    BY <2>2, <2>3, <2>7, <2>8, <2>9, <2>10, <2>11, <2>12, <2>13 DEF Fits
  <2> QED BY <1>2, <2>1, <2>14 DEF DeviceOK
<1> QED BY <1>4, <1>5

-----------------------------------------------------------------------------
(* CatchUpInv is inductive *)

\* Only a wipe takes the checkpoint away.
LEMMA HasStays ==
  ASSUME Base, Next, "reset" \notin Faults, room.has
  PROVE  room'.has
<1>1. PICK O : O = Every
  OBVIOUS
<1>2. PICK P : P = Allowed
  OBVIOUS
<1>3. PICK R : R = Batches
  OBVIOUS
<1>4. PICK N : N = Tickets
  OBVIOUS
<1>5. Within(O, P, R, N)
  BY <1>1, <1>2, <1>3, <1>4 DEF Base
<1>6. /\ R \subseteq Nat /\ \A d \in Devices : N[d] \in Nat /\ O[d] = R /\ P[d] = R \ rejected[d]
  BY <1>1, <1>2, <1>3, <1>4, BaseAt DEF Every, Allowed, Tickets, Batches
<1>7. Frames(O, P, R, N)
  BY <1>2, <1>3, <1>6, BaseFrames
<1>8. RoomMoves(O)
  BY <1>5, <1>7, RoomMoved
<1>9. room \in RoomIn
  BY BaseRoom
<1>10. ASSUME NEW d \in Devices, NEW b \in O[d], room' = AppendRow(room, d, b)
       PROVE  room'.has
  BY <1>9, <1>10 DEF AppendRow, RoomIn
<1>11. ASSUME NEW d \in Devices, room' = CommitCheckpoint(room, post[d].seq, post[d].content)
       PROVE  room'.has
  BY <1>9, <1>11 DEF CommitCheckpoint, RoomIn
<1> QED BY <1>8, <1>10, <1>11 DEF RoomMoves, Appends, Compacts

\* The histories and sources too, until there is a checkpoint
Inductive == Base /\ (~room.has => Provenance) /\ CatchUpInv

LEMMA InductiveInit ==
  ASSUME ChatAssumption, Init
  PROVE  Inductive
<1>1. Base /\ Provenance
  BY ProvenanceInit DEF Provenance
<1>2. /\ room.has = FALSE /\ room.floor = 0 /\ room.ckpt = {} /\ HeadSeq(room) = 0
  BY DEF Init, NewRoom, HeadSeq
<1>3. TicketRows /\ Snapshots /\ Cycling
  BY DEF Init, TicketRows, Snapshots, Cycling, Spawned, IdleHttp
<1>4. ASSUME NEW d \in Devices
      PROVE  DeviceOK(d)
  <2> DEFINE c == NewClient({}, 0, d = Host)
             k == [doc |-> {}, cursor |-> 0]
             h == Spawned(d, IdleHttp)
  <2>1. /\ outbox[d] = {} /\ flush[d] = NoFlush /\ disk[d] = k /\ wanted[d] = <<>>
        /\ cl[d] = c /\ ses[d] = NoSession /\ c2s[d] = <<>> /\ s2c[d] = <<>> /\ http[d] = h
    BY DEF Init
  <2>2. /\ c.held = {} /\ c.cursor = 0 /\ c.pcursor = 0 /\ c.resumed = FALSE
        /\ c.asking = FALSE /\ c.done = 0 /\ k.cursor = 0 /\ k.doc = {}
    BY DEF NewClient
  <2>3. /\ NoSession.ph = "down" /\ h.ph \in {"idle", "spawned"}
    BY DEF NoSession, Spawned, IdleHttp
  <2>4. Shows(room, deps, {}, 0) /\ Shows(room, deps, {}, NoFlush) /\ RowsTo(room, 0) = {}
    BY <1>2 DEF Shows, RowsTo, NoFlush
  <2> HIDE DEF c, k, h
  <2>5. CursorsOK(room, deps, {}, 0, 0, NoFlush, k)
    BY <1>2, <2>2, <2>4 DEF CursorsOK
  <2>6. PendingOK(room, deps, {}, {}, NoSession.ph = "up" \/ d \in Transport)
    BY DEF PendingOK
  <2>7. OwnRows(room, d, {}, FALSE) /\ InOrder(NoSession.ph, FALSE, <<>>, <<>>)
    BY OrderNone DEF OwnRows
  <2>8. HttpOK(room, deps, {}, h) /\ TicketsOK(room, deps, {}, <<>>, 0, NoSession, <<>>, h)
    BY <2>3 DEF HttpOK, TicketsOK
  <2>9. DOMAIN <<>> = {}
    OBVIOUS
  <2>10. Fits(room, deps, d, {}, NoFlush, k, <<>>, c, NoSession, <<>>, <<>>, h)
    BY <2>2, <2>3, <2>5, <2>6, <2>7, <2>8, <2>9 DEF Fits
  <2> QED BY <2>1, <2>10 DEF DeviceOK
<1> QED BY <1>1, <1>2, <1>3, <1>4 DEF Inductive, CatchUpInv

LEMMA InductiveStep ==
  ASSUME ChatAssumption, SocketRestarts, Inductive, Next
  PROVE  Inductive'
<1>1. Base /\ Base' /\ "reset" \notin Faults
  BY NextBase DEF Inductive, SocketRestarts
<1>2. CASE room'.has
  BY <1>1, <1>2 DEF Inductive, CatchUpInv
<1>3. CASE ~room'.has
  <2>1. ~room.has
    BY <1>1, <1>3, HasStays
  <2>2. Going /\ Snapshots
    BY <1>1, <1>3, <2>1 DEF Inductive, CatchUpInv, Going, Plain
  <2>3. Provenance /\ Provenance' /\ Plain' /\ Serves
    BY <2>2, RoomStep, NextProvenance DEF Going
  <2>4. TicketRows' /\ Snapshots' /\ Cycling'
    BY <1>1, <2>2, <2>3, TicketRowsStep, SnapshotsStep, CyclingStep DEF Going
  <2>5. CASE \E d \in Devices : Crash(d)
    <3>1. \A e \in Devices : DeviceOK(e)'
      BY <2>2, <2>5, CrashFits
    <3> QED BY <1>1, <2>3, <2>4, <3>1 DEF Inductive, CatchUpInv, Plain
  <2>6. CASE \A d \in Devices : ~Crash(d)
    <3>1. ASSUME NEW e \in Devices
          PROVE  LaterAt(e)
      BY <2>2, <2>6, StepLater DEF LaterAt, Going
    <3>2. ASSUME NEW d \in Devices, Acts(d), NEW e \in Devices
          PROVE  DeviceOK(e)'
      <4>1. CASE e = d
        BY <2>2, <3>1, <3>2, <4>1, ActsFits
      <4>2. CASE e # d
        BY <2>2, <3>1, <3>2, <4>2, OthersQuiet, QuietFits
      <4> QED BY <4>1, <4>2
    <3>3. ASSUME RoomLate, NEW e \in Devices
          PROVE  DeviceOK(e)'
      BY <2>2, <3>1, <3>3, RoomLateFits
    <3>4. ~Reset
      BY <1>1 DEF Reset, Fault
    <3>5. RoomLate \/ \E d \in Devices : Acts(d)
      BY <2>6, <3>4 DEF Next, Acts
    <3>6. \A e \in Devices : DeviceOK(e)'
      BY <3>2, <3>3, <3>5
    <3> QED BY <1>1, <2>3, <2>4, <3>6 DEF Inductive, CatchUpInv, Plain
  <2> QED BY <2>5, <2>6
<1> QED BY <1>2, <1>3

LEMMA InductiveStutters ==
  ASSUME Inductive, UNCHANGED vars
  PROVE  Inductive'
<1>1. Base'
  BY BaseStutters DEF Inductive
<1>2. ~room.has => Provenance'
  BY ProvenanceStep DEF Inductive
<1>3. UNCHANGED <<room, deps, cl, outbox, flush, disk, wanted, ses, c2s, s2c, http>>
  BY DEF vars, store, files, wire
<1>4. \A d \in Devices : DeviceOK(d) => DeviceOK(d)'
  BY <1>3 DEF DeviceOK
<1>5. CatchUpInv'
  BY <1>3, <1>4 DEF Inductive, CatchUpInv, TicketRows, Snapshots, Cycling
<1> QED BY <1>1, <1>2, <1>3, <1>5 DEF Inductive

\* What the properties need of it
LEMMA CatchUpCovers ==
  ASSUME ChatAssumption, Base, Plain, NEW d \in Devices, NEW c, NEW D,
         c.cursor \in Nat, c.cursor <= HeadSeq(room), RowsTo(room, c.cursor) \subseteq c.held,
         OwnRows(room, d, c.held, c.resumed)
  PROVE  LET st    == State(room)
             cont  == Contained(c, st, D)
             after == CatchUpAfter(c.cursor, st, cont)
             rows  == RowsAfter(room, after, IF c.resumed /\ ~c.needs THEN d ELSE NoDevice)
         IN  Readable(room)
               \subseteq c.held \union (IF cont THEN {} ELSE room.ckpt)
                           \union {rows[s] : s \in DOMAIN rows}
<1> DEFINE st    == State(room)
           cont  == Contained(c, st, D)
           after == CatchUpAfter(c.cursor, st, cont)
           ex    == IF c.resumed /\ ~c.needs THEN d ELSE NoDevice
           rows  == RowsAfter(room, after, ex)
<1>1. /\ room.log \in Seq([device : Devices, batch : Nat]) /\ HeadSeq(room) \in Nat
      /\ HeadSeq(room) = Len(room.log) /\ Rows(room) = 1 .. HeadSeq(room)
  BY BaseRoom DEF RoomIn, HeadSeq, Rows, Plain
<1>2. st.has = FALSE /\ st.head = HeadSeq(room)
  BY <1>1, BaseRoom DEF State, Plain, RoomIn
<1>3. after = c.cursor
  <2> HIDE DEF st
  <2> QED BY <1>1, <1>2 DEF Contained, CatchUpAfter
<1>4. \A s \in Rows(room) : s > after /\ room.log[s].device # ex =>
        s \in DOMAIN rows /\ rows[s] = room.log[s].batch
  BY DEF RowsAfter
<1> HIDE DEF rows, after, cont, st
<1>5. ASSUME NEW s \in 1 .. HeadSeq(room)
      PROVE  room.log[s].batch \in c.held \union {rows[x] : x \in DOMAIN rows}
  <2>1. room.log[s].device \in Devices
    <3>1. PICK S : S = [device : Devices, batch : Nat]
      OBVIOUS
    <3>2. room.log \in Seq(S) /\ s \in 1 .. Len(room.log)
      BY <1>1, <3>1
    <3>3. room.log[s] \in S
      BY <3>2
    <3> QED BY <3>1, <3>3
  <2>2. CASE s > after /\ room.log[s].device # ex
    BY <1>1, <1>4, <2>2
  <2>3. CASE ~(s > after)
    <3>1. s \in 1 .. c.cursor
      BY <1>1, <1>3, <2>3
    <3> QED BY <3>1 DEF RowsTo
  <2>4. CASE room.log[s].device = ex
    BY <2>1, <2>4, ChatAssumption DEF OwnRows
  <2> QED BY <2>2, <2>3, <2>4
<1>6. Readable(room) = Admitted(room)
  BY <1>1, PlainServes DEF Plain
<1> QED BY <1>5, <1>6 DEF Admitted, rows, after, cont, st

LEMMA CatchUpShows ==
  ASSUME ChatAssumption, Inductive, ~room.has
  PROVE  ReconnectComplete /\ RestartComplete /\ TicketFresh
<1>1. /\ Base /\ Plain
      /\ \A d \in Devices : DeviceOK(d)
  BY DEF Inductive, CatchUpInv, Plain
<1>2. ASSUME NEW d \in Devices
      PROVE  /\ CursorsOK(room, deps, cl[d].held, cl[d].cursor, cl[d].pcursor, flush[d], disk[d])
             /\ OwnRows(room, d, cl[d].held, cl[d].resumed)
             /\ \A i \in 1 .. cl[d].done : wanted[d][i] \subseteq Doc(d)
  BY <1>1 DEF DeviceOK, Fits, TicketsOK, Doc
<1>3. ReconnectComplete
  <2> SUFFICES ASSUME NEW d \in Devices
               PROVE  Readable(room) \subseteq CaughtUpFrom(d, cl[d])
    BY DEF ReconnectComplete
  <2>1. /\ cl[d].cursor \in Nat /\ cl[d].cursor <= HeadSeq(room)
        /\ RowsTo(room, cl[d].cursor) \subseteq cl[d].held
    BY <1>1, <1>2, BaseAt DEF CursorsOK, Shows, Visible, ClientIn
  <2>2. PICK c : c = cl[d]
    OBVIOUS
  <2>3. Readable(room) \subseteq CaughtUpFrom(d, c)
    BY <1>1, <1>2, <2>1, <2>2, CatchUpCovers DEF CaughtUpFrom
  <2> QED BY <2>2, <2>3
<1>4. RestartComplete
  <2> SUFFICES ASSUME NEW d \in Devices
               PROVE  Readable(room)
                        \subseteq CaughtUpFrom(d, NewClient(Reopened(d), disk[d].cursor, FALSE))
    BY DEF RestartComplete
  <2>1. PICK c : c = NewClient(Reopened(d), disk[d].cursor, FALSE)
    OBVIOUS
  <2>2. c.held = Reopened(d) /\ c.cursor = disk[d].cursor /\ c.resumed = FALSE
    BY <2>1 DEF NewClient
  <2>3. /\ c.cursor \in Nat /\ c.cursor <= HeadSeq(room)
        /\ RowsTo(room, c.cursor) \subseteq c.held
    BY <1>1, <1>2, <2>2, BaseAt DEF CursorsOK, Reopened, DiskIn
  <2>4. OwnRows(room, d, c.held, c.resumed)
    BY <2>2 DEF OwnRows
  <2>5. Readable(room) \subseteq CaughtUpFrom(d, c)
    BY <1>1, <2>3, <2>4, CatchUpCovers DEF CaughtUpFrom
  <2> QED BY <2>1, <2>5
<1>5. TicketFresh
  <2>1. \A d \in Devices : Completed(d) = cl[d].done \/ Completed(d) = 0
    BY DEF Completed
  <2> QED BY <1>2, <2>1 DEF TicketFresh
<1> QED BY <1>3, <1>4, <1>5

-----------------------------------------------------------------------------
(* The theorems *)

LEMMA SpecInductive == ASSUME SocketRestarts PROVE Spec => []Inductive
<1>1. Init => Inductive
  BY ChatAssumption, InductiveInit
<1>2. Inductive /\ [Next]_vars => Inductive'
  BY ChatAssumption, InductiveStep, InductiveStutters
<1> QED BY <1>1, <1>2, PTL DEF Spec

\* CatchUpInv itself: cursors, pending batches, requests, answers, acks and
\* tickets agree with the documents, whatever is lost, given up or restarted.
THEOREM CatchUpHolds ==
  ASSUME SocketRestarts PROVE Spec => []CatchUpInv
<1>1. Inductive => CatchUpInv
  BY DEF Inductive
<1> QED BY <1>1, SpecInductive, PTL

\* ReconnectComplete, of a room that has no checkpoint: whenever a session
\* dies, the next hello and rowsReq bring every row, whatever the cursor skips
\* and excludeOwn leaves out.
THEOREM Reconnects ==
  ASSUME SocketRestarts PROVE Spec => [](~room.has => ReconnectComplete)
<1>1. Inductive => (~room.has => ReconnectComplete)
  BY ChatAssumption, CatchUpShows
<1> QED BY <1>1, SpecInductive, PTL

\* RestartComplete, of the same room: what flush_sync saved never has a cursor
\* that is ahead of its snapshot and the outbox.
THEOREM Restarts ==
  ASSUME SocketRestarts PROVE Spec => [](~room.has => RestartComplete)
<1>1. Inductive => (~room.has => RestartComplete)
  BY ChatAssumption, CatchUpShows
<1> QED BY <1>1, SpecInductive, PTL

\* TicketFresh, of the same room: catch_up_completed is never true of a ticket
\* before every row there was when it was given is shown.
THEOREM TicketsAreFresh ==
  ASSUME SocketRestarts PROVE Spec => [](~room.has => TicketFresh)
<1>1. Inductive => (~room.has => TicketFresh)
  BY ChatAssumption, CatchUpShows
<1> QED BY <1>1, SpecInductive, PTL

\* Where nobody posts a checkpoint, the room never has one.
LEMMA PlainRoom == ASSUME NoCheckpoints PROVE Spec => []~room.has
<1>1. Init => Base /\ NoPosts /\ ~room.has
  BY ChatAssumption, BaseInit, NoPostsInit DEF Init, NewRoom
<1>2. Base /\ NoPosts /\ ~room.has /\ [Next]_vars => (Base /\ NoPosts /\ ~room.has)'
  <2> SUFFICES ASSUME Base, NoPosts, ~room.has, [Next]_vars
               PROVE  (Base /\ NoPosts /\ ~room.has)'
    OBVIOUS
  <2>1. CASE UNCHANGED vars
    <3>1. NoPosts' /\ ~room'.has
      BY <2>1 DEF vars, store, NoPosts
    <3> QED BY <2>1, <3>1, BaseStutters
  <2>2. CASE Next
    <3>1. Base' /\ NoPosts'
      BY <2>2, ChatAssumption, NextBase, NoPostsStep
    <3>2. ~room'.has
      <4>1. PICK O : O = Every
        OBVIOUS
      <4>2. PICK P : P = Allowed
        OBVIOUS
      <4>3. PICK R : R = Batches
        OBVIOUS
      <4>4. PICK N : N = Tickets
        OBVIOUS
      <4>5. Within(O, P, R, N)
        BY <4>1, <4>2, <4>3, <4>4 DEF Base
      <4>6. /\ R \subseteq Nat
            /\ \A d \in Devices : N[d] \in Nat /\ O[d] = R /\ P[d] = R \ rejected[d]
        BY <4>1, <4>2, <4>3, <4>4, BaseAt DEF Every, Allowed, Tickets, Batches
      <4>7. Frames(O, P, R, N)
        BY <4>2, <4>3, <4>6, BaseFrames
      <4>8. RoomMoves(O)
        BY <2>2, <4>5, <4>7, RoomMoved
      <4>9. ~Compacts /\ "reset" \notin Faults /\ room \in RoomIn
        BY BaseRoom DEF Compacts, NoPosts, NoPost, NoCheckpoints
      <4> QED BY <4>8, <4>9 DEF RoomMoves, Appends, AppendRow, RoomIn
    <3> QED BY <3>1, <3>2
  <2> QED BY <2>1, <2>2
<1> QED BY <1>1, <1>2, PTL DEF Spec

\* All three, always, of a chat that no checkpoint is posted for.
THEOREM PlainChatCatchesUp ==
  ASSUME NoCheckpoints, SocketRestarts
  PROVE  Spec => [](ReconnectComplete /\ RestartComplete /\ TicketFresh)
<1>1. Inductive /\ ~room.has => ReconnectComplete /\ RestartComplete /\ TicketFresh
  BY ChatAssumption, CatchUpShows
<1> QED BY <1>1, SpecInductive, PlainRoom, PTL

=============================================================================
