--------------------------- MODULE RegistryCursor ---------------------------
(***************************************************************************)
(* Why a cursor is complete: the inductive invariant behind CursorComplete *)
(* where the socket is the only transport and nobody wipes the room.  A    *)
(* frame stays good while it travels, because the room only ever replaces  *)
(* a row by one with a newer seq, or purges it.                            *)
(*                                                                         *)
(* The parts are operators of a room r, a replica d and the two directions *)
(* of a socket, up and down, so that a lemma can speak of a part before    *)
(* and after a step.                                                       *)
(***************************************************************************)
EXTENDS RegistrySync

\* Every row the room stores has the seq of a batch it accepted.
SeqsOK(r) ==
  \A k \in Keys : IF Exists(r.rows[k]) THEN r.rows[k].seq \in 1 .. r.seq
                                       ELSE r.rows[k].seq = 0

\* A replica, live or saved, is complete up to its cursor.
Complete(r, d) ==
  /\ d.cursor <= r.seq
  /\ \A k \in Keys : Exists(r.rows[k]) /\ r.rows[k].seq <= d.cursor
                       => d.auth[k] = r.rows[k]

\* A table that carries every row the room changed after lo and up to hi, and
\* nothing the room has as it was at lo.
Carries(r, rows, lo, hi) ==
  \A k \in Keys : Exists(r.rows[k]) =>
    /\ r.rows[k].seq > lo /\ r.rows[k].seq <= hi => rows[k] = r.rows[k]
    /\ Exists(rows[k]) => r.rows[k].seq > lo

\* A rows frame has one batch's rows.  Frames are in the order of their seqs.
RowsOK(r, down) ==
  /\ \A i \in DOMAIN down : down[i].t = "rows" =>
       /\ down[i].seq <= r.seq
       /\ Carries(r, down[i].rows, down[i].seq - 1, down[i].seq)
  /\ \A i, j \in DOMAIN down :
       i < j /\ down[i].t = "rows" /\ down[j].t = "rows" => down[i].seq < down[j].seq

\* The hello's answer continues the replica from its cursor, or from nothing.
StateOK(r, d, m) ==
  /\ m.t = "state"
  /\ m.seq <= r.seq
  /\ Carries(r, m.rows, IF m.full THEN 0 ELSE d.cursor, m.seq)

\* The frames from the n-th on are acks, and broadcasts newer than seq.
After(down, n, seq) ==
  \A i \in DOMAIN down : i >= n =>
    /\ down[i].t # "state"
    /\ down[i].t = "rows" => down[i].seq > seq

\* What is on a socket, by how far the client (cn) and the room (sk) have come.
LinkOK(r, d, cn, sk, up, down) ==
  /\ cn = "down" <=> sk = "closed"
  /\ sk # "ready" => down = <<>>
  /\ sk = "new" =>
       /\ cn = "hello"
       /\ \E x \in {NoCursor, d.cursor} : up = <<[t |-> "hello", cursor |-> x]>>
  /\ sk = "ready" => \A i \in DOMAIN up : up[i].t = "push"
  /\ sk = "ready" /\ cn = "hello" =>
       /\ down # <<>>
       /\ StateOK(r, d, down[1])
       /\ After(down, 2, down[1].seq)
  /\ cn \in {"pushing", "up"} => After(down, 1, d.cursor)

\* CursorComplete made inductive, where there is no HTTPS transport and no
\* reset: the room's seqs, both copies of each replica, and what is under way
\* to it.
CursorInv ==
  /\ SeqsOK(room)
  /\ \A c \in Devices :
       /\ Complete(room, doc[c])
       /\ Complete(room, saved[c])
       /\ RowsOK(room, s2c[c])
       /\ LinkOK(room, doc[c], conn[c], socket[c], c2s[c], s2c[c])
       /\ http[c].ph = "idle"

=============================================================================
